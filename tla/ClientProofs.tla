---------------------------- MODULE ClientProofs ----------------------------
(***************************************************************************)
(* Theorems of Client and of the memory under it, for every finite set of  *)
(* prompts, all similarities, thresholds and heuristics, and whatever is   *)
(* fed back.                                                               *)
(***************************************************************************)
EXTENDS Client, SequenceTheorems, FiniteSetTheorems, WellFoundedInduction, TLAPS

Records(a, p) == ~Idle(a) /\ recording[a].prompt = p

\* A process that is about to add a row for a prompt has found none.
Adds(a, p) == Records(a, p) /\ recording[a].found = 0

RowOf(i, p) == i \in DOMAIN rows /\ rows[i].prompt = p

\* Two processes that both add make two rows of a prompt, and none more.
TwoRowsAtMost ==
    \A p \in Prompts :
        /\ \A i, j, k \in DOMAIN rows : RowOf(i, p) /\ RowOf(j, p) /\ RowOf(k, p)
                                          => i = j \/ j = k \/ i = k
        /\ \A a \in Processes : Adds(a, p) =>
              \A i, j \in DOMAIN rows : RowOf(i, p) /\ RowOf(j, p) => i = j
        /\ (\A a \in Processes : Adds(a, p)) => \A i \in DOMAIN rows : ~RowOf(i, p)

\* What a process has found is a row of its prompt.
FoundIsRight ==
    \A a \in Processes : ~Idle(a) /\ recording[a].found # 0
                           => RowOf(recording[a].found, recording[a].prompt)

\* Every row is one of the failures learned; those of a prompt that has not been
\* recorded by two at once are in its only row.
RowsAreLearned ==
    /\ \A i \in DOMAIN rows : rows[i] \in learned
    /\ \A f \in learned : \E i \in DOMAIN rows :
          RowOf(i, f.prompt) /\ (f.prompt \notin raced => rows[i].tier >= f.tier)

Undisturbed ==
    \A p \in Prompts \ raced :
        /\ \A a, b \in Processes : Records(a, p) /\ Records(b, p) => a = b
        /\ \A i, j \in DOMAIN rows : RowOf(i, p) /\ RowOf(j, p) => i = j
        /\ \A a \in Processes : Adds(a, p) => \A i \in DOMAIN rows : ~RowOf(i, p)

MemoryInv ==
    /\ MemoryTypeOK
    /\ TwoRowsAtMost /\ FoundIsRight /\ RowsAreLearned /\ Undisturbed

\* The client's call, the requests it has made and what it was owed.
CallInv ==
    /\ call.at = "sending" => call.attempts < MAX_ATTEMPTS
    /\ call.at # "idle" => call.prompt \in Prompts
    /\ call.at = "idle" => \A n \in Attempts : wire[n] = "none"
    /\ \A n \in Attempts : wire[n] = "recording" => call.failed
    /\ call.at # "idle" => floor <= Learned(call.prompt)

\* The attempts that have failed have left a cause, or were the first 429.
Explained == call.cause # "unknown" \/ call.retried429
FailuresExplained ==
    /\ call.at = "sending" /\ call.attempts # 0 => Explained
    /\ call.at = "waiting" /\ call.attempts = MAX_ATTEMPTS => Explained

ClientInv ==
    /\ MemoryInv /\ TypeOK /\ CallInv
    /\ FailuresExplained /\ FallbackHasCause /\ AdviceHeedsReports

-----------------------------------------------------------------------------
(* Operators of the model. *)

LEMMA Percentage == \A x \in 0..100 : (x # 100 => 100 > x) /\ ~(x > 100)
OBVIOUS

LEMMA SmallestOf ==
    ASSUME NEW S \in SUBSET Nat, S # {}
    PROVE  \E m \in S : \A k \in S : m <= k
<1>1. PICK m \in S : \A k \in S : ~(<<k, m>> \in OpToRel(<, Nat))
  BY NatLessThanWellFounded, WFMin
<1>2. \A k \in S : ~(k < m)
  BY <1>1 DEF OpToRel
<1> QED BY <1>2

LEMMA MaxOfTiers ==
    ASSUME NEW S \in SUBSET Tiers, S # {}
    PROVE  Max(S) \in S /\ \A t \in S : Max(S) >= t
<1>1. \E m \in S : \A t \in S : m >= t
  <2>1. \A t \in S : t \in {0, 1, 2, 3}
    BY DEF Tiers
  <2>2. CASE 3 \in S
    BY <2>1, <2>2
  <2>3. CASE 3 \notin S /\ 2 \in S
    BY <2>1, <2>3
  <2>4. CASE 3 \notin S /\ 2 \notin S /\ 1 \in S
    BY <2>1, <2>4
  <2>5. CASE 3 \notin S /\ 2 \notin S /\ 1 \notin S
    BY <2>1, <2>5
  <2> QED BY <2>2, <2>3, <2>4, <2>5
<1> QED BY <1>1 DEF Max

LEMMA MinOfTiers ==
    ASSUME NEW a \in Tiers, NEW b \in Tiers
    PROVE  Min({a, b}) <= a /\ Min({a, b}) <= b /\ Min({a, b}) \in Tiers
<1>1. \E m \in {a, b} : \A t \in {a, b} : m <= t
  <2>1. CASE a <= b
    BY <2>1 DEF Tiers
  <2>2. CASE b <= a
    BY <2>2 DEF Tiers
  <2> QED BY <2>1, <2>2 DEF Tiers
<1> QED BY <1>1 DEF Min

LEMMA FindFacts ==
    ASSUME rows \in Seq(Failures), NEW p
    PROVE  /\ Find(p) \in 0..Len(rows)
           /\ Find(p) = 0 => \A i \in DOMAIN rows : ~RowOf(i, p)
           /\ Find(p) # 0 => RowOf(Find(p), p)
<1> DEFINE I == {i \in 1..Len(rows) : rows[i].prompt = p}
<1>1. Find(p) = IF I # {} THEN Min(I) ELSE 0
  BY DEF Find, SelectInSeq
<1>2. CASE I = {}
  BY <1>1, <1>2 DEF RowOf
<1>3. CASE I # {}
  <2>1. \E m \in I : \A k \in I : m <= k
    <3>1. I \in SUBSET Nat
      OBVIOUS
    <3> HIDE DEF I
    <3> QED BY <1>3, <3>1, SmallestOf
  <2>2. Min(I) \in I
    BY <2>1 DEF Min
  <2> QED BY <1>1, <1>3, <2>2 DEF RowOf
<1> QED BY <1>2, <1>3

\* With two rows of a prompt at most, there are at most twice as many as prompts.
LEMMA RowsBounded ==
    ASSUME NEW r \in Seq(Failures),
           \A i, j, k \in DOMAIN r :
              r[i].prompt = r[j].prompt /\ r[j].prompt = r[k].prompt
                => i = j \/ j = k \/ i = k
    PROVE  Len(r) <= 2 * Cardinality(Prompts)
<1> DEFINE second(i) == \E j \in DOMAIN r : j < i /\ r[j].prompt = r[i].prompt
           place == [i \in 1..Len(r) |-> <<r[i].prompt, IF second(i) THEN 2 ELSE 1>>]
<1>1. place \in [1..Len(r) -> Prompts \X (1..2)]
  <2>1. \A i \in 1..Len(r) : r[i] \in Failures
    BY ElementOfSeq
  <2>2. \A i \in 1..Len(r) : r[i].prompt \in Prompts
    BY <2>1 DEF Failures
  <2> QED BY <2>2
<1>2. ASSUME NEW i \in 1..Len(r), NEW j \in 1..Len(r), i # j
      PROVE  place[i] # place[j]
  <2>1. SUFFICES ASSUME NEW k \in 1..Len(r), NEW l \in 1..Len(r), k < l
                 PROVE  place[k] # place[l]
    BY <1>2
  <2>2. SUFFICES ASSUME r[k].prompt = r[l].prompt
                 PROVE  second(k) # second(l)
    OBVIOUS
  <2>3. second(l)
    BY <2>1, <2>2
  <2>4. ~second(k)
    BY <2>1, <2>2
  <2> QED BY <2>3, <2>4
<1>3. IsFiniteSet(Prompts) /\ Cardinality(Prompts) \in Nat
  BY MemoryAssumption, FS_CardinalityType
<1>4. /\ IsFiniteSet(Prompts \X (1..2))
      /\ Cardinality(Prompts \X (1..2)) = 2 * Cardinality(Prompts)
  <2>1. IsFiniteSet(1..2) /\ Cardinality(1..2) = 2
    <3>1. /\ IsFiniteSet(1..2)
          /\ Cardinality(1..2) = IF 1 > 2 THEN 0 ELSE 2 - 1 + 1
      BY 1 \in Int, 2 \in Int, FS_Interval, Zenon
    <3> QED BY <3>1
  <2>2. Cardinality(Prompts \X (1..2)) = Cardinality(Prompts) * Cardinality(1..2)
    BY <2>1, <1>3, FS_Product
  <2>3. IsFiniteSet(Prompts \X (1..2))
    BY <2>1, <1>3, FS_Product
  <2>4. Cardinality(Prompts) * 2 = 2 * Cardinality(Prompts)
    BY <1>3
  <2> QED BY <2>1, <2>2, <2>3, <2>4
<1>5. IsFiniteSet(1..Len(r)) /\ Cardinality(1..Len(r)) = Len(r) /\ Len(r) \in Nat
  <2>1. Len(r) \in Nat /\ Len(r) \in Int /\ 1 \in Int
    BY LenProperties
  <2> QED BY <2>1, FS_Interval
<1>6. ~(Cardinality(Prompts \X (1..2)) < Cardinality(1..Len(r)))
  <2> DEFINE S == 1..Len(r)
             T == Prompts \X (1..2)
  <2>1. place \in [S -> T] /\ \A i, j \in S : i # j => place[i] # place[j]
    BY <1>1, <1>2
  <2>2. IsFiniteSet(S) /\ IsFiniteSet(T)
    BY <1>4, <1>5
  <2> HIDE DEF place, S, T
  <2>3. ~(Cardinality(T) < Cardinality(S))
    BY <2>1, <2>2, FS_PigeonHole
  <2> QED BY <2>3 DEF S, T
<1> QED BY <1>3, <1>4, <1>5, <1>6

\* What is recalled is similar enough, and recorded.
LEMMA RecalledFacts ==
    ASSUME NEW p \in Prompts, Recalled(p) # {}
    PROVE  \E i \in DOMAIN rows : /\ Jaccard[p][rows[i].prompt] >= Threshold
                                  /\ Classified(p) = rows[i].tier
BY DEF Recalled, Classified

\* A prompt that has a row, and shares its shingles with no other, recalls it.
LEMMA OwnRecalled ==
    ASSUME rows \in Seq(Failures), NEW p \in Prompts,
           \A q \in Prompts \ {p} : Jaccard[p][q] < 100,
           \E i \in DOMAIN rows : RowOf(i, p)
    PROVE  \E i \in DOMAIN rows : RowOf(i, p) /\ Classified(p) = rows[i].tier
<1>1. \A i \in DOMAIN rows : rows[i].prompt \in Prompts
  <2>1. \A i \in 1..Len(rows) : rows[i] \in Failures
    BY ElementOfSeq
  <2>2. DOMAIN rows = 1..Len(rows)
    BY LenProperties
  <2> QED BY <2>1, <2>2 DEF Failures
<1>2. \A i \in DOMAIN rows : /\ Jaccard[p][rows[i].prompt] \in 0..100
                             /\ (Jaccard[p][rows[i].prompt] = 100) <=> RowOf(i, p)
  <2>1. /\ Jaccard[p][p] = 100
        /\ \A q \in Prompts : Jaccard[p][q] \in 0..100
    BY MemoryAssumption
  <2>2. \A q \in Prompts \ {p} : Jaccard[p][q] # 100
    BY <2>1
  <2> QED BY <1>1, <2>1, <2>2, Zenon DEF RowOf
<1>3. PICK m \in DOMAIN rows : RowOf(m, p) /\ \A i \in DOMAIN rows : RowOf(i, p) => m <= i
  <2> DEFINE S == {i \in DOMAIN rows : RowOf(i, p)}
  <2>1. S \in SUBSET Nat /\ S # {}
    OBVIOUS
  <2> HIDE DEF S
  <2>2. PICK m \in S : \A k \in S : m <= k
    BY <2>1, SmallestOf
  <2> QED BY <2>2 DEF S
<1>4. m \in Recalled(p)
  <2>1. Jaccard[p][rows[m].prompt] >= Threshold
    BY <1>2, <1>3, MemoryAssumption
  <2>2. \A j \in DOMAIN rows :
           \/ Jaccard[p][rows[m].prompt] > Jaccard[p][rows[j].prompt]
           \/ Jaccard[p][rows[m].prompt] = Jaccard[p][rows[j].prompt] /\ m <= j
    <3> TAKE j \in DOMAIN rows
    <3>1. Jaccard[p][rows[m].prompt] = 100
      BY <1>2, <1>3
    <3>2. CASE RowOf(j, p)
      BY <3>1, <3>2, <1>2, <1>3
    <3>3. CASE ~RowOf(j, p)
      BY <3>1, <3>3, <1>2, Percentage, Zenon
    <3> QED BY <3>2, <3>3
  <2> QED BY <2>1, <2>2 DEF Recalled
<1>5. \A i \in Recalled(p) : i \in DOMAIN rows /\ RowOf(i, p)
  <2> TAKE i \in Recalled(p)
  <2>1. /\ i \in DOMAIN rows
        /\ \/ Jaccard[p][rows[i].prompt] > Jaccard[p][rows[m].prompt]
           \/ Jaccard[p][rows[i].prompt] = Jaccard[p][rows[m].prompt]
    BY DEF Recalled
  <2>2. Jaccard[p][rows[m].prompt] = 100 /\ Jaccard[p][rows[i].prompt] \in 0..100
    BY <2>1, <1>2, <1>3
  <2>3. Jaccard[p][rows[i].prompt] = 100
    BY <2>1, <2>2, Percentage, Zenon
  <2> QED BY <2>1, <2>3, <1>2
<1> QED BY <1>4, <1>5 DEF Classified

\* The highest tier learned for a prompt, of a set of failures.
Highest(F, p) == Max({0} \cup {f.tier : f \in {g \in F : g.prompt = p}})

LEMMA HighestFacts ==
    ASSUME NEW F \in SUBSET Failures, NEW p
    PROVE  /\ Highest(F, p) \in Tiers
           /\ \A f \in F : f.prompt = p => f.tier <= Highest(F, p)
           /\ Highest(F, p) # 0 => \E f \in F : f.prompt = p /\ f.tier = Highest(F, p)
<1> DEFINE S == {0} \cup {f.tier : f \in {g \in F : g.prompt = p}}
<1>1. S \in SUBSET Tiers /\ S # {}
  BY DEF Tiers, Failures
<1>2. Highest(F, p) = Max(S)
  BY DEF Highest
<1>3. Max(S) \in S /\ \A t \in S : Max(S) >= t
  <2> HIDE DEF S
  <2> QED BY <1>1, MaxOfTiers
<1>4. \A f \in F : f.prompt = p => f.tier \in S
  OBVIOUS
<1>5. Max(S) # 0 => \E f \in F : f.prompt = p /\ f.tier = Max(S)
  BY <1>3
<1> QED BY <1>1, <1>2, <1>3, <1>4, <1>5 DEF Tiers

LEMMA HighestGrows ==
    ASSUME NEW F \in SUBSET Failures, NEW G \in SUBSET Failures, F \subseteq G, NEW p
    PROVE  Highest(F, p) <= Highest(G, p)
<1>1. Highest(F, p) \in Tiers /\ Highest(G, p) \in Tiers
  BY HighestFacts
<1>2. CASE Highest(F, p) = 0
  BY <1>1, <1>2 DEF Tiers
<1>3. CASE Highest(F, p) # 0
  BY <1>3, HighestFacts
<1> QED BY <1>2, <1>3

-----------------------------------------------------------------------------
(* The memory. *)

LEMMA MaxOfTwo ==
    ASSUME NEW a \in Tiers, NEW b \in Tiers
    PROVE  /\ Max({a, b}) \in {a, b} /\ Max({a, b}) \in Tiers
           /\ Max({a, b}) >= a /\ Max({a, b}) >= b
BY MaxOfTiers

\* A well-typed memory.
LEMMA MemoryTypes ==
    ASSUME MemoryTypeOK
    PROVE  /\ rows \in Seq(Failures) /\ Len(rows) \in Nat /\ DOMAIN rows = 1..Len(rows)
           /\ \A i \in DOMAIN rows : /\ rows[i] \in Failures /\ rows[i].prompt \in Prompts
                                     /\ rows[i].tier \in Tiers
           /\ \A a \in Processes : ~Idle(a) =>
                 /\ recording[a].prompt \in Prompts /\ recording[a].tier \in Tiers
                 /\ recording[a].found \in 0..Len(rows)
<1>1. rows \in Seq(Failures) /\ Len(rows) \in Nat /\ DOMAIN rows = 1..Len(rows)
  BY LenProperties DEF MemoryTypeOK
<1>2. \A i \in DOMAIN rows : rows[i] \in Failures
  BY <1>1, ElementOfSeq
<1>3. \A i \in DOMAIN rows : rows[i].prompt \in Prompts /\ rows[i].tier \in Tiers
  BY <1>2 DEF Failures
<1>4. \A a \in Processes : ~Idle(a) =>
         recording[a] \in [prompt : Prompts, tier : Tiers, found : 0..Len(rows)]
  BY DEF MemoryTypeOK, Idle
<1> QED BY <1>1, <1>2, <1>3, <1>4

LEMMA MemoryInitial == MemoryInit => MemoryInv
<1> SUFFICES ASSUME MemoryInit
             PROVE  MemoryInv
  OBVIOUS
<1>1. rows = <<>> /\ Len(rows) = 0 /\ DOMAIN rows = {} /\ rows \in Seq(Failures)
  BY DEF MemoryInit
<1>2. \A a \in Processes : Idle(a)
  BY DEF MemoryInit, Idle
<1>3. MemoryTypeOK
  <2>1. Len(rows) <= 2 * Cardinality(Prompts)
    BY <1>1, RowsBounded
  <2> QED BY <1>1, <2>1 DEF MemoryInit, MemoryTypeOK
<1>4. TwoRowsAtMost /\ Undisturbed
  BY <1>1, <1>2 DEF TwoRowsAtMost, Undisturbed, Records, Adds
<1>5. FoundIsRight /\ RowsAreLearned
  BY <1>1, <1>2 DEF FoundIsRight, RowsAreLearned, MemoryInit
<1> QED BY <1>3, <1>4, <1>5 DEF MemoryInv

LEMMA SelectStep ==
    ASSUME MemoryInv, NEW a \in Processes, NEW p \in Prompts, NEW t \in Tiers,
           Select(a, p, t)
    PROVE  MemoryInv'
<1> DEFINE r == [prompt |-> p, tier |-> t, found |-> Find(p)]
<1>1. /\ Idle(a) /\ recording' = [recording EXCEPT ![a] = r]
      /\ rows' = rows /\ learned' = learned
  BY DEF Select
<1>2. /\ r.prompt = p /\ r.found = Find(p)
      /\ r \in [prompt : Prompts, tier : Tiers, found : 0..Len(rows)]
      /\ Find(p) = 0 => \A i \in DOMAIN rows : ~RowOf(i, p)
      /\ Find(p) # 0 => RowOf(Find(p), p)
  BY FindFacts, MemoryTypes DEF MemoryInv
<1> HIDE DEF r
<1>3. \A b \in Processes : /\ b # a => recording'[b] = recording[b]
                           /\ b = a => recording'[b] = r
  BY <1>1 DEF MemoryInv, MemoryTypeOK
<1>4. \A b \in Processes : \A q : Records(b, q)' => Records(b, q) \/ (b = a /\ q = p)
  BY <1>2, <1>3 DEF Records, Idle
<1>5. \A b \in Processes : \A q : Adds(b, q)' =>
                 \/ Adds(b, q)
                 \/ q = p /\ \A i \in DOMAIN rows : ~RowOf(i, p)
  BY <1>2, <1>3 DEF Adds, Records, Idle
<1>6. raced \subseteq raced' /\ raced' \subseteq Prompts
  BY DEF Select, MemoryInv, MemoryTypeOK
<1>7. MemoryTypeOK'
  BY <1>1, <1>2, <1>6 DEF MemoryInv, MemoryTypeOK
<1>8. \A i, q : RowOf(i, q)' <=> RowOf(i, q)
  BY <1>1 DEF RowOf
<1>9. TwoRowsAtMost'
  <2> SUFFICES ASSUME NEW q \in Prompts
               PROVE  /\ \A i, j, k \in DOMAIN rows : RowOf(i, q) /\ RowOf(j, q) /\ RowOf(k, q)
                                                       => i = j \/ j = k \/ i = k
                      /\ \A b \in Processes : Adds(b, q)' =>
                            \A i, j \in DOMAIN rows : RowOf(i, q) /\ RowOf(j, q) => i = j
                      /\ (\A b \in Processes : Adds(b, q)') =>
                            \A i \in DOMAIN rows : ~RowOf(i, q)
    BY <1>1, <1>8 DEF TwoRowsAtMost
  <2> QED BY <1>5 DEF MemoryInv, TwoRowsAtMost
<1>10. FoundIsRight'
  <2> SUFFICES ASSUME NEW b \in Processes, ~Idle(b)', recording'[b].found # 0
               PROVE  RowOf(recording'[b].found, recording'[b].prompt)
    BY <1>8 DEF FoundIsRight
  <2> QED BY <1>2, <1>3 DEF MemoryInv, FoundIsRight, Idle
<1>11. RowsAreLearned'
  BY <1>1, <1>6, <1>8 DEF MemoryInv, RowsAreLearned
<1>12. Undisturbed'
  <2> SUFFICES ASSUME NEW q \in Prompts, q \notin raced'
               PROVE  /\ \A b, c \in Processes : Records(b, q)' /\ Records(c, q)' => b = c
                      /\ \A i, j \in DOMAIN rows : RowOf(i, q) /\ RowOf(j, q) => i = j
                      /\ \A b \in Processes : Adds(b, q)' => \A i \in DOMAIN rows : ~RowOf(i, q)
    BY <1>1, <1>8 DEF Undisturbed
  <2>1. q = p => \A b \in Processes : ~Records(b, q)
    BY DEF Select, Records
  <2> QED BY <2>1, <1>4, <1>5, <1>6 DEF MemoryInv, Undisturbed
<1> QED BY <1>7, <1>9, <1>10, <1>11, <1>12 DEF MemoryInv

\* A process that records no more, having written or not.
LEMMA Settled ==
    ASSUME MemoryInv, NEW a \in Processes,
           recording' = [recording EXCEPT ![a] = Nothing], raced' = raced
    PROVE  /\ \A b \in Processes : ~Idle(b)' => b # a /\ ~Idle(b) /\ recording'[b] = recording[b]
           /\ \A b \in Processes : \A q : Records(b, q)' => Records(b, q) /\ b # a
           /\ \A b \in Processes : \A q : Adds(b, q)' => Adds(b, q) /\ b # a
<1>1. recording \in [Processes -> {Nothing} \cup
                         [prompt : Prompts, tier : Tiers, found : 0..Len(rows)]]
  BY DEF MemoryInv, MemoryTypeOK
<1>2. \A b \in Processes :
         recording'[b] = IF b = a THEN Nothing ELSE recording[b]
  BY <1>1
<1>3. \A b \in Processes : ~Idle(b)' => b # a /\ ~Idle(b) /\ recording'[b] = recording[b]
  BY <1>2 DEF Idle
<1> QED BY <1>3 DEF Records, Adds

LEMMA DropStep ==
    ASSUME MemoryInv, NEW a \in Processes,
           recording' = [recording EXCEPT ![a] = Nothing],
           UNCHANGED <<rows, learned, raced>>
    PROVE  MemoryInv'
<1>1. /\ \A b \in Processes : ~Idle(b)' => ~Idle(b) /\ recording'[b] = recording[b]
      /\ \A b \in Processes : \A q : Records(b, q)' => Records(b, q)
      /\ \A b \in Processes : \A q : Adds(b, q)' => Adds(b, q) /\ b # a
  BY Settled
<1>2. \A i, q : RowOf(i, q)' <=> RowOf(i, q)
  BY DEF RowOf
<1>3. MemoryTypeOK'
  BY DEF MemoryInv, MemoryTypeOK
<1>4. TwoRowsAtMost'
  BY <1>1, <1>2 DEF MemoryInv, TwoRowsAtMost
<1>5. FoundIsRight'
  BY <1>1, <1>2 DEF MemoryInv, FoundIsRight
<1>6. RowsAreLearned'
  BY <1>2 DEF MemoryInv, RowsAreLearned
<1>7. Undisturbed'
  BY <1>1, <1>2 DEF MemoryInv, Undisturbed
<1> QED BY <1>3, <1>4, <1>5, <1>6, <1>7 DEF MemoryInv

\* The row that was found gets the tier, if it is higher.
LEMMA UpdateStep ==
    ASSUME MemoryInv, NEW a \in Processes, Write(a), recording[a].found # 0
    PROVE  MemoryInv'
<1> DEFINE n == recording[a].found
           p == recording[a].prompt
           t == recording[a].tier
           failure == [prompt |-> p, tier |-> t]
<1>1. /\ ~Idle(a) /\ p \in Prompts /\ t \in Tiers /\ failure \in Failures
      /\ n \in DOMAIN rows /\ rows[n].prompt = p
  BY MemoryTypes DEF Write, MemoryInv, FoundIsRight, RowOf, Failures
<1>2. /\ rows' = [rows EXCEPT ![n] = Updated(rows[n], t)]
      /\ recording' = [recording EXCEPT ![a] = Nothing]
      /\ learned' = learned \cup {failure} /\ raced' = raced
  BY DEF Write
<1>3. /\ Updated(rows[n], t) \in Failures /\ Updated(rows[n], t).prompt = p
      /\ Updated(rows[n], t) \in {rows[n], failure}
      /\ Updated(rows[n], t).tier >= rows[n].tier /\ Updated(rows[n], t).tier >= t
  <2>1. rows[n] \in Failures /\ rows[n].tier \in Tiers
    BY <1>1, MemoryTypes DEF MemoryInv
  <2>2. /\ Max({rows[n].tier, t}) \in {rows[n].tier, t} /\ Max({rows[n].tier, t}) \in Tiers
        /\ Max({rows[n].tier, t}) >= rows[n].tier /\ Max({rows[n].tier, t}) >= t
    BY <1>1, <2>1, MaxOfTwo
  <2>3. Updated(rows[n], t) = [prompt |-> p, tier |-> Max({rows[n].tier, t})]
    BY <1>1, <2>1 DEF Updated, Failures
  <2>4. rows[n] = [prompt |-> p, tier |-> rows[n].tier]
    BY <1>1, <2>1 DEF Failures
  <2> QED BY <1>1, <2>1, <2>2, <2>3, <2>4 DEF Failures
<1> HIDE DEF n, p, t, failure
<1>4. /\ rows' \in Seq(Failures) /\ Len(rows') = Len(rows) /\ DOMAIN rows' = DOMAIN rows
      /\ \A i \in DOMAIN rows :
            rows'[i] = IF i = n THEN Updated(rows[n], t) ELSE rows[i]
  BY <1>1, <1>2, <1>3, MemoryTypes, ExceptSeq, LenProperties DEF MemoryInv
<1>5. \A i, q : RowOf(i, q)' <=> RowOf(i, q)
  BY <1>1, <1>3, <1>4 DEF RowOf
<1>6. /\ \A b \in Processes : ~Idle(b)' => ~Idle(b) /\ recording'[b] = recording[b]
      /\ \A b \in Processes : \A q : Records(b, q)' => Records(b, q)
      /\ \A b \in Processes : \A q : Adds(b, q)' => Adds(b, q)
  BY <1>2, Settled
<1>7. MemoryTypeOK'
  BY <1>1, <1>2, <1>4 DEF MemoryInv, MemoryTypeOK, Failures, failure
<1>8. TwoRowsAtMost'
  BY <1>4, <1>5, <1>6 DEF MemoryInv, TwoRowsAtMost
<1>9. FoundIsRight'
  BY <1>5, <1>6 DEF MemoryInv, FoundIsRight
<1>10. RowsAreLearned'
  <2>1. \A i \in DOMAIN rows' : rows'[i] \in learned'
    BY <1>2, <1>3, <1>4 DEF MemoryInv, RowsAreLearned
  <2>2. ASSUME NEW f \in learned'
        PROVE  \E i \in DOMAIN rows' :
                  RowOf(i, f.prompt)' /\ (f.prompt \notin raced => rows'[i].tier >= f.tier)
    <3>1. CASE f \in learned
      <4>1. PICK i \in DOMAIN rows :
               RowOf(i, f.prompt) /\ (f.prompt \notin raced => rows[i].tier >= f.tier)
        BY <3>1 DEF MemoryInv, RowsAreLearned
      <4>2. rows[i].tier \in Tiers /\ rows'[i].tier \in Tiers /\ f.tier \in Tiers
        BY <3>1, <1>3, <1>4, MemoryTypes DEF MemoryInv, MemoryTypeOK, Failures
      <4>3. rows'[i].tier >= rows[i].tier
        BY <1>3, <1>4, <4>2 DEF Tiers
      <4>4. f.prompt \notin raced => rows'[i].tier >= f.tier
        BY <4>1, <4>2, <4>3 DEF Tiers
      <4> QED BY <4>1, <4>4, <1>4, <1>5
    <3>2. CASE f = failure
      <4>1. RowOf(n, f.prompt) /\ f.tier = t
        BY <3>2, <1>1 DEF RowOf, failure
      <4>2. rows'[n].tier >= t
        BY <1>1, <1>3, <1>4
      <4> QED BY <4>1, <4>2, <1>1, <1>4, <1>5
    <3> QED BY <1>2, <3>1, <3>2
  <2> QED BY <1>2, <2>1, <2>2 DEF RowsAreLearned
<1>11. Undisturbed'
  BY <1>2, <1>4, <1>5, <1>6 DEF MemoryInv, Undisturbed
<1> QED BY <1>7, <1>8, <1>9, <1>10, <1>11 DEF MemoryInv

\* No row was found, and one is added.
LEMMA AddStep ==
    ASSUME MemoryInv, NEW a \in Processes, Write(a), recording[a].found = 0,
           NEW p, p = recording[a].prompt, NEW t, t = recording[a].tier,
           NEW n, n = Len(rows) + 1
    PROVE  MemoryInv'
<1> DEFINE failure == [prompt |-> p, tier |-> t]
<1>1. /\ ~Idle(a) /\ p \in Prompts /\ t \in Tiers /\ failure \in Failures
      /\ failure.prompt = p /\ failure.tier = t
      /\ Adds(a, p)
  BY MemoryTypes DEF Write, MemoryInv, Failures, Adds, Records
<1>2. /\ rows' = Append(rows, failure)
      /\ recording' = [recording EXCEPT ![a] = Nothing]
      /\ learned' = learned \cup {failure} /\ raced' = raced
  BY DEF Write
<1> HIDE DEF failure
<1>3. /\ Len(rows) \in Nat /\ DOMAIN rows = 1..Len(rows)
      /\ n \notin DOMAIN rows /\ DOMAIN rows' = DOMAIN rows \cup {n}
      /\ rows' \in Seq(Failures) /\ Len(rows') = n
      /\ \A i \in DOMAIN rows : rows'[i] = rows[i]
      /\ rows'[n] = failure
  <2>1. rows \in Seq(Failures) /\ Len(rows) \in Nat /\ DOMAIN rows = 1..Len(rows)
    BY MemoryTypes DEF MemoryInv
  <2>2. /\ rows' \in Seq(Failures) /\ Len(rows') = n
        /\ \A i \in 1..Len(rows) : rows'[i] = rows[i]
        /\ rows'[n] = failure
    BY <1>1, <1>2, <2>1, AppendProperties
  <2>3. DOMAIN rows' = 1..n
    BY <2>2, LenProperties
  <2> QED BY <2>1, <2>2, <2>3
<1>4. \A i, q : RowOf(i, q)' <=> RowOf(i, q) \/ (i = n /\ q = p)
  BY <1>1, <1>3 DEF RowOf
<1>5. \A q : ~RowOf(n, q)
  BY <1>3 DEF RowOf
<1>6. /\ \A b \in Processes : ~Idle(b)' => ~Idle(b) /\ recording'[b] = recording[b]
      /\ \A b \in Processes : \A q : Records(b, q)' => Records(b, q) /\ b # a
      /\ \A b \in Processes : \A q : Adds(b, q)' => Adds(b, q) /\ b # a
  BY <1>2, Settled
<1>7. \A b \in Processes : Adds(b, p)' => \A c \in Processes : Adds(c, p)
  BY <1>1, <1>6, ClientAssumption
<1>8. TwoRowsAtMost'
  <2> SUFFICES ASSUME NEW q \in Prompts
               PROVE  /\ \A i, j, k \in DOMAIN rows' :
                            RowOf(i, q)' /\ RowOf(j, q)' /\ RowOf(k, q)' => i = j \/ j = k \/ i = k
                      /\ \A b \in Processes : Adds(b, q)' =>
                            \A i, j \in DOMAIN rows' : RowOf(i, q)' /\ RowOf(j, q)' => i = j
                      /\ (\A b \in Processes : Adds(b, q)') =>
                            \A i \in DOMAIN rows' : ~RowOf(i, q)'
    BY DEF TwoRowsAtMost
  <2>1. CASE q # p
    <3>1. \A i : RowOf(i, q)' <=> RowOf(i, q)
      BY <1>4, <2>1
    <3>2. \A i : RowOf(i, q) => i \in DOMAIN rows
      BY DEF RowOf
    <3> QED BY <3>1, <3>2, <1>6 DEF MemoryInv, TwoRowsAtMost
  <2>2. CASE q = p
    <3>1. \A i, j \in DOMAIN rows : RowOf(i, p) /\ RowOf(j, p) => i = j
      BY <1>1 DEF MemoryInv, TwoRowsAtMost
    <3>2. ASSUME NEW b \in Processes, Adds(b, p)'
          PROVE  \A i \in DOMAIN rows : ~RowOf(i, p)
      BY <3>2, <1>1, <1>7 DEF MemoryInv, TwoRowsAtMost
    <3>3. ~Adds(a, p)'
      BY <1>6
    <3>4. \A i : RowOf(i, p) => i \in DOMAIN rows
      BY DEF RowOf
    <3> QED BY <2>2, <3>1, <3>2, <3>3, <3>4, <1>4
  <2> QED BY <2>1, <2>2
<1>9. MemoryTypeOK'
  <2>1. Len(rows') <= 2 * Cardinality(Prompts)
    <3>1. ASSUME NEW i \in DOMAIN rows', NEW j \in DOMAIN rows', NEW k \in DOMAIN rows',
                 rows'[i].prompt = rows'[j].prompt /\ rows'[j].prompt = rows'[k].prompt
          PROVE  i = j \/ j = k \/ i = k
      <4>1. rows'[i].prompt \in Prompts
        <5>1. rows'[i] \in Failures
          BY <1>3, ElementOfSeq, LenProperties
        <5> QED BY <5>1 DEF Failures
      <4> QED BY <3>1, <4>1, <1>8 DEF TwoRowsAtMost, RowOf
    <3> QED BY <3>1, <1>3, RowsBounded
  <2>2. recording' \in [Processes -> {Nothing} \cup
                            [prompt : Prompts, tier : Tiers, found : 0..Len(rows')]]
    <3>1. 0..Len(rows) \subseteq 0..Len(rows')
      BY <1>3
    <3>2. recording' \in [Processes -> {Nothing} \cup
                            [prompt : Prompts, tier : Tiers, found : 0..Len(rows)]]
      BY <1>2 DEF MemoryInv, MemoryTypeOK
    <3> QED BY <3>1, <3>2
  <2> QED BY <1>1, <1>2, <1>3, <2>1, <2>2 DEF MemoryInv, MemoryTypeOK
<1>10. FoundIsRight'
  BY <1>4, <1>6 DEF MemoryInv, FoundIsRight
<1>11. RowsAreLearned'
  <2>1. \A i \in DOMAIN rows' : rows'[i] \in learned'
    BY <1>2, <1>3 DEF MemoryInv, RowsAreLearned
  <2>2. \A f \in learned : \E i \in DOMAIN rows' :
           RowOf(i, f.prompt)' /\ (f.prompt \notin raced => rows'[i].tier >= f.tier)
    BY <1>3, <1>4 DEF MemoryInv, RowsAreLearned
  <2>3. RowOf(n, p)' /\ rows'[n].tier >= t /\ n \in DOMAIN rows'
    <3>1. t >= t
      BY <1>1 DEF Tiers
    <3> QED BY <3>1, <1>1, <1>3, <1>4
  <2> QED BY <1>1, <1>2, <2>1, <2>2, <2>3 DEF RowsAreLearned
<1>12. Undisturbed'
  <2> SUFFICES ASSUME NEW q \in Prompts, q \notin raced
               PROVE  /\ \A b, c \in Processes : Records(b, q)' /\ Records(c, q)' => b = c
                      /\ \A i, j \in DOMAIN rows' : RowOf(i, q)' /\ RowOf(j, q)' => i = j
                      /\ \A b \in Processes : Adds(b, q)' => \A i \in DOMAIN rows' : ~RowOf(i, q)'
    BY <1>2 DEF Undisturbed
  <2>1. \A b, c \in Processes : Records(b, q)' /\ Records(c, q)' => b = c
    BY <1>6 DEF MemoryInv, Undisturbed
  <2>2. \A i : RowOf(i, q) => i \in DOMAIN rows
    BY DEF RowOf
  <2>3. CASE q # p
    BY <2>1, <2>2, <2>3, <1>4, <1>6 DEF MemoryInv, Undisturbed
  <2>4. CASE q = p
    <3>1. \A i \in DOMAIN rows : ~RowOf(i, p)
      BY <2>4, <1>1 DEF MemoryInv, Undisturbed
    <3>2. \A b \in Processes : ~Adds(b, p)'
      <4>1. \A b \in Processes : Records(b, p) => b = a
        BY <2>4, <1>1 DEF MemoryInv, Undisturbed, Adds
      <4> QED BY <4>1, <1>6 DEF Adds
    <3> QED BY <2>1, <2>2, <2>4, <3>1, <3>2, <1>4
  <2> QED BY <2>3, <2>4
<1> QED BY <1>8, <1>9, <1>10, <1>11, <1>12 DEF MemoryInv

LEMMA WriteStep ==
    ASSUME MemoryInv, NEW a \in Processes, Write(a)
    PROVE  MemoryInv'
BY AddStep, UpdateStep

-----------------------------------------------------------------------------
(* The client and the server. *)

Calls == [at : {"idle", "sending", "waiting", "available", "fallback"},
          prompt : Prompts \cup {"none"}, failed : BOOLEAN,
          attempts : 0..MAX_ATTEMPTS, retried429 : BOOLEAN,
          cause : Causes, tier : Tiers]

\* What the server can see of a step: it learns more, and answers less.
ServerGoesOn ==
    /\ MemoryInv'
    /\ learned \subseteq learned' /\ raced \subseteq raced'
    /\ wire' \in [Attempts -> {"none", "sent", "recording"}]
    /\ \A n \in Attempts : \/ wire'[n] = wire[n] \/ wire'[n] = "none"
                           \/ call.at # "idle" /\ call.failed

LEMMA LearnedTyped ==
    ASSUME MemoryInv, NEW p
    PROVE  Learned(p) \in Tiers
<1>1. Learned(p) = Highest(learned, p) /\ learned \in SUBSET Failures
  BY DEF Learned, Highest, MemoryInv, MemoryTypeOK
<1> QED BY <1>1, HighestFacts

\* The tier of a prompt is at least what was learned for it.
LEMMA ClassifiedFacts ==
    ASSUME MemoryInv, NEW p \in Prompts
    PROVE  /\ Classified(p) \in Tiers
           /\ Alone(p) => Classified(p) >= Learned(p)
<1>1. Classified(p) \in Tiers
  BY RecalledFacts, MemoryTypes, MemoryAssumption DEF Classified, MemoryInv
<1>2. Learned(p) = Highest(learned, p) /\ learned \in SUBSET Failures
  BY DEF Learned, Highest, MemoryInv, MemoryTypeOK
<1>3. CASE Learned(p) = 0
  BY <1>1, <1>3 DEF Tiers
<1>4. ASSUME Learned(p) # 0, Alone(p)
      PROVE  Classified(p) >= Learned(p)
  <2>1. PICK f \in learned : f.prompt = p /\ f.tier = Learned(p)
    BY <1>2, <1>4, HighestFacts
  <2>2. PICK i \in DOMAIN rows : RowOf(i, p) /\ rows[i].tier >= f.tier
    BY <1>4, <2>1 DEF MemoryInv, RowsAreLearned, Alone
  <2>3. PICK j \in DOMAIN rows : RowOf(j, p) /\ Classified(p) = rows[j].tier
    <3>1. rows \in Seq(Failures) /\ \A q \in Prompts \ {p} : Jaccard[p][q] < 100
      BY <1>4 DEF MemoryInv, MemoryTypeOK, Alone
    <3> QED BY <2>2, <3>1, OwnRecalled
  <2>4. i = j
    BY <1>4, <2>2, <2>3 DEF MemoryInv, Undisturbed, Alone
  <2> QED BY <2>1, <2>2, <2>3, <2>4
<1> QED BY <1>1, <1>3, <1>4

LEMMA ClientInitial == Init => ClientInv
<1> SUFFICES ASSUME Init
             PROVE  ClientInv
  OBVIOUS
<1>1. MemoryInv
  BY MemoryInitial DEF Init
<1>2. TypeOK
  BY <1>1 DEF Init, TypeOK, MemoryInv, NoCall, Causes, Tiers, MAX_ATTEMPTS
<1>3. CallInv /\ FailuresExplained /\ FallbackHasCause /\ AdviceHeedsReports
  BY DEF Init, NoCall, CallInv, FailuresExplained, FallbackHasCause, AdviceHeedsReports
<1> QED BY <1>1, <1>2, <1>3 DEF ClientInv

LEMMA LearnedGrows ==
    ASSUME MemoryInv, MemoryInv', learned \subseteq learned', NEW p
    PROVE  /\ Highest(learned, p) = Learned(p) /\ Highest(learned', p) = Learned(p)'
           /\ Highest(learned, p) \in Tiers /\ Highest(learned', p) \in Tiers
           /\ Highest(learned, p) <= Highest(learned', p)
<1>1. learned \in SUBSET Failures /\ learned' \in SUBSET Failures
  BY DEF MemoryInv, MemoryTypeOK
<1>2. Highest(learned, p) = Learned(p) /\ Highest(learned', p) = Learned(p)'
  BY DEF Learned, Highest
<1> QED BY <1>1, <1>2, HighestFacts, HighestGrows

\* The server's steps do not touch the call.
LEMMA CallKept ==
    ASSUME ClientInv, ServerGoesOn, call' = call, floor' = floor
    PROVE  ClientInv'
<1>1. TypeOK'
  BY DEF ClientInv, TypeOK, ServerGoesOn, MemoryInv
<1>2. CallInv'
  <2>1. call.at # "idle" => floor <= Learned(call.prompt)'
    <3>1. /\ Highest(learned, call.prompt) = Learned(call.prompt)
          /\ Highest(learned', call.prompt) = Learned(call.prompt)'
          /\ Highest(learned, call.prompt) <= Highest(learned', call.prompt)
          /\ Highest(learned, call.prompt) \in Tiers /\ Highest(learned', call.prompt) \in Tiers
      BY LearnedGrows DEF ClientInv, ServerGoesOn, Learned, Highest
    <3> QED BY <3>1 DEF ClientInv, TypeOK, CallInv, Tiers
  <2> QED BY <2>1 DEF ClientInv, CallInv, ServerGoesOn
<1>3. FailuresExplained' /\ FallbackHasCause'
  BY DEF ClientInv, FailuresExplained, Explained, FallbackHasCause
<1>4. AdviceHeedsReports'
  BY DEF ClientInv, AdviceHeedsReports, Alone, ServerGoesOn
<1> QED BY <1>1, <1>2, <1>3, <1>4 DEF ClientInv, ServerGoesOn

\* An attempt that is over, and that was not answered with 200.
LEMMA AfterStep ==
    ASSUME ClientInv, ServerGoesOn, call.at = "waiting",
           NEW cause \in Causes \ {"unknown"}, call' = After(cause), floor' \in {0, floor}
    PROVE  ClientInv'
<1>1. call \in Calls /\ floor \in Tiers
  BY DEF ClientInv, TypeOK, Calls
<1>2. /\ call' \in Calls
      /\ call'.at \in {"sending", "fallback"}
      /\ call'.at = "sending" => call'.attempts < MAX_ATTEMPTS
      /\ call'.prompt = call.prompt /\ call'.failed = call.failed
      /\ FailuresExplained' /\ FallbackHasCause'
  <2> DEFINE first == cause = "429" /\ ~call.retried429
             at == IF cause \in {"503", "transport"} \/ first
                   THEN IF call.attempts < MAX_ATTEMPTS THEN "sending" ELSE "fallback"
                   ELSE "fallback"
             said == IF first THEN call.cause ELSE cause
             twice == call.retried429 \/ cause = "429"
  <2>1. call' = [call EXCEPT !.at = at, !.cause = said, !.retried429 = twice]
    BY DEF After
  <2>2. at \in {"sending", "fallback"} /\ (at = "sending" => call.attempts < MAX_ATTEMPTS)
    OBVIOUS
  <2>3. said \in Causes
    BY <1>1 DEF Calls
  <2>4. twice \in BOOLEAN
    BY Zenon
  <2>5. /\ at = "sending" => said # "unknown" \/ twice
        /\ at = "fallback" => said # "unknown"
    <3>1. CASE first
      <4>1. said = call.cause /\ twice /\ ~call.retried429
        BY <3>1
      <4>2. CASE call.attempts < MAX_ATTEMPTS
        BY <3>1, <4>1, <4>2
      <4>3. CASE ~(call.attempts < MAX_ATTEMPTS)
        <5>1. call.attempts = MAX_ATTEMPTS
          BY <1>1, <4>3 DEF Calls, MAX_ATTEMPTS
        <5>2. call.cause # "unknown"
          BY <4>1, <5>1 DEF ClientInv, FailuresExplained, Explained
        <5> QED BY <4>1, <5>2
      <4> QED BY <4>2, <4>3
    <3>2. CASE ~first
      BY <3>2
    <3> QED BY <3>1, <3>2
  <2> HIDE DEF at, said, twice, first
  <2>6. /\ call'.at = at /\ call'.cause = said
        /\ call'.retried429 = twice
        /\ call'.prompt = call.prompt /\ call'.failed = call.failed
        /\ call'.attempts = call.attempts
    BY <1>1, <2>1 DEF Calls
  <2>7. call' = [at |-> at, prompt |-> call.prompt, failed |-> call.failed,
                 attempts |-> call.attempts, retried429 |-> twice,
                 cause |-> said, tier |-> call.tier]
    BY <1>1, <2>1 DEF Calls
  <2>8. call' \in Calls
    BY <1>1, <2>2, <2>3, <2>4, <2>7 DEF Calls
  <2>9. FailuresExplained' /\ FallbackHasCause'
    BY <2>2, <2>5, <2>6 DEF FailuresExplained, Explained, FallbackHasCause
  <2> QED BY <2>2, <2>6, <2>8, <2>9
<1>3. TypeOK'
  BY <1>1, <1>2 DEF Calls, TypeOK, ServerGoesOn, MemoryInv, Tiers
<1>4. CallInv'
  <2>1. /\ Highest(learned, call.prompt) = Learned(call.prompt)
        /\ Highest(learned', call.prompt) \in Tiers
        /\ Highest(learned, call.prompt) \in Tiers
        /\ Highest(learned, call.prompt) <= Highest(learned', call.prompt)
    BY LearnedGrows DEF ClientInv, ServerGoesOn
  <2>2. Learned(call.prompt)' = Highest(learned', call.prompt)
    BY <1>2 DEF Learned, Highest
  <2>3. floor <= Learned(call.prompt)
    BY DEF ClientInv, CallInv
  <2>4. floor' <= Learned(call.prompt)'
    BY <1>1, <2>1, <2>2, <2>3 DEF Tiers
  <2> QED BY <1>2, <2>4 DEF ClientInv, CallInv, ServerGoesOn
<1>5. AdviceHeedsReports'
  BY <1>2 DEF AdviceHeedsReports
<1> QED BY <1>2, <1>3, <1>4, <1>5 DEF ClientInv, ServerGoesOn

\* An answer with a tier that heeds what was learned when the client called.
LEMMA AnswerStep ==
    ASSUME ClientInv, ServerGoesOn, call.at = "waiting", NEW t \in Tiers,
           call' = [call EXCEPT !.at = "available", !.tier = t], floor' \in {0, floor},
           Alone(call.prompt) =>
              t >= IF call.failed THEN Min({floor', TOOL_ERROR_TIER}) ELSE floor'
    PROVE  ClientInv'
<1>1. call \in Calls /\ floor \in Tiers
  BY DEF ClientInv, TypeOK, Calls
<1>2. /\ call' \in Calls /\ call'.at = "available" /\ call'.tier = t
      /\ call'.prompt = call.prompt /\ call'.failed = call.failed
  BY <1>1 DEF Calls
<1>3. TypeOK'
  BY <1>1, <1>2 DEF Calls, TypeOK, ServerGoesOn, MemoryInv, Tiers
<1>4. CallInv'
  <2>1. /\ Highest(learned, call.prompt) = Learned(call.prompt)
        /\ Highest(learned', call.prompt) \in Tiers
        /\ Highest(learned, call.prompt) \in Tiers
        /\ Highest(learned, call.prompt) <= Highest(learned', call.prompt)
    BY LearnedGrows DEF ClientInv, ServerGoesOn
  <2>2. Learned(call.prompt)' = Highest(learned', call.prompt)
    BY <1>2 DEF Learned, Highest
  <2>3. floor <= Learned(call.prompt)
    BY DEF ClientInv, CallInv
  <2>4. floor' <= Learned(call.prompt)'
    BY <1>1, <2>1, <2>2, <2>3 DEF Tiers
  <2> QED BY <1>2, <2>4 DEF ClientInv, CallInv, ServerGoesOn
<1>5. FailuresExplained' /\ FallbackHasCause'
  BY <1>2 DEF FailuresExplained, FallbackHasCause
<1>6. AdviceHeedsReports'
  BY <1>2 DEF AdviceHeedsReports, Alone, ServerGoesOn
<1> QED BY <1>3, <1>4, <1>5, <1>6 DEF ClientInv, ServerGoesOn

\* A request that is answered, whatever its answer and whoever still reads it.
LEMMA ReplyStep ==
    ASSUME ClientInv, NEW n \in Attempts, NEW t \in Tiers, Reply(n, t),
           MemoryInv', learned \subseteq learned', raced \subseteq raced',
           floor' = floor \/ (Waits(n) /\ floor' = 0),
           Alone(call.prompt) /\ Waits(n) =>
              t >= IF call.failed THEN Min({floor', TOOL_ERROR_TIER}) ELSE floor'
    PROVE  ClientInv'
<1>1. ServerGoesOn
  BY DEF Reply, ServerGoesOn, ClientInv, TypeOK, Attempts
<1>2. "503" \in Causes \ {"unknown"} /\ floor' \in {0, floor}
  BY DEF Causes
<1>3. CASE Waits(n)
  <2>1. call.at = "waiting"
    BY <1>3 DEF Waits
  <2>2. \/ call' = [call EXCEPT !.at = "available", !.tier = t]
        \/ call' = After("503")
    BY <1>3 DEF Reply
  <2> QED BY <1>1, <1>2, <1>3, <2>1, <2>2, AnswerStep, AfterStep
<1>4. CASE ~Waits(n)
  <2>1. call' = call /\ floor' = floor
    BY <1>4 DEF Reply
  <2> QED BY <1>1, <2>1, CallKept
<1> QED BY <1>3, <1>4

\* While the memory is left alone.
LEMMA MemoryKept ==
    ASSUME MemoryInv, UNCHANGED memory
    PROVE  MemoryInv' /\ learned \subseteq learned' /\ raced \subseteq raced'
BY DEF memory, MemoryInv, MemoryTypeOK, TwoRowsAtMost, FoundIsRight, RowsAreLearned,
       Undisturbed, Records, Adds, RowOf, Idle

LEMMA ClientActs ==
    ASSUME ClientInv, ClientStep \/ \E p \in Asked, failed \in BOOLEAN : Call(p, failed)
    PROVE  ClientInv'
<1>1. /\ call \in Calls /\ floor \in Tiers
      /\ wire \in [Attempts -> {"none", "sent", "recording"}]
      /\ learned \in SUBSET Failures
  BY DEF ClientInv, TypeOK, MemoryTypeOK, Calls
<1>2. UNCHANGED memory
  BY DEF ClientStep, Send, TurnedAway, GivesUp, Return, Call
<1>3. MemoryInv' /\ learned' = learned /\ raced' = raced
  BY <1>2, MemoryKept DEF ClientInv, memory
<1>4. ASSUME NEW p \in Asked, NEW failed \in BOOLEAN, Call(p, failed)
      PROVE  ClientInv'
  <2>1. /\ call' \in Calls /\ call'.at = "sending" /\ call'.prompt = p
        /\ call'.attempts = 0 /\ wire' = wire /\ floor' = Learned(p)
        /\ \A n \in Attempts : wire[n] = "none"
    <3>1. /\ floor' = Learned(p) /\ wire' = wire /\ call.at = "idle"
          /\ call' = [NoCall EXCEPT !.at = "sending", !.prompt = p, !.failed = failed]
      BY <1>4 DEF Call
    <3>2. call' = [at |-> "sending", prompt |-> p, failed |-> failed, attempts |-> 0,
                   retried429 |-> FALSE, cause |-> "unknown",
                   tier |-> 0]
      BY <3>1 DEF NoCall
    <3>3. 0 \in 0..MAX_ATTEMPTS /\ "unknown" \in Causes /\ 0 \in Tiers
      BY DEF MAX_ATTEMPTS, Causes, Tiers
    <3>4. call' \in Calls
      BY <3>2, <3>3, ClientAssumption DEF Calls
    <3>5. \A n \in Attempts : wire[n] = "none"
      BY <3>1 DEF ClientInv, CallInv
    <3>6. call'.at = "sending" /\ call'.prompt = p /\ call'.attempts = 0
      BY <3>2
    <3> QED BY <3>1, <3>4, <3>5, <3>6
  <2>2. p \in Prompts /\ Learned(p) \in Tiers /\ Learned(p)' = Learned(p)
    <3>1. p \in Prompts /\ Learned(p)' = Learned(p)
      BY <1>3, ClientAssumption DEF Learned
    <3> QED BY <3>1, LearnedTyped DEF ClientInv
  <2>3. TypeOK'
    BY <1>1, <1>3, <2>1, <2>2 DEF TypeOK, Calls, MemoryInv
  <2>4. CallInv'
    <3>1. floor' <= Learned(call.prompt)'
      BY <1>3, <2>1, <2>2 DEF Tiers, Learned
    <3> QED BY <1>4, <2>1, <2>2, <3>1 DEF CallInv, MAX_ATTEMPTS
  <2>5. FailuresExplained' /\ FallbackHasCause' /\ AdviceHeedsReports'
    BY <2>1 DEF FailuresExplained, FallbackHasCause, AdviceHeedsReports
  <2> QED BY <1>3, <2>3, <2>4, <2>5 DEF ClientInv
<1>5. CASE Send
  <2>1. call.at = "sending" /\ call.attempts < MAX_ATTEMPTS /\ call.prompt \in Prompts
    BY <1>5 DEF Send, ClientInv, CallInv
  <2>2. /\ call' \in Calls /\ call'.at = "waiting" /\ call'.prompt = call.prompt
        /\ call'.failed = call.failed
    <3>1. call' = [call EXCEPT !.at = "waiting", !.attempts = call.attempts + 1]
      BY <1>5 DEF Send
    <3>2. call' = [at |-> "waiting", prompt |-> call.prompt, failed |-> call.failed,
                   attempts |-> call.attempts + 1, retried429 |-> call.retried429,
                   cause |-> call.cause, tier |-> call.tier]
      BY <1>1, <3>1 DEF Calls
    <3>3. call.attempts + 1 \in 0..MAX_ATTEMPTS
      BY <1>1, <2>1 DEF Calls, MAX_ATTEMPTS
    <3>4. call' \in Calls
      BY <1>1, <3>2, <3>3 DEF Calls
    <3> QED BY <3>2, <3>4
  <2>7. /\ call'.attempts = call.attempts + 1 /\ call'.cause = call.cause
        /\ call'.retried429 = call.retried429
    BY <1>1, <1>5 DEF Send, Calls
  <2>3. /\ floor' = floor
        /\ wire' \in [Attempts -> {"none", "sent", "recording"}]
        /\ \A n \in Attempts : wire'[n] = wire[n] \/ wire'[n] = "sent"
    BY <1>1, <1>5 DEF Send
  <2>4. TypeOK'
    BY <1>1, <1>3, <2>2, <2>3 DEF TypeOK, Calls, MemoryInv
  <2>5. CallInv'
    <3>1. Learned(call.prompt)' = Learned(call.prompt)
      BY <1>3, <2>2 DEF Learned
    <3> QED BY <2>1, <2>2, <2>3, <3>1 DEF ClientInv, CallInv
  <2>6. FallbackHasCause' /\ AdviceHeedsReports'
    BY <2>2 DEF FallbackHasCause, AdviceHeedsReports
  <2>8. FailuresExplained'
    <3>1. call'.attempts = MAX_ATTEMPTS => call.attempts # 0
      BY <1>1, <2>7 DEF Calls, MAX_ATTEMPTS
    <3> QED BY <2>1, <2>2, <2>7, <3>1 DEF ClientInv, FailuresExplained, Explained
  <2> QED BY <1>3, <2>4, <2>5, <2>6, <2>8 DEF ClientInv
<1>6. CASE TurnedAway \/ GivesUp
  <2>1. ServerGoesOn /\ call.at = "waiting" /\ floor' = floor
    BY <1>1, <1>3, <1>6 DEF TurnedAway, GivesUp, Waits, ServerGoesOn
  <2>2. \E cause \in Causes \ {"unknown"} : call' = After(cause)
    BY <1>6 DEF TurnedAway, GivesUp, Causes
  <2> QED BY <2>1, <2>2, AfterStep
<1>7. CASE Return
  <2>1. /\ call' = NoCall /\ floor' = 0 /\ wire' = wire
        /\ \A n \in Attempts : wire[n] = "none"
    BY <1>7 DEF Return
  <2>2. TypeOK'
    BY <1>1, <1>3, <2>1 DEF TypeOK, NoCall, Causes, Tiers, MAX_ATTEMPTS, MemoryInv
  <2>3. CallInv' /\ FailuresExplained' /\ FallbackHasCause' /\ AdviceHeedsReports'
    BY <2>1 DEF NoCall, CallInv, FailuresExplained, FallbackHasCause, AdviceHeedsReports
  <2> QED BY <1>3, <2>2, <2>3 DEF ClientInv
<1> QED BY <1>4, <1>5, <1>6, <1>7 DEF ClientStep

LEMMA ServerActs ==
    ASSUME ClientInv, NEW n \in Attempts,
           HandlePlain(n) \/ HandleUnchecked(n) \/ HandleFailed(n)
    PROVE  ClientInv'
<1>1. /\ MemoryInv /\ call.at # "idle" /\ call.prompt \in Prompts
      /\ floor \in Tiers /\ floor <= Learned(call.prompt)
  BY DEF HandlePlain, HandleUnchecked, HandleFailed, ClientInv, CallInv, TypeOK
<1>2. CASE HandlePlain(n)
  <2>1. /\ Classified(call.prompt) \in Tiers
        /\ Alone(call.prompt) => Classified(call.prompt) >= Learned(call.prompt)
    BY <1>1, ClassifiedFacts
  <2>2. Learned(call.prompt) \in Tiers
    BY <1>1, LearnedTyped
  <2>3. /\ Reply(n, Classified(call.prompt)) /\ ~call.failed /\ floor' = floor
        /\ UNCHANGED memory
    BY <1>2 DEF HandlePlain
  <2>4. Alone(call.prompt) => Classified(call.prompt) >= floor'
    BY <1>1, <2>1, <2>2, <2>3 DEF Tiers
  <2>5. MemoryInv' /\ learned \subseteq learned' /\ raced \subseteq raced'
    BY <1>1, <2>3, MemoryKept
  <2> QED BY <2>1, <2>3, <2>4, <2>5, ReplyStep
<1>3. CASE HandleUnchecked(n)
  <2>1. /\ Reply(n, Heuristic[call.prompt]) /\ ~call.failed /\ UNCHANGED memory
        /\ floor' = IF Waits(n) THEN 0 ELSE floor
    BY <1>3 DEF HandleUnchecked
  <2>2. Heuristic[call.prompt] \in Tiers
    BY <1>1, MemoryAssumption
  <2>3. Waits(n) => Heuristic[call.prompt] >= floor'
    BY <2>1, <2>2 DEF Tiers
  <2>4. MemoryInv' /\ learned \subseteq learned' /\ raced \subseteq raced'
    BY <1>1, <2>1, MemoryKept
  <2> QED BY <2>1, <2>2, <2>3, <2>4, ReplyStep
<1>4. CASE HandleFailed(n)
  <2>1. Select(Server, call.prompt, TOOL_ERROR_TIER) /\ call.failed
        /\ wire' = [wire EXCEPT ![n] = "recording"] /\ call' = call /\ floor' = floor
    BY <1>4 DEF HandleFailed
  <2>2. MemoryInv' /\ learned \subseteq learned' /\ raced \subseteq raced'
    <3>1. Server \in Processes /\ TOOL_ERROR_TIER \in Tiers
      BY ClientAssumption DEF TOOL_ERROR_TIER, Tiers
    <3>2. MemoryInv'
      BY <1>1, <2>1, <3>1, SelectStep
    <3> QED BY <2>1, <3>2 DEF Select
  <2>3. ServerGoesOn
    BY <1>1, <2>1, <2>2 DEF ServerGoesOn, ClientInv, TypeOK
  <2> QED BY <2>1, <2>3, CallKept
<1> QED BY <1>2, <1>3, <1>4

\* A record is committed or lost.
LEMMA RecordEnds ==
    ASSUME MemoryInv, NEW a \in Processes, Write(a) \/ Abandon(a)
    PROVE  MemoryInv' /\ learned \subseteq learned' /\ raced \subseteq raced'
<1>1. CASE Write(a)
  BY <1>1, WriteStep DEF Write
<1>2. CASE Abandon(a)
  BY <1>2, DropStep DEF Abandon
<1> QED BY <1>1, <1>2

LEMMA ServerRecordsStep ==
    ASSUME ClientInv, ServerRecords
    PROVE  ClientInv'
<1>1. Server \in Processes /\ TOOL_ERROR_TIER \in Tiers
  BY ClientAssumption DEF TOOL_ERROR_TIER, Tiers
<1>2. MemoryInv' /\ learned \subseteq learned' /\ raced \subseteq raced' /\ floor' = floor
  BY <1>1, RecordEnds DEF ServerRecords, ClientInv
<1>3. ASSUME NEW n \in Attempts, wire[n] = "recording", Reply(n, TOOL_ERROR_TIER)
      PROVE  ClientInv'
  <2>1. call.failed /\ floor \in Tiers
    BY <1>3 DEF ClientInv, CallInv, TypeOK
  <2>2. TOOL_ERROR_TIER >= Min({floor', TOOL_ERROR_TIER})
    BY <1>1, <1>2, <2>1, MinOfTiers DEF Tiers
  <2> QED BY <1>1, <1>2, <1>3, <2>1, <2>2, ReplyStep
<1>4. CASE UNCHANGED <<call, wire>>
  <2>1. ServerGoesOn
    BY <1>2, <1>4 DEF ServerGoesOn, ClientInv, TypeOK
  <2> QED BY <1>2, <1>4, <2>1, CallKept
<1> QED BY <1>3, <1>4 DEF ServerRecords

\* Steps of the memory's processes that no request waits for.
LEMMA OthersAct ==
    ASSUME ClientInv,
           ServerRestarts \/ ToolStep \/ \E p \in Prompts, t \in Feedback : Feeds(p, t)
    PROVE  ClientInv'
<1>1. /\ MemoryInv /\ Server \in Processes /\ Tool \in Processes
      /\ TOOL_ERROR_TIER \in Tiers /\ Feedback \subseteq Tiers
  BY ClientAssumption DEF ClientInv, TOOL_ERROR_TIER, Tiers
<1>2. ASSUME NEW a \in Processes, NEW p \in Prompts, NEW t \in Tiers, Select(a, p, t)
      PROVE  MemoryInv' /\ learned \subseteq learned' /\ raced \subseteq raced'
  <2>1. MemoryInv'
    BY <1>1, <1>2, SelectStep
  <2> QED BY <1>2, <2>1 DEF Select
<1>3. MemoryInv' /\ learned \subseteq learned' /\ raced \subseteq raced'
  <2>1. CASE ServerRestarts
    BY <1>1, <2>1, DropStep DEF ServerRestarts
  <2>2. CASE ToolStep
    BY <1>1, <1>2, <2>2, RecordEnds DEF ToolStep
  <2>3. CASE \E p \in Prompts, t \in Feedback : Feeds(p, t)
    BY <1>1, <1>2, <2>3 DEF Feeds
  <2> QED BY <2>1, <2>2, <2>3
<1>4. /\ call' = call /\ floor' = floor
      /\ wire' = wire \/ wire' = [n \in Attempts |-> "none"]
  BY DEF ServerRestarts, ToolStep, Feeds
<1>5. ServerGoesOn
  BY <1>3, <1>4 DEF ServerGoesOn, ClientInv, TypeOK
<1> QED BY <1>4, <1>5, CallKept

LEMMA ClientInductive == Spec => []ClientInv
<1>1. Init => ClientInv
  BY ClientInitial
<1>2. ClientInv /\ [Next]_vars => ClientInv'
  <2> SUFFICES ASSUME ClientInv, [Next]_vars
               PROVE  ClientInv'
    OBVIOUS
  <2>1. CASE UNCHANGED vars
    <3>1. MemoryInv' /\ learned \subseteq learned' /\ raced \subseteq raced'
      BY <2>1, MemoryKept DEF vars, ClientInv
    <3> QED BY <2>1, <3>1, CallKept DEF vars, ServerGoesOn, ClientInv, TypeOK
  <2> QED BY <2>1, ClientActs, ServerActs, ServerRecordsStep, OthersAct DEF Next
<1> QED BY <1>1, <1>2, PTL DEF Spec

-----------------------------------------------------------------------------
(* What the memory and the client promise. *)

\* suggest_route makes two attempts at most, and the incidents table holds two rows
\* of a prompt at most, though its SELECT and INSERT are in no transaction.
THEOREM ClientTypeCorrect == Spec => []TypeOK
<1>1. ClientInv => TypeOK
  BY DEF ClientInv
<1> QED BY <1>1, ClientInductive, PTL

\* record_incident keeps one row of a prompt that no two processes have recorded
\* at the same time.
THEOREM RowsAreUnique == Spec => []OneRowPerPrompt
<1>1. ClientInv => OneRowPerPrompt
  <2> SUFFICES ASSUME MemoryInv, NEW i \in DOMAIN rows, NEW j \in DOMAIN rows,
                      rows[i].prompt = rows[j].prompt, rows[i].prompt \notin raced
               PROVE  i = j
    BY DEF ClientInv, OneRowPerPrompt
  <2>1. rows[i].prompt \in Prompts \ raced
    BY MemoryTypes DEF MemoryInv
  <2> QED BY <2>1 DEF MemoryInv, Undisturbed, RowOf
<1> QED BY <1>1, ClientInductive, PTL

\* The tier that check_memory gives a prompt is one that was reported for a prompt
\* similar to it, whichever of the two processes wrote the row it comes from.
THEOREM EscalationsHaveCause == Spec => []EscalationHasCause
<1>1. ClientInv => EscalationHasCause
  <2> SUFFICES ASSUME MemoryInv, NEW p \in Prompts, Recalled(p) # {}
               PROVE  \E f \in learned : /\ f.tier = Classified(p)
                                         /\ Jaccard[p][f.prompt] >= Threshold
    BY DEF ClientInv, EscalationHasCause
  <2>1. PICK i \in DOMAIN rows : Jaccard[p][rows[i].prompt] >= Threshold
                                /\ Classified(p) = rows[i].tier
    BY RecalledFacts
  <2>2. rows[i] \in learned
    BY <2>1 DEF MemoryInv, RowsAreLearned
  <2> QED BY <2>1, <2>2
<1> QED BY <1>1, ClientInductive, PTL

\* suggest_route never falls back with the "unknown" it starts from: the loop has
\* two attempts, and a rate limit goes by without a cause once (reflex_client.py).
THEOREM FallbacksExplained == Spec => []FallbackHasCause
<1>1. ClientInv => FallbackHasCause
  BY DEF ClientInv
<1> QED BY <1>1, ClientInductive, PTL

\* The tier that suggest_route returns is not below what had been learned for the
\* prompt when it was called, across retries, restarts and abandoned requests.
THEOREM AdviceHeeds == Spec => []AdviceHeedsReports
<1>1. ClientInv => AdviceHeedsReports
  BY DEF ClientInv
<1> QED BY <1>1, ClientInductive, PTL
=============================================================================
