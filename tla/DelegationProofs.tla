-------------------------- MODULE DelegationProofs --------------------------
(***************************************************************************)
(* Theorems of Delegation, for any number of delegations, served or not,   *)
(* any set of paths and trees and whichever harnesses are ready: how deep  *)
(* and beneath what a harness runs, and what a rollback spares of a tree   *)
(* that other harnesses and the developer write at the same time.          *)
(***************************************************************************)
EXTENDS Delegation, FiniteSetTheorems, SequenceTheorems, WellFoundedInduction, TLAPS

Busy(d) == at[d] \in {"running", "killing"}

\* A delegation runs a harness that is ready and not above it, within the
\* depth; every harness above it counts once; and it is not made by its own.
LineageOk(d) ==
    /\ IsFiniteSet(chain[d]) /\ Cardinality(chain[d]) = depth[d]
    /\ parent[d] # d
    /\ at[d] \in {"choosing", "running", "killing"} => depth[d] < MAX_DELEGATION_DEPTH
    /\ proc[d] # "none" <=> Busy(d)
    /\ Busy(d) => todo[d] # <<>> /\ Head(todo[d]) \in Ready \ chain[d]

LineageInv == TypeOK /\ \A d \in Delegations : LineageOk(d)

\* What a line of a snapshot says of the index still holds, but for what a harness
\* has staged since.
LineOk(line) ==
    IF line[1] = Untracked
    THEN /\ \A f \in Below(line[2]) : tree[f].index \in {None, "harness"}
         /\ \A q \in Paths : IsStrictPrefix(q, line[2]) => Indexed(q)
    ELSE LET f == line[2]
         IN  /\ f \in DOMAIN tree /\ tree[f].index # None
             /\ \/ tree[f].index = "harness"
                \/ line[1][1] = IF tree[f].index = "committed" THEN "same" ELSE "staged"

SnapshotOk(d) ==
    Busy(d) /\ baseline[d] # Unsnapped => \A line \in baseline[d] : LineOk(line)

TreeInv == LineageInv /\ \A d \in Delegations : SnapshotOk(d)

-----------------------------------------------------------------------------
(* Queues of candidates. *)

Queue(s) == s \in Seq(Harnesses) /\ Len(s) <= 3

LEMMA TailQueue ==
    ASSUME NEW s, Queue(s), s # <<>>
    PROVE  Queue(Tail(s)) /\ Head(s) \in Harnesses
BY HeadTailProperties, LenProperties DEF Queue

\* HARNESS_FAILOVER_CHAINS has three harnesses for each.
LEMMA ChainQueues == Queue(<<>>) /\ \A h \in Harnesses : Queue(Candidates(h))
<1>1. \A a, b, c \in Harnesses : Queue(<<a, b, c>>)
  BY DEF Queue
<1>2. /\ "claude" \in Harnesses /\ "opencode" \in Harnesses /\ "agy" \in Harnesses
      /\ "goose" \in Harnesses /\ "codex" \in Harnesses
  BY DEF Harnesses
<1>3. ASSUME NEW h \in Harnesses
      PROVE  \E a, b, c \in Harnesses : Candidates(h) = <<a, b, c>>
  <2>1. CASE h = "claude"
    BY <1>2, <2>1 DEF Candidates, HARNESS_FAILOVER_CHAINS
  <2>2. CASE h = "opencode"
    BY <1>2, <2>2 DEF Candidates, HARNESS_FAILOVER_CHAINS
  <2>3. CASE h = "agy"
    BY <1>2, <2>3 DEF Candidates, HARNESS_FAILOVER_CHAINS
  <2>4. CASE h = "goose"
    BY <1>2, <2>4 DEF Candidates, HARNESS_FAILOVER_CHAINS
  <2>5. CASE h = "codex"
    BY <1>2, <2>5 DEF Candidates, HARNESS_FAILOVER_CHAINS
  <2> QED BY <2>1, <2>2, <2>3, <2>4, <2>5 DEF Harnesses
<1>4. Queue(<<>>)
  BY DEF Queue
<1> QED BY <1>1, <1>3, <1>4

LEMMA MinOfThree ==
    ASSUME NEW I, I \subseteq {1, 2, 3}, I # {}
    PROVE  Min(I) \in I
<1>1. \E x \in I : \A y \in I : x =< y
  <2>1. CASE 1 \in I
    BY <2>1
  <2>2. CASE 1 \notin I /\ 2 \in I
    BY <2>2
  <2>3. CASE 1 \notin I /\ 2 \notin I
    <3>1. 3 \in I /\ \A y \in I : y = 3
      BY <2>3
    <3> QED BY <3>1
  <2> QED BY <2>1, <2>2, <2>3
<1> QED BY <1>1 DEF Min

\* What is left of a queue from its first candidate that may run.
LEMMA SelectFacts ==
    ASSUME NEW s, Queue(s), NEW d, NEW i,
           i = SelectInSeq(s, LAMBDA h : IsCandidate(d, h)), i > 0
    PROVE  /\ Queue(SubSeq(s, i, Len(s))) /\ SubSeq(s, i, Len(s)) # <<>>
           /\ IsCandidate(d, Head(SubSeq(s, i, Len(s))))
<1> DEFINE I == {j \in 1..Len(s) : IsCandidate(d, s[j])}
           left == SubSeq(s, i, Len(s))
<1>1. s \in Seq(Harnesses) /\ Len(s) \in Nat /\ Len(s) <= 3
  BY LenProperties DEF Queue
<1>2. i = IF I # {} THEN Min(I) ELSE 0
  BY DEF SelectInSeq
<1>3. I \subseteq {1, 2, 3}
  BY <1>1
<1>4. i \in I
  <2> HIDE DEF I
  <2> QED BY <1>2, <1>3, MinOfThree
<1>5. i \in 1..Len(s) /\ IsCandidate(d, s[i])
  BY <1>4
<1> SUFFICES Queue(left) /\ left # <<>> /\ Head(left) = s[i]
  BY <1>5
<1>6. left \in Seq(Harnesses) /\ Len(left) = Len(s) - i + 1
  <2>1. \A j \in i..Len(s) : s[j] \in Harnesses
    BY <1>1, <1>5, ElementOfSeq
  <2>2. i \in Int /\ Len(s) \in Int /\ i <= Len(s)
    BY <1>1, <1>5
  <2>3. /\ left \in Seq(Harnesses)
        /\ Len(left) = IF i <= Len(s) THEN Len(s) - i + 1 ELSE 0
    <3> HIDE DEF left
    <3> QED BY <2>1, <2>2, SubSeqProperties, Zenon DEF left
  <2> QED BY <2>2, <2>3
<1>7. Head(left) = s[i]
  BY <1>1, <1>5, HeadTailOfSubSeq
<1> HIDE DEF left
<1>8. Len(left) <= 3 /\ Len(left) # 0
  BY <1>1, <1>5, <1>6
<1>9. left # <<>>
  BY <1>8, EmptySeq
<1> QED BY <1>6, <1>7, <1>8, <1>9 DEF Queue

-----------------------------------------------------------------------------
(* Files of the working tree. *)

\* The files of a tree are paths, and none is above another.
LEMMA TreeFacts ==
    ASSUME TypeOK
    PROVE  /\ DOMAIN tree \subseteq Paths /\ tree \in [DOMAIN tree -> FileStates]
           /\ \A f, g \in DOMAIN tree : IsPrefix(f, g) => f = g
<1>1. PICK w \in Workplaces : tree \in [DOMAIN w.tree -> FileStates]
  BY DEF TypeOK
<1>2. /\ DOMAIN w.tree \subseteq Paths
      /\ \A f, g \in DOMAIN w.tree : IsPrefix(f, g) => f = g
  BY DelegationAssumption
<1> QED BY <1>1, <1>2

LEMMA FileFacts ==
    ASSUME NEW file \in FileStates, NEW x \in Works
    PROVE  /\ [file EXCEPT !.work = x] \in FileStates
           /\ [file EXCEPT !.work = x].index = file.index
           /\ [file EXCEPT !.work = x].work = x
           /\ file.index \in Indices /\ Indices \subseteq Works /\ None \in Works
BY DEF FileStates, Works, Indices

\* A step that leaves the files where they are leaves a tree.
LEMMA TreeKept ==
    ASSUME TypeOK, tree' \in [DOMAIN tree -> FileStates], cwd' = cwd
    PROVE  \E w \in Workplaces : tree' \in [DOMAIN w.tree -> FileStates] /\ cwd' = w.cwd
<1>1. PICK w \in Workplaces : tree \in [DOMAIN w.tree -> FileStates] /\ cwd = w.cwd
  BY DEF TypeOK
<1>2. DOMAIN tree = DOMAIN w.tree
  BY <1>1
<1> QED BY <1>1, <1>2

\* The lines of git status are lines, and true of the index.
LEMMA StatusFacts ==
    ASSUME TypeOK
    PROVE  /\ Status \subseteq Lines
           /\ \A line \in Status :
                 \/ line[1] = Untracked /\ ListedUntracked(line[2]) /\ line[2] \in Paths
                 \/ /\ line[2] \in DOMAIN tree /\ tree[line[2]].index # None
                    /\ line = <<Code(line[2]), line[2]>> /\ line[1] # Untracked
<1>1. ASSUME NEW f \in DOMAIN tree
      PROVE  /\ Code(f) \in Codes /\ Code(f) # Untracked
             /\ Code(f)[1] = IF tree[f].index = "committed" THEN "same" ELSE "staged"
  BY DEF Code, Codes, Untracked
<1>2. ASSUME NEW f \in DOMAIN tree, Indexed(f) PROVE tree[f].index # None
  BY <1>2, TreeFacts DEF Indexed, Below
<1>3. ASSUME NEW line \in Status
      PROVE  \/ line[1] = Untracked /\ ListedUntracked(line[2]) /\ line[2] \in Paths
                    /\ line \in Lines
             \/ /\ line[2] \in DOMAIN tree /\ tree[line[2]].index # None
                /\ line = <<Code(line[2]), line[2]>> /\ line[1] # Untracked /\ line \in Lines
  <2>1. CASE \E p \in Paths : ListedUntracked(p) /\ line = <<Untracked, p>>
    BY <2>1 DEF Lines, Codes
  <2>2. CASE \E f \in DOMAIN tree : Indexed(f) /\ line = <<Code(f), f>>
    <3>1. PICK f \in DOMAIN tree : Indexed(f) /\ line = <<Code(f), f>>
      BY <2>2
    <3>2. tree[f].index # None /\ Code(f) \in Codes /\ Code(f) # Untracked /\ f \in Paths
      BY <1>1, <1>2, <3>1, TreeFacts
    <3>3. line[1] = Code(f) /\ line[2] = f
      BY <3>1
    <3> HIDE DEF Code
    <3> QED BY <3>1, <3>2, <3>3 DEF Lines
  <2> QED BY <2>1, <2>2 DEF Status
<1> QED BY <1>3

\* rollback_git_state changes the work tree only.
LEMMA RolledBackFacts ==
    ASSUME TypeOK, NEW d \in Delegations, NEW reached
    PROVE  /\ RolledBack(d, reached) \in [DOMAIN tree -> FileStates]
           /\ \A f \in DOMAIN tree :
                 /\ RolledBack(d, reached)[f].index = tree[f].index
                 /\ (\A l \in Status \ baseline[d] : f \notin Named(d, l))
                       => RolledBack(d, reached)[f] = tree[f]
<1>1. ASSUME NEW f \in DOMAIN tree
      PROVE  LET file == RolledBack(d, reached)[f]
             IN  /\ file \in FileStates /\ file.index = tree[f].index
                 /\ (\A l \in Status \ baseline[d] : f \notin Named(d, l)) => file = tree[f]
  <2> DEFINE new == Status \ baseline[d]
  <2>1. RolledBack(d, reached)[f] = IF f \in reached THEN Restored(d, new, f) ELSE tree[f]
    BY DEF RolledBack
  <2> HIDE DEF new
  <2>2. tree[f] \in FileStates
    BY TreeFacts
  <2>3. tree[f].index \in Works /\ None \in Works
    BY <2>2 DEF FileStates, Works, Indices
  <2>4. /\ Restored(d, new, f) \in {tree[f], [tree[f] EXCEPT !.work = None],
                                    [tree[f] EXCEPT !.work = tree[f].index]}
        /\ (\A l \in new : f \notin Named(d, l)) => Restored(d, new, f) = tree[f]
    BY DEF Restored
  <2>5. RolledBack(d, reached)[f] \in {tree[f], [tree[f] EXCEPT !.work = None],
                                       [tree[f] EXCEPT !.work = tree[f].index]}
    BY <2>1, <2>4
  <2>6. \A x \in Works : /\ [tree[f] EXCEPT !.work = x] \in FileStates
                         /\ [tree[f] EXCEPT !.work = x].index = tree[f].index
    BY <2>2, FileFacts
  <2> QED BY <2>1, <2>2, <2>3, <2>4, <2>5, <2>6 DEF new
<1>2. RolledBack(d, reached) = [f \in DOMAIN tree |-> RolledBack(d, reached)[f]]
  BY DEF RolledBack
<1> HIDE DEF RolledBack
<1> QED BY <1>1, <1>2

-----------------------------------------------------------------------------
(* The lineage, one step at a time. *)

\* What the steps use of the invariant.
LEMMA LineageTypes ==
    ASSUME LineageInv, NEW d \in Delegations
    PROVE  /\ TypeOK /\ LineageOk(d) /\ Queue(todo[d])
           /\ at[d] = "idle" \/ at[d] = "choosing" => proc[d] = "none"
           /\ Busy(d) => /\ Head(todo[d]) \in Ready /\ Head(todo[d]) \in Harnesses
                         /\ Queue(Tail(todo[d]))
<1>1. TypeOK /\ LineageOk(d) /\ Queue(todo[d])
  BY DEF LineageInv, TypeOK, Queue
<1>2. at[d] = "idle" \/ at[d] = "choosing" => proc[d] = "none"
  BY <1>1 DEF LineageOk, Busy
<1>3. ASSUME Busy(d)
      PROVE  /\ Head(todo[d]) \in Ready /\ Head(todo[d]) \in Harnesses
             /\ Queue(Tail(todo[d]))
  BY <1>1, <1>3, TailQueue DEF LineageOk
<1> QED BY <1>1, <1>2, <1>3

\* A step that makes no delegation and starts no run: each delegation stays, is
\* killed, comes to an end or fails over.
LEMMA LineageNext ==
    ASSUME LineageInv, TypeOK', UNCHANGED lineage,
           \A e \in Delegations :
              \/ at'[e] = at[e] /\ (todo'[e] = todo[e] \/ at[e] = "choosing")
                    /\ (proc'[e] = "none" <=> proc[e] = "none")
              \/ /\ at'[e] \notin {"choosing", "running", "killing"} /\ proc'[e] = "none"
              \/ /\ at[e] \in {"choosing", "running", "killing"}
                 /\ at'[e] = "choosing" /\ proc'[e] = "none"
              \/ /\ at[e] = "running" /\ at'[e] = "killing" /\ todo'[e] = todo[e]
                 /\ proc'[e] = proc[e]
    PROVE  LineageInv'
<1>1. ASSUME NEW e \in Delegations PROVE LineageOk(e)'
  <2>1. LineageOk(e) /\ chain' = chain /\ depth' = depth /\ parent' = parent
    BY DEF LineageInv, lineage
  <2>2. CASE /\ at'[e] = at[e] /\ (todo'[e] = todo[e] \/ at[e] = "choosing")
             /\ (proc'[e] = "none" <=> proc[e] = "none")
    BY <2>1, <2>2 DEF LineageOk, Busy
  <2>3. CASE at'[e] \notin {"choosing", "running", "killing"} /\ proc'[e] = "none"
    BY <2>1, <2>3 DEF LineageOk, Busy
  <2>4. CASE /\ at[e] \in {"choosing", "running", "killing"}
             /\ at'[e] = "choosing" /\ proc'[e] = "none"
    BY <2>1, <2>4 DEF LineageOk, Busy
  <2>5. CASE /\ at[e] = "running" /\ at'[e] = "killing" /\ todo'[e] = todo[e]
             /\ proc'[e] = proc[e]
    BY <2>1, <2>5 DEF LineageOk, Busy
  <2> QED BY <2>2, <2>3, <2>4, <2>5
<1> QED BY <1>1 DEF LineageInv

LEMMA ReceiveLineage ==
    ASSUME LineageInv, NEW d \in Delegations, NEW above \in SUBSET Harnesses,
           IsFiniteSet(above), NEW level \in 0..MAX_DELEGATION_DEPTH,
           Cardinality(above) = level, NEW maker \in Delegations \cup {Client},
           maker # d, Receive(d, above, level, maker), cwd' = cwd
    PROVE  LineageInv'
<1>1. PICK h \in Asked, to \in {"refused", "choosing"} :
         /\ Goes(d, "idle", to) /\ (to = "choosing" => level < MAX_DELEGATION_DEPTH)
         /\ todo' = [todo EXCEPT ![d] = IF at'[d] = "refused" THEN <<>> ELSE Candidates(h)]
         /\ depth' = [depth EXCEPT ![d] = level]
         /\ chain' = [chain EXCEPT ![d] = above]
         /\ parent' = [parent EXCEPT ![d] = maker]
         /\ UNCHANGED <<runs, tripped, tree>>
  <2>1. PICK h \in Asked, preferred \in BOOLEAN :
           /\ Goes(d, "idle",
                   IF level >= MAX_DELEGATION_DEPTH \/ (preferred /\ h \in above)
                   THEN "refused" ELSE "choosing")
           /\ todo' = [todo EXCEPT ![d] = IF at'[d] = "refused" THEN <<>> ELSE Candidates(h)]
           /\ depth' = [depth EXCEPT ![d] = level]
           /\ chain' = [chain EXCEPT ![d] = above]
           /\ parent' = [parent EXCEPT ![d] = maker]
           /\ UNCHANGED <<runs, tripped, tree>>
    BY DEF Receive
  <2>2. CASE level >= MAX_DELEGATION_DEPTH \/ (preferred /\ h \in above)
    <3>1. Goes(d, "idle", "refused")
      BY <2>1, <2>2
    <3> QED BY <2>1, <3>1
  <2>3. CASE ~(level >= MAX_DELEGATION_DEPTH \/ (preferred /\ h \in above))
    <3>1. Goes(d, "idle", "choosing")
      BY <2>1, <2>3
    <3>2. level < MAX_DELEGATION_DEPTH
      BY <2>3 DEF MAX_DELEGATION_DEPTH
    <3> QED BY <2>1, <3>1, <3>2
  <2> QED BY <2>2, <2>3
<1>2. TypeOK /\ LineageOk(d) /\ proc[d] = "none"
  BY <1>1, LineageTypes DEF Goes
<1>3. /\ at[d] = "idle" /\ at' = [at EXCEPT ![d] = to] /\ at'[d] = to
      /\ baseline' = baseline /\ proc' = proc /\ loose' = loose /\ tripped' = tripped
      /\ tree' = tree
  BY <1>1, <1>2 DEF Goes, runs, TypeOK
<1>4. PICK q : Queue(q) /\ todo' = [todo EXCEPT ![d] = q]
  <2>1. h \in Harnesses
    BY <1>1, DelegationAssumption
  <2>2. Queue(<<>>) /\ Queue(Candidates(h))
    BY <2>1, ChainQueues
  <2> QED BY <1>1, <2>2
<1>5. TypeOK'
  <2>1. todo' \in [Delegations -> Seq(Harnesses)] /\ \A e \in Delegations : Len(todo'[e]) <= 3
    BY <1>2, <1>4 DEF TypeOK, Queue
  <2>2. /\ depth' \in [Delegations -> 0..MAX_DELEGATION_DEPTH]
        /\ chain' \in [Delegations -> SUBSET Harnesses]
        /\ parent' \in [Delegations -> Delegations \cup {Client}]
    BY <1>1, <1>2 DEF TypeOK
  <2>3. at' \in [Delegations -> {"idle", "choosing", "running", "killing", "calling"} \cup Ended]
    BY <1>1, <1>2, <1>3 DEF TypeOK, Ended
  <2> QED BY <1>2, <1>3, <2>1, <2>2, <2>3 DEF TypeOK
<1>6. LineageOk(d)'
  <2>1. /\ chain'[d] = above /\ depth'[d] = level /\ parent'[d] = maker
        /\ at'[d] = to /\ proc'[d] = "none"
    BY <1>1, <1>2, <1>3 DEF TypeOK
  <2> QED BY <1>1, <2>1 DEF LineageOk, Busy
<1>7. ASSUME NEW e \in Delegations, e # d PROVE LineageOk(e)'
  <2>1. /\ chain'[e] = chain[e] /\ depth'[e] = depth[e] /\ at'[e] = at[e]
        /\ parent'[e] = parent[e] /\ proc'[e] = proc[e] /\ todo'[e] = todo[e]
    BY <1>1, <1>2, <1>3, <1>4, <1>7 DEF TypeOK
  <2>2. LineageOk(e)
    BY DEF LineageInv
  <2> QED BY <2>1, <2>2 DEF LineageOk, Busy
<1> QED BY <1>5, <1>6, <1>7 DEF LineageInv

LEMMA AskLineage ==
    ASSUME LineageInv, NEW d \in Delegations, Ask(d), cwd' = cwd
    PROVE  LineageInv'
<1>1. PICK above \in {{}} \cup {{h} : h \in Asked} : Receive(d, above, Cardinality(above), Client)
  BY DEF Ask
<1>2. IsFiniteSet({}) /\ Cardinality({}) = 0
  BY FS_EmptySet
<1>3. \A h \in Asked : IsFiniteSet({h}) /\ Cardinality({h}) = 1 /\ {h} \in SUBSET Harnesses
  BY FS_Singleton, DelegationAssumption
<1>4. /\ above \in SUBSET Harnesses /\ IsFiniteSet(above)
      /\ Cardinality(above) \in 0..MAX_DELEGATION_DEPTH
  BY <1>1, <1>2, <1>3 DEF MAX_DELEGATION_DEPTH
<1>5. Client # d
  BY DelegationAssumption
<1> QED BY <1>1, <1>4, <1>5, ReceiveLineage

LEMMA DelegateLineage ==
    ASSUME LineageInv, NEW d \in Delegations, NEW e \in Delegations, Delegate(d, e), cwd' = cwd
    PROVE  LineageInv'
<1> DEFINE h == Head(todo[d])
           above == chain[d] \cup {h}
<1>1. at[d] = "running" /\ Busy(d) /\ Receive(e, above, depth[d] + 1, d)
  BY DEF Delegate, Busy
<1>2. /\ chain[d] \in SUBSET Harnesses /\ IsFiniteSet(chain[d])
      /\ Cardinality(chain[d]) = depth[d] /\ depth[d] \in 0..MAX_DELEGATION_DEPTH
      /\ depth[d] < MAX_DELEGATION_DEPTH /\ h \notin chain[d] /\ h \in Harnesses
  BY <1>1, LineageTypes DEF LineageOk, TypeOK
<1> HIDE DEF h
<1>3. IsFiniteSet(above) /\ Cardinality(above) = depth[d] + 1
  BY <1>2, FS_AddElement
<1>4. above \in SUBSET Harnesses /\ depth[d] + 1 \in 0..MAX_DELEGATION_DEPTH
  BY <1>2 DEF MAX_DELEGATION_DEPTH
<1> HIDE DEF above
<1>5. d # e
  BY <1>1 DEF Receive, Goes
<1> QED BY <1>1, <1>3, <1>4, <1>5, ReceiveLineage

LEMMA LaunchLineage ==
    ASSUME LineageInv, NEW d \in Delegations, Launch(d), cwd' = cwd
    PROVE  LineageInv'
<1> DEFINE i == SelectInSeq(todo[d], LAMBDA h : IsCandidate(d, h))
           left == SubSeq(todo[d], i, Len(todo[d]))
<1>1. /\ at[d] = "choosing" /\ i > 0
      /\ \/ /\ Goes(d, "choosing", "running")
            /\ todo' = [todo EXCEPT ![d] = left]
            /\ \E lines \in Snapshots(d) : baseline' = [baseline EXCEPT ![d] = lines]
            /\ proc' = [proc EXCEPT ![d] = "led"]
         \/ /\ todo' = [todo EXCEPT ![d] = Tail(left)]
            /\ UNCHANGED <<at, baseline, proc>>
      /\ UNCHANGED <<lineage, loose, tripped, tree>>
  BY DEF Launch
<1>2. TypeOK /\ LineageOk(d) /\ proc[d] = "none" /\ Queue(todo[d])
  BY <1>1, LineageTypes
<1>3. Queue(left) /\ left # <<>> /\ IsCandidate(d, Head(left))
  BY <1>1, <1>2, SelectFacts
<1>4. Queue(Tail(left)) /\ Head(left) \in Ready \ chain[d]
  BY <1>3, TailQueue DEF IsCandidate
<1> HIDE DEF left, i
<1>5. /\ depth' = depth /\ chain' = chain /\ parent' = parent /\ UNCHANGED lineage
      /\ loose' = loose /\ tripped' = tripped /\ tree' = tree
  BY <1>1 DEF lineage
<1>6. CASE /\ Goes(d, "choosing", "running")
           /\ todo' = [todo EXCEPT ![d] = left]
           /\ \E lines \in Snapshots(d) : baseline' = [baseline EXCEPT ![d] = lines]
           /\ proc' = [proc EXCEPT ![d] = "led"]
  <2>1. baseline' \in [Delegations -> SUBSET Lines]
    <3>1. Snapshots(d) \subseteq SUBSET Lines
      BY <1>2, StatusFacts DEF Snapshots, Unsnapped
    <3> QED BY <1>2, <1>6, <3>1 DEF TypeOK
  <2>2. todo' \in [Delegations -> Seq(Harnesses)] /\ \A e \in Delegations : Len(todo'[e]) <= 3
    BY <1>2, <1>3, <1>6 DEF TypeOK, Queue
  <2>3. TypeOK'
    BY <1>2, <1>5, <1>6, <2>1, <2>2 DEF TypeOK, Goes
  <2>4. LineageOk(d)'
    <3>1. at'[d] = "running" /\ proc'[d] = "led" /\ todo'[d] = left
      BY <1>2, <1>6 DEF TypeOK, Goes
    <3> QED BY <1>1, <1>2, <1>3, <1>4, <1>5, <3>1 DEF LineageOk, Busy
  <2>5. ASSUME NEW e \in Delegations, e # d PROVE LineageOk(e)'
    <3>1. at'[e] = at[e] /\ proc'[e] = proc[e] /\ todo'[e] = todo[e]
      BY <1>2, <1>6, <2>5 DEF TypeOK, Goes
    <3>2. LineageOk(e)
      BY DEF LineageInv
    <3> QED BY <1>5, <3>1, <3>2 DEF LineageOk, Busy
  <2> QED BY <2>3, <2>4, <2>5 DEF LineageInv
<1>7. CASE todo' = [todo EXCEPT ![d] = Tail(left)] /\ UNCHANGED <<at, baseline, proc>>
  <2>1. todo' \in [Delegations -> Seq(Harnesses)] /\ \A e \in Delegations : Len(todo'[e]) <= 3
    BY <1>2, <1>4, <1>7 DEF TypeOK, Queue
  <2>2. TypeOK'
    BY <1>2, <1>5, <1>7, <2>1 DEF TypeOK
  <2>3. \A e \in Delegations : /\ at'[e] = at[e] /\ proc'[e] = proc[e]
                               /\ todo'[e] = todo[e] \/ at[e] = "choosing"
    BY <1>1, <1>2, <1>7 DEF TypeOK
  <2> QED BY <1>5, <2>2, <2>3, LineageNext
<1> QED BY <1>1, <1>6, <1>7

\* A delegation that waits for the gateway, or begins to.
LEMMA CallLineage ==
    ASSUME LineageInv, NEW d \in Delegations,
           FallBack(d) \/ GatewayAnswers(d) \/ CallTimesOut(d), cwd' = cwd
    PROVE  LineageInv'
<1>1. PICK to \in {"calling", "success", "failed"}, q \in {<<>>, todo[d]} :
         /\ at[d] \in {"choosing", "calling"} /\ at' = [at EXCEPT ![d] = to]
         /\ todo' = [todo EXCEPT ![d] = q]
         /\ UNCHANGED <<lineage, runs, tripped, tree>>
  <2>1. todo = [todo EXCEPT ![d] = todo[d]]
    BY DEF LineageInv, TypeOK
  <2> QED BY <2>1 DEF FallBack, GatewayAnswers, CallTimesOut, Goes
<1>2. TypeOK /\ LineageOk(d) /\ Queue(todo[d]) /\ Queue(<<>>)
  BY LineageTypes, ChainQueues
<1>3. /\ depth' = depth /\ chain' = chain /\ parent' = parent /\ UNCHANGED lineage
      /\ baseline' = baseline /\ proc' = proc /\ loose' = loose /\ tripped' = tripped
      /\ tree' = tree
  BY <1>1 DEF lineage, runs
<1>4. TypeOK'
  <2>1. todo' \in [Delegations -> Seq(Harnesses)] /\ \A e \in Delegations : Len(todo'[e]) <= 3
    BY <1>1, <1>2 DEF TypeOK, Queue
  <2>2. at' \in [Delegations -> {"idle", "choosing", "running", "killing", "calling"} \cup Ended]
    BY <1>1, <1>2 DEF TypeOK, Ended
  <2> QED BY <1>2, <1>3, <2>1, <2>2 DEF TypeOK
<1>5. proc'[d] = "none" /\ at'[d] = to
  BY <1>1, <1>2, <1>3 DEF LineageOk, Busy, TypeOK
<1>6. \A e \in Delegations \ {d} : at'[e] = at[e] /\ todo'[e] = todo[e] /\ proc'[e] = proc[e]
  BY <1>1, <1>2, <1>3 DEF TypeOK
<1> QED BY <1>1, <1>3, <1>4, <1>5, <1>6, LineageNext

\* A run that is left: for the next candidate, or for good.
LEMMA LeaveLineage ==
    ASSUME LineageInv, NEW d \in Delegations,
           Succeeds(d) \/ FailsInItsCode(d) \/ FailsRecoverably(d) \/ Kill(d)
              \/ TimesOutLeaderless(d), cwd' = cwd
    PROVE  LineageInv'
<1>1. /\ Busy(d) /\ UNCHANGED lineage /\ Cleared(d)
      /\ \E to \in {"choosing", "success", "failed"} : at' = [at EXCEPT ![d] = to]
      /\ todo' = [todo EXCEPT ![d] = <<>>] \/ todo' = [todo EXCEPT ![d] = Tail(@)]
      /\ loose' = loose \/ loose' = [loose EXCEPT ![d] = TRUE]
      /\ \/ tripped' = tripped \/ tripped' = tripped \ {Head(todo[d])}
         \/ tripped' = tripped \cup {Head(todo[d])}
      /\ tree' = tree \/ \E reached \in SUBSET DOMAIN tree : tree' = RolledBack(d, reached)
  <2>1. CASE Succeeds(d) \/ FailsInItsCode(d)
    BY <2>1 DEF Succeeds, FailsInItsCode, Completes, Goes, Busy
  <2>2. CASE FailsRecoverably(d) \/ Kill(d) \/ TimesOutLeaderless(d)
    BY <2>2 DEF FailsRecoverably, Kill, TimesOutLeaderless, FailsOver, Completes, Busy
  <2> QED BY <2>1, <2>2
<1>2. TypeOK /\ Queue(<<>>) /\ Queue(Tail(todo[d])) /\ Head(todo[d]) \in Ready
  BY <1>1, LineageTypes, ChainQueues
<1>3. TypeOK'
  <2>1. todo' \in [Delegations -> Seq(Harnesses)] /\ \A e \in Delegations : Len(todo'[e]) <= 3
    <3>1. PICK q : Queue(q) /\ todo' = [todo EXCEPT ![d] = q]
      BY <1>1, <1>2
    <3> QED BY <1>2, <3>1 DEF TypeOK, Queue
  <2>2. at' \in [Delegations -> {"idle", "choosing", "running", "killing", "calling"} \cup Ended]
    BY <1>1, <1>2 DEF TypeOK, Ended
  <2>3. /\ baseline' \in [Delegations -> SUBSET Lines]
        /\ proc' \in [Delegations -> {"none", "led", "orphaned"}]
    BY <1>1, <1>2 DEF TypeOK, Cleared, Unsnapped
  <2>4. \E w \in Workplaces : tree' \in [DOMAIN w.tree -> FileStates] /\ cwd' = w.cwd
    <3>1. tree' \in [DOMAIN tree -> FileStates]
      BY <1>1, <1>2, TreeFacts, RolledBackFacts
    <3> QED BY <1>2, <3>1, TreeKept
  <2>5. loose' \in [Delegations -> BOOLEAN] /\ tripped' \subseteq Ready
    BY <1>1, <1>2 DEF TypeOK
  <2>6. depth' = depth /\ chain' = chain /\ parent' = parent
    BY <1>1 DEF lineage
  <2> QED BY <1>2, <2>1, <2>2, <2>3, <2>4, <2>5, <2>6 DEF TypeOK
<1>4. at'[d] \in {"choosing", "success", "failed"} /\ proc'[d] = "none"
  BY <1>1, <1>2 DEF TypeOK, Cleared
<1>5. \A e \in Delegations \ {d} : at'[e] = at[e] /\ todo'[e] = todo[e] /\ proc'[e] = proc[e]
  BY <1>1, <1>2 DEF TypeOK, Cleared
<1> QED BY <1>1, <1>3, <1>4, <1>5, LineageNext DEF Busy

LEMMA TerminateLineage ==
    ASSUME LineageInv, NEW d \in Delegations, Terminate(d), cwd' = cwd
    PROVE  LineageInv'
<1>1. /\ at[d] = "running" /\ UNCHANGED <<todo, lineage, tripped, tree>> /\ TypeOK
      /\ depth' = depth /\ chain' = chain /\ parent' = parent
  BY DEF Terminate, LineageInv, lineage
<1>2. \A e \in Delegations : at'[e] = IF e = d THEN "killing"
                                      ELSE IF e \in Helpers(d) THEN "killed" ELSE at[e]
  BY DEF Terminate
<1>3. \A e \in Delegations : proc'[e] = IF e \in Helpers(d) THEN "none" ELSE proc[e]
  BY DEF Terminate
<1>4. TypeOK'
  <2>1. at' \in [Delegations -> {"idle", "choosing", "running", "killing", "calling"} \cup Ended]
    BY <1>1 DEF TypeOK, Ended, Terminate
  <2>2. proc' \in [Delegations -> {"none", "led", "orphaned"}]
    BY <1>1 DEF TypeOK, Terminate
  <2>3. baseline' \in [Delegations -> SUBSET Lines]
    BY <1>1 DEF TypeOK, Terminate, Unsnapped
  <2>4. loose' \in [Delegations -> BOOLEAN]
    BY <1>1 DEF TypeOK, Terminate
  <2> QED BY <1>1, <2>1, <2>2, <2>3, <2>4 DEF TypeOK
<1>5. d \notin Helpers(d)
  BY DEF Helpers, LineageInv, LineageOk
<1> QED BY <1>1, <1>2, <1>3, <1>4, <1>5, LineageNext

\* The steps of others: processes, the developer and time.
LEMMA OthersLineage ==
    ASSUME LineageInv,
           \/ \E d \in Delegations : \/ LeaderExits(d) \/ StrayExits(d)
                                     \/ \E f \in DOMAIN tree : HarnessWrites(d, f)
           \/ \E f \in DOMAIN tree : DeveloperWrites(f)
           \/ \E h \in Ready : Cool(h)
           \/ UNCHANGED vars,
           cwd' = cwd
    PROVE  LineageInv'
<1>1. TypeOK
  BY DEF LineageInv
<1>2. /\ UNCHANGED <<at, todo, lineage, baseline>>
      /\ depth' = depth /\ chain' = chain /\ parent' = parent
  BY DEF LeaderExits, StrayExits, HarnessWrites, DeveloperWrites, Cool, vars, lineage, runs
<1>3. /\ proc' \in [Delegations -> {"none", "led", "orphaned"}]
      /\ \A e \in Delegations : proc'[e] = "none" <=> proc[e] = "none"
  BY <1>1 DEF TypeOK, LeaderExits, StrayExits, HarnessWrites, DeveloperWrites, Cool, vars, runs
<1>4. \E w \in Workplaces : tree' \in [DOMAIN w.tree -> FileStates] /\ cwd' = w.cwd
  <2>1. ASSUME NEW f \in DOMAIN tree, NEW file \in FileStates, tree' = [tree EXCEPT ![f] = file]
        PROVE  tree' \in [DOMAIN tree -> FileStates]
    BY <1>1, <2>1, TreeFacts
  <2>2. ASSUME NEW d \in Delegations, NEW f \in DOMAIN tree, HarnessWrites(d, f)
        PROVE  tree' \in [DOMAIN tree -> FileStates]
    <3>1. /\ [tree[f] EXCEPT !.work = "harness"] \in FileStates
          /\ [index |-> "harness", work |-> "harness"] \in FileStates
      BY <1>1, TreeFacts DEF FileStates, Indices, Works
    <3> QED BY <2>1, <2>2, <3>1 DEF HarnessWrites
  <2>3. ASSUME NEW f \in DOMAIN tree, DeveloperWrites(f)
        PROVE  tree' \in [DOMAIN tree -> FileStates]
    <3>1. [tree[f] EXCEPT !.work = "developer"] \in FileStates
      BY <1>1, TreeFacts DEF FileStates, Indices, Works
    <3> QED BY <2>1, <2>3, <3>1 DEF DeveloperWrites
  <2>4. \/ \E d \in Delegations, f \in DOMAIN tree : HarnessWrites(d, f)
        \/ \E f \in DOMAIN tree : DeveloperWrites(f)
        \/ tree' = tree
    BY DEF LeaderExits, StrayExits, Cool, vars
  <2>5. tree' \in [DOMAIN tree -> FileStates]
    BY <1>1, <2>2, <2>3, <2>4, TreeFacts
  <2> QED BY <1>1, <2>5, TreeKept
<1>5. loose' \in [Delegations -> BOOLEAN] /\ tripped' \subseteq Ready
  BY <1>1 DEF TypeOK, LeaderExits, StrayExits, HarnessWrites, DeveloperWrites, Cool, vars, runs
<1>6. TypeOK'
  BY <1>1, <1>2, <1>3, <1>4, <1>5 DEF TypeOK
<1> QED BY <1>2, <1>3, <1>6, LineageNext
LEMMA LineageStep ==
    ASSUME LineageInv, [Next]_vars
    PROVE  LineageInv'
<1>0. cwd' = cwd
  BY DEF Next, vars
<1>1. CASE \E d \in Delegations : Ask(d) \/ \E e \in Delegations : Delegate(d, e)
  BY <1>0, <1>1, AskLineage, DelegateLineage
<1>2. CASE \E d \in Delegations : Advance(d)
  BY <1>0, <1>2, LaunchLineage, CallLineage, LeaveLineage, TerminateLineage
     DEF Advance, TimesOut
<1>3. CASE ~ \E d \in Delegations :
              Ask(d) \/ Advance(d) \/ \E e \in Delegations : Delegate(d, e)
  BY <1>0, <1>3, OthersLineage DEF Next, Step
<1> QED BY <1>1, <1>2, <1>3

LEMMA LineageInvariant == Spec => []LineageInv
<1>1. ASSUME Init PROVE LineageInv
  <2>1. IsFiniteSet({}) /\ Cardinality({}) = 0 /\ Queue(<<>>)
    BY FS_EmptySet, ChainQueues
  <2>2. TypeOK
    <3>1. todo \in [Delegations -> Seq(Harnesses)] /\ \A d \in Delegations : Len(todo[d]) <= 3
      BY <1>1, <2>1 DEF Init, Queue
    <3>2. \E w \in Workplaces : tree \in [DOMAIN w.tree -> FileStates] /\ cwd = w.cwd
      <4>1. PICK w \in Workplaces : tree = w.tree /\ cwd = w.cwd
        BY <1>1 DEF Init
      <4>2. w.tree \in [DOMAIN w.tree -> FileStates]
        BY DelegationAssumption
      <4> QED BY <4>1, <4>2
    <3>3. /\ at \in [Delegations -> {"idle", "choosing", "running", "killing", "calling"} \cup Ended]
          /\ depth \in [Delegations -> 0..MAX_DELEGATION_DEPTH]
          /\ chain \in [Delegations -> SUBSET Harnesses]
          /\ parent \in [Delegations -> Delegations \cup {Client}]
          /\ baseline \in [Delegations -> SUBSET Lines]
          /\ proc \in [Delegations -> {"none", "led", "orphaned"}]
          /\ loose \in [Delegations -> BOOLEAN] /\ tripped \subseteq Ready
      BY <1>1 DEF Init, Ended, Unsnapped, MAX_DELEGATION_DEPTH
    <3> QED BY <3>1, <3>2, <3>3 DEF TypeOK
  <2>3. ASSUME NEW d \in Delegations PROVE LineageOk(d)
    BY <1>1, <2>1, DelegationAssumption DEF Init, LineageOk, Busy, MAX_DELEGATION_DEPTH
  <2> QED BY <2>2, <2>3 DEF LineageInv
<1> QED BY <1>1, LineageStep, PTL DEF Spec

\* Every variable keeps its type, for any set of delegations and files: the
\* depth is at most MAX_DELEGATION_DEPTH, and no queue of candidates outgrows
\* its chain (HARNESS_FAILOVER_CHAINS).
THEOREM DelegationTypeCorrect == Spec => []TypeOK
<1>1. LineageInv => TypeOK
  BY DEF LineageInv
<1> QED BY <1>1, LineageInvariant, PTL

\* No harness runs beneath a run of itself, nor beneath more than one other,
\* however many delegations there are and whoever makes them: delegate_subagent
\* refuses at the depth, skips the harnesses of the lineage in the waterfall, and
\* gives the lineage on with the harness it starts.
THEOREM NoPingPongs == Spec => []NoPingPong
<1>1. ASSUME LineageInv, NEW d \in Delegations, proc[d] # "none"
      PROVE  /\ Head(todo[d]) \notin chain[d] /\ depth[d] < MAX_DELEGATION_DEPTH
             /\ Cardinality(chain[d]) = depth[d]
  BY <1>1 DEF LineageInv, LineageOk, Busy
<1>2. LineageInv => NoPingPong
  BY <1>1 DEF NoPingPong
<1> QED BY <1>2, LineageInvariant, PTL

-----------------------------------------------------------------------------
(* The rollback. *)

\* A delegation goes on from a run only by failing over.
LEMMA RollsBackStep ==
    ASSUME TypeOK, NEW d \in Delegations, RollsBack(d), [Next]_vars
    PROVE  \E reached \in SUBSET DOMAIN tree : tree' = RolledBack(d, reached)
<1> DEFINE Goal == \E reached \in SUBSET DOMAIN tree : tree' = RolledBack(d, reached)
<1>1. at[d] \in {"running", "killing"} /\ at'[d] = "choosing"
  BY DEF RollsBack
<1>2. ASSUME NEW e \in Delegations, NEW to, at' = [at EXCEPT ![e] = to],
             to # "choosing" \/ at[e] \notin {"running", "killing"}
      PROVE  FALSE
  BY <1>1, <1>2 DEF TypeOK
<1>3. ASSUME NEW e \in Delegations, FailsOver(e) PROVE Goal
  BY <1>1, <1>3 DEF TypeOK, FailsOver
<1>4. ASSUME NEW e \in Delegations, NEW above, NEW level, NEW maker,
             Receive(e, above, level, maker)
      PROVE  FALSE
  BY <1>2, <1>4 DEF Receive, Goes
<1>5. ASSUME NEW e \in Delegations, Advance(e) PROVE Goal
  <2>1. CASE Launch(e)
    BY <1>1, <1>2, <2>1 DEF Launch, Goes
  <2>2. CASE FallBack(e) \/ GatewayAnswers(e) \/ CallTimesOut(e)
    BY <1>2, <2>2 DEF FallBack, GatewayAnswers, CallTimesOut, Goes
  <2>3. CASE Succeeds(e) \/ FailsInItsCode(e)
    BY <1>2, <2>3 DEF Succeeds, FailsInItsCode, Goes
  <2>4. CASE FailsRecoverably(e) \/ Kill(e) \/ TimesOutLeaderless(e)
    BY <1>3, <2>4 DEF FailsRecoverably, Kill, TimesOutLeaderless
  <2>5. CASE Terminate(e)
    BY <1>1, <2>5 DEF Terminate
  <2> QED BY <1>5, <2>1, <2>2, <2>3, <2>4, <2>5 DEF Advance, TimesOut
<1>6. ASSUME UNCHANGED at PROVE FALSE
  BY <1>1, <1>6
<1>7. ASSUME NEW e \in Delegations,
             \/ Ask(e) \/ \E g \in Delegations : Delegate(e, g)
             \/ LeaderExits(e) \/ StrayExits(e) \/ \E f \in DOMAIN tree : HarnessWrites(e, f)
      PROVE  FALSE
  BY <1>4, <1>6, <1>7 DEF Ask, Delegate, LeaderExits, StrayExits, HarnessWrites
<1> QED BY <1>5, <1>6, <1>7 DEF Next, Step, vars, DeveloperWrites, Cool

\* A step leaves the files where they are, and in the index but for what a harness
\* stages.
LEMMA IndexStep ==
    ASSUME LineageInv, [Next]_vars
    PROVE  /\ DOMAIN tree' = DOMAIN tree
           /\ \A f \in DOMAIN tree : tree'[f].index \in {tree[f].index, "harness"}
<1> DEFINE Kept == /\ DOMAIN tree' = DOMAIN tree
                   /\ \A f \in DOMAIN tree : tree'[f].index \in {tree[f].index, "harness"}
<1>1. TypeOK /\ tree \in [DOMAIN tree -> FileStates]
  BY TreeFacts DEF LineageInv
<1>2. ASSUME tree' = tree PROVE Kept
  BY <1>2
<1>3. ASSUME NEW d \in Delegations, NEW reached, tree' = RolledBack(d, reached) PROVE Kept
  <2>1. /\ RolledBack(d, reached) \in [DOMAIN tree -> FileStates]
        /\ \A f \in DOMAIN tree : RolledBack(d, reached)[f].index = tree[f].index
    BY <1>1, RolledBackFacts
  <2> QED BY <1>3, <2>1
<1>4. ASSUME NEW f \in DOMAIN tree, NEW x \in Works, tree' = [tree EXCEPT ![f].work = x]
      PROVE  Kept
  <2>1. \A g \in DOMAIN tree : tree'[g].index = tree[g].index
    BY <1>1, <1>4 DEF FileStates
  <2> QED BY <1>1, <1>4, <2>1
<1>5. ASSUME NEW d \in Delegations, NEW f \in DOMAIN tree, HarnessWrites(d, f) PROVE Kept
  <2>1. CASE tree' = [tree EXCEPT ![f].work = "harness"]
    BY <1>4, <2>1 DEF Works, Indices
  <2>2. CASE tree' = [tree EXCEPT ![f] = [index |-> "harness", work |-> "harness"]]
    BY <1>1, <2>2
  <2> QED BY <1>5, <2>1, <2>2 DEF HarnessWrites
<1>6. ASSUME NEW f \in DOMAIN tree, DeveloperWrites(f) PROVE Kept
  BY <1>4, <1>6 DEF DeveloperWrites, Works
<1> HIDE DEF Kept
<1>7. ASSUME NEW d \in Delegations, Advance(d) PROVE Kept
  <2>1. CASE \/ Launch(d) \/ FallBack(d) \/ GatewayAnswers(d) \/ CallTimesOut(d)
             \/ Succeeds(d) \/ FailsInItsCode(d) \/ Terminate(d)
    BY <1>2, <2>1 DEF Launch, FallBack, GatewayAnswers, CallTimesOut, Succeeds,
       FailsInItsCode, Terminate
  <2>2. CASE FailsRecoverably(d) \/ Kill(d) \/ TimesOutLeaderless(d)
    BY <1>3, <2>2 DEF FailsRecoverably, Kill, TimesOutLeaderless, FailsOver
  <2> QED BY <1>7, <2>1, <2>2 DEF Advance, TimesOut
<1>8. ASSUME NEW d \in Delegations,
             Ask(d) \/ LeaderExits(d) \/ StrayExits(d) \/ \E e \in Delegations : Delegate(d, e)
      PROVE  Kept
  BY <1>2, <1>8 DEF Ask, Delegate, Receive, LeaderExits, StrayExits
<1>9. Kept
  BY <1>2, <1>5, <1>6, <1>7, <1>8 DEF Next, Step, Cool, vars
<1> QED BY <1>9 DEF Kept

LEMMA Least ==
    ASSUME NEW S \in SUBSET Nat, S # {}
    PROVE  \E n \in S : \A k \in S : n <= k
<1>1. PICK n \in S : \A k \in S : <<k, n>> \notin OpToRel(<, Nat)
  BY NatLessThanWellFounded, WFMin
<1>2. \A j, k \in Nat : j < k => <<j, k>> \in OpToRel(<, Nat)
  BY DEF OpToRel
<1>3. \A k \in S : k \in Nat /\ n \in Nat /\ ~(k < n)
  BY <1>1, <1>2, Zenon
<1> QED BY <1>3

\* Git status has a line for every untracked file that is there.
LEMMA UntrackedListed ==
    ASSUME TypeOK, NEW f \in DOMAIN tree, tree[f].index = None, tree[f].work # None
    PROVE  \E p \in Paths : IsPrefix(p, f) /\ <<Untracked, p>> \in Status
<1> DEFINE above(n) == SubSeq(f, 1, n)
           S == {n \in 1..Len(f) : ~Indexed(above(n))}
<1>1. f \in Paths /\ f \in Seq(STRING) /\ f # <<>> /\ Len(f) \in Nat \ {0}
  <2>1. f \in Paths
    BY TreeFacts
  <2>2. f \in Seq(STRING) /\ f # <<>>
    BY <2>1, DelegationAssumption
  <2> QED BY <2>1, <2>2, EmptySeq, LenProperties
<1>2. Len(f) \in S
  <2>1. above(Len(f)) = f
    BY <1>1
  <2>2. ~Indexed(f)
    BY TreeFacts DEF Indexed, Below
  <2>3. ~Indexed(above(Len(f)))
    <3> HIDE DEF above
    <3> QED BY <2>1, <2>2, Zenon
  <2> HIDE DEF above
  <2> QED BY <1>1, <2>3
<1>3. PICK n \in S : \A k \in S : n <= k
  <2> HIDE DEF S
  <2>1. S \subseteq Nat
    BY DEF S
  <2> QED BY <1>2, <2>1, Least
<1>4. n \in 1..Len(f) /\ ~Indexed(above(n)) /\ above(n) \in Paths
  BY <1>1, DelegationAssumption
<1>5. above(n) \in Seq(STRING) /\ Len(above(n)) = n /\ \A i \in 1..n : above(n)[i] = f[i]
  BY <1>1, <1>4
<1>6. IsPrefix(above(n), f)
  BY <1>1, <1>4, <1>5 DEF IsPrefix
<1>7. ASSUME NEW q \in Paths, IsStrictPrefix(q, above(n)) PROVE Indexed(q)
  <2>1. q \in Seq(STRING) /\ q # <<>> /\ Len(q) \in Nat \ {0}
    BY DelegationAssumption, EmptySeq, LenProperties
  <2>2. /\ Len(q) <= n /\ q # above(n)
        /\ SubSeq(q, 1, Len(q)) = SubSeq(above(n), 1, Len(q))
    BY <1>5, <1>7 DEF IsStrictPrefix, IsPrefix
  <2>3. \A i \in 1..Len(q) : q[i] = f[i]
    <3>1. \A i \in 1..Len(q) : q[i] = above(n)[i]
      BY <1>4, <1>5, <2>1, <2>2
    <3> QED BY <1>4, <1>5, <2>1, <2>2, <3>1
  <2>4. q = above(Len(q))
    BY <1>1, <1>4, <2>1, <2>2, <2>3
  <2>5. Len(q) # n
    BY <2>2, <2>4
  <2>6. Len(q) \notin S
    BY <1>3, <1>4, <2>1, <2>2, <2>5
  <2>7. Len(q) \in 1..Len(f)
    BY <1>1, <1>4, <2>1, <2>2
  <2> QED BY <2>4, <2>6, <2>7
<1>8. f \in Below(above(n))
  BY <1>6 DEF Below
<1> HIDE DEF above, S
<1>9. ListedUntracked(above(n))
  BY <1>4, <1>7, <1>8 DEF ListedUntracked
<1> QED BY <1>4, <1>6, <1>9 DEF Status

\* A rollback from the root that git lets through undoes what happened to a file
\* which no line of the snapshot named, in a directory of any depth: there is a
\* line for it, the line is new, and what rollback_git_state does to the file it
\* names is to bring it back to the index.
THEOREM RunsUndone == Spec => FailedRunIsUndone
<1>1. ASSUME LineageInv, NEW d \in Delegations, cwd[d] = <<>>,
             tree' = RolledBack(d, DOMAIN tree), NEW f \in DOMAIN tree,
             \A p \in Paths : IsPrefix(p, f) => p \notin Quoted /\ \A l \in baseline[d] : l[2] # p
      PROVE  tree'[f].work = tree'[f].index
  <2> DEFINE new == Status \ baseline[d]
  <2>1. TypeOK /\ tree[f] \in FileStates /\ f \in Paths
    BY <1>1, TreeFacts DEF LineageInv
  <2>2. /\ tree'[f] = Restored(d, new, f) /\ tree'[f].index = tree[f].index
    BY <1>1, <2>1, RolledBackFacts DEF RolledBack
  <2>3. ASSUME NEW line \in Status, IsPrefix(line[2], f), line[2] \in Paths
        PROVE  line \in new /\ f \in Named(d, line)
    <3>1. line \in new /\ line[2] \notin Quoted
      BY <1>1, <2>3
    <3>2. cwd[d] \o line[2] = line[2]
      BY <1>1, <2>3, ConcatEmptySeq, DelegationAssumption
    <3> QED BY <2>3, <3>1, <3>2 DEF Named
  <2> HIDE DEF new
  <2>4. CASE tree[f].index = None
    <3>1. CASE tree[f].work = None
      <4>1. tree'[f] = tree[f] \/ tree'[f] = [tree[f] EXCEPT !.work = None]
        BY <2>2, <2>4 DEF Restored
      <4> QED BY <2>1, <2>2, <2>4, <3>1, <4>1 DEF FileStates
    <3>2. CASE tree[f].work # None
      <4>1. PICK p \in Paths : IsPrefix(p, f) /\ <<Untracked, p>> \in Status
        BY <2>1, <2>4, <3>2, UntrackedListed
      <4>2. <<Untracked, p>> \in new /\ f \in Named(d, <<Untracked, p>>)
        BY <2>3, <4>1
      <4>3. tree'[f] = [tree[f] EXCEPT !.work = None]
        BY <2>2, <4>2 DEF Restored
      <4> QED BY <2>1, <2>2, <2>4, <4>3 DEF FileStates
    <3> QED BY <3>1, <3>2
  <2>5. CASE tree[f].index # None
    <3>1. ASSUME NEW l \in new, l[1] = Untracked, f \in Named(d, l) PROVE FALSE
      <4>1. l \in Status
        BY DEF new
      <4>2. ListedUntracked(l[2]) /\ l[2] \in Paths
        BY <2>1, <3>1, <4>1, StatusFacts
      <4>3. cwd[d] \o l[2] = l[2]
        BY <1>1, <4>2, ConcatEmptySeq, DelegationAssumption
      <4>4. f \in Below(l[2])
        BY <3>1, <4>3 DEF Named, Below
      <4> QED BY <2>5, <4>2, <4>4 DEF ListedUntracked, Indexed
    <3>2. tree'[f] = IF \E l \in new : f \in Named(d, l)
                     THEN [tree[f] EXCEPT !.work = tree[f].index] ELSE tree[f]
      BY <2>2, <2>5, <3>1 DEF Restored
    <3>3. CASE tree[f].work = tree[f].index
      BY <2>1, <2>2, <3>2, <3>3 DEF FileStates
    <3>4. CASE tree[f].work # tree[f].index
      <4>1. Code(f) # <<"same", "same">>
        BY <3>4 DEF Code
      <4>2. IsPrefix(f, f)
        BY <2>1, DelegationAssumption DEF IsPrefix
      <4>3. Indexed(f)
        BY <2>5, <4>2 DEF Indexed, Below
      <4>4. <<Code(f), f>> \in Status
        BY <4>1, <4>3 DEF Status
      <4>5. <<Code(f), f>> \in new /\ f \in Named(d, <<Code(f), f>>)
        BY <2>1, <2>3, <4>2, <4>4
      <4>6. tree'[f] = [tree[f] EXCEPT !.work = tree[f].index]
        BY <3>2, <4>5
      <4> QED BY <2>1, <2>2, <4>6 DEF FileStates
    <3> QED BY <3>3, <3>4
  <2> QED BY <2>4, <2>5
<1>2. LineageInv =>
        \A d \in Delegations :
           RollsBack(d) /\ cwd[d] = <<>> /\ tree' = RolledBack(d, DOMAIN tree) =>
           \A f \in DOMAIN tree :
              (\A p \in Paths : IsPrefix(p, f) =>
                  p \notin Quoted /\ \A l \in baseline[d] : l[2] # p)
              => tree'[f].work = tree'[f].index
  BY <1>1
<1> QED BY <1>2, LineageInvariant, PTL DEF Spec, FailedRunIsUndone

\* A snapshot is kept as long as its run is at work.
LEMMA BaselineStep ==
    ASSUME LineageInv, [Next]_vars, NEW d \in Delegations, Busy(d)'
    PROVE  \/ Busy(d) /\ baseline'[d] = baseline[d]
           \/ tree' = tree /\ baseline'[d] \in {Status, {}, Unsnapped}
<1>1. TypeOK
  BY DEF LineageInv
<1>2. ASSUME at'[d] = at[d], baseline'[d] = baseline[d]
      PROVE  Busy(d) /\ baseline'[d] = baseline[d]
  BY <1>2 DEF Busy
<1>3. ASSUME NEW e \in Delegations, NEW to, at' = [at EXCEPT ![e] = to],
             to \notin {"running", "killing"},
             baseline' = baseline \/ baseline' = [baseline EXCEPT ![e] = Unsnapped]
      PROVE  Busy(d) /\ baseline'[d] = baseline[d]
  <2>1. e # d
    BY <1>1, <1>3 DEF TypeOK, Busy
  <2> QED BY <1>1, <1>2, <1>3, <2>1 DEF TypeOK
<1>4. ASSUME NEW e \in Delegations, NEW above, NEW level, NEW maker,
             Receive(e, above, level, maker)
      PROVE  Busy(d) /\ baseline'[d] = baseline[d]
  <2>1. PICK to \in {"refused", "choosing"} :
           at' = [at EXCEPT ![e] = to] /\ baseline' = baseline
    BY <1>4 DEF Receive, Goes, runs
  <2> QED BY <1>3, <2>1
<1>5. ASSUME NEW e \in Delegations, Launch(e)
      PROVE  \/ Busy(d) /\ baseline'[d] = baseline[d]
             \/ tree' = tree /\ baseline'[d] \in {Status, {}, Unsnapped}
  <2>1. CASE /\ Goes(e, "choosing", "running") /\ tree' = tree
             /\ \E lines \in Snapshots(e) : baseline' = [baseline EXCEPT ![e] = lines]
    <3>1. CASE e = d
      BY <1>1, <2>1, <3>1 DEF TypeOK, Snapshots
    <3>2. CASE e # d
      BY <1>1, <1>2, <2>1, <3>2 DEF TypeOK, Goes
    <3> QED BY <3>1, <3>2
  <2>2. CASE UNCHANGED <<at, baseline>>
    BY <1>2, <2>2
  <2> QED BY <1>5, <2>1, <2>2 DEF Launch
<1>6. ASSUME NEW e \in Delegations,
             FallBack(e) \/ GatewayAnswers(e) \/ CallTimesOut(e)
      PROVE  Busy(d) /\ baseline'[d] = baseline[d]
  <2>1. PICK to \in {"calling", "success", "failed"} :
           at' = [at EXCEPT ![e] = to] /\ baseline' = baseline
    BY <1>6 DEF FallBack, GatewayAnswers, CallTimesOut, Goes, runs
  <2> QED BY <1>3, <2>1
<1>7. ASSUME NEW e \in Delegations,
             \/ Succeeds(e) \/ FailsInItsCode(e) \/ FailsRecoverably(e) \/ Kill(e)
             \/ TimesOutLeaderless(e)
      PROVE  Busy(d) /\ baseline'[d] = baseline[d]
  <2>1. PICK to \in {"choosing", "success", "failed"} :
           at' = [at EXCEPT ![e] = to] /\ baseline' = [baseline EXCEPT ![e] = Unsnapped]
    BY <1>7 DEF Succeeds, FailsInItsCode, FailsRecoverably, Kill, TimesOutLeaderless,
       FailsOver, Cleared, Goes
  <2> QED BY <1>3, <2>1
<1>8. ASSUME NEW e \in Delegations, Terminate(e)
      PROVE  Busy(d) /\ baseline'[d] = baseline[d]
  <2>1. d \notin Helpers(e) \/ d = e
    BY <1>8 DEF Terminate, Busy
  <2>2. d \notin Helpers(e)
    BY <2>1 DEF Helpers, LineageInv, LineageOk
  <2>3. baseline'[d] = baseline[d]
    BY <1>8, <2>2 DEF Terminate
  <2>4. Busy(d)
    BY <1>8, <2>2 DEF Terminate, Busy
  <2> QED BY <2>3, <2>4
<1>9. ASSUME UNCHANGED <<at, baseline>> PROVE Busy(d) /\ baseline'[d] = baseline[d]
  BY <1>2, <1>9
<1>10. ASSUME NEW e \in Delegations, Advance(e)
       PROVE  \/ Busy(d) /\ baseline'[d] = baseline[d]
              \/ tree' = tree /\ baseline'[d] \in {Status, {}, Unsnapped}
  BY <1>5, <1>6, <1>7, <1>8, <1>10 DEF Advance, TimesOut
<1>11. ASSUME NEW e \in Delegations,
             \/ Ask(e) \/ \E g \in Delegations : Delegate(e, g)
             \/ LeaderExits(e) \/ StrayExits(e) \/ \E f \in DOMAIN tree : HarnessWrites(e, f)
       PROVE  Busy(d) /\ baseline'[d] = baseline[d]
  BY <1>4, <1>9, <1>11 DEF Ask, Delegate, LeaderExits, StrayExits, HarnessWrites, runs
<1> QED BY <1>9, <1>10, <1>11 DEF Next, Step, vars, runs, DeveloperWrites, Cool

\* What is true of the index stays so.
LEMMA LineStep ==
    ASSUME LineageInv, [Next]_vars, NEW line, LineOk(line)
    PROVE  LineOk(line)'
<1>1. /\ DOMAIN tree' = DOMAIN tree
      /\ \A f \in DOMAIN tree : tree'[f].index \in {tree[f].index, "harness"}
  BY IndexStep
<1>2. "harness" # None /\ "harness" # "committed"
  BY DEF None
<1>3. \A p : Below(p)' = Below(p) /\ Below(p) \subseteq DOMAIN tree
  BY <1>1 DEF Below
<1>4. \A p : Indexed(p) => Indexed(p)'
  BY <1>1, <1>2, <1>3 DEF Indexed
<1>5. CASE line[1] = Untracked
  BY <1>1, <1>3, <1>4, <1>5 DEF LineOk
<1>6. CASE line[1] # Untracked
  BY <1>1, <1>2, <1>6 DEF LineOk
<1> QED BY <1>5, <1>6

LEMMA SnapshotTrue ==
    ASSUME TypeOK, NEW line \in Status
    PROVE  LineOk(line)
<1>1. CASE line[1] = Untracked /\ ListedUntracked(line[2])
  BY <1>1 DEF LineOk, ListedUntracked, Indexed
<1>2. CASE /\ line[2] \in DOMAIN tree /\ tree[line[2]].index # None
           /\ line = <<Code(line[2]), line[2]>> /\ line[1] # Untracked
  <2>1. line[1][1] = IF tree[line[2]].index = "committed" THEN "same" ELSE "staged"
    BY <1>2 DEF Code
  <2> QED BY <1>2, <2>1 DEF LineOk
<1> QED BY <1>1, <1>2, StatusFacts

LEMMA TreeInvariant == Spec => []TreeInv
<1>1. ASSUME Init, LineageInv PROVE TreeInv
  BY <1>1 DEF Init, TreeInv, SnapshotOk, Busy
<1>2. ASSUME TreeInv, [Next]_vars PROVE TreeInv'
  <2>1. LineageInv /\ TypeOK /\ LineageInv'
    BY <1>2, LineageStep DEF TreeInv, LineageInv
  <2>2. ASSUME NEW d \in Delegations, Busy(d)', baseline'[d] # Unsnapped,
               NEW line \in baseline'[d]
        PROVE  LineOk(line)'
    <3>1. CASE Busy(d) /\ baseline'[d] = baseline[d]
      <4>1. LineOk(line)
        BY <1>2, <2>2, <3>1 DEF TreeInv, SnapshotOk
      <4> QED BY <1>2, <2>1, <4>1, LineStep
    <3>2. CASE tree' = tree /\ baseline'[d] \in {Status, {}, Unsnapped}
      <4>1. LineOk(line)
        BY <2>1, <2>2, <3>2, SnapshotTrue
      <4> QED BY <1>2, <2>1, <4>1, LineStep
    <3> QED BY <1>2, <2>1, <2>2, <3>1, <3>2, BaselineStep
  <2>3. ASSUME NEW d \in Delegations PROVE SnapshotOk(d)'
    BY <2>2 DEF SnapshotOk, Unsnapped
  <2> QED BY <2>1, <2>3 DEF TreeInv
<1> QED BY <1>1, <1>2, LineageInvariant, PTL DEF Spec

\* Of two paths above a file one is above the other.
LEMMA PathsAbove ==
    ASSUME NEW f \in Seq(STRING), NEW p \in Seq(STRING), NEW q \in Seq(STRING),
           IsPrefix(p, f), IsPrefix(q, f)
    PROVE  p = q \/ IsStrictPrefix(p, q) \/ IsStrictPrefix(q, p)
<1>1. ASSUME NEW a \in Seq(STRING), NEW b \in Seq(STRING),
             IsPrefix(a, f), IsPrefix(b, f), Len(a) <= Len(b)
      PROVE  IsPrefix(a, b)
  <2>1. \A i \in 1..Len(a) : a[i] = f[i]
    <3>1. SubSeq(a, 1, Len(a)) = SubSeq(f, 1, Len(a)) /\ Len(a) <= Len(f)
      BY <1>1 DEF IsPrefix
    <3> QED BY <1>1, <3>1
  <2>2. \A i \in 1..Len(b) : b[i] = f[i]
    <3>1. SubSeq(b, 1, Len(b)) = SubSeq(f, 1, Len(b)) /\ Len(b) <= Len(f)
      BY <1>1 DEF IsPrefix
    <3> QED BY <1>1, <3>1
  <2>3. SubSeq(a, 1, Len(a)) = SubSeq(b, 1, Len(a))
    BY <1>1, <2>1, <2>2
  <2> QED BY <1>1, <2>3 DEF IsPrefix
<1> QED BY <1>1, LenProperties DEF IsStrictPrefix

\* A line that is new names no file with unstaged work of before the run, if no
\* harness has staged anything where git status looked for it.
LEMMA NewLinesElsewhere ==
    ASSUME TypeOK, NEW d \in Delegations, SnapshotOk(d), Busy(d),
           NEW f \in DOMAIN tree, NEW l \in baseline[d],
           IsPrefix(l[2], f), l[1][2] \in {"M", "untracked"},
           tree[f].work = "developer",
           \A g \in Below(l[2]) : tree[g].index # "harness",
           NEW m \in Status, IsPrefix(m[2], f)
    PROVE  m \in baseline[d]
<1>1. CASE baseline[d] = Unsnapped
  BY <1>1, StatusFacts DEF Unsnapped
<1>2. CASE baseline[d] # Unsnapped
  <2>1. LineOk(l) /\ l \in Lines /\ f \in Below(l[2])
    BY <1>2 DEF SnapshotOk, TypeOK, Below
  <2>2. CASE l[1] = Untracked
    <3>1. /\ \A g \in Below(l[2]) : tree[g].index = None
          /\ \A q \in Paths : IsStrictPrefix(q, l[2]) => Indexed(q)
      BY <2>1, <2>2 DEF LineOk
    <3>2. ~Indexed(l[2]) /\ tree[f].index = None
      BY <2>1, <3>1 DEF Indexed
    <3>3. m[1] = Untracked /\ ListedUntracked(m[2]) /\ m[2] \in Paths /\ m = <<m[1], m[2]>>
      <4>1. m \in Lines
        BY StatusFacts
      <4>2. ASSUME m[2] \in DOMAIN tree, tree[m[2]].index # None PROVE FALSE
        BY <3>2, <4>2, TreeFacts
      <4> QED BY <4>1, <4>2, StatusFacts DEF Lines
    <3>4. l[2] \in Paths /\ l = <<l[1], l[2]>>
      BY <2>1 DEF Lines
    <3>5. m[2] = l[2]
      <4>1. m[2] = l[2] \/ IsStrictPrefix(m[2], l[2]) \/ IsStrictPrefix(l[2], m[2])
        <5>1. f \in Paths
          BY TreeFacts
        <5> QED BY <3>3, <3>4, <5>1, PathsAbove, DelegationAssumption
      <4>2. ~IsStrictPrefix(m[2], l[2])
        BY <3>1, <3>3 DEF ListedUntracked
      <4>3. ~IsStrictPrefix(l[2], m[2])
        BY <3>2, <3>3, <3>4 DEF ListedUntracked
      <4> QED BY <4>1, <4>2, <4>3
    <3> QED BY <2>2, <3>3, <3>4, <3>5
  <2>3. CASE l[1] # Untracked
    <3>1. /\ l[2] \in DOMAIN tree /\ tree[l[2]].index # None
          /\ \/ tree[l[2]].index = "harness"
             \/ l[1][1] = IF tree[l[2]].index = "committed" THEN "same" ELSE "staged"
      BY <2>1, <2>3 DEF LineOk
    <3>2. l[2] = f
      BY <3>1, TreeFacts
    <3>3. /\ tree[f].index # None
          /\ l[1][1] = IF tree[f].index = "committed" THEN "same" ELSE "staged"
      BY <2>1, <3>1, <3>2
    <3>4. l = <<l[1], f>> /\ l[1] = <<l[1][1], "M">>
      BY <2>1, <2>3, <3>2 DEF Lines, Codes, Untracked
    <3>5. Code(f) = <<l[1][1], "M">>
      <4>1. tree[f].index \in Indices
        BY TreeFacts DEF FileStates
      <4>2. tree[f].work # tree[f].index /\ tree[f].work # None
        BY <4>1 DEF Indices, None
      <4> QED BY <3>3, <4>2 DEF Code
    <3>6. m[2] = f /\ m = <<Code(f), f>>
      <4>1. ASSUME ListedUntracked(m[2]) PROVE FALSE
        <5>1. f \in Below(m[2])
          BY DEF Below
        <5> QED BY <3>3, <4>1, <5>1 DEF ListedUntracked, Indexed
      <4>2. m[2] \in DOMAIN tree /\ m = <<Code(m[2]), m[2]>>
        BY <4>1, StatusFacts
      <4>3. m[2] = f
        BY <4>2, TreeFacts
      <4> QED BY <4>2, <4>3
    <3> QED BY <3>4, <3>5, <3>6
  <2> QED BY <2>2, <2>3
<1> QED BY <1>1, <1>2

\* What a developer has not staged before a run outlives its rollback from the
\* root of the repository, whoever else writes and rolls back in the tree from
\* whatever directory, while no harness stages the file or one in the untracked
\* directory it is in: no line of git status that names it is new to
\* rollback_git_state.
THEOREM WorkSurvives == Spec => EarlierWorkSurvives
<1>1. ASSUME TreeInv, [Next]_vars, NEW d \in Delegations, RollsBack(d), cwd[d] = <<>>,
             NEW f \in DOMAIN tree, NEW l \in baseline[d],
             IsPrefix(l[2], f), l[1][2] \in {"M", "untracked"},
             tree[f].work = "developer",
             \A g \in Below(l[2]) : tree[g].index # "harness"
      PROVE  tree'[f].work = "developer"
  <2>1. TypeOK /\ SnapshotOk(d) /\ Busy(d)
    BY <1>1 DEF TreeInv, LineageInv, RollsBack, Busy
  <2>2. PICK reached \in SUBSET DOMAIN tree : tree' = RolledBack(d, reached)
    BY <1>1, <2>1, RollsBackStep
  <2>3. ASSUME NEW m \in Status \ baseline[d], f \in Named(d, m)
        PROVE  FALSE
    <3>1. m[2] \in Paths
      BY <2>1, StatusFacts DEF Lines
    <3>2. cwd[d] \o m[2] = m[2]
      BY <1>1, <3>1, ConcatEmptySeq, DelegationAssumption
    <3>3. IsPrefix(m[2], f)
      BY <2>3, <3>2 DEF Named
    <3> QED BY <1>1, <2>1, <3>3, NewLinesElsewhere
  <2>4. RolledBack(d, reached)[f] = tree[f]
    BY <2>1, <2>3, RolledBackFacts
  <2> QED BY <1>1, <2>2, <2>4
<1>2. TreeInv /\ [Next]_vars =>
        \A d \in Delegations : RollsBack(d) /\ cwd[d] = <<>> =>
           \A f \in DOMAIN tree, l \in baseline[d] :
              /\ IsPrefix(l[2], f) /\ l[1][2] \in {"M", "untracked"}
              /\ tree[f].work = "developer"
              /\ \A g \in Below(l[2]) : tree[g].index # "harness"
              => tree'[f].work = "developer"
  BY <1>1
<1> QED BY <1>2, TreeInvariant, PTL DEF Spec, EarlierWorkSurvives
=============================================================================
