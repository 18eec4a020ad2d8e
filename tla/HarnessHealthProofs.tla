------------------------ MODULE HarnessHealthProofs ------------------------
(***************************************************************************)
(* Theorems of HarnessHealth, for every set of delegations, processes and  *)
(* harnesses and all cooldowns.                                            *)
(***************************************************************************)
EXTENDS HarnessHealth, TLAPS

\* What is left of a cooldown in a set of entries.
Left(entries, h) == IF h \in DOMAIN entries THEN entries[h] ELSE 0

\* Whatever is written or is about to be has been earned.
AllEarned ==
    /\ \A h \in DOMAIN Read : Read[h] <= earned[h]
    /\ \A d \in Delegations : \A h \in DOMAIN doc[d] : doc[d][h] <= earned[h]

\* As long as no reports have overlapped, there is one at most, which holds what
\* is owed and is about to write it on an empty file; else the file has it.
InOrder ==
    ~overlapped =>
       /\ \A d, e \in Delegations : Reporting(d) /\ Reporting(e) => d = e
       /\ (\A d \in Delegations : ~Reporting(d)) =>
             \A h \in Harnesses : Left(Read, h) = owed[h]
       /\ \A d \in Delegations : Reporting(d) =>
             \A h \in Harnesses : Left(doc[d], h) = owed[h]
       /\ \A d \in Delegations : pc[d] = "opened" => file = Blank

HealthInv == TypeOK /\ AllEarned /\ InOrder

-----------------------------------------------------------------------------
(* Operators of the model. *)

LEMMA MaxOfTwo ==
    ASSUME NEW a \in Nat, NEW b \in Nat
    PROVE  /\ Max({a, b}) \in {a, b}
           /\ Max({a, b}) >= a /\ Max({a, b}) >= b
<1>1. \E x \in {a, b} : \A y \in {a, b} : x >= y
  <2>1. CASE a >= b
    BY <2>1
  <2>2. CASE b >= a
    BY <2>2
  <2> QED BY <2>1, <2>2
<1> QED BY <1>1 DEF Max

\* Some reason has the longest cooldown.
LEMMA LongestFacts ==
    /\ Longest \in Nat
    /\ \A r \in Reasons : Cooldown[r] \in 0..Longest
<1> USE HarnessHealthAssumption
<1>1. \E r \in Reasons : \A s \in Reasons : Cooldown[r] >= Cooldown[s]
  BY SMTT(30) DEF Reasons
<1>2. \E x \in {Cooldown[r] : r \in Reasons} :
         \A y \in {Cooldown[r] : r \in Reasons} : x >= y
  BY <1>1
<1>3. /\ Longest \in {Cooldown[r] : r \in Reasons}
      /\ \A y \in {Cooldown[r] : r \in Reasons} : Longest >= y
  BY <1>2 DEF Longest, Max
<1> QED BY <1>3

\* Entries, by what they hold.
LEMMA EntriesFacts ==
    ASSUME NEW f
    PROVE  f \in Entries <=>
              /\ f = [h \in DOMAIN f |-> f[h]]
              /\ DOMAIN f \subseteq Harnesses
              /\ \A h \in DOMAIN f : f[h] \in 0..Longest
<1>1. f \in Entries <=> \E H \in SUBSET Harnesses : f \in [H -> 0..Longest]
  BY DEF Entries
<1> QED BY <1>1

LEMMA NoEntriesFacts ==
    /\ NoEntries \in Entries /\ DOMAIN NoEntries = {}
    /\ \A h : Left(NoEntries, h) = 0
<1>1. DOMAIN NoEntries = {} /\ NoEntries = [h \in {} |-> NoEntries[h]]
  BY DEF NoEntries
<1> QED BY <1>1, EntriesFacts DEF Left

LEMMA WithTripFacts ==
    ASSUME Read \in Entries, NEW h \in Harnesses, NEW c \in 0..Longest
    PROVE  /\ WithTrip(h, c) \in Entries
           /\ DOMAIN WithTrip(h, c) = DOMAIN Read \cup {h}
           /\ \A g \in DOMAIN WithTrip(h, c) :
                 WithTrip(h, c)[g] = IF g = h THEN c ELSE Read[g]
           /\ \A g : Left(WithTrip(h, c), g) = IF g = h THEN c ELSE Left(Read, g)
<1>1. /\ DOMAIN Read \subseteq Harnesses
      /\ \A g \in DOMAIN Read : Read[g] \in 0..Longest
  BY EntriesFacts
<1>2. /\ DOMAIN WithTrip(h, c) = DOMAIN Read \cup {h}
      /\ \A g \in DOMAIN WithTrip(h, c) :
            WithTrip(h, c)[g] = IF g = h THEN c ELSE Read[g]
      /\ WithTrip(h, c) = [g \in DOMAIN WithTrip(h, c) |-> WithTrip(h, c)[g]]
  BY DEF WithTrip
<1>3. \A g \in DOMAIN WithTrip(h, c) : WithTrip(h, c)[g] \in 0..Longest
  BY <1>1, <1>2
<1>4. WithTrip(h, c) \in Entries
  BY <1>1, <1>2, <1>3, EntriesFacts
<1> QED BY <1>2, <1>4 DEF Left

LEMMA WithoutFacts ==
    ASSUME NEW f \in Entries, NEW h, NEW r, r = [g \in DOMAIN f \ {h} |-> f[g]]
    PROVE  /\ r \in Entries
           /\ DOMAIN r = DOMAIN f \ {h}
           /\ \A g \in DOMAIN r : r[g] = f[g]
           /\ \A g : Left(r, g) = IF g = h THEN 0 ELSE Left(f, g)
<1>1. /\ DOMAIN f \subseteq Harnesses
      /\ \A g \in DOMAIN f : f[g] \in 0..Longest
  BY EntriesFacts
<1>2. /\ DOMAIN r = DOMAIN f \ {h}
      /\ \A g \in DOMAIN r : r[g] = f[g]
      /\ r = [g \in DOMAIN r |-> r[g]]
  OBVIOUS
<1>3. r \in Entries
  BY <1>1, <1>2, EntriesFacts
<1> QED BY <1>2, <1>3 DEF Left

LEMMA LessFacts ==
    ASSUME NEW f \in Entries
    PROVE  /\ Less(f) \in Entries
           /\ DOMAIN Less(f) = DOMAIN f
           /\ \A g \in DOMAIN f : Less(f)[g] = IF f[g] = 0 THEN 0 ELSE f[g] - 1
           /\ \A g : Left(Less(f), g) = IF Left(f, g) = 0 THEN 0 ELSE Left(f, g) - 1
<1>1. /\ DOMAIN f \subseteq Harnesses
      /\ \A g \in DOMAIN f : f[g] \in 0..Longest
  BY EntriesFacts
<1>2. /\ DOMAIN Less(f) = DOMAIN f
      /\ \A g \in DOMAIN f : Less(f)[g] = IF f[g] = 0 THEN 0 ELSE f[g] - 1
      /\ Less(f) = [g \in DOMAIN Less(f) |-> Less(f)[g]]
  BY DEF Less
<1>3. \A g \in DOMAIN f : Less(f)[g] \in 0..Longest
  BY <1>1, <1>2, LongestFacts
<1>4. Less(f) \in Entries
  BY <1>1, <1>2, <1>3, EntriesFacts
<1> QED BY <1>2, <1>4 DEF Left

\* A well-typed file.
LEMMA FileFacts ==
    ASSUME TypeOK
    PROVE  /\ Read \in Entries
           /\ file = [text |-> file.text, entries |-> Read]
           /\ file \in {Blank, Torn} => Read = NoEntries
           /\ file \notin {Blank, Torn} => file = Json(Read)
BY NoEntriesFacts DEF TypeOK, Read, Blank, Torn, Json
-----------------------------------------------------------------------------
(* The invariant. *)

LEMMA HealthInit == Init => HealthInv
<1> SUFFICES ASSUME Init
             PROVE  HealthInv
  OBVIOUS
<1>1. Read = NoEntries
  BY DEF Init, Read, Blank
<1>2. TypeOK
  <2>1. /\ file \in {Blank, Torn} \cup {Json(e) : e \in Entries}
        /\ runs \in [Delegations -> Harnesses \cup {NoHarness}]
        /\ pc \in [Delegations -> {"idle", "read", "opened"}]
        /\ overlapped \in BOOLEAN
    BY DEF Init
  <2>2. doc \in [Delegations -> Entries]
    BY NoEntriesFacts DEF Init
  <2>3. owed \in [Harnesses -> 0..Longest] /\ earned \in [Harnesses -> 0..Longest]
    BY LongestFacts DEF Init
  <2> QED BY <2>1, <2>2, <2>3 DEF TypeOK
<1>3. AllEarned
  BY <1>1, NoEntriesFacts DEF Init, AllEarned
<1>4. InOrder
  BY <1>1, NoEntriesFacts DEF Init, InOrder, Reporting
<1> QED BY <1>2, <1>3, <1>4 DEF HealthInv

\* A run that begins, or ends without a report, changes nothing that is kept.
LEMMA RunStep ==
    ASSUME HealthInv, NEW d \in Delegations, NEW h \in Harnesses,
           Start(d, h) \/ EndsUnreported(d)
    PROVE  HealthInv'
<1>1. UNCHANGED <<file, pc, doc, auxiliary>>
  BY DEF Start, EndsUnreported
<1>2. runs' \in [Delegations -> Harnesses \cup {NoHarness}]
  BY DEF Start, EndsUnreported, HealthInv, TypeOK
<1>3. TypeOK'
  BY <1>1, <1>2 DEF HealthInv, TypeOK, auxiliary
<1>4. AllEarned' /\ InOrder'
  BY <1>1 DEF HealthInv, AllEarned, InOrder, Read, Reporting, auxiliary
<1> QED BY <1>3, <1>4 DEF HealthInv

\* A report of d that was the only one is so afterwards.
LEMMA FailsStep ==
    ASSUME HealthInv, NEW d \in Delegations, Fails(d)
    PROVE  HealthInv'
<1> DEFINE h == runs[d]
<1>1. PICK r \in Failures :
         /\ doc' = [doc EXCEPT ![d] = WithTrip(h, Cooldown[r])]
         /\ owed' = [owed EXCEPT ![h] = Cooldown[r]]
         /\ earned' = [earned EXCEPT ![h] = Max({@, Cooldown[r]})]
  BY DEF Fails
<1>2. h \in Harnesses
  BY DEF Fails, HealthInv, TypeOK
<1>3. Cooldown[r] \in 0..Longest
  <2>1. r \in Reasons
    BY DEF Failures, Classified, Reasons
  <2> QED BY <2>1, LongestFacts
<1>4. Read \in Entries
  BY FileFacts DEF HealthInv
<1> DEFINE w == WithTrip(h, Cooldown[r])
<1>5. /\ w \in Entries
      /\ DOMAIN w = DOMAIN Read \cup {h}
      /\ \A g \in DOMAIN w : w[g] = IF g = h THEN Cooldown[r] ELSE Read[g]
      /\ \A g : Left(w, g) = IF g = h THEN Cooldown[r] ELSE Left(Read, g)
  BY <1>2, <1>3, <1>4, WithTripFacts
<1>6. /\ earned[h] \in 0..Longest
      /\ Max({earned[h], Cooldown[r]}) \in 0..Longest
      /\ Max({earned[h], Cooldown[r]}) >= Cooldown[r]
      /\ Max({earned[h], Cooldown[r]}) >= earned[h]
  <2>1. earned[h] \in 0..Longest
    BY <1>2 DEF HealthInv, TypeOK
  <2> QED BY <2>1, <1>3, MaxOfTwo, LongestFacts
<1> HIDE DEF w, h
<1>7. TypeOK'
  <2>1. doc' \in [Delegations -> Entries]
    BY <1>1, <1>5 DEF HealthInv, TypeOK, w
  <2>2. owed' \in [Harnesses -> 0..Longest] /\ earned' \in [Harnesses -> 0..Longest]
    BY <1>1, <1>2, <1>3, <1>6 DEF HealthInv, TypeOK
  <2>3. overlapped' \in BOOLEAN
    BY Zenon DEF Fails, Overlap
  <2>4. /\ pc' \in [Delegations -> {"idle", "read", "opened"}]
        /\ runs' \in [Delegations -> Harnesses \cup {NoHarness}]
    BY DEF Fails, HealthInv, TypeOK
  <2> QED BY <2>1, <2>2, <2>3, <2>4 DEF Fails, HealthInv, TypeOK
<1>8. AllEarned'
  <2>1. \A g \in Harnesses : earned'[g] >= earned[g] /\ earned[g] \in Nat
    BY <1>1, <1>2, <1>6, LongestFacts DEF HealthInv, TypeOK
  <2>2. earned'[h] >= Cooldown[r]
    BY <1>1, <1>2, <1>6 DEF HealthInv, TypeOK
  <2>3. Read' = Read /\ DOMAIN Read \subseteq Harnesses
        /\ \A g \in DOMAIN Read : Read[g] \in Nat /\ Read[g] <= earned[g]
    BY <1>4, EntriesFacts, LongestFacts DEF Fails, Read, HealthInv, AllEarned
  <2>4. \A g \in DOMAIN Read' : Read'[g] <= earned'[g]
    <3> SUFFICES ASSUME NEW g \in DOMAIN Read
                 PROVE  Read[g] <= earned'[g]
      BY <2>3
    <3>1. g \in Harnesses /\ Read[g] <= earned[g] /\ Read[g] \in Nat
      BY <2>3
    <3>2. earned'[g] >= earned[g] /\ earned[g] \in Nat /\ earned'[g] \in 0..Longest
      BY <2>1, <3>1, <1>7 DEF TypeOK
    <3> QED BY <3>1, <3>2, LongestFacts
  <2>5. ASSUME NEW e \in Delegations, NEW g \in DOMAIN doc'[e]
        PROVE  doc'[e][g] <= earned'[g]
    <3>1. CASE e = d
      <4>1. doc'[e] = w
        BY <3>1, <1>1 DEF HealthInv, TypeOK, w
      <4>2. CASE g = h
        BY <4>1, <4>2, <1>5, <2>2
      <4>3. CASE g # h
        BY <4>1, <4>3, <1>5, <2>3, <2>4
      <4> QED BY <4>2, <4>3
    <3>2. CASE e # d
      <4>1. doc'[e] = doc[e] /\ doc[e] \in Entries
        BY <3>2, <1>1 DEF HealthInv, TypeOK
      <4>2. g \in Harnesses /\ doc[e][g] \in 0..Longest /\ doc[e][g] <= earned[g]
        BY <4>1, EntriesFacts DEF HealthInv, AllEarned
      <4>3. earned'[g] >= earned[g] /\ earned[g] \in Nat /\ earned'[g] \in 0..Longest
        BY <2>1, <4>2, <1>7 DEF TypeOK
      <4> QED BY <4>1, <4>2, <4>3, LongestFacts
    <3> QED BY <3>1, <3>2
  <2> QED BY <2>4, <2>5 DEF AllEarned
<1>9. InOrder'
  <2> SUFFICES ASSUME ~overlapped'
               PROVE  InOrder'
    BY DEF InOrder
  <2>1. /\ ~overlapped
        /\ \A e \in Delegations : ~Reporting(e)
    BY DEF Fails, Overlap, Reporting
  <2>2. \A g \in Harnesses : Left(Read, g) = owed[g]
    BY <2>1 DEF HealthInv, InOrder
  <2>3. \A e \in Delegations : pc'[e] = IF e = d THEN "read" ELSE "idle"
    BY <2>1 DEF Fails, Reporting, HealthInv, TypeOK
  <2>4. \A g \in Harnesses : Left(doc'[d], g) = owed'[g]
    BY <2>2, <1>1, <1>2, <1>5 DEF HealthInv, TypeOK, w
  <2> QED BY <2>3, <2>4 DEF InOrder, Reporting
<1> QED BY <1>7, <1>8, <1>9 DEF HealthInv

LEMMA SucceedsStep ==
    ASSUME HealthInv, NEW d \in Delegations, Succeeds(d)
    PROVE  HealthInv'
<1> DEFINE h == runs[d]
           w == [g \in DOMAIN Read \ {h} |-> Read[g]]
<1>1. /\ h \in Harnesses
      /\ file' = file /\ Read' = Read /\ earned' = earned
      /\ owed' = [owed EXCEPT ![h] = 0]
      /\ \/ h \in DOMAIN Read /\ doc' = [doc EXCEPT ![d] = w]
                             /\ pc' = [pc EXCEPT ![d] = "read"]
         \/ h \notin DOMAIN Read /\ doc' = doc /\ pc' = pc
  BY DEF Succeeds, Read, HealthInv, TypeOK
<1>2. /\ Read \in Entries /\ w \in Entries
      /\ DOMAIN w = DOMAIN Read \ {h}
      /\ \A g \in DOMAIN w : w[g] = Read[g]
      /\ \A g : Left(w, g) = IF g = h THEN 0 ELSE Left(Read, g)
  <2>1. Read \in Entries
    BY FileFacts DEF HealthInv
  <2> QED BY <2>1, WithoutFacts
<1> HIDE DEF w, h
<1>3. TypeOK'
  <2>1. doc' \in [Delegations -> Entries]
    BY <1>1, <1>2 DEF HealthInv, TypeOK
  <2>2. owed' \in [Harnesses -> 0..Longest]
    BY <1>1, LongestFacts DEF HealthInv, TypeOK
  <2>3. overlapped' \in BOOLEAN
    BY Zenon DEF Succeeds, Overlap
  <2>4. pc' \in [Delegations -> {"idle", "read", "opened"}]
    BY <1>1 DEF HealthInv, TypeOK
  <2>5. runs' \in [Delegations -> Harnesses \cup {NoHarness}]
    BY DEF Succeeds, HealthInv, TypeOK
  <2> QED BY <2>1, <2>2, <2>3, <2>4, <2>5, <1>1 DEF HealthInv, TypeOK
<1>4. AllEarned'
  <2>1. ASSUME NEW e \in Delegations, NEW g \in DOMAIN doc'[e]
        PROVE  doc'[e][g] <= earned[g]
    <3>1. doc'[e] = doc[e] \/ doc'[e] = w
      BY <1>1 DEF HealthInv, TypeOK
    <3> QED BY <3>1, <1>2 DEF HealthInv, AllEarned
  <2> QED BY <2>1, <1>1 DEF HealthInv, AllEarned
<1>5. InOrder'
  <2> SUFFICES ASSUME ~overlapped'
               PROVE  InOrder'
    BY DEF InOrder
  <2>1. /\ ~overlapped
        /\ \A e \in Delegations : ~Reporting(e)
    BY DEF Succeeds, Overlap, Reporting
  <2>2. \A g \in Harnesses : Left(Read, g) = owed[g]
    BY <2>1 DEF HealthInv, InOrder
  <2>3. CASE h \in DOMAIN Read
    <3>1. \A e \in Delegations : pc'[e] = IF e = d THEN "read" ELSE "idle"
      BY <2>1, <2>3, <1>1 DEF Reporting, HealthInv, TypeOK
    <3>2. \A g \in Harnesses : Left(doc'[d], g) = owed'[g]
      BY <2>2, <2>3, <1>1, <1>2 DEF HealthInv, TypeOK
    <3> QED BY <3>1, <3>2 DEF InOrder, Reporting
  <2>4. CASE h \notin DOMAIN Read
    <3>1. \A e \in Delegations : pc'[e] = "idle"
      BY <2>1, <2>4, <1>1 DEF Reporting
    <3>2. \A g \in Harnesses : Left(Read', g) = owed'[g]
      BY <2>2, <2>4, <1>1 DEF HealthInv, TypeOK, Left
    <3> QED BY <3>1, <3>2 DEF InOrder, Reporting
  <2> QED BY <2>3, <2>4
<1> QED BY <1>3, <1>4, <1>5 DEF HealthInv

LEMMA OpenStep ==
    ASSUME HealthInv, NEW d \in Delegations, Open(d)
    PROVE  HealthInv'
<1>1. /\ pc[d] = "read" /\ pc' = [pc EXCEPT ![d] = "opened"]
      /\ file' = Blank /\ Read' = NoEntries
      /\ UNCHANGED <<runs, doc, owed, earned, overlapped>>
  BY DEF Open, Read, Blank, auxiliary
<1>2. TypeOK'
  BY <1>1 DEF HealthInv, TypeOK
<1>3. AllEarned'
  BY <1>1, NoEntriesFacts DEF HealthInv, AllEarned
<1>4. InOrder'
  <2>1. /\ pc'[d] = "opened"
        /\ \A e \in Delegations : e # d => pc'[e] = pc[e]
    BY <1>1 DEF HealthInv, TypeOK
  <2>2. \A e \in Delegations : (pc'[e] # "idle") <=> Reporting(e)
    BY <1>1, <2>1 DEF Reporting
  <2> QED BY <1>1, <2>1, <2>2 DEF HealthInv, InOrder, Reporting
<1> QED BY <1>2, <1>3, <1>4 DEF HealthInv

\* A report that was alone has found the file empty when it closes it.
LEMMA CloseStep ==
    ASSUME HealthInv, NEW d \in Delegations, Close(d)
    PROVE  HealthInv'
<1>1. /\ pc[d] = "opened" /\ pc' = [pc EXCEPT ![d] = "idle"]
      /\ doc' = [doc EXCEPT ![d] = NoEntries]
      /\ UNCHANGED <<runs, owed, earned, overlapped>>
  BY DEF Close, auxiliary
<1>2. \/ file' = Json(doc[d]) /\ Read' = doc[d]
      \/ file # Blank /\ file' = Torn /\ Read' = NoEntries
  BY DEF Close, Read, Json, Torn
<1>3. doc[d] \in Entries
  BY DEF HealthInv, TypeOK
<1>4. TypeOK'
  BY <1>1, <1>2, <1>3, NoEntriesFacts DEF HealthInv, TypeOK
<1>5. AllEarned'
  <2>1. \A e \in Delegations : doc'[e] = doc[e] \/ DOMAIN doc'[e] = {}
    BY <1>1, NoEntriesFacts DEF HealthInv, TypeOK
  <2> QED BY <1>1, <1>2, <2>1, NoEntriesFacts DEF HealthInv, AllEarned
<1>6. InOrder'
  <2> SUFFICES ASSUME ~overlapped
               PROVE  InOrder'
    BY <1>1 DEF InOrder
  <2>1. /\ file = Blank
        /\ \A e \in Delegations : Reporting(e) => e = d
        /\ \A g \in Harnesses : Left(doc[d], g) = owed[g]
    BY <1>1 DEF HealthInv, InOrder, Reporting
  <2>2. Read' = doc[d]
    BY <1>2, <2>1
  <2>3. \A e \in Delegations : pc'[e] = "idle"
    BY <1>1, <2>1 DEF Reporting, HealthInv, TypeOK
  <2> QED BY <1>1, <2>1, <2>2, <2>3 DEF InOrder, Reporting
<1> QED BY <1>4, <1>5, <1>6 DEF HealthInv

LEMMA WriteFailsStep ==
    ASSUME HealthInv, NEW d \in Delegations, WriteFails(d)
    PROVE  HealthInv'
<1>1. /\ pc' = [pc EXCEPT ![d] = "idle"]
      /\ doc' = [doc EXCEPT ![d] = NoEntries]
      /\ UNCHANGED <<runs, owed, earned>> /\ overlapped'
  BY DEF WriteFails
<1>2. \/ file' = file /\ Read' = Read
      \/ file' = Torn /\ Read' = NoEntries
  BY DEF WriteFails, Read, Torn
<1>3. TypeOK'
  <2>1. /\ file' \in {Blank, Torn} \cup {Json(e) : e \in Entries}
        /\ pc' \in [Delegations -> {"idle", "read", "opened"}]
        /\ doc' \in [Delegations -> Entries]
    BY <1>1, <1>2, NoEntriesFacts DEF HealthInv, TypeOK
  <2>2. overlapped' \in BOOLEAN
    BY DEF WriteFails
  <2> QED BY <1>1, <2>1, <2>2 DEF HealthInv, TypeOK
<1>4. AllEarned'
  <2>1. \A e \in Delegations : doc'[e] = doc[e] \/ DOMAIN doc'[e] = {}
    BY <1>1, NoEntriesFacts DEF HealthInv, TypeOK
  <2> QED BY <1>1, <1>2, <2>1, NoEntriesFacts DEF HealthInv, AllEarned
<1> QED BY <1>1, <1>3, <1>4 DEF HealthInv, InOrder

LEMMA KillStep ==
    ASSUME HealthInv, NEW P, Kill(P)
    PROVE  HealthInv'
<1>1. /\ runs' = [d \in Delegations |-> IF d \in P THEN NoHarness ELSE runs[d]]
      /\ pc' = [d \in Delegations |-> IF d \in P THEN "idle" ELSE pc[d]]
      /\ doc' = [d \in Delegations |-> IF d \in P THEN NoEntries ELSE doc[d]]
      /\ file' = file /\ Read' = Read /\ owed' = owed /\ earned' = earned
  BY DEF Kill, Read
<1>2. TypeOK'
  <2>1. overlapped' \in BOOLEAN
    BY Zenon DEF Kill
  <2> QED BY <1>1, <2>1, NoEntriesFacts DEF HealthInv, TypeOK
<1>3. AllEarned'
  <2>1. \A e \in Delegations : doc'[e] = doc[e] \/ DOMAIN doc'[e] = {}
    BY <1>1, NoEntriesFacts
  <2> QED BY <1>1, <2>1 DEF HealthInv, AllEarned
<1>4. InOrder'
  <2> SUFFICES ASSUME ~overlapped'
               PROVE  InOrder'
    BY DEF InOrder
  <2>1. ~overlapped /\ \A d \in P : ~Reporting(d)
    BY DEF Kill
  <2>2. \A d \in Delegations : /\ pc'[d] = pc[d]
                               /\ Reporting(d) => doc'[d] = doc[d]
    BY <1>1, <2>1 DEF Reporting
  <2> QED BY <1>1, <2>1, <2>2 DEF HealthInv, InOrder, Reporting
<1> QED BY <1>2, <1>3, <1>4 DEF HealthInv

\* What is left falls at the same pace wherever it is kept.
LEMMA TickStep ==
    ASSUME HealthInv, Tick
    PROVE  HealthInv'
<1>1. /\ file' = [file EXCEPT !.entries = Less(Read)]
      /\ doc' = [d \in Delegations |-> Less(doc[d])]
      /\ owed' = Less(owed) /\ earned' = Less(earned)
      /\ UNCHANGED <<runs, pc, overlapped>>
  BY DEF Tick, Read
<1>2. Read \in Entries /\ \A d \in Delegations : doc[d] \in Entries
  BY FileFacts DEF HealthInv, TypeOK
<1>3. /\ owed \in [Harnesses -> 0..Longest] /\ earned \in [Harnesses -> 0..Longest]
      /\ owed \in Entries /\ earned \in Entries
  BY EntriesFacts DEF HealthInv, TypeOK
<1>4. /\ Read' = Less(Read)
      /\ file' \in {Blank, Torn} \cup {Json(e) : e \in Entries}
      /\ file = Blank => file' = Blank
  <2>1. Less(NoEntries) = NoEntries
    BY NoEntriesFacts DEF Less, NoEntries
  <2>2. Less(Read) \in Entries
    BY <1>2, LessFacts
  <2>3. CASE file \in {Blank, Torn}
    <3>1. Read = NoEntries /\ file' = file
      BY <2>1, <2>3, <1>1, FileFacts DEF HealthInv, Blank, Torn, Read
    <3> QED BY <3>1, <2>1, <2>3 DEF Read
  <2>4. CASE file \notin {Blank, Torn}
    <3>1. file' = Json(Less(Read))
      BY <2>4, <1>1, FileFacts DEF HealthInv, Json
    <3> QED BY <3>1, <2>2, <2>4 DEF Read, Json
  <2> QED BY <2>3, <2>4
<1>5. TypeOK'
  <2>1. doc' \in [Delegations -> Entries]
    BY <1>1, <1>2, LessFacts
  <2>2. owed' \in [Harnesses -> 0..Longest] /\ earned' \in [Harnesses -> 0..Longest]
    <3>1. \A x \in 0..Longest : (IF x = 0 THEN 0 ELSE x - 1) \in 0..Longest
      BY LongestFacts
    <3> QED BY <3>1, <1>1, <1>3 DEF Less
  <2> QED BY <1>1, <1>4, <2>1, <2>2 DEF HealthInv, TypeOK
<1>6. AllEarned'
  <2>1. ASSUME NEW f \in Entries, \A g \in DOMAIN f : f[g] <= earned[g]
        PROVE  \A g \in DOMAIN Less(f) : Less(f)[g] <= Less(earned)[g]
    <3> SUFFICES ASSUME NEW g \in DOMAIN Less(f)
                 PROVE  Less(f)[g] <= Less(earned)[g]
      OBVIOUS
    <3>1. g \in DOMAIN f /\ g \in Harnesses /\ f[g] \in Nat
      BY LessFacts, EntriesFacts, LongestFacts
    <3>2. earned[g] \in Nat /\ f[g] <= earned[g]
      BY <2>1, <3>1, <1>3, LongestFacts
    <3>3. /\ Less(f)[g] = IF f[g] = 0 THEN 0 ELSE f[g] - 1
          /\ Less(earned)[g] = IF earned[g] = 0 THEN 0 ELSE earned[g] - 1
      BY <3>1, <1>3, LessFacts
    <3> QED BY <3>1, <3>2, <3>3
  <2>2. \A g \in DOMAIN Read' : Read'[g] <= earned'[g]
    BY <2>1, <1>1, <1>2, <1>4 DEF HealthInv, AllEarned
  <2>3. \A d \in Delegations : \A g \in DOMAIN doc'[d] : doc'[d][g] <= earned'[g]
    BY <2>1, <1>1, <1>2 DEF HealthInv, AllEarned
  <2> QED BY <2>2, <2>3 DEF AllEarned
<1>7. InOrder'
  <2>1. \A f \in Entries : (\A g \in Harnesses : Left(f, g) = owed[g])
                           => \A g \in Harnesses : Left(Less(f), g) = owed'[g]
    BY <1>1, <1>3, LessFacts
  <2>2. /\ pc' = pc /\ overlapped' = overlapped
        /\ \A d \in Delegations : doc'[d] = Less(doc[d])
    BY <1>1
  <2> QED BY <1>2, <1>4, <2>1, <2>2 DEF HealthInv, InOrder, Reporting
<1> QED BY <1>5, <1>6, <1>7 DEF HealthInv

LEMMA HealthStep ==
    ASSUME HealthInv, [Next]_vars
    PROVE  HealthInv'
<1>1. ASSUME NEW d \in Delegations, NEW h \in Harnesses, Start(d, h)
      PROVE  HealthInv'
  BY <1>1, RunStep
<1>2. ASSUME NEW d \in Delegations, EndsUnreported(d)
      PROVE  HealthInv'
  <2>1. runs[d] \in Harnesses
    BY <1>2 DEF EndsUnreported, HealthInv, TypeOK
  <2> QED BY <1>2, <2>1, RunStep
<1>3. ASSUME NEW d \in Delegations, Fails(d)
      PROVE  HealthInv'
  BY <1>3, FailsStep
<1>4. ASSUME NEW d \in Delegations, Succeeds(d)
      PROVE  HealthInv'
  BY <1>4, SucceedsStep
<1>5. ASSUME NEW d \in Delegations, Open(d) \/ Close(d) \/ WriteFails(d)
      PROVE  HealthInv'
  BY <1>5, OpenStep, CloseStep, WriteFailsStep
<1>6. ASSUME NEW P \in Processes, Kill(P)
      PROVE  HealthInv'
  BY <1>6, KillStep
<1>7. CASE Tick
  BY <1>7, TickStep
<1>8. CASE UNCHANGED vars
  BY <1>8 DEF vars, auxiliary, HealthInv, TypeOK, AllEarned, InOrder, Read, Reporting
<1> QED BY <1>1, <1>2, <1>3, <1>4, <1>5, <1>6, <1>7, <1>8 DEF Next

LEMMA HealthInductive == Spec => []HealthInv
<1>1. Init => HealthInv
  BY HealthInit
<1>2. HealthInv /\ [Next]_vars => HealthInv'
  BY HealthStep
<1> QED BY <1>1, <1>2, PTL DEF Spec

-----------------------------------------------------------------------------
(* What the file promises. *)

\* harness_health.json and the reports of _save_circuit_breaker hold what their
\* types say, whatever the processes do to it, wherever they are killed and
\* whichever writes fail.
THEOREM HealthTypeCorrect == Spec => []TypeOK
<1>1. HealthInv => TypeOK
  BY DEF HealthInv
<1> QED BY <1>1, HealthInductive, PTL

\* is_harness_tripped never skips a harness beyond the longest cooldown its own
\* failures have left it, though reports of any number of processes lose,
\* overwrite and tear one another's entries.
THEOREM TripsAreEarned == Spec => []TripIsEarned
<1>1. HealthInv => TripIsEarned
  BY DEF HealthInv, AllEarned, TripIsEarned, Tripped
<1> QED BY <1>1, HealthInductive, PTL

\* While the reports come one after another, trip_harness_circuit_breaker and
\* reset_harness_circuit_breaker lose nothing of the other harnesses' entries.
THEOREM ReportsKept == Spec => []ReportsAreKept
<1>1. HealthInv => ReportsAreKept
  <2> SUFFICES ASSUME HealthInv, ~overlapped,
                      \A d \in Delegations : ~Reporting(d), NEW h \in Harnesses
               PROVE  (IF Tripped(h) THEN Read[h] ELSE 0) = owed[h]
    BY DEF ReportsAreKept
  <2>1. Left(Read, h) = owed[h]
    BY DEF HealthInv, InOrder
  <2>2. h \in DOMAIN Read => Read[h] \in Nat
    BY FileFacts, EntriesFacts, LongestFacts DEF HealthInv
  <2> QED BY <2>1, <2>2 DEF Left, Tripped
<1> QED BY <1>1, HealthInductive, PTL
=============================================================================
