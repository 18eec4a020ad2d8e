------------------------------- MODULE Memory -------------------------------
(***************************************************************************)
(* The incident memory (memory.py) under the classifier (classifier.py):   *)
(* failures are recorded with the prompt they happened to, and a prompt    *)
(* that is similar enough to a recorded one gets that incident's tier.     *)
(*                                                                         *)
(* The server and the command line tool are processes on one SQLite file.  *)
(* A record is a SELECT in no transaction and then an UPDATE or INSERT, so *)
(* two processes may both find nothing.  Counts of hits and requests,      *)
(* which are only shown, are left out.                                     *)
(***************************************************************************)
EXTENDS Naturals, Sequences, FiniteSets, FiniteSetsExt, SequencesExt

CONSTANTS
    Processes,
    Prompts,     \* prompts that differ in their hash
    Jaccard,     \* similarity of two prompts' shingles, in hundredths
    Threshold,   \* memory_threshold
    Heuristic,   \* the tier of a prompt by its patterns, domain and length
    MaxFailures  \* bound: different failures that are recorded

Tiers == 0..3

ASSUME MemoryAssumption ==
    /\ IsFiniteSet(Prompts)
    /\ Jaccard \in [Prompts -> [Prompts -> 0..100]]
    /\ \A p \in Prompts : Jaccard[p][p] = 100   \* it has shingles
    /\ Threshold \in 0..100                     \* above, nothing is ever recalled
    /\ Heuristic \in [Prompts -> Tiers]
    /\ MaxFailures \in Nat

VARIABLES
    rows,        \* incidents in the order of their ids
    recording,   \* per process: the record it is in the middle of, or Nothing
    learned,     \* auxiliary: the failures whose record was committed
    raced        \* auxiliary: prompts that two processes have recorded at once

memory == <<rows, recording, learned, raced>>

Nothing  == [prompt |-> "none", tier |-> 0, found |-> 0]
Failures == [prompt : Prompts, tier : Tiers]

MemoryTypeOK ==
    /\ rows \in Seq(Failures) /\ Len(rows) <= 2 * Cardinality(Prompts)
    /\ recording \in [Processes -> {Nothing} \cup
                         [prompt : Prompts, tier : Tiers, found : 0..Len(rows)]]
    /\ learned \subseteq Failures /\ raced \subseteq Prompts

MemoryInit ==
    /\ rows = <<>>
    /\ recording = [a \in Processes |-> Nothing]
    /\ learned = {} /\ raced = {}

Idle(a) == recording[a] = Nothing

-----------------------------------------------------------------------------
(* record_incident *)

\* The row of the prompt's hash, the first of them if there are two; 0: none.
Find(p) == SelectInSeq(rows, LAMBDA row : row.prompt = p)

Recorded ==
    learned \cup {[prompt |-> recording[b].prompt, tier |-> recording[b].tier] :
                   b \in {c \in Processes : ~Idle(c)}}

Select(a, p, tier) ==
    /\ Idle(a)
    /\ Cardinality(Recorded \cup {[prompt |-> p, tier |-> tier]}) <= MaxFailures
    /\ recording' = [recording EXCEPT ![a] =
                        [prompt |-> p, tier |-> tier, found |-> Find(p)]]
    /\ raced' = IF \E b \in Processes : recording[b].prompt = p
                THEN raced \cup {p} ELSE raced
    /\ UNCHANGED <<rows, learned>>

\* MAX(escalated_tier, ?)
Updated(row, tier) == [row EXCEPT !.tier = Max({@, tier})]

\* Fault: the return after the update is missing.
WriteOn(a) ==
    LET r == recording[a]
        failure == [prompt |-> r.prompt, tier |-> r.tier]
        updated == IF r.found = 0 THEN rows
                   ELSE [rows EXCEPT ![r.found] = Updated(@, r.tier)]
    IN  /\ ~Idle(a)
        /\ rows' = Append(updated, failure)
        /\ recording' = [recording EXCEPT ![a] = Nothing]
        /\ learned' = learned \cup {failure}
        /\ UNCHANGED raced

Write(a) ==
    LET r == recording[a]
        failure == [prompt |-> r.prompt, tier |-> r.tier]
    IN  /\ ~Idle(a)
        /\ rows' = IF r.found = 0 THEN Append(rows, failure)
                   ELSE [rows EXCEPT ![r.found] = Updated(@, r.tier)]
        /\ recording' = [recording EXCEPT ![a] = Nothing]
        /\ learned' = learned \cup {failure}
        /\ UNCHANGED raced

\* The process ends between the two.
Abandon(a) ==
    /\ ~Idle(a)
    /\ recording' = [recording EXCEPT ![a] = Nothing]
    /\ UNCHANGED <<rows, learned, raced>>

-----------------------------------------------------------------------------
(* check_memory and classify_request *)

\* Fault: the most similar incident is taken however far it is.
RecalledFromAfar(p) ==
    {i \in DOMAIN rows :
        \A j \in DOMAIN rows :
           \/ Jaccard[p][rows[i].prompt] > Jaccard[p][rows[j].prompt]
           \/ Jaccard[p][rows[i].prompt] = Jaccard[p][rows[j].prompt] /\ i <= j}

\* Fault: the first incident that is similar enough is taken.
RecalledFirst(p) ==
    LET near == {i \in DOMAIN rows : Jaccard[p][rows[i].prompt] >= Threshold}
    IN  {i \in near : \A j \in near : i <= j}

\* The most similar incident, the first of equals, if it is similar enough.
Recalled(p) ==
    {i \in DOMAIN rows :
        /\ Jaccard[p][rows[i].prompt] >= Threshold
        /\ \A j \in DOMAIN rows :
              \/ Jaccard[p][rows[i].prompt] > Jaccard[p][rows[j].prompt]
              \/ Jaccard[p][rows[i].prompt] = Jaccard[p][rows[j].prompt] /\ i <= j}

\* The tier of a request without tool errors.
Classified(p) ==
    IF Recalled(p) = {} THEN Heuristic[p]
    ELSE rows[CHOOSE i \in Recalled(p) : TRUE].tier

\* A tool error in the last turns: tier 2, and an incident of the last prompt.
TOOL_ERROR_TIER == 2

-----------------------------------------------------------------------------
(* Properties *)

\* No two incidents are of one prompt (memory.py:101 "Check if identical hash
\* already exists"), however often its failures are reported, unless two
\* processes have recorded it at the same time.
OneRowPerPrompt ==
    \A i, j \in DOMAIN rows :
        rows[i].prompt = rows[j].prompt /\ rows[i].prompt \notin raced => i = j

\* "Has a similar prompt ... failed before?" (classifier.py:121): a prompt gets its
\* tier from the memory only if a failure of a prompt similar to it was reported
\* with that tier.
EscalationHasCause ==
    \A p \in Prompts : Recalled(p) # {} =>
        \E f \in learned : f.tier = Classified(p) /\ Jaccard[p][f.prompt] >= Threshold
=============================================================================
