---------------------------- MODULE HarnessHealth ----------------------------
(***************************************************************************)
(* harness_health.json: the circuit breaker file of the harnesses          *)
(* (federation.py), which every delegation reads before it starts a        *)
(* harness, and reads, changes and rewrites after the run: a recoverable   *)
(* failure trips the harness, a success resets it.                         *)
(*                                                                         *)
(* There is no lock and no rename.  Delegations of one process change the  *)
(* file one after another; those of different processes (the server, the   *)
(* command line tool) do so at the same time, and may be killed.  Opening  *)
(* the file empties it; the new text is written in one piece at the close. *)
(* Module Delegation takes all this as one step.                           *)
(***************************************************************************)
EXTENDS Integers, FiniteSets, FiniteSetsExt

CONSTANTS
    Delegations,
    Served,      \* those made by the server, in one process
    Harnesses,
    Cooldown     \* per reason, in units of time

Reasons == {"binary_not_found", "weekly_limit", "rate_limit_exceeded",
            "auth_failure", "network_error", "harness_crash", "timeout"}

ASSUME HarnessHealthAssumption ==
    /\ Served \subseteq Delegations
    /\ Cooldown \in [Reasons -> Nat \ {0}]

VARIABLES
    file,        \* its text, and the entries if it is JSON: what is left of
                 \* each cooldown, 0 once it is over
    runs,        \* per delegation: the harness it runs, or NoHarness
    pc,          \* per delegation: where its report is
    doc,         \* per delegation: the entries its report will write
    owed,        \* auxiliary: what is left of the latest trip, unless reset
    earned,      \* auxiliary: what is left of the longest trip so far
    overlapped   \* auxiliary: two reports have overlapped, or one was cut off
                 \* or could not be written

auxiliary == <<owed, earned, overlapped>>
vars      == <<file, runs, pc, doc, auxiliary>>

Longest   == Max({Cooldown[r] : r \in Reasons})
NoHarness == "none"
Entries   == UNION {[H -> 0..Longest] : H \in SUBSET Harnesses}
NoEntries == [h \in {} |-> 0]
Blank     == [text |-> "blank", entries |-> NoEntries]  \* or there is no file
Torn      == [text |-> "torn", entries |-> NoEntries]
Json(entries) == [text |-> "json", entries |-> entries]

TypeOK ==
    /\ file \in {Blank, Torn} \cup {Json(e) : e \in Entries}
    /\ runs \in [Delegations -> Harnesses \cup {NoHarness}]
    /\ pc \in [Delegations -> {"idle", "read", "opened"}]
    /\ doc \in [Delegations -> Entries]
    /\ owed \in [Harnesses -> 0..Longest] /\ earned \in [Harnesses -> 0..Longest]
    /\ overlapped \in BOOLEAN

Init ==
    /\ file = Blank
    /\ runs = [d \in Delegations |-> NoHarness]
    /\ pc = [d \in Delegations |-> "idle"]
    /\ doc = [d \in Delegations |-> NoEntries]
    /\ owed = [h \in Harnesses |-> 0] /\ earned = [h \in Harnesses |-> 0]
    /\ overlapped = FALSE

-----------------------------------------------------------------------------
(* Reading the file. *)

\* get_circuit_breaker: what does not parse is taken for an empty dictionary.
Read == file.entries

\* is_harness_tripped
Tripped(h) == h \in DOMAIN Read /\ Read[h] > 0

\* The server is in one report at a time; a report of its own holds its loop.
MayStep(d) == d \in Served => \A e \in Served \ {d} : pc[e] = "idle"

Reporting(d) == pc[d] # "idle"

Start(d, h) ==
    /\ MayStep(d) /\ pc[d] = "idle" /\ runs[d] = NoHarness
    /\ ~Tripped(h)
    /\ runs' = [runs EXCEPT ![d] = h]
    /\ UNCHANGED <<file, pc, doc, auxiliary>>

-----------------------------------------------------------------------------
(* The end of a run, and its report. *)

\* The signatures its output may hold.
Signs == {"weekly", "limit", "auth", "network", "tests"}

\* classify_harness_error, of a run that has not returned 0: the reasons it may
\* give, none where the failure is the task's own and nothing is reported.
Classified(missing, signs) ==
    IF missing THEN {"binary_not_found"}
    ELSE IF "limit" \in signs
         THEN {IF "weekly" \in signs THEN "weekly_limit" ELSE "rate_limit_exceeded"}
    ELSE IF "auth" \in signs THEN {"auth_failure"}
    ELSE IF "network" \in signs THEN {"network_error"}
    ELSE IF "tests" \in signs THEN {} ELSE {"harness_crash"}

Failures ==
    {"timeout"} \cup UNION {Classified(missing, signs) :
                              missing \in BOOLEAN, signs \in SUBSET Signs}

\* A report that begins or goes on beside another one.
Overlap(d) == overlapped \/ \E e \in Delegations \ {d} : Reporting(e)

\* Fault: the entries of the other harnesses are not read.
WithTripAlone(h, c) == [g \in {h} |-> c]

WithTrip(h, c) ==
    [g \in DOMAIN Read \cup {h} |-> IF g = h THEN c ELSE Read[g]]

\* trip_harness_circuit_breaker reads the file.
Fails(d) ==
    LET h == runs[d]
    IN  /\ MayStep(d) /\ pc[d] = "idle" /\ h # NoHarness
        /\ \E r \in Failures :
              /\ doc' = [doc EXCEPT ![d] = WithTrip(h, Cooldown[r])]
              /\ owed' = [owed EXCEPT ![h] = Cooldown[r]]
              /\ earned' = [earned EXCEPT ![h] = Max({@, Cooldown[r]})]
        /\ pc' = [pc EXCEPT ![d] = "read"]
        /\ runs' = [runs EXCEPT ![d] = NoHarness]
        /\ overlapped' = Overlap(d)
        /\ UNCHANGED file

\* reset_harness_circuit_breaker reads the file, and writes only if the harness
\* has an entry in it.
Succeeds(d) ==
    LET h == runs[d]
    IN  /\ MayStep(d) /\ pc[d] = "idle" /\ h # NoHarness
        /\ IF h \in DOMAIN Read
             THEN /\ doc' = [doc EXCEPT ![d] =
                                [g \in DOMAIN Read \ {h} |-> Read[g]]]
                  /\ pc' = [pc EXCEPT ![d] = "read"]
             ELSE UNCHANGED <<doc, pc>>
        /\ owed' = [owed EXCEPT ![h] = 0]
        /\ runs' = [runs EXCEPT ![d] = NoHarness]
        /\ overlapped' = Overlap(d)
        /\ UNCHANGED <<file, earned>>

\* A failure of the task's own, or an exception: nothing is reported.
EndsUnreported(d) ==
    /\ MayStep(d) /\ pc[d] = "idle" /\ runs[d] # NoHarness
    /\ runs' = [runs EXCEPT ![d] = NoHarness]
    /\ UNCHANGED <<file, pc, doc, auxiliary>>

\* open(CIRCUIT_BREAKER_FILE, "w")
Open(d) ==
    /\ pc[d] = "read" /\ pc' = [pc EXCEPT ![d] = "opened"]
    /\ file' = Blank
    /\ UNCHANGED <<runs, doc, auxiliary>>

\* The close writes from the start of the file.  If another has written since it
\* was opened, what is longer of that text remains behind this one.
Close(d) ==
    /\ pc[d] = "opened" /\ pc' = [pc EXCEPT ![d] = "idle"]
    /\ \/ file' = Json(doc[d])
       \/ file \notin {Blank, Json(doc[d])} /\ file' = Torn
    /\ doc' = [doc EXCEPT ![d] = NoEntries]
    /\ UNCHANGED <<runs, auxiliary>>

\* The file cannot be opened, or the text not be written, or a part of it only;
\* the exception is passed over.
WriteFails(d) ==
    /\ \/ pc[d] = "read" /\ file' = file
       \/ pc[d] = "opened" /\ file' \in {file, Torn}
    /\ pc' = [pc EXCEPT ![d] = "idle"]
    /\ doc' = [doc EXCEPT ![d] = NoEntries]
    /\ overlapped' = TRUE
    /\ UNCHANGED <<runs, owed, earned>>

-----------------------------------------------------------------------------

\* A process is killed, with all of its delegations.
Kill(P) ==
    /\ \E d \in P : Reporting(d) \/ runs[d] # NoHarness
    /\ runs' = [d \in Delegations |-> IF d \in P THEN NoHarness ELSE runs[d]]
    /\ pc' = [d \in Delegations |-> IF d \in P THEN "idle" ELSE pc[d]]
    /\ doc' = [d \in Delegations |-> IF d \in P THEN NoEntries ELSE doc[d]]
    /\ overlapped' = (overlapped \/ \E d \in P : Reporting(d))
    /\ UNCHANGED <<file, owed, earned>>

Processes == {Served} \cup {{d} : d \in Delegations \ Served}

\* Fault: what is left of a cooldown that is over goes on falling.
LessForEver(left) == [h \in DOMAIN left |-> left[h] - 1]

Less(left) == [h \in DOMAIN left |-> IF left[h] = 0 THEN 0 ELSE left[h] - 1]

\* Fault: what is left of a cooldown is kept, and not the time of the trip: the
\* entries a report has read do not age until it has written them.
TickWrittenOnly ==
    /\ file' = [file EXCEPT !.entries = Less(@)]
    /\ owed' = Less(owed) /\ earned' = Less(earned)
    /\ UNCHANGED <<runs, pc, doc, overlapped>>

\* An entry is the time of its trip and a cooldown, wherever it is kept.
Tick ==
    /\ file' = [file EXCEPT !.entries = Less(@)]
    /\ doc' = [d \in Delegations |-> Less(doc[d])]
    /\ owed' = Less(owed) /\ earned' = Less(earned)
    /\ UNCHANGED <<runs, pc, overlapped>>

Next ==
    \/ \E d \in Delegations :
          \/ \E h \in Harnesses : Start(d, h)
          \/ Fails(d) \/ Succeeds(d) \/ EndsUnreported(d)
          \/ Open(d) \/ Close(d) \/ WriteFails(d)
    \/ \E P \in Processes : Kill(P)
    \/ Tick

Spec == Init /\ [][Next]_vars

-----------------------------------------------------------------------------
(* Properties *)

\* A harness is skipped only while the cooldown of a failure of its own lasts
\* (is_harness_tripped, federation.py:312), whatever stale entries one report
\* writes over another's, and whatever they cut short.
TripIsEarned == \A h \in Harnesses : Tripped(h) => Read[h] <= earned[h]

\* While no two reports overlap, none is cut off and none fails, the file says of every
\* harness what the latest report said of it (test_federation.py:105): the
\* others' entries survive a trip and a reset.
ReportsAreKept ==
    ~overlapped /\ (\A d \in Delegations : ~Reporting(d)) =>
        \A h \in Harnesses : (IF Tripped(h) THEN Read[h] ELSE 0) = owed[h]
=============================================================================
