----------------------------- MODULE Delegation -----------------------------
(***************************************************************************)
(* Delegation of a task to the agent harnesses installed on the host       *)
(* (federation.py, POST /v1/delegate of server.py): the waterfall of       *)
(* harnesses, each run in a process group of its own, with a snapshot of   *)
(* the git working tree before it and a selective rollback after a run     *)
(* that failed for infrastructure reasons, and the HTTP gateway last.      *)
(*                                                                         *)
(* Delegations are made by the server, all on its one event loop, or by    *)
(* processes of the command line tool; a harness may delegate in turn.     *)
(* They share the working tree and the file of tripped harnesses.          *)
(***************************************************************************)
EXTENDS Naturals, Sequences, FiniteSets, SequencesExt

CONSTANTS
    Delegations,
    Served,      \* those made by the server
    Ready,       \* harnesses that are installed and authenticated
    Asked,       \* bound: the harnesses a request may prefer or be given
    Paths,       \* the files and directories of the repository, from its root
    Quoted,      \* paths git prints in quotes
    Workplaces   \* bound: trees there may be before, and the delegations made there

VARIABLES
    at,          \* where each delegation is
    todo,        \* the candidates it has left; the one that runs is the first
    depth,       \* delegation_depth
    chain,       \* delegation_chain: the harnesses above it
    parent,      \* the delegation whose harness made it, or Client
    baseline,    \* the status lines of its snapshot
    proc,        \* the process group of its run
    loose,       \* whether processes of a run it has left are alive
    tripped,     \* harness_health.json: the harnesses that cool down
    tree,        \* per file: its content in the index and in the work tree
    cwd          \* of each delegation that is made: its directory, from the root

lineage == <<depth, chain, parent>>
runs    == <<baseline, proc, loose>>
vars    == <<at, todo, lineage, runs, tripped, tree, cwd>>

MAX_DELEGATION_DEPTH == 2

Harnesses == {"claude", "opencode", "agy", "goose", "codex"}

HARNESS_FAILOVER_CHAINS ==
    [claude   |-> <<"claude", "opencode", "goose">>,
     opencode |-> <<"opencode", "goose", "agy">>,
     agy      |-> <<"agy", "opencode", "goose">>,
     goose    |-> <<"goose", "opencode", "claude">>,
     codex    |-> <<"codex", "opencode", "goose">>]

Client  == "client"
None    == "none"          \* no such file
Outside == <<"outside">>   \* no directory of the repository
Indices == {None, "committed", "staged", "harness"}
Works   == Indices \cup {"developer"}
FileStates == [index : Indices, work : Works]
Ended   == {"success", "failed", "refused", "killed"}

\* A line of `git status --porcelain': the index against HEAD and the work tree
\* against the index, or "??", and a path.
Untracked == <<"untracked", "untracked">>
Codes     == ({"same", "staged"} \X {"same", "M", "D"}) \cup {Untracked}
Lines     == Codes \X Paths

\* rollback_git_state without a snapshot does nothing: no line is new to it.
Unsnapped == Lines

ASSUME DelegationAssumption ==
    /\ Served \subseteq Delegations /\ Client \notin Delegations
    /\ Ready \subseteq Harnesses /\ Asked \subseteq Harnesses
    /\ Paths \subseteq Seq(STRING) \ {<<>>}
    /\ \A p \in Paths : \A n \in 1..Len(p) : SubSeq(p, 1, n) \in Paths
    /\ \A w \in Workplaces :
          /\ DOMAIN w.tree \subseteq Paths /\ w.tree \in [DOMAIN w.tree -> FileStates]
          /\ DOMAIN w.cwd \subseteq Delegations
          /\ w.cwd \in [DOMAIN w.cwd -> Paths \cup {<<>>, Outside}]
          /\ \A f \in DOMAIN w.tree : w.tree[f].work = None => w.tree[f].index = None
          /\ \A f, g \in DOMAIN w.tree : IsPrefix(f, g) => f = g

TypeOK ==
    /\ at \in [Delegations -> {"idle", "choosing", "running", "killing",
                               "calling"} \cup Ended]
    /\ todo \in [Delegations -> Seq(Harnesses)]
    /\ \A d \in Delegations : Len(todo[d]) <= 3
    /\ depth \in [Delegations -> 0..MAX_DELEGATION_DEPTH]
    /\ chain \in [Delegations -> SUBSET Harnesses]
    /\ parent \in [Delegations -> Delegations \cup {Client}]
    /\ baseline \in [Delegations -> SUBSET Lines]
    /\ proc \in [Delegations -> {"none", "led", "orphaned"}]
    /\ loose \in [Delegations -> BOOLEAN]
    /\ tripped \subseteq Ready
    /\ \E w \in Workplaces : tree \in [DOMAIN w.tree -> FileStates] /\ cwd = w.cwd

\* The developer may have changed files, and staged changes, before.
Init ==
    /\ at = [d \in Delegations |-> "idle"]
    /\ todo = [d \in Delegations |-> <<>>]
    /\ depth = [d \in Delegations |-> 0]
    /\ chain = [d \in Delegations |-> {}]
    /\ parent = [d \in Delegations |-> Client]
    /\ baseline = [d \in Delegations |-> Unsnapped]
    /\ proc = [d \in Delegations |-> "none"]
    /\ loose = [d \in Delegations |-> FALSE]
    /\ tripped = {}
    /\ \E w \in Workplaces : tree = w.tree /\ cwd = w.cwd

\* The server's delegations run one at a time from one await to the next; the
\* blocking urlopen of the fallback is no await.
HasTheLoop(d) == at[d] \in {"choosing", "calling"}
MayStep(d)    == d \in Served => \A e \in Served \ {d} : ~HasTheLoop(e)

Goes(d, from, to) == at[d] = from /\ at' = [at EXCEPT ![d] = to]

-----------------------------------------------------------------------------
(* get_git_state *)

Below(p)   == {f \in DOMAIN tree : IsPrefix(p, f)}
Indexed(p) == \E f \in Below(p) : tree[f].index # None

\* The code of a file that is in the index; no run and no developer removes a
\* file from it, or commits, so "staged" is one letter for each file.
Code(f) ==
    <<IF tree[f].index = "committed" THEN "same" ELSE "staged",
      IF tree[f].work = tree[f].index THEN "same"
      ELSE IF tree[f].work = None THEN "D" ELSE "M">>

\* An untracked file is not named where nothing in its directory is in the index:
\* the topmost such directory is.
ListedUntracked(p) ==
    /\ ~Indexed(p) /\ \E f \in Below(p) : tree[f].work # None
    /\ \A q \in Paths : IsStrictPrefix(q, p) => Indexed(q)

Status ==
    {<<Code(f), f>> : f \in {g \in DOMAIN tree : Indexed(g) /\ Code(g) # <<"same", "same">>}}
    \cup {<<Untracked, p>> : p \in {q \in Paths : ListedUntracked(q)}}

\* There is no snapshot outside of a work tree or when git is too slow, and an
\* empty one when git status fails, whose exit code is not looked at.
Snapshots(d) == {Unsnapped} \cup (IF cwd[d] = Outside THEN {} ELSE {Status, {}})

-----------------------------------------------------------------------------
(* delegate_subagent *)

\* Fault: the primary harness is put in front of a chain that has it.
CandidatesWithPrimary(h) == <<h>> \o HARNESS_FAILOVER_CHAINS[h]

Candidates(h) == HARNESS_FAILOVER_CHAINS[h]

\* A request with this lineage that prefers `h', or for which `h' is selected.
Receive(d, above, level, maker) ==
    \E h \in Asked, preferred \in BOOLEAN :
       /\ d \in DOMAIN cwd /\ MayStep(d)
       /\ Goes(d, "idle",
               IF level >= MAX_DELEGATION_DEPTH \/ (preferred /\ h \in above)
               THEN "refused" ELSE "choosing")
       /\ todo' = [todo EXCEPT ![d] = IF at'[d] = "refused" THEN <<>>
                                      ELSE Candidates(h)]
       /\ depth' = [depth EXCEPT ![d] = level]
       /\ chain' = [chain EXCEPT ![d] = above]
       /\ parent' = [parent EXCEPT ![d] = maker]
       /\ UNCHANGED <<runs, tripped, tree>>

\* A delegation by a client, or by a harness of a delegation made elsewhere.
Ask(d) ==
    \E above \in {{}} \cup {{h} : h \in Asked} :
       Receive(d, above, Cardinality(above), Client)

\* The harness of `d' delegates: build_delegation_env gave it its lineage.
Delegate(d, e) ==
    /\ at[d] = "running" /\ proc[d] = "led"
    /\ Receive(e, chain[d] \cup {Head(todo[d])}, depth[d] + 1, d)

\* Fault: the harnesses of the chain are not skipped.
IsCandidateUnchained(d, h) == h \in Ready \ tripped

IsCandidate(d, h) == h \notin chain[d] /\ h \in Ready /\ h \notin tripped

\* The first candidate that may run is started, in a session of its own, from a
\* snapshot of the tree; starting it may raise, and nothing was run.
Launch(d) ==
    LET i == SelectInSeq(todo[d], LAMBDA h : IsCandidate(d, h))
        left == SubSeq(todo[d], i, Len(todo[d]))
    IN  /\ at[d] = "choosing" /\ i > 0
        /\ \/ /\ Goes(d, "choosing", "running")
              /\ todo' = [todo EXCEPT ![d] = left]
              /\ \E lines \in Snapshots(d) : baseline' = [baseline EXCEPT ![d] = lines]
              /\ proc' = [proc EXCEPT ![d] = "led"]
           \/ /\ todo' = [todo EXCEPT ![d] = Tail(left)]
              /\ UNCHANGED <<at, baseline, proc>>
        /\ UNCHANGED <<lineage, loose, tripped, tree>>

\* No candidate is left: call_reflex_http_gateway.
FallBack(d) ==
    /\ Goes(d, "choosing", "calling")
    /\ \A i \in DOMAIN todo[d] : ~IsCandidate(d, todo[d][i])
    /\ todo' = [todo EXCEPT ![d] = <<>>]
    /\ UNCHANGED <<lineage, runs, tripped, tree>>

\* The gateway answers, which takes its event loop, or it has not in time.
GatewayCanAnswer == \A e \in Served : ~HasTheLoop(e)

GatewayAnswers(d) ==
    /\ GatewayCanAnswer
    /\ Goes(d, "calling", "success") \/ Goes(d, "calling", "failed")
    /\ UNCHANGED <<todo, lineage, runs, tripped, tree>>

CallTimesOut(d) ==
    /\ Goes(d, "calling", "failed")
    /\ UNCHANGED <<todo, lineage, runs, tripped, tree>>

-----------------------------------------------------------------------------
(* execute_harness_safe, and what follows a run. *)

\* The command line processes that make delegations for the harness of `d'.
Helpers(d) == {e \in Delegations \ Served : parent[e] = d /\ at[e] \notin Ended}

\* communicate has read all output to its end: no process of the run holds it.
\* A harness waits for the helpers it has started.
Completes(d) == at[d] = "running" /\ MayStep(d) /\ Helpers(d) = {}

\* The run is left, and its snapshot with it.
Cleared(d) ==
    /\ proc' = [proc EXCEPT ![d] = "none"]
    /\ baseline' = [baseline EXCEPT ![d] = Unsnapped]

\* The paths of lines are relative to the root, and are looked up in the
\* directory of the delegation: the files that one is taken to name there, the
\* path itself or all below it; a path in quotes names none.
Named(d, line) ==
    {f \in DOMAIN tree : line[2] \notin Quoted /\ IsPrefix(cwd[d] \o line[2], f)}

\* Fault: a file that was dirty before is restored as well.
RestoredAll(d, lines, f) ==
    IF tree[f].index = None THEN tree[f]
    ELSE [tree[f] EXCEPT !.work = tree[f].index]

\* Fault: tracked files that the run has changed are left as they are.
RestoredUntracked(d, lines, f) ==
    IF \E l \in lines : l[1] = Untracked /\ f \in Named(d, l)
    THEN [tree[f] EXCEPT !.work = None] ELSE tree[f]

\* A file that one of these lines is taken to name: removed for an untracked one,
\* or else checked out from the index if it is there.
Restored(d, lines, f) ==
    IF \E l \in lines : l[1] = Untracked /\ f \in Named(d, l)
    THEN [tree[f] EXCEPT !.work = None]
    ELSE IF tree[f].index # None /\ \E l \in lines : f \in Named(d, l)
         THEN [tree[f] EXCEPT !.work = tree[f].index] ELSE tree[f]

\* rollback_git_state, for the lines that are new: of the files it may reach any,
\* as git status may fail, a command of git may fail unnoticed or raise, and so
\* may a removal.
RolledBack(d, reached) ==
    [f \in DOMAIN tree |->
        IF f \in reached THEN Restored(d, Status \ baseline[d], f) ELSE tree[f]]

\* trip_harness_circuit_breaker, rollback_git_state, and on to the next one.
FailsOver(d) ==
    /\ at' = [at EXCEPT ![d] = "choosing"]
    /\ tripped' = tripped \cup {Head(todo[d])}
    /\ todo' = [todo EXCEPT ![d] = Tail(@)]
    /\ \E reached \in SUBSET DOMAIN tree : tree' = RolledBack(d, reached)

Succeeds(d) ==
    /\ Completes(d) /\ Goes(d, "running", "success") /\ Cleared(d)
    /\ tripped' = tripped \ {Head(todo[d])}
    /\ todo' = [todo EXCEPT ![d] = <<>>]
    /\ UNCHANGED <<lineage, loose, tree>>

\* "test_or_code_failure": no failover, no rollback.
FailsInItsCode(d) ==
    /\ Completes(d) /\ Goes(d, "running", "failed") /\ Cleared(d)
    /\ todo' = [todo EXCEPT ![d] = <<>>]
    /\ UNCHANGED <<lineage, loose, tripped, tree>>

FailsRecoverably(d) ==
    /\ Completes(d) /\ FailsOver(d) /\ Cleared(d)
    /\ UNCHANGED <<lineage, loose>>

\* The timeout, while the leader of the group lives: SIGTERM to the group, which
\* ends the helpers in it (a harness they run has a session of its own) ...
Terminate(d) ==
    /\ MayStep(d) /\ at[d] = "running" /\ proc[d] = "led"
    /\ at' = [e \in Delegations |->
                 IF e = d THEN "killing" ELSE IF e \in Helpers(d) THEN "killed" ELSE at[e]]
    /\ loose' = [e \in Delegations |->
                    loose[e] \/ (e \in Helpers(d) /\ proc[e] # "none")]
    /\ proc' = [e \in Delegations |-> IF e \in Helpers(d) THEN "none" ELSE proc[e]]
    /\ baseline' = [e \in Delegations |->
                       IF e \in Helpers(d) THEN Unsnapped ELSE baseline[e]]
    /\ UNCHANGED <<todo, lineage, tripped, tree>>

\* ... and a second later SIGKILL.
Kill(d) ==
    /\ MayStep(d) /\ at[d] = "killing" /\ FailsOver(d) /\ Cleared(d)
    /\ UNCHANGED <<lineage, loose>>

\* The timeout, where the leader has exited: getpgid raises ProcessLookupError,
\* and no signal is sent.
TimesOutLeaderless(d) ==
    /\ MayStep(d) /\ at[d] = "running" /\ proc[d] = "orphaned"
    /\ FailsOver(d) /\ Cleared(d)
    /\ loose' = [loose EXCEPT ![d] = TRUE]
    /\ UNCHANGED lineage

\* Fault: only a run whose leader lives is timed out.
TimesOutLed(d) == Terminate(d) \/ Kill(d)

TimesOut(d) == Terminate(d) \/ Kill(d) \/ TimesOutLeaderless(d)

-----------------------------------------------------------------------------
(* The harnesses' processes, the developer and time. *)

\* The leader exits and leaves processes that hold its output.
LeaderExits(d) ==
    /\ at[d] = "running" /\ proc[d] = "led" /\ Helpers(d) = {}
    /\ proc' = [proc EXCEPT ![d] = "orphaned"]
    /\ UNCHANGED <<at, todo, lineage, baseline, loose, tripped, tree>>

StrayExits(d) ==
    /\ loose[d] /\ loose' = [loose EXCEPT ![d] = FALSE]
    /\ UNCHANGED <<at, todo, lineage, baseline, proc, tripped, tree>>

\* A process of a run writes a file, and may stage it.
HarnessWrites(d, f) ==
    /\ proc[d] # "none" \/ loose[d]
    /\ cwd[d] # Outside
    /\ \/ tree' = [tree EXCEPT ![f].work = "harness"]
       \/ tree' = [tree EXCEPT ![f] = [index |-> "harness", work |-> "harness"]]
    /\ UNCHANGED <<at, todo, lineage, runs, tripped>>

DeveloperWrites(f) ==
    /\ tree' = [tree EXCEPT ![f].work = "developer"]
    /\ UNCHANGED <<at, todo, lineage, runs, tripped>>

Cool(h) ==
    /\ h \in tripped /\ tripped' = tripped \ {h}
    /\ UNCHANGED <<at, todo, lineage, runs, tree>>

Advance(d) ==
    \/ Launch(d) \/ FallBack(d) \/ GatewayAnswers(d) \/ CallTimesOut(d)
    \/ Succeeds(d) \/ FailsInItsCode(d) \/ FailsRecoverably(d) \/ TimesOut(d)

Step ==
    \/ \E d \in Delegations :
          \/ Ask(d) \/ Advance(d) \/ LeaderExits(d) \/ StrayExits(d)
          \/ \E e \in Delegations : Delegate(d, e)
          \/ \E f \in DOMAIN tree : HarnessWrites(d, f)
    \/ \E f \in DOMAIN tree : DeveloperWrites(f)
    \/ \E h \in Ready : Cool(h)

Next == Step /\ UNCHANGED cwd

Spec == Init /\ [][Next]_vars

\* The event loops run, timeouts fire and calls end.
LiveSpec ==
    /\ Spec
    /\ \A d \in Delegations :
          WF_vars((Launch(d) \/ FallBack(d) \/ CallTimesOut(d) \/ TimesOut(d)) /\ UNCHANGED cwd)

-----------------------------------------------------------------------------
(* Properties *)

\* "prevents ping-pong loops (A -> B -> A)" within "max depth of 2 hops"
\* (README.md:111): a harness never runs beneath a run of itself, and no
\* delegation runs beneath more than MAX_DELEGATION_DEPTH - 1 others.
NoPingPong ==
    \A d \in Delegations : proc[d] # "none" =>
       /\ Head(todo[d]) \notin chain[d] /\ depth[d] < MAX_DELEGATION_DEPTH
       /\ Cardinality(chain[d]) = depth[d]

\* A run of `d' has failed and its tree is rolled back.
RollsBack(d) ==
    at[d] \in {"running", "killing"} /\ at'[d] = "choosing"

\* rollback_git_state undoes what was "introduced during the harness run"
\* (federation.py:415): a rollback that reaches all files, from the root of the
\* repository, leaves a file that no line of the snapshot named as it is in the
\* index, whoever has written it, unless its name is quoted.
FailedRunIsUndone ==
    [][\A d \in Delegations :
         RollsBack(d) /\ cwd[d] = <<>> /\ tree' = RolledBack(d, DOMAIN tree) =>
         \A f \in DOMAIN tree :
            (\A p \in Paths : IsPrefix(p, f) =>
                p \notin Quoted /\ \A l \in baseline[d] : l[2] # p)
            => tree'[f].work = tree'[f].index]_vars

\* It "safeguards pre-existing dirty files" (federation.py:416): where a file had
\* changes that were not staged before the run, the developer's content is still
\* there after a rollback from the root, unless a harness has staged the file or
\* one beside it in an untracked directory.
EarlierWorkSurvives ==
    [][\A d \in Delegations : RollsBack(d) /\ cwd[d] = <<>> =>
         \A f \in DOMAIN tree, l \in baseline[d] :
            /\ IsPrefix(l[2], f) /\ l[1][2] \in {"M", "untracked"}
            /\ tree[f].work = "developer"
            /\ \A g \in Below(l[2]) : tree[g].index # "harness"
            => tree'[f].work = "developer"]_vars

\* Every delegation comes to an end, whatever its harnesses, the processes they
\* leave behind and the gateway do: the timeouts see to it.
DelegationEnds == \A d \in Delegations : at[d] # "idle" ~> at[d] \in Ended
=============================================================================
