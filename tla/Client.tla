------------------------------- MODULE Client -------------------------------
(***************************************************************************)
(* suggest_route of reflex_client.py against /v1/route of the server: at   *)
(* most two attempts, each of which may be refused, answered, answered too *)
(* late or never, and what the requests leave in the server's memory of    *)
(* incidents, which feedback and the command line tool add to.             *)
(*                                                                         *)
(* A request whose conversation holds a tool error records an incident.    *)
(* The server goes on with a request its client no longer waits for.       *)
(***************************************************************************)
EXTENDS Memory

CONSTANTS
    Server, Tool,    \* the two processes
    Feedback,        \* the tiers reported to /v1/feedback
    Asked            \* bound: the prompts the client asks about

ASSUME ClientAssumption ==
    /\ Processes = {Server, Tool} /\ Server # Tool
    /\ Feedback \subseteq Tiers /\ Asked \subseteq Prompts

VARIABLES
    call,        \* the client's call
    wire,        \* per attempt: where its request is
    floor        \* auxiliary: the tier learned for the prompt before the call,
                 \* 0 once its answer was given without a look at the memory

vars == <<memory, call, wire, floor>>

MAX_ATTEMPTS == 2

Attempts == 1..MAX_ATTEMPTS
\* "transport" is refused or timeout, "status" any that is not retried.
Causes   == {"unknown", "transport", "503", "429", "status"}
NoCall   == [at |-> "idle", prompt |-> "none", failed |-> FALSE, attempts |-> 0,
             retried429 |-> FALSE, cause |-> "unknown", tier |-> 0]

TypeOK ==
    /\ MemoryTypeOK
    /\ call \in [at : {"idle", "sending", "waiting", "available", "fallback"},
                 prompt : Prompts \cup {"none"}, failed : BOOLEAN,
                 attempts : 0..MAX_ATTEMPTS, retried429 : BOOLEAN,
                 cause : Causes, tier : Tiers]
    /\ wire \in [Attempts -> {"none", "sent", "recording"}]
    /\ floor \in Tiers

Init ==
    /\ MemoryInit
    /\ call = NoCall
    /\ wire = [n \in Attempts |-> "none"]
    /\ floor = 0

Learned(p) == Max({0} \cup {f.tier : f \in {g \in learned : g.prompt = p}})

-----------------------------------------------------------------------------
(* The client. *)

\* A conversation that ends with prompt p, after a tool error or not.
Call(p, failed) ==
    /\ call.at = "idle"
    /\ call' = [NoCall EXCEPT !.at = "sending", !.prompt = p, !.failed = failed]
    /\ floor' = Learned(p)
    /\ UNCHANGED <<memory, wire>>

\* The top of the loop.
Send ==
    /\ call.at = "sending"
    /\ call' = [call EXCEPT !.at = "waiting", !.attempts = @ + 1]
    /\ wire' = [wire EXCEPT ![call.attempts + 1] = "sent"]
    /\ UNCHANGED <<memory, floor>>

\* Fault: a rate limit does not use up an attempt.
AfterUncounted(cause) ==
    IF cause = "429" THEN [call EXCEPT !.at = "sending", !.attempts = @ - 1]
    ELSE [call EXCEPT !.at = "fallback", !.cause = cause]

\* Fault: a rate limit is not remembered.
AfterUnmarked(cause) ==
    [call EXCEPT !.at = IF call.attempts < MAX_ATTEMPTS /\ cause # "status"
                        THEN "sending" ELSE "fallback",
                 !.cause = IF cause = "429" THEN @ ELSE cause]

\* Fault: the attempts are counted one off.
AfterOnceMore(cause) ==
    [call EXCEPT !.at = IF call.attempts <= MAX_ATTEMPTS THEN "sending" ELSE "fallback",
                 !.cause = cause]

\* The call after an attempt that was not answered with 200: 503, timeouts and
\* transport errors are retried once, the first 429 goes on with the loop
\* without a word, everything else ends the call.
After(cause) ==
    LET again == IF call.attempts < MAX_ATTEMPTS THEN "sending" ELSE "fallback"
        first == cause = "429" /\ ~call.retried429
    IN  [call EXCEPT
           !.at = IF cause \in {"503", "transport"} \/ first
                  THEN again ELSE "fallback",
           !.cause = IF first THEN @ ELSE cause,
           !.retried429 = @ \/ cause = "429"]

Waits(n) == call.at = "waiting" /\ call.attempts = n

\* The attempt fails before the server has seen it, or is turned away by it or
\* by something in front of it.
TurnedAway ==
    \E n \in Attempts, cause \in {"transport", "status", "429"} :
       /\ Waits(n) /\ wire[n] = "sent"
       /\ wire' = [wire EXCEPT ![n] = "none"]
       /\ call' = After(cause)
       /\ UNCHANGED <<memory, floor>>

\* The connection breaks, or there is no answer in time; the request stays.
GivesUp ==
    /\ call.at = "waiting"
    /\ call' = After("transport")
    /\ UNCHANGED <<memory, wire, floor>>

\* The caller takes the suggestion or its own default.  Bound: it calls again
\* once no request of this call is under way.
Return ==
    /\ call.at \in {"available", "fallback"} /\ \A n \in Attempts : wire[n] = "none"
    /\ call' = NoCall /\ floor' = 0
    /\ UNCHANGED <<memory, wire>>

-----------------------------------------------------------------------------
(* The server: route_preview and submit_feedback, one at a time. *)

\* 200 with a tier, or 503 where the solver finds no provider; nobody reads it
\* if the client has gone on.
Reply(n, tier) ==
    /\ wire' = [wire EXCEPT ![n] = "none"]
    /\ \/ call' = IF Waits(n) THEN [call EXCEPT !.at = "available", !.tier = tier]
                 ELSE call
       \/ call' = IF Waits(n) THEN After("503") ELSE call

\* Without a tool error, the tier is that of the memory as it is now.
HandlePlain(n) ==
    /\ wire[n] = "sent" /\ Idle(Server) /\ ~call.failed
    /\ Reply(n, Classified(call.prompt))
    /\ UNCHANGED <<memory, floor>>

\* The check raises, the database being locked: the heuristics decide.
HandleUnchecked(n) ==
    /\ wire[n] = "sent" /\ Idle(Server) /\ ~call.failed
    /\ \E a \in Processes : ~Idle(a)
    /\ Reply(n, Heuristic[call.prompt])
    /\ floor' = IF Waits(n) THEN 0 ELSE floor
    /\ UNCHANGED memory

HandleFailed(n) ==
    /\ wire[n] = "sent" /\ Idle(Server) /\ call.failed
    /\ Select(Server, call.prompt, TOOL_ERROR_TIER)
    /\ wire' = [wire EXCEPT ![n] = "recording"]
    /\ UNCHANGED <<call, floor>>

Feeds(p, tier) ==
    /\ Select(Server, p, tier)
    /\ UNCHANGED <<call, wire, floor>>

\* The record is committed, or it fails, which the classifier passes over; then
\* the request that caused it is answered.
ServerRecords ==
    /\ Write(Server) \/ Abandon(Server)
    /\ IF \E n \in Attempts : wire[n] = "recording"
       THEN \E n \in Attempts : wire[n] = "recording" /\ Reply(n, TOOL_ERROR_TIER)
       ELSE UNCHANGED <<call, wire>>
    /\ UNCHANGED floor

ServerRestarts ==
    /\ recording' = [recording EXCEPT ![Server] = Nothing]
    /\ wire' = [n \in Attempts |-> "none"]
    /\ UNCHANGED <<rows, learned, raced, call, floor>>

\* `reflex delegate' classifies its task, which may quote a tool's error, in a
\* process of its own.
ToolStep ==
    /\ \/ \E p \in Prompts : Select(Tool, p, TOOL_ERROR_TIER)
       \/ Write(Tool) \/ Abandon(Tool)
    /\ UNCHANGED <<call, wire, floor>>

ClientStep == Send \/ TurnedAway \/ GivesUp \/ Return

Next ==
    \/ \E p \in Asked, failed \in BOOLEAN : Call(p, failed)
    \/ ClientStep \/ ServerRecords \/ ServerRestarts \/ ToolStep
    \/ \E n \in Attempts : HandlePlain(n) \/ HandleUnchecked(n) \/ HandleFailed(n)
    \/ \E p \in Prompts, tier \in Feedback : Feeds(p, tier)

Spec == Init /\ [][Next]_vars

\* The client runs and its timeouts fire; the server may be silent for ever.
LiveSpec == Spec /\ WF_vars(Send) /\ WF_vars(GivesUp)

-----------------------------------------------------------------------------
(* Properties *)

Alone(p) == p \notin raced /\ \A q \in Prompts \ {p} : Jaccard[p][q] < 100

\* memory.py:4 "Learns from prior execution errors and user/agent feedback to
\* adjust model tiers": a suggestion is of the tier that had been learned for its
\* prompt when the client called, or a higher one (of tier 2 at most after a tool
\* error), unless the prompt was recorded by two processes at once or another
\* prompt has the same shingles, or the memory could not be read.
AdviceHeedsReports ==
    call.at = "available" /\ Alone(call.prompt) =>
        call.tier >= IF call.failed THEN Min({floor, TOOL_ERROR_TIER}) ELSE floor

\* "reflex_unavailable: <cause: ...>" (CLIENT_CONTRACT.md:43): a call that falls
\* back has a cause to report, though the first 429 leaves none and any failure
\* may come before or after it.
FallbackHasCause == call.at = "fallback" => call.cause # "unknown"

\* "Reflex is never a hard dependency" (CLIENT_CONTRACT.md:4): every call returns, if
\* the server never answers, or answers 429 for ever.
CallEnds == call.at = "sending" ~> call.at \in {"available", "fallback"}
=============================================================================
