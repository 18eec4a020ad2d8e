---------------------------- MODULE StreamRelay ----------------------------
(***************************************************************************)
(* One streamed response after its first chunk: the generator that         *)
(* preflight_and_stream returns (server.py), between an upstream that      *)
(* sends, pauses, ends or breaks and a client that may disconnect.         *)
(*                                                                         *)
(* The generator waits for a chunk at most one heartbeat interval.  Where  *)
(* that wait is cut short, asyncio.wait_for cancels the pending __anext__  *)
(* of httpx's byte iterator; the CancelledError runs through that async    *)
(* generator and finishes it, so the next __anext__ is StopAsyncIteration. *)
(***************************************************************************)
EXTENDS Naturals

CONSTANT MaxChunks      \* chunks the upstream sends at most; the first is in

ASSUME RelayAssumption == MaxChunks \in Nat \ {0}

VARIABLES
    upstream,   \* "sending" (a pause included), "finished" or "broken"
    sent,       \* chunks the upstream has sent
    iterator,   \* "live" or "finished": httpx's byte iterator
    context,    \* "open" or "closed": the upstream response
    client,     \* "connected" or "gone"
    pc,         \* the generator: "first", "poll", "wait", "ended"
    taken,      \* chunks passed on to the client
    pings,      \* whether a heartbeat was sent
    ending      \* how the generator ended: "eof", "error", "disconnect"

vars == <<upstream, sent, iterator, context, client, pc, taken, pings, ending>>

TypeOK ==
    /\ upstream \in {"sending", "finished", "broken"}
    /\ sent \in 1..MaxChunks /\ taken \in 0..MaxChunks
    /\ iterator \in {"live", "finished"} /\ context \in {"open", "closed"}
    /\ client \in {"connected", "gone"}
    /\ pc \in {"first", "poll", "wait", "ended"}
    /\ pings \in BOOLEAN
    /\ ending \in {"none", "eof", "error", "disconnect"}

Init ==
    /\ upstream = "sending" /\ sent = 1
    /\ iterator = "live" /\ context = "open"
    /\ client = "connected"
    /\ pc = "first" /\ taken = 0
    /\ pings = FALSE /\ ending = "none"

-----------------------------------------------------------------------------
(* The upstream and the client. *)

Send ==
    /\ upstream = "sending" /\ context = "open" /\ sent < MaxChunks
    /\ sent' = sent + 1
    /\ UNCHANGED <<upstream, iterator, context, client, pc, taken, pings, ending>>

\* The body ends, or the connection breaks.
Stop ==
    /\ upstream = "sending" /\ context = "open"
    /\ upstream' \in {"finished", "broken"}
    /\ UNCHANGED <<sent, iterator, context, client, pc, taken, pings, ending>>

Disconnect ==
    /\ client = "connected" /\ pc # "ended"
    /\ client' = "gone"
    /\ UNCHANGED <<upstream, sent, iterator, context, pc, taken, pings, ending>>

-----------------------------------------------------------------------------
(* The generator. *)

Relay == UNCHANGED <<upstream, sent, client>>

\* The generator ends, and its finally clause closes the upstream response.
EndAs(how) ==
    /\ pc' = "ended" /\ ending' = how
    /\ iterator' = "finished" /\ context' = "closed"
    /\ UNCHANGED <<taken, pings>>

YieldFirst ==
    /\ pc = "first" /\ Relay
    /\ pc' = "poll" /\ taken' = 1
    /\ UNCHANGED <<iterator, context, pings, ending>>

\* request.is_disconnected()
Poll ==
    /\ pc = "poll" /\ Relay
    /\ IF client = "gone"
         THEN EndAs("disconnect")
         ELSE /\ pc' = "wait"
              /\ UNCHANGED <<iterator, context, taken, pings, ending>>

\* Fault: an empty read is passed on as a chunk.
TakeAnyRead ==
    /\ pc = "wait" /\ Relay
    /\ iterator = "live"
    /\ taken' = taken + 1 /\ pc' = "poll"
    /\ UNCHANGED <<iterator, context, pings, ending>>

TakeChunk ==
    /\ pc = "wait" /\ Relay
    /\ iterator = "live" /\ taken < sent
    /\ taken' = taken + 1 /\ pc' = "poll"
    /\ UNCHANGED <<iterator, context, pings, ending>>

\* Fault: the wait is shielded from the timeout and goes on without a poll.
HeartbeatShielded ==
    /\ pc = "wait" /\ Relay
    /\ iterator = "live" /\ taken = sent /\ upstream = "sending"
    /\ pings' = TRUE
    /\ UNCHANGED <<iterator, context, pc, taken, ending>>

\* A pause as long as the heartbeat interval: the wait is cancelled, which
\* finishes the iterator and drops its connection, and a ping goes out.
Heartbeat ==
    /\ pc = "wait" /\ Relay
    /\ iterator = "live" /\ taken = sent /\ upstream = "sending"
    /\ iterator' = "finished" /\ context' = "closed"
    /\ pings' = TRUE /\ pc' = "poll"
    /\ UNCHANGED <<taken, ending>>

\* Fault: an iterator that raises ends the response like one at its end.
EndOfBodyWhateverTheCause ==
    /\ pc = "wait" /\ Relay
    /\ \/ iterator = "finished"
       \/ taken = sent /\ upstream # "sending"
    /\ EndAs("eof")

\* StopAsyncIteration
EndOfBody ==
    /\ pc = "wait" /\ Relay
    /\ \/ iterator = "finished"
       \/ taken = sent /\ upstream = "finished"
    /\ EndAs("eof")

\* Any other exception: an error event is sent before the end.
MidStreamError ==
    /\ pc = "wait" /\ Relay
    /\ iterator = "live" /\ taken = sent /\ upstream = "broken"
    /\ EndAs("error")

Generator ==
    YieldFirst \/ Poll \/ TakeChunk \/ Heartbeat \/ EndOfBody \/ MidStreamError

Next == Send \/ Stop \/ Disconnect \/ Generator

Spec == Init /\ [][Next]_vars

\* The event loop runs the generator; the upstream owes nothing.
LiveSpec == Spec /\ WF_vars(Generator)

-----------------------------------------------------------------------------
(* Properties *)

\* A response that ends without an error event, to a client that is still there
\* and got no heartbeat, is the whole body the upstream finished.
QuietEndIsComplete ==
    ending = "eof" /\ ~pings => upstream = "finished" /\ taken = sent

\* server.py:571 "Non-breaking SSE heartbeat comment": the same where heartbeats
\* were sent.
EndIsComplete ==
    ending = "eof" => upstream = "finished" /\ taken = sent

\* A client that leaves has the generator stopped and its upstream released,
\* even when the upstream is silent.
DisconnectReleases == client = "gone" ~> context = "closed"
=============================================================================
