------------------------------ MODULE Gateway ------------------------------
(***************************************************************************)
(* The chat-completions handler of server.py, streaming and not: route     *)
(* selection, the breaker gate, the upstream call, failover to the metered *)
(* fallback and the reports to the breakers, for requests that share the   *)
(* registry of breakers.                                                   *)
(*                                                                         *)
(* The handlers are coroutines of one event loop and switch only where     *)
(* they wait for an upstream, so an action runs from one such wait to the  *)
(* next: Begin up to the first call, then one action per way an upstream   *)
(* can answer, and again for the first chunk of a stream.                  *)
(***************************************************************************)
EXTENDS CircuitBreaker, Arbiter

CONSTANTS
    Requests,    \* client requests under way; a finished one may be sent anew
    Catalog,     \* the catalog: a set of models
    Modes,       \* "stream", "post" (not streaming)
    Asks,        \* what a request asks for: [want, v, session]
    NoModel

\* The counts from which a failure overflows are not told apart, so that counting
\* one twice is counting it once.
ASSUME GatewayAssumption == CountCap <= OverflowAt

VARIABLES
    gate,        \* BREAKER_REGISTRY: provider -> breaker
    affinity,    \* session_affinity of the solver
    req          \* the requests' handlers

vars == <<gate, affinity, req>>

Providers == {m.provider : m \in Catalog}
Sessions  == {ask.session : ask \in Asks}
Healthy   == {p \in Providers : IsHealthy(gate[p])}

Labels  == {"pass", "probe", "expired", "robbed", "opened"}  \* as in Breaker
Replies == {"none", "ok", "shed", "error"}

\* A handler at rest and how its latest request ended (2xx; 503 without a call;
\* any other error), and one that is waiting for `target':
\* for the response ("calling") or for the first chunk ("opening").
Resting(reply) == [pc |-> "idle", reply |-> reply]
Waiting == [pc : {"calling", "opening"}, mode : Modes, target : Catalog,
            spare : Catalog \cup {NoModel}, held : Labels]

Routes == [primary : Catalog, fallback : Catalog,
           why : {"explicit", "latch", "match", "emergency"}]

TypeOK ==
    /\ gate \in [Providers -> Breakers]
    /\ affinity \in [Sessions -> Routes \cup {NoRoute}]
    /\ req \in [Requests -> Waiting \cup {Resting(reply) : reply \in Replies}]

Init ==
    /\ gate = [p \in Providers |-> NewBreaker]
    /\ affinity = [s \in Sessions |-> NoRoute]
    /\ req = [r \in Requests |-> Resting("none")]

At(r, p) == req[r].pc # "idle" /\ req[r].target.provider = p

-----------------------------------------------------------------------------
(* Steps shared by the handlers. *)

\* req once r becomes rec: the canaries of a provider in `robbed' lose the slot
\* to r's report, those of one in `expired' to r's replacement of their lease.
Becomes(r, rec, robbed, expired) ==
    [d \in Requests |->
        IF d = r THEN rec
        ELSE IF req[d].pc = "idle" \/ req[d].held # "probe" THEN req[d]
        ELSE IF req[d].target.provider \in robbed
               THEN [req[d] EXCEPT !.held = "robbed"]
        ELSE IF req[d].target.provider \in expired
               THEN [req[d] EXCEPT !.held = "expired"]
        ELSE req[d]]

\* Fault: the call to a model is made without asking its provider's breaker.
LaunchUngated(r, mode, m, spare, g, robbed) ==
    /\ gate' = g
    /\ req' = Becomes(r, [pc |-> "calling", mode |-> mode, target |-> m,
                          spare |-> spare, held |-> "pass"],
                      robbed, {})

\* can_attempt lets r through to m's provider, in registry g; the call is sent
\* unless m has no upstream URL, when resolve_connection raises a 502.
Launch(r, mode, m, spare, g, robbed) ==
    LET b == g[m.provider]
        first == b.state = "CLOSED"
    IN  /\ Grants(b)
        /\ gate' = [g EXCEPT ![m.provider] = OnGrant(b)]
        /\ req' = Becomes(r,
              IF m.resolvable
                THEN [pc |-> "calling", mode |-> mode, target |-> m,
                      spare |-> spare,
                      held |-> IF first THEN "pass" ELSE "probe"]
                ELSE Resting("error"),
              robbed, IF b.lease = 0 THEN {m.provider} ELSE {})

\* r's handler replies, after leaving its target's breaker as b.
Finish(r, b, reply) ==
    /\ gate' = [gate EXCEPT ![req[r].target.provider] = b]
    /\ req' = Becomes(r, Resting(reply), {req[r].target.provider}, {})

\* r's handler replies, and reports nothing.
FinishUnreported(r, reply) ==
    /\ req' = [req EXCEPT ![r] = Resting(reply)]
    /\ UNCHANGED gate

\* The fallback, if it is at another provider.
SpareOf(route) ==
    IF route.fallback.provider # route.primary.provider
      THEN route.fallback ELSE NoModel

-----------------------------------------------------------------------------
(* The handler up to its first call. *)

\* select_candidate_routes, then the gate: the primary, else the fallback at
\* another provider, else 503.  With no route at all 503 as well, or 500 where the
\* model asked for is unknown, whose ValueError is not caught.
Begin(r, ask) ==
    /\ req[r].pc = "idle"
    /\ LET routes == Arbitrate(Catalog, ask.want, ask.v, "http_gateway",
                               affinity[ask.session], Healthy)
       IN  \/ /\ routes = {}
              /\ req' = [req EXCEPT ![r] =
                            Resting(IF ask.want = "auto" THEN "shed" ELSE "error")]
              /\ UNCHANGED <<gate, affinity>>
           \/ \E route \in routes, mode \in Modes :
                LET spare == SpareOf(route)
                    shut  == ~Grants(gate[route.primary.provider])
                IN  /\ affinity' = [affinity EXCEPT
                                      ![ask.session] = Remembered(@, route)]
                    /\ \/ Launch(r, mode, route.primary, spare, gate, {})
                       \/ /\ shut /\ spare # NoModel
                          /\ Launch(r, mode, spare, NoModel, gate, {})
                       \/ /\ shut
                          /\ spare # NoModel => ~Grants(gate[spare.provider])
                          /\ req' = [req EXCEPT ![r] = Resting("shed")]
                          /\ UNCHANGED gate

-----------------------------------------------------------------------------
(* The upstream answers the call. *)

Calling(r) == req[r].pc = "calling" /\ UNCHANGED affinity
Target(r)  == gate[req[r].target.provider]

\* r's handler reports a failure and replies.  If record_failure raises, the
\* failure is counted, the reply is a 500 and nothing else happens; but that the
\* non-streaming branch reports what was raised inside it once more, which counts
\* and raises again.
FinishFailed(r, retry, jitter) ==
    LET b == OnFailure(Target(r), retry, jitter)
    IN  IF FailureRaises(Target(r), retry)
          THEN /\ gate' = [gate EXCEPT ![req[r].target.provider] = b]
               /\ req' = [req EXCEPT ![r] = Resting("error")]
          ELSE Finish(r, b, "error")

\* Fault: a stream confirms the breaker's health only with its first chunk, and
\* nothing else reports the response.
AnswersOkUnreported(r) ==
    /\ Calling(r)
    /\ IF req[r].mode = "stream"
         THEN /\ req' = [req EXCEPT ![r].pc = "opening", ![r].held = "opened",
                                    ![r].spare = NoModel]
              /\ UNCHANGED gate
         ELSE FinishUnreported(r, "ok")

\* Below 400: success is reported, and a stream goes on to its first chunk.
AnswersOk(r) ==
    /\ Calling(r)
    /\ IF req[r].mode = "stream"
         THEN /\ gate' = [gate EXCEPT
                            ![req[r].target.provider] = OnSuccess(Target(r))]
              /\ req' = Becomes(r, [pc |-> "opening", mode |-> "stream",
                                    target |-> req[r].target, spare |-> NoModel,
                                    held |-> "opened"],
                                {req[r].target.provider}, {})
         ELSE Finish(r, OnSuccess(Target(r)), "ok")

\* 429, 502, 503, 504: the breaker trips; the fallback, if there is one and its
\* breaker agrees, is called instead.  Only a stream that has a fallback reads
\* the Retry-After header.
AnswersBusy(r) ==
    LET spare  == req[r].spare
        header == IF req[r].mode = "stream" /\ spare # NoModel
                    THEN RetryAfters \cup {0} ELSE {0}
    IN  /\ Calling(r)
        /\ \E retry \in header, jitter \in 0..Jitter :
             LET raises == FailureRaises(Target(r), retry)
                 p      == req[r].target.provider
             IN  \/ /\ ~raises /\ spare # NoModel => ~Grants(gate[spare.provider])
                    /\ FinishFailed(r, retry, jitter)
                 \/ /\ ~raises /\ spare # NoModel
                    /\ Launch(r, req[r].mode, spare, NoModel,
                              [gate EXCEPT ![p] = OnFailure(@, retry, jitter)], {p})

\* 500: the breaker trips and the error is passed on.
AnswersError(r) ==
    /\ Calling(r)
    /\ \E jitter \in 0..Jitter : FinishFailed(r, 0, jitter)

\* Any other status from 400: the slot is released and the error passed on.
AnswersRefusal(r) ==
    /\ Calling(r)
    /\ Finish(r, OnRelease(Target(r)), "error")

\* Connect error, timeout: the except clause of the non-streaming branch trips
\* the breaker; preflight_and_stream has none.
CallRaises(r) ==
    /\ Calling(r)
    /\ IF req[r].mode = "post"
         THEN \E jitter \in 0..Jitter : FinishFailed(r, 0, jitter)
         ELSE FinishUnreported(r, "error")

-----------------------------------------------------------------------------
(* The first chunk of a stream. *)

Opening(r) == req[r].pc = "opening" /\ UNCHANGED affinity

FirstChunk(r) == Opening(r) /\ FinishUnreported(r, "ok")

\* None in 20 s, or the stream is empty.
FirstChunkTimeout(r) ==
    /\ Opening(r)
    /\ \E jitter \in 0..Jitter : FinishFailed(r, 0, jitter)

FirstChunkRaises(r) == Opening(r) /\ FinishUnreported(r, "error")

-----------------------------------------------------------------------------
Answered(r) ==
    \/ AnswersOk(r) \/ AnswersBusy(r) \/ AnswersError(r) \/ AnswersRefusal(r)
    \/ CallRaises(r) \/ FirstChunk(r) \/ FirstChunkTimeout(r)
    \/ FirstChunkRaises(r)

Tick ==
    /\ \E p \in Providers : ~Settled(gate[p])
    /\ gate' = [p \in Providers |-> Elapse(gate[p])]
    /\ UNCHANGED <<affinity, req>>

Next ==
    \/ Tick
    \/ \E r \in Requests : Answered(r) \/ \E ask \in Asks : Begin(r, ask)

Spec == Init /\ [][Next]_vars

\* Time passes; every call ends, by httpx's timeouts if by nothing else; every
\* kind of request keeps being sent; providers answer in the end.
LiveSpec ==
    /\ Spec
    /\ WF_vars(Tick)
    /\ \A r \in Requests :
          /\ WF_vars(Answered(r))
          /\ SF_vars(AnswersOk(r))
          /\ \A ask \in Asks : SF_vars(Begin(r, ask))

-----------------------------------------------------------------------------
(* Properties *)

\* What a request is to the breaker of provider p: the `held' of module Breaker.
HeldAt(p) == [r \in Requests |-> IF At(r, p) THEN req[r].held ELSE "idle"]

\* README.md:74 "When cooldown expires, Reflex allows exactly ONE single canary
\* probe request to test the subscription": no provider stays OPEN for ever.
OpenIsLeft ==
    \A p \in Providers : gate[p].state = "OPEN" ~> gate[p].state # "OPEN"
=============================================================================
