--------------------------- MODULE GatewayProofs ---------------------------
(***************************************************************************)
(* Theorems of Gateway, for every catalog and any number of requests: its  *)
(* invariants, and that the breaker of each provider, with the requests    *)
(* that are at the provider, is one of module Breaker, so that the         *)
(* theorems about that module hold of it.                                  *)
(***************************************************************************)
EXTENDS Gateway, TLAPS

CONSTANT Provider    \* any provider

Gate == INSTANCE BreakerProofs WITH
    breaker <- gate[Provider], held <- HeldAt(Provider), Callers <- Requests

\* A registry whose breakers are well typed and consistent.
Sound(g) == /\ g \in [Providers -> Breakers]
            /\ \A p \in Providers : Gate!Consistent(g[p])

\* A handler waits for the first chunk exactly when it has reported success, and
\* then has no fallback; one that waits for a response has it elsewhere.
Coherent(w) ==
    w.pc # "idle" =>
        /\ w.pc = "opening" <=> w.held = "opened"
        /\ w.spare # NoModel =>
              w.pc = "calling" /\ w.spare.provider # w.target.provider

Handlers == Waiting \cup {Resting(reply) : reply \in Replies}

\* The handlers of the requests.
Orderly(q) == q \in [Requests -> Handlers] /\ \A r \in Requests : Coherent(q[r])

GatewayInv == TypeOK /\ Sound(gate) /\ Orderly(req)

\* What a handler is to the breaker of provider p.
HeldBy(w, p) == IF w.pc # "idle" /\ w.target.provider = p THEN w.held ELSE "idle"

-----------------------------------------------------------------------------
(* The methods of a breaker, which module BreakerProofs is about. *)

LEMMA SameBreakers ==
    /\ Gate!Breakers = Breakers /\ Gate!NewBreaker = NewBreaker
    /\ \A b \in Breakers :
          /\ Gate!Grants(b) = Grants(b) /\ Gate!OnGrant(b) = OnGrant(b)
          /\ Gate!OnSuccess(b) = OnSuccess(b) /\ Gate!OnRelease(b) = OnRelease(b)
          /\ Gate!Elapse(b) = Elapse(b) /\ Gate!Settled(b) = Settled(b)
<1>1. Gate!Breakers = Breakers /\ Gate!NewBreaker = NewBreaker
  BY DEF Gate!Breakers, Breakers, Gate!States, States, Gate!NewBreaker, NewBreaker
<1>2. ASSUME NEW b \in Breakers
      PROVE  /\ Gate!Grants(b) = Grants(b) /\ Gate!OnGrant(b) = OnGrant(b)
             /\ Gate!OnSuccess(b) = OnSuccess(b) /\ Gate!OnRelease(b) = OnRelease(b)
             /\ Gate!Elapse(b) = Elapse(b) /\ Gate!Settled(b) = Settled(b)
  BY DEF Gate!Grants, Grants, Gate!OnGrant, OnGrant, Gate!OnSuccess, OnSuccess,
     Gate!OnRelease, OnRelease, Gate!Elapse, Elapse, Gate!Settled, Settled
<1> QED BY <1>1, <1>2

LEMMA SameFailure ==
    ASSUME NEW b \in Breakers, NEW retry, NEW jitter
    PROVE  /\ Gate!OnFailure(b, retry, jitter) = OnFailure(b, retry, jitter)
           /\ Gate!FailureRaises(b, retry) <=> FailureRaises(b, retry)
BY DEF Gate!OnFailure, OnFailure, Gate!FailureRaises, FailureRaises, Gate!Backoff, Backoff

\* Every method leaves a consistent breaker consistent.
LEMMA MethodFacts ==
    ASSUME NEW b \in Breakers, Gate!Consistent(b)
    PROVE  /\ OnGrant(b) \in Breakers /\ Gate!Consistent(OnGrant(b))
           /\ OnSuccess(b) \in Breakers /\ Gate!Consistent(OnSuccess(b))
           /\ OnRelease(b) \in Breakers /\ Gate!Consistent(OnRelease(b))
           /\ Elapse(b) \in Breakers /\ Gate!Consistent(Elapse(b))
           /\ \A retry \in RetryAfters \cup {0}, jitter \in 0..Jitter :
                 /\ OnFailure(b, retry, jitter) \in Breakers
                 /\ Gate!Consistent(OnFailure(b, retry, jitter))
<1>1. b \in Gate!Breakers
  BY SameBreakers
<1>2. /\ Gate!OnGrant(b) \in Gate!Breakers /\ Gate!Consistent(Gate!OnGrant(b))
      /\ Gate!OnSuccess(b) \in Gate!Breakers /\ Gate!Consistent(Gate!OnSuccess(b))
  BY <1>1, BreakerAssumption, Gate!OnGrantFacts, Gate!OnSuccessFacts
<1>3. /\ Gate!OnRelease(b) \in Gate!Breakers /\ Gate!Consistent(Gate!OnRelease(b))
      /\ Gate!Elapse(b) \in Gate!Breakers /\ Gate!Consistent(Gate!Elapse(b))
  BY <1>1, BreakerAssumption, Gate!OnReleaseFacts, Gate!ElapseFacts
<1>4. ASSUME NEW retry \in RetryAfters \cup {0}, NEW jitter \in 0..Jitter
      PROVE  /\ OnFailure(b, retry, jitter) \in Breakers
             /\ Gate!Consistent(OnFailure(b, retry, jitter))
  <2>1. /\ Gate!OnFailure(b, retry, jitter) \in Gate!Breakers
        /\ Gate!Consistent(Gate!OnFailure(b, retry, jitter))
    BY <1>1, BreakerAssumption, Gate!OnFailureFacts
  <2> QED BY <2>1, SameFailure, SameBreakers
<1> QED BY <1>2, <1>3, <1>4, SameBreakers

LEMMA SoundKept ==
    ASSUME NEW g, Sound(g), NEW p \in Providers, NEW b \in Breakers, Gate!Consistent(b)
    PROVE  Sound([g EXCEPT ![p] = b])
BY DEF Sound

-----------------------------------------------------------------------------
(* The handlers. *)

LEMMA WaitingFacts ==
    ASSUME NEW pc \in {"calling", "opening"}, NEW mode \in Modes, NEW target \in Catalog,
           NEW spare \in Catalog \cup {NoModel}, NEW held \in Labels
    PROVE  [pc |-> pc, mode |-> mode, target |-> target, spare |-> spare, held |-> held]
              \in Handlers
BY DEF Handlers, Waiting

LEMMA RestingFacts ==
    ASSUME NEW reply \in Replies
    PROVE  /\ Resting(reply) \in Handlers /\ Resting(reply).pc = "idle"
           /\ Coherent(Resting(reply)) /\ \A p : HeldBy(Resting(reply), p) = "idle"
BY DEF Handlers, Resting, Coherent, HeldBy

\* A handler that is not at rest waits.
LEMMA BusyFacts ==
    ASSUME NEW w \in Handlers, w.pc # "idle"
    PROVE  /\ w \in Waiting /\ w.target \in Catalog /\ w.mode \in Modes
           /\ w.spare \in Catalog \cup {NoModel} /\ w.held \in Labels
           /\ w.target.provider \in Providers
           /\ w = [pc |-> w.pc, mode |-> w.mode, target |-> w.target,
                   spare |-> w.spare, held |-> w.held]
<1>1. w \in Waiting
  BY DEF Handlers, Resting
<1> QED BY <1>1 DEF Waiting, Providers

\* A canary that loses its slot is still out.
LEMMA DemotedFacts ==
    ASSUME NEW w \in Handlers, Coherent(w), w.pc # "idle", w.held = "probe",
           NEW label \in {"robbed", "expired"}, NEW d, d = [w EXCEPT !.held = label]
    PROVE  /\ d \in Handlers /\ Coherent(d)
           /\ \A p : HeldBy(d, p) = IF w.target.provider = p THEN label ELSE "idle"
<1>1. d = [pc |-> w.pc, mode |-> w.mode, target |-> w.target, spare |-> w.spare, held |-> label]
  BY BusyFacts
<1>2. /\ w.pc \in {"calling", "opening"} /\ w.mode \in Modes /\ w.target \in Catalog
      /\ w.spare \in Catalog \cup {NoModel}
  BY BusyFacts DEF Waiting
<1>3. label \in Labels
  BY DEF Labels
<1>4. d \in Handlers
  <2>1. [pc |-> w.pc, mode |-> w.mode, target |-> w.target, spare |-> w.spare, held |-> label]
           \in Handlers
    BY <1>2, <1>3 DEF Handlers, Waiting
  <2> QED BY <1>1, <2>1
<1>5. Coherent(d) /\ \A p : HeldBy(d, p) = IF w.target.provider = p THEN label ELSE "idle"
  BY <1>1 DEF Coherent, HeldBy
<1> QED BY <1>4, <1>5

\* The other handlers after a report of r, or its replacement of a canary.
LEMMA BecomesFacts ==
    ASSUME Orderly(req), NEW r \in Requests, NEW rec \in Handlers, Coherent(rec),
           NEW robbed, NEW expired
    PROVE  /\ Orderly(Becomes(r, rec, robbed, expired))
           /\ Becomes(r, rec, robbed, expired)[r] = rec
           /\ \A d \in Requests \ {r} : \A p :
                 HeldBy(Becomes(r, rec, robbed, expired)[d], p) =
                    IF HeldBy(req[d], p) = "probe" /\ p \in robbed THEN "robbed"
                    ELSE IF HeldBy(req[d], p) = "probe" /\ p \in expired THEN "expired"
                    ELSE HeldBy(req[d], p)
<1> DEFINE q == Becomes(r, rec, robbed, expired)
<1>1. ASSUME NEW d \in Requests \ {r}
      PROVE  /\ q[d] \in Handlers /\ Coherent(q[d])
             /\ \A p : HeldBy(q[d], p) =
                    IF HeldBy(req[d], p) = "probe" /\ p \in robbed THEN "robbed"
                    ELSE IF HeldBy(req[d], p) = "probe" /\ p \in expired THEN "expired"
                    ELSE HeldBy(req[d], p)
  <2> DEFINE w == req[d]
  <2>1. w \in Handlers /\ Coherent(w)
    BY DEF Orderly
  <2>2. q[d] = IF w.pc = "idle" \/ w.held # "probe" THEN w
               ELSE IF w.target.provider \in robbed THEN [w EXCEPT !.held = "robbed"]
               ELSE IF w.target.provider \in expired THEN [w EXCEPT !.held = "expired"]
               ELSE w
    BY DEF Becomes
  <2> HIDE DEF w, q
  <2>3. CASE w.pc = "idle" \/ w.held # "probe"
    <3>1. \A p : HeldBy(w, p) # "probe"
      BY <2>3 DEF HeldBy
    <3> QED BY <2>1, <2>2, <2>3, <3>1 DEF w
  <2>4. CASE w.pc # "idle" /\ w.held = "probe"
    <3>1. \A p : HeldBy(w, p) = IF w.target.provider = p THEN "probe" ELSE "idle"
      BY <2>4 DEF HeldBy
    <3>2. CASE w.target.provider \in robbed
      <4>1. q[d] = [w EXCEPT !.held = "robbed"]
        BY <2>2, <2>4, <3>2
      <4>2. /\ q[d] \in Handlers /\ Coherent(q[d])
            /\ \A p : HeldBy(q[d], p) = IF w.target.provider = p THEN "robbed" ELSE "idle"
        BY <2>1, <2>4, <4>1, DemotedFacts
      <4> QED BY <3>1, <3>2, <4>2 DEF w
    <3>3. CASE w.target.provider \notin robbed /\ w.target.provider \in expired
      <4>1. q[d] = [w EXCEPT !.held = "expired"]
        BY <2>2, <2>4, <3>3
      <4>2. /\ q[d] \in Handlers /\ Coherent(q[d])
            /\ \A p : HeldBy(q[d], p) = IF w.target.provider = p THEN "expired" ELSE "idle"
        BY <2>1, <2>4, <4>1, DemotedFacts
      <4> QED BY <3>1, <3>3, <4>2 DEF w
    <3>4. CASE w.target.provider \notin robbed /\ w.target.provider \notin expired
      BY <2>1, <2>2, <2>4, <3>1, <3>4 DEF w
    <3> QED BY <3>2, <3>3, <3>4
  <2> QED BY <2>3, <2>4
<1>2. q[r] = rec /\ q = [d \in Requests |-> q[d]]
  BY DEF Becomes
<1> HIDE DEF q
<1>3. Orderly(q)
  BY <1>1, <1>2 DEF Orderly
<1> QED BY <1>1, <1>2, <1>3 DEF q

\* The handler of r comes to rest; the others stay as they are.
LEMMA RestsFacts ==
    ASSUME Orderly(req), NEW r \in Requests, NEW reply \in Replies
    PROVE  /\ Orderly([req EXCEPT ![r] = Resting(reply)])
           /\ \A d \in Requests : \A p :
                 HeldBy([req EXCEPT ![r] = Resting(reply)][d], p) =
                    IF d = r THEN "idle" ELSE HeldBy(req[d], p)
<1> DEFINE q == [req EXCEPT ![r] = Resting(reply)]
<1>1. q[r] = Resting(reply) /\ (\A d \in Requests \ {r} : q[d] = req[d])
  BY DEF Orderly
<1>2. Orderly(q)
  BY RestingFacts DEF Orderly
<1> HIDE DEF q
<1> QED BY <1>1, <1>2, RestingFacts DEF q

-----------------------------------------------------------------------------
(* The steps that the handlers share: each leaves the invariant, and what  *)
(* it is to the breaker of the provider.                                   *)

LEMMA HeldAtIs == \A d \in Requests : HeldAt(Provider)[d] = HeldBy(req[d], Provider)
BY DEF HeldAt, At, HeldBy

\* HeldAt after a step, from what each handler is then.
LEMMA HeldAtNext ==
    ASSUME NEW h, \A d \in Requests : HeldBy(req'[d], Provider) = h[d],
           h = [d \in Requests |-> h[d]]
    PROVE  HeldAt(Provider)' = h
BY DEF HeldAt, At, HeldBy

\* A report of r at the provider leaves the slot to nobody.
LEMMA ReportAt ==
    ASSUME Orderly(req), NEW r \in Requests, NEW rec \in Handlers, Coherent(rec),
           NEW expired, NEW robbed, Provider \in robbed, Provider \notin expired,
           req' = Becomes(r, rec, robbed, expired)
    PROVE  HeldAt(Provider)' = Gate!AfterReport(r, HeldBy(rec, Provider))
<1> DEFINE h == Gate!AfterReport(r, HeldBy(rec, Provider))
<1>1. /\ h = [d \in Requests |-> h[d]] /\ h[r] = HeldBy(rec, Provider)
      /\ \A d \in Requests \ {r} :
            h[d] = IF HeldAt(Provider)[d] = "probe" THEN "robbed" ELSE HeldAt(Provider)[d]
  BY DEF Gate!AfterReport
<1>2. \A d \in Requests : HeldBy(req'[d], Provider) = h[d]
  <2> HIDE DEF h
  <2> QED BY <1>1, BecomesFacts, HeldAtIs
<1> HIDE DEF h
<1>3. HeldAt(Provider)' = h
  BY <1>1, <1>2, HeldAtNext
<1> QED BY <1>3 DEF h

\* Elsewhere a step is nothing to the provider's breaker.
LEMMA ElsewhereKept ==
    ASSUME Orderly(req), NEW r \in Requests, NEW rec \in Handlers, Coherent(rec),
           NEW expired, NEW robbed, Provider \notin robbed, Provider \notin expired,
           HeldBy(rec, Provider) = HeldBy(req[r], Provider),
           req' = Becomes(r, rec, robbed, expired)
    PROVE  HeldAt(Provider)' = HeldAt(Provider)
<1>1. HeldAt(Provider) = [d \in Requests |-> HeldAt(Provider)[d]]
  BY DEF HeldAt
<1>2. \A d \in Requests : HeldBy(req'[d], Provider) = HeldAt(Provider)[d]
  BY BecomesFacts, HeldAtIs
<1> QED BY <1>1, <1>2, HeldAtNext

\* Finish: r's handler reports to its target, whose breaker is b then.
LEMMA FinishFacts ==
    ASSUME GatewayInv, NEW r \in Requests, req[r].pc # "idle", NEW b \in Breakers,
           Gate!Consistent(b), NEW reply \in Replies, Finish(r, b, reply)
    PROVE  /\ Sound(gate') /\ Orderly(req')
           /\ req[r].target.provider = Provider =>
                 gate'[Provider] = b /\ HeldAt(Provider)' = Gate!AfterReport(r, "idle")
           /\ Provider \in Providers /\ req[r].target.provider # Provider =>
                 UNCHANGED <<gate[Provider], HeldAt(Provider)>>
<1> DEFINE p == req[r].target.provider
<1>1. req[r] \in Handlers /\ p \in Providers /\ gate \in [Providers -> Breakers]
  BY BusyFacts DEF GatewayInv, Orderly, Sound
<1>2. gate' = [gate EXCEPT ![p] = b] /\ req' = Becomes(r, Resting(reply), {p}, {})
  BY DEF Finish
<1>3. Sound(gate') /\ Orderly(req')
  <2>1. Sound(gate')
    BY <1>1, <1>2, SoundKept DEF GatewayInv
  <2>2. Orderly(req')
    BY <1>2, BecomesFacts, RestingFacts DEF GatewayInv
  <2> QED BY <2>1, <2>2
<1> HIDE DEF p
<1>4. ASSUME p = Provider
      PROVE  gate'[Provider] = b /\ HeldAt(Provider)' = Gate!AfterReport(r, "idle")
  <2>1. HeldAt(Provider)' = Gate!AfterReport(r, HeldBy(Resting(reply), Provider))
    BY <1>2, <1>4, ReportAt, RestingFacts DEF GatewayInv
  <2> QED BY <1>1, <1>2, <1>4, <2>1, RestingFacts
<1>5. ASSUME Provider \in Providers, p # Provider
      PROVE  UNCHANGED <<gate[Provider], HeldAt(Provider)>>
  <2>1. HeldBy(req[r], Provider) = "idle"
    BY <1>5 DEF HeldBy, p
  <2>2. HeldAt(Provider)' = HeldAt(Provider)
    BY <1>2, <1>5, <2>1, ElsewhereKept, RestingFacts DEF GatewayInv
  <2> QED BY <1>1, <1>2, <1>5, <2>2
<1> QED BY <1>3, <1>4, <1>5 DEF p

\* FinishUnreported: r's handler rests, and the breakers are not told.
LEMMA UnreportedFacts ==
    ASSUME GatewayInv, NEW r \in Requests, NEW reply \in Replies,
           req' = [req EXCEPT ![r] = Resting(reply)], gate' = gate
    PROVE  /\ Sound(gate') /\ Orderly(req') /\ gate'[Provider] = gate[Provider]
           /\ HeldAt(Provider)' = [HeldAt(Provider) EXCEPT ![r] = "idle"]
<1>1. Orderly(req')
  BY RestsFacts DEF GatewayInv
<1> DEFINE h == [HeldAt(Provider) EXCEPT ![r] = "idle"]
<1>2. /\ h = [d \in Requests |-> h[d]] /\ h[r] = "idle"
      /\ \A d \in Requests \ {r} : h[d] = HeldAt(Provider)[d]
  BY DEF HeldAt
<1> HIDE DEF h
<1>3. \A d \in Requests : HeldBy(req'[d], Provider) = h[d]
  BY <1>2, HeldAtIs, RestsFacts DEF GatewayInv
<1>4. HeldAt(Provider)' = h
  BY <1>2, <1>3, HeldAtNext
<1> QED BY <1>1, <1>4 DEF h, GatewayInv

\* Launch: r, which is not at the model's provider, is let through there, in the
\* registry g; what r leaves is the providers in `robbed'.
LEMMA LaunchFacts ==
    ASSUME GatewayInv, NEW r \in Requests, NEW mode \in Modes, NEW m \in Catalog,
           NEW spare \in Catalog \cup {NoModel},
           spare # NoModel => spare.provider # m.provider,
           NEW g, Sound(g), NEW robbed, m.provider \notin robbed,
           HeldBy(req[r], m.provider) = "idle", Launch(r, mode, m, spare, g, robbed)
    PROVE  /\ Sound(gate') /\ Orderly(req')
           /\ m.provider = Provider /\ g[Provider] = gate[Provider] =>
                 Gate!Attempt(r) \/ Gate!Strand(r)
           /\ m.provider # Provider /\ Provider \in Providers => gate'[Provider] = g[Provider]
           /\ m.provider # Provider /\ Provider \in robbed =>
                 HeldAt(Provider)' = Gate!AfterReport(r, "idle")
           /\ m.provider # Provider /\ Provider \notin robbed /\ HeldBy(req[r], Provider) = "idle" =>
                 HeldAt(Provider)' = HeldAt(Provider)
<1> DEFINE p == m.provider
           b == g[p]
           label == IF b.state = "CLOSED" THEN "pass" ELSE "probe"
           calls == [pc |-> "calling", mode |-> mode, target |-> m, spare |-> spare, held |-> label]
           rec == IF m.resolvable THEN calls ELSE Resting("error")
           expired == IF b.lease = 0 THEN {p} ELSE {}
<1>1. /\ Grants(b) /\ gate' = [g EXCEPT ![p] = OnGrant(b)]
      /\ req' = Becomes(r, rec, robbed, expired)
  BY DEF Launch
<1>2. p \in Providers /\ b \in Breakers /\ Gate!Consistent(b) /\ g \in [Providers -> Breakers]
  BY DEF Sound, Providers
<1>3. Sound(gate')
  BY <1>1, <1>2, MethodFacts, SoundKept
<1>4. label \in Labels /\ label # "opened"
  BY DEF Labels
<1>5. calls \in Handlers /\ Coherent(calls)
  <2> HIDE DEF label
  <2> QED BY <1>4 DEF Handlers, Waiting, Coherent
<1>6. \A z : HeldBy(calls, z) = IF z = p THEN label ELSE "idle"
  BY DEF HeldBy
<1> HIDE DEF label, calls, p
<1>7. /\ rec \in Handlers /\ Coherent(rec)
      /\ \A z : z # p => HeldBy(rec, z) = "idle"
      /\ HeldBy(rec, p) = IF m.resolvable THEN label ELSE "idle"
  <2>1. "error" \in Replies
    BY DEF Replies
  <2>2. CASE m.resolvable
    BY <1>5, <1>6, <2>2
  <2>3. CASE ~m.resolvable
    BY <2>1, <2>3, RestingFacts
  <2> QED BY <2>2, <2>3
<1> HIDE DEF rec
<1>8. Orderly(req')
  <2> HIDE DEF expired
  <2> QED BY <1>1, <1>7, BecomesFacts DEF GatewayInv
<1>9. ASSUME p = Provider, g[Provider] = gate[Provider]
      PROVE  Gate!Attempt(r) \/ Gate!Strand(r)
  <2>1. /\ b = gate[Provider] /\ Gate!Grants(b) /\ gate'[Provider] = Gate!OnGrant(b)
    BY <1>1, <1>2, <1>9, SameBreakers
  <2>2. HeldAt(Provider)[r] = "idle"
    BY <1>9, HeldAtIs DEF p
  <2> DEFINE h == [Gate!AfterGrant(r) EXCEPT ![r] = HeldBy(rec, Provider)]
  <2>3. /\ h = [d \in Requests |-> h[d]] /\ h[r] = HeldBy(rec, Provider)
        /\ \A d \in Requests \ {r} :
              h[d] = IF HeldAt(Provider)[d] = "probe" /\ b.lease = 0 THEN "expired"
                     ELSE HeldAt(Provider)[d]
    BY <1>9, <2>1 DEF Gate!AfterGrant
  <2> HIDE DEF h, b
  <2>4. p \in expired <=> b.lease = 0
    OBVIOUS
  <2> HIDE DEF expired
  <2>5. p \notin robbed
    BY DEF p
  <2>6. \A d \in Requests : HeldBy(req'[d], Provider) = h[d]
    <3>1. req'[r] = rec
      BY <1>1, <1>7, BecomesFacts DEF GatewayInv
    <3>2. \A d \in Requests \ {r} : HeldBy(req'[d], Provider) =
             IF HeldBy(req[d], Provider) = "probe" /\ b.lease = 0 THEN "expired"
             ELSE HeldBy(req[d], Provider)
      BY <1>1, <1>7, <1>9, <2>4, <2>5, BecomesFacts DEF GatewayInv
    <3> QED BY <2>3, <3>1, <3>2, HeldAtIs
  <2>7. HeldAt(Provider)' = h
    BY <2>3, <2>6, HeldAtNext
  <2>8. CASE m.resolvable
    <3>1. HeldBy(rec, Provider) = label
      BY <1>7, <1>9, <2>8
    <3>2. Gate!AfterGrant(r)[r] = label /\ Gate!AfterGrant(r) = [d \in Requests |-> Gate!AfterGrant(r)[d]]
      BY <2>1 DEF Gate!AfterGrant, label
    <3>3. h = Gate!AfterGrant(r)
      BY <3>1, <3>2 DEF h
    <3> QED BY <2>1, <2>2, <2>7, <3>3 DEF Gate!Attempt
  <2>9. CASE ~m.resolvable
    <3>1. h = [Gate!AfterGrant(r) EXCEPT ![r] = "idle"]
      BY <1>7, <1>9, <2>9 DEF h
    <3> QED BY <2>1, <2>2, <2>7, <3>1 DEF Gate!Strand
  <2> QED BY <2>8, <2>9
<1>10. ASSUME p # Provider, Provider \in Providers
       PROVE  gate'[Provider] = g[Provider]
  BY <1>1, <1>2, <1>10
<1>11. p # Provider => Provider \notin expired
  OBVIOUS
<1> HIDE DEF expired
<1>12. ASSUME p # Provider, Provider \in robbed
       PROVE  HeldAt(Provider)' = Gate!AfterReport(r, "idle")
  <2>1. HeldAt(Provider)' = Gate!AfterReport(r, HeldBy(rec, Provider))
    BY <1>1, <1>7, <1>11, <1>12, ReportAt DEF GatewayInv
  <2> QED BY <1>7, <1>12, <2>1
<1>13. ASSUME p # Provider, Provider \notin robbed, HeldBy(req[r], Provider) = "idle"
       PROVE  HeldAt(Provider)' = HeldAt(Provider)
  BY <1>1, <1>7, <1>11, <1>13, ElsewhereKept DEF GatewayInv
<1> QED BY <1>3, <1>8, <1>9, <1>10, <1>12, <1>13 DEF p

-----------------------------------------------------------------------------
(* The routes of the solver, which the affinity entries come from. *)

LEMMA MatchTyped ==
    ASSUME NEW v, NEW access, NEW healthy, NEW route \in Match(Catalog, v, access, healthy)
    PROVE  route \in Routes
<1> DEFINE S == Eligible(Catalog, "subscription", v, access, healthy)
           M == Eligible(Catalog, "metered", v, access, healthy)
<1>1. S \subseteq Catalog /\ M \subseteq Catalog
  BY DEF Eligible
<1>2. PICK p \in Primaries(S, M, v) :
         route \in {Route(p, f, "match") : f \in Fallbacks(p, M, v)}
  BY DEF Match
<1>3. PICK f \in Fallbacks(p, M, v) : route = Route(p, f, "match")
  BY <1>2
<1> HIDE DEF S, M
<1>4. p \in Catalog
  <2>1. CASE S = {} \/ M = {}
    BY <1>1, <1>2, <2>1 DEF Primaries, Best
  <2>2. CASE S # {} /\ M # {}
    <3>1. p \in {IF Overrides(m, s, v) THEN m ELSE s : s \in Best(S, v), m \in Best(M, v)}
      BY <1>2, <2>2 DEF Primaries
    <3> QED BY <1>1, <3>1 DEF Best
  <2> QED BY <2>1, <2>2
<1>5. f \in Catalog
  <2>1. \A T \in SUBSET M : Best(T, v) \subseteq M
    BY DEF Best
  <2>2. Fallbacks(p, M, v) \subseteq M \cup {p}
    BY <2>1 DEF Fallbacks
  <2> QED BY <1>1, <1>3, <1>4, <2>2
<1> QED BY <1>3, <1>4, <1>5 DEF Route, Routes

LEMMA ArbitrateTyped ==
    ASSUME NEW want, NEW v, NEW access, NEW entry \in Routes \cup {NoRoute}, NEW healthy,
           NEW route \in Arbitrate(Catalog, want, v, access, entry, healthy)
    PROVE  route \in Routes
<1>1. \/ route \in Explicit(Catalog, want)
      \/ Latches(Catalog, v, entry, healthy) /\ route = [entry EXCEPT !.why = "latch"]
      \/ route \in Match(Catalog, v, access, healthy)
      \/ route \in Emergency(Catalog, v, healthy)
  <2>1. CASE want # "auto"
    <3>1. Arbitrate(Catalog, want, v, access, entry, healthy) = Explicit(Catalog, want)
      BY <2>1 DEF Arbitrate
    <3> QED BY <3>1
  <2>2. CASE want = "auto" /\ Latches(Catalog, v, entry, healthy)
    <3>1. Arbitrate(Catalog, want, v, access, entry, healthy) = {[entry EXCEPT !.why = "latch"]}
      BY <2>2 DEF Arbitrate
    <3> QED BY <2>2, <3>1
  <2>3. CASE want = "auto" /\ ~Latches(Catalog, v, entry, healthy)
    <3>1. Arbitrate(Catalog, want, v, access, entry, healthy) =
             IF Match(Catalog, v, access, healthy) # {} THEN Match(Catalog, v, access, healthy)
             ELSE Emergency(Catalog, v, healthy)
      BY <2>3 DEF Arbitrate
    <3> QED BY <3>1
  <2> QED BY <2>1, <2>2, <2>3
<1>2. CASE route \in Explicit(Catalog, want)
  BY <1>2 DEF Explicit, Route, Routes
<1>3. CASE Latches(Catalog, v, entry, healthy) /\ route = [entry EXCEPT !.why = "latch"]
  <2>1. entry \in Routes
    BY <1>3 DEF Latches
  <2>2. route = [primary |-> entry.primary, fallback |-> entry.fallback, why |-> "latch"]
    BY <1>3, <2>1 DEF Routes
  <2> QED BY <2>1, <2>2 DEF Routes
<1>4. CASE route \in Match(Catalog, v, access, healthy)
  BY <1>4, MatchTyped
<1>5. CASE route \in Emergency(Catalog, v, healthy)
  BY <1>5 DEF Emergency, Route, Routes
<1> QED BY <1>1, <1>2, <1>3, <1>4, <1>5

-----------------------------------------------------------------------------
(* One step of the gateway. *)

\* The invariant holds again, and the provider's breaker took a step or none.
Steps == GatewayInv' /\ (Provider \in Providers => [Gate!Next]_(Gate!vars))

LEMMA StepsFrom ==
    ASSUME Sound(gate'), Orderly(req'), affinity' \in [Sessions -> Routes \cup {NoRoute}],
           Provider \in Providers =>
              \/ \E c \in Requests :
                    \/ Gate!Attempt(c) \/ Gate!Strand(c) \/ Gate!Succeed(c) \/ Gate!Fail(c)
                    \/ Gate!Refuse(c) \/ Gate!Vanish(c) \/ Gate!StreamStarts(c)
                    \/ Gate!FirstChunkTimeout(c)
              \/ UNCHANGED <<gate[Provider], HeldAt(Provider)>>
    PROVE  Steps
<1>1. GatewayInv'
  BY DEF GatewayInv, TypeOK, Sound, Orderly, Handlers
<1>2. Provider \in Providers => [Gate!Next]_(Gate!vars)
  BY DEF Gate!Next, Gate!vars
<1> QED BY <1>1, <1>2 DEF Steps

LEMMA BeginSteps ==
    ASSUME GatewayInv, NEW r \in Requests, NEW ask \in Asks, Begin(r, ask)
    PROVE  Steps
<1>1. /\ Orderly(req) /\ Sound(gate) /\ affinity \in [Sessions -> Routes \cup {NoRoute}]
      /\ ask.session \in Sessions
  BY DEF GatewayInv, TypeOK, Sessions
<1>2. \A p : HeldBy(req[r], p) = "idle"
  BY DEF Begin, HeldBy
<1>3. HeldAt(Provider)[r] = "idle" /\ [HeldAt(Provider) EXCEPT ![r] = "idle"] = HeldAt(Provider)
  BY <1>2, HeldAtIs DEF HeldAt
<1> DEFINE routes == Arbitrate(Catalog, ask.want, ask.v, "http_gateway",
                               affinity[ask.session], Healthy)
<1>4. \A route \in routes : route \in Routes
  BY <1>1, ArbitrateTyped
<1>5. ASSUME NEW reply \in {"shed", "error"}, req' = [req EXCEPT ![r] = Resting(reply)],
             UNCHANGED gate, affinity' \in [Sessions -> Routes \cup {NoRoute}]
      PROVE  Steps
  <2>1. reply \in Replies
    BY DEF Replies
  <2>2. /\ Sound(gate') /\ Orderly(req') /\ gate'[Provider] = gate[Provider]
        /\ HeldAt(Provider)' = [HeldAt(Provider) EXCEPT ![r] = "idle"]
    BY <1>5, <2>1, UnreportedFacts
  <2> QED BY <1>3, <1>5, <2>2, StepsFrom
<1>6. ASSUME NEW mode \in Modes, NEW m \in Catalog, NEW spare \in Catalog \cup {NoModel},
             spare # NoModel => spare.provider # m.provider,
             Launch(r, mode, m, spare, gate, {}),
             affinity' \in [Sessions -> Routes \cup {NoRoute}]
      PROVE  Steps
  <2>1. m.provider \notin {} /\ HeldBy(req[r], m.provider) = "idle" /\ Sound(gate)
    BY <1>1, <1>2
  <2>2. /\ Sound(gate') /\ Orderly(req')
        /\ m.provider = Provider => Gate!Attempt(r) \/ Gate!Strand(r)
        /\ m.provider # Provider /\ Provider \in Providers => gate'[Provider] = gate[Provider]
        /\ m.provider # Provider => HeldAt(Provider)' = HeldAt(Provider)
    BY <1>2, <1>6, <2>1, LaunchFacts
  <2> QED BY <1>6, <2>2, StepsFrom
<1>7. CASE routes = {}
  <2> DEFINE reply == IF ask.want = "auto" THEN "shed" ELSE "error"
  <2>1. reply \in {"shed", "error"}
    OBVIOUS
  <2>2. req' = [req EXCEPT ![r] = Resting(reply)] /\ UNCHANGED <<gate, affinity>>
    BY <1>7 DEF Begin
  <2> HIDE DEF reply
  <2> QED BY <1>1, <1>5, <2>1, <2>2
<1>8. CASE routes # {}
  <2>1. PICK route \in routes, mode \in Modes :
           /\ affinity' = [affinity EXCEPT ![ask.session] = Remembered(@, route)]
           /\ \/ Launch(r, mode, route.primary, SpareOf(route), gate, {})
              \/ /\ SpareOf(route) # NoModel
                 /\ Launch(r, mode, SpareOf(route), NoModel, gate, {})
              \/ req' = [req EXCEPT ![r] = Resting("shed")] /\ UNCHANGED gate
    BY <1>8 DEF Begin
  <2> HIDE DEF routes
  <2>2. route \in Routes /\ route.primary \in Catalog /\ route.fallback \in Catalog
    BY <1>4 DEF Routes
  <2>3. /\ SpareOf(route) \in Catalog \cup {NoModel}
        /\ SpareOf(route) # NoModel => /\ SpareOf(route) \in Catalog
                                       /\ SpareOf(route).provider # route.primary.provider
    BY <2>2 DEF SpareOf
  <2>4. affinity' \in [Sessions -> Routes \cup {NoRoute}]
    BY <1>1, <2>1, <2>2 DEF Remembered
  <2> QED BY <1>5, <1>6, <2>1, <2>2, <2>3, <2>4
<1> QED BY <1>7, <1>8

\* What is known of a handler that waits.
LEMMA TargetFacts ==
    ASSUME GatewayInv, NEW r \in Requests, req[r].pc # "idle"
    PROVE  /\ req[r] \in Waiting /\ req[r].target.provider \in Providers
           /\ Target(r) \in Breakers /\ Gate!Consistent(Target(r))
           /\ req[r].target.provider = Provider =>
                 /\ Target(r) = gate[Provider] /\ HeldAt(Provider)[r] = req[r].held
                 /\ req[r].pc = "calling" => Gate!InFlight(r)
                 /\ req[r].pc = "opening" => HeldAt(Provider)[r] = "opened"
           /\ req[r].target.provider # Provider =>
                 [HeldAt(Provider) EXCEPT ![r] = "idle"] = HeldAt(Provider)
<1>1. req[r] \in Handlers /\ Coherent(req[r])
  BY DEF GatewayInv, Orderly
<1>2. /\ req[r] \in Waiting /\ req[r].target.provider \in Providers /\ req[r].held \in Labels
      /\ Target(r) \in Breakers /\ Gate!Consistent(Target(r))
  BY <1>1, BusyFacts DEF GatewayInv, Sound, Target
<1>3. ASSUME req[r].target.provider = Provider
      PROVE  /\ Target(r) = gate[Provider] /\ HeldAt(Provider)[r] = req[r].held
             /\ req[r].pc = "calling" => Gate!InFlight(r)
             /\ req[r].pc = "opening" => HeldAt(Provider)[r] = "opened"
  <2>1. HeldAt(Provider)[r] = req[r].held
    BY <1>3, HeldAtIs DEF HeldBy
  <2>2. req[r].pc = "calling" => req[r].held \in {"pass", "probe", "expired", "robbed"}
    BY <1>1, <1>2 DEF Coherent, Labels
  <2>3. req[r].pc = "opening" => req[r].held = "opened"
    BY <1>1 DEF Coherent
  <2> QED BY <1>3, <2>1, <2>2, <2>3 DEF Target, Gate!InFlight
<1>4. ASSUME req[r].target.provider # Provider
      PROVE  [HeldAt(Provider) EXCEPT ![r] = "idle"] = HeldAt(Provider)
  BY <1>4, HeldAtIs DEF HeldAt, HeldBy, At
<1> QED BY <1>2, <1>3, <1>4

\* A report of r that ends its request: the breaker it leaves, and the step it
\* is where it is about the provider.
LEMMA FinishSteps ==
    ASSUME GatewayInv, NEW r \in Requests, req[r].pc # "idle", UNCHANGED affinity,
           NEW b \in Breakers, Gate!Consistent(b), NEW reply \in Replies, Finish(r, b, reply),
           /\ req[r].target.provider = Provider
           /\ gate'[Provider] = b
           /\ HeldAt(Provider)' = Gate!AfterReport(r, "idle")
           => Gate!Succeed(r) \/ Gate!Fail(r) \/ Gate!Refuse(r) \/ Gate!FirstChunkTimeout(r)
    PROVE  Steps
<1>1. /\ Sound(gate') /\ Orderly(req')
      /\ req[r].target.provider = Provider =>
            gate'[Provider] = b /\ HeldAt(Provider)' = Gate!AfterReport(r, "idle")
      /\ Provider \in Providers /\ req[r].target.provider # Provider =>
            UNCHANGED <<gate[Provider], HeldAt(Provider)>>
  BY FinishFacts
<1>2. affinity' \in [Sessions -> Routes \cup {NoRoute}]
  BY DEF GatewayInv, TypeOK
<1> QED BY <1>1, <1>2, StepsFrom

\* FinishFailed: a failure that r reports, which may raise after it was counted.
LEMMA FailedSteps ==
    ASSUME GatewayInv, NEW r \in Requests, req[r].pc # "idle", UNCHANGED affinity,
           NEW retry \in RetryAfters \cup {0}, NEW jitter \in 0..Jitter,
           FinishFailed(r, retry, jitter),
           /\ req[r].target.provider = Provider
           /\ gate'[Provider] = Gate!OnFailure(gate[Provider], retry, jitter)
           /\ HeldAt(Provider)' = IF Gate!FailureRaises(gate[Provider], retry)
                                    THEN [HeldAt(Provider) EXCEPT ![r] = "idle"]
                                    ELSE Gate!AfterReport(r, "idle")
           => Gate!Fail(r) \/ Gate!FirstChunkTimeout(r)
    PROVE  Steps
<1> DEFINE b == OnFailure(Target(r), retry, jitter)
           p == req[r].target.provider
<1>1. /\ Target(r) \in Breakers /\ Gate!Consistent(Target(r)) /\ p \in Providers
      /\ p = Provider => Target(r) = gate[Provider]
      /\ p # Provider => [HeldAt(Provider) EXCEPT ![r] = "idle"] = HeldAt(Provider)
  BY TargetFacts
<1>2. b \in Breakers /\ Gate!Consistent(b) /\ "error" \in Replies
  BY <1>1, MethodFacts DEF Replies
<1>3. /\ b = Gate!OnFailure(Target(r), retry, jitter)
      /\ Gate!FailureRaises(Target(r), retry) <=> FailureRaises(Target(r), retry)
  BY <1>1, SameFailure
<1>4. CASE FailureRaises(Target(r), retry)
  <2>1. gate' = [gate EXCEPT ![p] = b] /\ req' = [req EXCEPT ![r] = Resting("error")]
    BY <1>4 DEF FinishFailed
  <2> HIDE DEF b, p
  <2>2. /\ Sound(gate) /\ Orderly(req) /\ gate \in [Providers -> Breakers]
        /\ affinity' \in [Sessions -> Routes \cup {NoRoute}]
    BY DEF GatewayInv, Sound, TypeOK
  <2>3. Sound(gate')
    BY <1>1, <1>2, <2>1, <2>2, SoundKept
  <2>4. Orderly(req')
    BY <1>2, <2>1, <2>2, RestsFacts
  <2> DEFINE h == [HeldAt(Provider) EXCEPT ![r] = "idle"]
  <2>5. HeldAt(Provider)' = h
    <3>1. /\ h = [d \in Requests |-> h[d]] /\ h[r] = "idle"
          /\ \A d \in Requests \ {r} : h[d] = HeldAt(Provider)[d]
      BY DEF HeldAt
    <3> HIDE DEF h
    <3>2. \A d \in Requests : HeldBy(req'[d], Provider) = h[d]
      BY <1>2, <2>1, <2>2, <3>1, HeldAtIs, RestsFacts
    <3> QED BY <3>1, <3>2, HeldAtNext
  <2>6. CASE p = Provider
    <3>1. gate'[Provider] = b
      BY <1>1, <2>1, <2>2, <2>6
    <3>2. Gate!Fail(r) \/ Gate!FirstChunkTimeout(r)
      BY <1>1, <1>3, <1>4, <2>5, <2>6, <3>1 DEF p
    <3> QED BY <2>2, <2>3, <2>4, <3>2, StepsFrom
  <2>7. CASE p # Provider
    <3>1. Provider \in Providers => UNCHANGED <<gate[Provider], HeldAt(Provider)>>
      BY <1>1, <2>1, <2>2, <2>5, <2>7
    <3> QED BY <2>2, <2>3, <2>4, <3>1, StepsFrom
  <2> QED BY <2>6, <2>7
<1>5. CASE ~FailureRaises(Target(r), retry)
  <2>1. Finish(r, b, "error")
    BY <1>5 DEF FinishFailed
  <2>2. ASSUME p = Provider, gate'[Provider] = b,
               HeldAt(Provider)' = Gate!AfterReport(r, "idle")
        PROVE  Gate!Fail(r) \/ Gate!FirstChunkTimeout(r)
    BY <1>1, <1>3, <1>5, <2>2
  <2> HIDE DEF b
  <2> QED BY <1>2, <2>1, <2>2, FinishSteps
<1> QED BY <1>4, <1>5

\* A failure that r reports while its call is in flight.
LEMMA FailSteps ==
    ASSUME GatewayInv, NEW r \in Requests, req[r].pc = "calling", UNCHANGED affinity,
           NEW retry \in RetryAfters \cup {0}, NEW jitter \in 0..Jitter,
           FinishFailed(r, retry, jitter)
    PROVE  Steps
<1>1. req[r].target.provider = Provider => Gate!InFlight(r)
  BY TargetFacts
<1>2. ASSUME req[r].target.provider = Provider,
             gate'[Provider] = Gate!OnFailure(gate[Provider], retry, jitter),
             HeldAt(Provider)' = IF Gate!FailureRaises(gate[Provider], retry)
                                   THEN [HeldAt(Provider) EXCEPT ![r] = "idle"]
                                   ELSE Gate!AfterReport(r, "idle")
      PROVE  Gate!Fail(r)
  BY <1>1, <1>2 DEF Gate!Fail
<1> QED BY <1>2, FailedSteps

\* A handler that rests without a report.
LEMMA UnreportedSteps ==
    ASSUME GatewayInv, NEW r \in Requests, req[r].pc # "idle", UNCHANGED affinity,
           NEW reply \in Replies, FinishUnreported(r, reply),
           req[r].target.provider = Provider /\ UNCHANGED gate[Provider]
           /\ HeldAt(Provider)' = [HeldAt(Provider) EXCEPT ![r] = "idle"]
           => Gate!Vanish(r) \/ Gate!StreamStarts(r)
    PROVE  Steps
<1>1. /\ Sound(gate') /\ Orderly(req') /\ gate'[Provider] = gate[Provider]
      /\ HeldAt(Provider)' = [HeldAt(Provider) EXCEPT ![r] = "idle"]
  BY UnreportedFacts DEF FinishUnreported
<1>2. affinity' \in [Sessions -> Routes \cup {NoRoute}]
  BY DEF GatewayInv, TypeOK
<1>3. CASE req[r].target.provider = Provider
  BY <1>1, <1>2, <1>3, StepsFrom
<1>4. CASE req[r].target.provider # Provider
  <2>1. [HeldAt(Provider) EXCEPT ![r] = "idle"] = HeldAt(Provider)
    BY <1>4, TargetFacts
  <2> QED BY <1>1, <1>2, <2>1, StepsFrom
<1> QED BY <1>3, <1>4

LEMMA AnswersOkSteps ==
    ASSUME GatewayInv, NEW r \in Requests, AnswersOk(r)
    PROVE  Steps
<1>1. req[r].pc = "calling" /\ req[r].pc # "idle" /\ UNCHANGED affinity
  BY DEF AnswersOk, Calling
<1> DEFINE b == OnSuccess(Target(r))
           p == req[r].target.provider
<1>2. /\ req[r] \in Waiting /\ p \in Providers
      /\ Target(r) \in Breakers /\ Gate!Consistent(Target(r))
  BY <1>1, TargetFacts
<1>3. b \in Breakers /\ Gate!Consistent(b)
  BY <1>2, MethodFacts
<1>4. p = Provider =>
         Target(r) = gate[Provider] /\ Gate!InFlight(r) /\ b = Gate!OnSuccess(gate[Provider])
  <2>1. p = Provider => Target(r) = gate[Provider] /\ Gate!InFlight(r)
    BY <1>1, TargetFacts
  <2> QED BY <1>2, <2>1, SameBreakers
<1>5. CASE req[r].mode = "stream"
  <2> DEFINE rec == [pc |-> "opening", mode |-> "stream", target |-> req[r].target,
                     spare |-> NoModel, held |-> "opened"]
  <2>1. rec \in Handlers /\ Coherent(rec)
    BY <1>2, <1>5 DEF Handlers, Waiting, Labels, Coherent
  <2>2. \A z : HeldBy(rec, z) = IF p = z THEN "opened" ELSE "idle"
    BY DEF HeldBy
  <2>4. gate' = [gate EXCEPT ![p] = b] /\ req' = Becomes(r, rec, {p}, {})
    BY <1>5 DEF AnswersOk
  <2> HIDE DEF rec, b, p
  <2>5. Sound(gate) /\ Orderly(req) /\ gate \in [Providers -> Breakers]
        /\ affinity' \in [Sessions -> Routes \cup {NoRoute}]
    BY <1>1 DEF GatewayInv, TypeOK
  <2>6. Sound(gate')
    BY <1>2, <1>3, <2>4, <2>5, SoundKept
  <2>7. Orderly(req')
    BY <2>1, <2>4, <2>5, BecomesFacts
  <2>8. CASE p = Provider
    <3>1. HeldAt(Provider)' = Gate!AfterReport(r, HeldBy(rec, Provider))
      BY <2>1, <2>4, <2>5, <2>8, ReportAt
    <3>2. HeldBy(rec, Provider) = "opened"
      BY <2>2, <2>8
    <3>3. gate'[Provider] = Gate!OnSuccess(gate[Provider])
      BY <1>2, <1>4, <2>4, <2>5, <2>8
    <3>4. Gate!Succeed(r)
      BY <1>4, <2>8, <3>1, <3>2, <3>3 DEF Gate!Succeed
    <3> QED BY <2>5, <2>6, <2>7, <3>4, StepsFrom
  <2>9. CASE p # Provider
    <3>1. HeldBy(req[r], Provider) = "idle" /\ HeldBy(rec, Provider) = "idle"
      BY <2>2, <2>9 DEF HeldBy, p
    <3>2. HeldAt(Provider)' = HeldAt(Provider)
      BY <2>1, <2>4, <2>5, <2>9, <3>1, ElsewhereKept
    <3>3. Provider \in Providers => gate'[Provider] = gate[Provider]
      BY <1>2, <2>4, <2>5, <2>9
    <3> QED BY <2>5, <2>6, <2>7, <3>2, <3>3, StepsFrom
  <2> QED BY <2>8, <2>9
<1>6. CASE req[r].mode # "stream"
  <2>1. Finish(r, b, "ok") /\ "ok" \in Replies
    BY <1>6 DEF AnswersOk, Replies
  <2>2. ASSUME p = Provider, gate'[Provider] = b,
               HeldAt(Provider)' = Gate!AfterReport(r, "idle")
        PROVE  Gate!Succeed(r)
    BY <1>4, <2>2 DEF Gate!Succeed
  <2> HIDE DEF b
  <2> QED BY <1>1, <1>3, <2>1, <2>2, FinishSteps
<1> QED BY <1>5, <1>6

LEMMA AnswersBusySteps ==
    ASSUME GatewayInv, NEW r \in Requests, AnswersBusy(r)
    PROVE  Steps
<1>1. req[r].pc = "calling" /\ req[r].pc # "idle" /\ UNCHANGED affinity
  BY DEF AnswersBusy, Calling
<1> DEFINE p == req[r].target.provider
           s == req[r].spare
<1>2. PICK retry \in RetryAfters \cup {0}, jitter \in 0..Jitter :
         \/ FinishFailed(r, retry, jitter)
         \/ /\ ~FailureRaises(Target(r), retry) /\ s # NoModel
            /\ Launch(r, req[r].mode, s, NoModel,
                      [gate EXCEPT ![p] = OnFailure(Target(r), retry, jitter)], {p})
  <2>1. 0 \in RetryAfters \cup {0}
    OBVIOUS
  <2> QED BY <2>1 DEF AnswersBusy, Target
<1>3. CASE FinishFailed(r, retry, jitter)
  BY <1>1, <1>3, FailSteps
<1>4. CASE /\ ~FailureRaises(Target(r), retry) /\ s # NoModel
           /\ Launch(r, req[r].mode, s, NoModel,
                     [gate EXCEPT ![p] = OnFailure(Target(r), retry, jitter)], {p})
  <2> DEFINE b == OnFailure(Target(r), retry, jitter)
             g == [gate EXCEPT ![p] = b]
  <2>1. /\ req[r] \in Waiting /\ req[r].mode \in Modes /\ p \in Providers
        /\ Target(r) \in Breakers /\ Gate!Consistent(Target(r))
    BY <1>1, TargetFacts DEF Waiting
  <2>2. Coherent(req[r]) /\ Sound(gate) /\ gate \in [Providers -> Breakers]
        /\ affinity' \in [Sessions -> Routes \cup {NoRoute}]
    BY <1>1 DEF GatewayInv, Orderly, TypeOK
  <2>3. s \in Catalog /\ s.provider # p
    BY <1>1, <1>4, <2>1, <2>2 DEF Coherent, Waiting
  <2>4. b \in Breakers /\ Gate!Consistent(b)
    BY <1>2, <2>1, MethodFacts
  <2> HIDE DEF b
  <2>5. /\ Sound(g) /\ g[p] = b
        /\ \A z \in Providers : z # p => g[z] = gate[z]
    BY <2>1, <2>2, <2>4, SoundKept
  <2>6. /\ HeldBy(req[r], s.provider) = "idle" /\ s.provider \notin {p}
        /\ p # Provider => HeldBy(req[r], Provider) = "idle"
    BY <2>3 DEF HeldBy
  <2>7. Launch(r, req[r].mode, s, NoModel, g, {p})
    BY <1>4 DEF b
  <2> HIDE DEF g, s
  <2>8. /\ Sound(gate') /\ Orderly(req')
        /\ s.provider = Provider /\ g[Provider] = gate[Provider] =>
              Gate!Attempt(r) \/ Gate!Strand(r)
        /\ s.provider # Provider /\ Provider \in Providers => gate'[Provider] = g[Provider]
        /\ s.provider # Provider /\ Provider \in {p} =>
              HeldAt(Provider)' = Gate!AfterReport(r, "idle")
        /\ s.provider # Provider /\ Provider \notin {p} /\ HeldBy(req[r], Provider) = "idle" =>
              HeldAt(Provider)' = HeldAt(Provider)
    BY <2>1, <2>3, <2>5, <2>6, <2>7, LaunchFacts
  <2>9. CASE p = Provider
    <3>1. Gate!InFlight(r) /\ Target(r) = gate[Provider]
      BY <1>1, <2>9, TargetFacts
    <3>2. gate'[Provider] = b /\ HeldAt(Provider)' = Gate!AfterReport(r, "idle")
      BY <2>1, <2>3, <2>5, <2>8, <2>9
    <3>3. b = Gate!OnFailure(gate[Provider], retry, jitter)
      BY <2>1, <3>1, SameFailure DEF b
    <3>4. ~Gate!FailureRaises(gate[Provider], retry)
      BY <1>4, <2>1, <3>1, SameFailure
    <3>5. Gate!Fail(r)
      BY <3>1, <3>2, <3>3, <3>4 DEF Gate!Fail
    <3> QED BY <2>2, <2>8, <3>5, StepsFrom
  <2>10. CASE p # Provider
    <3>1. /\ Provider \in Providers => g[Provider] = gate[Provider]
          /\ Provider \notin {p}
      BY <2>5, <2>10
    <3>2. CASE s.provider = Provider
      BY <2>2, <2>8, <3>1, <3>2, StepsFrom
    <3>3. CASE s.provider # Provider
      <4>1. Provider \in Providers => UNCHANGED <<gate[Provider], HeldAt(Provider)>>
        BY <2>6, <2>8, <2>10, <3>1, <3>3
      <4> QED BY <2>2, <2>8, <4>1, StepsFrom
    <3> QED BY <3>2, <3>3
  <2> QED BY <2>9, <2>10
<1> QED BY <1>2, <1>3, <1>4

LEMMA AnswersErrorSteps ==
    ASSUME GatewayInv, NEW r \in Requests, AnswersError(r)
    PROVE  Steps
<1>1. req[r].pc = "calling" /\ UNCHANGED affinity /\ 0 \in RetryAfters \cup {0}
  BY DEF AnswersError, Calling
<1>2. PICK jitter \in 0..Jitter : FinishFailed(r, 0, jitter)
  BY DEF AnswersError
<1> QED BY <1>1, <1>2, FailSteps

LEMMA AnswersRefusalSteps ==
    ASSUME GatewayInv, NEW r \in Requests, AnswersRefusal(r)
    PROVE  Steps
<1>1. /\ req[r].pc = "calling" /\ req[r].pc # "idle" /\ UNCHANGED affinity
      /\ "error" \in Replies
  BY DEF AnswersRefusal, Calling, Replies
<1> DEFINE b == OnRelease(Target(r))
<1>2. Finish(r, b, "error")
  BY DEF AnswersRefusal
<1>3. Target(r) \in Breakers /\ Gate!Consistent(Target(r))
  BY <1>1, TargetFacts
<1>4. b \in Breakers /\ Gate!Consistent(b)
  BY <1>3, MethodFacts
<1>5. ASSUME req[r].target.provider = Provider, gate'[Provider] = b,
             HeldAt(Provider)' = Gate!AfterReport(r, "idle")
      PROVE  Gate!Refuse(r)
  <2>1. Gate!InFlight(r) /\ Target(r) = gate[Provider]
    BY <1>1, <1>5, TargetFacts
  <2>2. b = Gate!OnRelease(gate[Provider])
    BY <1>3, <2>1, SameBreakers
  <2> QED BY <1>5, <2>1, <2>2 DEF Gate!Refuse
<1> HIDE DEF b
<1> QED BY <1>1, <1>2, <1>4, <1>5, FinishSteps

LEMMA CallRaisesSteps ==
    ASSUME GatewayInv, NEW r \in Requests, CallRaises(r)
    PROVE  Steps
<1>1. /\ req[r].pc = "calling" /\ req[r].pc # "idle" /\ UNCHANGED affinity
      /\ 0 \in RetryAfters \cup {0} /\ "error" \in Replies
  BY DEF CallRaises, Calling, Replies
<1>2. CASE req[r].mode = "post"
  <2>1. PICK jitter \in 0..Jitter : FinishFailed(r, 0, jitter)
    BY <1>2 DEF CallRaises
  <2> QED BY <1>1, <2>1, FailSteps
<1>3. CASE req[r].mode # "post"
  <2>1. FinishUnreported(r, "error")
    BY <1>3 DEF CallRaises
  <2>2. ASSUME req[r].target.provider = Provider, UNCHANGED gate[Provider],
               HeldAt(Provider)' = [HeldAt(Provider) EXCEPT ![r] = "idle"]
        PROVE  Gate!Vanish(r)
    <3>1. Gate!InFlight(r)
      BY <1>1, <2>2, TargetFacts
    <3> QED BY <2>2, <3>1 DEF Gate!Vanish
  <2> QED BY <1>1, <2>1, <2>2, UnreportedSteps
<1> QED BY <1>2, <1>3

LEMMA FirstChunkSteps ==
    ASSUME GatewayInv, NEW r \in Requests, FirstChunk(r) \/ FirstChunkRaises(r)
    PROVE  Steps
<1>1. req[r].pc = "opening" /\ req[r].pc # "idle" /\ UNCHANGED affinity
  BY DEF FirstChunk, FirstChunkRaises, Opening
<1>2. PICK reply \in Replies : FinishUnreported(r, reply)
  BY DEF FirstChunk, FirstChunkRaises, Replies
<1>3. ASSUME req[r].target.provider = Provider, UNCHANGED gate[Provider],
             HeldAt(Provider)' = [HeldAt(Provider) EXCEPT ![r] = "idle"]
      PROVE  Gate!StreamStarts(r)
  <2>1. HeldAt(Provider)[r] = "opened"
    BY <1>1, <1>3, TargetFacts
  <2> QED BY <1>3, <2>1 DEF Gate!StreamStarts
<1> QED BY <1>1, <1>2, <1>3, UnreportedSteps

LEMMA FirstChunkTimeoutSteps ==
    ASSUME GatewayInv, NEW r \in Requests, FirstChunkTimeout(r)
    PROVE  Steps
<1>1. /\ req[r].pc = "opening" /\ req[r].pc # "idle" /\ UNCHANGED affinity
      /\ 0 \in RetryAfters \cup {0}
  BY DEF FirstChunkTimeout, Opening
<1>2. PICK jitter \in 0..Jitter : FinishFailed(r, 0, jitter)
  BY DEF FirstChunkTimeout
<1>3. ASSUME req[r].target.provider = Provider,
             gate'[Provider] = Gate!OnFailure(gate[Provider], 0, jitter),
             HeldAt(Provider)' = IF Gate!FailureRaises(gate[Provider], 0)
                                   THEN [HeldAt(Provider) EXCEPT ![r] = "idle"]
                                   ELSE Gate!AfterReport(r, "idle")
      PROVE  Gate!FirstChunkTimeout(r)
  <2>1. HeldAt(Provider)[r] = "opened"
    BY <1>1, <1>3, TargetFacts
  <2> QED BY <1>3, <2>1 DEF Gate!FirstChunkTimeout
<1> QED BY <1>1, <1>2, <1>3, FailedSteps

\* The clock runs for every breaker, and stands still for a settled one.
LEMMA TickSteps ==
    ASSUME GatewayInv, Tick
    PROVE  Steps
<1> DEFINE b == gate[Provider]
<1>1. /\ gate' = [p \in Providers |-> Elapse(gate[p])]
      /\ req' = req /\ affinity' = affinity
  BY DEF Tick
<1>2. Sound(gate')
  <2>1. ASSUME NEW p \in Providers
        PROVE  Elapse(gate[p]) \in Breakers /\ Gate!Consistent(Elapse(gate[p]))
    BY <2>1, MethodFacts DEF GatewayInv, Sound
  <2> QED BY <1>1, <2>1 DEF Sound
<1>3. GatewayInv'
  BY <1>1, <1>2 DEF GatewayInv, TypeOK, Sound, Orderly, Handlers, Coherent
<1>4. HeldAt(Provider)' = HeldAt(Provider)
  BY <1>1 DEF HeldAt, At
<1> SUFFICES ASSUME Provider \in Providers PROVE Steps
  BY <1>3 DEF Steps
<1>5. b \in Breakers /\ gate'[Provider] = Elapse(b)
  BY <1>1 DEF GatewayInv, Sound
<1>6. CASE Settled(b)
  <2>1. Elapse(b) = b
    <3> HIDE DEF b
    <3>1. /\ Elapse(b).state = b.state /\ Elapse(b).failures = b.failures
          /\ Elapse(b).cooldown = b.cooldown /\ Elapse(b).slot = b.slot
          /\ Elapse(b).lease = b.lease
      BY <1>5, <1>6 DEF Elapse, Settled, Breakers
    <3>2. Elapse(b) \in Breakers
      BY <1>5, MethodFacts DEF GatewayInv, Sound, b
    <3>3. \A x, y \in Breakers :
             /\ x.state = y.state /\ x.failures = y.failures /\ x.cooldown = y.cooldown
             /\ x.slot = y.slot /\ x.lease = y.lease
             => x = y
      BY DEF Breakers
    <3> QED BY <1>5, <3>1, <3>2, <3>3
  <2> QED BY <1>3, <1>4, <1>5, <2>1 DEF Steps, Gate!vars
<1>7. CASE ~Settled(b)
  <2>1. ~Gate!Settled(b) /\ gate'[Provider] = Gate!Elapse(b)
    BY <1>5, <1>7, SameBreakers
  <2> QED BY <1>3, <1>4, <2>1 DEF Steps, Gate!Next, Gate!Tick
<1> QED BY <1>6, <1>7

LEMMA GatewaySteps ==
    ASSUME GatewayInv, [Next]_vars
    PROVE  Steps
<1>1. ASSUME NEW r \in Requests, Answered(r) PROVE Steps
  BY <1>1, AnswersOkSteps, AnswersBusySteps, AnswersErrorSteps, AnswersRefusalSteps,
     CallRaisesSteps, FirstChunkSteps, FirstChunkTimeoutSteps DEF Answered
<1>2. CASE UNCHANGED vars
  <2>1. UNCHANGED <<gate, req, affinity>>
    BY <1>2 DEF vars
  <2>2. GatewayInv'
    BY <2>1 DEF GatewayInv, TypeOK, Sound, Orderly, Handlers, Coherent
  <2>3. UNCHANGED <<gate[Provider], HeldAt(Provider)>>
    BY <2>1 DEF HeldAt, At
  <2> QED BY <2>2, <2>3 DEF Steps, Gate!vars
<1> QED BY <1>1, <1>2, BeginSteps, TickSteps DEF Next

LEMMA GatewayStarts ==
    ASSUME Init PROVE GatewayInv /\ (Provider \in Providers => Gate!Init)
<1>1. NewBreaker \in Breakers /\ Gate!Consistent(NewBreaker)
  BY Gate!NewBreakerFacts, BreakerAssumption, SameBreakers
<1>2. "none" \in Replies
  BY DEF Replies
<1>3. TypeOK /\ Sound(gate)
  BY <1>1, <1>2 DEF Init, TypeOK, Sound
<1>4. Orderly(req)
  BY <1>2, RestingFacts DEF Init, Orderly
<1>5. ASSUME Provider \in Providers PROVE Gate!Init
  <2>1. gate[Provider] = Gate!NewBreaker
    BY <1>5, SameBreakers DEF Init
  <2>2. HeldAt(Provider) = [c \in Requests |-> "idle"]
    BY DEF Init, HeldAt, At, Resting
  <2> QED BY <2>1, <2>2 DEF Gate!Init
<1> QED BY <1>3, <1>4, <1>5 DEF GatewayInv

LEMMA GatewayInvariant == Spec => []GatewayInv
<1>1. Init => GatewayInv
  BY GatewayStarts
<1>2. GatewayInv /\ [Next]_vars => GatewayInv'
  BY GatewaySteps DEF Steps
<1> QED BY <1>1, <1>2, PTL DEF Spec

-----------------------------------------------------------------------------
(* The theorems. *)

\* The registry of breakers, the affinity entries and the handlers stay well
\* typed: in particular an entry is always a route over the catalog.
THEOREM GatewayTypeCorrect == Spec => []TypeOK
<1>1. GatewayInv => TypeOK
  BY DEF GatewayInv
<1> QED BY <1>1, GatewayInvariant, PTL

\* The gateway implements Breaker for every provider it has: the handlers, with
\* their failovers and reports, use its breaker only as that module says.
THEOREM GateIsBreaker ==
    ASSUME Provider \in Providers PROVE Spec => Gate!Spec
<1>1. Init => Gate!Init
  BY GatewayStarts
<1>2. GatewayInv /\ [Next]_vars => [Gate!Next]_(Gate!vars)
  BY GatewaySteps DEF Steps
<1> QED BY <1>1, <1>2, GatewayInvariant, PTL DEF Spec, Gate!Spec

\* Hence, of every provider's breaker: one canary of record among all requests,
\* fields that agree, and cooldowns within the bound of record_failure.
THEOREM GateIsSafe ==
    ASSUME Provider \in Providers
    PROVE  Spec => [](Gate!OneCanaryOfRecord /\ Gate!BreakerConsistent /\ Gate!CooldownBounded)
<1>1. Spec => Gate!Spec
  BY GateIsBreaker
<1>2. Gate!Spec => []Gate!OneCanaryOfRecord
  BY Gate!OneCanary, BreakerAssumption
<1>3. Gate!Spec => []Gate!BreakerConsistent
  BY Gate!BreakerIsConsistent, BreakerAssumption
<1>4. Gate!Spec => []Gate!CooldownBounded
  BY Gate!CooldownIsBounded, BreakerAssumption
<1> QED BY <1>1, <1>2, <1>3, <1>4, PTL
=============================================================================
