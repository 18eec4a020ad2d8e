------------------------------ MODULE Routing ------------------------------
(***************************************************************************)
(* Sessions asking the solver for routes while breakers trip and recover   *)
(* and catalog refreshes re-rank the models underneath (solver.py, and the *)
(* catalog swap of ModelCatalog.upsert_models).  The affinity entries      *)
(* outlive both.  `last' keeps the latest decision with what it was made   *)
(* from: the properties read it, and replay_decision of decision_log.py    *)
(* runs it again.                                                          *)
(***************************************************************************)
EXTENDS Arbiter, FiniteSets

CONSTANTS
    Catalogs,    \* the catalogs refreshes may leave, each a set of models
    Sessions,
    Wants,       \* the models requests name: "auto" or an id
    Vectors,     \* capability vectors requests are classified to
    TierDepth    \* get_tier_threshold_profile(tier): the depth of a tier

VARIABLES
    models,      \* the catalog in memory
    healthy,     \* providers whose breaker is not OPEN
    affinity,    \* session_affinity
    last         \* the latest decision

vars == <<models, healthy, affinity, last>>

Providers == {m.provider : m \in UNION Catalogs}
Preview == "preview"    \* the session of /v1/route, which has none
Whys == {"explicit", "latch", "match", "emergency"}

Routes == [primary : UNION Catalogs, fallback : UNION Catalogs, why : Whys]

ASSUME RoutingAssumption ==
    /\ \A c \in Catalogs : IsFiniteSet(c)
    /\ \A m \in UNION Catalogs :
          /\ m.context \in Nat /\ m.depth \in Nat /\ m.fitness \in Int
          /\ m.billing \in {"subscription", "metered"}
    /\ \A v \in Vectors : v.tokens \in Nat /\ v.depth \in Nat /\ v.tier \in Nat
    /\ TierDepth \in [{v.tier : v \in Vectors} -> Nat]
    /\ {LatchAbove, OverrideThreshold, DomainThreshold, DomainBoost} \subseteq Int
    /\ NoRoute \notin Routes

TypeOK ==
    /\ models \in Catalogs
    /\ healthy \subseteq Providers
    /\ affinity \in [Sessions -> Routes \cup {NoRoute}]
    /\ last = NoRoute \/ last.route \in Routes \cup {NoRoute}

Init ==
    /\ models \in Catalogs
    /\ healthy = Providers
    /\ affinity = [s \in Sessions |-> NoRoute]
    /\ last = NoRoute

\* The affinity entry of a session; a preview has no session.
Entry(s) == IF s \in Sessions THEN affinity[s] ELSE NoRoute

Remember(s, route) ==
    affinity' = [t \in Sessions |-> IF t = s THEN Remembered(affinity[t], route)
                                            ELSE affinity[t]]

\* arbitrate(vector, session_id, requested_model, preferred_access_method):
\* chat completions ask for "http_gateway", delegations and previews for any
\* access method.
Select(s, want, v, access) ==
    LET routes == Arbitrate(models, want, v, access, Entry(s), healthy)
    IN  \E route \in IF routes = {} THEN {NoRoute} ELSE routes :
          /\ Remember(s, route)
          /\ last' = [route |-> route, session |-> s, want |-> want, v |-> v,
                      access |-> access, entry |-> Entry(s),
                      models |-> models, healthy |-> healthy]
          /\ UNCHANGED <<models, healthy>>

\* A breaker opens, or leaves OPEN.
Flip(p) ==
    /\ healthy' = IF p \in healthy THEN healthy \ {p} ELSE healthy \cup {p}
    /\ last' = NoRoute
    /\ UNCHANGED <<models, affinity>>

\* A refresh swaps the catalog for one with new and re-rated models, never with
\* fewer; entries of sessions stay as they were.
Refresh ==
    /\ \E c \in Catalogs \ {models} :
          /\ \A m \in models : \E n \in c : <<n.provider, n.id>> = <<m.provider, m.id>>
          /\ models' = c
    /\ UNCHANGED <<healthy, affinity, last>>

-----------------------------------------------------------------------------
(* replay_decision: the record is run again on the snapshot of its catalog *)
(* (which CatalogHistory is about), under the breakers and the affinity of *)
(* the present; the requested model and the access method are not logged.  *)

\* Mode B, from the prompt alone: of a conversation, here one with tools, the
\* other turns are not replayed.
ReplayVectors(v) ==
    IF v.tools
    THEN {[v EXCEPT !.tools = FALSE, !.tokens = w.tokens] :
            w \in {x \in Vectors : x.tokens <= v.tokens}}
    ELSE {v}

\* Mode A, from the logged fields: the depth is that of the logged tier, which a
\* memory-escalated request was not routed with, and the domain is not logged.
AuditVector(v) ==
    [v EXCEPT !.depth = TierDepth[v.tier], !.tools = FALSE, !.domain = NoDomain]

\* Fault: the catalog of the present is not swapped for the snapshot.
ReplayedUnswapped(v) ==
    Arbitrate(models, "auto", v, "any", Entry(last.session), healthy)

Replayed(v) ==
    Arbitrate(last.models, "auto", v, "any", Entry(last.session), healthy)

\* Previews and answered chat completions are logged, delegations are not.
Logged ==
    /\ last # NoRoute /\ last.route # NoRoute
    /\ last.session = Preview \/ last.access = "http_gateway"

\* The records of the latest decision: one of the route as planned and, if a chat
\* completion was answered after a failover or a refused gate by the fallback at
\* another provider, one of that, which supersedes it.
Records ==
    LET executed == {m \in {last.route.fallback} :
                        /\ last.session # Preview
                        /\ m.provider # last.route.primary.provider}
    IN  IF ~Logged
          THEN {}
          ELSE {[model |-> last.route.primary, supersedes |-> FALSE]} \cup
               {[model |-> m, supersedes |-> TRUE] : m \in executed}

\* The replayed route is remembered for the session like any other.
Replay ==
    /\ Logged
    /\ \E v \in ReplayVectors(last.v) \cup {AuditVector(last.v)} :
          \E route \in Replayed(v) : Remember(last.session, route)
    /\ last' = NoRoute
    /\ UNCHANGED <<models, healthy>>

Next ==
    \/ Refresh \/ Replay
    \/ \E p \in Providers : Flip(p)
    \/ \E want \in Wants, v \in Vectors :
          \/ Select(Preview, want, v, "any")
          \/ \E s \in Sessions, access \in {"http_gateway", "any"} :
                Select(s, want, v, access)

Spec == Init /\ [][Next]_vars

-----------------------------------------------------------------------------
(* Properties *)

Decided == last # NoRoute /\ last.want = "auto"
Routed  == Decided /\ last.route # NoRoute

\* arbitrate sheds load ("all candidate providers are circuit-open") only when
\* no healthy provider has a model with room for the context.
ShedsOnlyWhenNothingFits ==
    Decided /\ last.route = NoRoute =>
        \A m \in last.models :
            m.provider \in last.healthy => m.context < last.v.tokens

\* However old the session's entry is, a request for "auto" never goes first to
\* a provider whose breaker is OPEN.
PrimaryHealthy == Routed => last.route.primary.provider \in last.healthy

\* "Select distinct metered fallback when possible" (solver.py:290): a matched
\* route has its fallback at another provider if any could take the request.
FallbackDistinct ==
    Routed /\ last.route.why = "match"
        /\ last.route.fallback.provider = last.route.primary.provider =>
        \A m \in last.models :
            /\ Feasible(m, last.v, last.access)
            /\ m.provider \in last.healthy /\ m.billing = "metered"
            => m.provider = last.route.primary.provider

\* README.md:51 "Zero-Marginal-Cost Subscriptions First": a matched route pays
\* for a metered model only where every subscription that could take the request
\* scores worse by more than the threshold, and only from tier 2 upwards or for
\* the domain's specialist.
SubscriptionFirst ==
    Routed /\ last.route.why = "match" /\ last.route.primary.billing = "metered" =>
        LET paid == last.route.primary
        IN  \A s \in Eligible(last.models, "subscription", last.v, last.access,
                              last.healthy) :
              LET lead == Score(paid, last.v) - Score(s, last.v)
              IN  \/ last.v.tier >= 2 /\ lead > OverrideThreshold
                  \/ Specialist(paid, last.v) /\ lead > DomainThreshold

\* "hard feasibility gate", "meets capability depth" (solver.py:125, 202): by latch
\* or by match, no request is handed to a model that the catalog of that moment
\* rates below its depth, and the emergency route, which may be, is taken only if
\* no feasible model is at a healthy provider.
DeepEnoughUnlessEmergency ==
    Routed =>
        IF last.route.why = "emergency"
          THEN \A m \in last.models :
                  m.provider \in last.healthy => ~Feasible(m, last.v, last.access)
          ELSE \E m \in Known(last.models, last.route.primary) :
                  m.depth >= last.v.depth

\* "any past decision is reproducible" (decision_log.py:9): the record of a plan
\* made for `auto' from a single prompt is reached again under the same breakers,
\* whatever refreshes have done since and though its own route may be remembered
\* by now; except where a chat completion, whose access method is not in the
\* record, met a catalog in which a harness is the best of its billing.  A record
\* that supersedes the plan's is replayed to the plan.
ReplayReproduces ==
    Routed /\ ReplayVectors(last.v) = {last.v} /\ last.healthy = healthy =>
        \A record \in Records :
            \/ record.supersedes
            \/ \E r \in Replayed(last.v) :
                  <<r.primary.provider, r.primary.id>>
                      = <<record.model.provider, record.model.id>>
            \/ \E m \in last.models :
                  /\ last.access # "any" /\ m.access # last.access
                  /\ m \in Best(Eligible(last.models, m.billing, last.v, "any", healthy), last.v)
=============================================================================
