------------------------------ MODULE Arbiter ------------------------------
(***************************************************************************)
(* ArbitrationSolver.arbitrate as a pure function (solver.py): from the    *)
(* catalog, the request's capability vector, the session's affinity entry  *)
(* and the providers whose breaker is healthy to the set of routes it may  *)
(* return; the empty set when it raises.                                   *)
(*                                                                         *)
(* A model is a record; a model's fitness under the weights of the         *)
(* request's tier, less the cost penalty of a metered model, is one number *)
(* (hundredths), and its reasoning capability and architecture score are   *)
(* one depth, compared with the one the request needs.  Ties, which the    *)
(* code breaks by generation, capability and catalog order, may go either  *)
(* way.                                                                    *)
(***************************************************************************)
EXTENDS Integers

CONSTANTS
    LatchAbove,         \* 20_000 tokens, in thousands
    OverrideThreshold,  \* get_fitness_override_threshold(), in hundredths
    DomainThreshold,    \* get_domain_override_threshold()
    DomainBoost,        \* get_domain_boost(domain)
    Protected,          \* PROTECTED_DOMAINS
    NoDomain,           \* no domain detected
    NoRoute             \* nothing recorded, nothing returned

Route(primary, fallback, why) ==
    [primary |-> primary, fallback |-> fallback, why |-> why]

-----------------------------------------------------------------------------
(* Steps 1 and 2: an explicit model, and the KV-cache latch. *)

\* The breaker is not asked: an explicit model is returned as its own fallback.
\* A name no model has raises a ValueError, where the other empty results are
\* RuntimeErrors.
Explicit(models, want) ==
    {Route(m, m, "explicit") : m \in {n \in models : n.id = want}}

\* catalog.get, or else get_by_id: what the catalog says of a recorded model, or
\* of some other provider's model of that id.
Known(models, m) ==
    LET named == {n \in models : n.id = m.id}
        here  == {n \in named : n.provider = m.provider}
    IN  IF here # {} THEN here ELSE named

\* Fault: the latch survives the trip of its provider's breaker.
LatchesUnhealthy(models, v, entry, healthy) ==
    /\ v.tokens > LatchAbove
    /\ entry # NoRoute
    /\ \E m \in Known(models, entry.primary) : m.depth >= v.depth

\* Fault: the latch trusts the rating its model had when it was recorded.
LatchesStale(models, v, entry, healthy) ==
    /\ v.tokens > LatchAbove
    /\ entry # NoRoute
    /\ entry.primary.depth >= v.depth
    /\ entry.primary.provider \in healthy

\* The recorded model's depth is looked up again, and its provider's health;
\* context, tools, access method and the domain floor are not, and of the
\* fallback nothing is.  Of several models of the id get_by_id takes the first.
Latches(models, v, entry, healthy) ==
    /\ v.tokens > LatchAbove
    /\ entry # NoRoute
    /\ LET known == Known(models, entry.primary)
       IN  known # {} /\ (CHOOSE m \in known : TRUE).depth >= v.depth
    /\ entry.primary.provider \in healthy

-----------------------------------------------------------------------------
(* Steps 3 and 5: the feasible models on healthy providers, by score. *)

Feasible(m, v, access) ==
    /\ m.context >= v.tokens
    /\ v.tools => m.tools
    /\ access # "any" => m.access = access
    /\ m.depth >= v.depth
    /\ v.domain \in Protected => ~m.flash

Eligible(models, billing, v, access, healthy) ==
    {m \in models : /\ Feasible(m, v, access)
                    /\ m.provider \in healthy
                    /\ m.billing = billing}

Specialist(m, v) == v.domain # NoDomain /\ m.domain = v.domain

Score(m, v) == m.fitness + IF Specialist(m, v) THEN DomainBoost ELSE 0

Best(S, v) == {m \in S : \A n \in S : Score(n, v) <= Score(m, v)}

\* Fault: any lead of a metered model overrides the subscription.
OverridesOnAnyLead(metered, sub, v) == Score(metered, v) > Score(sub, v)

\* A metered model beats a subscription that could do the work only by more
\* than a threshold: as the domain's specialist, or from tier 2 upwards.
Overrides(metered, sub, v) ==
    LET lead == Score(metered, v) - Score(sub, v)
    IN  \/ Specialist(metered, v) /\ ~Specialist(sub, v) /\ lead > DomainThreshold
        \/ v.tier >= 2 /\ lead > OverrideThreshold

Primaries(subs, metered, v) ==
    IF subs = {} \/ metered = {}
      THEN Best(subs \cup metered, v)
      ELSE {IF Overrides(m, s, v) THEN m ELSE s :
              s \in Best(subs, v), m \in Best(metered, v)}

\* Fault: the best metered model is the fallback, whoever provides it.
FallbacksAnyProvider(primary, metered, v) ==
    IF metered = {} THEN {primary} ELSE Best(metered, v)

\* Fault: without a metered candidate there is no fallback.
FallbacksNone(primary, metered, v) ==
    IF metered = {} THEN {NoRoute} ELSE Best(metered, v)

\* A metered model of another provider where there is one.
Fallbacks(primary, metered, v) ==
    LET distinct == {m \in metered : m.provider # primary.provider}
    IN  CASE distinct # {} -> Best(distinct, v)
          [] distinct = {} /\ metered # {} -> Best(metered, v)
          [] metered = {} -> {primary}

Match(models, v, access, healthy) ==
    LET subs    == Eligible(models, "subscription", v, access, healthy)
        metered == Eligible(models, "metered", v, access, healthy)
    IN  UNION {{Route(p, f, "match") : f \in Fallbacks(p, metered, v)} :
                 p \in Primaries(subs, metered, v)}

-----------------------------------------------------------------------------
(* Step 4: nothing is eligible. *)

\* Fault: the emergency candidates must meet the requested depth as well.
EmergencyOnlyDeep(models, v, healthy) ==
    LET able == {m \in models : /\ m.context >= v.tokens /\ m.depth >= v.depth
                                /\ m.provider \in healthy}
    IN  {Route(m, m, "emergency") :
           m \in {n \in able : \A o \in able : o.depth <= n.depth}}

\* The deepest model of a healthy provider with room for the context; depth,
\* tools, access method and domain floor are given up.
Emergency(models, v, healthy) ==
    LET able == {m \in models : m.context >= v.tokens /\ m.provider \in healthy}
    IN  {Route(m, m, "emergency") :
           m \in {n \in able : \A o \in able : o.depth <= n.depth}}

Arbitrate(models, want, v, access, entry, healthy) ==
    LET match == Match(models, v, access, healthy)
    IN  CASE want # "auto" -> Explicit(models, want)
          [] want = "auto" /\ Latches(models, v, entry, healthy) ->
               {[entry EXCEPT !.why = "latch"]}
          [] OTHER -> IF match # {} THEN match ELSE Emergency(models, v, healthy)

\* The session's affinity entry afterwards: only a matched route is recorded.
Remembered(entry, route) ==
    IF route # NoRoute /\ route.why = "match" THEN route ELSE entry
=============================================================================
