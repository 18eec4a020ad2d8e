--------------------------- MODULE RoutingProofs ---------------------------
(***************************************************************************)
(* Theorems of Routing, for every set of catalogs, sessions and vectors,   *)
(* and any thresholds.                                                     *)
(***************************************************************************)
EXTENDS Routing, FiniteSetTheorems, TLAPS

\* The routes a decision is taken from.
Choices(d) ==
    LET routes == Arbitrate(d.models, d.want, d.v, d.access, d.entry, d.healthy)
    IN  IF routes = {} THEN {NoRoute} ELSE routes

\* The latest decision is one the solver may take from what it was made from, and
\* is what its session remembers by now if it is remembered at all.
DecisionInv ==
    last # NoRoute =>
        /\ last.models \in Catalogs /\ last.v \in Vectors
        /\ last.entry \in Routes \cup {NoRoute}
        /\ last.session \notin Sessions => last.entry = NoRoute
        /\ last.route \in Choices(last)
        /\ last.session \in Sessions =>
              affinity[last.session] = Remembered(last.entry, last.route)

RoutingInv == TypeOK /\ DecisionInv

-----------------------------------------------------------------------------
(* Maxima of finite sets of models. *)

LEMMA SmallestOf ==
    ASSUME NEW S \in SUBSET Nat, S # {}
    PROVE  \E m \in S : \A k \in S : m <= k
<1>1. PICK m \in S : \A k \in S : ~(<<k, m>> \in OpToRel(<, Nat))
  BY NatLessThanWellFounded, WFMin
<1>2. \A k \in S : ~(k < m)
  BY <1>1 DEF OpToRel
<1> QED BY <1>2

\* A finite set has an element that none is above.
LEMMA Greatest ==
    ASSUME NEW S, IsFiniteSet(S), S # {}, NEW f \in [S -> Int]
    PROVE  \E x \in S : \A y \in S : f[y] <= f[x]
<1> DEFINE above(x) == {y \in S : f[y] > f[x]}
           counts   == {Cardinality(above(x)) : x \in S}
<1>1. \A x \in S : above(x) \subseteq S /\ IsFiniteSet(above(x)) /\ Cardinality(above(x)) \in Nat
  BY FS_Subset, FS_CardinalityType
<1>2. counts \in SUBSET Nat /\ counts # {}
  BY <1>1
<1>3. \E n \in counts : \A k \in counts : n <= k
  <2> HIDE DEF counts
  <2> QED BY <1>2, SmallestOf
<1>4. PICK x \in S : \A y \in S : Cardinality(above(x)) <= Cardinality(above(y))
  <2> HIDE DEF above
  <2>1. PICK n \in counts : \A k \in counts : n <= k
    BY <1>3
  <2>2. PICK x \in S : n = Cardinality(above(x))
    BY <2>1
  <2>3. \A y \in S : Cardinality(above(y)) \in counts
    OBVIOUS
  <2> QED BY <2>1, <2>2, <2>3
<1>5. ASSUME NEW y \in S, f[y] > f[x]
      PROVE  FALSE
  <2>1. above(y) \subseteq above(x) /\ y \in above(x) /\ y \notin above(y)
    BY <1>5
  <2>2. Cardinality(above(y)) < Cardinality(above(x))
    <3> HIDE DEF above
    <3>1. Cardinality(above(y)) <= Cardinality(above(x)) /\ Cardinality(above(y)) # Cardinality(above(x))
      BY <1>1, <2>1, FS_Subset
    <3> QED BY <1>1, <3>1
  <2> HIDE DEF above
  <2> QED BY <1>1, <1>4, <2>2
<1> QED BY <1>5

LEMMA Scores ==
    ASSUME NEW m \in UNION Catalogs, NEW v
    PROVE  Score(m, v) \in Int
BY RoutingAssumption DEF Score

LEMMA BestExists ==
    ASSUME NEW c \in Catalogs, NEW S \in SUBSET c, S # {}, NEW v
    PROVE  Best(S, v) # {}
<1> DEFINE f == [m \in S |-> Score(m, v)]
<1>1. IsFiniteSet(S)
  BY RoutingAssumption, FS_Subset
<1>2. f \in [S -> Int]
  BY Scores
<1>3. \E x \in S : \A y \in S : f[y] <= f[x]
  <2> HIDE DEF f
  <2> QED BY <1>1, <1>2, Greatest
<1> QED BY <1>3 DEF Best

LEMMA DeepestExists ==
    ASSUME NEW c \in Catalogs, NEW S \in SUBSET c, S # {}
    PROVE  \E m \in S : \A n \in S : n.depth <= m.depth
<1> DEFINE f == [m \in S |-> m.depth]
<1>1. IsFiniteSet(S)
  BY RoutingAssumption, FS_Subset
<1>2. f \in [S -> Int]
  BY RoutingAssumption
<1>3. \E x \in S : \A y \in S : f[y] <= f[x]
  <2> HIDE DEF f
  <2> QED BY <1>1, <1>2, Greatest
<1> QED BY <1>3

\* Leaving out models that are not the best does not change which are.
LEMMA SameBest ==
    ASSUME NEW c \in Catalogs, NEW T \in SUBSET c, NEW S \in SUBSET T, NEW v,
           Best(T, v) \subseteq S
    PROVE  Best(S, v) = Best(T, v) /\ (S = {} <=> T = {})
<1>1. CASE T = {}
  BY <1>1 DEF Best
<1>2. CASE T # {}
  <2>1. PICK t \in Best(T, v) : TRUE
    BY <1>2, BestExists
  <2>2. t \in S /\ t \in T /\ \A n \in T : Score(n, v) <= Score(t, v)
    BY <2>1 DEF Best
  <2>3. \A n \in T : Score(n, v) \in Int
    BY Scores
  <2>4. ASSUME NEW b \in Best(S, v)
        PROVE  b \in Best(T, v)
    <3>1. b \in T /\ Score(t, v) <= Score(b, v)
      BY <2>2, <2>4 DEF Best
    <3>2. \A n \in T : Score(n, v) <= Score(b, v)
      BY <2>2, <2>3, <3>1
    <3> QED BY <3>1, <3>2 DEF Best
  <2>5. Best(T, v) \subseteq Best(S, v)
    BY DEF Best
  <2> QED BY <2>2, <2>4, <2>5
<1> QED BY <1>1, <1>2

-----------------------------------------------------------------------------
(* The routes of the solver. *)

Sub(c, v, a, h) == Eligible(c, "subscription", v, a, h)
Met(c, v, a, h) == Eligible(c, "metered", v, a, h)

LEMMA Candidates ==
    ASSUME NEW c \in Catalogs, NEW v, NEW a, NEW h
    PROVE  /\ Sub(c, v, a, h) \subseteq c /\ Met(c, v, a, h) \subseteq c
           /\ \A m \in Sub(c, v, a, h) : m.billing = "subscription" /\ m.provider \in h
           /\ \A m \in Met(c, v, a, h) : m.billing = "metered" /\ m.provider \in h
           /\ \A m \in c : m.context \in Nat /\ m.depth \in Nat
BY RoutingAssumption DEF Eligible, Sub, Met

LEMMA PrimaryFacts ==
    ASSUME NEW c \in Catalogs, NEW S \in SUBSET c, NEW M \in SUBSET c, NEW v
    PROVE  /\ Primaries(S, M, v) \subseteq S \cup M
           /\ S \cup M # {} => Primaries(S, M, v) # {}
           /\ \A p \in Primaries(S, M, v) :
                 S = {} \/ p \in S \/ (p \in M /\ \E s \in S : Overrides(p, s, v))
<1>1. CASE S = {} \/ M = {}
  <2>1. Primaries(S, M, v) = Best(S \cup M, v) /\ Best(S \cup M, v) \subseteq S \cup M
    BY <1>1 DEF Primaries, Best
  <2>2. S \cup M # {} => Best(S \cup M, v) # {}
    BY BestExists
  <2> QED BY <1>1, <2>1, <2>2
<1>2. CASE S # {} /\ M # {}
  <2>1. Best(S, v) # {} /\ Best(M, v) # {} /\ Best(S, v) \subseteq S /\ Best(M, v) \subseteq M
    BY <1>2, BestExists DEF Best
  <2>2. Primaries(S, M, v) = {IF Overrides(m, s, v) THEN m ELSE s :
                                s \in Best(S, v), m \in Best(M, v)}
    BY <1>2 DEF Primaries
  <2> HIDE DEF Primaries
  <2> QED BY <2>1, <2>2
<1> QED BY <1>1, <1>2

LEMMA FallbackFacts ==
    ASSUME NEW c \in Catalogs, NEW M \in SUBSET c, NEW p \in c, NEW v
    PROVE  /\ Fallbacks(p, M, v) # {} /\ Fallbacks(p, M, v) \subseteq c
           /\ \A f \in Fallbacks(p, M, v) :
                 f.provider = p.provider => \A m \in M : m.provider = p.provider
<1> DEFINE distinct == {m \in M : m.provider # p.provider}
<1>1. CASE distinct # {}
  <2>1. Fallbacks(p, M, v) = Best(distinct, v)
    BY <1>1 DEF Fallbacks
  <2>2. Best(distinct, v) # {} /\ Best(distinct, v) \subseteq distinct
    BY <1>1, BestExists DEF Best
  <2> QED BY <2>1, <2>2
<1>2. CASE distinct = {} /\ M # {}
  <2>1. Fallbacks(p, M, v) = Best(M, v)
    BY <1>2 DEF Fallbacks
  <2>2. Best(M, v) # {} /\ Best(M, v) \subseteq M
    BY <1>2, BestExists DEF Best
  <2> QED BY <1>2, <2>1, <2>2
<1>3. CASE M = {}
  BY <1>3 DEF Fallbacks
<1> QED BY <1>1, <1>2, <1>3

\* A match has its primary and its fallback from the candidates; there is one
\* for every primary, and none only if there are no candidates.
LEMMA MatchFacts ==
    ASSUME NEW c \in Catalogs, NEW v, NEW a, NEW h
    PROVE  /\ \A r \in Match(c, v, a, h) :
                 /\ r \in Routes /\ r.why = "match"
                 /\ r.primary \in Primaries(Sub(c, v, a, h), Met(c, v, a, h), v)
                 /\ r.fallback \in Fallbacks(r.primary, Met(c, v, a, h), v)
           /\ \A p \in Primaries(Sub(c, v, a, h), Met(c, v, a, h), v) :
                 \E r \in Match(c, v, a, h) : r.primary = p
           /\ Match(c, v, a, h) = {} => Sub(c, v, a, h) = {} /\ Met(c, v, a, h) = {}
<1> DEFINE S == Sub(c, v, a, h)
           M == Met(c, v, a, h)
<1>1. S \in SUBSET c /\ M \in SUBSET c
  BY Candidates
<1>2. Match(c, v, a, h) =
        UNION {{Route(p, f, "match") : f \in Fallbacks(p, M, v)} : p \in Primaries(S, M, v)}
  BY DEF Match, Sub, Met
<1> HIDE DEF S, M
<1>3. Primaries(S, M, v) \subseteq c /\ (S \cup M # {} => Primaries(S, M, v) # {})
  BY <1>1, PrimaryFacts
<1>4. \A p \in Primaries(S, M, v) : Fallbacks(p, M, v) # {} /\ Fallbacks(p, M, v) \subseteq c
  BY <1>1, <1>3, FallbackFacts
<1>5. ASSUME NEW r \in Match(c, v, a, h)
      PROVE  /\ r \in Routes /\ r.why = "match"
             /\ r.primary \in Primaries(S, M, v) /\ r.fallback \in Fallbacks(r.primary, M, v)
  <2>1. PICK p \in Primaries(S, M, v) :
           \E f \in Fallbacks(p, M, v) : r = Route(p, f, "match")
    BY <1>2, <1>5
  <2>2. PICK f \in Fallbacks(p, M, v) : r = Route(p, f, "match")
    BY <2>1
  <2>3. p \in c /\ f \in c
    BY <1>3, <1>4
  <2> QED BY <2>2, <2>3 DEF Route, Routes, Whys
<1>6. ASSUME NEW p \in Primaries(S, M, v)
      PROVE  \E r \in Match(c, v, a, h) : r.primary = p
  <2>1. PICK f \in Fallbacks(p, M, v) : TRUE
    BY <1>4
  <2>2. Route(p, f, "match") \in Match(c, v, a, h)
    BY <1>2, <2>1
  <2> QED BY <2>2 DEF Route
<1>7. Match(c, v, a, h) = {} => S = {} /\ M = {}
  BY <1>3, <1>6
<1> QED BY <1>5, <1>6, <1>7 DEF S, M

LEMMA EmergencyFacts ==
    ASSUME NEW c \in Catalogs, NEW v \in Vectors, NEW h
    PROVE  /\ \A r \in Emergency(c, v, h) :
                 r \in Routes /\ r.why = "emergency" /\ r.primary.provider \in h
           /\ Emergency(c, v, h) = {} =>
                 \A m \in c : m.provider \in h => m.context < v.tokens
<1> DEFINE able == {m \in c : m.context >= v.tokens /\ m.provider \in h}
<1>1. Emergency(c, v, h) =
        {Route(m, m, "emergency") : m \in {n \in able : \A o \in able : o.depth <= n.depth}}
  BY DEF Emergency
<1>2. ASSUME NEW r \in Emergency(c, v, h)
      PROVE  r \in Routes /\ r.why = "emergency" /\ r.primary.provider \in h
  <2>1. PICK m \in able : r = Route(m, m, "emergency")
    BY <1>1, <1>2
  <2> QED BY <2>1 DEF Route, Routes, Whys
<1>3. able # {} => Emergency(c, v, h) # {}
  <2>1. able \in SUBSET c
    OBVIOUS
  <2> HIDE DEF able
  <2> QED BY <1>1, <2>1, DeepestExists
<1>4. \A m \in c : m.context \in Nat /\ v.tokens \in Nat
  BY RoutingAssumption
<1> QED BY <1>2, <1>3, <1>4

\* The ways to a route for a request that names no model.
LEMMA AutoRoute ==
    ASSUME NEW c \in Catalogs, NEW v, NEW a, NEW e, NEW h, NEW r,
           r \in Arbitrate(c, "auto", v, a, e, h)
    PROVE  \/ Latches(c, v, e, h) /\ r = [e EXCEPT !.why = "latch"]
           \/ ~Latches(c, v, e, h) /\ r \in Match(c, v, a, h)
           \/ ~Latches(c, v, e, h) /\ Match(c, v, a, h) = {} /\ r \in Emergency(c, v, h)
<1>1. CASE Latches(c, v, e, h)
  <2>1. Arbitrate(c, "auto", v, a, e, h) = {[e EXCEPT !.why = "latch"]}
    BY <1>1 DEF Arbitrate
  <2> QED BY <1>1, <2>1
<1>2. CASE ~Latches(c, v, e, h)
  <2>1. Arbitrate(c, "auto", v, a, e, h) =
           IF Match(c, v, a, h) # {} THEN Match(c, v, a, h) ELSE Emergency(c, v, h)
    BY <1>2 DEF Arbitrate
  <2> QED BY <1>2, <2>1
<1> QED BY <1>1, <1>2

\* The vector may be one of a replay, which is in no request.
LEMMA ArbitrateTyped ==
    ASSUME NEW c \in Catalogs, NEW want, NEW v, NEW a, NEW e \in Routes \cup {NoRoute}, NEW h
    PROVE  Arbitrate(c, want, v, a, e, h) \subseteq Routes
<1>1. ASSUME NEW r \in Arbitrate(c, "auto", v, a, e, h)
      PROVE  r \in Routes
  <2>1. CASE Latches(c, v, e, h) /\ r = [e EXCEPT !.why = "latch"]
    <3>1. e \in Routes
      BY <2>1 DEF Latches
    <3>2. r = [primary |-> e.primary, fallback |-> e.fallback, why |-> "latch"]
      BY <2>1, <3>1 DEF Routes
    <3> QED BY <3>1, <3>2 DEF Routes, Whys
  <2>2. CASE r \in Match(c, v, a, h)
    BY <2>2, MatchFacts
  <2>3. CASE r \in Emergency(c, v, h)
    BY <2>3 DEF Emergency, Route, Routes, Whys
  <2> QED BY <1>1, <2>1, <2>2, <2>3, AutoRoute
<1>2. CASE want # "auto"
  <2>1. Arbitrate(c, want, v, a, e, h) = Explicit(c, want)
    BY <1>2 DEF Arbitrate
  <2> QED BY <2>1 DEF Explicit, Route, Routes, Whys
<1> QED BY <1>1, <1>2

\* Asked for any access method instead of one, the solver has the same primaries,
\* unless a model of another method is the best of its billing.
LEMMA SamePrimaries ==
    ASSUME NEW c \in Catalogs, NEW v, NEW a, NEW h,
           \A m \in c : m \in Best(Eligible(c, m.billing, v, "any", h), v) =>
                           a = "any" \/ m.access = a
    PROVE  /\ Primaries(Sub(c, v, "any", h), Met(c, v, "any", h), v)
                 = Primaries(Sub(c, v, a, h), Met(c, v, a, h), v)
           /\ Sub(c, v, "any", h) = {} <=> Sub(c, v, a, h) = {}
           /\ Met(c, v, "any", h) = {} <=> Met(c, v, a, h) = {}
<1>1. ASSUME NEW billing
      PROVE  /\ Best(Eligible(c, billing, v, a, h), v) = Best(Eligible(c, billing, v, "any", h), v)
             /\ Eligible(c, billing, v, a, h) = {} <=> Eligible(c, billing, v, "any", h) = {}
  <2> DEFINE T == Eligible(c, billing, v, "any", h)
             S == Eligible(c, billing, v, a, h)
  <2>1. T \in SUBSET c /\ S \in SUBSET T
    BY DEF Eligible, Feasible
  <2>2. ASSUME NEW b \in Best(T, v)
        PROVE  b \in S
    <3>1. b \in c /\ b.billing = billing /\ b \in T
      BY <2>2 DEF Best, Eligible
    <3>2. a = "any" \/ b.access = a
      BY <2>2, <3>1
    <3> QED BY <3>1, <3>2 DEF Eligible, Feasible
  <2> HIDE DEF S, T
  <2>3. Best(S, v) = Best(T, v) /\ (S = {} <=> T = {})
    BY <2>1, <2>2, SameBest
  <2> QED BY <2>3 DEF S, T
<1> DEFINE S == Sub(c, v, a, h)
           M == Met(c, v, a, h)
           S1 == Sub(c, v, "any", h)
           M1 == Met(c, v, "any", h)
<1>2. /\ Best(S, v) = Best(S1, v) /\ (S = {} <=> S1 = {})
      /\ Best(M, v) = Best(M1, v) /\ (M = {} <=> M1 = {})
  BY <1>1 DEF Sub, Met
<1> HIDE DEF S, M, S1, M1
<1>3. Primaries(S1, M1, v) = Primaries(S, M, v)
  <2>1. CASE S = {}
    <3>1. S \cup M = M /\ S1 \cup M1 = M1
      BY <1>2, <2>1
    <3>2. Primaries(S, M, v) = Best(S \cup M, v)
      BY <2>1 DEF Primaries
    <3>3. Primaries(S1, M1, v) = Best(S1 \cup M1, v)
      BY <1>2, <2>1 DEF Primaries
    <3> QED BY <1>2, <3>1, <3>2, <3>3
  <2>2. CASE M = {}
    <3>1. S \cup M = S /\ S1 \cup M1 = S1
      BY <1>2, <2>2
    <3>2. Primaries(S, M, v) = Best(S \cup M, v)
      BY <2>2 DEF Primaries
    <3>3. Primaries(S1, M1, v) = Best(S1 \cup M1, v)
      BY <1>2, <2>2 DEF Primaries
    <3> QED BY <1>2, <3>1, <3>2, <3>3
  <2>3. CASE S # {} /\ M # {}
    BY <1>2, <2>3 DEF Primaries
  <2> QED BY <2>1, <2>2, <2>3
<1> QED BY <1>2, <1>3 DEF S, M, S1, M1

-----------------------------------------------------------------------------
(* The state. *)

LEMMA RoutingInitial == Init => RoutingInv
BY DEF Init, RoutingInv, TypeOK, DecisionInv

LEMMA RememberedTyped ==
    ASSUME NEW e \in Routes \cup {NoRoute}, NEW r \in Routes \cup {NoRoute}
    PROVE  Remembered(e, r) \in Routes \cup {NoRoute}
BY DEF Remembered

LEMMA RoutingStep ==
    ASSUME RoutingInv, [Next]_vars
    PROVE  RoutingInv'
<1>1. TypeOK /\ DecisionInv
  BY DEF RoutingInv
<1>2. \A s : Entry(s) \in Routes \cup {NoRoute}
  BY <1>1 DEF TypeOK, Entry
<1>3. ASSUME NEW s, NEW r \in Routes \cup {NoRoute}, Remember(s, r)
      PROVE  /\ affinity' \in [Sessions -> Routes \cup {NoRoute}]
             /\ s \in Sessions => affinity'[s] = Remembered(affinity[s], r)
  <2>1. \A t \in Sessions : affinity[t] \in Routes \cup {NoRoute}
                           /\ Remembered(affinity[t], r) \in Routes \cup {NoRoute}
    BY <1>1, RememberedTyped DEF TypeOK
  <2> QED BY <1>3, <2>1 DEF Remember
<1>4. ASSUME NEW s, NEW want, NEW v \in Vectors, NEW a, Select(s, want, v, a)
      PROVE  RoutingInv'
  <2> DEFINE routes == Arbitrate(models, want, v, a, Entry(s), healthy)
             choices == IF routes = {} THEN {NoRoute} ELSE routes
  <2>1. PICK route \in choices :
           /\ Remember(s, route)
           /\ last' = [route |-> route, session |-> s, want |-> want, v |-> v,
                       access |-> a, entry |-> Entry(s),
                       models |-> models, healthy |-> healthy]
           /\ UNCHANGED <<models, healthy>>
    BY <1>4 DEF Select
  <2>2. models \in Catalogs
    BY <1>1 DEF TypeOK
  <2>3. routes \subseteq Routes
    BY <1>2, <2>2, ArbitrateTyped
  <2>4. route \in Routes \cup {NoRoute}
    <3> HIDE DEF routes
    <3> QED BY <2>1, <2>3
  <2>5. TypeOK'
    BY <1>1, <1>3, <2>1, <2>4 DEF TypeOK
  <2>6. /\ last'.models = models /\ last'.v = v /\ last'.entry = Entry(s) /\ last'.session = s
        /\ last'.route = route /\ last'.want = want /\ last'.access = a /\ last'.healthy = healthy
    BY <2>1
  <2>7. route \in Choices(last')
    BY <2>1, <2>6 DEF Choices
  <2>8. s \notin Sessions => Entry(s) = NoRoute
    BY DEF Entry
  <2>9. s \in Sessions => affinity'[s] = Remembered(Entry(s), route)
    BY <1>3, <2>1, <2>4 DEF Entry
  <2>10. DecisionInv'
    <3> HIDE DEF routes, choices
    <3> QED BY <1>2, <2>2, <2>6, <2>7, <2>8, <2>9 DEF DecisionInv
  <2> QED BY <2>5, <2>10 DEF RoutingInv
<1>5. CASE Replay
  <2>1. PICK v \in ReplayVectors(last.v) \cup {AuditVector(last.v)} :
           \E route \in Replayed(v) : Remember(last.session, route)
    BY <1>5 DEF Replay
  <2>2. PICK route \in Replayed(v) : Remember(last.session, route)
    BY <2>1
  <2>3. last # NoRoute /\ last' = NoRoute /\ UNCHANGED <<models, healthy>>
    BY <1>5 DEF Replay, Logged
  <2>4. Replayed(v) \subseteq Routes
    BY <1>1, <1>2, <2>3, ArbitrateTyped DEF Replayed, DecisionInv
  <2>5. affinity' \in [Sessions -> Routes \cup {NoRoute}]
    BY <1>3, <2>2, <2>4
  <2> QED BY <1>1, <2>3, <2>5 DEF RoutingInv, TypeOK, DecisionInv
<1>6. ASSUME NEW p \in Providers, Flip(p)
      PROVE  RoutingInv'
  BY <1>1, <1>6 DEF Flip, RoutingInv, TypeOK, DecisionInv
<1>7. CASE Refresh
  <2>1. models' \in Catalogs /\ UNCHANGED <<healthy, affinity, last>>
    BY <1>7 DEF Refresh
  <2>2. DecisionInv'
    BY <1>1, <2>1 DEF DecisionInv, Choices
  <2> QED BY <1>1, <2>1, <2>2 DEF RoutingInv, TypeOK
<1>8. CASE UNCHANGED vars
  <2>1. DecisionInv'
    BY <1>1, <1>8 DEF vars, DecisionInv, Choices
  <2> QED BY <1>1, <1>8, <2>1 DEF vars, RoutingInv, TypeOK
<1> QED BY <1>4, <1>5, <1>6, <1>7, <1>8 DEF Next

LEMMA RoutingSafe == Spec => []RoutingInv
BY RoutingInitial, RoutingStep, PTL DEF Spec

-----------------------------------------------------------------------------
(* Theorems *)

\* The routes of arbitrate are of models that were in a catalog, with a fallback in
\* each, and so are the affinity entries (solver.py).
THEOREM RoutingTypeCorrect == Spec => []TypeOK
<1>1. RoutingInv => TypeOK
  BY DEF RoutingInv
<1> QED BY RoutingSafe, <1>1, PTL

\* What is known of a routed decision for `auto'.
LEMMA RoutedFacts ==
    ASSUME RoutingInv, Decided
    PROVE  /\ last.models \in Catalogs /\ last.v \in Vectors
           /\ last.entry \in Routes \cup {NoRoute}
           /\ last.route # NoRoute =>
                 last.route \in Arbitrate(last.models, "auto", last.v, last.access,
                                         last.entry, last.healthy)
           /\ last.route = NoRoute =>
                 Arbitrate(last.models, "auto", last.v, last.access,
                           last.entry, last.healthy) = {}
<1>1. /\ last.models \in Catalogs /\ last.v \in Vectors /\ last.want = "auto"
      /\ last.entry \in Routes \cup {NoRoute} /\ last.route \in Choices(last)
  BY DEF RoutingInv, DecisionInv, Decided
<1> DEFINE routes == Arbitrate(last.models, "auto", last.v, last.access, last.entry, last.healthy)
<1>2. last.route \in IF routes = {} THEN {NoRoute} ELSE routes
  BY <1>1 DEF Choices
<1>3. routes \subseteq Routes
  BY <1>1, ArbitrateTyped
<1> HIDE DEF routes
<1>4. /\ last.route # NoRoute => last.route \in routes
      /\ last.route = NoRoute => routes = {}
  BY <1>2, <1>3, RoutingAssumption
<1> QED BY <1>1, <1>4 DEF routes

\* arbitrate raises for `auto' only where no healthy provider has a model with room
\* for the context (solver.py, load shedding).
THEOREM Sheds == Spec => []ShedsOnlyWhenNothingFits
<1>1. RoutingInv => ShedsOnlyWhenNothingFits
  <2> SUFFICES ASSUME RoutingInv, Decided, last.route = NoRoute
               PROVE  \A m \in last.models :
                         m.provider \in last.healthy => m.context < last.v.tokens
    BY DEF ShedsOnlyWhenNothingFits
  <2> DEFINE routes == Arbitrate(last.models, "auto", last.v, last.access, last.entry, last.healthy)
             match  == Match(last.models, last.v, last.access, last.healthy)
  <2>1. last.models \in Catalogs /\ last.v \in Vectors /\ routes = {}
    BY RoutedFacts
  <2>2. Emergency(last.models, last.v, last.healthy) = {}
    <3>1. CASE Latches(last.models, last.v, last.entry, last.healthy)
      <4>1. routes = {[last.entry EXCEPT !.why = "latch"]}
        BY <3>1 DEF Arbitrate
      <4> HIDE DEF routes
      <4> QED BY <2>1, <4>1
    <3>2. CASE ~Latches(last.models, last.v, last.entry, last.healthy)
      <4>1. routes = IF match # {} THEN match ELSE Emergency(last.models, last.v, last.healthy)
        BY <3>2 DEF Arbitrate
      <4> HIDE DEF routes, match
      <4> QED BY <2>1, <4>1
    <3> QED BY <3>1, <3>2
  <2> QED BY <2>1, <2>2, EmergencyFacts
<1> QED BY RoutingSafe, <1>1, PTL

\* No request for `auto' goes first to a provider whose breaker was OPEN when it
\* was routed, by whichever step of arbitrate (solver.py).
THEOREM PrimariesHealthy == Spec => []PrimaryHealthy
<1>1. RoutingInv => PrimaryHealthy
  <2> SUFFICES ASSUME RoutingInv, Routed
               PROVE  last.route.primary.provider \in last.healthy
    BY DEF PrimaryHealthy
  <2>1. /\ last.models \in Catalogs /\ last.v \in Vectors /\ last.entry \in Routes \cup {NoRoute}
        /\ last.route \in Arbitrate(last.models, "auto", last.v, last.access,
                                    last.entry, last.healthy)
    BY RoutedFacts DEF Routed
  <2>2. CASE /\ Latches(last.models, last.v, last.entry, last.healthy)
             /\ last.route = [last.entry EXCEPT !.why = "latch"]
    BY <2>1, <2>2 DEF Latches, Routes
  <2>3. CASE last.route \in Match(last.models, last.v, last.access, last.healthy)
    BY <2>1, <2>3, MatchFacts, PrimaryFacts, Candidates
  <2>4. CASE last.route \in Emergency(last.models, last.v, last.healthy)
    BY <2>1, <2>4, EmergencyFacts
  <2> QED BY <2>1, <2>2, <2>3, <2>4, AutoRoute
<1> QED BY RoutingSafe, <1>1, PTL

\* A matched route is one of Match, made from the candidates.
LEMMA MatchedFacts ==
    ASSUME RoutingInv, Routed, last.route.why = "match"
    PROVE  /\ last.models \in Catalogs /\ last.v \in Vectors
           /\ last.route \in Match(last.models, last.v, last.access, last.healthy)
<1>1. /\ last.models \in Catalogs /\ last.v \in Vectors /\ last.entry \in Routes \cup {NoRoute}
      /\ last.route \in Arbitrate(last.models, "auto", last.v, last.access,
                                  last.entry, last.healthy)
  BY RoutedFacts DEF Routed
<1>2. CASE /\ Latches(last.models, last.v, last.entry, last.healthy)
           /\ last.route = [last.entry EXCEPT !.why = "latch"]
  BY <1>1, <1>2 DEF Latches, Routes
<1>3. CASE last.route \in Emergency(last.models, last.v, last.healthy)
  BY <1>1, <1>3, EmergencyFacts
<1> QED BY <1>1, <1>2, <1>3, AutoRoute

\* A matched route falls back to the provider it failed at only if no other one
\* could take the request (solver.py).
THEOREM FallbacksDistinct == Spec => []FallbackDistinct
<1>1. RoutingInv => FallbackDistinct
  <2> SUFFICES ASSUME RoutingInv, Routed, last.route.why = "match",
                      last.route.fallback.provider = last.route.primary.provider,
                      NEW m \in last.models, Feasible(m, last.v, last.access),
                      m.provider \in last.healthy, m.billing = "metered"
               PROVE  m.provider = last.route.primary.provider
    BY DEF FallbackDistinct
  <2> DEFINE S == Sub(last.models, last.v, last.access, last.healthy)
             M == Met(last.models, last.v, last.access, last.healthy)
  <2>1. last.models \in Catalogs /\ S \in SUBSET last.models /\ M \in SUBSET last.models
    BY MatchedFacts, Candidates
  <2>2. /\ last.route.primary \in Primaries(S, M, last.v)
        /\ last.route.fallback \in Fallbacks(last.route.primary, M, last.v)
    BY MatchedFacts, MatchFacts
  <2>3. m \in M
    BY DEF Met, Eligible
  <2> HIDE DEF S, M
  <2>4. last.route.primary \in last.models
    BY <2>1, <2>2, PrimaryFacts
  <2> QED BY <2>1, <2>2, <2>3, <2>4, FallbackFacts
<1> QED BY RoutingSafe, <1>1, PTL

\* Whoever overrides the best subscriptions leads all of them.
LEMMA OverrideFacts ==
    ASSUME NEW c \in Catalogs, NEW S \in SUBSET c, NEW M \in SUBSET c, NEW v,
           NEW p \in Primaries(S, M, v), p \notin S, NEW t \in S
    PROVE  LET lead == Score(p, v) - Score(t, v)
           IN  \/ v.tier >= 2 /\ lead > OverrideThreshold
               \/ Specialist(p, v) /\ lead > DomainThreshold
<1>1. M # {}
  <2>1. CASE M = {}
    <3>1. Primaries(S, M, v) \subseteq S
      BY <2>1, PrimaryFacts
    <3> QED BY <3>1
  <2> QED BY <2>1
<1>2. Primaries(S, M, v) = {IF Overrides(m, s, v) THEN m ELSE s :
                              s \in Best(S, v), m \in Best(M, v)}
  BY <1>1 DEF Primaries
<1>3. PICK s \in Best(S, v), m \in Best(M, v) : p = IF Overrides(m, s, v) THEN m ELSE s
  BY <1>2
<1>4. s \in S /\ Score(t, v) <= Score(s, v)
  BY <1>3 DEF Best
<1>5. Overrides(p, s, v) /\ p \in c
  BY <1>3, <1>4 DEF Best
<1>6. Score(p, v) \in Int /\ Score(s, v) \in Int /\ Score(t, v) \in Int
  BY <1>4, <1>5, Scores
<1>7. OverrideThreshold \in Int /\ DomainThreshold \in Int
  BY RoutingAssumption
<1>8. /\ Score(p, v) - Score(s, v) > OverrideThreshold
            => Score(p, v) - Score(t, v) > OverrideThreshold
      /\ Score(p, v) - Score(s, v) > DomainThreshold
            => Score(p, v) - Score(t, v) > DomainThreshold
  BY <1>4, <1>6, <1>7
<1> QED BY <1>5, <1>8 DEF Overrides

\* A metered model is matched only where it beats every subscription that could
\* take the request by more than the threshold, from tier 2 or as the domain's
\* specialist (solver.py).
THEOREM SubscriptionsFirst == Spec => []SubscriptionFirst
<1>1. RoutingInv => SubscriptionFirst
  <2> DEFINE S == Sub(last.models, last.v, last.access, last.healthy)
             M == Met(last.models, last.v, last.access, last.healthy)
             p == last.route.primary
  <2> SUFFICES ASSUME RoutingInv, Routed, last.route.why = "match",
                      p.billing = "metered", NEW s \in S
               PROVE  LET lead == Score(p, last.v) - Score(s, last.v)
                      IN  \/ last.v.tier >= 2 /\ lead > OverrideThreshold
                          \/ Specialist(p, last.v) /\ lead > DomainThreshold
    BY DEF SubscriptionFirst, Sub
  <2>1. /\ last.models \in Catalogs
        /\ S \in SUBSET last.models /\ M \in SUBSET last.models
        /\ \A t \in S : t.billing = "subscription"
    BY MatchedFacts, Candidates
  <2>2. p \in Primaries(S, M, last.v)
    BY MatchedFacts, MatchFacts
  <2>3. p \notin S
    BY <2>1
  <2> HIDE DEF S, M, p
  <2> QED BY <2>1, <2>2, <2>3, OverrideFacts
<1> QED BY RoutingSafe, <1>1, PTL

\* By latch or by match, no model is below the request's depth in the catalog of
\* the moment, and emergency routes are for where nothing feasible is healthy
\* (solver.py).
THEOREM DeepEnough == Spec => []DeepEnoughUnlessEmergency
<1>1. RoutingInv => DeepEnoughUnlessEmergency
  <2> DEFINE c == last.models
             v == last.v
             a == last.access
             h == last.healthy
             e == last.entry
             p == last.route.primary
  <2> SUFFICES ASSUME RoutingInv, Routed
               PROVE  IF last.route.why = "emergency"
                        THEN \A m \in c : m.provider \in h => ~Feasible(m, v, a)
                        ELSE \E m \in Known(c, p) : m.depth >= v.depth
    BY DEF DeepEnoughUnlessEmergency
  <2>1. /\ c \in Catalogs /\ v \in Vectors /\ e \in Routes \cup {NoRoute}
        /\ last.route \in Arbitrate(c, "auto", v, a, e, h)
    BY RoutedFacts DEF Routed
  <2> HIDE DEF c, v, a, h, e
  <2>2. CASE Latches(c, v, e, h) /\ last.route = [e EXCEPT !.why = "latch"]
    <3>1. e \in Routes
      BY <2>1, <2>2 DEF Latches
    <3>2. last.route.why = "latch" /\ p = e.primary
      BY <2>2, <3>1 DEF Routes
    <3>3. \E m \in Known(c, e.primary) : m.depth >= v.depth
      <4> DEFINE known == Known(c, e.primary)
      <4>1. known # {} /\ (CHOOSE m \in known : TRUE).depth >= v.depth
        BY <2>2 DEF Latches
      <4> HIDE DEF known
      <4>2. (CHOOSE m \in known : TRUE) \in known
        BY <4>1
      <4> QED BY <4>1, <4>2 DEF known
    <3> QED BY <3>2, <3>3
  <2>3. CASE last.route \in Match(c, v, a, h)
    <3>1. last.route.why = "match" /\ p \in Primaries(Sub(c, v, a, h), Met(c, v, a, h), v)
      BY <2>1, <2>3, MatchFacts
    <3>2. p \in Sub(c, v, a, h) \cup Met(c, v, a, h)
      BY <2>1, <3>1, Candidates, PrimaryFacts
    <3>3. p \in c /\ p.depth >= v.depth
      BY <3>2 DEF Sub, Met, Eligible, Feasible
    <3>4. p \in Known(c, p)
      BY <3>3 DEF Known
    <3> QED BY <3>1, <3>3, <3>4
  <2>4. CASE Match(c, v, a, h) = {} /\ last.route \in Emergency(c, v, h)
    <3>1. last.route.why = "emergency"
      BY <2>1, <2>4, EmergencyFacts
    <3>2. Sub(c, v, a, h) = {} /\ Met(c, v, a, h) = {}
      BY <2>1, <2>4, MatchFacts
    <3>3. \A m \in c : m.billing \in {"subscription", "metered"}
      BY <2>1, RoutingAssumption
    <3>4. \A m \in c : m.provider \in h => ~Feasible(m, v, a)
      BY <3>2, <3>3 DEF Sub, Met, Eligible
    <3> QED BY <3>1, <3>4
  <2> QED BY <2>1, <2>2, <2>3, <2>4, AutoRoute
<1> QED BY RoutingSafe, <1>1, PTL

\* replay_decision reaches a logged plan again under the same breakers, through
\* refreshes and though the route may be remembered (decision_log.py).
THEOREM ReplaysReproduce == Spec => []ReplayReproduces
<1>1. RoutingInv => ReplayReproduces
  <2> DEFINE c == last.models
             v == last.v
             a == last.access
             h == last.healthy
             e == last.entry
             now == Entry(last.session)
             p == last.route.primary
  <2> SUFFICES ASSUME RoutingInv, Routed, h = healthy,
                      \A m \in c : m \in Best(Eligible(c, m.billing, v, "any", h), v) =>
                                      a = "any" \/ m.access = a
               PROVE  \E r \in Arbitrate(c, "auto", v, "any", now, h) : r.primary = p
    <3>1. \A record \in Records : record.supersedes \/ record.model = p
      BY DEF Records
    <3> QED BY <3>1 DEF ReplayReproduces, Replayed
  <2>1. /\ c \in Catalogs /\ v \in Vectors /\ e \in Routes \cup {NoRoute}
        /\ last.route \in Arbitrate(c, "auto", v, a, e, h)
    BY RoutedFacts DEF Routed
  <2>2. /\ last.session \in Sessions => now = Remembered(e, last.route)
        /\ last.session \notin Sessions => now = NoRoute /\ e = NoRoute
    BY DEF RoutingInv, DecisionInv, Routed, Decided, Entry
  <2>3. /\ Primaries(Sub(c, v, "any", h), Met(c, v, "any", h), v)
              = Primaries(Sub(c, v, a, h), Met(c, v, a, h), v)
        /\ Sub(c, v, "any", h) = {} <=> Sub(c, v, a, h) = {}
        /\ Met(c, v, "any", h) = {} <=> Met(c, v, a, h) = {}
    BY <2>1, SamePrimaries
  <2>4. Latches(c, v, now, h) =>
           Arbitrate(c, "auto", v, "any", now, h) = {[now EXCEPT !.why = "latch"]}
    BY DEF Arbitrate
  <2>5. ~Latches(c, v, now, h) =>
           Arbitrate(c, "auto", v, "any", now, h) =
              IF Match(c, v, "any", h) # {} THEN Match(c, v, "any", h) ELSE Emergency(c, v, h)
    BY DEF Arbitrate
  <2> HIDE DEF c, v, a, h, e, now, p
  <2>6. CASE Latches(c, v, e, h) /\ last.route = [e EXCEPT !.why = "latch"]
    <3>1. e \in Routes /\ e # NoRoute
      BY <2>1, <2>6 DEF Latches
    <3>2. last.route = [primary |-> e.primary, fallback |-> e.fallback, why |-> "latch"]
      BY <2>6, <3>1 DEF Routes
    <3>3. now = e
      BY <2>2, <3>1, <3>2 DEF Remembered
    <3>4. [now EXCEPT !.why = "latch"] = last.route
      BY <2>6, <3>3
    <3> QED BY <2>4, <2>6, <3>3, <3>4 DEF p
  <2>7. CASE last.route \in Match(c, v, a, h)
    <3>1. /\ last.route \in Routes /\ last.route.why = "match"
          /\ p \in Primaries(Sub(c, v, a, h), Met(c, v, a, h), v)
      BY <2>1, <2>7, MatchFacts DEF p
    <3>2. now = last.route \/ now = NoRoute
      BY <2>2, <3>1, RoutingAssumption DEF Remembered
    <3>3. CASE Latches(c, v, now, h)
      <4>1. now = last.route
        BY <3>2, <3>3 DEF Latches
      <4>2. [now EXCEPT !.why = "latch"].primary = p
        BY <3>1, <4>1 DEF Routes, p
      <4> QED BY <2>4, <3>3, <4>2
    <3>4. CASE ~Latches(c, v, now, h)
      <4>1. \E r \in Match(c, v, "any", h) : r.primary = p
        BY <2>1, <2>3, <3>1, MatchFacts
      <4>2. Arbitrate(c, "auto", v, "any", now, h) = Match(c, v, "any", h)
        BY <2>5, <3>4, <4>1
      <4> QED BY <4>1, <4>2
    <3> QED BY <3>3, <3>4
  <2>8. CASE /\ ~Latches(c, v, e, h) /\ Match(c, v, a, h) = {}
             /\ last.route \in Emergency(c, v, h)
    <3>1. last.route.why = "emergency"
      BY <2>1, <2>8, EmergencyFacts
    <3>2. now = e
      BY <2>2, <3>1 DEF Remembered
    <3>3. Sub(c, v, "any", h) = {} /\ Met(c, v, "any", h) = {}
      BY <2>1, <2>3, <2>8, MatchFacts
    <3>4. Primaries(Sub(c, v, "any", h), Met(c, v, "any", h), v) = {}
      BY <2>1, <3>3, PrimaryFacts
    <3>5. Match(c, v, "any", h) = {}
      BY <2>1, <3>4, MatchFacts
    <3>6. Arbitrate(c, "auto", v, "any", now, h) = Emergency(c, v, h)
      BY <2>5, <2>8, <3>2, <3>5
    <3> QED BY <2>8, <3>6 DEF p
  <2> QED BY <2>1, <2>6, <2>7, <2>8, AutoRoute
<1> QED BY RoutingSafe, <1>1, PTL
=============================================================================
