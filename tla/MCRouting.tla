----------------------------- MODULE MCRouting -----------------------------
(***************************************************************************)
(* Routing for TLC: two subscription providers, two metered ones, a flash  *)
(* model deep enough for tier 2, a CLI harness, and refreshes that        *)
(* discover two providers and swap the ranking of the subscriptions.       *)
(***************************************************************************)
EXTENDS Routing, TLC

Model(id, provider, billing, access, context, depth, flash, domain, fitness) ==
    [id |-> id, provider |-> provider, billing |-> billing, access |-> access,
     context |-> context, depth |-> depth, flash |-> flash, domain |-> domain,
     fitness |-> fitness, tools |-> ~flash]

\* In legal matters the subscription "pro" may be a specialist; the harness may be
\* rated above it, and "pro" below what it was.
CatalogRanked(proFitness, proDepth, proDomain, cliFitness) ==
    {Model("flash", "subA", "subscription", "http_gateway", 100, 2, TRUE, "none", 50),
     Model("pro", "subB", "subscription", "http_gateway", 100, proDepth, FALSE, proDomain, proFitness),
     Model("cli", "subC", "subscription", "cli_harness", 200, 3, FALSE, "none", cliFitness),
     Model("max", "metA", "metered", "http_gateway", 200, 3, FALSE, "none", 75),
     Model("law", "metB", "metered", "http_gateway", 100, 2, FALSE, "legal", 70)}

\* The catalog before the providers of "flash" and "law" were discovered, and two
\* rankings of the full one.
MCCatalogs ==
    LET first == CatalogRanked(40, 3, "none", 35)
    IN  {{m \in first : m.provider \notin {"subA", "metB"}},
         first,
         CatalogRanked(60, 2, "legal", 95)}

MCTierDepth == 1 :> 1 @@ 2 :> 2 @@ 3 :> 3

Vector(tokens, depth, tier, domain, tools) ==
    [tokens |-> tokens, depth |-> depth, tier |-> tier, domain |-> domain,
     tools |-> tools]

\* The second is a memory-escalated request: less depth than its tier's.
MCVectors ==
    {Vector(5, 1, 1, "none", FALSE), Vector(5, 1, 2, "legal", FALSE),
     Vector(30, 2, 2, "legal", FALSE), Vector(30, 3, 3, "none", FALSE),
     Vector(150, 3, 3, "none", TRUE)}
=============================================================================
