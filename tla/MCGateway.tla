----------------------------- MODULE MCGateway -----------------------------
(***************************************************************************)
(* Gateway for TLC: a subscription and a metered provider with one model   *)
(* each, and a CLI harness model of the subscription provider that has no  *)
(* upstream URL.                                                           *)
(***************************************************************************)
EXTENDS Gateway

Model(id, provider, billing, access, resolvable) ==
    [id |-> id, provider |-> provider, billing |-> billing, access |-> access,
     context |-> 100, depth |-> 2, flash |-> FALSE, tools |-> TRUE,
     domain |-> "none", fitness |-> 50, resolvable |-> resolvable]

Pro == Model("pro", "sub", "subscription", "http_gateway", TRUE)
Max == Model("max", "met", "metered", "http_gateway", TRUE)
Cli == Model("cli", "sub", "subscription", "cli_harness", FALSE)

HttpModels == {Pro, Max}
AllModels  == {Pro, Max, Cli}

Ask(want, tokens) ==
    [want |-> want, session |-> "s",
     v |-> [tokens |-> tokens, depth |-> 1, tier |-> 1, tools |-> FALSE,
            domain |-> "none"]]

Latched == {Ask("auto", 5), Ask("auto", 30)}
AnyAsk  == {Ask("auto", 30), Ask("pro", 5), Ask("auto", 5), Ask("cli", 5)}

\* Every provider's breaker, seen with the requests that are at that provider,
\* behaves as module Breaker says: what is checked and proved of Breaker holds
\* of the breakers the gateway's handlers share.
SubscriptionGate == INSTANCE Breaker WITH
    breaker <- gate["sub"], held <- HeldAt("sub"), Callers <- Requests
MeteredGate == INSTANCE Breaker WITH
    breaker <- gate["met"], held <- HeldAt("met"), Callers <- Requests

SubscriptionGateIsBreaker == SubscriptionGate!Spec
MeteredGateIsBreaker      == MeteredGate!Spec
=============================================================================
