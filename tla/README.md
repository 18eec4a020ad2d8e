# Reflex Router in TLA+

Models of the Python gateway in `src/` (FastAPI, one event loop, SQLite and small
JSON files on disk), TLC runs over small instances, and theorems checked by TLAPS.
Every action names in its comment the function it stands for; `PROJECT.json` maps
each definition to its lines.

- [The system](#the-system)
- [Modules](#modules)
- [Runs, bounds and fairness](#runs-bounds-and-fairness)
- [What the runs refute](#what-the-runs-refute)
- [Proofs](#proofs)
- [Not modelled](#not-modelled)
- [Plan](#plan)

## The system

A request for a chat completion is classified into a capability vector, the solver
picks a primary and a fallback model, the circuit breaker of the provider lets the
call through or not, the upstream is called, and the answer is passed on, as a
stream or at once. Beside that, background threads refresh the catalog of models,
decisions are logged for replay, and tasks may be delegated to command line agents.

| Component | State | Operations | What is hard | What makes it correct |
|---|---|---|---|---|
| Circuit breaker (`circuit_breaker.py`) | per provider: state, failure count, cooldown, canary slot and lease | `can_attempt`, `record_success`, `record_failure`, `release_canary`, `is_healthy` | reports carry no identity and arrive late; lost reports; leases; float overflow | fields agree; one canary of record; cooldowns bounded; nobody is denied for ever |
| Solver (`solver.py`, `scoring_spec.*`) | session affinity | `extract_vector`, `arbitrate` | affinity entries outlive refreshes and trips; several override rules | never sheds needlessly, healthy primary, distinct fallback, subscriptions first, deep enough unless in an emergency |
| Gateway (`server.py`) | the handlers under way | `chat_completions`, `preflight_and_stream`, `/v1/route`, `/v1/feedback`, ... | every await lets other handlers trip, probe and reset the same breakers; failover; error paths | each breaker is used as a breaker; an outage that has ended is noticed |
| Stream relay (`server.py:551`) | the generator of one response | heartbeat, disconnect, end, error | a timeout that cancels the read it waits for; silence; disconnects | an end without an error is the end of the body; a gone client releases the upstream |
| Catalog (`catalog.py`) | rows in SQLite, a copy in memory, the epoch, the history | refresh, upsert, snapshot, rescore, restart | threads, several processes on one file, commits one by one, kills | what is cached is stored; refreshes take turns; at rest a catalog is the snapshot of its epoch |
| Decision log (`decision_log.py`) | JSONL records | log, rotate, replay | the stamp is read after the decision; replay swaps the live cache | a record names the catalog it was made from |
| Federation (`federation.py`) | `harness_health.json`, process groups, the working tree | delegate, execute, snapshot, roll back, fall back; trip and reset a harness | processes that outlive their run, concurrent writers, paths that git abbreviates and quotes, nested delegation, a blocking call to itself, a file without a lock | no ping-pong; rollback undoes the failed run and only it; every delegation ends; only a harness that failed is skipped |
| MCP server (`mcp_server.py`) | none | `reflex_delegate`, status tools | its timeout is shorter than the work it waits for | forwards depth and chain |
| Memory (`memory.py`) and classifier (`classifier.py`) | incidents, hit counts, tier metrics in SQLite | record, check, classify | read, then written, by several processes; similarity is not transitive | an escalation has a cause; what was learned is heeded |
| Client (`reflex_client.py`) | none | one call with retries | an abandoned attempt goes on in the server beside its retry | every call ends; a fallback names a cause |
| Auth, config, CLI, installer, Rust port | little or none | | | |

Interactions. Handlers are coroutines of one event loop and share the breaker
registry and the affinity table; the catalog's refresh threads share its in-memory
dictionary with them and its database with other processes; the solver reads the
breakers' state without asking the gate; the server delegates to harnesses, which
may call it back over HTTP or run the command line tool, which shares the harness
health file, the catalog and the working tree with it.

`PROJECT.json` lists the hazards at the line where each bites.

## Modules

`CircuitBreaker` holds the breaker as a record and each method as a function of it:
the methods run under an `asyncio.Lock` and await nothing inside, so a call is one
step. Deadlines are kept as what is left of them (`cooldown`, `lease`).

`Breaker` puts callers around one breaker: grants, every kind of report, lost
reports, expired leases, time. What a caller was let through as is bookkeeping the
code does not have; it is what the properties are about.

`Arbiter` is `arbitrate` as a pure function to the *set* of routes it may return
(ties may go either way); a model's weighted score and its depth are small numbers. A
session's entry is a name: the latch looks the model up in the catalog of the moment
(`Known`), where it may be gone or rated anew. `Routing` runs it for sessions while
breakers flip and refreshes re-rank the models, and replays (`replay_decision`) a
logged decision against the models of its record, which, like any route, is then
remembered for the session (`Replay`, `Remember`). `Records` are what is logged: the
plan, and after a failover or a refused gate the model that ran, which supersedes it;
the audit replay takes its depth from the logged tier (`AuditVector`).

`Gateway` composes `CircuitBreaker` and `Arbiter`: the handler of
`/v1/chat/completions` from one wait for an upstream to the next. `MCGateway` states
that it implements `Breaker` once per provider: with `gate[p]` for `breaker` and what
each handler holds for `held`, every behaviour of the gateway is one of `Breaker!Spec`
(`SubscriptionGateIsBreaker`, `MeteredGateIsBreaker`), which `GatewayProofs` proves for
every provider of any catalog. What is proved of `Breaker` therefore holds of each of
the gateway's breakers.

`StreamRelay` is the generator of one streamed response after its first chunk, with
the upstream and the client as its environment. That a cancelled `__anext__`
finishes httpx's iterator is the behaviour of async generators, modelled from that.

`CatalogHistory` has one action per commit of a refresh (`Store`, `PersistMeta`,
`AppendHistory`) and per change of memory (`Swap`, `Count`), restarts after a kill in
the two reads of `__init__`, the tool's rescore, and a decision with its log record.
Two sets of processes are bookkeeping: `mixed`, those beside which another process has
stored, and `torn`, those that were killed between their commits or have rescored,
until their next finished refresh.

`Delegation` is the waterfall of `delegate_subagent`. The server's delegations hold the
event loop from one await to the next (`HasTheLoop`); the fallback's `urlopen` holds it
too. A process group is `led`, or `orphaned` once its leader has exited; `loose`
processes belong to a run the delegation has left.

The working tree is a function from paths, sequences of names from the root of the
repository, to a file's content in the index and in the work tree. From it follow the
lines of `git status` that the rollback compares (`Status`): the code of a file, and
for untracked ones the topmost directory without anything in the index, which git
names in their place (the blank and the question marks of git's codes are named `same`
and `untracked`). What a line is taken to name is another matter (`Named`): the code
joins git's path, which is relative to the root, with the directory of the delegation
(`cwd`), and takes quotes for a part of the name (`Quoted`). A snapshot may be missing
or empty (`Snapshots`), and a rollback may reach any subset of the files
(`RolledBack`), since `git status`, `git checkout` and a removal may each fail.

`HarnessHealth` is one file of the federation, `harness_health.json`, in the steps
that `Delegation` takes as one: a report reads the file (`Fails`, `Succeeds`), opens
it, which empties it (`Open`), and writes what it made of it (`Close`), so that two
processes may lose each other's reports or leave a text that does not parse (`Torn`).
Opening or writing may also fail, which the code passes over (`WriteFails`). Entries
are kept as what is left of their cooldown.

`Memory` is the table of incidents and `classify_request` on top of it, with the
similarity of prompts and the tier by patterns as constants. A record is `Select` and
then `Write`, by the server or the command line tool. `Client` extends it with
`suggest_route`, one call of at most two attempts, and with the server's handlers of
`/v1/route` and `/v1/feedback`: a request that its client has given up is still on
the `wire` and may be handled beside its retry.

`*Proofs` modules extend the module they are about and hold its theorems and nothing
else; see [Proofs](#proofs).

`MC*` modules give the constants values and symmetry. Definitions marked *Fault* are
plausible bugs next to the definition they replace; no specification uses them. Each
property has one that violates it.

## Runs, bounds and fairness

Passing runs:

| Run | Checks | Bounds |
|---|---|---|
| `breaker` | `TypeOK`, `BreakerConsistent`, `OneCanaryOfRecord`, `CooldownBounded`, `DenialEnds`, `Recovers` | three callers (canary, its replacement, a straggler); 30 s units: cooldown clips at the second doubling, lease 2, a Retry-After beyond both; the overflow of the exponential, at the 1025th failure in a row, scaled down to the fifth (`OverflowAt`), where the failures are followed to (`CountCap`) |
| `routing` | `TypeOK`, `ShedsOnlyWhenNothingFits`, `PrimaryHealthy`, `FallbackDistinct`, `SubscriptionFirst`, `DeepEnoughUnlessEmergency`, `ReplayReproduces` | five models of five providers, one per role (flash, deep subscription, harness, metered, specialist), in three catalogs: one before two of the providers were discovered, one in which the metered models lead, and one in which the deep subscription is a specialist too, but less deep, and the harness is rated above it; thresholds are those of `scoring_spec.yaml` in hundredths; vectors on both sides of each, and one of a memory-escalated request, whose depth is not its tier's; requests for `auto`, for one model that there is and one that there is not |
| `gateway` | `TypeOK`, `SubscriptionGateIsBreaker`, `MeteredGateIsBreaker` | two requests, two modes, two providers, a model without upstream URL, a latched session |
| `relay` | `TypeOK`, `QuietEndIsComplete`, `DisconnectReleases` | up to four chunks: before, between and after heartbeats |
| `catalog` | `TypeOK`, `RestingIsRecorded`, `RefreshesTakeTurns`, `CacheIsStored` | the server and the tool that rescores, two refresh threads each, killed anywhere; one model, which may be missing and has two ratings; two epochs, so that one is used twice; one record followed |
| `delegation` | `TypeOK`, `NoPingPong`, `FailedRunIsUndone`, `EarlierWorkSurvives`, `DelegationEnds` | a delegation of the server and one of the command line, nested in each other or in one made elsewhere (which reaches the depth limit) or side by side; two ready harnesses of a chain of three. Trees: both delegations at the root with one file, tracked, changed or staged before; one delegation in the directory `s` with files `a` and `s/a`, the second tracked or not; one at the root with an untracked directory `s`, a file of which has a name that git quotes |
| `health` | `TypeOK`, `TripIsEarned`, `ReportsAreKept` | two delegations of the server and one of another process, killed anywhere, and writes that fail at either end; two harnesses; a cooldown of one unit and one of two |
| `memory` | `TypeOK`, `OneRowPerPrompt`, `EscalationHasCause`, `AdviceHeedsReports`, `FallbackHasCause`, `CallEnds` | three prompts, of which the first and the last are similar to the second and not to each other, the last meant for tier 3; feedback of tier 3 beside tool errors of tier 2; two different failures (`MaxFailures`), repeated at will; calls about the second prompt (`Asked`); two processes, the server restarting at any step |

What they show. `breaker`: under every interleaving, late report and lost report the
slot has one owner the breaker knows of, and a lost canary delays the next one by its
lease at most, also when the count overflows and a failure does not trip. `routing`:
whatever a session remembers, whichever breakers trip and however refreshes re-rate
the models, the routed model is on a healthy provider and, but for the emergency
route, deep enough, and a request is shed only if no model fits. It says of a replay
what `decision_log.py` says of itself, within the bounds `ReplayReproduces` names: one
prompt, the same breakers, the record of the plan and not of a failover after it, and,
since the access method is not in the record, no harness that is the best model of its
billing. `gateway`: each handler treats each breaker the way `Breaker` assumes, over
all failovers and error paths. `relay`: as long as no heartbeat was sent, the client
can trust a quiet end. `catalog`: what the lock, the order of the commits and the
primary key give, and for which processes; what a kill between two commits or a
rescore leaves apart, the next refresh brings together. `delegation`: with everybody
writing at once, a rollback from the root that reaches all files undoes what the run
has changed, and any rollback from the root leaves the developer's earlier changes
alone as long as nothing beside them is staged by a harness. Each of these conditions
was put there by a counterexample: a delegation below the root, a path in quotes, a
`?? dir/` that falls apart once a file of it is staged. `health`: without a lock, trips
do get lost, but only to reports that overlap and to writes that fail, and no loss,
however torn the file, makes up a trip or prolongs one. `memory`: whatever the client,
its abandoned requests, feedback and a second process do, a tier taken from memory is
that of a failure of a similar prompt, a call is answered with what had been learned
for its prompt before it, and one that gives up can say why.

`CountCap`, `MaxEpoch`, `MaxChunks` and `MaxFailures` are the bounds on counters; each
stops the count (or the start of a refresh), not the behaviour after it.

Fairness. `Breaker!LiveSpec` and `Gateway!LiveSpec` assume that time passes (weak
fairness of `Tick`), that every call ends (httpx's timeouts of 15 and 120 s), that
requests keep being sent and that a provider asked again and again answers in the end
(strong fairness of `Attempt`/`Begin` and `Succeed`/`AnswersOk`): the claims are about
traffic that goes on, and the breaker's own code can do nothing without it. `Recovers`
is therefore about requests that reach the gate: `gateway_stranded` shows that those
which leave the choice of model to the router do not. `StreamRelay!LiveSpec` assumes
only that the event loop runs the generator; the upstream may stay silent for ever.
`Delegation!LiveSpec` assumes that loops run and timeouts fire (`asyncio.wait_for`, the
socket timeout of `urlopen`); no harness ever has to exit by itself. `Client!LiveSpec`
assumes that the client runs and that its timeouts fire; the server need not do
anything.

Deadlock checking is off where a system ends: a stream, a delegation, and the
catalog at its last epoch.

## What the runs refute

Each of these checks one sentence of the documentation, a comment or a test, quoted
in `PROJECT.json`, and finds the code doing otherwise.

| Run | Sentence | What happens |
|---|---|---|
| `breaker_single` | exactly one canary | a straggler's 4xx frees the slot of the canary in flight, and a second one is granted |
| `gateway_stranded` | a probe after the cooldown | the router filters the models of OPEN providers before the gate is asked, so `auto` requests never probe |
| `relay_beat` | non-breaking heartbeat | the timeout behind the first heartbeat cancels the read, and the response ends |
| `catalog_stamp` | the catalog of a decision is pinned | the epoch is read after the decision, which a refresh may overtake |

More were met while modelling and have no run of their own.

- A process group whose leader has exited and been reaped is not signalled at the
  timeout (README.md:110, `terminates all descendants`): `Delegation` has it as
  `TimesOutLeaderless`, and `loose` processes go on writing.
- The memory's tier is returned even where the patterns ask for a higher one
  (README.md:88, `auto-escalates`): `Classified` in `Memory`, after a tool error about
  a prompt of tier 3.
- "Selectively undoes changes introduced during the harness run, safeguarding
  pre-existing dirty files" (federation.py:415) is true neither of a delegation below
  the root, where a new file `x` of the root makes it remove or check out `cwd/x`, nor
  of names that git quotes, which no rollback finds, nor of a file made in a directory
  that was untracked before, which has no line of its own, nor after a snapshot that
  came out empty because `git status` failed. The exit code of `git checkout` is not
  looked at.
- The metered override asks for a lead of more than the threshold of
  `scoring_spec.yaml`, 0.20 (README.md:238 says `>= 0.15`): `Arbiter` compares as the
  code does (solver.py:278).
- "Any past decision is reproducible" (decision_log.py:9): the record of an executed
  fallback is replayed to the plan, the access method is not in any record, and an
  audit replay takes the depth of the logged tier, which a memory-escalated request
  was not routed with.
- At the 1025th failure in a row `record_failure` raises an `OverflowError` after it has
  counted and before it trips (circuit_breaker.py:123): `OnFailure` in
  `CircuitBreaker`.

## Proofs

Eight modules hold theorems. Each states that a property of the runs holds for every
value of the constants, and gets it from an inductive invariant: `Init` implies it,
each action keeps it (a lemma or a case per action), and it implies the property. TLC has
checked each of these invariants on the instance of the component's run before it was
proved. All but two of the safety properties of the passing runs are stated by a
theorem; the two are `SubscriptionGateIsBreaker` and `MeteredGateIsBreaker`, which
`GateIsBreaker` says for every provider at once.

| Module | Theorems about | Inductive invariant |
|---|---|---|
| `BreakerProofs` | `TypeOK`, `BreakerConsistent`, `OneCanaryOfRecord`, `CooldownBounded` | `ConsistentInv` |
| `StreamRelayProofs` | `TypeOK`, `QuietEndIsComplete` | `RelayInv` |
| `RoutingProofs` | `TypeOK`, `ShedsOnlyWhenNothingFits`, `PrimaryHealthy`, `FallbackDistinct`, `SubscriptionFirst`, `DeepEnoughUnlessEmergency`, `ReplayReproduces` | `RoutingInv` |
| `GatewayProofs` | `TypeOK`, the refinement of `Breaker` and what follows from it | `GatewayInv` |
| `CatalogHistoryProofs` | `TypeOK`, `RefreshesTakeTurns`, `CacheIsStored`, `RestingIsRecorded` | `CatalogInv` |
| `DelegationProofs` | `TypeOK`, `NoPingPong`, `FailedRunIsUndone`, `EarlierWorkSurvives` | `LineageInv`, `TreeInv` |
| `HarnessHealthProofs` | `TypeOK`, `TripIsEarned`, `ReportsAreKept` | `HealthInv` |
| `ClientProofs` | `TypeOK`, `OneRowPerPrompt`, `EscalationHasCause`, `FallbackHasCause`, `AdviceHeedsReports` | `ClientInv` |

### Assumptions on the constants

They are the named `ASSUME`s of the modules, and TLC evaluates them on every run.

- `BreakerAssumption`: positive base, maximum and lease, and any `OverflowAt`: the range of
  the float `30.0 * 2 ** n`, beyond which `record_failure` raises between counting and
  tripping. `Gateway` does not model what its handlers do with that exception and
  assumes `CountCap <= OverflowAt` (`GatewayAssumption`).
- `RoutingAssumption`: every catalog is finite, and its numbers are numbers. The ratings
  and thresholds are arbitrary: the code reads them from a file.
- `MemoryAssumption`: finitely many prompts, a prompt is entirely similar to itself
  (true of those that have shingles) and the threshold is not above that; without the
  last a prompt would not even be reminded of itself. `ClientAssumption`: two processes
  write the memory, the server and the tool.
- `CatalogAssumption`: the names the lock uses beside threads are not threads.
- `DelegationAssumption`: a path is a sequence of names, and what is above a path is one;
  no file is above another; a file that is not in the work tree before is not in the
  index either; `Client` is not a delegation. The trees, the directories of the
  delegations and the names that git quotes are arbitrary.

### The arguments

`ConsistentInv`. `OneCanaryOfRecord` and `CooldownBounded` are inductive only with the
types and the agreement of the breaker's fields (`Consistent`) beside them: without
it a grant in HALF_OPEN could find a lease without a slot, and a report could free a
slot that is not the only probe's. Lemmas state what each method does to a consistent
breaker (`OnGrantFacts`, `OnSuccessFacts`, ...). `Backoff` is written with a quantifier
over the doublings rather than a recursive operator so that its bound is within reach.

`RelayInv` adds what `QuietEndIsComplete` alone forgets: until a ping is sent the
iterator is live as long as the generator runs, and nothing was taken that was not sent.

`RoutingInv`. The properties are about `Arbitrate`, which the lemmas describe from its
bottom up: a best model exists in every finite set that is not empty (`BestExists`),
primaries and fallbacks are among the eligible ones (`PrimaryFacts`, `FallbackFacts`),
and `AutoRoute` says which of the four ways out a request for `auto` has taken. The
invariant ties the decision in `last` to the inputs it was made from (`DecisionInv`),
and the session's memory to the decision, which `ReplayReproduces` needs: what a
replay meets in `affinity` is the very route it should reach (`SamePrimaries`).

`GatewayInv` says of the breakers only that each is consistent (`Sound`), and of the
handlers (`Orderly`) that one waiting for the first chunk has reported success and has
no fallback left, and that a fallback is at another provider. That is enough to map
every step to `Breaker`: of the breaker of one provider, chosen by the constant
`Provider` of `GatewayProofs`, a handler's step is one call of one method by one caller,
the passing of time, or a stutter, also where the handler fails over and enters the
gate of the next provider in the same step (`ReportAt`, `ElsewhereKept`,
`LaunchFacts`). `GateIsSafe` is then the theorems of `BreakerProofs`, instantiated at
the provider.

`CatalogInv`. `RestingIsRecorded` speaks of processes at rest; between its commits a
refresh makes it false piece by piece. `HistoryRecorded` says for each point of a
refresh which of cache, table, epoch and history are ahead of which, and that a `torn`
process lacks no more than the snapshot of its rows, so that its next refresh can heal
it; `OthersUnstored` says that a process that is not `mixed` is alone in having stored;
`LockHeld` that no second thread of a process is in between.

`LineageInv` has what `NoPingPong` needs when a harness delegates: the candidate that
runs is outside the chain, so the chain handed on is one longer, as is the depth. It
also has that no delegation is made by its own harness, without which a termination
could end the delegation that terminates. `FailedRunIsUndone` needs no more than that;
it is about what `git status` tells of a file, and its lemma `UntrackedListed` finds the
line that names an untracked file: the topmost of its directories without anything in
the index, the least of a set of numbers, which well-foundedness gives without
induction (`Least`). `EarlierWorkSurvives` needs `TreeInv`: what a line of a snapshot
says of the index still holds, but for what a harness has staged since (`LineOk`). A
line that is new since the snapshot is then not of the file, nor of a directory above
or below it (`NewLinesElsewhere`).

`HealthInv` for `TripIsEarned`: not only what the file holds but what every report is
about to write has been earned (`AllEarned`). For `ReportsAreKept`: as long as no
reports have overlapped there is one at most, and either it or the file has all
that is owed (`InOrder`).

`ClientInv`. `OneRowPerPrompt` is about rows, and breaks between a `Select` that finds
nothing and its `Write`: `TwoRowsAtMost` counts the processes that are about to add.
`AdviceHeedsReports` needs that what a call was owed stays learned (`CallInv`), and
that the failures of an undisturbed prompt are in its only row (`RowsAreLearned`).
`FallbackHasCause` needs that an attempt that failed has left a cause or was the first
429, and that a call never gives up after that one alone (`FailuresExplained`).

### What the attempts found

- `ReplayReproduces` was false in general: the record does not name the access method,
  so a chat completion that may not use a harness is replayed as one that may, and ends
  at a harness where that is the best of its billing. The instance of the run had no such
  catalog; it has one now, and the property names the exception.
- A termination ends the helpers of a run, and had the delegation that terminates been
  among them, its state would have said two things at once. That nothing is its own
  parent had to become a part of `LineageOk`, and `Client` a name no delegation has a
  part of `DelegationAssumption`.
- `EarlierWorkSurvives` does not follow from the file alone not being staged: once a
  harness stages the file beside it, the line of their directory gives way to a new one
  that names the developer's file, which the rollback removes.

### Model-checked only

Liveness (`DenialEnds`, `Recovers`, `DisconnectReleases`, `DelegationEnds`, `CallEnds`):
fairness and ENABLED are out of the prover's reach. The refuted sentences, which are
counterexamples. What a recursive definition computes for every input; none of
the modules has one.

## Not modelled

- Text: pattern matching of the classifier, model name parsing and scoring, tokens
  and cost arithmetic, formats of requests and responses. Tier, domain, score and
  depth are inputs of the models.
- `auth.py`, `config.py`, installer and argument parsing keep no state.
- Counts that are only shown: hits of incidents, requests and errors per tier. The
  rotation of the decision log, where only diagnostics can be lost.
- The cache of the scoring specification: thresholds are constants of every model.
- In `Client`, two prompts with the same shingles (`Alone`) and incidents of a prompt
  without any shingle, which is never similar to anything; feedback of a tier outside
  0..3, which the endpoint takes as it is. The MCP tool's calls are those of the
  client without its retry.
- In `HarnessHealth`, whether a cooldown comes to be heeded in the end: a reader may
  meet the emptied file each time, so nothing can be promised.
- In `CatalogHistory`, a commit of the epoch or the snapshot that fails without a
  crash (a database locked for 30 s) is not an action of its own: the exception is
  dropped, and what follows is what a kill at that point leaves.
- In `Delegation`, harnesses write and stage files that the tree has a path for, and do
  not commit, delete, rename or unstage; the developer stages nothing during a run;
  `git status` and the rollback after it are one step; processes that close their
  output and stay are not followed.
- The Rust port is a smaller program of its own without breakers.

## Plan

Done: breaker and its proofs, arbitration with replay, gateway and refinement, stream
relay, catalog and history, delegation, harness health, memory with classifier and
client.

Proved: the safety properties of every run.

Next, in this order:

1. Theorems where the properties stop short of what the code gives: that a resting
   process of `CatalogHistory` that *is* mixed still serves stored models of stored
   ratings; that a slot of the gateway's breakers is lost only to the lease.
2. The cross-process side of `Delegation` and `HarnessHealth` as one refinement: the
   file's reports as what `tripped` abstracts.
3. Sentences still to be held against the code, where modelling raised a doubt: that an
   agent is never downgraded and a protected domain never sent to a flash model (the
   emergency route and the latch skip those checks), that every failure path releases
   the slot (a raising stream relies on the lease), that a canary's failure escalates
   the backoff (the status line resets it first), that every refresh appends a snapshot
   (a kill between commits, two processes at one epoch), that a rollback takes back all
   of a run and nothing else (as a run of its own: what it does below the root, and
   after an empty snapshot), and that the server can answer its own fallback.
