# GSTime in TLA+

Specifications, model checks and machine-checked proofs for `gosuda.org/gstime`,
a Go library that serves *certified time*: an interval that contains true time,
built from NTP/NTS sources by a fault-tolerant vote and carried forward by a raw
counter between votes. Paths below are relative to the repository's root (`src/`).

1. [Inventory](#1-inventory) &nbsp; 2. [Plan](#2-plan) &nbsp;
3. [Modules](#3-modules) &nbsp; 4. [Runs](#4-runs) &nbsp;
5. [Disagreements](#5-where-code-and-documentation-disagree) &nbsp;
6. [Proofs](#6-proofs) &nbsp; 7. [Not modelled](#7-what-is-not-modelled)

## 1. Inventory

| Component | State | Operations | Hard about it |
|---|---|---|---|
| Raw clock backends, `clock/raw*.go` | a counter, a continuity token, a generation, a scale envelope | `Read`, `ScaleEnvelope`; the simulated clock's setters | moves between any two operations of anybody; rewinds and resets |
| Continuity guard, `clock/continuity.go` | own token, `initialized`, last reading in three atomics | `Read` | no lock, called by every reader, the writer and every query goroutine |
| Assurance clock, `assurance/` | status, anchor, last round, watermark, generation | `ProcessFullRound`, `BeginHoldover`, `TransitionToDesync`, `EvaluateAt`; `PropagateAnchor` | outward rounding, deadlines, a watermark that outlives everything |
| Clock service, `service.go` | the parts above behind `writerMu` | `publishSyncRound`, `markRoundFailure`, `PublishAssuranceRound`, `Invalidate`, `InitializeEstimate`; `Now`, `After`, `Before`, `PastWatermark`, `CommitWait`, `WaitSync` | writers read a moving clock several times in one transaction; readers hold old snapshots |
| Publication, `publish/` | the active snapshot | `Publish` (guarded), `Acquire` | publication may be refused after the state has changed |
| Sync engine, `sync.go` | `mu`, `pollMu`, `running`, `closed`, `cancel`, wait group | `Start`, `Close`, `loop`, `PollOnce` | three ways to end a poll, two kinds of caller |
| Query round, `sync.go`, `source/assurance.go` | samples of one round | readings, propagation, domain intersection, N-F sweep | the clock changes while the queries are out; up to F domains lie |
| Source querier, NTS, `sync.go`, `nts/` | sessions, keys, cookie jars | `QuerySource`: key establishment, plain and protected queries | one mutex over key establishment, none over the use of a session; cookies in flight when a query fails |
| NTP, `ntp/` | none in a query; reachability register, poll scheduler (unused) | packet codec, `UnfoldNtpSeconds`, `ComputeMeasurement` | era boundaries, every error term of the bound |
| Estimate clock, `clock/estimate.go` | affine mapping with slew | `InitializeAnchors`, `ReanchorContinuity`, `Step`, `Evaluate` | a change of rate or phase in the middle of a slew |
| Public clock, `clock/public.go`, `NowPublicAssured` | highest value returned, smear plan | `ReadPublicInstant`, `SetSmearPlan`, `ReplanSmearFromState`, the symmetric epsilon | compare-and-swap maximum under concurrent readers, replanning half way |
| Leap history, `core/leap.go` | sorted table | conversions between GST, UTC labels and POSIX time | labels around a leap second |
| Others | | configuration, telemetry, regression, SIV/CMAC, examples | none of concurrency; see section 7 |

How they interact. `SyncEngine.PollOnce` reads the clock through the guard,
queries all sources in parallel, propagates every answer to one reading, votes,
and hands the hull to `ClockService.publishSyncRound`; if it fails while its
context lives and the engine is open it calls `markRoundFailure` instead. Every
writer changes the assurance and estimate clocks and then publishes one immutable
snapshot. Readers never lock: they acquire the snapshot, read the raw clock
through the same guard, look at the scale envelope, and propagate.

One query of `PollOnce` is one call of the source querier: for an NTS source it
takes or establishes the endpoint's session, takes a cookie out of its jar, sends,
and turns the four time stamps into a hard interval with the help of the estimate
clock and the leap table. The public clock adds the smear's bias to the
snapshot's estimate and clamps the sum to what it has returned before.

What makes each part correct:

* guard: a reading taken after a reset never carries the token of a call completed
  before it; for one caller at a time, a regression between two reads is seen, and
  nothing else is taken for one;
* assurance and service: a served interval contains true time; `After`, `Before`
  and the watermark certify only what is so; deadlines only come closer between
  rounds; nothing given up comes back without a new round; what the writer
  decided is what readers see; `CommitWait` ends;
* engine: at most one worker; `Close` ends and leaves no worker behind; a call that
  finds the engine closed asks nobody, one whose queries are under way when it is
  closed publishes nothing; a cancelled round is not a failed one; nobody starves;
* round: up to F faulty domains can neither push the hull off true time, nor
  widen it beyond honest answers, nor veto the round;
* query: a measurement holds true time, next to era boundaries and leap seconds
  too, or is refused; a session comes from a complete key exchange; no cookie is
  sent twice, and failures do not use the jar up;
* estimate and public clock: corrections are paid exactly once and never make the
  clock jump; the smear moves no faster than its rate, also when it is replanned,
  and ends on its target; no caller is given less than an earlier call was; the
  reported epsilon covers true time.

`PROJECT.json` lists the hazards behind these, each at its line.

## 2. Plan

Done, in this order: `RawClock`, `AtomicGuard`, `ContinuityGuard` with its proofs;
`Assurance` and `ClockService` with their proofs; `SyncEngine`; `Consensus` and
`SyncRound`; `EstimateClock`, `SmearPlan`, `AtomicMaximum` and `PublicClock` with
their proofs; `LeapHistory`, `NtpMeasurement`, `CookieJar`, `KeyExchange` and
`SourceQuery`; the proofs about `SyncEngine` and `Consensus`; the proof that what
`ClockService` serves holds true time; the proofs about whole rounds, about a single
caller of the guard, about sessions, cookies and leap seconds, about the smear, and
about the interval of an NTP measurement.

To come, most important first:

1. `MeasurementsHoldTruth` for sites next to a leap second, where an interval that
   touches it must be refused.
2. Liveness of the source querier: a query that waits for `ntsMu` gets it.

## 3. Modules

| Module | Models | Notes |
|---|---|---|
| `RawClock` | readings, what a backend may do, one uninterrupted guard read | no state; shared by all that follow |
| `AtomicGuard` | what the guard promises to one caller at a time | abstract specification |
| `ContinuityGuard` | `ContinuityGuard.Read`, an atomic load, store, add or compare-and-swap per step | has the refinement mapping to `AtomicGuard` |
| `Assurance` | `PropagateAnchor` and `AssuranceClock`'s methods, as operators on the state record | shared by `ClockService` and `SyncRound` |
| `ClockService` | the service: world, poll, writer transactions, readers | composes `RawClock` and `Assurance` |
| `Consensus` | `ConsolidateDomainIntervals`, `ComputeCoverageComponents`, `ComputeAssuranceConsensus` | the sweep and the merge as recursive functions; with a definition of coverage that needs no sweep |
| `SyncRound` | the evidence of one `PollOnce` | composes `RawClock`, `Assurance`, `Consensus` |
| `SyncEngine` | `Start`, `Close`, `loop`, the control of `PollOnce` | |
| `EstimateClock` | `EstimateClock`'s operations, each under its mutex and so one step | its evaluation is shared with `PublicClock` |
| `SmearPlan` | `SmearPlan.EvaluateBiasAt`, `ReplanSmearFromState` | operators on plans |
| `AtomicMaximum` | what the clamp promises: one atomic step per call | abstract specification |
| `PublicClock` | `NowPublicAssured` with `ReadPublicInstant`, an atomic operation per step; `ReplanSmearFromState` and `SetSmearPlan`, a step each | composes `EstimateClock` and `SmearPlan`, has the refinement mapping to `AtomicMaximum` |
| `LeapHistory` | the conversions of `core/leap.go` | operators on tables, the walks as recursive functions |
| `NtpMeasurement` | `UnfoldNtpSeconds`, `ComputeMeasurement`, `measureResponse` | operators, over `LeapHistory` |
| `CookieJar` | `nts.CookieJar` | operators on jars; a jar is a function from its cookies to their states |
| `KeyExchange` | `nts.ReadServerResponse`, a record per step | with a definition of a complete message that needs no reader |
| `SourceQuery` | `defaultSourceQuerier`, its sessions, the network and the servers | composes the four above |
| `ContinuityGuardProofs`, `ClockServiceProofs`, `ContainmentProofs`, `SyncEngineProofs`, `AssuranceProofs`, `SyncRoundProofs`, `PublicClockProofs`, `SourceQueryProofs` | theorems | section 6 |
| `MC*` | values and symmetries for the configurations | |

`PROJECT.json` maps every definition to its lines. Beyond that:

**Time.** A true-time instant is counted in units of 1/`One` of an interval's
unit, so that a rate of `s` per counter tick is exact; `One` is `core.OneQ48` in
small. `truth` advances with the counter at any rate of the envelope in force
(that is what the operator asserts by configuring it), and the counter that is
read stays within `ReadBound` of an exact one (`skew`).

**Guard.** `ContinuityGuard` is the lock-free original. `ClockService` and
`SyncRound` read through `GuardAfter`, its uninterrupted version. `ClockService`
adds `FalseAlarm`, since concurrent reads may raise the token for no reason. The
other weakness of concurrent reads, a missed regression (section 5), is assumed
away there: both modules constrain `Rewind` and `Tick` so that a rewound counter
is read before it has caught up (`Unnoticed`), as the comment at
`clock/continuity.go:9-12` demands.

**Writer.** A transaction is a sequence of steps between which the world moves:
lock, first reading, application (which looks at the envelope), for a failed round
the second reading, and publication. `writer.at` is where it stands.

**Reader.** `Acquire`, `ReadRaw`, then an answer that looks at the envelope. The
history variable `wrong` records, at the reading, which calls would answer
wrongly if the snapshot were served; `ServesReader` says whether it is.
`CommitWait` is the same reader in a loop.

**Round and service.** `SyncRound` ends with a hull and `ClockService` starts with
one. `HullHoldsTruth` is what lets the service's runs choose hulls around true
time; `MCClockService!FaultyHulls` drops that assumption where the property does
not need it.

**Engine.** `at[p]` is the next step of each goroutine. A mutex is the name of its
holder. Callers and workers run the same `PollOnce`; a round is reduced to its
queries, its checks and the place where it publishes or reports a failure. The
history variable `caught` records how far each call was when the engine was closed.

**Public clock.** A reader acquires the mapping, reads the counter, adds the bias,
and goes through load, compare-and-swap and the epsilon; the estimate, the plan
and the counter change in between. That a snapshot carries one round's estimate,
and that its interval holds true time at the reading, is what the service's runs
check; here the snapshot is the mapping in force and the interval any that holds
true time (`Slack`), or none. The smear's floating-point seconds become ticks, and
its bias half units, so that the parabolas are exact at whole ticks; a plan exists
in the model where its durations are whole, and there the code's root and quotient
are exact. A change of smear is two calls of the application with no lock around them:
`ReplanSmear` makes a plan from the bias and the rate in force at a reading (`madeAt`),
`SetSmearPlan` stores it later, and anything may happen in between: ticks, a rewind,
reads, or a second plan made in place of the first. One goroutine does this at a time:
two that replan from one and the same plan would have to be ordered by the
application, `PublicClock` has no means to.

**Source query.** The model is of whole exchanges, since a measurement is right or
wrong only about the true time that passed meanwhile. `timeline` is true time at
each position of an exact counter; the counter a query reads is within its read
bound of that. A *scenario* is a place on the time axis (next to a leap second, to
the end of an era, far from both), what the estimate and the operating system's
clock show there, how good the servers' stamps are, and a budget of events. A
server is honest: it stamps unsmeared UTC, off by no more than the root distance
it reports, and truncates to its resolution; in an inserted second it repeats
23:59:59 or is a second ahead (`ServerUnix`); its cookies are distinct. Sessions
and jars are shared: `Enter` takes `ntsMu`, `Read` is one record of a key exchange
under it, `Acquire` and everything behind it run without. `Fail` is a query without
connection or answer; `Refuse` one whose answer is dropped, before its cookies are
taken or after. A label is the POSIX second with a mark for the inserted one: the
calendar in between is formatting.

## 4. Runs

Two TLC workers are enough; each run ends in about two minutes.

| Run | Checks | Instance |
|---|---|---|
| `guard_sequential` | `NoUnseenRegression`, `NoFalseAlarm`, `ReadIsAtomic` | one reader, four calls, two rewinds, two generations |
| `guard_concurrent` | `TypeOK`, `ResetChangesToken` | two readers, two calls each, one rewind, one reset |
| `guard_missed_regression` | `NoUnseenRegression` (violated) | two readers, two calls each; one rewind, while no call is in flight |
| `service_containment` | `IntervalHoldsTruth`, `DecisionsAreCertain`, `SnapshotNotTorn`, `WatermarkIsPast` | one reader, honest hulls, read bound 1, a change of envelope; a reset or an invalidation between two rounds |
| `service_transactions` | `TypeOK`, `PublishedIsCurrent`, `FailureNeverRenews`, `OnlyRoundsRestore`, `RoundNarrows`, `CommitWaitReturns` | wrong hulls too, three holdover limits, rounds of an outside caller, one caller of `CommitWait`, fairness |
| `service_desync` | `DesyncIsFinal` (violated) | an envelope that is invalid for a while |
| `engine_lifecycle` | `OneWorker`, `CloseWaitsForWorker`, `ClosedEngineRefuses`, `ShutdownIsNoFailure`, `CloseReturns`, `PollOnceReturns`, `TypeOK` | two callers, two workers, two sources, three calls, fairness |
| `round_consensus` | `HullHoldsTruth`, `FaultyCannotWiden`, `ConsensusNeverEmpty`, `SweepIsExact`, `TypeOK` | four sources, three domains, F = 1, one change of clock or envelope |
| `public_clock` | `PublicMonotone`, `IsAtomicMaximum`, `EpsilonHoldsTruth`, `CorrectionsArePaidOnce`, `EstimateIsContinuous`, `BiasMovesGently`, `PlansLeadToTarget`, `TypeOK` | two readers, six budgets of calls, ticks, rewinds, anchors, re-anchorings, steps and replans |
| `smear_at_target` | `SmearReachesTarget` (violated) | two plans for one target, the second made when the first has run out |
| `source_query` | `MeasurementHoldsTruth`, `CookiesAreSingleUse`, `NoStarvation`, `SessionIsComplete`, `ConversionsInvert` | two queries, one endpoint, 43 scenarios |
| `query_stray_estimate` | `MeasurementHoldsTruth` (violated) | one plain query, an estimate seven seconds behind that passes an inserted second |

`CHECK_DEADLOCK FALSE` everywhere: the bounds on events, and a closed engine, are
states in which nothing more happens.

**Bounds.** `Budgets` in `MCClockService` says how many events of each kind a
behaviour may hold; within a budget they come in every order and between any two
steps of a transaction. `TransactionBudgets` are: two rounds with two failures and an
invalidation, with a failure and a false alarm, or with a failure and a wait; one round
with a failure, an invalidation and an outside caller's round or estimate; one round
with an outside round and a false alarm or a change of envelope; one round with a
failure and a rewind, a reset or a change of envelope; one round with a wait and an
invalidation or a reset. Combinations that are in none of them (a third round, an
outside round with a rewind, an estimate set by hand with any event of the clock) are
left to the proofs, which bound nothing. `MaxSelect` keeps the selection of rounds
early, so that anchors have time to age; an outside caller may name any reading up to
it and either of the `Deadlines`, an early and a late one. There are holdover
limits that are absent, shorter and longer than the anchor's own life. `CommitWait`
waits for a timestamp that a first round does not always pass, so that a wait can end
by a later round, by an invalidation and by the anchor's expiry.

`ContainmentBudgets` gives two calls of `Now` around a round and a failure, a change of
envelope, a rewind or a false alarm; one call around two rounds or around a reset; and
two rounds with a reset or an invalidation between them and no call, where the
watermark alone is in question. The run reaches propagation with both read bounds, an
expiry (`MaxAge` 2 under `MaxRaw` 3), an interval too wide, and an envelope that
changes in each gap between a reader's steps.

`guard_sequential` has one caller and cannot meet an overtaken reader or a failed
swap; `guard_missed_regression` is about those. In
`guard_concurrent` two readers overlap in every position; a third adds a reading
no different from theirs. In `engine_lifecycle` three calls are enough for
Start-Close-Start, Start-PollOnce-Close, and two Closes beside a poll; the second
worker is a restart after the first one's context ended. In `round_consensus` the
lying domain has two sources or one, its answers are late, early or inverted,
honest answers may be one-sided, so the coverage has one or two components, and
queries may fail. The age limit (`MaxAge` 1) drops answers two ticks old.

`PublicBudgets` in `MCPublicClock` gives, in turn: three calls of two readers, so
that one of them may be overtaken twice; calls with a rewind or a fresh anchor
under them; calls with two replans; a chain of three replans over nine ticks with a
rewind, which takes every kind of plan (braking, triangle, trapezoid) through its end
and into its successor half way, and lets the counter move between the making of a
plan and its store; three re-anchorings, and two and a step, which meet a slew
before it began, half way and after its end. `One` 4 makes every product round,
`MaxSlew` 2 and `SlewSpan` 3 make slews that saturate and slews that do not, in
both directions. `Durations` 0..6 covers every plan between two of the targets
that the ticks can reach; `MaxRate` 2 with `MaxWander` 1 puts the change from
triangle to trapezoid among them.

In `source_query` a second has two units and an era twelve seconds, with the POSIX
epoch seven into it; the tolerance of the coarse time is three, so that with a
wall clock off by as much two eras, one or none may match. Four ticks and one
exchange suffice: each of the four stamps falls before, in and behind the leap
second in some behaviour, with an insertion, a deletion and both. Near a leap second
the estimate is right, since one that strays there is what `query_stray_estimate` is
about; far from leap seconds it is off by up to three units, and the wall clock by as
much as the tolerance. Every error term
of the bound is the smallest that the code's argument needs (`Quantization` 2 covers
a stamp's resolution and its rounding, `MappingError` and `PrecisionFloor` 1), and
one scenario has a read bound. An exchange is shorter than an era less twice the
tolerance, so that no wrong era can match. Cookies need no time: four NTS queries by two
goroutines on one endpoint with `Capacity` 3 and `LowWatermark` 1 fill the jar,
drain it to the watermark, replace a session while the other query uses it, and
lose one cookie in flight; one endpoint, because endpoints share only `ntsMu`. A key
exchange of up to five records (`MaxRecords`), three of them of any kind, repeats,
omits and reorders each type; the usual one is shorter than its limit.

**Fairness.** `ClockService!Fairness`: time passes (weak fairness of `Tick`) and a
goroutine inside a call takes its next step; `CommitWait` sleeps on a timer of
100 µs, so it always asks again. Rounds and failures get none: `CommitWaitReturns`
holds if they stop coming. `SyncEngine!Fairness`: every runnable goroutine runs and
every query ends, since each has a timeout. Strong fairness in two places: a
goroutine waiting for `pollMu` gets it although the worker takes it again and
again, because a Go mutex hands over to a waiter that has waited for a
millisecond; and `select` over a done context and a ticker does not choose the
ticker for ever, because Go chooses uniformly. `CancelContext` and the
application's calls get none. `PublicClock` and `SourceQuery` state no liveness and
assume no fairness: the clamp's loop is lock-free and not wait-free, and how long a
query waits for `ntsMu` depends on its timeout alone.

**Mutants.** `PROJECT.json` names, for each property, a definition changed as a
plausible bug would change it (they sit next to the original, marked as mutants);
TLC then finds the property violated.

## 5. Where code and documentation disagree

Four runs look for a violation and find one.

* *A regression that was missed* (`guard_missed_regression`). Two readers read 1
  and 2 from the backend; the second's compare-and-swap fails against the first's
  store, or both are first reads and the later store wins. The guard remembers 1
  although 2 was handed out, and a rewind from 2 to 1 changes nothing. It needs
  no read in flight while the counter goes back. README.md says an observed
  regression, "including one still above the anchor", invalidates the interval.
* *An invalidation nobody sees* (`service_desync`). The publication guard refuses
  every snapshot while the envelope is invalid, also the one that says DESYNC. The
  caller of `Invalidate` gets an error; readers are served nothing while the
  envelope differs from the anchor's, and the discarded anchor once it is back.
* *A round trip that is a second short* (`query_stray_estimate`). T1 and T4 are POSIX
  projections of the local estimate (`sync.go:360-376`), and `ComputeMeasurement` takes
  T4 - T1 for the time the exchange took (`ntp/measurement.go:95`). An estimate that is
  seconds away from true time, or the wall clock it falls back to, passes an inserted
  second while the server is nowhere near one: the round trip comes out a second short,
  and the hard interval misses true time. The checks of leap seconds look at the
  server's stamps and at the finished interval (`checkUnixInterval`), which are far
  from the leap second both. README.md:33 says that intervals "touching or crossing
  the one-second window on either side of a configured leap transition" are rejected.
  The same scenario with an empty leap table violates nothing.
* *A smear that is already there* (`smear_at_target`). `ReplanSmearFromState` for a
  target that the bias has reached, at rest, returns a plan without segments
  (`clock/public.go:118`), and `EvaluateBiasAt` of such a plan is 0 whatever its
  terminal bias (`clock/public.go:40-42`): the public clock loses the whole bias at
  once, or stands still until the clamp lets go of it. `clock/clock_test.go:158`
  says "Terminal bias must reach target". `PlansLeadToTarget`, which `public_clock`
  checks and `SmearEndsAtRest` proves, says that this is the only such plan: every
  other one ends on its target. `BiasMovesGently` bounds what the store of a plan with
  segments can do to the bias, and says nothing of the store of one without.

Two more the models take into account without a run of their own:

* *A regression that was none.* A reader reads the backend, another overtakes it
  and stores a later counter, and the first takes its own reading for a regression
  (`clock/continuity.go:45`). The token rises and every anchor is unusable until
  the next round. `NoFalseAlarm` therefore is a property of one caller at a time
  (`guard_sequential`), and `ClockService` has an action `FalseAlarm`.
* *A query that outlives Close.* `sync.go:135-136` and `149` wait for the worker; an
  application's own `PollOnce` goes on, also after `Close` has returned. If its
  queries are still under way when the engine is closed it publishes nothing; if it
  is past the second look at `closed` (`sync.go:222`) it may still publish
  (`sync.go:304`). It never reports a failure once it has found the engine closed.
  `ClosedEngineRefuses` says exactly this, of the worker's calls too.

## 6. Proofs

`tlapm` proves every obligation of the eight modules below with Z3, Zenon and LS4.

| Theorem | States | Assumes |
|---|---|---|
| `ContinuityGuardProofs!TypeCorrect` | `Spec => []TypeOK` | `GuardAssumption` |
| `ContinuityGuardProofs!ResetsAreVisible` | `Spec => []ResetChangesToken` | `GuardAssumption` |
| `ContinuityGuardProofs!RegressionsAreSeen` | `Spec => []NoUnseenRegression` | the same, and `OneCaller` |
| `ContinuityGuardProofs!AlarmsAreTrue` | `Spec => []NoFalseAlarm` | the same |
| `ContinuityGuardProofs!ReadTakesEffectAtOnce` | `Spec => ReadIsAtomic` | the same |
| `ClockServiceProofs!TypeCorrect` | `Spec => []TypeOK` | `ServiceAssumption`, `AssuranceAssumption` |
| `ClockServiceProofs!HoldoverNeverRenews` | `Spec => FailureNeverRenews` | the same |
| `ClockServiceProofs!DesyncEndsWithARound` | `Spec => OnlyRoundsRestore` | the same |
| `ClockServiceProofs!TransitionsArePublished` | `Spec => []PublishedIsCurrent` | the same, and that every envelope is valid |
| `ClockServiceProofs!RoundsOnlyNarrow` | `Spec => RoundNarrows` | `ServiceAssumption`, `AssuranceAssumption` |
| `ClockServiceProofs!SnapshotsAreWhole` | `Spec => []SnapshotNotTorn` | the same, and `RoundsOnly` |
| `ContainmentProofs!ServedIntervalHoldsTruth` | `Spec => []IntervalHoldsTruth` | `ServiceAssumption`, `AssuranceAssumption`, `Honest` |
| `ContainmentProofs!CertainMeansCertain` | `Spec => []DecisionsAreCertain` | the same |
| `ContainmentProofs!WatermarkNeverAhead` | `Spec => []WatermarkIsPast` | the same |
| `SyncEngineProofs!EngineTyped` | `Spec => []TypeOK` | `EngineAssumption` |
| `SyncEngineProofs!AtMostOneWorker` | `Spec => []OneWorker` | the same |
| `SyncEngineProofs!CloseLeavesNoWorker` | `Spec => []CloseWaitsForWorker` | the same |
| `SyncEngineProofs!ClosedEngineIsInert` | `Spec => []ClosedEngineRefuses` | the same |
| `SyncEngineProofs!ShutdownIsNotFailure` | `Spec => []ShutdownIsNoFailure` | the same |
| `PublicClockProofs!PublicClockTyped` | `Spec => []TypeOK` | `EstimateAssumption`, `SmearAssumption`, `PublicAssumption` |
| `PublicClockProofs!PublicNeverRunsBack` | `Spec => []PublicMonotone` | the same |
| `PublicClockProofs!ClampIsAtomic` | `Spec => IsAtomicMaximum` | the same |
| `PublicClockProofs!EpsilonIsSound` | `Spec => []EpsilonHoldsTruth` | the same |
| `PublicClockProofs!PaidExactlyOnce` | `Spec => []CorrectionsArePaidOnce` | the same |
| `PublicClockProofs!ReanchoringIsContinuous` | `Spec => EstimateIsContinuous` | the same |
| `PublicClockProofs!SmearMovesGently` | `Spec => BiasMovesGently` | the same |
| `PublicClockProofs!SmearEndsAtRest` | `Spec => []PlansLeadToTarget` | the same |
| `AssuranceProofs!SweepFindsCoverage` | sweep and merge yield exactly the covered points, as components apart | finitely many votes, a threshold of at least one |
| `AssuranceProofs!CoverageIsHonest` | a covered point lies in an honest domain's interval | finitely many domains, at least 2F + 1, at most F faulty |
| `AssuranceProofs!TruthIsCovered` | true time is covered often enough | finitely many domains, at most F faulty |
| `AssuranceProofs!HullIsHonest` | no end of the hull is beyond what every honest domain said | as `CoverageIsHonest` |
| `AssuranceProofs!HullHolds` | the hull holds a point the honest votes share | as `CoverageIsHonest` |
| `SyncRoundProofs!RoundTypeCorrect` | `Spec => []TypeOK` | `RoundAssumption`, `AssuranceAssumption` |
| `SyncRoundProofs!RoundSweepIsExact` | `Spec => []SweepIsExact` | the same |
| `SyncRoundProofs!FaultyNeverWiden` | `Spec => []FaultyCannotWiden` | the same |
| `SyncRoundProofs!RoundHoldsTruth` | `Spec => []HullHoldsTruth` | the same, and `NoEnvelopeReturns` |
| `SyncRoundProofs!RoundNeverEmpty` | `Spec => []ConsensusNeverEmpty` | the same |
| `SourceQueryProofs!SessionsAreComplete` | `Spec => []SessionIsComplete` | `QueryAssumption`, `JarAssumption`, `ExchangeAssumption`, `LeapAssumption` |
| `SourceQueryProofs!CookiesAreSentOnce` | `Spec => []CookiesAreSingleUse` | the same |
| `SourceQueryProofs!CookiesSuffice` | `Spec => []NoStarvation` | the same |
| `SourceQueryProofs!ConversionsAgreeEverywhere` | `Spec => []ConversionsInvert` | the same |
| `SourceQueryProofs!MeasurementsHoldTruth` | `Spec => [](Settled(site) => MeasurementHoldsTruth)` | the same, and `MeasurementAssumption` |

*Resets are visible.* The property speaks of answers, and a token is raised long
before it is answered with. The invariant therefore says of every generation that
the guard has *accepted* it, or that whoever holds a reading of it is still on
the way to raise the token: the words `lastToken`, `lastGen` may be half written,
and the order of the code, `token.Add` before the stores, is what makes each
half-written state harmless. The proof goes through one atomic operation at a
time. Any number of readers; the run covers two.

*One caller.* With `OneCaller` the guard's words can be reasoned about as a whole.
The invariant `SoloInv` says that what the caller has loaded is what is stored
(`Copied`), since nobody else stores; that what the guard remembers is the last
reading it accepted (`Remembered`); and that a token was raised only for a backend
event that was there (`Unalarmed`). `ReadIsAtomic` maps the call to one step of
`AtomicGuard`, at its read of the backend: the steps before it are invisible, and
those after it only write down what that step decided.

*The service.* The inductive invariant is `IInv`: `TypeOK`; the writer's state and
the published one are coherent (anchored exactly if there is an anchor, whose
generation is not above the state's); and the writer's state is *ahead* of the
published one: if both are anchored by the same round, its evidence is the same
and its deadline no later, and an anchor the published state lacks is newer than
it. `FailureNeverRenews` and `OnlyRoundsRestore` compare two published snapshots,
that is, the published state with the writer's at the moment of publication, and
follow from "ahead". Neither is inductive by itself: nothing in either says what
the writer may hold while it has not published. `PublishedIsCurrent` fails when a
publication is refused (section 5); with valid envelopes the proof shows that
generations grow and anchors are ordered, so that it never is.

`RoundNarrows` needs no more than `IInv`. `SnapshotNotTorn` assumes that callers
neither bring rounds (`PublishAssuranceRound` leaves the estimate alone) nor set the
estimate while rounds are published (`RoundsOnly`); then the writer's estimate and
anchor are of one round, and so is what it publishes.

*True time.* The invariant is `CInv`, about *evidence*: an anchor, or the hull of a
round on its way from selection to its transaction. Evidence is *live* while its
token is the guard's, no discontinuity waits to be read and its envelope is in
force. `CInv` says that live evidence holds true time when it is stretched by the
time elapsed since its reading, counted by the exact counter; where that counter
stood at the reading nobody knows, so the invariant says that *some* position
within `ReadBound` of the reading fits (`Good`), and `Propagated`, which allows for
both read bounds, is outside all of them (`Outwards`). An anchor and a hull that a
round will intersect must fit with positions in the right order (`Follows`):
otherwise the intersection, which is about the later of the two readings, would not
follow. Evidence that is not live says nothing but must not come to life again:
every step is shown to be one of `Moves`, where only evidence that was live before
is live after, and at most one tick older. Tokens are never used again
(`GuardAfter`); a rewound counter stays noticeable until it is read (`Unnoticed`).
The watermark needs no liveness: true time does not go back.

`Honest` states what the theorems rest on: hulls hold true time at their selection
(`HullHoldsTruth` of `SyncRound` is about that); no outside caller publishes rounds,
since `PublishAssuranceRound` takes a hull measured earlier and gives it the token
and the envelope of the moment of publication, which is wrong after any change in
between; and an envelope that was left does not come into force again, since nobody
would see that it was gone. The run `service_containment` satisfies `Honest`. Nothing is assumed about valid envelopes, the order of
transactions, deadlines, or the number of readers and events.

*The engine.* `ClosedEngineRefuses` is inductive once it is known that only a closed
engine has caught a call. The other three properties are not: each speaks of `running`,
a worker's end or a failure, and what connects them is in other variables. `IInv`
adds that `running` holds exactly if one worker is alive, that `wg` counts the
workers that have not called `Done` (so that `Wait`'s zero means there is none),
that `closed` is set before a Close cancels and waits and stays so, and that a
poll whose queries were cut short has a context that is done and stands before the
checks that see it. Start's test of `running` and `closed` under `mu`, and the
worker's `running.Store(false)` outside it, are the steps the proof turns on. The
number of goroutines and sources is arbitrary; no fairness is used.

*The public clock.* `PublicMonotone` and `EpsilonHoldsTruth` need that a center, once
there, is not below the candidate it was made from nor above `lastPublic`, that
`lastPublic` never goes down, and that `returned` never exceeds it. With the same
facts every step maps to a step of `AtomicMaximum` or a stutter: the successful
compare-and-swap is the atomic answer, all else of a call is invisible.
`CorrectionsArePaidOnce` evaluates a division at whatever counter there is; the
invariant behind it (`PaidInv`) speaks of the anchor alone, whose loss grows by less
than one unit with each re-anchoring: the floor of the base advance leaves less than
a unit, and the applied phase moves from the debt to the anchor whole. The proof of `ReanchoringIsContinuous` is that at its own anchor a mapping has
neither advance nor applied phase.

*The smear.* A plan's segments are *gentle*: each lasts, has a rate that is a multiple
of the wander and, at both ends, within the maximum; and each begins with the time,
rate and bias its predecessor ends with (`Smooth`). In one tick a segment's bias moves
by the sum of its rates before and after the tick, and at the end of one segment the
next has the same bias, so no tick moves the bias by more than twice the maximum rate
(biases are doubled), and any distance follows from the ticks. A replan begins with the
bias that is there, brakes to a stop because the rate is a multiple of the wander, and
the triangle or trapezoid covers the rest of the way exactly; a triangle does not
exceed the maximum rate because its distance is at most that of two full ramps. Of a
plan that has been made and not stored, the invariant keeps that it starts, at
`madeAt`, from the bias which the plan in force has there (`PlanInv`): ticks and
rewinds leave that alone, since it is about `madeAt` and not about the counter. When
it is stored, both plans have moved away from that common bias, each no faster than
the maximum rate (`PlansDrift`), whichever way the counter has gone since. The rest
position at the end is read off the last segment (`SoundEndsOnTarget`); a plan made
without segments is one for which there was nothing to brake and no way to go.

*The vote.* The sweep's depth at an end point counts the votes that reach beyond the
points swept so far, so that it stands at the threshold exactly where enough votes
overlap; a component is open exactly then; and the merge after it finds nothing that
touches. The rest is counting: N - F votes cannot all be faulty when N is at least
2F + 1, and the honest votes are N - F.

*The round.* As for the service, the evidence of an honest domain holds true time,
stretched by the time since its reading, as long as it is fresh: its token is the
guard's and its envelope the one in force. A round drops what is not fresh and
propagates the rest to one reading, where all honest votes hold true time, and the
vote's lemmas do the rest. `NoEnvelopeReturns` is needed because a round compares
envelopes, and cannot see one that was away in between.

*The sessions.* Of the key exchange, the invariant `Exchanging` says that the reader's
state follows from the records read so far: what was seen, chosen and counted. For
cookies, `Cookies` says that jars share none, that one marked unused was never sent and is in
nobody's hand, and that one in a query's hand is in nobody else's. For supply (`Supplied`), a
jar has at least as many unused cookies as there are queries on their way to it: a
query is sent to a session that has more than `LowWatermark` of them, and at most
`LowWatermark` others can be on their way.

*The leap table.* The walk over the table stops at the transition of the inserted
second it is in, or has added up all transitions before it; `DeltaAt` adds up the same.
Both are recursive functions along the table: that such a function exists and what
it adds up to is proved from the well-foundedness of < on a set of positions, since
the library's induction theorems, which take an operator, cannot be used.

*The measurement.* `Faithful` says of every exchange under way that there are four
positions of the counter, in order, at which the request was sent and stamped and the
answer stamped and received, and that each time stamp taken down so far is true of its
position (`Stage`); it also says that every result is true, and a tick of the clocks
disturbs neither. The position in the middle of the outer two is the one at which the
interval is claimed to hold true time. Twice the distance from the centre to it is at
most the round trip less the server's time, and the allowances for readings, rate,
root distance and stamps; the rounding of two halvings toward zero and of one
downward is what a `Quantization` of at least two absorbs. `Settled` is what the
scenario must give: the last leap second is a second behind true time and the
estimate, and the operating system's clock is off by less than an era, all told.
Nothing is assumed of the path, of the length of the exchange beyond the budget of
ticks, or of the four time stamps. Of the 43 scenarios of `source_query`, 31 are
settled, and measurements are made in them; in the other 12, which lie at leap
seconds, `MeasurementHoldsTruth` is model-checked only.

Model-checked only, besides those: by their nature `CommitWaitReturns`,
`CloseReturns` and `PollOnceReturns`, since liveness under fairness is beyond the
prover.

## 7. What is not modelled

* Widths of integers. Counters and instants are unbounded; the code (also
  `core/leap.go` and `ntp/measurement.go`) checks its sums against 2^63 and 2^64,
  centuries away from any instant it meets.
* `NowUtc`, `NowUnixProjection` and `WaitSync`: they convert or repeat `Now`.
* A change of the estimate between the two readings of one exchange
  (`InitializeEstimate` or a step by the application during a poll): the difference
  of the two is then no round trip, and the code does not look. A round of the
  engine is published after its own queries have returned, so it cannot happen there.
* How much the counter drifts during one exchange: the code allows a fixed amount
  (`sync.go:554`), and the model keeps the drift within it.
* How long a query waits for `ntsMu` while another establishes a key: nothing in
  the code orders or bounds it but the query's own timeout.
* Reachability and the poll scheduler (`ntp/`): nothing in the program calls them.
* Reason codes, the fault budget and thresholds an anchor carries for
  information, and the two debts, which nothing ever sets.
* The primary component and control target of a consensus: computed and dropped.
* Floating point: the regression entirely, the smear's rounding errors.
* Cryptography (SIV, CMAC, TLS, key export), packet and extension-field layout,
  the leap table's text format, configuration hashing, telemetry counters,
  examples.
* An envelope that leaves and returns between two looks, and a rewind that
  catches up unread: the documentation names both as beyond the library.
