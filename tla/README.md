# Formal model of ev-metrics

TLA+ modules for the exporter in this repository: what its goroutines do, the
properties that make its metrics right, TLC configurations that check them on small
instances, and TLAPS proofs of all the safety properties for every instance.
Source paths below are relative to the repository root.

    tlc -workers 2 -config MCVerifierDuplicates.cfg MCVerifier.tla
    tlapm Verifier_proofs.tla     # and the other *_proofs modules

## 1. The system

ev-metrics follows an ev-node chain and reports whether its blocks reach Celestia. One
process runs an errgroup (`pkg/metrics/server.go`) with one function per exporter, the
HTTP server and the server's shutdown. The exporters share one `Metrics` object.

| Component | State | Operations | Hard behaviour | What makes it correct |
|---|---|---|---|---|
| Missing-block ranges (`pkg/metrics/metrics.go` 450-634) | per blob type a slice of inclusive ranges; the series published from it | `RecordMissingBlock`, `RemoveVerifiedBlock` | merge, extend, shrink, split; uint64 wrap; labels that contain the ends; scrapes without the mutex | slices sorted, disjoint, merged; series = slice; behaves as a set; a scrape counts nothing twice |
| Verification pool (`pkg/exporters/verifier/verifier.go` 270-431) | bounded queue, timers, workers, jobs | take, attempt, retry, give up and cool down | duplicate jobs, overtaking workers, outages, readers that also write the queue | a report of a missing blob is revisited; gauges exact; every block settles; workers stop |
| Header subscription and backfills (`verifier.go` 106-268) | subscription, headers channel, `lastHeight`, backfill goroutines | receive, queue, drop and reconnect, backfill, shutdown | drops, repeated headers, blocked loop, concurrent backfills, cancellation anywhere | no height forgotten or counted twice; no leak; shutdown ends |
| Block time metrics (`metrics.go` 658-706) | last arrival time, staleness gauge, histogram | record, refresh, poll | two writers whose moments are taken before the lock, ticker shared with a loop that blocks | histogram observes intervals; the staleness alert fires, and otherwise only by what an overtaken poller adds |
| Celestia client (`internal/clients/celestia/client.go`) | TTL cache, singleflight calls | `GetBlobsAtHeight`, `GetBlockTimestamp` | shared detached fetch, callers with deadlines | one caller's end does not hurt others; emptiness is not remembered |
| Balance exporter (`pkg/exporters/balance/balance.go`) | clients, gauges | scrape with failover | outages in any order | the gauge reaches the balance |
| Drift exporter (`pkg/exporters/drift/drift.go`) | clients, `lastHeight`, gauges per endpoint label | poll | concurrent full-node queries, replies on their way, early return, dead connections, endpoints that redact alike | drift is of one poll and was not overstated when the node answered; availability follows the node |
| Health check (`metrics.go` 775-807, `server.go` 88-97) | four atomics | `SetSubscriptionUp`, `RecordHeaderReceived`, `CheckHealth` | written and read one by one, in different goroutines; a loop that cannot see a drop | every answer is true as far as the loop and the request can know |
| Process lifecycle (`pkg/metrics/server.go`, `cmd/monitor.go`) | errgroup, contexts, exit status | start, fail, signal, drain, exit | first error wins; errors that look like a clean stop | everything stops; a failure is reported |
| JSON-RPC exporter, RPC clients, flags, redaction | none that matters | one request per tick; parsing | - | - |

How they interact: the subscription loop and the backfills send jobs to the queue; the
workers take them, ask ev-node and (through the cache) Celestia, write the metrics and arm
timers that send the job again. The drift poller writes the same last-arrival time as the
loop. The HTTP server reads the gauges and the atomics of the health check while all of
them write. Everything stops through one context, derived by the errgroup.

## 2. Modules

| Module | Models | Composition |
|---|---|---|
| `MissingSet` | what the "unsubmitted" metrics promise: per blob type a set of heights | abstract specification |
| `MissingRanges` | the ranges, their series and total | implements `MissingSet` (`ImplementsMissingSet`, `INSTANCE ... WITH missing <- Covered`) |
| `RangeScrape` | the gauge writes of an operation one by one, with a scrape in between | extends `MissingRanges`; the writes are those of the calls that the action makes |
| `Verifier` | queue, timers, workers, metrics of the rounds | its `missing` is the state of `MissingSet`, so that the proved refinement carries over |
| `Subscription` | main loop, reconnect, backfills, shutdown | the workers are a consumer of `queued` |
| `Pipeline` | the whole verifier | `Subscription` and an instance of `Verifier`, joined at queue, context and workerGroup; implements both |
| `BlockTime` | the three block time functions and their callers | the loop's ticker branch and the poller are here |
| `BlobCache` | cache and shared fetch | callers are the attempts of `Verifier` |
| `Drift` | poll, clients, gauges | - |
| `Lifecycle` | errgroup and exit status | - |
| `Health` | the readiness check | extends `Lifecycle`: its writer is that verifier, its reader that HTTP server; implements it |
| `Balance` | scrape with failover | - |
| `MissingRanges_proofs`, `Verifier_proofs`, `Subscription_proofs`, `BlockTime_proofs`, `BlobCache_proofs`, `Drift_proofs`, `Health_proofs`, `Balance_proofs` | the theorems | each extends its module; `MissingRanges_proofs` extends `RangeScrape`, `Subscription_proofs` extends `Pipeline` and has an instance of `Verifier_proofs`, `Health_proofs` has those of `Lifecycle` too |

Each `MC...` module instantiates one of them (`MCLifecycle` instantiates `Health`,
`MCMissingRanges` instantiates `RangeScrape`); the `.cfg` files give the constants.
Definitions whose comment starts with `mutant:` are deliberately wrong variants of the
definition below them. They are used by no action: substituting one for its definition
must break the property it is paired with in `PROJECT.json`.

### State and actions

**MissingRanges.** `ranges[b]` is the slice `m.ranges[b]`, a sequence of
`[start, end]` records; `published[b]` the label sets that `UnsubmittedRangeStart/End` have
after the operation (the label and both values are determined by the range);
`total[b]` the gauge; `calls` the `deleteRange` and `updateRange` calls of the last
operation, in order, as each branch makes them. Both operations hold `m.mu` and are one action, whose disjuncts are
the code's branches; the deferred `RecordTotalMissingBlocks` is part of both. Heights are
`0 .. MaxHeight` with wrapping increment and decrement, as `uint64` has them.

**RangeScrape.** `Operate` is such an action together with `todo`, the writes that are to
follow: each of `calls` writes the start vector, then the end vector, and the total comes
last. Nothing is derived from the series that should result, so a call that a path forgot,
repeated or made too late would show. `gauges` is what the vectors hold; `Collect` reads
one vector at a time, as the registry's `Gather` does, in any order.

**Verifier.** A job carries its delivery, attempt, whether it was started (the gauge
counts it) and the parts already verified. `Take` is the receive and the start of
`verifyBlock`; `Fetch`, `VerifyHeader`, `VerifyData` are the RPC steps of
`verifyAttempt`, each failing whenever there is an outage or the context is cancelled;
`Finish`, `Retry`, `GiveUp` are its three ends. `enqueueAfter` puts the job among
`delayed`; `TimerSend` and `TimerDrop` are its two select cases. The `onVerified` calls of
one part are a single step although each takes `m.mu` on its own: no property relates
their gauges to each other. A DA height is represented by the height of its block.
`inflight` changes at `Take`, `Finish`, `GiveUp`.

**Subscription.** `pc` is the step of the main loop: `select` (the select), `send`
(blocked on the queue), `backoff` (inside `reconnectSubscription`), `waiting` (in
`workerGroup.Wait`). `live` are the subscriptions the node still serves, numbered by drop;
`sub` is the variable of that name. A backfill is `[next, to, pc]`. `Requeue` is a job that
a worker's timer puts back into the queue. `risen`, `enqueued`, `abandoned`, `skipped` are
history variables of the properties.

**Pipeline.** A step that sends to the queue, takes from it, cancels the context or ends the
last worker is a step of both parts: `HandOver`, `Timers`, `TakeJob`, `WorkerExits`,
`Outside`. Every other step leaves the variables of the other part alone.

**BlockTime.** Moments are represented by their ages, which `Clock` increases, so that
"now minus a moment" is a variable. `arrived` is the state between `time.Now()` and
`RecordBlockTime`, in which the poller may come first. The poller has three steps: the
reference node answers (`PollAnswers`), `poll` reads the clock (`PollReads`), and
`UpdateLastBlockTime` gets the lock and stores that moment (`PollStores`); a header may be
recorded in between. The history `held` is how long the poller held the last moment it
stored, if a header had overtaken it, and 0 otherwise.

**BlobCache.** A caller goes through lookup, missed, waiting, answered, returned; a flight
through fetching, fetched, stored. `Expire` ends the TTL of an entry, `ContextDone` a
caller's context. The keys of `TimeKeys` are those of `GetBlockTimestamp`: the same code
without the emptiness check.

**Drift.** Node 1 is the reference. A query is an answer of the node (`ReferenceAnswers`,
`NodeAnswers`), which puts the height into `reply`, and the recording of the reply
(`RecordReference`, which makes every full node `pending`, and `RecordAnswer`); any amount of
time may pass between the two. `ReferenceFails` is the early return, `NodeFails` that of
one full node. The history `behind` is how far a node was behind when it last answered.
`client[i]` is "dead" when an outage has killed its connection. Gauges are keyed by
`Label`, the redacted endpoint with the suffix of `RedactEndpoints`.

**Lifecycle** keeps of the errgroup its first error and the functions that still run; an
error is a value of `Errors`. **Health** adds the step of the verifier (`stage`) with each
store to `subscriptionSeen`, `subscriptionSince`, `subscriptionUp`, `lastHeaderReceived` an
action of its own, and a request (`check`) with each load an action of its own. `linked`
says whether the node serves the subscription: `Drop` ends it at any moment, and the loop
notices (`Lose`) only in its select, not while it is "sending" to the queue. `Moment` is what
a request can witness at a moment: `Link` tells a subscription that is up from one whose drop
is unnoticed so far. `witnessed` collects the moments of the request in progress, and
`heardBefore` is the age of what had been heard when it began.

**Balance** follows one address. `TryFails(dialled)` says whether a client existed or was
created.

## 3. Runs

Passing runs:

| Run | Instance | Shows |
|---|---|---|
| `MCMissingRanges` | 1 blob type, 5 heights, 1 operation that begins during a scrape | `TypeOK`, `RangesCanonical`, `PublishedMatchesRanges`, `TotalMatchesRanges`: slices canonical, series and total exact; `ImplementsMissingSet`: the refinement; `GaugesSettled`: the calls of each path leave the vectors as the slices are; `NoDoubleCount`, `ScrapeIsOfItsTime`: what a scrape between two writes can show |
| `MCVerifierDuplicates` | one transaction block delivered twice, 2 workers, 2 attempts | `MissingHasJob`: no report that nobody takes back; `InflightIsExact`; `CountedOncePerRound` |
| `MCVerifierLiveness` | 3 blocks, 1 worker (queue of 2), 1 attempt per round | `EverythingSettles` and `WorkersStop` with a full queue; `DaHeightIsHighest` when cooldowns let blocks overtake each other |
| `MCSubscription` | 4 heights, 2 drops, 1 repeated header, cap 1 | `GapLedger`: the counters account for every height of a gap once; `NoLeakedSubscription`; `QuietAfterReturn`; `DropNoticed`, `GapsClose`, `ShutdownReturns` |
| `MCPipeline` | 3 heights, 1 drop, 1 worker, cap 1 | `NothingForgotten`: no block is lost between receipt, backfill, queue, worker and timer; `SilentAfterReturn`: no worker writes after the return |
| `MCBlockTime` | drops, with and without a reference node | `TypeOK`: no negative block time; `IntervalsUnlessPolled`; `NoFalseAlarm`: the gauge exceeds the age of the last header only by what an overtaken poller adds; `StaleChainShown` for a subscription that comes back |
| `MCBlobCache` | 2 callers, blobs and a timestamp | `OthersSurvive`, `NoStaleEmpty`; `ReturnsOnDeadline` with a fetch that hangs |
| `MCBalance` | 2 endpoints, 2 denominations, 2 amounts | `FailoverReaches` |
| `MCDrift` | a reference and 2 full nodes that redact alike | `DriftConsistent`; `DriftNeverOverstates`: of the moment of the answer; `ComesBack`, `OutageShown`: availability follows a node that stays up or down |
| `MCLifecycle` | verifier and 2 pollers, `--duration` and a limit on the header age | `FailureIsReported`, `EverythingStops`; `ReadyIsTrue`, `UnreadyIsTrue`: what a 200 and a 503 of `/health` tell |

Runs that end in a counterexample, each a disagreement between code and documentation:

| Run | Statement | What the code does |
|---|---|---|
| `MCVerifierReported` | `VerifiedNotReportedMissing`; README.md:138, only blobs still unverified are recorded as missing | `verifier.go:361` re-queues a job without `headerDone`/`dataDone`: a header verified in round one can be reported missing in round two |
| `MCBlockTimeDrift` | `BlockTimesAreIntervals`; README.md:195, time between consecutive blocks | `drift.go:113-116` overwrites the baseline: `block_time` observes the time since the last poll |

More differences between code and documentation, or limits of what is promised, are
visible in the models and have no run of their own:

* `verifier.go:167` reconnects inside the loop, which then serves neither the ticker nor
  headers: `time_since_last_block` freezes while the subscription is down, although
  README.md:207 recommends it for alerting on stale blocks. `StaleChainShown` is therefore
  stated for a loop that is infinitely often not reconnecting; otherwise it is reconnecting
  for good in the end, and `/health` is what shows it.
* `drift.go:114` reads the clock before `UpdateLastBlockTime` takes the mutex
  (`metrics.go:679-683`). A header recorded in between is newer than the moment the poller then
  stores, and `time_since_last_block` exceeds the age of the last header (README.md:206) until the
  next header or poll, by the time the poller held its moment. `NoFalseAlarm` says by no
  more than that.
* `verifier.go:203-210`: a loop that is blocked on a full queue does not look at
  `sub.Err()`. `/health` answers 200 although the subscription is down, against README.md:272 and
  `server.go:21-22`. `ReadyIsTrue` counts a drop the loop has not recorded ("unnoticed") as up,
  and is violated without that; `DropNoticed` is what holds instead, that the drop is
  noticed in the end.
* `metrics.go:801-802`: a request that has loaded `lastHeaderReceived` judges it later. A header
  recorded in between does not count, and the answer may be 503 although a header has arrived
  within the limit at every moment of the request (README.md:273). `UnreadyIsTrue` is
  therefore about what had been heard when the request began.
* `verifier.go:253-260`: one failed `HeaderByNumber` during a backfill loses the height for
  good, uncounted (`BackfillFetchFails`; `GapLedger` has to count the skipped heights, and
  `GapsClose` has to allow for them). README.md:11 speaks of every new block.
* `drift.go:101` asks the reference first: a negative drift ("target ahead", README.md:316)
  may only mean that a block came in between. A positive one may be outdated when it is
  recorded, because the node goes on while its reply is on its way (`drift.go:131-141`):
  `DriftNeverOverstates` is about the positive direction at the moment of the answer. And while the reference node is down nothing is said about the full nodes
  (`drift.go:102`): `OutageShown` and `ComesBack` need a reference node that answers.
* `server.go:67` on: while the server drains, `subscriptionUp` keeps its value and `/health`
  still answers 200 after the verifier has returned (the exception `Done` of `ReadyIsTrue`).
* `metrics.go:605`: `WithLabelValues` creates a series at 0 before `Set`; a scrape in between
  shows a range end of 0. The models take both as one write.
* `verifier.go:203-210`: such a blocked loop receives no header either, so that with an age limit `/health` may fail while headers wait in the channel.
* `client.go:131-135`: the cache lookup and `DoChan` are two steps; a caller that missed
  before `cachePut` and shares after the call was forgotten fetches again.
* `balance.go:125`: a denomination that is spent is not in the answer and its gauge keeps
  the last amount.
* `server.go:76-79`: a server shutdown that times out wraps `context.DeadlineExceeded`,
  which `monitor.go:273` takes for the end of `--duration`.

### Bounds

* Five heights (`MaxHeight = 4`) let a slice hold three ranges (0, 2, 4), so that merge,
  split and both wrap-around ends occur next to each other. Blob types share nothing but the
  mutex; the proofs cover any number of them, and remove the bound on heights.
* One operation that begins during a scrape (`MaxOverlaps`), besides the one that may be
  under way when it starts: a scrape collects three vectors and can straddle both.
* Two deliveries of one height and two workers are the smallest instance in which two jobs
  of a block overlap in every way; two attempts separate a retry from the end of a round.
* Three blocks are one more than the queue of a single worker holds: with a full queue
  every sender has to wait for the one reader. One attempt per round keeps the liveness
  check small: a retry and a cooldown re-queue in the same way.
* Four heights, two drops, cap one: a gap longer than the cap, a second drop while it is being
  filled and a repeated header. `queued` has capacity 1 so that sends block. Two gaps whose
  backfills overlap need five heights; for them, and for any number, `GapLedger` is proved.
* `Pipeline`: a drop, a gap of one block and its backfill, one worker whose queue of two
  is shared with timers. Two workers on the same instance (2.1 million states) pass too, but
  take too long to keep. What the bounds leave out, repeated headers and retries above
  all, is in the runs of the parts and in the proofs, which hold of the composition.
* Ages up to 4 with a threshold of 3 leave one tick beyond the alert. `Horizon` is where
  ages stop; the properties compare ages only below it or with `>=`. In `Health` a limit of
  1 and a horizon of 2 tell fresh, at the limit and too old apart; the horizon also stands
  for the zero value of an atomic, which is a moment in 1970.
* A reply, a moment or a blocked send may last any number of steps: `reply`, `poller` and
  the "sending" of `Health` are states, and no fairness ends the last of them.
* Two callers on a key are a starter and a joiner. Keys interact only where `cachePut`
  sweeps entries of other keys that are expired already, which a lookup treats as absent;
  the second key is there because a timestamp has no emptiness check.
* One block (`MaxHeight = 1` in `Drift`) is enough for a node to be behind, equal or ahead
  at any point of a poll. Three nodes with one redacted endpoint are the hard case of the
  labels: two suffixes.
* Symmetry (of workers) is used only in a run without temporal properties.
* `outcomes` in `Verifier` counts up to 2: more than one is already an error.

### Fairness

* A goroutine that can run does (weak fairness of every step of workers, backfills,
  loops). An RPC attempt ends: `verifyAttemptTimeout`, `rpcTimeout`, the 5 s of the server.
  For `HeaderByNumber` and `SubscribeNewHead`, which have no timeout of their own, a return
  is an assumption; that a re-subscription ever succeeds is not assumed.
* Strong fairness for channel sends and the exits of workers and pollers: Go serves blocked
  senders in FIFO order and picks at random among the ready cases of a select, so a case that
  is ready again and again is taken. For the select of the main loop weak fairness is enough
  in `Subscription`, where headers come to an end.
* `EverythingSettles` assumes that outages end and that the sequencer submits;
  `WorkersStop` is about a cancelled context, where every attempt may fail.
* `StaleChainShown` has its assumption about reconnects in its statement; `FairSpec` of
  `BlockTime` assumes nothing of `Reconnect`, and nothing of the reference node's answers
  (`PollAnswers`); a poll that has one goes on.
* `Drift` polls again and again and every query ends; outages come and go as they please,
  and each property names the stability it needs.
* `Health`: the verifier is back in its select again and again, where it notices the end
  (`SF_vars(Stop)`; a send that blocks can end there as well). Nothing is assumed of the
  queue (`Sent`), of drops, of requests or their clients.
* `BlobCache` assumes nothing about fetches, `Lifecycle` nothing about HTTP requests.

## 4. Proofs

Every invariant of a run and every action property that is no liveness property is proved.
The type invariants of `Verifier`, `BlobCache`, `Drift` and `Lifecycle` are proved and not
part of a run. Each theorem holds for every value of the constants that satisfies the named
assumptions of its module: sizes are natural numbers (positive where zero makes no sense),
workers are finitely many, the queue and the header channel have room for one element,
there is an endpoint to ask (`strings.Split` of a flag that is not empty) and no two have
one label (`RedactEndpoints`). In particular the bounds of the runs are gone.

**Missing-block ranges** (`MissingRanges_proofs`): `TypeCorrect`, `CanonicalAlways`
(`RangesCanonical`), `PublishedAlways` (`PublishedMatchesRanges`), `RangesImplementSet`
(`ImplementsMissingSet`), `TotalAlwaysMatches` (`TotalMatchesRanges`).

The inductive invariant of the first four is the conjunction of the three invariants. None is inductive
alone: `findRangeIndex` finds the right place only in a canonical slice, a merge keeps the
slice canonical only because it does, and deleting a series leaves the right ones only
because ranges are pairwise distinct, which canonicity gives. The argument:

1. `InsertAtProperties`, `RemoveAtProperties`: what the slice operations return.
2. `FirstAfterCorrect`, `FindRangeIndexCorrect`: the search returns the range that holds
   the height, or the place where it belongs.
3. `ReplaceOne`, `InsertOne`, `RemoveOne`: a slice stays canonical when a range that fits
   between its neighbours is put there, and which elements it then has.
4. `CoverAdd`, `CoverDrop`: what such a change does to the set of covered heights.
5. One lemma per branch of the two operations, then one step per action.

The wrap-around needs care in step 5: `end + 1 = height` may hold after a wrap, and the
proofs show that it cannot where the code tests it, because the range to the left ends
below the height.

The total is a fold over the slice. Its proof has two halves. `TotalIsSummed`: after every
operation the gauge is what the loop returns for the new slice, and no slice of another blob
type has changed. And what the loop returns is the number of heights the slice covers: an
induction over the number of ranges left to add, written as a least counterexample
(`LeastElement`), because the induction theorems of the library cannot be instantiated by
the provers. Canonicity is needed here as well, since ranges that overlap would be counted
twice.

**Gauge writes and scrapes** (`MissingRanges_proofs`): `ScrapeIsMissingRanges`,
`ScrapeSpec => Spec`, carries the results above over to the writer with single writes.
`GaugesAlwaysSettle` (`GaugesSettled`), `NeverCountsTwice` (`NoDoubleCount`),
`ScrapeAlwaysOfItsTime` (`ScrapeIsOfItsTime`). The invariant `WriterInv` relates the writes that
are left to what the gauges show: a write that is left deletes what was there before the
operation and is to go, or sets what is new (`WritesAreChange`), deletes first
(`DeletesFirst`), and with them done the gauges are right (`ExceptForTodo`). That the
calls of an operation begin like this is shown path by path: `PathCalls` says of each of the
sequences of calls in the code what it deletes and sets, and that its deletes come first;
the step of each branch shows that this is the change of the slice (`Achieves`, `CallsFit`);
`OperationWrites` turns the calls into writes. It follows that a vector shows, at any moment,
part of the old series or part of the new ones, and never a mix of an old series and a new
one that overlap, the ones with the same start included: while something is left to delete
nothing new is there. `ScrapeInv` says the same of what was collected.

**Verification pool** (`Verifier_proofs`): `VerifierTypeCorrect`, `MissingAlwaysHasJob`,
`InflightAlwaysExact`, `AlwaysCountedOnce`, `DaHeightAlwaysHighest`. The invariant they need
is `OneJobEach`: each delivery has at most one job, and that job is in one place only,
undelivered, in the queue, with a timer or with a worker. With it, `NextJobs` sums up
every action of the module as one of seven changes of the set of live jobs (nothing, one
enters, starts, has a part verified, is retried, ends, starts over), or shows that a job was
dropped by a timer, which happens only after the cancellation. Each property is then shown
to survive those seven changes, without the queue, the timers and the workers in sight:

* `MissingHasJob`: a job that ends has verified every part of its height, so that nothing
  of it is missing; one that starts over has all its parts before it.
* `InflightIsExact`: the number of started jobs changes where the gauge does.
* `CountedOncePerRound`: what is counted for a delivery is what its started job has
  verified (`RoundInv`).
* `DaHeightIsHighest`: the gauge is one of the verified heights, and none is above it.

`DeliveredAlwaysLooked` needs those changes once more: until the cancellation, each part of a
delivered block is verified, or that delivery's own job has it before it. A job ends only with
every part verified, and one that starts over forgets what it knew, never what is left to do.

**Subscription** (`Subscription_proofs`): `SubscriptionTypeCorrect`, `NeverLeaks`
(`NoLeakedSubscription`), `AlwaysQuietAfterReturn` (`QuietAfterReturn`), `LedgerAlwaysBalances`
(`GapLedger`), `NeverLosesHeight`. `LinkFollowsLoop` ties the open subscriptions to the step of the loop,
`Filling` says that no backfill outlives `workerGroup.Wait`. `Ledger` strengthens `GapLedger`: backfills
work on disjoint heights, and gaps lie between two headers that came as the highest so
far; then a new gap cannot meet an old one, and every step of a backfill moves one height
from one term of the sum to another. `NoHeightLost` is the same for sets, and also for
headers received one by one: a height is pending in a backfill, being sent, sent, or left
out by the cap or a failed fetch.

**Composition**: `PipelineImplementsParts`, `PipelineSpec => Spec /\ Pool!Spec`. Every step
of the pipeline is a step or a stutter of each part, so that all the safety properties
above hold of the composed verifier, where repeated headers and retries are beyond TLC.
`PoolAlwaysSafe` states those of the pool: the theorems of `Verifier_proofs` are taken from
an instance of it, whose assumptions `PoolAssumption` and the bounds of the subscription
give, and which is shown to be the same specification as the instance in `Pipeline`.
`NothingEverForgotten` (`NothingForgotten`) joins the two parts: a height that was received
or fell into a gap is accounted for on the way to the queue (`NoHeightLost`), one that was sent
has a delivery that was handed over (`SentAreDelivered`), and such a delivery is verified or has
a job that looks at it (`DeliveredAreLooked`).
`AlwaysSilentAfterReturn` (`SilentAfterReturn`) is about both parts: its invariant
`GroupWaits` says that the pool is done only when every worker has exited and that the return
leaves an empty group; a worker that has exited takes no step and nobody starts it again.

**Block time** (`BlockTime_proofs`): `BlockTimeTypeCorrect`, `NeverFalseAlarm`,
`AlwaysIntervalsUnlessPolled`. `BaselineFollowsHeaders`: a poll may make the baseline younger
than the last header, or older by at most `held`, nothing else makes it older, and without
polls it is the last header's. `BoundGrows` is the step of the clock.

**Drift** (`Drift_proofs`): `DriftTypeCorrect`, `AlwaysConsistent` (`DriftConsistent`),
`NeverOverstates` (`DriftNeverOverstates`). `LabelsDistinct` shows that the suffixes keep
any list of endpoints apart; `PollConsistent` speaks of the full nodes that have answered
already; `ReferenceFirst`: the reference height of a poll stays a lower bound of the node's.
With it an answer gives `RepliesOfPoll`: as long as a reply is on its way, the drift it will
show is at most what `behind` recorded at the answer.

**Process and health** (`Health_proofs`): `LifecycleTypeCorrect`,
`FailureAlwaysReported` (its invariant adds `FirstErrorKept`: a failure that came first is the
error of the group, and as long as the end has not begun there is no error and no
cancelled context from which an exporter could return one that takes its place).
`HealthImplementsLifecycle`, `HealthSpec => Spec`, carries both over. `ReadyAlwaysTrue` and
`UnreadyAlwaysTrue` rest on what the writer keeps between its stores (`FlagsFollowLoop`,
`SignIsStored`) and on what each load has established for the rest of the request
(`ReadyOnTheWay`; `NoOlderThanBefore`: what was loaded is no older than what had been heard
when the request began).

**Celestia client** (`BlobCache_proofs`), for every set of callers and of keys:

* `BlobCacheTypeCorrect`.
* `OthersAlwaysSurvive`. The invariant adds where an answer comes
  from: a fetch never ends with a cancellation (`FetchesKeepGoing`), so it never hands one to
  those who wait for it (`AnswersAreOfFetches`); a cancellation is then the caller's own.
* `NeverStaleEmpty`. The invariant says that the cache never holds
  emptiness (`CacheNotEmpty`) and that the fetch such a call can join was begun, and looked,
  when the blobs were there (`MustFind`). The second part is why the property is stated for
  calls that begin with no fetch under way: an older fetch may have looked too early.

**Balance** (`Balance_proofs`): `BalanceTypeCorrect` (`TypeOK`) and `ScrapeAlwaysReports`, an
action property that no run repeats: a scrape ends with every endpoint shown as down, or with
the balance of the first endpoint that answered, which is shown as available and those before
it as down. Its invariant `TriedAreDown` holds in the middle of a scrape, and only because
no two endpoints have one label.

Only model-checked: liveness and everything that depends on fairness, which is out of the
prover's reach. These are `EverythingSettles`, `WorkersStop`, `DropNoticed`, `GapsClose`,
`ShutdownReturns`, `StaleChainShown`, `ReturnsOnDeadline`, `FailoverReaches`, `ComesBack`,
`OutageShown` and `EverythingStops`.

## 5. Not modelled

* Comparison of blobs (commitments, the `DAHeaderEnvelope`), decoding, formatting,
  redaction of one endpoint and error categories: functions of their input with no state.
* SLO gauges, durations, receive delays, error counters: constants or single observations.
* Configuration, flags and creation of clients: sequential, before anything runs.
* RPC clients: thin wrappers, seen as answers and failures of their callers.
* The JSON-RPC exporter: one request per tick and one observation; its end is that of any
  poller of `Lifecycle`.
* An amount of the balance that does not parse (`balance.go:128-135`): it is the text of a
  `math.Int`, which always does.
* The time between the creation of a series and its first `Set`, see the list above.

## 6. What is left

* Liveness of the composition (a height of a gap is verified in the end): its state space
  under fairness is too large for TLC. The runs of the parts have the two halves, `GapsClose`
  up to the queue and `EverythingSettles` from there.
* The safety half of those liveness properties, for every instance: that a state from which
  nothing more can happen is one in which everything is settled.
