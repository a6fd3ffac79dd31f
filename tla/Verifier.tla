------------------------------ MODULE Verifier ------------------------------
(***************************************************************************)
(* The verification pool of pkg/exporters/verifier/verifier.go: a bounded  *)
(* queue of jobs, the workers that take them, the AfterFunc timers that    *)
(* put them back for a retry or after the cooldown, and the metrics the    *)
(* rounds of verification leave behind.                                    *)
(*                                                                         *)
(* A job is delivered by the subscription loop or by a backfill (module    *)
(* Subscription); the same height may be delivered twice.  The sequencer   *)
(* submits blobs to the DA layer at any time, RPC calls may fail as long   *)
(* as there is an outage or once the context is cancelled.  Time is        *)
(* abstracted: an armed timer may fire at any moment.                      *)
(***************************************************************************)
EXTENDS Integers, Sequences, FiniteSets, FiniteSetsExt

CONSTANTS Workers,      \* the worker goroutines
          Deliveries,   \* deliveries <<height, n>>: n tells apart those of one height
          TxHeights,    \* heights of the blocks that have transactions
          Attempts      \* len(retryIntervals): attempts in one round

ASSUME WorkersAssumption == IsFiniteSet(Workers)
ASSUME AttemptsAssumption == Attempts \in Nat \ {0}
ASSUME DeliveriesAssumption == Deliveries \subseteq (Nat \ {0}) \X Nat

BlobTypes == {"header", "data"}
Heights == {d[1] : d \in Deliveries}
BlockQueueCap == 2 * Cardinality(Workers)

\* The blobs a block must show on the DA layer.
Required(h) == IF h \in TxHeights THEN BlobTypes ELSE {"header"}

Job == [id : Deliveries, attempt : 0 .. Attempts - 1, started : BOOLEAN,
        done : SUBSET BlobTypes]

VARIABLES
    undelivered,  \* deliveries not yet in the queue
    queue,        \* blockQueue
    delayed,      \* jobs held by enqueueAfter timers, fired or not
    worker,       \* per worker: the step it is at, its job, the blobs it saw submitted
    inflight,     \* verifier_inflight_blocks
    missing,      \* per blob type, the heights reported missing (see MissingRanges)
    latestDa,     \* per blob type, Metrics.latestDaHeight and its gauge
    onDA,         \* per blob type, the heights whose blob is on the DA layer
    outage,       \* TRUE while RPC calls may fail
    cancelled,    \* the context is cancelled
    outcomes,     \* history: attempts counted per delivery and blob type in its round
    verified      \* history: per blob type, the heights verified so far

recordVars == <<missing, latestDa, verified>>
metricVars == <<inflight, recordVars, outcomes>>
jobVars == <<undelivered, queue, delayed>>
envVars == <<onDA, outage, cancelled>>
vars == <<jobVars, worker, metricVars, envVars>>

Idle == [pc |-> "idle"]
NewJob(d) == [id |-> d, attempt |-> 0, started |-> FALSE, done |-> {}]
HeightOf(j) == j.id[1]

TypeOK ==
    /\ undelivered \subseteq Deliveries
    /\ queue \in Seq(Job) /\ Len(queue) <= BlockQueueCap
    /\ delayed \subseteq Job
    /\ worker \in [Workers -> {Idle, [pc |-> "exited"]}
                     \cup [pc : {"fetch", "header", "data", "decide"}, job : Job,
                           seen : SUBSET BlobTypes]]
    /\ inflight \in Int
    /\ {missing, verified, onDA} \subseteq [BlobTypes -> SUBSET Heights]
    /\ latestDa \in [BlobTypes -> Heights \cup {0}]
    /\ outcomes \in [Deliveries -> [BlobTypes -> 0 .. 2]]
    /\ {outage, cancelled} \subseteq BOOLEAN

Nowhere == [b \in BlobTypes |-> {}]

Init ==
    /\ undelivered = Deliveries /\ queue = << >> /\ delayed = {}
    /\ worker = [w \in Workers |-> Idle]
    /\ inflight = 0 /\ latestDa = [b \in BlobTypes |-> 0]
    /\ missing = Nowhere /\ verified = Nowhere /\ onDA = Nowhere
    /\ outage \in BOOLEAN /\ cancelled = FALSE
    /\ outcomes = [d \in Deliveries |-> [b \in BlobTypes |-> 0]]

-----------------------------------------------------------------------------
(* The metrics.  The history counter saturates at 2. *)

Bump(n) == IF n < 2 THEN n + 1 ELSE n

\* mutant: the DA height gauge follows the last block verified
RecordLastDaHeight(b, h) == latestDa' = [latestDa EXCEPT ![b] = h]

\* RecordSubmissionDaHeight; a block's height stands for the DA height of its blobs.
RecordSubmissionDaHeight(b, h) ==
    latestDa' = [latestDa EXCEPT ![b] = IF h > @ THEN h ELSE @]

\* onVerified(..., true, ...)
OnVerified(d, b, h) ==
    /\ outcomes' = [outcomes EXCEPT ![d][b] = Bump(@)]
    /\ RecordSubmissionDaHeight(b, h)
    /\ missing' = [missing EXCEPT ![b] = @ \ {h}]
    /\ verified' = [verified EXCEPT ![b] = @ \cup {h}]

\* onVerified(..., false, ...) for every blob type of bs.
OnMissing(d, bs, h) ==
    /\ outcomes' = [outcomes EXCEPT ![d] =
                       [b \in BlobTypes |-> IF b \in bs THEN Bump(@[b]) ELSE @[b]]]
    /\ missing' = [b \in BlobTypes |->
                       IF b \in bs THEN missing[b] \cup {h} ELSE missing[b]]
    /\ UNCHANGED <<latestDa, verified>>

-----------------------------------------------------------------------------
(* The queue and its timers. *)

\* The subscription loop or a backfill sends a new job, when there is space.
Deliver(d) ==
    /\ d \in undelivered
    /\ Len(queue) < BlockQueueCap
    /\ undelivered' = undelivered \ {d}
    /\ queue' = Append(queue, NewJob(d))
    /\ UNCHANGED <<delayed, worker, metricVars, envVars>>

\* The function of an AfterFunc timer sends its job, when there is space ...
TimerSend(j) ==
    /\ j \in delayed
    /\ Len(queue) < BlockQueueCap
    /\ delayed' = delayed \ {j}
    /\ queue' = Append(queue, j)
    /\ UNCHANGED <<undelivered, worker, metricVars, envVars>>

\* ... or gives it up.
TimerDrop(j) ==
    /\ cancelled
    /\ j \in delayed
    /\ delayed' = delayed \ {j}
    /\ UNCHANGED <<undelivered, queue, worker, metricVars, envVars>>

\* mutant: the worker itself waits for space in the queue
SendInPlace(j) ==
    /\ Len(queue) < BlockQueueCap
    /\ queue' = Append(queue, j)
    /\ UNCHANGED delayed

EnqueueAfter(j) == delayed' = delayed \cup {j} /\ UNCHANGED queue

-----------------------------------------------------------------------------
(* The workers. *)

MayFail == outage \/ cancelled

\* processBlocks receives a job and verifyBlock starts on it.  select may prefer
\* the queue to a cancelled context.
Take(w) ==
    /\ worker[w].pc = "idle"
    /\ queue # << >>
    /\ LET j == Head(queue)
       IN  /\ worker' = [worker EXCEPT ![w] = [pc |-> "fetch", seen |-> {},
                                               job |-> [j EXCEPT !.started = TRUE]]]
           /\ IF j.started THEN UNCHANGED <<inflight, outcomes>>
              ELSE /\ inflight' = inflight + 1
                   /\ outcomes' = [outcomes EXCEPT ![j.id] = [b \in BlobTypes |-> 0]]
    /\ queue' = Tail(queue)
    /\ UNCHANGED <<undelivered, delayed, recordVars, envVars>>

\* GetBlockWithBlobs: the DA heights are those of this moment.
Fetch(w) ==
    /\ worker[w].pc = "fetch"
    /\ \/ worker' = [worker EXCEPT ![w].pc = "header",
                                   ![w].seen = {b \in BlobTypes : HeightOf(worker[w].job) \in onDA[b]}]
       \/ MayFail /\ worker' = [worker EXCEPT ![w].pc = "decide"]
    /\ UNCHANGED <<jobVars, metricVars, envVars>>

PartPending(j, b) == b \in Required(HeightOf(j)) /\ b \notin j.done

\* verifyPart for blob type b, which is skipped when it is not pending: GetBlockTimestamp
\* and the blob comparison succeed, or something fails.
VerifyPart(w, b, next) ==
    LET j == worker[w].job
        ready == PartPending(j, b) /\ b \in worker[w].seen
    IN  /\ worker[w].pc = b
        /\ \/ /\ ~ready \/ MayFail
              /\ worker' = [worker EXCEPT ![w].pc = next]
              /\ UNCHANGED metricVars
           \/ /\ ready
              /\ worker' = [worker EXCEPT ![w].pc = next, ![w].job.done = @ \cup {b}]
              /\ OnVerified(j.id, b, HeightOf(j))
              /\ UNCHANGED inflight
        /\ UNCHANGED <<jobVars, envVars>>

VerifyHeader(w) == VerifyPart(w, "header", "data")
VerifyData(w) == VerifyPart(w, "data", "decide")

\* verifyAttempt returned: TRUE if every required part is verified.
Decides(w, complete) ==
    /\ worker[w].pc = "decide"
    /\ complete = (Required(HeightOf(worker[w].job)) \subseteq worker[w].job.done)
    /\ worker' = [worker EXCEPT ![w] = Idle]
    /\ UNCHANGED <<undelivered, envVars>>

\* mutant: the inflight gauge is not lowered
StaysInflight == UNCHANGED inflight

LeavesInflight == inflight' = inflight - 1

Finish(w) ==
    /\ Decides(w, TRUE)
    /\ LeavesInflight
    /\ UNCHANGED <<queue, delayed, recordVars, outcomes>>

AttemptsLeft(j) == j.attempt + 1 < Attempts

\* mutant: the retry forgets what is verified
RetryJobFresh(j) == [j EXCEPT !.attempt = @ + 1, !.done = {}]

RetryJob(j) == [j EXCEPT !.attempt = @ + 1]

Retry(w) ==
    /\ Decides(w, FALSE) /\ AttemptsLeft(worker[w].job)
    /\ EnqueueAfter(RetryJob(worker[w].job))
    /\ UNCHANGED metricVars

\* mutant: an exhausted block is not looked at again
Forgotten(j) == UNCHANGED <<queue, delayed>>

\* After the cooldown the block starts a new round.
CoolDown(j) == EnqueueAfter(NewJob(j.id))

\* The round is exhausted: what is still unverified is reported missing.
GiveUp(w) ==
    LET j == worker[w].job
    IN  /\ Decides(w, FALSE) /\ ~AttemptsLeft(j)
        /\ OnMissing(j.id, Required(HeightOf(j)) \ j.done, HeightOf(j))
        /\ LeavesInflight
        /\ CoolDown(j)

Exit(w) ==
    /\ cancelled
    /\ worker[w].pc = "idle"
    /\ worker' = [worker EXCEPT ![w] = [pc |-> "exited"]]
    /\ UNCHANGED <<jobVars, metricVars, envVars>>

Work(w) == Fetch(w) \/ VerifyHeader(w) \/ VerifyData(w)
           \/ Finish(w) \/ Retry(w) \/ GiveUp(w)

-----------------------------------------------------------------------------
(* The environment. *)

\* The sequencer's submission of a blob becomes visible in ev-node and on the DA layer.
Submit(b, h) ==
    /\ b \in Required(h) /\ h \notin onDA[b]
    /\ onDA' = [onDA EXCEPT ![b] = @ \cup {h}]
    /\ UNCHANGED <<jobVars, worker, metricVars, outage, cancelled>>

\* The endpoints stop failing, for good.
Recover ==
    /\ outage
    /\ outage' = FALSE
    /\ UNCHANGED <<jobVars, worker, metricVars, onDA, cancelled>>

Cancel ==
    /\ ~cancelled
    /\ cancelled' = TRUE
    /\ UNCHANGED <<jobVars, worker, metricVars, onDA, outage>>

\* The pool has stopped; what is left in the queue is never read again.
Stopped == \A w \in Workers : worker[w].pc = "exited"

Next == \/ \E d \in Deliveries : Deliver(d)
        \/ \E j \in delayed : TimerSend(j) \/ TimerDrop(j)
        \/ \E w \in Workers : Take(w) \/ Work(w) \/ Exit(w)
        \/ \E b \in BlobTypes, h \in Heights : Submit(b, h)
        \/ Recover
        \/ Cancel
        \/ Stopped /\ UNCHANGED vars

Spec == Init /\ [][Next]_vars

\* Weak fairness: the scheduler runs a goroutine that can run, every RPC attempt
\* ends (verifyAttemptTimeout), outages end and blobs are eventually submitted.
\* Strong fairness: the runtime serves blocked channel senders in FIFO order, so
\* one that is offered space again and again gets it; select picks at random
\* among ready cases, so an idle worker eventually sees the cancelled context.
\* Deliveries and submissions happen once each: fairness of any one is fairness of all.
Fairness ==
    /\ SF_vars(\E d \in Deliveries : Deliver(d))
    /\ \A d \in Deliveries : SF_vars(\E j \in delayed : j.id = d /\ TimerSend(j))
    /\ WF_vars(\E w \in Workers : Take(w))
    /\ \A w \in Workers : WF_vars(Work(w)) /\ SF_vars(Exit(w))
    /\ WF_vars(\E b \in BlobTypes, h \in Heights : Submit(b, h))
    /\ WF_vars(Recover)

FairSpec == Spec /\ Fairness

-----------------------------------------------------------------------------
(* Properties. *)

\* The jobs that exist, wherever they are.
Held(w) == worker[w].pc \notin {"idle", "exited"}
LiveJobs == {queue[i] : i \in DOMAIN queue} \cup delayed
                \cup {worker[w].job : w \in {x \in Workers : Held(x)}}

\* Every height reported missing is still being worked on: some job of that height
\* will look at that blob again (verifier.go:353-361).  A report nobody would ever
\* take back is impossible, even when two jobs of one height finish in any order.
MissingHasJob ==
    ~cancelled =>
        \A b \in BlobTypes : \A h \in missing[b] :
            \E j \in LiveJobs : HeightOf(j) = h /\ PartPending(j, b)

\* The gauge is the number of blocks between their first attempt and the end of
\* their round, those waiting on a retry timer included (README.md:246).
InflightIsExact == ~cancelled => inflight = Cardinality({j \in LiveJobs : j.started})

\* Attempts are counted once per blob type and round (README.md:173): within a
\* round a blob is counted when it is verified, and once the round is over every
\* required blob was counted exactly once.
CountedOncePerRound ==
    ~cancelled =>
        \A d \in Deliveries :
            LET mine == {j \in LiveJobs : j.id = d /\ j.started}
                OnceEach(bs) == [b \in BlobTypes |-> IF b \in bs THEN 1 ELSE 0]
            IN  outcomes[d] \in IF mine # {} THEN {OnceEach(j.done) : j \in mine}
                                ELSE {OnceEach({}), OnceEach(Required(d[1]))}

\* However verifications overtake each other, the gauge shows the highest DA
\* height among the verified blobs (metrics.go:435-447).
DaHeightIsHighest == \A b \in BlobTypes : latestDa[b] = Max(verified[b] \cup {0})

\* README.md:138: "only the blob types that are still unverified are recorded as
\* missing".  The cooldown re-queues a job that has forgotten which blob types
\* were verified, so a blob verified in one round can be reported in the next.
VerifiedNotReportedMissing == \A b \in BlobTypes : verified[b] \cap missing[b] = {}

\* Unless the exporter is stopped, every delivered block ends up verified in all
\* its parts and off the missing list for good, once endpoints and sequencer work.
EverythingSettles ==
    <>[](cancelled \/ \A d \in Deliveries : \A b \in Required(d[1]) :
                          d[1] \in verified[b] /\ d[1] \notin missing[b])

\* After a cancellation every worker exits, so that shutdown's Wait returns.
WorkersStop == cancelled ~> Stopped
=============================================================================
