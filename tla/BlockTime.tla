------------------------------ MODULE BlockTime ------------------------------
(***************************************************************************)
(* The block time metrics: lastBlockArrivalTime, the block_time histogram  *)
(* and the time_since_last_block gauge of pkg/metrics/metrics.go, written  *)
(* by the main loop of the verifier (on a header and on its ticker) and by *)
(* the poller of pkg/exporters/drift/drift.go.                             *)
(*                                                                         *)
(* A moment is represented by its age, which the clock increases up to     *)
(* Horizon.  Each of the three metric functions holds Metrics.mu: it is    *)
(* one step.  The moments that the loop and the poller hand to them are    *)
(* taken before the lock is, and grow older until the step.                *)
(***************************************************************************)
EXTENDS Integers

CONSTANTS Horizon,     \* bound: ages stop growing here
          StaleAfter   \* the age an alert asks for (60 s, README.md:208)

ASSUME HorizonAssumption == Horizon \in Nat /\ StaleAfter \in 1 .. Horizon

Never == -1
Ages == 0 .. Horizon

VARIABLES
    lastArrival,  \* age of lastBlockArrivalTime, Never if the chain has no entry
    gauge,        \* time_since_last_block_seconds
    observed,     \* last observation of the block_time histogram
    loop,         \* step of the main loop: waiting in select, holding a header ...
    arrival,      \* age of arrivalTime, while the loop holds a header
    header,       \* a header waits in the channel
    polled,       \* a reference node is configured, so that the drift exporter runs
    refAhead,     \* the reference node is above the drift exporter's lastHeight
    poller,       \* step of poll: idle, answered, holding the moment it read
    pollMoment,   \* age of that moment, while the poller holds it
    halted,       \* the chain has stopped producing blocks
    lastHeader,   \* history: age of the last header recorded
    interval,     \* history: time between the last two headers recorded
    held          \* history: age of the last moment stored if a header had overtaken it, else 0

metricVars == <<lastArrival, gauge, observed>>
loopVars == <<loop, arrival>>
pollVars == <<poller, pollMoment>>
chainVars == <<header, polled, refAhead, halted>>
historyVars == <<lastHeader, interval, held>>
vars == <<metricVars, loopVars, pollVars, chainVars, historyVars>>

TypeOK ==
    /\ lastArrival \in Ages \cup {Never}
    /\ gauge \in Ages
    /\ {observed, interval} \subseteq Ages \cup {Never}
    /\ loop \in {"select", "arrived", "sending", "reconnecting"}
    /\ poller \in {"idle", "answered", "holding"}
    /\ {arrival, pollMoment, held} \subseteq Ages
    /\ {header, polled, refAhead, halted} \subseteq BOOLEAN
    /\ lastHeader \in Ages \cup {Never}

Init ==
    /\ lastArrival = Never /\ gauge = 0 /\ observed = Never
    /\ loop = "select" /\ arrival = 0
    /\ poller = "idle" /\ pollMoment = 0
    /\ header = FALSE /\ polled \in BOOLEAN /\ refAhead \in BOOLEAN /\ halted = FALSE
    /\ lastHeader = Never /\ interval = Never /\ held = 0

-----------------------------------------------------------------------------
(* The environment. *)

Older(age) == IF age = Never \/ age = Horizon THEN age ELSE age + 1

Clock ==
    /\ lastArrival' = Older(lastArrival)
    /\ lastHeader' = Older(lastHeader)
    /\ arrival' = IF loop = "arrived" THEN Older(arrival) ELSE 0
    /\ pollMoment' = IF poller = "holding" THEN Older(pollMoment) ELSE 0
    /\ UNCHANGED <<gauge, observed, loop, poller, interval, held, chainVars>>

\* A block: the subscription, if there is one, announces it, the reference node has it.
NewBlock ==
    /\ ~halted
    /\ header' \in {header, loop # "reconnecting"}
    /\ refAhead' = TRUE
    /\ UNCHANGED <<metricVars, loopVars, pollVars, polled, halted, historyVars>>

Halt ==
    /\ ~halted
    /\ halted' = TRUE
    /\ UNCHANGED <<metricVars, loopVars, pollVars, header, polled, refAhead, historyVars>>

-----------------------------------------------------------------------------
(* The metric functions. *)

\* mutant: the gauge is left to the ticker
SetBaseline(age) == lastArrival' = age /\ UNCHANGED gauge

\* updateLastBlockTimeUnsafe, with an arrival time of that age
UpdateLastBlockTimeUnsafe(age) == lastArrival' = age /\ gauge' = 0

\* mutant: negative durations are observed as well
RecordAnyBlockTime ==
    /\ observed' = IF lastArrival # Never THEN lastArrival - arrival ELSE observed
    /\ UpdateLastBlockTimeUnsafe(arrival)

\* RecordBlockTime
RecordBlockTime ==
    /\ observed' = IF lastArrival # Never /\ lastArrival > arrival
                   THEN lastArrival - arrival ELSE observed
    /\ UpdateLastBlockTimeUnsafe(arrival)

\* mutant: the refresh restarts the measurement
RefreshRestarts == IF lastArrival = Never THEN UNCHANGED <<lastArrival, gauge>>
                   ELSE lastArrival' = 0 /\ gauge' = lastArrival

\* UpdateTimeSinceLastBlock
UpdateTimeSinceLastBlock ==
    /\ gauge' = IF lastArrival = Never THEN gauge ELSE lastArrival
    /\ UNCHANGED lastArrival

-----------------------------------------------------------------------------
(* The main loop. *)

\* The header leaves the channel and arrivalTime is taken ...
Arrive ==
    /\ loop = "select" /\ header
    /\ loop' = "arrived" /\ arrival' = 0
    /\ header' = FALSE
    /\ UNCHANGED <<metricVars, pollVars, polled, refAhead, halted, historyVars>>

\* ... and is recorded; a header that arrived at the same moment as the one before
\* is not observed.
Record ==
    /\ loop = "arrived"
    /\ RecordBlockTime
    /\ interval' = IF lastHeader # Never /\ lastHeader > arrival
                   THEN lastHeader - arrival ELSE interval
    /\ lastHeader' = arrival /\ held' = 0
    /\ loop' = "sending" /\ arrival' = 0
    /\ UNCHANGED <<pollVars, chainVars>>

\* The job has been sent to the queue.
Sent ==
    /\ loop = "sending"
    /\ loop' = "select"
    /\ UNCHANGED <<metricVars, arrival, pollVars, chainVars, historyVars>>

\* The branch on refreshTicker.
Refresh ==
    /\ loop = "select"
    /\ UpdateTimeSinceLastBlock
    /\ UNCHANGED <<observed, loopVars, pollVars, chainVars, historyVars>>

Drop ==
    /\ loop = "select"
    /\ loop' = "reconnecting"
    /\ UNCHANGED <<metricVars, arrival, pollVars, chainVars, historyVars>>

Reconnect ==
    /\ loop = "reconnecting"
    /\ loop' = "select"
    /\ UNCHANGED <<metricVars, arrival, pollVars, chainVars, historyVars>>

-----------------------------------------------------------------------------
(* The drift exporter. *)

\* The reference node answers with a height above lastHeight.  A query that fails touches
\* none of this.
PollAnswers ==
    /\ polled /\ refAhead
    /\ poller = "idle" /\ poller' = "answered"
    /\ refAhead' = FALSE
    /\ UNCHANGED <<metricVars, loopVars, pollMoment, header, polled, halted, historyVars>>

\* With the reply, poll reads the clock for the argument of UpdateLastBlockTime ...
PollReads ==
    /\ poller = "answered" /\ poller' = "holding"
    /\ pollMoment' = 0
    /\ UNCHANGED <<metricVars, loopVars, chainVars, historyVars>>

\* ... which locks Metrics.mu and stores the moment, whatever was stored meanwhile.
PollStores ==
    /\ poller = "holding" /\ poller' = "idle"
    /\ UpdateLastBlockTimeUnsafe(pollMoment)
    /\ held' = IF lastHeader # Never /\ lastHeader < pollMoment THEN pollMoment ELSE 0
    /\ pollMoment' = 0
    /\ UNCHANGED <<observed, loopVars, chainVars, lastHeader, interval>>

-----------------------------------------------------------------------------

Next == Clock \/ NewBlock \/ Halt \/ Arrive \/ Record \/ Sent \/ Refresh
        \/ Drop \/ Reconnect \/ PollAnswers \/ PollReads \/ PollStores

Spec == Init /\ [][Next]_vars

\* Time passes, the queue takes the job, the ticker and the headers share select
\* (strong fairness: it picks at random).  That a dropped subscription ever comes back
\* is not assumed, nor that the reference node answers: the nodes may be gone.
FairSpec == Spec /\ WF_vars(Clock) /\ SF_vars(Arrive) /\ WF_vars(Record) /\ WF_vars(Sent)
                 /\ SF_vars(Refresh) /\ WF_vars(PollReads) /\ WF_vars(PollStores)

-----------------------------------------------------------------------------
(* Properties. *)

\* "Time between consecutive blocks" (README.md:195): what the histogram observes
\* is the time between two headers received one after the other.
BlockTimesAreIntervals == observed = interval

\* It is as long as no reference node is polled, across drops and refreshes.
IntervalsUnlessPolled == ~polled => observed = interval

\* The gauge makes the chain look staler than its last header says only if that header
\* was recorded while the poller held an older moment, and then by no more than the poller
\* held it: an alert on the gauge (README.md:207-208) whose threshold allows for that is
\* not raised while headers are recorded.
NoFalseAlarm == lastHeader # Never => gauge <= lastHeader + held

\* A chain that produced blocks and has halted.
Stale == halted /\ lastArrival # Never

\* "Use this metric for alerting on stale blocks" (README.md:207): if a subscription that
\* drops always comes back, the gauge passes the alerting threshold after a halt, and
\* stays there.
StaleChainShown ==
    []<>(loop # "reconnecting") => (Stale ~> [](gauge >= StaleAfter))
=============================================================================
