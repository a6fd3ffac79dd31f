------------------------------ MODULE Pipeline ------------------------------
(***************************************************************************)
(* The whole verifier: Subscription and Verifier composed over the block   *)
(* queue, the context and the workerGroup they share.  A step of one that  *)
(* touches the queue is a step of both: the loop and the backfills hand    *)
(* over jobs, workers take them, timers put them back.                     *)
(***************************************************************************)
EXTENDS Subscription

CONSTANTS Workers, TxHeights, Attempts,  \* see Verifier
          Copies                         \* bound: how often a height may be handed over

VARIABLES undelivered, queue, delayed, worker, inflight, missing, latestDa, onDA, outage,
          outcomes, verified

Pool == INSTANCE Verifier WITH Deliveries <- Heights \X (1 .. Copies)

ASSUME PoolAssumption == IsFiniteSet(Workers) /\ Attempts \in Nat \ {0}
ASSUME SharedQueueAssumption == QueueCap = Pool!BlockQueueCap /\ Copies \in Nat \ {0}

poolOnly == <<undelivered, queue, delayed, worker, inflight, missing, latestDa, onDA, outage,
              outcomes, verified>>
pipelineVars == <<vars, poolOnly>>

PipelineInit == Init /\ Pool!Init

-----------------------------------------------------------------------------

\* blockQueue <- job{header: header}
HandOver(h) == \E n \in 1 .. Copies : Pool!Deliver(<<h, n>>)

\* The subscription's steps that send nothing.
Receiving ==
    /\ \/ NewBlock \/ AnnounceNew \/ AnnounceAgain \/ Drop
       \/ Start \/ Shutdown \/ SubErr \/ Receive \/ Reconnect \/ ReconnectCancelled \/ Return
       \/ \E b \in backfills : BackfillCap(b) \/ BackfillFetch(b) \/ BackfillFetchFails(b)
                               \/ BackfillSendCancelled(b)
    /\ UNCHANGED poolOnly

Sending == \/ Send /\ HandOver(sending)
           \/ \E b \in backfills : BackfillSend(b) /\ HandOver(b.next)

\* The timers: a job comes back, or is given up.
Timers == \E j \in delayed : \/ Requeue /\ Pool!TimerSend(j)
                             \/ Pool!TimerDrop(j) /\ UNCHANGED vars

TakeJob(w) == Consume /\ Pool!Take(w)

WorkOn(w) == Pool!Work(w) /\ UNCHANGED vars

\* The workers exist from the first subscription on; the last one to exit empties
\* the workerGroup.
WorkerExits(w) ==
    /\ pc \notin {"start", "failed"}
    /\ Pool!Exit(w)
    /\ IF Pool!Stopped' THEN PoolExit ELSE UNCHANGED vars

\* Endpoints and sequencer; a blob belongs to a block there is.
Outside == \/ \E b \in Pool!BlobTypes, h \in 1 .. head : Pool!Submit(b, h) /\ UNCHANGED vars
           \/ Pool!Recover /\ UNCHANGED vars
           \/ Cancel /\ Pool!Cancel

PipelineNext ==
    \/ Receiving \/ Sending \/ Timers \/ Outside
    \/ \E w \in Workers : TakeJob(w) \/ WorkOn(w) \/ WorkerExits(w)
    \/ Ended /\ UNCHANGED pipelineVars

PipelineSpec == PipelineInit /\ [][PipelineNext]_pipelineVars

-----------------------------------------------------------------------------
(* Properties. *)

\* Until the exporter is stopped no block is forgotten on its way: what was received, or
\* fell into a gap, is verified, or a job will look at it, or it is on its way to the
\* queue, or it was dropped by the cap or skipped on a failed fetch.
NothingForgotten ==
    ~cancelled =>
        \A h \in risen \cup InGaps : \A b \in Pool!Required(h) :
            \/ h \in verified[b]
            \/ h \in Pending \cup abandoned \cup skipped
            \/ pc = "send" /\ sending = h
            \/ \E j \in Pool!LiveJobs : Pool!HeightOf(j) = h /\ Pool!PartPending(j, b)

\* Once ExportMetrics has returned no worker touches a metric any more: a slow attempt
\* ends before shutdown's Wait does (verifier.go:117-126 and 141-146).
SilentAfterReturn == [][pc = "returned" => UNCHANGED Pool!metricVars]_pipelineVars
=============================================================================
