---------------------------- MODULE Subscription ----------------------------
(***************************************************************************)
(* The subscription side of pkg/exporters/verifier/verifier.go: the main   *)
(* loop of ExportMetrics, the reconnection of the header subscription and  *)
(* the backfills of the gaps it leaves.                                    *)
(*                                                                         *)
(* The chain grows, the WebSocket connection drops, a reorganisation may   *)
(* announce an old height again, and the context may be cancelled, all at  *)
(* any moment.  The workers (module Verifier, composed with this one in    *)
(* Pipeline) are only seen as something that takes jobs from the queue and *)
(* puts some of them back.  The loop's ticker is in module BlockTime.      *)
(***************************************************************************)
EXTENDS Integers, Sequences, FiniteSets

CONSTANTS MaxHead,      \* bound: the height the chain reaches
          MaxDrops,     \* bound: how often the connection drops
          MaxReorgs,    \* bound: how often an old height is announced again
          HeaderCap,    \* capacity of the headers channel (10 in the code)
          QueueCap,     \* capacity of blockQueue (2 * workers in the code)
          MaxBackfill,  \* maxBackfill (1000 in the code)
          MaxBackoff    \* maxBackoff in units of reconnectBackoff (12 in the code)

ASSUME CapsAssumption ==
    /\ HeaderCap \in Nat \ {0} /\ QueueCap \in Nat \ {0}
    /\ MaxBackfill \in Nat \ {0} /\ MaxBackoff \in Nat \ {0}
ASSUME BoundsAssumption == MaxHead \in Nat \ {0} /\ MaxDrops \in Nat /\ MaxReorgs \in Nat

Heights == 1 .. MaxHead

VARIABLES
    head,        \* height of the chain
    position,    \* last new height the current subscription announced
    live,        \* subscriptions that are established, by number
    dropped,     \* the current subscription has an error waiting on sub.Err()
    drops,       \* drops so far (bounded by MaxDrops)
    reorgs,      \* reorganisations so far (bounded by MaxReorgs)
    cancelled,   \* the context is cancelled
    poolDone,    \* every worker has exited
    pc,          \* the step the main loop is at
    sub,         \* number of the subscription held in the variable sub
    headers,     \* the headers channel
    sending,     \* height of the header the loop is sending to the queue
    lastHeight,  \* lastHeight
    backoff,     \* backoff of reconnectSubscription
    queued,      \* len(blockQueue)
    backfills,   \* the backfill goroutines: the heights left and the step
    up,          \* Metrics.subscriptionUp
    backfilled,  \* verifier_backfilled_blocks_total
    droppedTotal,\* verifier_backfill_dropped_total
    enqueued,    \* history: heights sent to the queue
    abandoned,   \* history: heights dropped by the cap
    skipped,     \* history: heights whose header could not be fetched
    risen        \* history: received heights that were higher than lastHeight

nodeVars == <<head, position, live, dropped, drops, reorgs>>
recvVars == <<headers, sending, lastHeight, risen>>
linkVars == <<sub, backoff, up>>
loopVars == <<pc, recvVars, linkVars>>
fillVars == <<backfills, backfilled, droppedTotal, abandoned, skipped>>
queueVars == <<queued, enqueued>>
stopVars == <<cancelled, poolDone>>
poolVars == <<fillVars, queueVars, stopVars>>
vars == <<nodeVars, loopVars, poolVars>>

Backfill == [next : Heights, to : Heights, pc : {"cap", "fetch", "send"}]

TypeOK ==
    /\ {head, position, sending, lastHeight} \subseteq 0 .. MaxHead
    /\ live \subseteq 0 .. MaxDrops /\ sub \in 0 .. MaxDrops
    /\ drops \in 0 .. MaxDrops /\ reorgs \in 0 .. MaxReorgs
    /\ {dropped, cancelled, poolDone, up} \subseteq BOOLEAN
    /\ pc \in {"start", "select", "send", "backoff", "waiting", "returned", "failed"}
    /\ headers \in Seq(Heights) /\ Len(headers) <= HeaderCap
    /\ backoff \in 1 .. MaxBackoff /\ queued \in 0 .. QueueCap
    /\ backfills \subseteq Backfill /\ {backfilled, droppedTotal} \subseteq Nat
    /\ enqueued \cup abandoned \cup skipped \cup risen \subseteq Heights

Init ==
    /\ head \in 0 .. 1 /\ position = 0 /\ live = {} /\ dropped = FALSE /\ drops = 0 /\ reorgs = 0
    /\ pc = "start" /\ sub = 0 /\ backoff = 1 /\ up = FALSE
    /\ headers = << >> /\ sending = 0 /\ lastHeight = 0 /\ risen = {}
    /\ backfills = {} /\ backfilled = 0 /\ droppedTotal = 0 /\ abandoned = {} /\ skipped = {}
    /\ queued = 0 /\ enqueued = {} /\ cancelled = FALSE /\ poolDone = FALSE

-----------------------------------------------------------------------------
(* The chain, its node and the WebSocket connection. *)

Established == sub \in live

NewBlock ==
    /\ head < MaxHead
    /\ head' = head + 1
    /\ UNCHANGED <<position, live, dropped, drops, reorgs, loopVars, poolVars>>

\* The subscription sends a header to the channel, when there is space.
Announce(h) ==
    /\ Established
    /\ Len(headers) < HeaderCap
    /\ headers' = Append(headers, h)
    /\ UNCHANGED <<head, live, dropped, drops, pc, sending, lastHeight, risen, linkVars, poolVars>>

AnnounceNew ==
    /\ position < head
    /\ position' = position + 1
    /\ Announce(position + 1)
    /\ UNCHANGED reorgs

AnnounceAgain ==
    /\ reorgs < MaxReorgs
    /\ reorgs' = reorgs + 1
    /\ \E h \in 1 .. position : Announce(h)
    /\ UNCHANGED position

\* What the subscription has not sent to the channel yet is lost.
Drop ==
    /\ Established
    /\ drops < MaxDrops
    /\ drops' = drops + 1
    /\ live' = live \ {sub}
    /\ dropped' = TRUE
    /\ UNCHANGED <<head, position, reorgs, loopVars, poolVars>>

Cancel ==
    /\ ~cancelled
    /\ cancelled' = TRUE
    /\ UNCHANGED <<nodeVars, loopVars, fillVars, queueVars, poolDone>>

\* A worker takes a job.
Consume ==
    /\ ~poolDone /\ queued > 0
    /\ queued' = queued - 1
    /\ UNCHANGED <<nodeVars, loopVars, fillVars, enqueued, stopVars>>

\* A worker's timer puts a job back: the queue is not the loop's alone.
Requeue ==
    /\ enqueued # {} /\ queued < QueueCap
    /\ queued' = queued + 1
    /\ UNCHANGED <<nodeVars, loopVars, fillVars, enqueued, stopVars>>

\* The last worker has seen the cancelled context.
PoolExit ==
    /\ cancelled /\ ~poolDone /\ pc \notin {"start", "failed"}
    /\ poolDone' = TRUE
    /\ UNCHANGED <<nodeVars, loopVars, fillVars, queueVars, cancelled>>

-----------------------------------------------------------------------------
(* The main loop. *)

\* SubscribeNewHead returned subscription n: it announces what comes after this moment.
Subscribed(n) ==
    /\ sub' = n
    /\ live' = live \cup {n}
    /\ dropped' = FALSE
    /\ position' = head
    /\ UNCHANGED <<head, drops, reorgs>>

\* The first subscription; the work pool is started right after it.
Start ==
    /\ pc = "start"
    /\ \/ pc' = "select" /\ up' = TRUE /\ Subscribed(0)
       \/ pc' = "failed" /\ UNCHANGED <<up, sub, nodeVars>>
    /\ UNCHANGED <<backoff, recvVars, poolVars>>

\* mutant: the first subscription is captured by value
UnsubscribeFirst == live' = live \ {0}

\* sub.Unsubscribe() in shutdown
Unsubscribe == live' = live \ {sub}

\* The two branches on ctx.Done() that call shutdown.
Shutdown ==
    /\ pc \in {"select", "send"} /\ cancelled
    /\ Unsubscribe
    /\ pc' = "waiting"
    /\ UNCHANGED <<head, position, dropped, drops, reorgs, recvVars, linkVars, poolVars>>

\* mutant: the health flag is left alone until the subscription is back
StillUp == TRUE

Down == FALSE

\* The branch on sub.Err(); the subscription has already ended, Unsubscribe does nothing.
SubErr ==
    /\ pc = "select" /\ dropped
    /\ up' = Down
    /\ pc' = "backoff" /\ backoff' = 1
    /\ UNCHANGED <<sub, nodeVars, recvVars, poolVars>>

\* mutant: the last header received counts, whatever its height
HighestIsLast(h) == h

HighestSeen(h) == IF h > lastHeight THEN h ELSE lastHeight

\* mutant: the gap starts one block late
GapAfterStrict(h) == IF lastHeight # 0 /\ h > lastHeight + 1
                     THEN {[next |-> lastHeight + 2, to |-> h - 1, pc |-> "cap"]} ELSE {}

\* The backfill a header of height h asks for, if it leaves a gap.
GapAfter(h) == IF lastHeight # 0 /\ h > lastHeight + 1
               THEN {[next |-> lastHeight + 1, to |-> h - 1, pc |-> "cap"]} ELSE {}

\* The branch on headers.
Receive ==
    /\ pc = "select" /\ headers # << >>
    /\ LET h == Head(headers)
       IN  /\ backfills' = backfills \cup GapAfter(h)
           /\ lastHeight' = HighestSeen(h)
           /\ sending' = h
           /\ risen' = IF h > lastHeight THEN risen \cup {h} ELSE risen
    /\ headers' = Tail(headers)
    /\ pc' = "send"
    /\ UNCHANGED <<backfilled, droppedTotal, abandoned, skipped, nodeVars, linkVars, queueVars, stopVars>>

\* blockQueue <- j, when there is space
Enqueue(h) ==
    /\ queued < QueueCap
    /\ queued' = queued + 1
    /\ enqueued' = enqueued \cup {h}

Send ==
    /\ pc = "send"
    /\ Enqueue(sending)
    /\ pc' = "select"
    /\ UNCHANGED <<nodeVars, recvVars, linkVars, fillVars, stopVars>>

\* mutant: the doubled backoff is not capped
LongerUncapped(b) == b * 2

\* The next backoff of reconnectSubscription.
Longer(b) == IF b * 2 < MaxBackoff THEN b * 2 ELSE MaxBackoff

\* One turn of reconnectSubscription: a new subscription (even when the context is
\* cancelled meanwhile), or a failure.
Reconnect ==
    /\ pc = "backoff"
    /\ \/ pc' = "select" /\ up' = TRUE /\ Subscribed(drops) /\ UNCHANGED backoff
       \/ backoff' = Longer(backoff) /\ UNCHANGED <<pc, up, sub, nodeVars>>
    /\ UNCHANGED <<recvVars, poolVars>>

\* reconnectSubscription returned nil.
ReconnectCancelled ==
    /\ pc = "backoff" /\ cancelled
    /\ pc' = "waiting"
    /\ UNCHANGED <<nodeVars, recvVars, linkVars, poolVars>>

\* mutant: the backfills are not in workerGroup
WorkersOnly == poolDone

\* mutant: the workers are not in workerGroup
BackfillsOnly == backfills = {}

\* workerGroup.Wait() returns.
GroupDone == poolDone /\ backfills = {}

Return ==
    /\ pc = "waiting"
    /\ GroupDone
    /\ pc' = "returned"
    /\ UNCHANGED <<nodeVars, recvVars, linkVars, poolVars>>

-----------------------------------------------------------------------------
(* The backfills. *)

\* Backfill b goes on with height n at step p, or returns after its last height.
Continue(b, n, p) ==
    backfills' = (backfills \ {b}) \cup
                     (IF n <= b.to THEN {[b EXCEPT !.next = n, !.pc = p]} ELSE {})

BackfillReturn(b) == backfills' = backfills \ {b}

Remaining(b) == b.to - b.next + 1

KeepFrom(b) == b.to - MaxBackfill + 1

\* Of a long gap only the latest MaxBackfill heights are kept.
BackfillCap(b) ==
    /\ b.pc = "cap"
    /\ IF Remaining(b) > MaxBackfill
       THEN /\ droppedTotal' = droppedTotal + Remaining(b) - MaxBackfill
            /\ abandoned' = abandoned \cup (b.next .. b.to - MaxBackfill)
            /\ Continue(b, KeepFrom(b), "fetch")
       ELSE Continue(b, b.next, "fetch") /\ UNCHANGED <<droppedTotal, abandoned>>
    /\ UNCHANGED <<backfilled, skipped, nodeVars, loopVars, queueVars, stopVars>>

\* HeaderByNumber
BackfillFetch(b) ==
    /\ b.pc = "fetch"
    /\ Continue(b, b.next, "send")
    /\ UNCHANGED <<backfilled, droppedTotal, abandoned, skipped, nodeVars, loopVars, queueVars, stopVars>>

\* HeaderByNumber failed.
BackfillFetchFails(b) ==
    /\ b.pc = "fetch"
    /\ \/ cancelled /\ BackfillReturn(b) /\ UNCHANGED skipped
       \/ ~cancelled /\ Continue(b, b.next + 1, "fetch") /\ skipped' = skipped \cup {b.next}
    /\ UNCHANGED <<backfilled, droppedTotal, abandoned, nodeVars, loopVars, queueVars, stopVars>>

BackfillSend(b) ==
    /\ b.pc = "send"
    /\ Enqueue(b.next)
    /\ backfilled' = backfilled + 1
    /\ Continue(b, b.next + 1, "fetch")
    /\ UNCHANGED <<droppedTotal, abandoned, skipped, nodeVars, loopVars, stopVars>>

\* mutant: the send waits for space in the queue, cancelled or not
InsistsOnSpace == cancelled /\ queued < QueueCap

Interrupted == cancelled

BackfillSendCancelled(b) ==
    /\ b.pc = "send" /\ Interrupted
    /\ BackfillReturn(b)
    /\ UNCHANGED <<backfilled, droppedTotal, abandoned, skipped, nodeVars, loopVars, queueVars,
                   stopVars>>

-----------------------------------------------------------------------------

Environment == NewBlock \/ AnnounceNew \/ AnnounceAgain \/ Drop \/ Cancel
Loop == Start \/ Shutdown \/ SubErr \/ Receive \/ Send \/ Reconnect \/ ReconnectCancelled \/ Return
Fill(b) == BackfillCap(b) \/ BackfillFetch(b) \/ BackfillFetchFails(b)
           \/ BackfillSend(b) \/ BackfillSendCancelled(b)

\* The backfill of the gap that ends at height h.
Fills(h) == {b \in backfills : b.to = h}

Ended == pc \in {"returned", "failed"}

Next == \/ Environment \/ Consume \/ Requeue \/ PoolExit \/ Loop
        \/ \E b \in backfills : Fill(b)
        \/ Ended /\ UNCHANGED vars

Spec == Init /\ [][Next]_vars

\* A blocked sender on a channel is served in FIFO order: a send that is possible again
\* and again succeeds (strong fairness).  RPC calls return, workers keep taking jobs and
\* the loop and the backfills go on (weak fairness).  The random choice of select would
\* justify strong fairness for its cases too, but headers come to an end here and weak
\* fairness is enough.  That a subscription is ever re-established, or the chain grows, is
\* not assumed.
Fairness ==
    /\ WF_vars(Start \/ Return) /\ WF_vars(Shutdown) /\ WF_vars(SubErr) /\ WF_vars(Receive)
    /\ SF_vars(Send) /\ WF_vars(ReconnectCancelled)
    /\ WF_vars(Consume) /\ WF_vars(PoolExit)
    /\ \A h \in Heights :
          /\ WF_vars(\E b \in Fills(h) : BackfillCap(b) \/ BackfillFetch(b) \/ BackfillFetchFails(b)
                                         \/ BackfillSendCancelled(b))
          /\ SF_vars(\E b \in Fills(h) : BackfillSend(b))

FairSpec == Spec /\ Fairness

-----------------------------------------------------------------------------
(* Properties. *)

Pending == UNION {b.next .. b.to : b \in backfills}

\* The heights between the first and the highest header that never came as the
\* highest so far: those a gap swallowed.
InGaps == {h \in Heights : h < lastHeight /\ (\E r \in risen : r < h)} \ risen

\* The backfill counters add up: every height swallowed by a gap is counted as
\* backfilled or as dropped, was skipped, or is still to be backfilled, once and
\* only once, whatever drops, old headers and concurrent backfills there were
\* (verifier.go:194-201 and 244-268; README.md:256-263).
GapLedger ==
    ~cancelled =>
        /\ backfilled + droppedTotal + Cardinality(skipped) + Cardinality(Pending)
              = Cardinality(InGaps)
        /\ Pending \cup abandoned \cup skipped \subseteq InGaps

\* At most one subscription is open, and none once the loop has left: shutdown
\* unsubscribes the latest subscription, not the first one (verifier.go:141-146).
NoLeakedSubscription ==
    /\ Cardinality(live) <= 1
    /\ pc \in {"waiting", "returned"} => live = {}

\* Once ExportMetrics has returned, neither the loop nor a backfill touches the
\* queue or the counters any more (verifier.go:117-126, 194-200: backfills are in workerGroup).
QuietAfterReturn == [][pc = "returned" => UNCHANGED <<enqueued, fillVars>>]_vars

\* A dropped subscription is reported down, unless the exporter is stopped: even a
\* loop that is blocked on a full queue gets to the notice in the end.
DropNoticed == dropped ~> (~up \/ cancelled)

\* No height below the highest header seen is forgotten: unless the exporter is
\* stopped it is enqueued, dropped by the cap, or skipped on a failed fetch.
GapsClose ==
    \A h \in Heights :
        h \in InGaps ~> (cancelled \/ h \in enqueued \cup abandoned \cup skipped)

\* A cancellation ends ExportMetrics, wherever the loop and the backfills are: in a
\* backoff, blocked on a full queue nobody empties any more, or between fetches.
ShutdownReturns == cancelled ~> Ended
=============================================================================
