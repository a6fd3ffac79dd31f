-------------------------- MODULE Subscription_proofs --------------------------
(***************************************************************************)
(* For every length of the chain, every number of drops and of             *)
(* reorganisations and every capacity: no subscription is leaked, nothing  *)
(* happens after the return, no height is lost, and the counters of the    *)
(* backfills account for every height of every gap.  At the end: Pipeline  *)
(* implements its parts, so that what is proved of each of them holds of   *)
(* their composition, no worker outlives the return, and no block is       *)
(* forgotten anywhere between its header and its verification.             *)
(***************************************************************************)
EXTENDS Pipeline, FiniteSetTheorems, TLAPS

\* What the subscription tells of the loop: a drop ends the only one that is open, and
\* the loop leaves none behind.
LinkFollowsLoop ==
    /\ live \subseteq {sub}
    /\ dropped => live = {}
    /\ pc \in {"start", "backoff", "waiting", "returned", "failed"} => live = {}

\* A gap that is being filled is not empty, nothing fills gaps after the return, and what
\* the loop sends is a height.
Filling ==
    /\ \A b \in backfills : b.next <= b.to
    /\ pc = "returned" => backfills = {}
    /\ pc = "send" => sending \in Heights

IInv == TypeOK /\ LinkFollowsLoop /\ Filling

\* The invariant holds initially.
LEMMA InitIInv == Init => IInv
<1> SUFFICES ASSUME Init PROVE IInv
  OBVIOUS
<1>1. {dropped, cancelled, poolDone, up} \subseteq BOOLEAN
  BY Zenon DEF Init
<1>3. {head, position, sending, lastHeight} \subseteq 0 .. MaxHead
  BY <1>1, BoundsAssumption DEF Init
<1>4. TypeOK
  BY <1>1, <1>3, CapsAssumption, BoundsAssumption DEF Init, TypeOK
<1> QED BY <1>4 DEF Init, IInv, LinkFollowsLoop, Filling

-----------------------------------------------------------------------------
(* The node. *)

\* A header is announced to the channel only.
LEMMA AnnounceTypes ==
    ASSUME TypeOK, NEW h \in Heights, Announce(h)
    PROVE  headers' \in Seq(Heights) /\ Len(headers') <= HeaderCap
BY CapsAssumption DEF Announce, TypeOK

\* A step of the node, or a cancellation, keeps the invariant.
LEMMA EnvironmentKeeps ==
    ASSUME IInv, Environment
    PROVE  IInv'
<1> USE DEF IInv
<1>1. CASE NewBlock
  <2>1. head' \in 0 .. MaxHead
    BY <1>1, BoundsAssumption DEF NewBlock, TypeOK
  <2>2. TypeOK'
    BY <1>1, <2>1 DEF NewBlock, TypeOK, loopVars, recvVars, linkVars, poolVars, fillVars, queueVars, stopVars
  <2> QED BY <1>1, <2>2 DEF NewBlock, LinkFollowsLoop, Filling, loopVars, recvVars, linkVars, poolVars, fillVars
<1>2. CASE AnnounceNew
  <2>1. position + 1 \in Heights /\ position + 1 \in 0 .. MaxHead
    BY <1>2, BoundsAssumption DEF AnnounceNew, TypeOK, Heights
  <2>2. Announce(position + 1) /\ position' = position + 1 /\ reorgs' = reorgs
    BY <1>2 DEF AnnounceNew
  <2>3. headers' \in Seq(Heights) /\ Len(headers') <= HeaderCap
    BY <2>1, <2>2, AnnounceTypes
  <2>4. TypeOK'
    BY <2>1, <2>2, <2>3 DEF Announce, TypeOK, linkVars, poolVars, fillVars, queueVars, stopVars
  <2> QED BY <2>2, <2>4 DEF Announce, LinkFollowsLoop, Filling, linkVars, poolVars, fillVars
<1>3. CASE AnnounceAgain
  <2>1. PICK h \in 1 .. position : Announce(h)
    BY <1>3 DEF AnnounceAgain
  <2>2. h \in Heights
    BY BoundsAssumption DEF TypeOK, Heights
  <2>5. reorgs' \in 0 .. MaxReorgs /\ position' = position
    <3>1. reorgs' = reorgs + 1 /\ reorgs < MaxReorgs /\ position' = position
      BY <1>3 DEF AnnounceAgain
    <3>2. reorgs \in 0 .. MaxReorgs
      BY DEF TypeOK
    <3> QED BY <3>1, <3>2, BoundsAssumption
  <2>3. headers' \in Seq(Heights) /\ Len(headers') <= HeaderCap
    BY <2>1, <2>2, AnnounceTypes
  <2>4. TypeOK'
    BY <2>1, <2>3, <2>5 DEF Announce, TypeOK, linkVars, poolVars, fillVars, queueVars, stopVars
  <2> QED BY <2>1, <2>4 DEF Announce, LinkFollowsLoop, Filling, linkVars, poolVars, fillVars
<1>4. CASE Drop
  <2>0. {dropped', cancelled', poolDone', up'} \subseteq BOOLEAN
    BY <1>4 DEF Drop, TypeOK, loopVars, linkVars, poolVars, stopVars
  <2>1. drops' \in 0 .. MaxDrops /\ live' \subseteq 0 .. MaxDrops
    BY <1>4, BoundsAssumption DEF Drop, TypeOK
  <2>2. TypeOK'
    BY <1>4, <2>0, <2>1 DEF Drop, TypeOK, loopVars, recvVars, linkVars, poolVars, fillVars, queueVars, stopVars
  <2> QED BY <1>4, <2>2 DEF Drop, LinkFollowsLoop, Filling, loopVars, recvVars, linkVars, poolVars, fillVars
<1>5. CASE Cancel
  <2>1. {dropped', cancelled', poolDone', up'} \subseteq BOOLEAN
    BY <1>5 DEF Cancel, TypeOK, nodeVars, loopVars, linkVars
  <2>2. TypeOK'
    BY <1>5, <2>1 DEF Cancel, TypeOK, nodeVars, loopVars, recvVars, linkVars, fillVars, queueVars
  <2> QED BY <1>5, <2>2 DEF Cancel, LinkFollowsLoop, Filling, nodeVars, loopVars, recvVars, linkVars, fillVars
<1> QED BY <1>1, <1>2, <1>3, <1>4, <1>5 DEF Environment

\* So does the pool.
LEMMA PoolKeeps ==
    ASSUME IInv, Consume \/ Requeue \/ PoolExit
    PROVE  IInv'
<1> USE DEF IInv
<1>1. queued' \in 0 .. QueueCap /\ poolDone' \in BOOLEAN
  <2>1. CASE Consume
    BY <2>1, CapsAssumption DEF Consume, TypeOK, stopVars
  <2>2. CASE Requeue
    BY <2>2, CapsAssumption DEF Requeue, TypeOK, stopVars
  <2>3. CASE PoolExit
    BY <2>3 DEF PoolExit, TypeOK, queueVars
  <2> QED BY <2>1, <2>2, <2>3
<1>2. /\ UNCHANGED <<nodeVars, loopVars, fillVars, enqueued, cancelled>>
  BY DEF Consume, Requeue, PoolExit, queueVars, stopVars
<1>3. TypeOK'
  BY <1>1, <1>2 DEF TypeOK, nodeVars, loopVars, recvVars, linkVars, fillVars
<1> QED BY <1>2, <1>3 DEF LinkFollowsLoop, Filling, nodeVars, loopVars, recvVars, linkVars, fillVars

-----------------------------------------------------------------------------
(* The loop. *)

\* The gap a header leaves is a non-empty interval of heights below it.
LEMMA GapTypes ==
    ASSUME TypeOK, NEW h \in Heights
    PROVE  GapAfter(h) \subseteq Backfill /\ \A b \in GapAfter(h) : b.next <= b.to
BY BoundsAssumption DEF GapAfter, Backfill, Heights, TypeOK

\* The backoff stays within its cap.
LEMMA LongerTypes ==
    ASSUME NEW b \in 1 .. MaxBackoff
    PROVE  Longer(b) \in 1 .. MaxBackoff
BY CapsAssumption DEF Longer

\* A header is taken from the channel.
LEMMA ReceiveTypes ==
    ASSUME TypeOK, Receive
    PROVE  /\ Head(headers) \in Heights
           /\ headers' \in Seq(Heights) /\ Len(headers') <= HeaderCap
           /\ {sending', lastHeight'} \subseteq 0 .. MaxHead
           /\ backfills' = backfills \cup GapAfter(Head(headers))
           /\ risen' \subseteq Heights
<1>1. headers \in Seq(Heights) /\ headers # << >> /\ headers' = Tail(headers)
  BY DEF Receive, TypeOK
<1>2. Head(headers) \in Heights /\ Tail(headers) \in Seq(Heights) /\ Len(Tail(headers)) <= Len(headers)
  BY <1>1
<1>3. Head(headers) \in 0 .. MaxHead
  BY <1>2, BoundsAssumption DEF Heights
<1>4. risen \subseteq Heights
  BY DEF TypeOK
<1>5. headers' \in Seq(Heights) /\ Len(headers') <= HeaderCap
  <2>1. Len(headers) <= HeaderCap /\ Len(headers) \in Nat
    BY <1>1 DEF TypeOK
  <2>2. Len(Tail(headers)) \in Nat
    BY <1>2
  <2> QED BY <1>1, <1>2, <2>1, <2>2, CapsAssumption
<1>6. {sending', lastHeight'} \subseteq 0 .. MaxHead
  <2>1. sending' = Head(headers) /\ lastHeight' = HighestSeen(Head(headers))
    BY DEF Receive
  <2>2. lastHeight \in 0 .. MaxHead
    BY DEF TypeOK
  <2>3. HighestSeen(Head(headers)) \in {Head(headers), lastHeight}
    BY Zenon DEF HighestSeen
  <2> QED BY Zenon, <1>3, <2>1, <2>2, <2>3
<1>7. /\ risen' = IF Head(headers) > lastHeight THEN risen \cup {Head(headers)} ELSE risen
      /\ backfills' = backfills \cup GapAfter(Head(headers))
  BY DEF Receive
<1> QED BY <1>2, <1>4, <1>5, <1>6, <1>7

\* A step of the loop keeps the invariant.
LEMMA LoopKeeps ==
    ASSUME IInv, Loop
    PROVE  IInv'
<1> USE DEF IInv
<1>1. CASE Start
  <2>0. dropped' \in BOOLEAN /\ up' \in BOOLEAN
    BY <1>1 DEF Start, Subscribed, TypeOK, nodeVars
  <2>1. {dropped', cancelled', poolDone', up'} \subseteq BOOLEAN
    BY <1>1, <2>0 DEF Start, TypeOK, poolVars, stopVars
  <2>5. /\ {head', position', sending', lastHeight'} \subseteq 0 .. MaxHead
        /\ live' \subseteq 0 .. MaxDrops /\ sub' \in 0 .. MaxDrops
        /\ drops' \in 0 .. MaxDrops /\ reorgs' \in 0 .. MaxReorgs
    <3>1. CASE Subscribed(0)
      BY <1>1, <3>1, BoundsAssumption DEF Start, Subscribed, TypeOK, recvVars
    <3>2. CASE UNCHANGED <<sub, nodeVars>>
      BY <1>1, <3>2 DEF Start, TypeOK, nodeVars, recvVars
    <3> QED BY <1>1, <3>1, <3>2 DEF Start
  <2>2. TypeOK'
    BY <1>1, <2>1, <2>5 DEF Start, TypeOK, recvVars, poolVars, fillVars, queueVars, stopVars
  <2>3. LinkFollowsLoop'
    BY <1>1 DEF Start, Subscribed, LinkFollowsLoop, nodeVars
  <2>4. Filling'
    BY <1>1 DEF Start, Filling, poolVars, fillVars
  <2> QED BY <2>2, <2>3, <2>4
<1>2. CASE Shutdown
  <2>1. TypeOK'
    BY <1>2 DEF Shutdown, Unsubscribe, TypeOK, recvVars, linkVars, poolVars, fillVars, queueVars, stopVars
  <2> QED BY <1>2, <2>1 DEF Shutdown, Unsubscribe, LinkFollowsLoop, Filling, linkVars, poolVars, fillVars
<1>3. CASE SubErr
  <2>1. {dropped', cancelled', poolDone', up'} \subseteq BOOLEAN
    BY <1>3 DEF SubErr, Down, TypeOK, nodeVars, poolVars, stopVars
  <2>2. TypeOK'
    BY <1>3, <2>1, CapsAssumption DEF SubErr, TypeOK, nodeVars, recvVars, poolVars, fillVars,
                    queueVars, stopVars
  <2> QED BY <1>3, <2>2 DEF SubErr, LinkFollowsLoop, Filling, nodeVars, poolVars, fillVars
<1>4. CASE Receive
  <2>1. backfills' \subseteq Backfill /\ \A b \in backfills' : b.next <= b.to
    <3>1. GapAfter(Head(headers)) \subseteq Backfill /\ \A b \in GapAfter(Head(headers)) : b.next <= b.to
      BY <1>4, ReceiveTypes, GapTypes
    <3>2. backfills' = backfills \cup GapAfter(Head(headers)) /\ backfills \subseteq Backfill
      BY <1>4, ReceiveTypes DEF TypeOK
    <3> QED BY <3>1, <3>2 DEF Filling
  <2>2. enqueued' \cup abandoned' \cup skipped' \cup risen' \subseteq Heights
    BY <1>4, ReceiveTypes DEF TypeOK, Receive, queueVars
  <2>3. TypeOK'
    BY <1>4, <2>1, <2>2, ReceiveTypes DEF Receive, TypeOK, nodeVars, linkVars, queueVars, stopVars
  <2>4. LinkFollowsLoop'
    BY <1>4 DEF Receive, LinkFollowsLoop, nodeVars, linkVars
  <2>5. Filling'
    BY <1>4, <2>1, ReceiveTypes DEF Receive, Filling
  <2> QED BY <2>3, <2>4, <2>5
<1>5. CASE Send
  <2>1. queued' \in 0 .. QueueCap
    BY <1>5, CapsAssumption DEF Send, Enqueue, TypeOK
  <2>2. enqueued' \cup abandoned' \cup skipped' \cup risen' \subseteq Heights
    BY <1>5 DEF Send, Enqueue, TypeOK, Filling, recvVars, fillVars
  <2>3. TypeOK'
    BY <1>5, <2>1, <2>2 DEF Send, TypeOK, nodeVars, recvVars, linkVars, fillVars, stopVars
  <2> QED BY <1>5, <2>3 DEF Send, LinkFollowsLoop, Filling, nodeVars, linkVars, fillVars
<1>6. CASE Reconnect
  <2>1. {dropped', cancelled', poolDone', up'} \subseteq BOOLEAN
    BY <1>6 DEF Reconnect, Subscribed, TypeOK, nodeVars, poolVars, stopVars
  <2>2. backoff' \in 1 .. MaxBackoff
    BY <1>6, LongerTypes DEF Reconnect, TypeOK
  <2>3. TypeOK'
    BY <1>6, <2>1, <2>2 DEF Reconnect, Subscribed, TypeOK, nodeVars, recvVars, poolVars,
                    fillVars, queueVars, stopVars
  <2>4. LinkFollowsLoop'
    BY <1>6 DEF Reconnect, Subscribed, LinkFollowsLoop, nodeVars
  <2>5. Filling'
    BY <1>6 DEF Reconnect, Filling, poolVars, fillVars
  <2> QED BY <2>3, <2>4, <2>5
<1>7. CASE ReconnectCancelled
  <2>1. TypeOK'
    BY <1>7 DEF ReconnectCancelled, TypeOK, nodeVars, recvVars, linkVars, poolVars, fillVars, queueVars, stopVars
  <2> QED BY <1>7, <2>1 DEF ReconnectCancelled, LinkFollowsLoop, Filling, nodeVars, linkVars, poolVars, fillVars
<1>8. CASE Return
  <2>1. TypeOK'
    BY <1>8 DEF Return, TypeOK, nodeVars, recvVars, linkVars, poolVars, fillVars, queueVars, stopVars
  <2> QED BY <1>8, <2>1 DEF Return, GroupDone, LinkFollowsLoop, Filling, nodeVars, linkVars, poolVars, fillVars
<1> QED BY <1>1, <1>2, <1>3, <1>4, <1>5, <1>6, <1>7, <1>8 DEF Loop

-----------------------------------------------------------------------------
(* The backfills. *)

\* A backfill that goes on is still a backfill.
LEMMA ContinueTypes ==
    ASSUME IInv, NEW b \in backfills, NEW n \in Int, n >= b.next, NEW p \in {"cap", "fetch", "send"},
           Continue(b, n, p)
    PROVE  backfills' \subseteq Backfill /\ \A x \in backfills' : x.next <= x.to
<1>1. b \in Backfill /\ backfills \subseteq Backfill
  BY DEF IInv, TypeOK
<1>2. n <= b.to => n \in Heights
  BY <1>1, BoundsAssumption DEF Backfill, Heights
<1>3. n <= b.to => [b EXCEPT !.next = n, !.pc = p] \in Backfill
  BY <1>1, <1>2 DEF Backfill
<1>4. n <= b.to => [b EXCEPT !.next = n, !.pc = p].next = n /\ [b EXCEPT !.next = n, !.pc = p].to = b.to
  BY <1>1 DEF Backfill
<1>5. \A x \in backfills' : x \in backfills \/ (n <= b.to /\ x = [b EXCEPT !.next = n, !.pc = p])
  BY DEF Continue
<1> QED BY <1>1, <1>3, <1>4, <1>5 DEF IInv, Filling

\* What a step of a backfill does to its interval.
LEMMA FillTypes ==
    ASSUME IInv, NEW b \in backfills, Fill(b)
    PROVE  /\ backfills' \subseteq Backfill /\ \A x \in backfills' : x.next <= x.to
           /\ UNCHANGED <<nodeVars, loopVars, stopVars>>
<1>1. b.next \in Heights /\ b.to \in Heights /\ b.next \in Int /\ b.to \in Int
  BY DEF IInv, TypeOK, Backfill, Heights
<1>2. CASE BackfillCap(b)
  <2>1. CASE Remaining(b) > MaxBackfill
    <3>1. KeepFrom(b) \in Int /\ KeepFrom(b) >= b.next
      BY <1>1, <2>1, CapsAssumption DEF KeepFrom, Remaining
    <3> QED BY <1>2, <2>1, <3>1, ContinueTypes DEF BackfillCap
  <2>2. CASE ~(Remaining(b) > MaxBackfill)
    BY <1>1, <1>2, <2>2, ContinueTypes DEF BackfillCap
  <2> QED BY <2>1, <2>2
<1>3. CASE BackfillFetch(b)
  BY <1>1, <1>3, ContinueTypes DEF BackfillFetch
<1>4. CASE BackfillFetchFails(b) /\ cancelled
  BY <1>4 DEF BackfillFetchFails, BackfillReturn, IInv, TypeOK, Filling
<1>5. CASE BackfillFetchFails(b) /\ ~cancelled
  <2>1. Continue(b, b.next + 1, "fetch") /\ UNCHANGED <<nodeVars, loopVars, stopVars>>
    BY <1>5 DEF BackfillFetchFails
  <2> QED BY <1>1, <2>1, ContinueTypes
<1>6. CASE BackfillSend(b)
  <2>1. Continue(b, b.next + 1, "fetch") /\ UNCHANGED <<nodeVars, loopVars, stopVars>>
    BY <1>6 DEF BackfillSend
  <2> QED BY <1>1, <2>1, ContinueTypes
<1>7. CASE BackfillSendCancelled(b)
  BY <1>7 DEF BackfillSendCancelled, BackfillReturn, IInv, TypeOK, Filling
<1> QED BY <1>2, <1>3, <1>4, <1>5, <1>6, <1>7 DEF Fill

\* The counters and histories of the backfills stay what their types say.
LEMMA FillCounters ==
    ASSUME IInv, NEW b \in backfills, Fill(b)
    PROVE  /\ {backfilled', droppedTotal'} \subseteq Nat
           /\ queued' \in 0 .. QueueCap
           /\ enqueued' \cup abandoned' \cup skipped' \subseteq Heights
<1> USE DEF IInv
<1>1. b.next \in Heights /\ b.to \in Heights
  BY DEF TypeOK, Backfill
<1>2. CASE BackfillCap(b)
  <2>1. CASE Remaining(b) > MaxBackfill
    <3>1. droppedTotal' = droppedTotal + Remaining(b) - MaxBackfill
          /\ abandoned' = abandoned \cup (b.next .. b.to - MaxBackfill)
          /\ UNCHANGED <<backfilled, skipped, queueVars>>
      BY <1>2, <2>1 DEF BackfillCap
    <3>2. b.next .. b.to - MaxBackfill \subseteq Heights
      BY <1>1, CapsAssumption, BoundsAssumption DEF Heights
    <3>3. droppedTotal' \in Nat
      <4>1. droppedTotal \in Nat
        BY DEF TypeOK
      <4>2. Remaining(b) - MaxBackfill \in Nat /\ Remaining(b) \in Int
        BY <1>1, <2>1, CapsAssumption DEF Remaining, Heights
      <4> QED BY <3>1, <4>1, <4>2, CapsAssumption
    <3> QED BY <3>1, <3>2, <3>3 DEF TypeOK, queueVars
  <2>2. CASE ~(Remaining(b) > MaxBackfill)
    BY <1>2, <2>2 DEF BackfillCap, TypeOK, queueVars
  <2> QED BY <2>1, <2>2
<1>3. CASE BackfillFetch(b) \/ BackfillSendCancelled(b)
  BY <1>3 DEF BackfillFetch, BackfillSendCancelled, TypeOK, queueVars
<1>4. CASE BackfillFetchFails(b)
  BY <1>1, <1>4 DEF BackfillFetchFails, TypeOK, queueVars
<1>5. CASE BackfillSend(b)
  BY <1>1, <1>5, CapsAssumption DEF BackfillSend, Enqueue, TypeOK
<1> QED BY <1>2, <1>3, <1>4, <1>5 DEF Fill

\* A step of a backfill keeps the invariant.
LEMMA FillKeeps ==
    ASSUME IInv, NEW b \in backfills, Fill(b)
    PROVE  IInv'
<1>1. UNCHANGED <<nodeVars, loopVars, stopVars>> /\ pc # "returned"
  BY FillTypes DEF IInv, Filling
<1>2. TypeOK'
  BY <1>1, FillTypes, FillCounters DEF IInv, TypeOK, nodeVars, loopVars, recvVars, linkVars, stopVars
<1> QED BY <1>1, <1>2, FillTypes DEF IInv, LinkFollowsLoop, Filling, nodeVars, loopVars, recvVars, linkVars

-----------------------------------------------------------------------------

\* Every step keeps the invariant.
LEMMA NextIInv == IInv /\ [Next]_vars => IInv'
<1> SUFFICES ASSUME IInv, [Next]_vars PROVE IInv'
  OBVIOUS
<1>1. CASE UNCHANGED vars
  BY <1>1 DEF vars, nodeVars, loopVars, recvVars, linkVars, poolVars, fillVars, queueVars, stopVars,
              IInv, TypeOK, LinkFollowsLoop, Filling
<1> QED BY <1>1, EnvironmentKeeps, PoolKeeps, LoopKeeps, FillKeeps DEF Next

\* The inductive invariant of the loop.
LEMMA Invariance == Spec => []IInv
BY InitIInv, NextIInv, PTL DEF Spec

\* Queues stay within their capacities, the backoff within its cap, and everything that
\* is enqueued, abandoned or skipped is a height of the chain.
THEOREM SubscriptionTypeCorrect == Spec => []TypeOK
<1>1. IInv => TypeOK
  BY DEF IInv
<1> QED BY <1>1, Invariance, PTL

\* The open subscription is the one in sub, so that shutdown unsubscribes the right one,
\* after any number of drops and reconnects.
THEOREM NeverLeaks == Spec => []NoLeakedSubscription
<1>1. ASSUME IInv PROVE NoLeakedSubscription
  <2>1. live \subseteq {sub}
    BY <1>1 DEF IInv, LinkFollowsLoop
  <2>2. Cardinality(live) <= Cardinality({sub}) /\ Cardinality({sub}) = 1 /\ IsFiniteSet(live)
    BY <2>1, FS_Subset, FS_Singleton
  <2>3. Cardinality(live) \in Nat
    BY <2>2, FS_CardinalityType
  <2> QED BY <1>1, <2>2, <2>3 DEF IInv, LinkFollowsLoop, NoLeakedSubscription
<1> QED BY <1>1, Invariance, PTL

\* After the return nothing enqueues and nothing counts: the group waited for the
\* backfills too.
THEOREM AlwaysQuietAfterReturn == Spec => QuietAfterReturn
<1>1. ASSUME IInv, [Next]_vars, pc = "returned" PROVE UNCHANGED <<enqueued, fillVars>>
  <2>1. backfills = {}
    BY <1>1 DEF IInv, Filling
  <2>2. CASE Environment
    BY <2>2 DEF Environment, NewBlock, AnnounceNew, AnnounceAgain, Announce, Drop, Cancel, poolVars,
                queueVars
  <2>3. CASE Consume \/ Requeue \/ PoolExit \/ UNCHANGED vars
    BY <2>3 DEF Consume, Requeue, PoolExit, vars, poolVars, queueVars
  <2>4. CASE Loop
    BY <1>1, <2>4 DEF Loop, Start, Shutdown, SubErr, Receive, Send, Reconnect, ReconnectCancelled, Return
  <2> QED BY <1>1, <2>1, <2>2, <2>3, <2>4 DEF Next
<1>2. IInv /\ [Next]_vars => [pc = "returned" => UNCHANGED <<enqueued, fillVars>>]_vars
  BY <1>1
<1> QED BY <1>2, Invariance, PTL DEF Spec, QuietAfterReturn

-----------------------------------------------------------------------------
(* The ledger of the gaps. *)

\* Two backfills never work on the same height.
Disjoint == \A a, b \in backfills : a # b => a.to < b.next \/ b.to < a.next

\* The highest header so far is one that was received, and a gap lies between two headers.
GapsLieBetween ==
    /\ \A r \in risen : r <= lastHeight
    /\ risen = {} => lastHeight = 0
    /\ risen # {} => lastHeight \in risen
    /\ Pending \cup abandoned \cup skipped \subseteq InGaps

\* A height that was skipped is not tried again.
Ledger ==
    ~cancelled => /\ Disjoint /\ GapsLieBetween /\ skipped \cap Pending = {}
                  /\ backfilled + droppedTotal + Cardinality(skipped) + Cardinality(Pending)
                        = Cardinality(InGaps)

\* Sets of heights are finite.
LEMMA HeightsFinite ==
    ASSUME NEW S \in SUBSET Heights
    PROVE  IsFiniteSet(S) /\ Cardinality(S) \in Nat
<1>1. IsFiniteSet(Heights)
  BY FS_Interval, BoundsAssumption DEF Heights
<1> QED BY <1>1, FS_Subset, FS_CardinalityType

\* What is pending consists of heights.
LEMMA PendingHeights ==
    ASSUME IInv
    PROVE  /\ Pending \subseteq Heights /\ InGaps \subseteq Heights
           /\ \A h : h \in Pending <=> \E b \in backfills : h \in b.next .. b.to
           /\ \A b \in backfills : b.next \in Heights /\ b.to \in Heights /\ b.next \in Int /\ b.to \in Int
                                   /\ b.next <= b.to
<1>1. \A b \in backfills : b.next \in Heights /\ b.to \in Heights /\ b.next \in Int /\ b.to \in Int
  BY DEF IInv, TypeOK, Backfill, Heights
<1>2. \A h : h \in Pending <=> \E b \in backfills : h \in b.next .. b.to
  BY DEF Pending
<1>3. \A b \in backfills : b.next .. b.to \subseteq Heights
  BY <1>1, BoundsAssumption DEF Heights
<1> QED BY <1>1, <1>2, <1>3 DEF InGaps, IInv, Filling

\* Taking an interval out of a set of heights takes its length off the cardinality.
LEMMA TakeOut ==
    ASSUME NEW S \in SUBSET Heights, NEW lo \in Int, NEW hi \in Int, lo <= hi + 1, lo .. hi \subseteq S
    PROVE  Cardinality(S \ (lo .. hi)) = Cardinality(S) - (hi - lo + 1)
<1>1. S \cap (lo .. hi) = lo .. hi
  OBVIOUS
<1>2. Cardinality(lo .. hi) = hi - lo + 1
  BY FS_Interval
<1>3. IsFiniteSet(S)
  BY HeightsFinite
<1>4. Cardinality(S \ (lo .. hi)) = Cardinality(S) - Cardinality(S \cap (lo .. hi))
  BY <1>3, FS_Difference, Zenon
<1> QED BY <1>1, <1>2, <1>4

\* Putting in one that is not there yet adds it.
LEMMA PutIn ==
    ASSUME NEW S \in SUBSET Heights, NEW lo \in Int, NEW hi \in Int, lo <= hi + 1,
           S \cap (lo .. hi) = {}
    PROVE  Cardinality(S \cup (lo .. hi)) = Cardinality(S) + (hi - lo + 1)
<1>1. Cardinality(lo .. hi) = hi - lo + 1 /\ IsFiniteSet(lo .. hi)
  BY FS_Interval
<1>2. Cardinality({}) = 0
  BY FS_EmptySet
<1>3. IsFiniteSet(S) /\ Cardinality(S) \in Nat
  BY HeightsFinite
<1>4. Cardinality(S \cup (lo .. hi)) = Cardinality(S) + Cardinality(lo .. hi) - Cardinality(S \cap (lo .. hi))
  BY <1>1, <1>3, FS_Union, Zenon
<1>5. Cardinality(S \cap (lo .. hi)) = 0
  BY <1>2
<1> QED BY <1>1, <1>3, <1>4, <1>5

\* A backfill that goes on at n has the heights before n behind it.
LEMMA ContinuePending ==
    ASSUME IInv, Disjoint, NEW b \in backfills, NEW n \in Int, b.next <= n, n <= b.to + 1,
           NEW p \in {"cap", "fetch", "send"}, Continue(b, n, p)
    PROVE  /\ Pending' = Pending \ (b.next .. n - 1)
           /\ b.next .. n - 1 \subseteq Pending
           /\ Disjoint'
<1> DEFINE rest == [b EXCEPT !.next = n, !.pc = p]
<1>1. b \in Backfill /\ rest.next = n /\ rest.to = b.to
  BY DEF IInv, TypeOK, Backfill
<1>2. backfills' = (backfills \ {b}) \cup (IF n <= b.to THEN {rest} ELSE {})
  BY DEF Continue
<1> HIDE DEF rest
<1>3. \A h : h \in Pending' <=> \E x \in backfills' : h \in x.next .. x.to
  BY DEF Pending
<1>4. \A x \in backfills : x.next \in Int /\ x.to \in Int /\ x.next <= x.to
  BY PendingHeights
<1>5. \A h : h \in Pending <=> \E x \in backfills : h \in x.next .. x.to
  BY PendingHeights
<1>6. \A x \in backfills \ {b} : x.to < b.next \/ b.to < x.next
  BY DEF Disjoint
<1>7. ASSUME NEW h \in Pending' PROVE h \in Pending \ (b.next .. n - 1)
  <2>1. PICK x \in backfills' : h \in x.next .. x.to
    BY <1>3, <1>7
  <2>2. CASE x \in backfills \ {b}
    BY <1>4, <1>5, <1>6, <2>1, <2>2
  <2>3. CASE x = rest /\ n <= b.to
    BY <1>1, <1>4, <1>5, <2>1, <2>3
  <2> QED BY <1>2, <2>2, <2>3
<1>8. ASSUME NEW h \in Pending \ (b.next .. n - 1) PROVE h \in Pending'
  <2>1. PICK x \in backfills : h \in x.next .. x.to
    BY <1>5, <1>8
  <2>2. CASE x # b
    BY <1>2, <1>3, <2>1, <2>2
  <2>3. CASE x = b
    <3>1. h \in n .. b.to /\ n <= b.to
      BY <1>4, <1>8, <2>1, <2>3
    <3> QED BY <1>1, <1>2, <1>3, <3>1
  <2> QED BY <2>2, <2>3
<1>9. b.next .. n - 1 \subseteq Pending
  BY <1>4, <1>5
<1>10. Disjoint'
  <2> SUFFICES ASSUME NEW x \in backfills', NEW y \in backfills', x # y
               PROVE  x.to < y.next \/ y.to < x.next
    BY DEF Disjoint
  <2>1. CASE x \in backfills \ {b} /\ y \in backfills \ {b}
    BY <2>1 DEF Disjoint
  <2>2. CASE x \in backfills \ {b} /\ y = rest
    BY <1>1, <1>4, <1>6, <2>2
  <2>3. CASE x = rest /\ y \in backfills \ {b}
    BY <1>1, <1>4, <1>6, <2>3
  <2> QED BY <1>2, <2>1, <2>2, <2>3
<1> QED BY <1>7, <1>8, <1>9, <1>10

\* Initially the ledger is empty.
LEMMA InitLedger == Init => Ledger
<1> SUFFICES ASSUME Init PROVE Ledger
  OBVIOUS
<1>1. Pending = {} /\ InGaps = {} /\ skipped = {} /\ abandoned = {} /\ backfills = {}
  BY DEF Init, Pending, InGaps
<1> QED BY <1>1, FS_EmptySet DEF Init, Ledger, Disjoint, GapsLieBetween

\* A step of a backfill moves heights from one account to another.
LEMMA FillLedger ==
    ASSUME IInv, Ledger, NEW b \in backfills, Fill(b)
    PROVE  Ledger'
<1> SUFFICES ASSUME ~cancelled' PROVE Ledger'
  BY DEF Ledger
<1>0. /\ UNCHANGED <<nodeVars, loopVars, stopVars>> /\ ~cancelled
      /\ InGaps' = InGaps /\ risen' = risen /\ lastHeight' = lastHeight
  <2>1. UNCHANGED <<nodeVars, loopVars, stopVars>>
    BY FillTypes
  <2> QED BY <2>1 DEF loopVars, recvVars, stopVars, InGaps
<1>1. /\ Disjoint /\ GapsLieBetween /\ skipped \cap Pending = {}
      /\ backfilled + droppedTotal + Cardinality(skipped) + Cardinality(Pending) = Cardinality(InGaps)
  BY <1>0 DEF Ledger
<1>2. /\ b.next \in Int /\ b.to \in Int /\ b.next <= b.to
      /\ Pending \subseteq Heights /\ InGaps \subseteq Heights
      /\ backfilled \in Nat /\ droppedTotal \in Nat /\ skipped \subseteq Heights
      /\ Cardinality(Pending) \in Nat /\ Cardinality(skipped) \in Nat
  BY PendingHeights, HeightsFinite DEF IInv, TypeOK
<1>3. CASE BackfillCap(b) /\ Remaining(b) > MaxBackfill
  <2>1. KeepFrom(b) \in Int /\ b.next <= KeepFrom(b) /\ KeepFrom(b) <= b.to + 1
        /\ KeepFrom(b) - 1 = b.to - MaxBackfill
    BY <1>2, <1>3, CapsAssumption DEF KeepFrom, Remaining
  <2>2. /\ droppedTotal' = droppedTotal + Remaining(b) - MaxBackfill
        /\ abandoned' = abandoned \cup (b.next .. b.to - MaxBackfill)
        /\ Continue(b, KeepFrom(b), "fetch")
        /\ backfilled' = backfilled /\ skipped' = skipped
    BY <1>3 DEF BackfillCap
  <2>3. /\ Pending' = Pending \ (b.next .. b.to - MaxBackfill)
        /\ b.next .. b.to - MaxBackfill \subseteq Pending /\ Disjoint'
    BY <1>1, <2>1, <2>2, ContinuePending
  <2>4. Cardinality(Pending') = Cardinality(Pending) - (b.to - MaxBackfill - b.next + 1)
    <3> DEFINE top == b.to - MaxBackfill
    <3>1. top \in Int /\ b.next <= top + 1 /\ b.next .. top \subseteq Pending
      BY <1>2, <2>1, <2>3, CapsAssumption
    <3> HIDE DEF top
    <3>2. Cardinality(Pending \ (b.next .. top)) = Cardinality(Pending) - (top - b.next + 1)
      BY <1>2, <3>1, TakeOut
    <3> QED BY <2>3, <3>2 DEF top
  <2>5. backfilled' + droppedTotal' + Cardinality(skipped') + Cardinality(Pending') = Cardinality(InGaps)
    BY <1>1, <1>2, <2>2, <2>4, CapsAssumption DEF Remaining
  <2>6. GapsLieBetween' /\ skipped' \cap Pending' = {}
    BY <1>0, <1>1, <2>2, <2>3 DEF GapsLieBetween
  <2> QED BY <1>0, <2>3, <2>5, <2>6 DEF Ledger
<1>4. CASE (BackfillCap(b) /\ ~(Remaining(b) > MaxBackfill)) \/ BackfillFetch(b)
  <2>1. PICK p \in {"fetch", "send"} : Continue(b, b.next, p)
    BY <1>4 DEF BackfillCap, BackfillFetch
  <2>2. backfilled' = backfilled /\ droppedTotal' = droppedTotal /\ abandoned' = abandoned /\ skipped' = skipped
    BY <1>4 DEF BackfillCap, BackfillFetch
  <2>3. Pending' = Pending \ (b.next .. b.next - 1) /\ Disjoint'
    BY <1>1, <1>2, <2>1, ContinuePending
  <2>4. Pending' = Pending
    BY <1>2, <2>3
  <2> QED BY <1>0, <1>1, <2>2, <2>3, <2>4 DEF Ledger, GapsLieBetween
<1>5. ASSUME Continue(b, b.next + 1, "fetch")
      PROVE  /\ Pending' = Pending \ {b.next} /\ b.next \in Pending /\ Disjoint'
             /\ Cardinality(Pending') = Cardinality(Pending) - 1
  <2>1. Pending' = Pending \ (b.next .. b.next + 1 - 1) /\ b.next .. b.next + 1 - 1 \subseteq Pending /\ Disjoint'
    BY <1>1, <1>2, <1>5, ContinuePending
  <2>2. b.next .. b.next + 1 - 1 = {b.next}
    BY <1>2
  <2> QED BY <1>2, <2>1, <2>2, FS_RemoveElement, HeightsFinite
<1>6. CASE BackfillFetchFails(b)
  <2>1. /\ Continue(b, b.next + 1, "fetch") /\ skipped' = skipped \cup {b.next}
        /\ backfilled' = backfilled /\ droppedTotal' = droppedTotal /\ abandoned' = abandoned
    BY <1>0, <1>6 DEF BackfillFetchFails
  <2>2. b.next \notin skipped
    BY <1>1, <1>5, <2>1
  <2>3. Cardinality(skipped') = Cardinality(skipped) + 1
    BY <1>2, <2>1, <2>2, FS_AddElement, HeightsFinite
  <2>4. GapsLieBetween' /\ skipped' \cap Pending' = {}
    BY <1>0, <1>1, <1>5, <2>1 DEF GapsLieBetween
  <2>5. backfilled' + droppedTotal' + Cardinality(skipped') + Cardinality(Pending') = Cardinality(InGaps)
    BY <1>1, <1>2, <1>5, <2>1, <2>3
  <2> QED BY <1>0, <1>5, <2>1, <2>4, <2>5 DEF Ledger
<1>7. CASE BackfillSend(b)
  <2>1. /\ Continue(b, b.next + 1, "fetch") /\ skipped' = skipped
        /\ backfilled' = backfilled + 1 /\ droppedTotal' = droppedTotal /\ abandoned' = abandoned
    BY <1>7 DEF BackfillSend
  <2>4. GapsLieBetween' /\ skipped' \cap Pending' = {}
    BY <1>0, <1>1, <1>5, <2>1 DEF GapsLieBetween
  <2>5. backfilled' + droppedTotal' + Cardinality(skipped') + Cardinality(Pending') = Cardinality(InGaps)
    BY <1>1, <1>2, <1>5, <2>1
  <2> QED BY <1>0, <1>5, <2>1, <2>4, <2>5 DEF Ledger
<1>8. CASE BackfillSendCancelled(b)
  BY <1>0, <1>8 DEF BackfillSendCancelled, Interrupted
<1> QED BY <1>3, <1>4, <1>6, <1>7, <1>8 DEF Fill

\* A header that is higher than all before it opens the gap below it, if there is one,
\* and its backfill in the same step; any other header opens none.
LEMMA ReceiveLedger ==
    ASSUME IInv, Ledger, Receive
    PROVE  Ledger'
<1> SUFFICES ASSUME ~cancelled' PROVE Ledger'
  BY DEF Ledger
<1> DEFINE h == Head(headers)
<1>0. /\ h \in Heights /\ h \in Int /\ lastHeight \in Nat /\ ~cancelled
      /\ backfills' = backfills \cup GapAfter(h)
      /\ lastHeight' = HighestSeen(h)
      /\ risen' = IF h > lastHeight THEN risen \cup {h} ELSE risen
      /\ UNCHANGED <<backfilled, droppedTotal, abandoned, skipped>>
      /\ risen \subseteq Heights
  BY ReceiveTypes DEF Receive, stopVars, Heights, IInv, TypeOK
<1> HIDE DEF h
<1>1. /\ Disjoint /\ GapsLieBetween /\ skipped \cap Pending = {}
      /\ backfilled + droppedTotal + Cardinality(skipped) + Cardinality(Pending) = Cardinality(InGaps)
  BY <1>0 DEF Ledger
<1>2. CASE ~(h > lastHeight)
  <2>1. GapAfter(h) = {} /\ lastHeight' = lastHeight /\ risen' = risen
    BY <1>0, <1>2 DEF GapAfter, HighestSeen
  <2>2. backfills' = backfills
    BY <1>0, <2>1
  <2>3. Pending' = Pending /\ InGaps' = InGaps
    BY <2>1, <2>2 DEF Pending, InGaps
  <2> QED BY <1>0, <1>1, <2>1, <2>2, <2>3 DEF Ledger, Disjoint, GapsLieBetween
<1>3. CASE h > lastHeight /\ lastHeight = 0
  <2>1. GapAfter(h) = {} /\ lastHeight' = h /\ risen = {} /\ risen' = {h}
    <3>1. risen = {}
      BY <1>0, <1>1, <1>3 DEF GapsLieBetween, Heights
    <3> QED BY <1>0, <1>3, <3>1 DEF GapAfter, HighestSeen
  <2>2. backfills' = backfills /\ Pending' = Pending
    BY <1>0, <2>1 DEF Pending
  <2>3. InGaps = {} /\ InGaps' = {}
    BY <1>0, <1>3, <2>1 DEF InGaps, Heights
  <2> QED BY <1>0, <1>1, <2>1, <2>2, <2>3 DEF Ledger, Disjoint, GapsLieBetween
<1>4. CASE h > lastHeight /\ lastHeight # 0
  <2> DEFINE lo == lastHeight + 1
             hi == h - 1
  <2>0. lo \in Int /\ hi \in Int /\ lo <= hi + 1
    BY <1>0, <1>4
  <2>1. lastHeight' = h /\ risen' = risen \cup {h} /\ lastHeight \in risen /\ \A r \in risen : r <= lastHeight
    BY <1>0, <1>1, <1>4 DEF HighestSeen, GapsLieBetween
  <2>2. InGaps' = InGaps \cup (lo .. hi)
    <3>1. ASSUME NEW x \in Heights, x < h, x # h, x \notin risen, NEW r \in risen, r < x PROVE x \in InGaps \cup (lo .. hi)
      BY <1>0, <2>1, <3>1 DEF InGaps, Heights
    <3>2. ASSUME NEW x \in lo .. hi PROVE x \in Heights /\ x < h /\ x # h /\ x \notin risen /\ lastHeight < x
      BY <1>0, <1>4, <2>1, <3>2, BoundsAssumption DEF Heights
    <3>3. ASSUME NEW x \in InGaps PROVE x \in Heights /\ x < h /\ x # h /\ x \notin risen /\ \E r \in risen : r < x
      BY <1>0, <1>4, <3>3 DEF InGaps, Heights
    <3>4. InGaps' \subseteq InGaps \cup (lo .. hi)
      <4>1. ASSUME NEW x \in InGaps' PROVE x \in InGaps \cup (lo .. hi)
        <5>1. x \in Heights /\ x < h /\ x \notin risen /\ x # h
          BY <2>1, <4>1 DEF InGaps
        <5>2. PICK r \in risen \cup {h} : r < x
          BY <2>1, <4>1 DEF InGaps
        <5>3. r # h
          BY <1>0, <5>1, <5>2 DEF Heights
        <5> QED BY <3>1, <5>1, <5>2, <5>3
      <4> QED BY <4>1
    <3>5. InGaps \subseteq InGaps'
      BY <2>1, <3>3 DEF InGaps
    <3>6. lo .. hi \subseteq InGaps'
      BY <2>1, <3>2 DEF InGaps
    <3> QED BY <3>4, <3>5, <3>6
  <2>3. InGaps \cap (lo .. hi) = {}
    BY <1>0 DEF InGaps, Heights
  <2>4. Pending' = Pending \cup (lo .. hi)
    <3>1. CASE h > lastHeight + 1
      <4> DEFINE gap == [next |-> lo, to |-> hi, pc |-> "cap"]
      <4>1. backfills' = backfills \cup {gap} /\ gap.next = lo /\ gap.to = hi
        BY <1>0, <1>4, <3>1 DEF GapAfter
      <4> HIDE DEF gap, lo, hi
      <4>2. \A x : x \in Pending' <=> x \in Pending \/ x \in lo .. hi
        BY <4>1 DEF Pending
      <4> QED BY <4>2
    <3>2. CASE ~(h > lastHeight + 1)
      <4>1. backfills' = backfills
        BY <1>0, <3>2 DEF GapAfter
      <4>2. lo .. hi = {}
        BY <1>0, <1>4, <3>2
      <4> QED BY <4>1, <4>2 DEF Pending
    <3> QED BY <3>1, <3>2
  <2>5. Pending \cap (lo .. hi) = {} /\ skipped \cap (lo .. hi) = {}
    BY <1>1, <2>3 DEF GapsLieBetween
  <2>6. GapsLieBetween'
    BY <1>0, <1>1, <1>4, <2>1, <2>2, <2>4 DEF GapsLieBetween, Heights
  <2>7. Disjoint'
    <3>1. \A b \in backfills : b.to < lo
      <4>1. ASSUME NEW b \in backfills PROVE b.to < lo
        <5>1. b.to \in Pending /\ b.to \in Int
          BY PendingHeights
        <5>2. b.to \in InGaps
          BY <1>1, <5>1 DEF GapsLieBetween
        <5> QED BY <1>0, <5>1, <5>2 DEF InGaps
      <4> QED BY <4>1
    <3>2. \A x \in backfills' : x \in backfills \/ x = [next |-> lo, to |-> hi, pc |-> "cap"]
      BY <1>0 DEF GapAfter
    <3>3. [next |-> lo, to |-> hi, pc |-> "cap"].next = lo
      OBVIOUS
    <3> HIDE DEF lo, hi
    <3> SUFFICES ASSUME NEW x \in backfills', NEW y \in backfills', x # y
                 PROVE  x.to < y.next \/ y.to < x.next
      BY DEF Disjoint
    <3>4. CASE x \in backfills /\ y \in backfills
      BY <1>1, <3>4 DEF Disjoint
    <3>5. CASE x \in backfills /\ y \notin backfills
      BY <3>1, <3>2, <3>3, <3>5
    <3>6. CASE x \notin backfills /\ y \in backfills
      BY <3>1, <3>2, <3>3, <3>6
    <3>7. x \in backfills \/ y \in backfills
      BY <3>2
    <3> QED BY <3>4, <3>5, <3>6, <3>7
  <2>8. backfilled' + droppedTotal' + Cardinality(skipped') + Cardinality(Pending') = Cardinality(InGaps')
    <3> HIDE DEF lo, hi
    <3>1. Pending \subseteq Heights /\ InGaps \subseteq Heights /\ skipped \subseteq Heights
      BY PendingHeights DEF IInv, TypeOK
    <3>2. Cardinality(Pending') = Cardinality(Pending) + (hi - lo + 1)
      BY <2>0, <2>4, <2>5, <3>1, PutIn
    <3>3. Cardinality(InGaps') = Cardinality(InGaps) + (hi - lo + 1)
      BY <2>0, <2>2, <2>3, <3>1, PutIn
    <3>4. Cardinality(Pending) \in Nat /\ Cardinality(InGaps) \in Nat /\ Cardinality(skipped) \in Nat
          /\ backfilled \in Nat /\ droppedTotal \in Nat
      BY <3>1, HeightsFinite DEF IInv, TypeOK
    <3> QED BY <1>0, <1>1, <2>0, <3>2, <3>3, <3>4
  <2>9. skipped' \cap Pending' = {}
    BY <1>0, <1>1, <2>4, <2>5
  <2> QED BY <2>6, <2>7, <2>8, <2>9 DEF Ledger
<1> QED BY <1>0, <1>2, <1>3, <1>4

\* Every step keeps the ledger: the others do not touch it, or are a cancellation.
LEMMA NextLedger == IInv /\ Ledger /\ [Next]_vars => Ledger'
<1> SUFFICES ASSUME IInv, Ledger, [Next]_vars PROVE Ledger'
  OBVIOUS
<1>1. ASSUME UNCHANGED <<backfills, backfilled, droppedTotal, abandoned, skipped, risen, lastHeight>>,
             cancelled' = cancelled \/ cancelled'
      PROVE  Ledger'
  BY <1>1 DEF Ledger, Disjoint, GapsLieBetween, Pending, InGaps
<1>2. CASE Environment
  BY <1>1, <1>2 DEF Environment, NewBlock, AnnounceNew, AnnounceAgain, Announce, Drop, Cancel,
                    loopVars, recvVars, poolVars, fillVars, stopVars
<1>3. CASE Consume \/ Requeue \/ PoolExit \/ UNCHANGED vars
  BY <1>1, <1>3 DEF Consume, Requeue, PoolExit, vars, loopVars, recvVars, poolVars, fillVars, stopVars
<1>4. CASE Loop /\ ~Receive
  BY <1>1, <1>4 DEF Loop, Start, Shutdown, SubErr, Send, Reconnect, ReconnectCancelled, Return,
                    recvVars, poolVars, fillVars, stopVars
<1> QED BY <1>2, <1>3, <1>4, ReceiveLedger, FillLedger DEF Next, Loop

\* Every height a gap swallowed is backfilled, dropped, skipped or pending, and counted
\* once, whatever drops, repeated headers and concurrent backfills there are.
THEOREM LedgerAlwaysBalances == Spec => []GapLedger
<1>1. IInv /\ Ledger => GapLedger
  BY DEF Ledger, GapsLieBetween, GapLedger
<1>2. Spec => []Ledger
  BY InitLedger, NextLedger, Invariance, PTL DEF Spec
<1> QED BY <1>1, <1>2, Invariance, PTL

-----------------------------------------------------------------------------
(* What becomes of a height. *)

\* Until the exporter is cancelled, a height that was received, or fell into a gap, is on
\* its way to the queue, has been sent to it, or was left out by the cap or a failed fetch.
OnItsWay == Pending \cup (IF pc = "send" THEN {sending} ELSE {})

NoHeightLost == ~cancelled => risen \cup InGaps \subseteq OnItsWay \cup enqueued \cup abandoned \cup skipped

\* A gap is opened together with its backfill, and what was received is sent next.
LEMMA GapOpens ==
    ASSUME IInv, GapsLieBetween, Receive
    PROVE  /\ InGaps' \subseteq InGaps \cup Pending' /\ Pending \subseteq Pending'
           /\ risen' \subseteq risen \cup {sending'} /\ pc' = "send" /\ pc = "select"
           /\ UNCHANGED <<enqueued, abandoned, skipped>>
<1> DEFINE h == Head(headers)
<1>1. /\ h \in Heights /\ h \in Int /\ lastHeight \in Nat /\ h > 0
      /\ backfills' = backfills \cup GapAfter(h)
      /\ lastHeight' = HighestSeen(h)
      /\ risen' = IF h > lastHeight THEN risen \cup {h} ELSE risen
      /\ sending' = h /\ pc' = "send" /\ pc = "select"
      /\ UNCHANGED <<enqueued, abandoned, skipped>>
      /\ risen \subseteq Heights
  BY ReceiveTypes DEF Receive, Heights, IInv, TypeOK, queueVars
<1> HIDE DEF h
<1>2. Pending \subseteq Pending'
  BY <1>1 DEF Pending
<1>3. ASSUME NEW x \in InGaps' PROVE x \in InGaps \cup Pending'
  <2>1. x \in Heights /\ x < lastHeight' /\ x \notin risen' /\ x \in Int
    BY <1>3 DEF InGaps, Heights
  <2>2. PICK r \in risen' : r < x
    BY <1>3 DEF InGaps
  <2>3. CASE ~(h > lastHeight)
    BY <1>1, <2>1, <2>2, <2>3 DEF HighestSeen, InGaps
  <2>4. CASE h > lastHeight
    <3>1. lastHeight' = h /\ risen' = risen \cup {h}
      BY <1>1, <2>4 DEF HighestSeen
    <3>2. r \in risen /\ r \in Int /\ r > 0
      BY <1>1, <2>1, <2>2, <3>1 DEF Heights
    <3>3. lastHeight \in risen /\ r <= lastHeight
      BY <3>2 DEF GapsLieBetween
    <3>4. CASE x < lastHeight
      BY <2>1, <2>2, <3>1, <3>2, <3>4 DEF InGaps
    <3>5. CASE x > lastHeight
      <4> DEFINE gap == [next |-> lastHeight + 1, to |-> h - 1, pc |-> "cap"]
      <4>1. h > lastHeight + 1 /\ lastHeight # 0
        BY <1>1, <2>1, <3>1, <3>2, <3>3, <3>5
      <4>2. gap \in backfills'
        BY <1>1, <4>1 DEF GapAfter
      <4>3. x \in gap.next .. gap.to
        BY <1>1, <2>1, <3>1, <3>5
      <4> QED BY <4>2, <4>3 DEF Pending
    <3>6. x # lastHeight
      BY <2>1, <3>1, <3>3
    <3> QED BY <1>1, <2>1, <3>4, <3>5, <3>6
  <2> QED BY <2>3, <2>4
<1> QED BY <1>1, <1>2, <1>3

\* A backfill leaves a height behind only by sending, abandoning or skipping it.
LEMMA FillMoves ==
    ASSUME IInv, Disjoint, ~cancelled, NEW b \in backfills, Fill(b)
    PROVE  /\ Pending \subseteq Pending' \cup enqueued' \cup abandoned' \cup skipped'
           /\ enqueued \subseteq enqueued' /\ abandoned \subseteq abandoned' /\ skipped \subseteq skipped'
<1>1. b.next \in Int /\ b.to \in Int /\ b.next <= b.to
  BY PendingHeights
<1>2. ASSUME NEW n \in Int, b.next <= n, n <= b.to + 1, NEW p \in {"cap", "fetch", "send"}, Continue(b, n, p)
      PROVE  Pending' = Pending \ (b.next .. n - 1)
  BY <1>2, ContinuePending
<1>3. CASE BackfillCap(b) /\ Remaining(b) > MaxBackfill
  <2>1. KeepFrom(b) \in Int /\ b.next <= KeepFrom(b) /\ KeepFrom(b) <= b.to + 1
        /\ KeepFrom(b) - 1 = b.to - MaxBackfill
    BY <1>1, <1>3, CapsAssumption DEF KeepFrom, Remaining
  <2>2. /\ abandoned' = abandoned \cup (b.next .. b.to - MaxBackfill)
        /\ Continue(b, KeepFrom(b), "fetch") /\ UNCHANGED <<enqueued, skipped>>
    BY <1>3 DEF BackfillCap, queueVars
  <2>3. Pending' = Pending \ (b.next .. b.to - MaxBackfill)
    BY <1>2, <2>1, <2>2
  <2> QED BY <2>2, <2>3
<1>4. CASE (BackfillCap(b) /\ ~(Remaining(b) > MaxBackfill)) \/ BackfillFetch(b)
  <2>1. PICK p \in {"fetch", "send"} : Continue(b, b.next, p)
    BY <1>4 DEF BackfillCap, BackfillFetch
  <2>2. Pending' = Pending \ (b.next .. b.next - 1)
    BY <1>1, <1>2, <2>1
  <2>3. Pending' = Pending
    BY <1>1, <2>2
  <2>4. UNCHANGED <<enqueued, abandoned, skipped>>
    BY <1>4 DEF BackfillCap, BackfillFetch, queueVars
  <2> QED BY <2>3, <2>4
<1>5. ASSUME Continue(b, b.next + 1, "fetch") PROVE Pending' = Pending \ {b.next}
  <2>1. Pending' = Pending \ (b.next .. b.next + 1 - 1)
    BY <1>1, <1>2, <1>5
  <2> QED BY <1>1, <2>1
<1>6. CASE BackfillFetchFails(b)
  BY <1>5, <1>6 DEF BackfillFetchFails, queueVars
<1>7. CASE BackfillSend(b)
  BY <1>5, <1>7 DEF BackfillSend, Enqueue
<1>8. ~BackfillSendCancelled(b)
  BY DEF BackfillSendCancelled, Interrupted
<1> QED BY <1>3, <1>4, <1>6, <1>7, <1>8 DEF Fill

\* Every step keeps every height on its way, queued or given up.
LEMMA LostKept == IInv /\ Ledger /\ NoHeightLost /\ [Next]_vars => NoHeightLost'
<1> SUFFICES ASSUME IInv, Ledger, NoHeightLost, [Next]_vars, ~cancelled'
             PROVE  risen' \cup InGaps' \subseteq OnItsWay' \cup enqueued' \cup abandoned' \cup skipped'
  BY DEF NoHeightLost
<1>0. ASSUME UNCHANGED <<backfills, abandoned, skipped, risen, lastHeight>>, ~cancelled,
             enqueued \subseteq enqueued', pc = "send" => sending \in OnItsWay' \cup enqueued'
      PROVE  risen' \cup InGaps' \subseteq OnItsWay' \cup enqueued' \cup abandoned' \cup skipped'
  <2>1. Pending' = Pending /\ InGaps' = InGaps
    BY <1>0 DEF Pending, InGaps
  <2> QED BY <1>0, <2>1 DEF NoHeightLost, OnItsWay
<1>1. CASE Environment \/ Consume \/ Requeue \/ PoolExit \/ UNCHANGED vars
  <2>1. UNCHANGED <<backfills, abandoned, skipped, risen, lastHeight, enqueued, pc, sending>> /\ ~cancelled
    BY <1>1 DEF Environment, NewBlock, AnnounceNew, AnnounceAgain, Announce, Drop, Cancel, Consume, Requeue, PoolExit,
                vars, loopVars, recvVars, poolVars, fillVars, queueVars, stopVars
  <2> QED BY <1>0, <2>1 DEF OnItsWay
<1>2. CASE Start \/ SubErr \/ Reconnect \/ Return
  <2>1. UNCHANGED <<backfills, abandoned, skipped, risen, lastHeight, enqueued>> /\ ~cancelled /\ pc # "send"
    BY <1>2 DEF Start, SubErr, Reconnect, Return, recvVars, poolVars, fillVars, queueVars, stopVars
  <2> QED BY <1>0, <2>1
<1>3. CASE Shutdown \/ ReconnectCancelled
  BY <1>3 DEF Shutdown, ReconnectCancelled, poolVars, stopVars
<1>4. CASE Send
  <2>1. UNCHANGED <<backfills, abandoned, skipped, risen, lastHeight>> /\ ~cancelled
        /\ enqueued' = enqueued \cup {sending}
    BY <1>4 DEF Send, Enqueue, recvVars, fillVars, stopVars
  <2> QED BY <1>0, <2>1
<1>5. CASE Receive
  <2>1. ~cancelled
    BY <1>5 DEF Receive, stopVars
  <2>2. GapsLieBetween
    BY <2>1 DEF Ledger
  <2>3. OnItsWay' = Pending' \cup {sending'} /\ OnItsWay = Pending
    BY <1>5, <2>2, GapOpens DEF OnItsWay
  <2> QED BY <1>5, <2>1, <2>2, <2>3, GapOpens DEF NoHeightLost
<1>6. ASSUME NEW b \in backfills, Fill(b)
      PROVE  risen' \cup InGaps' \subseteq OnItsWay' \cup enqueued' \cup abandoned' \cup skipped'
  <2>1. UNCHANGED <<loopVars, stopVars>>
    BY <1>6, FillTypes
  <2>2. UNCHANGED <<pc, sending, risen, lastHeight>> /\ ~cancelled /\ InGaps' = InGaps
    BY <2>1 DEF loopVars, recvVars, stopVars, InGaps
  <2>3. Disjoint
    BY <2>2 DEF Ledger
  <2> QED BY <1>6, <2>2, <2>3, FillMoves DEF NoHeightLost, OnItsWay
<1> QED BY <1>1, <1>2, <1>3, <1>4, <1>5, <1>6 DEF Next, Loop

\* For every length of the chain, whatever drops, gaps, old headers and failed fetches
\* there are: the safe half of GapsClose (verifier.go:188-212 and 244-268).
THEOREM NeverLosesHeight == Spec => []NoHeightLost
<1>1. Init => NoHeightLost
  BY DEF Init, NoHeightLost, InGaps
<1> QED BY <1>1, InitLedger, NextLedger, Invariance, LostKept, PTL DEF Spec

-----------------------------------------------------------------------------
(* The composition with the worker pool. *)

\* The state of the pool, in the module Verifier's own order.
LEMMA PoolUnchanged == UNCHANGED poolOnly /\ UNCHANGED cancelled => UNCHANGED Pool!vars
BY DEF poolOnly, Pool!vars, Pool!jobVars, Pool!metricVars, Pool!recordVars, Pool!envVars

\* The steps that are the subscription's alone, and those of both.
LEMMA ReceivingImplements == Receiving => Next /\ UNCHANGED Pool!vars
<1> SUFFICES ASSUME Receiving PROVE Next /\ UNCHANGED Pool!vars
  OBVIOUS
<1>1. Next
  BY DEF Receiving, Next, Environment, Loop, Fill
<1>2. UNCHANGED cancelled
  BY DEF Receiving, NewBlock, AnnounceNew, AnnounceAgain, Announce, Drop, Start, Shutdown, SubErr, Receive,
         Reconnect, ReconnectCancelled, Return, BackfillCap, BackfillFetch, BackfillFetchFails,
         BackfillSendCancelled, poolVars, stopVars
<1>3. UNCHANGED poolOnly
  BY DEF Receiving
<1> QED BY <1>1, <1>2, <1>3, PoolUnchanged

\* A send is a send of the subscription and a delivery of the pool.
LEMMA SendingImplements == IInv /\ Sending => Next /\ Pool!Next
<1> SUFFICES ASSUME IInv, Sending PROVE Next /\ Pool!Next
  OBVIOUS
<1>1. ASSUME NEW h \in Heights, HandOver(h) PROVE Pool!Next
  <2>1. PICK n \in 1 .. Copies : Pool!Deliver(<<h, n>>)
    BY <1>1 DEF HandOver
  <2>2. <<h, n>> \in Heights \X (1 .. Copies)
    OBVIOUS
  <2> QED BY <2>1, <2>2 DEF Pool!Next
<1>2. CASE Send /\ HandOver(sending)
  <2>1. sending \in Heights
    BY <1>2 DEF IInv, Filling, Send
  <2> QED BY <1>1, <1>2, <2>1 DEF Next, Loop
<1>3. ASSUME NEW b \in backfills, BackfillSend(b), HandOver(b.next) PROVE Next /\ Pool!Next
  <2>1. b.next \in Heights
    BY DEF IInv, TypeOK, Backfill
  <2> QED BY <1>1, <1>3, <2>1 DEF Next, Fill
<1> QED BY <1>2, <1>3 DEF Sending

\* A step of the composition is one of each part, or leaves it alone.
LEMMA StepImplements == IInv /\ [PipelineNext]_pipelineVars => [Next]_vars /\ [Pool!Next]_(Pool!vars)
<1> SUFFICES ASSUME IInv, [PipelineNext]_pipelineVars PROVE [Next]_vars /\ [Pool!Next]_(Pool!vars)
  OBVIOUS
<1>1. CASE Receiving
  BY <1>1, ReceivingImplements
<1>2. CASE Sending
  BY <1>2, SendingImplements
<1>3. CASE Timers
  BY <1>3 DEF Timers, Next, Pool!Next
<1>4. CASE Outside
  <2>1. ASSUME NEW b \in Pool!BlobTypes, NEW h \in 1 .. head, Pool!Submit(b, h), UNCHANGED vars
        PROVE  Pool!Next
    <3>1. h \in Heights
      <4>1. head \in 0 .. MaxHead
        BY DEF IInv, TypeOK
      <4> QED BY <4>1, BoundsAssumption DEF Heights
    <3>2. h = <<h, 1>>[1] /\ <<h, 1>> \in Heights \X (1 .. Copies)
      BY <3>1, SharedQueueAssumption
    <3>3. h \in Pool!Heights
      BY <3>2 DEF Pool!Heights
    <3> QED BY <2>1, <3>3 DEF Pool!Next
  <2>2. CASE Pool!Recover /\ UNCHANGED vars
    BY <2>2 DEF Pool!Next
  <2>3. CASE Cancel /\ Pool!Cancel
    BY <2>3 DEF Next, Environment, Pool!Next
  <2> QED BY <1>4, <2>1, <2>2, <2>3 DEF Outside
<1>5. ASSUME NEW w \in Workers, TakeJob(w) \/ WorkOn(w) \/ WorkerExits(w)
      PROVE  [Next]_vars /\ Pool!Next
  BY <1>5 DEF TakeJob, WorkOn, WorkerExits, Next, Pool!Next
<1>6. CASE UNCHANGED pipelineVars
  <2>1. UNCHANGED vars /\ UNCHANGED poolOnly
    BY <1>6 DEF pipelineVars
  <2>2. UNCHANGED cancelled
    BY <2>1 DEF vars, poolVars, stopVars
  <2> QED BY <2>1, <2>2, PoolUnchanged
<1> QED BY <1>1, <1>2, <1>3, <1>4, <1>5, <1>6 DEF PipelineNext

\* The composition implements both its parts: what is proved of the subscription with a
\* consumer, and of the pool with deliveries at any time, holds for the whole verifier.
THEOREM PipelineImplementsParts == PipelineSpec => Spec /\ Pool!Spec
<1>1. PipelineInit => Init /\ Pool!Init
  BY DEF PipelineInit
<1>2. IInv /\ [PipelineNext]_pipelineVars => IInv'
  BY StepImplements, NextIInv
<1> QED BY <1>1, <1>2, InitIInv, StepImplements, PTL DEF PipelineSpec, Spec, Pool!Spec

-----------------------------------------------------------------------------
(* The end of the whole verifier. *)

\* workerGroup is empty of workers only when they have exited, and the return waits for it.
GroupWaits ==
    /\ poolDone => Pool!Stopped
    /\ pc = "returned" => poolDone

\* A worker that has exited does nothing.
LEMMA ExitedIsQuiet ==
    ASSUME Pool!Stopped, NEW w \in Workers
    PROVE  ~(TakeJob(w) \/ WorkOn(w) \/ WorkerExits(w))
<1>1. worker[w].pc = "exited"
  BY DEF Pool!Stopped
<1>2. ~Pool!Take(w)
  BY <1>1 DEF Pool!Take
<1>3. ~Pool!Exit(w)
  BY <1>1 DEF Pool!Exit
<1>4. ~Pool!Fetch(w)
  BY <1>1 DEF Pool!Fetch
<1>5. ~Pool!VerifyHeader(w) /\ ~Pool!VerifyData(w)
  BY <1>1 DEF Pool!VerifyHeader, Pool!VerifyData, Pool!VerifyPart
<1>6. ~Pool!Finish(w) /\ ~Pool!Retry(w) /\ ~Pool!GiveUp(w)
  BY <1>1 DEF Pool!Finish, Pool!Retry, Pool!GiveUp, Pool!Decides
<1> QED BY <1>2, <1>3, <1>4, <1>5, <1>6 DEF TakeJob, WorkOn, WorkerExits, Pool!Work

\* Any other step leaves workers and metrics alone, and returns only from an empty group.
NoWorker ==
    /\ worker' = worker /\ poolDone' = poolDone /\ UNCHANGED Pool!metricVars
    /\ pc' = "returned" => pc = "returned" \/ poolDone

\* Only the workers change what they do.
LEMMA OthersLeaveWorkers == Receiving \/ Sending \/ Timers \/ Outside \/ UNCHANGED pipelineVars => NoWorker
<1>1. CASE Receiving
  <2>1. UNCHANGED poolOnly
    BY <1>1 DEF Receiving
  <2>2. poolDone' = poolDone
    BY <1>1 DEF Receiving, NewBlock, AnnounceNew, AnnounceAgain, Announce, Drop, Start, Shutdown, SubErr, Receive,
         Reconnect, ReconnectCancelled, Return, BackfillCap, BackfillFetch, BackfillFetchFails,
         BackfillSendCancelled, poolVars, stopVars
  <2>3. pc' = "returned" => pc = "returned" \/ poolDone
    BY <1>1 DEF Receiving, NewBlock, AnnounceNew, AnnounceAgain, Announce, Drop, Start, Shutdown, SubErr, Receive,
         Reconnect, ReconnectCancelled, Return, GroupDone, BackfillCap, BackfillFetch, BackfillFetchFails,
         BackfillSendCancelled, loopVars
  <2> QED BY <2>1, <2>2, <2>3 DEF NoWorker, poolOnly, Pool!metricVars, Pool!recordVars
<1>2. CASE Sending
  <2>1. worker' = worker /\ UNCHANGED Pool!metricVars
    BY <1>2 DEF Sending, HandOver, Pool!Deliver
  <2>2. poolDone' = poolDone /\ (pc' = "returned" => pc = "returned")
    BY <1>2 DEF Sending, Send, BackfillSend, stopVars, loopVars
  <2> QED BY <2>1, <2>2 DEF NoWorker
<1>3. CASE Timers
  <2>1. worker' = worker /\ UNCHANGED Pool!metricVars
    BY <1>3 DEF Timers, Pool!TimerSend, Pool!TimerDrop
  <2>2. poolDone' = poolDone /\ pc' = pc
    BY <1>3 DEF Timers, Requeue, stopVars, loopVars, vars, poolVars
  <2> QED BY <2>1, <2>2 DEF NoWorker
<1>4. CASE Outside
  <2>1. worker' = worker /\ UNCHANGED Pool!metricVars
    BY <1>4 DEF Outside, Pool!Submit, Pool!Recover, Pool!Cancel
  <2>2. poolDone' = poolDone /\ pc' = pc
    BY <1>4 DEF Outside, Cancel, stopVars, loopVars, vars, poolVars
  <2> QED BY <2>1, <2>2 DEF NoWorker
<1>5. CASE UNCHANGED pipelineVars
  BY <1>5 DEF NoWorker, pipelineVars, poolOnly, vars, loopVars, poolVars, stopVars, Pool!metricVars, Pool!recordVars
<1> QED BY <1>1, <1>2, <1>3, <1>4, <1>5

\* A worker's step does not move the loop; the last exit empties the group.
LEMMA WorkersKeepGroup ==
    ASSUME NEW w \in Workers, TakeJob(w) \/ WorkOn(w) \/ WorkerExits(w)
    PROVE  pc' = pc /\ (poolDone' = poolDone \/ Pool!Stopped')
BY DEF TakeJob, Consume, WorkOn, WorkerExits, PoolExit, vars, loopVars, poolVars, stopVars

\* The group waits for the pool.
LEMMA GroupWaitsKept == GroupWaits /\ [PipelineNext]_pipelineVars => GroupWaits'
<1> SUFFICES ASSUME GroupWaits, [PipelineNext]_pipelineVars PROVE GroupWaits'
  OBVIOUS
<1>1. CASE NoWorker
  BY <1>1 DEF NoWorker, GroupWaits, Pool!Stopped
<1>2. ASSUME NEW w \in Workers, TakeJob(w) \/ WorkOn(w) \/ WorkerExits(w) PROVE GroupWaits'
  <2>1. ~poolDone
    BY <1>2, ExitedIsQuiet DEF GroupWaits
  <2>2. pc' # "returned"
    BY <1>2, <2>1, WorkersKeepGroup DEF GroupWaits
  <2>3. poolDone' => Pool!Stopped'
    BY <1>2, <2>1, WorkersKeepGroup
  <2> QED BY <2>2, <2>3 DEF GroupWaits
<1> QED BY <1>1, <1>2, OthersLeaveWorkers DEF PipelineNext

\* For every number of workers and of deliveries, no worker touches a metric any more once
\* ExportMetrics has returned.
THEOREM AlwaysSilentAfterReturn == PipelineSpec => SilentAfterReturn
<1>1. PipelineInit => GroupWaits
  BY DEF PipelineInit, Init, GroupWaits
<1>2. GroupWaits /\ [PipelineNext]_pipelineVars
         => [pc = "returned" => UNCHANGED Pool!metricVars]_pipelineVars
  <2> SUFFICES ASSUME GroupWaits, [PipelineNext]_pipelineVars, pc = "returned"
               PROVE  UNCHANGED Pool!metricVars
    OBVIOUS
  <2>1. \A w \in Workers : ~(TakeJob(w) \/ WorkOn(w) \/ WorkerExits(w))
    BY ExitedIsQuiet DEF GroupWaits
  <2> QED BY <2>1, OthersLeaveWorkers DEF PipelineNext, NoWorker
<1> QED BY <1>1, <1>2, GroupWaitsKept, PTL DEF PipelineSpec, SilentAfterReturn
-----------------------------------------------------------------------------
(* What is proved of the pool, of the pool in the composition. *)

PoolProofs == INSTANCE Verifier_proofs WITH Deliveries <- Heights \X (1 .. Copies)

\* The assumptions of the module Verifier hold of the composition.
LEMMA PoolAssumptions == /\ PoolProofs!IsFiniteSet(Workers) /\ Attempts \in Nat \ {0}
                         /\ Heights \X (1 .. Copies) \subseteq (Nat \ {0}) \X Nat
BY PoolAssumption DEF IsFiniteSet, PoolProofs!IsFiniteSet, Heights

\* The two instances of the module Verifier are the same specification.
LEMMA SameInit == Pool!Init <=> PoolProofs!Init
BY DEF Pool!Init, PoolProofs!Init, Pool!Nowhere, PoolProofs!Nowhere, Pool!BlobTypes,
       PoolProofs!BlobTypes, Pool!Idle, PoolProofs!Idle

\* They take the same steps,
LEMMA SameStep == [Pool!Next]_(Pool!vars) <=> [PoolProofs!Next]_(PoolProofs!vars)
BY DEF Pool!Idle, PoolProofs!Idle, Pool!NewJob, PoolProofs!NewJob, Pool!HeightOf,
       PoolProofs!HeightOf, Pool!Heights, PoolProofs!Heights, Pool!BlobTypes,
       PoolProofs!BlobTypes, Pool!Job, PoolProofs!Job, Pool!BlockQueueCap,
       PoolProofs!BlockQueueCap, Pool!Required, PoolProofs!Required, Pool!recordVars,
       PoolProofs!recordVars, Pool!metricVars, PoolProofs!metricVars, Pool!jobVars,
       PoolProofs!jobVars, Pool!envVars, PoolProofs!envVars, Pool!vars, PoolProofs!vars,
       Pool!Nowhere, PoolProofs!Nowhere, Pool!Bump, PoolProofs!Bump,
       Pool!RecordSubmissionDaHeight, PoolProofs!RecordSubmissionDaHeight, Pool!OnVerified,
       PoolProofs!OnVerified, Pool!OnMissing, PoolProofs!OnMissing, Pool!Deliver,
       PoolProofs!Deliver, Pool!TimerSend, PoolProofs!TimerSend, Pool!TimerDrop,
       PoolProofs!TimerDrop, Pool!EnqueueAfter, PoolProofs!EnqueueAfter, Pool!MayFail,
       PoolProofs!MayFail, Pool!Take, PoolProofs!Take, Pool!Fetch, PoolProofs!Fetch,
       Pool!PartPending, PoolProofs!PartPending, Pool!VerifyPart, PoolProofs!VerifyPart,
       Pool!VerifyHeader, PoolProofs!VerifyHeader, Pool!VerifyData, PoolProofs!VerifyData,
       Pool!Decides, PoolProofs!Decides, Pool!LeavesInflight, PoolProofs!LeavesInflight,
       Pool!Finish, PoolProofs!Finish, Pool!AttemptsLeft, PoolProofs!AttemptsLeft,
       Pool!RetryJob, PoolProofs!RetryJob, Pool!Retry, PoolProofs!Retry, Pool!CoolDown,
       PoolProofs!CoolDown, Pool!GiveUp, PoolProofs!GiveUp, Pool!Exit, PoolProofs!Exit,
       Pool!Work, PoolProofs!Work, Pool!Submit, PoolProofs!Submit, Pool!Recover,
       PoolProofs!Recover, Pool!Cancel, PoolProofs!Cancel, Pool!Stopped, PoolProofs!Stopped,
       Pool!Cardinality, PoolProofs!Cardinality, Pool!IsFiniteSet, PoolProofs!IsFiniteSet,
       Pool!Next, PoolProofs!Next

\* their properties are the same,
LEMMA SameProperties ==
    /\ Pool!TypeOK <=> PoolProofs!TypeOK
    /\ Pool!MissingHasJob <=> PoolProofs!MissingHasJob
    /\ Pool!InflightIsExact <=> PoolProofs!InflightIsExact
    /\ Pool!CountedOncePerRound <=> PoolProofs!CountedOncePerRound
    /\ Pool!DaHeightIsHighest <=> PoolProofs!DaHeightIsHighest
BY DEF Pool!TypeOK, PoolProofs!TypeOK, Pool!MissingHasJob, PoolProofs!MissingHasJob,
       Pool!InflightIsExact, PoolProofs!InflightIsExact, Pool!CountedOncePerRound,
       PoolProofs!CountedOncePerRound, Pool!DaHeightIsHighest, PoolProofs!DaHeightIsHighest,
       Pool!BlobTypes, PoolProofs!BlobTypes, Pool!Heights, PoolProofs!Heights, Pool!Required,
       PoolProofs!Required, Pool!Job, PoolProofs!Job, Pool!BlockQueueCap,
       PoolProofs!BlockQueueCap, Pool!Idle, PoolProofs!Idle, Pool!HeightOf,
       PoolProofs!HeightOf, Pool!PartPending, PoolProofs!PartPending, Pool!Held,
       PoolProofs!Held, Pool!LiveJobs, PoolProofs!LiveJobs, Pool!Cardinality,
       PoolProofs!Cardinality, Pool!Max, PoolProofs!Max
\* and so are their behaviours.
LEMMA SameSpec == Pool!Spec => PoolProofs!Spec
BY SameInit, SameStep, PTL DEF Pool!Spec, PoolProofs!Spec

\* In the composed verifier, where jobs come from the subscription and its backfills alone
\* and repeated headers and retries are beyond the runs, a height reported missing has a
\* job, and the metrics count right.
PoolIsSafe == /\ Pool!MissingHasJob /\ Pool!InflightIsExact
              /\ Pool!CountedOncePerRound /\ Pool!DaHeightIsHighest

\* What Verifier_proofs says of the pool alone holds of the pool that the subscription feeds.
THEOREM PoolAlwaysSafe == PipelineSpec => []PoolIsSafe
<1>1. PoolProofs!Spec => []PoolProofs!MissingHasJob
  BY PoolProofs!MissingAlwaysHasJob, PoolAssumptions
<1>2. PoolProofs!Spec => []PoolProofs!InflightIsExact
  BY PoolProofs!InflightAlwaysExact, PoolAssumptions
<1>3. PoolProofs!Spec => []PoolProofs!CountedOncePerRound
  BY PoolProofs!AlwaysCountedOnce, PoolAssumptions
<1>4. PoolProofs!Spec => []PoolProofs!DaHeightIsHighest
  BY PoolProofs!DaHeightAlwaysHighest, PoolAssumptions
<1>5. PoolProofs!MissingHasJob /\ PoolProofs!InflightIsExact /\ PoolProofs!CountedOncePerRound
        /\ PoolProofs!DaHeightIsHighest => PoolIsSafe
  BY SameProperties DEF PoolIsSafe
<1> QED BY <1>1, <1>2, <1>3, <1>4, <1>5, SameSpec, PipelineImplementsParts, PTL

-----------------------------------------------------------------------------
(* Nothing is forgotten between the two parts. *)

\* What the subscription has sent to the queue has left the undelivered.
SentAreDelivered == \A h \in enqueued : \E n \in 1 .. Copies : <<h, n>> \notin undelivered

\* Only a hand-over changes either.
LEMMA HandedTogether ==
    ASSUME IInv, [PipelineNext]_pipelineVars
    PROVE  /\ undelivered' \subseteq undelivered
           /\ \/ enqueued' = enqueued
              \/ \E h \in Heights : enqueued' = enqueued \cup {h} /\ HandOver(h)
<1>1. CASE Receiving
  <2>1. enqueued' = enqueued
    BY <1>1 DEF Receiving, NewBlock, AnnounceNew, AnnounceAgain, Announce, Drop, Start, Shutdown, SubErr, Receive,
         Reconnect, ReconnectCancelled, Return, BackfillCap, BackfillFetch, BackfillFetchFails,
         BackfillSendCancelled, poolVars, queueVars
  <2> QED BY <1>1, <2>1 DEF Receiving, poolOnly
<1>2. CASE Sending
  <2>1. CASE Send /\ HandOver(sending)
    BY <2>1 DEF Send, Enqueue, HandOver, Pool!Deliver, IInv, Filling
  <2>2. ASSUME NEW b \in backfills, BackfillSend(b), HandOver(b.next)
        PROVE  undelivered' \subseteq undelivered /\ enqueued' = enqueued \cup {b.next} /\ b.next \in Heights
    BY <2>2, PendingHeights DEF BackfillSend, Enqueue, HandOver, Pool!Deliver
  <2> QED BY <1>2, <2>1, <2>2 DEF Sending
<1>3. CASE Timers
  BY <1>3 DEF Timers, Requeue, Pool!TimerSend, Pool!TimerDrop, vars, poolVars, queueVars
<1>4. CASE Outside
  BY <1>4 DEF Outside, Cancel, Pool!Submit, Pool!Recover, Pool!Cancel, Pool!jobVars, vars, poolVars, queueVars
<1>5. ASSUME NEW w \in Workers, TakeJob(w) \/ WorkOn(w) \/ WorkerExits(w)
      PROVE  undelivered' = undelivered /\ enqueued' = enqueued
  <2>1. enqueued' = enqueued
    BY <1>5 DEF TakeJob, Consume, WorkOn, WorkerExits, PoolExit, vars, poolVars, queueVars
  <2>2. ASSUME Pool!Work(w) PROVE undelivered' = undelivered
    BY <2>2 DEF Pool!Work, Pool!Fetch, Pool!VerifyHeader, Pool!VerifyData, Pool!VerifyPart, Pool!Finish,
         Pool!Retry, Pool!GiveUp, Pool!Decides, Pool!jobVars
  <2>3. undelivered' = undelivered
    BY <1>5, <2>2 DEF TakeJob, WorkOn, WorkerExits, Pool!Take, Pool!Exit, Pool!jobVars
  <2> QED BY <2>1, <2>3
<1>6. CASE UNCHANGED pipelineVars
  BY <1>6 DEF pipelineVars, poolOnly, vars, poolVars, queueVars
<1> QED BY <1>1, <1>2, <1>3, <1>4, <1>5, <1>6 DEF PipelineNext

\* A queued height has a delivery that was handed over.
LEMMA SentKept == IInv /\ SentAreDelivered /\ [PipelineNext]_pipelineVars => SentAreDelivered'
<1> SUFFICES ASSUME IInv, SentAreDelivered, [PipelineNext]_pipelineVars, NEW h \in enqueued'
             PROVE  \E n \in 1 .. Copies : <<h, n>> \notin undelivered'
  BY DEF SentAreDelivered
<1>1. undelivered' \subseteq undelivered
  BY HandedTogether
<1>2. CASE h \in enqueued
  BY <1>1, <1>2 DEF SentAreDelivered
<1>3. CASE h \notin enqueued
  <2>1. HandOver(h)
    BY <1>3, HandedTogether
  <2> QED BY <2>1 DEF HandOver, Pool!Deliver
<1> QED BY <1>2, <1>3

\* The subscription loses no height before the queue, the pool none behind it, and what
\* one has sent the other has received.
LEMMA PartsForgetNothing ==
    ASSUME TypeOK, NoHeightLost, PoolProofs!DeliveredAreLooked, SentAreDelivered
    PROVE  NothingForgotten
<1> SUFFICES ASSUME ~cancelled, NEW h \in risen \cup InGaps, NEW b \in Pool!Required(h),
                    h \notin Pending \cup abandoned \cup skipped, ~(pc = "send" /\ sending = h)
             PROVE  h \in verified[b] \/ \E j \in Pool!LiveJobs : Pool!HeightOf(j) = h /\ Pool!PartPending(j, b)
  BY DEF NothingForgotten
<1>1. h \in enqueued
  BY DEF NoHeightLost, OnItsWay
<1>2. PICK n \in 1 .. Copies : <<h, n>> \notin undelivered
  BY <1>1 DEF SentAreDelivered
<1>3. <<h, n>> \in Heights \X (1 .. Copies) /\ <<h, n>>[1] = h
  BY <1>1 DEF TypeOK
<1>4. b \in PoolProofs!Required(h)
  BY DEF Pool!Required, PoolProofs!Required, Pool!BlobTypes, PoolProofs!BlobTypes
<1>5. h \in verified[b] \/ \E j \in PoolProofs!LiveJobs : j.id = <<h, n>> /\ PoolProofs!PartPending(j, b)
  BY <1>2, <1>3, <1>4 DEF PoolProofs!DeliveredAreLooked
<1>6. Pool!LiveJobs = PoolProofs!LiveJobs
  BY DEF Pool!LiveJobs, PoolProofs!LiveJobs, Pool!Held, PoolProofs!Held
<1>7. \A j : Pool!PartPending(j, b) <=> PoolProofs!PartPending(j, b)
  BY DEF Pool!PartPending, PoolProofs!PartPending, Pool!Required, PoolProofs!Required, Pool!BlobTypes,
         PoolProofs!BlobTypes, Pool!HeightOf, PoolProofs!HeightOf
<1> QED BY <1>3, <1>5, <1>6, <1>7 DEF Pool!HeightOf

\* For every number of workers, every length of the chain, all drops, gaps, old headers,
\* retries and rounds: until the exporter is cancelled, a block that was received or fell
\* into a gap is somewhere (verifier.go:188-212, 244-268 and 308-361).
THEOREM NothingEverForgotten == PipelineSpec => []NothingForgotten
<1>1. PipelineInit => SentAreDelivered
  BY DEF PipelineInit, Init, SentAreDelivered
<1>2. PoolProofs!Spec => []PoolProofs!DeliveredAreLooked
  BY PoolProofs!DeliveredAlwaysLooked, PoolAssumptions
<1>3. PipelineSpec => []SentAreDelivered
  BY <1>1, SentKept, Invariance, PipelineImplementsParts, PTL DEF PipelineSpec
<1>4. IInv => TypeOK
  BY DEF IInv
<1> QED
  BY <1>2, <1>3, <1>4, Invariance, NeverLosesHeight, PartsForgetNothing, PipelineImplementsParts, SameSpec, PTL
=============================================================================
