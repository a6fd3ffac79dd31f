--------------------------- MODULE BlockTime_proofs ---------------------------
(***************************************************************************)
(* For every horizon: the staleness gauge raises no false alarm beyond the *)
(* delay of an overtaken poller, and the histogram observes intervals      *)
(* between headers unless a reference node is polled.                      *)
(***************************************************************************)
EXTENDS BlockTime, TLAPS

\* What the two properties need to know of lastBlockArrivalTime: a poll may make it
\* younger than the last header, or older by at most the time it held the moment it
\* stored, and without polls it is the moment of the last header.
BaselineFollowsHeaders ==
    /\ lastHeader # Never => lastArrival # Never /\ lastArrival <= lastHeader + held
    /\ ~polled => lastArrival = lastHeader /\ poller = "idle"

IInv == TypeOK /\ BaselineFollowsHeaders /\ NoFalseAlarm /\ IntervalsUnlessPolled

\* Ages grow in the order they are in, and the distance between them does not grow.
LEMMA OlderInOrder ==
    ASSUME NEW a \in Ages \cup {Never}, NEW b \in Ages \cup {Never}
    PROVE  /\ Older(a) \in Ages \cup {Never}
           /\ Older(a) = Never <=> a = Never
           /\ a \in Ages => Older(a) \in Ages /\ Older(a) >= a
           /\ \A d \in Ages : b \in Ages /\ a <= b + d => Older(a) <= Older(b) + d
BY HorizonAssumption DEF Ages, Older, Never

\* A bound that is a sum grows with its terms.
LEMMA BoundGrows ==
    ASSUME NEW x \in Int, NEW a \in Int, NEW b \in Int, NEW d \in Int, x <= a + d, a <= b
    PROVE  x <= b + d
OBVIOUS

\* The invariant holds initially.
LEMMA InitIInv == Init => IInv
<1> SUFFICES ASSUME Init PROVE IInv
  OBVIOUS
<1>1. {header, polled, refAhead, halted} \subseteq BOOLEAN
  BY Zenon DEF Init
<1>2. TypeOK
  BY <1>1, HorizonAssumption DEF Init, TypeOK, Ages
<1> QED BY <1>2 DEF Init, IInv, BaselineFollowsHeaders, NoFalseAlarm, IntervalsUnlessPolled

\* Every step keeps it.
LEMMA NextIInv == IInv /\ [Next]_vars => IInv'
<1> SUFFICES ASSUME IInv, [Next]_vars PROVE IInv'
  OBVIOUS
<1> USE DEF IInv
<1>0. 0 \in Ages /\ Never \notin Ages /\ Ages \subseteq Int
  BY HorizonAssumption DEF Ages, Never
<1>1. CASE Clock
  <2>1. TypeOK'
    <3>1. arrival' \in Ages /\ pollMoment' \in Ages /\ held' \in Ages
      BY <1>0, <1>1, OlderInOrder DEF Clock, TypeOK
    <3>2. lastArrival' \in Ages \cup {Never} /\ lastHeader' \in Ages \cup {Never}
      BY <1>1, OlderInOrder DEF Clock, TypeOK
    <3> QED BY <1>1, <3>1, <3>2 DEF Clock, TypeOK, chainVars
  <2>2. lastHeader' # Never => lastArrival' # Never /\ lastArrival' <= lastHeader' + held'
    BY <1>0, <1>1, OlderInOrder DEF Clock, TypeOK, BaselineFollowsHeaders
  <2>3. BaselineFollowsHeaders' /\ IntervalsUnlessPolled'
    BY <1>1, <2>2 DEF Clock, BaselineFollowsHeaders, IntervalsUnlessPolled, chainVars
  <2>4. NoFalseAlarm'
    <3> SUFFICES ASSUME lastHeader' # Never PROVE gauge <= lastHeader' + held
      BY <1>1 DEF Clock, NoFalseAlarm
    <3>1. lastHeader' = Older(lastHeader) /\ lastHeader \in Ages
      BY <1>1, OlderInOrder DEF Clock, TypeOK
    <3>2. gauge <= lastHeader + held /\ lastHeader <= lastHeader' /\ lastHeader' \in Ages
      BY <1>0, <3>1, OlderInOrder DEF NoFalseAlarm
    <3>3. gauge \in Int /\ held \in Int /\ lastHeader \in Int /\ lastHeader' \in Int
      BY <1>0, <3>1, <3>2 DEF TypeOK
    <3> QED BY <3>2, <3>3, BoundGrows
  <2> QED BY <2>1, <2>3, <2>4
<1>2. CASE NewBlock \/ Halt \/ Sent \/ Drop \/ Reconnect
  <2>1. UNCHANGED <<metricVars, historyVars, pollVars, arrival, polled>>
    BY <1>2 DEF NewBlock, Halt, Sent, Drop, Reconnect, chainVars, loopVars
  <2>2. TypeOK'
    BY <1>2, <2>1 DEF NewBlock, Halt, Sent, Drop, Reconnect, chainVars, metricVars, historyVars,
                      pollVars, loopVars, TypeOK
  <2> QED BY <2>1, <2>2 DEF metricVars, historyVars, pollVars, BaselineFollowsHeaders, NoFalseAlarm,
                            IntervalsUnlessPolled
<1>3. CASE Arrive
  BY <1>0, <1>3 DEF Arrive, metricVars, historyVars, pollVars, TypeOK, BaselineFollowsHeaders,
                    NoFalseAlarm, IntervalsUnlessPolled
<1>4. CASE Record
  <2>1. TypeOK'
    BY <1>0, <1>4, HorizonAssumption DEF Record, RecordBlockTime, UpdateLastBlockTimeUnsafe,
                    chainVars, pollVars, TypeOK, Ages, Never
  <2>2. BaselineFollowsHeaders' /\ NoFalseAlarm'
    BY <1>0, <1>4 DEF Record, RecordBlockTime, UpdateLastBlockTimeUnsafe, chainVars, pollVars, TypeOK,
                      BaselineFollowsHeaders, NoFalseAlarm, Ages
  <2>3. IntervalsUnlessPolled'
    BY <1>4 DEF Record, RecordBlockTime, chainVars, BaselineFollowsHeaders, IntervalsUnlessPolled
  <2> QED BY <2>1, <2>2, <2>3
<1>5. CASE Refresh
  BY <1>0, <1>5 DEF Refresh, UpdateTimeSinceLastBlock, chainVars, historyVars, pollVars, loopVars,
                    TypeOK, BaselineFollowsHeaders, NoFalseAlarm, IntervalsUnlessPolled
<1>6. CASE PollAnswers \/ PollReads
  <2>1. UNCHANGED <<metricVars, historyVars, loopVars, polled>>
    BY <1>6 DEF PollAnswers, PollReads, chainVars
  <2>2. polled /\ poller' \in {"answered", "holding"} /\ pollMoment' \in Ages
    BY <1>0, <1>6 DEF PollAnswers, PollReads, TypeOK, BaselineFollowsHeaders
  <2>3. {header', polled', refAhead', halted'} \subseteq BOOLEAN
    BY <1>6 DEF PollAnswers, PollReads, TypeOK, chainVars
  <2>4. TypeOK'
    BY <2>1, <2>2, <2>3 DEF metricVars, historyVars, loopVars, TypeOK
  <2> QED BY <2>1, <2>2, <2>4 DEF metricVars, historyVars, BaselineFollowsHeaders, NoFalseAlarm,
                                  IntervalsUnlessPolled
<1>7. CASE PollStores
  <2>1. polled /\ polled' /\ held' \in Ages
    BY <1>0, <1>7 DEF PollStores, TypeOK, BaselineFollowsHeaders, chainVars
  <2>2. TypeOK'
    BY <1>0, <1>7, <2>1 DEF PollStores, UpdateLastBlockTimeUnsafe, chainVars, loopVars, TypeOK
  <2>3. lastHeader' # Never =>
            lastArrival' # Never /\ lastArrival' <= lastHeader' + held' /\ gauge' <= lastHeader' + held'
    BY <1>0, <1>7 DEF PollStores, UpdateLastBlockTimeUnsafe, TypeOK, Ages, Never
  <2> QED BY <2>1, <2>2, <2>3 DEF BaselineFollowsHeaders, NoFalseAlarm, IntervalsUnlessPolled
<1>8. CASE UNCHANGED vars
  BY <1>8 DEF vars, metricVars, loopVars, pollVars, chainVars, historyVars, TypeOK,
              BaselineFollowsHeaders, NoFalseAlarm, IntervalsUnlessPolled
<1> QED BY <1>1, <1>2, <1>3, <1>4, <1>5, <1>6, <1>7, <1>8 DEF Next

\* The inductive invariant of the block time metrics.
LEMMA Invariance == Spec => []IInv
BY InitIInv, NextIInv, PTL DEF Spec

\* Nothing negative is ever observed, whichever of the loop and the poller stores its
\* moment first.
THEOREM BlockTimeTypeCorrect == Spec => []TypeOK
<1>1. IInv => TypeOK
  BY DEF IInv
<1> QED BY <1>1, Invariance, PTL

\* The gauge is at most the age of the last header recorded, plus what the poller held its
\* moment for if that header overtook it: with and without a reference node, however the
\* moment read before the lock and the headers interleave.
THEOREM NeverFalseAlarm == Spec => []NoFalseAlarm
<1>1. IInv => NoFalseAlarm
  BY DEF IInv
<1> QED BY <1>1, Invariance, PTL

\* Without a reference node the histogram observes the time between two headers received
\* one after the other, across drops and refreshes.
THEOREM AlwaysIntervalsUnlessPolled == Spec => []IntervalsUnlessPolled
<1>1. IInv => IntervalsUnlessPolled
  BY DEF IInv
<1> QED BY <1>1, Invariance, PTL
=============================================================================
