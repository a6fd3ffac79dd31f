---------------------------- MODULE Health_proofs ----------------------------
(***************************************************************************)
(* For every set of pollers, every limit on the age of a header and every  *)
(* horizon: an end that began with a failure is reported as one, whether   *)
(* or not --duration is given; the process of Health is the one of         *)
(* Lifecycle; and the answers of /health are true although its loads       *)
(* interleave with the stores.                                             *)
(***************************************************************************)
EXTENDS Health, TLAPS

-----------------------------------------------------------------------------
(* The process alone. *)

\* FailureIsReported needs to know what the group remembers: a failure that came
\* first is its error, and before the end has begun there is no error and no
\* cancelled context that could have brought another one.
FirstErrorKept ==
    /\ cause = "none" => parent = "none" /\ err = "none"
    /\ cause = "failure" => err = "failure"

IInv == TypeOK /\ FirstErrorKept /\ FailureIsReported

\* A function that returns e leaves the remembered error consistent, provided that
\* an end that has not begun can only begin with a failure.
LEMMA ReturnStep ==
    ASSUME IInv, NEW f \in running, NEW e \in Errors \cup {"none"},
           FunctionReturns(f, e), UNCHANGED <<parent, exit>>,
           cause = "none" => e \in {"none", "failure"}
    PROVE  /\ err' \in Errors \cup {"none"} /\ running' \subseteq Functions
           /\ cause' \in {"none", "signal", "duration", "failure"}
           /\ Done => Done'
           /\ exit' = "none"
           /\ FirstErrorKept' /\ FailureIsReported'
<1>1. exit = "none"
  BY DEF IInv, TypeOK
<1>2. /\ running' = running \ {f}
      /\ err' = IF err = "none" THEN e ELSE err
      /\ cause' = IF cause = "none" /\ e = "failure" THEN "failure" ELSE cause
      /\ parent' = parent /\ exit' = exit
  BY DEF FunctionReturns, KeepFirst
<1>3. FirstErrorKept'
  BY <1>2 DEF IInv, FirstErrorKept
<1>4. FailureIsReported'
  BY <1>1, <1>2 DEF FailureIsReported
<1> QED BY <1>1, <1>2, <1>3, <1>4 DEF Done, IInv, TypeOK

\* The invariant holds initially.
LEMMA InitIInv == Init => IInv
BY DEF Init, IInv, TypeOK, FirstErrorKept, FailureIsReported

\* Every step keeps it.
LEMMA NextIInv == IInv /\ [Next]_vars => IInv'
<1> SUFFICES ASSUME IInv, [Next]_vars PROVE IInv'
  OBVIOUS
<1>0. cause = "none" => ~Done
  BY DEF IInv, FirstErrorKept, Done
<1>1. ASSUME NEW x \in Exporters, ExporterStops(x) PROVE IInv'
  <2>1. StopError(x) \in Errors \cup {"none"} /\ cause # "none" /\ x \in running
    BY <1>0, <1>1 DEF ExporterStops, FunctionReturns, StopError, CtxErr, Errors, IInv, TypeOK
  <2> QED BY <1>1, <2>1, ReturnStep DEF ExporterStops, Done, IInv, TypeOK
<1>2. CASE BeginShutdown
  BY <1>2 DEF BeginShutdown, Done, IInv, TypeOK, FirstErrorKept, FailureIsReported
<1>3. CASE ShutdownDone
  <2>1. "shutdown" \in running
    BY <1>3 DEF ShutdownDone, FunctionReturns
  <2> QED BY <1>3, <2>1, ReturnStep DEF ShutdownDone, Done, IInv, TypeOK
<1>4. CASE ShutdownTimesOut
  <2>1. "shutdown" \in running /\ cause # "none"
    BY <1>0, <1>4 DEF ShutdownTimesOut, FunctionReturns, Done, IInv, TypeOK
  <2> QED BY <1>4, <2>1, ReturnStep DEF ShutdownTimesOut, Errors, Done, IInv, TypeOK
<1>5. CASE VerifierFails
  <2>1. PICK e \in {"failure"} \cup (IF Done THEN {CtxErr} ELSE {}) : FunctionReturns("verifier", e)
    BY <1>5 DEF VerifierFails
  <2>2. e \in Errors /\ (cause = "none" => e = "failure")
    BY <1>0, <2>1 DEF CtxErr, Errors, IInv, TypeOK
  <2>3. "verifier" \in running
    BY <2>1 DEF FunctionReturns
  <2>4. UNCHANGED <<parent, draining, request, exit>>
    BY <1>5 DEF VerifierFails
  <2> QED BY <2>1, <2>2, <2>3, <2>4, ReturnStep DEF Done, IInv, TypeOK
<1>6. CASE ListenReturns
  <2>1. PICK e \in {"failure", "none"} : FunctionReturns("listen", e)
    BY <1>6 DEF ListenReturns
  <2>2. "listen" \in running
    BY <2>1 DEF FunctionReturns
  <2>3. UNCHANGED <<parent, draining, request, exit>>
    BY <1>6 DEF ListenReturns
  <2> QED BY <2>1, <2>2, <2>3, ReturnStep DEF Errors, Done, IInv, TypeOK
<1>7. CASE Request
  BY <1>7 DEF Request, IInv, TypeOK, FirstErrorKept, FailureIsReported
<1>8. CASE ParentDone
  BY <1>8 DEF ParentDone, IInv, TypeOK, FirstErrorKept, FailureIsReported
<1>9. CASE Exit
  BY <1>9 DEF Exit, CleanExit, IInv, TypeOK, FirstErrorKept, FailureIsReported
<1>10. CASE UNCHANGED vars
  BY <1>10 DEF vars, IInv, TypeOK, FirstErrorKept, FailureIsReported
<1> QED BY <1>1, <1>2, <1>3, <1>4, <1>5, <1>6, <1>7, <1>8, <1>9, <1>10 DEF Next, Work

\* The inductive invariant of the group.
LEMMA Invariance == Spec => []IInv
BY InitIInv, NextIInv, PTL DEF Spec

\* The variables of the errgroup hold what their types say, the shutdown of the HTTP
\* server begins only after the context is done, and the process exits only when
\* every function of the group has returned.
THEOREM LifecycleTypeCorrect == Spec => []TypeOK
<1>1. IInv => TypeOK
  BY DEF IInv
<1> QED BY <1>1, Invariance, PTL

\* Whatever the exporters, the listener and the shutdown return after it, a failure
\* that came first is the error of the group and decides the exit status.
THEOREM FailureAlwaysReported == Spec => []FailureIsReported
<1>1. IInv => FailureIsReported
  BY DEF IInv
<1> QED BY <1>1, Invariance, PTL

-----------------------------------------------------------------------------
(* What the writer keeps. *)

Stages == {"subscribing", "swap", "since", "up", "select", "header", "lost",
           "sending", "reconnecting", "stopped"}

HealthTypes ==
    /\ stage \in Stages
    /\ {linked, seen, up} \subseteq BOOLEAN
    /\ taken \in Ages /\ since \in Ages /\ last \in Ages /\ latest \in Ages
    /\ heard \in Ages /\ heardBefore \in Ages
    /\ check \in {"none", "seen", "up", "age", "judge"} \cup Answers

\* subscriptionSeen and subscriptionUp against the step of the loop: up is stale only
\* while a loss is being recorded, or after the loop has returned, and only a loss that
\* has happened is recorded.
FlagsFollowLoop ==
    /\ ~seen => stage \in {"subscribing", "swap", "stopped"} /\ ~up
    /\ stage \in {"subscribing", "since"} => ~up
    /\ up => stage \in {"select", "header", "sending", "lost"} \/ (stage = "stopped" /\ Done)
    /\ stage \in {"select", "header", "sending"} => up
    /\ stage = "lost" => ~linked

\* The later of the two stored moments is the last sign of the subscription, except
\* while the first one is being stored.
SignIsStored ==
    /\ ~seen \/ stage = "since" => last = Horizon /\ since = Horizon
    /\ stage = "since" => heard = taken
    /\ stage # "since" => heard = Later
    /\ stage = "header" => taken <= heard

(* What the reader has found out. *)

\* A request that has got past subscriptionUp was there when the subscription was up as
\* far as the loop knew, and that moment, or a later one, was as recent as the sign it
\* goes by.
ReadyOnTheWay ==
    /\ check \in {"age", "judge"} => seen /\ stage # "since" /\ MaxHeaderAge > 0
    /\ check = "age" => Done \/ heard > MaxHeaderAge \/ "ready" \in witnessed
    /\ check = "judge" => Done \/ latest > MaxHeaderAge \/ "ready" \in witnessed

\* What has been heard is only renewed during a request, and what it has loaded is at
\* least as recent as what had been heard when it began.
NoOlderThanBefore ==
    /\ check # "none" => heard <= heardBefore
    /\ check = "judge" => latest <= heardBefore

HealthInv ==
    /\ HealthTypes /\ FlagsFollowLoop /\ SignIsStored
    /\ ReadyOnTheWay /\ NoOlderThanBefore /\ ReadyIsTrue /\ UnreadyIsTrue

-----------------------------------------------------------------------------
(* The process of Health is the process of Lifecycle. *)

\* Initially the process is one of those of Lifecycle.
LEMMA HealthInitIsInit == HealthInit => Init
BY DEF HealthInit

\* Every step is a step of the process, or leaves it alone.
LEMMA HealthStepIsStep == [HealthNext]_healthVars => [Next]_vars
<1> SUFFICES ASSUME [HealthNext]_healthVars PROVE [Next]_vars
  OBVIOUS
<1>1. CASE Writer
  <2>1. CASE Stop
    BY <2>1 DEF Stop, Exporters, Next, Work
  <2>2. CASE WriterStep \/ Arrive \/ Sent \/ Lose \/ Reconnect
    BY <2>2 DEF WriterStep, Arrive, Sent, Lose, Reconnect, Subscribe, Subscribed, Swap, SetSince, SetUp,
                RecordHeaderReceived, SetDown, Moves
  <2> QED BY <1>1, <2>1, <2>2 DEF Writer
<1>2. CASE Check
  BY <1>2 DEF Check, BeginCheck, LoadSeen, LoadUp, LoadLatest, Judge, Respond, Loads, Next
<1>3. CASE Clock \/ Drop
  BY <1>3 DEF Clock, Drop
<1>4. CASE Others
  BY <1>4 DEF Others, Exporters, Next, Work
<1>5. CASE UNCHANGED healthVars
  BY <1>5 DEF healthVars
<1> QED BY <1>1, <1>2, <1>3, <1>4, <1>5 DEF HealthNext

\* The end of the process, once begun, is not taken back.
LEMMA DoneStays == [Next]_vars /\ Done => Done'
<1> SUFFICES ASSUME [Next]_vars, Done PROVE Done'
  OBVIOUS
<1>1. \A f, e : FunctionReturns(f, e) /\ parent' = parent => Done'
  BY DEF FunctionReturns, KeepFirst, Done
<1>2. CASE Work \/ VerifierFails \/ ListenReturns
  BY <1>1, <1>2 DEF Work, VerifierFails, ListenReturns, ExporterStops, BeginShutdown,
                    ShutdownDone, ShutdownTimesOut, Done
<1>3. CASE Request \/ ParentDone \/ Exit \/ UNCHANGED vars
  BY <1>3 DEF Request, ParentDone, Exit, vars, Done
<1> QED BY <1>2, <1>3 DEF Next

-----------------------------------------------------------------------------
(* The writer. *)

\* Ages grow in the order they are in.
LEMMA OlderInOrder ==
    ASSUME NEW a \in Ages, NEW b \in Ages
    PROVE  /\ Older(a) \in Ages /\ Older(a) >= a
           /\ a <= b => Older(a) <= Older(b)
           /\ Older(Horizon) = Horizon /\ Horizon \in Ages /\ 0 \in Ages
BY AgeAssumption DEF Ages, Older

\* A step of the loop, or of the clock, keeps what the writer promises.
LEMMA WriterKeeps ==
    ASSUME HealthInv, [HealthNext]_healthVars
    PROVE  FlagsFollowLoop' /\ SignIsStored'
<1>0. Done => Done'
  BY HealthStepIsStep, DoneStays
<1> USE DEF HealthInv
<1>1. CASE Clock
  <2>1. FlagsFollowLoop'
    BY <1>0, <1>1 DEF Clock, FlagsFollowLoop
  <2>2. /\ since' = Older(since) /\ last' = Older(last) /\ heard' = Older(heard)
        /\ stage \in {"since", "header"} => taken' = Older(taken)
        /\ stage' = stage /\ seen' = seen
    BY <1>1 DEF Clock
  <2>3. Later' = IF last' < since' THEN last' ELSE since'
    BY DEF Later
  <2>4. stage # "since" => heard' = Later'
    BY <2>2, <2>3, OlderInOrder DEF SignIsStored, HealthTypes, Later, Ages
  <2>5. stage = "header" => taken' <= heard'
    BY <2>2, OlderInOrder DEF SignIsStored, HealthTypes
  <2>6. ~seen \/ stage = "since" => last' = Horizon /\ since' = Horizon
    BY <2>2, OlderInOrder DEF SignIsStored, HealthTypes
  <2>7. stage = "since" => heard' = taken'
    BY <2>2 DEF SignIsStored
  <2> QED BY <2>1, <2>2, <2>4, <2>5, <2>6, <2>7 DEF SignIsStored
<1>2. CASE Check \/ Others \/ UNCHANGED healthVars
  <2>1. UNCHANGED writerVars
    BY <1>2 DEF Check, Others, healthVars, BeginCheck, LoadSeen, LoadUp, LoadLatest, Judge,
                Respond, Loads
  <2> QED BY <1>0, <2>1 DEF writerVars, atomicVars, FlagsFollowLoop, SignIsStored, Later
<1>4. CASE Drop
  BY <1>0, <1>4 DEF Drop, atomicVars, FlagsFollowLoop, SignIsStored, Later
<1>3. CASE Writer
  <2>1. FlagsFollowLoop'
    <3>1. CASE Stop
      BY <1>0, <3>1 DEF Stop, FlagsFollowLoop, ExporterStops, atomicVars
    <3>2. CASE WriterStep \/ Arrive \/ Sent \/ Lose \/ Reconnect
      BY <1>0, <3>2 DEF WriterStep, Arrive, Sent, Lose, Reconnect, Subscribe, Subscribed, Swap, SetSince,
                  SetUp, RecordHeaderReceived, SetDown, Down, Moves, FlagsFollowLoop, HealthTypes, atomicVars
    <3> QED BY <1>3, <3>1, <3>2 DEF Writer
  <2>2. SignIsStored'
    <3>1. CASE Stop \/ Subscribe \/ SetUp \/ SetDown \/ Sent \/ Lose \/ Reconnect
      BY <3>1 DEF Stop, Subscribe, Subscribed, SetUp, SetDown, Sent, Lose, Reconnect, Moves, SignIsStored,
                  Later, atomicVars
    <3>2. CASE Swap
      BY <3>2 DEF Swap, Moves, SignIsStored, Later, FlagsFollowLoop
    <3>3. CASE SetSince
      BY <3>3, AgeAssumption DEF SetSince, Moves, SignIsStored, Later, HealthTypes, Ages, FlagsFollowLoop
    <3>4. CASE Arrive
      BY <3>4 DEF Arrive, Moves, SignIsStored, Later, HealthTypes, Ages, atomicVars
    <3>5. CASE RecordHeaderReceived
      BY <3>5 DEF RecordHeaderReceived, Moves, SignIsStored, Later, HealthTypes, Ages, FlagsFollowLoop
    <3> QED BY <1>3, <3>1, <3>2, <3>3, <3>4, <3>5 DEF Writer, WriterStep
  <2> QED BY <2>1, <2>2
<1> QED BY <1>1, <1>2, <1>3, <1>4 DEF HealthNext

\* Every step keeps the types.
LEMMA TypesKept ==
    ASSUME HealthInv, [HealthNext]_healthVars
    PROVE  HealthTypes'
<1> USE DEF HealthInv
<1>0. 0 \in Ages /\ Later \in Ages
  BY AgeAssumption DEF Ages, HealthTypes, Later
<1>1. heardBefore' \in Ages \/ (heardBefore' = heard' /\ check' # "none" /\ check = "none")
  BY <1>0, OlderInOrder DEF HealthNext, Witness, HealthTypes, healthVars
<1>2. CASE Clock
  BY <1>1, <1>2, OlderInOrder DEF Clock, HealthTypes
<1>3. CASE Writer
  BY <1>0, <1>1, <1>3 DEF Writer, WriterStep, Stop, Arrive, Sent, Lose, Reconnect, Subscribe, Subscribed,
        Swap, SetSince, SetUp, RecordHeaderReceived, SetDown, Down, Moves, HealthTypes, Stages, readerVars,
        atomicVars
<1>4. CASE Check
  BY <1>0, <1>1, <1>4 DEF Check, BeginCheck, LoadSeen, LoadUp, LoadLatest, Judge,
                Respond, Loads, HealthTypes, writerVars, atomicVars, Answers
<1>5. CASE Others \/ Drop \/ UNCHANGED healthVars
  BY <1>1, <1>5 DEF Others, Drop, healthVars, HealthTypes, writerVars, atomicVars, readerVars
<1> QED BY <1>2, <1>3, <1>4, <1>5 DEF HealthNext

-----------------------------------------------------------------------------
(* The reader. *)

Renewal == stage = "header" /\ stage' = "sending"

\* A request keeps what it has witnessed and adds the moment after the step.
LEMMA Witnessed ==
    ASSUME NEW before, Witness(before), check' # "none"
    PROVE  /\ witnessed \subseteq witnessed'
           /\ Link' \in {"up", "unnoticed"} /\ Fresh' => "ready" \in witnessed'
           /\ Link' # "up" => "not up" \in witnessed'
<1>1. witnessed' = witnessed \cup Moment'
  BY DEF Witness
<1> QED BY <1>1 DEF Moment

\* Once the first subscription is stored, the last sign gets older, except by a header.
LEMMA SignAges ==
    ASSUME HealthInv, HealthNext, seen, stage # "since"
    PROVE  /\ seen' /\ stage' # "since"
           /\ heard' >= heard \/ Renewal
           /\ Clock \/ heard' = heard \/ Renewal
<1>0. heard >= heard
  BY DEF HealthInv, HealthTypes, Ages
<1> SUFFICES /\ seen' = seen /\ stage' # "since"
             /\ heard' = heard \/ Renewal \/ (Clock /\ heard' >= heard)
  BY <1>0
<1>1. CASE Clock
  BY <1>1, OlderInOrder DEF Clock, HealthInv, HealthTypes
<1>2. CASE Check \/ Others \/ Drop
  <2>1. UNCHANGED <<seen, stage, heard>>
    BY <1>2 DEF Check, Others, Drop, BeginCheck, LoadSeen, LoadUp, LoadLatest, Judge, Respond, Loads,
                writerVars, atomicVars
  <2> QED BY <1>0, <2>1
<1>3. CASE Writer
  <2>1. CASE Swap
    BY <1>0, <2>1 DEF Swap, Moves
  <2>2. CASE RecordHeaderReceived
    BY <1>0, <2>2 DEF RecordHeaderReceived, Moves, Renewal
  <2>3. CASE Stop \/ Arrive \/ Sent \/ Lose \/ Reconnect \/ Subscribe \/ SetSince \/ SetUp \/ SetDown
    BY <1>0, <2>3 DEF Stop, Arrive, Sent, Lose, Reconnect, Subscribe, Subscribed, SetSince, SetUp, SetDown,
                      Moves, atomicVars
  <2> QED BY <1>3, <2>1, <2>2, <2>3 DEF Writer, WriterStep
<1>4. CASE UNCHANGED healthVars
  BY <1>0, <1>4 DEF healthVars, writerVars, atomicVars
<1> QED BY <1>1, <1>2, <1>3, <1>4 DEF HealthNext

\* What has been heard gets older by the clock alone.
LEMMA SignRenewed ==
    ASSUME HealthInv, Drop \/ Writer \/ Check \/ Others
    PROVE  heard' <= heard
<1>0. heard <= heard /\ 0 <= heard
  BY DEF HealthInv, HealthTypes, Ages
<1>1. CASE Check \/ Others \/ Drop
  <2>1. heard' = heard
    BY <1>1 DEF Check, Others, Drop, BeginCheck, LoadSeen, LoadUp, LoadLatest, Judge, Respond, Loads,
                writerVars
  <2> QED BY <1>0, <2>1
<1>2. CASE Writer
  <2>1. CASE Swap
    BY <1>0, <2>1 DEF Swap
  <2>2. CASE RecordHeaderReceived
    BY <2>2 DEF RecordHeaderReceived, Moves, HealthInv, SignIsStored
  <2>3. CASE Stop \/ Arrive \/ Sent \/ Lose \/ Reconnect \/ Subscribe \/ SetSince \/ SetUp \/ SetDown
    BY <1>0, <2>3 DEF Stop, Arrive, Sent, Lose, Reconnect, Subscribe, Subscribed, SetSince, SetUp, SetDown
  <2> QED BY <1>2, <2>1, <2>2, <2>3 DEF Writer, WriterStep
<1> QED BY <1>1, <1>2

\* A loop that is up, or losing its subscription, takes it to be up, unless it is over.
LEMMA UpIsNotDown ==
    ASSUME HealthInv, up
    PROVE  seen /\ stage # "since" /\ (Done \/ Link \in {"up", "unnoticed"})
BY DEF HealthInv, FlagsFollowLoop, Link

\* The steps of a request, and what they leave alone.
LEMMA CheckSteps ==
    ASSUME HealthInv, HealthNext
    PROVE  \/ check' = check /\ (check = "judge" => latest' = latest \/ (Clock /\ latest' = Older(latest)))
           \/ check = "none" /\ check' = "seen"
           \/ check = "seen" /\ check' \in {"up", "not ready"} /\ LoadSeen
           \/ check = "up" /\ check' \in {"down", "age", "OK"} /\ LoadUp
           \/ check = "age" /\ check' = "judge" /\ LoadLatest
           \/ check = "judge" /\ check' \in {"stale", "OK"} /\ Judge
           \/ check' = "none"
<1>1. CASE Clock
  BY <1>1 DEF Clock
<1>2. CASE Others \/ Drop \/ Writer \/ UNCHANGED healthVars
  <2>1. UNCHANGED readerVars
    BY <1>2 DEF Others, Drop, Writer, WriterStep, Stop, Arrive, Sent, Lose, Reconnect, Subscribe, Subscribed,
                Swap, SetSince, SetUp, RecordHeaderReceived, SetDown, Moves, readerVars, healthVars
  <2>2. check' = check /\ latest' = latest
    BY <2>1 DEF readerVars
  <2> QED BY <2>2
<1>3. CASE Check
  BY <1>3 DEF Check, BeginCheck, LoadSeen, LoadUp, LoadLatest, Judge, Respond, Loads
<1> QED BY <1>1, <1>2, <1>3 DEF HealthNext

\* Every step witnesses; once the process is gone nothing changes.
LEMMA StepWitnesses ==
    ASSUME HealthNext
    PROVE  (\E before \in {heardBefore, Older(heardBefore)} : Witness(before)) \/ UNCHANGED healthVars
BY DEF HealthNext

\* Every step keeps what a request on its way relies on.
LEMMA OnTheWayKept ==
    ASSUME HealthInv, HealthNext, NEW before, Witness(before)
    PROVE  ReadyOnTheWay'
<1> USE DEF HealthInv
<1>0. /\ Done => Done'
      /\ FlagsFollowLoop' /\ HealthTypes'
      /\ check \in {"age", "judge"} => (seen' /\ stage' # "since")
  BY HealthStepIsStep, DoneStays, WriterKeeps, TypesKept, SignAges DEF ReadyOnTheWay
<1>1. Renewal => Link' \in {"up", "unnoticed"}
  BY DEF Renewal, Link
<1>2. check = "age" /\ check' = "age" => Done' \/ heard' > MaxHeaderAge \/ "ready" \in witnessed'
  <2> SUFFICES ASSUME check = "age", check' = "age", ~Done', ~(heard' > MaxHeaderAge)
               PROVE  "ready" \in witnessed'
    OBVIOUS
  <2>0. heard' <= MaxHeaderAge
    BY <1>0, AgeAssumption DEF HealthTypes, Ages
  <2>1. CASE Renewal
    BY <1>1, <2>0, <2>1, Witnessed DEF Fresh
  <2>2. CASE ~Renewal
    <3>1. heard' >= heard
      BY <2>2, SignAges DEF ReadyOnTheWay
    <3>2. ~(heard > MaxHeaderAge)
      BY <1>0, <2>0, <3>1, AgeAssumption DEF HealthTypes, Ages
    <3> QED BY <1>0, <3>2, Witnessed DEF ReadyOnTheWay
  <2> QED BY <2>1, <2>2
<1>3. check = "judge" /\ check' = "judge" => Done' \/ latest' > MaxHeaderAge \/ "ready" \in witnessed'
  <2> SUFFICES ASSUME check = "judge", check' = "judge", ~Done', ~(latest' > MaxHeaderAge)
               PROVE  "ready" \in witnessed'
    OBVIOUS
  <2>1. latest' = latest \/ latest' = Older(latest)
    BY CheckSteps DEF LoadLatest, LoadUp, LoadSeen, Judge, Loads
  <2>2. ~(latest > MaxHeaderAge)
    BY <1>0, <2>1, AgeAssumption, OlderInOrder DEF HealthTypes, Ages
  <2> QED BY <1>0, <2>2, Witnessed DEF ReadyOnTheWay
<1>4. check = "up" /\ check' = "age" =>
        /\ seen' /\ stage' # "since" /\ MaxHeaderAge > 0
        /\ Done' \/ heard' > MaxHeaderAge \/ "ready" \in witnessed'
  <2> SUFFICES ASSUME check = "up", check' = "age"
               PROVE  /\ seen' /\ stage' # "since" /\ MaxHeaderAge > 0
                      /\ Done' \/ heard' > MaxHeaderAge \/ "ready" \in witnessed'
    OBVIOUS
  <2>1. LoadUp
    BY CheckSteps
  <2>2. up /\ MaxHeaderAge > 0 /\ UNCHANGED <<seen, stage, linked, heard>>
    BY <2>1 DEF LoadUp, Loads, writerVars, atomicVars
  <2>3. Link' = Link /\ (heard' > MaxHeaderAge \/ Fresh')
    BY <1>0, <2>2, AgeAssumption DEF Link, Fresh, HealthTypes, Ages
  <2> QED BY <1>0, <2>2, <2>3, UpIsNotDown, Witnessed
<1>5. check = "age" /\ check' = "judge" => Done' \/ latest' > MaxHeaderAge \/ "ready" \in witnessed'
  <2> SUFFICES ASSUME check = "age", check' = "judge"
               PROVE  Done' \/ latest' > MaxHeaderAge \/ "ready" \in witnessed'
    OBVIOUS
  <2>1. LoadLatest
    BY CheckSteps
  <2>2. latest' = heard
    BY <2>1 DEF LoadLatest, Loads, SignIsStored, ReadyOnTheWay
  <2> QED BY <1>0, <2>2, Witnessed DEF ReadyOnTheWay
<1>6. check' \in {"age", "judge"} =>
        check' = check \/ (check = "up" /\ check' = "age") \/ (check = "age" /\ check' = "judge")
  BY CheckSteps
<1>7. check' \in {"age", "judge"} => seen' /\ stage' # "since" /\ MaxHeaderAge > 0
  BY <1>0, <1>4, <1>6 DEF ReadyOnTheWay
<1>8. check' = "age" => Done' \/ heard' > MaxHeaderAge \/ "ready" \in witnessed'
  BY <1>2, <1>4, <1>6
<1>9. check' = "judge" => Done' \/ latest' > MaxHeaderAge \/ "ready" \in witnessed'
  BY <1>3, <1>5, <1>6
<1> QED BY <1>7, <1>8, <1>9 DEF ReadyOnTheWay

\* Every step keeps what is known of the moment the request began.
LEMMA BeforeKept ==
    ASSUME HealthInv, HealthNext
    PROVE  NoOlderThanBefore'
<1> USE DEF HealthInv
<1>0. /\ heard \in Ages /\ latest \in Ages /\ heardBefore \in Ages
      /\ heard \in Int /\ heardBefore \in Int /\ heard' \in Int /\ heardBefore' \in Int
  BY TypesKept DEF HealthTypes, Ages
<1>1. CASE Clock /\ Witness(Older(heardBefore))
  <2>1. check' = check /\ heard' = Older(heard) /\ (check = "judge" => latest' = Older(latest))
    BY <1>1 DEF Clock
  <2>2. check # "none" => heardBefore' = Older(heardBefore)
    BY <1>1, <2>1 DEF Witness
  <2> QED BY <1>0, <2>1, <2>2, OlderInOrder DEF NoOlderThanBefore
<1>2. CASE (Drop \/ Writer \/ Check \/ Others) /\ Witness(heardBefore)
  <2>1. heard' <= heard
    BY <1>2, SignRenewed
  <2>2. check' # "none" => heardBefore' = IF check = "none" THEN heard' ELSE heardBefore
    BY <1>2 DEF Witness
  <2>3. check' # "none" => heard' <= heardBefore'
    <3> SUFFICES ASSUME check' # "none" PROVE heard' <= heardBefore'
      OBVIOUS
    <3>1. CASE check = "none"
      BY <1>0, <2>2, <3>1
    <3>2. CASE check # "none"
      <4>1. heard <= heardBefore
        BY <3>2 DEF NoOlderThanBefore
      <4> QED BY <1>0, <2>1, <2>2, <3>2, <4>1
    <3> QED BY <3>1, <3>2
  <2>4. check' = "judge" => latest' <= heardBefore'
    <3> SUFFICES ASSUME check' = "judge" PROVE latest' <= heardBefore'
      OBVIOUS
    <3>1. CASE check = "judge"
      <4>1. UNCHANGED readerVars
        BY <1>2, <3>1 DEF Drop, Writer, WriterStep, Check, Others, BeginCheck, LoadSeen, LoadUp, LoadLatest,
              Judge, Respond, Loads, Stop, Arrive, Sent, Lose, Reconnect, Subscribe, Subscribed, Swap,
              SetSince, SetUp, RecordHeaderReceived, SetDown, Moves
      <4> QED BY <2>2, <3>1, <4>1 DEF NoOlderThanBefore, readerVars
    <3>2. CASE check # "judge"
      <4>1. LoadLatest /\ check = "age"
        BY <3>2, CheckSteps
      <4>2. latest' = heard /\ heard <= heardBefore
        BY <4>1 DEF LoadLatest, SignIsStored, ReadyOnTheWay, NoOlderThanBefore
      <4> QED BY <2>2, <4>1, <4>2
    <3> QED BY <3>1, <3>2
  <2> QED BY <2>3, <2>4 DEF NoOlderThanBefore
<1>3. CASE UNCHANGED healthVars
  BY <1>3 DEF healthVars, writerVars, readerVars, NoOlderThanBefore
<1> QED BY <1>1, <1>2, <1>3 DEF HealthNext

\* Every step keeps the truth of a 200 ...
LEMMA ReadyKept ==
    ASSUME HealthInv, HealthNext, NEW before, Witness(before)
    PROVE  ReadyIsTrue'
<1> USE DEF HealthInv
<1> SUFFICES ASSUME check' = "OK", ~Done'
             PROVE  "ready" \in witnessed'
  BY DEF ReadyIsTrue
<1>0. Done => Done'
  BY HealthStepIsStep, DoneStays
<1>1. CASE check = "OK"
  BY <1>0, <1>1, Witnessed DEF ReadyIsTrue
<1>2. CASE check = "up"
  <2>1. LoadUp
    BY <1>2, CheckSteps
  <2>2. up /\ ~(MaxHeaderAge > 0) /\ UNCHANGED <<stage, linked>>
    BY <2>1 DEF LoadUp, Loads, writerVars
  <2>3. Link' = Link /\ Fresh'
    BY <2>2, AgeAssumption DEF Link, Fresh
  <2> QED BY <1>0, <2>2, <2>3, UpIsNotDown, Witnessed
<1>3. CASE check = "judge"
  <2>1. ~(latest > MaxHeaderAge)
    BY <1>3, CheckSteps DEF Judge, Loads
  <2> QED BY <1>0, <1>3, <2>1, Witnessed DEF ReadyOnTheWay
<1> QED BY <1>1, <1>2, <1>3, CheckSteps DEF LoadSeen, LoadUp, LoadLatest, Judge, Loads

\* ... and of a 503.
LEMMA UnreadyKept ==
    ASSUME HealthInv, HealthNext, NEW before, Witness(before),
           before \in {heardBefore, Older(heardBefore)}
    PROVE  UnreadyIsTrue'
<1> USE DEF HealthInv
<1>1. ASSUME check' \in {"not ready", "down"} PROVE "not up" \in witnessed'
  <2>1. CASE check = check'
    BY <1>1, <2>1, Witnessed DEF UnreadyIsTrue
  <2>2. CASE check # check'
    <3>0. (LoadSeen /\ check' # "up") \/ (LoadUp /\ check' \notin {"age", "OK"})
      BY <1>1, <2>2, CheckSteps
    <3>1. ~seen \/ ~up
      BY <3>0 DEF LoadSeen, LoadUp, Loads
    <3>2. UNCHANGED <<stage, linked>>
      BY <3>0 DEF LoadSeen, LoadUp, Loads, writerVars
    <3>3. Link' # "up"
      BY <3>1, <3>2 DEF Link, FlagsFollowLoop
    <3> QED BY <1>1, <3>3, Witnessed
  <2> QED BY <2>1, <2>2
<1>2. ASSUME check' = "stale" PROVE heardBefore' > MaxHeaderAge
  <2>0. check # "none" => heardBefore' = before
    BY <1>2 DEF Witness
  <2>1. heardBefore \in Ages /\ latest \in Ages /\ Ages \subseteq Int /\ MaxHeaderAge \in Int
    BY AgeAssumption DEF HealthTypes, Ages
  <2>2. check # "none" /\ heardBefore > MaxHeaderAge
    <3>1. CASE check = "stale"
      BY <3>1 DEF UnreadyIsTrue
    <3>2. CASE check # "stale"
      <4>1. check = "judge" /\ latest > MaxHeaderAge
        BY <1>2, <3>2, CheckSteps DEF LoadSeen, LoadUp, LoadLatest, Judge, Loads
      <4> QED BY <2>1, <4>1 DEF NoOlderThanBefore
    <3> QED BY <3>1, <3>2
  <2>3. before \in Int /\ before >= heardBefore
    BY <2>1, OlderInOrder
  <2> QED BY <2>0, <2>1, <2>2, <2>3
<1> QED BY <1>1, <1>2 DEF UnreadyIsTrue

-----------------------------------------------------------------------------

\* The invariant holds initially.
LEMMA InitHealthInv == HealthInit => HealthInv
<1> SUFFICES ASSUME HealthInit PROVE HealthInv
  OBVIOUS
<1>1. HealthTypes
  <2>1. {linked, seen, up} \subseteq BOOLEAN
    BY Zenon DEF HealthInit
  <2> QED BY <2>1, AgeAssumption DEF HealthInit, HealthTypes, Stages, Ages
<1>2. FlagsFollowLoop /\ SignIsStored
  BY AgeAssumption DEF HealthInit, FlagsFollowLoop, SignIsStored, Later
<1>3. ReadyOnTheWay /\ NoOlderThanBefore /\ ReadyIsTrue /\ UnreadyIsTrue
  BY DEF HealthInit, ReadyOnTheWay, NoOlderThanBefore, ReadyIsTrue, UnreadyIsTrue
<1> QED BY <1>1, <1>2, <1>3 DEF HealthInv

\* Every step keeps it.
LEMMA NextHealthInv == HealthInv /\ [HealthNext]_healthVars => HealthInv'
<1> SUFFICES ASSUME HealthInv, [HealthNext]_healthVars PROVE HealthInv'
  OBVIOUS
<1>1. HealthTypes' /\ FlagsFollowLoop' /\ SignIsStored'
  BY TypesKept, WriterKeeps
<1>2. ASSUME HealthNext, NEW before \in {heardBefore, Older(heardBefore)}, Witness(before)
      PROVE  HealthInv'
  BY <1>1, <1>2, OnTheWayKept, BeforeKept, ReadyKept, UnreadyKept DEF HealthInv
<1>3. CASE UNCHANGED healthVars
  <2>1. /\ Done' = Done
        /\ UNCHANGED <<witnessed, heardBefore, check, latest, heard, seen, stage>>
    BY <1>3 DEF healthVars, vars, writerVars, atomicVars, readerVars, Done
  <2> QED BY <1>1, <2>1 DEF HealthInv, ReadyOnTheWay, NoOlderThanBefore, ReadyIsTrue, UnreadyIsTrue
<1> QED BY <1>2, <1>3, StepWitnesses

\* The inductive invariant of the readiness check.
LEMMA HealthInvariance == HealthSpec => []HealthInv
BY InitHealthInv, NextHealthInv, PTL DEF HealthSpec

\* The readiness check is added to the process of Lifecycle without changing it: every
\* behaviour with /health requests is one of StartServer and its functions.
THEOREM HealthImplementsLifecycle == HealthSpec => Spec
BY HealthInitIsInit, HealthStepIsStep, PTL DEF HealthSpec, Spec

\* So what is proved of the process holds while /health is served: a failure that came
\* first decides the exit status.
THEOREM FailureReportedWithHealth == HealthSpec => []FailureIsReported
BY HealthImplementsLifecycle, FailureAlwaysReported, PTL

\* When /health answers 200, the subscription was up at one moment of the request, or its
\* drop was not yet recorded by the loop, and its last sign was recent then; or the process
\* is stopping.
THEOREM ReadyAlwaysTrue == HealthSpec => []ReadyIsTrue
<1>1. HealthInv => ReadyIsTrue
  BY DEF HealthInv
<1> QED BY <1>1, HealthInvariance, PTL

\* When /health answers 503, the subscription was not up at one moment of the request, or
\* what had been heard when it began is older than the limit: the loads find nothing older
\* than that, however they interleave with the stores.
THEOREM UnreadyAlwaysTrue == HealthSpec => []UnreadyIsTrue
<1>1. HealthInv => UnreadyIsTrue
  BY DEF HealthInv
<1> QED BY <1>1, HealthInvariance, PTL
=============================================================================
