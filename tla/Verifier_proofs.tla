--------------------------- MODULE Verifier_proofs ---------------------------
(***************************************************************************)
(* For every number of workers, of attempts and of deliveries, repeated    *)
(* ones included: types, the DA height gauge, the reports of missing       *)
(* blocks, the two metrics that count rounds, and that no delivery is lost.*)
(***************************************************************************)
EXTENDS Verifier, FiniteSetTheorems, SequenceTheorems, TLAPS

Steps == {"fetch", "header", "data", "decide"}
HeldWorker == [pc : Steps, job : Job, seen : SUBSET BlobTypes]

-----------------------------------------------------------------------------
(* Types. *)

\* Of what a worker's record says.
LEMMA WorkerTypes ==
    ASSUME TypeOK, NEW w \in Workers
    PROVE  /\ Held(w) => worker[w] \in HeldWorker
           /\ worker[w].pc \in Steps => Held(w)
           /\ Held(w) => worker[w].job \in Job /\ worker[w].pc \in Steps
           /\ worker[w].pc \in {"idle", "exited"} <=> ~Held(w)
BY DEF TypeOK, Held, Idle, HeldWorker, Steps

\* Of the jobs the code makes.
LEMMA JobTypes ==
    /\ \A d \in Deliveries : NewJob(d) \in Job /\ NewJob(d).id = d /\ ~NewJob(d).started /\ NewJob(d).done = {}
    /\ \A j \in Job : /\ j.id \in Deliveries /\ HeightOf(j) \in Heights /\ j.done \subseteq BlobTypes
                      /\ AttemptsLeft(j) => RetryJob(j) \in Job
                      /\ RetryJob(j).id = j.id /\ RetryJob(j).started = j.started /\ RetryJob(j).done = j.done
                      /\ [j EXCEPT !.started = TRUE] \in Job
                      /\ [j EXCEPT !.started = TRUE].id = j.id /\ [j EXCEPT !.started = TRUE].done = j.done
                      /\ [j EXCEPT !.started = TRUE].started
<1>1. ASSUME NEW d \in Deliveries
      PROVE  NewJob(d) \in Job /\ NewJob(d).id = d /\ ~NewJob(d).started /\ NewJob(d).done = {}
  BY AttemptsAssumption DEF NewJob, Job
<1>2. ASSUME NEW j \in Job
      PROVE  /\ j.id \in Deliveries /\ HeightOf(j) \in Heights /\ j.done \subseteq BlobTypes
             /\ AttemptsLeft(j) => RetryJob(j) \in Job
             /\ RetryJob(j).id = j.id /\ RetryJob(j).started = j.started /\ RetryJob(j).done = j.done
  <2>1. j.id \in Deliveries /\ j.attempt \in 0 .. Attempts - 1 /\ j.done \subseteq BlobTypes
    BY DEF Job
  <2>2. HeightOf(j) \in Heights
    BY <2>1 DEF HeightOf, Heights
  <2>3. AttemptsLeft(j) => j.attempt + 1 \in 0 .. Attempts - 1
    BY <2>1, AttemptsAssumption DEF AttemptsLeft
  <2> QED BY <2>1, <2>2, <2>3 DEF RetryJob, Job
<1>3. ASSUME NEW j \in Job
      PROVE  /\ [j EXCEPT !.started = TRUE] \in Job
             /\ [j EXCEPT !.started = TRUE].id = j.id /\ [j EXCEPT !.started = TRUE].done = j.done
             /\ [j EXCEPT !.started = TRUE].started
  BY DEF Job
<1> QED BY <1>1, <1>2, <1>3

\* Of the queue.
LEMMA AppendFacts ==
    ASSUME NEW q \in Seq(Job), NEW j \in Job
    PROVE  /\ Append(q, j) \in Seq(Job) /\ Len(Append(q, j)) = Len(q) + 1
           /\ DOMAIN Append(q, j) = 1 .. Len(q) + 1 /\ DOMAIN q = 1 .. Len(q)
           /\ \A i \in 1 .. Len(q) : Append(q, j)[i] = q[i]
           /\ Append(q, j)[Len(q) + 1] = j
OBVIOUS

\* What taking the head off a queue does.
LEMMA TailFacts ==
    ASSUME NEW q \in Seq(Job), q # << >>
    PROVE  /\ Head(q) \in Job /\ Head(q) = q[1] /\ Tail(q) \in Seq(Job) /\ Len(Tail(q)) = Len(q) - 1
           /\ DOMAIN Tail(q) = 1 .. Len(q) - 1 /\ DOMAIN q = 1 .. Len(q) /\ 1 \in DOMAIN q
           /\ \A i \in 1 .. Len(q) - 1 : Tail(q)[i] = q[i + 1]
OBVIOUS

\* Initially everything has its type.
LEMMA InitTypes == Init => TypeOK
<1> SUFFICES ASSUME Init PROVE TypeOK
  OBVIOUS
<1>1. {outage, cancelled} \subseteq BOOLEAN
  BY Zenon DEF Init
<1>2. BlockQueueCap \in Nat
  BY WorkersAssumption, FS_CardinalityType DEF BlockQueueCap
<1>3. worker \in [Workers -> {Idle, [pc |-> "exited"]} \cup HeldWorker]
  BY DEF Init
<1>4. queue \in Seq(Job) /\ Len(queue) <= BlockQueueCap
  BY <1>2 DEF Init
<1> QED BY <1>3, <1>4, <1>1, <1>2 DEF Init, TypeOK, Nowhere, HeldWorker, Steps

\* A worker's record after a step of its own.
LEMMA WorkerUpdate ==
    ASSUME TypeOK, NEW w \in Workers, NEW r \in HeldWorker \cup {Idle, [pc |-> "exited"]},
           worker' = [worker EXCEPT ![w] = r]
    PROVE  /\ worker' \in [Workers -> {Idle, [pc |-> "exited"]} \cup HeldWorker]
           /\ worker'[w] = r /\ \A v \in Workers \ {w} : worker'[v] = worker[v]
           /\ r \in HeldWorker => r.pc \notin {"idle", "exited"}
           /\ r \notin HeldWorker => r.pc \in {"idle", "exited"}
<1>1. worker \in [Workers -> {Idle, [pc |-> "exited"]} \cup HeldWorker]
  BY DEF TypeOK, HeldWorker, Steps
<1> QED BY <1>1 DEF HeldWorker, Steps, Idle

\* A step after which worker w holds job k.
HoldsJob(w, k) == \E r \in HeldWorker : worker' = [worker EXCEPT ![w] = r] /\ r.job = k

WithDone(j, b) == [j EXCEPT !.done = @ \cup {b}]

\* The workers' steps as updates of one record.
LEMMA FetchUpdate ==
    ASSUME TypeOK, NEW w \in Workers, Fetch(w)
    PROVE  HoldsJob(w, worker[w].job)
<1>1. worker[w] \in HeldWorker
  BY WorkerTypes DEF Fetch, Steps
<1>2. worker \in [Workers -> {Idle, [pc |-> "exited"]} \cup HeldWorker]
  BY DEF TypeOK, HeldWorker, Steps
<1> DEFINE saw == {b \in BlobTypes : HeightOf(worker[w].job) \in onDA[b]}
           r1 == [worker[w] EXCEPT !.pc = "header", !.seen = saw]
           r2 == [worker[w] EXCEPT !.pc = "decide"]
<1>3. r1 \in HeldWorker /\ r1.job = worker[w].job /\ r2 \in HeldWorker /\ r2.job = worker[w].job
  BY <1>1 DEF HeldWorker, Steps
<1>4. \/ worker' = [worker EXCEPT ![w] = r1]
      \/ worker' = [worker EXCEPT ![w] = r2]
  BY <1>1, <1>2 DEF Fetch
<1> QED BY <1>3, <1>4 DEF HoldsJob

\* What a step of the check of a part of a block changes.
LEMMA VerifyUpdate ==
    ASSUME TypeOK, NEW w \in Workers, NEW b \in BlobTypes, NEW next \in {"data", "decide"},
           VerifyPart(w, b, next)
    PROVE  /\ Held(w) /\ worker[w].job \in Job /\ UNCHANGED <<jobVars, envVars>>
           /\ \/ HoldsJob(w, worker[w].job) /\ UNCHANGED metricVars
              \/ /\ PartPending(worker[w].job, b)
                 /\ HoldsJob(w, WithDone(worker[w].job, b)) /\ WithDone(worker[w].job, b) \in Job
                 /\ OnVerified(worker[w].job.id, b, HeightOf(worker[w].job))
                 /\ UNCHANGED inflight
<1>1. worker[w] \in HeldWorker /\ Held(w)
  BY WorkerTypes DEF VerifyPart, Steps, BlobTypes
<1>2. worker \in [Workers -> {Idle, [pc |-> "exited"]} \cup HeldWorker]
  BY DEF TypeOK, HeldWorker, Steps
<1> DEFINE j == worker[w].job
           k == WithDone(j, b)
           r1 == [worker[w] EXCEPT !.pc = next]
           r2 == [worker[w] EXCEPT !.pc = next, !.job = k]
<1>3. j \in Job /\ k \in Job
  BY <1>1 DEF HeldWorker, Job, WithDone
<1>4. r1 \in HeldWorker /\ r1.job = j /\ r2 \in HeldWorker /\ r2.job = k
  BY <1>1, <1>3 DEF HeldWorker, Steps, WithDone
<1>5. UNCHANGED <<jobVars, envVars>>
  BY DEF VerifyPart
<1>6. CASE worker' = [worker EXCEPT ![w].pc = next] /\ UNCHANGED metricVars
  <2>1. worker' = [worker EXCEPT ![w] = r1]
    BY <1>1, <1>2, <1>6
  <2> QED BY <1>1, <1>3, <1>4, <1>6, <1>5, <2>1 DEF HoldsJob
<1>7. CASE /\ worker' = [worker EXCEPT ![w].pc = next, ![w].job.done = @ \cup {b}]
           /\ PartPending(j, b)
           /\ OnVerified(j.id, b, HeightOf(j)) /\ UNCHANGED inflight
  <2>1. worker' = [worker EXCEPT ![w] = r2]
    BY <1>1, <1>2, <1>7 DEF HeldWorker, Job, WithDone
  <2> QED BY <1>1, <1>3, <1>4, <1>7, <1>5, <2>1 DEF HoldsJob
<1> QED BY <1>6, <1>7 DEF VerifyPart

\* The metrics of a verified or a missing part keep their types.
LEMMA MetricTypes ==
    ASSUME TypeOK, NEW d \in Deliveries
    PROVE  /\ \A b \in BlobTypes : OnVerified(d, b, d[1]) =>
                 /\ {missing', verified'} \subseteq [BlobTypes -> SUBSET Heights]
                 /\ latestDa' \in [BlobTypes -> Heights \cup {0}]
                 /\ outcomes' \in [Deliveries -> [BlobTypes -> 0 .. 2]]
           /\ \A bs \in SUBSET BlobTypes : OnMissing(d, bs, d[1]) =>
                 /\ {missing', verified'} \subseteq [BlobTypes -> SUBSET Heights]
                 /\ latestDa' \in [BlobTypes -> Heights \cup {0}]
                 /\ outcomes' \in [Deliveries -> [BlobTypes -> 0 .. 2]]
<1>1. d[1] \in Heights
  BY DEF Heights
<1>2. \A n \in 0 .. 2 : Bump(n) \in 0 .. 2
  BY DEF Bump
<1>3. ASSUME NEW b \in BlobTypes, OnVerified(d, b, d[1])
      PROVE  /\ {missing', verified'} \subseteq [BlobTypes -> SUBSET Heights]
             /\ latestDa' \in [BlobTypes -> Heights \cup {0}]
             /\ outcomes' \in [Deliveries -> [BlobTypes -> 0 .. 2]]
  <2>1. missing' \in [BlobTypes -> SUBSET Heights] /\ verified' \in [BlobTypes -> SUBSET Heights]
    BY <1>1, <1>3 DEF OnVerified, TypeOK
  <2>2. latestDa' \in [BlobTypes -> Heights \cup {0}]
    BY <1>1, <1>3 DEF OnVerified, RecordSubmissionDaHeight, TypeOK
  <2>3. outcomes' \in [Deliveries -> [BlobTypes -> 0 .. 2]]
    BY <1>2, <1>3 DEF OnVerified, TypeOK
  <2> QED BY <2>1, <2>2, <2>3
<1>4. ASSUME NEW bs \in SUBSET BlobTypes, OnMissing(d, bs, d[1])
      PROVE  /\ {missing', verified'} \subseteq [BlobTypes -> SUBSET Heights]
             /\ latestDa' \in [BlobTypes -> Heights \cup {0}]
             /\ outcomes' \in [Deliveries -> [BlobTypes -> 0 .. 2]]
  <2>1. missing' \in [BlobTypes -> SUBSET Heights] /\ verified' \in [BlobTypes -> SUBSET Heights]
    BY <1>1, <1>4 DEF OnMissing, TypeOK
  <2>2. latestDa' \in [BlobTypes -> Heights \cup {0}]
    BY <1>4 DEF OnMissing, TypeOK
  <2>3. outcomes' \in [Deliveries -> [BlobTypes -> 0 .. 2]]
    <3>1. [b \in BlobTypes |-> IF b \in bs THEN Bump(outcomes[d][b]) ELSE outcomes[d][b]] \in [BlobTypes -> 0 .. 2]
      BY <1>2 DEF TypeOK
    <3> QED BY <1>4, <3>1 DEF OnMissing, TypeOK
  <2> QED BY <2>1, <2>2, <2>3
<1> QED BY <1>3, <1>4

\* A decision leaves the worker idle; the job it held is its only trace.
LEMMA DecidesUpdate ==
    ASSUME TypeOK, NEW w \in Workers, NEW complete \in BOOLEAN, Decides(w, complete)
    PROVE  /\ Held(w) /\ worker[w].job \in Job
           /\ worker' = [worker EXCEPT ![w] = Idle]
           /\ worker' \in [Workers -> {Idle, [pc |-> "exited"]} \cup HeldWorker]
           /\ ~Held(w)' /\ \A v \in Workers \ {w} : worker'[v] = worker[v]
<1>1. Held(w) /\ worker[w].job \in Job
  BY WorkerTypes DEF Decides, Steps
<1>2. worker' = [worker EXCEPT ![w] = Idle]
  BY DEF Decides
<1>3. /\ worker' \in [Workers -> {Idle, [pc |-> "exited"]} \cup HeldWorker]
      /\ worker'[w] = Idle /\ \A v \in Workers \ {w} : worker'[v] = worker[v]
  BY <1>2, WorkerUpdate
<1> QED BY <1>1, <1>2, <1>3 DEF Held, Idle

\* Every step keeps the types.
LEMMA NextTypes == TypeOK /\ [Next]_vars => TypeOK'
<1> SUFFICES ASSUME TypeOK, [Next]_vars PROVE TypeOK'
  OBVIOUS
<1> DEFINE Pool == [Workers -> {Idle, [pc |-> "exited"]} \cup HeldWorker]
           Metrics == /\ {missing, verified} \subseteq [BlobTypes -> SUBSET Heights]
                      /\ latestDa \in [BlobTypes -> Heights \cup {0}]
                      /\ outcomes \in [Deliveries -> [BlobTypes -> 0 .. 2]]
           Env == onDA \in [BlobTypes -> SUBSET Heights] /\ {outage, cancelled} \subseteq BOOLEAN
           Jobs == /\ undelivered \subseteq Deliveries
                   /\ queue \in Seq(Job) /\ Len(queue) <= BlockQueueCap
                   /\ delayed \subseteq Job
<1>1. TypeOK <=> Jobs /\ worker \in Pool /\ inflight \in Int /\ Metrics /\ Env
  BY DEF TypeOK, HeldWorker, Steps
<1>2. Jobs' /\ (worker \in Pool)' /\ (inflight \in Int)' /\ Metrics' /\ Env' => TypeOK'
  BY DEF TypeOK, HeldWorker, Steps
<1>3. UNCHANGED envVars => Env'
  BY <1>1 DEF envVars
<1>4. UNCHANGED metricVars => (inflight \in Int)' /\ Metrics'
  BY <1>1 DEF metricVars, recordVars
<1>5. UNCHANGED jobVars => Jobs'
  BY <1>1 DEF jobVars, BlockQueueCap
<1>6. UNCHANGED worker => (worker \in Pool)'
  BY <1>1
<1>7. BlockQueueCap \in Nat /\ BlockQueueCap' = BlockQueueCap /\ Len(queue) \in Nat
  BY <1>1, WorkersAssumption, FS_CardinalityType DEF BlockQueueCap
<1>8. CASE UNCHANGED vars
  BY <1>2, <1>3, <1>4, <1>5, <1>6, <1>8 DEF vars
<1>9. ASSUME NEW d \in Deliveries, Deliver(d) PROVE TypeOK'
  <2>1. Jobs'
    BY <1>1, <1>7, <1>9, JobTypes, AppendFacts DEF Deliver
  <2> QED BY <1>2, <1>3, <1>4, <1>6, <1>9, <2>1 DEF Deliver
<1>10. ASSUME NEW j \in delayed, TimerSend(j) \/ TimerDrop(j) PROVE TypeOK'
  <2>1. j \in Job /\ queue \in Seq(Job)
    BY <1>1, <1>10
  <2>2. Append(queue, j) \in Seq(Job) /\ Len(Append(queue, j)) = Len(queue) + 1
    BY <2>1, AppendFacts
  <2>3. Jobs'
    <3>1. CASE TimerSend(j)
      BY <1>1, <1>7, <2>2, <3>1 DEF TimerSend
    <3>2. CASE TimerDrop(j)
      BY <1>1, <1>7, <3>2 DEF TimerDrop
    <3> QED BY <1>10, <3>1, <3>2
  <2> QED BY <1>2, <1>3, <1>4, <1>6, <1>10, <2>3 DEF TimerSend, TimerDrop
<1>11. ASSUME NEW w \in Workers, Take(w) PROVE TypeOK'
  <2>1. Jobs'
    BY <1>1, <1>7, <1>11, TailFacts DEF Take
  <2> DEFINE j == Head(queue)
             r == [pc |-> "fetch", seen |-> {}, job |-> [j EXCEPT !.started = TRUE]]
  <2>2. j \in Job
    BY <1>1, <1>11, TailFacts DEF Take
  <2>3. r \in HeldWorker
    BY <2>2, JobTypes DEF HeldWorker, Steps
  <2>4. (worker \in Pool)'
    BY <1>11, <2>3, WorkerUpdate DEF Take
  <2>5. (inflight \in Int)'
    BY <1>1, <1>11 DEF Take
  <2>6. Metrics'
    <3>1. outcomes' = outcomes \/ outcomes' = [outcomes EXCEPT ![j.id] = [b \in BlobTypes |-> 0]]
      BY <1>11 DEF Take
    <3>2. UNCHANGED recordVars
      BY <1>11 DEF Take
    <3>3. outcomes' \in [Deliveries -> [BlobTypes -> 0 .. 2]]
      BY <1>1, <3>1
    <3> QED BY <1>1, <3>2, <3>3 DEF recordVars
  <2>7. Env'
    BY <1>3, <1>11 DEF Take
  <2> QED BY <1>2, <2>1, <2>4, <2>5, <2>6, <2>7
<1>12. ASSUME NEW w \in Workers, Fetch(w) PROVE TypeOK'
  <2>1. (worker \in Pool)'
    BY <1>12, FetchUpdate, WorkerUpdate DEF HoldsJob
  <2> QED BY <1>2, <1>3, <1>4, <1>5, <1>12, <2>1 DEF Fetch
<1>13. ASSUME NEW w \in Workers, NEW b \in BlobTypes, NEW next \in {"data", "decide"}, VerifyPart(w, b, next)
       PROVE  TypeOK'
  <2>1. (worker \in Pool)'
    <3>1. \E k : HoldsJob(w, k)
      BY <1>13, VerifyUpdate
    <3>2. PICK r \in HeldWorker : worker' = [worker EXCEPT ![w] = r]
      BY <3>1 DEF HoldsJob
    <3> QED BY <3>2, WorkerUpdate
  <2>2. CASE UNCHANGED metricVars
    BY <1>2, <1>3, <1>4, <1>5, <1>13, <2>1, <2>2 DEF VerifyPart
  <2>3. CASE OnVerified(worker[w].job.id, b, HeightOf(worker[w].job)) /\ UNCHANGED inflight
    <3>1. worker[w].job \in Job
      BY <1>13, VerifyUpdate, Zenon
    <3>2. worker[w].job.id \in Deliveries
      BY <3>1, JobTypes
    <3>3. Metrics'
      BY <2>3, <3>2, MetricTypes DEF HeightOf
    <3> QED BY <1>1, <1>2, <1>3, <1>5, <1>13, <2>1, <2>3, <3>3 DEF VerifyPart
  <2> QED BY <1>13, <2>2, <2>3 DEF VerifyPart
<1>14. ASSUME NEW w \in Workers, Finish(w) PROVE TypeOK'
  <2>1. (worker \in Pool)'
    BY <1>14, DecidesUpdate DEF Finish
  <2> QED BY <1>1, <1>2, <1>3, <1>7, <1>14, <2>1 DEF Finish, Decides, LeavesInflight, recordVars
<1>15. ASSUME NEW w \in Workers, Retry(w) PROVE TypeOK'
  <2>1. (worker \in Pool)' /\ worker[w].job \in Job
    BY <1>15, DecidesUpdate DEF Retry
  <2>2. RetryJob(worker[w].job) \in Job
    BY <1>15, <2>1, JobTypes DEF Retry
  <2>3. Jobs'
    BY <1>1, <1>7, <1>15, <2>2 DEF Retry, Decides, EnqueueAfter
  <2> QED BY <1>2, <1>3, <1>4, <1>15, <2>1, <2>3 DEF Retry, Decides
<1>16. ASSUME NEW w \in Workers, GiveUp(w) PROVE TypeOK'
  <2> DEFINE j == worker[w].job
  <2>1. (worker \in Pool)' /\ j \in Job
    BY <1>16, DecidesUpdate DEF GiveUp
  <2>2. j.id \in Deliveries /\ NewJob(j.id) \in Job
    BY <2>1, JobTypes
  <2>3. Jobs'
    BY <1>1, <1>7, <1>16, <2>2 DEF GiveUp, Decides, EnqueueAfter, CoolDown
  <2>4. Metrics'
    <3>1. Required(HeightOf(j)) \ j.done \in SUBSET BlobTypes
      BY DEF Required, BlobTypes
    <3> QED BY <1>16, <2>2, <3>1, MetricTypes DEF GiveUp, HeightOf
  <2>5. (inflight \in Int)' /\ Env'
    BY <1>1, <1>3, <1>16 DEF GiveUp, LeavesInflight, Decides
  <2> QED BY <1>2, <2>1, <2>3, <2>4, <2>5
<1>17. ASSUME NEW w \in Workers, Exit(w) PROVE TypeOK'
  <2>1. (worker \in Pool)'
    BY <1>17, WorkerUpdate DEF Exit
  <2> QED BY <1>2, <1>3, <1>4, <1>5, <1>17, <2>1 DEF Exit
<1>18. ASSUME NEW b \in BlobTypes, NEW h \in Heights, Submit(b, h) PROVE TypeOK'
  <2>1. Env'
    BY <1>1, <1>18 DEF Submit
  <2> QED BY <1>2, <1>4, <1>5, <1>6, <1>18, <2>1 DEF Submit
<1>19. ASSUME Recover \/ Cancel PROVE TypeOK'
  <2>1. onDA' \in [BlobTypes -> SUBSET Heights]
    BY <1>1, <1>19 DEF Recover, Cancel
  <2>2. outage \in BOOLEAN /\ cancelled \in BOOLEAN
    BY <1>1
  <2>3. outage' \in BOOLEAN /\ cancelled' \in BOOLEAN
    BY <1>19, <2>2 DEF Recover, Cancel
  <2> QED BY <1>2, <1>4, <1>5, <1>6, <1>19, <2>1, <2>3 DEF Recover, Cancel
<1> QED
  BY <1>8, <1>9, <1>10, <1>11, <1>12, <1>13, <1>14, <1>15, <1>16, <1>17, <1>18, <1>19
     DEF Next, Work, VerifyHeader, VerifyData, BlobTypes

\* Every variable has its type: no worker is at a step without a job, no more jobs
\* wait than the queue holds, and an attempt has an interval (verifier.go:308-361).
THEOREM VerifierTypeCorrect == Spec => []TypeOK
BY InitTypes, NextTypes, PTL DEF Spec

-----------------------------------------------------------------------------
(* The jobs.  A delivery has one job, and it is in one place. *)

QueuedOnce == /\ \A i, k \in 1 .. Len(queue) : queue[i].id = queue[k].id => i = k
              /\ \A i \in 1 .. Len(queue), j \in delayed : queue[i].id # j.id
              /\ \A j, k \in delayed : j.id = k.id => j = k

HeldOnce == \A w \in Workers : Held(w) =>
                /\ \A i \in 1 .. Len(queue) : queue[i].id # worker[w].job.id
                /\ \A j \in delayed : j.id # worker[w].job.id
                /\ \A v \in Workers \ {w} : Held(v) => worker[v].job.id # worker[w].job.id

DeliveredOnce == \A d \in undelivered :
                     /\ \A i \in 1 .. Len(queue) : queue[i].id # d
                     /\ \A j \in delayed : j.id # d
                     /\ \A w \in Workers : Held(w) => worker[w].job.id # d

OneJobEach == QueuedOnce /\ HeldOnce /\ DeliveredOnce

\* A job of LiveJobs is in one of three places.
Somewhere(j) == \/ \E i \in 1 .. Len(queue) : queue[i] = j
                \/ j \in delayed
                \/ \E w \in Workers : Held(w) /\ worker[w].job = j

\* A live job is queued, on a timer or held by a worker,
LEMMA Places == TypeOK => \A j : j \in LiveJobs <=> Somewhere(j)
<1> SUFFICES ASSUME TypeOK, NEW j PROVE j \in LiveJobs <=> Somewhere(j)
  OBVIOUS
<1>1. DOMAIN queue = 1 .. Len(queue)
  BY DEF TypeOK
<1> QED BY <1>1 DEF LiveJobs, Somewhere

\* and so it is after a step.
LEMMA PlacesNext == TypeOK' => \A j : j \in LiveJobs' <=> Somewhere(j)'
<1> SUFFICES ASSUME TypeOK', NEW j PROVE j \in LiveJobs' <=> Somewhere(j)'
  OBVIOUS
<1>1. DOMAIN queue' = 1 .. Len(queue')
  BY DEF TypeOK
<1> QED BY <1>1 DEF LiveJobs, Somewhere

\* Live jobs are jobs.
LEMMA LiveJobsType == TypeOK => LiveJobs \subseteq Job
<1> SUFFICES ASSUME TypeOK, NEW j \in LiveJobs PROVE j \in Job
  OBVIOUS
<1>1. queue \in Seq(Job) /\ delayed \subseteq Job
  BY DEF TypeOK
<1>2. \A i \in 1 .. Len(queue) : queue[i] \in Job
  BY <1>1
<1>3. \A w \in Workers : Held(w) => worker[w].job \in Job
  BY WorkerTypes
<1>4. Somewhere(j)
  BY Places
<1> QED BY <1>1, <1>2, <1>3, <1>4 DEF Somewhere

\* Two jobs of one delivery are one job.
LEMMA OneJob == TypeOK /\ OneJobEach => \A j, k \in LiveJobs : j.id = k.id => j = k
<1> SUFFICES ASSUME TypeOK, OneJobEach, NEW j \in LiveJobs, NEW k \in LiveJobs, j.id = k.id PROVE j = k
  OBVIOUS
<1>1. Somewhere(j) /\ Somewhere(k)
  BY Places
<1> QED BY <1>1 DEF Somewhere, OneJobEach, QueuedOnce, HeldOnce

\* The worker that held a job of LiveJobs replaces it by one of the same delivery.
LEMMA Carried ==
    ASSUME TypeOK, TypeOK', OneJobEach, NEW w \in Workers, Held(w), NEW k \in Job,
           k.id = worker[w].job.id, HoldsJob(w, k), UNCHANGED jobVars
    PROVE  /\ OneJobEach' /\ worker[w].job \in LiveJobs
           /\ LiveJobs' = (LiveJobs \ {worker[w].job}) \cup {k}
<1> DEFINE j == worker[w].job
<1>1. PICK r \in HeldWorker : worker' = [worker EXCEPT ![w] = r] /\ r.job = k
  BY DEF HoldsJob
<1>2. /\ worker'[w].job = k /\ Held(w)'
      /\ \A v \in Workers \ {w} : worker'[v] = worker[v] /\ (Held(v)' <=> Held(v))
  <2>1. worker'[w] = r /\ \A v \in Workers \ {w} : worker'[v] = worker[v]
    BY <1>1, WorkerUpdate
  <2>2. r.pc \notin {"idle", "exited"}
    BY DEF HeldWorker, Steps
  <2> QED BY <1>1, <2>1, <2>2 DEF Held
<1>3. queue' = queue /\ delayed' = delayed /\ undelivered' = undelivered
  BY DEF jobVars
<1>4. OneJobEach'
  BY <1>2, <1>3 DEF OneJobEach, QueuedOnce, HeldOnce, DeliveredOnce
<1>5. j \in LiveJobs
  BY Places DEF Somewhere
<1>6. ASSUME NEW i, Somewhere(i)' PROVE i = k \/ (Somewhere(i) /\ i # j)
  BY <1>2, <1>3, <1>6 DEF Somewhere, OneJobEach, HeldOnce
<1>7. ASSUME NEW i, i = k \/ (Somewhere(i) /\ i # j) PROVE Somewhere(i)'
  BY <1>2, <1>3, <1>7 DEF Somewhere
<1>8. \A i : i \in LiveJobs' <=> i = k \/ (i \in LiveJobs /\ i # j)
  BY <1>6, <1>7, Places, PlacesNext
<1> QED BY <1>4, <1>5, <1>8

\* After a decision the job is with a timer, as k, or gone.
LEMMA PutBack ==
    ASSUME TypeOK, TypeOK', OneJobEach, NEW w \in Workers, NEW complete \in BOOLEAN,
           Decides(w, complete), NEW k \in Job, k.id = worker[w].job.id, EnqueueAfter(k)
    PROVE  /\ OneJobEach' /\ worker[w].job \in LiveJobs
           /\ LiveJobs' = (LiveJobs \ {worker[w].job}) \cup {k}
<1> DEFINE j == worker[w].job
<1>1. /\ Held(w) /\ ~Held(w)'
      /\ \A v \in Workers \ {w} : worker'[v] = worker[v] /\ (Held(v)' <=> Held(v))
  BY DecidesUpdate DEF Held
<1>2. queue' = queue /\ delayed' = delayed \cup {k} /\ undelivered' = undelivered
  BY DEF EnqueueAfter, Decides
<1>3. OneJobEach'
  BY <1>1, <1>2 DEF OneJobEach, QueuedOnce, HeldOnce, DeliveredOnce
<1>4. j \in LiveJobs
  BY <1>1, Places DEF Somewhere
<1>5. ASSUME NEW i, Somewhere(i)' PROVE i = k \/ (Somewhere(i) /\ i # j)
  BY <1>1, <1>2, <1>5 DEF Somewhere, OneJobEach, HeldOnce
<1>6. ASSUME NEW i, i = k \/ (Somewhere(i) /\ i # j) PROVE Somewhere(i)'
  BY <1>1, <1>2, <1>6 DEF Somewhere
<1>7. \A i : i \in LiveJobs' <=> i = k \/ (i \in LiveJobs /\ i # j)
  BY <1>5, <1>6, Places, PlacesNext
<1> QED BY <1>3, <1>4, <1>7

\* A worker that ends its job leaves every other one where it is.
LEMMA LeftForGood ==
    ASSUME TypeOK, TypeOK', OneJobEach, NEW w \in Workers, NEW complete \in BOOLEAN,
           Decides(w, complete), UNCHANGED <<queue, delayed>>
    PROVE  OneJobEach' /\ worker[w].job \in LiveJobs /\ LiveJobs' = LiveJobs \ {worker[w].job}
<1> DEFINE j == worker[w].job
<1>1. /\ Held(w) /\ ~Held(w)'
      /\ \A v \in Workers \ {w} : worker'[v] = worker[v] /\ (Held(v)' <=> Held(v))
  BY DecidesUpdate DEF Held
<1>2. queue' = queue /\ delayed' = delayed /\ undelivered' = undelivered
  BY DEF Decides
<1>3. OneJobEach'
  BY <1>1, <1>2 DEF OneJobEach, QueuedOnce, HeldOnce, DeliveredOnce
<1>4. j \in LiveJobs
  BY <1>1, Places DEF Somewhere
<1>5. ASSUME NEW i, Somewhere(i)' PROVE Somewhere(i) /\ i # j
  BY <1>1, <1>2, <1>5 DEF Somewhere, OneJobEach, HeldOnce
<1>6. ASSUME NEW i, Somewhere(i) /\ i # j PROVE Somewhere(i)'
  BY <1>1, <1>2, <1>6 DEF Somewhere
<1>7. \A i : i \in LiveJobs' <=> i \in LiveJobs /\ i # j
  BY <1>5, <1>6, Places, PlacesNext
<1> QED BY <1>3, <1>4, <1>7

\* A worker takes the head of the queue.
LEMMA Taken ==
    ASSUME TypeOK, TypeOK', OneJobEach, NEW w \in Workers, Take(w)
    PROVE  /\ OneJobEach' /\ Head(queue) \in LiveJobs
           /\ LiveJobs' = (LiveJobs \ {Head(queue)}) \cup {[Head(queue) EXCEPT !.started = TRUE]}
<1> DEFINE j == Head(queue)
           k == [j EXCEPT !.started = TRUE]
           r == [pc |-> "fetch", seen |-> {}, job |-> k]
<1>1. queue \in Seq(Job) /\ queue # << >> /\ Len(queue) \in Nat
  BY DEF TypeOK, Take
<1>2. /\ j \in Job /\ j = queue[1] /\ Len(queue') = Len(queue) - 1 /\ Len(queue) >= 1
      /\ \A i \in 1 .. Len(queue) - 1 : queue'[i] = queue[i + 1]
  BY <1>1, TailFacts DEF Take
<1>3. k \in Job /\ k.id = j.id
  BY <1>2, JobTypes
<1>4. r \in HeldWorker /\ r.job = k /\ r.pc = "fetch"
  BY <1>3 DEF HeldWorker, Steps
<1>5. worker'[w] = r /\ \A v \in Workers \ {w} : worker'[v] = worker[v]
  BY <1>4, WorkerUpdate DEF Take
<1>6. /\ ~Held(w) /\ Held(w)' /\ worker'[w].job = k
      /\ \A v \in Workers \ {w} : worker'[v] = worker[v] /\ (Held(v)' <=> Held(v))
  BY <1>4, <1>5 DEF Held, Take
<1>7. delayed' = delayed /\ undelivered' = undelivered
  BY DEF Take
<1> HIDE DEF j, k, r
<1>8. OneJobEach'
  <2>1. QueuedOnce'
    <3>1. \A n \in 1 .. Len(queue') : n + 1 \in 1 .. Len(queue) /\ queue'[n] = queue[n + 1]
      BY <1>1, <1>2
    <3>2. \A m, n \in 1 .. Len(queue') : queue'[m].id = queue'[n].id => m = n
      <4>1. SUFFICES ASSUME NEW m \in 1 .. Len(queue'), NEW n \in 1 .. Len(queue'),
                            queue'[m].id = queue'[n].id
                     PROVE  m = n
        OBVIOUS
      <4>2. m + 1 = n + 1
        BY <3>1, <4>1 DEF OneJobEach, QueuedOnce
      <4>3. m \in Int /\ n \in Int
        OBVIOUS
      <4> QED BY <4>2, <4>3
    <3> QED BY <1>7, <3>1, <3>2 DEF OneJobEach, QueuedOnce
  <2>2. HeldOnce'
    BY <1>1, <1>2, <1>3, <1>6, <1>7 DEF OneJobEach, QueuedOnce, HeldOnce
  <2>3. DeliveredOnce'
    BY <1>1, <1>2, <1>3, <1>6, <1>7 DEF OneJobEach, DeliveredOnce
  <2> QED BY <2>1, <2>2, <2>3 DEF OneJobEach
<1>9. j \in LiveJobs
  BY <1>1, <1>2, Places DEF Somewhere
<1>10. ASSUME NEW i, Somewhere(i)' PROVE i = k \/ (Somewhere(i) /\ i # j)
  <2>1. CASE \E n \in 1 .. Len(queue') : queue'[n] = i
    <3>1. PICK n \in 1 .. Len(queue') : queue'[n] = i
      BY <2>1
    <3>2. n + 1 \in 1 .. Len(queue) /\ queue[n + 1] = i /\ 1 \in 1 .. Len(queue) /\ n + 1 # 1
      BY <1>1, <1>2, <3>1
    <3>3. i # j
      BY <1>2, <3>2 DEF OneJobEach, QueuedOnce
    <3> QED BY <3>2, <3>3 DEF Somewhere
  <2>2. CASE i \in delayed
    <3>1. i # j
      BY <1>1, <1>2, <2>2, 1 \in 1 .. Len(queue) DEF OneJobEach, QueuedOnce
    <3> QED BY <2>2, <3>1 DEF Somewhere
  <2>3. CASE \E v \in Workers : Held(v)' /\ worker'[v].job = i
    BY <1>1, <1>2, <1>6, <2>3 DEF Somewhere, OneJobEach, HeldOnce
  <2> QED BY <1>7, <1>10, <2>1, <2>2, <2>3 DEF Somewhere
<1>11. ASSUME NEW i, i = k \/ (Somewhere(i) /\ i # j) PROVE Somewhere(i)'
  <2>1. CASE i = k
    BY <1>6, <2>1 DEF Somewhere
  <2>2. CASE (\E n \in 1 .. Len(queue) : queue[n] = i) /\ i # j
    <3>1. PICK n \in 1 .. Len(queue) : queue[n] = i /\ n # 1
      BY <1>2, <2>2
    <3>2. n - 1 \in 1 .. Len(queue') /\ queue'[n - 1] = i
      BY <1>1, <1>2, <3>1
    <3> QED BY <3>2 DEF Somewhere
  <2>3. CASE i \in delayed \/ \E v \in Workers : Held(v) /\ worker[v].job = i
    BY <1>6, <1>7, <2>3 DEF Somewhere
  <2> QED BY <1>11, <2>1, <2>2, <2>3 DEF Somewhere
<1>12. \A i : i \in LiveJobs' <=> i = k \/ (i \in LiveJobs /\ i # j)
  BY <1>10, <1>11, Places, PlacesNext
<1> QED BY <1>8, <1>9, <1>12 DEF j, k

\* A delivery adds its job, a timer moves its own to the queue.
LEMMA Delivered ==
    ASSUME TypeOK, TypeOK', OneJobEach, NEW d \in Deliveries, Deliver(d)
    PROVE  /\ OneJobEach' /\ \A j \in LiveJobs : j.id # d
           /\ LiveJobs' = LiveJobs \cup {NewJob(d)}
<1> DEFINE k == NewJob(d)
<1>1. k \in Job /\ k.id = d
  BY JobTypes
<1>2. queue \in Seq(Job) /\ Len(queue) \in Nat
  BY DEF TypeOK
<1>3. /\ Len(queue') = Len(queue) + 1 /\ queue'[Len(queue) + 1] = k
      /\ \A i \in 1 .. Len(queue) : queue'[i] = queue[i]
  BY <1>1, <1>2, AppendFacts DEF Deliver
<1>4. delayed' = delayed /\ worker' = worker /\ undelivered' = undelivered \ {d} /\ d \in undelivered
  BY DEF Deliver
<1>5. \A w \in Workers : Held(w)' <=> Held(w)
  BY <1>4 DEF Held
<1> HIDE DEF k
<1>6. \A j : Somewhere(j) => j.id # d
  BY <1>4 DEF Somewhere, OneJobEach, DeliveredOnce
<1>7. OneJobEach'
  <2>1. \A n \in 1 .. Len(queue') : \/ n = Len(queue) + 1 /\ queue'[n] = k
                                    \/ n \in 1 .. Len(queue) /\ queue'[n] = queue[n]
    BY <1>2, <1>3
  <2>2. QueuedOnce'
    BY <1>1, <1>4, <2>1 DEF OneJobEach, QueuedOnce, DeliveredOnce
  <2>3. HeldOnce'
    BY <1>1, <1>4, <1>5, <2>1 DEF OneJobEach, HeldOnce, DeliveredOnce
  <2>4. DeliveredOnce'
    BY <1>1, <1>4, <1>5, <2>1 DEF OneJobEach, DeliveredOnce
  <2> QED BY <2>2, <2>3, <2>4 DEF OneJobEach
<1>8. ASSUME NEW i PROVE Somewhere(i)' <=> i = k \/ Somewhere(i)
  <2>1. (\E n \in 1 .. Len(queue') : queue'[n] = i) <=> i = k \/ \E n \in 1 .. Len(queue) : queue[n] = i
    BY <1>2, <1>3
  <2> QED BY <1>4, <1>5, <2>1 DEF Somewhere
<1>9. \A i : i \in LiveJobs' <=> i = k \/ i \in LiveJobs
  BY <1>8, Places, PlacesNext
<1>10. \A j \in LiveJobs : j.id # d
  BY <1>6, Places
<1> QED BY <1>7, <1>9, <1>10 DEF k

\* A timer that fires moves its job to the queue.
LEMMA SentByTimer ==
    ASSUME TypeOK, TypeOK', OneJobEach, NEW k \in delayed, TimerSend(k)
    PROVE  OneJobEach' /\ LiveJobs' = LiveJobs
<1>1. k \in Job /\ queue \in Seq(Job) /\ Len(queue) \in Nat
  BY DEF TypeOK
<1>2. /\ Len(queue') = Len(queue) + 1 /\ queue'[Len(queue) + 1] = k
      /\ \A i \in 1 .. Len(queue) : queue'[i] = queue[i]
  BY <1>1, AppendFacts DEF TimerSend
<1>3. delayed' = delayed \ {k} /\ worker' = worker /\ undelivered' = undelivered
  BY DEF TimerSend
<1>4. \A w \in Workers : Held(w)' <=> Held(w)
  BY <1>3 DEF Held
<1>5. OneJobEach'
  <2>1. \A n \in 1 .. Len(queue') : \/ n = Len(queue) + 1 /\ queue'[n] = k
                                    \/ n \in 1 .. Len(queue) /\ queue'[n] = queue[n]
    BY <1>1, <1>2
  <2>2. QueuedOnce'
    BY <1>3, <2>1 DEF OneJobEach, QueuedOnce
  <2>3. HeldOnce'
    BY <1>3, <1>4, <2>1 DEF OneJobEach, HeldOnce
  <2>4. DeliveredOnce'
    BY <1>3, <1>4, <2>1 DEF OneJobEach, DeliveredOnce
  <2> QED BY <2>2, <2>3, <2>4 DEF OneJobEach
<1>6. ASSUME NEW i PROVE Somewhere(i)' <=> Somewhere(i)
  <2>1. (\E n \in 1 .. Len(queue') : queue'[n] = i) <=> i = k \/ \E n \in 1 .. Len(queue) : queue[n] = i
    BY <1>1, <1>2
  <2> QED BY <1>3, <1>4, <2>1 DEF Somewhere
<1>7. \A i : i \in LiveJobs' <=> i \in LiveJobs
  BY <1>6, Places, PlacesNext
<1> QED BY <1>5, <1>7

\* A step of anything else; a timer that gives up.
LEMMA Untouched ==
    ASSUME TypeOK, TypeOK', OneJobEach, UNCHANGED jobVars,
           \A w \in Workers : Held(w)' = Held(w) /\ (Held(w) => worker'[w] = worker[w])
    PROVE  OneJobEach' /\ LiveJobs' = LiveJobs
<1>1. queue' = queue /\ delayed' = delayed /\ undelivered' = undelivered
  BY DEF jobVars
<1>2. OneJobEach'
  BY <1>1 DEF OneJobEach, QueuedOnce, HeldOnce, DeliveredOnce
<1>3. ASSUME NEW i PROVE Somewhere(i)' <=> Somewhere(i)
  BY <1>1 DEF Somewhere
<1>4. \A i : i \in LiveJobs' <=> i \in LiveJobs
  BY <1>3, Places, PlacesNext
<1> QED BY <1>2, <1>4

\* A timer that stops drops its job.
LEMMA Dropped ==
    ASSUME TypeOK, TypeOK', OneJobEach, NEW k \in delayed, TimerDrop(k)
    PROVE  OneJobEach'
<1>1. queue' = queue /\ delayed' \subseteq delayed /\ undelivered' = undelivered /\ worker' = worker
  BY DEF TimerDrop
<1>2. \A w \in Workers : Held(w)' <=> Held(w)
  BY <1>1 DEF Held
<1> QED BY <1>1, <1>2 DEF OneJobEach, QueuedOnce, HeldOnce, DeliveredOnce

-----------------------------------------------------------------------------
(* What a step does to the set of jobs, wherever they are. *)

Replaces(j, k) == j \in LiveJobs /\ LiveJobs' = (LiveJobs \ {j}) \cup {k}

Quiet == LiveJobs' = LiveJobs /\ UNCHANGED metricVars

Enters(d) == /\ \A j \in LiveJobs : j.id # d
             /\ LiveJobs' = LiveJobs \cup {NewJob(d)}
             /\ UNCHANGED metricVars

Starts(j) == /\ Replaces(j, [j EXCEPT !.started = TRUE])
             /\ UNCHANGED recordVars
             /\ \/ j.started /\ UNCHANGED <<inflight, outcomes>>
                \/ /\ ~j.started /\ inflight' = inflight + 1
                   /\ outcomes' = [outcomes EXCEPT ![j.id] = [b \in BlobTypes |-> 0]]

Verifies(j, b) == /\ j.started /\ PartPending(j, b)
                  /\ Replaces(j, WithDone(j, b)) /\ WithDone(j, b) \in Job
                  /\ OnVerified(j.id, b, HeightOf(j))
                  /\ UNCHANGED inflight

Retries(j) == j.started /\ Replaces(j, RetryJob(j)) /\ UNCHANGED metricVars

Ends(j) == /\ j.started /\ Required(HeightOf(j)) \subseteq j.done
           /\ j \in LiveJobs /\ LiveJobs' = LiveJobs \ {j}
           /\ inflight' = inflight - 1
           /\ UNCHANGED <<recordVars, outcomes>>

StartsOver(j) == /\ j.started
                 /\ Replaces(j, NewJob(j.id))
                 /\ OnMissing(j.id, Required(HeightOf(j)) \ j.done, HeightOf(j))
                 /\ inflight' = inflight - 1

JobStep == \/ Quiet
           \/ \E d \in Deliveries : Enters(d)
           \/ \E j \in Job : Starts(j) \/ Retries(j) \/ Ends(j) \/ StartsOver(j)
           \/ \E j \in Job, b \in BlobTypes : Verifies(j, b)

\* Only then a timer may give its job up.
Abandons == cancelled /\ UNCHANGED metricVars

\* A worker holds a job it has started.
HeldStarted == \A w \in Workers : Held(w) => worker[w].job.started

JobInv == OneJobEach /\ HeldStarted

\* The invariant of the jobs holds initially.
LEMMA NewJobsIdle == Init => JobInv
BY DEF Init, JobInv, OneJobEach, QueuedOnce, HeldOnce, DeliveredOnce, HeldStarted, Held, Idle

\* A worker that holds started job k leaves HeldStarted as it is.
LEMMA HoldsStarted ==
    ASSUME TypeOK, HeldStarted, NEW w \in Workers, NEW k, k.started, HoldsJob(w, k)
    PROVE  HeldStarted'
<1>1. PICK r \in HeldWorker : worker' = [worker EXCEPT ![w] = r] /\ r.job = k
  BY DEF HoldsJob
<1>2. worker'[w] = r /\ \A v \in Workers \ {w} : worker'[v] = worker[v]
  BY <1>1, WorkerUpdate
<1> QED BY <1>1, <1>2 DEF HeldStarted, Held

\* Until the exporter is cancelled every step is one of these.
LEMMA NextJobs ==
    ASSUME TypeOK, TypeOK', JobInv, [Next]_vars
    PROVE  JobInv' /\ (JobStep \/ Abandons)
<1> USE DEF JobInv
<1>1. CASE UNCHANGED <<jobVars, worker>> /\ UNCHANGED metricVars
  <2>1. \A w \in Workers : Held(w)' = Held(w) /\ (Held(w) => worker'[w] = worker[w])
    BY <1>1 DEF Held
  <2>2. OneJobEach' /\ LiveJobs' = LiveJobs
    BY <1>1, <2>1, Untouched
  <2> QED BY <1>1, <2>1, <2>2 DEF JobStep, Quiet, HeldStarted
<1>2. ASSUME NEW d \in Deliveries, Deliver(d) PROVE JobInv' /\ JobStep
  <2>1. Enters(d) /\ OneJobEach'
    BY <1>2, Delivered DEF Enters, Deliver
  <2>2. HeldStarted'
    BY <1>2 DEF Deliver, HeldStarted, Held
  <2> QED BY <2>1, <2>2 DEF JobStep
<1>3. ASSUME NEW k \in delayed, TimerSend(k) PROVE JobInv' /\ JobStep
  <2>1. Quiet /\ OneJobEach'
    BY <1>3, SentByTimer DEF Quiet, TimerSend
  <2>2. HeldStarted'
    BY <1>3 DEF TimerSend, HeldStarted, Held
  <2> QED BY <2>1, <2>2 DEF JobStep
<1>4. ASSUME NEW k \in delayed, TimerDrop(k) PROVE JobInv' /\ Abandons
  <2>1. HeldStarted'
    BY <1>4 DEF TimerDrop, HeldStarted, Held
  <2> QED BY <1>4, <2>1, Dropped DEF TimerDrop, Abandons
<1>5. ASSUME NEW w \in Workers, Take(w) PROVE JobInv' /\ JobStep
  <2> DEFINE j == Head(queue)
             r == [pc |-> "fetch", seen |-> {}, job |-> [j EXCEPT !.started = TRUE]]
  <2>1. j \in Job
    BY <1>5, TailFacts DEF TypeOK, Take
  <2>2. r \in HeldWorker /\ r.job.started /\ r.job = [j EXCEPT !.started = TRUE]
    BY <2>1, JobTypes DEF HeldWorker, Steps
  <2>3. HoldsJob(w, [j EXCEPT !.started = TRUE])
    BY <1>5, <2>2 DEF HoldsJob, Take
  <2>4. HeldStarted'
    BY <2>2, <2>3, HoldsStarted
  <2>5. OneJobEach' /\ Replaces(j, [j EXCEPT !.started = TRUE])
    BY <1>5, Taken DEF Replaces
  <2>6. UNCHANGED recordVars
    BY <1>5 DEF Take
  <2>7. \/ j.started /\ UNCHANGED <<inflight, outcomes>>
        \/ /\ ~j.started /\ inflight' = inflight + 1
           /\ outcomes' = [outcomes EXCEPT ![j.id] = [b \in BlobTypes |-> 0]]
    BY <1>5, Zenon DEF Take
  <2> HIDE DEF j
  <2>8. Starts(j)
    BY <2>5, <2>6, <2>7 DEF Starts
  <2> QED BY <2>1, <2>4, <2>5, <2>8 DEF JobStep
<1>6. ASSUME NEW w \in Workers, Fetch(w) PROVE JobInv' /\ JobStep
  <2> DEFINE j == worker[w].job
  <2>1. Held(w) /\ j \in Job /\ j.started /\ HoldsJob(w, j)
    BY <1>6, WorkerTypes, FetchUpdate DEF Fetch, Steps, HeldStarted
  <2>2. UNCHANGED jobVars /\ UNCHANGED metricVars
    BY <1>6 DEF Fetch
  <2>3. OneJobEach' /\ LiveJobs' = LiveJobs
    <3>1. OneJobEach' /\ j \in LiveJobs /\ LiveJobs' = (LiveJobs \ {j}) \cup {j}
      BY <2>1, <2>2, Carried
    <3> QED BY <3>1
  <2>4. HeldStarted'
    BY <2>1, HoldsStarted
  <2> QED BY <2>2, <2>3, <2>4 DEF JobStep, Quiet
<1>7. ASSUME NEW w \in Workers, NEW b \in BlobTypes, NEW next \in {"data", "decide"}, VerifyPart(w, b, next)
      PROVE  JobInv' /\ JobStep
  <2> DEFINE j == worker[w].job
             k == WithDone(j, b)
  <2>1. /\ Held(w) /\ j \in Job /\ UNCHANGED jobVars
        /\ \/ HoldsJob(w, j) /\ UNCHANGED metricVars
           \/ /\ PartPending(j, b) /\ HoldsJob(w, k) /\ k \in Job
              /\ OnVerified(j.id, b, HeightOf(j)) /\ UNCHANGED inflight
    BY <1>7, VerifyUpdate
  <2>2. j.started
    BY <2>1 DEF HeldStarted
  <2>3. CASE HoldsJob(w, j) /\ UNCHANGED metricVars
    <3>1. OneJobEach' /\ j \in LiveJobs /\ LiveJobs' = (LiveJobs \ {j}) \cup {j}
      BY <2>1, <2>3, Carried
    <3>2. HeldStarted'
      BY <2>2, <2>3, HoldsStarted
    <3>3. Quiet
      BY <2>3, <3>1 DEF Quiet
    <3> QED BY <3>1, <3>2, <3>3 DEF JobStep
  <2>4. CASE /\ PartPending(j, b) /\ HoldsJob(w, k) /\ k \in Job
             /\ OnVerified(j.id, b, HeightOf(j)) /\ UNCHANGED inflight
    <3>1. k.id = j.id /\ k.started
      BY <2>1, <2>2 DEF WithDone, Job
    <3>2. OneJobEach' /\ Replaces(j, k)
      BY <2>1, <2>4, <3>1, Carried DEF Replaces
    <3>3. HeldStarted'
      BY <2>4, <3>1, HoldsStarted
    <3>4. Verifies(j, b)
      BY <2>2, <2>4, <3>2 DEF Verifies
    <3> QED BY <2>1, <3>2, <3>3, <3>4 DEF JobStep
  <2> QED BY <2>1, <2>3, <2>4
<1>8. ASSUME NEW w \in Workers, NEW complete \in BOOLEAN, Decides(w, complete),
             Finish(w) \/ Retry(w) \/ GiveUp(w)
      PROVE  JobInv' /\ JobStep
  <2> DEFINE j == worker[w].job
  <2>1. Held(w) /\ j \in Job /\ ~Held(w)' /\ \A v \in Workers \ {w} : worker'[v] = worker[v]
    BY <1>8, DecidesUpdate
  <2>2. j.started /\ HeldStarted'
    BY <2>1 DEF HeldStarted, Held
  <2>3. j.id \in Deliveries /\ NewJob(j.id) \in Job /\ NewJob(j.id).id = j.id
    BY <2>1, JobTypes
  <2>4. CASE Finish(w)
    <3>1. OneJobEach' /\ j \in LiveJobs /\ LiveJobs' = LiveJobs \ {j}
      BY <1>8, <2>4, LeftForGood DEF Finish
    <3>2. Ends(j)
      BY <2>2, <2>4, <3>1 DEF Ends, Finish, Decides, LeavesInflight
    <3> QED BY <2>1, <2>2, <3>1, <3>2 DEF JobStep
  <2>5. CASE Retry(w)
    <3>1. RetryJob(j) \in Job /\ RetryJob(j).id = j.id
      BY <2>1, <2>5, JobTypes DEF Retry
    <3>2. OneJobEach' /\ Replaces(j, RetryJob(j))
      BY <1>8, <2>5, <3>1, PutBack DEF Retry, Replaces
    <3>3. Retries(j)
      BY <2>2, <2>5, <3>2 DEF Retry, Retries
    <3> QED BY <2>1, <2>2, <3>2, <3>3 DEF JobStep
  <2>6. CASE GiveUp(w)
    <3>1. OneJobEach' /\ Replaces(j, NewJob(j.id))
      BY <1>8, <2>3, <2>6, PutBack DEF GiveUp, CoolDown, Replaces
    <3>2. StartsOver(j)
      BY <2>2, <2>6, <3>1 DEF GiveUp, StartsOver, LeavesInflight
    <3> QED BY <2>1, <2>2, <3>1, <3>2 DEF JobStep
  <2> QED BY <1>8, <2>4, <2>5, <2>6
<1>9. ASSUME NEW w \in Workers, Exit(w) PROVE JobInv' /\ JobStep
  <2>1. worker'[w] = [pc |-> "exited"] /\ \A v \in Workers \ {w} : worker'[v] = worker[v]
    BY <1>9, WorkerUpdate DEF Exit
  <2>2. \A v \in Workers : Held(v)' = Held(v) /\ (Held(v) => worker'[v] = worker[v])
    BY <1>9, <2>1 DEF Held, Exit
  <2>3. OneJobEach' /\ LiveJobs' = LiveJobs
    BY <1>9, <2>2, Untouched DEF Exit
  <2> QED BY <1>9, <2>2, <2>3 DEF JobStep, Quiet, HeldStarted, Exit
<1>10. ASSUME NEW w \in Workers, Finish(w) \/ Retry(w) \/ GiveUp(w) PROVE JobInv' /\ JobStep
  BY <1>8, <1>10 DEF Finish, Retry, GiveUp
<1>11. (\E b \in BlobTypes, h \in Heights : Submit(b, h)) \/ Recover \/ Cancel \/ UNCHANGED vars
         => UNCHANGED <<jobVars, worker>> /\ UNCHANGED metricVars
  BY DEF Submit, Recover, Cancel, vars
<1> QED
  BY <1>1, <1>2, <1>3, <1>4, <1>5, <1>6, <1>7, <1>9, <1>10, <1>11
     DEF Next, Work, VerifyHeader, VerifyData, BlobTypes

\* Every step keeps the invariant of the jobs.
LEMMA JobsKept == TypeOK /\ JobInv /\ [Next]_vars => JobInv'
BY NextTypes, NextJobs

\* Nobody takes a cancellation back.
LEMMA CancelledStays == cancelled /\ [Next]_vars => cancelled'
<1> SUFFICES ASSUME cancelled, [Next]_vars PROVE cancelled'
  OBVIOUS
<1>1. ASSUME NEW w \in Workers, Take(w) \/ Work(w) \/ Exit(w) PROVE UNCHANGED envVars
  BY <1>1 DEF Take, Work, Fetch, VerifyHeader, VerifyData, VerifyPart, Finish, Retry, GiveUp, Decides, Exit
<1> QED
  BY <1>1 DEF Next, vars, envVars, Deliver, TimerSend, TimerDrop, Submit, Recover, Cancel

-----------------------------------------------------------------------------
(* The DA height. *)

DaInv == \A b \in BlobTypes : /\ latestDa[b] \in verified[b] \cup {0}
                             /\ \A h \in verified[b] : h <= latestDa[b]

\* Every step keeps the DA height among those verified, and above them.
LEMMA DaKept == TypeOK /\ JobInv /\ DaInv /\ [Next]_vars => DaInv'
<1> SUFFICES ASSUME TypeOK, JobInv, DaInv, [Next]_vars PROVE DaInv'
  OBVIOUS
<1>1. UNCHANGED recordVars => DaInv'
  BY DEF recordVars, DaInv
<1>2. ASSUME NEW j \in Job, NEW b \in BlobTypes, Verifies(j, b) PROVE DaInv'
  <2>1. Heights \subseteq Nat /\ HeightOf(j) \in Heights
    <3>1. Heights \subseteq Nat
      BY DeliveriesAssumption DEF Heights
    <3>2. HeightOf(j) \in Heights
      BY JobTypes
    <3> QED BY <3>1, <3>2
  <2>2. /\ latestDa \in [BlobTypes -> Heights \cup {0}]
        /\ verified \in [BlobTypes -> SUBSET Heights]
    BY DEF TypeOK
  <2> DEFINE h == HeightOf(j)
  <2>3. /\ latestDa' = [latestDa EXCEPT ![b] = IF h > @ THEN h ELSE @]
        /\ verified' = [verified EXCEPT ![b] = @ \cup {h}]
    BY <1>2 DEF Verifies, OnVerified, RecordSubmissionDaHeight
  <2> HIDE DEF h
  <2>4. h \in Nat
    BY <2>1 DEF h
  <2>5. latestDa[b] \in Nat /\ verified[b] \subseteq Nat
    <3>1. latestDa[b] \in Heights \cup {0} /\ verified[b] \in SUBSET Heights
      BY <2>2
    <3>2. \A x \in Heights : x \in Nat
      BY <2>1
    <3>3. latestDa[b] \in Nat
      <4>1. CASE latestDa[b] \in Heights
        BY <3>2, <4>1, Zenon
      <4>2. CASE latestDa[b] = 0
        BY <4>2
      <4> QED BY <3>1, <4>1, <4>2
    <3>4. verified[b] \subseteq Nat
      BY <3>1, <3>2
    <3> QED BY <3>3, <3>4
  <2>6. /\ latestDa'[b] = (IF h > latestDa[b] THEN h ELSE latestDa[b]) /\ verified'[b] = verified[b] \cup {h}
        /\ \A c \in BlobTypes \ {b} : latestDa'[c] = latestDa[c] /\ verified'[c] = verified[c]
    BY <2>2, <2>3
  <2>7. latestDa'[b] \in verified'[b] \cup {0} /\ \A n \in verified'[b] : n <= latestDa'[b]
    BY <2>4, <2>5, <2>6 DEF DaInv
  <2> QED BY <2>6, <2>7 DEF DaInv
<1>3. ASSUME NEW j \in Job, StartsOver(j) PROVE DaInv'
  BY <1>3 DEF StartsOver, OnMissing, DaInv
<1>4. JobStep \/ Abandons
  BY NextTypes, NextJobs
<1> QED
  BY <1>1, <1>2, <1>3, <1>4
     DEF JobStep, Abandons, Quiet, Enters, Starts, Retries, Ends, metricVars

\* It is then the highest of them.
LEMMA DaShowsHighest == TypeOK /\ DaInv => DaHeightIsHighest
<1> SUFFICES ASSUME TypeOK, DaInv, NEW b \in BlobTypes PROVE latestDa[b] = Max(verified[b] \cup {0})
  BY DEF DaHeightIsHighest
<1> DEFINE S == verified[b] \cup {0}
           m == latestDa[b]
<1>1. S \subseteq Nat
  BY DeliveriesAssumption DEF TypeOK, Heights
<1>2. m \in S /\ \A h \in S : m >= h
  BY <1>1 DEF DaInv
<1> HIDE DEF S, m
<1>3. \A x \in S : (\A y \in S : x >= y) => x = m
  BY <1>1, <1>2
<1>4. Max(S) = m
  BY <1>2, <1>3 DEF Max
<1> QED BY <1>4 DEF S, m

\* However the verifications of the workers overtake each other, for every number
\* of them, the DA height gauge shows the highest (metrics.go:435-447).
THEOREM DaHeightAlwaysHighest == Spec => []DaHeightIsHighest
<1>1. Init => DaInv
  BY DEF Init, DaInv, Nowhere
<1>2. Spec => []DaInv
  BY <1>1, InitTypes, NextTypes, NewJobsIdle, JobsKept, DaKept, PTL DEF Spec
<1> QED BY <1>2, VerifierTypeCorrect, DaShowsHighest, PTL

-----------------------------------------------------------------------------
(* The reports of missing blocks. *)

\* Every step keeps a job for every height reported missing.
LEMMA MissingKept == TypeOK /\ JobInv /\ MissingHasJob /\ [Next]_vars => MissingHasJob'
<1> SUFFICES ASSUME TypeOK, JobInv, MissingHasJob, [Next]_vars, ~cancelled',
                    NEW b \in BlobTypes, NEW h \in missing'[b]
             PROVE  \E j \in LiveJobs' : HeightOf(j) = h /\ PartPending(j, b)
  BY DEF MissingHasJob
<1>1. ~cancelled
  BY CancelledStays
<1>2. LiveJobs \subseteq Job /\ missing \in [BlobTypes -> SUBSET Heights]
  BY LiveJobsType DEF TypeOK
<1>3. h \in missing[b] => \E j \in LiveJobs : HeightOf(j) = h /\ PartPending(j, b)
  BY <1>1 DEF MissingHasJob
\* A job that takes another's place looks at as much.
<1>4. ASSUME NEW j \in Job, NEW k, k.id = j.id, k.done = j.done, Replaces(j, k), UNCHANGED missing
      PROVE  \E i \in LiveJobs' : HeightOf(i) = h /\ PartPending(i, b)
  BY <1>3, <1>4 DEF Replaces, HeightOf, PartPending
<1>5. CASE Quiet \/ \E d \in Deliveries : Enters(d)
  BY <1>3, <1>5 DEF Quiet, Enters, metricVars, recordVars
<1>6. ASSUME NEW j \in Job, Starts(j) PROVE \E i \in LiveJobs' : HeightOf(i) = h /\ PartPending(i, b)
  BY <1>4, <1>6, JobTypes DEF Starts, recordVars
<1>7. ASSUME NEW j \in Job, Retries(j) PROVE \E i \in LiveJobs' : HeightOf(i) = h /\ PartPending(i, b)
  BY <1>4, <1>7, JobTypes DEF Retries, metricVars, recordVars
<1>8. ASSUME NEW j \in Job, Ends(j) PROVE \E i \in LiveJobs' : HeightOf(i) = h /\ PartPending(i, b)
  BY <1>3, <1>8 DEF Ends, PartPending, recordVars
<1>9. ASSUME NEW j \in Job, StartsOver(j) PROVE \E i \in LiveJobs' : HeightOf(i) = h /\ PartPending(i, b)
  <2> DEFINE k == NewJob(j.id)
  <2>1. HeightOf(k) = HeightOf(j) /\ k.done = {}
    BY DEF NewJob, HeightOf
  <2>2. \A c : PartPending(j, c) => PartPending(k, c)
    BY <2>1 DEF PartPending
  <2>3. k \in LiveJobs' /\ \A i \in LiveJobs : i \in LiveJobs' \/ i = j
    BY <1>9 DEF StartsOver, Replaces
  <2>4. h \in missing[b] \/ (h = HeightOf(j) /\ PartPending(j, b))
    BY <1>9 DEF StartsOver, OnMissing, PartPending
  <2> HIDE DEF k
  <2> QED BY <1>3, <2>1, <2>2, <2>3, <2>4
<1>10. ASSUME NEW j \in Job, NEW c \in BlobTypes, Verifies(j, c)
       PROVE  \E i \in LiveJobs' : HeightOf(i) = h /\ PartPending(i, b)
  <2> DEFINE k == WithDone(j, c)
  <2>1. k.id = j.id /\ k.done = j.done \cup {c}
    BY DEF WithDone, Job
  <2>2. k \in LiveJobs' /\ \A i \in LiveJobs : i \in LiveJobs' \/ i = j
    BY <1>10 DEF Verifies, Replaces
  <2>3. missing' = [missing EXCEPT ![c] = @ \ {HeightOf(j)}]
    BY <1>10 DEF Verifies, OnVerified
  <2>4. h \in missing[b] /\ ~(b = c /\ h = HeightOf(j))
    BY <1>2, <2>3
  <2>5. PICK i \in LiveJobs : HeightOf(i) = h /\ PartPending(i, b)
    BY <1>3, <2>4
  <2>6. CASE i = j
    BY <2>1, <2>2, <2>4, <2>5, <2>6 DEF PartPending, HeightOf
  <2>7. CASE i # j
    BY <2>2, <2>5, <2>7
  <2> QED BY <2>6, <2>7
<1>11. JobStep
  BY <1>1, NextTypes, NextJobs DEF Abandons
<1> QED BY <1>5, <1>6, <1>7, <1>8, <1>9, <1>10, <1>11 DEF JobStep

\* Until the exporter is cancelled, a height reported missing has a job that will
\* look at that blob again and can take the report back, however many jobs of the
\* height there are and in whatever order they end (verifier.go:353-361).
THEOREM MissingAlwaysHasJob == Spec => []MissingHasJob
<1>1. Init => MissingHasJob
  BY DEF Init, MissingHasJob, Nowhere
<1> QED
  BY <1>1, InitTypes, NextTypes, NewJobsIdle, JobsKept, MissingKept, PTL DEF Spec

-----------------------------------------------------------------------------
(* The inflight gauge. *)

StartedJobs == {j \in LiveJobs : j.started}

InflightInv == ~cancelled => IsFiniteSet(StartedJobs) /\ inflight = Cardinality(StartedJobs)

\* The cardinality of a finite set when an element joins it,
LEMMA OneMore ==
    ASSUME NEW S, IsFiniteSet(S), NEW k, k \notin S
    PROVE  IsFiniteSet(S \cup {k}) /\ Cardinality(S \cup {k}) = Cardinality(S) + 1
BY FS_AddElement

\* leaves it,
LEMMA OneLess ==
    ASSUME NEW S, IsFiniteSet(S), NEW j, j \in S
    PROVE  IsFiniteSet(S \ {j}) /\ Cardinality(S \ {j}) = Cardinality(S) - 1 /\ Cardinality(S) \in Nat
BY FS_RemoveElement, FS_CardinalityType

\* or takes the place of another.
LEMMA OneSwapped ==
    ASSUME NEW S, IsFiniteSet(S), NEW j \in S, NEW k, k \notin S \ {j}
    PROVE  /\ IsFiniteSet((S \ {j}) \cup {k})
           /\ Cardinality((S \ {j}) \cup {k}) = Cardinality(S)
<1>1. IsFiniteSet(S \ {j}) /\ Cardinality(S \ {j}) = Cardinality(S) - 1 /\ Cardinality(S) \in Nat
  BY OneLess
<1> DEFINE T == S \ {j}
<1>2. IsFiniteSet(T) /\ k \notin T
  BY <1>1
<1>3. IsFiniteSet(T \cup {k}) /\ Cardinality(T \cup {k}) = Cardinality(T) + 1
  BY <1>2, OneMore
<1> QED BY <1>1, <1>3

\* A started job that takes another's place.
LEMMA StartedSwapped ==
    ASSUME TypeOK, OneJobEach, NEW j, NEW k, k.id = j.id, j.started, k.started, Replaces(j, k),
           IsFiniteSet(StartedJobs)
    PROVE  IsFiniteSet(StartedJobs') /\ Cardinality(StartedJobs') = Cardinality(StartedJobs)
<1> DEFINE S == StartedJobs
<1>1. j \in S
  BY DEF Replaces, StartedJobs
<1>2. k \notin S \ {j}
  BY OneJob DEF Replaces, StartedJobs
<1>3. StartedJobs' = (S \ {j}) \cup {k}
  BY DEF Replaces, StartedJobs
<1> HIDE DEF S
<1>4. IsFiniteSet(S)
  BY DEF S
<1>5. IsFiniteSet((S \ {j}) \cup {k}) /\ Cardinality((S \ {j}) \cup {k}) = Cardinality(S)
  BY <1>1, <1>2, <1>4, OneSwapped
<1> QED BY <1>3, <1>5 DEF S

\* Every step keeps the gauge at the number of started jobs.
LEMMA InflightKept == TypeOK /\ JobInv /\ InflightInv /\ [Next]_vars => InflightInv'
<1> SUFFICES ASSUME TypeOK, JobInv, InflightInv, [Next]_vars, ~cancelled'
             PROVE  IsFiniteSet(StartedJobs') /\ inflight' = Cardinality(StartedJobs')
  BY DEF InflightInv, StartedJobs
<1>1. ~cancelled
  BY CancelledStays
<1>2. IsFiniteSet(StartedJobs) /\ inflight = Cardinality(StartedJobs) /\ OneJobEach
  BY <1>1 DEF InflightInv, JobInv
<1>3. JobStep
  BY <1>1, NextTypes, NextJobs DEF Abandons
<1>4. CASE Quiet
  BY <1>2, <1>4 DEF Quiet, metricVars, StartedJobs
<1>5. ASSUME NEW d \in Deliveries, Enters(d)
      PROVE  IsFiniteSet(StartedJobs') /\ inflight' = Cardinality(StartedJobs')
  <2>1. ~NewJob(d).started
    BY JobTypes
  <2>2. StartedJobs' = StartedJobs
    BY <1>5, <2>1 DEF Enters, StartedJobs
  <2> QED BY <1>2, <1>5, <2>2 DEF Enters, metricVars
<1>6. ASSUME NEW j \in Job, Starts(j)
      PROVE  IsFiniteSet(StartedJobs') /\ inflight' = Cardinality(StartedJobs')
  <2> DEFINE k == [j EXCEPT !.started = TRUE]
  <2>1. k.id = j.id /\ k.started
    BY JobTypes
  <2>2. Replaces(j, k)
    BY <1>6 DEF Starts
  <2> HIDE DEF k
  <2>3. CASE j.started /\ inflight' = inflight
    BY <1>2, <2>1, <2>2, <2>3, StartedSwapped
  <2>4. CASE ~j.started /\ inflight' = inflight + 1
    <3>1. k \notin StartedJobs
      BY <1>2, <2>1, <2>2, <2>4, OneJob DEF Replaces, StartedJobs
    <3>2. StartedJobs' = StartedJobs \cup {k}
      BY <2>1, <2>2, <2>4 DEF Replaces, StartedJobs
    <3>3. /\ IsFiniteSet(StartedJobs \cup {k})
          /\ Cardinality(StartedJobs \cup {k}) = Cardinality(StartedJobs) + 1
      BY <1>2, <3>1, OneMore
    <3> QED BY <1>2, <2>4, <3>2, <3>3
  <2> QED BY <1>6, <2>3, <2>4 DEF Starts
<1>7. ASSUME NEW j \in Job, Retries(j)
      PROVE  IsFiniteSet(StartedJobs') /\ inflight' = Cardinality(StartedJobs')
  <2>1. RetryJob(j).id = j.id /\ RetryJob(j).started
    BY <1>7, JobTypes DEF Retries
  <2> QED BY <1>2, <1>7, <2>1, StartedSwapped DEF Retries, metricVars
<1>8. ASSUME NEW j \in Job, NEW b \in BlobTypes, Verifies(j, b)
      PROVE  IsFiniteSet(StartedJobs') /\ inflight' = Cardinality(StartedJobs')
  <2>1. WithDone(j, b).id = j.id /\ WithDone(j, b).started
    BY <1>8 DEF Verifies, WithDone, Job
  <2> QED BY <1>2, <1>8, <2>1, StartedSwapped DEF Verifies
<1>9. ASSUME NEW j \in Job, Ends(j) \/ StartsOver(j)
      PROVE  IsFiniteSet(StartedJobs') /\ inflight' = Cardinality(StartedJobs')
  <2>1. ~NewJob(j.id).started
    BY JobTypes
  <2>2. StartedJobs' = StartedJobs \ {j} /\ j \in StartedJobs
    BY <1>9, <2>1 DEF Ends, StartsOver, Replaces, StartedJobs
  <2>3. inflight' = inflight - 1
    BY <1>9 DEF Ends, StartsOver
  <2>4. IsFiniteSet(StartedJobs \ {j}) /\ Cardinality(StartedJobs \ {j}) = Cardinality(StartedJobs) - 1
    BY <1>2, <2>2, OneLess
  <2> QED BY <1>2, <2>2, <2>3, <2>4
<1> QED BY <1>3, <1>4, <1>5, <1>6, <1>7, <1>8, <1>9 DEF JobStep

\* Until the exporter is cancelled the gauge is the number of blocks between their
\* first attempt and the end of their round, those that wait for a retry included
\* (verifier.go:333, 343, 360; README.md:246).
THEOREM InflightAlwaysExact == Spec => []InflightIsExact
<1>1. Init => InflightInv
  <2> SUFFICES ASSUME Init PROVE InflightInv
    OBVIOUS
  <2>1. LiveJobs = {}
    BY DEF Init, LiveJobs, Held, Idle
  <2>2. StartedJobs = {}
    BY <2>1 DEF StartedJobs
  <2> QED BY <2>2, FS_EmptySet DEF InflightInv, Init
<1>2. InflightInv => InflightIsExact
  BY DEF InflightInv, InflightIsExact, StartedJobs
<1> QED
  BY <1>1, <1>2, InitTypes, NextTypes, NewJobsIdle, JobsKept, InflightKept, PTL DEF Spec

-----------------------------------------------------------------------------
(* The attempts counted in a round. *)

OnceEach(bs) == [b \in BlobTypes |-> IF b \in bs THEN 1 ELSE 0]

\* A job has verified what its block needs at most, and nothing before its first attempt.
JobShape == \A j \in LiveJobs : /\ j.done \subseteq Required(HeightOf(j))
                                /\ ~j.started => j.done = {}

\* What is counted for delivery d is what its started job has verified; without one,
\* the last round is complete or there was none.
Counted(d) == \/ \E j \in StartedJobs : j.id = d /\ outcomes[d] = OnceEach(j.done)
              \/ /\ \A j \in StartedJobs : j.id # d
                 /\ outcomes[d] \in {OnceEach({}), OnceEach(Required(d[1]))}

RoundInv == ~cancelled => JobShape /\ \A d \in Deliveries : Counted(d)

\* Counting one more part, and all that is left.
LEMMA OnceEachMore ==
    /\ \A bs \in SUBSET BlobTypes : \A b \in BlobTypes \ bs :
           [OnceEach(bs) EXCEPT ![b] = Bump(@)] = OnceEach(bs \cup {b})
    /\ \A bs \in SUBSET BlobTypes : \A all \in SUBSET BlobTypes : bs \subseteq all =>
           [b \in BlobTypes |-> IF b \in all \ bs THEN Bump(OnceEach(bs)[b]) ELSE OnceEach(bs)[b]]
               = OnceEach(all)
<1>1. ASSUME NEW bs \in SUBSET BlobTypes, NEW b \in BlobTypes \ bs
      PROVE  [OnceEach(bs) EXCEPT ![b] = Bump(@)] = OnceEach(bs \cup {b})
  <2>1. Bump(0) = 1 /\ OnceEach(bs)[b] = 0
    BY <1>1 DEF Bump, OnceEach
  <2>2. [OnceEach(bs) EXCEPT ![b] = 1] = OnceEach(bs \cup {b})
    BY <1>1 DEF OnceEach
  <2> QED BY <2>1, <2>2
<1>2. ASSUME NEW bs \in SUBSET BlobTypes, NEW all \in SUBSET BlobTypes, bs \subseteq all
      PROVE  [b \in BlobTypes |-> IF b \in all \ bs THEN Bump(OnceEach(bs)[b]) ELSE OnceEach(bs)[b]]
                 = OnceEach(all)
  <2>1. Bump(0) = 1
    BY DEF Bump
  <2>2. \A b \in BlobTypes : (IF b \in all \ bs THEN Bump(OnceEach(bs)[b]) ELSE OnceEach(bs)[b])
                                = IF b \in all THEN 1 ELSE 0
    BY <1>2, <2>1 DEF OnceEach
  <2> QED BY <2>2 DEF OnceEach
<1> QED BY <1>1, <1>2

\* Every step keeps the count of every delivery at most one per round.
LEMMA RoundKept == TypeOK /\ JobInv /\ RoundInv /\ [Next]_vars => RoundInv'
<1> SUFFICES ASSUME TypeOK, JobInv, RoundInv, [Next]_vars, ~cancelled'
             PROVE  JobShape' /\ \A d \in Deliveries : Counted(d)'
  BY DEF RoundInv
<1>1. /\ ~cancelled /\ JobShape /\ OneJobEach /\ LiveJobs \subseteq Job
      /\ \A d \in Deliveries : Counted(d)
  BY CancelledStays, LiveJobsType DEF RoundInv, JobInv
<1>2. JobStep
  BY <1>1, NextTypes, NextJobs DEF Abandons
<1>3. outcomes \in [Deliveries -> [BlobTypes -> 0 .. 2]]
  BY DEF TypeOK
\* Every replacement keeps the shape of the new job, and its delivery is counted.
<1>4. ASSUME NEW j \in Job, NEW k, Replaces(j, k), k.id = j.id,
             k.done \subseteq Required(HeightOf(k)), ~k.started => k.done = {},
             \A d \in Deliveries \ {j.id} : outcomes'[d] = outcomes[d],
             \/ k.started /\ outcomes'[j.id] = OnceEach(k.done)
             \/ ~k.started /\ outcomes'[j.id] \in {OnceEach({}), OnceEach(Required(HeightOf(j)))}
      PROVE  JobShape' /\ \A d \in Deliveries : Counted(d)'
  <2>1. JobShape'
    BY <1>1, <1>4 DEF JobShape, Replaces
  <2>2. \A i \in LiveJobs' : i.id = j.id => i = k
    BY <1>1, <1>4, OneJob DEF Replaces
  <2>3. Counted(j.id)'
    BY <1>4, <2>2 DEF Counted, StartedJobs, Replaces, HeightOf
  <2>4. \A i : i.id # j.id => (i \in StartedJobs' <=> i \in StartedJobs)
    BY <1>4 DEF StartedJobs, Replaces
  <2>5. \A d \in Deliveries : d # j.id => Counted(d)'
    BY <1>1, <1>4, <2>4 DEF Counted
  <2> QED BY <2>1, <2>3, <2>5
<1>5. ASSUME NEW j \in LiveJobs, j.started PROVE outcomes[j.id] = OnceEach(j.done)
  <2>1. j.id \in Deliveries
    BY <1>1, JobTypes
  <2> QED BY <1>1, <1>5, <2>1, OneJob DEF Counted, StartedJobs
<1>6. CASE Quiet
  <2>1. StartedJobs' = StartedJobs /\ outcomes' = outcomes /\ LiveJobs' = LiveJobs
    BY <1>6 DEF Quiet, StartedJobs, metricVars
  <2> QED BY <1>1, <2>1 DEF JobShape, Counted
<1>7. ASSUME NEW e \in Deliveries, Enters(e) PROVE JobShape' /\ \A d \in Deliveries : Counted(d)'
  <2>1. ~NewJob(e).started /\ NewJob(e).done = {}
    BY JobTypes
  <2>2. StartedJobs' = StartedJobs /\ outcomes' = outcomes /\ LiveJobs' = LiveJobs \cup {NewJob(e)}
    BY <1>7, <2>1 DEF Enters, StartedJobs, metricVars
  <2> QED BY <1>1, <2>1, <2>2 DEF JobShape, Counted
<1>8. ASSUME NEW j \in Job, Starts(j) PROVE JobShape' /\ \A d \in Deliveries : Counted(d)'
  <2> DEFINE k == [j EXCEPT !.started = TRUE]
  <2>1. k.id = j.id /\ k.started /\ k.done = j.done /\ j.id \in Deliveries
    BY JobTypes
  <2>2. Replaces(j, k) /\ j \in LiveJobs
    BY <1>8 DEF Starts, Replaces
  <2> HIDE DEF k
  <2>3. k.done \subseteq Required(HeightOf(k))
    BY <1>1, <2>1, <2>2 DEF JobShape, HeightOf
  <2>4. CASE j.started /\ outcomes' = outcomes
    <3>1. outcomes'[j.id] = OnceEach(k.done)
      BY <1>5, <2>1, <2>2, <2>4
    <3> QED BY <1>4, <2>1, <2>2, <2>3, <2>4, <3>1
  <2>5. CASE ~j.started /\ outcomes' = [outcomes EXCEPT ![j.id] = [b \in BlobTypes |-> 0]]
    <3>1. k.done = {}
      BY <1>1, <2>1, <2>2, <2>5 DEF JobShape
    <3>2. outcomes'[j.id] = OnceEach(k.done) /\ \A d \in Deliveries \ {j.id} : outcomes'[d] = outcomes[d]
      BY <1>3, <2>1, <2>5, <3>1 DEF OnceEach
    <3> QED BY <1>4, <2>1, <2>2, <2>3, <3>2
  <2> QED BY <1>8, <2>4, <2>5 DEF Starts
<1>9. ASSUME NEW j \in Job, Retries(j) PROVE JobShape' /\ \A d \in Deliveries : Counted(d)'
  <2> DEFINE k == RetryJob(j)
  <2>1. k.id = j.id /\ k.started /\ k.done = j.done
    BY <1>9, JobTypes DEF Retries
  <2>2. Replaces(j, k) /\ j \in LiveJobs /\ j.started /\ outcomes' = outcomes
    BY <1>9 DEF Retries, Replaces, metricVars
  <2> HIDE DEF k
  <2>3. k.done \subseteq Required(HeightOf(k))
    BY <1>1, <2>1, <2>2 DEF JobShape, HeightOf
  <2>4. outcomes'[j.id] = OnceEach(k.done)
    BY <1>5, <2>1, <2>2
  <2> QED BY <1>4, <2>1, <2>2, <2>3, <2>4
<1>10. ASSUME NEW j \in Job, NEW b \in BlobTypes, Verifies(j, b)
       PROVE  JobShape' /\ \A d \in Deliveries : Counted(d)'
  <2> DEFINE k == WithDone(j, b)
  <2>1. k.id = j.id /\ k.started /\ k.done = j.done \cup {b} /\ j.id \in Deliveries /\ j.done \subseteq BlobTypes
    BY <1>10, JobTypes DEF Verifies, WithDone, Job
  <2>2. Replaces(j, k) /\ j \in LiveJobs /\ j.started /\ PartPending(j, b)
    BY <1>10 DEF Verifies, Replaces
  <2>3. outcomes' = [outcomes EXCEPT ![j.id][b] = Bump(@)]
    BY <1>10 DEF Verifies, OnVerified
  <2> HIDE DEF k
  <2>4. k.done \subseteq Required(HeightOf(k))
    BY <1>1, <2>1, <2>2 DEF JobShape, HeightOf, PartPending
  <2>5. outcomes'[j.id] = OnceEach(k.done) /\ \A d \in Deliveries \ {j.id} : outcomes'[d] = outcomes[d]
    <3>1. outcomes'[j.id] = [outcomes[j.id] EXCEPT ![b] = Bump(@)]
      BY <1>3, <2>1, <2>3
    <3>2. outcomes[j.id] = OnceEach(j.done) /\ b \notin j.done
      BY <1>5, <2>2 DEF PartPending
    <3>3. [OnceEach(j.done) EXCEPT ![b] = Bump(@)] = OnceEach(j.done \cup {b})
      BY <2>1, <3>2, OnceEachMore
    <3>4. \A d \in Deliveries \ {j.id} : outcomes'[d] = outcomes[d]
      BY <1>3, <2>3
    <3> QED BY <2>1, <3>1, <3>2, <3>3, <3>4
  <2> QED BY <1>4, <2>1, <2>2, <2>4, <2>5
<1>11. ASSUME NEW j \in Job, Ends(j) PROVE JobShape' /\ \A d \in Deliveries : Counted(d)'
  <2>1. /\ LiveJobs' = LiveJobs \ {j} /\ j \in LiveJobs /\ j.started /\ outcomes' = outcomes
        /\ Required(HeightOf(j)) \subseteq j.done
    BY <1>11 DEF Ends
  <2>2. JobShape'
    BY <1>1, <2>1 DEF JobShape
  <2>3. outcomes[j.id] = OnceEach(Required(HeightOf(j)))
    <3>1. j.done = Required(HeightOf(j))
      BY <1>1, <2>1 DEF JobShape
    <3> QED BY <1>5, <2>1, <3>1
  <2>4. Counted(j.id)'
    BY <1>1, <2>1, <2>3, OneJob DEF Counted, StartedJobs, HeightOf
  <2>5. \A d \in Deliveries : d # j.id => Counted(d)'
    BY <1>1, <2>1 DEF Counted, StartedJobs
  <2> QED BY <2>2, <2>4, <2>5
<1>12. ASSUME NEW j \in Job, StartsOver(j) PROVE JobShape' /\ \A d \in Deliveries : Counted(d)'
  <2> DEFINE k == NewJob(j.id)
             all == Required(HeightOf(j))
  <2>1. k.id = j.id /\ ~k.started /\ k.done = {} /\ j.id \in Deliveries /\ j.done \subseteq BlobTypes
    BY JobTypes
  <2>2. Replaces(j, k) /\ j \in LiveJobs /\ j.started
    BY <1>12 DEF StartsOver, Replaces
  <2>3. outcomes' = [outcomes EXCEPT ![j.id] =
                        [b \in BlobTypes |-> IF b \in all \ j.done THEN Bump(@[b]) ELSE @[b]]]
    BY <1>12 DEF StartsOver, OnMissing
  <2>4. all \in SUBSET BlobTypes /\ j.done \subseteq all
    BY <1>1, <2>2 DEF JobShape, Required, BlobTypes
  <2> HIDE DEF k, all
  <2>5. outcomes[j.id] = OnceEach(j.done)
    BY <1>5, <2>2
  <2>6. outcomes'[j.id] = [b \in BlobTypes |-> IF b \in all \ j.done THEN Bump(outcomes[j.id][b]) ELSE outcomes[j.id][b]]
    BY <1>3, <2>1, <2>3
  <2>7. outcomes'[j.id] = OnceEach(all)
    BY <2>1, <2>4, <2>5, <2>6, OnceEachMore
  <2>8. \A d \in Deliveries \ {j.id} : outcomes'[d] = outcomes[d]
    BY <1>3, <2>3
  <2> QED BY <1>4, <2>1, <2>2, <2>7, <2>8 DEF all
<1> QED BY <1>2, <1>6, <1>7, <1>8, <1>9, <1>10, <1>11, <1>12 DEF JobStep

\* Until the exporter is cancelled a blob is counted once per round, when it is
\* verified or when the round is over (README.md:173, verifier.go:353-359).
THEOREM AlwaysCountedOnce == Spec => []CountedOncePerRound
<1>1. Init => RoundInv
  <2> SUFFICES ASSUME Init PROVE RoundInv
    OBVIOUS
  <2>1. LiveJobs = {}
    BY DEF Init, LiveJobs, Held, Idle
  <2> QED BY <2>1 DEF RoundInv, JobShape, Counted, StartedJobs, OnceEach, Init
<1>2. TypeOK /\ JobInv /\ RoundInv => CountedOncePerRound
  <2> SUFFICES ASSUME TypeOK, JobInv, RoundInv, ~cancelled, NEW d \in Deliveries
               PROVE  LET mine == {j \in LiveJobs : j.id = d /\ j.started}
                      IN  outcomes[d] \in IF mine # {} THEN {OnceEach(j.done) : j \in mine}
                                          ELSE {OnceEach({}), OnceEach(Required(d[1]))}
    BY DEF CountedOncePerRound, OnceEach
  <2>1. Counted(d)
    BY DEF RoundInv
  <2> QED BY <2>1 DEF Counted, StartedJobs
<1> QED
  BY <1>1, <1>2, InitTypes, NextTypes, NewJobsIdle, JobsKept, RoundKept, PTL DEF Spec
-----------------------------------------------------------------------------
(* What becomes of a delivery. *)

\* Until the exporter is cancelled, each part of a delivered block is verified, or the
\* delivery's own job will look at it.
DeliveredAreLooked ==
    ~cancelled =>
        \A d \in Deliveries \ undelivered : \A b \in Required(d[1]) :
            \/ d[1] \in verified[b]
            \/ \E j \in LiveJobs : j.id = d /\ PartPending(j, b)

\* A delivery leaves the undelivered with its job in the queue.
LEMMA LeavesWithJob ==
    ASSUME TypeOK, JobInv, [Next]_vars, NEW d \in undelivered, d \notin undelivered'
    PROVE  NewJob(d) \in LiveJobs'
<1>1. ASSUME NEW w \in Workers, Take(w) \/ Work(w) \/ Exit(w) PROVE undelivered' = undelivered
  BY <1>1 DEF Take, Work, Fetch, VerifyHeader, VerifyData, VerifyPart, Finish, Retry, GiveUp, Decides, Exit, jobVars
<1>2. PICK e \in Deliveries : Deliver(e)
  BY <1>1 DEF Next, vars, jobVars, TimerSend, TimerDrop, Submit, Recover, Cancel
<1>3. LiveJobs' = LiveJobs \cup {NewJob(e)}
  BY <1>2, NextTypes, Delivered DEF JobInv
<1>4. d = e
  BY <1>2 DEF Deliver
<1> QED BY <1>3, <1>4

\* A job that looks at a part goes on doing so, whatever becomes of it, until the part is
\* verified, and what is verified stays so.
LEMMA LooksOn ==
    ASSUME TypeOK, JobInv, [Next]_vars, ~cancelled',
           NEW d \in Deliveries, NEW b \in BlobTypes,
           d[1] \in verified[b] \/ \E j \in LiveJobs : j.id = d /\ PartPending(j, b)
    PROVE  d[1] \in verified'[b] \/ \E j \in LiveJobs' : j.id = d /\ PartPending(j, b)
<1> DEFINE Looked == d[1] \in verified'[b] \/ \E j \in LiveJobs' : j.id = d /\ PartPending(j, b)
<1>1. ~cancelled
  BY CancelledStays
<1>2. verified \in [BlobTypes -> SUBSET Heights]
  BY DEF TypeOK
\* A job that takes another's place looks at as much.
<1>3. ASSUME NEW j \in Job, NEW k, k.id = j.id, k.done \subseteq j.done, Replaces(j, k), UNCHANGED verified
      PROVE  Looked
  BY <1>3 DEF Replaces, HeightOf, PartPending
<1>4. CASE Quiet \/ \E e \in Deliveries : Enters(e)
  BY <1>4 DEF Quiet, Enters, metricVars, recordVars
<1>5. ASSUME NEW j \in Job, Starts(j) \/ Retries(j) PROVE Looked
  BY <1>3, <1>5, JobTypes DEF Starts, Retries, metricVars, recordVars
<1>6. ASSUME NEW j \in Job, Ends(j) PROVE Looked
  BY <1>6 DEF Ends, PartPending, recordVars
<1>7. ASSUME NEW j \in Job, StartsOver(j) PROVE Looked
  <2>1. NewJob(j.id).id = j.id /\ NewJob(j.id).done = {}
    BY DEF NewJob
  <2>2. Replaces(j, NewJob(j.id)) /\ UNCHANGED verified
    BY <1>7 DEF StartsOver, OnMissing
  <2> QED BY <1>3, <2>1, <2>2
<1>8. ASSUME NEW j \in Job, NEW c \in BlobTypes, Verifies(j, c) PROVE Looked
  <2> DEFINE k == WithDone(j, c)
  <2>1. k.id = j.id /\ k.done = j.done \cup {c}
    BY DEF WithDone, Job
  <2>2. k \in LiveJobs' /\ \A i \in LiveJobs : i \in LiveJobs' \/ i = j
    BY <1>8 DEF Verifies, Replaces
  <2>3. verified' = [verified EXCEPT ![c] = @ \cup {HeightOf(j)}]
    BY <1>8 DEF Verifies, OnVerified
  <2>4. verified[b] \subseteq verified'[b] /\ HeightOf(j) \in verified'[c]
    BY <1>2, <2>3
  <2> HIDE DEF k
  <2> QED BY <2>1, <2>2, <2>4 DEF PartPending, HeightOf
<1>9. JobStep
  BY <1>1, NextTypes, NextJobs DEF Abandons
<1> QED BY <1>4, <1>5, <1>6, <1>7, <1>8, <1>9 DEF JobStep

\* Every step keeps what was delivered verified or in a job.
LEMMA DeliveredKept == TypeOK /\ JobInv /\ DeliveredAreLooked /\ [Next]_vars => DeliveredAreLooked'
<1> SUFFICES ASSUME TypeOK, JobInv, DeliveredAreLooked, [Next]_vars, ~cancelled',
                    NEW d \in Deliveries, d \notin undelivered', NEW b \in Required(d[1])
             PROVE  d[1] \in verified'[b] \/ \E j \in LiveJobs' : j.id = d /\ PartPending(j, b)
  BY DEF DeliveredAreLooked
<1>1. ~cancelled /\ b \in BlobTypes
  BY CancelledStays DEF Required, BlobTypes
<1>2. CASE d \in undelivered
  <2>1. NewJob(d) \in LiveJobs'
    BY <1>2, LeavesWithJob
  <2>2. NewJob(d).id = d /\ NewJob(d).done = {}
    BY DEF NewJob
  <2> QED BY <2>1, <2>2 DEF PartPending, HeightOf
<1>3. CASE d \notin undelivered
  BY <1>1, <1>3, LooksOn DEF DeliveredAreLooked
<1> QED BY <1>2, <1>3

\* However many workers, retries, rounds and repeated deliveries there are, no part of a
\* delivered block falls through: the safe half of EverythingSettles (verifier.go:308-361).
THEOREM DeliveredAlwaysLooked == Spec => []DeliveredAreLooked
<1>1. Init => DeliveredAreLooked
  BY DEF Init, DeliveredAreLooked
<1> QED
  BY <1>1, InitTypes, NextTypes, NewJobsIdle, JobsKept, DeliveredKept, PTL DEF Spec
=============================================================================
