------------------------------- MODULE Health -------------------------------
(***************************************************************************)
(* The readiness check.  /health is served by the HTTP server of Lifecycle *)
(* and reads four atomics, one by one, while the verifier of Lifecycle     *)
(* writes them: SetSubscriptionUp, RecordHeaderReceived and CheckHealth of *)
(* pkg/metrics/metrics.go, healthHandler of pkg/metrics/server.go.         *)
(*                                                                         *)
(* A moment is represented by its age, up to Horizon, which also stands    *)
(* for the zero value of an atomic (1970).  The loop is here what it does  *)
(* to those atomics, and where it cannot see that the node has dropped the *)
(* subscription: above all while it is blocked on the queue.               *)
(***************************************************************************)
EXTENDS Lifecycle, Integers

CONSTANTS MaxHeaderAge,  \* --health-max-header-age, 0 if there is no limit
          Horizon        \* bound: ages stop growing here

ASSUME AgeAssumption == MaxHeaderAge \in Nat /\ Horizon \in Nat /\ Horizon > MaxHeaderAge

VARIABLES
    linked,      \* the node serves the subscription
    stage,       \* the step of ExportMetrics
    taken,       \* age of the moment it has taken from the clock and not stored yet
    seen,        \* subscriptionSeen
    since,       \* age of subscriptionSince
    up,          \* subscriptionUp
    last,        \* age of lastHeaderReceived
    check,       \* the next load of the /health request, or its answer
    latest,      \* age of the moment the request has loaded
    heard,       \* history: age of the first subscription, later of the last header recorded
    heardBefore, \* history: age of what had been heard when the request began
    witnessed    \* history: what has been so at a moment of the request

atomicVars == <<seen, since, up, last>>
writerVars == <<linked, stage, taken, atomicVars, heard>>
readerVars == <<check, latest>>
healthVars == <<vars, writerVars, readerVars, heardBefore, witnessed>>

Ages == 0 .. Horizon

HealthInit ==
    /\ Init /\ ~request
    /\ linked = FALSE /\ stage = "subscribing" /\ taken = 0
    /\ seen = FALSE /\ since = Horizon /\ up = FALSE /\ last = Horizon
    /\ check = "none" /\ latest = 0
    /\ heard = Horizon /\ heardBefore = 0 /\ witnessed = {}

-----------------------------------------------------------------------------
(* What is so at a moment. *)

\* The subscription is up, dropped and the loop has not recorded it yet, on its way up, or
\* down.
Link == IF stage \in {"select", "header", "sending", "lost"}
        THEN IF linked THEN "up" ELSE "unnoticed"
        ELSE IF stage \in {"swap", "since", "up"} THEN "changing" ELSE "down"

Fresh == MaxHeaderAge = 0 \/ heard <= MaxHeaderAge

\* What a request can witness: a recent sign from a subscription that is up as far as the
\* loop knows, and a subscription that is not up.
Moment == {x \in {"ready", "not up"} :
              IF x = "ready" THEN Link \in {"up", "unnoticed"} /\ Fresh ELSE Link # "up"}

\* The history of a request ends with it; before is heardBefore, or that a tick later.
Witness(before) ==
    /\ witnessed' = IF check' = "none" THEN {} ELSE witnessed \cup Moment'
    /\ heardBefore' = IF check' = "none" THEN 0 ELSE IF check = "none" THEN heard' ELSE before

-----------------------------------------------------------------------------
(* The node. *)

\* It drops the subscription, whatever the loop is doing.
Drop ==
    /\ linked /\ linked' = FALSE
    /\ UNCHANGED <<vars, stage, taken, atomicVars, heard, readerVars>>

-----------------------------------------------------------------------------
(* The verifier. *)

\* It goes from one step to the next.
Moves(from, to) ==
    /\ "verifier" \in running /\ stage = from /\ stage' = to
    /\ UNCHANGED <<vars, readerVars>>

\* The first subscription, and that of a reconnect.
Subscribed(from) ==
    /\ Moves(from, "swap")
    /\ linked' = TRUE /\ UNCHANGED <<taken, atomicVars, heard>>

Subscribe == Subscribed("subscribing")

\* SetSubscriptionUp(true): the swap of subscriptionSeen; if it succeeds the time is
\* taken and stored ...
Swap ==
    /\ seen' = TRUE
    /\ \/ seen /\ Moves("swap", "up") /\ UNCHANGED <<taken, heard>>
       \/ ~seen /\ Moves("swap", "since") /\ taken' = 0 /\ heard' = 0
    /\ UNCHANGED <<linked, since, up, last>>

\* ... and then subscriptionUp.
SetSince ==
    /\ Moves("since", "up")
    /\ since' = taken /\ taken' = 0 /\ UNCHANGED <<linked, seen, up, last, heard>>

SetUp ==
    /\ Moves("up", "select")
    /\ up' = TRUE /\ UNCHANGED <<linked, taken, seen, since, last, heard>>

\* The branch on headers, which may still hold some after a drop: the time is taken,
\* RecordHeaderReceived stores it ...
Arrive ==
    /\ Moves("select", "header")
    /\ taken' = 0 /\ UNCHANGED <<linked, atomicVars, heard>>

RecordHeaderReceived ==
    /\ Moves("header", "sending")
    /\ last' = taken /\ heard' = taken /\ taken' = 0
    /\ UNCHANGED <<linked, seen, since, up>>

\* ... and the job is sent to the queue, which may be full for as long as it likes.
Sent == Moves("sending", "select") /\ UNCHANGED <<linked, taken, atomicVars, heard>>

\* mutant: SetSubscriptionUp(false) is missing
StaysUp == TRUE

Down == FALSE

\* The branch on sub.Err(): SetSubscriptionUp(false), reconnectSubscription.
Lose == ~linked /\ Moves("select", "lost") /\ UNCHANGED <<linked, taken, atomicVars, heard>>

SetDown ==
    /\ Moves("lost", "reconnecting")
    /\ up' = Down /\ UNCHANGED <<linked, taken, seen, since, last, heard>>

Reconnect == Subscribed("reconnecting")

\* ExportMetrics returns: subscriptionUp is left as it is.
Stop ==
    /\ \/ stage = "subscribing" /\ VerifierFails
       \/ stage \in {"select", "sending", "reconnecting"} /\ ExporterStops("verifier")
    /\ stage' = "stopped" /\ linked' = FALSE
    /\ UNCHANGED <<readerVars, taken, atomicVars, heard>>

WriterStep == Subscribe \/ Swap \/ SetSince \/ SetUp \/ RecordHeaderReceived \/ SetDown
Writer == WriterStep \/ Arrive \/ Sent \/ Lose \/ Reconnect \/ Stop

-----------------------------------------------------------------------------
(* CheckHealth *)

Loads(from, to) ==
    /\ exit = "none" /\ check = from /\ check' = to
    /\ UNCHANGED <<vars, writerVars>>

\* The HTTP server takes the request.
BeginCheck ==
    /\ ~request /\ Request
    /\ check = "none" /\ check' = "seen"
    /\ UNCHANGED <<writerVars, latest>>

LoadSeen == Loads("seen", IF seen THEN "up" ELSE "not ready") /\ UNCHANGED latest

LoadUp == Loads("up", IF ~up THEN "down" ELSE IF MaxHeaderAge > 0 THEN "age" ELSE "OK")
          /\ UNCHANGED latest

\* mutant: lastHeaderReceived alone counts
LastOnly == last

\* The later of the two moments; subscriptionSince does not change any more.
Later == IF last < since THEN last ELSE since

LoadLatest == Loads("age", "judge") /\ latest' = Later

Judge ==
    /\ Loads("judge", IF latest > MaxHeaderAge THEN "stale" ELSE "OK")
    /\ latest' = 0

Answers == {"OK", "not ready", "down", "stale"}

\* The response is written.
Respond ==
    /\ check \in Answers /\ check' = "none"
    /\ request /\ Request
    /\ UNCHANGED <<writerVars, latest>>

Check == BeginCheck \/ LoadSeen \/ LoadUp \/ LoadLatest \/ Judge \/ Respond

-----------------------------------------------------------------------------

Older(age) == IF age < Horizon THEN age + 1 ELSE age

Clock ==
    /\ since' = Older(since) /\ last' = Older(last) /\ heard' = Older(heard)
    /\ taken' = IF stage \in {"since", "header"} THEN Older(taken) ELSE taken
    /\ latest' = IF check = "judge" THEN Older(latest) ELSE latest
    /\ UNCHANGED <<vars, linked, stage, seen, up, check>>

\* The rest of the process.
Others ==
    /\ \/ \E x \in Pollers : ExporterStops(x)
       \/ BeginShutdown \/ ShutdownDone \/ ShutdownTimesOut \/ ListenReturns \/ ParentDone \/ Exit
       \/ check = "none" /\ Request
    /\ UNCHANGED <<writerVars, readerVars>>

HealthNext == \/ (Drop \/ Writer \/ Check \/ Others) /\ Witness(heardBefore)
              \/ Clock /\ Witness(Older(heardBefore))
              \/ exit # "none" /\ UNCHANGED healthVars

HealthSpec == HealthInit /\ [][HealthNext]_healthVars

\* As in Lifecycle; the verifier gets to its select again and again, where strong
\* fairness stands for the random choice of select.  The client of a request may hang.
HealthFairSpec ==
    /\ HealthSpec
    /\ \A x \in Pollers : WF_vars(ExporterStops(x))
    /\ WF_healthVars(WriterStep /\ Witness(heardBefore)) /\ SF_vars(Stop)
    /\ WF_vars(BeginShutdown) /\ WF_vars(ShutdownDone \/ ShutdownTimesOut)
    /\ WF_vars(draining /\ ListenReturns) /\ WF_vars(Exit)

-----------------------------------------------------------------------------
(* Properties. *)

\* A 200 is true as far as the loop can know: at one moment of the request the subscription
\* was up, or its drop was not yet recorded by the loop, and its last sign was recent,
\* although the atomics are read one after the other.  A loop that is blocked on the queue
\* (verifier.go:203-210) does not see a drop, so a 200 is possible while the subscription
\* is down, which README.md:272 and server.go:21-22 exclude.  While the process stops
\* nothing is promised.
ReadyIsTrue == check = "OK" => Done \/ "ready" \in witnessed

\* A 503 is true as far as the request can know: at some moment of it the subscription was
\* not up, or what had been heard when it began is too old by now; in particular a first
\* subscription is never reported as too old because its time is not stored yet
\* (metrics.go:775-780).  A header that is recorded after the request has loaded the last
\* one does not count: the 503 then comes although a header has arrived within the limit
\* at every moment, which README.md:273 excludes.
UnreadyIsTrue ==
    /\ check \in {"not ready", "down"} => "not up" \in witnessed
    /\ check = "stale" => heardBefore > MaxHeaderAge
=============================================================================
