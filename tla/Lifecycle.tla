------------------------------ MODULE Lifecycle ------------------------------
(***************************************************************************)
(* The life of the process: StartServer (pkg/metrics/server.go) runs the   *)
(* exporters, the HTTP server and its shutdown as the functions of one     *)
(* errgroup, and monitorAndExportMetrics (cmd/monitor.go) turns the error  *)
(* of the group into the exit status.                                      *)
(*                                                                         *)
(* An error is "canceled", "deadline" (they wrap context.Canceled and      *)
(* context.DeadlineExceeded) or "failure".                                 *)
(***************************************************************************)
EXTENDS FiniteSets

CONSTANTS Pollers,     \* the drift, JSON-RPC and balance exporters that are configured
          HasDuration  \* TRUE if --duration is given

ASSUME DurationAssumption == HasDuration \in BOOLEAN

Exporters == Pollers \cup {"verifier"}
Functions == Exporters \cup {"listen", "shutdown"}
Errors == {"canceled", "deadline", "failure"}

VARIABLES
    parent,    \* why the context given to StartServer is done, "none" if it is not
    err,       \* the first error of the group
    running,   \* functions of the group that have not returned
    draining,  \* server.Shutdown has been called
    request,   \* an HTTP request is being served
    exit,      \* the exit status of the process
    cause      \* history: how the end of the process began

vars == <<parent, err, running, draining, request, exit, cause>>

TypeOK ==
    /\ parent \in {"none", "canceled", "deadline"}
    /\ err \in Errors \cup {"none"}
    /\ running \subseteq Functions
    /\ {draining, request} \subseteq BOOLEAN
    /\ exit \in {"none", "clean", "error"}
    /\ cause \in {"none", "signal", "duration", "failure"}
    /\ draining => parent # "none" \/ err # "none"
    /\ exit # "none" => running = {}

Init ==
    /\ parent = "none" /\ err = "none"
    /\ running = Functions
    /\ draining = FALSE /\ request \in BOOLEAN
    /\ exit = "none" /\ cause = "none"

-----------------------------------------------------------------------------
(* errgroup.WithContext *)

\* The context of the group.  Its error is that of the parent, if that was done first;
\* if not, err is taken already and the error of the context goes nowhere.
Done == parent # "none" \/ err # "none"
CtxErr == IF parent # "none" THEN parent ELSE "canceled"

\* mutant: the last error of the group is kept
KeepLast(e) == IF e = "none" THEN err ELSE e

\* Only the first error is kept.
KeepFirst(e) == IF err = "none" THEN e ELSE err

\* Function f returns e.
FunctionReturns(f, e) ==
    /\ f \in running
    /\ running' = running \ {f}
    /\ err' = KeepFirst(e)
    /\ cause' = IF cause = "none" /\ e = "failure" THEN "failure" ELSE cause

-----------------------------------------------------------------------------
(* The functions of the group. *)

\* What an exporter returns on ctx.Done(): the verifier nil, the others ctx.Err().
StopError(x) == IF x = "verifier" THEN "none" ELSE CtxErr

ExporterStops(x) ==
    /\ Done
    /\ FunctionReturns(x, StopError(x))
    /\ UNCHANGED <<parent, draining, request, exit>>

\* The first subscription failed; a cancelled context makes it fail as well.
VerifierFails ==
    /\ \E e \in {"failure"} \cup (IF Done THEN {CtxErr} ELSE {}) : FunctionReturns("verifier", e)
    /\ UNCHANGED <<parent, draining, request, exit>>

\* ListenAndServe fails, or returns ErrServerClosed.
ListenReturns ==
    /\ \/ ~draining /\ FunctionReturns("listen", "failure")
       \/ draining /\ FunctionReturns("listen", "none")
    /\ UNCHANGED <<parent, draining, request, exit>>

BeginShutdown ==
    /\ Done /\ ~draining
    /\ draining' = TRUE
    /\ UNCHANGED <<parent, err, running, request, exit, cause>>

\* server.Shutdown returns once no request is active ...
ShutdownDone ==
    /\ draining /\ ~request
    /\ FunctionReturns("shutdown", "none")
    /\ UNCHANGED <<parent, draining, request, exit>>

\* mutant: Shutdown is given no deadline
ShutdownWaits ==
    /\ draining /\ ~request
    /\ FunctionReturns("shutdown", "none")
    /\ UNCHANGED <<parent, draining, request, exit>>

\* ... or after 5 seconds, with the error of its own context.
ShutdownTimesOut ==
    /\ draining /\ request
    /\ FunctionReturns("shutdown", "deadline")
    /\ UNCHANGED <<parent, draining, request, exit>>

\* Requests come as long as there is a listener, and end or not.
Request ==
    /\ exit = "none"
    /\ IF request THEN request' = FALSE ELSE ~draining /\ "listen" \in running /\ request' = TRUE
    /\ UNCHANGED <<parent, err, running, draining, exit, cause>>

-----------------------------------------------------------------------------
(* cmd/monitor.go *)

\* SIGINT or SIGTERM, or the end of --duration, whichever comes first.
ParentDone ==
    /\ parent = "none" /\ exit = "none"
    /\ \/ parent' = "canceled" /\ cause' = IF cause = "none" THEN "signal" ELSE cause
       \/ HasDuration /\ parent' = "deadline" /\ cause' = IF cause = "none" THEN "duration" ELSE cause
    /\ UNCHANGED <<err, running, draining, request, exit>>

CleanExit(e) == e \in {"none", "canceled", "deadline"}

\* g.Wait() has returned.
Exit ==
    /\ running = {} /\ exit = "none"
    /\ exit' = IF CleanExit(err) THEN "clean" ELSE "error"
    /\ UNCHANGED <<parent, err, running, draining, request, cause>>

Work == (\E x \in Exporters : ExporterStops(x)) \/ BeginShutdown \/ ShutdownDone \/ ShutdownTimesOut

Next == \/ Work \/ VerifierFails \/ ListenReturns \/ Request \/ ParentDone \/ Exit
        \/ exit # "none" /\ UNCHANGED vars

Spec == Init /\ [][Next]_vars

\* Every goroutine that can run does; whether a request ever ends is open.
FairSpec == Spec /\ \A x \in Exporters : WF_vars(ExporterStops(x))
                 /\ WF_vars(BeginShutdown) /\ WF_vars(ShutdownDone \/ ShutdownTimesOut)
                 /\ WF_vars(draining /\ ListenReturns) /\ WF_vars(Exit)

-----------------------------------------------------------------------------
(* Properties. *)

\* "derived ctx is cancelled when any exporter or the server fails, stopping
\* everything else" (server.go:35): a failure of any function, a signal and the end
\* of the duration all end the process, also while an HTTP request hangs.
EverythingStops == cause # "none" ~> exit # "none"

\* An end that began with a failure is reported as one, whatever the functions that
\* stop after it return.
FailureIsReported == exit # "none" /\ cause = "failure" => exit = "error"
=============================================================================
