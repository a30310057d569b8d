----------------------------- MODULE Lifecycle -----------------------------
(***************************************************************************)
(* One process of AlertLoop from its start to its exit: RunServer,         *)
(* RunWorker and RunAll (internal/app), the goroutines they wait for, and  *)
(* main, which closes the database when they return (cmd/alertloop).       *)
(*                                                                         *)
(* Sends in flight and the reaper belong to Worker.Run; that a shutdown    *)
(* drains them is the subject of module Scheduler.                         *)
(***************************************************************************)
EXTENDS Naturals, Sequences

CONSTANTS
    Modes,          \* subset of server, worker, all
    MaxRequests,    \* bound: requests in flight
    MaxSends        \* sends in flight (worker.concurrency)

ASSUME LifecycleAssumption ==
    Modes \subseteq {"server", "worker", "all"} /\ MaxRequests \in Nat /\ MaxSends \in Nat

VARIABLES
    mode,
    stopped,    \* a signal came: ctx is cancelled
    cancelled,  \* runCtx of RunAll is cancelled
    listener,   \* the goroutine in ListenAndServe
    server,     \* RunServer; failed when it returned an error
    requests,   \* requests in flight
    overran,    \* Shutdown gave up on requests in flight
    worker,     \* Worker.Run, then RunWorker
    sends,      \* sends in flight
    reaper,     \* runReaper
    retention,  \* runRetention
    errCh,      \* what the halves returned to RunAll, in order
    main,       \* running; closed: a.Close() is done; exited
    exitError   \* main returned an error

runVars == <<mode, stopped, cancelled, listener, server, requests, overran, worker, sends,
          reaper, retention, errCh, main, exitError>>

serverVars == <<listener, server, requests, overran>>

workerVars == <<worker, sends, reaper, retention>>

mainVars == <<mode, stopped, main, exitError>>

Serves == mode \in {"server", "all"}

Works == mode \in {"worker", "all"}

\* The context of both halves is done.
Done == stopped \/ cancelled

RunInit ==
    /\ mode \in Modes /\ stopped = FALSE /\ cancelled = FALSE
    /\ listener = IF Serves THEN "starting" ELSE "off"
    /\ server = IF Serves THEN "running" ELSE "off"
    /\ requests = 0 /\ overran = FALSE
    /\ worker = IF Works THEN "running" ELSE "off"
    /\ sends = 0
    /\ reaper = IF Works THEN "idle" ELSE "off"
    /\ retention = IF Works THEN "sweeping" ELSE "off"
    /\ errCh = <<>> /\ main = "running" /\ exitError = FALSE

Signal ==
    /\ ~stopped /\ main = "running" /\ stopped' = TRUE
    /\ UNCHANGED <<mode, cancelled, serverVars, workerVars, errCh, main, exitError>>

\* Fault: a half that ends leaves the other running.
HalfReturnsAlone(err) ==
    /\ errCh' = IF mode = "all" THEN Append(errCh, err) ELSE errCh
    /\ UNCHANGED cancelled

\* A half of RunAll returns: its error, then cancel, then wg.Done.
HalfReturns(err) ==
    /\ errCh' = IF mode = "all" THEN Append(errCh, err) ELSE errCh
    /\ cancelled' = (cancelled \/ mode = "all")
-----------------------------------------------------------------------------
(******************************** RunServer ********************************)

\* ListenAndServe binds the address, or fails to,
Listen ==
    /\ listener = "starting" /\ main = "running"
    /\ listener' \in {"open", "failed"}
    /\ UNCHANGED <<mainVars, cancelled, server, requests, overran, workerVars, errCh>>

\* or fails later.
AcceptFails ==
    /\ listener = "open" /\ main = "running"
    /\ listener' = "failed"
    /\ UNCHANGED <<mainVars, cancelled, server, requests, overran, workerVars, errCh>>

RequestArrives ==
    /\ listener = "open" /\ requests < MaxRequests
    /\ requests' = requests + 1
    /\ UNCHANGED <<mainVars, cancelled, listener, server, overran, workerVars, errCh>>

RequestEnds ==
    /\ requests > 0 /\ main # "exited"
    /\ requests' = requests - 1
    /\ UNCHANGED <<mainVars, cancelled, listener, server, overran, workerVars, errCh>>

\* httpSrv.Shutdown closes the listener and waits for the requests,
ServerStops ==
    /\ server = "running" /\ Done
    /\ server' = "shutdown"
    /\ listener' = IF listener = "failed" THEN "failed" ELSE "closed"
    /\ UNCHANGED <<mainVars, cancelled, requests, overran, workerVars, errCh>>

ShutdownEnds ==
    /\ server = "shutdown" /\ requests = 0
    /\ server' = "returned" /\ HalfReturns(FALSE)
    /\ UNCHANGED <<mainVars, listener, requests, overran, workerVars>>

\* ten seconds at most.
ShutdownOverruns ==
    /\ server = "shutdown" /\ requests > 0
    /\ server' = "failed" /\ overran' = TRUE /\ HalfReturns(TRUE)
    /\ UNCHANGED <<mainVars, listener, requests, workerVars>>

ServerFails ==
    /\ server = "running" /\ listener = "failed"
    /\ server' = "failed" /\ HalfReturns(TRUE)
    /\ UNCHANGED <<mainVars, listener, requests, overran, workerVars>>
-----------------------------------------------------------------------------
(******************************** RunWorker ********************************)

StartSend ==
    /\ worker = "running" /\ sends < MaxSends
    /\ sends' = sends + 1
    /\ UNCHANGED <<mainVars, cancelled, serverVars, worker, reaper, retention, errCh>>

\* The result is saved.
SendEnds ==
    /\ sends > 0
    /\ sends' = sends - 1
    /\ UNCHANGED <<mainVars, cancelled, serverVars, worker, reaper, retention, errCh>>

\* Run: shutdown, then the reaper.
WorkerStops ==
    /\ worker = "running" /\ Done /\ worker' = "shutdown"
    /\ UNCHANGED <<mainVars, cancelled, serverVars, sends, reaper, retention, errCh>>

RunReturns ==
    /\ worker = "shutdown" /\ sends = 0 /\ reaper = "done"
    /\ worker' = "waiting"
    /\ UNCHANGED <<mainVars, cancelled, serverVars, sends, reaper, retention, errCh>>

\* RunWorker waits for retention too.
WorkerReturns ==
    /\ worker = "waiting" /\ retention = "done"
    /\ worker' = "returned" /\ HalfReturns(FALSE)
    /\ UNCHANGED <<mainVars, serverVars, sends, reaper, retention>>

\* A tick, a statement, and the end when the context is done.
Reap ==
    /\ \/ reaper = "idle" /\ reaper' \in {"reaping"} \cup {x \in {"done"} : Done}
       \/ reaper = "reaping" /\ reaper' = "idle"
    /\ UNCHANGED <<mainVars, cancelled, serverVars, worker, sends, retention, errCh>>

\* cleanupOnce at once, then every six hours.
Retention ==
    /\ \/ retention = "idle" /\ retention' \in {"sweeping"} \cup {x \in {"done"} : Done}
       \/ retention = "sweeping" /\ retention' = "idle"
    /\ UNCHANGED <<mainVars, cancelled, serverVars, worker, sends, reaper, errCh>>
-----------------------------------------------------------------------------
(****************************** RunAll, main *******************************)

ServerReturned == server \in {"off", "returned", "failed"}

\* Fault: RunAll returns with the first half.
FirstReturned ==
    IF mode = "all" THEN errCh # <<>> ELSE ServerReturned /\ worker \in {"off", "returned"}

\* RunAll waits for both halves.
BothReturned == ServerReturned /\ worker \in {"off", "returned"}

\* The first real failure, if there was one.
AnyError == \E i \in DOMAIN errCh : errCh[i]

\* defer a.Close().
MainReturns ==
    /\ main = "running" /\ BothReturned
    /\ main' = "closed"
    /\ exitError' = IF mode = "all" THEN AnyError ELSE server = "failed"
    /\ UNCHANGED <<mode, stopped, cancelled, serverVars, workerVars, errCh>>

\* The process ends, and with it whatever still runs.
Exit ==
    /\ main = "closed"
    /\ main' = "exited"
    /\ UNCHANGED <<mode, stopped, cancelled, serverVars, workerVars, errCh, exitError>>

RunNext ==
    \/ Signal \/ Listen \/ AcceptFails \/ RequestArrives \/ RequestEnds
    \/ ServerStops \/ ShutdownEnds \/ ShutdownOverruns \/ ServerFails
    \/ StartSend \/ SendEnds \/ WorkerStops \/ RunReturns \/ WorkerReturns
    \/ Reap \/ Retention \/ MainReturns \/ Exit

\* Every goroutine runs; select is fair among ready cases; sends, statements
\* and the shutdown have deadlines.  Nobody sends a signal or a request, and
\* a request may take for ever.
RunFairness ==
    /\ WF_runVars(Listen)
    /\ WF_runVars(ServerStops) /\ WF_runVars(ShutdownEnds \/ ShutdownOverruns) /\ WF_runVars(ServerFails)
    /\ WF_runVars(SendEnds) /\ WF_runVars(WorkerStops) /\ WF_runVars(RunReturns) /\ WF_runVars(WorkerReturns)
    /\ WF_runVars(Reap) /\ SF_runVars(Reap /\ reaper' = "done")
    /\ WF_runVars(Retention) /\ SF_runVars(Retention /\ retention' = "done")
    /\ WF_runVars(MainReturns) /\ WF_runVars(Exit)

RunSpec == RunInit /\ [][RunNext]_runVars

RunFairSpec == RunSpec /\ RunFairness
-----------------------------------------------------------------------------
(******************************* properties ********************************)

\* When main gets the answer of the runner nothing uses the database any more,
\* which it then closes: sends, the reaper and retention have ended, and so has
\* every request, except where Shutdown gave up on it or the listener failed
\* under it; and the answer is an error exactly when RunServer returned one,
\* whichever half ended last (comments on RunAll, RunWorker; errCh).
ClosedAfterUse ==
    main # "running" =>
        /\ sends = 0 /\ reaper \in {"off", "done"} /\ retention \in {"off", "done"}
        /\ requests > 0 => overran \/ listener = "failed"
        /\ exitError <=> server = "failed"

\* A signal, or the failure of the server, ends the process: nothing waits
\* for something that waits for it, and no half runs on alone (RunAll).
EndsTogether == (stopped \/ server = "failed") ~> main = "exited"
=============================================================================
