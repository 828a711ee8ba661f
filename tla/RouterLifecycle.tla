--------------------------- MODULE RouterLifecycle ---------------------------
(***************************************************************************)
(* The life of the router process: the console's main thread               *)
(* (src/frontends/console/main.cpp), the Router's service thread that runs *)
(* the io_service (src/lib/i2p/Router.cpp, or src/Router.cpp for the older *)
(* generation), and the signal handlers that ask main to shut down.        *)
(*                                                                         *)
(* The main thread waits on a condition variable with a predicate:         *)
(* cv.wait(lock, pred) is "check quit, then block", two steps, and the     *)
(* signal handler sets quit and notifies without holding the mutex.  The   *)
(* handlers run by io_service::run are not modelled one by one: the        *)
(* service thread is either inside run(), or has left it by an exception,  *)
(* or has returned from it.                                                *)
(*                                                                         *)
(* main.cpp is written against a Router that neither generation in the    *)
(* tree provides: it calls Router(db, cb), addTransport, gracefulShutdown  *)
(* and isActive, which no Router defines.  The model joins main's control  *)
(* flow to the start, stop and destructor that both generations do define, *)
(* the lib/i2p ones by default; the steps main takes through the missing   *)
(* members (drain) follow main.cpp's calls and assume they return.         *)
(***************************************************************************)
EXTENDS Naturals

CONSTANTS
    CatchInServiceLoop, \* TRUE: lib/i2p/Router.cpp 55-65; FALSE: src/Router.cpp 19
    StartMayFail,       \* whether Router::start / Transport::start may throw
    Signals,            \* the signals the process may receive
    MaxDeliveries       \* how often each signal is delivered, at most

VARIABLES
    pc,         \* where the main thread is
    svc,        \* the service thread: "none", "run", "caught", "done", "aborted"
    quit,       \* main.cpp's static volatile bool quit
    graceful,   \* main.cpp's static volatile bool graceful
    stopped,    \* io_service::stop() was called
    sent        \* how often each signal has been delivered

vars == <<pc, svc, quit, graceful, stopped, sent>>

MainPcs == {"installing", "parsing", "commands", "preparing", "starting",
            "check", "blocking", "blocked",
            "draining", "stopping", "returning", "unwinding", "exited"}

SvcPcs == {"none", "run", "caught", "done", "aborted"}

\* The process is gone: main returned, or std::terminate was called.
terminated == pc = "exited" \/ svc = "aborted"

-----------------------------------------------------------------------------
(* Main thread (main.cpp)                                                  *)

\* Lines 60-66: install SIGINT and SIGUSR1 handlers; a SIGINT failure
\* returns EXIT_FAILURE, a SIGUSR1 failure is only logged.
installHandlers ==
    /\ pc = "installing"
    /\ \/ pc' = "parsing"
       \/ pc' = "exited"
    /\ UNCHANGED <<svc, quit, graceful, stopped, sent>>

\* Lines 68-112: the command line is parsed; --help and --version return,
\* and a bad option throws program_options::error (caught at 323-326).
parseCommandLine ==
    /\ pc = "parsing"
    /\ \/ pc' = "commands"
       \/ pc' = "returning"
       \/ pc' = "unwinding"
    /\ UNCHANGED <<svc, quit, graceful, stopped, sent>>

\* Lines 114-263: --init returns before the Router is built; otherwise
\* Router r is constructed (133) and --export, --import, --importdir,
\* --wipe, --get and --set each return (success or failure), while the
\* database, file and RouterInfo errors they meet throw.  With no command
\* main goes on towards start.
runCommand ==
    /\ pc = "commands"
    /\ \/ pc' = "preparing"
       \/ pc' = "returning"
       \/ pc' = "unwinding"
    /\ UNCHANGED <<svc, quit, graceful, stopped, sent>>

\* Lines 265-296: the optional control server, the two private keys
\* (PKCS8::load_key throws on a missing or bad key file) and the transport
\* are set up before start.
prepareStart ==
    /\ pc = "preparing"
    /\ \/ pc' = "starting"
       \/ pc' = "unwinding"
    /\ UNCHANGED <<svc, quit, graceful, stopped, sent>>

\* Line 299, r.start(): Router::start (lib/i2p/Router.cpp 51-96) spawns the
\* service thread (55) and then binds the UDP transport (92), which throws
\* when the address is unusable; main.cpp 300 binds its own transport the
\* same way, after start.
startRouter ==
    /\ pc = "starting"
    /\ svc' = "run"
    /\ \/ pc' = "check"
       \/ StartMayFail /\ pc' = "unwinding"
    /\ UNCHANGED <<quit, graceful, stopped, sent>>

\* Line 304, first half of cv.wait(lock, pred): test the predicate.
checkQuit ==
    /\ pc = "check"
    /\ pc' = IF quit THEN IF graceful THEN "draining" ELSE "stopping"
             ELSE "blocking"
    /\ UNCHANGED <<svc, quit, graceful, stopped, sent>>

\* Line 304, second half: cv.wait(lock) releases the mutex and sleeps.
block ==
    /\ pc = "blocking"
    /\ pc' = "blocked"
    /\ UNCHANGED <<svc, quit, graceful, stopped, sent>>

\* A condition variable may wake without a notify.
spuriousWakeup ==
    /\ pc = "blocked"
    /\ pc' = "check"
    /\ UNCHANGED <<svc, quit, graceful, stopped, sent>>

\* Lines 305-314: r.gracefulShutdown(), then sleep while r.isActive().  No
\* Router in the tree defines either member; the loop is taken to end.
drain ==
    /\ pc = "draining"
    /\ pc' = "stopping"
    /\ UNCHANGED <<svc, quit, graceful, stopped, sent>>

\* Line 317, Router::stop (Router.cpp 98-101): io_service::stop().
stop ==
    /\ pc = "stopping"
    /\ stopped' = TRUE
    /\ pc' = "returning"
    /\ UNCHANGED <<svc, quit, graceful, sent>>

\* Lines 322 and 324-330: leaving main's try block destroys r; ~Router
\* (Router.cpp 41-44) joins the service thread if it was started.
destroyRouter ==
    /\ pc \in {"returning", "unwinding"}
    /\ svc \in {"none", "done"}
    /\ pc' = "exited"
    /\ UNCHANGED <<svc, quit, graceful, stopped, sent>>

-----------------------------------------------------------------------------
(* Service thread                                                          *)

\* src/Router.cpp 19: the older thread function is m_ios.run() alone, with
\* no try block around it.
escapesThread == ~CatchInServiceLoop

\* A handler throws out of io_service::run (e.g. sendDataCallback,
\* OutboundMessageFragments.cpp 48).  The newer loop catches and logs it;
\* the older thread function lets it escape, and std::terminate ends the
\* process.
handlerThrows ==
    /\ svc = "run"
    /\ ~stopped
    /\ svc' = IF escapesThread THEN "aborted" ELSE "caught"
    /\ UNCHANGED <<pc, quit, graceful, stopped, sent>>

\* Router.cpp 56-58: the loop calls run() again, no reset() needed.
reenterRun ==
    /\ svc = "caught"
    /\ svc' = "run"
    /\ UNCHANGED <<pc, quit, graceful, stopped, sent>>

\* Mutant: the loop without its break calls run() again after it returns.
runReturnsNoBreak ==
    /\ svc = "run"
    /\ stopped
    /\ svc' = "run"
    /\ UNCHANGED <<pc, quit, graceful, stopped, sent>>

\* run() returns only once the io_service is stopped (the work object keeps
\* it busy otherwise), and the loop breaks (Router.cpp 58-59).
runReturns ==
    /\ svc = "run"
    /\ stopped
    /\ svc' = "done"
    /\ UNCHANGED <<pc, quit, graceful, stopped, sent>>

-----------------------------------------------------------------------------
(* Signal handlers (main.cpp 41-52)                                        *)

\* sighandler / sig_graceful_shutdown: set the flags, then notify_all,
\* which wakes main only if it is already asleep on the condition variable.
signal(s) ==
    /\ sent[s] < MaxDeliveries
    /\ pc \notin {"installing", "exited"}
    /\ ~terminated
    /\ sent' = [sent EXCEPT ![s] = @ + 1]
    /\ quit' = TRUE
    /\ graceful' = (graceful \/ s = "SIGUSR1")
    /\ pc' = IF pc = "blocked" THEN "check" ELSE pc
    /\ UNCHANGED <<svc, stopped>>

-----------------------------------------------------------------------------

Init ==
    /\ pc = "installing"
    /\ svc = "none"
    /\ quit = FALSE
    /\ graceful = FALSE
    /\ stopped = FALSE
    /\ sent = [s \in Signals |-> 0]

\* The process has ended: nothing changes any more.
Terminated == terminated /\ UNCHANGED vars

MainStep ==
    ~terminated /\
    \/ installHandlers \/ parseCommandLine \/ runCommand \/ prepareStart
    \/ startRouter \/ checkQuit
    \/ block \/ drain \/ stop \/ destroyRouter

ServiceStep ==
    ~terminated /\ (runReturns \/ reenterRun)

Next ==
    \/ MainStep
    \/ ServiceStep
    \/ ~terminated /\ handlerThrows
    \/ ~terminated /\ spuriousWakeup
    \/ \E s \in Signals : signal(s)
    \/ Terminated

\* Both threads are scheduled by the OS; a handler's exception, a spurious
\* wakeup and a signal may or may not happen.
Spec == Init /\ [][Next]_vars /\ WF_vars(MainStep) /\ WF_vars(ServiceStep)

-----------------------------------------------------------------------------

\* Once main has called Router::stop, the service loop leaves run() even if
\* a handler threw around the stop, and the process exits.
StopLeadsToExit == stopped ~> pc = "exited"

\* A signal handler that sets quit while main sleeps on the condition
\* variable wakes main (main.cpp 41-52 and 304).
QuitWakesMain == (quit /\ pc \in {"blocking", "blocked"}) ~> pc \notin {"blocking", "blocked"}

\* When starting the router throws, main reaches its catch block and exits
\* with an error (main.cpp 299-300 and 328-330).
StartFailureExits == pc = "unwinding" ~> pc = "exited"

=============================================================================
