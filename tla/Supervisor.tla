----------------------------- MODULE Supervisor ------------------------------
(***************************************************************************)
(* The process: the main thread in SystemService.start(), the service      *)
(* threads it starts, watches and stops, and the signal handler, which     *)
(* runs on the main thread between any two of its steps.                   *)
(*                                                                         *)
(* Source: powergslb/system/service.py, powergslb/server/http/server.py    *)
(* and powergslb/monitor/thread.py.  threading.Event and                   *)
(* socketserver.BaseServer are modelled from their use: an Event guards    *)
(* its flag with a lock that is not reentrant; BaseServer.shutdown() waits *)
(* for the accept loop to leave serve_forever().                           *)
(***************************************************************************)
EXTENDS Integers, Sequences

CONSTANTS
  Loops,      \* AbstractThread services: MonitorManager
  Servers,    \* HTTPServerManager services
  Order,      \* SystemService.service_threads
  Tls,        \* accept() performs a TLS handshake, which has no timeout
  MaxSignals  \* bound: signals received in one life of the process

Services == Loops \cup Servers

ASSUME SupervisorAssumption ==
  /\ Loops \cap Servers = {}
  /\ Order \in Seq(Services) /\ Len(Order) > 0
  /\ \A t \in Services : \E k \in 1..Len(Order) : Order[k] = t
  /\ \A j, k \in 1..Len(Order) : Order[j] = Order[k] => j = k
  /\ Tls \in BOOLEAN
  /\ MaxSignals \in Nat

VARIABLES
  main,      \* where the main thread is in start()
  k,         \* the service it is starting or stopping
  requested, \* local of start()
  flag,      \* SystemService._shutdown, an Event
  lock,      \* lock of that Event: 0 free, -1 taken by main, d by handler d
  depth,     \* signal handlers on the main thread's stack
  signals,   \* signals received
  th,        \* where each service thread is in run()
  request,   \* AbstractThread.__shutdown_request, BaseServer.__shutdown_request
  stopping,  \* HTTPServerManager._stopping
  published, \* HTTPServerManager._server is not None
  isShut,    \* BaseServer.__is_shut_down
  orphan     \* history: a service thread ended that nobody had asked to

eventVars == <<flag, lock, depth, signals>>
mainVars == <<main, k, requested>>
serverVars == <<stopping, published, isShut>>
vars == <<main, k, requested, flag, lock, depth, signals, th, request,
          stopping, published, isShut, orphan>>

Init ==
  /\ main = "starting" /\ k = 1 /\ requested = FALSE
  /\ flag = FALSE /\ lock = 0 /\ depth = 0 /\ signals = 0
  /\ th = [t \in Services |-> "new"]
  /\ request = [t \in Services |-> FALSE]
  /\ stopping = [s \in Servers |-> FALSE]
  /\ published = [s \in Servers |-> FALSE]
  /\ isShut = [s \in Servers |-> FALSE]
  /\ orphan = FALSE

-----------------------------------------------------------------------------
Exited == main \in {"exit0", "exit1", "raised"}

\* The main thread runs its own code: it has not exited and no handler runs.
MainRuns == ~Exited /\ depth = 0

\* Faults: any service thread will do; a server lives once it listens.
AllAlive_Any == \E t \in Services : th[t] # "dead"
AllAlive_Listening ==
  /\ \A t \in Services : th[t] # "dead"
  /\ \A s \in Servers : published[s]

\* _is_threads_alive, called when every thread has been started.
AllAlive == \A t \in Services : th[t] # "dead"

Current == Order[k]

\* The next service to start or stop, or what comes after the last one.
Advance(next) ==
  IF k < Len(Order) THEN k' = k + 1 /\ main' = main
  ELSE k' = 1 /\ main' = next

\* The handler waits for a lock that the code it interrupted holds.
Stuck == depth > 0 /\ lock # 0 /\ lock # depth

-----------------------------------------------------------------------------
(* Signals *)

\* _on_signal is entered, on top of whatever the main thread is doing.
SignalArrives ==
  /\ ~Exited /\ signals < MaxSignals
  /\ signals' = signals + 1
  /\ depth' = depth + 1
  /\ UNCHANGED <<mainVars, flag, lock, th, request, serverVars, orphan>>

\* Event.set() takes the lock,
HandlerAcquires ==
  /\ ~Exited /\ depth > 0 /\ lock = 0
  /\ lock' = depth
  /\ UNCHANGED <<mainVars, flag, depth, signals, th, request, serverVars, orphan>>

\* sets the flag, wakes the waiter, releases the lock; the handler returns.
HandlerSets ==
  /\ ~Exited /\ depth > 0 /\ lock = depth
  /\ flag' = TRUE
  /\ lock' = 0
  /\ depth' = depth - 1
  /\ UNCHANGED <<mainVars, signals, th, request, serverVars, orphan>>

-----------------------------------------------------------------------------
(* SystemService.start *)

\* start() of one service thread; a thread can be started once.
StartService ==
  /\ MainRuns /\ main = "starting" /\ th[Current] = "new"
  /\ th' = [th EXCEPT ![Current] = "started"]
  /\ Advance("test")
  /\ UNCHANGED <<requested, eventVars, request, serverVars, orphan>>

\* Thread.start raised: the exception leaves start() and the process ends.
StartFails ==
  /\ MainRuns /\ main = "starting"
  /\ main' = "raised"
  /\ UNCHANGED <<k, requested, eventVars, th, request, serverVars, orphan>>

\* Fault: the loop runs until a service thread dies.
TestFlag_Ignored ==
  /\ MainRuns /\ main = "test"
  /\ main' = "alive"
  /\ UNCHANGED <<k, requested, eventVars, th, request, serverVars, orphan>>

\* "while not self._shutdown.is_set()"
TestFlag ==
  /\ MainRuns /\ main = "test"
  /\ main' = IF flag THEN "decide" ELSE "alive"
  /\ UNCHANGED <<k, requested, eventVars, th, request, serverVars, orphan>>

\* "and self._is_threads_alive()", then the watchdog notification.
TestAlive ==
  /\ MainRuns /\ main = "alive"
  /\ main' = IF AllAlive THEN "wait" ELSE "decide"
  /\ UNCHANGED <<k, requested, eventVars, th, request, serverVars, orphan>>

\* Event.wait takes the lock of the Event,
WaitAcquires ==
  /\ MainRuns /\ main = "wait" /\ lock = 0
  /\ lock' = -1
  /\ main' = "held"
  /\ UNCHANGED <<k, requested, flag, depth, signals, th, request, serverVars, orphan>>

\* releases it: to return, the flag being set, or to sleep,
WaitReleases ==
  /\ MainRuns /\ main = "held"
  /\ lock' = 0
  /\ main' = IF flag THEN "test" ELSE "asleep"
  /\ UNCHANGED <<k, requested, flag, depth, signals, th, request, serverVars, orphan>>

\* Fault: a woken wait returns without the lock.
Wakes_Unlocked ==
  /\ MainRuns /\ main = "asleep" /\ lock = 0
  /\ main' = "reheld"
  /\ UNCHANGED <<k, requested, eventVars, th, request, serverVars, orphan>>

\* takes it again when the flag is set or the interval has passed,
Wakes ==
  /\ MainRuns /\ main = "asleep" /\ lock = 0
  /\ lock' = -1
  /\ main' = "reheld"
  /\ UNCHANGED <<k, requested, flag, depth, signals, th, request, serverVars, orphan>>

\* and returns.
WaitReturns ==
  /\ MainRuns /\ main = "reheld"
  /\ lock' = 0
  /\ main' = "test"
  /\ UNCHANGED <<k, requested, flag, depth, signals, th, request, serverVars, orphan>>

\* requested = self._shutdown.is_set()
Decide ==
  /\ MainRuns /\ main = "decide"
  /\ requested' = flag
  /\ main' = "stop"
  /\ UNCHANGED <<k, eventVars, th, request, serverVars, orphan>>

\* AbstractThread.shutdown sets the request and goes on to wait.
StopLoop ==
  /\ MainRuns /\ main = "stop" /\ Current \in Loops
  /\ request' = [request EXCEPT ![Current] = TRUE]
  /\ main' = "join"
  /\ UNCHANGED <<k, requested, eventVars, th, serverVars, orphan>>

\* HTTPServerManager.shutdown: the section under its _lock.
StopServer ==
  /\ MainRuns /\ main = "stop" /\ Current \in Servers
  /\ stopping' = [stopping EXCEPT ![Current] = TRUE]
  /\ main' = IF published[Current] THEN "ask" ELSE "join"
  /\ UNCHANGED <<k, requested, eventVars, th, request, published, isShut, orphan>>

\* server.shutdown() sets the request of the accept loop,
AskServer ==
  /\ MainRuns /\ main = "ask"
  /\ request' = [request EXCEPT ![Current] = TRUE]
  /\ main' = "awaitLoop"
  /\ UNCHANGED <<k, requested, eventVars, th, serverVars, orphan>>

\* and waits until the loop has ended.
LoopEnded ==
  /\ MainRuns /\ main = "awaitLoop" /\ isShut[Current]
  /\ main' = "join"
  /\ UNCHANGED <<k, requested, eventVars, th, request, serverVars, orphan>>

\* The wait with the timeout is over, the thread ended or not.
WaitedFor ==
  /\ MainRuns /\ main = "join"
  /\ IF k < Len(Order) THEN k' = k + 1 /\ main' = "stop"
     ELSE k' = 1 /\ main' = IF requested THEN "exit0" ELSE "exit1"
  /\ UNCHANGED <<requested, eventVars, th, request, serverVars, orphan>>

-----------------------------------------------------------------------------
(* Service threads *)

Ends(t) ==
  /\ th' = [th EXCEPT ![t] = "dead"]
  /\ orphan' = (orphan \/ ~(request[t] \/ (t \in Servers /\ stopping[t])))

\* AbstractThread.run sees the request after at most one more task().
LoopStops(t) ==
  /\ ~Exited /\ t \in Loops /\ th[t] = "started" /\ request[t]
  /\ Ends(t)
  /\ UNCHANGED <<mainVars, eventVars, request, serverVars>>

\* The socket is bound and TLS set up.
Bind(s) ==
  /\ ~Exited /\ s \in Servers /\ th[s] = "started"
  /\ th' = [th EXCEPT ![s] = "bound"]
  /\ UNCHANGED <<mainVars, eventVars, request, serverVars, orphan>>

\* Fault: a shutdown that came before is not noticed.
Publish_IgnoresStopping(s) ==
  /\ ~Exited /\ s \in Servers /\ th[s] = "bound"
  /\ published' = [published EXCEPT ![s] = TRUE]
  /\ th' = [th EXCEPT ![s] = "serve"]
  /\ UNCHANGED <<mainVars, eventVars, request, stopping, isShut, orphan>>

\* The section under _lock: serve, unless shutdown() came first.
Publish(s) ==
  /\ ~Exited /\ s \in Servers /\ th[s] = "bound"
  /\ IF stopping[s] THEN Ends(s) /\ UNCHANGED published
     ELSE /\ published' = [published EXCEPT ![s] = TRUE]
          /\ th' = [th EXCEPT ![s] = "serve"]
          /\ UNCHANGED orphan
  /\ UNCHANGED <<mainVars, eventVars, request, stopping, isShut>>

\* serve_forever() is entered.
Serve(s) ==
  /\ ~Exited /\ s \in Servers /\ th[s] = "serve"
  /\ isShut' = [isShut EXCEPT ![s] = FALSE]
  /\ th' = [th EXCEPT ![s] = "loop"]
  /\ UNCHANGED <<mainVars, eventVars, request, stopping, published, orphan>>

\* The accept loop sees no request and a connection to accept.
Accepts(s) ==
  /\ ~Exited /\ s \in Servers /\ th[s] = "loop" /\ ~request[s]
  /\ th' = [th EXCEPT ![s] = "accept"]
  /\ UNCHANGED <<mainVars, eventVars, request, serverVars, orphan>>

\* The request is with a thread of its own, or failed.
Accepted(s) ==
  /\ ~Exited /\ s \in Servers /\ th[s] = "accept"
  /\ th' = [th EXCEPT ![s] = "loop"]
  /\ UNCHANGED <<mainVars, eventVars, request, serverVars, orphan>>

\* serve_forever() ends in its finally clause, and the thread with it.
LeaveLoop(s) ==
  /\ isShut' = [isShut EXCEPT ![s] = TRUE]
  /\ request' = [request EXCEPT ![s] = FALSE]
  /\ Ends(s)
  /\ UNCHANGED <<mainVars, eventVars, stopping, published>>

ServerStops(s) ==
  /\ ~Exited /\ s \in Servers /\ th[s] = "loop" /\ request[s]
  /\ LeaveLoop(s)

\* A service thread dies: its task, the bind or the TLS setup raised.
Dies(t) ==
  /\ ~Exited /\ th[t] = "started"
  /\ Ends(t)
  /\ UNCHANGED <<mainVars, eventVars, request, serverVars>>

\* The accept loop raised.
ServeDies(s) ==
  /\ ~Exited /\ s \in Servers /\ th[s] \in {"loop", "accept"}
  /\ LeaveLoop(s)

-----------------------------------------------------------------------------
HandlerStep == HandlerAcquires \/ HandlerSets

MainStep ==
  \/ StartService \/ TestFlag \/ TestAlive
  \/ WaitAcquires \/ WaitReleases \/ Wakes \/ WaitReturns
  \/ Decide \/ StopLoop \/ StopServer \/ AskServer \/ LoopEnded \/ WaitedFor

ServiceStep(t) ==
  \/ LoopStops(t) \/ Bind(t) \/ Publish(t) \/ Serve(t) \/ ServerStops(t)

Next ==
  \/ SignalArrives \/ HandlerStep \/ MainStep \/ StartFails
  \/ \E t \in Services : ServiceStep(t) \/ Accepts(t) \/ Accepted(t) \/ Dies(t) \/ ServeDies(t)

Spec == Init /\ [][Next]_vars

\* Threads that can run do; without TLS accept() of a pending connection
\* returns at once.
Fairness ==
  /\ WF_vars(HandlerStep) /\ WF_vars(MainStep)
  /\ \A t \in Services : WF_vars(ServiceStep(t)) /\ (Tls \/ WF_vars(Accepted(t)))

FairSpec == Spec /\ Fairness

-----------------------------------------------------------------------------
(* Properties *)

\* Includes who holds the lock of the Event: the main thread between two
\* halves of wait(), or a handler still on the stack.
TypeOK ==
  /\ main \in {"starting", "test", "alive", "wait", "held", "asleep", "reheld",
               "decide", "stop", "ask", "awaitLoop", "join", "exit0", "exit1", "raised"}
  /\ k \in 1..Len(Order)
  /\ requested \in BOOLEAN /\ flag \in BOOLEAN /\ orphan \in BOOLEAN
  /\ signals \in 0..MaxSignals /\ depth \in 0..signals
  /\ lock \in -1..depth
  /\ lock = -1 <=> main \in {"held", "reheld"}
  /\ th \in [Services -> {"new", "started", "bound", "serve", "loop", "accept", "dead"}]
  /\ request \in [Services -> BOOLEAN]
  /\ stopping \in [Servers -> BOOLEAN]
  /\ published \in [Servers -> BOOLEAN]
  /\ isShut \in [Servers -> BOOLEAN]

\* The exit code tells systemd the truth: 0 only after a signal, 1 only when
\* a service thread ended that had not been asked to.
ExitCode ==
  /\ main = "exit0" => signals > 0
  /\ main = "exit1" => orphan

\* When a server's shutdown() has returned, it serves nobody any more and
\* never will, at whatever point of its start the shutdown caught it.
NoneLeftServing ==
  \A j \in 1..Len(Order) :
    LET s == Order[j]
    IN  /\ s \in Servers
        /\ main \in {"exit0", "exit1"} \/ (main = "stop" /\ j < k)
        => stopping[s] /\ th[s] \notin {"serve", "loop", "accept"}

\* A dead service thread ends the process, unless a signal handler blocks it.
DeathStops ==
  []~Stuck => ((\E t \in Services : th[t] = "dead") ~> Exited)

\* A signal ends the process unless its handler blocks on the Event's lock.
SignalStopsUnlessStuck == []~Stuck => (signals > 0 ~> Exited)

\* "zero on a requested stop": a signal ends the process.
SignalStops == signals > 0 ~> Exited

\* "wait up to timeout seconds for the thread to stop": HTTPServerManager's
\* shutdown with a timeout returns.
ShutdownBounded == main = "awaitLoop" ~> main # "awaitLoop"
=============================================================================
