-------------------------- MODULE SupervisorProofs ---------------------------
(***************************************************************************)
(* The safety of the supervisor, for any service threads in any order and  *)
(* any number of signals.                                                  *)
(***************************************************************************)
EXTENDS Supervisor, TLAPS

Stopping == main \in {"stop", "ask", "awaitLoop", "join"}
Ended == main \in {"exit0", "exit1"}

\* A server that has been shut down: it is not published, so it never will
\* be, or its thread has ended.
Down(s) == stopping[s] /\ (~published[s] \/ th[s] = "dead")

\* A serving thread has published its server; the accept loop that has been
\* left belongs to a dead thread.
ServersOK ==
  \A s \in Servers :
    /\ th[s] \in {"serve", "loop", "accept"} => published[s]
    /\ isShut[s] => th[s] = "dead"

\* What the main thread has achieved when it stops the k-th service.
StoppedOK ==
  /\ ~Stopping /\ main # "starting" /\ ~Exited => k = 1
  /\ Stopping => \A j \in 1..Len(Order) : j < k /\ Order[j] \in Servers => Down(Order[j])
  /\ Ended => \A j \in 1..Len(Order) : Order[j] \in Servers => Down(Order[j])
  /\ main \in {"ask", "awaitLoop"} => Current \in Servers /\ stopping[Current]
  /\ main = "join" /\ Current \in Servers => Down(Current)

\* Before anything is stopped nobody has been asked to stop, so a dead thread
\* is an orphan; what start() decides rests on the flag or on an orphan.
ExitOK ==
  /\ flag => signals > 0
  /\ requested => flag
  /\ ~Stopping /\ ~Ended /\ main # "raised" =>
       /\ \A t \in Services : ~request[t] /\ (th[t] = "dead" => orphan)
       /\ \A s \in Servers : ~stopping[s]
  /\ main = "decide" => flag \/ orphan
  /\ Stopping => requested \/ orphan
  /\ main = "exit0" => requested
  /\ main = "exit1" => orphan

IInv == TypeOK /\ ServersOK /\ StoppedOK /\ ExitOK

-----------------------------------------------------------------------------
\* Facts about the constants that every step below uses.
LEMMA OrderFacts ==
  /\ Len(Order) \in Nat /\ 1 \in 1..Len(Order)
  /\ \A j \in 1..Len(Order) : Order[j] \in Services
  /\ \A i, j \in 1..Len(Order) : Order[i] = Order[j] => i = j
  /\ Loops \cap Servers = {} /\ Servers \subseteq Services
BY SupervisorAssumption DEF Services

LEMMA InitIInv == Init => IInv
<1>. USE OrderFacts, SupervisorAssumption DEF Init
<1>1. ASSUME Init  PROVE TypeOK
  <2>1. lock \in -1..depth /\ depth \in 0..signals /\ signals \in 0..MaxSignals  BY <1>1
  <2>2. ~(lock = -1) /\ main \notin {"held", "reheld"}  BY <1>1
  <2>3. th \in [Services -> {"new", "started", "bound", "serve", "loop", "accept", "dead"}]
    BY <1>1
  <2>4. /\ request \in [Services -> BOOLEAN] /\ stopping \in [Servers -> BOOLEAN]
        /\ published \in [Servers -> BOOLEAN] /\ isShut \in [Servers -> BOOLEAN]
    BY <1>1
  <2>. QED  BY <1>1, <2>1, <2>2, <2>3, <2>4 DEF TypeOK
<1>2. Init => ServersOK  BY DEF ServersOK
<1>3. Init => StoppedOK  BY DEF StoppedOK, Stopping, Ended, Exited
<1>4. Init => ExitOK  BY DEF ExitOK, Stopping, Ended
<1>. QED  BY <1>1, <1>2, <1>3, <1>4 DEF IInv

\* The signal handler touches the Event only.
LEMMA HandlerIInv ==
  ASSUME IInv, SignalArrives \/ HandlerStep
  PROVE  IInv'
<1>. USE SupervisorAssumption DEF IInv, mainVars, serverVars
<1>1. TypeOK'
  <2>1. CASE SignalArrives
    BY <2>1 DEF SignalArrives, TypeOK
  <2>2. CASE HandlerAcquires
    BY <2>2 DEF HandlerAcquires, TypeOK
  <2>3. CASE HandlerSets
    BY <2>3 DEF HandlerSets, TypeOK
  <2>. QED  BY <2>1, <2>2, <2>3 DEF HandlerStep
<1>2. ServersOK'
  BY DEF SignalArrives, HandlerStep, HandlerAcquires, HandlerSets, ServersOK
<1>3. StoppedOK'
  BY DEF SignalArrives, HandlerStep, HandlerAcquires, HandlerSets, StoppedOK, Down,
         Stopping, Ended, Exited, Current
<1>4. ExitOK'
  <2>1. CASE SignalArrives
    BY <2>1 DEF SignalArrives, ExitOK, TypeOK, Stopping, Ended
  <2>2. CASE HandlerAcquires
    BY <2>2 DEF HandlerAcquires, ExitOK, Stopping, Ended
  <2>3. CASE HandlerSets
    BY <2>3 DEF HandlerSets, ExitOK, TypeOK, Stopping, Ended
  <2>. QED  BY <2>1, <2>2, <2>3 DEF HandlerStep
<1>. QED  BY <1>1, <1>2, <1>3, <1>4

\* The loop of start(), up to the decision to stop.
Watch ==
  \/ StartService \/ StartFails \/ TestFlag \/ TestAlive
  \/ WaitAcquires \/ WaitReleases \/ Wakes \/ WaitReturns \/ Decide

LEMMA WatchIInv ==
  ASSUME IInv, Watch
  PROVE  IInv'
<1>. USE OrderFacts DEF IInv, Watch, eventVars, mainVars, serverVars, MainRuns
<1>1. CASE StartService
  <2>. USE <1>1 DEF StartService, Advance
  <2>1. Current \in Services  BY DEF TypeOK, Current
  <2>2. TypeOK'  BY <2>1 DEF TypeOK
  <2>3. ServersOK'  BY <2>1 DEF ServersOK, TypeOK
  <2>4. StoppedOK'  BY DEF StoppedOK, Stopping, Ended, Exited
  <2>5. ExitOK'  BY <2>1 DEF ExitOK, TypeOK, Stopping, Ended, Exited
  <2>. QED  BY <2>2, <2>3, <2>4, <2>5
<1>2. CASE \/ StartFails \/ TestFlag \/ TestAlive
           \/ WaitAcquires \/ WaitReleases \/ Wakes \/ WaitReturns
  <2>. USE <1>2 DEF StartFails, TestFlag, TestAlive, WaitAcquires, WaitReleases, Wakes,
                    WaitReturns
  <2>1. TypeOK'  BY DEF TypeOK
  <2>2. ServersOK'  BY DEF ServersOK
  <2>3. StoppedOK'  BY DEF StoppedOK, Stopping, Ended, Exited
  <2>4. ExitOK'  BY DEF ExitOK, Stopping, Ended, Exited, AllAlive
  <2>. QED  BY <2>1, <2>2, <2>3, <2>4
<1>3. CASE Decide
  <2>. USE <1>3 DEF Decide
  <2>1. k = 1  BY DEF StoppedOK, Stopping, Exited
  <2>2. TypeOK'  BY DEF TypeOK
  <2>3. ServersOK'  BY DEF ServersOK
  <2>4. StoppedOK'  BY <2>1 DEF StoppedOK, Stopping, Ended, Exited
  <2>5. ExitOK'  BY DEF ExitOK, Stopping, Ended, Exited
  <2>. QED  BY <2>2, <2>3, <2>4, <2>5
<1>. QED  BY <1>1, <1>2, <1>3

\* The shutdown of the services, one after the other.
Stop == StopLoop \/ StopServer \/ AskServer \/ LoopEnded \/ WaitedFor

LEMMA StopIInv ==
  ASSUME IInv, Stop
  PROVE  IInv'
<1>. USE OrderFacts DEF IInv, Stop, eventVars, mainVars, serverVars, MainRuns
<1>0. k \in 1..Len(Order) /\ Current \in Services  BY DEF TypeOK, Current
<1>1. CASE StopLoop
  <2>. USE <1>1 DEF StopLoop
  <2>1. TypeOK'  BY <1>0 DEF TypeOK
  <2>2. ServersOK'  BY DEF ServersOK
  <2>3. StoppedOK'  BY <1>0 DEF StoppedOK, Stopping, Ended, Exited, Down, Current
  <2>4. ExitOK'  BY DEF ExitOK, Stopping, Ended
  <2>. QED  BY <2>1, <2>2, <2>3, <2>4
<1>2. CASE StopServer
  <2>. USE <1>2 DEF StopServer
  <2>1. TypeOK'  BY <1>0 DEF TypeOK
  <2>2. ServersOK'  BY DEF ServersOK
  <2>3. StoppedOK'
    BY <1>0 DEF StoppedOK, Stopping, Ended, Exited, Down, Current, TypeOK
  <2>4. ExitOK'  BY DEF ExitOK, Stopping, Ended
  <2>. QED  BY <2>1, <2>2, <2>3, <2>4
<1>3. CASE AskServer \/ LoopEnded
  <2>. USE <1>3 DEF AskServer, LoopEnded
  <2>1. TypeOK'  BY <1>0 DEF TypeOK
  <2>2. ServersOK'  BY DEF ServersOK
  <2>3. StoppedOK'
    BY <1>0 DEF StoppedOK, ServersOK, Stopping, Ended, Exited, Down, Current
  <2>4. ExitOK'  BY DEF ExitOK, Stopping, Ended
  <2>. QED  BY <2>1, <2>2, <2>3, <2>4
<1>4. CASE WaitedFor
  <2>. USE <1>4 DEF WaitedFor
  <2>1. TypeOK'  BY <1>0 DEF TypeOK
  <2>2. ServersOK'  BY DEF ServersOK
  <2>3. \A j \in 1..Len(Order) : j <= k /\ Order[j] \in Servers => Down(Order[j])
    BY <1>0 DEF StoppedOK, Stopping, Current
  <2>4. StoppedOK'
    BY <1>0, <2>3 DEF StoppedOK, Stopping, Ended, Exited, Down, Current
  <2>5. ExitOK'  BY DEF ExitOK, Stopping, Ended
  <2>. QED  BY <2>1, <2>2, <2>4, <2>5
<1>. QED  BY <1>1, <1>2, <1>3, <1>4

\* A service thread never publishes its server once it is being stopped.
ThreadStep(t) ==
  ServiceStep(t) \/ Accepts(t) \/ Accepted(t) \/ Dies(t) \/ ServeDies(t)

LEMMA ThreadIInv ==
  ASSUME IInv, NEW t \in Services, ThreadStep(t)
  PROVE  IInv'
<1>. USE OrderFacts DEF IInv, eventVars, mainVars, serverVars, Ends
<1>1. CASE LoopStops(t) \/ Dies(t)
  <2>. USE <1>1 DEF LoopStops, Dies
  <2>1. TypeOK'  BY DEF TypeOK
  <2>2. ServersOK'  BY DEF ServersOK, TypeOK
  <2>3. StoppedOK'  BY DEF StoppedOK, Stopping, Ended, Exited, Down, Current, TypeOK
  <2>4. ~Stopping /\ ~Ended /\ main # "raised" => orphan'
    BY DEF ExitOK
  <2>5. orphan => orphan'
    OBVIOUS
  <2>6. \A u \in Services : ~request[u] => ~request'[u]
    BY DEF TypeOK
  <2>7. ExitOK'  BY <2>4, <2>5, <2>6 DEF ExitOK, Stopping, Ended
  <2>. QED  BY <2>1, <2>2, <2>3, <2>7
<1>2. CASE Bind(t) \/ Serve(t) \/ Accepts(t) \/ Accepted(t)
  <2>. USE <1>2 DEF Bind, Serve, Accepts, Accepted
  <2>1. TypeOK'  BY DEF TypeOK
  <2>2. ServersOK'  BY DEF ServersOK, TypeOK
  <2>3. StoppedOK'  BY DEF StoppedOK, Stopping, Ended, Exited, Down, Current, TypeOK
  <2>4. ExitOK'  BY DEF ExitOK, Stopping, Ended, TypeOK
  <2>. QED  BY <2>1, <2>2, <2>3, <2>4
<1>3. CASE Publish(t)
  <2>. USE <1>3 DEF Publish
  <2>1. TypeOK'  BY DEF TypeOK
  <2>2. ServersOK'  BY DEF ServersOK, TypeOK
  <2>3. StoppedOK'  BY DEF StoppedOK, Stopping, Ended, Exited, Down, Current, TypeOK
  <2>4. ExitOK'  BY DEF ExitOK, Stopping, Ended, TypeOK
  <2>. QED  BY <2>1, <2>2, <2>3, <2>4
<1>4. CASE ServerStops(t) \/ ServeDies(t)
  <2>. USE <1>4 DEF ServerStops, ServeDies, LeaveLoop
  <2>1. TypeOK'
    <3>1. th' = [th EXCEPT ![t] = "dead"] /\ orphan' \in BOOLEAN
      BY DEF TypeOK
    <3>2. /\ request' = [request EXCEPT ![t] = FALSE] /\ isShut' = [isShut EXCEPT ![t] = TRUE]
          /\ UNCHANGED <<main, k, requested, flag, lock, depth, signals, stopping, published>>
      OBVIOUS
    <3>. HIDE <1>4 DEF ServerStops, ServeDies, LeaveLoop, Ends
    <3>. QED  BY <3>1, <3>2 DEF TypeOK
  <2>2. ServersOK'  BY DEF ServersOK, TypeOK
  <2>3. StoppedOK'  BY DEF StoppedOK, Stopping, Ended, Exited, Down, Current, TypeOK
  <2>4. ~Stopping /\ ~Ended /\ main # "raised" => orphan'
    BY DEF ExitOK
  <2>5. orphan => orphan'
    OBVIOUS
  <2>6. \A u \in Services : ~request[u] => ~request'[u]
    BY DEF TypeOK
  <2>7. ExitOK'  BY <2>4, <2>5, <2>6 DEF ExitOK, Stopping, Ended
  <2>. QED  BY <2>1, <2>2, <2>3, <2>7
<1>. QED  BY <1>1, <1>2, <1>3, <1>4 DEF ThreadStep, ServiceStep

-----------------------------------------------------------------------------
\* What start(), its threads and its signal handler agree on at every moment.
THEOREM Inductive == Spec => []IInv
<1>1. ASSUME IInv, UNCHANGED vars  PROVE IInv'
  <2>. USE <1>1 DEF vars, IInv
  <2>1. TypeOK'  BY DEF TypeOK
  <2>2. ServersOK'  BY DEF ServersOK
  <2>3. StoppedOK'  BY DEF StoppedOK, Stopping, Ended, Exited, Down, Current
  <2>4. ExitOK'  BY DEF ExitOK, Stopping, Ended
  <2>. QED  BY <2>1, <2>2, <2>3, <2>4
<1>2. IInv /\ [Next]_vars => IInv'
  BY <1>1, HandlerIInv, WatchIInv, StopIInv, ThreadIInv
     DEF Next, MainStep, Watch, Stop, ThreadStep
<1>. QED  BY InitIInv, <1>2, PTL DEF Spec

\* Includes that the Event's lock is always held by the main thread inside
\* wait() or by a handler on its stack.
THEOREM TypeCorrect == Spec => []TypeOK
BY Inductive, PTL DEF IInv

\* The exit code: 0 only after a signal, 1 only after a service thread ended
\* by itself.
THEOREM ExitCodeTrue == Spec => []ExitCode
<1>1. IInv => ExitCode  BY DEF IInv, ExitOK, ExitCode
<1>. QED  BY <1>1, Inductive, PTL

\* A server that has been shut down serves nobody and never will.
THEOREM NoneServes == Spec => []NoneLeftServing
<1>1. IInv => NoneLeftServing
  <2>1. SUFFICES ASSUME IInv, NEW j \in 1..Len(Order), Order[j] \in Servers,
                        main \in {"exit0", "exit1"} \/ (main = "stop" /\ j < k)
                 PROVE  stopping[Order[j]] /\ th[Order[j]] \notin {"serve", "loop", "accept"}
    BY DEF NoneLeftServing
  <2>2. Down(Order[j])  BY <2>1 DEF IInv, StoppedOK, Stopping, Ended
  <2>. QED  BY <2>1, <2>2 DEF IInv, ServersOK, Down
<1>. QED  BY <1>1, Inductive, PTL
=============================================================================
