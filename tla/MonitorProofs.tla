---------------------------- MODULE MonitorProofs ----------------------------
(***************************************************************************)
(* Theorems about Monitor, for every set of ids, checks and threads and    *)
(* all thresholds: one CheckThread per id that nobody asked to stop, what  *)
(* a reconciliation leaves behind, and the debounce of the registry.       *)
(***************************************************************************)
EXTENDS Monitor, TLAPS

\* The inductive invariant: the types, the invariants about _threads with
\* what they rest on, and the meaning of the counters.
IInv == TypeOK /\ Reconciling /\ OneActiveThread /\ Reconciled /\ Counted

-----------------------------------------------------------------------------
(* The types: Reconciling tells that a started thread gets a real check. *)

\* Every step of a CheckThread keeps each variable in its type.
LEMMA CheckThreadTypes ==
  ASSUME TypeOK, NEW t \in Threads, CheckThreadStep(t) \/ Crash(t)
  PROVE  TypeOK'
<1> USE MonitorAssumption DEF TypeOK, checkVars, countVars, mgrVars
<1>1. CASE StopLoop(t) BY <1>1 DEF StopLoop
<1>2. CASE RunCheck(t) BY <1>2 DEF RunCheck
<1>3. CASE CheckFall(t) BY <1>3 DEF CheckFall, Bump, Record
<1>4. CASE CheckRise(t) BY <1>4 DEF CheckRise, Bump, Record
<1>5. CASE SetDown(t) BY <1>5 DEF SetDown
<1>6. CASE SetUp(t) BY <1>6 DEF SetUp
<1>7. CASE Crash(t) BY <1>7 DEF Crash
<1> QED BY <1>1, <1>2, <1>3, <1>4, <1>5, <1>6, <1>7 DEF CheckThreadStep

\* So does every step of MonitorManager and of the main thread.
LEMMA ManagerTypes ==
  ASSUME TypeOK, Reconciling, ManagerStep \/ MainStep \/ UNCHANGED vars
  PROVE  TypeOK'
<1> USE MonitorAssumption DEF TypeOK, checkVars, countVars, mgrVars
<1>1. CASE ManagerWakes \/ ManagerStops \/ PollFails \/ ManagerCrashes
  BY <1>1 DEF ManagerWakes, ManagerStops, PollFails, ManagerCrashes
<1>2. ASSUME NEW rows \in [Ids -> Rows], Poll(rows) PROVE TypeOK'
  <2>1. DesiredChecks(rows) \in [Ids -> Checks \cup {NoCheck}]
    BY DEF DesiredChecks
  <2>2. {threads[i] : i \in Outdated(DesiredChecks(rows))} \subseteq Threads
    BY DEF Outdated
  <2>3. Missing(DesiredChecks(rows)) \subseteq Ids
    BY DEF Missing
  <2> QED BY <1>2, <2>1, <2>2, <2>3 DEF Poll
<1>3. CASE SignalThreads BY <1>3 DEF SignalThreads
<1>4. CASE Joined \/ Abandon BY <1>4 DEF Joined, Abandon, PopThreads
<1>5. ASSUME NEW i \in Ids, NEW t \in Threads, StartThread(i, t) PROVE TypeOK'
  <2>1. desired[i] \in Checks
    BY <1>5 DEF StartThread, Reconciling
  <2> QED BY <1>5, <2>1 DEF StartThread, NoResults
<1>6. CASE Retain BY <1>6 DEF Retain
<1>7. CASE ShutdownSignals \/ ShutdownRequests
  BY <1>7 DEF ShutdownSignals, ShutdownRequests
<1>8. CASE UNCHANGED vars BY <1>8 DEF vars
<1> QED
  BY <1>1, <1>2, <1>3, <1>4, <1>5, <1>6, <1>7, <1>8
  DEF ManagerStep, ReconcileStep, MainStep

-----------------------------------------------------------------------------
(* _threads: only _reconcile changes it, and only its own thread is lost.  *)

\* A CheckThread may end, and never changes who holds it or what it checks.
LEMMA CheckThreadFrame ==
  ASSUME TypeOK, NEW t \in Threads, CheckThreadStep(t) \/ Crash(t)
  PROVE  /\ UNCHANGED <<cid, chk, stop, mgr, threads, desired, toStop, toStart>>
         /\ \A u \in Threads : Alive(u)' => Alive(u)
BY DEF TypeOK, CheckThreadStep, StopLoop, RunCheck, CheckFall, CheckRise, SetDown, SetUp,
       Crash, Alive, checkVars, mgrVars

\* Every step of _reconcile keeps the three invariants about _threads.
LEMMA ManagerKeepsThreads ==
  ASSUME TypeOK, Reconciling, OneActiveThread, Reconciled,
         ManagerStep \/ MainStep \/ UNCHANGED vars
  PROVE  Reconciling' /\ OneActiveThread' /\ Reconciled'
<1> USE MonitorAssumption DEF checkVars, mgrVars
<1>1. CASE ManagerWakes \/ ManagerStops \/ PollFails \/ ManagerCrashes
  BY <1>1 DEF ManagerWakes, ManagerStops, PollFails, ManagerCrashes,
              TypeOK, Reconciling, OneActiveThread, Reconciled, Settled, Alive
<1>2. ASSUME NEW rows \in [Ids -> Rows], Poll(rows)
      PROVE  Reconciling' /\ OneActiveThread' /\ Reconciled'
  <2> DEFINE want == DesiredChecks(rows)
  <2>1. /\ mgr' = "signal" /\ desired' = want
        /\ toStop' = {threads[i] : i \in Outdated(want)}
        /\ toStart' = Missing(want)
        /\ UNCHANGED <<pc, cid, chk, stop, threads>>
    BY <1>2 DEF Poll
  <2>2. want \in [Ids -> Checks \cup {NoCheck}]
    BY DEF DesiredChecks
  <2> HIDE DEF want
  <2>3. \A i \in Ids : threads[i] # NoThread => cid[threads[i]] = i
    BY DEF Reconciling
  <2>4. \A i \in Ids : threads[i] \in toStop' <=> i \in Outdated(want)
    BY <2>1, <2>3 DEF Outdated
  <2>5. \A t \in toStop' : threads[cid[t]] = t
    BY <2>1, <2>3 DEF Outdated
  <2>6. \A i \in toStart' : want[i] \in Checks
                            /\ (threads[i] = NoThread \/ threads[i] \in toStop')
    BY <2>1, <2>2, <2>4 DEF Missing
  <2>7. \A i \in Ids \ toStart' :
          IF threads[i] \in toStop' THEN want[i] = NoCheck ELSE Settled(i)'
    BY <2>1, <2>2, <2>3, <2>4 DEF Missing, Outdated, Settled, TypeOK
  <2>8. Reconciling'
    BY <2>1, <2>3, <2>5, <2>6, <2>7 DEF Reconciling
  <2> QED BY <2>1, <2>8 DEF OneActiveThread, Reconciled, Alive
<1>3. CASE SignalThreads
  BY <1>3 DEF SignalThreads, TypeOK, Reconciling, OneActiveThread, Reconciled, Settled, Alive
<1>4. CASE Joined \/ Abandon
  <2>1. /\ mgr = "join" /\ mgr' = "start" /\ toStop' = {}
        /\ threads' = [i \in Ids |-> IF \E t \in toStop : cid[t] = i THEN NoThread ELSE threads[i]]
        /\ UNCHANGED <<pc, cid, chk, stop, desired, toStart>>
    BY <1>4 DEF Joined, Abandon, PopThreads
  <2>2. \A i \in Ids : threads'[i] = IF threads[i] \in toStop THEN NoThread ELSE threads[i]
    BY <2>1 DEF TypeOK, Reconciling
  <2>3. Reconciling'
    BY <2>1, <2>2 DEF Reconciling, Settled, TypeOK
  <2>4. OneActiveThread'
    BY <2>1, <2>2 DEF OneActiveThread, Reconciling, Alive, TypeOK
  <2> QED BY <2>1, <2>3, <2>4 DEF Reconciled
<1>5. ASSUME NEW i \in Ids, NEW t \in Threads, StartThread(i, t)
      PROVE  Reconciling' /\ OneActiveThread' /\ Reconciled'
  <2>1. /\ mgr = "start" /\ mgr' = "start" /\ i \in toStart
        /\ toStart' = toStart \ {i}
        /\ threads' = [threads EXCEPT ![i] = t]
        /\ cid' = [cid EXCEPT ![t] = i]
        /\ chk' = [chk EXCEPT ![t] = desired[i]]
        /\ pc' = [pc EXCEPT ![t] = "ready"]
        /\ stop' = [stop EXCEPT ![t] = FALSE]
        /\ UNCHANGED <<desired, toStop>>
    BY <1>5 DEF StartThread
  <2>2. threads[i] = NoThread /\ desired[i] \in Checks
    BY <2>1 DEF Reconciling
  <2>3. \A j \in Ids : threads[j] # t
    BY <1>5 DEF StartThread, Free, Managed
  <2>4. \A j \in Ids : threads'[j] # NoThread => cid'[threads'[j]] = j
    BY <2>1, <2>3 DEF Reconciling, TypeOK
  <2>5. \A j \in Ids \ toStart' : Settled(j)'
    BY <2>1, <2>2, <2>3, <2>4 DEF Reconciling, TypeOK, Settled
  <2>6. Reconciling'
    BY <2>1, <2>2, <2>4, <2>5 DEF Reconciling, TypeOK
  <2>7. OneActiveThread'
    BY <2>1, <2>2 DEF OneActiveThread, Alive, TypeOK
  <2> QED BY <2>1, <2>6, <2>7 DEF Reconciled
<1>6. CASE Retain
  BY <1>6 DEF Retain,
              TypeOK, Reconciling, OneActiveThread, Reconciled, Settled, Alive
<1>7. CASE ShutdownSignals \/ ShutdownRequests
  BY <1>7 DEF ShutdownSignals, ShutdownRequests,
              TypeOK, Reconciling, OneActiveThread, Reconciled, Settled, Alive
<1>8. CASE UNCHANGED vars
  BY <1>8 DEF vars, Reconciling, OneActiveThread, Reconciled, Settled, Alive
<1> QED
  BY <1>1, <1>2, <1>3, <1>4, <1>5, <1>6, <1>7, <1>8
  DEF ManagerStep, ReconcileStep, MainStep

-----------------------------------------------------------------------------
(* The counters *)

\* A run of a check shifts one result into hist and keeps the counters true.
LEMMA CheckThreadCounts ==
  ASSUME TypeOK, Counted, NEW t \in Threads, CheckThreadStep(t) \/ Crash(t)
  PROVE  Counted'
<1> USE MonitorAssumption DEF TypeOK, Counted, checkVars, countVars
<1>1. CASE StopLoop(t) BY <1>1 DEF StopLoop
<1>2. CASE RunCheck(t) BY <1>2 DEF RunCheck
<1>3. CASE CheckFall(t)
  BY <1>3 DEF CheckFall, Bump, Record, FallReached
<1>4. CASE CheckRise(t)
  BY <1>4 DEF CheckRise, Bump, Record, RiseReached
<1>5. CASE SetDown(t) BY <1>5 DEF SetDown
<1>6. CASE SetUp(t) BY <1>6 DEF SetUp
<1>7. CASE Crash(t) BY <1>7 DEF Crash
<1> QED BY <1>1, <1>2, <1>3, <1>4, <1>5, <1>6, <1>7 DEF CheckThreadStep

\* The manager gives a thread its counters and its check once, at the start.
LEMMA ManagerCounts ==
  ASSUME TypeOK, Counted, ManagerStep \/ MainStep \/ UNCHANGED vars
  PROVE  Counted'
<1>1. ASSUME NEW i \in Ids, NEW t \in Threads, StartThread(i, t) PROVE Counted'
  <2>1. fall'[t] = 0 /\ rise'[t] = 0 /\ pc'[t] = "ready"
    BY <1>1 DEF StartThread, TypeOK
  <2>2. \A u \in Threads \ {t} : /\ fall'[u] = fall[u] /\ rise'[u] = rise[u]
                                 /\ hist'[u] = hist[u]
                                 /\ pc'[u] = pc[u] /\ chk'[u] = chk[u]
    BY <1>1 DEF StartThread, TypeOK
  <2> QED BY <2>1, <2>2 DEF Counted
<1>2. CASE UNCHANGED <<pc, fall, rise, hist, chk>>
  BY <1>2 DEF Counted
<1>3. CASE ManagerWakes \/ ManagerStops \/ PollFails \/ ManagerCrashes
           \/ \E rows \in [Ids -> Rows] : Poll(rows)
  BY <1>2, <1>3
  DEF ManagerWakes, ManagerStops, PollFails, ManagerCrashes, Poll, checkVars, countVars
<1>4. CASE SignalThreads \/ Joined \/ Abandon \/ Retain
  BY <1>2, <1>4
  DEF SignalThreads, Joined, Abandon, PopThreads, Retain, checkVars, countVars
<1>5. CASE MainStep \/ UNCHANGED vars
  BY <1>2, <1>5 DEF MainStep, ShutdownSignals, ShutdownRequests, checkVars, countVars, vars
<1> QED BY <1>1, <1>3, <1>4, <1>5 DEF ManagerStep, ReconcileStep

-----------------------------------------------------------------------------
(* The theorems *)

\* IInv holds at the start and in every later state.
THEOREM Inductive == Spec => []IInv
<1>1. Init => IInv
  BY MonitorAssumption
  DEF Init, IInv, TypeOK, NoResults, Reconciling, OneActiveThread, Reconciled, Settled,
      Alive, Counted
<1>2. IInv /\ [Next]_vars => IInv'
  <2> SUFFICES ASSUME IInv, [Next]_vars PROVE IInv'
    OBVIOUS
  <2>1. ASSUME NEW t \in Threads, CheckThreadStep(t) \/ Crash(t) PROVE IInv'
    <3>1. TypeOK' /\ Counted'
      BY <2>1, CheckThreadTypes, CheckThreadCounts DEF IInv
    <3>2. /\ UNCHANGED <<cid, chk, stop, mgr, threads, desired, toStop, toStart>>
          /\ \A u \in Threads : Alive(u)' => Alive(u)
      BY <2>1, CheckThreadFrame DEF IInv
    <3>3. Reconciling' /\ OneActiveThread' /\ Reconciled'
      BY <3>2 DEF IInv, TypeOK, Reconciling, OneActiveThread, Reconciled, Settled
    <3> QED BY <3>1, <3>3 DEF IInv
  <2>2. CASE ManagerStep \/ MainStep \/ UNCHANGED vars
    BY <2>2, ManagerTypes, ManagerKeepsThreads, ManagerCounts DEF IInv
  <2> QED BY <2>1, <2>2 DEF Next
<1> QED BY <1>1, <1>2, PTL DEF Spec

\* Every variable keeps its type.
THEOREM TypeCorrect == Spec => []TypeOK
<1>1. IInv => TypeOK BY DEF IInv
<1> QED BY <1>1, Inductive, PTL

\* Of all the CheckThreads of an id, replaced, crashed or abandoned, only the
\* one in _threads is not asked to stop.
THEOREM OneActive == Spec => []OneActiveThread
<1>1. IInv => OneActiveThread BY DEF IInv
<1> QED BY <1>1, Inductive, PTL

\* Between two reconciliations _threads is what the database asked for.
THEOREM ReconcileReaches == Spec => []Reconciled
<1>1. IInv => Reconciled BY DEF IInv
<1> QED BY <1>1, Inductive, PTL

\* The locals of a reconciliation keep their meaning while check threads end
\* and are abandoned: nothing is started for an id that is still held.
THEOREM ReconcilingKept == Spec => []Reconciling
<1>1. IInv => Reconciling BY DEF IInv
<1> QED BY <1>1, Inductive, PTL

\* _fall and _rise count the last results in a row, and one of them is zero.
THEOREM CountersTrue == Spec => []Counted
<1>1. IInv => Counted BY DEF IInv
<1> QED BY <1>1, Inductive, PTL

\* No id goes down without Check.fall consecutive failures of one thread, or
\* up without Check.rise consecutive successes, unless it is not monitored.
THEOREM DebounceHolds == Spec => Debounced
<1> DEFINE Step == \A i \in Ids :
             /\ i \in down' \ down => Evidence(i, Fall, "fail")
             /\ i \in down \ down' => \/ Evidence(i, Rise, "ok")
                                      \/ mgr = "start" /\ desired[i] = NoCheck
<1>1. IInv /\ [Next]_vars => [Step]_vars
  <2> SUFFICES ASSUME IInv, Next, NEW i \in Ids
               PROVE  /\ i \in down' \ down => Evidence(i, Fall, "fail")
                      /\ i \in down \ down' => \/ Evidence(i, Rise, "ok")
                                               \/ mgr = "start" /\ desired[i] = NoCheck
    OBVIOUS
  <2>1. ASSUME NEW t \in Threads, SetDown(t), i \in down' \ down
        PROVE  Evidence(i, Fall, "fail")
    <3>1. cid[t] = i /\ pc[t] = "setDown" /\ pc'[t] # pc[t]
      BY <2>1 DEF SetDown, IInv, TypeOK
    <3>2. \A k \in 1..Fall[chk[t]] : hist[t][k] = "fail"
      BY <3>1, MonitorAssumption DEF IInv, TypeOK, Counted
    <3> QED BY <3>1, <3>2 DEF Evidence
  <2>2. ASSUME NEW t \in Threads, SetUp(t), i \in down \ down'
        PROVE  Evidence(i, Rise, "ok")
    <3>1. cid[t] = i /\ pc[t] = "setUp" /\ pc'[t] # pc[t]
      BY <2>2 DEF SetUp, IInv, TypeOK
    <3>2. \A k \in 1..Rise[chk[t]] : hist[t][k] = "ok"
      BY <3>1, MonitorAssumption DEF IInv, TypeOK, Counted
    <3> QED BY <3>1, <3>2 DEF Evidence
  <2>3. \/ \E t \in Threads : SetDown(t) \/ SetUp(t)
        \/ Retain
        \/ down' = down
    BY DEF Next, CheckThreadStep, StopLoop, RunCheck, CheckFall, CheckRise, Crash,
      ManagerStep, ReconcileStep, MainStep, ManagerWakes, ManagerStops, PollFails,
      ManagerCrashes, Poll, SignalThreads, Joined, Abandon, PopThreads, StartThread,
      ShutdownSignals, ShutdownRequests
  <2>4. Retain => /\ mgr = "start" /\ down' \subseteq down
                  /\ i \in down \ down' => desired[i] = NoCheck
    BY DEF Retain, DesiredIds
  <2>5. \A t \in Threads : /\ SetDown(t) => down \subseteq down'
                           /\ SetUp(t) => down' \subseteq down
    BY DEF SetDown, SetUp
  <2>6. CASE \E t \in Threads : SetDown(t) \/ SetUp(t)
    BY <2>1, <2>2, <2>5, <2>6
  <2>7. CASE Retain
    BY <2>4, <2>7
  <2> QED BY <2>3, <2>6, <2>7
<1> QED BY <1>1, Inductive, PTL DEF Spec, Debounced

\* MonitorManager never changes the status of an id that stays monitored.
THEOREM ManagerKeepsStatus == Spec => StatusKept
<1> DEFINE Step == (\A t \in Threads : Alive(t) => pc'[t] = pc[t]) =>
             /\ down' \subseteq down
             /\ \A i \in down \ down' : desired[i] = NoCheck
<1>1. IInv /\ [Next]_vars => [Step]_vars
  <2> SUFFICES ASSUME IInv, Next, \A t \in Threads : Alive(t) => pc'[t] = pc[t]
               PROVE  down' \subseteq down /\ \A i \in down \ down' : desired[i] = NoCheck
    OBVIOUS
  <2>1. ~ \E t \in Threads : SetDown(t) \/ SetUp(t)
    BY DEF SetDown, SetUp, Alive, IInv, TypeOK
  <2>2. Retain \/ down' = down
    BY <2>1 DEF Next, CheckThreadStep, StopLoop, RunCheck, CheckFall, CheckRise, Crash,
      ManagerStep, ReconcileStep, MainStep, ManagerWakes, ManagerStops, PollFails,
      ManagerCrashes, Poll, SignalThreads, Joined, Abandon, PopThreads, StartThread,
      ShutdownSignals, ShutdownRequests
  <2>3. Retain => /\ down' \subseteq down
                  /\ \A i \in down \ down' : desired[i] = NoCheck
    BY DEF Retain, DesiredIds, IInv, TypeOK
  <2> QED BY <2>2, <2>3
<1> QED BY <1>1, Inductive, PTL DEF Spec, StatusKept
=============================================================================
