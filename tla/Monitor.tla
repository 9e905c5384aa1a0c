------------------------------- MODULE Monitor -------------------------------
(***************************************************************************)
(* Health monitoring: the MonitorManager thread, the CheckThreads it       *)
(* starts, signals, joins and abandons, and the StatusRegistry they share. *)
(*                                                                         *)
(* Source: powergslb/monitor/{monitor,thread,status}.py and                *)
(* powergslb/monitor/check/thread.py.  One action is one stretch of code   *)
(* between two accesses to state another thread can see; the registry is   *)
(* a plain set, so its operations are atomic one by one, and a test of it  *)
(* followed by an update is two steps.                                     *)
(*                                                                         *)
(* Environment: administrators edit the monitor rows, so a poll may read   *)
(* any rows; an execution of a check may return either result and take any *)
(* time; database reads and thread starts fail; threads die; and the main  *)
(* thread calls MonitorManager.shutdown().                                 *)
(***************************************************************************)
EXTENDS Integers, FiniteSets

CONSTANTS
  Ids,        \* content ids (contents_monitors.id)
  Checks,     \* the distinct valid checks a row can parse to
  OtherRows,  \* rows that yield no check: deleted, type none, malformed
  Threads,    \* CheckThread objects; a dead one nobody refers to is reused
  NoCheck, NoThread,
  Fall, Rise, \* Check.fall and Check.rise of each check
  Window      \* where the two counters saturate, and the length of hist

ASSUME MonitorAssumption ==
  /\ NoCheck \notin Checks
  /\ NoThread \notin Threads
  /\ OtherRows \cap Checks = {}
  /\ Window \in Nat \ {0}
  /\ Fall \in [Checks -> 1..Window]
  /\ Rise \in [Checks -> 1..Window]

VARIABLES
  down,       \* StatusRegistry._status
  pc,         \* where each CheckThread is in run()
  cid,        \* CheckThread.content_id
  chk,        \* CheckThread.check
  fall, rise, \* CheckThread._fall, ._rise
  stop,       \* AbstractThread.__shutdown_request of each CheckThread
  hist,       \* history variable: the last Window results, latest first
  mgr,        \* where MonitorManager is in run()
  threads,    \* MonitorManager._threads
  desired,    \* the checks of the reconciliation in progress (or the last)
  toStop, toStart, \* locals of _reconcile
  shut        \* progress of the main thread in MonitorManager.shutdown

checkVars  == <<cid, chk, stop>>
countVars  == <<fall, rise, hist>>
mgrVars    == <<mgr, threads, desired, toStop, toStart>>
vars == <<down, pc, cid, chk, fall, rise, stop, hist,
          mgr, threads, desired, toStop, toStart, shut>>

-----------------------------------------------------------------------------
(* Helpers *)

Rows == Checks \cup OtherRows

\* threading.Thread.is_alive() of a CheckThread.
Alive(t) == pc[t] # "dead"

\* The CheckThreads MonitorManager holds.
Managed == {threads[i] : i \in Ids} \ {NoThread}

\* A slot for a new CheckThread: no live thread, no reference from _threads.
Free(t) == ~Alive(t) /\ t \notin Managed

\* Counters are compared with thresholds no larger than Window only.
Bump(n) == IF n < Window THEN n + 1 ELSE n

Record(h, result) == [k \in 1..Window |-> IF k = 1 THEN result ELSE h[k - 1]]

NoResults == [k \in 1..Window |-> "none"]

\* Fault: a row that builds no check is not left out.
DesiredChecks_KeepsBadRows(rows) == rows

\* The checks built from the rows: skipped and malformed ones drop out.
DesiredChecks(rows) ==
  [i \in Ids |-> IF rows[i] \in Checks THEN rows[i] ELSE NoCheck]

DesiredIds == {i \in Ids : desired[i] # NoCheck}

\* Fault: a change of the check of a running thread goes unnoticed.
Outdated_IgnoresChange(want) ==
  {i \in Ids : threads[i] # NoThread /\ (want[i] = NoCheck \/ ~Alive(threads[i]))}

\* Ids whose thread is removed, dead, or runs another check than wanted.
Outdated(want) ==
  {i \in Ids : /\ threads[i] # NoThread
               /\ \/ want[i] = NoCheck
                  \/ ~Alive(threads[i])
                  \/ chk[threads[i]] # want[i]}

\* Ids to start a thread for: replacements, and ids without a thread.
Missing(want) ==
  {i \in Ids : /\ want[i] # NoCheck
               /\ threads[i] = NoThread \/ i \in Outdated(want)}

\* Faults: the status moves only in the run that reaches the threshold.
FallReached_Once(t, n) == n = Fall[chk[t]] /\ cid[t] \notin down
RiseReached_Once(t, n) == n = Rise[chk[t]] /\ cid[t] \in down

\* The registry tests the counters lead to.
FallReached(t, n) == n >= Fall[chk[t]] /\ cid[t] \notin down
RiseReached(t, n) == n >= Rise[chk[t]] /\ cid[t] \in down

Init ==
  /\ down = {}
  /\ pc = [t \in Threads |-> "dead"]
  /\ cid \in [Threads -> Ids] /\ chk \in [Threads -> Checks]
  /\ fall = [t \in Threads |-> 0] /\ rise = [t \in Threads |-> 0]
  /\ stop = [t \in Threads |-> FALSE]
  /\ hist = [t \in Threads |-> NoResults]
  /\ mgr = "idle"
  /\ threads = [i \in Ids |-> NoThread]
  /\ desired = [i \in Ids |-> NoCheck]
  /\ toStop = {} /\ toStart = {}
  /\ shut = "no"

-----------------------------------------------------------------------------
(* CheckThread *)

\* run(): the loop test (first, or after the interruptible sleep) sees the
\* request; the finally clause runs and the thread ends.
StopLoop(t) ==
  /\ pc[t] = "ready" /\ stop[t]
  /\ pc' = [pc EXCEPT ![t] = "dead"]
  /\ UNCHANGED <<down, checkVars, countVars, mgrVars, shut>>

\* run(): the loop test passes and task() starts one execution of the check.
RunCheck(t) ==
  /\ pc[t] = "ready" /\ ~stop[t]
  /\ pc' = [pc EXCEPT ![t] = "exec"]
  /\ UNCHANGED <<down, checkVars, countVars, mgrVars, shut>>

\* execute() returned False or raised: _check_fall up to its test of the
\* registry.
CheckFall(t) ==
  /\ pc[t] = "exec"
  /\ fall' = [fall EXCEPT ![t] = Bump(@)]
  /\ rise' = [rise EXCEPT ![t] = 0]
  /\ hist' = [hist EXCEPT ![t] = Record(@, "fail")]
  /\ pc' = [pc EXCEPT ![t] = IF FallReached(t, Bump(fall[t])) THEN "setDown" ELSE "ready"]
  /\ UNCHANGED <<down, checkVars, mgrVars, shut>>

\* Fault: a success does not interrupt a series of failures.
CheckRise_KeepsFall(t) ==
  /\ pc[t] = "exec"
  /\ rise' = [rise EXCEPT ![t] = Bump(@)]
  /\ hist' = [hist EXCEPT ![t] = Record(@, "ok")]
  /\ pc' = [pc EXCEPT ![t] = IF RiseReached(t, Bump(rise[t])) THEN "setUp" ELSE "ready"]
  /\ UNCHANGED <<fall, down, checkVars, mgrVars, shut>>

\* execute() returned True: _check_rise up to its test of the registry.
CheckRise(t) ==
  /\ pc[t] = "exec"
  /\ fall' = [fall EXCEPT ![t] = 0]
  /\ rise' = [rise EXCEPT ![t] = Bump(@)]
  /\ hist' = [hist EXCEPT ![t] = Record(@, "ok")]
  /\ pc' = [pc EXCEPT ![t] = IF RiseReached(t, Bump(rise[t])) THEN "setUp" ELSE "ready"]
  /\ UNCHANGED <<down, checkVars, mgrVars, shut>>

\* The registry update that follows the test: StatusWriter.set_down.
SetDown(t) ==
  /\ pc[t] = "setDown"
  /\ down' = down \cup {cid[t]}
  /\ pc' = [pc EXCEPT ![t] = "ready"]
  /\ UNCHANGED <<checkVars, countVars, mgrVars, shut>>

\* StatusWriter.set_up; discarding an absent id is no error.
SetUp(t) ==
  /\ pc[t] = "setUp"
  /\ down' = down \ {cid[t]}
  /\ pc' = [pc EXCEPT ![t] = "ready"]
  /\ UNCHANGED <<checkVars, countVars, mgrVars, shut>>

\* task() lets something out that is no Exception; the thread ends.
Crash(t) ==
  /\ pc[t] = "exec"
  /\ pc' = [pc EXCEPT ![t] = "dead"]
  /\ UNCHANGED <<down, checkVars, countVars, mgrVars, shut>>

-----------------------------------------------------------------------------
(* MonitorManager *)

\* Fault: the loop does not look at the shutdown request.
ManagerWakes_Always ==
  /\ mgr = "idle"
  /\ mgr' = "poll"
  /\ UNCHANGED <<down, pc, checkVars, countVars,
                 threads, desired, toStop, toStart, shut>>

\* run(): the loop test passes and task() asks the database.
ManagerWakes ==
  /\ mgr = "idle" /\ shut # "requested"
  /\ mgr' = "poll"
  /\ UNCHANGED <<down, pc, checkVars, countVars,
                 threads, desired, toStop, toStart, shut>>

\* run(): the loop test sees the request and the thread ends.
ManagerStops ==
  /\ mgr = "idle" /\ shut = "requested"
  /\ mgr' = "stopped"
  /\ UNCHANGED <<down, pc, checkVars, countVars,
                 threads, desired, toStop, toStart, shut>>

\* _desired_checks returned None: nothing is reconciled, nothing cleaned.
PollFails ==
  /\ mgr = "poll"
  /\ mgr' = "idle"
  /\ UNCHANGED <<down, pc, checkVars, countVars,
                 threads, desired, toStop, toStart, shut>>

\* Fault: a reconciliation with nothing to stop or start returns early.
Poll_EarlyReturn(rows) ==
  /\ mgr = "poll"
  /\ desired' = DesiredChecks(rows)
  /\ toStop' = {threads[i] : i \in Outdated(DesiredChecks(rows))}
  /\ toStart' = Missing(DesiredChecks(rows))
  /\ mgr' = IF toStop' = {} /\ toStart' = {} THEN "idle" ELSE "signal"
  /\ UNCHANGED <<down, pc, checkVars, countVars, threads, shut>>

\* _desired_checks returned the checks; _reconcile compares them with the
\* running threads.
Poll(rows) ==
  /\ mgr = "poll"
  /\ desired' = DesiredChecks(rows)
  /\ toStop' = {threads[i] : i \in Outdated(DesiredChecks(rows))}
  /\ toStart' = Missing(DesiredChecks(rows))
  /\ mgr' = "signal"
  /\ UNCHANGED <<down, pc, checkVars, countVars, threads, shut>>

\* Fault: the threads are joined without having been signalled.
SignalThreads_JoinOnly ==
  /\ mgr = "signal"
  /\ mgr' = "join"
  /\ UNCHANGED <<down, pc, checkVars, countVars,
                 threads, desired, toStop, toStart, shut>>

\* _stop_threads: every thread still alive is signalled before any is joined.
SignalThreads ==
  /\ mgr = "signal"
  /\ stop' = [t \in Threads |-> stop[t] \/ (t \in toStop /\ Alive(t))]
  /\ mgr' = "join"
  /\ UNCHANGED <<down, pc, cid, chk, countVars,
                 threads, desired, toStop, toStart, shut>>

\* _reconcile drops the stopped threads from _threads.
PopThreads ==
  /\ threads' = [i \in Ids |-> IF \E t \in toStop : cid[t] = i THEN NoThread ELSE threads[i]]
  /\ toStop' = {}
  /\ mgr' = "start"
  /\ UNCHANGED <<down, pc, checkVars, countVars,
                 desired, toStart, shut>>

\* _stop_threads: every signalled thread ended within the shared budget.
Joined ==
  /\ mgr = "join" /\ \A t \in toStop : ~Alive(t)
  /\ PopThreads

\* _stop_threads: the budget is spent; the threads still alive are abandoned.
Abandon ==
  /\ mgr = "join" /\ \E t \in toStop : Alive(t)
  /\ PopThreads

\* Fault: a replaced check starts from a clean status.
StartThread_ClearsStatus(i, t) ==
  /\ mgr = "start" /\ i \in toStart /\ Free(t)
  /\ pc' = [pc EXCEPT ![t] = "ready"]
  /\ cid' = [cid EXCEPT ![t] = i]
  /\ chk' = [chk EXCEPT ![t] = desired[i]]
  /\ stop' = [stop EXCEPT ![t] = FALSE]
  /\ fall' = [fall EXCEPT ![t] = 0]
  /\ rise' = [rise EXCEPT ![t] = 0]
  /\ hist' = [hist EXCEPT ![t] = NoResults]
  /\ threads' = [threads EXCEPT ![i] = t]
  /\ toStart' = toStart \ {i}
  /\ down' = down \ {i}
  /\ UNCHANGED <<mgr, desired, toStop, shut>>

\* _start_thread: a new CheckThread with fresh counters, kept in _threads.
StartThread(i, t) ==
  /\ mgr = "start" /\ i \in toStart /\ Free(t)
  /\ pc' = [pc EXCEPT ![t] = "ready"]
  /\ cid' = [cid EXCEPT ![t] = i]
  /\ chk' = [chk EXCEPT ![t] = desired[i]]
  /\ stop' = [stop EXCEPT ![t] = FALSE]
  /\ fall' = [fall EXCEPT ![t] = 0]
  /\ rise' = [rise EXCEPT ![t] = 0]
  /\ hist' = [hist EXCEPT ![t] = NoResults]
  /\ threads' = [threads EXCEPT ![i] = t]
  /\ toStart' = toStart \ {i}
  /\ UNCHANGED <<down, mgr, desired, toStop, shut>>

\* An exception leaves task() and ends MonitorManager: the database call
\* raised something that is no Database.Error, or Thread.start raised.
ManagerCrashes ==
  /\ mgr = "poll" \/ (mgr = "start" /\ toStart # {})
  /\ mgr' = "dead"
  /\ UNCHANGED <<down, pc, checkVars, countVars,
                 threads, desired, toStop, toStart, shut>>

\* _clean_status on every reconciliation, changed or not: retain drops every
\* id that is not monitored.  (The ids it reports are only logged.)
Retain ==
  /\ mgr = "start" /\ toStart = {}
  /\ down' = down \cap DesiredIds
  /\ mgr' = "idle"
  /\ UNCHANGED <<pc, checkVars, countVars, threads, desired, toStop, toStart, shut>>

-----------------------------------------------------------------------------
(* MonitorManager.shutdown, called by the main thread *)

\* The check threads of a snapshot of _threads are signalled.
ShutdownSignals ==
  /\ shut = "no"
  /\ shut' = "signalled"
  /\ stop' = [t \in Threads |-> stop[t] \/ t \in Managed]
  /\ UNCHANGED <<down, pc, cid, chk, countVars, mgrVars>>

\* Then the monitor's own shutdown request is set.
ShutdownRequests ==
  /\ shut = "signalled"
  /\ shut' = "requested"
  /\ UNCHANGED <<down, pc, checkVars, countVars, mgrVars>>

-----------------------------------------------------------------------------
CheckThreadStep(t) ==
  StopLoop(t) \/ RunCheck(t) \/ CheckFall(t) \/ CheckRise(t) \/ SetDown(t) \/ SetUp(t)

ReconcileStep ==
  \/ SignalThreads \/ Joined \/ Abandon
  \/ \E i \in Ids, t \in Threads : StartThread(i, t)
  \/ Retain

ManagerStep ==
  \/ ManagerWakes \/ ManagerStops \/ PollFails \/ ReconcileStep \/ ManagerCrashes
  \/ \E rows \in [Ids -> Rows] : Poll(rows)

MainStep == ShutdownSignals \/ ShutdownRequests

Next ==
  \/ \E t \in Threads : CheckThreadStep(t) \/ Crash(t)
  \/ ManagerStep
  \/ MainStep

Spec == Init /\ [][Next]_vars

(***************************************************************************)
(* Scheduling: every thread that can run eventually runs, an execution     *)
(* returns (Check.execute must never block indefinitely), and a database   *)
(* that is asked again and again eventually answers.  Nothing is assumed   *)
(* of results, crashes and shutdown.                                      *)
(***************************************************************************)
Fairness ==
  /\ \A t \in Threads : WF_vars(CheckThreadStep(t))
  /\ WF_vars(ManagerWakes) /\ WF_vars(ManagerStops)
  /\ WF_vars(ReconcileStep) /\ SF_vars(\E rows \in [Ids -> Rows] : Poll(rows))

FairSpec == Spec /\ Fairness

-----------------------------------------------------------------------------
(* Properties *)

TypeOK ==
  /\ down \subseteq Ids
  /\ pc \in [Threads -> {"ready", "exec", "setDown", "setUp", "dead"}]
  /\ cid \in [Threads -> Ids] /\ chk \in [Threads -> Checks]
  /\ fall \in [Threads -> 0..Window] /\ rise \in [Threads -> 0..Window]
  /\ stop \in [Threads -> BOOLEAN]
  /\ hist \in [Threads -> [1..Window -> {"none", "ok", "fail"}]]
  /\ mgr \in {"idle", "poll", "signal", "join", "start", "stopped", "dead"}
  /\ threads \in [Ids -> Threads \cup {NoThread}]
  /\ desired \in [Ids -> Checks \cup {NoCheck}]
  /\ toStop \subseteq Threads /\ toStart \subseteq Ids
  /\ shut \in {"no", "signalled", "requested"}

\* "one CheckThread per content id": whatever was removed, replaced, crashed
\* or abandoned before, a CheckThread nobody asked to stop is the one
\* _threads holds for its id.
OneActiveThread ==
  \A t \in Threads : Alive(t) /\ ~stop[t] => threads[cid[t]] = t

\* What a reconciliation leaves for id i: a thread for a monitored id, running
\* the check last read from the database, and none for another id.
Settled(i) ==
  IF desired[i] = NoCheck THEN threads[i] = NoThread
  ELSE threads[i] # NoThread /\ cid[threads[i]] = i /\ chk[threads[i]] = desired[i]

\* Between two reconciliations, whatever the previous ones stopped, replaced
\* and abandoned, _threads is what the last answer of the database asks for.
Reconciled ==
  mgr \in {"idle", "poll", "stopped"} => \A i \in Ids : Settled(i)

\* The strengthening that makes the two invariants above inductive: what
\* _reconcile's locals mean while it stops and starts threads.
Reconciling ==
  /\ \A i \in Ids : threads[i] # NoThread => cid[threads[i]] = i
  /\ \A i \in toStart : desired[i] \in Checks
  /\ mgr \in {"signal", "join"} =>
       /\ \A t \in toStop : threads[cid[t]] = t
       /\ \A i \in toStart : threads[i] = NoThread \/ threads[i] \in toStop
       /\ \A i \in Ids \ toStart :
            IF threads[i] \in toStop THEN desired[i] = NoCheck ELSE Settled(i)
  /\ mgr = "join" => \A t \in toStop : Alive(t) => stop[t]
  /\ mgr = "start" => /\ \A i \in toStart : threads[i] = NoThread
                      /\ \A i \in Ids \ toStart : Settled(i)

\* What the counters mean: so many results of one kind, the latest ones, and
\* a thread about to write the registry has reached its threshold.
Counted ==
  \A t \in Threads :
    /\ \A k \in 1..fall[t] : hist[t][k] = "fail"
    /\ \A k \in 1..rise[t] : hist[t][k] = "ok"
    /\ pc[t] = "setDown" => fall[t] >= Fall[chk[t]]
    /\ pc[t] = "setUp" => rise[t] >= Rise[chk[t]]

\* The thread that takes this step checks id i, and its last executions, as
\* many as the threshold n of its check asks for, all had result r.
Evidence(i, n, r) ==
  \E t \in Threads : /\ cid[t] = i /\ pc'[t] # pc[t]
                     /\ \A k \in 1..n[chk[t]] : hist[t][k] = r

\* A content id goes down only after Check.fall consecutive failures of one
\* thread checking it; it comes up only after Check.rise consecutive
\* successes, or because a reconciliation found it no longer monitored.
Debounced ==
  [][\A i \in Ids :
       /\ i \in down' \ down => Evidence(i, Fall, "fail")
       /\ i \in down \ down' => \/ Evidence(i, Rise, "ok")
                                \/ mgr = "start" /\ desired[i] = NoCheck]_vars

\* Replacing or restarting the thread of an id that stays monitored never
\* changes its status: in a step in which no live CheckThread moves, that is a
\* step of MonitorManager, only ids that are not monitored leave the registry.
StatusKept ==
  [][(\A t \in Threads : Alive(t) => pc'[t] = pc[t]) =>
       /\ down' \subseteq down
       /\ \A i \in down \ down' : desired[i] = NoCheck]_vars

\* No shutdown, no exception: MonitorManager keeps going.
Running == shut = "no" /\ mgr # "dead"

\* From now on every execution for id i that returns fails (passes), and no
\* thread of i dies.
AlwaysFails(i) == [][\A t \in Threads : cid[t] = i => ~CheckRise(t) /\ ~Crash(t)]_vars
AlwaysPasses(i) == [][\A t \in Threads : cid[t] = i => ~CheckFall(t) /\ ~Crash(t)]_vars

\* A target that keeps failing one and the same check ends up down for good,
\* and one that keeps passing it ends up up for good, whatever stragglers of
\* earlier checks, dead threads, database errors and the edits of other rows
\* did before.
EventuallyDown ==
  \A i \in Ids, c \in Checks :
    <>[](Running /\ desired[i] = c) /\ <>AlwaysFails(i) => <>[](i \in down)

EventuallyUp ==
  \A i \in Ids, c \in Checks :
    <>[](Running /\ desired[i] = c) /\ <>AlwaysPasses(i) => <>[](i \notin down)

\* An id whose row was removed, skipped or broken is not left down, even if
\* an abandoned thread marks it down after the reconciliation that removed it.
EventuallyForgotten ==
  \A i \in Ids :
    <>[](Running /\ desired[i] = NoCheck) => <>[](i \notin down)

\* "then stop the monitor itself": a requested shutdown ends MonitorManager,
\* also from the middle of a reconciliation with threads that do not stop.
ShutdownCompletes == shut = "requested" ~> mgr \in {"stopped", "dead"}
=============================================================================
