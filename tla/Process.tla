------------------------------- MODULE Process -------------------------------
(***************************************************************************)
(* The life of a SOM++ process and of its GC threads: Main.cpp,            *)
(* Universe::Start and Universe::Quit, the constructor of Heap, and the    *)
(* part of OMR they drive (src/omr32/gc/base): MM_ParallelDispatcher,      *)
(* which forks the slave threads, hands them tasks and shuts them down,    *)
(* and MM_ParallelTask, whose barriers keep the threads of a task in step. *)
(*                                                                         *)
(* The main thread is thread 0; it runs the program, is the master of      *)
(* every task and ends the process.  A task is a sequence of barriers: at  *)
(* an "all" point (synchronizeGCThreads) everybody waits for everybody, at *)
(* a "master" point (synchronizeGCThreadsAndReleaseMaster) the others wait *)
(* until the master has worked alone.  What happens between two barriers   *)
(* of the mark task is modelled in Marking.                                *)
(*                                                                         *)
(* Each critical section of _slaveThreadMutex, _dispatcherMonitor and      *)
(* _synchronizeMutex is one step, up to an omrthread_monitor_wait if it    *)
(* contains one: everything the sections access is accessed inside them.   *)
(* A waiting thread goes on only when it was notified: omrthread does not  *)
(* let other wake-ups through.                                             *)
(***************************************************************************)
EXTENDS Naturals, Sequences

CONSTANTS
  SlaveCount,   \* _threadCountMaximum - 1
  MaxTasks,     \* bound on the collections' tasks
  SyncPoints,   \* the barriers of a task: a sequence of "all" and "master"
  None

Slave == 1 .. SlaveCount
Thread == 0 .. SlaveCount

ASSUME ProcessCountAssumption == SlaveCount \in Nat /\ MaxTasks \in Nat
ASSUME ProcessSyncAssumption == SyncPoints \in Seq({"all", "master"})
ASSUME ProcessNoneAssumption == None \notin Nat

VARIABLES
  pc,           \* thread -> where it is
  flags,        \* slaveInfo.slaveFlags of the slave being started
  forked,       \* slaveThreadCount: slaves started so far
  shutdownCount,\* _threadShutdownCount
  inShutdown,   \* _inShutdown
  threadCount,  \* MM_ParallelDispatcher::_threadCount
  reserved,     \* _slaveThreadsReservedForGC
  statusTable,
  taskTable,
  current,      \* thread -> env->_currentTask
  taskNo,       \* the task of the master, numbered
  total, left,  \* its _totalThreadCount and _threadCount
  syncCount,    \* its _synchronizeCount
  syncIndex,    \* its _synchronizeIndex
  index,        \* thread -> the index it read at a barrier
  point         \* thread -> the barrier of the task it has come to

dispatcher == <<flags, forked, shutdownCount, inShutdown, threadCount>>
tables == <<reserved, statusTable, taskTable>>
task == <<taskNo, total, left, syncCount, syncIndex>>
thread == <<current, index, point>>
vars == <<pc, dispatcher, tables, task, thread>>

Goto(t, l) == pc' = [pc EXCEPT ![t] = l]

\* Where the threads that wait on the three monitors go on when they are notified.
Awake == [asleep |-> "loop", awaitSlave |-> "slaveCalled", awaitSlaves |-> "slaveLeft",
          barrier |-> "barrierWoken", held |-> "heldWoken", completing |-> "completingWoken"]
slaveThreadMutex == {"asleep"}
dispatcherMonitor == {"awaitSlave", "awaitSlaves"}
synchronizeMutex == {"barrier", "held", "completing"}

\* omrthread_monitor_notify_all by thread t, which goes on to m.
NotifyAll(monitor, t, m) ==
  pc' = [u \in Thread |-> IF u = t THEN m ELSE IF pc[u] \in monitor THEN Awake[pc[u]] ELSE pc[u]]

Init ==
  /\ pc = [t \in Thread |-> IF t = 0 THEN "initialize" ELSE "unborn"]
  /\ flags = "none"
  /\ forked = 0
  /\ shutdownCount = 0
  /\ inShutdown = FALSE
  /\ threadCount = 1
  /\ reserved = FALSE
  /\ statusTable = [t \in Thread |-> "inactive"]
  /\ taskTable = [t \in Thread |-> None]
  /\ current = [t \in Thread |-> None]
  /\ taskNo = 0
  /\ total = 0
  /\ left = 0
  /\ syncCount = 0
  /\ syncIndex = 0
  /\ index = [t \in Thread |-> 0]
  /\ point = [t \in Thread |-> 0]

-----------------------------------------------------------------------------
(***************************************************************************)
(* Starting: Universe::initialize, Heap::Heap, startUpThreads.             *)
(***************************************************************************)

\* handleArguments: -h, or a wrong -cp, prints the usage and quits, before there is
\* an OMR_VMThread; Quit reads through the null pointer.
printUsageAndExit ==
  /\ pc[0] = "initialize"
  /\ Goto(0, "crashed")
  /\ UNCHANGED <<dispatcher, tables, task, thread>>

\* OMR_Initialize and OMR_GC_IntializeHeapAndCollector succeed, or an assertion
\* ends the process.
InitializeHeap ==
  /\ pc[0] = "initialize"
  /\ Goto(0, "fork") \/ Goto(0, "aborted")
  /\ UNCHANGED <<dispatcher, tables, task, thread>>

\* The loop of startUpThreads waits on _dispatcherMonitor for the slave's call.
AwaitSlave == IF inShutdown THEN "shutDown" ELSE "awaitSlave"

\* startUpThreads forks the next slave and waits for it.
createThread ==
  /\ pc[0] = "fork"
  /\ forked < SlaveCount
  /\ flags' = "none"
  /\ pc' = [pc EXCEPT ![0] = AwaitSlave, ![forked + 1] = "attach"]
  /\ UNCHANGED <<forked, shutdownCount, inShutdown, threadCount, tables, task, thread>>

createThreadFailed ==
  /\ pc[0] = "fork"
  /\ forked < SlaveCount
  /\ Goto(0, "shutDown")
  /\ UNCHANGED <<dispatcher, tables, task, thread>>

\* Mutated form: the slave is not counted.
slaveStarted_Uncounted ==
  /\ pc[0] = "slaveCalled"
  /\ IF flags = "ok" THEN Goto(0, "fork") /\ forked' = forked + 1
       ELSE Goto(0, "shutDown") /\ UNCHANGED forked
  /\ UNCHANGED <<flags, shutdownCount, inShutdown, threadCount, tables, task, thread>>

\* A slave has called: it is counted, or it has failed and all is shut down.
slaveStarted ==
  /\ pc[0] = "slaveCalled"
  /\ IF flags = "ok"
       THEN Goto(0, "fork") /\ forked' = forked + 1 /\ shutdownCount' = shutdownCount + 1
       ELSE /\ Goto(0, IF flags = "failed" THEN "shutDown" ELSE AwaitSlave)
            /\ UNCHANGED <<forked, shutdownCount>>
  /\ UNCHANGED <<flags, inShutdown, threadCount, tables, task, thread>>

startUpThreads ==
  /\ pc[0] = "fork"
  /\ forked = SlaveCount
  /\ threadCount' = SlaveCount + 1
  /\ Goto(0, "running")
  /\ UNCHANGED <<flags, forked, shutdownCount, inShutdown, tables, task, thread>>

\* dispatcher_thread_proc2 attaches the slave to the VM.
attachVMThread(s) ==
  /\ pc[s] = "attach"
  /\ \/ flags' = "ok" /\ Goto(s, "attached")
     \/ flags' = "failed" /\ Goto(s, "attachFailed")
  /\ UNCHANGED <<forked, shutdownCount, inShutdown, threadCount, tables, task, thread>>

\* startup_failed: the slave notifies and exits.
startupFailed(s) ==
  /\ pc[s] = "attachFailed"
  /\ NotifyAll(dispatcherMonitor, s, "gone")
  /\ UNCHANGED <<dispatcher, tables, task, thread>>

\* Mutated form: the slave does not tell that it is ready.
setThreadInitializationComplete_Silent(s) ==
  /\ pc[s] = "attached"
  /\ statusTable' = [statusTable EXCEPT ![s] = "waiting"]
  /\ Goto(s, "loop")
  /\ UNCHANGED <<dispatcher, reserved, taskTable, task, thread>>

setThreadInitializationComplete(s) ==
  /\ pc[s] = "attached"
  /\ statusTable' = [statusTable EXCEPT ![s] = "waiting"]
  /\ NotifyAll(dispatcherMonitor, s, "loop")
  /\ UNCHANGED <<dispatcher, reserved, taskTable, task, thread>>

-----------------------------------------------------------------------------
(***************************************************************************)
(* Dispatching a task.                                                     *)
(***************************************************************************)

\* MM_Dispatcher::run: the master makes a task and prepareThreadsForTask reserves
\* the threads for it; adjustThreadCount may take fewer than there are.
prepareThreadsForTask ==
  /\ pc[0] = "running"
  /\ taskNo < MaxTasks
  /\ \E active \in 1 .. threadCount :
       /\ total' = active
       /\ left' = active
       /\ statusTable' = [t \in Thread |-> IF t < active THEN "reserved" ELSE statusTable[t]]
       /\ taskTable' = [t \in Thread |-> IF t < active THEN taskNo + 1 ELSE taskTable[t]]
  /\ reserved' = TRUE
  /\ taskNo' = taskNo + 1
  /\ syncCount' = 0
  /\ syncIndex' = 0
  /\ NotifyAll(slaveThreadMutex, 0, "accept")
  /\ UNCHANGED <<dispatcher, current, index, point>>

\* acceptTask.
Accept(t) ==
  /\ statusTable' = [statusTable EXCEPT ![t] = "active"]
  /\ current' = [current EXCEPT ![t] = taskTable[t]]
  /\ point' = [point EXCEPT ![t] = 1]
  /\ Goto(t, "run")

masterAcceptTask ==
  /\ pc[0] = "accept"
  /\ Accept(0)
  /\ UNCHANGED <<dispatcher, reserved, taskTable, task, index>>

\* slaveEntryPoint, under _slaveThreadMutex.
slaveEntryPoint(s) ==
  /\ pc[s] = "loop"
  /\ \/ statusTable[s] = "waiting" /\ Goto(s, "asleep") /\ UNCHANGED <<statusTable, thread>>
     \/ statusTable[s] = "dying" /\ Goto(s, "detach") /\ UNCHANGED <<statusTable, thread>>
     \/ statusTable[s] = "reserved" /\ Accept(s) /\ UNCHANGED index
  /\ UNCHANGED <<dispatcher, reserved, taskTable, task>>

\* The task's work up to the next barrier is done.  At a "master" point the index is
\* read before the monitor is entered.
At(t, kind) ==
  /\ pc[t] = "run"
  /\ point[t] <= Len(SyncPoints)
  /\ SyncPoints[point[t]] = kind

\* Mutated form: the thread counts itself twice.
LastToCome_Early == syncCount + 2 = left

LastToCome == syncCount + 1 = left

Pass(t) == point' = [point EXCEPT ![t] = @ + 1]

synchronizeGCThreads(t) ==
  /\ At(t, "all")
  /\ IF total = 1
       THEN Pass(t) /\ UNCHANGED <<pc, syncCount, syncIndex, index>>
       ELSE IF LastToCome
         THEN /\ syncCount' = 0
              /\ syncIndex' = syncIndex + 1
              /\ NotifyAll(synchronizeMutex, t, "run")
              /\ Pass(t)
              /\ UNCHANGED index
         ELSE /\ syncCount' = syncCount + 1
              /\ index' = [index EXCEPT ![t] = syncIndex]
              /\ Goto(t, "barrier")
              /\ UNCHANGED <<syncIndex, point>>
  /\ UNCHANGED <<dispatcher, tables, taskNo, total, left, current>>

\* The loop around omrthread_monitor_wait at a barrier.
barrierLoop(t) ==
  /\ pc[t] = "barrierWoken"
  /\ IF index[t] = syncIndex
       THEN Goto(t, "barrier") /\ UNCHANGED point
       ELSE Goto(t, "run") /\ Pass(t)
  /\ UNCHANGED <<dispatcher, tables, task, current, index>>

\* synchronizeGCThreadsAndReleaseMaster reads the index ...
readIndex(t) ==
  /\ At(t, "master")
  /\ index' = [index EXCEPT ![t] = syncIndex]
  /\ Goto(t, IF total = 1 THEN "alone" ELSE "hold")
  /\ UNCHANGED <<dispatcher, tables, task, current, point>>

\* ... enters the monitor, is counted, and waits unless it is the master and the last
\* to come, or the index has moved on since it was read.
synchronizeGCThreadsAndReleaseMaster(t) ==
  LET next == IF LastToCome /\ t = 0 THEN "alone"
                ELSE IF index[t] # syncIndex THEN "run" ELSE "held"
  IN  /\ pc[t] = "hold"
      /\ syncCount' = syncCount + 1
      /\ IF LastToCome /\ t # 0 THEN NotifyAll(synchronizeMutex, t, next) ELSE Goto(t, next)
      /\ IF next = "run" THEN Pass(t) ELSE UNCHANGED point
      /\ UNCHANGED <<dispatcher, tables, taskNo, total, left, syncIndex, current, index>>

MayGoAlone(t) == t = 0 /\ syncCount = left

\* The loop around its omrthread_monitor_wait.
heldLoop(t) ==
  /\ pc[t] = "heldWoken"
  /\ IF index[t] # syncIndex
       THEN Goto(t, "run") /\ Pass(t)
       ELSE Goto(t, IF MayGoAlone(t) THEN "alone" ELSE "held") /\ UNCHANGED point
  /\ UNCHANGED <<dispatcher, tables, task, current, index>>

\* The master has worked alone.
releaseSynchronizedGCThreads ==
  /\ pc[0] = "alone"
  /\ IF total = 1
       THEN Goto(0, "run") /\ UNCHANGED <<syncCount, syncIndex>>
       ELSE /\ syncCount' = 0
            /\ syncIndex' = syncIndex + 1
            /\ NotifyAll(synchronizeMutex, 0, "run")
  /\ Pass(0)
  /\ UNCHANGED <<dispatcher, tables, taskNo, total, left, current, index>>

\* completeTask, and what all threads do in MM_ParallelTask::complete.
Complete(t) ==
  /\ pc[t] = "run"
  /\ point[t] > Len(SyncPoints)
  /\ statusTable' = [statusTable EXCEPT ![t] = "waiting"]
  /\ taskTable' = [taskTable EXCEPT ![t] = None]
  /\ current' = [current EXCEPT ![t] = None]
  /\ left' = left - 1
  /\ syncCount' = IF total = 1 THEN syncCount ELSE syncCount + 1
  /\ UNCHANGED <<dispatcher, reserved, taskNo, total, syncIndex, index, point>>

\* A slave completes; the last one notifies the master.
slaveComplete(s) ==
  /\ Complete(s)
  /\ IF left = 1 THEN NotifyAll(synchronizeMutex, s, "loop") ELSE Goto(s, "loop")

\* Synchronization on exit.
MasterWaits == left' # 0

masterComplete ==
  /\ Complete(0)
  /\ Goto(0, IF MasterWaits THEN "completing" ELSE "cleanup")

masterCompleteLoop ==
  /\ pc[0] = "completingWoken"
  /\ Goto(0, IF left # 0 THEN "completing" ELSE "cleanup")
  /\ UNCHANGED <<dispatcher, tables, task, thread>>

\* cleanupAfterTask; the task object is gone.
cleanupAfterTask ==
  /\ pc[0] = "cleanup"
  /\ reserved' = FALSE
  /\ IF inShutdown THEN NotifyAll(slaveThreadMutex, 0, "running") ELSE Goto(0, "running")
  /\ UNCHANGED <<dispatcher, statusTable, taskTable, task, thread>>

-----------------------------------------------------------------------------
(***************************************************************************)
(* Ending: Universe::Quit and shutDownThreads.                             *)
(***************************************************************************)

\* The program is over, exits or fails: Main.cpp, System>>exit:, ErrorExit, the end
\* of the input of the shell.
Quit ==
  /\ pc[0] = "running"
  /\ Goto(0, "shutDown")
  /\ UNCHANGED <<dispatcher, tables, task, thread>>

shutDownThreads ==
  /\ pc[0] = "shutDown"
  /\ ~ reserved
  /\ inShutdown' = TRUE
  /\ statusTable' = [t \in Thread |-> "dying"]
  /\ threadCount' = 1
  /\ NotifyAll(slaveThreadMutex, 0, "slaveLeft")
  /\ UNCHANGED <<flags, forked, shutdownCount, reserved, taskTable, task, thread>>

\* A slave leaves slaveEntryPoint and detaches from the VM.
detachVMThread(s) ==
  /\ pc[s] = "detach"
  /\ Goto(s, "detached")
  /\ UNCHANGED <<dispatcher, tables, task, thread>>

\* omrthread_monitor_notify: only the main thread waits on _dispatcherMonitor, so
\* notifying one thread is notifying all.
slaveExit(s) ==
  /\ pc[s] = "detached"
  /\ shutdownCount' = shutdownCount - 1
  /\ NotifyAll(dispatcherMonitor, s, "gone")
  /\ UNCHANGED <<flags, forked, inShutdown, threadCount, tables, task, thread>>

\* The loop at the end of shutDownThreads.
awaitShutdown ==
  /\ pc[0] = "slaveLeft"
  /\ Goto(0, IF shutdownCount = 0 THEN "stopped" ELSE "awaitSlaves")
  /\ UNCHANGED <<dispatcher, tables, task, thread>>

\* After an ordinary Quit: the dispatcher is killed, then collector, thread, heap,
\* tables and VM are shut down in turn.  A start that has failed shuts down once
\* more (OMR_GC_InitializeDispatcherThreads) and aborts.
OMR_Shutdown ==
  /\ pc[0] = "stopped"
  /\ Goto(0, IF forked = SlaveCount THEN "exited" ELSE "aborted")
  /\ UNCHANGED <<dispatcher, tables, task, thread>>

MainStep ==
  \/ printUsageAndExit \/ InitializeHeap \/ createThread \/ createThreadFailed
  \/ slaveStarted \/ startUpThreads \/ prepareThreadsForTask \/ masterAcceptTask
  \/ releaseSynchronizedGCThreads \/ masterComplete \/ masterCompleteLoop \/ cleanupAfterTask
  \/ Quit \/ shutDownThreads \/ awaitShutdown \/ OMR_Shutdown

SlaveStep(s) ==
  \/ attachVMThread(s) \/ startupFailed(s) \/ setThreadInitializationComplete(s)
  \/ slaveEntryPoint(s) \/ slaveComplete(s) \/ detachVMThread(s) \/ slaveExit(s)

SyncStep(t) ==
  \/ synchronizeGCThreads(t) \/ barrierLoop(t) \/ readIndex(t)
  \/ synchronizeGCThreadsAndReleaseMaster(t) \/ heldLoop(t)

Next ==
  \/ MainStep
  \/ \E s \in Slave : SlaveStep(s)
  \/ \E t \in Thread : SyncStep(t)

\* Threads of the operating system: one that can go on does.
Fairness ==
  /\ WF_vars(MainStep \/ SyncStep(0))
  /\ \A s \in Slave : WF_vars(SlaveStep(s) \/ SyncStep(s))

Spec == Init /\ [][Next]_vars /\ Fairness

-----------------------------------------------------------------------------
(***************************************************************************)
(* Properties.                                                             *)
(***************************************************************************)
InTask(t) == current[t] # None

\* Nothing is used after its end: no slave works on a task the master has completed
\* ("cannot delete the task object until all threads are done with it"), and none
\* is alive when the dispatcher and the VM are shut down.
NothingDangles ==
  /\ \A s \in Slave : InTask(s) => current[s] = taskNo /\ pc[0] \in
       {"accept", "run", "barrier", "barrierWoken", "hold", "held", "heldWoken", "alone",
        "completing", "completingWoken"}
  /\ pc[0] = "exited" => \A s \in Slave : pc[s] = "gone"

Waiting(t) == pc[t] \in {"barrier", "held"}

\* The barriers keep the threads of a task in step: those that wait wait at the same
\* point (the assertions on _syncPointUniqueId), nobody has passed a barrier that
\* another thread of the task has not come to (who is behind has come, and has only
\* not yet run since it was notified; who has not accepted the task holds up the
\* first barrier), and while the master works alone the others wait.
BarriersHold ==
  /\ \A t, u \in Thread : InTask(t) /\ InTask(u) /\ Waiting(t) /\ Waiting(u)
       /\ index[t] = syncIndex /\ index[u] = syncIndex => point[t] = point[u]
  /\ \A t, u \in Thread : InTask(t) /\ InTask(u) /\ point[t] > point[u] =>
       pc[u] \in {"barrierWoken", "heldWoken"} /\ point[t] = point[u] + 1
  /\ \A t, u \in Thread : InTask(t) /\ statusTable[u] = "reserved" => point[t] = 1
  /\ pc[0] = "alone" => \A s \in Slave :
       s < total => pc[s] \in {"held", "heldWoken"} /\ point[s] = point[0]

\* The process ends, however its threads are scheduled, whether or not all slaves
\* could be started: no thread waits for ever for one that has gone.
ProcessEnds == <>(pc[0] \in {"exited", "aborted", "crashed"})
=============================================================================
