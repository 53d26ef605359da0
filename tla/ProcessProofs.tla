---------------------------- MODULE ProcessProofs ----------------------------
(***************************************************************************)
(* Proofs about Process: for any number of slaves, any number of tasks and *)
(* any sequence of barriers, no slave outlives its task or the dispatcher, *)
(* and the barriers keep the threads of a task in step.                    *)
(*                                                                         *)
(* The properties speak of what one thread may conclude about all others   *)
(* from a counter.  The invariant says what each counter counts:           *)
(* shutdownCount the slaves that were counted and have not gone, left the  *)
(* threads that have not completed, syncCount those that have come to the  *)
(* next barrier or have completed; and syncIndex is the number of barriers *)
(* behind everybody.  A thread that finds a counter at its limit then      *)
(* knows that the set is empty, or is everybody.                           *)
(***************************************************************************)
EXTENDS Process, FiniteSetTheorems, TLAPS

\* Where a thread is inside a task.
Working == {"run", "barrier", "barrierWoken", "hold", "held", "heldWoken", "alone"}

\* Where the main thread is while it owns a task that is not over.
TaskPc == Working \cup {"accept", "completing", "completingWoken"}

\* Where it is once it has told the slaves to die.
Ended == {"slaveLeft", "awaitSlaves", "stopped", "exited"}

MainPc == TaskPc \cup Ended \cup {"initialize", "fork", "awaitSlave", "slaveCalled", "crashed",
                                  "aborted", "running", "cleanup", "shutDown"}

\* A slave that does not yet wait for tasks.
Unstarted == {"unborn", "attach", "attached", "attachFailed"}

SlavePc == Unstarted \cup (Working \ {"alone"})
             \cup {"loop", "asleep", "detach", "detached", "gone"}

AllPc == MainPc \cup SlavePc

Status == {"inactive", "waiting", "reserved", "active", "dying"}

\* The types of the variables, except for the two counters that AliveCounted and
\* LeftCounted define.
ProcessTypes ==
  /\ pc \in [Thread -> AllPc]
  /\ pc[0] \in MainPc
  /\ \A s \in Slave : pc[s] \in SlavePc
  /\ flags \in {"none", "ok", "failed"}
  /\ forked \in 0 .. SlaveCount
  /\ inShutdown \in BOOLEAN
  /\ threadCount \in 1 .. SlaveCount + 1
  /\ statusTable \in [Thread -> Status]
  /\ taskTable \in [Thread -> Nat \cup {None}]
  /\ current \in [Thread -> Nat \cup {None}]
  /\ taskNo \in Nat
  /\ total \in 0 .. SlaveCount + 1
  /\ syncCount \in Nat
  /\ syncIndex \in Nat
  /\ index \in [Thread -> Nat]
  /\ point \in [Thread -> Nat]

\* The slaves that were counted and have not gone.
Alive == {s \in Slave : s <= forked /\ pc[s] # "gone"}

\* What startUpThreads knows about the slave it has just forked.
NextSlave(s) ==
  \/ pc[0] = "awaitSlave" /\ \/ pc[s] = "attach"
                             \/ pc[s] = "attached" /\ flags = "ok"
                             \/ pc[s] = "attachFailed" /\ flags = "failed"
  \/ pc[0] = "slaveCalled" /\ \/ pc[s] \in {"loop", "asleep"} /\ flags = "ok"
                              \/ pc[s] = "gone" /\ flags = "failed"
  \/ pc[0] \notin {"awaitSlave", "slaveCalled"} /\ pc[s] = "unborn"
  \/ pc[0] \in {"shutDown", "aborted"} \cup Ended /\ pc[s] = "gone"

\* How far the slaves are, by the number of those that were started.
Started ==
  /\ \A s \in Slave : /\ s <= forked => pc[s] \notin Unstarted
                      /\ s <= forked /\ pc[s] = "gone" => inShutdown
                      /\ s = forked + 1 => NextSlave(s)
                      /\ s > forked + 1 => pc[s] = "unborn"
  /\ pc[0] \in TaskPc \cup {"running", "cleanup", "exited"} => forked = SlaveCount
  /\ pc[0] \in {"awaitSlave", "slaveCalled"} => forked < SlaveCount
  /\ inShutdown => pc[0] \in Ended \cup {"aborted"}
  /\ pc[0] \in Ended => inShutdown
  /\ pc[0] \in {"stopped", "exited"} => shutdownCount = 0

\* _threadShutdownCount.
AliveCounted == shutdownCount = Cardinality(Alive)

\* Status of a thread, by where it is.
Statuses ==
  /\ \A t \in Thread : /\ statusTable[t] = "active" <=> pc[t] \in Working
                       /\ statusTable[t] = "reserved" => pc[t] \in {"loop", "accept"}
                       /\ statusTable[t] = "dying" <=> inShutdown
  /\ \A s \in Slave : /\ pc[s] = "loop" => statusTable[s] \in {"waiting", "reserved", "dying"}
                      /\ pc[s] = "asleep" => statusTable[s] = "waiting"
                      /\ pc[s] \in {"detach", "detached"} => statusTable[s] = "dying"
  /\ pc[0] = "accept" => statusTable[0] = "reserved"

\* The threads that have not completed the task.
Unfinished == {t \in Thread : taskTable[t] # None}

\* Threads are reserved for or active in the task of the master, and only while it is
\* not over.
Tasks ==
  /\ \A t \in Thread : /\ taskTable[t] # None <=> statusTable[t] \in {"reserved", "active"}
                       /\ taskTable[t] # None => taskTable[t] = taskNo /\ t < total
                       /\ current[t] # None <=> pc[t] \in Working
                       /\ current[t] # None => current[t] = taskNo
  /\ pc[0] \notin TaskPc => Unfinished = {}

\* MM_ParallelTask::_threadCount.
LeftCounted == left = Cardinality(Unfinished)

\* A task of several threads; one alone passes the barriers without counting.
ParallelTask == pc[0] \in TaskPc /\ total > 1

\* The thread has come to the next barrier.
AtBarrier(t) ==
  pc[t] \in {"barrier", "barrierWoken", "held", "heldWoken", "alone"} /\ index[t] = syncIndex

\* The threads the count of the barrier stands for.
Counted == {t \in Thread : t < total /\ (taskTable[t] = None \/ AtBarrier(t))}

\* syncIndex barriers are behind everybody; a thread is before the next one, at it, or
\* has not yet noticed that it may leave the last one.
InStep(t) ==
  \/ statusTable[t] = "reserved" /\ syncIndex = 0
  \/ pc[t] = "run" /\ point[t] = syncIndex + 1
  \/ /\ pc[t] \in {"barrier", "barrierWoken", "hold", "held", "heldWoken", "alone"}
     /\ index[t] = syncIndex /\ point[t] = syncIndex + 1
  \/ pc[t] \in {"barrierWoken", "heldWoken"} /\ index[t] + 1 = syncIndex /\ point[t] = syncIndex

\* The thread is at a barrier of this kind.
Kind(t, kind) == point[t] \in 1 .. Len(SyncPoints) /\ SyncPoints[point[t]] = kind

\* A thread waits where the task has a barrier of that kind.
Kinds(t) ==
  /\ pc[t] \in {"barrier", "barrierWoken"} => Kind(t, "all")
  /\ pc[t] \in {"hold", "held", "heldWoken", "alone"} => Kind(t, "master")

\* Everybody is in step; who has completed has passed all barriers; while the master
\* works alone all others have come.
Barriers ==
  ParallelTask =>
    /\ syncIndex <= Len(SyncPoints)
    /\ \A t \in Thread : taskTable[t] # None => InStep(t)
    /\ \A t \in Thread : Kinds(t)
    /\ \A t \in Thread : t < total /\ taskTable[t] = None => syncIndex = Len(SyncPoints)
    /\ pc[0] = "alone" => \A t \in Thread : t < total => taskTable[t] # None /\ AtBarrier(t)

\* MM_ParallelTask::_synchronizeCount.
SyncCounted == ParallelTask => syncCount = Cardinality(Counted)

PInv ==
  /\ ProcessTypes /\ Started /\ Statuses /\ Tasks /\ Barriers
  /\ AliveCounted /\ LeftCounted /\ SyncCounted


-----------------------------------------------------------------------------
\* The main thread is thread 0, the slaves are the others.
LEMMA ThreadFacts ==
  /\ 0 \in Thread
  /\ \A s \in Slave : s \in Thread /\ s # 0 /\ s \in Nat
  /\ \A t \in Thread : t = 0 \/ t \in Slave
  /\ SlaveCount \in Nat
  /\ IsFiniteSet(Thread)
BY ProcessCountAssumption, FS_Interval DEF Thread, Slave

\* Where notified threads go on.
LEMMA AwakeFacts ==
  /\ Awake["asleep"] = "loop"
  /\ Awake["awaitSlave"] = "slaveCalled"
  /\ Awake["awaitSlaves"] = "slaveLeft"
  /\ Awake["barrier"] = "barrierWoken"
  /\ Awake["held"] = "heldWoken"
  /\ Awake["completing"] = "completingWoken"
BY DEF Awake

\* A thread goes on to l, nobody else moves.
LEMMA GotoMoves ==
  ASSUME ProcessTypes, NEW t \in Thread, NEW l \in AllPc, Goto(t, l)
  PROVE  /\ pc' \in [Thread -> AllPc]
         /\ pc'[t] = l
         /\ \A u \in Thread : u # t => pc'[u] = pc[u]
BY DEF ProcessTypes, Goto

\* The values a notified thread can take are program counters.
LEMMA PcNames ==
  /\ "loop" \in AllPc /\ "slaveCalled" \in AllPc /\ "slaveLeft" \in AllPc
  /\ "barrierWoken" \in AllPc /\ "heldWoken" \in AllPc /\ "completingWoken" \in AllPc
BY DEF AllPc, MainPc, SlavePc, TaskPc, Working, Ended

\* Thread t notifies the slaves that sleep.
LEMMA SlavesNotified ==
  ASSUME ProcessTypes, NEW t \in Thread, NEW l \in AllPc, NotifyAll(slaveThreadMutex, t, l)
  PROVE  /\ pc' \in [Thread -> AllPc]
         /\ pc'[t] = l
         /\ \A u \in Thread : u # t => pc'[u] = IF pc[u] = "asleep" THEN "loop" ELSE pc[u]
BY AwakeFacts, PcNames DEF ProcessTypes, NotifyAll, slaveThreadMutex

\* Thread t notifies the main thread, which waits for a slave to start or to end.
LEMMA DispatcherNotified ==
  ASSUME ProcessTypes, NEW t \in Thread, NEW l \in AllPc, NotifyAll(dispatcherMonitor, t, l)
  PROVE  /\ pc' \in [Thread -> AllPc]
         /\ pc'[t] = l
         /\ \A u \in Thread : u # t => pc'[u] = IF pc[u] = "awaitSlave" THEN "slaveCalled"
                                                 ELSE IF pc[u] = "awaitSlaves" THEN "slaveLeft"
                                                 ELSE pc[u]
BY AwakeFacts, PcNames DEF ProcessTypes, NotifyAll, dispatcherMonitor

\* Thread t notifies the threads of its task.
LEMMA TaskNotified ==
  ASSUME ProcessTypes, NEW t \in Thread, NEW l \in AllPc, NotifyAll(synchronizeMutex, t, l)
  PROVE  /\ pc' \in [Thread -> AllPc]
         /\ pc'[t] = l
         /\ \A u \in Thread : u # t => pc'[u] = IF pc[u] = "barrier" THEN "barrierWoken"
                                                 ELSE IF pc[u] = "held" THEN "heldWoken"
                                                 ELSE IF pc[u] = "completing" THEN "completingWoken"
                                                 ELSE pc[u]
BY AwakeFacts, PcNames DEF ProcessTypes, NotifyAll, synchronizeMutex

\* What the steps at barriers have in common: a thread of the task goes on in it and
\* may wake others of the task.
WakesInTask(u) ==
  \/ pc'[u] = pc[u]
  \/ pc[u] = "barrier" /\ pc'[u] = "barrierWoken"
  \/ pc[u] = "held" /\ pc'[u] = "heldWoken"
  \/ pc[u] = "completing" /\ pc'[u] = "completingWoken"

MoveInTask(t) ==
  /\ UNCHANGED <<dispatcher, tables, taskNo, total, left, current>>
  /\ pc' \in [Thread -> AllPc]
  /\ pc[t] \in Working
  /\ pc'[t] \in Working
  /\ pc'[t] = "alone" => t = 0
  /\ \A u \in Thread : u # t => WakesInTask(u)

SyncTypes ==
  syncCount \in Nat /\ syncIndex \in Nat /\ index \in [Thread -> Nat] /\ point \in [Thread -> Nat]

\* A thread of a task that nobody shares is the master.
LEMMA OneThread ==
  ASSUME ProcessTypes, Statuses, Tasks, NEW t \in Thread, pc[t] \in Working
  PROVE  /\ statusTable[t] = "active"
         /\ taskTable[t] # None
         /\ t < total
         /\ total = 1 => t = 0
BY ThreadFacts DEF ProcessTypes, Statuses, Tasks, Thread

LEMMA WorkingNames == Working \subseteq AllPc
BY DEF AllPc, MainPc, TaskPc

LEMMA synchronizeGCThreadsMoves ==
  ASSUME ProcessTypes, NEW t \in Thread, synchronizeGCThreads(t)
  PROVE  MoveInTask(t) /\ SyncTypes'
<1>1. pc[t] = "run" /\ "run" \in Working /\ "barrier" \in Working
  BY DEF synchronizeGCThreads, At, Working
<1>2. UNCHANGED <<dispatcher, tables, taskNo, total, left, current>>
  BY DEF synchronizeGCThreads
<1>3. SyncTypes'
  BY DEF synchronizeGCThreads, ProcessTypes, SyncTypes, Pass
<1>4. CASE UNCHANGED pc
  BY <1>1, <1>2, <1>3, <1>4 DEF MoveInTask, WakesInTask, ProcessTypes
<1>5. CASE NotifyAll(synchronizeMutex, t, "run")
  BY <1>1, <1>2, <1>3, <1>5, TaskNotified, WorkingNames DEF MoveInTask, WakesInTask
<1>6. CASE Goto(t, "barrier")
  BY <1>1, <1>2, <1>3, <1>6, GotoMoves, WorkingNames DEF MoveInTask, WakesInTask
<1> QED BY <1>4, <1>5, <1>6 DEF synchronizeGCThreads

LEMMA barrierLoopMoves ==
  ASSUME ProcessTypes, NEW t \in Thread, barrierLoop(t)
  PROVE  MoveInTask(t) /\ SyncTypes'
<1>1. pc[t] \in Working /\ "run" \in Working /\ "barrier" \in Working
  BY DEF barrierLoop, Working
<1>2. UNCHANGED <<dispatcher, tables, taskNo, total, left, current>>
  BY DEF barrierLoop, task
<1>3. SyncTypes'
  BY DEF barrierLoop, ProcessTypes, SyncTypes, Pass, task
<1>4. \E l \in {"run", "barrier"} : Goto(t, l)
  BY DEF barrierLoop
<1> QED BY <1>1, <1>2, <1>3, <1>4, GotoMoves, WorkingNames DEF MoveInTask, WakesInTask

LEMMA readIndexMoves ==
  ASSUME ProcessTypes, Statuses, Tasks, NEW t \in Thread, readIndex(t)
  PROVE  MoveInTask(t) /\ SyncTypes'
<1>1. pc[t] \in Working /\ "alone" \in Working /\ "hold" \in Working
  BY DEF readIndex, Working, At
<1>2. UNCHANGED <<dispatcher, tables, taskNo, total, left, current>>
  BY DEF readIndex, task
<1>3. SyncTypes'
  BY DEF readIndex, ProcessTypes, SyncTypes, task
<1>4. (total = 1 /\ t = 0 /\ Goto(t, "alone")) \/ Goto(t, "hold")
  BY <1>1, OneThread DEF readIndex
<1> QED BY <1>1, <1>2, <1>3, <1>4, GotoMoves, WorkingNames DEF MoveInTask, WakesInTask

LEMMA ReleaseMasterMoves ==
  ASSUME ProcessTypes, NEW t \in Thread, synchronizeGCThreadsAndReleaseMaster(t)
  PROVE  MoveInTask(t) /\ SyncTypes'
<1> DEFINE next == IF LastToCome /\ t = 0 THEN "alone"
                     ELSE IF index[t] # syncIndex THEN "run" ELSE "held"
<1>1. pc[t] \in Working /\ next \in Working /\ (next = "alone" => t = 0)
  BY DEF synchronizeGCThreadsAndReleaseMaster, Working
<1>2. UNCHANGED <<dispatcher, tables, taskNo, total, left, current>>
  BY DEF synchronizeGCThreadsAndReleaseMaster
<1>3. SyncTypes'
  BY DEF synchronizeGCThreadsAndReleaseMaster, ProcessTypes, SyncTypes, Pass
<1>4. NotifyAll(synchronizeMutex, t, next) \/ Goto(t, next)
  BY DEF synchronizeGCThreadsAndReleaseMaster
<1> HIDE DEF next
<1> QED BY <1>1, <1>2, <1>3, <1>4, GotoMoves, TaskNotified, WorkingNames DEF MoveInTask, WakesInTask

LEMMA heldLoopMoves ==
  ASSUME ProcessTypes, NEW t \in Thread, heldLoop(t)
  PROVE  MoveInTask(t) /\ SyncTypes'
<1>1. pc[t] \in Working /\ "run" \in Working /\ "held" \in Working /\ "alone" \in Working
  BY DEF heldLoop, Working
<1>2. UNCHANGED <<dispatcher, tables, taskNo, total, left, current>>
  BY DEF heldLoop, task
<1>3. SyncTypes'
  BY DEF heldLoop, ProcessTypes, SyncTypes, Pass, task
<1>4. (t = 0 /\ Goto(t, "alone")) \/ Goto(t, "run") \/ Goto(t, "held")
  BY DEF heldLoop, MayGoAlone
<1> QED BY <1>1, <1>2, <1>3, <1>4, GotoMoves, WorkingNames DEF MoveInTask, WakesInTask

LEMMA ReleaseMoves ==
  ASSUME ProcessTypes, releaseSynchronizedGCThreads
  PROVE  MoveInTask(0) /\ SyncTypes'
<1>1. pc[0] \in Working /\ "run" \in Working
  BY DEF releaseSynchronizedGCThreads, Working
<1>2. UNCHANGED <<dispatcher, tables, taskNo, total, left, current>>
  BY DEF releaseSynchronizedGCThreads
<1>3. SyncTypes'
  BY ThreadFacts DEF releaseSynchronizedGCThreads, ProcessTypes, SyncTypes, Pass
<1>4. Goto(0, "run") \/ NotifyAll(synchronizeMutex, 0, "run")
  BY DEF releaseSynchronizedGCThreads
<1> QED BY <1>1, <1>2, <1>3, <1>4, GotoMoves, TaskNotified, WorkingNames, ThreadFacts
        DEF MoveInTask, WakesInTask

\* The parts of the invariant that say where the threads are.
Control == ProcessTypes /\ Started /\ Statuses /\ Tasks

\* Steps at barriers leave them alone.
LEMMA MoveInTaskControl ==
  ASSUME Control, NEW t \in Thread, MoveInTask(t), SyncTypes'
  PROVE  Control' /\ Alive' = Alive /\ Unfinished' = Unfinished
<1> USE ThreadFacts DEF Control
<1>u. UNCHANGED <<flags, forked, shutdownCount, inShutdown, threadCount, statusTable, taskTable,
                  taskNo, total, left, current>>
  BY DEF MoveInTask, dispatcher, tables
<1>m. \A u \in Thread : /\ pc'[u] \in Working <=> pc[u] \in Working
                        /\ pc[u] \notin Working => WakesInTask(u)
                        /\ pc'[u] = pc[u] \/ pc'[u] \in Working \cup {"completingWoken"}
                        /\ pc'[u] = pc[u] \/ pc[u] \in Working \cup {"completing"}
                        /\ pc'[u] = "alone" => pc[u] = "alone" \/ u = 0
  BY DEF MoveInTask, WakesInTask, Working
<1>n. \A s \in Slave : pc[s] # "completing"
  BY DEF ProcessTypes, SlavePc, Working, Unstarted
<1>1. ProcessTypes'
  <2>1. pc'[0] \in MainPc
    BY <1>m DEF ProcessTypes, MainPc, TaskPc
  <2>2. \A s \in Slave : pc'[s] \in SlavePc
    BY <1>m, <1>n DEF ProcessTypes, SlavePc, WakesInTask, Working, Unstarted
  <2> QED BY <1>u, <2>1, <2>2 DEF ProcessTypes, MoveInTask, SyncTypes
<1>2. Started'
  <2>1. \A s \in Slave : pc'[s] = pc[s] \/ (pc[s] \in Working /\ pc'[s] \in Working)
    BY <1>m, <1>n DEF WakesInTask
  <2>2. pc'[0] = pc[0] \/ (pc[0] \in TaskPc /\ pc'[0] \in TaskPc)
    BY <1>m DEF TaskPc
  <2>3. \A s \in Slave : NextSlave(s) => NextSlave(s)'
    BY <1>u, <2>1, <2>2 DEF NextSlave, TaskPc, Working, Ended
  <2> QED BY <1>u, <2>1, <2>2, <2>3 DEF Started, TaskPc, Working, Ended, Unstarted
<1>3. Statuses'
  BY <1>u, <1>m DEF Statuses, WakesInTask, Working
<1>4. Tasks'
  <2>1. Unfinished' = Unfinished
    BY <1>u DEF Unfinished
  <2>2. pc'[0] \notin TaskPc => pc[0] \notin TaskPc
    BY <1>m DEF TaskPc, WakesInTask
  <2> QED BY <1>u, <1>m, <2>1, <2>2 DEF Tasks
<1>5. Alive' = Alive
  BY <1>u, <1>m, <1>n DEF Alive, WakesInTask, Working
<1>6. Unfinished' = Unfinished
  BY <1>u DEF Unfinished
<1> QED BY <1>1, <1>2, <1>3, <1>4, <1>5, <1>6

\* What counts threads is finite.
LEMMA Finite ==
  /\ IsFiniteSet(Alive) /\ IsFiniteSet(Unfinished) /\ IsFiniteSet(Counted)
  /\ Cardinality(Alive) \in Nat /\ Cardinality(Unfinished) \in Nat /\ Cardinality(Counted) \in Nat
<1>1. Alive \subseteq Thread /\ Unfinished \subseteq Thread /\ Counted \subseteq Thread
  BY ThreadFacts DEF Alive, Unfinished, Counted
<1>2. IsFiniteSet(Alive) /\ IsFiniteSet(Unfinished) /\ IsFiniteSet(Counted)
  BY <1>1, ThreadFacts, FS_Subset
<1> QED BY <1>2, FS_CardinalityType

\* A thread completes its task; others of the task may be woken.
LEMMA CompleteControl ==
  ASSUME Control, LeftCounted, NEW t \in Thread, Complete(t),
         pc' \in [Thread -> AllPc],
         t # 0 => pc'[t] = "loop",
         t = 0 => pc'[t] = IF left' # 0 THEN "completing" ELSE "cleanup",
         \A u \in Thread : u # t => WakesInTask(u)
  PROVE  Control' /\ LeftCounted' /\ Alive' = Alive
<1> USE ThreadFacts DEF Control
<1>u. UNCHANGED <<flags, forked, shutdownCount, inShutdown, threadCount, taskNo, total, syncIndex, index, point>>
  BY DEF Complete, dispatcher
<1>r. pc[t] = "run" /\ pc[t] \in Working
  BY DEF Complete, Working
<1>t. taskTable[t] # None /\ statusTable[t] = "active" /\ t < total /\ current[t] = taskNo
  BY <1>r, OneThread DEF Tasks
<1>i. pc[0] \in TaskPc /\ forked = SlaveCount /\ ~ inShutdown
  BY <1>t DEF Tasks, Unfinished, Started, TaskPc, Working, Ended
<1>m. \A u \in Thread : u # t => /\ pc'[u] \in Working <=> pc[u] \in Working
                                 /\ pc'[u] = pc[u] \/ pc'[u] \in Working \cup {"completingWoken"}
                                 /\ pc'[u] = pc[u] \/ pc[u] \in Working \cup {"completing"}
                                 /\ pc'[u] = "alone" => pc[u] = "alone"
  <2> SUFFICES ASSUME NEW u \in Thread, WakesInTask(u)
               PROVE  /\ pc'[u] \in Working <=> pc[u] \in Working
                      /\ pc'[u] = pc[u] \/ pc'[u] \in Working \cup {"completingWoken"}
                      /\ pc'[u] = pc[u] \/ pc[u] \in Working \cup {"completing"}
                      /\ pc'[u] = "alone" => pc[u] = "alone"
    OBVIOUS
  <2> QED BY DEF WakesInTask, Working
<1>n. \A s \in Slave : pc[s] # "completing"
  BY DEF ProcessTypes, SlavePc, Working, Unstarted
<1>o. pc'[t] \notin Working
  BY DEF Working
<1>f. /\ statusTable' \in [Thread -> Status] /\ statusTable'[t] = "waiting"
      /\ \A u \in Thread : u # t => statusTable'[u] = statusTable[u]
      /\ taskTable' \in [Thread -> Nat \cup {None}] /\ taskTable'[t] = None
      /\ \A u \in Thread : u # t => taskTable'[u] = taskTable[u]
      /\ current' \in [Thread -> Nat \cup {None}] /\ current'[t] = None
      /\ \A u \in Thread : u # t => current'[u] = current[u]
      /\ syncCount' \in Nat /\ left' = left - 1
  BY DEF Complete, ProcessTypes, Status
<1>c. t \in Unfinished /\ Unfinished' = Unfinished \ {t}
  BY <1>f, <1>t DEF Unfinished
<1>l. LeftCounted'
  BY <1>c, <1>f, Finite, FS_RemoveElement DEF LeftCounted
<1>1. ProcessTypes'
  <2>1. pc'[0] \in MainPc
    <3>1. CASE t = 0
      BY <3>1 DEF MainPc, TaskPc
    <3>2. CASE t # 0
      BY <3>2, <1>m DEF ProcessTypes, MainPc, TaskPc
    <3> QED BY <3>1, <3>2
  <2>2. ASSUME NEW s \in Slave PROVE pc'[s] \in SlavePc
    <3>1. CASE s = t
      BY <3>1 DEF SlavePc
    <3>2. CASE s # t
      BY <3>2, <1>m, <1>n DEF ProcessTypes, SlavePc, WakesInTask, Working, Unstarted
    <3> QED BY <3>1, <3>2
  <2> QED BY <1>u, <1>f, <2>1, <2>2 DEF ProcessTypes
<1>2. Started'
  <2>1. \A s \in Slave : s <= forked
    BY <1>i DEF Slave
  <2>2. pc'[0] \in TaskPc \cup {"cleanup"}
    <3>1. CASE t = 0
      BY <3>1 DEF TaskPc
    <3>2. CASE t # 0
      BY <3>2, <1>i, <1>m DEF TaskPc
    <3> QED BY <3>1, <3>2
  <2>3. \A s \in Slave : pc'[s] \notin Unstarted /\ pc'[s] # "gone"
    <3>1. \A s \in Slave : pc[s] \notin Unstarted /\ pc[s] # "gone"
      BY <1>i, <2>1 DEF Started
    <3> QED BY <3>1, <1>m, <1>n DEF Unstarted, Working, WakesInTask
  <2> QED BY <1>u, <1>i, <2>1, <2>2, <2>3 DEF Started, TaskPc, Working, Ended, Slave
<1>3. Statuses'
  <2>1. ASSUME NEW u \in Thread, u # t
        PROVE  /\ statusTable'[u] = "active" <=> pc'[u] \in Working
               /\ statusTable'[u] = "reserved" => pc'[u] \in {"loop", "accept"}
               /\ statusTable'[u] = "dying" <=> inShutdown'
               /\ pc'[u] = "loop" => pc[u] = "loop"
               /\ pc'[u] \in {"asleep", "detach", "detached", "accept"} => pc'[u] = pc[u]
    BY <2>1, <1>u, <1>f, <1>m DEF Statuses, WakesInTask, Working
  <2> QED BY <2>1, <1>u, <1>f, <1>i, <1>o DEF Statuses
<1>4. Tasks'
  <2>1. pc'[0] \notin TaskPc => Unfinished' = {}
    <3>1. CASE t = 0
      BY <3>1, <1>l, Finite, <1>c, FS_EmptySet, FS_Subset DEF LeftCounted, TaskPc
    <3>2. CASE t # 0
      BY <3>2, <1>i DEF TaskPc, WakesInTask, Working
    <3> QED BY <3>1, <3>2
  <2>2. ASSUME NEW u \in Thread, u # t PROVE current'[u] # None <=> pc'[u] \in Working
    <3>1. current'[u] = current[u] /\ (pc'[u] \in Working <=> pc[u] \in Working)
      BY <2>2, <1>f, <1>m
    <3> QED BY <3>1 DEF Tasks
  <2> QED BY <1>u, <1>f, <1>o, <2>1, <2>2 DEF Tasks
<1>5. Alive' = Alive
  BY <1>u, <1>m, <1>n, <1>r DEF Alive, WakesInTask, Working
<1> QED BY <1>1, <1>2, <1>3, <1>4, <1>5, <1>l

\* The steps that only move the main thread.
MainGoes(l) ==
  /\ UNCHANGED <<dispatcher, statusTable, taskTable, task, thread>>
  /\ pc' \in [Thread -> AllPc]
  /\ pc'[0] = l
  /\ \A s \in Slave : pc'[s] = pc[s]

LEMMA MainGoesKeeps ==
  ASSUME Control, AliveCounted, LeftCounted, NEW l \in MainPc, MainGoes(l),
         pc[0] \notin Working \cup {"accept", "awaitSlave", "slaveCalled"},
         l \notin Working \cup {"accept", "awaitSlave", "slaveCalled"},
         l \in TaskPc => pc[0] \in TaskPc,
         pc[0] \in TaskPc /\ l \notin TaskPc => left = 0,
         l \in TaskPc \cup {"running", "cleanup", "exited"} => forked = SlaveCount,
         pc[0] \in Ended <=> l \in Ended \/ (l = "aborted" /\ pc[0] # "initialize"),
         pc[0] = "aborted" => l = "aborted",
         pc[0] \in {"shutDown"} => l \in {"shutDown"} \cup Ended,
         l \in {"stopped", "exited"} => shutdownCount = 0
  PROVE  Control' /\ AliveCounted' /\ LeftCounted'
<1> USE ThreadFacts DEF Control
<1>u. UNCHANGED <<flags, forked, shutdownCount, inShutdown, threadCount, statusTable, taskTable,
                  taskNo, total, left, syncCount, syncIndex, current, index, point>>
  BY DEF MainGoes, dispatcher, task, thread
<1>a. Alive' = Alive /\ Unfinished' = Unfinished
  BY <1>u DEF MainGoes, Alive, Unfinished
<1>1. ProcessTypes'
  BY <1>u DEF ProcessTypes, MainGoes
<1>2. Started'
  <2>1. \A s \in Slave : pc'[s] = pc[s]
    BY DEF MainGoes
  <2>2. pc'[0] = l
    BY DEF MainGoes
  <2>3. \A s \in Slave : NextSlave(s) => NextSlave(s)'
    BY <1>u, <2>1, <2>2 DEF NextSlave, Ended
  <2> QED BY <1>u, <2>1, <2>2, <2>3 DEF Started, Ended
<1>3. Statuses'
  <2>1. pc'[0] = l /\ \A s \in Slave : pc'[s] = pc[s]
    BY DEF MainGoes
  <2>2. \A t \in Thread : pc'[t] \in Working <=> pc[t] \in Working
    BY <2>1
  <2>3. statusTable[0] # "reserved"
    BY DEF Statuses, ProcessTypes, MainPc, TaskPc, Working, Ended
  <2>4. \A t \in Thread : statusTable[t] = "reserved" => pc'[t] \in {"loop", "accept"}
    BY <2>1, <2>3 DEF Statuses
  <2> QED BY <1>u, <2>1, <2>2, <2>4 DEF Statuses
<1>4. Tasks'
  <2>1. pc'[0] \notin TaskPc => Unfinished = {}
    BY Finite, FS_EmptySet DEF LeftCounted, Tasks, MainGoes
  <2>2. \A t \in Thread : pc'[t] \in Working <=> pc[t] \in Working
    BY DEF MainGoes
  <2> QED BY <1>u, <1>a, <2>1, <2>2 DEF Tasks
<1> QED BY <1>u, <1>a, <1>1, <1>2, <1>3, <1>4 DEF AliveCounted, LeftCounted

\* A step of the main thread that is a Goto.
LEMMA GotoMain ==
  ASSUME Control, NEW l \in MainPc, Goto(0, l),
         UNCHANGED <<dispatcher, statusTable, taskTable, task, thread>>
  PROVE  MainGoes(l)
<1>1. l \in AllPc
  BY DEF AllPc
<1> QED BY <1>1, GotoMoves, ThreadFacts DEF Control, MainGoes

LEMMA MainOnlyKeeps ==
  ASSUME Control, AliveCounted, LeftCounted,
         \/ printUsageAndExit \/ InitializeHeap \/ createThreadFailed \/ masterCompleteLoop
         \/ cleanupAfterTask \/ Quit \/ awaitShutdown \/ OMR_Shutdown
  PROVE  Control' /\ AliveCounted' /\ LeftCounted'
<1> USE DEF MainPc, TaskPc, Working, Ended
<1>1. CASE printUsageAndExit
  <2>1. \E l \in {"crashed"} : Goto(0, l) /\ MainGoes(l)
    BY <1>1, GotoMain DEF printUsageAndExit, tables
  <2> QED BY <1>1, <2>1, MainGoesKeeps DEF printUsageAndExit, Control, Started, Goto, ProcessTypes, MainGoes
<1>2. CASE InitializeHeap
  <2>1. \E l \in {"fork", "aborted"} : Goto(0, l) /\ MainGoes(l)
    BY <1>2, GotoMain DEF InitializeHeap, tables
  <2> QED BY <1>2, <2>1, MainGoesKeeps DEF InitializeHeap, Control, Started, Goto, ProcessTypes, MainGoes
<1>3. CASE createThreadFailed
  <2>1. \E l \in {"shutDown"} : Goto(0, l) /\ MainGoes(l)
    BY <1>3, GotoMain DEF createThreadFailed, tables
  <2> QED BY <1>3, <2>1, MainGoesKeeps DEF createThreadFailed, Control, Started, Goto, ProcessTypes, MainGoes
<1>4. CASE masterCompleteLoop
  <2>1. \E l \in {"completing", "cleanup"} : Goto(0, l) /\ MainGoes(l)
    BY <1>4, GotoMain DEF masterCompleteLoop, tables
  <2> QED BY <1>4, <2>1, MainGoesKeeps DEF masterCompleteLoop, Control, Started, Goto, ProcessTypes, MainGoes
<1>5. CASE Quit
  <2>1. \E l \in {"shutDown"} : Goto(0, l) /\ MainGoes(l)
    BY <1>5, GotoMain DEF Quit, tables
  <2> QED BY <1>5, <2>1, MainGoesKeeps DEF Quit, Control, Started, Goto, ProcessTypes, MainGoes
<1>6. CASE awaitShutdown
  <2>1. \E l \in {"stopped", "awaitSlaves"} : Goto(0, l) /\ MainGoes(l)
    BY <1>6, GotoMain DEF awaitShutdown, tables
  <2> QED BY <1>6, <2>1, MainGoesKeeps DEF awaitShutdown, Control, Started, Goto, ProcessTypes, MainGoes
<1>7. CASE OMR_Shutdown
  <2>1. \E l \in {"exited", "aborted"} : Goto(0, l) /\ MainGoes(l)
    BY <1>7, GotoMain DEF OMR_Shutdown, tables
  <2> QED BY <1>7, <2>1, MainGoesKeeps DEF OMR_Shutdown, Control, Started, Goto, ProcessTypes, MainGoes
<1>8. CASE cleanupAfterTask
  <2>1. ~ inShutdown
    BY <1>8 DEF cleanupAfterTask, Control, Started
  <2>2. MainGoes("running")
    BY <1>8, <2>1, GotoMain DEF cleanupAfterTask
  <2>3. forked = SlaveCount
    BY <1>8 DEF cleanupAfterTask, Control, Started
  <2> QED BY <1>8, <2>2, <2>3, MainGoesKeeps DEF cleanupAfterTask
<1> QED BY <1>1, <1>2, <1>3, <1>4, <1>5, <1>6, <1>7, <1>8

\* Starting: the next slave is forked.
LEMMA createThreadKeeps ==
  ASSUME Control, AliveCounted, LeftCounted, createThread
  PROVE  Control' /\ AliveCounted' /\ LeftCounted'
<1> USE ThreadFacts DEF Control
<1> DEFINE n == forked + 1
<1>u. UNCHANGED <<forked, shutdownCount, inShutdown, threadCount, statusTable, taskTable,
                  taskNo, total, left, syncCount, syncIndex, current, index, point>> /\ flags' = "none"
  BY DEF createThread, tables, task, thread
<1>i. pc[0] = "fork" /\ n \in Slave /\ forked \in Nat /\ ~ inShutdown /\ pc[n] = "unborn"
  BY DEF createThread, ProcessTypes, Started, Ended, Slave, NextSlave
<1>p. /\ pc' \in [Thread -> AllPc]
      /\ pc'[0] = "awaitSlave" /\ pc'[n] = "attach"
      /\ \A s \in Slave : s # n => pc'[s] = pc[s]
  <2>1. "awaitSlave" \in AllPc /\ "attach" \in AllPc
    BY DEF AllPc, MainPc, SlavePc, Unstarted
  <2> QED BY <1>i, <2>1 DEF createThread, AwaitSlave, ProcessTypes
<1> HIDE DEF n
<1>w. \A t \in Thread : pc'[t] \in Working <=> pc[t] \in Working
  BY <1>i, <1>p DEF Working
<1>a. Alive' = Alive /\ Unfinished' = Unfinished
  BY <1>u, <1>i, <1>p DEF Alive, Unfinished, n
<1>1. ProcessTypes'
  BY <1>u, <1>p DEF ProcessTypes, MainPc, SlavePc, Unstarted
<1>2. Started'
  <2>1. \A s \in Slave : s # n => s <= forked \/ s > forked + 1
    BY <1>i DEF n
  <2>2. \A s \in Slave : s = n => NextSlave(s)'
    BY <1>p DEF NextSlave
  <2>3. \A s \in Slave : /\ s <= forked => pc'[s] \notin Unstarted
                         /\ s <= forked /\ pc'[s] = "gone" => inShutdown
                         /\ s > forked + 1 => pc'[s] = "unborn"
    BY <1>i, <1>p, <2>1 DEF Started, n
  <2>4. forked < SlaveCount
    BY DEF createThread
  <2> QED BY <1>u, <1>i, <1>p, <2>2, <2>3, <2>4 DEF Started, TaskPc, Working, Ended, n
<1>3. Statuses'
  <2>1. statusTable[0] # "reserved" /\ statusTable[n] # "reserved"
    BY <1>i DEF Statuses
  <2> QED BY <1>u, <1>i, <1>p, <1>w, <2>1 DEF Statuses
<1>4. Tasks'
  BY <1>u, <1>i, <1>p, <1>w, <1>a DEF Tasks, TaskPc, Working
<1> QED BY <1>u, <1>a, <1>1, <1>2, <1>3, <1>4 DEF AliveCounted, LeftCounted

\* The slave that has called is counted, or the start has failed.
LEMMA slaveStartedKeeps ==
  ASSUME Control, AliveCounted, LeftCounted, slaveStarted
  PROVE  Control' /\ AliveCounted' /\ LeftCounted'
<1> USE ThreadFacts DEF Control
<1> DEFINE n == forked + 1
<1>u. UNCHANGED <<flags, inShutdown, threadCount, statusTable, taskTable,
                  taskNo, total, left, syncCount, syncIndex, current, index, point>>
  BY DEF slaveStarted, tables, task, thread
<1>i. pc[0] = "slaveCalled" /\ n \in Slave /\ forked \in Nat /\ ~ inShutdown
  BY DEF slaveStarted, ProcessTypes, Started, Ended, Slave
<1>f. (pc[n] \in {"loop", "asleep"} /\ flags = "ok") \/ (pc[n] = "gone" /\ flags = "failed")
  <2>1. NextSlave(n)
    BY <1>i DEF Started
  <2>2. pc[0] = "slaveCalled"
    BY <1>i
  <2> HIDE DEF n
  <2> QED BY <2>1, <2>2 DEF NextSlave, Ended
<1>p. /\ pc' \in [Thread -> AllPc]
      /\ pc'[0] = IF flags = "ok" THEN "fork" ELSE "shutDown"
      /\ \A s \in Slave : pc'[s] = pc[s]
  <2>1. "fork" \in AllPc /\ "shutDown" \in AllPc
    BY DEF AllPc, MainPc
  <2>2. Goto(0, IF flags = "ok" THEN "fork" ELSE "shutDown")
    BY <1>f DEF slaveStarted
  <2> QED BY <2>1, <2>2, GotoMoves
<1>g. /\ forked' = IF flags = "ok" THEN n ELSE forked
      /\ shutdownCount' = IF flags = "ok" THEN shutdownCount + 1 ELSE shutdownCount
  BY <1>f DEF slaveStarted
<1> HIDE DEF n
<1>w. \A t \in Thread : pc'[t] \in Working <=> pc[t] \in Working
  BY <1>i, <1>p DEF Working
<1>a. Unfinished' = Unfinished
  BY <1>u DEF Unfinished
<1>b. AliveCounted'
  <2>1. CASE flags = "ok"
    <3>1. Alive' = Alive \cup {n} /\ n \notin Alive
      BY <2>1, <1>i, <1>f, <1>p, <1>g DEF Alive, n
    <3> QED BY <3>1, <2>1, <1>g, Finite, FS_AddElement DEF AliveCounted
  <2>2. CASE flags # "ok"
    <3>1. Alive' = Alive
      BY <2>2, <1>i, <1>p, <1>g DEF Alive
    <3> QED BY <3>1, <2>2, <1>g DEF AliveCounted
  <2> QED BY <2>1, <2>2
<1>1. ProcessTypes'
  BY <1>u, <1>p, <1>g, <1>i DEF ProcessTypes, MainPc, n, Slave
<1>2. Started'
  <2>1. CASE flags = "ok"
    <3>1. \A s \in Slave : s = forked + 2 => pc[s] = "unborn"
      BY <1>i DEF Started
    <3> QED BY <1>u, <1>i, <1>f, <1>p, <1>g, <2>1, <3>1
            DEF Started, NextSlave, TaskPc, Working, Ended, Unstarted, n
  <2>2. CASE flags # "ok"
    BY <1>u, <1>i, <1>f, <1>p, <1>g, <2>2 DEF Started, NextSlave, TaskPc, Working, Ended, n
  <2> QED BY <2>1, <2>2
<1>3. Statuses'
  <2>1. statusTable[0] # "reserved"
    BY <1>i DEF Statuses
  <2> QED BY <1>u, <1>i, <1>p, <1>w, <2>1 DEF Statuses
<1>4. Tasks'
  BY <1>u, <1>i, <1>p, <1>w, <1>a DEF Tasks, TaskPc, Working
<1> QED BY <1>u, <1>a, <1>b, <1>1, <1>2, <1>3, <1>4 DEF LeftCounted

\* All slaves are started.
LEMMA startUpThreadsKeeps ==
  ASSUME Control, AliveCounted, LeftCounted, startUpThreads
  PROVE  Control' /\ AliveCounted' /\ LeftCounted'
<1> USE ThreadFacts DEF Control
<1>u. UNCHANGED <<flags, forked, shutdownCount, inShutdown, statusTable, taskTable,
                  taskNo, total, left, syncCount, syncIndex, current, index, point>>
      /\ threadCount' = SlaveCount + 1
  BY DEF startUpThreads, tables, task, thread
<1>i. pc[0] = "fork" /\ forked = SlaveCount /\ ~ inShutdown
  BY DEF startUpThreads, Started, Ended
<1>p. /\ pc' \in [Thread -> AllPc]
      /\ pc'[0] = "running"
      /\ \A s \in Slave : pc'[s] = pc[s]
  <2>1. "running" \in AllPc
    BY DEF AllPc, MainPc
  <2> QED BY <2>1, GotoMoves DEF startUpThreads
<1>w. \A t \in Thread : pc'[t] \in Working <=> pc[t] \in Working
  BY <1>i, <1>p DEF Working
<1>a. Alive' = Alive /\ Unfinished' = Unfinished
  BY <1>u, <1>p DEF Alive, Unfinished
<1>1. ProcessTypes'
  BY <1>u, <1>p DEF ProcessTypes, MainPc
<1>2. Started'
  <2>1. \A s \in Slave : s <= forked
    BY <1>i DEF Slave
  <2> QED BY <1>u, <1>i, <1>p, <2>1 DEF Started, Ended
<1>3. Statuses'
  <2>1. statusTable[0] # "reserved"
    BY <1>i DEF Statuses
  <2> QED BY <1>u, <1>i, <1>p, <1>w, <2>1 DEF Statuses
<1>4. Tasks'
  BY <1>u, <1>i, <1>p, <1>w, <1>a DEF Tasks, TaskPc, Working
<1> QED BY <1>u, <1>a, <1>1, <1>2, <1>3, <1>4 DEF AliveCounted, LeftCounted

\* A slave that attaches is the one the main thread waits for.
LEMMA NewSlave ==
  ASSUME Control, NEW s \in Slave, pc[s] \in Unstarted, pc[s] # "unborn"
  PROVE  /\ s = forked + 1 /\ NextSlave(s) /\ pc[0] = "awaitSlave" /\ ~ inShutdown
         /\ statusTable[s] \notin {"active", "reserved", "dying"}
         /\ taskTable[s] = None
<1> USE ThreadFacts DEF Control
<1>1. s \in Nat /\ forked \in Nat /\ s > forked /\ ~ (s > forked + 1)
  BY DEF Started, ProcessTypes
<1>2. s = forked + 1
  BY <1>1
<1>3. NextSlave(s)
  BY <1>2 DEF Started
<1>4. pc[0] = "awaitSlave"
  BY <1>3 DEF NextSlave, Unstarted, Ended
<1>5. ~ inShutdown
  BY <1>4 DEF Started, Ended
<1> QED BY <1>2, <1>3, <1>4, <1>5 DEF Statuses, Tasks, Unstarted, Working

LEMMA attachVMThreadKeeps ==
  ASSUME Control, AliveCounted, LeftCounted, NEW s \in Slave, attachVMThread(s)
  PROVE  Control' /\ AliveCounted' /\ LeftCounted'
<1> USE ThreadFacts DEF Control
<1>u. UNCHANGED <<forked, shutdownCount, inShutdown, threadCount, statusTable, taskTable,
                  taskNo, total, left, syncCount, syncIndex, current, index, point>>
  BY DEF attachVMThread, tables, task, thread
<1>n. /\ s = forked + 1 /\ pc[0] = "awaitSlave" /\ ~ inShutdown /\ pc[s] = "attach"
      /\ statusTable[s] \notin {"active", "reserved", "dying"} /\ taskTable[s] = None
  BY NewSlave DEF attachVMThread, Unstarted
<1>p. /\ pc' \in [Thread -> AllPc]
      /\ (pc'[s] = "attached" /\ flags' = "ok") \/ (pc'[s] = "attachFailed" /\ flags' = "failed")
      /\ \A u \in Thread : u # s => pc'[u] = pc[u]
  <2>1. "attached" \in AllPc /\ "attachFailed" \in AllPc
    BY DEF AllPc, SlavePc, Unstarted
  <2> QED BY <2>1, GotoMoves DEF attachVMThread
<1>w. \A t \in Thread : pc'[t] \in Working <=> pc[t] \in Working
  BY <1>n, <1>p DEF Working
<1>a. Alive' = Alive /\ Unfinished' = Unfinished
  BY <1>u, <1>n, <1>p DEF Alive, Unfinished
<1>1. ProcessTypes'
  BY <1>u, <1>p DEF ProcessTypes, SlavePc, Unstarted
<1>2. Started'
  <2>1. NextSlave(s)'
    BY <1>n, <1>p DEF NextSlave
  <2>2. \A u \in Slave : u # s => /\ u <= forked => pc'[u] \notin Unstarted
                                  /\ u <= forked /\ pc'[u] = "gone" => inShutdown
                                  /\ u > forked + 1 => pc'[u] = "unborn"
    BY <1>p DEF Started
  <2>3. ~ (s <= forked) /\ ~ (s > forked + 1)
    BY <1>n DEF ProcessTypes
  <2>4. pc'[0] = pc[0]
    BY <1>p
  <2> QED BY <1>u, <1>n, <2>1, <2>2, <2>3, <2>4 DEF Started, TaskPc, Working, Ended
<1>3. Statuses'
  BY <1>u, <1>n, <1>p, <1>w DEF Statuses
<1>4. Tasks'
  BY <1>u, <1>n, <1>p, <1>w, <1>a DEF Tasks
<1> QED BY <1>u, <1>a, <1>1, <1>2, <1>3, <1>4 DEF AliveCounted, LeftCounted

\* The slave calls: it has failed and goes, or it is ready and waits for tasks.
LEMMA SlaveCallsKeeps ==
  ASSUME Control, AliveCounted, LeftCounted, NEW s \in Slave,
         startupFailed(s) \/ setThreadInitializationComplete(s)
  PROVE  Control' /\ AliveCounted' /\ LeftCounted'
<1> USE ThreadFacts DEF Control
<1>u. UNCHANGED <<flags, forked, shutdownCount, inShutdown, threadCount, taskTable,
                  taskNo, total, left, syncCount, syncIndex, current, index, point>>
  BY DEF startupFailed, setThreadInitializationComplete, dispatcher, tables, task, thread
<1>n. /\ s = forked + 1 /\ NextSlave(s) /\ pc[0] = "awaitSlave" /\ ~ inShutdown
      /\ statusTable[s] \notin {"active", "reserved", "dying"} /\ taskTable[s] = None
  BY NewSlave DEF startupFailed, setThreadInitializationComplete, Unstarted
<1>p. /\ pc' \in [Thread -> AllPc]
      /\ \/ pc'[s] = "gone" /\ flags = "failed" /\ UNCHANGED statusTable
         \/ pc'[s] = "loop" /\ flags = "ok" /\ statusTable' = [statusTable EXCEPT ![s] = "waiting"]
      /\ pc'[0] = "slaveCalled"
      /\ \A u \in Slave : u # s => pc'[u] = pc[u]
  <2>1. "gone" \in AllPc /\ "loop" \in AllPc
    BY DEF AllPc, SlavePc
  <2>2. \A u \in Slave : pc[u] \notin {"awaitSlave", "awaitSlaves"}
    BY DEF ProcessTypes, SlavePc, Working, Unstarted
  <2>3. CASE startupFailed(s)
    <3>1. pc[s] = "attachFailed" /\ NotifyAll(dispatcherMonitor, s, "gone") /\ UNCHANGED statusTable
      BY <2>3 DEF startupFailed, tables
    <3>2. flags = "failed"
      BY <3>1, <1>n DEF NextSlave, Ended
    <3> QED BY <3>1, <3>2, <2>1, <2>2, <1>n, DispatcherNotified
  <2>4. CASE setThreadInitializationComplete(s)
    <3>1. /\ pc[s] = "attached" /\ NotifyAll(dispatcherMonitor, s, "loop")
          /\ statusTable' = [statusTable EXCEPT ![s] = "waiting"]
      BY <2>4 DEF setThreadInitializationComplete
    <3>2. flags = "ok"
      BY <3>1, <1>n DEF NextSlave, Ended
    <3> QED BY <3>1, <3>2, <2>1, <2>2, <1>n, DispatcherNotified
  <2> QED BY <2>3, <2>4
<1>s. /\ statusTable' \in [Thread -> Status]
      /\ \A u \in Thread : u # s => statusTable'[u] = statusTable[u]
      /\ statusTable'[s] \notin {"active", "reserved", "dying"}
      /\ pc'[s] = "loop" => statusTable'[s] = "waiting"
  BY <1>p, <1>n DEF ProcessTypes, Status
<1>c. pc[s] \notin Working
  BY <1>n DEF NextSlave, Working, Ended
<1>w. \A t \in Thread : pc'[t] \in Working <=> pc[t] \in Working
  BY <1>n, <1>c, <1>p DEF Working
<1>a. Alive' = Alive /\ Unfinished' = Unfinished
  <2>1. ~ (s <= forked)
    BY <1>n DEF ProcessTypes
  <2>2. \A u \in Slave : u <= forked => pc'[u] = pc[u]
    BY <2>1, <1>p
  <2>3. Alive' = Alive
    BY <1>u, <2>2 DEF Alive
  <2> QED BY <1>u, <2>3 DEF Unfinished
<1>1. ProcessTypes'
  BY <1>u, <1>p, <1>s DEF ProcessTypes, SlavePc, MainPc
<1>2. Started'
  <2>1. NextSlave(s)'
    BY <1>u, <1>n, <1>p DEF NextSlave
  <2>2. \A u \in Slave : u # s => /\ u <= forked => pc'[u] \notin Unstarted
                                  /\ u <= forked /\ pc'[u] = "gone" => inShutdown
                                  /\ u > forked + 1 => pc'[u] = "unborn"
    BY <1>p DEF Started
  <2>3. ~ (s <= forked) /\ ~ (s > forked + 1)
    BY <1>n DEF ProcessTypes
  <2>4. pc'[0] = "slaveCalled" /\ forked < SlaveCount
    BY <1>p, <1>n DEF Started
  <2> QED BY <1>u, <1>n, <2>1, <2>2, <2>3, <2>4 DEF Started, TaskPc, Working, Ended
<1>3. Statuses'
  <2>1. statusTable[0] # "reserved"
    BY <1>n DEF Statuses
  <2> QED BY <1>u, <1>n, <1>c, <1>p, <1>s, <1>w, <2>1 DEF Statuses
<1>4. Tasks'
  BY <1>u, <1>n, <1>p, <1>s, <1>w, <1>a DEF Tasks, TaskPc, Working
<1> QED BY <1>u, <1>a, <1>1, <1>2, <1>3, <1>4 DEF AliveCounted, LeftCounted

\* Ending: no thread is in a task, everybody is told to die.
LEMMA shutDownThreadsKeeps ==
  ASSUME Control, AliveCounted, LeftCounted, shutDownThreads
  PROVE  Control' /\ AliveCounted' /\ LeftCounted'
<1> USE ThreadFacts DEF Control
<1>u. UNCHANGED <<flags, forked, shutdownCount, taskTable,
                  taskNo, total, left, syncCount, syncIndex, current, index, point>>
  BY DEF shutDownThreads, task, thread
<1>s. /\ inShutdown' = TRUE /\ threadCount' = 1
      /\ statusTable' = [t \in Thread |-> "dying"]
  BY DEF shutDownThreads
<1>i. pc[0] = "shutDown" /\ ~ inShutdown /\ Unfinished = {}
  BY DEF shutDownThreads, Started, Ended, Tasks, TaskPc, Working
<1>t. \A t \in Thread : taskTable[t] = None /\ pc[t] \notin Working
  BY <1>i DEF Unfinished, Tasks, Statuses
<1>p. /\ pc' \in [Thread -> AllPc]
      /\ pc'[0] = "slaveLeft"
      /\ \A s \in Slave : pc'[s] = IF pc[s] = "asleep" THEN "loop" ELSE pc[s]
  BY SlavesNotified, PcNames DEF shutDownThreads
<1>w. \A t \in Thread : pc'[t] \notin Working
  BY <1>t, <1>p DEF Working
<1>a. Alive' = Alive /\ Unfinished' = Unfinished
  BY <1>u, <1>p DEF Alive, Unfinished
<1>1. ProcessTypes'
  BY <1>u, <1>s, <1>p DEF ProcessTypes, MainPc, Ended, SlavePc, Status
<1>2. Started'
  <2>1. \A s \in Slave : NextSlave(s) => NextSlave(s)'
    BY <1>i, <1>p DEF NextSlave, Ended
  <2> QED BY <1>u, <1>s, <1>i, <1>p, <2>1 DEF Started, TaskPc, Working, Ended, Unstarted
<1>3. Statuses'
  BY <1>s, <1>p, <1>w DEF Statuses
<1>4. Tasks'
  BY <1>u, <1>s, <1>i, <1>t, <1>w, <1>a DEF Tasks
<1> QED BY <1>u, <1>a, <1>1, <1>2, <1>3, <1>4 DEF AliveCounted, LeftCounted

\* A slave that dies is one that was counted.
LEMMA DyingSlave ==
  ASSUME Control, NEW s \in Slave, statusTable[s] = "dying", pc[s] \in {"loop", "detach", "detached"}
  PROVE  /\ s <= forked /\ inShutdown /\ taskTable[s] = None
         /\ \A t \in Thread : statusTable[t] = "dying"
         /\ pc[0] \in Ended \cup {"aborted"}
<1> USE ThreadFacts DEF Control
<1>1. inShutdown
  BY DEF Statuses
<1>2. pc[0] \in Ended \cup {"aborted"}
  BY <1>1 DEF Started
<1>3. ~ NextSlave(s)
  BY <1>2 DEF NextSlave, Ended
<1>4. s \in Nat /\ forked \in Nat /\ s # forked + 1 /\ ~ (s > forked + 1)
  BY <1>3 DEF Started, ProcessTypes
<1>5. s <= forked
  BY <1>4
<1> QED BY <1>1, <1>2, <1>5 DEF Statuses, Tasks

\* It leaves slaveEntryPoint, detaches and exits.
LEMMA SlaveLeavesKeeps ==
  ASSUME Control, AliveCounted, LeftCounted, NEW s \in Slave,
         \/ slaveEntryPoint(s) /\ statusTable[s] = "dying"
         \/ detachVMThread(s)
         \/ slaveExit(s)
  PROVE  Control' /\ AliveCounted' /\ LeftCounted'
<1> USE ThreadFacts DEF Control
<1>u. UNCHANGED <<flags, forked, inShutdown, threadCount, statusTable, taskTable,
                  taskNo, total, left, syncCount, syncIndex, current, index, point>>
  BY DEF slaveEntryPoint, detachVMThread, slaveExit, dispatcher, tables, task, thread
<1>d. pc[s] \in {"loop", "detach", "detached"} /\ statusTable[s] = "dying"
  BY DEF slaveEntryPoint, detachVMThread, slaveExit, Statuses
<1>n. /\ s <= forked /\ inShutdown /\ taskTable[s] = None
      /\ \A t \in Thread : statusTable[t] = "dying"
      /\ pc[0] \in Ended \cup {"aborted"}
  BY <1>d, DyingSlave
<1>p. /\ pc' \in [Thread -> AllPc]
      /\ \/ pc'[s] \in {"detach", "detached"} /\ pc'[0] = pc[0] /\ shutdownCount' = shutdownCount
         \/ /\ pc'[s] = "gone" /\ shutdownCount' = shutdownCount - 1
            /\ pc'[0] = IF pc[0] = "awaitSlaves" THEN "slaveLeft" ELSE pc[0]
      /\ \A u \in Slave : u # s => pc'[u] = pc[u]
  <2>1. "gone" \in AllPc /\ "detach" \in AllPc /\ "detached" \in AllPc
    BY DEF AllPc, SlavePc
  <2>2. CASE slaveEntryPoint(s)
    <3>1. Goto(s, "detach") /\ shutdownCount' = shutdownCount
      BY <2>2, <1>d DEF slaveEntryPoint, dispatcher
    <3> QED BY <3>1, <2>1, GotoMoves
  <2>3. CASE detachVMThread(s)
    <3>1. Goto(s, "detached") /\ shutdownCount' = shutdownCount
      BY <2>3 DEF detachVMThread, dispatcher
    <3> QED BY <3>1, <2>1, GotoMoves
  <2>4. CASE slaveExit(s)
    <3>1. NotifyAll(dispatcherMonitor, s, "gone") /\ shutdownCount' = shutdownCount - 1
      BY <2>4 DEF slaveExit
    <3>2. \A u \in Slave : pc[u] \notin {"awaitSlave", "awaitSlaves"}
      BY DEF ProcessTypes, SlavePc, Working, Unstarted
    <3>3. pc[0] # "awaitSlave"
      BY <1>n DEF Ended
    <3> QED BY <3>1, <3>2, <3>3, <2>1, DispatcherNotified
  <2> QED BY <2>2, <2>3, <2>4
<1>c. s \in Alive
  BY <1>d, <1>n DEF Alive
<1>b. /\ Unfinished' = Unfinished
      /\ AliveCounted'
      /\ shutdownCount # 0
  <2>0. shutdownCount # 0
    BY <1>c, Finite, FS_EmptySet DEF AliveCounted
  <2>1. CASE pc'[s] = "gone"
    <3>1. Alive' = Alive \ {s}
      BY <2>1, <1>u, <1>p DEF Alive
    <3> QED BY <3>1, <2>0, <2>1, <1>c, <1>p, <1>u, Finite, FS_RemoveElement DEF AliveCounted, Unfinished
  <2>2. CASE pc'[s] # "gone"
    <3>1. Alive' = Alive
      BY <2>2, <1>u, <1>d, <1>p DEF Alive
    <3> QED BY <3>1, <2>0, <2>2, <1>p, <1>u DEF AliveCounted, Unfinished
  <2> QED BY <2>1, <2>2
<1>w. \A t \in Thread : pc'[t] \in Working <=> pc[t] \in Working
  BY <1>d, <1>n, <1>p DEF Working
<1>1. ProcessTypes'
  BY <1>u, <1>p DEF ProcessTypes, SlavePc, MainPc, Ended
<1>2. Started'
  <2>1. \A u \in Slave : u # s /\ NextSlave(u) => NextSlave(u)'
    BY <1>u, <1>n, <1>p DEF NextSlave, Ended
  <2>2. pc'[s] \notin Unstarted
    BY <1>p DEF Unstarted
  <2>3. pc'[0] \in Ended \cup {"aborted"} /\ (pc'[0] # "exited" \/ pc[0] = "exited")
    BY <1>n, <1>p DEF Ended
  <2>4. ~ (s = forked + 1) /\ ~ (s > forked + 1)
    BY <1>n DEF ProcessTypes
  <2>5. pc[0] \notin {"stopped", "exited"}
    BY <1>b DEF Started
  <2>6. pc'[0] \notin {"stopped", "exited"}
    BY <2>5, <1>p
  <2>7. \A u \in Slave : u # s => /\ u <= forked => pc'[u] \notin Unstarted
                                  /\ u = forked + 1 => NextSlave(u)'
                                  /\ u > forked + 1 => pc'[u] = "unborn"
    BY <2>1, <1>p DEF Started
  <2> QED BY <1>u, <1>n, <2>2, <2>3, <2>4, <2>6, <2>7 DEF Started, TaskPc, Working, Ended
<1>3. Statuses'
  BY <1>u, <1>n, <1>p, <1>w DEF Statuses, Ended
<1>4. Tasks'
  <2>1. pc'[0] \notin TaskPc => pc[0] \notin TaskPc
    BY <1>n DEF TaskPc, Working, Ended
  <2> QED BY <1>u, <1>w, <1>b, <2>1 DEF Tasks
<1> QED BY <1>u, <1>b, <1>1, <1>2, <1>3, <1>4 DEF LeftCounted

\* When the program runs, every slave waits for a task.
LEMMA SlavesIdle ==
  ASSUME Control, pc[0] = "running"
  PROVE  /\ ~ inShutdown /\ forked = SlaveCount
         /\ \A t \in Thread : taskTable[t] = None /\ pc[t] \notin Working
         /\ \A s \in Slave : pc[s] \in {"loop", "asleep"}
<1> USE ThreadFacts DEF Control
<1>1. ~ inShutdown /\ forked = SlaveCount
  BY DEF Started, Ended
<1>2. \A t \in Thread : taskTable[t] = None /\ pc[t] \notin Working
  BY DEF Tasks, Statuses, TaskPc, Working, Unfinished
<1>3. \A s \in Slave : s <= forked
  BY <1>1 DEF Slave
<1>4. \A s \in Slave : pc[s] \notin Unstarted /\ pc[s] # "gone" /\ statusTable[s] # "dying"
  BY <1>1, <1>3 DEF Started, Statuses
<1>5. \A s \in Slave : pc[s] \in SlavePc /\ pc[s] \notin {"detach", "detached"}
  BY <1>4 DEF ProcessTypes, Statuses
<1> QED BY <1>1, <1>2, <1>4, <1>5 DEF SlavePc

\* Dispatching: threads are reserved for the new task and woken.
LEMMA prepareThreadsForTaskKeeps ==
  ASSUME Control, AliveCounted, LeftCounted, prepareThreadsForTask
  PROVE  Control' /\ AliveCounted' /\ LeftCounted'
<1> USE ThreadFacts DEF Control
<1>u. UNCHANGED <<flags, forked, shutdownCount, inShutdown, threadCount, current, index, point>>
  BY DEF prepareThreadsForTask, dispatcher
<1>t. taskNo' = taskNo + 1 /\ syncCount' = 0 /\ syncIndex' = 0
  BY DEF prepareThreadsForTask
<1>i. /\ pc[0] = "running" /\ ~ inShutdown /\ forked = SlaveCount
      /\ \A u \in Thread : taskTable[u] = None /\ pc[u] \notin Working
      /\ \A s \in Slave : pc[s] \in {"loop", "asleep"}
  BY SlavesIdle DEF prepareThreadsForTask
<1>e. PICK active \in 1 .. threadCount :
        /\ total' = active /\ left' = active
        /\ statusTable' = [u \in Thread |-> IF u < active THEN "reserved" ELSE statusTable[u]]
        /\ taskTable' = [u \in Thread |-> IF u < active THEN taskNo + 1 ELSE taskTable[u]]
  BY DEF prepareThreadsForTask
<1>f. active \in Nat /\ 0 < active /\ active <= SlaveCount + 1
  BY DEF ProcessTypes
<1>p. /\ pc' \in [Thread -> AllPc]
      /\ pc'[0] = "accept"
      /\ \A s \in Slave : pc'[s] = "loop"
  <2>1. "accept" \in AllPc
    BY DEF AllPc, MainPc, TaskPc
  <2> QED BY <2>1, <1>i, SlavesNotified DEF prepareThreadsForTask
<1>a. Alive' = Alive
  BY <1>u, <1>p, <1>i DEF Alive
<1>g. \A u \in Thread : u \in Nat
  BY DEF Thread
<1>l. LeftCounted'
  <2>1. Unfinished' = {u \in Thread : u < active}
    BY <1>e, <1>i, ProcessNoneAssumption DEF Unfinished, ProcessTypes
  <2>2. {u \in Thread : u < active} = 0 .. active - 1
    BY <1>f DEF Thread
  <2>3. Cardinality(0 .. active - 1) = active
    <3>1. 0 \in Int /\ active - 1 \in Int /\ 0 <= active - 1
      BY <1>f
    <3> QED BY <3>1, <1>f, FS_Interval
  <2> QED BY <2>1, <2>2, <2>3, <1>e DEF LeftCounted
<1>1. ProcessTypes'
  <2>1. statusTable' \in [Thread -> Status]
    BY <1>e DEF ProcessTypes, Status
  <2>2. taskTable' \in [Thread -> Nat \cup {None}]
    BY <1>e DEF ProcessTypes
  <2>3. total' \in 0 .. SlaveCount + 1
    BY <1>e, <1>f
  <2> QED BY <1>u, <1>t, <1>p, <2>1, <2>2, <2>3 DEF ProcessTypes, MainPc, TaskPc, SlavePc
<1>2. Started'
  <2>1. \A s \in Slave : s <= forked /\ s # forked + 1 /\ ~ (s > forked + 1)
    BY <1>i DEF Slave
  <2> QED BY <1>u, <1>i, <1>p, <2>1 DEF Started, TaskPc, Ended, Unstarted, Working
<1>s. \A u \in Thread : statusTable'[u] = "reserved" \/ (statusTable'[u] = statusTable[u] /\ ~ (u < active))
  BY <1>e
<1>3. Statuses'
  <2>1. \A u \in Thread : statusTable'[u] \notin {"active", "dying"}
    BY <1>s, <1>i DEF Statuses
  <2>2. \A s \in Slave : statusTable'[s] \in {"waiting", "reserved"}
    BY <1>s, <1>i DEF Statuses
  <2>3. statusTable'[0] = "reserved"
    BY <1>s, <1>f
  <2> QED BY <1>u, <1>i, <1>p, <2>1, <2>2, <2>3 DEF Statuses, Working
<1>4. Tasks'
  <2>1. \A u \in Thread : /\ u < active => taskTable'[u] = taskNo' /\ taskTable'[u] # None
                                           /\ statusTable'[u] = "reserved"
                          /\ ~ (u < active) => taskTable'[u] = None
                                           /\ statusTable'[u] \notin {"reserved", "active"}
    BY <1>e, <1>t, <1>i, ProcessNoneAssumption DEF ProcessTypes, Tasks
  <2>2. \A u \in Thread : current'[u] = None /\ pc'[u] \notin Working
    BY <1>u, <1>i, <1>p DEF Tasks, Working
  <2> QED BY <1>e, <1>p, <2>1, <2>2 DEF Tasks, TaskPc
<1> QED BY <1>u, <1>a, <1>l, <1>1, <1>2, <1>3, <1>4 DEF AliveCounted

\* A reserved thread accepts the task.
LEMMA AcceptKeeps ==
  ASSUME Control, AliveCounted, LeftCounted, NEW t \in Thread, Accept(t),
         statusTable[t] = "reserved",
         UNCHANGED <<dispatcher, taskTable, task, index>>
  PROVE  /\ Control' /\ AliveCounted' /\ LeftCounted'
         /\ taskTable[t] # None /\ pc[0] \in TaskPc
         /\ pc'[t] = "run" /\ (\A u \in Thread : u # t => pc'[u] = pc[u])
<1> USE ThreadFacts DEF Control
<1>u. UNCHANGED <<flags, forked, shutdownCount, inShutdown, threadCount, taskTable,
                  taskNo, total, left, syncCount, syncIndex, index>>
  BY DEF dispatcher, task
<1>i. /\ taskTable[t] = taskNo /\ t < total /\ taskTable[t] # None
      /\ pc[0] \in TaskPc /\ ~ inShutdown /\ pc[t] \in {"loop", "accept"} /\ forked = SlaveCount
  BY DEF Tasks, Unfinished, Started, Statuses, TaskPc, Working, Ended
<1>p. /\ pc' \in [Thread -> AllPc]
      /\ pc'[t] = "run"
      /\ \A u \in Thread : u # t => pc'[u] = pc[u]
  <2>1. "run" \in AllPc
    BY WorkingNames DEF Working
  <2> QED BY <2>1, GotoMoves DEF Accept
<1>f. /\ statusTable' \in [Thread -> Status] /\ statusTable'[t] = "active"
      /\ \A u \in Thread : u # t => statusTable'[u] = statusTable[u]
      /\ current' \in [Thread -> Nat \cup {None}] /\ current'[t] = taskNo
      /\ \A u \in Thread : u # t => current'[u] = current[u]
      /\ point' \in [Thread -> Nat]
  BY <1>i DEF Accept, ProcessTypes, Status
<1>w. \A u \in Thread : u # t => (pc'[u] \in Working <=> pc[u] \in Working)
  BY <1>p
<1>x. "run" \in Working /\ pc[t] # "gone"
  BY <1>i DEF Working
<1>a. Alive' = Alive /\ Unfinished' = Unfinished
  BY <1>u, <1>p, <1>x DEF Alive, Unfinished
<1>1. ProcessTypes'
  BY <1>u, <1>p, <1>f DEF ProcessTypes, MainPc, TaskPc, SlavePc, Working
<1>0. pc'[0] \in TaskPc
  BY <1>i, <1>p DEF TaskPc, Working
<1>2. Started'
  <2>1. \A s \in Slave : s <= forked /\ s # forked + 1 /\ ~ (s > forked + 1)
    BY <1>i DEF Slave
  <2> QED BY <1>u, <1>i, <1>p, <1>0, <2>1 DEF Started, TaskPc, Working, Ended, Unstarted
<1>3. Statuses'
  BY <1>u, <1>i, <1>p, <1>f, <1>w, <1>x DEF Statuses
<1>4. Tasks'
  BY <1>u, <1>i, <1>p, <1>f, <1>w, <1>x, <1>a, <1>0 DEF Tasks, ProcessTypes
<1> QED BY <1>u, <1>i, <1>p, <1>a, <1>1, <1>2, <1>3, <1>4 DEF AliveCounted, LeftCounted

\* A slave that has nothing to do sleeps.
LEMMA SleepKeeps ==
  ASSUME Control, AliveCounted, LeftCounted, NEW s \in Slave, slaveEntryPoint(s),
         statusTable[s] = "waiting"
  PROVE  /\ Control' /\ AliveCounted' /\ LeftCounted'
         /\ UNCHANGED <<statusTable, taskTable, total, syncCount, syncIndex, index, point>>
         /\ pc'[s] = "asleep" /\ (\A u \in Thread : u # s => pc'[u] = pc[u])
<1> USE ThreadFacts DEF Control
<1>u. UNCHANGED <<flags, forked, shutdownCount, inShutdown, threadCount, statusTable, taskTable,
                  taskNo, total, left, syncCount, syncIndex, current, index, point>>
  BY DEF slaveEntryPoint, dispatcher, task, thread
<1>p. /\ pc[s] = "loop"
      /\ pc' \in [Thread -> AllPc]
      /\ pc'[s] = "asleep"
      /\ \A u \in Thread : u # s => pc'[u] = pc[u]
  <2>1. "asleep" \in AllPc
    BY DEF AllPc, SlavePc
  <2>2. Goto(s, "asleep") /\ pc[s] = "loop"
    BY DEF slaveEntryPoint
  <2> QED BY <2>1, <2>2, GotoMoves
<1>w. \A u \in Thread : pc'[u] \in Working <=> pc[u] \in Working
  BY <1>p DEF Working
<1>a. Alive' = Alive /\ Unfinished' = Unfinished
  BY <1>u, <1>p DEF Alive, Unfinished
<1>1. ProcessTypes'
  BY <1>u, <1>p DEF ProcessTypes, SlavePc
<1>2. Started'
  <2>1. \A u \in Slave : NextSlave(u) => NextSlave(u)'
    BY <1>u, <1>p DEF NextSlave
  <2> QED BY <1>u, <1>p, <2>1 DEF Started, Unstarted
<1>3. Statuses'
  BY <1>u, <1>p, <1>w DEF Statuses
<1>4. Tasks'
  BY <1>u, <1>p, <1>w, <1>a DEF Tasks
<1> QED BY <1>u, <1>p, <1>a, <1>1, <1>2, <1>3, <1>4 DEF AliveCounted, LeftCounted

\* A thread that is woken at a barrier keeps its place in the task.
LEMMA WokenInStep ==
  ASSUME NEW u \in Thread, WakesInTask(u), syncIndex' = syncIndex,
         index'[u] = index[u], point'[u] = point[u], statusTable'[u] = statusTable[u]
  PROVE  /\ InStep(u) => InStep(u)'
         /\ AtBarrier(u)' <=> AtBarrier(u)
         /\ Kinds(u) => Kinds(u)'
         /\ pc'[u] = "alone" <=> pc[u] = "alone"
<1>1. InStep(u) => InStep(u)'
  BY DEF WakesInTask, InStep
<1>2. AtBarrier(u)' <=> AtBarrier(u)
  BY DEF WakesInTask, AtBarrier
<1>3. Kinds(u) => Kinds(u)'
  BY DEF WakesInTask, Kinds, Kind
<1>4. pc'[u] = "alone" <=> pc[u] = "alone"
  BY DEF WakesInTask
<1> QED BY <1>1, <1>2, <1>3, <1>4

\* A step of thread t that releases no barrier.
LEMMA NoRelease ==
  ASSUME Control, Barriers, SyncCounted, ParallelTask, NEW t \in Thread, taskTable[t] # None,
         UNCHANGED <<taskTable, total, syncIndex>>,
         \A u \in Thread : u # t => /\ WakesInTask(u)
                                    /\ index'[u] = index[u]
                                    /\ point'[u] = point[u]
                                    /\ statusTable'[u] = statusTable[u],
         InStep(t)', Kinds(t)',
         AtBarrier(t) => AtBarrier(t)',
         syncCount' = IF AtBarrier(t)' /\ ~ AtBarrier(t) THEN syncCount + 1 ELSE syncCount,
         pc'[0] = "alone" =>
            \/ pc[0] = "alone"
            \/ /\ AtBarrier(t)'
               /\ \A u \in Thread : u < total /\ u # t => taskTable[u] # None /\ AtBarrier(u)
  PROVE  Barriers' /\ SyncCounted'
<1> USE ThreadFacts DEF Control
<1>b. /\ syncIndex <= Len(SyncPoints)
      /\ \A u \in Thread : taskTable[u] # None => InStep(u)
      /\ \A u \in Thread : Kinds(u)
      /\ \A u \in Thread : u < total /\ taskTable[u] = None => syncIndex = Len(SyncPoints)
      /\ pc[0] = "alone" => \A u \in Thread : u < total => taskTable[u] # None /\ AtBarrier(u)
      /\ syncCount = Cardinality(Counted)
  BY DEF Barriers, SyncCounted
<1>o. \A u \in Thread : u # t => /\ InStep(u) => InStep(u)'
                                 /\ AtBarrier(u)' <=> AtBarrier(u)
                                 /\ Kinds(u) => Kinds(u)'
  BY WokenInStep
<1>t. t < total
  BY DEF Tasks
<1>1. \A u \in Thread : taskTable'[u] # None => InStep(u)'
  BY <1>b, <1>o
<1>2. \A u \in Thread : Kinds(u)'
  BY <1>b, <1>o
<1>3. \A u \in Thread : u < total' /\ taskTable'[u] = None => syncIndex' = Len(SyncPoints)
  BY <1>b
<1>4. pc'[0] = "alone" => \A u \in Thread : u < total' => taskTable'[u] # None /\ AtBarrier(u)'
  BY <1>b, <1>o
<1>5. syncCount' = Cardinality(Counted')
  <2>1. \A u \in Thread : u # t => (u \in Counted' <=> u \in Counted)
    BY <1>o DEF Counted
  <2>2. (t \in Counted' <=> AtBarrier(t)') /\ (t \in Counted <=> AtBarrier(t))
    BY <1>t DEF Counted
  <2>3. Counted \subseteq Thread /\ Counted' \subseteq Thread
    BY DEF Counted
  <2>4. CASE AtBarrier(t)' /\ ~ AtBarrier(t)
    <3>1. Counted' = Counted \cup {t} /\ t \notin Counted
      BY <2>1, <2>2, <2>3, <2>4
    <3> QED BY <3>1, <2>4, <1>b, Finite, FS_AddElement
  <2>5. CASE ~ (AtBarrier(t)' /\ ~ AtBarrier(t))
    <3>0. t \in Counted' <=> t \in Counted
      BY <2>2, <2>5
    <3>1. Counted' = Counted
      BY <2>1, <2>3, <3>0, SMTT(30)
    <3>2. syncCount' = syncCount
      BY <2>5
    <3> QED BY <3>1, <3>2, <1>b
  <2> QED BY <2>4, <2>5
<1>6. syncIndex' <= Len(SyncPoints)
  BY <1>b
<1> QED BY <1>1, <1>2, <1>3, <1>4, <1>5, <1>6 DEF Barriers, SyncCounted

\* A step of thread t that releases the barrier all others wait at.
LEMMA Release ==
  ASSUME Control, Barriers, SyncCounted, ParallelTask, NEW t \in Thread, taskTable[t] # None,
         UNCHANGED <<taskTable, total>>,
         syncIndex' = syncIndex + 1, syncCount' = 0,
         pc'[t] = "run", point[t] = syncIndex + 1, point[t] <= Len(SyncPoints),
         point'[t] = point[t] + 1,
         \A u \in Thread : u # t => /\ WakesInTask(u)
                                    /\ pc[u] # "alone"
                                    /\ pc'[u] \notin {"barrier", "held"}
                                    /\ index'[u] = index[u]
                                    /\ point'[u] = point[u],
         \A u \in Thread : u < total /\ u # t => taskTable[u] # None /\ AtBarrier(u)
  PROVE  Barriers' /\ SyncCounted'
<1> USE ThreadFacts DEF Control
<1>b. /\ \A u \in Thread : taskTable[u] # None => InStep(u)
      /\ \A u \in Thread : Kinds(u)
  BY DEF Barriers
<1>t. /\ t < total
      /\ \A u \in Thread : taskTable[u] # None => u < total
  BY DEF Tasks
<1>y. syncIndex \in Nat /\ index \in [Thread -> Nat] /\ point \in [Thread -> Nat]
  BY DEF ProcessTypes
<1>1. ASSUME NEW u \in Thread, u < total, u # t
      PROVE  /\ pc'[u] \in {"barrierWoken", "heldWoken"}
             /\ index'[u] + 1 = syncIndex' /\ point'[u] = syncIndex'
  <2>1. AtBarrier(u) /\ InStep(u)
    BY <1>1, <1>b
  <2>2. pc'[u] \in {"barrierWoken", "heldWoken"}
    BY <1>1, <2>1 DEF AtBarrier, WakesInTask
  <2>3. pc[u] \notin {"loop", "accept", "run"} /\ index[u] = syncIndex
    BY <2>1 DEF AtBarrier
  <2>4. statusTable[u] # "reserved"
    BY <2>3 DEF Statuses
  <2>5. point[u] = syncIndex + 1
    BY <2>1, <2>3, <2>4, <1>y DEF InStep
  <2> QED BY <1>1, <2>2, <2>3, <2>5
<1>2. \A u \in Thread : taskTable'[u] # None => InStep(u)'
  BY <1>1, <1>t DEF InStep
<1>3. \A u \in Thread : Kinds(u)'
  <2>1. Kinds(t)'
    BY DEF Kinds
  <2>2. ASSUME NEW u \in Thread, u # t PROVE Kinds(u)'
    BY <2>2, <1>b DEF Kinds, Kind, WakesInTask
  <2> QED BY <2>1, <2>2
<1>4. \A u \in Thread : u < total => taskTable'[u] # None
  OBVIOUS
<1>5. pc'[0] # "alone"
  <2>1. \A u \in Thread : u # t => pc'[u] # "alone"
    BY DEF WakesInTask
  <2> QED BY <2>1
<1>6. Counted' = {}
  <2>1. \A u \in Thread : u < total => ~ AtBarrier(u)'
    <3>1. ~ AtBarrier(t)'
      BY DEF AtBarrier
    <3>2. ASSUME NEW u \in Thread, u < total, u # t PROVE ~ AtBarrier(u)'
      <4>1. index'[u] \in Nat /\ index'[u] + 1 = syncIndex'
        BY <3>2, <1>1, <1>y
      <4> QED BY <4>1, <1>y DEF AtBarrier
    <3> QED BY <3>1, <3>2
  <2> QED BY <2>1, <1>4 DEF Counted
<1>7. syncIndex' <= Len(SyncPoints)
  OBVIOUS
<1> QED BY <1>2, <1>3, <1>4, <1>5, <1>6, <1>7, FS_EmptySet DEF Barriers, SyncCounted

\* At a barrier of the task, a count that comes up to left leaves nobody out.
LEMMA Everybody ==
  ASSUME Control, Barriers, SyncCounted, LeftCounted, ParallelTask, NEW t \in Thread,
         syncIndex < Len(SyncPoints)
  PROVE  /\ syncCount = left => \A u \in Thread : u < total => taskTable[u] # None /\ AtBarrier(u)
         /\ LastToCome /\ t < total /\ ~ AtBarrier(t)
              => \A u \in Thread : u < total /\ u # t => taskTable[u] # None /\ AtBarrier(u)
<1> USE ThreadFacts DEF Control
<1>1. \A u \in Thread : u < total => taskTable[u] # None
  BY ProcessSyncAssumption DEF Barriers, ProcessTypes
<1>2. Unfinished = {u \in Thread : u < total}
  BY <1>1 DEF Tasks, Unfinished
<1>3. Counted = {u \in Unfinished : AtBarrier(u)}
  BY <1>1, <1>2 DEF Counted
<1>4. syncCount = Cardinality(Counted) /\ left = Cardinality(Unfinished)
  BY DEF SyncCounted, LeftCounted
<1>5. ASSUME syncCount = left
      PROVE  \A u \in Thread : u < total => taskTable[u] # None /\ AtBarrier(u)
  <2>1. Counted = Unfinished
    BY <1>3, <1>4, <1>5, Finite, FS_Subset
  <2> QED BY <2>1, <1>1, <1>2, <1>3
<1>6. ASSUME LastToCome, t < total, ~ AtBarrier(t)
      PROVE  \A u \in Thread : u < total /\ u # t => taskTable[u] # None /\ AtBarrier(u)
  <2>1. t \in Unfinished
    BY <1>2, <1>6
  <2>2. Cardinality(Unfinished \ {t}) = left - 1 /\ IsFiniteSet(Unfinished \ {t})
    BY <2>1, <1>4, Finite, FS_RemoveElement
  <2>3. Counted \subseteq Unfinished \ {t}
    BY <1>3, <1>6
  <2>4. Cardinality(Counted) = left - 1
    BY <1>4, <1>6, Finite DEF LastToCome
  <2>5. Counted = Unfinished \ {t}
    BY <2>2, <2>3, <2>4, FS_Subset
  <2> QED BY <2>5, <1>1, <1>2, <1>3
<1> QED BY <1>5, <1>6

\* What is known of a thread that takes a step of a task with several threads.
LEMMA WorkerFacts ==
  ASSUME Control, Barriers, NEW t \in Thread, pc[t] \in Working, total > 1
  PROVE  /\ ParallelTask /\ taskTable[t] # None /\ t < total /\ statusTable[t] # "reserved"
         /\ InStep(t) /\ Kinds(t)
         /\ pc[0] = "alone" => AtBarrier(t)
         /\ syncIndex \in Nat /\ syncCount \in Nat /\ Len(SyncPoints) \in Nat
         /\ index \in [Thread -> Nat] /\ point \in [Thread -> Nat]
<1> USE ThreadFacts DEF Control
<1>1. taskTable[t] # None /\ t < total /\ statusTable[t] # "reserved"
  BY OneThread
<1>2. ParallelTask
  BY <1>1 DEF ParallelTask, Tasks, Unfinished
<1>3. InStep(t) /\ Kinds(t) /\ (pc[0] = "alone" => AtBarrier(t))
  BY <1>1, <1>2 DEF Barriers
<1> QED BY <1>1, <1>2, <1>3, ProcessSyncAssumption DEF ProcessTypes

\* The barriers hold after each step at a barrier.
LEMMA synchronizeGCThreadsBarriers ==
  ASSUME Control, LeftCounted, Barriers, SyncCounted, NEW t \in Thread, synchronizeGCThreads(t), total > 1
  PROVE  Barriers' /\ SyncCounted'
<1> USE DEF Control
<1>u. UNCHANGED <<taskTable, total, statusTable>>
  BY DEF synchronizeGCThreads, tables
<1>r. pc[t] = "run" /\ point[t] <= Len(SyncPoints) /\ SyncPoints[point[t]] = "all" /\ pc[t] \in Working
  BY DEF synchronizeGCThreads, At, Working
<1>w. /\ ParallelTask /\ taskTable[t] # None /\ t < total /\ statusTable[t] # "reserved"
      /\ InStep(t) /\ (pc[0] = "alone" => AtBarrier(t))
      /\ syncIndex \in Nat /\ syncCount \in Nat /\ Len(SyncPoints) \in Nat
      /\ index \in [Thread -> Nat] /\ point \in [Thread -> Nat]
  BY <1>r, WorkerFacts
<1>p. point[t] = syncIndex + 1
  BY <1>r, <1>w DEF InStep
<1>n. ~ AtBarrier(t) /\ pc[0] # "alone"
  BY <1>r, <1>w DEF AtBarrier
<1>1. CASE LastToCome
  <2>1. /\ syncCount' = 0 /\ syncIndex' = syncIndex + 1 /\ index' = index
        /\ NotifyAll(synchronizeMutex, t, "run")
        /\ point' = [point EXCEPT ![t] = point[t] + 1]
    BY <1>1 DEF synchronizeGCThreads, Pass
  <2>2. syncIndex < Len(SyncPoints)
    BY <1>p, <1>r, <1>w
  <2>3. \A u \in Thread : u < total /\ u # t => taskTable[u] # None /\ AtBarrier(u)
    BY <1>1, <1>w, <1>n, <2>2, Everybody
  <2>4. "run" \in AllPc
    BY WorkingNames DEF Working
  <2>5. \A u \in Thread : u # t => pc[u] # "alone"
    BY <1>n, ThreadFacts DEF ProcessTypes, SlavePc, Unstarted
  <2>6. \A u \in Thread : u # t => WakesInTask(u) /\ pc'[u] \notin {"barrier", "held"}
    BY <2>1, <2>4, TaskNotified DEF WakesInTask
  <2>7. pc'[t] = "run"
    BY <2>1, <2>4, TaskNotified
  <2>8. point'[t] = point[t] + 1 /\ \A u \in Thread : u # t => index'[u] = index[u] /\ point'[u] = point[u]
    BY <2>1, <1>w
  <2> QED BY <1>u, <1>r, <1>w, <1>p, <2>1, <2>3, <2>5, <2>6, <2>7, <2>8, Release
<1>2. CASE ~ LastToCome
  <2>1. /\ syncCount' = syncCount + 1 /\ syncIndex' = syncIndex /\ point' = point
        /\ index' = [index EXCEPT ![t] = syncIndex] /\ Goto(t, "barrier")
    BY <1>2 DEF synchronizeGCThreads
  <2>2. pc'[t] = "barrier" /\ \A u \in Thread : u # t => pc'[u] = pc[u]
    <3>1. "barrier" \in AllPc
      BY WorkingNames DEF Working
    <3> QED BY <3>1, <2>1, GotoMoves
  <2>3. index'[t] = syncIndex /\ \A u \in Thread : u # t => index'[u] = index[u]
    BY <2>1, <1>w
  <2>4. AtBarrier(t)' /\ InStep(t)'
    BY <2>1, <2>2, <2>3, <1>p DEF AtBarrier, InStep
  <2>5. Kinds(t)'
    BY <2>1, <2>2, <1>p, <1>r, <1>w DEF Kinds, Kind
  <2>6. pc'[0] # "alone"
    BY <2>2, <1>n, ThreadFacts
  <2>7. \A u \in Thread : u # t => WakesInTask(u) /\ point'[u] = point[u] /\ statusTable'[u] = statusTable[u]
    BY <2>1, <2>2, <1>u DEF WakesInTask
  <2> QED BY <1>u, <1>w, <1>n, <2>1, <2>3, <2>4, <2>5, <2>6, <2>7, NoRelease
<1> QED BY <1>1, <1>2

\* A thread woken at a barrier of either kind: it leaves if the index has moved on.
LEMMA LoopBarriers ==
  ASSUME Control, LeftCounted, Barriers, SyncCounted, NEW t \in Thread, barrierLoop(t) \/ heldLoop(t),
         total > 1
  PROVE  Barriers' /\ SyncCounted'
<1> USE DEF Control
<1>u. UNCHANGED <<taskTable, total, statusTable, syncIndex, syncCount, index>>
  BY DEF barrierLoop, heldLoop, tables, task
<1>r. pc[t] \in {"barrierWoken", "heldWoken"} /\ pc[t] \in Working
  BY DEF barrierLoop, heldLoop, Working
<1>w. /\ ParallelTask /\ taskTable[t] # None /\ t < total /\ statusTable[t] # "reserved"
      /\ InStep(t) /\ Kinds(t) /\ (pc[0] = "alone" => AtBarrier(t))
      /\ syncIndex \in Nat /\ syncCount \in Nat /\ Len(SyncPoints) \in Nat
      /\ index \in [Thread -> Nat] /\ point \in [Thread -> Nat]
  BY <1>r, WorkerFacts
<1>1. CASE index[t] # syncIndex
  <2>1. Goto(t, "run") /\ point' = [point EXCEPT ![t] = point[t] + 1]
    BY <1>1 DEF barrierLoop, heldLoop, Pass
  <2>2. pc'[t] = "run" /\ \A u \in Thread : u # t => pc'[u] = pc[u]
    <3>1. "run" \in AllPc
      BY WorkingNames DEF Working
    <3> QED BY <3>1, <2>1, GotoMoves
  <2>3. point[t] = syncIndex /\ ~ AtBarrier(t) /\ pc[0] # "alone"
    BY <1>1, <1>r, <1>w DEF InStep, AtBarrier
  <2>4. point'[t] = syncIndex + 1 /\ \A u \in Thread : u # t => point'[u] = point[u]
    BY <2>1, <2>3, <1>w
  <2>5. InStep(t)' /\ Kinds(t)' /\ ~ AtBarrier(t)'
    BY <2>2, <2>4, <1>u DEF InStep, Kinds, AtBarrier
  <2>6. pc'[0] # "alone"
    BY <2>2, <2>3, ThreadFacts
  <2>7. \A u \in Thread : u # t => WakesInTask(u) /\ index'[u] = index[u] /\ statusTable'[u] = statusTable[u]
    BY <2>2, <1>u DEF WakesInTask
  <2> QED BY <1>u, <1>w, <2>3, <2>4, <2>5, <2>6, <2>7, NoRelease
<1>2. CASE index[t] = syncIndex
  <2>0. PICK l \in {"barrier", "held", "alone"} :
          /\ Goto(t, l) /\ point' = point
          /\ l = "barrier" => pc[t] = "barrierWoken"
          /\ l \in {"held", "alone"} => pc[t] = "heldWoken"
          /\ l = "alone" => t = 0 /\ syncCount = left
    BY <1>2 DEF barrierLoop, heldLoop, MayGoAlone
  <2>1. l \in AllPc
    BY WorkingNames DEF Working
  <2>2. pc'[t] = l /\ \A u \in Thread : u # t => pc'[u] = pc[u]
    BY <2>0, <2>1, GotoMoves
  <2>3. AtBarrier(t) /\ AtBarrier(t)'
    BY <1>2, <1>r, <1>u, <2>2 DEF AtBarrier
  <2>4. point[t] = syncIndex + 1
    BY <1>2, <1>r, <1>w DEF InStep
  <2>5. InStep(t)'
    BY <2>0, <2>2, <2>4, <1>2, <1>u DEF InStep
  <2>6. Kinds(t)'
    BY <2>0, <2>2, <1>w DEF Kinds, Kind
  <2>7. \A u \in Thread : u # t => /\ WakesInTask(u) /\ index'[u] = index[u] /\ point'[u] = point[u]
                                   /\ statusTable'[u] = statusTable[u]
    BY <2>0, <2>2, <1>u DEF WakesInTask
  <2>8. ASSUME pc'[0] = "alone", pc[0] # "alone"
        PROVE  \A u \in Thread : u < total /\ u # t => taskTable[u] # None /\ AtBarrier(u)
    <3>1. l = "alone"
      BY <2>2, <2>8, ThreadFacts
    <3>2. syncCount = left /\ pc[t] = "heldWoken"
      BY <3>1, <2>0
    <3>3. syncIndex < Len(SyncPoints)
      BY <3>2, <2>4, <1>w DEF Kinds, Kind
    <3> QED BY <3>2, <3>3, <1>w, Everybody
  <2> QED BY <1>u, <1>w, <2>3, <2>5, <2>6, <2>7, <2>8, NoRelease
<1> QED BY <1>1, <1>2

LEMMA readIndexBarriers ==
  ASSUME Control, LeftCounted, Barriers, SyncCounted, NEW t \in Thread, readIndex(t), total > 1
  PROVE  Barriers' /\ SyncCounted'
<1> USE DEF Control
<1>u. UNCHANGED <<taskTable, total, statusTable, syncIndex, syncCount, point>>
  BY DEF readIndex, tables, task
<1>r. pc[t] = "run" /\ point[t] <= Len(SyncPoints) /\ SyncPoints[point[t]] = "master" /\ pc[t] \in Working
  BY DEF readIndex, At, Working
<1>w. /\ ParallelTask /\ taskTable[t] # None /\ t < total /\ statusTable[t] # "reserved"
      /\ InStep(t) /\ (pc[0] = "alone" => AtBarrier(t))
      /\ syncIndex \in Nat /\ syncCount \in Nat /\ Len(SyncPoints) \in Nat
      /\ index \in [Thread -> Nat] /\ point \in [Thread -> Nat]
  BY <1>r, WorkerFacts
<1>p. point[t] = syncIndex + 1
  BY <1>r, <1>w DEF InStep
<1>n. ~ AtBarrier(t) /\ pc[0] # "alone"
  BY <1>r, <1>w DEF AtBarrier
<1>1. index' = [index EXCEPT ![t] = syncIndex] /\ Goto(t, "hold")
  BY DEF readIndex
<1>2. pc'[t] = "hold" /\ \A u \in Thread : u # t => pc'[u] = pc[u]
  <2>1. "hold" \in AllPc
    BY WorkingNames DEF Working
  <2> QED BY <2>1, <1>1, GotoMoves
<1>3. index'[t] = syncIndex /\ \A u \in Thread : u # t => index'[u] = index[u]
  BY <1>1, <1>w
<1>4. InStep(t)' /\ ~ AtBarrier(t)'
  BY <1>u, <1>2, <1>3, <1>p DEF AtBarrier, InStep
<1>5. Kinds(t)'
  BY <1>u, <1>2, <1>p, <1>r, <1>w DEF Kinds, Kind
<1>6. pc'[0] # "alone"
  BY <1>2, <1>n, ThreadFacts
<1>7. \A u \in Thread : u # t => WakesInTask(u) /\ point'[u] = point[u] /\ statusTable'[u] = statusTable[u]
  BY <1>2, <1>u DEF WakesInTask
<1> QED BY <1>u, <1>w, <1>n, <1>3, <1>4, <1>5, <1>6, <1>7, NoRelease

\* The index cannot have moved on between its reading and the monitor: the thread was
\* not counted yet.
LEMMA ReleaseMasterBarriers ==
  ASSUME Control, LeftCounted, Barriers, SyncCounted, NEW t \in Thread,
         synchronizeGCThreadsAndReleaseMaster(t), total > 1
  PROVE  Barriers' /\ SyncCounted'
<1> USE DEF Control
<1>u. UNCHANGED <<taskTable, total, statusTable, syncIndex, index>> /\ syncCount' = syncCount + 1
  BY DEF synchronizeGCThreadsAndReleaseMaster, tables
<1>r. pc[t] = "hold" /\ pc[t] \in Working
  BY DEF synchronizeGCThreadsAndReleaseMaster, Working
<1>w. /\ ParallelTask /\ taskTable[t] # None /\ t < total /\ statusTable[t] # "reserved"
      /\ InStep(t) /\ Kinds(t) /\ (pc[0] = "alone" => AtBarrier(t))
      /\ syncIndex \in Nat /\ syncCount \in Nat /\ Len(SyncPoints) \in Nat
      /\ index \in [Thread -> Nat] /\ point \in [Thread -> Nat]
  BY <1>r, WorkerFacts
<1>p. point[t] = syncIndex + 1 /\ index[t] = syncIndex
  BY <1>r, <1>w DEF InStep
<1>n. ~ AtBarrier(t) /\ pc[0] # "alone"
  BY <1>r, <1>w DEF AtBarrier
<1> DEFINE next == IF LastToCome /\ t = 0 THEN "alone" ELSE "held"
<1>1. (NotifyAll(synchronizeMutex, t, next) \/ Goto(t, next)) /\ point' = point
  BY <1>p DEF synchronizeGCThreadsAndReleaseMaster
<1>2. next \in {"alone", "held"} /\ (next = "alone" => LastToCome /\ t = 0)
  OBVIOUS
<1> HIDE DEF next
<1>3. next \in AllPc
  BY <1>2, WorkingNames DEF Working
<1>4. pc'[t] = next /\ \A u \in Thread : u # t => WakesInTask(u)
  BY <1>1, <1>3, GotoMoves, TaskNotified DEF WakesInTask
<1>5. InStep(t)' /\ AtBarrier(t)'
  BY <1>u, <1>1, <1>2, <1>4, <1>p DEF AtBarrier, InStep
<1>6. Kinds(t)'
  BY <1>1, <1>2, <1>4, <1>w, <1>r DEF Kinds, Kind
<1>7. ASSUME pc'[0] = "alone"
      PROVE  \A u \in Thread : u < total /\ u # t => taskTable[u] # None /\ AtBarrier(u)
  <2>1. next = "alone"
    BY <1>4, <1>7, <1>n, ThreadFacts DEF WakesInTask
  <2>2. syncIndex < Len(SyncPoints)
    BY <1>p, <1>r, <1>w DEF Kinds, Kind
  <2> QED BY <2>1, <2>2, <1>2, <1>w, <1>n, Everybody
<1>8. \A u \in Thread : u # t => WakesInTask(u) /\ index'[u] = index[u] /\ point'[u] = point[u]
                                 /\ statusTable'[u] = statusTable[u]
  BY <1>1, <1>4, <1>u
<1> QED BY <1>u, <1>w, <1>n, <1>5, <1>6, <1>7, <1>8, NoRelease

LEMMA releaseSynchronizedBarriers ==
  ASSUME Control, LeftCounted, Barriers, SyncCounted, releaseSynchronizedGCThreads, total > 1
  PROVE  Barriers' /\ SyncCounted'
<1> USE ThreadFacts DEF Control
<1>u. UNCHANGED <<taskTable, total, index>>
  BY DEF releaseSynchronizedGCThreads, tables
<1>r. pc[0] = "alone" /\ pc[0] \in Working
  BY DEF releaseSynchronizedGCThreads, Working
<1>w. /\ ParallelTask /\ taskTable[0] # None /\ 0 < total /\ statusTable[0] # "reserved"
      /\ InStep(0) /\ Kinds(0) /\ AtBarrier(0)
      /\ syncIndex \in Nat /\ syncCount \in Nat /\ Len(SyncPoints) \in Nat
      /\ index \in [Thread -> Nat] /\ point \in [Thread -> Nat]
  BY <1>r, WorkerFacts
<1>p. point[0] = syncIndex + 1 /\ point[0] <= Len(SyncPoints)
  BY <1>r, <1>w DEF InStep, Kinds, Kind
<1>1. /\ syncCount' = 0 /\ syncIndex' = syncIndex + 1
      /\ NotifyAll(synchronizeMutex, 0, "run")
      /\ point' = [point EXCEPT ![0] = point[0] + 1]
  BY DEF releaseSynchronizedGCThreads, Pass
<1>2. \A u \in Thread : u < total => taskTable[u] # None /\ AtBarrier(u)
  BY <1>r, <1>w DEF Barriers
<1>3. "run" \in AllPc
  BY WorkingNames DEF Working
<1>4. \A u \in Thread : u # 0 => pc[u] # "alone"
  BY DEF ProcessTypes, SlavePc, Unstarted
<1>5. pc'[0] = "run" /\ \A u \in Thread : u # 0 => WakesInTask(u) /\ pc'[u] \notin {"barrier", "held"}
  BY <1>1, <1>3, TaskNotified DEF WakesInTask
<1>6. point'[0] = point[0] + 1 /\ \A u \in Thread : u # 0 => index'[u] = index[u] /\ point'[u] = point[u]
  BY <1>1, <1>u, <1>w
<1> QED BY <1>u, <1>w, <1>p, <1>1, <1>2, <1>4, <1>5, <1>6, Release

\* A thread completes only after the last barrier.
LEMMA CompleteBarriers ==
  ASSUME Control, LeftCounted, Barriers, SyncCounted, NEW t \in Thread, Complete(t),
         pc'[t] \in {"loop", "completing", "cleanup"},
         \A u \in Thread : u # t => WakesInTask(u), total > 1
  PROVE  Barriers' /\ SyncCounted'
<1> USE ThreadFacts DEF Control
<1>u. UNCHANGED <<total, syncIndex, index, point>> /\ syncCount' = syncCount + 1
  BY DEF Complete, ProcessTypes
<1>r. pc[t] = "run" /\ point[t] > Len(SyncPoints) /\ pc[t] \in Working
  BY DEF Complete, Working
<1>w. /\ ParallelTask /\ taskTable[t] # None /\ t < total /\ statusTable[t] # "reserved"
      /\ InStep(t) /\ (pc[0] = "alone" => AtBarrier(t))
      /\ syncIndex \in Nat /\ syncCount \in Nat /\ Len(SyncPoints) \in Nat
      /\ index \in [Thread -> Nat] /\ point \in [Thread -> Nat]
  BY <1>r, WorkerFacts
<1>f. /\ \A u \in Thread : u # t => statusTable'[u] = statusTable[u] /\ taskTable'[u] = taskTable[u]
      /\ taskTable'[t] = None
  BY DEF Complete, ProcessTypes
<1>b. /\ syncIndex <= Len(SyncPoints)
      /\ \A u \in Thread : taskTable[u] # None => InStep(u)
      /\ \A u \in Thread : Kinds(u)
      /\ syncCount = Cardinality(Counted)
  BY <1>w DEF Barriers, SyncCounted
<1>p. syncIndex = Len(SyncPoints)
  BY <1>r, <1>w, <1>b DEF InStep
<1>n. ~ AtBarrier(t) /\ pc[0] # "alone"
  BY <1>r, <1>w DEF AtBarrier
<1>o. \A u \in Thread : u # t => /\ InStep(u) => InStep(u)'
                                 /\ AtBarrier(u)' <=> AtBarrier(u)
                                 /\ Kinds(u) => Kinds(u)'
                                 /\ pc'[u] = "alone" <=> pc[u] = "alone"
  BY <1>u, <1>f, WokenInStep
<1>1. \A u \in Thread : taskTable'[u] # None => InStep(u)'
  BY <1>b, <1>f, <1>o
<1>2. \A u \in Thread : Kinds(u)'
  <2>1. Kinds(t)'
    BY DEF Kinds
  <2> QED BY <2>1, <1>b, <1>o
<1>3. pc'[0] # "alone"
  BY <1>n, <1>o
<1>4. syncCount' = Cardinality(Counted')
  <2>1. \A u \in Thread : u # t => (u \in Counted' <=> u \in Counted)
    BY <1>u, <1>f, <1>o DEF Counted
  <2>2. t \in Counted' /\ t \notin Counted
    BY <1>u, <1>w, <1>f, <1>n DEF Counted
  <2>3. Counted \subseteq Thread /\ Counted' \subseteq Thread
    BY DEF Counted
  <2>4. Counted' = Counted \cup {t}
    BY <2>1, <2>2, <2>3
  <2> QED BY <2>2, <2>4, <1>u, <1>b, Finite, FS_AddElement
<1> QED BY <1>u, <1>p, <1>b, <1>1, <1>2, <1>3, <1>4 DEF Barriers, SyncCounted

\* A step that concerns no barrier: nobody in the task moves.
LEMMA ElsewhereBarriers ==
  ASSUME Barriers, SyncCounted, ParallelTask,
         UNCHANGED <<statusTable, taskTable, total, syncCount, syncIndex, index, point>>,
         \A u \in Thread : pc'[u] = pc[u] \/ (pc[u] \notin Working /\ pc'[u] \notin Working),
         \A u \in Thread : statusTable[u] = "active" <=> pc[u] \in Working,
         \A u \in Thread : taskTable[u] # None <=> statusTable[u] \in {"reserved", "active"}
  PROVE  Barriers' /\ SyncCounted'
<1>1. ASSUME NEW u \in Thread
      PROVE  /\ InStep(u) /\ taskTable[u] # None => InStep(u)'
             /\ AtBarrier(u)' <=> AtBarrier(u)
             /\ Kinds(u) => Kinds(u)'
             /\ pc'[u] = "alone" <=> pc[u] = "alone"
  <2>1. CASE pc'[u] = pc[u]
    BY <2>1 DEF InStep, AtBarrier, Kinds, Kind
  <2>2. CASE pc[u] \notin Working /\ pc'[u] \notin Working
    <3>1. ~ AtBarrier(u) /\ ~ AtBarrier(u)' /\ Kinds(u)' /\ pc'[u] # "alone" /\ pc[u] # "alone"
      BY <2>2 DEF AtBarrier, Kinds, Working
    <3>2. InStep(u) /\ taskTable[u] # None => InStep(u)'
      BY <2>2 DEF InStep, Working
    <3> QED BY <3>1, <3>2
  <2> QED BY <2>1, <2>2
<1>2. Counted' = Counted
  BY <1>1 DEF Counted
<1> QED BY <1>1, <1>2, ThreadFacts DEF Barriers, SyncCounted

LEMMA AcceptBarriers ==
  ASSUME Control, Barriers, SyncCounted, NEW t \in Thread, Accept(t), statusTable[t] = "reserved",
         UNCHANGED <<dispatcher, taskTable, task, index>>, taskTable[t] # None, ParallelTask,
         pc'[t] = "run", \A u \in Thread : u # t => pc'[u] = pc[u]
  PROVE  Barriers' /\ SyncCounted'
<1> USE ThreadFacts DEF Control
<1>u. UNCHANGED <<taskTable, total, syncCount, syncIndex, index>>
  BY DEF task
<1>r. pc[t] \in {"loop", "accept"}
  BY DEF Statuses
<1>s. syncIndex = 0
  <2>1. InStep(t)
    BY DEF Barriers
  <2> QED BY <1>r, <2>1 DEF InStep
<1>f. /\ point'[t] = 1
      /\ \A u \in Thread : u # t => statusTable'[u] = statusTable[u] /\ point'[u] = point[u]
  BY DEF Accept, ProcessTypes
<1>1. InStep(t)' /\ Kinds(t)' /\ ~ AtBarrier(t) /\ ~ AtBarrier(t)'
  BY <1>u, <1>r, <1>s, <1>f DEF InStep, Kinds, AtBarrier
<1>2. pc'[0] = "alone" => pc[0] = "alone"
  OBVIOUS
<1>3. \A u \in Thread : u # t => WakesInTask(u) /\ index'[u] = index[u]
  BY <1>u DEF WakesInTask
<1> QED BY <1>u, <1>f, <1>1, <1>2, <1>3, NoRelease

\* A new task starts before its first barrier, with nobody counted.
LEMMA prepareBarriers ==
  ASSUME Control, Control', prepareThreadsForTask
  PROVE  Barriers' /\ SyncCounted'
<1> USE ThreadFacts DEF Control
<1>1. /\ syncCount' = 0 /\ syncIndex' = 0
      /\ \A u \in Thread : u < total' => taskTable'[u] # None /\ statusTable'[u] = "reserved"
  <2>1. PICK active \in 1 .. threadCount :
        /\ total' = active
        /\ statusTable' = [u \in Thread |-> IF u < active THEN "reserved" ELSE statusTable[u]]
        /\ taskTable' = [u \in Thread |-> IF u < active THEN taskNo + 1 ELSE taskTable[u]]
    BY DEF prepareThreadsForTask
  <2> QED BY <2>1, ProcessNoneAssumption DEF prepareThreadsForTask, ProcessTypes
<1>2. \A u \in Thread : taskTable'[u] # None => u < total'
  BY DEF Tasks
<1>3. \A u \in Thread : pc'[u] \in {"loop", "accept"}
  <2>1. \A s \in Slave : pc[s] \in {"loop", "asleep"}
    BY SlavesIdle DEF prepareThreadsForTask
  <2>2. "accept" \in AllPc
    BY DEF AllPc, MainPc, TaskPc
  <2> QED BY <2>1, <2>2, SlavesNotified DEF prepareThreadsForTask
<1>4. \A u \in Thread : Kinds(u)' /\ ~ AtBarrier(u)' /\ pc'[u] # "alone"
  BY <1>3 DEF Kinds, AtBarrier
<1>5. \A u \in Thread : taskTable'[u] # None => InStep(u)'
  BY <1>1, <1>2 DEF InStep
<1>6. Counted' = {}
  BY <1>1, <1>4 DEF Counted
<1>7. 0 <= Len(SyncPoints)
  BY ProcessSyncAssumption
<1> QED BY <1>1, <1>4, <1>5, <1>6, <1>7, FS_EmptySet DEF Barriers, SyncCounted

-----------------------------------------------------------------------------
(***************************************************************************)
(* The invariant.                                                          *)
(***************************************************************************)
LEMMA PInvInit == Init => PInv
<1> SUFFICES ASSUME Init PROVE PInv
  OBVIOUS
<1> USE ThreadFacts
<1>1. /\ \A s \in Slave : pc[s] = "unborn" /\ s > 0
      /\ pc[0] = "initialize"
      /\ \A t \in Thread : pc[t] \notin Working /\ statusTable[t] = "inactive" /\ taskTable[t] = None
                           /\ current[t] = None
  BY DEF Init, Working
<1>2. ProcessTypes
  <2>1. pc \in [Thread -> AllPc]
    BY DEF Init, AllPc, MainPc, SlavePc, Unstarted
  <2>2. pc[0] \in MainPc /\ \A s \in Slave : pc[s] \in SlavePc
    BY <1>1 DEF MainPc, SlavePc, Unstarted
  <2>3. /\ statusTable \in [Thread -> Status]
        /\ taskTable \in [Thread -> Nat \cup {None}] /\ current \in [Thread -> Nat \cup {None}]
        /\ index \in [Thread -> Nat] /\ point \in [Thread -> Nat]
    BY DEF Init, Status
  <2>4. /\ flags \in {"none", "ok", "failed"} /\ forked \in 0 .. SlaveCount /\ inShutdown \in BOOLEAN
        /\ threadCount \in 1 .. SlaveCount + 1 /\ taskNo \in Nat /\ total \in 0 .. SlaveCount + 1
        /\ syncCount \in Nat /\ syncIndex \in Nat
    <3>1. /\ flags = "none" /\ forked = 0 /\ inShutdown = FALSE /\ threadCount = 1 /\ taskNo = 0
          /\ total = 0 /\ syncCount = 0 /\ syncIndex = 0
      BY DEF Init
    <3>2. inShutdown \in BOOLEAN
      BY <3>1, Zenon
    <3>3. 0 \in 0 .. SlaveCount /\ 1 \in 1 .. SlaveCount + 1 /\ 0 \in 0 .. SlaveCount + 1
      OBVIOUS
    <3> QED BY <3>1, <3>2, <3>3
  <2> QED BY <2>1, <2>2, <2>3, <2>4 DEF ProcessTypes
<1>3. Started
  BY <1>1 DEF Init, Started, NextSlave, TaskPc, Working, Ended
<1>4. Unfinished = {} /\ Alive = {}
  BY <1>1 DEF Init, Unfinished, Alive
<1>5. Statuses /\ Tasks
  BY <1>1, <1>4 DEF Init, Statuses, Tasks
<1>6. ~ ParallelTask
  BY <1>1 DEF ParallelTask, TaskPc, Working
<1>7. AliveCounted /\ LeftCounted
  BY <1>4, FS_EmptySet DEF Init, AliveCounted, LeftCounted
<1> QED BY <1>2, <1>3, <1>5, <1>6, <1>7 DEF PInv, Barriers, SyncCounted

\* The steps of starting, dispatching and ending.
LEMMA OutsideStep ==
  ASSUME PInv,
         \/ printUsageAndExit \/ InitializeHeap \/ createThread \/ createThreadFailed
         \/ slaveStarted \/ startUpThreads \/ prepareThreadsForTask \/ masterAcceptTask
         \/ masterCompleteLoop \/ cleanupAfterTask \/ Quit \/ shutDownThreads
         \/ awaitShutdown \/ OMR_Shutdown
         \/ \E s \in Slave : \/ attachVMThread(s) \/ startupFailed(s)
                             \/ setThreadInitializationComplete(s) \/ slaveEntryPoint(s)
                             \/ detachVMThread(s) \/ slaveExit(s)
  PROVE  PInv'
<1> USE ThreadFacts
<1>c. Control /\ AliveCounted /\ LeftCounted /\ Barriers /\ SyncCounted
  BY DEF PInv, Control
<1>q. ASSUME Control', AliveCounted', LeftCounted', pc'[0] \notin TaskPc PROVE PInv'
  BY <1>q DEF PInv, Control, Barriers, SyncCounted, ParallelTask
<1>o. pc[0] \in AllPc /\ pc \in [Thread -> AllPc]
  BY <1>c DEF Control, ProcessTypes, AllPc
<1>1. CASE \/ printUsageAndExit \/ InitializeHeap \/ createThreadFailed
           \/ cleanupAfterTask \/ Quit \/ awaitShutdown \/ OMR_Shutdown
  <2>1. pc'[0] \notin TaskPc
    <3>1. CASE cleanupAfterTask
      BY <3>1, <1>o DEF cleanupAfterTask, Goto, NotifyAll, TaskPc, Working
    <3>2. CASE ~ cleanupAfterTask
      BY <3>2, <1>1, <1>o
         DEF printUsageAndExit, InitializeHeap, createThreadFailed, Quit, awaitShutdown, OMR_Shutdown,
             Goto, TaskPc, Working
    <3> QED BY <3>1, <3>2
  <2> QED BY <1>c, <1>q, <1>1, <2>1, MainOnlyKeeps
<1>2. CASE masterCompleteLoop
  <2>1. Control' /\ AliveCounted' /\ LeftCounted'
    BY <1>c, <1>2, MainOnlyKeeps
  <2>2. /\ pc[0] = "completingWoken" /\ pc'[0] \in {"completing", "cleanup"}
        /\ \A s \in Slave : pc'[s] = pc[s]
    BY <1>2, <1>o DEF masterCompleteLoop, Goto
  <2>3. CASE ParallelTask
    <3>1. /\ UNCHANGED <<statusTable, taskTable, total, syncCount, syncIndex, index, point>>
      BY <1>2 DEF masterCompleteLoop, tables, task, thread
    <3>2. \A u \in Thread : pc'[u] = pc[u] \/ (pc[u] \notin Working /\ pc'[u] \notin Working)
      BY <2>2 DEF Working
    <3>3. Barriers' /\ SyncCounted'
      BY <1>c, <2>3, <3>1, <3>2, ElsewhereBarriers DEF Control, Statuses, Tasks
    <3> QED BY <2>1, <3>3 DEF PInv, Control
  <2>4. CASE ~ ParallelTask
    <3>1. ~ ParallelTask'
      BY <2>2, <2>4, <1>2 DEF ParallelTask, TaskPc, masterCompleteLoop, task
    <3> QED BY <2>1, <3>1 DEF PInv, Control, Barriers, SyncCounted
  <2> QED BY <2>3, <2>4
<1>3. CASE createThread
  <2>1. pc'[0] \notin TaskPc
    BY <1>3, <1>o, <1>c DEF createThread, AwaitSlave, TaskPc, Working, Control, ProcessTypes
  <2> QED BY <1>c, <1>q, <1>3, <2>1, createThreadKeeps
<1>4. CASE slaveStarted
  <2>1. pc'[0] \notin TaskPc
    BY <1>4, <1>o DEF slaveStarted, Goto, AwaitSlave, TaskPc, Working
  <2> QED BY <1>c, <1>q, <1>4, <2>1, slaveStartedKeeps
<1>5. CASE startUpThreads
  <2>1. pc'[0] \notin TaskPc
    BY <1>5, <1>o DEF startUpThreads, Goto, TaskPc, Working
  <2> QED BY <1>c, <1>q, <1>5, <2>1, startUpThreadsKeeps
<1>6. CASE shutDownThreads
  <2>1. pc'[0] \notin TaskPc
    BY <1>6, <1>o DEF shutDownThreads, NotifyAll, TaskPc, Working
  <2> QED BY <1>c, <1>q, <1>6, <2>1, shutDownThreadsKeeps
<1>7. CASE prepareThreadsForTask
  <2>1. Control' /\ AliveCounted' /\ LeftCounted'
    BY <1>c, <1>7, prepareThreadsForTaskKeeps
  <2> QED BY <1>c, <1>7, <2>1, prepareBarriers DEF PInv, Control
<1>8. ASSUME NEW t \in Thread, Accept(t), statusTable[t] = "reserved",
             UNCHANGED <<dispatcher, taskTable, task, index>>
      PROVE  PInv'
  <2>1. /\ Control' /\ AliveCounted' /\ LeftCounted'
        /\ taskTable[t] # None /\ pc[0] \in TaskPc
        /\ pc'[t] = "run" /\ (\A u \in Thread : u # t => pc'[u] = pc[u])
    BY <1>c, <1>8, AcceptKeeps
  <2>2. CASE total > 1
    <3>1. ParallelTask
      BY <2>1, <2>2 DEF ParallelTask
    <3> QED BY <1>c, <1>8, <2>1, <3>1, AcceptBarriers DEF PInv, Control
  <2>3. CASE ~ (total > 1)
    BY <1>8, <2>1, <2>3 DEF PInv, Control, Barriers, SyncCounted, ParallelTask, task
  <2> QED BY <2>2, <2>3
<1>9. CASE masterAcceptTask
  <2>1. statusTable[0] = "reserved"
    BY <1>9, <1>c DEF masterAcceptTask, Control, Statuses
  <2> QED BY <1>8, <1>9, <2>1 DEF masterAcceptTask
<1>10. ASSUME NEW s \in Slave, slaveEntryPoint(s) PROVE PInv'
  <2>1. CASE statusTable[s] = "waiting"
    <3>1. /\ Control' /\ AliveCounted' /\ LeftCounted'
          /\ UNCHANGED <<statusTable, taskTable, total, syncCount, syncIndex, index, point>>
          /\ pc'[s] = "asleep" /\ (\A u \in Thread : u # s => pc'[u] = pc[u])
      BY <1>c, <1>10, <2>1, SleepKeeps
    <3>2. pc[s] = "loop" /\ pc'[0] = pc[0]
      BY <1>10, <3>1 DEF slaveEntryPoint
    <3>3. CASE ParallelTask
      <4>1. \A u \in Thread : pc'[u] = pc[u] \/ (pc[u] \notin Working /\ pc'[u] \notin Working)
        BY <3>1, <3>2 DEF Working
      <4>2. Barriers' /\ SyncCounted'
        BY <1>c, <3>1, <3>3, <4>1, ElsewhereBarriers DEF Control, Statuses, Tasks
      <4> QED BY <3>1, <4>2 DEF PInv, Control
    <3>4. CASE ~ ParallelTask
      BY <3>1, <3>2, <3>4 DEF PInv, Control, Barriers, SyncCounted, ParallelTask
    <3> QED BY <3>3, <3>4
  <2>2. CASE statusTable[s] = "dying"
    <3>1. Control' /\ AliveCounted' /\ LeftCounted'
      BY <1>c, <1>10, <2>2, SlaveLeavesKeeps
    <3>2. pc'[0] \notin TaskPc
      <4>1. pc[0] \in Ended \cup {"aborted"} /\ pc'[0] = pc[0]
        BY <1>c, <1>10, <2>2, <1>o, DyingSlave DEF slaveEntryPoint, Goto
      <4> QED BY <4>1 DEF Ended, TaskPc, Working
    <3> QED BY <1>q, <3>1, <3>2
  <2>3. CASE statusTable[s] = "reserved"
    BY <1>8, <1>10, <2>3 DEF slaveEntryPoint
  <2> QED BY <1>10, <2>1, <2>2, <2>3 DEF slaveEntryPoint
<1>11. ASSUME NEW s \in Slave, detachVMThread(s) \/ slaveExit(s) PROVE PInv'
  <2>1. Control' /\ AliveCounted' /\ LeftCounted'
    BY <1>c, <1>11, SlaveLeavesKeeps
  <2>2. pc[s] \in {"detach", "detached"} /\ statusTable[s] = "dying"
    BY <1>c, <1>11 DEF detachVMThread, slaveExit, Control, Statuses
  <2>3. inShutdown
    BY <1>c, <2>2 DEF Control, Statuses
  <2>4. inShutdown'
    BY <1>11, <2>3 DEF detachVMThread, slaveExit, dispatcher
  <2>5. pc'[0] \in Ended \cup {"aborted"}
    BY <2>1, <2>4 DEF Control, Started
  <2> QED BY <1>q, <2>1, <2>5 DEF Ended, TaskPc, Working
<1>12. ASSUME NEW s \in Slave, attachVMThread(s) PROVE PInv'
  <2>1. Control' /\ AliveCounted' /\ LeftCounted'
    BY <1>c, <1>12, attachVMThreadKeeps
  <2>2. pc'[0] = "awaitSlave"
    BY <1>c, <1>12, <1>o, NewSlave DEF attachVMThread, Unstarted, Goto
  <2> QED BY <1>q, <2>1, <2>2 DEF TaskPc, Working
<1>13. ASSUME NEW s \in Slave, startupFailed(s) \/ setThreadInitializationComplete(s) PROVE PInv'
  <2>1. Control' /\ AliveCounted' /\ LeftCounted'
    BY <1>c, <1>13, SlaveCallsKeeps
  <2>2. pc[0] = "awaitSlave"
    BY <1>c, <1>13, NewSlave DEF startupFailed, setThreadInitializationComplete, Unstarted
  <2>3. pc'[0] = "slaveCalled"
    BY <1>13, <2>2, AwakeFacts DEF startupFailed, setThreadInitializationComplete, NotifyAll, dispatcherMonitor
  <2> QED BY <1>q, <2>1, <2>3 DEF TaskPc, Working
<1> QED BY <1>1, <1>2, <1>3, <1>4, <1>5, <1>6, <1>7, <1>9, <1>10, <1>11, <1>12, <1>13

\* The steps at barriers.
LEMMA BarrierStep ==
  ASSUME PInv, NEW t \in Thread, SyncStep(t) \/ (t = 0 /\ releaseSynchronizedGCThreads)
  PROVE  PInv'
<1>c. Control /\ AliveCounted /\ LeftCounted /\ Barriers /\ SyncCounted
  BY DEF PInv, Control
<1>t. ProcessTypes /\ Statuses /\ Tasks
  BY <1>c DEF Control
<1>m. MoveInTask(t) /\ SyncTypes'
  BY <1>t, synchronizeGCThreadsMoves, barrierLoopMoves, readIndexMoves, ReleaseMasterMoves,
     heldLoopMoves, ReleaseMoves DEF SyncStep
<1>1. Control' /\ Alive' = Alive /\ Unfinished' = Unfinished
  BY <1>c, <1>m, MoveInTaskControl
<1>2. AliveCounted' /\ LeftCounted'
  BY <1>c, <1>m, <1>1 DEF AliveCounted, LeftCounted, MoveInTask, dispatcher
<1>3. CASE total > 1
  <2>1. Barriers' /\ SyncCounted'
    BY <1>c, <1>3, synchronizeGCThreadsBarriers, LoopBarriers, readIndexBarriers,
       ReleaseMasterBarriers, releaseSynchronizedBarriers DEF SyncStep
  <2> QED BY <1>1, <1>2, <2>1 DEF PInv, Control
<1>4. CASE ~ (total > 1)
  <2>1. ~ ParallelTask'
    BY <1>4, <1>m DEF ParallelTask, MoveInTask
  <2> QED BY <1>1, <1>2, <2>1 DEF PInv, Control, Barriers, SyncCounted
<1> QED BY <1>3, <1>4

\* A thread completes the task.
LEMMA CompleteStep ==
  ASSUME PInv, masterComplete \/ \E s \in Slave : slaveComplete(s)
  PROVE  PInv'
<1> USE ThreadFacts
<1>c. Control /\ AliveCounted /\ LeftCounted /\ Barriers /\ SyncCounted /\ ProcessTypes
  BY DEF PInv, Control
<1>n. "loop" \in AllPc /\ "completing" \in AllPc /\ "cleanup" \in AllPc
  BY DEF AllPc, MainPc, TaskPc, SlavePc
<1>1. PICK t \in Thread :
        /\ Complete(t)
        /\ pc' \in [Thread -> AllPc]
        /\ t # 0 => pc'[t] = "loop"
        /\ t = 0 => pc'[t] = IF left' # 0 THEN "completing" ELSE "cleanup"
        /\ \A u \in Thread : u # t => WakesInTask(u)
  <2>1. CASE masterComplete
    <3>1. Complete(0) /\ Goto(0, IF left' # 0 THEN "completing" ELSE "cleanup")
      BY <2>1 DEF masterComplete, MasterWaits
    <3>2. PICK l \in {"completing", "cleanup"} : l = IF left' # 0 THEN "completing" ELSE "cleanup"
      OBVIOUS
    <3>3. Goto(0, l)
      BY <3>1, <3>2
    <3>4. pc' \in [Thread -> AllPc] /\ pc'[0] = l /\ \A u \in Thread : u # 0 => pc'[u] = pc[u]
      BY <1>c, <1>n, <3>3, GotoMoves
    <3> QED BY <3>1, <3>2, <3>4 DEF WakesInTask
  <2>2. ASSUME NEW s \in Slave, slaveComplete(s)
        PROVE  /\ Complete(s) /\ pc' \in [Thread -> AllPc] /\ pc'[s] = "loop"
               /\ \A u \in Thread : u # s => WakesInTask(u)
    <3>1. Complete(s) /\ (NotifyAll(synchronizeMutex, s, "loop") \/ Goto(s, "loop"))
      BY <2>2 DEF slaveComplete
    <3> QED BY <1>c, <1>n, <3>1, GotoMoves, TaskNotified DEF WakesInTask
  <2> QED BY <2>1, <2>2
<1>2. Control' /\ LeftCounted' /\ Alive' = Alive
  BY <1>c, <1>1, CompleteControl
<1>3. AliveCounted'
  BY <1>c, <1>1, <1>2 DEF AliveCounted, Complete, dispatcher
<1>4. CASE total > 1
  <2>1. Barriers' /\ SyncCounted'
    BY <1>c, <1>1, <1>4, CompleteBarriers
  <2> QED BY <1>2, <1>3, <2>1 DEF PInv, Control
<1>5. CASE ~ (total > 1)
  <2>1. ~ ParallelTask'
    BY <1>1, <1>5 DEF ParallelTask, Complete
  <2> QED BY <1>2, <1>3, <2>1 DEF PInv, Control, Barriers, SyncCounted
<1> QED BY <1>4, <1>5

LEMMA PInvStep == PInv /\ [Next]_vars => PInv'
<1> SUFFICES ASSUME PInv, [Next]_vars PROVE PInv'
  OBVIOUS
<1>1. CASE UNCHANGED vars
  BY <1>1 DEF PInv, ProcessTypes, Started, NextSlave, Statuses, Tasks, Barriers, AliveCounted, LeftCounted,
     SyncCounted, ParallelTask, InStep, Kinds, Kind, AtBarrier, Counted, Alive, Unfinished,
     vars, dispatcher, tables, task, thread
<1>2. CASE Next
  BY <1>2, ThreadFacts, OutsideStep, BarrierStep, CompleteStep DEF Next, MainStep, SlaveStep, SyncStep
<1> QED BY <1>1, <1>2

\* The invariant of the process and of its tasks holds in every run, for any number of
\* slaves and any sequence of barriers (startUpThreads, slaveEntryPoint,
\* MM_ParallelTask).
THEOREM ProcessInvariant == Spec => []PInv
BY PInvInit, PInvStep, PTL DEF Spec

\* No slave works on a task the master has completed, and none is alive when the
\* dispatcher and the VM are shut down (MM_ParallelTask::complete, shutDownThreads).
THEOREM NothingIsLeftDangling == Spec => []NothingDangles
<1>1. PInv => NothingDangles
  <2> SUFFICES ASSUME PInv PROVE NothingDangles
    OBVIOUS
  <2> USE ThreadFacts
  <2>1. ASSUME NEW s \in Slave, InTask(s) PROVE current[s] = taskNo /\ pc[0] \in TaskPc
    <3>1. pc[s] \in Working /\ current[s] = taskNo
      BY <2>1 DEF PInv, Tasks, InTask
    <3>2. taskTable[s] # None
      BY <3>1, OneThread DEF PInv
    <3> QED BY <3>1, <3>2 DEF PInv, Tasks, Unfinished
  <2>2. ASSUME pc[0] = "exited", NEW s \in Slave PROVE pc[s] = "gone"
    <3>1. forked = SlaveCount /\ shutdownCount = 0
      BY <2>2 DEF PInv, Started
    <3>2. Alive = {}
      BY <3>1, Finite, FS_EmptySet DEF PInv, AliveCounted
    <3>3. s <= forked
      BY <3>1 DEF Slave
    <3> QED BY <3>2, <3>3 DEF Alive
  <2> QED BY <2>1, <2>2 DEF NothingDangles, TaskPc, Working
<1> QED BY <1>1, ProcessInvariant, PTL

\* The barriers keep the threads of a task in step: those that wait wait at the same
\* point, nobody passes a barrier before every thread of the task has come to it, and
\* the master works alone only while the others wait (synchronizeGCThreads,
\* synchronizeGCThreadsAndReleaseMaster).
THEOREM BarriersKeepStep == Spec => []BarriersHold
<1>1. PInv => BarriersHold
  <2> SUFFICES ASSUME PInv PROVE BarriersHold
    OBVIOUS
  <2> USE ThreadFacts
  <2>1. ASSUME NEW t \in Thread, InTask(t)
        PROVE  /\ pc[t] \in Working /\ taskTable[t] # None /\ pc[0] \in TaskPc /\ total \in Nat
               /\ t \in Nat /\ t < total /\ point[t] \in Nat /\ statusTable[t] # "reserved"
    <3>1. pc[t] \in Working
      BY <2>1 DEF PInv, Tasks, InTask
    <3>2. taskTable[t] # None /\ t < total /\ statusTable[t] # "reserved"
      BY <3>1, OneThread DEF PInv
    <3> QED BY <3>1, <3>2 DEF PInv, Tasks, Unfinished, ProcessTypes, Thread
  <2>2. ASSUME NEW t \in Thread, InTask(t), total > 1
        PROVE  /\ syncIndex \in Nat
               /\ point[t] \in {syncIndex, syncIndex + 1}
               /\ Waiting(t) => point[t] = syncIndex + 1
               /\ point[t] = syncIndex => pc[t] \in {"barrierWoken", "heldWoken"}
    <3>1. InStep(t) /\ statusTable[t] # "reserved"
      BY <2>1, <2>2 DEF PInv, Barriers, ParallelTask
    <3> QED BY <3>1 DEF InStep, Waiting, PInv, ProcessTypes
  <2>3. ASSUME NEW t \in Thread, NEW u \in Thread, InTask(t), InTask(u)
        PROVE  /\ Waiting(t) /\ Waiting(u) => point[t] = point[u]
               /\ point[t] > point[u] =>
                    pc[u] \in {"barrierWoken", "heldWoken"} /\ point[t] = point[u] + 1
    <3>1. CASE total > 1
      BY <2>2, <2>3, <3>1
    <3>2. CASE ~ (total > 1)
      <4>1. t = u
        BY <2>1, <2>3, <3>2
      <4> QED BY <2>1, <2>3, <4>1
    <3> QED BY <3>1, <3>2
  <2>4. ASSUME pc[0] = "alone", NEW s \in Slave, s < total
        PROVE  pc[s] \in {"held", "heldWoken"} /\ point[s] = point[0]
    <3>1. s \in Nat /\ 0 < s /\ total \in Nat /\ total > 1 /\ 0 < total
      BY <2>4 DEF Slave, PInv, ProcessTypes
    <3>2. ParallelTask
      BY <2>4, <3>1 DEF ParallelTask, TaskPc, Working
    <3>3. \A t \in {0, s} : /\ t \in Thread /\ AtBarrier(t) /\ InStep(t) /\ Kinds(t)
                            /\ pc[t] \in Working /\ statusTable[t] # "reserved"
      <4>1. \A t \in {0, s} : t \in Thread /\ AtBarrier(t) /\ taskTable[t] # None
        BY <2>4, <3>1, <3>2 DEF PInv, Barriers
      <4>2. \A t \in {0, s} : pc[t] \in Working
        BY <4>1 DEF AtBarrier, Working
      <4>3. \A t \in {0, s} : statusTable[t] # "reserved"
        BY <4>1, <4>2 DEF PInv, Statuses, Working
      <4>4. \A t \in {0, s} : InStep(t) /\ Kinds(t)
        BY <4>1, <3>2 DEF PInv, Barriers
      <4> QED BY <4>1, <4>2, <4>3, <4>4
    <3>4. \A t \in {0, s} : point[t] = syncIndex + 1
      BY <3>3 DEF InStep, AtBarrier, PInv, ProcessTypes
    <3>5. SyncPoints[syncIndex + 1] = "master"
      BY <2>4, <3>3, <3>4 DEF Kinds, Kind
    <3>6. pc[s] \notin {"barrier", "barrierWoken"}
      BY <3>3, <3>4, <3>5 DEF Kinds, Kind
    <3>7. pc[s] # "alone"
      BY DEF PInv, ProcessTypes, SlavePc, Unstarted
    <3> QED BY <3>3, <3>4, <3>6, <3>7 DEF AtBarrier
  <2>5. ASSUME NEW t \in Thread, NEW u \in Thread, InTask(t), statusTable[u] = "reserved"
        PROVE  point[t] = 1
    <3>1. taskTable[u] # None /\ u < total /\ u \in Nat /\ t # u
      BY <2>1, <2>5 DEF PInv, Tasks, Thread
    <3>2. ParallelTask
      BY <2>1, <2>5, <3>1 DEF ParallelTask
    <3>3. pc[u] \notin Working
      BY <2>5 DEF PInv, Statuses
    <3>4. InStep(u)
      BY <3>1, <3>2 DEF PInv, Barriers
    <3>5. syncIndex = 0
      BY <3>3, <3>4 DEF InStep, Working
    <3>6. InStep(t) /\ statusTable[t] # "reserved"
      BY <2>1, <2>5, <3>2 DEF PInv, Barriers
    <3> QED BY <3>5, <3>6 DEF InStep, PInv, ProcessTypes
  <2> QED BY <2>3, <2>4, <2>5 DEF BarriersHold
<1> QED BY <1>1, ProcessInvariant, PTL
=============================================================================
