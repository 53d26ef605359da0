------------------------------- MODULE Marking -------------------------------
(***************************************************************************)
(* The parallel mark task of the OMR collector SOMR runs on (src/omr32/gc/ *)
(* base), with the glue's scanRoots and scanObject: MM_ParallelMarkTask,   *)
(* MM_MarkingScheme, MM_WorkStack, MM_WorkPackets, MM_OverflowStandard.    *)
(*                                                                         *)
(* Every GC thread clears its share of the mark map, marks all roots and   *)
(* then scans marked objects until none is left.  Objects to scan travel   *)
(* in packets.  A thread fills an output packet, empties an input packet,  *)
(* and exchanges packets with the others through shared lists; when memory *)
(* for packets is exhausted a packet is emptied into overflow bits of the  *)
(* mark map, and the master thread walks the heap for them.  A packet is   *)
(* the sequence of objects in it; of the empty ones only the number counts.*)
(*                                                                         *)
(* An action is what happens between two points where another thread can   *)
(* interfere: a list operation (each list has its lock), a test-and-set of *)
(* a mark bit, a section of the monitor _inputListMonitor.  The three      *)
(* counters read by inputPacketAvailable are not read at one instant, so   *)
(* while another thread moves packets a thread may overlook one.  Which of *)
(* several packets a list returns is left open.  The mutator is stopped:   *)
(* the object graph does not change.                                       *)
(***************************************************************************)
EXTENDS Naturals, Sequences, FiniteSets, Functions

CONSTANTS
  Thread,         \* GC threads of the task
  Master,         \* the thread that runs the collection
  ObjCount,       \* objects of the heap, numbered by address
  Graphs,         \* heaps: records of refs, roots and slots, the size of a packet
  MaxPackets,     \* _maxPackets
  InitialPackets, \* packets allocated by initialize
  BlockSize,      \* _packetsPerBlock
  None

Obj == 1 .. ObjCount

ASSUME MarkThreadAssumption == Master \in Thread /\ IsFiniteSet(Thread)
ASSUME MarkPacketAssumption ==
  /\ ObjCount \in Nat /\ MaxPackets \in Nat
  /\ InitialPackets \in 0 .. MaxPackets /\ BlockSize \in Nat \ {0}
  /\ None \notin Obj \cup Seq(Obj) \cup Thread
ASSUME MarkGraphAssumption ==
  \A g \in Graphs : g.roots \in Seq(Obj) /\ g.refs \in [Obj -> Seq(Obj)] /\ g.slots \in Nat \ {0}
\* CMVC 194431: two packets for every thread (WorkPackets::initialize).
ASSUME ForwardProgressAssumption == InitialPackets >= 2 * Cardinality(Thread)

VARIABLES
  graph,      \* the heap: refs[o] are the fields scanObject marks; constant
  marked,     \* mark bits
  over,       \* overflow bits: the second bit of a marked object
  overflow,   \* MM_WorkPacketOverflow::_overflow
  active,     \* _activePackets
  empty,      \* length of _emptyPacketList
  input,      \* packets on the full, relatively full and non-empty lists
  waitCount,  \* _inputListWaitCount
  doneIndex,  \* _inputListDoneIndex
  owner,      \* holder of _inputListMonitor, or None
  unitIndex,  \* MM_ParallelTask::_workUnitIndex
  unit,       \* thread -> its work unit index
  claim,      \* thread -> work unit to handle
  pc,         \* thread -> where it is
  in, out,    \* thread -> input and output packet of its work stack
  item,       \* thread -> object whose push has failed
  todo,       \* thread -> references of the current object still to be marked
  cursor,     \* where the master's walk of the heap has got to, 0 if none
  seen        \* thread -> doneIndex read on entry to getInputPacket

shared == <<graph, marked, over, overflow, active, empty, input>>
monitor == <<waitCount, doneIndex, owner>>
units == <<unitIndex, unit, claim>>
stack == <<in, out, item, todo>>
vars == <<shared, monitor, units, pc, stack, cursor, seen>>

Refs(o) == graph.refs[o]
Slots == graph.slots     \* _slotsInPacket
Goto(t, l) == pc' = [pc EXCEPT ![t] = l]

-----------------------------------------------------------------------------
(***************************************************************************)
(* Packet lists.                                                           *)
(***************************************************************************)

inputPacketAvailable == input # {}

\* Mutated form: a used packet is not given back.
putPacket_Leak(p) ==
  IF p = << >>
    THEN UNCHANGED <<empty, input>>
    ELSE empty' = empty /\ input' = input \cup {p}

\* putPacket: an empty packet to _emptyPacketList, another to one of the lists
\* input packets are taken from.
putPacket(p) ==
  IF p = << >>
    THEN empty' = empty + 1 /\ input' = input
    ELSE empty' = empty /\ input' = input \cup {p}

\* Threads that can move packets at this moment.
Idle == {"cleared", "waiting", "woken", "held", "end"}
Moving(t) == \E u \in Thread \ {t} : pc[u] \notin Idle

\* What thread t may read when it asks inputPacketAvailable.
SeesInput(t) == {inputPacketAvailable} \cup (IF Moving(t) THEN {FALSE} ELSE {})

\* omrthread_monitor_notify: one thread of the wait set, if there is one.
Waiting == {u \in Thread : pc[u] = "waiting"}
Wake(woken, t, l) ==
  pc' = [u \in Thread |->
           IF u = t THEN l ELSE IF u \in woken THEN "woken" ELSE pc[u]]

\* omrthread_monitor_notify under a monitor that is free, then on to l.
NotifyOne(t, l) ==
  IF waitCount > 0 /\ Waiting # {}
    THEN \E u \in Waiting : Wake({u}, t, l)
    ELSE Goto(t, l)

\* notifyWaitingThreads: try_enter gives up when the monitor is taken, by a thread
\* that asks for input or by another one that notifies at this moment.
notifyWaitingThreads(t, l) ==
  \/ owner = None /\ NotifyOne(t, l)
  \/ (owner # None \/ Moving(t)) /\ Goto(t, l)

-----------------------------------------------------------------------------
(***************************************************************************)
(* Clearing the mark map and marking the roots.                            *)
(***************************************************************************)
Init ==
  /\ graph \in Graphs
  /\ marked = Obj
  /\ over = {}
  /\ overflow = FALSE
  /\ active = InitialPackets
  /\ empty = InitialPackets
  /\ input = {}
  /\ waitCount = 0
  /\ doneIndex = 0
  /\ owner = None
  /\ unitIndex = 0
  /\ unit = [t \in Thread |-> 0]
  /\ claim = [t \in Thread |-> 0]
  /\ pc = [t \in Thread |-> "clear"]
  /\ in = [t \in Thread |-> None]
  /\ out = [t \in Thread |-> None]
  /\ item = [t \in Thread |-> None]
  /\ todo = [t \in Thread |-> << >>]
  /\ cursor = 0
  /\ seen = [t \in Thread |-> 0]

\* MM_ParallelTask::handleNextWorkUnit: the unit t must handle once it has come
\* to unit n.
NextClaim(t, n) == IF n > claim[t] THEN unitIndex + 1 ELSE claim[t]

\* One chunk of initializeMarkMap; a chunk is the mark bits of one object.
initializeMarkMap(t) ==
  /\ pc[t] = "clear"
  /\ unit[t] < ObjCount
  /\ LET n == unit[t] + 1
         c == NextClaim(t, n)
     IN  /\ unit' = [unit EXCEPT ![t] = n]
         /\ claim' = [claim EXCEPT ![t] = c]
         /\ unitIndex' = IF c = claim[t] THEN unitIndex ELSE c
         /\ marked' = IF Cardinality(Thread) = 1 \/ n = c THEN marked \ {n} ELSE marked
         /\ over' = over \cap marked'
  /\ UNCHANGED <<graph, overflow, active, empty, input, monitor, pc, stack, cursor, seen>>

\* synchronizeGCThreads after the mark map is cleared.
\* Mutated form: threads do not wait for each other.
markLiveObjectsInit_NoSync(t) ==
  /\ pc[t] = "clear"
  /\ unit[t] = ObjCount
  /\ Goto(t, "mark")
  /\ todo' = [todo EXCEPT ![t] = graph.roots]
  /\ UNCHANGED <<shared, monitor, units, in, out, item, cursor, seen>>

\* The work units are not used again and are set back.
markLiveObjectsInit(t) ==
  /\ pc[t] = "clear"
  /\ unit[t] = ObjCount
  /\ IF \A u \in Thread \ {t} : pc[u] = "cleared"
       THEN /\ pc' = [u \in Thread |-> "mark"]
            /\ todo' = [u \in Thread |-> graph.roots]
            /\ unitIndex' = 0
            /\ unit' = [u \in Thread |-> 0]
            /\ claim' = [u \in Thread |-> 0]
       ELSE Goto(t, "cleared") /\ UNCHANGED <<todo, units>>
  /\ UNCHANGED <<shared, monitor, in, out, item, cursor, seen>>

-----------------------------------------------------------------------------
(***************************************************************************)
(* Marking an object and pushing it.                                       *)
(***************************************************************************)
HasRoom(p) == IF p = None THEN FALSE ELSE Len(p) < Slots

\* Mutated form: the bit is tested and set in two steps, so that two threads
\* may both push the object.
inlineMarkObject_Push(o) == TRUE

\* atomicSetBit succeeds: the object is pushed.
inlineMarkObject(o) == o \notin marked

\* markObject for the next reference.
markObject(t) ==
  /\ pc[t] = "mark"
  /\ todo[t] # << >>
  /\ todo' = [todo EXCEPT ![t] = Tail(@)]
  /\ LET o == Head(todo[t])
     IN  /\ marked' = marked \cup {o}
         /\ IF ~ inlineMarkObject(o)
              THEN UNCHANGED <<out, item, pc>>
              ELSE IF HasRoom(out[t])
                THEN /\ out' = [out EXCEPT ![t] = Append(@, o)]
                     /\ UNCHANGED <<item, pc>>
                ELSE /\ item' = [item EXCEPT ![t] = o]
                     /\ Goto(t, IF out[t] = None THEN "getOutput" ELSE "put")
                     /\ out' = out
  /\ UNCHANGED <<graph, over, overflow, active, empty, input, monitor, units, in, cursor, seen>>

\* pushFailed returns the full packet.  Whether the list was empty is read before
\* the packet is pushed, and may be stale.
putOutputPacket(t) ==
  /\ pc[t] = "put"
  /\ putPacket(out[t])
  /\ out' = [out EXCEPT ![t] = None]
  /\ \E mustNotify \in {input = {}} \cup (IF Moving(t) THEN BOOLEAN ELSE {}) :
       IF mustNotify THEN notifyWaitingThreads(t, "getOutput") ELSE Goto(t, "getOutput")
  /\ UNCHANGED <<graph, marked, over, overflow, active, monitor, units, in, item, todo, cursor, seen>>

\* The pending object is pushed to the output packet just taken.
PushPending(t, packet) ==
  /\ out' = [out EXCEPT ![t] = Append(packet, item[t])]
  /\ item' = [item EXCEPT ![t] = None]

\* getPacket(&_emptyPacketList).  Only full packets are ever put on the lists
\* getLeastFullPacket searches after it (PacketsConserved), so it finds none.
TakeEmpty(t) ==
  /\ empty > 0
  /\ empty' = empty - 1
  /\ PushPending(t, << >>)
  /\ Goto(t, "mark")

NoPacket(t, l) == empty = 0 /\ Goto(t, l) /\ UNCHANGED <<empty, out, item>>

getOutputPacket(t) ==
  /\ pc[t] = "getOutput"
  /\ TakeEmpty(t) \/ NoPacket(t, "grow")
  /\ UNCHANGED <<graph, marked, over, overflow, active, input, monitor, units, in, todo, cursor,
                 seen>>

\* getPacketByAdddingWorkPacketBlock, under its own monitor, with
\* initWorkPacketsBlock: the limit is reached, or memory for a block is refused.
getPacketByAdddingWorkPacketBlock(t) ==
  /\ pc[t] = "grow"
  /\ \/ TakeEmpty(t) /\ active' = active
     \/ NoPacket(t, "overflow") /\ active' = active
     \/ /\ empty = 0
        /\ active < MaxPackets
        /\ active' = active + BlockSize
        /\ empty' = BlockSize - 1
        /\ PushPending(t, << >>)
        /\ Goto(t, "mark")
  /\ UNCHANGED <<graph, marked, over, overflow, input, monitor, units, in, todo, cursor, seen>>

\* Mutated form: the flag is not set, and nobody looks for the overflow bits.
emptyToOverflow_NoFlag(objects) ==
  over' = over \cup objects /\ overflow' = overflow

\* emptyToOverflow and overflowItem: the flag and the second mark bit.
emptyToOverflow(objects) ==
  over' = over \cup objects /\ overflow' = TRUE

\* getPacketByOverflowing empties a full packet, if there is one.
getPacketByOverflowing(t) ==
  /\ pc[t] = "overflow"
  /\ \/ \E p \in input :
          /\ emptyToOverflow(Range(p))
          /\ input' = input \ {p}
          /\ PushPending(t, << >>)
          /\ Goto(t, "alert")
     \/ /\ input = {}
        /\ Goto(t, "last")
        /\ UNCHANGED <<over, overflow, input, out, item>>
  /\ UNCHANGED <<graph, marked, active, empty, monitor, units, in, todo, cursor, seen>>

\* It turns to the empty list again; pushFailed lets the object itself overflow if
\* other threads have been faster.
overflowItem(t) ==
  /\ pc[t] = "last"
  /\ \/ TakeEmpty(t) /\ UNCHANGED <<over, overflow>>
     \/ /\ empty = 0
        /\ emptyToOverflow({item[t]})
        /\ item' = [item EXCEPT ![t] = None]
        /\ Goto(t, "mark")
        /\ UNCHANGED <<empty, out>>
  /\ UNCHANGED <<graph, marked, active, input, monitor, units, in, todo, cursor, seen>>

\* The rest of getPacketByOverflowing: it enters the monitor to notify.
AlertWaiting(t) ==
  /\ pc[t] = "alert"
  /\ owner = None
  /\ NotifyOne(t, "mark")
  /\ UNCHANGED <<shared, monitor, units, stack, cursor, seen>>

-----------------------------------------------------------------------------
(***************************************************************************)
(* Popping the next object to scan.                                        *)
(***************************************************************************)
Scanned(t) == pc[t] = "mark" /\ todo[t] = << >> /\ (cursor = 0 \/ t # Master)

\* Packet p becomes the input packet, its last object the one t scans.
ScanFrom(t, p) ==
  /\ in' = [in EXCEPT ![t] = SubSeq(p, 1, Len(p) - 1)]
  /\ todo' = [todo EXCEPT ![t] = Refs(p[Len(p)])]

UsedUp(p) == p \in {None, << >>}

\* MM_WorkStack::pop from the input packet.
pop(t) ==
  /\ Scanned(t)
  /\ ~ UsedUp(in[t])
  /\ ScanFrom(t, in[t])
  /\ UNCHANGED <<shared, monitor, units, pc, out, item, cursor, seen>>

\* popFailed returns the used packet.
popFailed(t) ==
  /\ Scanned(t)
  /\ UsedUp(in[t])
  /\ IF in[t] = None THEN UNCHANGED <<empty, input>> ELSE putPacket(in[t])
  /\ in' = [in EXCEPT ![t] = None]
  /\ Goto(t, "noWait")
  /\ UNCHANGED <<graph, marked, over, overflow, active, monitor, units, out, item, todo,
                 cursor, seen>>

\* getInputPacketNoWait finds a packet, from popFailed or from getInputPacket.
getInputPacketNoWait(t) ==
  /\ pc[t] \in {"noWait", "try"}
  /\ \E p \in input : input' = input \ {p} /\ ScanFrom(t, p)
  /\ Goto(t, "found")
  /\ UNCHANGED <<graph, marked, over, overflow, active, empty, monitor, units, out, item, cursor,
                 seen>>

\* ... and wakes a waiting thread if there is more.
NotifyMore(t) ==
  /\ pc[t] = "found"
  /\ \E more \in SeesInput(t) :
       IF more THEN notifyWaitingThreads(t, "mark") ELSE Goto(t, "mark")
  /\ UNCHANGED <<shared, monitor, units, stack, cursor, seen>>

SwapPackets(t) == ~ UsedUp(out[t])

\* Without an input packet popFailed swaps its packets, or enters getInputPacket.
popFailedEmpty(t) ==
  /\ pc[t] = "noWait"
  /\ FALSE \in SeesInput(t)
  /\ IF SwapPackets(t)
       THEN /\ ScanFrom(t, out[t])
            /\ out' = [out EXCEPT ![t] = None]
            /\ Goto(t, "mark")
            /\ seen' = seen
       ELSE /\ seen' = [seen EXCEPT ![t] = doneIndex]
            /\ Goto(t, "try")
            /\ UNCHANGED <<in, out, todo>>
  /\ UNCHANGED <<shared, monitor, units, item, cursor>>

\* getInputPacket sees no packet and enters the monitor.
MonitorEnter(t) ==
  /\ pc[t] = "try"
  /\ FALSE \in SeesInput(t)
  /\ owner = None
  /\ owner' = t
  /\ Goto(t, "inside")
  /\ UNCHANGED <<shared, waitCount, doneIndex, units, stack, cursor, seen>>

\* The last thread to wait finds no packet: marking is done.
AllDone(t) ==
  waitCount + 1 = Cardinality(Thread) /\ FALSE \in SeesInput(t)

\* Mutated form: the waiting threads are not told.
ToldDone_None == {}

\* omrthread_monitor_notify_all.
ToldDone == Waiting

\* The first pass through the monitor's section.
getInputPacket(t) ==
  /\ pc[t] = "inside"
  /\ owner' = None
  /\ IF seen[t] # doneIndex
       THEN Goto(t, "done") /\ UNCHANGED <<waitCount, doneIndex>>
       ELSE \/ /\ AllDone(t)
               /\ doneIndex' = doneIndex + 1
               /\ waitCount' = 0
               /\ Wake(ToldDone, t, "done")
            \/ /\ ~ AllDone(t)
               /\ \E available \in SeesInput(t) :
                    IF available
                      THEN Goto(t, "try") /\ waitCount' = waitCount
                      ELSE Goto(t, "waiting") /\ waitCount' = waitCount + 1
               /\ doneIndex' = doneIndex
  /\ UNCHANGED <<shared, units, stack, cursor, seen>>

\* A notified thread gets the monitor back.
MonitorReenter(t) ==
  /\ pc[t] = "woken"
  /\ owner = None
  /\ owner' = t
  /\ Goto(t, "again")
  /\ UNCHANGED <<shared, waitCount, doneIndex, units, stack, cursor, seen>>

\* The loop around omrthread_monitor_wait.
getInputPacketAgain(t) ==
  /\ pc[t] = "again"
  /\ owner' = None
  /\ IF seen[t] # doneIndex
       THEN Goto(t, "done") /\ waitCount' = waitCount
       ELSE \E available \in SeesInput(t) :
              IF available
                THEN Goto(t, "try") /\ waitCount' = waitCount - 1
                ELSE Goto(t, "waiting") /\ waitCount' = waitCount
  /\ UNCHANGED <<shared, doneIndex, units, stack, cursor, seen>>

-----------------------------------------------------------------------------
(***************************************************************************)
(* Overflow, and the end of the task.                                      *)
(***************************************************************************)

\* completeScan asks handleWorkPacketOverflow whether to go on; if not, the work
\* stack is flushed and the task is over for this thread.
completeScan(t) ==
  /\ pc[t] = "done"
  /\ IF overflow
       THEN Goto(t, "held") /\ UNCHANGED <<empty, input, in, out>>
       ELSE LET held == {<<in[t], "in">>, <<out[t], "out">>} \ {<<None, "in">>, <<None, "out">>}
                used == {h \in held : h[1] # << >>}
            IN  /\ Goto(t, "end")
                /\ empty' = empty + Cardinality(held \ used)
                /\ input' = input \cup {h[1] : h \in used}
                /\ in' = [in EXCEPT ![t] = None]
                /\ out' = [out EXCEPT ![t] = None]
  /\ UNCHANGED <<graph, marked, over, overflow, active, monitor, units, item, todo, cursor, seen>>

\* handleOverflow: synchronizeGCThreadsAndReleaseMaster lets the master go when
\* all threads have come.
handleOverflow ==
  /\ \A u \in Thread : pc[u] = "held"
  /\ overflow' = FALSE
  /\ cursor' = 1
  /\ Goto(Master, "mark")
  /\ UNCHANGED <<graph, marked, over, active, empty, input, monitor, units, stack, seen>>

\* The master scans the next object with an overflow bit.
Overflowed == {o \in marked \cap over : o >= cursor}
ScanOverflowed ==
  /\ pc[Master] = "mark"
  /\ todo[Master] = << >>
  /\ cursor > 0
  /\ \E o \in Overflowed :
       /\ \A q \in Overflowed : o <= q
       /\ over' = over \ {o}
       /\ todo' = [todo EXCEPT ![Master] = Refs(o)]
       /\ cursor' = o + 1
  /\ UNCHANGED <<graph, marked, overflow, active, empty, input, monitor, units, pc, in, out, item,
                 seen>>

\* releaseSynchronizedGCThreads at the end of the walk.
releaseSynchronizedGCThreads ==
  /\ pc[Master] = "mark"
  /\ todo[Master] = << >>
  /\ cursor > 0
  /\ Overflowed = {}
  /\ cursor' = 0
  /\ pc' = [t \in Thread |-> "mark"]
  /\ UNCHANGED <<shared, monitor, units, stack, seen>>

Step(t) ==
  \/ initializeMarkMap(t) \/ markLiveObjectsInit(t)
  \/ markObject(t) \/ putOutputPacket(t) \/ getOutputPacket(t)
  \/ getPacketByAdddingWorkPacketBlock(t) \/ getPacketByOverflowing(t) \/ overflowItem(t)
  \/ AlertWaiting(t)
  \/ pop(t) \/ popFailed(t) \/ getInputPacketNoWait(t) \/ NotifyMore(t) \/ popFailedEmpty(t)
  \/ MonitorEnter(t) \/ getInputPacket(t) \/ MonitorReenter(t) \/ getInputPacketAgain(t)
  \/ completeScan(t)

MasterStep == handleOverflow \/ ScanOverflowed \/ releaseSynchronizedGCThreads

Next == (\E t \in Thread : Step(t)) \/ MasterStep

Spec == Init /\ [][Next]_vars

\* GC threads are operating system threads: one that can go on does.  A monitor is
\* handed to every thread that asks for it often enough, and a thread that asks
\* for a packet again and again while there is one cannot be unlucky for ever.
Fairness ==
  /\ \A t \in Thread :
       /\ WF_vars(Step(t))
       /\ SF_vars(MonitorEnter(t) \/ MonitorReenter(t) \/ AlertWaiting(t))
       /\ SF_vars(getInputPacketNoWait(t))
  /\ WF_vars(MasterStep)

FairSpec == Spec /\ Fairness

-----------------------------------------------------------------------------
(***************************************************************************)
(* Properties.                                                             *)
(***************************************************************************)
\* The objects the collection has to keep.
Reachable ==
  LET closed == {C \in SUBSET Obj : Range(graph.roots) \subseteq C
                                    /\ \A o \in C : Range(Refs(o)) \subseteq C}
  IN  {o \in Obj : \A C \in closed : o \in C}

\* Packets held by work stacks.
Held == ({in[t] : t \in Thread} \cup {out[t] : t \in Thread}) \ {None}
Inputs == {t \in Thread : in[t] # None}
Outputs == {t \in Thread : out[t] # None}

\* When a thread leaves the scan, exactly the reachable objects are marked,
\* although no thread has seen more than its own packets (completeScan,
\* getInputPacket, handleOverflow): this is what the sweep relies on.
MarkingExact ==
  (\E t \in Thread : pc[t] = "end") =>
    /\ marked = Reachable
    /\ over = {}
    /\ input = {} /\ Held \subseteq {<< >>}

\* Objects whose references somebody still has to mark.
Grey ==
  (UNION {Range(p) : p \in input \cup Held}) \cup over \cup ({item[t] : t \in Thread} \ {None})
Pending == UNION {Range(todo[t]) : t \in Thread}

\* No reference is forgotten: after the mark map is cleared, a marked object is
\* still waiting in a packet or in the overflow bits, or each of its references
\* is marked or about to be, whichever threads have passed it on.
NothingForgotten ==
  (\A t \in Thread : pc[t] \notin {"clear", "cleared"}) =>
    \A o \in marked \ Grey : Range(Refs(o)) \subseteq marked \cup Pending

\* Every place an object can wait in to be scanned.
Slot(p, o) == IF p = None THEN {} ELSE {i \in DOMAIN p : p[i] = o}
Places(o) ==
  (UNION {{<<p, i>> : i \in Slot(p, o)} : p \in input})
    \cup (UNION {{<<t, "in", i>> : i \in Slot(in[t], o)} : t \in Thread})
    \cup (UNION {{<<t, "out", i>> : i \in Slot(out[t], o)} : t \in Thread})
    \cup {<<t, "item">> : t \in {u \in Thread : item[u] = o}}
    \cup {<<None, "overflow">> : x \in over \cap {o}}

\* An object waits in one place only, so it is scanned once per marking and an
\* overflow bit is never set twice (the assertions in overflowItemInternal).
WaitsOnce == \A o \in Obj : Cardinality(Places(o)) <= 1

\* No packet is lost to the pool and none is in two hands: those on the lists and
\* those of the work stacks are all there are.  A packet others may take is full,
\* never empty ("Any entry on the _inputPacket list must have at least 1 entry").
PacketsConserved ==
  /\ empty + Cardinality(input) + Cardinality(Inputs) + Cardinality(Outputs) = active
  /\ \A p \in input : Len(p) = Slots

\* The mark task ends: no GC thread waits for ever for a packet, for the monitor or
\* for the others, whichever notifications try_enter drops.
MarkingEnds == <>(\A t \in Thread : pc[t] = "end")
=============================================================================
