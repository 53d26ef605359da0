---------------------------- MODULE MarkingProofs ----------------------------
(***************************************************************************)
(* Proofs about the parallel mark task, for any number of threads, any     *)
(* heap, any number of packets and any packet size: when a thread leaves   *)
(* the scan exactly the reachable objects are marked; no reference is      *)
(* forgotten on the way, no object waits twice, no packet is lost.         *)
(*                                                                         *)
(* The invariant has three layers.  Control: a location tells what is on   *)
(* the work stack, threads clear the mark map together, during the         *)
(* master's walk the others are held, and when one thread knows that       *)
(* marking is done, all the others know or will be told (Quiet), which     *)
(* rests on the exact count of the waiting threads.  Objects: the marks    *)
(* are right at every moment (Tricolour) and the holders share no object   *)
(* (Separate).  Packets: their number is right (Counted).                  *)
(***************************************************************************)
EXTENDS Marking, FiniteSetTheorems, TLAPS

-----------------------------------------------------------------------------
(***************************************************************************)
(* The invariant.                                                          *)
(***************************************************************************)
\* Where a thread can be.
Location ==
  {"clear", "cleared", "mark", "put", "getOutput", "grow", "overflow", "alert", "last",
   "noWait", "try", "found", "inside", "waiting", "woken", "again", "done", "held", "end"}

\* Types of the variables.
MarkTypes ==
  /\ graph \in Graphs
  /\ marked \in SUBSET Obj
  /\ over \in SUBSET Obj
  /\ overflow \in BOOLEAN
  /\ active \in Nat
  /\ empty \in Nat
  /\ input \in SUBSET Seq(Obj)
  /\ waitCount \in Int
  /\ doneIndex \in Nat
  /\ owner \in Thread \cup {None}
  /\ unitIndex \in Nat
  /\ unit \in [Thread -> Nat]
  /\ claim \in [Thread -> Nat]
  /\ pc \in [Thread -> Location]
  /\ in \in [Thread -> Seq(Obj) \cup {None}]
  /\ out \in [Thread -> Seq(Obj) \cup {None}]
  /\ item \in [Thread -> Obj \cup {None}]
  /\ todo \in [Thread -> Seq(Obj)]
  /\ cursor \in Nat
  /\ seen \in [Thread -> Nat]

\* Clearing the mark map; pushing an object that found no room; waiting for input;
\* and all places where the work stack is empty.
Clearing == {"clear", "cleared"}
Pushing == {"put", "getOutput", "grow", "overflow", "last"}
Asking == {"try", "inside", "waiting", "woken", "again"}
Resting == Clearing \cup Asking \cup {"done", "held", "end"}

\* What a thread's location says of its work stack.
WorkStack(t) ==
  /\ pc[t] \in Pushing <=> item[t] # None
  /\ pc[t] = "put" => out[t] # None /\ Len(out[t]) = Slots
  /\ pc[t] \in Pushing \ {"put"} => out[t] = None
  /\ pc[t] \in Resting \cup {"noWait"} => in[t] = None /\ todo[t] = << >>
  /\ pc[t] \in Resting => out[t] = None
  /\ out[t] # None => Len(out[t]) \in 1 .. Slots

WorkStacks == \A t \in Thread : WorkStack(t)

\* A packet on a list is full.
FullPackets == \A p \in input : Len(p) = Slots

\* The monitor has one owner, and nobody has seen an end of marking to come.
Monitor ==
  \A t \in Thread :
    /\ owner = t <=> pc[t] \in {"inside", "again"}
    /\ seen[t] <= doneIndex

\* The mark map is being cleared.
InClearing == \E t \in Thread : pc[t] \in Clearing

\* Nobody marks while another thread clears, and nothing waits anywhere.
ClearedTogether ==
  InClearing =>
    /\ \A t \in Thread : pc[t] \in Clearing
    /\ over = {} /\ input = {} /\ ~overflow /\ cursor = 0

\* A unit already handed out is cleared, or its claimant has yet to come to it.
WorkUnits ==
  InClearing =>
    /\ \A t \in Thread :
         /\ unit[t] <= claim[t] /\ claim[t] <= unitIndex /\ unit[t] <= ObjCount
         /\ pc[t] = "cleared" => unit[t] = ObjCount
    /\ \A k \in marked : k <= unitIndex => \E t \in Thread : claim[t] = k /\ unit[t] < k

\* The master is alone while it walks the heap.
Walk ==
  cursor > 0 =>
    /\ \A t \in Thread \ {Master} : pc[t] = "held"
    /\ pc[Master] \in Pushing \cup {"mark", "alert"}

\* t knows that marking is done.
Knows(t) ==
  \/ pc[t] \in {"done", "end"}
  \/ pc[t] = "held" /\ cursor = 0
  \/ pc[t] \in Asking /\ seen[t] # doneIndex

\* If one thread knows, nothing is left to scan but what has overflowed, and the others
\* know too or have only to leave the monitor to know.
Quiet ==
  (\E t \in Thread : Knows(t)) =>
    /\ input = {}
    /\ cursor = 0
    /\ \A t \in Thread : Knows(t) /\ pc[t] \notin {"try", "inside", "waiting"}

\* The flag stands for the overflow bits that the walk will not meet any more.
Overflow ==
  /\ ~overflow => \A o \in over : cursor > 0 /\ o >= cursor
  /\ \A t \in Thread : pc[t] = "end" => ~overflow
  /\ \A t \in Thread : pc[t] = "held" /\ cursor = 0 => overflow

\* The threads _inputListWaitCount counts.
WaitSet == {t \in Thread : pc[t] \in {"waiting", "woken", "again"} /\ seen[t] = doneIndex}
WaitCounted == waitCount = Cardinality(WaitSet)

\* Marked objects are reachable; a marked object is still to be scanned, or all its
\* references are marked or about to be.
Tricolour ==
  ~InClearing =>
    /\ Grey \subseteq marked
    /\ marked \cup Pending \subseteq Reachable
    /\ Range(graph.roots) \subseteq marked \cup Pending
    /\ \A o \in marked \ Grey : Range(Refs(o)) \subseteq marked \cup Pending

\* The objects in a packet, or in none.
Contents(p) == IF p = None THEN {} ELSE Range(p)
\* No object is twice in a packet.
Once(p) == p # None => \A i, j \in DOMAIN p : p[i] = p[j] => i = j

\* The objects that wait in the hands of thread t.
Mine(t) == Contents(in[t]) \cup Contents(out[t]) \cup ({item[t]} \ {None})

\* Nothing that t holds waits twice.
OwnApart(t) ==
  /\ Once(in[t]) /\ Once(out[t])
  /\ Contents(in[t]) \cap Contents(out[t]) = {}
  /\ item[t] \notin Contents(in[t]) \cup Contents(out[t])

\* The packets on the lists, the work stacks and the overflow bits share no object.
Separate ==
  /\ \A p \in input : Once(p) /\ Range(p) \cap over = {}
  /\ \A p, q \in input : p # q => Range(p) \cap Range(q) = {}
  /\ \A t \in Thread : OwnApart(t) /\ Mine(t) \cap over = {}
  /\ \A t \in Thread : \A p \in input : Range(p) \cap Mine(t) = {}
  /\ \A t, u \in Thread : t # u => Mine(t) \cap Mine(u) = {}

\* Every packet is on a list or in one hand.
Counted ==
  /\ IsFiniteSet(input)
  /\ empty + Cardinality(input) + Cardinality(Inputs) + Cardinality(Outputs) = active

\* The inductive invariant.
MInv ==
  /\ MarkTypes /\ WorkStacks /\ FullPackets /\ Monitor /\ ClearedTogether /\ WorkUnits
  /\ Walk /\ Quiet /\ Overflow /\ WaitCounted /\ Tricolour /\ Separate /\ Counted

-----------------------------------------------------------------------------
(***************************************************************************)
(* Sequences.                                                              *)
(***************************************************************************)
\* Adding an object to a packet.
LEMMA AppendFacts ==
  ASSUME NEW S, NEW p \in Seq(S), NEW o \in S
  PROVE  /\ Append(p, o) \in Seq(S)
         /\ Len(Append(p, o)) = Len(p) + 1
         /\ Range(Append(p, o)) = Range(p) \cup {o}
<1>1. /\ Append(p, o) \in Seq(S)
      /\ Len(Append(p, o)) = Len(p) + 1
      /\ DOMAIN Append(p, o) = 1 .. Len(p) + 1
      /\ \A i \in 1 .. Len(p) : Append(p, o)[i] = p[i]
      /\ Append(p, o)[Len(p) + 1] = o
  OBVIOUS
<1>2. \A i \in 1 .. Len(p) + 1 : i \in 1 .. Len(p) \/ i = Len(p) + 1
  OBVIOUS
<1>3. DOMAIN p = 1 .. Len(p)
  OBVIOUS
<1>4. QED
  BY <1>1, <1>2, <1>3 DEF Range

\* Taking the last object out of a packet.
LEMMA FrontFacts ==
  ASSUME NEW S, NEW p \in Seq(S), p # << >>
  PROVE  /\ SubSeq(p, 1, Len(p) - 1) \in Seq(S)
         /\ p[Len(p)] \in S
         /\ Range(p) = Range(SubSeq(p, 1, Len(p) - 1)) \cup {p[Len(p)]}
<1> DEFINE f == SubSeq(p, 1, Len(p) - 1)
<1>0. Len(p) \in Nat /\ Len(p) > 0 /\ DOMAIN p = 1 .. Len(p)
  OBVIOUS
<1>1. /\ f \in Seq(S)
      /\ Len(f) = Len(p) - 1
      /\ DOMAIN f = 1 .. Len(p) - 1
      /\ \A i \in 1 .. Len(p) - 1 : f[i] = p[i]
  BY <1>0
<1>2. ASSUME NEW n \in Nat, NEW i \in 1 .. n
      PROVE  i \in 1 .. n - 1 \/ i = n
  OBVIOUS
<1>3. \A i \in 1 .. Len(p) - 1 : i \in 1 .. Len(p)
  BY <1>0
<1>4. p[Len(p)] \in S /\ Len(p) \in 1 .. Len(p)
  BY <1>0
<1> HIDE DEF f
<1>5. Range(p) = Range(f) \cup {p[Len(p)]}
  BY <1>0, <1>1, <1>2, <1>3, <1>4 DEF Range
<1>6. QED
  BY <1>1, <1>4, <1>5 DEF f

\* The next reference of a list.
LEMMA TailFacts ==
  ASSUME NEW S, NEW s \in Seq(S), s # << >>
  PROVE  /\ Tail(s) \in Seq(S)
         /\ Head(s) \in S
         /\ Range(s) = {Head(s)} \cup Range(Tail(s))
<1>0. Len(s) \in Nat /\ Len(s) > 0 /\ DOMAIN s = 1 .. Len(s)
  OBVIOUS
<1>1. /\ Tail(s) \in Seq(S)
      /\ DOMAIN Tail(s) = 1 .. Len(s) - 1
      /\ \A i \in 1 .. Len(s) - 1 : Tail(s)[i] = s[i + 1]
      /\ Head(s) = s[1]
      /\ s[1] \in S
  BY <1>0
<1>2. ASSUME NEW i \in 1 .. Len(s)
      PROVE  i = 1 \/ (i - 1 \in 1 .. Len(s) - 1 /\ Tail(s)[i - 1] = s[i])
  BY <1>0, <1>1
<1>3. \A i \in 1 .. Len(s) - 1 : i + 1 \in 1 .. Len(s)
  BY <1>0
<1>4. 1 \in 1 .. Len(s)
  BY <1>0
<1>5. ASSUME NEW x \in Range(s)
      PROVE  x = Head(s) \/ x \in Range(Tail(s))
  <2>1. PICK i \in 1 .. Len(s) : x = s[i]
    BY <1>0 DEF Range
  <2>2. QED
    BY <2>1, <1>1, <1>2 DEF Range
<1>6. ASSUME NEW x \in Range(Tail(s))
      PROVE  x \in Range(s)
  BY <1>0, <1>1, <1>3 DEF Range
<1>7. QED
  BY <1>0, <1>1, <1>4, <1>5, <1>6 DEF Range

-----------------------------------------------------------------------------
(***************************************************************************)
(* Types.                                                                  *)
(***************************************************************************)
USE MarkThreadAssumption, MarkPacketAssumption

\* The object graph is one of the given heaps.
LEMMA GraphFacts ==
  ASSUME graph \in Graphs
  PROVE  /\ graph.roots \in Seq(Obj)
         /\ Slots \in Nat \ {0}
         /\ \A o \in Obj : Refs(o) \in Seq(Obj)
BY MarkGraphAssumption DEF Slots, Refs

\* Taking a packet p to scan from.
LEMMA ScanFromTypes ==
  ASSUME MarkTypes, NEW t \in Thread, NEW p \in Seq(Obj), p # << >>, ScanFrom(t, p)
  PROVE  in' \in [Thread -> Seq(Obj) \cup {None}] /\ todo' \in [Thread -> Seq(Obj)]
<1>1. SubSeq(p, 1, Len(p) - 1) \in Seq(Obj) /\ p[Len(p)] \in Obj
  BY FrontFacts
<1>2. Refs(p[Len(p)]) \in Seq(Obj)
  BY <1>1, GraphFacts DEF MarkTypes
<1>3. QED
  BY <1>1, <1>2 DEF ScanFrom, MarkTypes

\* Pushing the pending object.
LEMMA PushPendingTypes ==
  ASSUME MarkTypes, WorkStacks, NEW t \in Thread, pc[t] \in Pushing, PushPending(t, << >>)
  PROVE  /\ item[t] \in Obj
         /\ out' = [out EXCEPT ![t] = <<item[t]>>]
         /\ out' \in [Thread -> Seq(Obj) \cup {None}]
         /\ item' \in [Thread -> Obj \cup {None}]
<1>1. item[t] \in Obj
  BY DEF MarkTypes, WorkStacks, WorkStack
<1>2. Append(<< >>, item[t]) = <<item[t]>> /\ <<item[t]>> \in Seq(Obj)
  BY <1>1
<1>3. QED
  BY <1>1, <1>2 DEF PushPending, MarkTypes

\* The last step of the task finds nothing in the work stack.
LEMMA CompleteScanEffect ==
  ASSUME MarkTypes, WorkStacks, NEW t \in Thread, completeScan(t)
  PROVE  /\ pc[t] = "done"
         /\ pc' = [pc EXCEPT ![t] = IF overflow THEN "held" ELSE "end"]
         /\ UNCHANGED <<shared, monitor, units, stack, cursor, seen>>
<1>1. in[t] = None /\ out[t] = None
  BY DEF completeScan, WorkStacks, WorkStack, Resting
<1> DEFINE held == {<<in[t], "in">>, <<out[t], "out">>} \ {<<None, "in">>, <<None, "out">>}
           used == {h \in held : h[1] # << >>}
<1>2. held = {} /\ held \ used = {} /\ {h[1] : h \in used} = {}
  BY <1>1
<1>3. Cardinality(held \ used) = 0
  BY <1>2, FS_EmptySet
<1> HIDE DEF held, used
<1>4. CASE overflow
  BY <1>4 DEF completeScan, Goto, shared, monitor, units, stack
<1>5. CASE ~overflow
  <2>1. /\ Goto(t, "end")
        /\ empty' = empty + Cardinality(held \ used)
        /\ input' = input \cup {h[1] : h \in used}
        /\ in' = [in EXCEPT ![t] = None]
        /\ out' = [out EXCEPT ![t] = None]
    BY <1>5 DEF completeScan, held, used
  <2>a. empty' = empty
    BY <2>1, <1>3, empty \in Nat DEF MarkTypes
  <2>b. input' = input
    BY <2>1, <1>2, Zenon
  <2>2. empty' = empty /\ input' = input
    BY <2>a, <2>b
  <2>3. in' = in /\ out' = out
    BY <2>1, <1>1, Zenon DEF MarkTypes
  <2>4. QED
    BY <2>1, <2>2, <2>3, <1>5 DEF completeScan, Goto, shared, monitor, units, stack
<1>6. QED
  BY <1>4, <1>5

\* Waking threads and going on.
Moves(t, l) ==
  /\ pc' \in [Thread -> Location]
  /\ pc'[t] = l
  /\ \A u \in Thread \ {t} : pc'[u] = pc[u] \/ (pc[u] = "waiting" /\ pc'[u] = "woken")

\* A thread that goes on and wakes nobody.
LEMMA GotoMoves ==
  ASSUME MarkTypes, NEW t \in Thread, NEW l \in Location, Goto(t, l)
  PROVE  Moves(t, l)
BY DEF MarkTypes, Goto, Moves

\* A thread that goes on and wakes some of the waiting ones.
LEMMA WakeMoves ==
  ASSUME MarkTypes, NEW t \in Thread, NEW l \in Location, NEW W \in SUBSET Waiting, Wake(W, t, l)
  PROVE  Moves(t, l)
<1>1. \A u \in Thread : pc[u] \in Location
  BY DEF MarkTypes
<1>2. \A u \in W : pc[u] = "waiting"
  BY DEF Waiting
<1>3. "woken" \in Location
  BY DEF Location
<1>4. QED
  BY <1>1, <1>2, <1>3 DEF Wake, Moves

\* A notification wakes at most waiting threads.
LEMMA NotifyMoves ==
  ASSUME MarkTypes, NEW t \in Thread, NEW l \in Location,
         NotifyOne(t, l) \/ notifyWaitingThreads(t, l)
  PROVE  Moves(t, l)
<1>1. CASE Goto(t, l)
  BY <1>1, GotoMoves
<1>2. CASE \E u \in Waiting : Wake({u}, t, l)
  <2>1. PICK u \in Waiting : Wake({u}, t, l)
    BY <1>2
  <2>2. {u} \in SUBSET Waiting
    OBVIOUS
  <2>3. QED
    BY <2>1, <2>2, WakeMoves
<1>3. QED
  BY <1>1, <1>2 DEF NotifyOne, notifyWaitingThreads

\* Types are kept: every packet on a list is a non-empty one, and a pending
\* object is one.
LEMMA TypesKept ==
  ASSUME MarkTypes, WorkStacks, FullPackets, Next
  PROVE  MarkTypes'
<1> USE DEF shared, monitor, units, stack
<1>0. /\ \A p \in input : p \in Seq(Obj) /\ p # << >>
      /\ \A t \in Thread : out[t] # None => out[t] \in Seq(Obj) /\ out[t] # << >>
  <2>1. Slots > 0 /\ Slots \in Nat
    BY GraphFacts DEF MarkTypes
  <2>2. \A p \in Seq(Obj) : Len(p) > 0 => p # << >>
    OBVIOUS
  <2>3. \A t \in Thread : out[t] # None => out[t] \in Seq(Obj) /\ Len(out[t]) > 0
    BY <2>1 DEF MarkTypes, WorkStacks, WorkStack
  <2>4. QED
    BY <2>1, <2>2, <2>3 DEF MarkTypes, FullPackets
<1>1. ASSUME NEW t \in Thread, initializeMarkMap(t)
      PROVE  MarkTypes'
  <2> DEFINE n == unit[t] + 1
             c == NextClaim(t, n)
  <2>1. n \in Nat /\ c \in Nat
    BY DEF MarkTypes, NextClaim
  <2> HIDE DEF n, c
  <2>2. /\ unit' = [unit EXCEPT ![t] = n]
        /\ claim' = [claim EXCEPT ![t] = c]
        /\ unitIndex' = IF c = claim[t] THEN unitIndex ELSE c
        /\ marked' \subseteq marked
        /\ over' \subseteq over
        /\ UNCHANGED <<graph, overflow, active, empty, input, monitor, pc, stack, cursor, seen>>
    BY <1>1 DEF initializeMarkMap, n, c
  <2>3. QED
    BY <2>1, <2>2 DEF MarkTypes
<1>2. ASSUME NEW t \in Thread, markLiveObjectsInit(t)
      PROVE  MarkTypes'
  <2>1. graph.roots \in Seq(Obj)
    BY GraphFacts DEF MarkTypes
  <2>2. {"mark", "cleared"} \subseteq Location
    BY DEF Location
  <2>3. QED
    <3>1. pc' \in [Thread -> Location]
      BY <1>2, <2>2, ZenonT(30) DEF markLiveObjectsInit, Goto, MarkTypes
    <3>2. todo' \in [Thread -> Seq(Obj)]
      BY <1>2, <2>1 DEF markLiveObjectsInit, MarkTypes
    <3>3. \/ /\ unitIndex' = 0
             /\ unit' = [u \in Thread |-> 0]
             /\ claim' = [u \in Thread |-> 0]
          \/ unitIndex' = unitIndex /\ unit' = unit /\ claim' = claim
      BY <1>2 DEF markLiveObjectsInit
    <3>4. unitIndex' \in Nat /\ unit' \in [Thread -> Nat] /\ claim' \in [Thread -> Nat]
      <4>1. 0 \in Nat /\ [u \in Thread |-> 0] \in [Thread -> Nat]
        OBVIOUS
      <4>2. unitIndex \in Nat /\ unit \in [Thread -> Nat] /\ claim \in [Thread -> Nat]
        BY DEF MarkTypes
      <4>3. QED
        BY <3>3, <4>1, <4>2
    <3>5. QED
      BY <1>2, <3>1, <3>2, <3>4 DEF markLiveObjectsInit, MarkTypes
<1>3. ASSUME NEW t \in Thread, markObject(t)
      PROVE  MarkTypes'
  <2> DEFINE o == Head(todo[t])
  <2>1. Tail(todo[t]) \in Seq(Obj) /\ o \in Obj
    BY <1>3, TailFacts DEF markObject, MarkTypes
  <2> HIDE DEF o
  <2>2. out[t] # None => Append(out[t], o) \in Seq(Obj)
    BY <2>1 DEF MarkTypes
  <2>3. out' \in [Thread -> Seq(Obj) \cup {None}]
    BY <1>3, <2>2 DEF markObject, MarkTypes, o, HasRoom
  <2>4. {"getOutput", "put"} \subseteq Location
    BY DEF Location
  <2>5. item' \in [Thread -> Obj \cup {None}] /\ pc' \in [Thread -> Location]
    <3>1. \/ item' = item /\ pc' = pc
          \/ /\ item' = [item EXCEPT ![t] = o]
             /\ \/ pc' = [pc EXCEPT ![t] = "getOutput"]
                \/ pc' = [pc EXCEPT ![t] = "put"]
      BY <1>3 DEF markObject, o, Goto
    <3>2. item' \in [Thread -> Obj \cup {None}]
      BY <3>1, <2>1, ZenonT(30) DEF MarkTypes
    <3>3. pc' \in [Thread -> Location]
      BY <3>1, <2>4, ZenonT(30) DEF MarkTypes
    <3>4. QED
      BY <3>2, <3>3
  <2>6. todo' \in [Thread -> Seq(Obj)] /\ marked' \in SUBSET Obj
    BY <1>3, <2>1 DEF markObject, MarkTypes, o
  <2>7. QED
    BY <1>3, <2>3, <2>5, <2>6 DEF markObject, MarkTypes
<1>4. ASSUME NEW t \in Thread, putOutputPacket(t)
      PROVE  MarkTypes'
  <2>1. out[t] \in Seq(Obj) /\ out[t] # << >>
    BY <1>4, <1>0 DEF putOutputPacket, WorkStacks, WorkStack
  <2>2. empty' = empty /\ input' = input \cup {out[t]}
    BY <1>4, <2>1 DEF putOutputPacket, putPacket
  <2>3. "getOutput" \in Location
    BY DEF Location
  <2>4. Moves(t, "getOutput")
    BY <1>4, <2>3, GotoMoves, NotifyMoves DEF putOutputPacket
  <2>5. QED
    BY <1>4, <2>1, <2>2, <2>4 DEF putOutputPacket, MarkTypes, Moves
<1>5. ASSUME NEW t \in Thread, TakeEmpty(t), pc[t] \in Pushing
      PROVE  /\ empty' \in Nat /\ pc' \in [Thread -> Location]
             /\ out' \in [Thread -> Seq(Obj) \cup {None}]
             /\ item' \in [Thread -> Obj \cup {None}]
  <2>1. empty' \in Nat
    BY <1>5 DEF TakeEmpty, MarkTypes
  <2>2. pc' \in [Thread -> Location]
    BY <1>5 DEF TakeEmpty, Goto, MarkTypes, Location
  <2>3. QED
    BY <1>5, <2>1, <2>2, PushPendingTypes DEF TakeEmpty
<1>6. ASSUME NEW t \in Thread, getOutputPacket(t)
      PROVE  MarkTypes'
  <2>1. "grow" \in Location /\ pc[t] \in Pushing
    BY <1>6 DEF Location, getOutputPacket, Pushing
  <2>2. CASE TakeEmpty(t)
    BY <1>6, <2>1, <2>2, <1>5 DEF getOutputPacket, MarkTypes
  <2>3. CASE NoPacket(t, "grow")
    BY <1>6, <2>1, <2>3 DEF getOutputPacket, MarkTypes, NoPacket, Goto
  <2>4. QED
    BY <1>6, <2>2, <2>3 DEF getOutputPacket
<1>7. ASSUME NEW t \in Thread, getPacketByAdddingWorkPacketBlock(t)
      PROVE  MarkTypes'
  <2>1. "overflow" \in Location /\ "mark" \in Location /\ pc[t] \in Pushing
    BY <1>7 DEF Location, getPacketByAdddingWorkPacketBlock, Pushing
  <2>2. CASE TakeEmpty(t) /\ active' = active
    BY <1>7, <2>1, <2>2, <1>5 DEF getPacketByAdddingWorkPacketBlock, MarkTypes
  <2>3. CASE NoPacket(t, "overflow") /\ active' = active
    BY <1>7, <2>1, <2>3 DEF getPacketByAdddingWorkPacketBlock, MarkTypes, NoPacket, Goto
  <2>4. CASE /\ active' = active + BlockSize
             /\ empty' = BlockSize - 1
             /\ PushPending(t, << >>)
             /\ Goto(t, "mark")
    <3>1. active' \in Nat /\ empty' \in Nat
      BY <2>4 DEF MarkTypes
    <3>2. pc' \in [Thread -> Location]
      BY <2>4, <2>1 DEF Goto, MarkTypes
    <3>3. out' \in [Thread -> Seq(Obj) \cup {None}] /\ item' \in [Thread -> Obj \cup {None}]
      BY <2>4, <2>1, PushPendingTypes
    <3>4. QED
      BY <1>7, <3>1, <3>2, <3>3 DEF getPacketByAdddingWorkPacketBlock, MarkTypes
  <2>5. QED
    BY <1>7, <2>2, <2>3, <2>4 DEF getPacketByAdddingWorkPacketBlock
<1>8. ASSUME NEW t \in Thread, getPacketByOverflowing(t)
      PROVE  MarkTypes'
  <2>1. "alert" \in Location /\ "last" \in Location /\ pc[t] \in Pushing
    BY <1>8 DEF Location, getPacketByOverflowing, Pushing
  <2>2. ASSUME NEW p \in input, emptyToOverflow(Range(p)), input' = input \ {p},
               PushPending(t, << >>), Goto(t, "alert")
        PROVE  MarkTypes'
    <3>1. Range(p) \subseteq Obj
      BY DEF MarkTypes, Range
    <3>2. over' \in SUBSET Obj /\ overflow' \in BOOLEAN /\ input' \in SUBSET Seq(Obj)
      BY <2>2, <3>1 DEF emptyToOverflow, MarkTypes
    <3>3. pc' \in [Thread -> Location]
      BY <2>2, <2>1 DEF Goto, MarkTypes
    <3>4. out' \in [Thread -> Seq(Obj) \cup {None}] /\ item' \in [Thread -> Obj \cup {None}]
      BY <2>2, <2>1, PushPendingTypes
    <3>5. QED
      BY <1>8, <3>2, <3>3, <3>4 DEF getPacketByOverflowing, MarkTypes
  <2>3. CASE Goto(t, "last") /\ UNCHANGED <<over, overflow, input, out, item>>
    BY <1>8, <2>1, <2>3 DEF getPacketByOverflowing, MarkTypes, Goto
  <2>4. QED
    BY <1>8, <2>2, <2>3 DEF getPacketByOverflowing
<1>9. ASSUME NEW t \in Thread, overflowItem(t)
      PROVE  MarkTypes'
  <2>1. "mark" \in Location /\ pc[t] \in Pushing
    BY <1>9 DEF Location, overflowItem, Pushing
  <2>2. CASE TakeEmpty(t) /\ UNCHANGED <<over, overflow>>
    BY <1>9, <2>1, <2>2, <1>5 DEF overflowItem, MarkTypes
  <2>3. CASE /\ emptyToOverflow({item[t]})
             /\ item' = [item EXCEPT ![t] = None]
             /\ Goto(t, "mark")
             /\ UNCHANGED <<empty, out>>
    <3>1. item[t] \in Obj
      BY <2>1 DEF MarkTypes, WorkStacks, WorkStack
    <3>2. over' \in SUBSET Obj /\ overflow' \in BOOLEAN
      BY <2>3, <3>1 DEF emptyToOverflow, MarkTypes
    <3>3. pc' \in [Thread -> Location] /\ item' \in [Thread -> Obj \cup {None}]
      BY <2>3, <2>1 DEF Goto, MarkTypes
    <3>4. QED
      BY <1>9, <2>3, <3>2, <3>3 DEF overflowItem, MarkTypes
  <2>4. QED
    BY <1>9, <2>2, <2>3 DEF overflowItem
<1>10. ASSUME NEW t \in Thread, AlertWaiting(t)
       PROVE  MarkTypes'
  <2>1. Moves(t, "mark")
    BY <1>10, NotifyMoves DEF AlertWaiting, Location
  <2>2. QED
    BY <1>10, <2>1 DEF AlertWaiting, MarkTypes, Moves
<1>11. ASSUME NEW t \in Thread, pop(t)
       PROVE  MarkTypes'
  <2>1. in[t] \in Seq(Obj) /\ in[t] # << >>
    BY <1>11 DEF pop, UsedUp, MarkTypes
  <2>2. QED
    BY <1>11, <2>1, ScanFromTypes DEF pop, MarkTypes
<1>12. ASSUME NEW t \in Thread, popFailed(t)
       PROVE  MarkTypes'
  <2>1. empty' \in Nat /\ input' = input
    BY <1>12 DEF popFailed, UsedUp, putPacket, MarkTypes
  <2>2. pc' \in [Thread -> Location] /\ in' \in [Thread -> Seq(Obj) \cup {None}]
    BY <1>12 DEF popFailed, Goto, MarkTypes, Location
  <2>3. QED
    BY <1>12, <2>1, <2>2 DEF popFailed, MarkTypes
<1>13. ASSUME NEW t \in Thread, getInputPacketNoWait(t)
       PROVE  MarkTypes'
  <2>1. PICK p \in input : input' = input \ {p} /\ ScanFrom(t, p)
    BY <1>13 DEF getInputPacketNoWait
  <2>2. in' \in [Thread -> Seq(Obj) \cup {None}] /\ todo' \in [Thread -> Seq(Obj)]
    BY <2>1, <1>0, ScanFromTypes
  <2>3. pc' \in [Thread -> Location]
    BY <1>13 DEF getInputPacketNoWait, Goto, MarkTypes, Location
  <2>4. QED
    BY <1>13, <2>1, <2>2, <2>3 DEF getInputPacketNoWait, MarkTypes
<1>14. ASSUME NEW t \in Thread, NotifyMore(t)
       PROVE  MarkTypes'
  <2>1. Moves(t, "mark")
    BY <1>14, NotifyMoves, GotoMoves DEF NotifyMore, Location
  <2>2. QED
    BY <1>14, <2>1 DEF NotifyMore, MarkTypes, Moves
<1>15. ASSUME NEW t \in Thread, popFailedEmpty(t)
       PROVE  MarkTypes'
  <2>1. {"mark", "try"} \subseteq Location
    BY DEF Location
  <2>2. CASE SwapPackets(t)
    <3>1. out[t] \in Seq(Obj) /\ out[t] # << >>
      BY <2>2, <1>0 DEF SwapPackets, UsedUp
    <3>2. in' \in [Thread -> Seq(Obj) \cup {None}] /\ todo' \in [Thread -> Seq(Obj)]
      BY <1>15, <2>2, <3>1, ScanFromTypes DEF popFailedEmpty
    <3>3. out' \in [Thread -> Seq(Obj) \cup {None}]
      BY <1>15, <2>2 DEF popFailedEmpty, MarkTypes
    <3>4. pc' \in [Thread -> Location]
      BY <1>15, <2>1, <2>2, ZenonT(30) DEF popFailedEmpty, Goto, MarkTypes
    <3>5. QED
      BY <1>15, <2>2, <3>2, <3>3, <3>4 DEF popFailedEmpty, MarkTypes
  <2>3. CASE ~SwapPackets(t)
    <3>1. pc' \in [Thread -> Location]
      BY <1>15, <2>1, <2>3, ZenonT(30) DEF popFailedEmpty, Goto, MarkTypes
    <3>2. seen' \in [Thread -> Nat]
      BY <1>15, <2>3 DEF popFailedEmpty, MarkTypes
    <3>3. QED
      BY <1>15, <2>3, <3>1, <3>2 DEF popFailedEmpty, MarkTypes
  <2>4. QED
    BY <2>2, <2>3
<1>16. ASSUME NEW t \in Thread, MonitorEnter(t) \/ MonitorReenter(t)
       PROVE  MarkTypes'
  BY <1>16 DEF MonitorEnter, MonitorReenter, Goto, MarkTypes, Location
<1>17. ASSUME NEW t \in Thread, getInputPacket(t)
       PROVE  MarkTypes'
  <2>1. {"done", "try", "waiting"} \subseteq Location
    BY DEF Location
  <2>2. waitCount' \in Int /\ doneIndex' \in Nat /\ owner' = None
    BY <1>17 DEF getInputPacket, MarkTypes
  <2>3. pc' \in [Thread -> Location]
    BY <1>17, <2>1, GotoMoves, WakeMoves DEF getInputPacket, Moves, ToldDone
  <2>4. QED
    BY <1>17, <2>2, <2>3 DEF getInputPacket, MarkTypes
<1>18. ASSUME NEW t \in Thread, getInputPacketAgain(t)
       PROVE  MarkTypes'
  <2>1. {"done", "try", "waiting"} \subseteq Location
    BY DEF Location
  <2>2. waitCount' \in Int /\ owner' = None
    BY <1>18 DEF getInputPacketAgain, MarkTypes
  <2>3. pc' \in [Thread -> Location]
    BY <1>18, <2>1, GotoMoves DEF getInputPacketAgain, Moves
  <2>4. QED
    BY <1>18, <2>2, <2>3 DEF getInputPacketAgain, MarkTypes
<1>19. ASSUME NEW t \in Thread, completeScan(t)
       PROVE  MarkTypes'
  <2>1. /\ pc' = [pc EXCEPT ![t] = IF overflow THEN "held" ELSE "end"]
        /\ UNCHANGED <<shared, monitor, units, stack, cursor, seen>>
    BY <1>19, CompleteScanEffect
  <2>2. QED
    BY <2>1 DEF MarkTypes, Location
<1>20. ASSUME handleOverflow
       PROVE  MarkTypes'
  BY <1>20 DEF handleOverflow, Goto, MarkTypes, Location
<1>21. ASSUME ScanOverflowed
       PROVE  MarkTypes'
  <2>1. PICK o \in Overflowed :
           /\ over' = over \ {o}
           /\ todo' = [todo EXCEPT ![Master] = Refs(o)]
           /\ cursor' = o + 1
    BY <1>21 DEF ScanOverflowed
  <2>2. o \in Obj
    BY DEF Overflowed, MarkTypes
  <2>3. Refs(o) \in Seq(Obj) /\ o + 1 \in Nat
    BY <2>2, GraphFacts DEF MarkTypes, Obj
  <2>4. QED
    BY <1>21, <2>1, <2>3 DEF ScanOverflowed, MarkTypes
<1>22. ASSUME releaseSynchronizedGCThreads
       PROVE  MarkTypes'
  BY <1>22 DEF releaseSynchronizedGCThreads, MarkTypes, Location
<1>23. QED
  BY <1>1, <1>2, <1>3, <1>4, <1>6, <1>7, <1>8, <1>9, <1>10, <1>11, <1>12, <1>13, <1>14, <1>15,
     <1>16, <1>17, <1>18, <1>19, <1>20, <1>21, <1>22 DEF Next, Step, MasterStep

-----------------------------------------------------------------------------
(***************************************************************************)
(* Control.                                                                *)
(***************************************************************************)
\* A step of thread t leaves the other work stacks alone.
Untouched(t) ==
  /\ graph' = graph
  /\ \A u \in Thread \ {t} :
       in'[u] = in[u] /\ out'[u] = out[u] /\ item'[u] = item[u] /\ todo'[u] = todo[u]

\* After the mark map is cleared a step of t moves t, wakes waiting threads at most
\* and leaves the other work stacks alone.
LEMMA StepLocal ==
  ASSUME MarkTypes, WorkStacks, NEW t \in Thread, Step(t), pc[t] # "clear"
  PROVE  /\ pc[t] \notin Clearing \cup {"waiting", "held", "end"}
         /\ pc'[t] \notin Clearing
         /\ Moves(t, pc'[t])
         /\ Untouched(t)
<1> USE DEF shared, monitor, units, stack
<1> DEFINE Goal == /\ pc[t] \notin Clearing \cup {"waiting", "held", "end"}
                   /\ pc'[t] \notin Clearing
                   /\ Moves(t, pc'[t])
                   /\ Untouched(t)
<1>0. ASSUME NEW l \in Location \ Clearing, Moves(t, l), Untouched(t),
             pc[t] \notin Clearing \cup {"waiting", "held", "end"}
      PROVE  Goal
  BY <1>0 DEF Moves
<1>a. pc[t] \in Location
  BY DEF MarkTypes
<1>3. CASE markObject(t)
  <2>1. Untouched(t)
    <3>1. out' = out \/ out' = [out EXCEPT ![t] = Append(@, Head(todo[t]))]
      BY <1>3 DEF markObject
    <3>2. item' = item \/ item' = [item EXCEPT ![t] = Head(todo[t])]
      BY <1>3 DEF markObject
    <3>3. graph' = graph /\ in' = in /\ todo' = [todo EXCEPT ![t] = Tail(@)]
      BY <1>3 DEF markObject
    <3>4. QED
      BY <3>1, <3>2, <3>3 DEF Untouched, MarkTypes
  <2>2. pc' = pc \/ Goto(t, "getOutput") \/ Goto(t, "put")
    BY <1>3 DEF markObject
  <2>3. {"mark", "getOutput", "put"} \subseteq Location \ Clearing
    BY DEF Location, Clearing
  <2>4. pc' = pc => Moves(t, "mark")
    BY <1>3 DEF Moves, MarkTypes, markObject
  <2>5. QED
    BY <1>3, <2>1, <2>2, <2>3, <2>4, <1>0, GotoMoves DEF markObject, Clearing
<1>4. CASE putOutputPacket(t)
  <2>1. Untouched(t)
    BY <1>4 DEF Untouched, putOutputPacket, MarkTypes
  <2>2. "getOutput" \in Location \ Clearing
    BY DEF Location, Clearing
  <2>3. Moves(t, "getOutput")
    BY <1>4, <2>2, GotoMoves, NotifyMoves DEF putOutputPacket
  <2>4. QED
    BY <1>4, <2>1, <2>2, <2>3, <1>0 DEF putOutputPacket, Clearing
<1>5. ASSUME PushPending(t, << >>), in' = in, todo' = todo, graph' = graph
      PROVE  Untouched(t)
  BY <1>5 DEF PushPending, Untouched, MarkTypes
<1>b. ASSUME TakeEmpty(t)
      PROVE  Moves(t, "mark")
  BY <1>b, GotoMoves DEF TakeEmpty, Location
<1>6. CASE getOutputPacket(t)
  <2>1. Untouched(t)
    BY <1>5, <1>6 DEF Untouched, getOutputPacket, TakeEmpty, NoPacket
  <2>2. {"mark", "grow"} \subseteq Location \ Clearing
    BY DEF Location, Clearing
  <2>3. Moves(t, "mark") \/ Moves(t, "grow")
    BY <1>6, <1>b, <2>2, GotoMoves DEF getOutputPacket, NoPacket
  <2>4. QED
    BY <1>6, <2>1, <2>2, <2>3, <1>0 DEF getOutputPacket, Clearing
<1>7. CASE getPacketByAdddingWorkPacketBlock(t)
  <2>1. Untouched(t)
    BY <1>5, <1>7 DEF Untouched, getPacketByAdddingWorkPacketBlock, TakeEmpty, NoPacket
  <2>2. {"mark", "overflow"} \subseteq Location \ Clearing
    BY DEF Location, Clearing
  <2>3. Moves(t, "mark") \/ Moves(t, "overflow")
    BY <1>7, <1>b, <2>2, GotoMoves DEF getPacketByAdddingWorkPacketBlock, NoPacket
  <2>4. QED
    BY <1>7, <2>1, <2>2, <2>3, <1>0 DEF getPacketByAdddingWorkPacketBlock, Clearing
<1>8. CASE getPacketByOverflowing(t)
  <2>1. Untouched(t)
    BY <1>5, <1>8 DEF Untouched, getPacketByOverflowing
  <2>2. {"alert", "last"} \subseteq Location \ Clearing
    BY DEF Location, Clearing
  <2>3. Moves(t, "alert") \/ Moves(t, "last")
    BY <1>8, <2>2, GotoMoves DEF getPacketByOverflowing
  <2>4. QED
    BY <1>8, <2>1, <2>2, <2>3, <1>0 DEF getPacketByOverflowing, Clearing
<1>9. CASE overflowItem(t)
  <2>1. Untouched(t)
    <3>1. CASE TakeEmpty(t)
      BY <1>5, <1>9, <3>1 DEF overflowItem, TakeEmpty
    <3>2. CASE item' = [item EXCEPT ![t] = None] /\ UNCHANGED <<empty, out>>
      BY <1>9, <3>2 DEF Untouched, overflowItem, MarkTypes
    <3>3. QED
      BY <1>9, <3>1, <3>2 DEF overflowItem
  <2>2. "mark" \in Location \ Clearing
    BY DEF Location, Clearing
  <2>3. Moves(t, "mark")
    BY <1>9, <1>b, <2>2, GotoMoves DEF overflowItem
  <2>4. QED
    BY <1>9, <2>1, <2>2, <2>3, <1>0 DEF overflowItem, Clearing
<1>10. CASE AlertWaiting(t)
  <2>1. "mark" \in Location \ Clearing
    BY DEF Location, Clearing
  <2>2. Moves(t, "mark") /\ Untouched(t)
    BY <1>10, <2>1, NotifyMoves DEF AlertWaiting, Untouched
  <2>3. QED
    BY <1>10, <2>1, <2>2, <1>0 DEF AlertWaiting, Clearing
<1>c. ASSUME NEW p, ScanFrom(t, p), item' = item, graph' = graph,
             out' = out \/ out' = [out EXCEPT ![t] = None]
      PROVE  Untouched(t)
  BY <1>c DEF ScanFrom, Untouched, MarkTypes
<1>11. CASE pop(t)
  <2>1. Untouched(t)
    BY <1>11, <1>c DEF pop
  <2>2. "mark" \in Location \ Clearing
    BY DEF Location, Clearing
  <2>3. Moves(t, "mark") /\ pc[t] = "mark"
    BY <1>11, <2>2 DEF pop, Scanned, Moves, MarkTypes
  <2>4. QED
    BY <2>1, <2>2, <2>3, <1>0 DEF Clearing
<1>12. CASE popFailed(t)
  <2>1. Untouched(t)
    BY <1>12 DEF popFailed, Untouched, MarkTypes
  <2>2. "noWait" \in Location \ Clearing
    BY DEF Location, Clearing
  <2>3. Moves(t, "noWait") /\ pc[t] = "mark"
    BY <1>12, <2>2, GotoMoves DEF popFailed, Scanned
  <2>4. QED
    BY <2>1, <2>2, <2>3, <1>0 DEF Clearing
<1>13. CASE getInputPacketNoWait(t)
  <2>1. Untouched(t)
    BY <1>13, <1>c DEF getInputPacketNoWait
  <2>2. "found" \in Location \ Clearing
    BY DEF Location, Clearing
  <2>3. Moves(t, "found")
    BY <1>13, <2>2, GotoMoves DEF getInputPacketNoWait
  <2>4. QED
    BY <1>13, <2>1, <2>2, <2>3, <1>0 DEF getInputPacketNoWait, Clearing
<1>14. CASE NotifyMore(t)
  <2>1. "mark" \in Location \ Clearing
    BY DEF Location, Clearing
  <2>2. Moves(t, "mark") /\ Untouched(t)
    BY <1>14, <2>1, NotifyMoves, GotoMoves DEF NotifyMore, Untouched
  <2>3. QED
    BY <1>14, <2>1, <2>2, <1>0 DEF NotifyMore, Clearing
<1>15. CASE popFailedEmpty(t)
  <2>1. Untouched(t)
    BY <1>15, <1>c DEF popFailedEmpty, Untouched
  <2>2. {"mark", "try"} \subseteq Location \ Clearing
    BY DEF Location, Clearing
  <2>3. Moves(t, "mark") \/ Moves(t, "try")
    BY <1>15, <2>2, GotoMoves DEF popFailedEmpty
  <2>4. QED
    BY <1>15, <2>1, <2>2, <2>3, <1>0 DEF popFailedEmpty, Clearing
<1>16. CASE MonitorEnter(t) \/ MonitorReenter(t)
  <2>1. {"inside", "again"} \subseteq Location \ Clearing
    BY DEF Location, Clearing
  <2>2. (Moves(t, "inside") \/ Moves(t, "again")) /\ Untouched(t)
    BY <1>16, <2>1, GotoMoves DEF MonitorEnter, MonitorReenter, Untouched
  <2>3. QED
    BY <1>16, <2>1, <2>2, <1>0 DEF MonitorEnter, MonitorReenter, Clearing
<1>17. CASE getInputPacket(t)
  <2>1. {"done", "try", "waiting"} \subseteq Location \ Clearing
    BY DEF Location, Clearing
  <2>2. Moves(t, "done") \/ Moves(t, "try") \/ Moves(t, "waiting")
    BY <1>17, <2>1, GotoMoves, WakeMoves DEF getInputPacket, ToldDone
  <2>3. Untouched(t)
    BY <1>17 DEF getInputPacket, Untouched
  <2>4. QED
    BY <1>17, <2>1, <2>2, <2>3, <1>0 DEF getInputPacket, Clearing
<1>18. CASE getInputPacketAgain(t)
  <2>1. {"done", "try", "waiting"} \subseteq Location \ Clearing
    BY DEF Location, Clearing
  <2>2. Moves(t, "done") \/ Moves(t, "try") \/ Moves(t, "waiting")
    BY <1>18, <2>1, GotoMoves DEF getInputPacketAgain
  <2>3. Untouched(t)
    BY <1>18 DEF getInputPacketAgain, Untouched
  <2>4. QED
    BY <1>18, <2>1, <2>2, <2>3, <1>0 DEF getInputPacketAgain, Clearing
<1>19. CASE completeScan(t)
  <2>1. /\ pc[t] = "done"
        /\ pc' = [pc EXCEPT ![t] = IF overflow THEN "held" ELSE "end"]
        /\ UNCHANGED <<shared, monitor, units, stack, cursor, seen>>
    BY <1>19, CompleteScanEffect
  <2>2. {"held", "end"} \subseteq Location \ Clearing
    BY DEF Location, Clearing
  <2>3. Goto(t, "held") \/ Goto(t, "end")
    BY <2>1 DEF Goto
  <2>4. Untouched(t)
    BY <2>1 DEF Untouched
  <2>5. QED
    BY <2>1, <2>2, <2>3, <2>4, <1>0, GotoMoves DEF Clearing
<1>20. QED
  BY <1>3, <1>4, <1>6, <1>7, <1>8, <1>9, <1>10, <1>11, <1>12, <1>13, <1>14, <1>15, <1>16, <1>17,
     <1>18, <1>19 DEF Step, initializeMarkMap, markLiveObjectsInit

\* The two steps of clearing are the only ones of a thread that is clearing.
LEMMA StepLater ==
  ASSUME NEW t \in Thread, Step(t), ~initializeMarkMap(t), ~markLiveObjectsInit(t)
  PROVE  pc[t] # "clear"
BY DEF Step, markObject, putOutputPacket, getOutputPacket, getPacketByAdddingWorkPacketBlock,
  getPacketByOverflowing, overflowItem, AlertWaiting, pop, Scanned, popFailed,
  getInputPacketNoWait, NotifyMore, popFailedEmpty, MonitorEnter, getInputPacket, MonitorReenter,
  getInputPacketAgain, completeScan

\* Every other step comes after the mark map is cleared.
LEMMA AfterClearing ==
  ASSUME MarkTypes, WorkStacks, ClearedTogether, Next,
         \A t \in Thread : ~initializeMarkMap(t) /\ ~markLiveObjectsInit(t)
  PROVE  ~InClearing /\ ~InClearing'
<1>1. ASSUME NEW t \in Thread, Step(t)
      PROVE  ~InClearing /\ ~InClearing'
  <2>1. pc[t] \notin Clearing /\ pc'[t] \notin Clearing /\ Moves(t, pc'[t])
    BY <1>1, StepLater, StepLocal
  <2>2. ~InClearing
    BY <2>1 DEF ClearedTogether, InClearing
  <2>3. \A u \in Thread : pc'[u] \notin Clearing
    BY <2>1, <2>2 DEF Moves, InClearing, Clearing
  <2>4. QED
    BY <2>2, <2>3 DEF InClearing
<1>2. CASE handleOverflow
  <2>1. \A u \in Thread : pc[u] \notin Clearing /\ pc'[u] \notin Clearing
    BY <1>2 DEF handleOverflow, Goto, Clearing, MarkTypes
  <2>2. QED
    BY <2>1 DEF InClearing
<1>3. CASE ScanOverflowed
  <2>1. pc[Master] \notin Clearing /\ pc' = pc
    BY <1>3 DEF ScanOverflowed, Clearing
  <2>2. QED
    BY <2>1 DEF InClearing, ClearedTogether
<1>4. CASE releaseSynchronizedGCThreads
  <2>1. pc[Master] \notin Clearing /\ \A u \in Thread : pc'[u] \notin Clearing
    BY <1>4 DEF releaseSynchronizedGCThreads, Clearing
  <2>2. QED
    BY <2>1 DEF InClearing, ClearedTogether
<1>5. QED
  BY <1>1, <1>2, <1>3, <1>4 DEF Next, MasterStep

\* All threads clear the mark map before any of them marks.
LEMMA ClearedTogetherKept ==
  ASSUME MarkTypes, WorkStacks, ClearedTogether, Next
  PROVE  ClearedTogether'
<1> USE DEF shared, monitor, units, stack
<1>1. ASSUME NEW t \in Thread, initializeMarkMap(t)
      PROVE  ClearedTogether'
  <2>1. pc[t] \in Clearing /\ pc' = pc
    BY <1>1 DEF initializeMarkMap, Clearing
  <2>2. InClearing
    BY <2>1 DEF InClearing
  <2>3. over' \subseteq over /\ UNCHANGED <<input, overflow, cursor>>
    BY <1>1 DEF initializeMarkMap
  <2>4. QED
    BY <2>1, <2>2, <2>3 DEF ClearedTogether
<1>2. ASSUME NEW t \in Thread, markLiveObjectsInit(t)
      PROVE  ClearedTogether'
  <2>1. InClearing /\ UNCHANGED <<over, input, overflow, cursor>>
    BY <1>2 DEF markLiveObjectsInit, InClearing, Clearing
  <2>2. CASE pc' = [u \in Thread |-> "mark"]
    BY <2>2 DEF ClearedTogether, InClearing, Clearing
  <2>3. CASE Goto(t, "cleared")
    <3>1. \A u \in Thread : pc'[u] \in Clearing
      BY <2>1, <2>3 DEF ClearedTogether, Goto, Clearing, MarkTypes
    <3>2. QED
      BY <2>1, <3>1 DEF ClearedTogether
  <2>4. QED
    BY <1>2, <2>2, <2>3 DEF markLiveObjectsInit
<1>3. QED
  BY <1>1, <1>2, AfterClearing DEF ClearedTogether

\* Every unit handed out is cleared by the thread that claimed it.
LEMMA WorkUnitsKept ==
  ASSUME MarkTypes, WorkStacks, ClearedTogether, WorkUnits, Next
  PROVE  WorkUnits'
<1> USE DEF shared, monitor, units, stack
<1>1. ASSUME NEW t \in Thread, initializeMarkMap(t)
      PROVE  WorkUnits'
  <2> DEFINE n == unit[t] + 1
             c == NextClaim(t, n)
  <2>0. InClearing /\ pc' = pc /\ pc[t] = "clear" /\ unit[t] < ObjCount
    BY <1>1 DEF initializeMarkMap, Clearing, InClearing
  <2>1. /\ \A u \in Thread : /\ unit[u] <= claim[u] /\ claim[u] <= unitIndex /\ unit[u] <= ObjCount
                             /\ pc[u] = "cleared" => unit[u] = ObjCount
                             /\ unit[u] \in Nat /\ claim[u] \in Nat
        /\ unitIndex \in Nat
        /\ \A k \in marked : k <= unitIndex => \E u \in Thread : claim[u] = k /\ unit[u] < k
    BY <2>0 DEF WorkUnits, MarkTypes
  <2>2. /\ unit' = [unit EXCEPT ![t] = n]
        /\ claim' = [claim EXCEPT ![t] = c]
        /\ unitIndex' = IF c = claim[t] THEN unitIndex ELSE c
        /\ marked' \subseteq marked
        /\ n = c => n \notin marked'
    BY <1>1 DEF initializeMarkMap
  <2>3. /\ n \in Nat /\ n <= ObjCount /\ n = unit[t] + 1
        /\ c \in Nat /\ n <= c /\ c <= unitIndex'
        /\ unitIndex' \in Nat /\ unitIndex <= unitIndex' /\ unitIndex' <= unitIndex + 1
        /\ n <= claim[t] => c = claim[t]
        /\ unitIndex' # unitIndex => c = unitIndex'
    BY <2>0, <2>1, <2>2 DEF NextClaim
  <2>4. /\ unit'[t] = n /\ claim'[t] = c
        /\ \A u \in Thread \ {t} : unit'[u] = unit[u] /\ claim'[u] = claim[u]
    BY <2>2 DEF MarkTypes
  <2> HIDE DEF n, c
  <2>5. ASSUME NEW u \in Thread
        PROVE  /\ unit'[u] <= claim'[u] /\ claim'[u] <= unitIndex' /\ unit'[u] <= ObjCount
               /\ pc'[u] = "cleared" => unit'[u] = ObjCount
    <3>1. CASE u = t
      BY <2>0, <2>3, <2>4, <3>1
    <3>2. CASE u # t
      BY <2>0, <2>1, <2>3, <2>4, <3>2
    <3>3. QED
      BY <3>1, <3>2
  <2>6. ASSUME NEW k \in marked', k <= unitIndex'
        PROVE  \E u \in Thread : claim'[u] = k /\ unit'[u] < k
    <3>0. k \in marked /\ k \in Nat /\ (k # n \/ n # c)
      BY <2>2, <2>6 DEF MarkTypes, Obj
    <3>1. CASE k <= unitIndex
      <4>1. PICK u \in Thread : claim[u] = k /\ unit[u] < k
        BY <2>1, <3>0, <3>1
      <4>2. CASE u # t
        BY <4>1, <4>2, <2>4
      <4>3. CASE u = t
        BY <4>1, <4>3, <2>1, <2>2, <2>3, <2>4, <2>6, <3>0
      <4>4. QED
        BY <4>2, <4>3
    <3>2. CASE k > unitIndex
      <4>1. k = unitIndex' /\ c = k
        BY <2>1, <2>3, <2>6, <3>0, <3>2
      <4>2. n < k
        BY <2>2, <2>3, <2>6, <3>0, <4>1
      <4>3. QED
        BY <4>1, <4>2, <2>4
    <3>3. QED
      BY <3>0, <3>1, <3>2, <2>1
  <2>7. QED
    BY <2>5, <2>6 DEF WorkUnits
<1>2. ASSUME NEW t \in Thread, markLiveObjectsInit(t)
      PROVE  WorkUnits'
  <2>1. InClearing /\ marked' = marked /\ unit[t] = ObjCount
    BY <1>2 DEF markLiveObjectsInit, InClearing, Clearing
  <2>2. CASE pc' = [u \in Thread |-> "mark"]
    BY <2>2 DEF WorkUnits, InClearing, Clearing
  <2>3. CASE Goto(t, "cleared") /\ UNCHANGED <<todo, units>>
    <3>1. \A u \in Thread : pc'[u] = "cleared" => unit[u] = ObjCount
      BY <2>1, <2>3 DEF WorkUnits, Goto, MarkTypes
    <3>2. QED
      BY <2>1, <2>3, <3>1 DEF WorkUnits
  <2>4. QED
    BY <1>2, <2>2, <2>3 DEF markLiveObjectsInit
<1>3. QED
  BY <1>1, <1>2, AfterClearing DEF WorkUnits

\* When all threads have cleared their units, no mark bit is left.
LEMMA NoMarkLeft ==
  ASSUME MarkTypes, WorkUnits, InClearing, \A t \in Thread : unit[t] = ObjCount
  PROVE  marked = {}
<1>1. SUFFICES ASSUME NEW k \in marked
               PROVE  FALSE
  OBVIOUS
<1>2. /\ unit[Master] <= claim[Master] /\ claim[Master] <= unitIndex
      /\ unit[Master] = ObjCount /\ claim[Master] \in Nat /\ unitIndex \in Nat
  BY DEF WorkUnits, MarkTypes
<1>3. k \in Nat /\ k <= ObjCount
  BY DEF MarkTypes, Obj
<1>4. k <= unitIndex
  BY <1>2, <1>3
<1>5. PICK t \in Thread : claim[t] = k /\ unit[t] < k
  BY <1>4 DEF WorkUnits
<1>6. QED
  BY <1>3, <1>5

\* Every packet on a list is full, and a thread's location tells what its work stack
\* holds.
LEMMA StacksKept ==
  ASSUME MarkTypes, WorkStacks, FullPackets, ClearedTogether, Walk, Next
  PROVE  WorkStacks' /\ FullPackets'
<1> USE DEF shared, monitor, units, stack
<1>0. /\ Slots \in Nat /\ Slots > 0 /\ None \notin Seq(Obj)
      /\ \A t \in Thread : out[t] # None => out[t] \in Seq(Obj) /\ Len(out[t]) > 0
      /\ << >> \in Seq(Obj)
  BY GraphFacts DEF MarkTypes, WorkStacks, WorkStack
<1>1. ASSUME NEW t \in Thread, NEW u \in Thread \ {t}, Moves(t, pc'[t]), Untouched(t)
      PROVE  WorkStack(u)'
  <2>1. /\ in'[u] = in[u] /\ out'[u] = out[u] /\ item'[u] = item[u] /\ todo'[u] = todo[u]
        /\ Slots' = Slots
    BY <1>1 DEF Untouched, Slots
  <2>2. CASE pc'[u] = pc[u]
    BY <2>1, <2>2 DEF WorkStacks, WorkStack
  <2>3. CASE pc[u] = "waiting" /\ pc'[u] = "woken"
    BY <2>1, <2>3 DEF WorkStacks, WorkStack, Pushing, Resting, Asking, Clearing
  <2>4. QED
    BY <1>1, <2>2, <2>3 DEF Moves
<1>2. ASSUME NEW t \in Thread, Step(t), pc[t] # "clear", WorkStack(t)'
      PROVE  WorkStacks'
  BY <1>1, <1>2, StepLocal DEF WorkStacks
<1>3. ASSUME NEW t \in Thread, initializeMarkMap(t)
      PROVE  WorkStacks' /\ FullPackets'
  BY <1>3 DEF initializeMarkMap, WorkStacks, WorkStack, FullPackets, Slots
<1>4. ASSUME NEW t \in Thread, markLiveObjectsInit(t)
      PROVE  WorkStacks' /\ FullPackets'
  <2>1. FullPackets' /\ Slots' = Slots /\ UNCHANGED <<in, out, item>>
    BY <1>4 DEF markLiveObjectsInit, FullPackets, Slots
  <2>2. \A u \in Thread : pc[u] \in Clearing
    BY <1>4 DEF markLiveObjectsInit, ClearedTogether, InClearing, Clearing
  <2>3. \A u \in Thread : in[u] = None /\ out[u] = None /\ item[u] = None /\ todo[u] = << >>
    BY <2>2 DEF WorkStacks, WorkStack, Resting, Clearing, Pushing
  <2>4. CASE pc' = [u \in Thread |-> "mark"]
    BY <2>1, <2>3, <2>4 DEF WorkStacks, WorkStack, Resting, Clearing, Asking, Pushing
  <2>5. CASE Goto(t, "cleared") /\ UNCHANGED <<todo, units>>
    <3>1. \A u \in Thread : pc'[u] \in Clearing
      BY <2>2, <2>5 DEF Goto, MarkTypes, Clearing
    <3>2. QED
      BY <2>1, <2>3, <2>5, <3>1 DEF WorkStacks, WorkStack, Clearing, Pushing
  <2>6. QED
    BY <1>4, <2>1, <2>4, <2>5 DEF markLiveObjectsInit
<1>5. ASSUME NEW t \in Thread, markObject(t)
      PROVE  WorkStack(t)' /\ FullPackets'
  <2> DEFINE o == Head(todo[t])
  <2>1. o \in Obj /\ o # None
    BY <1>5, TailFacts DEF markObject, MarkTypes
  <2>2. /\ item[t] = None /\ pc[t] = "mark" /\ Slots' = Slots /\ in' = in
        /\ input' = input
    BY <1>5 DEF markObject, WorkStacks, WorkStack, Pushing, Slots
  <2>3. CASE UNCHANGED <<out, item, pc>>
    BY <2>2, <2>3 DEF WorkStacks, WorkStack, Pushing, Resting, Clearing, Asking, FullPackets
  <2>4. CASE HasRoom(out[t]) /\ out' = [out EXCEPT ![t] = Append(@, o)] /\ UNCHANGED <<item, pc>>
    <3>1. out[t] \in Seq(Obj) /\ Len(out[t]) < Slots
      BY <2>4, <1>0 DEF HasRoom
    <3>2. out'[t] = Append(out[t], o)
      BY <2>4 DEF MarkTypes
    <3>3. Len(out'[t]) = Len(out[t]) + 1 /\ Len(out[t]) \in Nat
      BY <3>1, <3>2, <2>1, AppendFacts
    <3>4. Len(out'[t]) \in 1 .. Slots
      BY <3>1, <3>3, <1>0
    <3>5. QED
      BY <2>2, <2>4, <3>4 DEF WorkStack, Pushing, Resting, Clearing, Asking, FullPackets
  <2>5. CASE /\ ~HasRoom(out[t])
             /\ item' = [item EXCEPT ![t] = o]
             /\ Goto(t, IF out[t] = None THEN "getOutput" ELSE "put")
             /\ out' = out
    <3>1. item'[t] = o /\ pc'[t] = IF out[t] = None THEN "getOutput" ELSE "put"
      BY <2>5 DEF Goto, MarkTypes
    <3>2. out[t] # None => Len(out[t]) = Slots /\ Len(out[t]) \in 1 .. Slots
      <4>1. out[t] # None => Len(out[t]) \in 1 .. Slots
        BY DEF WorkStacks, WorkStack
      <4>2. QED
        BY <4>1, <2>5, <1>0 DEF HasRoom
    <3>3. QED
      BY <2>1, <2>2, <2>5, <3>1, <3>2 DEF WorkStack, Pushing, Resting, Clearing, Asking, FullPackets
  <2> HIDE DEF o
  <2>6. QED
    BY <1>5, <2>3, <2>4, <2>5 DEF markObject, o
<1>6. ASSUME NEW t \in Thread, putOutputPacket(t)
      PROVE  WorkStack(t)' /\ FullPackets'
  <2>1. pc[t] = "put" /\ item[t] # None /\ out[t] # None /\ Len(out[t]) = Slots
    BY <1>6 DEF putOutputPacket, WorkStacks, WorkStack, Pushing
  <2>2. out[t] # << >>
    BY <2>1, <1>0
  <2>3. input' = input \cup {out[t]} /\ out'[t] = None /\ item'[t] = item[t]
    BY <1>6, <2>2 DEF putOutputPacket, putPacket, MarkTypes
  <2>4. pc'[t] = "getOutput" /\ Slots' = Slots
    BY <1>6, NotifyMoves, GotoMoves DEF putOutputPacket, Moves, Slots, Location
  <2>5. QED
    BY <2>1, <2>3, <2>4 DEF WorkStack, Pushing, Resting, Clearing, Asking, FullPackets
<1>7. ASSUME NEW t \in Thread, pc[t] \in Pushing, PushPending(t, << >>), pc'[t] \in {"mark", "alert"},
             graph' = graph, in' = in, todo' = todo
      PROVE  WorkStack(t)'
  <2>1. out'[t] = <<item[t]>> /\ item'[t] = None /\ item[t] \in Obj
    <3>1. item[t] \in Obj /\ out' = [out EXCEPT ![t] = <<item[t]>>]
      BY <1>7, PushPendingTypes
    <3>2. item' = [item EXCEPT ![t] = None]
      BY <1>7 DEF PushPending
    <3>3. QED
      BY <3>1, <3>2 DEF MarkTypes
  <2>2. Len(out'[t]) = 1 /\ Slots' = Slots
    BY <1>7, <2>1 DEF Slots
  <2>3. Len(out'[t]) \in 1 .. Slots'
    BY <2>2, <1>0
  <2>4. QED
    BY <1>7, <2>1, <2>3 DEF WorkStack, Pushing, Resting, Clearing, Asking
<1>8. ASSUME NEW t \in Thread, TakeEmpty(t), pc[t] \in Pushing, graph' = graph, in' = in, todo' = todo
      PROVE  WorkStack(t)'
  BY <1>7, <1>8 DEF TakeEmpty, Goto, MarkTypes
<1>9. ASSUME NEW t \in Thread, pc[t] \in Pushing \ {"put"}, pc'[t] \in Pushing \ {"put"},
             graph' = graph, UNCHANGED <<in, out, item>>
      PROVE  WorkStack(t)'
  BY <1>9 DEF WorkStacks, WorkStack, Pushing, Resting, Clearing, Asking, Slots
<1>10. ASSUME NEW t \in Thread, getOutputPacket(t)
       PROVE  WorkStack(t)' /\ FullPackets'
  <2>1. FullPackets' /\ pc[t] \in Pushing \ {"put"} /\ graph' = graph /\ in' = in /\ todo' = todo
    BY <1>10 DEF getOutputPacket, FullPackets, Slots, Pushing
  <2>2. CASE NoPacket(t, "grow")
    BY <2>1, <2>2, <1>9 DEF NoPacket, Goto, MarkTypes, Pushing
  <2>3. QED
    BY <1>10, <2>1, <2>2, <1>8 DEF getOutputPacket
<1>11. ASSUME NEW t \in Thread, getPacketByAdddingWorkPacketBlock(t)
       PROVE  WorkStack(t)' /\ FullPackets'
  <2>1. FullPackets' /\ pc[t] \in Pushing \ {"put"} /\ graph' = graph /\ in' = in /\ todo' = todo
    BY <1>11 DEF getPacketByAdddingWorkPacketBlock, FullPackets, Slots, Pushing
  <2>2. CASE NoPacket(t, "overflow")
    BY <2>1, <2>2, <1>9 DEF NoPacket, Goto, MarkTypes, Pushing
  <2>3. CASE PushPending(t, << >>) /\ Goto(t, "mark")
    BY <2>1, <2>3, <1>7 DEF Goto, MarkTypes
  <2>4. QED
    BY <1>11, <2>1, <2>2, <2>3, <1>8 DEF getPacketByAdddingWorkPacketBlock
<1>12. ASSUME NEW t \in Thread, getPacketByOverflowing(t)
       PROVE  WorkStack(t)' /\ FullPackets'
  <2>1. /\ input' \subseteq input /\ pc[t] \in Pushing \ {"put"}
        /\ graph' = graph /\ in' = in /\ todo' = todo
    BY <1>12 DEF getPacketByOverflowing, Pushing
  <2>2. FullPackets'
    BY <2>1 DEF FullPackets, Slots
  <2>3. CASE PushPending(t, << >>) /\ Goto(t, "alert")
    BY <2>1, <2>2, <2>3, <1>7 DEF Goto, MarkTypes
  <2>4. CASE Goto(t, "last") /\ UNCHANGED <<over, overflow, input, out, item>>
    BY <2>1, <2>2, <2>4, <1>9 DEF Goto, MarkTypes, Pushing
  <2>5. QED
    BY <1>12, <2>3, <2>4 DEF getPacketByOverflowing
<1>13. ASSUME NEW t \in Thread, overflowItem(t)
       PROVE  WorkStack(t)' /\ FullPackets'
  <2>1. FullPackets' /\ pc[t] \in Pushing \ {"put"} /\ graph' = graph /\ in' = in /\ todo' = todo
    BY <1>13 DEF overflowItem, FullPackets, Slots, Pushing
  <2>2. CASE item' = [item EXCEPT ![t] = None] /\ Goto(t, "mark") /\ UNCHANGED <<empty, out>>
    <3>1. item'[t] = None /\ pc'[t] = "mark" /\ out' = out
      BY <2>2 DEF Goto, MarkTypes
    <3>2. QED
      BY <2>1, <3>1 DEF WorkStacks, WorkStack, Pushing, Resting, Clearing, Asking, Slots
  <2>3. QED
    BY <1>13, <2>1, <2>2, <1>8 DEF overflowItem
\* Locations that say nothing of the work stack but that no object is pending.
<1>14. ASSUME NEW t \in Thread, {pc[t], pc'[t]} \subseteq {"mark", "alert", "found"},
              graph' = graph, UNCHANGED <<out, item>>
       PROVE  WorkStack(t)'
  BY <1>14 DEF WorkStacks, WorkStack, Pushing, Resting, Clearing, Asking, Slots
<1>15. ASSUME NEW t \in Thread, AlertWaiting(t) \/ NotifyMore(t)
       PROVE  WorkStack(t)' /\ FullPackets'
  <2>1. pc'[t] = "mark"
    BY <1>15, NotifyMoves, GotoMoves DEF AlertWaiting, NotifyMore, Location, Moves
  <2>2. QED
    BY <1>15, <2>1, <1>14 DEF AlertWaiting, NotifyMore, FullPackets, Slots
<1>16. ASSUME NEW t \in Thread, pop(t)
       PROVE  WorkStack(t)' /\ FullPackets'
  BY <1>16, <1>14 DEF pop, Scanned, FullPackets, Slots
<1>17. ASSUME NEW t \in Thread, popFailed(t)
       PROVE  WorkStack(t)' /\ FullPackets'
  <2>1. input' = input /\ graph' = graph /\ pc[t] = "mark" /\ todo[t] = << >>
    BY <1>17 DEF popFailed, UsedUp, putPacket, Scanned
  <2>2. pc'[t] = "noWait" /\ in'[t] = None /\ UNCHANGED <<out, item, todo>>
    BY <1>17 DEF popFailed, Goto, MarkTypes
  <2>3. QED
    BY <2>1, <2>2 DEF WorkStacks, WorkStack, Pushing, Resting, Clearing, Asking, Slots, FullPackets
<1>18. ASSUME NEW t \in Thread, getInputPacketNoWait(t)
       PROVE  WorkStack(t)' /\ FullPackets'
  <2>1. input' \subseteq input /\ graph' = graph /\ UNCHANGED <<out, item>>
    BY <1>18 DEF getInputPacketNoWait
  <2>2. pc'[t] = "found" /\ pc[t] \in {"noWait", "try"}
    BY <1>18 DEF getInputPacketNoWait, Goto, MarkTypes
  <2>3. QED
    BY <2>1, <2>2 DEF WorkStacks, WorkStack, Pushing, Resting, Clearing, Asking, Slots, FullPackets
<1>19. ASSUME NEW t \in Thread, popFailedEmpty(t)
       PROVE  WorkStack(t)' /\ FullPackets'
  <2>1. input' = input /\ graph' = graph /\ item' = item /\ pc[t] = "noWait"
    BY <1>19 DEF popFailedEmpty
  <2>2. CASE SwapPackets(t)
    <3>1. pc'[t] = "mark" /\ out'[t] = None
      BY <1>19, <2>2 DEF popFailedEmpty, Goto, MarkTypes
    <3>2. QED
      BY <2>1, <3>1 DEF WorkStacks, WorkStack, Pushing, Resting, Clearing, Asking, Slots, FullPackets
  <2>3. CASE ~SwapPackets(t)
    <3>1. pc'[t] = "try" /\ UNCHANGED <<in, out, todo>>
      BY <1>19, <2>3 DEF popFailedEmpty, Goto, MarkTypes
    <3>2. out[t] = None
      BY <2>3, <1>0 DEF SwapPackets, UsedUp
    <3>3. QED
      BY <2>1, <3>1, <3>2 DEF WorkStacks, WorkStack, Pushing, Resting, Clearing, Asking, Slots,
        FullPackets
  <2>4. QED
    BY <2>2, <2>3
<1>20. ASSUME NEW t \in Thread, {pc[t], pc'[t]} \subseteq Resting, UNCHANGED <<shared, stack>>
       PROVE  WorkStack(t)' /\ FullPackets'
  BY <1>20 DEF WorkStacks, WorkStack, Pushing, Resting, Clearing, Asking, Slots, FullPackets
<1>21. ASSUME NEW t \in Thread, MonitorEnter(t) \/ MonitorReenter(t)
       PROVE  WorkStack(t)' /\ FullPackets'
  BY <1>20, <1>21 DEF MonitorEnter, MonitorReenter, Goto, Resting, Asking, MarkTypes
<1>22. ASSUME NEW t \in Thread, getInputPacket(t)
       PROVE  WorkStack(t)' /\ FullPackets'
  <2>1. pc[t] = "inside" /\ UNCHANGED <<shared, stack>>
    BY <1>22 DEF getInputPacket
  <2>2. {"done", "try", "waiting"} \subseteq Location
    BY DEF Location
  <2>3. pc'[t] \in {"done", "try", "waiting"}
    BY <1>22, <2>2, GotoMoves, WakeMoves DEF getInputPacket, Moves, ToldDone
  <2>4. QED
    BY <2>1, <2>3, <1>20 DEF Resting, Asking
<1>23. ASSUME NEW t \in Thread, getInputPacketAgain(t)
       PROVE  WorkStack(t)' /\ FullPackets'
  <2>1. pc[t] = "again" /\ UNCHANGED <<shared, stack>>
    BY <1>23 DEF getInputPacketAgain
  <2>2. pc'[t] \in {"done", "try", "waiting"}
    BY <1>23 DEF getInputPacketAgain, Goto, MarkTypes
  <2>3. QED
    BY <2>1, <2>2, <1>20 DEF Resting, Asking
<1>24. ASSUME NEW t \in Thread, completeScan(t)
       PROVE  WorkStack(t)' /\ FullPackets'
  <2>1. /\ pc[t] = "done"
        /\ pc' = [pc EXCEPT ![t] = IF overflow THEN "held" ELSE "end"]
        /\ UNCHANGED <<shared, monitor, units, stack, cursor, seen>>
    BY <1>24, CompleteScanEffect
  <2>2. QED
    BY <2>1, <1>20 DEF Resting, MarkTypes
<1>25. CASE handleOverflow
  <2>1. /\ \A u \in Thread : pc'[u] = IF u = Master THEN "mark" ELSE "held"
        /\ \A u \in Thread : pc[u] = "held"
        /\ UNCHANGED <<graph, input, stack>>
    BY <1>25 DEF handleOverflow, Goto, MarkTypes
  <2>2. QED
    BY <2>1 DEF WorkStacks, WorkStack, Pushing, Resting, Clearing, Asking, Slots, FullPackets
<1>26. CASE ScanOverflowed
  <2>1. /\ \A u \in Thread : u # Master => todo'[u] = todo[u]
        /\ pc[Master] = "mark"
        /\ UNCHANGED <<graph, input, pc, in, out, item>>
    BY <1>26 DEF ScanOverflowed, MarkTypes
  <2>2. QED
    BY <2>1 DEF WorkStacks, WorkStack, Pushing, Resting, Clearing, Asking, Slots, FullPackets
<1>27. CASE releaseSynchronizedGCThreads
  <2>1. /\ \A u \in Thread : pc'[u] = "mark"
        /\ cursor > 0 /\ pc[Master] = "mark"
        /\ UNCHANGED <<graph, input, stack>>
    BY <1>27 DEF releaseSynchronizedGCThreads
  <2>2. \A u \in Thread : pc[u] \notin Pushing
    BY <2>1 DEF Walk, Pushing
  <2>3. QED
    BY <2>1, <2>2 DEF WorkStacks, WorkStack, Pushing, Resting, Clearing, Asking, Slots, FullPackets
<1>28. QED
  <2>1. ASSUME NEW t \in Thread, Step(t), ~initializeMarkMap(t), ~markLiveObjectsInit(t)
        PROVE  WorkStack(t)' /\ FullPackets' /\ pc[t] # "clear"
    <3>1. WorkStack(t)' /\ FullPackets'
      BY <2>1, <1>5, <1>6, <1>10, <1>11, <1>12, <1>13, <1>15, <1>16, <1>17, <1>18, <1>19, <1>21,
         <1>22, <1>23, <1>24 DEF Step
    <3>2. pc[t] # "clear"
      BY <2>1, StepLater
    <3>3. QED
      BY <3>1, <3>2
  <2>2. QED
    BY <2>1, <1>2, <1>3, <1>4, <1>25, <1>26, <1>27 DEF Next, MasterStep

\* The steps of clearing.
LEMMA ClearingMoves ==
  ASSUME MarkTypes, ClearedTogether, NEW t \in Thread,
         initializeMarkMap(t) \/ markLiveObjectsInit(t)
  PROVE  /\ \A u \in Thread : pc[u] \in Clearing
         /\ \A u \in Thread : pc'[u] \in Clearing \cup {"mark"}
<1>1. \A u \in Thread : pc[u] \in Clearing
  BY DEF initializeMarkMap, markLiveObjectsInit, ClearedTogether, InClearing, Clearing
<1>2. CASE pc' = pc
  BY <1>1, <1>2
<1>3. CASE pc' = [u \in Thread |-> "mark"]
  BY <1>1, <1>3
<1>4. CASE Goto(t, "cleared")
  BY <1>1, <1>4 DEF Goto, Clearing, MarkTypes
<1>5. QED
  BY <1>1, <1>2, <1>3, <1>4 DEF initializeMarkMap, markLiveObjectsInit

\* Where a thread has something to scan or looks for it.
Working == {"mark", "put", "getOutput", "grow", "overflow", "alert", "last", "noWait", "found"}

\* A step that has to do neither with the monitor nor with the end of the scan.  A
\* thread comes out of getInputPacket this way only if it has found a packet.
Work(t) ==
  /\ pc[t] \in Working \cup {"try"}
  /\ pc[t] = "try" => input # {}
  /\ pc'[t] \in Working
  /\ (over' = over /\ overflow' = overflow) \/ overflow' = TRUE
  /\ UNCHANGED <<monitor, cursor, seen>>

\* Without a packet of its own or of others, a thread enters getInputPacket.
AskForInput(t) ==
  /\ pc[t] = "noWait"
  /\ pc' = [pc EXCEPT ![t] = "try"]
  /\ seen' = [seen EXCEPT ![t] = doneIndex]
  /\ UNCHANGED <<shared, monitor, stack, cursor>>

\* The steps of a thread, as far as the end of marking is concerned.
LEMMA StepKinds ==
  ASSUME MarkTypes, NEW t \in Thread, Step(t), pc[t] # "clear"
  PROVE  Work(t) \/ AskForInput(t) \/ MonitorEnter(t) \/ getInputPacket(t) \/ MonitorReenter(t)
           \/ getInputPacketAgain(t) \/ completeScan(t)
<1> USE DEF shared, monitor, units, stack, Working
<1>0. {"mark", "getOutput"} \subseteq Location
  BY DEF Location
<1>1. CASE markObject(t)
  <2>1. pc' = pc \/ Goto(t, "getOutput") \/ Goto(t, "put")
    BY <1>1 DEF markObject
  <2>2. pc'[t] \in Working
    BY <1>1, <2>1 DEF markObject, Goto, MarkTypes
  <2>3. QED
    BY <1>1, <2>2 DEF markObject, Work
<1>2. CASE putOutputPacket(t)
  <2>1. pc'[t] = "getOutput"
    BY <1>2, <1>0, NotifyMoves, GotoMoves DEF putOutputPacket, Moves
  <2>2. QED
    BY <1>2, <2>1 DEF putOutputPacket, Work
<1>3. CASE getOutputPacket(t)
  BY <1>3 DEF getOutputPacket, TakeEmpty, NoPacket, Goto, Work, MarkTypes
<1>4. CASE getPacketByAdddingWorkPacketBlock(t)
  BY <1>4 DEF getPacketByAdddingWorkPacketBlock, TakeEmpty, NoPacket, Goto, Work, MarkTypes
<1>5. CASE getPacketByOverflowing(t)
  BY <1>5 DEF getPacketByOverflowing, emptyToOverflow, Goto, Work, MarkTypes
<1>6. CASE overflowItem(t)
  BY <1>6 DEF overflowItem, emptyToOverflow, TakeEmpty, Goto, Work, MarkTypes
<1>7. CASE AlertWaiting(t) \/ NotifyMore(t)
  <2>1. pc'[t] = "mark"
    BY <1>7, <1>0, NotifyMoves, GotoMoves DEF AlertWaiting, NotifyMore, Moves
  <2>2. QED
    BY <1>7, <2>1 DEF AlertWaiting, NotifyMore, Work
<1>8. CASE pop(t)
  BY <1>8 DEF pop, Scanned, Work
<1>9. CASE popFailed(t)
  BY <1>9 DEF popFailed, Scanned, Goto, Work, MarkTypes
<1>10. CASE getInputPacketNoWait(t)
  BY <1>10 DEF getInputPacketNoWait, Goto, Work, MarkTypes
<1>11. CASE popFailedEmpty(t)
  <2>1. CASE SwapPackets(t)
    BY <1>11, <2>1 DEF popFailedEmpty, Goto, Work, MarkTypes
  <2>2. CASE ~SwapPackets(t)
    BY <1>11, <2>2 DEF popFailedEmpty, Goto, AskForInput
  <2>3. QED
    BY <2>1, <2>2
<1>12. QED
  BY <1>1, <1>2, <1>3, <1>4, <1>5, <1>6, <1>7, <1>8, <1>9, <1>10, <1>11
    DEF Step, initializeMarkMap, markLiveObjectsInit

\* One thread at a time is in the monitor, and nobody has seen a later end of
\* marking than there was.
LEMMA MonitorKept ==
  ASSUME MarkTypes, WorkStacks, ClearedTogether, Walk, Monitor, Next
  PROVE  Monitor'
<1> USE DEF shared, monitor, units, stack
<1> DEFINE Inside == {"inside", "again"}
<1>1. ASSUME NEW t \in Thread, NEW u \in Thread \ {t}, Moves(t, pc'[t])
      PROVE  pc'[u] \in Inside <=> pc[u] \in Inside
  BY <1>1 DEF Moves
<1>2. ASSUME NEW t \in Thread, Step(t), pc[t] # "clear"
      PROVE  Monitor'
  <2>0. Moves(t, pc'[t]) /\ \A u \in Thread \ {t} : pc'[u] \in Inside <=> pc[u] \in Inside
    BY <1>1, <1>2, StepLocal
  <2>a. None \notin Thread /\ \A u \in Thread : (owner = u <=> pc[u] \in Inside) /\ seen[u] <= doneIndex
    BY DEF Monitor
  <2> HIDE DEF Inside
  <2>1. CASE Work(t)
    <3>1. pc[t] \notin Inside /\ pc'[t] \notin Inside
      BY <2>1 DEF Work, Working, Inside
    <3>2. QED
      BY <2>1, <2>0, <2>a, <3>1 DEF Work, Monitor, Inside
  <2>2. CASE AskForInput(t)
    <3>1. pc[t] \notin Inside /\ pc'[t] \notin Inside
      BY <2>2 DEF AskForInput, Inside, MarkTypes
    <3>2. \A u \in Thread : seen'[u] <= doneIndex
      BY <2>2, <2>a DEF AskForInput, MarkTypes
    <3>3. QED
      BY <2>2, <2>0, <2>a, <3>1, <3>2 DEF AskForInput, Monitor, Inside
  <2>3. CASE MonitorEnter(t) \/ MonitorReenter(t)
    <3>1. pc'[t] \in Inside /\ owner' = t /\ owner = None /\ UNCHANGED <<seen, doneIndex>>
      BY <2>3 DEF MonitorEnter, MonitorReenter, Inside, Goto, MarkTypes
    <3>2. QED
      BY <2>0, <2>a, <3>1 DEF Monitor, Inside
  <2>4. CASE getInputPacket(t) \/ getInputPacketAgain(t)
    <3>0. {"done", "try", "waiting"} \subseteq Location
      BY DEF Location
    <3>1. pc[t] \in Inside /\ owner' = None /\ seen' = seen
      BY <2>4 DEF getInputPacket, getInputPacketAgain, Inside
    <3>2. pc'[t] \notin Inside
      BY <2>4, <3>0, GotoMoves, WakeMoves DEF getInputPacket, getInputPacketAgain, Inside, Moves, ToldDone
    <3>3. doneIndex' = doneIndex \/ doneIndex' = doneIndex + 1
      BY <2>4 DEF getInputPacket, getInputPacketAgain
    <3>4. \A u \in Thread : seen'[u] <= doneIndex'
      BY <3>1, <3>3, <2>a DEF MarkTypes
    <3>5. QED
      BY <2>0, <2>a, <3>1, <3>2, <3>4 DEF Monitor, Inside
  <2>5. CASE completeScan(t)
    <3>1. /\ pc[t] = "done"
          /\ pc' = [pc EXCEPT ![t] = IF overflow THEN "held" ELSE "end"]
          /\ UNCHANGED <<owner, doneIndex, seen>>
      BY <2>5, CompleteScanEffect
    <3>2. pc[t] \notin Inside /\ pc'[t] \notin Inside
      BY <3>1 DEF Inside, MarkTypes
    <3>3. QED
      BY <2>0, <2>a, <3>1, <3>2 DEF Monitor, Inside
  <2>6. QED
    BY <1>2, <2>1, <2>2, <2>3, <2>4, <2>5, StepKinds
<1>3. ASSUME NEW t \in Thread, initializeMarkMap(t)
      PROVE  Monitor'
  BY <1>3 DEF initializeMarkMap, Monitor
<1>4. ASSUME NEW t \in Thread, markLiveObjectsInit(t)
      PROVE  Monitor'
  <2>1. \A u \in Thread : pc[u] \in Clearing
    BY <1>4, ClearingMoves
  <2>2. \A u \in Thread : pc'[u] \notin Inside
    BY <1>4, ClearingMoves DEF Clearing
  <2>3. QED
    BY <1>4, <2>1, <2>2 DEF markLiveObjectsInit, Monitor, Clearing
<1>5. CASE handleOverflow
  <2>1. \A u \in Thread : pc[u] \notin Inside /\ pc'[u] \notin Inside
    BY <1>5 DEF handleOverflow, Goto, MarkTypes
  <2>2. QED
    BY <1>5, <2>1 DEF handleOverflow, Monitor
<1>6. CASE ScanOverflowed
  BY <1>6 DEF ScanOverflowed, Monitor
<1>7. CASE releaseSynchronizedGCThreads
  <2>1. \A u \in Thread : pc[u] \notin Inside /\ pc'[u] \notin Inside
    BY <1>7 DEF releaseSynchronizedGCThreads, Walk
  <2>2. QED
    BY <1>7, <2>1 DEF releaseSynchronizedGCThreads, Monitor
<1>8. QED
  BY <1>2, <1>3, <1>4, <1>5, <1>6, <1>7, StepLater DEF Next, MasterStep

\* While the master walks the heap for overflow bits, the other threads are held.
LEMMA WalkKept ==
  ASSUME MarkTypes, WorkStacks, ClearedTogether, Walk, Next
  PROVE  Walk'
<1> USE DEF shared, monitor, units, stack
<1>0. cursor \in Nat
  BY DEF MarkTypes
<1>1. ASSUME NEW t \in Thread, Step(t), cursor > 0
      PROVE  Walk'
  <2>1. pc[t] # "clear" /\ (t = Master \/ pc[t] = "held") /\ pc[t] # "cleared"
    BY <1>1 DEF Walk, Pushing
  <2>2. t = Master /\ Moves(t, pc'[t])
    BY <1>1, <2>1, StepLocal
  <2>3. \A u \in Thread \ {Master} : pc'[u] = "held"
    BY <1>1, <2>2 DEF Walk, Moves
  <2>4. pc[Master] \in Pushing \cup {"mark", "alert"}
    BY <1>1 DEF Walk
  <2>5. CASE markObject(Master)
    <3>1. pc' = pc \/ Goto(Master, "getOutput") \/ Goto(Master, "put")
      BY <2>5 DEF markObject
    <3>2. pc'[Master] \in Pushing \cup {"mark", "alert"}
      BY <2>4, <3>1 DEF Goto, MarkTypes, Pushing
    <3>3. QED
      BY <2>3, <3>2 DEF Walk
  <2>6. CASE putOutputPacket(Master) \/ AlertWaiting(Master)
    <3>1. {"getOutput", "mark"} \subseteq Location
      BY DEF Location
    <3>2. pc'[Master] \in Pushing \cup {"mark", "alert"}
      BY <2>6, <3>1, NotifyMoves, GotoMoves DEF putOutputPacket, AlertWaiting, Moves, Pushing
    <3>3. QED
      BY <2>3, <3>2 DEF Walk
  <2>7. CASE \/ getOutputPacket(Master) \/ getPacketByAdddingWorkPacketBlock(Master)
             \/ getPacketByOverflowing(Master) \/ overflowItem(Master)
    <3>1. pc'[Master] \in Pushing \cup {"mark", "alert"}
      BY <2>7 DEF getOutputPacket, getPacketByAdddingWorkPacketBlock, getPacketByOverflowing,
        overflowItem, TakeEmpty, NoPacket, Goto, MarkTypes, Pushing
    <3>2. QED
      BY <2>3, <3>1 DEF Walk
  <2>8. ~Scanned(Master)
    BY <1>1, <1>0 DEF Scanned
  <2>9. QED
    BY <1>1, <2>2, <2>4, <2>5, <2>6, <2>7, <2>8 DEF Step, Pushing, initializeMarkMap,
      markLiveObjectsInit, pop, popFailed, getInputPacketNoWait, NotifyMore, popFailedEmpty,
      MonitorEnter, getInputPacket, MonitorReenter, getInputPacketAgain, completeScan
<1>2. ASSUME NEW t \in Thread, Step(t)
      PROVE  cursor' = cursor
  <2>1. CASE pc[t] = "clear"
    BY <1>2, <2>1, StepLater DEF initializeMarkMap, markLiveObjectsInit
  <2>2. CASE pc[t] # "clear"
    BY <1>2, <2>2, StepKinds, CompleteScanEffect DEF Work, AskForInput, MonitorEnter, getInputPacket,
      MonitorReenter, getInputPacketAgain
  <2>3. QED
    BY <2>1, <2>2
<1>3. CASE handleOverflow
  <2>1. \A u \in Thread : pc'[u] = IF u = Master THEN "mark" ELSE "held"
    BY <1>3 DEF handleOverflow, Goto, MarkTypes
  <2>2. QED
    BY <2>1 DEF Walk
<1>4. CASE ScanOverflowed
  BY <1>4 DEF ScanOverflowed, Walk
<1>5. CASE releaseSynchronizedGCThreads
  BY <1>5 DEF releaseSynchronizedGCThreads, Walk
<1>6. QED
  BY <1>0, <1>1, <1>2, <1>3, <1>4, <1>5 DEF Next, MasterStep, Walk

\* The set of waiting threads is finite, and adding or removing one counts.
LEMMA WaitSetCount ==
  /\ IsFiniteSet(WaitSet)
  /\ Cardinality(WaitSet) \in Nat
  /\ \A t \in Thread \ WaitSet : Cardinality(WaitSet \cup {t}) = Cardinality(WaitSet) + 1
  /\ \A t \in WaitSet : Cardinality(WaitSet \ {t}) = Cardinality(WaitSet) - 1
<1>1. IsFiniteSet(WaitSet)
  <2>1. WaitSet \subseteq Thread
    BY DEF WaitSet
  <2>2. QED
    BY <2>1, FS_Subset
<1>2. QED
  BY <1>1, FS_CardinalityType, FS_AddElement, FS_RemoveElement

\* The counter of waiting threads is exact.
LEMMA WaitCountedKept ==
  ASSUME MarkTypes, WorkStacks, ClearedTogether, Walk, Monitor, WaitCounted, Next
  PROVE  WaitCounted'
<1> USE DEF shared, monitor, units, stack
<1> DEFINE W == {"waiting", "woken", "again"}
<1>1. ASSUME NEW t \in Thread, Step(t), pc[t] # "clear"
      PROVE  WaitCounted'
  <2>0. \A u \in Thread \ {t} : pc'[u] \in W <=> pc[u] \in W
    BY <1>1, StepLocal DEF Moves
  <2> HIDE DEF W
  <2>1. ASSUME UNCHANGED <<seen, doneIndex, waitCount>>, pc[t] \in W <=> pc'[t] \in W
        PROVE  WaitCounted'
    <3>1. WaitSet' = WaitSet
      BY <2>0, <2>1 DEF WaitSet, W
    <3>2. QED
      BY <2>1, <3>1 DEF WaitCounted
  <2>2. CASE Work(t)
    BY <2>1, <2>2 DEF Work, Working, W
  <2>3. CASE AskForInput(t)
    <3>1. pc[t] \notin W /\ pc'[t] \notin W
      BY <2>3 DEF AskForInput, W, MarkTypes
    <3>2. \A u \in Thread \ {t} : seen'[u] = seen[u]
      BY <2>3 DEF AskForInput, MarkTypes
    <3>3. WaitSet' = WaitSet
      BY <2>0, <2>3, <3>1, <3>2 DEF WaitSet, W, AskForInput
    <3>4. QED
      BY <2>3, <3>3 DEF WaitCounted, AskForInput
  <2>4. CASE MonitorEnter(t) \/ MonitorReenter(t)
    <3>1. pc[t] \in W <=> pc'[t] \in W
      BY <2>4 DEF MonitorEnter, MonitorReenter, Goto, MarkTypes, W
    <3>2. QED
      BY <2>1, <2>4, <3>1 DEF MonitorEnter, MonitorReenter
  <2>5. CASE completeScan(t)
    <3>1. /\ pc[t] = "done"
          /\ pc' = [pc EXCEPT ![t] = IF overflow THEN "held" ELSE "end"]
          /\ UNCHANGED <<seen, doneIndex, waitCount>>
      BY <2>5, CompleteScanEffect
    <3>2. pc[t] \in W <=> pc'[t] \in W
      BY <3>1 DEF MarkTypes, W
    <3>3. QED
      BY <2>1, <3>1, <3>2
  <2>6. CASE getInputPacket(t)
    <3>0. {"done", "try", "waiting"} \subseteq Location
      BY DEF Location
    <3>1. pc[t] \notin W /\ seen' = seen
      BY <2>6 DEF getInputPacket, W
    <3>2. CASE seen[t] # doneIndex
      <4>1. pc'[t] = "done" /\ UNCHANGED <<waitCount, doneIndex>>
        BY <2>6, <3>2 DEF getInputPacket, Goto, MarkTypes
      <4>2. QED
        BY <2>1, <3>1, <4>1 DEF W
    <3>3. CASE doneIndex' = doneIndex + 1 /\ waitCount' = 0
      <4>1. \A u \in Thread : seen'[u] # doneIndex'
        BY <3>1, <3>3 DEF Monitor, MarkTypes
      <4>2. WaitSet' = {}
        BY <4>1 DEF WaitSet
      <4>3. QED
        BY <3>3, <4>2, FS_EmptySet DEF WaitCounted
    <3>4. CASE seen[t] = doneIndex /\ doneIndex' = doneIndex /\ Goto(t, "try") /\ waitCount' = waitCount
      <4>1. pc'[t] = "try"
        BY <3>4 DEF Goto, MarkTypes
      <4>2. QED
        BY <2>1, <3>1, <3>4, <4>1 DEF W
    <3>5. CASE /\ seen[t] = doneIndex /\ doneIndex' = doneIndex
               /\ Goto(t, "waiting") /\ waitCount' = waitCount + 1
      <4>1. pc'[t] = "waiting"
        BY <3>5 DEF Goto, MarkTypes
      <4>2. WaitSet' = WaitSet \cup {t} /\ t \notin WaitSet
        BY <2>0, <3>1, <3>5, <4>1 DEF WaitSet, W
      <4>3. QED
        BY <3>5, <4>2, WaitSetCount DEF WaitCounted
    <3>6. QED
      BY <2>6, <3>2, <3>3, <3>4, <3>5 DEF getInputPacket
  <2>7. CASE getInputPacketAgain(t)
    <3>1. pc[t] = "again" /\ seen' = seen /\ doneIndex' = doneIndex
      BY <2>7 DEF getInputPacketAgain
    <3>2. CASE seen[t] # doneIndex
      <4>1. waitCount' = waitCount
        BY <2>7, <3>2 DEF getInputPacketAgain
      <4>2. WaitSet' = WaitSet
        BY <2>0, <3>1, <3>2 DEF WaitSet, W
      <4>3. QED
        BY <4>1, <4>2 DEF WaitCounted
    <3>3. CASE seen[t] = doneIndex /\ Goto(t, "try") /\ waitCount' = waitCount - 1
      <4>1. pc'[t] = "try"
        BY <3>3 DEF Goto, MarkTypes
      <4>2. WaitSet' = WaitSet \ {t} /\ t \in WaitSet
        BY <2>0, <3>1, <3>3, <4>1 DEF WaitSet, W
      <4>3. QED
        BY <3>3, <4>2, WaitSetCount DEF WaitCounted
    <3>4. CASE Goto(t, "waiting") /\ waitCount' = waitCount
      <4>1. pc'[t] = "waiting"
        BY <3>4 DEF Goto, MarkTypes
      <4>2. QED
        BY <2>1, <3>1, <3>4, <4>1 DEF W
    <3>5. QED
      BY <2>7, <3>2, <3>3, <3>4 DEF getInputPacketAgain
  <2>8. QED
    BY <1>1, <2>2, <2>3, <2>4, <2>5, <2>6, <2>7, StepKinds
<1>2. ASSUME \A u \in Thread : pc[u] \notin W /\ pc'[u] \notin W, waitCount' = waitCount
      PROVE  WaitCounted'
  <2>1. WaitSet = {} /\ WaitSet' = {}
    BY <1>2 DEF WaitSet
  <2>2. QED
    BY <1>2, <2>1 DEF WaitCounted
<1>3. ASSUME NEW t \in Thread, initializeMarkMap(t)
      PROVE  WaitCounted'
  BY <1>3 DEF initializeMarkMap, WaitCounted, WaitSet
<1>4. ASSUME NEW t \in Thread, markLiveObjectsInit(t)
      PROVE  WaitCounted'
  <2>2. \A u \in Thread : pc[u] \notin W /\ pc'[u] \notin W
    BY <1>4, ClearingMoves DEF Clearing
  <2>3. QED
    BY <1>2, <1>4, <2>2 DEF markLiveObjectsInit
<1>5. CASE handleOverflow
  BY <1>2, <1>5 DEF handleOverflow, Goto, MarkTypes
<1>6. CASE ScanOverflowed
  BY <1>6 DEF ScanOverflowed, WaitCounted, WaitSet
<1>7. CASE releaseSynchronizedGCThreads
  BY <1>2, <1>7 DEF releaseSynchronizedGCThreads, Walk
<1>8. QED
  BY <1>1, <1>3, <1>4, <1>5, <1>6, <1>7, StepLater DEF Next, MasterStep

\* The last thread to wait ends marking only when every other thread waits, so that
\* no packet can escape its notice.
LEMMA LastOneKnows ==
  ASSUME MarkTypes, Monitor, WaitCounted, NEW t \in Thread, pc[t] = "inside", AllDone(t)
  PROVE  /\ input = {}
         /\ \A u \in Thread \ {t} : pc[u] \in {"waiting", "woken"} /\ seen[u] = doneIndex
<1>1. WaitSet \subseteq Thread \ {t} /\ IsFiniteSet(Thread \ {t})
  BY FS_RemoveElement DEF WaitSet
<1>2. Cardinality(Thread \ {t}) = Cardinality(Thread) - 1 /\ Cardinality(Thread) \in Nat
  BY FS_RemoveElement, FS_CardinalityType
<1>3. Cardinality(WaitSet) = Cardinality(Thread \ {t})
  BY <1>2, WaitSetCount DEF AllDone, WaitCounted
<1>4. WaitSet = Thread \ {t}
  BY <1>1, <1>3, FS_Subset
<1>5. \A u \in Thread \ {t} : pc[u] # "again"
  BY DEF Monitor
<1>6. \A u \in Thread \ {t} : pc[u] \in {"waiting", "woken"} /\ seen[u] = doneIndex
  BY <1>4, <1>5 DEF WaitSet
<1>7. ~Moving(t)
  BY <1>6 DEF Moving, Idle
<1>8. QED
  BY <1>6, <1>7 DEF AllDone, SeesInput, inputPacketAvailable

\* Once a thread knows that marking is done, all threads do, and no packet is left
\* for any of them.
LEMMA QuietKept ==
  ASSUME MarkTypes, WorkStacks, ClearedTogether, Walk, Monitor, WaitCounted, Quiet, Next
  PROVE  Quiet'
<1> USE DEF shared, monitor, units, stack
<1>0. ASSUME \A u \in Thread : ~Knows(u)'
      PROVE  Quiet'
  BY <1>0 DEF Quiet
<1>1. ASSUME NEW t \in Thread, Step(t), pc[t] # "clear"
      PROVE  Quiet'
  <2>0. \A u \in Thread \ {t} : pc'[u] = pc[u] \/ (pc[u] = "waiting" /\ pc'[u] = "woken")
    BY <1>1, StepLocal DEF Moves
  <2>1. ASSUME NEW u \in Thread \ {t}, seen'[u] = seen[u], doneIndex' = doneIndex, cursor' = cursor
        PROVE  Knows(u)' <=> Knows(u)
    BY <2>0, <2>1 DEF Knows, Asking
  <2>2. ASSUME ~Knows(t), ~Knows(t)', doneIndex' = doneIndex, cursor' = cursor,
               \A u \in Thread \ {t} : seen'[u] = seen[u]
        PROVE  Quiet'
    <3>1. \A u \in Thread : ~Knows(u)
      BY <2>2 DEF Quiet
    <3>2. QED
      BY <3>1, <2>1, <2>2, <1>0
  <2>3. ASSUME Knows(t)', pc[t] \in {"woken", "again", "done"}, Knows(t),
               UNCHANGED <<input, doneIndex, cursor, seen>>,
               pc'[t] \notin {"try", "inside", "waiting"}
        PROVE  Quiet'
    <3>1. input = {} /\ cursor = 0
          /\ \A u \in Thread : Knows(u) /\ pc[u] \notin {"try", "inside", "waiting"}
      BY <2>3 DEF Quiet
    <3>2. \A u \in Thread : Knows(u)' /\ pc'[u] \notin {"try", "inside", "waiting"}
      BY <3>1, <2>0, <2>1, <2>3
    <3>3. QED
      BY <3>1, <3>2, <2>3 DEF Quiet
  <2>4. CASE Work(t)
    <3>1. CASE pc[t] \in Working
      <4>1. ~Knows(t) /\ ~Knows(t)'
        BY <3>1, <2>4 DEF Work, Knows, Working, Asking
      <4>2. QED
        BY <2>2, <2>4, <4>1 DEF Work
    <3>2. CASE pc[t] = "try"
      <4>1. ~Knows(t) /\ ~Knows(t)'
        BY <3>2, <2>4 DEF Work, Knows, Working, Asking, Quiet
      <4>2. QED
        BY <2>2, <2>4, <4>1 DEF Work
    <3>3. QED
      BY <2>4, <3>1, <3>2 DEF Work
  <2>5. CASE AskForInput(t)
    <3>1. seen'[t] = doneIndex /\ pc'[t] = "try" /\ \A u \in Thread \ {t} : seen'[u] = seen[u]
      BY <2>5 DEF AskForInput, MarkTypes
    <3>2. ~Knows(t) /\ ~Knows(t)'
      BY <2>5, <3>1 DEF AskForInput, Knows, Asking
    <3>3. QED
      BY <2>2, <2>5, <3>1, <3>2 DEF AskForInput
  <2>6. CASE MonitorEnter(t)
    <3>1. pc'[t] = "inside" /\ pc[t] = "try" /\ UNCHANGED <<seen, doneIndex, cursor>>
      BY <2>6 DEF MonitorEnter, Goto, MarkTypes
    <3>2. ~Knows(t)
      BY <3>1 DEF Quiet
    <3>3. ~Knows(t)'
      BY <3>1, <3>2 DEF Knows, Asking
    <3>4. QED
      BY <2>2, <3>1, <3>2, <3>3
  <2>7. CASE MonitorReenter(t)
    <3>1. pc'[t] = "again" /\ pc[t] = "woken" /\ UNCHANGED <<input, seen, doneIndex, cursor>>
      BY <2>7 DEF MonitorReenter, Goto, MarkTypes
    <3>2. Knows(t)' <=> Knows(t)
      BY <3>1 DEF Knows, Asking
    <3>3. QED
      BY <2>2, <2>3, <3>1, <3>2
  <2>8. CASE completeScan(t)
    <3>1. /\ pc[t] = "done"
          /\ pc' = [pc EXCEPT ![t] = IF overflow THEN "held" ELSE "end"]
          /\ UNCHANGED <<input, seen, doneIndex, cursor>>
      BY <2>8, CompleteScanEffect
    <3>2. Knows(t)
      BY <3>1 DEF Knows
    <3>3. pc'[t] \in {"held", "end"} /\ cursor' = 0
      BY <3>1, <3>2 DEF MarkTypes, Quiet
    <3>4. Knows(t)'
      BY <3>3 DEF Knows
    <3>5. QED
      BY <2>3, <3>1, <3>2, <3>3, <3>4
  <2>9. CASE getInputPacket(t)
    <3>0. pc[t] = "inside" /\ UNCHANGED <<input, seen, cursor>>
      BY <2>9 DEF getInputPacket
    <3>1. ~Knows(t) /\ seen[t] = doneIndex
      BY <3>0 DEF Quiet, Knows, Asking
    <3>2. CASE AllDone(t)
      <4>1. doneIndex' = doneIndex + 1 /\ Wake(ToldDone, t, "done")
        BY <2>9, <3>1, <3>2 DEF getInputPacket
      <4>2. /\ input = {}
            /\ \A u \in Thread \ {t} : pc[u] \in {"waiting", "woken"} /\ seen[u] = doneIndex
        BY <3>0, <3>2, LastOneKnows
      <4>3. /\ pc'[t] = "done"
            /\ \A u \in Thread \ {t} : pc'[u] = "woken" /\ seen'[u] # doneIndex'
        BY <3>0, <4>1, <4>2 DEF Wake, ToldDone, Waiting, MarkTypes
      <4>4. cursor = 0
        <5>1. cursor \in Nat /\ ~(cursor > 0)
          BY <3>0 DEF Walk, Pushing, MarkTypes
        <5>2. QED
          BY <5>1
      <4>5. \A u \in Thread : Knows(u)' /\ pc'[u] \notin {"try", "inside", "waiting"}
        BY <4>3 DEF Knows, Asking
      <4>6. QED
        BY <3>0, <4>2, <4>4, <4>5 DEF Quiet
    <3>3. CASE ~AllDone(t)
      <4>1. doneIndex' = doneIndex /\ (Goto(t, "try") \/ Goto(t, "waiting"))
        BY <2>9, <3>1, <3>3 DEF getInputPacket
      <4>2. pc'[t] \in {"try", "waiting"}
        BY <4>1 DEF Goto, MarkTypes
      <4>3. ~Knows(t)'
        BY <3>0, <3>1, <4>1, <4>2 DEF Knows
      <4>4. QED
        BY <2>2, <3>0, <3>1, <4>1, <4>3
    <3>4. QED
      BY <3>2, <3>3
  <2>10. CASE getInputPacketAgain(t)
    <3>0. pc[t] = "again" /\ UNCHANGED <<input, seen, cursor, doneIndex>>
      BY <2>10 DEF getInputPacketAgain
    <3>1. CASE seen[t] # doneIndex
      <4>1. pc'[t] = "done"
        BY <2>10, <3>1 DEF getInputPacketAgain, Goto, MarkTypes
      <4>2. QED
        BY <2>3, <3>0, <3>1, <4>1 DEF Knows, Asking
    <3>2. CASE seen[t] = doneIndex
      <4>1. pc'[t] \in {"try", "waiting"}
        BY <2>10, <3>2 DEF getInputPacketAgain, Goto, MarkTypes
      <4>2. ~Knows(t) /\ ~Knows(t)'
        BY <3>0, <3>2, <4>1 DEF Knows
      <4>3. QED
        BY <2>2, <3>0, <4>2
    <3>3. QED
      BY <3>1, <3>2
  <2>11. QED
    BY <1>1, <2>4, <2>5, <2>6, <2>7, <2>8, <2>9, <2>10, StepKinds
<1>2. ASSUME NEW t \in Thread, initializeMarkMap(t) \/ markLiveObjectsInit(t)
      PROVE  Quiet'
  <2>2. \A u \in Thread : pc'[u] \in Clearing \cup {"mark"}
    BY <1>2, ClearingMoves
  <2>3. QED
    BY <2>2, <1>0 DEF Knows, Clearing, Asking
<1>3. CASE handleOverflow
  <2>1. cursor' = 1 /\ \A u \in Thread : pc'[u] = IF u = Master THEN "mark" ELSE "held"
    BY <1>3 DEF handleOverflow, Goto, MarkTypes
  <2>2. QED
    BY <2>1, <1>0 DEF Knows, Asking
<1>4. CASE ScanOverflowed
  <2>1. PICK o \in Overflowed : cursor' = o + 1
    BY <1>4 DEF ScanOverflowed
  <2>2. cursor' > 0 /\ cursor' # 0
    BY <2>1 DEF Overflowed, MarkTypes, Obj
  <2>3. \A u \in Thread : pc'[u] = IF u = Master THEN "mark" ELSE "held"
    BY <1>4 DEF ScanOverflowed, Walk
  <2>4. QED
    BY <2>2, <2>3, <1>0 DEF Knows, Asking
<1>5. CASE releaseSynchronizedGCThreads
  <2>1. \A u \in Thread : pc'[u] = "mark"
    BY <1>5 DEF releaseSynchronizedGCThreads
  <2>2. QED
    BY <2>1, <1>0 DEF Knows, Asking
<1>6. QED
  BY <1>1, <1>2, <1>3, <1>4, <1>5, StepLater DEF Next, MasterStep

\* The flag tells of every overflow bit the walk will not come to any more, and no
\* thread has left the scan while it is set.
LEMMA OverflowKept ==
  ASSUME MarkTypes, WorkStacks, ClearedTogether, Walk, Monitor, Quiet, Overflow, Next,
         over \subseteq marked
  PROVE  Overflow'
<1> USE DEF shared, monitor, units, stack
<1>0. ASSUME \A u \in Thread : pc'[u] # "end" /\ (pc'[u] = "held" => cursor' # 0),
             ~overflow' => \A o \in over' : cursor' > 0 /\ o >= cursor'
      PROVE  Overflow'
  BY <1>0 DEF Overflow
<1>1. ASSUME NEW t \in Thread, Step(t), pc[t] # "clear"
      PROVE  Overflow'
  <2>0. \A u \in Thread \ {t} : pc'[u] = pc[u] \/ (pc[u] = "waiting" /\ pc'[u] = "woken")
    BY <1>1, StepLocal DEF Moves
  <2>1. CASE Work(t)
    <3>1. ~Knows(t)
      BY <2>1 DEF Work, Knows, Working, Asking, Quiet
    <3>2. \A u \in Thread : pc[u] # "end" /\ (pc[u] = "held" => cursor # 0)
      BY <3>1 DEF Quiet, Knows
    <3>3. \A u \in Thread : pc'[u] # "end" /\ (pc'[u] = "held" => cursor' # 0)
      BY <3>2, <2>0, <2>1 DEF Work, Working
    <3>4. ~overflow' => \A o \in over' : cursor' > 0 /\ o >= cursor'
      BY <2>1 DEF Work, Overflow
    <3>5. QED
      BY <3>3, <3>4, <1>0
  <2>2. CASE completeScan(t)
    <3>1. /\ pc' = [pc EXCEPT ![t] = IF overflow THEN "held" ELSE "end"]
          /\ UNCHANGED <<over, overflow, cursor>>
      BY <2>2, CompleteScanEffect
    <3>2. pc'[t] = IF overflow THEN "held" ELSE "end"
      BY <3>1 DEF MarkTypes
    <3>3. QED
      BY <3>1, <3>2, <2>0 DEF Overflow
  <2>3. ASSUME UNCHANGED <<over, overflow, cursor>>, pc'[t] \notin {"end", "held"}
        PROVE  Overflow'
    BY <2>0, <2>3 DEF Overflow
  <2>4. CASE \/ AskForInput(t) \/ MonitorEnter(t) \/ MonitorReenter(t) \/ getInputPacketAgain(t)
    BY <2>3, <2>4 DEF AskForInput, MonitorEnter, MonitorReenter, getInputPacketAgain, Goto, MarkTypes
  <2>5. CASE getInputPacket(t)
    <3>1. {"done", "try", "waiting"} \subseteq Location
      BY DEF Location
    <3>2. pc'[t] \in {"done", "try", "waiting"}
      BY <2>5, <3>1, GotoMoves, WakeMoves DEF getInputPacket, Moves, ToldDone
    <3>3. QED
      BY <2>3, <2>5, <3>2 DEF getInputPacket
  <2>6. QED
    BY <1>1, <2>1, <2>2, <2>4, <2>5, StepKinds
<1>2. ASSUME NEW t \in Thread, initializeMarkMap(t) \/ markLiveObjectsInit(t)
      PROVE  Overflow'
  <2>1. (\A u \in Thread : pc[u] \in Clearing) /\ over = {}
    BY <1>2 DEF initializeMarkMap, markLiveObjectsInit, ClearedTogether, InClearing, Clearing
  <2>2. \A u \in Thread : pc'[u] \in Clearing \cup {"mark"}
    BY <1>2, ClearingMoves
  <2>3. over' = {}
    BY <1>2, <2>1 DEF initializeMarkMap, markLiveObjectsInit
  <2>4. QED
    BY <2>2, <2>3, <1>0 DEF Clearing
<1>3. CASE handleOverflow
  <2>1. /\ cursor' = 1 /\ over' = over
        /\ \A u \in Thread : pc'[u] = IF u = Master THEN "mark" ELSE "held"
    BY <1>3 DEF handleOverflow, Goto, MarkTypes
  <2>2. \A o \in over : o >= 1
    BY DEF MarkTypes, Obj
  <2>3. QED
    BY <2>1, <2>2, <1>0
<1>4. CASE ScanOverflowed
  <2>1. PICK o \in Overflowed :
           (\A q \in Overflowed : o <= q) /\ cursor' = o + 1 /\ over' = over \ {o}
    BY <1>4 DEF ScanOverflowed
  <2>2. cursor' > 0 /\ cursor' # 0 /\ o \in Nat
    BY <2>1 DEF Overflowed, MarkTypes, Obj
  <2>3. \A u \in Thread : pc'[u] = IF u = Master THEN "mark" ELSE "held"
    BY <1>4 DEF ScanOverflowed, Walk
  <2>4. ASSUME ~overflow', NEW q \in over'
        PROVE  q >= cursor'
    <3>1. q \in over /\ q # o /\ q >= cursor
      BY <1>4, <2>1, <2>4 DEF ScanOverflowed, Overflow
    <3>2. q \in Overflowed /\ q \in Nat
      BY <3>1 DEF Overflowed, MarkTypes, Obj
    <3>3. QED
      BY <2>1, <2>2, <3>1, <3>2
  <2>5. QED
    BY <2>2, <2>3, <2>4, <1>0
<1>5. CASE releaseSynchronizedGCThreads
  <2>1. /\ \A u \in Thread : pc'[u] = "mark"
        /\ Overflowed = {} /\ UNCHANGED <<over, overflow>>
    BY <1>5 DEF releaseSynchronizedGCThreads
  <2>2. ~overflow => over = {}
    BY <2>1 DEF Overflow, Overflowed
  <2>3. QED
    BY <2>1, <2>2, <1>0
<1>6. QED
  BY <1>1, <1>2, <1>3, <1>4, <1>5, StepLater DEF Next, MasterStep

-----------------------------------------------------------------------------
(***************************************************************************)
(* Objects: where they wait, and that none is forgotten.                   *)
(***************************************************************************)
\* The marked objects of a packet are different ones, and stay so.
LEMMA OnceAppend ==
  ASSUME NEW p \in Seq(Obj), NEW o \in Obj, Once(p), o \notin Range(p)
  PROVE  Once(Append(p, o))
<1>1. /\ DOMAIN Append(p, o) = 1 .. Len(p) + 1 /\ Len(p) \in Nat
      /\ \A i \in 1 .. Len(p) : Append(p, o)[i] = p[i]
      /\ Append(p, o)[Len(p) + 1] = o
      /\ DOMAIN p = 1 .. Len(p) /\ p # None
  OBVIOUS
<1>2. \A i \in 1 .. Len(p) + 1 : i \in 1 .. Len(p) \/ i = Len(p) + 1
  OBVIOUS
<1>3. \A i \in 1 .. Len(p) : p[i] \in Range(p)
  BY <1>1 DEF Range
<1>4. QED
  BY <1>1, <1>2, <1>3 DEF Once

\* What remains of a packet does not hold the object taken out of it.
LEMMA OnceFront ==
  ASSUME NEW p \in Seq(Obj), p # << >>, Once(p)
  PROVE  /\ Once(SubSeq(p, 1, Len(p) - 1))
         /\ p[Len(p)] \notin Range(SubSeq(p, 1, Len(p) - 1))
<1> DEFINE f == SubSeq(p, 1, Len(p) - 1)
<1>1. /\ Len(p) \in Nat /\ Len(p) > 0 /\ DOMAIN p = 1 .. Len(p) /\ p # None
  OBVIOUS
<1>2. /\ DOMAIN f = 1 .. Len(p) - 1
      /\ \A i \in 1 .. Len(p) - 1 : f[i] = p[i]
  BY <1>1
<1>3. ASSUME NEW i \in 1 .. Len(p) - 1
      PROVE  i \in 1 .. Len(p) /\ i # Len(p)
  <2>1. ASSUME NEW n \in Nat, NEW j \in 1 .. n - 1
        PROVE  j \in 1 .. n /\ j # n
    OBVIOUS
  <2>2. QED
    BY <1>1, <2>1
<1>4. Len(p) \in 1 .. Len(p)
  BY <1>1
<1> HIDE DEF f
<1>5. Once(f)
  BY <1>1, <1>2, <1>3 DEF Once
<1>6. p[Len(p)] \notin Range(f)
  BY <1>1, <1>2, <1>3, <1>4 DEF Once, Range
<1>7. QED
  BY <1>5, <1>6 DEF f

\* An object is grey when it waits in a packet on a list, in the hands of a thread
\* or in the overflow bits.
GreyView ==
  /\ \A x : x \in Grey <=> \/ \E p \in input : x \in Range(p)
                           \/ \E t \in Thread : x \in Mine(t)
                           \/ x \in over
  /\ \A x : x \in Pending <=> \E t \in Thread : x \in Range(todo[t])

\* The two ways to say where grey objects wait agree.
LEMMA GreyViewHolds == MarkTypes => GreyView
<1> SUFFICES ASSUME MarkTypes
             PROVE  GreyView
  OBVIOUS
<1>1. ASSUME NEW x
      PROVE  x \in UNION {Range(p) : p \in input \cup Held}
               <=> \/ \E p \in input : x \in Range(p)
                   \/ \E t \in Thread : x \in Contents(in[t]) \cup Contents(out[t])
  <2>1. x \in UNION {Range(p) : p \in input \cup Held}
          <=> (\E p \in input : x \in Range(p)) \/ \E p \in Held : x \in Range(p)
    OBVIOUS
  <2>2. (\E p \in Held : x \in Range(p))
          <=> \E t \in Thread : x \in Contents(in[t]) \cup Contents(out[t])
    BY DEF Held, Contents
  <2>3. QED
    BY <2>1, <2>2
<1>2. ASSUME NEW x
      PROVE  x \in {item[t] : t \in Thread} \ {None} <=> \E t \in Thread : x \in {item[t]} \ {None}
  OBVIOUS
<1>3. ASSUME NEW x
      PROVE  x \in Grey <=> \/ \E p \in input : x \in Range(p)
                           \/ \E t \in Thread : x \in Mine(t)
                           \/ x \in over
  <2>1. x \in Grey <=> \/ x \in UNION {Range(p) : p \in input \cup Held}
                      \/ x \in over \/ x \in {item[t] : t \in Thread} \ {None}
    BY DEF Grey
  <2>2. (\E t \in Thread : x \in Mine(t))
          <=> \/ \E t \in Thread : x \in Contents(in[t]) \cup Contents(out[t])
              \/ \E t \in Thread : x \in {item[t]} \ {None}
    BY Zenon DEF Mine
  <2>3. QED
    BY <2>1, <2>2, <1>1, <1>2, Zenon
<1>4. ASSUME NEW x
      PROVE  x \in Pending <=> \E t \in Thread : x \in Range(todo[t])
  BY DEF Pending
<1>5. QED
  BY <1>3, <1>4 DEF GreyView

\* The reachable objects are the least set closed under references.
LEMMA ReachableLeast ==
  ASSUME graph \in Graphs
  PROVE  /\ Reachable \subseteq Obj
         /\ Range(graph.roots) \subseteq Reachable
         /\ \A o \in Reachable : Range(Refs(o)) \subseteq Reachable
         /\ \A C \in SUBSET Obj :
              /\ Range(graph.roots) \subseteq C
              /\ \A o \in C : Range(Refs(o)) \subseteq C
              => Reachable \subseteq C
<1> DEFINE closed == {C \in SUBSET Obj : Range(graph.roots) \subseteq C
                                         /\ \A o \in C : Range(Refs(o)) \subseteq C}
<1>1. Range(graph.roots) \subseteq Obj
  BY GraphFacts DEF Range
<1>2. \A o \in Obj : Range(Refs(o)) \subseteq Obj
  <2>1. SUFFICES ASSUME NEW o \in Obj
                 PROVE  Range(Refs(o)) \subseteq Obj
    OBVIOUS
  <2>2. Refs(o) \in Seq(Obj)
    BY GraphFacts
  <2>3. QED
    BY <2>2 DEF Range
<1>3. Reachable = {o \in Obj : \A C \in closed : o \in C}
  BY DEF Reachable
<1>4. \A C \in closed : Range(graph.roots) \subseteq C /\ \A o \in C : Range(Refs(o)) \subseteq C
  OBVIOUS
<1>5. \A C \in SUBSET Obj : Range(graph.roots) \subseteq C /\ (\A o \in C : Range(Refs(o)) \subseteq C)
                            => C \in closed
  OBVIOUS
<1> HIDE DEF closed
<1>6. QED
  BY <1>1, <1>2, <1>3, <1>4, <1>5

-----------------------------------------------------------------------------
\* An object is passed on unseen, marked, or scanned.
Passed == marked' = marked /\ Grey' = Grey /\ Pending' = Pending
MarkedNow(o) ==
  /\ o \in Pending
  /\ marked' = marked \cup {o}
  /\ Grey' = IF o \in marked THEN Grey ELSE Grey \cup {o}
  /\ Pending' \subseteq Pending /\ Pending \subseteq Pending' \cup {o}
ScannedNow(o) ==
  /\ o \in Grey
  /\ marked' = marked
  /\ Grey' \subseteq Grey /\ Grey \subseteq Grey' \cup {o}
  /\ Pending' = Pending \cup Range(Refs(o))

\* Each of the three keeps the marks right.
LEMMA TricolourStep ==
  ASSUME MarkTypes, Tricolour, ~InClearing, graph' = graph, NEW o,
         Passed \/ MarkedNow(o) \/ ScannedNow(o)
  PROVE  Tricolour'
<1>0. /\ Reachable' = Reachable /\ graph' = graph
      /\ \A x : Refs(x)' = Refs(x)
  BY DEF Reachable, Refs
<1>1. /\ Grey \subseteq marked
      /\ marked \cup Pending \subseteq Reachable
      /\ Range(graph.roots) \subseteq marked \cup Pending
      /\ \A x \in marked \ Grey : Range(Refs(x)) \subseteq marked \cup Pending
  BY DEF Tricolour
<1>2. CASE Passed
  BY <1>0, <1>1, <1>2 DEF Passed, Tricolour
<1>3. CASE MarkedNow(o)
  <2>1. marked' \cup Pending' = marked \cup Pending
    BY <1>3 DEF MarkedNow
  <2>2. Grey' \subseteq marked'
    BY <1>1, <1>3 DEF MarkedNow
  <2>3. \A x \in marked' \ Grey' : x \in marked \ Grey
    BY <1>1, <1>3 DEF MarkedNow
  <2>4. QED
    BY <1>0, <1>1, <2>1, <2>2, <2>3 DEF Tricolour
<1>4. CASE ScannedNow(o)
  <2>1. Range(Refs(o)) \subseteq Reachable
    BY <1>1, <1>4, ReachableLeast DEF ScannedNow, MarkTypes
  <2>2. /\ marked' \cup Pending' = marked \cup Pending \cup Range(Refs(o))
        /\ Grey' \subseteq marked'
    BY <1>1, <1>4 DEF ScannedNow
  <2>3. \A x \in marked' \ Grey' : x = o \/ x \in marked \ Grey
    BY <1>1, <1>4 DEF ScannedNow
  <2>4. QED
    BY <1>0, <1>1, <2>1, <2>2, <2>3 DEF Tricolour
<1>5. QED
  BY <1>2, <1>3, <1>4

-----------------------------------------------------------------------------
\* The other threads keep what they hold.
LEMMA OthersHands ==
  ASSUME NEW t \in Thread, Untouched(t), NEW u \in Thread \ {t}
  PROVE  Mine(u)' = Mine(u) /\ OwnApart(u)' = OwnApart(u) /\ todo'[u] = todo[u]
<1>1. in'[u] = in[u] /\ out'[u] = out[u] /\ item'[u] = item[u] /\ todo'[u] = todo[u]
  BY DEF Untouched
<1>2. QED
  BY <1>1 DEF Mine, OwnApart, Once, Contents

\* What a step of t does to the places objects wait in: they stay or are dropped, t
\* gives a packet to the lists, takes one from them, empties one of them into the
\* overflow bits, lets its pending object overflow, or takes a new object.
Keep(t) == input' = input /\ over' \subseteq over /\ Mine(t)' \subseteq Mine(t)
Give(t, p) ==
  /\ input' = input \cup {p} /\ over' = over
  /\ Once(p) /\ Mine(t) = Mine(t)' \cup Range(p) /\ Mine(t)' \cap Range(p) = {}
Take(t, p) ==
  /\ p \in input /\ input' = input \ {p} /\ over' = over
  /\ Mine(t)' \subseteq Mine(t) \cup Range(p)
Spill(t, p) ==
  /\ p \in input /\ input' = input \ {p} /\ over' = over \cup Range(p)
  /\ Mine(t)' = Mine(t)
SpillOwn(t, o) ==
  /\ input' = input /\ over' = over \cup {o}
  /\ Mine(t) = Mine(t)' \cup {o} /\ o \notin Mine(t)'
Fresh(t, o) ==
  /\ input' = input /\ over' = over
  /\ o \notin Grey /\ Mine(t)' = Mine(t) \cup {o}

\* None of them makes an object wait twice.
LEMMA SeparateStep ==
  ASSUME MarkTypes, Separate, NEW t \in Thread, Untouched(t), OwnApart(t)',
         NEW p, NEW o,
         Keep(t) \/ Give(t, p) \/ Take(t, p) \/ Spill(t, p) \/ SpillOwn(t, o) \/ Fresh(t, o)
  PROVE  Separate'
<1>0. \A u \in Thread \ {t} : Mine(u)' = Mine(u) /\ OwnApart(u)' = OwnApart(u)
  BY OthersHands
<1>1. \A u \in Thread : OwnApart(u)'
  BY <1>0 DEF Separate
<1>s. /\ \A q \in input : Once(q) /\ Range(q) \cap over = {}
      /\ \A q, r \in input : q # r => Range(q) \cap Range(r) = {}
      /\ \A u \in Thread : Mine(u) \cap over = {}
      /\ \A u \in Thread : \A q \in input : Range(q) \cap Mine(u) = {}
      /\ \A u, v \in Thread : u # v => Mine(u) \cap Mine(v) = {}
  BY DEF Separate
<1> DEFINE N(u) == Mine(u)'
<1>c. ASSUME /\ \A q \in input' : Once(q) /\ Range(q) \cap over' = {}
             /\ \A q, r \in input' : q # r => Range(q) \cap Range(r) = {}
             /\ \A u \in Thread : N(u) \cap over' = {}
             /\ \A u \in Thread : \A q \in input' : Range(q) \cap N(u) = {}
             /\ \A u, v \in Thread : u # v => N(u) \cap N(v) = {}
      PROVE  Separate'
  BY <1>1, <1>c DEF Separate, Once
<1>n. \A u \in Thread \ {t} : N(u) = Mine(u)
  BY <1>0
<1>2. CASE Keep(t)
  <2>1. input' = input /\ over' \subseteq over /\ N(t) \subseteq Mine(t)
    BY <1>2 DEF Keep
  <2> HIDE DEF N
  <2>2. \A u \in Thread : N(u) \subseteq Mine(u)
    BY <2>1, <1>n
  <2>3. QED
    BY <2>1, <2>2, <1>s, <1>c
<1>3. CASE Give(t, p)
  <2>1. /\ input' = input \cup {p} /\ over' = over
        /\ Once(p) /\ Mine(t) = N(t) \cup Range(p) /\ N(t) \cap Range(p) = {}
    BY <1>3 DEF Give
  <2> HIDE DEF N
  <2>2. \A u \in Thread : N(u) \subseteq Mine(u) /\ Range(p) \cap N(u) = {}
    BY <2>1, <1>n, <1>s
  <2>3. \A q \in input : Range(q) \cap Range(p) = {}
    BY <2>1, <1>s
  <2>4. Range(p) \cap over = {}
    BY <2>1, <1>s
  <2>5. QED
    BY <2>1, <2>2, <2>3, <2>4, <1>s, <1>c
<1>4. CASE Take(t, p)
  <2>1. /\ p \in input /\ input' = input \ {p} /\ over' = over
        /\ N(t) \subseteq Mine(t) \cup Range(p)
    BY <1>4 DEF Take
  <2> HIDE DEF N
  <2>2. \A u \in Thread : N(u) \cap over = {}
    BY <2>1, <1>n, <1>s
  <2>3. \A u \in Thread : \A q \in input' : Range(q) \cap N(u) = {}
    BY <2>1, <1>n, <1>s
  <2>4. \A u \in Thread \ {t} : N(t) \cap N(u) = {}
    BY <2>1, <1>n, <1>s
  <2>5. \A u, v \in Thread : u # v => N(u) \cap N(v) = {}
    BY <2>4, <1>n, <1>s
  <2>6. QED
    BY <2>1, <2>2, <2>3, <2>5, <1>s, <1>c
<1>5. CASE Spill(t, p)
  <2>1. /\ p \in input /\ input' = input \ {p} /\ over' = over \cup Range(p)
        /\ N(t) = Mine(t)
    BY <1>5 DEF Spill
  <2> HIDE DEF N
  <2>2. \A u \in Thread : N(u) = Mine(u)
    BY <2>1, <1>n
  <2>3. (\A q \in input' : Range(q) \cap over' = {}) /\ \A u \in Thread : N(u) \cap over' = {}
    BY <2>1, <2>2, <1>s
  <2>4. QED
    BY <2>1, <2>2, <2>3, <1>s, <1>c
<1>6. CASE SpillOwn(t, o)
  <2>1. /\ input' = input /\ over' = over \cup {o}
        /\ Mine(t) = N(t) \cup {o} /\ o \notin N(t)
    BY <1>6 DEF SpillOwn
  <2> HIDE DEF N
  <2>2. \A u \in Thread : N(u) \subseteq Mine(u) /\ o \notin N(u)
    BY <2>1, <1>n, <1>s
  <2>3. (\A q \in input' : Range(q) \cap over' = {}) /\ \A u \in Thread : N(u) \cap over' = {}
    BY <2>1, <2>2, <1>s
  <2>4. QED
    BY <2>1, <2>2, <2>3, <1>s, <1>c
<1>7. CASE Fresh(t, o)
  <2>1. /\ input' = input /\ over' = over
        /\ o \notin Grey /\ N(t) = Mine(t) \cup {o}
    BY <1>7 DEF Fresh
  <2> HIDE DEF N
  <2>2. (\A q \in input : o \notin Range(q)) /\ (\A u \in Thread : o \notin Mine(u)) /\ o \notin over
    BY <2>1, GreyViewHolds DEF GreyView
  <2>3. \A u \in Thread : N(u) \cap over = {} /\ \A q \in input : Range(q) \cap N(u) = {}
    BY <2>1, <2>2, <1>n, <1>s
  <2>4. \A u \in Thread \ {t} : N(t) \cap N(u) = {}
    BY <2>1, <2>2, <1>n, <1>s
  <2>5. \A u, v \in Thread : u # v => N(u) \cap N(v) = {}
    BY <2>4, <1>n, <1>s
  <2>6. QED
    BY <2>1, <2>3, <2>5, <1>s, <1>c
<1>8. QED
  BY <1>2, <1>3, <1>4, <1>5, <1>6, <1>7

\* The same steps seen by the marking: every object is passed on but the one t scans.
LEMMA GreyStep ==
  ASSUME MarkTypes, MarkTypes', NEW t \in Thread, Untouched(t), marked' = marked,
         NEW p, NEW o,
         \/ /\ input' = input /\ over' = over /\ Mine(t)' = Mine(t)
            /\ Range(todo'[t]) = Range(todo[t])
         \/ (Give(t, p) \/ Spill(t, p) \/ SpillOwn(t, o)) /\ todo'[t] = todo[t]
         \/ /\ input' = input /\ over' = over
            /\ Mine(t) = Mine(t)' \cup {o} /\ Range(todo'[t]) = Range(todo[t]) \cup Range(Refs(o))
         \/ /\ p \in input /\ input' = input \ {p} /\ over' = over /\ o \in Range(p)
            /\ Mine(t)' \cup {o} = Mine(t) \cup Range(p)
            /\ Range(todo'[t]) = Range(todo[t]) \cup Range(Refs(o))
         \/ /\ input' = input /\ o \in over /\ over' = over \ {o} /\ Mine(t)' = Mine(t)
            /\ Range(todo'[t]) = Range(todo[t]) \cup Range(Refs(o))
  PROVE  Passed \/ ScannedNow(o)
<1>0. \A u \in Thread \ {t} : Mine(u)' = Mine(u) /\ todo'[u] = todo[u]
  BY OthersHands
<1>1. GreyView
  BY GreyViewHolds
<1>2. GreyView'
  BY GreyViewHolds, PTL
<1> DEFINE N(u) == Mine(u)'
           R(u) == Range(todo[u])
           RN(u) == Range(todo'[u])
<1>n. \A u \in Thread \ {t} : N(u) = Mine(u) /\ RN(u) = R(u)
  BY <1>0
<1>g. /\ \A x : x \in Grey <=> \/ \E q \in input : x \in Range(q)
                               \/ \E u \in Thread : x \in Mine(u)
                               \/ x \in over
      /\ \A x : x \in Grey' <=> \/ \E q \in input' : x \in Range(q)
                                \/ \E u \in Thread : x \in N(u)
                                \/ x \in over'
      /\ \A x : x \in Pending <=> \E u \in Thread : x \in R(u)
      /\ \A x : x \in Pending' <=> \E u \in Thread : x \in RN(u)
  BY <1>1, <1>2 DEF GreyView
<1>p. ASSUME RN(t) = R(t)
      PROVE  Pending' = Pending
  <2> HIDE DEF R, RN
  <2>1. \A u \in Thread : RN(u) = R(u)
    BY <1>n, <1>p
  <2>2. \A x : x \in Pending' <=> x \in Pending
    BY <2>1, <1>g
  <2>3. QED
    BY <2>2
<1>q. ASSUME RN(t) = R(t) \cup Range(Refs(o))
      PROVE  Pending' = Pending \cup Range(Refs(o))
  <2> HIDE DEF R, RN
  <2>1. \A x : (\E u \in Thread : x \in RN(u)) <=> (\E u \in Thread : x \in R(u)) \/ x \in Range(Refs(o))
    BY <1>n, <1>q
  <2>2. QED
    BY <2>1, <1>g
<1>3. CASE input' = input /\ over' = over /\ N(t) = Mine(t) /\ RN(t) = R(t)
  <2> HIDE DEF N, R, RN
  <2>1. \A u \in Thread : N(u) = Mine(u)
    BY <1>n, <1>3
  <2>2. Grey' = Grey
    BY <2>1, <1>3, <1>g
  <2>3. QED
    BY <2>2, <1>3, <1>p DEF Passed
<1>4. CASE Give(t, p) /\ todo'[t] = todo[t]
  <2>1. input' = input \cup {p} /\ over' = over /\ Mine(t) = N(t) \cup Range(p) /\ RN(t) = R(t)
    BY <1>4 DEF Give
  <2> HIDE DEF N, R, RN
  <2>2. \A x \in Grey : x \in Grey'
    BY <2>1, <1>n, <1>g
  <2>3. \A x \in Grey' : x \in Grey
    BY <2>1, <1>n, <1>g
  <2>4. QED
    BY <2>1, <2>2, <2>3, <1>p DEF Passed
<1>5. CASE Spill(t, p) /\ todo'[t] = todo[t]
  <2>1. /\ p \in input /\ input' = input \ {p} /\ over' = over \cup Range(p)
        /\ N(t) = Mine(t) /\ RN(t) = R(t)
    BY <1>5 DEF Spill
  <2> HIDE DEF N, R, RN
  <2>2. \A x \in Grey : x \in Grey'
    BY <2>1, <1>n, <1>g
  <2>3. \A x \in Grey' : x \in Grey
    BY <2>1, <1>n, <1>g
  <2>4. QED
    BY <2>1, <2>2, <2>3, <1>p DEF Passed
<1>6. CASE SpillOwn(t, o) /\ todo'[t] = todo[t]
  <2>1. input' = input /\ over' = over \cup {o} /\ Mine(t) = N(t) \cup {o} /\ RN(t) = R(t)
    BY <1>6 DEF SpillOwn
  <2> HIDE DEF N, R, RN
  <2>2. \A x \in Grey : x \in Grey'
    BY <2>1, <1>n, <1>g
  <2>3. \A x \in Grey' : x \in Grey
    BY <2>1, <1>n, <1>g
  <2>4. QED
    BY <2>1, <2>2, <2>3, <1>p DEF Passed
<1>7. CASE input' = input /\ over' = over /\ Mine(t) = N(t) \cup {o} /\ RN(t) = R(t) \cup Range(Refs(o))
  <2> HIDE DEF N, R, RN
  <2>1. o \in Grey /\ \A x \in Grey : x \in Grey' \/ x = o
    BY <1>7, <1>n, <1>g
  <2>2. \A x \in Grey' : x \in Grey
    BY <1>7, <1>n, <1>g
  <2>3. QED
    BY <2>1, <2>2, <1>7, <1>q DEF ScannedNow
<1>8. CASE /\ p \in input /\ input' = input \ {p} /\ over' = over /\ o \in Range(p)
           /\ N(t) \cup {o} = Mine(t) \cup Range(p) /\ RN(t) = R(t) \cup Range(Refs(o))
  <2> HIDE DEF N, R, RN
  <2>1. o \in Grey /\ \A x \in Grey : x \in Grey' \/ x = o
    BY <1>8, <1>n, <1>g
  <2>2. \A x \in Grey' : x \in Grey
    BY <1>8, <1>n, <1>g
  <2>3. QED
    BY <2>1, <2>2, <1>8, <1>q DEF ScannedNow
<1>9. CASE /\ input' = input /\ o \in over /\ over' = over \ {o} /\ N(t) = Mine(t)
           /\ RN(t) = R(t) \cup Range(Refs(o))
  <2> HIDE DEF N, R, RN
  <2>1. \A u \in Thread : N(u) = Mine(u)
    BY <1>n, <1>9
  <2>2. o \in Grey /\ \A x \in Grey : x \in Grey' \/ x = o
    BY <2>1, <1>9, <1>g
  <2>3. \A x \in Grey' : x \in Grey
    BY <2>1, <1>9, <1>g
  <2>4. QED
    BY <2>2, <2>3, <1>9, <1>q DEF ScannedNow
<1>10. QED
  BY <1>3, <1>4, <1>5, <1>6, <1>7, <1>8, <1>9

\* Marking the next reference: the object becomes grey if it was not marked.
LEMMA MarkStep ==
  ASSUME MarkTypes, MarkTypes', NEW t \in Thread, Untouched(t), NEW o,
         input' = input, over' = over, marked' = marked \cup {o},
         Range(todo[t]) = {o} \cup Range(todo'[t]),
         Mine(t)' = IF o \in marked THEN Mine(t) ELSE Mine(t) \cup {o}
  PROVE  MarkedNow(o)
<1>0. \A u \in Thread \ {t} : Mine(u)' = Mine(u) /\ todo'[u] = todo[u]
  BY OthersHands
<1>1. GreyView
  BY GreyViewHolds
<1>2. GreyView'
  BY GreyViewHolds, PTL
<1> DEFINE N(u) == Mine(u)'
           R(u) == Range(todo[u])
           RN(u) == Range(todo'[u])
<1>n. \A u \in Thread \ {t} : N(u) = Mine(u) /\ RN(u) = R(u)
  BY <1>0
<1>g. /\ \A x : x \in Grey <=> \/ \E q \in input : x \in Range(q)
                               \/ \E u \in Thread : x \in Mine(u)
                               \/ x \in over
      /\ \A x : x \in Grey' <=> \/ \E q \in input : x \in Range(q)
                                \/ \E u \in Thread : x \in N(u)
                                \/ x \in over
  BY <1>1, <1>2 DEF GreyView
<1>h. /\ \A x : x \in Pending <=> \E u \in Thread : x \in R(u)
      /\ \A x : x \in Pending' <=> \E u \in Thread : x \in RN(u)
  BY <1>1, <1>2 DEF GreyView
<1>m. N(t) = IF o \in marked THEN Mine(t) ELSE Mine(t) \cup {o}
  OBVIOUS
<1>r. R(t) = {o} \cup RN(t)
  OBVIOUS
<1> HIDE DEF N, R, RN
<1>3. o \in Pending /\ (\A x \in Pending' : x \in Pending) /\ \A x \in Pending : x \in Pending' \/ x = o
  BY <1>n, <1>h, <1>r
<1>4. ASSUME o \in marked
      PROVE  Grey' = Grey
  <2>1. \A u \in Thread : N(u) = Mine(u)
    BY <1>n, <1>m, <1>4
  <2>2. \A x : x \in Grey' <=> x \in Grey
    BY <2>1, <1>g
  <2>3. QED
    BY <2>2
<1>5. ASSUME o \notin marked
      PROVE  Grey' = Grey \cup {o}
  <2>1. N(t) = Mine(t) \cup {o}
    BY <1>m, <1>5
  <2>2. \A x \in Grey' : x \in Grey \/ x = o
    BY <2>1, <1>n, <1>g
  <2>3. \A x : x \in Grey \/ x = o => x \in Grey'
    BY <2>1, <1>n, <1>g
  <2>4. QED
    BY <2>2, <2>3
<1>6. QED
  BY <1>3, <1>4, <1>5 DEF MarkedNow

\* An empty list of references.
LEMMA NoRefs == Range(<< >>) = {}
BY DEF Range

\* Scanning from a packet p takes one object out of it.
LEMMA ScanFromHands ==
  ASSUME MarkTypes, NEW t \in Thread, NEW p \in Seq(Obj), p # << >>, Once(p), ScanFrom(t, p)
  PROVE  \E o \in Obj :
           /\ Contents(in'[t]) \cup {o} = Range(p) /\ o \notin Contents(in'[t])
           /\ Once(in'[t]) /\ todo'[t] = Refs(o)
<1> DEFINE f == SubSeq(p, 1, Len(p) - 1)
<1>1. f \in Seq(Obj) /\ p[Len(p)] \in Obj /\ Range(p) = Range(f) \cup {p[Len(p)]}
  BY FrontFacts
<1>2. Once(f) /\ p[Len(p)] \notin Range(f)
  BY OnceFront
<1>3. in'[t] = f /\ todo'[t] = Refs(p[Len(p)])
  BY DEF ScanFrom, MarkTypes
<1> HIDE DEF f
<1>4. Contents(f) = Range(f)
  BY <1>1 DEF Contents
<1>5. QED
  BY <1>1, <1>2, <1>3, <1>4

\* A packet holds objects.
LEMMA ContentsType ==
  ASSUME NEW p \in Seq(Obj) \cup {None}
  PROVE  Contents(p) \subseteq Obj
<1>1. CASE p = None
  BY <1>1 DEF Contents
<1>2. CASE p \in Seq(Obj)
  BY <1>2 DEF Contents, Range
<1>3. QED
  BY <1>1, <1>2

\* A packet with one object.
LEMMA SingleFacts ==
  ASSUME NEW o \in Obj
  PROVE  <<o>> \in Seq(Obj) /\ <<o>> # None /\ Range(<<o>>) = {o} /\ Once(<<o>>)
<1>1. <<o>> \in Seq(Obj)
  OBVIOUS
<1>2. DOMAIN <<o>> = {1} /\ <<o>>[1] = o
  OBVIOUS
<1>3. QED
  BY <1>1, <1>2 DEF Range, Once

\* Pushing the pending object keeps it in the hands of the thread.
LEMMA PushHands ==
  ASSUME MarkTypes, WorkStacks, Separate, NEW t \in Thread, pc[t] \in Pushing \ {"put"},
         PushPending(t, << >>), in' = in
  PROVE  Mine(t)' = Mine(t) /\ OwnApart(t)'
<1>1. item[t] \in Obj /\ out' = [out EXCEPT ![t] = <<item[t]>>] /\ item' = [item EXCEPT ![t] = None]
  BY PushPendingTypes DEF PushPending
<1>2. out[t] = None /\ out'[t] = <<item[t]>> /\ item'[t] = None /\ in'[t] = in[t]
  BY <1>1 DEF WorkStacks, WorkStack, MarkTypes
<1>3. Range(<<item[t]>>) = {item[t]} /\ <<item[t]>> # None /\ <<item[t]>> \in Seq(Obj)
  BY <1>1, SingleFacts
<1>4. Contents(out[t]) = {} /\ Contents(out'[t]) = {item[t]}
  BY <1>2, <1>3 DEF Contents
<1>5. Mine(t)' = Mine(t)
  BY <1>1, <1>2, <1>4 DEF Mine
<1>6. Once(out'[t])
  BY <1>1, <1>2, SingleFacts
<1>7. Contents(in[t]) \subseteq Obj
  BY ContentsType DEF MarkTypes
<1>8. OwnApart(t)
  BY DEF Separate
<1>9. OwnApart(t)'
  BY <1>1, <1>2, <1>4, <1>6, <1>7, <1>8 DEF OwnApart
<1>10. QED
  BY <1>5, <1>9

\* No step forgets an object or makes it wait in two places.
LEMMA ObjectsKept ==
  ASSUME MarkTypes, MarkTypes', WorkStacks, FullPackets, ClearedTogether, WorkUnits,
         Tricolour, Separate, Next
  PROVE  Tricolour' /\ Separate'
<1> USE DEF shared, monitor, units, stack
<1> DEFINE Goal == Tricolour' /\ Separate'
<1>0. /\ Slots \in Nat /\ Slots > 0
      /\ \A p \in input : p \in Seq(Obj) /\ p # << >> /\ p # None /\ Once(p)
      /\ \A t \in Thread : out[t] # None => out[t] \in Seq(Obj) /\ out[t] # << >>
      /\ \A t \in Thread : OwnApart(t)
  <2>1. Slots > 0 /\ Slots \in Nat
    BY GraphFacts DEF MarkTypes
  <2>2. \A p \in Seq(Obj) : Len(p) > 0 => p # << >>
    OBVIOUS
  <2>3. \A t \in Thread : out[t] # None => out[t] \in Seq(Obj) /\ Len(out[t]) > 0
    BY <2>1 DEF MarkTypes, WorkStacks, WorkStack
  <2>4. \A p \in input : p \in Seq(Obj) /\ p # << >> /\ p # None
    BY <2>1, <2>2 DEF MarkTypes, FullPackets
  <2>5. QED
    BY <2>1, <2>2, <2>3, <2>4 DEF Separate
<1>a. ASSUME NEW t \in Thread, Untouched(t), OwnApart(t)', ~InClearing, NEW p, NEW o,
             Keep(t) \/ Give(t, p) \/ Take(t, p) \/ Spill(t, p) \/ SpillOwn(t, o) \/ Fresh(t, o),
             Passed \/ MarkedNow(o) \/ ScannedNow(o)
      PROVE  Goal
  <2>1. Separate'
    BY <1>a, SeparateStep
  <2>2. Tricolour'
    BY <1>a, TricolourStep DEF Untouched
  <2>3. QED
    BY <2>1, <2>2
<1>b. ASSUME NEW t \in Thread, Untouched(t), ~InClearing, input' = input, over' = over, marked' = marked,
             UNCHANGED <<in, out, item, todo>>
      PROVE  Goal
  <2>1. OwnApart(t)' /\ Mine(t)' = Mine(t)
    BY <1>0, <1>b DEF OwnApart, Mine, Once, Contents
  <2>2. Keep(t)
    BY <1>b, <2>1 DEF Keep
  <2>3. Passed \/ ScannedNow(None)
    BY <1>b, <2>1, GreyStep
  <2>4. QED
    BY <1>a, <1>b, <2>1, <2>2, <2>3
<1>1. ASSUME NEW t \in Thread, markObject(t), Untouched(t), ~InClearing
      PROVE  Goal
  <2> DEFINE o == Head(todo[t])
  <2>1. /\ o \in Obj /\ o # None
        /\ Range(todo[t]) = {o} \cup Range(Tail(todo[t]))
        /\ todo'[t] = Tail(todo[t])
    BY <1>1, TailFacts DEF markObject, MarkTypes
  <2>2. /\ pc[t] = "mark" /\ item[t] = None /\ in'[t] = in[t]
        /\ input' = input /\ over' = over /\ marked' = marked \cup {o}
    BY <1>1 DEF markObject, WorkStacks, WorkStack, Pushing
  <2> HIDE DEF o
  <2>3. CASE o \in marked /\ UNCHANGED <<out, item>>
    <3>1. OwnApart(t)' /\ Mine(t)' = Mine(t)
      BY <1>0, <2>2, <2>3 DEF OwnApart, Mine
    <3>2. Keep(t)
      BY <2>2, <3>1 DEF Keep
    <3>3. MarkedNow(o)
      BY <1>1, <2>1, <2>2, <2>3, <3>1, MarkStep
    <3>4. QED
      BY <1>a, <1>1, <3>1, <3>2, <3>3
  <2>4. ASSUME o \notin marked
        PROVE  o \notin Grey /\ o \notin Mine(t)
    <3>1. o \notin Grey
      BY <1>1, <2>4 DEF Tricolour
    <3>2. QED
      BY <3>1, GreyViewHolds DEF GreyView
  <2>5. ASSUME o \notin marked, Mine(t)' = Mine(t) \cup {o}, OwnApart(t)'
        PROVE  Goal
    <3>1. Fresh(t, o)
      BY <2>2, <2>4, <2>5 DEF Fresh
    <3>2. MarkedNow(o)
      BY <1>1, <2>1, <2>2, <2>5, MarkStep
    <3>3. QED
      BY <1>a, <1>1, <2>5, <3>1, <3>2
  <2>6. CASE /\ o \notin marked /\ HasRoom(out[t])
             /\ out' = [out EXCEPT ![t] = Append(@, o)] /\ item' = item
    <3>1. out[t] \in Seq(Obj) /\ out'[t] = Append(out[t], o) /\ out[t] # None
      BY <2>6, <1>0 DEF HasRoom, MarkTypes
    <3>2. o \notin Contents(in[t]) /\ o \notin Range(out[t])
      BY <2>4, <2>6, <3>1 DEF Mine, Contents
    <3>3. /\ Append(out[t], o) \in Seq(Obj)
          /\ Range(Append(out[t], o)) = Range(out[t]) \cup {o}
          /\ Append(out[t], o) # None
      BY <2>1, <3>1, AppendFacts
    <3>4. Once(Append(out[t], o))
      BY <1>0, <2>1, <3>1, <3>2, OnceAppend DEF OwnApart
    <3>5. Contents(out'[t]) = Contents(out[t]) \cup {o}
      BY <3>1, <3>3 DEF Contents
    <3>6. Mine(t)' = Mine(t) \cup {o}
      BY <2>2, <2>6, <3>5 DEF Mine
    <3>7. OwnApart(t)'
      <4>1. Contents(in[t]) \subseteq Obj /\ None \notin Obj
        BY ContentsType DEF MarkTypes
      <4>2. Once(in'[t]) /\ Once(out'[t])
        BY <1>0, <2>2, <3>1, <3>4 DEF OwnApart
      <4>3. Contents(in'[t]) \cap Contents(out'[t]) = {}
        BY <1>0, <2>2, <3>2, <3>5 DEF OwnApart
      <4>4. item'[t] \notin Contents(in'[t]) \cup Contents(out'[t])
        BY <1>0, <2>1, <2>2, <2>6, <3>5 DEF OwnApart
      <4>5. QED
        BY <4>2, <4>3, <4>4 DEF OwnApart
    <3>8. QED
      BY <2>5, <2>6, <3>6, <3>7
  <2>7. CASE o \notin marked /\ item' = [item EXCEPT ![t] = o] /\ out' = out
    <3>1. item'[t] = o /\ out'[t] = out[t]
      BY <2>7 DEF MarkTypes
    <3>2. Mine(t)' = Mine(t) \cup {o}
      BY <2>1, <2>2, <3>1 DEF Mine
    <3>3. OwnApart(t)'
      BY <1>0, <2>2, <2>4, <2>7, <3>1 DEF OwnApart, Mine
    <3>4. QED
      BY <2>5, <2>7, <3>2, <3>3
  <2>8. QED
    BY <1>1, <2>3, <2>6, <2>7 DEF markObject, inlineMarkObject, o
<1>2. ASSUME NEW t \in Thread, putOutputPacket(t), Untouched(t), ~InClearing
      PROVE  Goal
  <2> DEFINE p == out[t]
  <2>1. p # None /\ p # << >> /\ p \in Seq(Obj)
    BY <1>2, <1>0 DEF putOutputPacket, WorkStacks, WorkStack
  <2>2. /\ input' = input \cup {p} /\ out'[t] = None
        /\ in'[t] = in[t] /\ item'[t] = item[t] /\ todo'[t] = todo[t]
        /\ over' = over /\ marked' = marked
    BY <1>2, <2>1 DEF putOutputPacket, putPacket, MarkTypes
  <2>3. Contents(out[t]) = Range(p) /\ Contents(out'[t]) = {}
    BY <2>1, <2>2 DEF Contents
  <2>4. OwnApart(t)' /\ Once(p)
    BY <1>0, <2>2, <2>3 DEF OwnApart, Once
  <2>5. Give(t, p)
    BY <1>0, <2>2, <2>3, <2>4 DEF Give, Mine, OwnApart
  <2>6. Passed \/ ScannedNow(None)
    BY <1>2, <2>2, <2>5, GreyStep
  <2>7. QED
    BY <1>a, <1>2, <2>4, <2>5, <2>6
\* The pending object is pushed to an empty packet.
<1>3. ASSUME NEW t \in Thread, pc[t] \in Pushing \ {"put"}, PushPending(t, << >>), Untouched(t), ~InClearing,
             UNCHANGED <<marked, over, input, in, todo>>
      PROVE  Goal
  <2>1. Mine(t)' = Mine(t) /\ OwnApart(t)'
    BY <1>3, PushHands
  <2>2. Keep(t)
    BY <1>3, <2>1 DEF Keep
  <2>3. Passed \/ ScannedNow(None)
    BY <1>3, <2>1, GreyStep
  <2>4. QED
    BY <1>a, <1>3, <2>1, <2>2, <2>3
<1>4. ASSUME NEW t \in Thread, getOutputPacket(t) \/ getPacketByAdddingWorkPacketBlock(t), Untouched(t), ~InClearing
      PROVE  Goal
  <2>1. UNCHANGED <<marked, over, input, in, todo>> /\ pc[t] \in Pushing \ {"put"}
    BY <1>4 DEF getOutputPacket, getPacketByAdddingWorkPacketBlock, Pushing
  <2>2. PushPending(t, << >>) \/ UNCHANGED <<out, item>>
    BY <1>4 DEF getOutputPacket, getPacketByAdddingWorkPacketBlock, TakeEmpty, NoPacket
  <2>3. QED
    BY <1>3, <1>4, <1>b, <2>1, <2>2
<1>5. ASSUME NEW t \in Thread, getPacketByOverflowing(t), Untouched(t), ~InClearing
      PROVE  Goal
  <2>1. UNCHANGED <<marked, in, todo>> /\ pc[t] \in Pushing \ {"put"}
    BY <1>5 DEF getPacketByOverflowing, Pushing
  <2>2. CASE UNCHANGED <<over, input, out, item>>
    BY <1>5, <1>b, <2>1, <2>2
  <2>3. ASSUME NEW p \in input, over' = over \cup Range(p), input' = input \ {p}, PushPending(t, << >>)
        PROVE  Goal
    <3>1. Mine(t)' = Mine(t) /\ OwnApart(t)'
      BY <2>1, <2>3, PushHands
    <3>2. Spill(t, p)
      BY <2>3, <3>1 DEF Spill
    <3>3. todo'[t] = todo[t] /\ marked' = marked
      BY <2>1
    <3>4. Passed \/ ScannedNow(None)
      BY <1>5, <3>2, <3>3, GreyStep
    <3>5. QED
      BY <1>a, <1>5, <3>1, <3>2, <3>4
  <2>4. QED
    BY <1>5, <2>2, <2>3 DEF getPacketByOverflowing, emptyToOverflow
<1>6. ASSUME NEW t \in Thread, overflowItem(t), Untouched(t), ~InClearing
      PROVE  Goal
  <2>1. UNCHANGED <<marked, input, in, todo>> /\ pc[t] \in Pushing \ {"put"}
    BY <1>6 DEF overflowItem, Pushing
  <2>2. CASE PushPending(t, << >>) /\ over' = over
    BY <1>3, <1>6, <2>1, <2>2
  <2>3. CASE over' = over \cup {item[t]} /\ item' = [item EXCEPT ![t] = None] /\ out' = out
    <3>1. item'[t] = None /\ item[t] \in Obj /\ item[t] # None
      BY <2>1, <2>3 DEF MarkTypes, WorkStacks, WorkStack
    <3>2. Contents(in[t]) \subseteq Obj /\ Contents(out[t]) \subseteq Obj
      BY ContentsType DEF MarkTypes
    <3>3. OwnApart(t)'
      BY <1>0, <2>1, <2>3, <3>1, <3>2 DEF OwnApart
    <3>4. SpillOwn(t, item[t])
      BY <1>0, <2>1, <2>3, <3>1 DEF SpillOwn, Mine, OwnApart
    <3>5. Passed \/ ScannedNow(item[t])
      BY <1>6, <2>1, <3>4, GreyStep
    <3>6. QED
      BY <1>a, <1>6, <3>3, <3>4, <3>5
  <2>4. QED
    BY <1>6, <2>2, <2>3 DEF overflowItem, TakeEmpty, emptyToOverflow
<1>7. ASSUME NEW t \in Thread, pop(t), Untouched(t), ~InClearing
      PROVE  Goal
  <2>1. in[t] \in Seq(Obj) /\ in[t] # << >> /\ in[t] # None /\ todo[t] = << >> /\ ScanFrom(t, in[t])
    BY <1>7 DEF pop, Scanned, UsedUp, MarkTypes
  <2>2. PICK o \in Obj : /\ Contents(in'[t]) \cup {o} = Range(in[t]) /\ o \notin Contents(in'[t])
                         /\ Once(in'[t]) /\ todo'[t] = Refs(o)
    BY <1>0, <2>1, ScanFromHands DEF OwnApart
  <2>3. UNCHANGED <<input, over, marked, out, item>> /\ Contents(in[t]) = Range(in[t])
    BY <1>7, <2>1 DEF pop, Contents
  <2>4. Mine(t) = Mine(t)' \cup {o}
    BY <2>2, <2>3 DEF Mine
  <2>5. OwnApart(t)'
    BY <1>0, <2>2, <2>3 DEF OwnApart
  <2>6. Range(todo'[t]) = Range(todo[t]) \cup Range(Refs(o))
    BY <2>1, <2>2, NoRefs
  <2>7. Keep(t)
    BY <2>3, <2>4 DEF Keep
  <2>8. Passed \/ ScannedNow(o)
    BY <1>7, <2>3, <2>4, <2>6, GreyStep
  <2>9. QED
    BY <1>a, <1>7, <2>5, <2>7, <2>8
<1>8. ASSUME NEW t \in Thread, popFailed(t), Untouched(t), ~InClearing
      PROVE  Goal
  <2>1. UsedUp(in[t]) /\ in'[t] = None /\ UNCHANGED <<marked, over, out, item, todo>>
    BY <1>8 DEF popFailed, MarkTypes
  <2>2. input' = input
    BY <1>8 DEF popFailed, UsedUp, putPacket
  <2>3. Contents(in[t]) = {} /\ Contents(in'[t]) = {}
    BY <2>1, NoRefs DEF Contents, UsedUp
  <2>4. Mine(t)' = Mine(t)
    BY <2>1, <2>3 DEF Mine
  <2>5. OwnApart(t)'
    BY <1>0, <2>1, <2>3 DEF OwnApart, Once
  <2>6. Keep(t) /\ (Passed \/ ScannedNow(None))
    BY <1>8, <2>1, <2>2, <2>4, GreyStep DEF Keep
  <2>7. QED
    BY <1>a, <1>8, <2>5, <2>6
<1>9. ASSUME NEW t \in Thread, getInputPacketNoWait(t), Untouched(t), ~InClearing
      PROVE  Goal
  <2>1. PICK p \in input : input' = input \ {p} /\ ScanFrom(t, p)
    BY <1>9 DEF getInputPacketNoWait
  <2>2. PICK o \in Obj : /\ Contents(in'[t]) \cup {o} = Range(p) /\ o \notin Contents(in'[t])
                         /\ Once(in'[t]) /\ todo'[t] = Refs(o)
    BY <1>0, <2>1, ScanFromHands
  <2>3. UNCHANGED <<over, marked, out, item>> /\ pc[t] \in {"noWait", "try"}
    BY <1>9 DEF getInputPacketNoWait
  <2>4. in[t] = None /\ todo[t] = << >> /\ Contents(in[t]) = {}
    BY <2>3 DEF WorkStacks, WorkStack, Resting, Asking, Contents
  <2>5. Mine(t)' \cup {o} = Mine(t) \cup Range(p)
    BY <2>2, <2>3, <2>4 DEF Mine
  <2>6. Range(p) \cap Mine(t) = {}
    BY DEF Separate
  <2>7. OwnApart(t)'
    <3>1. Contents(in'[t]) \cap Contents(out[t]) = {}
      BY <2>2, <2>6 DEF Mine
    <3>2. item[t] \notin Contents(in'[t])
      <4>1. Contents(in'[t]) \subseteq Obj
        BY ContentsType DEF MarkTypes
      <4>2. QED
        BY <2>2, <2>6, <4>1 DEF Mine
    <3>3. QED
      BY <1>0, <2>2, <2>3, <3>1, <3>2 DEF OwnApart
  <2>8. Range(todo'[t]) = Range(todo[t]) \cup Range(Refs(o)) /\ o \in Range(p)
    BY <2>2, <2>4, NoRefs
  <2>9. Take(t, p)
    BY <2>1, <2>3, <2>5 DEF Take
  <2>10. Passed \/ ScannedNow(o)
    BY <1>9, <2>1, <2>3, <2>5, <2>8, GreyStep
  <2>11. QED
    BY <1>a, <1>9, <2>7, <2>9, <2>10
<1>10. ASSUME NEW t \in Thread, popFailedEmpty(t), Untouched(t), ~InClearing
       PROVE  Goal
  <2>1. CASE ~SwapPackets(t)
    BY <1>10, <1>b, <2>1 DEF popFailedEmpty
  <2>2. CASE SwapPackets(t)
    <3>1. out[t] \in Seq(Obj) /\ out[t] # << >> /\ out[t] # None /\ ScanFrom(t, out[t])
      BY <1>0, <1>10, <2>2 DEF SwapPackets, UsedUp, popFailedEmpty
    <3>2. PICK o \in Obj : /\ Contents(in'[t]) \cup {o} = Range(out[t]) /\ o \notin Contents(in'[t])
                           /\ Once(in'[t]) /\ todo'[t] = Refs(o)
      BY <1>0, <3>1, ScanFromHands DEF OwnApart
    <3>3. UNCHANGED <<input, over, marked, item>> /\ pc[t] = "noWait" /\ out'[t] = None
      BY <1>10, <2>2 DEF popFailedEmpty, MarkTypes
    <3>4. in[t] = None /\ todo[t] = << >> /\ Contents(in[t]) = {}
      BY <3>3 DEF WorkStacks, WorkStack, Contents
    <3>5. Contents(out[t]) = Range(out[t]) /\ Contents(out'[t]) = {}
      BY <3>1, <3>3 DEF Contents
    <3>6. Mine(t) = Mine(t)' \cup {o}
      BY <3>2, <3>3, <3>4, <3>5 DEF Mine
    <3>7. OwnApart(t)'
      BY <1>0, <3>2, <3>3, <3>5 DEF OwnApart, Once
    <3>8. Range(todo'[t]) = Range(todo[t]) \cup Range(Refs(o))
      BY <3>2, <3>4, NoRefs
    <3>9. Keep(t)
      BY <3>3, <3>6 DEF Keep
    <3>10. Passed \/ ScannedNow(o)
      BY <1>10, <3>3, <3>6, <3>8, GreyStep
    <3>11. QED
      BY <1>a, <1>10, <3>7, <3>9, <3>10
  <2>3. QED
    BY <2>1, <2>2
<1>11. ASSUME NEW t \in Thread, Untouched(t), ~InClearing,
              AlertWaiting(t) \/ NotifyMore(t) \/ MonitorEnter(t) \/ getInputPacket(t)
                \/ MonitorReenter(t) \/ getInputPacketAgain(t)
       PROVE  Goal
  BY <1>11, <1>b DEF AlertWaiting, NotifyMore, MonitorEnter, getInputPacket, MonitorReenter,
    getInputPacketAgain
<1>12. ASSUME NEW t \in Thread, Untouched(t), ~InClearing, completeScan(t)
       PROVE  Goal
  BY <1>12, <1>b, CompleteScanEffect
<1>13. ASSUME ScanOverflowed, ~InClearing
       PROVE  Goal
  <2>1. PICK o \in Overflowed : over' = over \ {o} /\ todo' = [todo EXCEPT ![Master] = Refs(o)]
    BY <1>13 DEF ScanOverflowed
  <2>2. UNCHANGED <<graph, marked, input, in, out, item>> /\ todo[Master] = << >>
    BY <1>13 DEF ScanOverflowed
  <2>3. Untouched(Master) /\ todo'[Master] = Refs(o)
    BY <2>1, <2>2 DEF Untouched, MarkTypes
  <2>4. OwnApart(Master)' /\ Mine(Master)' = Mine(Master)
    BY <1>0, <2>2 DEF OwnApart, Mine, Once, Contents
  <2>5. Keep(Master) /\ o \in over
    BY <2>1, <2>2, <2>4 DEF Keep, Overflowed
  <2>6. Range(todo'[Master]) = Range(todo[Master]) \cup Range(Refs(o))
    BY <2>2, <2>3, NoRefs
  <2>7. Passed \/ ScannedNow(o)
    BY <2>1, <2>2, <2>3, <2>4, <2>5, <2>6, GreyStep
  <2>8. QED
    BY <1>a, <1>13, <2>3, <2>4, <2>5, <2>7
<1>14. ASSUME handleOverflow \/ releaseSynchronizedGCThreads, ~InClearing
       PROVE  Goal
  <2>1. UNCHANGED <<graph, marked, over, input, in, out, item, todo>>
    BY <1>14 DEF handleOverflow, releaseSynchronizedGCThreads
  <2>2. Untouched(Master)
    BY <2>1 DEF Untouched
  <2>3. QED
    BY <1>14, <1>b, <2>1, <2>2
\* While the mark map is cleared nothing waits anywhere.
<1>15. ASSUME NEW t \in Thread, initializeMarkMap(t) \/ markLiveObjectsInit(t)
       PROVE  Goal
  <2>1. (\A u \in Thread : pc[u] \in Clearing) /\ InClearing
    BY <1>15, ClearingMoves DEF InClearing
  <2>2. input = {} /\ over = {}
    BY <2>1 DEF ClearedTogether
  <2>3. \A u \in Thread : in[u] = None /\ out[u] = None /\ item[u] = None /\ todo[u] = << >>
    BY <2>1 DEF WorkStacks, WorkStack, Resting, Clearing, Pushing
  <2>4. input' = {} /\ over' = {} /\ UNCHANGED <<graph, in, out, item>>
    BY <1>15, <2>2 DEF initializeMarkMap, markLiveObjectsInit
  <2>5. \A u \in Thread : Mine(u)' = {} /\ OwnApart(u)'
    BY <2>3, <2>4 DEF Mine, OwnApart, Contents, Once
  <2>6. Separate'
    BY <2>4, <2>5 DEF Separate
  <2>7. CASE InClearing'
    BY <2>6, <2>7 DEF Tricolour
  <2>8. CASE ~InClearing'
    <3>1. markLiveObjectsInit(t) /\ (\A u \in Thread \ {t} : pc[u] = "cleared")
      BY <1>15, <2>1, <2>8 DEF initializeMarkMap, markLiveObjectsInit, Goto, InClearing, Clearing, MarkTypes
    <3>2. /\ \A u \in Thread : todo'[u] = graph.roots
          /\ marked' = marked /\ unit[t] = ObjCount
      BY <3>1 DEF markLiveObjectsInit
    <3>3. \A u \in Thread : unit[u] = ObjCount
      BY <2>1, <3>1, <3>2 DEF WorkUnits
    <3>4. marked' = {}
      BY <2>1, <3>2, <3>3, NoMarkLeft
    <3>5. GreyView'
      BY GreyViewHolds, PTL
    <3>6. Grey' = {}
      BY <2>4, <2>5, <3>5 DEF GreyView
    <3>7. Pending' = Range(graph.roots)
      BY <3>2, <3>5 DEF GreyView
    <3>8. Reachable' = Reachable /\ graph' = graph
      BY <2>4 DEF Reachable, Refs
    <3>9. Range(graph.roots) \subseteq Reachable
      BY ReachableLeast DEF MarkTypes
    <3>10. QED
      BY <2>6, <3>4, <3>6, <3>7, <3>8, <3>9 DEF Tricolour
  <2>9. QED
    BY <2>7, <2>8
<1>16. QED
  <2>1. ASSUME NEW t \in Thread, Step(t), ~initializeMarkMap(t), ~markLiveObjectsInit(t)
        PROVE  Goal
    <3>1. pc[t] # "clear"
      BY <2>1, StepLater
    <3>2. Untouched(t) /\ pc[t] \notin Clearing
      BY <2>1, <3>1, StepLocal
    <3>3. ~InClearing
      BY <3>2 DEF ClearedTogether, InClearing
    <3> HIDE DEF Goal
    <3>4. QED
      BY <2>1, <3>2, <3>3, <1>1, <1>2, <1>4, <1>5, <1>6, <1>7, <1>8, <1>9, <1>10, <1>11, <1>12
        DEF Step
  <2>2. ASSUME MasterStep
        PROVE  Goal
    <3>1. ~InClearing
      BY <2>2 DEF MasterStep, handleOverflow, ScanOverflowed, releaseSynchronizedGCThreads,
        ClearedTogether, InClearing, Clearing
    <3>2. QED
      BY <2>2, <3>1, <1>13, <1>14 DEF MasterStep
  <2>3. QED
    BY <2>1, <2>2, <1>15 DEF Next

-----------------------------------------------------------------------------
(***************************************************************************)
(* Packets.                                                                *)
(***************************************************************************)
\* Counting a set that gains or loses an element.
LEMMA CountFacts ==
  ASSUME NEW S, IsFiniteSet(S), NEW x
  PROVE  /\ Cardinality(S) \in Nat
         /\ IsFiniteSet(S \cup {x}) /\ IsFiniteSet(S \ {x})
         /\ x \notin S => Cardinality(S \cup {x}) = Cardinality(S) + 1
         /\ x \in S => Cardinality(S \ {x}) = Cardinality(S) - 1 /\ Cardinality(S) > 0
<1>1. /\ Cardinality(S) \in Nat
      /\ IsFiniteSet(S \cup {x}) /\ IsFiniteSet(S \ {x})
      /\ x \notin S => Cardinality(S \cup {x}) = Cardinality(S) + 1
      /\ x \in S => Cardinality(S \ {x}) = Cardinality(S) - 1
  BY FS_CardinalityType, FS_AddElement, FS_RemoveElement
<1>2. Cardinality(S \ {x}) \in Nat
  BY <1>1, FS_CardinalityType
<1>3. QED
  BY <1>1, <1>2

\* The holders of packets are threads.
LEMMA HoldersFinite ==
  /\ IsFiniteSet(Inputs) /\ IsFiniteSet(Outputs)
  /\ Cardinality(Inputs) \in Nat /\ Cardinality(Outputs) \in Nat
<1>1. Inputs \subseteq Thread /\ Outputs \subseteq Thread
  BY DEF Inputs, Outputs
<1>2. QED
  BY <1>1, FS_Subset, FS_CardinalityType

\* No packet is lost and none is counted twice.
LEMMA CountedKept ==
  ASSUME MarkTypes, MarkTypes', WorkStacks, FullPackets, ClearedTogether, Separate, Counted, Next
  PROVE  Counted'
<1> USE DEF shared, monitor, units, stack
<1> DEFINE I == Cardinality(Inputs)
           O == Cardinality(Outputs)
           L == Cardinality(input)
<1>0. /\ IsFiniteSet(input) /\ IsFiniteSet(Inputs) /\ IsFiniteSet(Outputs)
      /\ I \in Nat /\ O \in Nat /\ L \in Nat /\ empty \in Nat /\ active \in Nat
      /\ empty + L + I + O = active
  BY HoldersFinite, FS_CardinalityType DEF Counted, MarkTypes
<1>s. /\ Slots \in Nat /\ Slots > 0
      /\ None \notin Seq(Obj)
  BY GraphFacts DEF MarkTypes
<1>a. ASSUME UNCHANGED <<empty, input, active>>,
             \A u \in Thread : (in'[u] # None <=> in[u] # None) /\ (out'[u] # None <=> out[u] # None)
      PROVE  Counted'
  <2>1. Inputs' = Inputs /\ Outputs' = Outputs
    BY <1>a DEF Inputs, Outputs
  <2>2. QED
    BY <1>a, <2>1 DEF Counted
\* What a change of t's packets does to the holders.
<1>i. ASSUME NEW t \in Thread, Untouched(t)
      PROVE  /\ in[t] = None /\ in'[t] # None => Inputs' = Inputs \cup {t} /\ Cardinality(Inputs') = I + 1
             /\ in[t] # None /\ in'[t] = None => Inputs' = Inputs \ {t} /\ Cardinality(Inputs') = I - 1
             /\ (in[t] = None <=> in'[t] = None) => Inputs' = Inputs
  <2>1. \A u \in Thread \ {t} : u \in Inputs' <=> u \in Inputs
    BY <1>i DEF Untouched, Inputs
  <2>2. (t \in Inputs <=> in[t] # None) /\ (t \in Inputs' <=> in'[t] # None)
    BY DEF Inputs
  <2>3. Inputs \subseteq Thread /\ Inputs' \subseteq Thread
    BY DEF Inputs
  <2>4. /\ in[t] = None /\ in'[t] # None => Inputs' = Inputs \cup {t}
        /\ in[t] # None /\ in'[t] = None => Inputs' = Inputs \ {t}
        /\ (in[t] = None <=> in'[t] = None) => Inputs' = Inputs
    <3>1. ASSUME in[t] = None, in'[t] # None
          PROVE  Inputs' = Inputs \cup {t}
      BY <2>1, <2>2, <2>3, <3>1
    <3>2. ASSUME in[t] # None, in'[t] = None
          PROVE  Inputs' = Inputs \ {t}
      BY <2>1, <2>2, <2>3, <3>2
    <3>3. ASSUME in[t] = None <=> in'[t] = None
          PROVE  Inputs' = Inputs
      <4>1. \A u \in Thread : u \in Inputs' <=> u \in Inputs
        BY <2>1, <2>2, <3>3, Zenon
      <4>2. QED
        BY <2>3, <4>1
    <3>4. QED
      BY <3>1, <3>2, <3>3
  <2>5. /\ t \notin Inputs => Cardinality(Inputs \cup {t}) = I + 1
        /\ t \in Inputs => Cardinality(Inputs \ {t}) = I - 1
    BY <1>0, CountFacts
  <2> HIDE DEF I
  <2>6. QED
    BY <2>2, <2>4, <2>5
<1>o. ASSUME NEW t \in Thread, Untouched(t)
      PROVE  /\ out[t] = None /\ out'[t] # None => Outputs' = Outputs \cup {t} /\ Cardinality(Outputs') = O + 1
             /\ out[t] # None /\ out'[t] = None => Outputs' = Outputs \ {t} /\ Cardinality(Outputs') = O - 1
             /\ (out[t] = None <=> out'[t] = None) => Outputs' = Outputs
  <2>1. \A u \in Thread \ {t} : u \in Outputs' <=> u \in Outputs
    BY <1>o DEF Untouched, Outputs
  <2>2. (t \in Outputs <=> out[t] # None) /\ (t \in Outputs' <=> out'[t] # None)
    BY DEF Outputs
  <2>3. Outputs \subseteq Thread /\ Outputs' \subseteq Thread
    BY DEF Outputs
  <2>4. /\ out[t] = None /\ out'[t] # None => Outputs' = Outputs \cup {t}
        /\ out[t] # None /\ out'[t] = None => Outputs' = Outputs \ {t}
        /\ (out[t] = None <=> out'[t] = None) => Outputs' = Outputs
    <3>1. ASSUME out[t] = None, out'[t] # None
          PROVE  Outputs' = Outputs \cup {t}
      BY <2>1, <2>2, <2>3, <3>1
    <3>2. ASSUME out[t] # None, out'[t] = None
          PROVE  Outputs' = Outputs \ {t}
      BY <2>1, <2>2, <2>3, <3>2
    <3>3. ASSUME out[t] = None <=> out'[t] = None
          PROVE  Outputs' = Outputs
      <4>1. \A u \in Thread : u \in Outputs' <=> u \in Outputs
        BY <2>1, <2>2, <3>3, Zenon
      <4>2. QED
        BY <2>3, <4>1
    <3>4. QED
      BY <3>1, <3>2, <3>3
  <2>5. /\ t \notin Outputs => Cardinality(Outputs \cup {t}) = O + 1
        /\ t \in Outputs => Cardinality(Outputs \ {t}) = O - 1
    BY <1>0, CountFacts
  <2> HIDE DEF O
  <2>6. QED
    BY <2>2, <2>4, <2>5
<1>t. ASSUME NEW p \in input, input' = input \ {p}
      PROVE  IsFiniteSet(input') /\ Cardinality(input') = L - 1
  BY <1>0, <1>t, CountFacts
<1>p. ASSUME NEW t \in Thread, Untouched(t), pc[t] \in Pushing \ {"put"}, PushPending(t, << >>), in' = in
      PROVE  Inputs' = Inputs /\ Cardinality(Outputs') = O + 1
  <2>1. item[t] \in Obj /\ out' = [out EXCEPT ![t] = <<item[t]>>]
    BY <1>p, PushPendingTypes
  <2>2. out[t] = None /\ out'[t] = <<item[t]>> /\ <<item[t]>> # None
    BY <1>p, <2>1, SingleFacts DEF WorkStacks, WorkStack, MarkTypes
  <2>3. Inputs' = Inputs
    BY <1>p DEF Inputs
  <2>4. QED
    BY <1>o, <1>p, <2>2, <2>3
<1>1. ASSUME NEW t \in Thread, markObject(t), Untouched(t)
      PROVE  Counted'
  <2>1. out[t] # None <=> out'[t] # None
    <3>1. CASE out' = out
      BY <3>1
    <3>2. CASE HasRoom(out[t]) /\ out' = [out EXCEPT ![t] = Append(@, Head(todo[t]))]
      <4>1. out[t] # None /\ out[t] \in Seq(Obj) /\ Head(todo[t]) \in Obj
        BY <1>1, <3>2, TailFacts DEF HasRoom, MarkTypes, markObject
      <4>2. Append(out[t], Head(todo[t])) \in Seq(Obj)
        BY <4>1
      <4>3. out'[t] = Append(out[t], Head(todo[t]))
        BY <3>2 DEF MarkTypes
      <4>4. QED
        BY <4>1, <4>2, <4>3, <1>s
    <3>3. QED
      BY <1>1, <3>1, <3>2 DEF markObject
  <2>2. QED
    BY <1>1, <1>a, <2>1 DEF markObject, Untouched
<1>2. ASSUME NEW t \in Thread, putOutputPacket(t), Untouched(t)
      PROVE  Counted'
  <2>1. out[t] # None /\ Len(out[t]) = Slots /\ out[t] \in Seq(Obj)
    BY <1>2 DEF putOutputPacket, WorkStacks, WorkStack, MarkTypes
  <2>2. out[t] # << >> /\ DOMAIN out[t] = 1 .. Len(out[t]) /\ 1 \in 1 .. Len(out[t])
    BY <2>1, <1>s
  <2>3. /\ empty' = empty /\ input' = input \cup {out[t]} /\ out'[t] = None
        /\ in' = in /\ active' = active
    BY <1>2, <2>2 DEF putOutputPacket, putPacket, MarkTypes
  <2>4. out[t] \notin input
    <3>1. SUFFICES ASSUME out[t] \in input
                   PROVE  FALSE
      OBVIOUS
    <3>2. out[t][1] \in Range(out[t]) /\ out[t][1] \in Mine(t)
      BY <2>1, <2>2 DEF Range, Mine, Contents
    <3>3. QED
      BY <3>1, <3>2 DEF Separate
  <2>5. IsFiniteSet(input') /\ Cardinality(input') = L + 1
    BY <1>0, <2>3, <2>4, CountFacts
  <2>6. Inputs' = Inputs
    BY <2>3 DEF Inputs
  <2>7. Cardinality(Outputs') = O - 1
    BY <1>2, <1>o, <2>1, <2>3
  <2>8. QED
    BY <1>0, <2>3, <2>5, <2>6, <2>7 DEF Counted
<1>3. ASSUME NEW t \in Thread, pc[t] \in Pushing \ {"put"}, TakeEmpty(t), Untouched(t),
             UNCHANGED <<input, in, active>>
      PROVE  Counted'
  <2>1. empty' = empty - 1 /\ Inputs' = Inputs /\ Cardinality(Outputs') = O + 1
    BY <1>3, <1>p DEF TakeEmpty
  <2>2. QED
    BY <1>0, <1>3, <2>1 DEF Counted
<1>4. ASSUME NEW t \in Thread, getOutputPacket(t), Untouched(t)
      PROVE  Counted'
  BY <1>3, <1>4, <1>a DEF getOutputPacket, NoPacket, Pushing
<1>5. ASSUME NEW t \in Thread, getPacketByAdddingWorkPacketBlock(t), Untouched(t)
      PROVE  Counted'
  <2>1. pc[t] \in Pushing \ {"put"} /\ UNCHANGED <<input, in>>
    BY <1>5 DEF getPacketByAdddingWorkPacketBlock, Pushing
  <2>2. CASE TakeEmpty(t) /\ active' = active
    BY <1>3, <1>5, <2>1, <2>2
  <2>3. CASE NoPacket(t, "overflow") /\ active' = active
    BY <1>a, <2>1, <2>3 DEF NoPacket
  <2>4. CASE /\ empty = 0 /\ active' = active + BlockSize /\ empty' = BlockSize - 1
             /\ PushPending(t, << >>)
    <3>1. Inputs' = Inputs /\ Cardinality(Outputs') = O + 1
      BY <1>5, <1>p, <2>1, <2>4
    <3>2. QED
      BY <1>0, <2>1, <2>4, <3>1 DEF Counted
  <2>5. QED
    BY <1>5, <2>2, <2>3, <2>4 DEF getPacketByAdddingWorkPacketBlock
<1>6. ASSUME NEW t \in Thread, getPacketByOverflowing(t), Untouched(t)
      PROVE  Counted'
  <2>1. pc[t] \in Pushing \ {"put"} /\ UNCHANGED <<empty, active, in>>
    BY <1>6 DEF getPacketByOverflowing, Pushing
  <2>2. CASE UNCHANGED <<over, overflow, input, out, item>>
    BY <1>a, <2>1, <2>2
  <2>3. ASSUME NEW p \in input, input' = input \ {p}, PushPending(t, << >>)
        PROVE  Counted'
    <3>1. Inputs' = Inputs /\ Cardinality(Outputs') = O + 1
      BY <1>6, <1>p, <2>1, <2>3
    <3>2. IsFiniteSet(input') /\ Cardinality(input') = L - 1
      BY <1>t, <2>3
    <3>3. QED
      BY <1>0, <2>1, <3>1, <3>2 DEF Counted
  <2>4. QED
    BY <1>6, <2>2, <2>3 DEF getPacketByOverflowing
<1>7. ASSUME NEW t \in Thread, overflowItem(t), Untouched(t)
      PROVE  Counted'
  BY <1>3, <1>7, <1>a DEF overflowItem, Pushing
<1>8. ASSUME NEW t \in Thread, pop(t), Untouched(t)
      PROVE  Counted'
  <2>1. in[t] \in Seq(Obj) /\ in[t] # << >> /\ UNCHANGED <<empty, input, active, out>>
    BY <1>8 DEF pop, UsedUp, MarkTypes
  <2>2. SubSeq(in[t], 1, Len(in[t]) - 1) \in Seq(Obj)
    BY <2>1, FrontFacts
  <2>3. in'[t] # None /\ in[t] # None
    BY <1>8, <1>s, <2>1, <2>2 DEF pop, ScanFrom, MarkTypes
  <2>4. QED
    BY <1>8, <1>a, <2>1, <2>3 DEF Untouched
<1>9. ASSUME NEW t \in Thread, popFailed(t), Untouched(t)
      PROVE  Counted'
  <2>1. in'[t] = None /\ UNCHANGED <<out, active>> /\ UsedUp(in[t])
    BY <1>9 DEF popFailed, MarkTypes
  <2>2. Outputs' = Outputs
    BY <2>1 DEF Outputs
  <2>3. CASE in[t] = None
    BY <1>9, <1>a, <2>1, <2>3 DEF popFailed, Untouched
  <2>4. CASE in[t] # None
    <3>1. empty' = empty + 1 /\ input' = input
      BY <1>9, <2>1, <2>4 DEF popFailed, putPacket, UsedUp
    <3>2. Cardinality(Inputs') = I - 1
      BY <1>9, <1>i, <2>1, <2>4
    <3>3. QED
      BY <1>0, <2>1, <2>2, <3>1, <3>2 DEF Counted
  <2>5. QED
    BY <2>3, <2>4
<1>10. ASSUME NEW t \in Thread, getInputPacketNoWait(t), Untouched(t)
       PROVE  Counted'
  <2>1. PICK p \in input : input' = input \ {p} /\ ScanFrom(t, p)
    BY <1>10 DEF getInputPacketNoWait
  <2>2. UNCHANGED <<empty, active, out>> /\ in[t] = None
    BY <1>10 DEF getInputPacketNoWait, WorkStacks, WorkStack, Resting, Asking
  <2>3. p \in Seq(Obj) /\ p # << >>
    BY <1>s DEF FullPackets, MarkTypes
  <2>4. SubSeq(p, 1, Len(p) - 1) \in Seq(Obj)
    BY <2>3, FrontFacts
  <2>5. in'[t] # None
    BY <2>1, <2>4, <1>s DEF ScanFrom, MarkTypes
  <2>6. Cardinality(Inputs') = I + 1
    BY <1>10, <1>i, <2>2, <2>5
  <2>7. Outputs' = Outputs
    BY <2>2 DEF Outputs
  <2>8. IsFiniteSet(input') /\ Cardinality(input') = L - 1
    BY <1>t, <2>1
  <2>9. QED
    BY <1>0, <2>2, <2>6, <2>7, <2>8 DEF Counted
<1>11. ASSUME NEW t \in Thread, popFailedEmpty(t), Untouched(t)
       PROVE  Counted'
  <2>1. CASE ~SwapPackets(t)
    BY <1>11, <1>a, <2>1 DEF popFailedEmpty
  <2>2. CASE SwapPackets(t)
    <3>1. out[t] \in Seq(Obj) /\ out[t] # << >> /\ out[t] # None /\ ScanFrom(t, out[t])
      BY <1>11, <2>2 DEF SwapPackets, UsedUp, popFailedEmpty, MarkTypes
    <3>2. /\ UNCHANGED <<empty, input, active>> /\ in[t] = None /\ out'[t] = None
      BY <1>11, <2>2 DEF popFailedEmpty, WorkStacks, WorkStack, MarkTypes
    <3>3. SubSeq(out[t], 1, Len(out[t]) - 1) \in Seq(Obj)
      BY <3>1, FrontFacts
    <3>4. in'[t] # None
      BY <3>1, <3>3, <1>s DEF ScanFrom, MarkTypes
    <3>5. Cardinality(Inputs') = I + 1
      BY <1>11, <1>i, <3>2, <3>4
    <3>6. Cardinality(Outputs') = O - 1
      BY <1>11, <1>o, <3>1, <3>2
    <3>7. QED
      BY <1>0, <3>2, <3>5, <3>6 DEF Counted
  <2>3. QED
    BY <2>1, <2>2
<1>12. ASSUME NEW t \in Thread,
              AlertWaiting(t) \/ NotifyMore(t) \/ MonitorEnter(t) \/ getInputPacket(t)
                \/ MonitorReenter(t) \/ getInputPacketAgain(t)
       PROVE  Counted'
  BY <1>12, <1>a DEF AlertWaiting, NotifyMore, MonitorEnter, getInputPacket, MonitorReenter,
    getInputPacketAgain
<1>13. ASSUME NEW t \in Thread, completeScan(t)
       PROVE  Counted'
  BY <1>13, <1>a, CompleteScanEffect
<1>14. ASSUME NEW t \in Thread, initializeMarkMap(t) \/ markLiveObjectsInit(t)
       PROVE  Counted'
  BY <1>14, <1>a DEF initializeMarkMap, markLiveObjectsInit
<1>15. ASSUME MasterStep
       PROVE  Counted'
  BY <1>15, <1>a DEF MasterStep, handleOverflow, ScanOverflowed, releaseSynchronizedGCThreads
<1>16. QED
  <2>1. ASSUME NEW t \in Thread, Step(t), ~initializeMarkMap(t), ~markLiveObjectsInit(t)
        PROVE  Counted'
    <3>1. Untouched(t)
      BY <2>1, StepLater, StepLocal
    <3>2. QED
      BY <2>1, <3>1, <1>1, <1>2, <1>4, <1>5, <1>6, <1>7, <1>8, <1>9, <1>10, <1>11, <1>12, <1>13
        DEF Step
  <2>2. QED
    BY <2>1, <1>14, <1>15 DEF Next

-----------------------------------------------------------------------------
(***************************************************************************)
(* The invariant, and what follows from it.                                *)
(***************************************************************************)
\* A task that starts satisfies the invariant.
LEMMA MInvInit == Init => MInv
<1> SUFFICES ASSUME Init
             PROVE  MInv
  OBVIOUS
<1> USE DEF Init
<1>0. /\ \A t \in Thread : /\ pc[t] = "clear" /\ in[t] = None /\ out[t] = None /\ item[t] = None
                           /\ todo[t] = << >> /\ unit[t] = 0 /\ claim[t] = 0 /\ seen[t] = 0
      /\ InClearing
  BY DEF InClearing, Clearing
<1>1. MarkTypes
  <2>1. InitialPackets \in Nat /\ None \notin Thread
    OBVIOUS
  <2>2. /\ pc \in [Thread -> Location]
        /\ unit \in [Thread -> Nat] /\ claim \in [Thread -> Nat] /\ seen \in [Thread -> Nat]
    BY DEF Location
  <2>3. /\ in \in [Thread -> Seq(Obj) \cup {None}]
        /\ out \in [Thread -> Seq(Obj) \cup {None}]
        /\ item \in [Thread -> Obj \cup {None}]
        /\ todo \in [Thread -> Seq(Obj)]
    OBVIOUS
  <2>4. /\ graph \in Graphs /\ marked \in SUBSET Obj /\ over \in SUBSET Obj
        /\ overflow \in BOOLEAN /\ input \in SUBSET Seq(Obj)
    OBVIOUS
  <2>5. /\ active \in Nat /\ empty \in Nat /\ waitCount \in Int /\ doneIndex \in Nat
        /\ owner \in Thread \cup {None} /\ unitIndex \in Nat /\ cursor \in Nat
    BY <2>1
  <2> HIDE DEF Init
  <2>6. QED
    BY <2>2, <2>3, <2>4, <2>5 DEF MarkTypes
<1>2. WorkStacks
  BY <1>0 DEF WorkStacks, WorkStack, Pushing, Resting, Clearing
<1>3. FullPackets /\ Monitor
  BY <1>0 DEF FullPackets, Monitor
<1>4. ClearedTogether /\ Walk
  BY <1>0 DEF ClearedTogether, Clearing, Walk
<1>5. WorkUnits
  BY <1>0 DEF WorkUnits, Obj
<1>6. Quiet /\ Overflow
  BY <1>0 DEF Quiet, Overflow, Knows, Asking
<1>7. WaitCounted
  <2>1. WaitSet = {}
    BY <1>0 DEF WaitSet
  <2>2. QED
    BY <2>1, FS_EmptySet DEF WaitCounted
<1>8. Tricolour
  BY <1>0 DEF Tricolour
<1>9. Separate
  <2>1. \A t \in Thread : Mine(t) = {} /\ OwnApart(t)
    BY <1>0 DEF Mine, OwnApart, Contents, Once
  <2>2. QED
    BY <2>1 DEF Separate
<1>10. Counted
  <2>1. Inputs = {} /\ Outputs = {}
    BY <1>0 DEF Inputs, Outputs
  <2>2. Cardinality({}) = 0 /\ IsFiniteSet({})
    BY FS_EmptySet
  <2>3. InitialPackets \in Nat
    OBVIOUS
  <2>4. QED
    BY <2>1, <2>2, <2>3 DEF Counted
<1>11. QED
  BY <1>1, <1>2, <1>3, <1>4, <1>5, <1>6, <1>7, <1>8, <1>9, <1>10 DEF MInv

\* Every step keeps the invariant.
LEMMA MInvStep == MInv /\ [Next]_vars => MInv'
<1> SUFFICES ASSUME MInv, [Next]_vars
             PROVE  MInv'
  OBVIOUS
<1>0. /\ MarkTypes /\ WorkStacks /\ FullPackets /\ Monitor /\ ClearedTogether /\ WorkUnits
      /\ Walk /\ Quiet /\ Overflow /\ WaitCounted /\ Tricolour /\ Separate /\ Counted
  BY DEF MInv
<1>1. CASE Next
  <2>1. MarkTypes'
    BY <1>0, <1>1, TypesKept
  <2>2. WorkStacks' /\ FullPackets'
    BY <1>0, <1>1, StacksKept
  <2>3. Monitor' /\ ClearedTogether' /\ WorkUnits' /\ Walk'
    BY <1>0, <1>1, MonitorKept, ClearedTogetherKept, WorkUnitsKept, WalkKept
  <2>4. WaitCounted' /\ Quiet'
    BY <1>0, <1>1, WaitCountedKept, QuietKept
  <2>5. over \subseteq marked
    <3>1. CASE InClearing
      BY <1>0, <3>1 DEF ClearedTogether
    <3>2. CASE ~InClearing
      BY <1>0, <3>2, GreyViewHolds DEF Tricolour, GreyView
    <3>3. QED
      BY <3>1, <3>2
  <2>6. Overflow'
    BY <1>0, <1>1, <2>5, OverflowKept
  <2>7. Tricolour' /\ Separate'
    BY <1>0, <1>1, <2>1, ObjectsKept
  <2>8. Counted'
    BY <1>0, <1>1, <2>1, CountedKept
  <2>9. QED
    BY <2>1, <2>2, <2>3, <2>4, <2>6, <2>7, <2>8 DEF MInv
<1>2. CASE UNCHANGED vars
  <2>0. UNCHANGED <<graph, marked, over, overflow, active, empty, input, waitCount, doneIndex, owner,
                    unitIndex, unit, claim, pc, in, out, item, todo, cursor, seen>>
    BY <1>2 DEF vars, shared, monitor, units, stack
  <2>1. MarkTypes'
    BY <1>0, <2>0 DEF MarkTypes
  <2>2. WorkStacks' /\ FullPackets' /\ Monitor'
    BY <1>0, <2>0 DEF WorkStacks, WorkStack, FullPackets, Monitor, Slots
  <2>3. ClearedTogether' /\ WorkUnits' /\ Walk'
    BY <1>0, <2>0 DEF ClearedTogether, WorkUnits, Walk, InClearing
  <2>4. Quiet' /\ Overflow' /\ WaitCounted'
    BY <1>0, <2>0 DEF Quiet, Knows, Overflow, WaitCounted, WaitSet
  <2>5. Tricolour'
    <3>1. /\ InClearing' = InClearing /\ Reachable' = Reachable /\ Grey' = Grey
          /\ Pending' = Pending /\ \A o : Refs(o)' = Refs(o)
      BY <2>0 DEF InClearing, Reachable, Grey, Pending, Refs, Held
    <3>2. QED
      BY <1>0, <2>0, <3>1 DEF Tricolour
  <2>6. Separate'
    BY <1>0, <2>0 DEF Separate, OwnApart, Mine, Once
  <2>7. Counted'
    BY <1>0, <2>0 DEF Counted, Inputs, Outputs
  <2>8. QED
    BY <2>1, <2>2, <2>3, <2>4, <2>5, <2>6, <2>7 DEF MInv
<1>3. QED
  BY <1>1, <1>2

\* The invariant holds always.
THEOREM MarkInvariant == Spec => []MInv
BY MInvInit, MInvStep, PTL DEF Spec

\* For any number of GC threads, any heap and any number and size of packets: when a
\* thread leaves completeScan exactly the reachable objects are marked, and no
\* object waits in a packet or in the overflow bits.
THEOREM MarkingIsExact == Spec => []MarkingExact
<1>1. MInv => MarkingExact
  <2> SUFFICES ASSUME MInv, NEW e \in Thread, pc[e] = "end"
               PROVE  /\ marked = Reachable
                      /\ over = {}
                      /\ input = {} /\ Held \subseteq {<< >>}
    BY DEF MarkingExact
  <2>0. MarkTypes /\ WorkStacks /\ ClearedTogether /\ Quiet /\ Overflow /\ Tricolour
    BY DEF MInv
  <2>1. Knows(e)
    BY DEF Knows
  <2>2. /\ input = {} /\ cursor = 0
        /\ \A t \in Thread : Knows(t) /\ pc[t] \notin {"try", "inside", "waiting"}
    BY <2>0, <2>1 DEF Quiet
  <2>3. \A t \in Thread : pc[t] \in Resting
    BY <2>2 DEF Knows, Resting
  <2>4. \A t \in Thread : in[t] = None /\ out[t] = None /\ item[t] = None /\ todo[t] = << >>
    BY <2>0, <2>3 DEF WorkStacks, WorkStack, Resting, Asking, Clearing, Pushing
  <2>5. over = {}
    <3>1. ~overflow
      BY <2>0 DEF Overflow
    <3>2. ~(cursor > 0)
      BY <2>2
    <3>3. QED
      BY <2>0, <3>1, <3>2 DEF Overflow
  <2>6. Held = {}
    BY <2>4 DEF Held
  <2>7. \A t \in Thread : Mine(t) = {} /\ Range(todo[t]) = {}
    BY <2>4, NoRefs DEF Mine, Contents
  <2>8. Grey = {} /\ Pending = {}
    BY <2>0, <2>2, <2>5, <2>7, GreyViewHolds DEF GreyView
  <2>9. ~InClearing
    BY <2>0 DEF ClearedTogether, Clearing
  <2>10. /\ marked \subseteq Reachable /\ Range(graph.roots) \subseteq marked
         /\ \A o \in marked : Range(Refs(o)) \subseteq marked
    BY <2>0, <2>8, <2>9 DEF Tricolour
  <2>11. Reachable \subseteq marked
    BY <2>0, <2>10, ReachableLeast DEF MarkTypes
  <2>12. QED
    BY <2>2, <2>5, <2>6, <2>10, <2>11
<1>2. QED
  BY <1>1, MarkInvariant, PTL

\* No reference of a marked object is forgotten, whichever threads pass the object on.
THEOREM MarkingForgetsNothing == Spec => []NothingForgotten
<1>1. MInv => NothingForgotten
  BY DEF MInv, Tricolour, NothingForgotten, InClearing, Clearing
<1>2. QED
  BY <1>1, MarkInvariant, PTL

\* No packet is lost to the pool, and a packet others may take is full.
THEOREM PacketsAreConserved == Spec => []PacketsConserved
<1>1. MInv => PacketsConserved
  BY DEF MInv, Counted, FullPackets, PacketsConserved
<1>2. QED
  BY <1>1, MarkInvariant, PTL

\* The place x says where the object o waits.
LEMMA PlaceKinds ==
  ASSUME NEW o \in Obj, NEW x \in Places(o)
  PROVE  \/ \E p \in input : \E i \in Slot(p, o) : x = <<p, i>>
         \/ \E t \in Thread : \E i \in Slot(in[t], o) : x = <<t, "in", i>>
         \/ \E t \in Thread : \E i \in Slot(out[t], o) : x = <<t, "out", i>>
         \/ \E t \in Thread : item[t] = o /\ x = <<t, "item">>
         \/ o \in over /\ x = <<None, "overflow">>
BY DEF Places

\* An object never waits in two places.
THEOREM ObjectsWaitOnce == Spec => []WaitsOnce
<1>1. MInv => WaitsOnce
  <2> SUFFICES ASSUME MInv, NEW o \in Obj
               PROVE  Cardinality(Places(o)) <= 1
    BY DEF WaitsOnce
  <2>0. MarkTypes /\ Separate /\ None # o
    BY DEF MInv
  <2>s. \A p : \A i \in Slot(p, o) : p # None /\ i \in DOMAIN p /\ p[i] = o /\ o \in Range(p)
    BY DEF Slot, Range
  <2>i. \A t \in Thread : \A i \in Slot(in[t], o) : o \in Contents(in[t]) /\ o \in Mine(t)
    BY <2>s DEF Contents, Mine
  <2>u. \A t \in Thread : \A i \in Slot(out[t], o) : o \in Contents(out[t]) /\ o \in Mine(t)
    BY <2>s DEF Contents, Mine
  <2>m. \A t \in Thread : item[t] = o => o \in Mine(t)
    BY <2>0 DEF Mine
  <2>1. ASSUME NEW x \in Places(o), NEW y \in Places(o)
        PROVE  x = y
    <3>1. CASE \E p \in input : \E i \in Slot(p, o) : x = <<p, i>>
      <4>1. PICK p \in input : \E i \in Slot(p, o) : x = <<p, i>>
        BY <3>1
      <4>2. PICK i \in Slot(p, o) : x = <<p, i>>
        BY <4>1
      <4>3. o \notin over /\ (\A t \in Thread : o \notin Mine(t)) /\ o \in Range(p)
        BY <2>0, <2>s, <4>2 DEF Separate
      <4>4. PICK q \in input : \E j \in Slot(q, o) : y = <<q, j>>
        BY <4>3, <2>i, <2>u, <2>m, PlaceKinds, ZenonT(30)
      <4>5. PICK j \in Slot(q, o) : y = <<q, j>>
        BY <4>4
      <4>6. q = p
        BY <2>0, <2>s, <4>3, <4>5 DEF Separate
      <4>7. i = j
        BY <2>0, <2>s, <4>2, <4>5, <4>6 DEF Separate, Once
      <4>8. QED
        BY <4>2, <4>5, <4>6, <4>7
    <3>2. CASE o \in over /\ x = <<None, "overflow">>
      <4>1. (\A p \in input : o \notin Range(p)) /\ \A t \in Thread : o \notin Mine(t)
        BY <2>0, <3>2 DEF Separate
      <4>2. /\ ~\E p \in input : \E i \in Slot(p, o) : y = <<p, i>>
            /\ ~\E t \in Thread : \E i \in Slot(in[t], o) : y = <<t, "in", i>>
            /\ ~\E t \in Thread : \E i \in Slot(out[t], o) : y = <<t, "out", i>>
            /\ ~\E t \in Thread : item[t] = o /\ y = <<t, "item">>
        BY <4>1, <2>s, <2>i, <2>u, <2>m
      <4>3. y = <<None, "overflow">>
        BY <4>2, PlaceKinds
      <4>4. QED
        BY <3>2, <4>3
    <3>3. ASSUME NEW t \in Thread, o \in Mine(t),
                 \/ \E i \in Slot(in[t], o) : x = <<t, "in", i>>
                 \/ \E i \in Slot(out[t], o) : x = <<t, "out", i>>
                 \/ item[t] = o /\ x = <<t, "item">>
          PROVE  x = y
      <4>1. /\ o \notin over /\ \A p \in input : o \notin Range(p)
            /\ \A u \in Thread : u # t => o \notin Mine(u)
        BY <2>0, <3>3 DEF Separate
      <4>2. \/ \E j \in Slot(in[t], o) : y = <<t, "in", j>>
            \/ \E j \in Slot(out[t], o) : y = <<t, "out", j>>
            \/ item[t] = o /\ y = <<t, "item">>
        BY <4>1, <2>s, <2>i, <2>u, <2>m, PlaceKinds, ZenonT(30)
      <4>3. OwnApart(t)
        BY <2>0 DEF Separate
      <4>4. CASE \E i \in Slot(in[t], o) : x = <<t, "in", i>>
        <5>1. PICK i \in Slot(in[t], o) : x = <<t, "in", i>>
          BY <4>4
        <5>2. o \notin Contents(out[t]) /\ item[t] # o
          BY <2>i, <4>3, <5>1 DEF OwnApart
        <5>3. PICK j \in Slot(in[t], o) : y = <<t, "in", j>>
          BY <2>u, <4>2, <5>2
        <5>4. i = j
          BY <2>s, <4>3, <5>1, <5>3 DEF OwnApart, Once
        <5>5. QED
          BY <5>1, <5>3, <5>4
      <4>5. CASE \E i \in Slot(out[t], o) : x = <<t, "out", i>>
        <5>1. PICK i \in Slot(out[t], o) : x = <<t, "out", i>>
          BY <4>5
        <5>2. o \notin Contents(in[t]) /\ item[t] # o
          BY <2>u, <4>3, <5>1 DEF OwnApart
        <5>3. PICK j \in Slot(out[t], o) : y = <<t, "out", j>>
          BY <2>i, <4>2, <5>2
        <5>4. i = j
          BY <2>s, <4>3, <5>1, <5>3 DEF OwnApart, Once
        <5>5. QED
          BY <5>1, <5>3, <5>4
      <4>6. CASE item[t] = o /\ x = <<t, "item">>
        <5>1. o \notin Contents(in[t]) /\ o \notin Contents(out[t])
          BY <4>3, <4>6 DEF OwnApart
        <5>2. QED
          BY <2>i, <2>u, <4>2, <4>6, <5>1
      <4>7. QED
        BY <3>3, <4>4, <4>5, <4>6
    <3>4. QED
      BY <3>1, <3>2, <3>3, <2>i, <2>u, <2>m, PlaceKinds, ZenonT(30)
  <2>2. CASE Places(o) = {}
    BY <2>2, FS_EmptySet
  <2>3. CASE Places(o) # {}
    <3>1. PICK x : x \in Places(o)
      BY <2>3
    <3>2. Places(o) = {x}
      BY <2>1, <3>1
    <3>3. Cardinality({x}) = 1
      BY FS_Singleton
    <3>4. QED
      BY <3>2, <3>3
  <2>4. QED
    BY <2>2, <2>3
<1>2. QED
  BY <1>1, MarkInvariant, PTL
=============================================================================
