----------------------------- MODULE HeapProofs -----------------------------
(***************************************************************************)
(* Whatever the program allocates, stores and forgets, and wherever the    *)
(* collector runs, nothing its roots lead to is swept, for any number of   *)
(* addresses and globals.                                                  *)
(*                                                                         *)
(* RootsIntact says where the roots lead, which is not inductive.  The     *)
(* strengthening is about all objects: no object points to an address that *)
(* holds none (Closed(allocated)), and everything that is a root or in use *)
(* by C++ code is allocated.  Marking yields a closed set around the roots *)
(* (ReachClosed), so sweeping the rest leaves no dangling field.           *)
(***************************************************************************)
EXTENDS Heap, TLAPS

\* The part of TypeOK that the object graph needs.
GraphTypes ==
  /\ allocated \subseteq Obj
  /\ own \in [Obj -> SUBSET Obj]
  /\ field \in [Obj -> SUBSET Obj]
  /\ prev \in [Obj -> Address]
  /\ rootTable \in [Name -> Address]
  /\ self \in Address
  /\ waiting \in Address
  /\ frame \in Address

\* A constructor only runs on an object.
Constructing == todo # << >> => self # None

\* No object points to a swept one, and neither does a root or C++ code.
GraphIntact ==
  status = "ok" =>
    /\ Closed(allocated)
    /\ RootValues \cup protected \cup InUse \subseteq allocated

HInv ==
  /\ GraphTypes
  /\ Constructing
  /\ GraphIntact
  /\ ObjectTableExact

-----------------------------------------------------------------------------
(***************************************************************************)
(* Reachability.                                                           *)
(***************************************************************************)

\* A closed set contains whatever is reached from a part of it.
LEMMA ReachLeast ==
  ASSUME NEW C \in SUBSET Obj, Closed(C), NEW S \in SUBSET C
  PROVE  Reach(S) \subseteq C
BY DEF Reach

\* What is reached from S contains S and is closed.
LEMMA ReachClosed ==
  ASSUME GraphTypes, NEW S \in SUBSET Obj
  PROVE  /\ S \subseteq Reach(S)
         /\ Reach(S) \subseteq Obj
         /\ Closed(Reach(S))
<1>1. S \subseteq Reach(S) /\ Reach(S) \subseteq Obj
  BY DEF Reach
<1>2. ASSUME NEW o \in Reach(S), NEW r \in Refs(o)
      PROVE  r \in Reach(S)
  <2>1. r \in Obj
    BY <1>1, <1>2 DEF Refs, GraphTypes, Address
  <2>2. ASSUME NEW C \in SUBSET Obj, S \subseteq C, Closed(C)
        PROVE  r \in C
    <3>1. o \in C
      BY <2>2 DEF Reach
    <3> QED BY <1>2, <2>2, <3>1 DEF Closed
  <2> QED BY <2>1, <2>2 DEF Reach
<1>3. QED
  BY <1>1, <1>2 DEF Closed

\* A collection keeps a closed part of the heap that contains the roots.
LEMMA SurvivorsClosed ==
  ASSUME HInv, status = "ok", NEW gc \in BOOLEAN, NEW s \in Survivors(gc)
  PROVE  /\ s \subseteq allocated
         /\ Closed(s)
         /\ RootValues \cup protected \subseteq s
<1>0. /\ GraphTypes /\ Closed(allocated) /\ allocated \in SUBSET Obj
      /\ RootValues \cup protected \subseteq allocated
  BY DEF HInv, GraphIntact, GraphTypes
<1>1. CASE gc = FALSE
  BY <1>0, <1>1 DEF Survivors
<1>2. CASE gc = TRUE
  <2>1. PICK extra \in Overscan : s = Reach(scanRoots) \cup Reach(extra)
    BY <1>2 DEF Survivors
  <2>2. extra \in SUBSET allocated /\ scanRoots \in SUBSET allocated
    BY <1>0 DEF Overscan, scanRoots
  <2>3. /\ scanRoots \subseteq Reach(scanRoots)
        /\ Closed(Reach(scanRoots)) /\ Closed(Reach(extra))
    BY <1>0, <2>2, ReachClosed
  <2>4. Reach(scanRoots) \subseteq allocated /\ Reach(extra) \subseteq allocated
    BY <1>0, <2>2, ReachLeast
  <2>5. Closed(s)
    BY <2>1, <2>3 DEF Closed
  <2> QED BY <2>1, <2>3, <2>4, <2>5 DEF scanRoots
<1>3. QED
  BY <1>1, <1>2

-----------------------------------------------------------------------------
(***************************************************************************)
(* One lemma per way in which a step changes the graph.                    *)
(***************************************************************************)

\* Allocating n, with or without a collection, and adding n to the fields of
\* the object under construction.
LEMMA AllocateStep ==
  ASSUME HInv, status = "ok", NEW n \in Obj, NEW gc \in BOOLEAN,
         NEW s \in Survivors(gc), Allocate(n, gc, s),
         \/ own' = Surviving(own, s) /\ self' \in {self, n}
         \/ /\ own' = [Surviving(own, s) EXCEPT ![self] = @ \cup {n}]
            /\ self # None /\ self' = self,
         Constructing',
         UNCHANGED <<rootTable, held, waiting, frame>>
  PROVE  HInv'
<1>0. /\ s \subseteq allocated /\ Closed(s) /\ RootValues \cup protected \subseteq s
      /\ s \subseteq Obj /\ n \notin s /\ n # None
  <2>1. s \subseteq allocated /\ Closed(s) /\ RootValues \cup protected \subseteq s
    BY SurvivorsClosed
  <2> QED BY <2>1, ObjAssumption DEF HInv, GraphTypes, Allocate
<1>1. /\ allocated' = s \cup {n}
      /\ protected' = protected \cup {n}
      /\ field' = Surviving(field, s)
      /\ prev' = [o \in Obj |-> IF o \in s THEN prev[o] ELSE None]
      /\ status' = IF Reach(InUse) \subseteq s THEN status ELSE "corrupt"
  BY DEF Allocate
<1>2. GraphTypes'
  <2>1. own' \in [Obj -> SUBSET Obj]
    <3>1. Surviving(own, s) \in [Obj -> SUBSET Obj]
      BY DEF HInv, GraphTypes, Surviving
    <3> QED BY <3>1
  <2>2. field' \in [Obj -> SUBSET Obj]
    BY <1>1 DEF HInv, GraphTypes, Surviving
  <2>3. prev' \in [Obj -> Address]
    BY <1>1 DEF HInv, GraphTypes, Address
  <2>4. self' \in Address
    BY DEF HInv, GraphTypes, Address
  <2> QED BY <1>0, <1>1, <2>1, <2>2, <2>3, <2>4 DEF HInv, GraphTypes
<1>3. ObjectTableExact'
  <2>1. objectTable' = s \cup {n}
    BY <1>0, SurvivorsClosed DEF Allocate, masterCleanupAfterGC, HInv,
       ObjectTableExact, Survivors
  <2> QED BY <1>1, <2>1 DEF ObjectTableExact
<1>4. ASSUME status' = "ok"
      PROVE  /\ Closed(allocated)'
             /\ (RootValues \cup protected \cup InUse \subseteq allocated)'
  <2>1. InUse \subseteq s
    <3>1. InUse \subseteq Obj
      BY DEF HInv, GraphIntact, GraphTypes, InUse
    <3>2. InUse \subseteq Reach(InUse)
      BY <3>1, ReachClosed DEF HInv
    <3> QED BY <1>1, <1>4, <3>2
  <2>2. ASSUME NEW o \in s
        PROVE  Refs(o)' \subseteq s \cup {n}
    <3>1. /\ own'[o] \subseteq own[o] \cup {n}
          /\ field'[o] = field[o] /\ prev'[o] = prev[o]
      BY <1>0, <1>1, <2>1, ZenonT(30) DEF Surviving, HInv, GraphTypes
    <3>2. Refs(o) \subseteq s
      BY <1>0 DEF Closed
    <3> QED BY <3>1, <3>2 DEF Refs
  <2>3. Refs(n)' = {}
    <3>1. own'[n] = {}
      BY <1>0, <2>1 DEF Surviving, InUse
    <3>2. field'[n] = {} /\ prev'[n] = None
      BY <1>0, <1>1 DEF Surviving
    <3> QED BY <3>1, <3>2 DEF Refs
  <2>4. Closed(allocated)'
    BY <1>1, <2>2, <2>3 DEF Closed
  <2>5. (RootValues \cup protected \cup InUse \subseteq allocated)'
    BY <1>0, <1>1, <2>1 DEF RootValues, InUse
  <2> QED BY <2>4, <2>5
<1>5. QED
  BY <1>2, <1>3, <1>4 DEF HInv, GraphIntact

\* A step that writes fields of allocated objects only with allocated objects,
\* and takes its globals and C++ pointers from them.
LEMMA StoreStep ==
  ASSUME HInv, status = "ok", status' \in {"ok", "noMemory"},
         UNCHANGED <<allocated, objectTable>>,
         GraphTypes', Constructing',
         \A o \in allocated : Refs(o)' \subseteq allocated,
         (RootValues \cup protected \cup InUse)' \subseteq allocated
  PROVE  HInv'
<1>1. Closed(allocated)'
  BY DEF Closed
<1>2. QED
  BY <1>1 DEF HInv, GraphIntact, ObjectTableExact

\* The program only gets at allocated objects.
LEMMA AccessibleAllocated ==
  ASSUME HInv, status = "ok"
  PROVE  Accessible \subseteq allocated
<1>1. /\ allocated \in SUBSET Obj /\ Closed(allocated)
      /\ RootValues \cup ({frame} \ {None}) \in SUBSET allocated
  BY DEF HInv, GraphTypes, GraphIntact, InUse
<1>2. QED
  BY <1>1, ReachLeast DEF Accessible

-----------------------------------------------------------------------------
\* The first class is a root.
LEMMA InitHInv ==
  ASSUME Init
  PROVE  HInv
<1>1. PICK first \in Obj :
        /\ allocated = {first} /\ objectTable = {first}
        /\ own = [o \in Obj |-> {}] /\ field = [o \in Obj |-> {}]
        /\ prev = [o \in Obj |-> None]
        /\ rootTable = [n \in Name |-> IF n = FirstName THEN first ELSE None]
        /\ protected = {} /\ self = None /\ todo = << >> /\ held = {}
        /\ waiting = None /\ frame = None
  BY DEF Init
<1>2. GraphTypes
  BY <1>1 DEF GraphTypes, Address
<1>3. Closed(allocated)
  BY <1>1 DEF Closed, Refs
<1>4. RootValues \cup protected \cup InUse \subseteq allocated
  BY <1>1 DEF RootValues, InUse
<1>5. QED
  BY <1>1, <1>2, <1>3, <1>4 DEF HInv, Constructing, GraphIntact, ObjectTableExact

\* Every step of a constructor, of the program and of the collector keeps it.
LEMMA NextHInv ==
  ASSUME HInv, [Next]_vars
  PROVE  HInv'
<1>0. CASE UNCHANGED vars
  BY <1>0 DEF vars, HInv, GraphTypes, Constructing, GraphIntact, ObjectTableExact,
              Closed, Refs, RootValues, InUse
<1> SUFFICES ASSUME Next, status = "ok"
             PROVE  HInv'
  BY <1>0 DEF Next, Done, AllocateObject, At, StartUninterruptableAllocation,
       EndUninterruptableAllocation, AllocatePart, SymbolFor, SetContext,
       SetPreviousFrame, CopyFrame, SetGlobal, Return, allocationFailure, Idle,
       SetField, ClearField, Forget, Global_put_, popFrame, FullGC, Interpreting,
       HasBlockClass, LoadBlockClass, BlockClassLoaded
<1>a. /\ GraphTypes /\ Constructing
      /\ Closed(allocated)
      /\ RootValues \cup protected \cup InUse \subseteq allocated
      /\ \A o \in allocated : Refs(o) \subseteq allocated
      /\ Accessible \subseteq allocated
  BY AccessibleAllocated DEF HInv, GraphIntact, Closed
<1>b. ASSUME NEW st, At(st)
      PROVE  self \in allocated /\ self # None /\ (self' = self => Constructing')
  BY <1>a, <1>b DEF At, Constructing, InUse, GraphTypes, Address
<1>1. ASSUME NEW k \in Built, AllocateObject(k)
      PROVE  HInv'
  <2>1. PICK n \in Obj, gc \in BOOLEAN : \E s \in Survivors(gc) :
          Allocate(n, gc, s) /\ own' = Surviving(own, s) /\ self' = n
    BY <1>1 DEF AllocateObject
  <2>2. PICK s \in Survivors(gc) :
          Allocate(n, gc, s) /\ own' = Surviving(own, s) /\ self' = n
    BY <2>1
  <2>3. Constructing'
    BY <2>2, ObjAssumption DEF Constructing
  <2> QED BY <1>1, <2>2, <2>3, AllocateStep DEF AllocateObject
<1>2. CASE StartUninterruptableAllocation
  <2>1. At("start") /\ UNCHANGED <<graph, rootTable, protected, self, held, waiting, frame, status>>
    BY <1>2 DEF StartUninterruptableAllocation
  <2> QED BY <1>a, <1>b, <2>1, StoreStep DEF graph, GraphTypes, Refs, RootValues, InUse
<1>3. CASE EndUninterruptableAllocation
  <2>1. /\ At("end") /\ UNCHANGED <<graph, rootTable, self, held, waiting, frame, status>>
        /\ protected' \subseteq protected
    BY <1>3 DEF EndUninterruptableAllocation
  <2> QED BY <1>a, <1>b, <2>1, StoreStep DEF graph, GraphTypes, Refs, RootValues, InUse
<1>4. CASE AllocatePart
  <2>1. PICK n \in Obj, gc \in BOOLEAN : \E s \in Survivors(gc) :
          /\ Allocate(n, gc, s)
          /\ own' = [Surviving(own, s) EXCEPT ![self] = @ \cup {n}]
    BY <1>4 DEF AllocatePart
  <2>2. PICK s \in Survivors(gc) :
          /\ Allocate(n, gc, s)
          /\ own' = [Surviving(own, s) EXCEPT ![self] = @ \cup {n}]
    BY <2>1
  <2>3. self # None /\ self' = self /\ Constructing'
    BY <1>4, <1>b DEF AllocatePart
  <2> QED BY <1>4, <2>2, <2>3, AllocateStep DEF AllocatePart
<1>5. CASE SymbolFor
  <2>0. At("symbol") /\ UNCHANGED <<rootTable, self, held, waiting, frame>> /\ Constructing'
    BY <1>5, <1>b DEF SymbolFor
  <2>1. CASE UNCHANGED <<graph, protected, status>>
    BY <1>a, <2>0, <2>1, StoreStep DEF graph, GraphTypes, Refs, RootValues, InUse
  <2>2. CASE \E n \in Obj, gc \in BOOLEAN : \E s \in Survivors(gc) :
               Allocate(n, gc, s) /\ own' = Surviving(own, s)
    <3>1. PICK n \in Obj, gc \in BOOLEAN : \E s \in Survivors(gc) :
            Allocate(n, gc, s) /\ own' = Surviving(own, s)
      BY <2>2
    <3>2. PICK s \in Survivors(gc) : Allocate(n, gc, s) /\ own' = Surviving(own, s)
      BY <3>1
    <3> QED BY <2>0, <3>2, AllocateStep
  <2> QED BY <1>5, <2>1, <2>2 DEF SymbolFor
<1>6. CASE SetContext
  <2>1. PICK m \in Accessible :
          own' = [own EXCEPT ![self] = {m} \cup ({frame} \ {None})]
    BY <1>6 DEF SetContext
  <2>2. /\ At("capture") /\ Constructing' /\ self \in allocated
        /\ UNCHANGED <<allocated, objectTable, field, prev, rootTable, protected,
                       self, held, waiting, frame, status>>
    BY <1>6, <1>b DEF SetContext
  <2>3. m \in allocated /\ {frame} \ {None} \subseteq allocated
    BY <1>a DEF InUse
  <2>4. GraphTypes'
    BY <1>a, <2>1, <2>2, <2>3 DEF GraphTypes
  <2>5. ASSUME NEW o \in allocated
        PROVE  Refs(o)' \subseteq allocated
    BY <1>a, <2>1, <2>2, <2>3 DEF Refs, GraphTypes
  <2> QED BY <1>a, <2>2, <2>4, <2>5, StoreStep DEF RootValues, InUse
<1>7. CASE SetPreviousFrame
  <2>1. /\ At("link") /\ Constructing' /\ self \in allocated
        /\ prev' = [prev EXCEPT ![self] = frame]
        /\ UNCHANGED <<allocated, objectTable, own, field, rootTable, protected,
                       self, held, waiting, frame, status>>
    BY <1>7, <1>b DEF SetPreviousFrame
  <2>2. GraphTypes'
    BY <1>a, <2>1 DEF GraphTypes
  <2>3. ASSUME NEW o \in allocated
        PROVE  Refs(o)' \subseteq allocated
    BY <1>a, <2>1 DEF Refs, GraphTypes, InUse
  <2> QED BY <1>a, <2>1, <2>2, <2>3, StoreStep DEF RootValues, InUse
<1>8. CASE CopyFrame
  <2>1. /\ At("copy") /\ Constructing' /\ self \in allocated /\ frame # None
        /\ own' = [own EXCEPT ![self] = own[frame]]
        /\ field' = [field EXCEPT ![self] = field[frame]]
        /\ prev' = [prev EXCEPT ![self] = prev[frame]]
        /\ UNCHANGED <<allocated, objectTable, rootTable, protected,
                       self, held, waiting, frame, status>>
    BY <1>8, <1>b DEF CopyFrame
  <2>2. frame \in allocated /\ Refs(frame) \subseteq allocated
    BY <1>a, <2>1 DEF InUse
  <2>3. GraphTypes'
    BY <1>a, <2>1, <2>2 DEF GraphTypes
  <2>4. ASSUME NEW o \in allocated
        PROVE  Refs(o)' \subseteq allocated
    BY <1>a, <2>1, <2>2 DEF Refs, GraphTypes
  <2> QED BY <1>a, <2>1, <2>3, <2>4, StoreStep DEF RootValues, InUse
<1>9. CASE SetGlobal
  <2>1. PICK n \in GlobalNames(kind) : rootTable' = [rootTable EXCEPT ![n] = self]
    BY <1>9 DEF SetGlobal
  <2>2. /\ At("global") /\ Constructing' /\ self \in allocated
        /\ UNCHANGED <<graph, protected, self, held, waiting, frame, status>>
    BY <1>9, <1>b DEF SetGlobal
  <2>3. GraphTypes'
    BY <1>a, <2>1, <2>2 DEF GraphTypes, graph
  <2>4. RootValues' \subseteq RootValues \cup {self}
    BY <1>a, <2>1 DEF RootValues, GraphTypes
  <2> QED BY <1>a, <2>2, <2>3, <2>4, StoreStep DEF graph, Refs, InUse
<1>10. CASE Return
  <2>1. /\ UNCHANGED <<graph, rootTable, protected, todo, waiting, status>>
        /\ todo = << >> /\ self' = None /\ self # None
        /\ \/ frame' = self /\ held' = held
           \/ held' = held \cup {self} /\ frame' = frame
    BY <1>10 DEF Return
  <2>2. GraphTypes' /\ Constructing'
    BY <1>a, <2>1 DEF GraphTypes, Constructing, graph, Address
  <2>3. InUse' \subseteq InUse
    BY <2>1 DEF InUse
  <2> QED BY <1>a, <2>1, <2>2, <2>3, StoreStep DEF graph, Refs, RootValues
<1>11. CASE allocationFailure
  <2>1. UNCHANGED <<graph, rootTable, protected, self, todo, held, waiting, frame>>
        /\ status' = "noMemory"
    BY <1>11 DEF allocationFailure, mutator
  <2> QED BY <1>a, <2>1, StoreStep
          DEF graph, GraphTypes, Constructing, Refs, RootValues, InUse
<1>12. CASE SetField
  <2>1. PICK o \in Accessible, h \in held :
          field' = [field EXCEPT ![o] = @ \cup {h}] /\ held' = held \ {h}
    BY <1>12 DEF SetField
  <2>2. UNCHANGED <<allocated, objectTable, own, prev, rootTable, protected,
                    self, todo, waiting, frame, status>>
    BY <1>12 DEF SetField
  <2>3. o \in allocated /\ h \in allocated
    BY <1>a DEF InUse
  <2>4. GraphTypes'
    BY <1>a, <2>1, <2>2, <2>3 DEF GraphTypes
  <2>5. ASSUME NEW p \in allocated
        PROVE  Refs(p)' \subseteq allocated
    BY <1>a, <2>1, <2>2, <2>3 DEF Refs, GraphTypes
  <2> QED BY <1>a, <2>1, <2>2, <2>4, <2>5, StoreStep
          DEF RootValues, InUse, Constructing
<1>13. CASE ClearField
  <2>1. PICK o \in Accessible : \E v \in field[o] :
          field' = [field EXCEPT ![o] = @ \ {v}]
    BY <1>13 DEF ClearField
  <2>2. UNCHANGED <<allocated, objectTable, own, prev, rootTable, protected,
                    self, todo, held, waiting, frame, status>>
    BY <1>13 DEF ClearField, mutator
  <2>3. GraphTypes'
    BY <1>a, <2>1, <2>2 DEF GraphTypes
  <2>4. ASSUME NEW p \in allocated
        PROVE  Refs(p)' \subseteq allocated
    BY <1>a, <2>1, <2>2 DEF Refs, GraphTypes
  <2> QED BY <1>a, <2>2, <2>3, <2>4, StoreStep DEF RootValues, InUse, Constructing
<1>14. CASE Forget
  <2>1. /\ UNCHANGED <<graph, rootTable, protected, self, todo, waiting, frame, status>>
        /\ held' \subseteq held
    BY <1>14 DEF Forget
  <2> QED BY <1>a, <2>1, StoreStep
          DEF graph, GraphTypes, Constructing, Refs, RootValues, InUse
<1>15. CASE Global_put_
  <2>1. PICK n \in Name, o \in Accessible : rootTable' = [rootTable EXCEPT ![n] = o]
    BY <1>15 DEF Global_put_
  <2>2. UNCHANGED <<graph, protected, self, todo, held, waiting, frame, status>>
    BY <1>15 DEF Global_put_, mutator
  <2>3. GraphTypes'
    BY <1>a, <2>1, <2>2 DEF GraphTypes, graph, Address
  <2>4. RootValues' \subseteq RootValues \cup {o}
    BY <1>a, <2>1 DEF RootValues, GraphTypes
  <2> QED BY <1>a, <2>2, <2>3, <2>4, StoreStep DEF graph, Refs, InUse, Constructing
<1>16. CASE popFrame
  <2>1. /\ frame' = prev[frame] /\ frame # None /\ prev[frame] # None
        /\ prev' = [prev EXCEPT ![frame] = None]
        /\ UNCHANGED <<allocated, objectTable, own, field, rootTable, protected,
                       self, todo, held, waiting, status>>
    BY <1>16 DEF popFrame
  <2>2. frame \in allocated /\ prev[frame] \in allocated
    BY <1>a, <2>1 DEF InUse, Refs
  <2>3. GraphTypes'
    BY <1>a, <2>1, <2>2 DEF GraphTypes, Address
  <2>4. ASSUME NEW p \in allocated
        PROVE  Refs(p)' \subseteq allocated
    BY <1>a, <2>1 DEF Refs, GraphTypes
  <2> QED BY <1>a, <2>1, <2>2, <2>3, <2>4, StoreStep
          DEF RootValues, InUse, Constructing
<1>17. CASE FullGC
  <2>1. PICK s \in Survivors(TRUE) :
          /\ allocated' = s
          /\ objectTable' = masterCleanupAfterGC(s)
          /\ own' = Surviving(own, s)
          /\ field' = Surviving(field, s)
          /\ prev' = [o \in Obj |-> IF o \in s THEN prev[o] ELSE None]
          /\ status' = IF Reach(InUse) \subseteq s THEN status ELSE "corrupt"
    BY <1>17 DEF FullGC
  <2>2. UNCHANGED <<rootTable, protected, self, todo, held, waiting, frame>>
    BY <1>17 DEF FullGC, mutator
  <2>3. s \subseteq allocated /\ Closed(s) /\ RootValues \cup protected \subseteq s
    BY SurvivorsClosed
  <2>4. GraphTypes' /\ Constructing'
    BY <1>a, <2>1, <2>2, <2>3 DEF GraphTypes, Constructing, Surviving, Address
  <2>5. ObjectTableExact'
    BY <2>1, <2>3 DEF HInv, ObjectTableExact, masterCleanupAfterGC
  <2>6. ASSUME status' = "ok"
        PROVE  InUse \subseteq s
    <3>1. InUse \in SUBSET Obj
      BY <1>a DEF GraphTypes
    <3>2. InUse \subseteq Reach(InUse)
      BY <1>a, <3>1, ReachClosed
    <3> QED BY <2>1, <2>6, <3>2
  <2>7. ASSUME NEW o \in s
        PROVE  Refs(o)' \subseteq s
    BY <1>a, <2>1, <2>3 DEF Refs, Closed, Surviving, GraphTypes
  <2>8. Closed(allocated)'
    BY <2>1, <2>7 DEF Closed
  <2>9. status' = "ok" => (RootValues \cup protected \cup InUse \subseteq allocated)'
    BY <2>1, <2>2, <2>3, <2>6 DEF RootValues, InUse
  <2> QED BY <2>4, <2>5, <2>8, <2>9 DEF HInv, GraphIntact
<1>18. CASE HasBlockClass
  <2>1. At("class") /\ UNCHANGED <<graph, rootTable, protected, self, held, waiting,
                                   frame, status>>
    BY <1>18 DEF HasBlockClass
  <2> QED BY <1>a, <1>b, <2>1, StoreStep DEF graph, GraphTypes, Refs, RootValues, InUse
<1>19. CASE LoadBlockClass
  <2>1. /\ UNCHANGED <<graph, rootTable, protected, held, frame, status>>
        /\ waiting' = self /\ self' = None /\ todo' = << >>
    BY <1>19 DEF LoadBlockClass
  <2>2. GraphTypes' /\ Constructing'
    BY <1>a, <2>1 DEF GraphTypes, Constructing, graph, Address
  <2>3. InUse' \subseteq InUse
    BY <2>1 DEF InUse
  <2> QED BY <1>a, <2>1, <2>2, <2>3, StoreStep DEF graph, Refs, RootValues
<1>20. CASE BlockClassLoaded
  <2>1. PICK c \in held, n \in GlobalNames("Block") :
          rootTable' = [rootTable EXCEPT ![n] = c] /\ held' = held \ {c}
    BY <1>20 DEF BlockClassLoaded
  <2>2. /\ UNCHANGED <<graph, protected, frame, status>>
        /\ waiting # None /\ self' = waiting /\ waiting' = None
    BY <1>20 DEF BlockClassLoaded
  <2>3. c \in allocated
    BY <1>a DEF InUse
  <2>4. GraphTypes' /\ Constructing'
    BY <1>a, <2>1, <2>2, <2>3 DEF GraphTypes, Constructing, graph, Address
  <2>5. RootValues' \subseteq RootValues \cup {c}
    BY <1>a, <2>1 DEF RootValues, GraphTypes
  <2>6. InUse' \subseteq InUse
    BY <2>1, <2>2 DEF InUse
  <2> QED BY <1>a, <2>2, <2>3, <2>4, <2>5, <2>6, StoreStep DEF graph, Refs
<1>21. QED
  BY <1>1, <1>2, <1>3, <1>4, <1>5, <1>6, <1>7, <1>8, <1>9, <1>10, <1>11, <1>12,
     <1>13, <1>14, <1>15, <1>16, <1>17, <1>18, <1>19, <1>20 DEF Next, Done

\* The strengthened invariant holds in every behaviour.
THEOREM HeapInductive == Spec => []HInv
<1>1. Init => HInv
  BY InitHInv
<1>2. HInv /\ [Next]_vars => HInv'
  BY NextHInv
<1>3. QED
  BY <1>1, <1>2, PTL DEF Spec

\* For any heap size, any set of globals and any program: as long as nothing in
\* use by C++ code was swept, everything that can be found from the root table
\* or from the protected array is allocated.
THEOREM RootsSurvive == Spec => []RootsIntact
<1>1. HInv => RootsIntact
  <2>1. ASSUME HInv, status = "ok"
        PROVE  Reach(RootValues \cup protected) \subseteq allocated
    <3>1. /\ allocated \in SUBSET Obj /\ Closed(allocated)
          /\ RootValues \cup protected \in SUBSET allocated
      BY <2>1 DEF HInv, GraphTypes, GraphIntact
    <3> QED BY <3>1, ReachLeast
  <2> QED BY <2>1 DEF RootsIntact
<1>2. QED
  BY <1>1, HeapInductive, PTL

\* The object table never lists a swept object and never misses one.
THEOREM ObjectTableIsHeap == Spec => []ObjectTableExact
<1>1. HInv => ObjectTableExact
  BY DEF HInv
<1>2. QED
  BY <1>1, HeapInductive, PTL


-----------------------------------------------------------------------------
(***************************************************************************)
(* Constructors.  ConstructionSafe is about a moment at which a collection *)
(* runs inside a constructor; what makes it true is about the steps the    *)
(* constructor still has to take.  In a safe factory no allocation comes   *)
(* after an "end", so as long as an allocation is ahead nothing has        *)
(* emptied the protected array since self was entered in it.               *)
(***************************************************************************)

\* The steps of a constructor.
Step ==
  {"start", "end", "int", "symbol", "meta", "class", "capture", "link", "copy", "global"}

\* The steps inside which the collector may run.
Allocating == {"int", "meta", "symbol"}

\* The steps t contain an allocation.
Allocates(t) == \E i \in 1 .. Len(t) : t[i] \in Allocating

\* The steps t allocate nothing once a bracket was closed.
EndsLast(t) ==
  \A i, j \in 1 .. Len(t) : i < j /\ t[i] = "end" => t[j] \notin Allocating

Covered ==
  /\ todo \in Seq(Step)
  /\ kind \in SafeKind => EndsLast(todo)
  /\ kind \in SafeKind /\ Allocates(todo) => self \in protected

CInv == HInv /\ Covered /\ ConstructionSafe

\* The remaining steps of a constructor are steps of it, and what follows a
\* closing bracket allocates nothing.
LEMMA TailSteps ==
  ASSUME NEW t \in Seq(Step), t # << >>
  PROVE  /\ Tail(t) \in Seq(Step)
         /\ EndsLast(t) => EndsLast(Tail(t))
         /\ Allocates(Tail(t)) => Allocates(t)
         /\ Head(t) \in Allocating => Allocates(t)
         /\ EndsLast(t) /\ Head(t) = "end" => ~Allocates(Tail(t))
<1>1. /\ Tail(t) \in Seq(Step)
      /\ Len(t) \in Nat \ {0} /\ Len(Tail(t)) = Len(t) - 1
      /\ Head(t) = t[1]
  OBVIOUS
<1>2. ASSUME NEW i \in 1 .. Len(Tail(t))
      PROVE  /\ i + 1 \in 1 .. Len(t) /\ 1 \in 1 .. Len(t) /\ 1 < i + 1
             /\ Tail(t)[i] = t[i + 1]
  BY <1>1
<1>3. EndsLast(t) => EndsLast(Tail(t))
  <2> SUFFICES ASSUME EndsLast(t), NEW i \in 1 .. Len(Tail(t)),
                      NEW j \in 1 .. Len(Tail(t)), i < j, Tail(t)[i] = "end"
               PROVE  Tail(t)[j] \notin Allocating
    BY DEF EndsLast
  <2>1. i + 1 < j + 1
    OBVIOUS
  <2> QED BY <1>2, <2>1 DEF EndsLast
<1>4. Allocates(Tail(t)) => Allocates(t)
  BY <1>2 DEF Allocates
<1>5. Head(t) \in Allocating => Allocates(t)
  BY <1>1 DEF Allocates
<1>6. EndsLast(t) /\ Head(t) = "end" => ~Allocates(Tail(t))
  BY <1>1, <1>2 DEF EndsLast, Allocates
<1>7. QED
  BY <1>1, <1>3, <1>4, <1>5, <1>6

\* VMMethod stores its integers inside its bracket, however many they are.
LEMMA NewMethodSteps == NewMethod \in Seq(Step) /\ EndsLast(NewMethod)
<1> DEFINE ints == Integers(MethodIntegers)
           front == <<"start">> \o ints
           back == <<"end", "global">>
<1>1. /\ MethodIntegers \in Nat
      /\ ints \in Seq(Step) /\ Len(ints) = MethodIntegers
      /\ \A i \in 1 .. MethodIntegers : ints[i] = "int"
  <2>1. "int" \in Step /\ MethodIntegers \in Nat
    BY HeapBoundAssumption DEF Step
  <2>2. ints = [i \in 1 .. MethodIntegers |-> "int"]
    BY DEF Integers
  <2> HIDE DEF ints
  <2> QED BY <2>1, <2>2
<1> HIDE DEF ints
<1>2. /\ front \in Seq(Step) /\ Len(front) = MethodIntegers + 1
      /\ \A i \in 1 .. Len(front) : front[i] \in {"start", "int"}
  <2>1. front \in Seq(Step) /\ Len(front) = MethodIntegers + 1
    <3>1. "start" \in Step
      BY DEF Step
    <3> QED BY <1>1, <3>1
  <2>2. ASSUME NEW i \in 1 .. Len(front)
        PROVE  front[i] \in {"start", "int"}
    <3>1. CASE i = 1
      BY <1>1, <3>1
    <3>2. CASE i # 1
      <4>1. i - 1 \in 1 .. MethodIntegers /\ front[i] = ints[i - 1]
        BY <1>1, <2>1, <3>2
      <4> QED BY <1>1, <4>1
    <3> QED BY <3>1, <3>2
  <2> QED BY <2>1, <2>2
<1> HIDE DEF front
<1>3. /\ back \in Seq(Step) /\ Len(back) = 2
      /\ \A i \in 1 .. Len(back) : back[i] \notin Allocating
  BY DEF Step, Allocating
<1> HIDE DEF back
<1>4. /\ NewMethod = front \o back
      /\ NewMethod \in Seq(Step)
      /\ Len(NewMethod) = Len(front) + Len(back)
  BY <1>2, <1>3 DEF NewMethod, front, back, ints
<1>5. ASSUME NEW i \in 1 .. Len(NewMethod), NEW j \in 1 .. Len(NewMethod),
             i < j, NewMethod[i] = "end"
      PROVE  NewMethod[j] \notin Allocating
  <2>1. ~(i <= Len(front))
    <3>1. i <= Len(front) => i \in 1 .. Len(front) /\ NewMethod[i] = front[i]
      BY <1>2, <1>3, <1>4
    <3> QED BY <1>2, <1>5, <3>1
  <2>2. /\ j - Len(front) \in 1 .. Len(back)
        /\ NewMethod[j] = back[j - Len(front)]
    BY <1>2, <1>3, <1>4, <1>5, <2>1
  <2> QED BY <1>3, <2>2
<1>6. QED
  BY <1>4, <1>5 DEF EndsLast

\* No safe factory allocates after it closed its bracket.
LEMMA FactorySteps ==
  ASSUME NEW k \in Kind
  PROVE  /\ Factory[k] \in Seq(Step)
         /\ k \in SafeKind => EndsLast(Factory[k])
<1>1. Integers(FrameIntegers) \in Seq(Step)
  <2>1. "int" \in Step /\ FrameIntegers \in Nat
    BY HeapBoundAssumption DEF Step
  <2> QED BY <2>1 DEF Integers
<1>2. VMFrame \in Seq(Step)
  <2>1. <<"start", "end", "start">> \in Seq(Step) /\ <<"end">> \in Seq(Step)
    BY DEF Step
  <2> QED BY <1>1, <2>1 DEF VMFrame
<1>3. CASE k = "Method"
  BY <1>3, NewMethodSteps DEF Factory
<1>4. CASE k = "Frame"
  <2>1. Factory[k] = VMFrame \o <<"link", "global">>
    BY <1>4 DEF Factory, NewFrame
  <2> QED BY <1>2, <1>4, <2>1 DEF SafeKind, Step
<1>5. CASE k = "EmergencyFrame"
  <2>1. Factory[k] = VMFrame \o <<"copy">>
    BY <1>5 DEF Factory, EmergencyFrameFrom
  <2> QED BY <1>2, <1>5, <2>1 DEF SafeKind, Step
<1>6. CASE k = "EvaluationPrimitive"
  BY <1>6 DEF Factory, NewEvaluationPrimitive, SafeKind, Step
<1>7. CASE k = "Plain"
  BY <1>7 DEF Factory, NewPlain, EndsLast
<1>8. CASE k \in {"Array", "Primitive"}
  <2>1. Factory[k] = <<"start", "end">>
    BY <1>8 DEF Factory, NewArray, NewPrimitive
  <2> QED BY <2>1 DEF EndsLast, Allocating, Step
<1>9. CASE k = "Block"
  <2>1. Factory[k] = <<"symbol", "class", "capture", "global">>
    BY <1>9 DEF Factory, NewBlock
  <2> QED BY <2>1 DEF EndsLast, Allocating, Step
<1>10. CASE k = "Class"
  <2>1. Factory[k] = <<"symbol", "global">>
    BY <1>10 DEF Factory, NewClass
  <2> QED BY <2>1 DEF EndsLast, Allocating, Step
<1>11. CASE k = "SystemClass"
  <2>1. Factory[k] = <<"meta", "symbol", "global">>
    BY <1>11 DEF Factory, NewSystemClass
  <2> QED BY <2>1 DEF EndsLast, Allocating, Step
<1>12. QED
  BY <1>3, <1>4, <1>5, <1>6, <1>7, <1>8, <1>9, <1>10, <1>11 DEF Kind, Factory

\* An allocation inside a constructor keeps the object under construction.
LEMMA ConstructorAllocation ==
  ASSUME CInv, NEW st \in Allocating, At(st), NEW n \in Obj, NEW gc \in BOOLEAN,
         NEW s \in Survivors(gc), Allocate(n, gc, s), UNCHANGED <<self, kind>>
  PROVE  Covered' /\ ConstructionSafe'
<1>1. /\ todo \in Seq(Step) /\ todo # << >> /\ Head(todo) = st
      /\ todo' = Tail(todo) /\ status = "ok"
  BY DEF CInv, Covered, At
<1>2. /\ s \subseteq allocated /\ protected \subseteq s
      /\ allocated' = s \cup {n} /\ protected' = protected \cup {n}
  BY <1>1, SurvivorsClosed DEF CInv, Allocate
<1>3. kind \in SafeKind => self \in protected
  BY <1>1, TailSteps DEF CInv, Covered
<1>4. QED
  BY <1>1, <1>2, <1>3, TailSteps DEF CInv, Covered, ConstructionSafe

\* Every step of a constructor, of the program and of the collector keeps the
\* object under construction.
LEMMA NextCovered ==
  ASSUME CInv, [Next]_vars
  PROVE  Covered' /\ ConstructionSafe'
<1>0. CASE UNCHANGED vars
  BY <1>0 DEF vars, CInv, Covered, ConstructionSafe
<1>i. /\ HInv /\ Covered /\ ConstructionSafe
  BY DEF CInv
<1>1. ASSUME NEW k \in Built, AllocateObject(k)
      PROVE  Covered' /\ ConstructionSafe'
  <2>1. \E n \in Obj : self' = n /\ n \in allocated' /\ n \in protected'
    BY <1>1 DEF AllocateObject, Allocate
  <2>2. kind' = k /\ todo' = Factory[k] /\ k \in Kind
    BY <1>1, BuiltAssumption DEF AllocateObject
  <2> QED BY <2>1, <2>2, FactorySteps DEF Covered, ConstructionSafe
<1>2. ASSUME NEW st, At(st), UNCHANGED <<allocated, protected, self, kind>>
      PROVE  Covered' /\ ConstructionSafe'
  <2>1. todo \in Seq(Step) /\ todo # << >> /\ todo' = Tail(todo)
    BY <1>i, <1>2 DEF Covered, At
  <2> QED BY <1>i, <1>2, <2>1, TailSteps DEF Covered, ConstructionSafe
<1>3. CASE EndUninterruptableAllocation
  <2>1. /\ todo \in Seq(Step) /\ todo # << >> /\ todo' = Tail(todo)
        /\ Head(todo) = "end" /\ UNCHANGED <<allocated, self, kind>>
    BY <1>i, <1>3 DEF Covered, At, EndUninterruptableAllocation, graph
  <2> QED BY <1>i, <2>1, TailSteps DEF Covered, ConstructionSafe
<1>4. CASE AllocatePart
  <2>1. PICK st \in Allocating : At(st)
    BY <1>4 DEF AllocatePart, Allocating
  <2>2. PICK n \in Obj, gc \in BOOLEAN : \E s \in Survivors(gc) : Allocate(n, gc, s)
    BY <1>4 DEF AllocatePart
  <2>3. PICK s \in Survivors(gc) : Allocate(n, gc, s)
    BY <2>2
  <2>4. UNCHANGED <<self, kind>>
    BY <1>4 DEF AllocatePart
  <2> QED BY <2>1, <2>3, <2>4, ConstructorAllocation
<1>5. CASE SymbolFor
  <2>0. At("symbol") /\ UNCHANGED <<self, kind>>
    BY <1>5 DEF SymbolFor
  <2>1. CASE UNCHANGED <<graph, protected, status>>
    BY <1>2, <2>0, <2>1 DEF graph
  <2>2. CASE \E n \in Obj, gc \in BOOLEAN : \E s \in Survivors(gc) :
               Allocate(n, gc, s)
    <3>1. PICK n \in Obj, gc \in BOOLEAN : \E s \in Survivors(gc) :
            Allocate(n, gc, s)
      BY <2>2
    <3>2. PICK s \in Survivors(gc) : Allocate(n, gc, s)
      BY <3>1
    <3>3. "symbol" \in Allocating
      BY DEF Allocating
    <3> QED BY <2>0, <3>2, <3>3, ConstructorAllocation
  <2> QED BY <1>5, <2>1, <2>2 DEF SymbolFor
<1>6. CASE Return
  <2>1. /\ todo = << >> /\ todo' = todo /\ self' = None
    BY <1>6 DEF Return
  <2>2. ~Allocates(todo) /\ EndsLast(todo)
    BY <2>1 DEF Allocates, EndsLast
  <2> QED BY <1>i, <2>1, <2>2 DEF Covered, ConstructionSafe
<1>7. CASE /\ UNCHANGED <<protected, self, kind, todo>>
           /\ allocated' = allocated \/ self = None
  BY <1>i, <1>7 DEF Covered, ConstructionSafe
<1>8. ASSUME FullGC \/ allocationFailure \/ SetField \/ ClearField \/ Forget
               \/ Global_put_ \/ popFrame \/ Done
      PROVE  /\ UNCHANGED <<protected, self, kind, todo>>
             /\ allocated' = allocated \/ self = None
  BY <1>8 DEF FullGC, allocationFailure, SetField, ClearField, Forget, Global_put_,
              popFrame, Done, Idle, Interpreting, graph, mutator, vars
<1>9. ASSUME StartUninterruptableAllocation \/ HasBlockClass \/ SetContext
               \/ SetPreviousFrame \/ CopyFrame \/ SetGlobal
      PROVE  /\ \E st : At(st)
             /\ UNCHANGED <<allocated, protected, self, kind>>
  BY <1>9 DEF StartUninterruptableAllocation, HasBlockClass, SetContext,
              SetPreviousFrame, CopyFrame, SetGlobal, graph
<1>10. CASE LoadBlockClass
  <2>1. todo' = << >> /\ self' = None
    BY <1>10 DEF LoadBlockClass
  <2>2. ~Allocates(todo') /\ EndsLast(todo')
    BY <2>1 DEF Allocates, EndsLast
  <2> QED BY <2>1, <2>2 DEF Covered, ConstructionSafe
<1>11. CASE BlockClassLoaded
  <2>1. todo' = <<"capture", "global">> /\ self' = waiting /\ UNCHANGED allocated
    BY <1>11 DEF BlockClassLoaded, BlockWithClass, graph
  <2>2. ~Allocates(todo') /\ EndsLast(todo') /\ todo' \in Seq(Step)
    BY <2>1 DEF Allocates, EndsLast, Allocating, Step
  <2>3. self' \in allocated'
    BY <1>i, <1>11, <2>1 DEF BlockClassLoaded, HInv, GraphIntact, InUse
  <2> QED BY <2>2, <2>3 DEF Covered, ConstructionSafe
<1>12. QED
  BY <1>0, <1>1, <1>2, <1>3, <1>4, <1>5, <1>6, <1>7, <1>8, <1>9, <1>10, <1>11 DEF Next

\* For any heap and any number of integers in a method: whatever collections its
\* own allocations cause, a method, class, array, block or primitive is not swept
\* while it is under construction.  A block whose class is being loaded is not under
\* construction in this sense: the load may sweep it.
THEOREM ConstructionIsSafe == Spec => []ConstructionSafe
<1>1. Init => CInv
  <2>1. ASSUME Init
        PROVE  /\ todo = << >> /\ self = None
    BY <2>1 DEF Init
  <2>2. ASSUME Init
        PROVE  Covered /\ ConstructionSafe
    BY <2>1, <2>2 DEF Covered, ConstructionSafe, Allocates, EndsLast
  <2> QED BY <2>2, InitHInv DEF CInv
<1>2. CInv /\ [Next]_vars => CInv'
  BY NextHInv, NextCovered DEF CInv
<1>3. CInv => ConstructionSafe
  BY DEF CInv
<1>4. QED
  BY <1>1, <1>2, <1>3, PTL DEF Spec
=============================================================================
