-------------------------------- MODULE Heap --------------------------------
(***************************************************************************)
(* The heap of SOM++ on the OMR collector: memory/Heap.cpp, the roots the  *)
(* glue hands to the collector (glue/CollectorLanguageInterfaceImpl.cpp),  *)
(* and the constructors of VM objects as far as they allocate, protect and *)
(* register objects (vm/Universe.cpp, vmobjects/).                         *)
(*                                                                         *)
(* The collector is a stop-the-world, non-moving mark and sweep that may   *)
(* run inside any allocation.  Its roots are the root table, into which    *)
(* SetGlobal writes, and the array of objects allocated since the last     *)
(* outermost EndUninterruptableAllocation.  Pointers held by C++ code (the *)
(* object under construction, locals, Interpreter::frame) are not roots.   *)
(*                                                                         *)
(* An object's fields are abstracted to sets of objects: `own' is what its *)
(* constructor stored (a frame's registers, a method's integers, a block's *)
(* method and context), `field' what the program stores; previousFrame is  *)
(* kept apart because popFrame clears it.  A swept address can be          *)
(* allocated again.  Once an object that C++ code still uses has been      *)
(* swept the program is undefined: status "corrupt" ends the behaviour.    *)
(***************************************************************************)
EXTENDS Naturals, FiniteSets, Sequences

CONSTANTS
  Obj,             \* addresses of VM objects
  None,            \* the null pointer
  Name,            \* names of globals
  FirstName,       \* the global of the first class
  FrameName,       \* frameClass->GetName()
  NewClassName,    \* "NewClass"
  Built,           \* the kinds of object the program constructs
  MethodIntegers,  \* VMIntegers a VMMethod allocates (5)
  FrameIntegers,   \* VMIntegers a VMFrame allocates (3)
  MaxHeld,         \* bound on the C++ locals that hold new objects
  MaxFields        \* bound on the stored fields at a time

ASSUME ObjAssumption ==
  /\ None \notin Obj
  /\ Obj # {}
  /\ IsFiniteSet(Obj)

ASSUME NameAssumption ==
  /\ {FirstName, FrameName, NewClassName} \subseteq Name
  /\ Cardinality({FirstName, FrameName, NewClassName}) = 3

ASSUME HeapBoundAssumption ==
  /\ MethodIntegers \in Nat \ {0}
  /\ FrameIntegers \in Nat \ {0}
  /\ MaxHeld \in Nat
  /\ MaxFields \in Nat

VARIABLES
  allocated,    \* addresses that hold an object
  objectTable,  \* OMR_VM_Example::objectTable
  own,          \* object -> what its constructor stored in its fields
  field,        \* object -> what the program stored in its fields
  prev,         \* frame -> previousFrame
  rootTable,    \* OMR_VM_Example::rootTable
  protected,    \* UninterruptableAllocationObjectArray
  counter,      \* Heap::uninterruptableCounter
  self,         \* the object under construction, or None
  kind,         \* what is being constructed
  todo,         \* the steps its constructor and factory have left
  held,         \* finished objects that only a C++ local refers to
  waiting,      \* the block for which GetBlockClassWithArgs loads a class, or None
  frame,        \* Interpreter::frame
  status

vars == <<allocated, objectTable, own, field, prev, rootTable, protected, counter,
          self, kind, todo, held, waiting, frame, status>>
graph == <<allocated, objectTable, own, field, prev>>
mutator == <<self, kind, todo, held, waiting, frame>>

Address == Obj \cup {None}

-----------------------------------------------------------------------------
(***************************************************************************)
(* What each factory of Universe does after operator new, constructor      *)
(* included.  "start" and "end" are the two UninterruptableAllocation      *)
(* calls, "int" a nested NewInteger stored in a field, "symbol" a          *)
(* SymbolFor that may allocate, "meta" the nested metaclass, "class" the   *)
(* rest of GetBlockClassWithArgs, "capture" a block's SetMethod and        *)
(* SetContext, "link" SetPreviousFrame, "copy" the body of                 *)
(* EmergencyFrameFrom, "global" the SetGlobal.                             *)
(***************************************************************************)
Integers(n) == [i \in 1 .. n |-> "int"]

\* NewInteger, NewBigInteger, NewDouble, NewString, NewSymbol and NewInstance.
NewPlain == << >>

NewArray == <<"start", "end">>

NewBlock == <<"symbol", "class", "capture", "global">>

\* What NewBlock has left to do once the block has its class.
BlockWithClass == <<"capture", "global">>

NewClass == <<"symbol", "global">>

NewSystemClass == <<"meta", "symbol", "global">>

\* Mutated form: the bracket is closed before the integers are allocated.
NewMethod_EarlyEnd ==
  <<"start", "end">> \o Integers(MethodIntegers) \o <<"global">>

NewMethod == <<"start">> \o Integers(MethodIntegers) \o <<"end", "global">>

NewPrimitive == <<"start", "end">>

NewEvaluationPrimitive == <<"symbol", "start", "end", "start", "int", "end">>

\* VMArray's constructor runs first, and its "end" closes its own bracket.
VMFrame ==
  <<"start", "end", "start">> \o Integers(FrameIntegers) \o <<"end">>

NewFrame == VMFrame \o <<"link", "global">>

EmergencyFrameFrom == VMFrame \o <<"copy">>

Factory ==
  [Plain |-> NewPlain, Array |-> NewArray, Block |-> NewBlock,
   Class |-> NewClass, SystemClass |-> NewSystemClass, Method |-> NewMethod,
   Primitive |-> NewPrimitive, EvaluationPrimitive |-> NewEvaluationPrimitive,
   Frame |-> NewFrame, EmergencyFrame |-> EmergencyFrameFrom]

Kind == DOMAIN Factory

ASSUME BuiltAssumption == Built \subseteq Kind

\* What the compiler constructs while it loads a class.
Compiled == Kind \ {"Block", "Frame", "EmergencyFrame"}

\* The names under which SetGlobal may register an object of kind k: methods and
\* blocks use a signature, which is any selector of the program.
GlobalNames(k) ==
  CASE k = "Frame" -> {FrameName}
    [] k \in {"Class", "SystemClass"} -> {NewClassName}
    [] OTHER -> Name \ {FrameName, NewClassName}

-----------------------------------------------------------------------------
(***************************************************************************)
(* Marking and sweeping.                                                   *)
(***************************************************************************)

\* The objects markingScheme_scanObject marks from o.
Refs(o) == own[o] \cup field[o] \cup ({prev[o]} \ {None})

Closed(S) == \A o \in S : Refs(o) \subseteq S

\* Everything that can be reached from S: the least closed set around it.
Reach(S) ==
  LET around == {C \in SUBSET Obj : S \subseteq C /\ Closed(C)}
  IN  {o \in Obj : \A C \in around : o \in C}

RootValues == {rootTable[n] : n \in Name} \ {None}

\* Mutated form: only the root table is scanned.
scanRoots_TableOnly == RootValues

\* markingScheme_scanRoots.
scanRoots == RootValues \cup protected

\* Until its last integer is stored, a VMMethod's numberOfConstants is nil, and
\* GetNumberOfIndexableFields reads past that object: the scan goes over an
\* unknown number of words after the method and may mark any object.
Overscan ==
  IF kind = "Method" /\ "int" \in {todo[i] : i \in DOMAIN todo}
    THEN SUBSET allocated
    ELSE {{}}

\* What C++ code holds pointers to.
InUse == ({self, waiting, frame} \ {None}) \cup held

\* Mutated form: swept objects stay in the object table.
masterCleanupAfterGC_Keep(marked) == objectTable

\* markingScheme_masterCleanupAfterGC.
masterCleanupAfterGC(marked) == objectTable \cap marked

-----------------------------------------------------------------------------
(***************************************************************************)
(* Heap::AllocateObject: the collector may run first, and runs if there is *)
(* no free address.  Every object is added to the protected array, inside  *)
(* a bracket or not, and its constructor enters it in the object table.    *)
(* n is the address and survivors what the collector, if it ran, kept.     *)
(***************************************************************************)
Survivors(gc) ==
  IF gc THEN {Reach(scanRoots) \cup Reach(extra) : extra \in Overscan}
        ELSE {allocated}

\* The fields after a collection: those of swept objects are gone.
Surviving(f, survivors) == [o \in Obj |-> IF o \in survivors THEN f[o] ELSE {}]

Allocate(n, gc, survivors) ==
  /\ n \in Obj \ survivors
  /\ allocated' = survivors \cup {n}
  /\ objectTable' = (IF gc THEN masterCleanupAfterGC(survivors) ELSE objectTable)
                       \cup {n}
  /\ protected' = protected \cup {n}
  /\ field' = Surviving(field, survivors)
  /\ prev' = [o \in Obj |-> IF o \in survivors THEN prev[o] ELSE None]
  /\ status' = IF Reach(InUse) \subseteq survivors THEN status ELSE "corrupt"

\* allocateObject finds no memory even after a collection and returns NULL; the
\* constructor then writes through it.
allocationFailure ==
  /\ status = "ok"
  /\ self = None \/ (todo # << >> /\ Head(todo) \in {"int", "meta", "symbol"})
  /\ Reach(scanRoots) = Obj
  /\ status' = "noMemory"
  /\ UNCHANGED <<graph, rootTable, protected, counter, mutator>>

\* The objects the program can get at.
Accessible == Reach(RootValues \cup ({frame} \ {None}))

-----------------------------------------------------------------------------
(***************************************************************************)
(* Constructing an object.                                                 *)
(***************************************************************************)
Init ==
  \E first \in Obj :
    /\ allocated = {first}
    /\ objectTable = {first}
    /\ own = [o \in Obj |-> {}]
    /\ field = [o \in Obj |-> {}]
    /\ prev = [o \in Obj |-> None]
    /\ rootTable = [n \in Name |-> IF n = FirstName THEN first ELSE None]
    /\ protected = {}
    /\ counter = 0
    /\ self = None
    /\ kind = "Plain"
    /\ todo = << >>
    /\ held = {}
    /\ waiting = None
    /\ frame = None
    /\ status = "ok"

\* operator new for an object of kind k.
AllocateObject(k) ==
  /\ status = "ok"
  /\ self = None
  /\ Cardinality(held) < MaxHeld
  /\ k \in {"Block", "EmergencyFrame"} => frame # None
  /\ waiting # None => k \in Compiled
  /\ \E n \in Obj, gc \in BOOLEAN : \E survivors \in Survivors(gc) :
       /\ Allocate(n, gc, survivors)
       /\ own' = Surviving(own, survivors)
       /\ self' = n
  /\ kind' = k
  /\ todo' = Factory[k]
  /\ UNCHANGED <<rootTable, counter, held, waiting, frame>>

\* The constructor of self is about to take step s.
At(s) ==
  /\ status = "ok"
  /\ todo # << >>
  /\ Head(todo) = s
  /\ todo' = Tail(todo)

StartUninterruptableAllocation ==
  /\ At("start")
  /\ counter' = counter + 1
  /\ UNCHANGED <<graph, rootTable, protected, self, kind, held, waiting, frame, status>>

EndUninterruptableAllocation ==
  /\ At("end")
  /\ counter' = counter - 1
  /\ protected' = IF counter = 1 THEN {} ELSE protected
  /\ UNCHANGED <<graph, rootTable, self, kind, held, waiting, frame, status>>

\* A nested object is allocated and stored in a field of self.
AllocatePart ==
  /\ At("int") \/ At("meta")
  /\ \E n \in Obj, gc \in BOOLEAN : \E survivors \in Survivors(gc) :
       /\ Allocate(n, gc, survivors)
       /\ own' = [Surviving(own, survivors) EXCEPT ![self] = @ \cup {n}]
  /\ UNCHANGED <<rootTable, counter, self, kind, held, waiting, frame>>

\* SymbolFor: the symbol exists, or NewSymbol allocates it.  The symbol table is
\* no root, and neither is the name of a root table entry.
SymbolFor ==
  /\ At("symbol")
  /\ \/ UNCHANGED <<graph, protected, status>>
     \/ \E n \in Obj, gc \in BOOLEAN : \E survivors \in Survivors(gc) :
          /\ Allocate(n, gc, survivors)
          /\ own' = Surviving(own, survivors)
  /\ UNCHANGED <<rootTable, counter, self, kind, held, waiting, frame>>

\* GetBlockClassWithArgs: the global of the block's class exists ...
HasBlockClass ==
  /\ At("class")
  /\ UNCHANGED <<graph, rootTable, protected, counter, self, kind, held, waiting, frame,
                 status>>

\* ... or LoadClassBasic compiles the class.  The block is in a C++ local meanwhile,
\* and the constructors of the class's parts end their brackets.
LoadBlockClass ==
  /\ status = "ok"
  /\ todo # << >> /\ Head(todo) = "class"
  /\ waiting' = self
  /\ self' = None
  /\ kind' = "Plain"
  /\ todo' = << >>
  /\ UNCHANGED <<graph, rootTable, protected, counter, held, frame, status>>

\* The class, c, is loaded and becomes a global, and NewBlock goes on.
BlockClassLoaded ==
  /\ status = "ok"
  /\ self = None
  /\ waiting # None
  /\ \E c \in held, n \in GlobalNames("Block") :
       /\ rootTable' = [rootTable EXCEPT ![n] = c]
       /\ held' = held \ {c}
  /\ self' = waiting
  /\ waiting' = None
  /\ kind' = "Block"
  /\ todo' = BlockWithClass
  /\ UNCHANGED <<graph, protected, counter, frame, status>>

\* VMBlock::SetMethod and SetContext.
SetContext ==
  /\ At("capture")
  /\ \E m \in Accessible : own' = [own EXCEPT ![self] = {m} \cup ({frame} \ {None})]
  /\ UNCHANGED <<allocated, objectTable, field, prev, rootTable, protected, counter,
                 self, kind, held, waiting, frame, status>>

SetPreviousFrame ==
  /\ At("link")
  /\ prev' = [prev EXCEPT ![self] = frame]
  /\ UNCHANGED <<allocated, objectTable, own, field, rootTable, protected, counter,
                 self, kind, held, waiting, frame, status>>

\* The emergency frame takes over the registers, the slots and the caller.
CopyFrame ==
  /\ At("copy")
  /\ frame # None
  /\ own' = [own EXCEPT ![self] = own[frame]]
  /\ field' = [field EXCEPT ![self] = field[frame]]
  /\ prev' = [prev EXCEPT ![self] = prev[frame]]
  /\ UNCHANGED <<allocated, objectTable, rootTable, protected, counter,
                 self, kind, held, waiting, frame, status>>

SetGlobal ==
  /\ At("global")
  /\ \E n \in GlobalNames(kind) : rootTable' = [rootTable EXCEPT ![n] = self]
  /\ UNCHANGED <<graph, protected, counter, self, kind, held, waiting, frame, status>>

\* The factory returns.  A frame becomes the current one (PushNewFrame, SetFrame);
\* any other object is in the hands of the caller.
Return ==
  /\ status = "ok"
  /\ self # None
  /\ todo = << >>
  /\ IF kind \in {"Frame", "EmergencyFrame"}
       THEN frame' = self /\ held' = held
       ELSE held' = held \cup {self} /\ frame' = frame
  /\ self' = None
  /\ kind' = "Plain"
  /\ UNCHANGED <<graph, rootTable, protected, counter, todo, waiting, status>>

-----------------------------------------------------------------------------
(***************************************************************************)
(* What the program does with its objects between constructions.           *)
(***************************************************************************)
Idle == status = "ok" /\ self = None

\* The interpreter runs the program, rather than the compiler a load.
Interpreting == Idle /\ waiting = None

\* VMObject::SetField, VMArray::operator[] and VMFrame::Push of a new object.
SetField ==
  /\ Idle
  /\ Cardinality({s \in Obj \X Obj : s[2] \in field[s[1]]}) < MaxFields
  /\ \E o \in Accessible, h \in held :
       /\ field' = [field EXCEPT ![o] = @ \cup {h}]
       /\ held' = held \ {h}
  /\ UNCHANGED <<allocated, objectTable, own, prev, rootTable, protected, counter,
                 self, kind, todo, waiting, frame, status>>

\* A field is overwritten, or a slot popped.
ClearField ==
  /\ Idle
  /\ \E o \in Accessible : \E v \in field[o] :
       field' = [field EXCEPT ![o] = @ \ {v}]
  /\ UNCHANGED <<allocated, objectTable, own, prev, rootTable, protected, counter,
                 mutator, status>>

\* The C++ local goes out of scope.
Forget ==
  /\ Idle
  /\ \E h \in held : held' = held \ {h}
  /\ UNCHANGED <<graph, rootTable, protected, counter, self, kind, todo, waiting,
                 frame, status>>

\* The primitive System>>global:put:.
Global_put_ ==
  /\ Interpreting
  /\ \E n \in Name \ {FrameName, NewClassName}, o \in Accessible :
       rootTable' = [rootTable EXCEPT ![n] = o]
  /\ UNCHANGED <<graph, protected, counter, mutator, status>>

\* Interpreter::popFrame.
popFrame ==
  /\ Interpreting
  /\ frame # None
  /\ prev[frame] # None
  /\ frame' = prev[frame]
  /\ prev' = [prev EXCEPT ![frame] = None]
  /\ UNCHANGED <<allocated, objectTable, own, field, rootTable, protected, counter,
                 self, kind, todo, held, waiting, status>>

\* Heap::FullGC, from the primitive System>>fullGC.
FullGC ==
  /\ Interpreting
  /\ \E survivors \in Survivors(TRUE) :
       /\ allocated' = survivors
       /\ objectTable' = masterCleanupAfterGC(survivors)
       /\ own' = Surviving(own, survivors)
       /\ field' = Surviving(field, survivors)
       /\ prev' = [o \in Obj |-> IF o \in survivors THEN prev[o] ELSE None]
       /\ status' = IF Reach(InUse) \subseteq survivors THEN status ELSE "corrupt"
  /\ UNCHANGED <<rootTable, protected, counter, mutator>>

Done == status # "ok" /\ UNCHANGED vars

Next ==
  \/ \E k \in Built : AllocateObject(k)
  \/ StartUninterruptableAllocation \/ EndUninterruptableAllocation
  \/ AllocatePart \/ SymbolFor
  \/ HasBlockClass \/ LoadBlockClass \/ BlockClassLoaded \/ SetContext
  \/ SetPreviousFrame \/ CopyFrame \/ SetGlobal \/ Return \/ allocationFailure
  \/ SetField \/ ClearField \/ Forget \/ Global_put_ \/ popFrame \/ FullGC
  \/ Done

Spec == Init /\ [][Next]_vars

-----------------------------------------------------------------------------
(***************************************************************************)
(* Properties.                                                             *)
(***************************************************************************)

\* Nothing that the collector's roots lead to is ever swept: an object that can
\* be found through a global, or that was allocated since the last
\* EndUninterruptableAllocation, holds an object, and so does everything it
\* points to (scanRoots, scanObject, Allocate, SetGlobal).
RootsIntact ==
  status = "ok" => Reach(RootValues \cup protected) \subseteq allocated

\* The object table lists exactly the objects that exist, whatever collections
\* ran and whichever addresses were used again (addToObjectTable,
\* masterCleanupAfterGC).
ObjectTableExact == objectTable = allocated

\* The kinds of object whose construction the brackets make safe.
SafeKind == Kind \ {"Frame", "EmergencyFrame", "EvaluationPrimitive"}

\* A method, class, array, block or primitive is never swept while its
\* constructor or factory still works on it, however many collections its
\* nested allocations cause.  One moment is left out: while the class of the first
\* block of an arity is loaded the block is in `waiting', and the first bracket the
\* load closes leaves it to the next collection (NewBlock, Universe.cpp:709).  What
\* the load constructs is covered, and so is the block before the load and, if it
\* was not swept in it (status), after it.
ConstructionSafe == kind \in SafeKind => self \in allocated \cup {None}

(***************************************************************************)
(* What a comment promises and the code does not keep.                     *)
(***************************************************************************)

\* The current frame is a root: the interpreter never runs on a swept frame.
CurrentFrameIntact == frame \in allocated \cup {None}
=============================================================================
