------------------------------- MODULE Classes -------------------------------
(***************************************************************************)
(* Classes as run-time objects: method tables, field layout, primitives    *)
(* and their libraries, instances (vmobjects/VMClass.cpp, VMPrimitive.cpp, *)
(* VMEvaluationPrimitive.cpp, primitivesCore/, primitives/Core.cpp and the *)
(* New... functions of vm/Universe.cpp).                                   *)
(*                                                                         *)
(* A class and its metaclass are two entries of `classes', of one name;    *)
(* the chain of a metaclass ends in Object class, Class, Object.  How a    *)
(* class file is found and parsed is the subject of Loader and Compiler:   *)
(* here a class arrives as the lists that the parser collected.  A failed  *)
(* library search or a missing routine ends the process.                   *)
(***************************************************************************)
EXTENDS Integers, Sequences, SequencesExt, FiniteSetsExt

CONSTANTS
  UserClass,    \* the names of the program's classes, in the order of loading
  ObjectTable,  \* the methods of Object.som, as [sig, primitive]
  ClassTable,   \* the methods of Class.som
  Definitions,  \* what the parser may collect for a class of the program:
                \* [fields, table, metaFields, metaTable]
  Extended,     \* the names of the classes a program extends
  BlockTable,   \* number of arguments -> the methods of that block's class
  BlockArgs,    \* numbers of arguments of the program's blocks
  Disks,        \* what the class path may hold, as sets of libraries
  Paths,        \* length of the class path
  PlainString,  \* selector -> the name of its routine, VMSymbol::GetPlainString
  EvalSelector, \* number of arguments -> selector that evaluates such a block
  MaxObjects    \* bound on the instances made

Selector == DOMAIN PlainString

(* What the parser collects for the methods of a class.                    *)
Source == Seq([sig : Selector, primitive : BOOLEAN])

ASSUME ClassesAssumption ==
  /\ {ObjectTable, ClassTable} \subseteq Source
  /\ \A d \in Definitions : /\ {d.fields, d.metaFields} \subseteq Seq(STRING)
                            /\ {d.table, d.metaTable} \subseteq Source
  /\ BlockArgs \subseteq DOMAIN BlockTable \cap DOMAIN EvalSelector
  /\ \A n \in BlockArgs : n \in Nat \ {0} /\ EvalSelector[n] \in Selector
  /\ \A d \in Disks : \A a, b \in d :
       /\ a.path \in 1 .. Paths
       /\ a.path = b.path /\ a.file = b.file => a = b
  /\ {Paths, MaxObjects} \subseteq Nat

(* The program's classes are not those of the system, which are loaded     *)
(* before.                                                                 *)
ASSUME UserClassAssumption ==
  /\ UserClass \in Seq(STRING)
  /\ \A i \in DOMAIN UserClass :
       UserClass[i] \notin {"Object", "Class", "Block", "BlockN"}

VARIABLES
  disk,     \* the libraries on the class path; never changes
  classes,  \* VMClass objects: [name, super, class, fields, table, size]
  invs,     \* VMInvokable objects: [sig, kind, routine, lib, holder, argc]
  blocks,   \* number of arguments -> class of such blocks, Nil before the first
  objects,  \* instances: [class, size]
  act,      \* the running method: [self, inv], or NoAct
  status

vars == <<disk, classes, invs, blocks, objects, act, status>>

Nil == 0
Empty == <<"empty">>
OutOfBounds == -1
NoAct == [self |-> Nil, inv |-> Nil]

Object == 1
ObjectClass == 2
Class == 3
ClassClass == 4
BlockClass == 5
Block == 6
ClassId == 1 .. Len(classes)

(* The fields VMClass adds to clazz, and those Class.som declares.         *)
ClassFields == <<"superClass", "name", "instanceFields", "instanceInvokables">>
VMClassNumberOfFields == 4

-----------------------------------------------------------------------------
(* Chains of superclasses.                                                 *)

HasSuperClass(cs, k) == cs[k].super # Nil

(* What LookupInvokable finds from each class: the first entry of its own  *)
(* table with this signature, else what the superclass finds; Nil for NULL.*)
Lookups(cs, is, sig) ==
  LET own(k) == {i \in DOMAIN cs[k].table : is[cs[k].table[i]].sig = sig}
      look[k \in 1 .. Len(cs)] ==
        IF own(k) # {} THEN cs[k].table[Min(own(k))]
        ELSE IF HasSuperClass(cs, k) THEN look[cs[k].super] ELSE Nil
  IN look

LookupInvokable(c, sig) == Lookups(classes, invs, sig)[c]

(* A mutated form of InstanceFields: a class's own fields come first.      *)
InstanceFields_OwnFirst(c) ==
  LET all[k \in ClassId] ==
        classes[k].fields \o (IF HasSuperClass(classes, k) THEN all[classes[k].super]
                              ELSE <<>>)
  IN all[c]

(* The names GetInstanceFieldName gives for the indices from 0 on: those   *)
(* of the superclass, then the class's own.                                *)
FieldNames(cs) ==
  LET all[k \in 1 .. Len(cs)] ==
        (IF HasSuperClass(cs, k) THEN all[cs[k].super] ELSE <<>>) \o cs[k].fields
  IN all

InstanceFields(c) == FieldNames(classes)[c]

GetNumberOfInstanceFields(c) == Len(InstanceFields(c))

(* The loop runs one index too far, so a name that is no field ends in the *)
(* bounds check of the array instead of -1.                                *)
LookupFieldIndex(c, name) ==
  LET names == InstanceFields(c)
      at == {i \in DOMAIN names : names[i] = name}
  IN IF at # {} THEN Min(at) - 1 ELSE OutOfBounds

(* Each class with its superclass, the superclass of that, and so on.      *)
Chains(cs) ==
  LET up[k \in 1 .. Len(cs)] ==
        {k} \cup (IF HasSuperClass(cs, k) THEN up[cs[k].super] ELSE {})
  IN up

Ancestors(c) == Chains(classes)[c]

-----------------------------------------------------------------------------
(* Making classes.                                                         *)

NoLibrary == [path |-> 0]
LibraryError == [path |-> -1]

(* A method or an empty primitive, as the parser leaves it in a list; lib  *)
(* is the library that made the routine.                                   *)
NewInvokable(m) ==
  [sig |-> m.sig, kind |-> IF m.primitive THEN "primitive" ELSE "method",
   routine |-> IF m.primitive THEN Empty ELSE <<>>, lib |-> NoLibrary,
   holder |-> Nil, argc |-> 0]

(* The invokables of a list, now held by class c.                          *)
SetInstanceInvokables(list, c) ==
  [i \in DOMAIN list |-> [NewInvokable(list[i]) EXCEPT !.holder = c]]

(* A list of n invokables that follow the first k.                         *)
Indices(k, n) == [i \in 1 .. n |-> k + i]

(* ClassGenerationContext::Assemble: the metaclass, then the class, below  *)
(* class super and its metaclass.  NewClass asks for the fields of Class   *)
(* twice: once by number, once because it makes a VMClass.                 *)
Assemble(name, super, def) ==
  LET m == Len(classes) + 1
      k == Len(invs)
      n == Len(def.metaTable)
      meta == [name |-> name, super |-> classes[super].class, class |-> Nil,
               fields |-> def.metaFields, table |-> Indices(k, n),
               size |-> GetNumberOfInstanceFields(Class) + VMClassNumberOfFields + 1]
      metaCount == Len(def.metaFields) + GetNumberOfInstanceFields(meta.super)
      new == [name |-> name, super |-> super, class |-> m, fields |-> def.fields,
              table |-> Indices(k + n, Len(def.table)),
              size |-> metaCount + VMClassNumberOfFields + 1]
  IN [classes |-> classes \o << meta, new >>,
      invs |-> invs \o SetInstanceInvokables(def.metaTable, m)
                    \o SetInstanceInvokables(def.table, m + 1)]

-----------------------------------------------------------------------------
(* Primitive libraries.                                                    *)

(* loadLib: the library file in directory p, NoLibrary if there is none.   *)
loadLib(p, file) ==
  IF \E l \in disk : l.path = p /\ l.file = file
  THEN CHOOSE l \in disk : l.path = p /\ l.file = file
  ELSE NoLibrary

(* A mutated form of LibraryAt: the library of the class's own name is not *)
(* asked whether it supports the class.                                    *)
LibraryAt_Unasked(p, cname) ==
  LET core == loadLib(p, "SOMCore")
      own == loadLib(p, cname)
  IN IF core # NoLibrary /\ ~core.format THEN LibraryError
     ELSE IF core # NoLibrary /\ cname \in core.supports THEN core
     ELSE own

(* What LoadPrimitives makes of one directory of the class path: the       *)
(* library to use, NoLibrary to go on with the next directory, or          *)
(* LibraryError for ErrorExit.  The core library is asked first.           *)
LibraryAt(p, cname) ==
  LET core == loadLib(p, "SOMCore")
      own == loadLib(p, cname)
  IN IF core # NoLibrary /\ ~core.format THEN LibraryError
     ELSE IF core # NoLibrary /\ cname \in core.supports THEN core
     ELSE IF own = NoLibrary THEN NoLibrary
     ELSE IF own.format /\ cname \in own.supports THEN own
     ELSE LibraryError

(* The first directory with an outcome decides; NoLibrary when the class   *)
(* path is exhausted.                                                      *)
SearchLibrary(cname) ==
  LET hits == {p \in 1 .. Paths : LibraryAt(p, cname) # NoLibrary}
  IN IF hits = {} THEN NoLibrary ELSE LibraryAt(Min(hits), cname)

Routine(cname, sig) == << cname, PlainString[sig] >>

IsPrimitive(v) == v.kind # "method"

(* setPrimitives: every primitive of the table gets its routine from the   *)
(* library.                                                                *)
setPrimitives(is, table, cname, lib) ==
  [i \in DOMAIN is |->
     IF \E j \in DOMAIN table : table[j] = i /\ IsPrimitive(is[i])
     THEN [is[i] EXCEPT !.routine = Routine(cname, is[i].sig), !.lib = lib]
     ELSE is[i]]

(* Both the class and its metaclass get the routines of the class's name.  *)
LoadPrimitives(cs, is, c, lib) ==
  setPrimitives(setPrimitives(is, cs[c].table, cs[c].name, lib),
                cs[cs[c].class].table, cs[c].name, lib)

(* Every routine that LoadPrimitives asks the library for exists.          *)
HasRoutines(l, cs, is, c) ==
  \A t \in {cs[c].table, cs[cs[c].class].table} :
    \A j \in DOMAIN t :
      IsPrimitive(is[t[j]]) => Routine(cs[c].name, is[t[j]].sig) \in l.routines

HasPrimitives(cs, is, c) ==
  \E j \in DOMAIN cs[c].table : IsPrimitive(is[cs[c].table[j]])

-----------------------------------------------------------------------------
(* Actions.                                                                *)

(* The state InitializeGlobals leaves, cut down to the classes that other  *)
(* classes inherit from: Object, Class and Block.  Their primitives were   *)
(* loaded from the class path too (LoadSystemClass).                       *)
SystemClass(name, super, class, fields, table, size) ==
  [name |-> name, super |-> super, class |-> class, fields |-> fields,
   table |-> table, size |-> size]

BlockSource == << [sig |-> "value", primitive |-> TRUE] >>

(* The methods of a system class, with their routines.                     *)
LoadSystemClass(list, c, name) ==
  setPrimitives(SetInstanceInvokables(list, c), Indices(0, Len(list)), name,
                SearchLibrary(name))

(* The library search for a system class, and for the routines in its      *)
(* list, did not fail.                                                     *)
SystemLibrary(list, name) ==
  /\ SearchLibrary(name) \notin {NoLibrary, LibraryError}
  /\ \A i \in DOMAIN list :
       list[i].primitive => Routine(name, list[i].sig) \in SearchLibrary(name).routines

Init ==
  /\ disk \in Disks
  /\ SystemLibrary(ObjectTable, "Object")
  /\ SystemLibrary(ClassTable, "Class")
  /\ SystemLibrary(BlockSource, "Block")
  /\ LET k == Len(ObjectTable)
         n == Len(ClassTable)
     IN /\ classes = <<
             SystemClass("Object", Nil, ObjectClass, <<"class">>, Indices(0, k), 5),
             SystemClass("Object", Class, Nil, <<>>, <<>>, 5),
             SystemClass("Class", Object, ClassClass, ClassFields, Indices(k, n), 5),
             SystemClass("Class", ObjectClass, Nil, <<>>, <<>>, 5),
             SystemClass("Block", ObjectClass, Nil, <<>>, <<>>, 10),
             SystemClass("Block", Object, BlockClass, <<"method", "context">>,
                         Indices(k + n, 1), 10) >>
        /\ invs = LoadSystemClass(ObjectTable, Object, "Object")
                  \o LoadSystemClass(ClassTable, Class, "Class")
                  \o LoadSystemClass(BlockSource, Block, "Block")
  /\ blocks = [n \in BlockArgs |-> Nil]
  /\ objects = <<>>
  /\ act = NoAct
  /\ status = "running"

UserCount == Cardinality({c \in ClassId :
               classes[c].class # Nil /\ Contains(UserClass, classes[c].name)})

Stop(how) ==
  /\ status' = how
  /\ UNCHANGED <<disk, classes, invs, blocks, objects, act>>

(* Universe::LoadClass of the next class: assemble it and, if it or its    *)
(* metaclass has primitives, load them.                                    *)
LoadClass(super, def) ==
  /\ status = "running"
  /\ UserCount < Len(UserClass)
  /\ classes[super].class # Nil
  /\ classes[super].name \in Extended
  /\ LET name == UserClass[UserCount + 1]
         new == Assemble(name, super, def)
         c == Len(new.classes)
         lib == SearchLibrary(name)
     IN IF ~ (\/ HasPrimitives(new.classes, new.invs, c)
              \/ HasPrimitives(new.classes, new.invs, new.classes[c].class))
        THEN /\ classes' = new.classes
             /\ invs' = new.invs
             /\ UNCHANGED <<disk, blocks, objects, act, status>>
        ELSE IF /\ lib \notin {NoLibrary, LibraryError}
                /\ HasRoutines(lib, new.classes, new.invs, c)
        THEN /\ classes' = new.classes
             /\ invs' = LoadPrimitives(new.classes, new.invs, c, lib)
             /\ UNCHANGED <<disk, blocks, objects, act, status>>
        ELSE Stop("quit")

(* A mutated form of AddInstanceInvokable: it always extends the table.    *)
AddInstanceInvokable_Extend(cs, is, c, v) ==
  [classes |-> [cs EXCEPT ![c].table = Append(@, Len(is) + 1)],
   invs |-> Append(is, v)]

(* An entry of the same signature is replaced, and the new invokable's     *)
(* holder is set; otherwise the table is extended, and it is not.          *)
AddInstanceInvokable(cs, is, c, v) ==
  LET same == {i \in DOMAIN cs[c].table : is[cs[c].table[i]].sig = v.sig}
      n == Len(is) + 1
  IN IF same # {}
     THEN [classes |-> [cs EXCEPT ![c].table[Min(same)] = n],
           invs |-> Append(is, [v EXCEPT !.holder = c])]
     ELSE [classes |-> [cs EXCEPT ![c].table = Append(@, n)],
           invs |-> Append(is, v)]

(* The loop that should add `with:' parts computes a string and drops it.  *)
computeSignatureString(argc) == IF argc = 1 THEN "value" ELSE "value:"

(* Block.som declares `value', and the class file of each kind of block    *)
(* declares the signature its evaluation primitive gets.                   *)
ASSUME BlockTableAssumption ==
  /\ "value" \in Selector
  /\ \A n \in BlockArgs :
       /\ BlockTable[n] \in Source
       /\ \E i \in DOMAIN BlockTable[n] :
            BlockTable[n][i].sig = computeSignatureString(n)

VMEvaluationPrimitive(argc) ==
  [sig |-> computeSignatureString(argc), kind |-> "evaluation",
   routine |-> <<"evaluationRoutine">>, lib |-> NoLibrary, holder |-> Nil, argc |-> argc]

(* What Block1.som, Block2.som, ... hold.                                  *)
BlockDefinition(n) ==
  [fields |-> <<>>, table |-> BlockTable[n], metaFields |-> <<>>, metaTable |-> <<>>]

(* The first block of n arguments: its class is assembled, its primitives  *)
(* are not loaded, and the evaluation primitive is added.                  *)
GetBlockClassWithArgs(n) ==
  /\ status = "running"
  /\ blocks[n] = Nil
  /\ LET new == Assemble("BlockN", Block, BlockDefinition(n))
         c == Len(new.classes)
         added == AddInstanceInvokable(new.classes, new.invs, c,
                                       VMEvaluationPrimitive(n))
     IN /\ classes' = added.classes
        /\ invs' = added.invs
        /\ blocks' = [blocks EXCEPT ![n] = c]
  /\ UNCHANGED <<disk, objects, act, status>>

(* A mutated form of NewInstance: inherited fields are forgotten.          *)
NewInstance_OwnFields(c) ==
  /\ status = "running"
  /\ Len(objects) < MaxObjects
  /\ classes[c].class # Nil
  /\ objects' = Append(objects, [class |-> c, size |-> Len(classes[c].fields) + 1])
  /\ UNCHANGED <<disk, classes, invs, blocks, act, status>>

(* Class>>new: room for every field but the first, which every VMObject    *)
(* has.                                                                    *)
NewInstance(c) ==
  /\ status = "running"
  /\ Len(objects) < MaxObjects
  /\ classes[c].class # Nil
  /\ objects' = Append(objects, [class |-> c,
                                 size |-> GetNumberOfInstanceFields(c) - 1 + 1])
  /\ UNCHANGED <<disk, classes, invs, blocks, act, status>>

(* Interpreter::send to an instance; a failed lookup ends in               *)
(* doesNotUnderstand, see Interpreter.                                     *)
send(o, sig) ==
  /\ status = "running"
  /\ LET v == LookupInvokable(objects[o].class, sig)
     IN /\ v # Nil
        /\ act' = [self |-> o, inv |-> v]
  /\ UNCHANGED <<disk, classes, invs, blocks, objects, status>>

(* A mutated form of SuperStart: the receiver's class instead of the       *)
(* holder's superclass.                                                    *)
SuperStart_Receiver == classes[objects[act.self].class].super

(* Where doSuperSend starts: the superclass of the running method's holder *)
SuperStart == classes[invs[act.inv].holder].super

doSuperSend(sig) ==
  /\ status = "running"
  /\ act # NoAct
  /\ invs[act.inv].kind = "method"
  /\ IF SuperStart = Nil THEN Stop("crash")
     ELSE LET v == LookupInvokable(SuperStart, sig)
          IN /\ v # Nil
             /\ act' = [act EXCEPT !.inv = v]
             /\ UNCHANGED <<disk, classes, invs, blocks, objects, status>>

Done == status # "running" /\ UNCHANGED vars

Next ==
  \/ \E c \in ClassId, d \in Definitions : LoadClass(c, d)
  \/ \E n \in BlockArgs : GetBlockClassWithArgs(n)
  \/ \E c \in ClassId : NewInstance(c)
  \/ \E o \in DOMAIN objects, s \in Selector : send(o, s)
  \/ \E s \in Selector : doSuperSend(s)
  \/ Done

Spec == Init /\ [][Next]_vars

-----------------------------------------------------------------------------
(* Properties.                                                             *)

(* FieldsInBounds: a field that the compiler accepted in a method of some  *)
(* class is found by LookupFieldIndex in every receiver that can run the   *)
(* method, instance or class, and its index lies within that object; the   *)
(* accesses in doPushField and doPopField are not checked.                 *)
FieldsInBounds ==
  /\ \A o \in DOMAIN objects : \A k \in Ancestors(objects[o].class) :
       \A f \in Range(classes[k].fields) :
         LookupFieldIndex(objects[o].class, f) \in 0 .. objects[o].size - 1
  /\ \A c \in ClassId : classes[c].class # Nil =>
       \A k \in Ancestors(classes[c].class) :
         \A f \in Range(classes[k].fields) :
           LookupFieldIndex(classes[c].class, f) \in 0 .. classes[c].size - 1

(* SlotShared: a method and the methods it inherits or is inherited with   *)
(* agree on where a field is: the index found from any subclass is the one *)
(* found from the class that declares the field.                           *)
SlotShared ==
  \A c \in ClassId : \A k \in Ancestors(c) :
    \A f \in Range(classes[k].fields) :
      LookupFieldIndex(c, f) = LookupFieldIndex(k, f)

(* PrimitivesBound: a class that LoadClass returned has no primitive left  *)
(* empty, on either side; each one runs the routine of its own class and   *)
(* selector, and has it from a library on the class path that says it      *)
(* supports the class (supportsClass) and makes that routine: never from   *)
(* one that merely has a routine of that name, though another library may  *)
(* support the class.  Block1, Block2, ... get no routines.                *)
PrimitivesBound ==
  \A c \in ClassId : classes[c].name # "BlockN" =>
    \A i \in DOMAIN classes[c].table :
      LET v == invs[classes[c].table[i]]
      IN v.kind = "primitive" =>
           /\ v.routine = Routine(classes[c].name, v.sig)
           /\ v.lib \in disk
           /\ v.lib.format
           /\ classes[c].name \in v.lib.supports
           /\ v.routine \in v.lib.routines

(* SuperAscends: a super send leaves the class of the running method: what *)
(* it runs is held by a proper ancestor of that method's holder, so super  *)
(* sends cannot come back to the method they are in.                       *)
SuperAscends ==
  [][act' # act /\ act'.self = act.self /\ act # NoAct
     /\ (\E s \in Selector : doSuperSend(s))
     => invs[act'.inv].holder \in Ancestors(invs[act.inv].holder)
                                    \ {invs[act.inv].holder}]_vars

(* In the class of blocks of n arguments the selector is answered by the   *)
(* evaluation primitive for just that number.                              *)
Evaluates(n, sig) ==
  LET v == LookupInvokable(blocks[n], sig)
  IN v # Nil /\ invs[v].kind = "evaluation" /\ invs[v].argc = n

(* EvaluationFound: the evaluation primitive that GetBlockClassWithArgs    *)
(* adds is what the lookup of its signature finds, whatever the block's    *)
(* class file, its superclass and the order of its methods.                *)
EvaluationFound ==
  \A n \in BlockArgs : blocks[n] # Nil => Evaluates(n, computeSignatureString(n))

(* EvaluationBound: the class of a block answers the selector that         *)
(* evaluates blocks of so many arguments, the one the class file declares  *)
(* as a primitive, with the evaluation primitive.  The code breaks it for  *)
(* blocks of two parameters and more: the primitive is added as `value:',  *)
(* and `value:with:' stays empty.                                          *)
EvaluationBound ==
  \A n \in BlockArgs : blocks[n] # Nil => Evaluates(n, EvalSelector[n])
=============================================================================
