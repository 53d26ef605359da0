------------------------------- MODULE Loader -------------------------------
(***************************************************************************)
(* Class loading: Universe::LoadClass and its relatives (vm/Universe.cpp), *)
(* SourcecodeCompiler and ClassGenerationContext (compiler/), and the      *)
(* method System>>resolve: of Smalltalk/System.som that calls them.        *)
(*                                                                         *)
(* Loading recurs: to assemble a class its superclass is loaded, through   *)
(* the one compiler object and its one parser pointer.  `calls' is the C++ *)
(* call stack, innermost call first; a call that returns leaves its value  *)
(* in `result' for the call below it.                                      *)
(*                                                                         *)
(* A class stands for itself and its metaclass.  Globals that are not      *)
(* classes are all Other: every method, block and frame the Universe makes *)
(* is stored under a global name, to keep it from the collector.           *)
(***************************************************************************)
EXTENDS Integers, Sequences, FiniteSets

CONSTANTS
  Name,        \* names of globals: class names, selectors, "NewClass"
  SystemClass, \* the classes InitializeGlobals makes, in order, then loads
  SystemSuper, \* their superclasses by position, 0 for Object's
  CoreClass,   \* the classes it loads by LoadClass, in order: Block, System
  BlockClass,  \* the class names Block1 ... that blocks may need
  UserClass,   \* class names a program may resolve or load
  Files,       \* files a class path may hold
  Statements,  \* classes the shell wraps around its statements
  Paths,       \* length of the class path
  MaxClasses,  \* bound on the classes made
  MaxCalls     \* how deep calls may nest before the C++ stack overflows

Path == 1 .. Paths

ASSUME LoaderAssumption ==
  /\ "NewClass" \in Name
  /\ "Frame" \in Name
  /\ SystemClass \in Seq(Name)
  /\ CoreClass \in Seq(Name)
  /\ BlockClass \cup UserClass \subseteq Name
  /\ DOMAIN SystemSuper = 1 .. Len(SystemClass)
  /\ \A i \in 1 .. Len(SystemClass) : SystemSuper[i] \in 0 .. i - 1
  /\ Files \subseteq [path : Path, file : Name, class : Name, super : Name,
                      selectors : SUBSET Name]
  /\ Statements \subseteq [path : {0}, file : Name, class : Name, super : Name,
                           selectors : SUBSET Name]
  /\ {Paths, MaxClasses, MaxCalls} \subseteq Nat

VARIABLES
  disk,     \* the files on the class path; never changes
  globals,  \* the root table: Null, Other or a class
  classes,  \* the classes made so far, as [name, super, path]
  calls,    \* the call stack
  result,   \* what the last call returned: Null or a class
  parser,   \* SourcecodeCompiler::parser, NoParser for NULL
  live,     \* parsers that are made and not yet deleted
  parsers,  \* how many parsers were made
  booted,   \* how many classes InitializeGlobals has loaded
  core,     \* blockClass, systemClass: the core classes it has loaded
  status

vars == <<disk, globals, classes, calls, result, parser, live, parsers, booted,
          core, status>>
parserVars == <<parser, live, parsers>>
bootVars == <<booted, core>>

Null == 0
Other == -1
NoParser == 0
Class == 1 .. Len(classes)

NoFile == [path |-> 0]

-----------------------------------------------------------------------------
(* The call stack.                                                         *)

LoadClassCall(name) == [fn |-> "LoadClass", name |-> name]
LoadClassEndCall(name) == [fn |-> "LoadClassEnd", name |-> name]
LoadClassBasicCall(name, path, system) ==
  [fn |-> "LoadClassBasic", name |-> name, path |-> path, system |-> system]
AssembleCall(file, name) == [fn |-> "Assemble", file |-> file, name |-> name]
Caller(fn, name) == [fn |-> fn, name |-> name]

Running(fn) == status = "running" /\ calls # <<>> /\ calls[1].fn = fn
Becomes(newCalls) == calls' = newCalls \o Tail(calls)
Returns(value) == result' = value /\ calls' = Tail(calls)

SetGlobals(names, value) ==
  [n \in Name |-> IF n \in names THEN value ELSE globals[n]]

-----------------------------------------------------------------------------
(* Start-up: every system class is made and registered before the first of *)
(* them is loaded.                                                         *)

Init ==
  /\ disk \in {d \in SUBSET Files :
                 \A f, g \in d : f.path = g.path /\ f.file = g.file => f = g}
  /\ classes = [i \in 1 .. Len(SystemClass) |->
                  [name |-> SystemClass[i], super |-> SystemSuper[i], path |-> 0]]
  /\ globals = [n \in Name |->
                  IF \E i \in DOMAIN SystemClass : SystemClass[i] = n
                  THEN CHOOSE i \in DOMAIN SystemClass : SystemClass[i] = n
                  ELSE Null]
  /\ calls = <<>>
  /\ result = Null
  /\ parser = NoParser /\ live = {} /\ parsers = 0
  /\ booted = 0
  /\ core = <<>>
  /\ status = "running"

Toload == SystemClass \o CoreClass
Booting == status = "running" /\ calls = <<>> /\ booted < Len(Toload)
Booted == status = "running" /\ calls = <<>> /\ booted = Len(Toload) + 1

LoadSystemClass ==
  /\ Booting
  /\ booted < Len(SystemClass)
  /\ LET i == booted + 1
     IN calls' = << LoadClassBasicCall(SystemClass[i], 1, i),
                    Caller("LoadSystemClassEnd", SystemClass[i]) >>
  /\ UNCHANGED <<disk, globals, classes, result, parserVars, bootVars, status>>

(* The file may be missing, or the library of the class's primitives.      *)
LoadSystemClassEnd ==
  /\ Running("LoadSystemClassEnd")
  /\ calls' = Tail(calls)
  /\ booted' = booted + 1
  /\ status' \in IF result = Null THEN {"quit"} ELSE {status, "quit"}
  /\ UNCHANGED <<disk, globals, classes, result, parserVars, core>>

LoadCoreClass ==
  /\ Booting
  /\ booted >= Len(SystemClass)
  /\ calls' = << LoadClassCall(Toload[booted + 1]),
                 Caller("LoadCoreClassEnd", Toload[booted + 1]) >>
  /\ UNCHANGED <<disk, globals, classes, result, parserVars, bootVars, status>>

LoadCoreClassEnd ==
  /\ Running("LoadCoreClassEnd")
  /\ calls' = Tail(calls)
  /\ booted' = booted + 1
  /\ core' = Append(core, result)
  /\ UNCHANGED <<disk, globals, classes, result, parserVars, status>>

(* Universe::initialize registers the core classes after all are loaded    *)
(* and pushes the bootstrap frame; every frame becomes the global Frame.   *)
(* True and False, loaded between Block and System for trueObject and      *)
(* falseObject, and their superclass Boolean are not among CoreClass: they *)
(* are never registered, so that no later load finds them and a program    *)
(* that names them loads its own, as it does any class of UserClass.       *)
initialize ==
  /\ status = "running" /\ calls = <<>> /\ booted = Len(Toload)
  /\ globals' = [n \in Name |->
                   IF n = "Frame" THEN Other
                   ELSE IF \E i \in DOMAIN CoreClass : CoreClass[i] = n
                   THEN core[CHOOSE i \in DOMAIN CoreClass : CoreClass[i] = n]
                   ELSE globals[n]]
  /\ booted' = booted + 1
  /\ UNCHANGED <<disk, classes, calls, result, parserVars, core, status>>

-----------------------------------------------------------------------------
(* Who asks for a class once the program runs.                             *)

(* System>>resolve: of a name that is no global yet.                       *)
resolve(name) ==
  /\ Booted
  /\ globals[name] = Null
  /\ calls' = << LoadClassCall(name), Caller("resolveEnd", name) >>
  /\ UNCHANGED <<disk, globals, classes, result, parserVars, bootVars, status>>

(* The primitive System>>load:, which registers nothing.                   *)
Load_(name) ==
  /\ Booted
  /\ calls' = << LoadClassCall(name) >>
  /\ UNCHANGED <<disk, globals, classes, result, parserVars, bootVars, status>>

(* A block literal is pushed: NewBlock needs its class.                    *)
GetBlockClassWithArgs(name) ==
  /\ Booted
  /\ globals[name] = Null
  /\ calls' = << LoadClassBasicCall(name, 1, Null),
                 Caller("GetBlockClassWithArgsEnd", name) >>
  /\ UNCHANGED <<disk, globals, classes, result, parserVars, bootVars, status>>

(* AddInstancePrimitive is called on what LoadClassBasic returned.         *)
GetBlockClassWithArgsEnd ==
  /\ Running("GetBlockClassWithArgsEnd")
  /\ calls' = Tail(calls)
  /\ status' = IF result = Null THEN "crash" ELSE status
  /\ globals' = IF result = Null THEN globals
                ELSE SetGlobals({calls[1].name}, result)
  /\ UNCHANGED <<disk, classes, result, parserVars, bootVars>>

(* The shell compiles a class of its own around each statement.            *)
CompileClassString(file) ==
  /\ Booted
  /\ parsers' = parsers + 1
  /\ parser' = parsers'
  /\ live' = (live \ {parser}) \cup {parser'}
  /\ globals' = SetGlobals(file.selectors, Other)
  /\ calls' = << LoadClassCall(file.super), AssembleCall(file, file.class) >>
  /\ UNCHANGED <<disk, classes, result, bootVars, status>>

(* A mutated form of Unregistered: only the class itself.                  *)
Unregistered_NoSupers(c) == IF globals[classes[c].name] # Null THEN {} ELSE {c}

(* The ancestors of class c that resolve: registers, c itself first: up to *)
(* the first whose name is a global.                                       *)
Unregistered(c) ==
  LET up[k \in 0 .. Len(classes)] ==
        IF k = 0 THEN {}
        ELSE IF globals[classes[k].name] # Null THEN {}
        ELSE {k} \cup up[classes[k].super]
  IN up[c]

resolveEnd ==
  /\ Running("resolveEnd")
  /\ calls' = Tail(calls)
  /\ LET new == Unregistered(result)
     IN globals' = [n \in Name |->
                      IF \E k \in new : classes[k].name = n
                      THEN CHOOSE k \in new : classes[k].name = n
                      ELSE globals[n]]
  /\ UNCHANGED <<disk, classes, result, parserVars, bootVars, status>>

-----------------------------------------------------------------------------
(* LoadClass.                                                              *)

(* The C++ stack is exhausted before the next call is made.                *)
Overflow ==
  /\ Running("LoadClass")
  /\ Len(calls) > MaxCalls
  /\ status' = "overflow"
  /\ UNCHANGED <<disk, globals, classes, calls, result, parserVars, bootVars>>

(* The name is a global: dynamic_cast<pVMClass> of its value.              *)
LoadClassGlobal ==
  /\ Running("LoadClass")
  /\ globals[calls[1].name] # Null
  /\ Returns(IF globals[calls[1].name] = Other THEN Null ELSE globals[calls[1].name])
  /\ UNCHANGED <<disk, globals, classes, parserVars, bootVars, status>>

(* A mutated form of LoadClass: a class that is a global is loaded again.  *)
LoadClass_Always ==
  /\ Running("LoadClass")
  /\ Len(calls) <= MaxCalls
  /\ Becomes(<< LoadClassBasicCall(calls[1].name, 1, Null),
                LoadClassEndCall(calls[1].name) >>)
  /\ UNCHANGED <<disk, globals, classes, result, parserVars, bootVars, status>>

LoadClass ==
  /\ Running("LoadClass")
  /\ globals[calls[1].name] = Null
  /\ Len(calls) <= MaxCalls
  /\ Becomes(<< LoadClassBasicCall(calls[1].name, 1, Null),
                LoadClassEndCall(calls[1].name) >>)
  /\ UNCHANGED <<disk, globals, classes, result, parserVars, bootVars, status>>

(* The class was found, and so was a library for its primitives if it has  *)
(* any; otherwise the process exits.                                       *)
LoadClassEnd ==
  /\ Running("LoadClassEnd")
  /\ \/ /\ result # Null
        /\ Returns(result)
        /\ UNCHANGED status
     \/ /\ status' = "quit"
        /\ UNCHANGED <<calls, result>>
  /\ UNCHANGED <<disk, globals, classes, parserVars, bootVars>>

FileAt(path, name) ==
  IF \E f \in disk : f.path = path /\ f.file = name
  THEN CHOOSE f \in disk : f.path = path /\ f.file = name
  ELSE NoFile

(* A mutated form of LoadClassBasicNext: a file may be passed over.        *)
LoadClassBasicNext_Skip ==
  /\ Running("LoadClassBasic")
  /\ calls[1].path <= Paths
  /\ Becomes(<< [calls[1] EXCEPT !.path = @ + 1] >>)
  /\ UNCHANGED <<disk, globals, classes, result, parserVars, bootVars, status>>

(* CompileClass finds no file on this path.                                *)
LoadClassBasicNext ==
  /\ Running("LoadClassBasic")
  /\ calls[1].path <= Paths
  /\ FileAt(calls[1].path, calls[1].name) = NoFile
  /\ Becomes(<< [calls[1] EXCEPT !.path = @ + 1] >>)
  /\ UNCHANGED <<disk, globals, classes, result, parserVars, bootVars, status>>

LoadClassBasicFails ==
  /\ Running("LoadClassBasic")
  /\ calls[1].path > Paths
  /\ Returns(Null)
  /\ UNCHANGED <<disk, globals, classes, parserVars, bootVars, status>>

(* CompileClass: a new parser, Classdef over the whole file, then the      *)
(* superclass is loaded for Assemble.                                      *)
CompileClass ==
  /\ Running("LoadClassBasic")
  /\ calls[1].path <= Paths
  /\ calls[1].system = Null
  /\ LET f == FileAt(calls[1].path, calls[1].name)
     IN /\ f # NoFile
        /\ globals' = SetGlobals(f.selectors, Other)
        /\ calls' = << LoadClassCall(f.super), AssembleCall(f, calls[1].name) >>
                    \o calls
  /\ parsers' = parsers + 1
  /\ parser' = parsers'
  /\ live' = (live \ {parser}) \cup {parser'}
  /\ UNCHANGED <<disk, classes, result, bootVars, status>>

(* CompileClass of a system class: AssembleSystemClass fills the class     *)
(* that exists, under the name it has.                                     *)
CompileSystemClass ==
  /\ Running("LoadClassBasic")
  /\ calls[1].path <= Paths
  /\ calls[1].system # Null
  /\ LET f == FileAt(calls[1].path, calls[1].name)
     IN /\ f # NoFile
        /\ globals' = SetGlobals(f.selectors, Other)
  /\ Returns(calls[1].system)
  /\ parsers' = parsers + 1
  /\ parser' = NoParser
  /\ live' = live \ {parser}
  /\ UNCHANGED <<disk, classes, bootVars, status>>

(* The end of Assemble when the superclass is NULL.                        *)
AssembleCrash ==
  /\ Running("Assemble")
  /\ result = Null
  /\ status' = "crash"
  /\ UNCHANGED <<disk, globals, classes, calls, result, parserVars, bootVars>>

NewClassOf(f) == [name |-> f.class, super |-> result, path |-> f.path]

(* A mutated form of Assemble: the deleted parser stays in the pointer.    *)
Assemble_KeepPointer ==
  /\ Running("Assemble")
  /\ result # Null
  /\ Len(classes) < MaxClasses
  /\ calls[1].file.class = calls[1].name
  /\ classes' = Append(classes, NewClassOf(calls[1].file))
  /\ globals' = SetGlobals({"NewClass"}, Len(classes'))
  /\ result' = Len(classes')
  /\ calls' = IF calls[1].file.path = 0 THEN Tail(calls) ELSE Tail(Tail(calls))
  /\ parser' = parser
  /\ live' = live \ {parser}
  /\ UNCHANGED <<disk, parsers, bootVars, status>>

(* Assemble makes the class; CompileClass deletes its parser and           *)
(* LoadClassBasic returns.                                                 *)
Assemble ==
  /\ Running("Assemble")
  /\ result # Null
  /\ Len(classes) < MaxClasses
  /\ calls[1].file.class = calls[1].name
  /\ classes' = Append(classes, NewClassOf(calls[1].file))
  /\ globals' = SetGlobals({"NewClass"}, Len(classes'))
  /\ result' = Len(classes')
  /\ calls' = IF calls[1].file.path = 0 THEN Tail(calls) ELSE Tail(Tail(calls))
  /\ parser' = NoParser
  /\ live' = live \ {parser}
  /\ UNCHANGED <<disk, parsers, bootVars, status>>

(* The file defines a class of another name: CompileClass returns NULL,    *)
(* before it deletes the parser, and LoadClassBasic tries the next path.   *)
AssembleMismatch ==
  /\ Running("Assemble")
  /\ result # Null
  /\ Len(classes) < MaxClasses
  /\ calls[1].file.class # calls[1].name
  /\ classes' = Append(classes, NewClassOf(calls[1].file))
  /\ globals' = SetGlobals({"NewClass"}, Len(classes'))
  /\ calls' = << [calls[2] EXCEPT !.path = @ + 1] >> \o Tail(Tail(calls))
  /\ UNCHANGED <<disk, result, parserVars, bootVars, status>>

Done ==
  /\ \/ status # "running"
     \/ Running("Assemble") /\ result # Null /\ Len(classes) = MaxClasses
  /\ UNCHANGED vars

Next ==
  \/ LoadSystemClass \/ LoadSystemClassEnd
  \/ LoadCoreClass \/ LoadCoreClassEnd \/ initialize
  \/ \E n \in UserClass : resolve(n) \/ Load_(n)
  \/ \E n \in BlockClass : GetBlockClassWithArgs(n)
  \/ \E f \in Statements : CompileClassString(f)
  \/ GetBlockClassWithArgsEnd \/ resolveEnd
  \/ Overflow \/ LoadClassGlobal \/ LoadClass \/ LoadClassEnd
  \/ LoadClassBasicNext \/ LoadClassBasicFails \/ CompileClass
  \/ CompileSystemClass \/ AssembleCrash \/ Assemble \/ AssembleMismatch
  \/ Done

Spec == Init /\ [][Next]_vars

-----------------------------------------------------------------------------
(* Properties.                                                             *)

Registered(c) == globals[classes[c].name] = c

(* ResolvedUpward: the superclass of a class that is a global is itself    *)
(* the global of its name, and so are all above it.  resolve: relies on it *)
(* when it stops at the first ancestor it finds, and LoadClass for the     *)
(* identity of superclasses: otherwise a class would get a second copy of  *)
(* an ancestor.                                                            *)
ResolvedUpward ==
  \A c \in Class : /\ Registered(c)
                   /\ classes[c].super # 0
                   => Registered(classes[c].super)

(* ParserOwned: the compiler's parser pointer is NULL or points to the one *)
(* parser that exists, however deeply CompileClass was re-entered and      *)
(* whichever of its returns was taken; no parser is deleted twice or lost. *)
ParserOwned == live = {parser} \ {NoParser}

(* FirstOnPath: a class is compiled from the first file of its name on the *)
(* class path that defines it (LoadClassBasic, CompileClass).              *)
FirstOnPath ==
  \A c \in Class :
    \A f \in disk : /\ classes[c].path # 0
                    /\ Registered(c)
                    /\ f.file = classes[c].name
                    /\ f.class = f.file
                    => classes[c].path <= f.path

(* No class on disk is its own ancestor.                                   *)
Acyclic ==
  LET names == {f.file : f \in disk} \ {SystemClass[i] : i \in DOMAIN SystemClass}
  IN \A S \in (SUBSET names) \ {{}} :
       \E n \in S : \A f \in disk : f.file = n => f.super \notin S

(* AcyclicLoadsEnd: loading recurs without end only for a class that is    *)
(* its own ancestor.                                                       *)
AcyclicLoadsEnd == Acyclic => status # "overflow"

-----------------------------------------------------------------------------
(* What the properties ask of a program and its library, for any number    *)
(* of classes and files.                                                   *)

Systems == 1 .. Len(SystemClass)

(* The names of classes, as the start-up code, programs and files write    *)
(* them.                                                                   *)
ClassNames ==
  {Toload[i] : i \in DOMAIN Toload} \cup BlockClass \cup UserClass
    \cup {f.class : f \in Files \cup Statements}
    \cup {f.super : f \in Files \cup Statements}

(* NewClass, the name under which Universe::NewClass keeps every class it  *)
(* makes from the collector, is not the name of a class.                   *)
NewClassReserved == "NewClass" \notin ClassNames

(* Nothing else in the root table has the name of a class, and the core    *)
(* and block classes inherit from what start-up has registered by then:    *)
(* initialize and GetBlockClassWithArgs register a class and not its       *)
(* superclasses.                                                           *)
Separate ==
  /\ NewClassReserved
  /\ \A f \in Files \cup Statements : f.selectors \cap ClassNames = {}
  /\ \A i, j \in Systems : SystemClass[i] = SystemClass[j] => i = j
  /\ \A i \in DOMAIN CoreClass : \A j \in Systems : CoreClass[i] # SystemClass[j]
  /\ \A i \in Systems : SystemSuper[i] # 0 => SystemClass[SystemSuper[i]] # "Frame"
  /\ \A f \in Files : \A i \in DOMAIN CoreClass : f.file = CoreClass[i] =>
       \E j \in Systems : f.super = SystemClass[j] /\ f.super # "Frame"
  /\ \A f \in Files : f.file \in BlockClass =>
       \E i \in DOMAIN Toload : f.super = Toload[i]

FileNames == {f.file : f \in Files} \ {SystemClass[i] : i \in Systems}

(* The C++ stack has room for the nested loads of all classes with files.  *)
RoomForFiles ==
  IsFiniteSet(Files) /\ MaxCalls >= 3 * Cardinality(FileNames) + 2
=============================================================================
