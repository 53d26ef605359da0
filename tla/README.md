# A TLA+ model of SOM++ on OMR (SOMR)

SOMR is the SOM++ Smalltalk virtual machine, written in C++, with its memory
managed by an Eclipse OMR collector.  One mutator thread interprets bytecodes;
the collector is a stop-the-world, non-moving mark and sweep that may run inside
any allocation.  The mutator is then the master of a team of GC threads, one per
CPU up to one per 2 MB of heap, which mark in parallel.  Source paths below are relative to `src/src/` unless they begin
with another directory of the repository.

## 1. Inventory

| Component | State | Operations | Interacts with | Hard behaviour |
|---|---|---|---|---|
| Bytecode interpreter (`interpreter/Interpreter.cpp`, `vmobjects/VMFrame.cpp`, `vmobjects/VMEvaluationPrimitive.cpp`) | current frame; frames linked by `previousFrame` and `context`; operand stacks | sixteen bytecodes, send, super send, block evaluation, local and non-local return, messages the VM sends itself (`doesNotUnderstand:`, `unknownGlobal:`, `escapedBlock:`) | Universe (`NewFrame`, `NewBlock`, `GetGlobal`), classes (lookup), primitives (which call back through `VMObject::Send`) | unwinding through frames in any nesting; blocks that outlive their method; frames replaced in mid-flight |
| Heap and collector glue (`memory/Heap.cpp`, `glue/`) | allocated objects, object table, root table, uninterruptable counter and array | `Allocate`, `FullGC`, `Start`/`EndUninterruptableAllocation`, `scanRoots`, `scanObject`, `masterCleanupAfterGC` | every constructor of a VM object | a collection between any two steps of a constructor; reuse of addresses |
| Universe (`vm/Universe.cpp`) | globals, class path, system classes | `initialize`, `InitializeGlobals`, `LoadClass`, `LoadClassBasic`, `LoadSystemClass`, `GetBlockClassWithArgs`, `New...`, `SetGlobal` | Heap, compiler, interpreter, `System>>resolve:` in `src/Smalltalk/System.som` | recursion through the compiler; missing, misnamed and circular classes |
| Class compilation (`compiler/SourcecodeCompiler.cpp`, `ClassGenerationContext.cpp`) | the one parser pointer; lists of fields and methods | `CompileClass`, `CompileClassString`, `Assemble`, `AssembleSystemClass` | Universe (loads the superclass) | re-entrance: loading a superclass uses the same compiler object |
| Method compiler (`compiler/Parser.cpp`, `MethodGenerationContext.cpp`, `BytecodeGenerator.cpp`, `vmobjects/Signature.cpp`) | chain of generation contexts, bytecodes, literals | the parser's functions, `Emit...`, `FindVar`, `ComputeStackDepth`, `Assemble` | lexer, Universe (symbols), interpreter (which trusts the code) | code removed after it was emitted; names resolved across nested blocks; byte-sized operands |
| Lexer (`compiler/Lexer.cpp`) | line buffer, one symbol of look-ahead | `GetSym`, `Peek` | parser | comments over lines, the last line, look-ahead in any order |
| Classes (`vmobjects/VMClass.cpp`, `VMPrimitive.cpp`, `VMInvokable.cpp`) | superclass, fields and invokables of a class and its metaclass | lookup of invokables and fields, `AddInstanceInvokable`, `SetInstanceInvokables`, `NewInstance` | interpreter, class compilation | inheritance on both sides; tables changed after assembly |
| Primitive libraries (`primitivesCore/`, `primitives/Core.cpp`) | tables of routines | `LoadPrimitives`, `isResponsible`, `setPrimitives` | classes, the file system | partial failure of a search along the class path |
| Arithmetic primitives (`primitives/Integer.cpp`, `BigInteger.cpp`, `Double.cpp`) | none but the operand stack | `+ - * / // % & = <`, `asString`, `sqrt`, `atRandom` | interpreter, each other (resent messages) | overflow, coercion, values at the bounds of the widths |
| Other primitives (`primitives/`) | none but the operand stack | System, Block, Array, String, Object, Class, Symbol | interpreter, Universe, Heap | `Block>>restart`, `System>>fullGC` |
| Shell (`vm/Shell.cpp`) | bootstrap frame, last result | read, compile, run | compiler, interpreter | |
| Process (`Main.cpp`, `vm/Universe.cpp`, `memory/Heap.cpp`) | the OMR VM, its threads | `initialize`, `Quit`, `ErrorExit` | OMR dispatcher | failure in the middle of the start; ending while threads come and go |
| OMR dispatcher and tasks (`omr32/gc/base/ParallelDispatcher.cpp`, `ParallelTask.cpp`) | status and task of each slave, barrier counters | start up, dispatch, two kinds of barrier, complete, shut down | OMR's monitors, the tasks | counts and indices read by threads that are overtaken |
| OMR parallel marking (`omr32/gc/base/MarkingScheme.cpp`, `WorkPackets.cpp`, `WorkStack.cpp`, `standard/OverflowStandard.cpp`) | mark map, lists of packets, overflow bits | clear, mark, push, pop, wait for work, overflow | the glue (`scanRoots`, `scanObject`), tasks | termination detection, dropped notifications, packets that run out |
| Rest of Eclipse OMR (`omr32/`) | the managed heap, the port library | sweep, allocate, monitors | glue | vendored; modelled where another component rests on it (what a sweep keeps in `Heap`, how monitors wait and wake in `Marking` and `Process`) |

Properties that make the components correct: the frames are a stack and a
non-local return ends exactly at its home (interpreter); what the roots reach is
never swept and a table of objects is exact (heap); a class has one identity and
loading ends (Universe); the parser is owned (class compilation); compiled code
never underflows or overflows its frame and names existing slots and literals
(method compiler); fields stay within objects, primitives are bound, super sends
ascend (classes); integers are exact whatever their representation (arithmetic);
the parser gets each symbol once (lexer); exactly the reachable objects are
marked when the threads stop, and they stop (marking); no thread outlives its
task or the VM, and the process ends (process).

The hazards in `PROJECT.json` list, line by line, where these can fail in ways a
test would hardly reach.

## 2. Modules

| Module | Models | State and actions |
|---|---|---|
| `Interpreter` | the interpreter and its frames | One action per handler. Slots are abstracted to counts (`length`, `sp`); the program is any sequence of bytecodes that respects the static stack depth the compiler computed. A frame's `stackPointer` and `bytecodeIndex` are kept per `cell`, because an emergency frame shares those VMInteger objects with the frame it replaces. The loop of `doReturnNonLocal` is one action per frame popped, and a message the VM sends itself is split where `EmergencyFrameFrom` may run in between. |
| `CallStack` | what frames promise | An abstract stack of activations: call, return to the caller, non-local return to the home's caller. |
| `InterpreterRefinement` | `Interpreter` implements `CallStack` | The stack is the chain of `previousFrame`; the unwinding loop is a stutter until it finds its target. Stated up to the first emergency frame (`NoEmergency`), which takes the place of an activation without `CallStack` knowing. |
| `Heap` | heap, collector glue, constructors | `todo` is the list of steps a factory has left (allocate, start, end, set a field, register as a global); each step is an action, so a collection can occur between any two. Addresses are reused. An object's fields are a set of objects. OMR's mark and sweep are summarised by what they leave: `Reach`, `Survivors`, `Surviving`; that its marking yields `Reach` is what `Marking` checks. The first block of an arity loads its class (`LoadBlockClass`): the block is put aside (`waiting`) while the load allocates, registers and collects like any other code, and gets its class when the load is over (`BlockClassLoaded`). |
| `Loader` | globals, class loading, class compilation | A C++ call stack of continuations (`LoadClass`, `LoadClassBasic`, `CompileClass`, `Assemble`, ...). The disk is any subset of a set of class files. What its properties ask of the names in a program is stated at its end (`NewClassReserved`, `Separate`, `RoomForFiles`). `True`, `False` and `Boolean` are not among the core classes: the start-up loads them without registering them (see the divergences). |
| `Compiler` | the method compiler | `work` is the stack of parser functions still to run, `gen` the chain of generation contexts. The source is chosen as the parser goes, so a behaviour is the compilation of one method. Bytecodes are real bytes, operands included. |
| `Classes` | class objects, lookup, primitive libraries, instances | `classes` holds classes and metaclasses, `invs` their invokables. An invokable records the library its routine was taken from. A class arrives as the lists the parser collected. What is found along a chain of superclasses is a recursive function on the classes (`Lookups`, `FieldNames`, `Chains`). |
| `Arithmetic` | the arithmetic primitives | The operand stack and the running primitive. The widths of Integer, BigInteger and the mantissa of Double are constants. |
| `Lexer` | the lexer | A text is a sequence of character classes; the buffer is the part of it between two positions. Each loop of `GetSym` is an action per turn. The symbol the parser has (`cur`) keeps the text it covers. |
| `Marking` | OMR's parallel mark task with the glue's scanning | `pc` says where each GC thread is. An action is what happens between two points where others can interfere: a list operation, a test-and-set of a mark bit, a section of `_inputListMonitor`. A packet is a sequence of objects; of empty packets only the number counts. The three list counters behind `inputPacketAvailable` are not read at one instant, so a thread may overlook a packet while others move some. The C heap may refuse a block of packets at any time. |
| `Process` | start and end of the process, dispatcher, tasks | Thread 0 is the mutator and master, the others are slaves. A critical section up to a wait is one action. A task is a sequence of barriers; `Marking` is what happens between two of them. Creating or attaching a slave may fail. |
| `InterpreterProofs`, `HeapProofs`, `LoaderProofs`, `ClassesProofs`, `ArithmeticProofs`, `LexerProofs`, `MarkingProofs`, `ProcessProofs` | | theorems, see section 5 |
| `MC...` | | constants of the small instances |

`Interpreter` assumes of its methods what `Compiler` shows of the code it emits
(`StackPlanned`): operands are there when popped, a method returns with one, and
`maximumNumberOfStackElements` suffices.  The one exception, the code of an empty
block, is a constant of `Interpreter` (`EmptyBlock`), and its `doReturnLocal`
pops below the base.  `Loader` uses a class as soon as it is assembled; what is in
it is the subject of `Classes`.  `Heap` knows frames only as objects with a
`previousFrame`; `Interpreter` knows them only as frames that are never swept.
The run `heap_frame` shows that the second view is optimistic.  `Heap` takes a
collection as one step that marks what the roots reach; `Marking` shows that the
threads of the mark task arrive at exactly that set (`MarkingExact`), assuming
barriers that hold, and `Process` shows that they do (`BarriersHold`).  `Compiler`
starts from symbols, which `Lexer` delivers in order (`NothingLost`).

Operators named `X_Something` next to `X`, introduced as mutated forms, are used
by no specification: each is a plausible mistake in the code of `X`, and
`PROJECT.json` says which property detects it.

## 3. Runs

| Run | Shows | Bounds and why they suffice |
|---|---|---|
| `interpreter_unplanned` | Frames are a stack (`FrameStack`), context links end at a method (`ContextChain`), operands are never short (`OperandStack`), a non-local return finds its live target and leaves exactly the frames below it (`UnwindTargetLive`, `NonLocalReturnReachesCaller`), `escapedBlock:` is reported only for a home that returned (`EscapeOnlyIfHomeReturned`), the frames implement `CallStack` up to the first emergency frame (`ImplementsCallStack`), and the unwinding loop ends (`UnwindEnds`). Lookups may fail at every send. | Six frames and two blocks: bootstrap, a home, a block in a block, the handler of a failed lookup, and two emergency frames. Methods of one to three arguments and stacks of one and two slots make every unplanned send meet both a full and a roomy frame. |
| `interpreter_lost` (violation) | An emergency frame replaces the home of a block; `^` in that block then pops the bootstrap frame. | |
| `heap` | While objects of all ten kinds are built, called and forgotten and a collection may strike at every allocation, nothing the roots reach is swept (`RootsIntact`), the object table is exact (`ObjectTableExact`), and objects are not swept under their own constructor (`ConstructionSafe`). The first block of an arity loads its class in the middle of its factory; in that time the block itself is outside `ConstructionSafe` (see the divergences), and the objects the load makes are inside. | Five addresses (symmetric), so that memory runs out and addresses are reused; two integers per method instead of five and one per frame, since what matters is that there is a first and a later one; one result held by C++ code and one stored field at a time, beside the fields constructors set. |
| `heap_frame` (violation) | After a return the current frame is no root. | |
| `loader_classes` | A registered class has registered ancestors (`ResolvedUpward`), the parser is owned (`ParserOwned`), a class comes from the first file that defines it (`FirstOnPath`), and only a circular hierarchy overflows the C++ stack (`AcyclicLoadsEnd`). | Every subset of a library and seven files of a program: missing, duplicate, misnamed, circular, and below `Frame`, whose global is not a class after start-up. Five classes beyond the system classes and seventeen nested calls: three for each of the five classes with files, and two more, the bound that `AcyclicLoadsFit` proves sufficient. `MCLoader` assumes the hypotheses of the theorems, so TLC evaluates them on this instance. |
| `compiler` | Compiled methods and blocks never underflow, fit the planned stack, return once at the end with one operand (`StackPlanned`), literal operands have the kind the interpreter casts them to (`LiteralOperands`), and variable operands name a slot that the context they point to declares (`VariableOperands`). | Every method of up to three constructs (statements, assignments, terms, blocks, messages, keyword parts) and declared names together: a block in a block, an argument shadowed in a block, a field or global read in one. |
| `classes` | See section 1. `FieldsInBounds` covers instances and class objects; `SlotShared` says that a field has one index in every subclass; `PrimitivesBound` that no primitive of a class, system classes included, stays empty, and that its routine is the one of its class and selector and was taken from a library on the class path that supports the class (block classes load no library and are left out); `SuperAscends` that a super send ascends from the holder; `EvaluationFound` that the signature `computeSignatureString` makes finds the evaluation primitive in the class of such blocks. | Two classes in any hierarchy below Object, four definitions that redeclare and shadow fields and methods on both sides, three class paths: two libraries that both claim to be the core, these with one library of its own for each class between them, and one with a malformed library; blocks of no, one and two parameters. Two classes give chains of one, two and three. |
| `classes_blocks` (violation) | The evaluation primitive of a block of two parameters does not answer `value:with:`. | As `classes`. |
| `arithmetic` | Integers are exact (`IntegerExact`, `IntegralExact`), comparison ignores representation (`ComparisonExact`), coercion keeps the stack balanced (`StackBalanced`) and ends (`CallsReturn`). | Two-bit Integers, four-bit BigIntegers, exact doubles up to four, four messages: the smallest widths with `IntLimit * IntLimit < BigLimit`, so that every boundary is met by every operation. |
| `marking` | When a thread leaves the scan exactly the reachable objects are marked and no work is left (`MarkingExact`); on the way no reference is forgotten (`NothingForgotten`), no object waits twice (`WaitsOnce`), no packet leaks or is in two hands (`PacketsConserved`), and the task ends (`MarkingEnds`). | Two threads and seven objects. In one heap five roots in packets of one object exhaust the five packets, so packets overflow, and overflow again during the master's walk; in the other a cycle with shared parts and garbage travels in packets of two. Four initial packets are the minimum the code insists on, one more lets a block be added. |
| `lexer` | The symbols the parser gets are those of the text, in order and once (`NothingLost`); `NONE` means the end when the last line is ended (`NoneMeansEnd`); calls return (`GetSymReturns`). | All texts of up to three characters of any class, of up to five of blanks, quotes and letters (two lines with comments or strings that cross them), of up to four of what makes long symbols; separators of two dashes instead of four. |
| `process` | No slave works on a completed task or is alive when the VM is shut down (`NothingDangles`), no thread passes a barrier that another thread of the task has not come to, and a synchronised master is alone (`BarriersHold`), and the process ends in every case (`ProcessEnds`). | Three slaves, three collections, each on any number of threads, with both kinds of barrier in the orders all-master, master-master and master-all: a thread that is overtaken at one barrier meets the next. |

The bounds on frames, blocks, calls, classes, objects and messages only disable
actions; each is a named constant.  A process that has ended, or a program that
sends no more messages, is a stuttering step (`Done`); every other deadlock
would be a state the code cannot leave, and is checked for, except in `marking`,
`lexer` and `process`: there the task, the text and the process come to an end,
and their liveness properties say that nothing else stops.

Only `Interpreter` keeps a type invariant among its properties: there it is
proved, and carries the other proofs.

### Findings

* `interpreter_lost`, `NeverLost`: `Interpreter.cpp:278` says the emergency frame
  replaces the current frame; it does so for the interpreter only.
* `heap_frame`, `CurrentFrameIntact`: the glue's `scanRoots` marks no frame, and
  the global under which `NewFrame` keeps the youngest frame goes stale at the
  first return.
* `classes_blocks`, `EvaluationBound`: `VMEvaluationPrimitive.cpp:91` computes the
  selector part `with:` and drops it, against the comment at `:90`.  The
  evaluation primitive of two-parameter blocks replaces `value:`, and
  `value:with:` of `Block3.som` stays an empty primitive.

### Known divergences without a run

The models follow the code in these places too; no run is spent on them.

* `doSuperSend` sends `doesNotUnderstand:arguments:` without making room
  (`Interpreter.cpp:363`), although the comment at `VMFrame.cpp:37` says an
  emergency frame is made; on a full frame this is `ErrorExit`.
* `VMArray`'s constructor ends its own bracket, so a `VMFrame` is unprotected
  while its constructor allocates integers (`VMFrame.cpp:65`, `Heap.h:78`).
  `ConstructionSafe` therefore leaves out frames and evaluation primitives.
* `NewBlock` asks for the class of its block with no bracket open
  (`Universe.cpp:709`, against what `Heap.h:78` says brackets are for).  The first
  block of an arity compiles that class, and from the first bracket the compiler
  closes the block is known to a C++ local alone while allocations go on.  `ConstructionSafe` leaves out this
  block for the time of the load, and nothing else.
* `True`, `False` and their superclass `Boolean` are loaded for the two constants
  but never become globals (`Universe.cpp:475`), so a program that names one of
  them loads a second class of that name.
* `NewMethod` stores each method as a global under its selector
  (`Universe.cpp:799`), so a method named like a class hides that class, against
  what `System.som:61` says of the globals.  The instance of `loader_classes` has
  no such selector; `Frame`, hidden by `NewFrame` in the same way, is in it.
* Blocks of three or more parameters have no class file, and
  `GetBlockClassWithArgs` uses the NULL it gets (`Universe.cpp:508`, the
  assertion at `:496`).
* The flag for super sends is passed on to later messages of an argument
  (`Parser.cpp:609`, against the comments at `:552`, `:566` and `:635`).
* `Percent` and `And` of BigInteger do not convert their results
  (`BigInteger.cpp:162`, `:177`).
* On a last line without a newline, white space or a comment after a comment is
  reported as `NONE` (`Lexer.cpp:120`).  A comment or string that is never closed
  makes the lexer read behind its buffer (`Lexer.cpp:86`, `:126`); `Lexer` ends
  there (`"overrun"`).  An identifier that begins with `primitive` is split in
  two (`Lexer.cpp:191`), and `Peek` copies up to 512 characters to an array of 256
  (`Lexer.cpp:237`).
* `-h` and a wrong `-cp` print the usage and call `Quit` before there is an OMR
  thread; `Quit` then reads through a null pointer (`Universe.cpp:143`).
* When a slave cannot be started, its threads are shut down twice and the
  assertion in the constructor of `Heap` ends the process (`Heap.cpp:117`).

Limits of the code that the models have as outcomes, or leave out, and about
which the repository promises nothing:

* `addUninterruptableAllocationObject` does not check the 64K entries of its
  array (`CollectorLanguageInterfaceImpl.cpp:58`); the model's set has no limit.
* Literal indices and stack depths are single bytes
  (`MethodGenerationContext.cpp:83`); `Compiler` keeps them modulo 256 but no
  method of its instance is that long.
* `//` with a Double operand is resent as `/`, which Double lacks
  (`Integer.cpp:198`); division by zero, and the quotient that does not fit, are
  undefined (`Integer.cpp:218`); a BigInteger reads any operand as one
  (`BigInteger.cpp:53`).  `Arithmetic` ends the process or lets the result be any
  value.
* The shell never sees the end of its input after a line that is too long
  (`Shell.cpp:96`), and calls `run:` unchecked (`Shell.cpp:128`).

## 4. Fairness

Safety needs no fairness.  `UnwindEnds` assumes, in `FairSpec`, weak fairness of the
steps of the unwinding loop, and `CallsReturn` of the steps of a running
primitive: both are straight-line C++ on the only mutator thread, which is never
paused inside a handler except by a collection, and a collection returns.
Nothing is assumed of the program: it may stop sending messages at any point.
`GetSymReturns` assumes the same of the lexer's loops, which run in the thread
of the parser that called them.

`ProcessEnds` assumes weak fairness of every thread: operating system threads
that can run do.  The loop over tasks is bounded by `MaxTasks`, so that the
program ends too.  `MarkingEnds` assumes this of every GC thread, and strong
fairness in two places: a thread that asks for `_inputListMonitor` again and
again, while others come and go, gets it; and a thread that looks for a packet
again and again, while there is one, finds one, although it may overlook it in
single attempts.  The first is what an operating system mutex gives when its
holder never keeps it for long, which none of the sections does; the second only
matters while another thread moves packets, and reading three counters does not
fail in the same way for ever.
`AcyclicLoadsEnd` is stated as a safety property, the absence of an exhausted
C++ stack, because a load is a sequence of nested calls.

## 5. Proofs

All theorems hold for every value of the constants that satisfies the named
assumptions of the module: `MethodAssumption` and `BoundAssumption`
(`Interpreter`), `ObjAssumption`, `NameAssumption`, `HeapBoundAssumption`,
`BuiltAssumption` (`Heap`), `LoaderAssumption`, `ClassesAssumption`,
`UserClassAssumption` and `BlockTableAssumption` (`Classes`), `WidthAssumption` and
`BoundAssumption` (`Arithmetic`), `LexerTextAssumption`, the `Mark...Assumption`s
and `ForwardProgressAssumption` (the minimum of packets that `WorkPackets` insists
on), and the `Process...Assumption`s (counts are numbers, and the marker for "no
task" is not one).  They say of the constants what the code says of its sizes.

* `InterpreterProofs`: `TypeCorrect`, `FramesAreAStack`, `ContextsEndAtMethods`,
  `TargetStaysLive`, `NonLocalReturn`.  `FrameStack` is not inductive: a new frame
  could make an old one look replaced, and a return could expose a frame whose
  context died.  `IInv` adds that registers are shared only with older frames
  (`CellsOlder`), that the bootstrap frame has no caller (`BootIsBottom`), that
  homes and contexts are older (`HomesOlder`, `ContextChain`), and what a
  non-local return knows about its target (`UnwindKnown`, `UnwindTargetLive`).
  The lemmas `PopLive`, `PushLive` and `EmergencyLive` say what the three frame
  operations do to the set of live frames; each handler is one of these followed
  by changes to registers.  `NonLocalReturn` is an action property: the pop that
  ends the loop removes the target and it alone.
  - `OperandsSuffice` follows the operands.  A handler writes the registers of
    the current frame and, when it returns, of its caller; that nothing else moves
    needs that two live frames never share registers (`LiveCells`), although an
    emergency frame shares those of the frame it replaced.  `OperandParts` then
    states for the current frame, for each caller and for the moment between the
    two halves of a message of the VM how many operands there are at least.
  - `EscapeIsReal` needs that no block has the bootstrap frame as its home
    (`NoBootHome`), since the code takes a home without a caller for one that
    returned.
  - `Refinement` is the step simulation of `CallStack`, one lemma per kind of step
    (`CallRefines`, `ReturnRefines`, `NonLocalRefines`, `UnwindRefines`), for every
    program, failing lookups included.  It says that each step is one of
    `CallStack` while no emergency frame has been made; from then on an activation
    has been replaced, which `CallStack` does not know, and `interpreter_lost`
    shows that the difference is real.  Until then every frame has registers of its
    own, so that no live frame is hidden by a copy (`OwnRegisters`, `NeverReplaced`).  `PlannedRefinement` is the corollary
    for programs whose lookups all succeed (`Unplanned = {}`): they make no
    emergency frame and implement `CallStack` in full.
* `HeapProofs`: `RootsSurvive`, `ObjectTableIsHeap`.  `RootsIntact` speaks of what
  the roots reach; the inductive form, `HInv`, speaks of all objects: the
  allocated set is closed under references and contains the roots and what C++
  code uses.  `ReachClosed` and `SurvivorsClosed` show that marking yields a closed
  set, so the sweep leaves no dangling field.  The property is conditional on
  `status = "ok"`: once an object in use was swept, the program is undefined.
  `ConstructionIsSafe` is about the steps a constructor still has to take: in the
  safe factories no allocation follows an `end` (`FactorySteps`), so while an
  allocation is ahead the protected array has not been emptied since the object
  was entered in it.  It needs no count of open brackets.  A block that waits for
  its class is left out by the property, not by the invariant: what is allocated
  meanwhile is covered, and the block comes back only to have its class set, after
  which its factory allocates nothing.
* `LoaderProofs`: `ParserIsOwned`, `FirstFileWins`, `AncestorsAreRegistered`,
  `AcyclicLoadsFit`, for any class path, any set of files and any depth of nested
  loads.  `ParserInv` adds that parsers are numbered by naturals.
  - `FirstFileWins` needs to know what each call on the C++ stack is about.
    `SoundInv` says that the frames of the stack fit each other (`FrameOk`,
    `Above`, `Bottom`), and that every class a `LoadClass` may return is a system
    class or was made from the first file that defines it.  Its hypothesis,
    `NewClassReserved`, is there because every class made is first stored under
    the global `NewClass`, also the one of a misnamed file that is then dropped.
  - `AncestorsAreRegistered` adds `UpInv`: the class a load is about to return lies
    in a set that is closed under superclasses and whose globals name no other
    classes.  What `resolve:` then registers, the chain up to the first global, is
    found by a climb of decreasing indices (`UnregisteredIs`); two classes of one
    name would make their superclasses, too, two classes of one name, and so on
    for ever (`NewNamesDiffer`).  The hypothesis, `Separate`, says that selectors
    are not names of classes, because `NewMethod` stores methods in the same table
    (see the divergences above), and that core and block classes inherit from
    classes of the start-up, because they are registered without their ancestors.
  - `AcyclicLoadsFit`: a `LoadClass` that is nested in another is for a class that
    a file of the other names as its superclass, so that in a hierarchy without
    circles the classes being loaded differ; with at most three calls for each,
    the stack fits in `RoomForFiles`.
* `ClassesProofs`: `FieldsAreInBounds`, `SlotsAreShared`, `PrimitivesAreBound`,
  `SuperSendsAscend`, `EvaluationIsFound`, for any hierarchy, any definitions and
  any class path.  All of them rest on the fact that chains of superclasses end.
  That is not the order in which classes are made, since `Object class` inherits
  from `Class`, which is younger; `Layout` has a rank that falls along every
  superclass link.  From it follow that the recursive functions for lookup, fields
  and ancestors exist (`ChainFunction`), that new classes do not change what
  they say of the old ones, and induction along a chain (`ChainInduction`).  Further
  parts of `IInv`: a class holds the invokables of its table (`Tables`), where their
  routines come from (`Bound`), that the evaluation primitive comes first of its
  signature in the table of a block class (`Evaluated`), that instances have room
  for their fields (`Placed`), and that the running method exists (`Running`).
  `PrimitivesAreBound` follows a routine from the search along the class path to
  the record of the invokable: `LoadPrimitives` takes the first library that
  supports the class, and `BoundFrom` says that each routine it sets names that
  library.  `EvaluationIsFound` holds for every number of arguments and without a
  hypothesis, because it speaks of the signature the code computes; that this is
  not the selector programs send for two parameters is the finding of
  `classes_blocks`.
* `ArithmeticProofs`: `MessagesBalance`, `IntegersAreExact`, `IntegralsAreExact`,
  `ComparisonsAreExact`, for all widths in which the product of two Integers fits
  a BigInteger.  The invariant `AInv` follows a message through its coercion: the
  argument on top of the stack is the one the program sent, and the receiver below
  it is the program's, or that receiver converted to the class whose primitive now
  runs, with the same value when that class is BigInteger.  What is computed in 64
  bits is then exact because two 32-bit numbers cannot overflow them.
* `MarkingProofs`: `MarkingIsExact`, `MarkingForgetsNothing`,
  `PacketsAreConserved`, `ObjectsWaitOnce`, for any object graph, any number of
  threads and packets of any number and size.  The invariant has three layers.
  Control: which thread holds which monitor, and that `_inputListWaitCount` is
  exactly the number of threads that wait, so that the thread which finds it
  complete knows that nobody else has work (`Quiet`).  Objects: every marked object
  waits in one place or its references are marked (`Tricolour`), and only once
  (`Separate`).  Packets: each is in one list or one hand (`Counted`).
  `MarkingExact` follows from all three: when a thread leaves nothing waits, so
  the marked set is closed, and nothing unreachable was ever marked.
* `ProcessProofs`: `NothingIsLeftDangling`, `BarriersKeepStep`, for any number of
  slaves and any sequence of barriers.  Each counter of the dispatcher and of a
  task counts a named set of threads (`Alive`, `Unfinished`, `Counted`), and
  `_synchronizeIndex` is the number of barriers that everybody has left behind; it
  cannot move between the moment a thread reads it and the moment that thread
  waits, because that thread is not counted yet.  `BarriersKeepStep` is strict: a
  thread that is behind another has come to the barrier and was notified, and is
  behind by this one barrier only.
* `LexerProofs`: `NothingIsLost`, `NoneIsTheEnd`, for every text.  The lexer keeps
  no mode; `LInv` says that the loop it is in tells whether the text before `bufp`
  ends in the code or in a comment (`Position`), that the buffer is one line
  (`Buffer`), what holds of a symbol that was read ahead (`Delivered`), and that
  symbols are delivered in the order of the text, each beginning where or after the
  one before it ended (`Ordered`, `SymbolCovers`, `NextOrdered`).  The
  meaning of a text is a recursive function, `Modes`; that it exists, and that a
  run of characters does not change the mode, is induction over the text.

The prover cannot use the induction theorems of the library, which take the
predicate as a parameter.  `LexerProofs`, `ClassesProofs` and `LoaderProofs` do
induction by the least number that fails: it exists because the natural numbers
are well-founded, which is a fact about a set.

What the proofs changed in the models: in `Arithmetic` two guards of the `CASE` in
`DoubleOp` overlapped, so that the value was open where TLC took the first one;
they are disjoint now.  `Mode` in `Lexer` is a recursive function instead of a fold.
In `Acyclic` of `Loader`, `SUBSET names \ {{}}` was read in one way by TLC and in
another by the prover, and has parentheses now.  The lookups of `Classes` take the
classes as a parameter, so that they can be compared before and after a step; its
assumptions say what the parser guarantees of definitions.

Only model-checked:

* liveness and fairness, which this prover does not reach: `UnwindEnds`,
  `CallsReturn`, `GetSymReturns`, `MarkingEnds`, `ProcessEnds`;
* `StackPlanned`, `LiteralOperands` and `VariableOperands` of `Compiler`: they say
  what folds over the whole of the emitted bytecode compute, while the parser also
  removes code it has emitted; an invariant would have to follow these folds
  through every prefix of the code of every open context.

## 6. Not modelled

* The shell's loop (its parts are: `CompileClassString` in `Loader`, the bootstrap
  frame in `Interpreter`), what command line options set, and the destructors.
* Recovery after a syntax error: `expect` prints and goes on, and the parser's
  state afterwards depends on the text.  `Compiler` covers well-formed source.
* Contents of strings, symbols and arrays; formatting; the disassembler; tracing.
* The rest of OMR, and the callbacks of collector features this build does not
  use (compaction, scavenging, concurrent marking).  Of the implementation lines
  in the repository more than nine in ten are vendored OMR: the port and thread
  libraries for a dozen platforms, trace and hook tables, collectors that SOMR
  does not configure, test frameworks and their tests.  Little of it is state the
  properties of this VM depend on; what is (marking, work packets, tasks, the
  dispatcher) is modelled.  The models therefore cover a small share of the
  repository and the greater part of SOMR's own control flow.
* Memory exhaustion of the C++ heap.

## 7. Plan

1. `Interpreter`, `CallStack`, `Heap`, `Loader`, `Compiler`, `Classes`,
   `Arithmetic`, `Lexer`, `Marking`, `Process` and the first theorems: done.
2. Theorems about every safety property of `Interpreter`, `Heap`, `Arithmetic`,
   `Lexer`, `Marking` and `Process`, the refinement of `CallStack`, and
   `ParserOwned`: done.
3. Theorems about every property of `Classes`, for any hierarchy, and about the
   other properties of `Loader`, under explicit assumptions on names: done.
4. `Compiler` for methods of any size, see section 5.
5. A composition of `Loader` and `Heap`: symbols, lists and classes held only by
   C++ code while the compiler allocates.
