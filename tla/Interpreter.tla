----------------------------- MODULE Interpreter -----------------------------
(***************************************************************************)
(* The bytecode interpreter of SOM++ (interpreter/Interpreter.cpp) and the *)
(* frames it links together (vmobjects/VMFrame.cpp).                       *)
(*                                                                         *)
(* Frames are heap objects.  `prev' and `context' are the C++ fields       *)
(* previousFrame and context; a frame's slots are abstracted to how many   *)
(* there are (length) and how many are in use (sp).  Which value sits in a *)
(* slot is left out: a block, once made, may be stored anywhere, so any    *)
(* block in `blocks' can be evaluated by any later send.                   *)
(*                                                                         *)
(* Bytecodes are abstracted to their effect on the operand stack.  The     *)
(* program is arbitrary except for what the compiler guarantees: a frame   *)
(* whose bytecode index stands at a point of static depth d holds d        *)
(* operands there, and d never exceeds the method's MaxStack.  `depth' is  *)
(* that static depth, i.e. the abstraction of bytecodeIndex; `sp' is the   *)
(* run-time stack pointer.  The two are changed by different code and the  *)
(* invariant OperandStack relates them.                                    *)
(*                                                                         *)
(* An emergency frame shares the VMInteger objects that hold stackPointer  *)
(* and bytecodeIndex with the frame it replaces, so both are kept per      *)
(* `cell' and not per frame.                                               *)
(***************************************************************************)
EXTENDS Integers, FiniteSets

CONSTANTS
  Method,       \* compiled methods, BootMethod and block methods included
  BlockMethod,  \* the methods of block literals
  EmptyBlock,   \* those whose only bytecode is RETURN_LOCAL
  BootMethod,   \* the bootstrap method: one HALT
  NumArgs,      \* VMMethod::numberOfArguments, the receiver included
  NumLocals,    \* VMMethod::numberOfLocals
  MaxStack,     \* VMMethod::maximumNumberOfStackElements
  Unplanned,    \* which lookups of the program may fail
  MaxFrames,    \* bound on the frames created in a behaviour
  MaxBlocks     \* bound on the blocks created in a behaviour

ASSUME MethodAssumption ==
  /\ BootMethod \in Method
  /\ BlockMethod \subseteq Method \ {BootMethod}
  /\ EmptyBlock \subseteq BlockMethod
  /\ NumArgs \in [Method -> Nat]
  /\ NumLocals \in [Method -> Nat]
  /\ MaxStack \in [Method -> Nat]
  /\ NumArgs[BootMethod] = 1
  /\ NumLocals[BootMethod] = 0
  /\ MaxStack[BootMethod] = 2
  /\ \A m \in Method : NumArgs[m] >= 1

ASSUME BoundAssumption ==
  /\ MaxFrames \in Nat
  /\ MaxFrames >= 2
  /\ MaxBlocks \in Nat
  /\ Unplanned \subseteq {"send", "superSend", "global"}

VARIABLES
  frame,    \* Interpreter::frame, the current frame
  created,  \* number of frames allocated so far; frames are 1..created
  prev,     \* VMFrame::previousFrame
  context,  \* VMFrame::context
  home,     \* what VMFrame::GetOuterContext returns for the frame
  method,   \* VMFrame::method
  length,   \* VMFrame::GetNumberOfIndexableFields
  cell,     \* identity of the frame's stackPointer and bytecodeIndex objects
  sp,       \* cell -> value of stackPointer
  depth,    \* cell -> static stack depth at bytecodeIndex
  blocks,   \* VMBlock objects made so far
  mode,     \* "run" between bytecodes; "send" and "unwind" inside a handler
  pending,  \* mode "send": slots the unplanned Send is about to push
  target,   \* mode "unwind": the context a non-local return is looking for
  status

frameVars == <<prev, context, home, method, length, cell>>
vars == <<frame, created, prev, context, home, method, length, cell, sp, depth,
          blocks, mode, pending, target, status>>

Frame == 1 .. MaxFrames
Nil == 0
Boot == 1
Block == [context : Frame, method : BlockMethod]

-----------------------------------------------------------------------------
(***************************************************************************)
(* Frames.                                                                 *)
(***************************************************************************)

\* The stack pointer of an empty operand stack (ResetStackPointer).
Base(m) == NumArgs[m] + NumLocals[m] - 1

\* The number of slots NewFrame asks for.
FrameLength(m) == NumArgs[m] + NumLocals[m] + MaxStack[m]

\* The cell of the current frame.
Cur == cell[frame]

\* Mutated form: the loop is forgotten and the context itself is returned.
GetOuterContext_NoLoop(f, ctx) == ctx

\* Mutated form: only one context link is followed.
GetOuterContext_OneLevel(f, ctx) == IF ctx = Nil THEN f ELSE ctx

\* A frame whose context is nil is its own outer context.
GetOuterContext(f, ctx) == IF ctx = Nil THEN f ELSE home[ctx]

\* Universe::NewFrame with the frame's fields: frame n, called by p.
NewFrame(n, m, p, ctx, len, c) ==
  /\ created' = n
  /\ prev' = [prev EXCEPT ![n] = p]
  /\ context' = [context EXCEPT ![n] = ctx]
  /\ home' = [home EXCEPT ![n] = GetOuterContext(n, ctx)]
  /\ method' = [method EXCEPT ![n] = m]
  /\ length' = [length EXCEPT ![n] = len]
  /\ cell' = [cell EXCEPT ![n] = c]

\* Interpreter::PushNewFrame followed by CopyArgumentsFrom: the arguments stay
\* on the caller's stack until the callee returns.  callerSp and callerDepth are
\* the caller's registers once the send has been decoded.
PushNewFrame(m, ctx, callerSp, callerDepth) ==
  LET n == created + 1 IN
  /\ created < MaxFrames
  /\ NewFrame(n, m, frame, ctx, FrameLength(m), n)
  /\ frame' = n
  /\ sp' = [sp EXCEPT ![Cur] = callerSp, ![n] = Base(m)]
  /\ depth' = [depth EXCEPT ![Cur] = callerDepth, ![n] = 0]

\* VMFrame::RemainingStackSize of the current frame with stack pointer s.
RemainingStackSize(s) == length[frame] - s - 1

\* VMFrame::EmergencyFrameFrom: a longer copy replaces the current frame.  The
\* copy shares the registers; the old frame keeps its previousFrame, and blocks
\* made by it keep it as their context.
EmergencyFrameFrom(extra) ==
  LET n == created + 1 IN
  /\ NewFrame(n, method[frame], prev[frame], context[frame],
              length[frame] + extra, cell[frame])
  /\ frame' = n

\* Before an unplanned Send of k slots with the stack pointer at s: the current
\* frame is replaced when it lacks room (Interpreter::send, doPushGlobal).
MakeRoom(k, s) ==
  IF k - RemainingStackSize(s) > 0
    THEN EmergencyFrameFrom(k - RemainingStackSize(s))
    ELSE UNCHANGED <<frame, created, frameVars>>

\* Mutated form: ClearPreviousFrame is forgotten.
popFrame_NoClear ==
  /\ frame' = prev[frame]
  /\ UNCHANGED <<created, prev, context, home, method, length, cell>>

\* Interpreter::popFrame: unlink the current frame and clear its previousFrame.
popFrame ==
  /\ frame' = prev[frame]
  /\ prev' = [prev EXCEPT ![frame] = Nil]
  /\ UNCHANGED <<created, context, home, method, length, cell>>

\* Mutated form: the loop over the arguments runs once too often.
popFrameAndPushResult_OffByOne ==
  LET callerCell == cell[prev[frame]] IN
  /\ popFrame
  /\ sp' = [sp EXCEPT ![callerCell] = @ - NumArgs[method[frame]]]

\* Interpreter::popFrameAndPushResult: the caller's stack loses the arguments
\* and gains the result.
popFrameAndPushResult ==
  LET callerCell == cell[prev[frame]] IN
  /\ popFrame
  /\ sp' = [sp EXCEPT ![callerCell] = @ - NumArgs[method[frame]] + 1]

\* VMArray::operator[] on an index outside the array.
ErrorExit ==
  /\ status' = "errorExit"
  /\ UNCHANGED <<frame, created, frameVars, sp, depth, blocks, mode, pending,
                 target>>

-----------------------------------------------------------------------------
(***************************************************************************)
(* Universe::initialize: the bootstrap frame holds the system object and   *)
(* the argument array, and `initialize:' (two arguments) has been invoked. *)
(***************************************************************************)
Init ==
  \E m \in Method \ BlockMethod :
    /\ NumArgs[m] = 2
    /\ frame = 2
    /\ created = 2
    /\ prev = [f \in Frame |-> IF f = 2 THEN Boot ELSE Nil]
    /\ context = [f \in Frame |-> Nil]
    /\ home = [f \in Frame |-> f]
    /\ method = [f \in Frame |-> IF f = 2 THEN m ELSE BootMethod]
    /\ length = [f \in Frame |-> IF f = 2 THEN FrameLength(m)
                                 ELSE FrameLength(BootMethod)]
    /\ cell = [f \in Frame |-> f]
    /\ sp = [f \in Frame |-> IF f = 2 THEN Base(m) ELSE Base(BootMethod) + 2]
    /\ depth = [f \in Frame |-> IF f = Boot THEN 1 ELSE 0]
    /\ blocks = {}
    /\ mode = "run"
    /\ pending = 0
    /\ target = Nil
    /\ status = "running"

\* A bytecode of a compiled method is about to be executed.
AtBytecode ==
  /\ status = "running"
  /\ mode = "run"
  /\ frame # Boot
  /\ method[frame] \notin EmptyBlock

\* The bytecode takes n operands and the compiler put at least n there.
HasOperands(n) == depth[Cur] >= n

\* The compiler counted room for one more operand here.
MayPush == depth[Cur] < MaxStack[method[frame]]

\* VMFrame::Push for a planned push.
Push ==
  IF sp[Cur] + 1 < length[frame]
    THEN /\ sp' = [sp EXCEPT ![Cur] = @ + 1]
         /\ depth' = [depth EXCEPT ![Cur] = @ + 1]
         /\ UNCHANGED <<frame, created, frameVars, mode, pending, target, status>>
    ELSE ErrorExit

\* VMFrame::Pop of n operands followed by Push of k of them.
Replace(n, k) ==
  /\ sp' = [sp EXCEPT ![Cur] = @ - n + k]
  /\ depth' = [depth EXCEPT ![Cur] = @ - n + k]
  /\ UNCHANGED <<frame, created, frameVars, blocks, mode, pending, target, status>>

-----------------------------------------------------------------------------
(***************************************************************************)
(* Bytecodes.                                                              *)
(***************************************************************************)

\* BC_HALT, the only bytecode of the bootstrap method.
Halt ==
  /\ status = "running"
  /\ mode = "run"
  /\ frame = Boot
  /\ status' = "halted"
  /\ UNCHANGED <<frame, created, frameVars, sp, depth, blocks, mode, pending,
                 target>>

doDup ==
  /\ AtBytecode /\ HasOperands(1) /\ MayPush
  /\ Push
  /\ UNCHANGED blocks

\* PUSH_LOCAL, PUSH_ARGUMENT, PUSH_FIELD, PUSH_CONSTANT and PUSH_GLOBAL of a
\* global that exists.
doPushValue ==
  /\ AtBytecode /\ MayPush
  /\ Push
  /\ UNCHANGED blocks

\* The new block keeps the current frame as its context.
doPushBlock ==
  /\ AtBytecode /\ MayPush
  /\ Cardinality(blocks) < MaxBlocks
  /\ \E m \in BlockMethod :
       blocks' = blocks \cup {[context |-> frame, method |-> m]}
  /\ Push

\* POP, POP_LOCAL, POP_ARGUMENT and POP_FIELD.
doPop ==
  /\ AtBytecode /\ HasOperands(1)
  /\ Replace(1, 0)

\* SEND or SUPER_SEND that finds a method.
doSendMethod ==
  /\ AtBytecode
  /\ \E m \in Method \ (BlockMethod \cup {BootMethod}) :
       /\ HasOperands(NumArgs[m])
       /\ PushNewFrame(m, Nil, sp[Cur], depth[Cur] - NumArgs[m] + 1)
  /\ UNCHANGED <<blocks, mode, pending, target, status>>

\* SEND of value, value:, ... to a block: VMEvaluationPrimitive's routine.
evaluationRoutine ==
  /\ AtBytecode
  /\ \E b \in blocks :
       /\ HasOperands(NumArgs[b.method])
       /\ PushNewFrame(b.method, b.context, sp[Cur],
                       depth[Cur] - NumArgs[b.method] + 1)
  /\ UNCHANGED <<blocks, mode, pending, target, status>>

\* SEND or SUPER_SEND that finds any other primitive: it replaces its n
\* operands by one result.
doSendPrimitive ==
  /\ AtBytecode
  /\ \E n \in 1 .. MaxStack[method[frame]] :
       /\ HasOperands(n)
       /\ Replace(n, 1)

\* SEND of restart to a block: the sending frame starts over.
Restart ==
  /\ AtBytecode /\ HasOperands(1)
  /\ depth' = [depth EXCEPT ![Cur] = 0]
  /\ sp' = [sp EXCEPT ![Cur] = Base(method[frame])]
  /\ UNCHANGED <<frame, created, frameVars, blocks, mode, pending, target, status>>

-----------------------------------------------------------------------------
(***************************************************************************)
(* Sends the compiler did not plan: doesNotUnderstand:arguments:,          *)
(* unknownGlobal: and escapedBlock:.  The handler prepares the frame and   *)
(* then calls VMObject::Send, modelled by the mode "send".                 *)
(***************************************************************************)

\* The frames an unplanned Send may create fit in the bound.
RoomForUnplanned == created + 2 <= MaxFrames

\* Interpreter::send when the lookup fails: the n operands are moved into an
\* array, and the frame is enlarged if three slots are not free.
sendDNU ==
  /\ AtBytecode /\ RoomForUnplanned
  /\ "send" \in Unplanned
  /\ \E n \in 1 .. MaxStack[method[frame]] :
       /\ HasOperands(n)
       /\ sp' = [sp EXCEPT ![Cur] = @ - n]
       /\ depth' = [depth EXCEPT ![Cur] = @ - n + 1]
       /\ MakeRoom(3, sp[Cur] - n)
  /\ mode' = "send"
  /\ pending' = 3
  /\ UNCHANGED <<blocks, target, status>>

\* Interpreter::doSuperSend when the lookup fails: the same, but the frame is
\* never enlarged.
superSendDNU ==
  /\ AtBytecode /\ RoomForUnplanned
  /\ "superSend" \in Unplanned
  /\ \E n \in 1 .. MaxStack[method[frame]] :
       /\ HasOperands(n)
       /\ sp' = [sp EXCEPT ![Cur] = @ - n]
       /\ depth' = [depth EXCEPT ![Cur] = @ - n + 1]
  /\ mode' = "send"
  /\ pending' = 3
  /\ UNCHANGED <<frame, created, frameVars, blocks, target, status>>

\* Interpreter::doPushGlobal when the global is unknown.
pushUnknownGlobal ==
  /\ AtBytecode /\ MayPush /\ RoomForUnplanned
  /\ "global" \in Unplanned
  /\ MakeRoom(2, sp[Cur])
  /\ depth' = [depth EXCEPT ![Cur] = @ + 1]
  /\ mode' = "send"
  /\ pending' = 2
  /\ UNCHANGED <<sp, blocks, target, status>>

\* VMObject::Send: push receiver and arguments, then invoke the handler.
Send ==
  /\ status = "running"
  /\ mode = "send"
  /\ IF pending <= RemainingStackSize(sp[Cur])
       THEN /\ \E m \in Method \ (BlockMethod \cup {BootMethod}) :
                 /\ NumArgs[m] = pending
                 /\ PushNewFrame(m, Nil, sp[Cur] + pending, depth[Cur])
            /\ mode' = "run"
            /\ pending' = 0
            /\ UNCHANGED <<blocks, target, status>>
       ELSE ErrorExit

-----------------------------------------------------------------------------
(***************************************************************************)
(* Returns.                                                                *)
(***************************************************************************)

\* RETURN_LOCAL.  The block literal [] compiles to this bytecode alone, which
\* pops an operand nobody pushed.
doReturnLocal ==
  /\ status = "running"
  /\ mode = "run"
  /\ frame # Boot
  /\ HasOperands(1) \/ method[frame] \in EmptyBlock
  /\ popFrameAndPushResult
  /\ UNCHANGED <<depth, blocks, mode, pending, target, status>>

\* Mutated form: the block's own context is tested in place of the outer one.
doReturnNonLocal_InnerContext ==
  /\ AtBytecode /\ HasOperands(1)
  /\ method[frame] \in BlockMethod
  /\ prev[context[frame]] = Nil
  /\ RoomForUnplanned
  /\ popFrame
  /\ mode' = "send"
  /\ pending' = 2
  /\ UNCHANGED <<sp, depth, target, blocks, status>>

\* RETURN_NON_LOCAL, which the compiler emits for ^ in a block.  When the
\* outer context has no previous frame it has returned already: the block's
\* frame is popped and escapedBlock: sent to the frame below it.  Otherwise
\* frames are popped until the outer context is found.
doReturnNonLocal ==
  /\ AtBytecode /\ HasOperands(1)
  /\ method[frame] \in BlockMethod
  /\ IF prev[home[frame]] = Nil
       THEN /\ RoomForUnplanned
            /\ popFrame
            /\ mode' = "send"
            /\ pending' = 2
            /\ UNCHANGED <<sp, depth, target>>
       ELSE /\ mode' = "unwind"
            /\ target' = home[frame]
            /\ sp' = [sp EXCEPT ![Cur] = @ - 1]
            /\ depth' = [depth EXCEPT ![Cur] = @ - 1]
            /\ UNCHANGED <<frame, created, frameVars, pending>>
  /\ UNCHANGED <<blocks, status>>

\* Mutated form: the loop pops before it compares.
Unwind_PopsTarget ==
  /\ status = "running"
  /\ mode = "unwind"
  /\ popFrame
  /\ status' = IF prev[frame] = Nil THEN "lost" ELSE status
  /\ UNCHANGED <<sp, depth, blocks, mode, pending, target>>

\* Mutated form: the frame is unlinked but the interpreter stays on it.
Unwind_NoAdvance ==
  /\ status = "running"
  /\ mode = "unwind"
  /\ frame # target
  /\ prev' = [prev EXCEPT ![frame] = Nil]
  /\ UNCHANGED <<frame, created, context, home, method, length, cell, sp, depth,
                 blocks, mode, pending, target, status>>

\* One turn of doReturnNonLocal's loop.  Past the bootstrap frame the code
\* takes nilObject for a frame; nothing after that is defined.
Unwind ==
  /\ status = "running"
  /\ mode = "unwind"
  /\ frame # target
  /\ popFrame
  /\ status' = IF prev[frame] = Nil THEN "lost" ELSE status
  /\ UNCHANGED <<sp, depth, blocks, mode, pending, target>>

\* Mutated form: the loop stops at the frame called by the target.
UnwindFound_OneEarly ==
  /\ status = "running"
  /\ mode = "unwind"
  /\ prev[frame] = target
  /\ popFrameAndPushResult
  /\ mode' = "run"
  /\ target' = Nil
  /\ UNCHANGED <<depth, blocks, pending, status>>

\* The outer context has been found.
UnwindFound ==
  /\ status = "running"
  /\ mode = "unwind"
  /\ frame = target
  /\ popFrameAndPushResult
  /\ mode' = "run"
  /\ target' = Nil
  /\ UNCHANGED <<depth, blocks, pending, status>>

-----------------------------------------------------------------------------
\* Interpreter::Start has returned, the process has exited, or the current
\* frame is undefined.
Done ==
  /\ status # "running"
  /\ UNCHANGED vars

Next ==
  \/ Halt \/ doDup \/ doPushValue \/ doPushBlock \/ doPop
  \/ doSendMethod \/ evaluationRoutine \/ doSendPrimitive \/ Restart
  \/ sendDNU \/ superSendDNU \/ pushUnknownGlobal \/ Send
  \/ doReturnLocal \/ doReturnNonLocal \/ Unwind \/ UnwindFound
  \/ Done

Spec == Init /\ [][Next]_vars

\* The interpreter loop never pauses between two bytecodes.
FairSpec == Spec /\ WF_vars(Next)

-----------------------------------------------------------------------------
(***************************************************************************)
(* Properties.                                                             *)
(***************************************************************************)

\* Every variable has its type: frames are linked to frames or to nil, each
\* cell holds a stack pointer and a depth, and the interpreter is in one of the
\* phases of a handler.
TypeOK ==
  /\ frame \in Frame \cup {Nil}
  /\ created \in Frame
  /\ prev \in [Frame -> Frame \cup {Nil}]
  /\ context \in [Frame -> Frame \cup {Nil}]
  /\ home \in [Frame -> Frame]
  /\ method \in [Frame -> Method]
  /\ length \in [Frame -> Nat]
  /\ cell \in [Frame -> Frame]
  /\ sp \in [Frame -> Int]
  /\ depth \in [Frame -> Int]
  /\ blocks \subseteq Block
  /\ mode \in {"run", "send", "unwind"}
  /\ pending \in {0, 2, 3}
  /\ target \in Frame \cup {Nil}
  /\ status \in {"running", "halted", "errorExit", "lost"}

\* An emergency frame has taken the place of f.
Replaced(f) == \E e \in f + 1 .. created : cell[e] = cell[f]

\* The frames that are activations in progress: not popped and not replaced.
Live == {f \in 1 .. created : (f = Boot \/ prev[f] # Nil) /\ ~Replaced(f)}

\* The live frames, linked by previousFrame, are a stack ordered by age with
\* the current frame on top and the bootstrap frame at the bottom.
StackShape ==
  /\ frame \in Live
  /\ \A f \in Live : f <= frame
  /\ Boot \in Live
  /\ \A f \in Live \ {Boot} :
       /\ prev[f] \in Live
       /\ prev[f] < f
       /\ \A g \in Live : g < f => g <= prev[f]

\* While the interpreter has a current frame, the live frames are a stack
\* ordered by age: the current frame is the youngest, and the previousFrame of
\* every other live frame but the bootstrap frame is the next older live one.
\* So following previousFrame from the current frame visits every activation
\* exactly once and ends at the bootstrap frame (popFrame, PushNewFrame,
\* EmergencyFrameFrom).
FrameStack == status # "lost" => StackShape

\* Blocks and frames only ever refer to contexts that are older than they are,
\* and GetOuterContext's loop over those links ends at the frame recorded as
\* home, a method activation and never a block's (doPushBlock,
\* evaluationRoutine, EmergencyFrameFrom).
ContextChain ==
  /\ \A b \in blocks : b.context <= created
  /\ \A f \in 1 .. created :
       /\ context[f] # Nil => context[f] < f /\ home[f] = home[context[f]]
       /\ context[f] = Nil => home[f] = f
       /\ context[f] = Nil <=> method[f] \notin BlockMethod
       /\ method[home[f]] \notin BlockMethod

\* No frame ever holds fewer operands than the compiled code at its bytecode
\* index expects: a caller still holds its callee's arguments, and once they
\* are exchanged for the result the stack has the planned depth.  Otherwise Pop
\* would hand out locals or arguments as operands.
OperandStack ==
  status = "running" =>
    /\ \A f \in Live :
         /\ depth[cell[f]] \in 0 .. MaxStack[method[f]]
         /\ (f = frame /\ mode = "run")
              => sp[cell[f]] >= Base(method[f]) + depth[cell[f]]
         /\ (f = frame /\ mode = "send")
              => sp[cell[f]] >= Base(method[f]) + depth[cell[f]] - 1
    /\ \A f \in Live \ {Boot} :
         sp[cell[prev[f]]] >= Base(method[prev[f]]) + depth[cell[prev[f]]]
                                + NumArgs[method[f]] - 1

\* A non-local return looks for a frame that is still on the frame stack,
\* unless that frame was replaced by an emergency frame.
UnwindTargetLive ==
  (status = "running" /\ mode = "unwind" /\ ~Replaced(target))
     => target \in Live

\* A block whose home method is still active returns to that method's caller,
\* with every activation above it gone and none below it touched, however many
\* frames lie between; a home that was replaced is the exception.
NonLocalReturnReachesCaller ==
  [][ (mode = "unwind" /\ mode' = "run" /\ ~Replaced(target))
        => /\ frame' = prev[target]
           /\ Live' = {f \in Live : f < target}
    ]_vars

\* escapedBlock: is reported only for a block whose home method has returned.
EscapeOnlyIfHomeReturned ==
  [][ (mode = "run" /\ mode' = "send" /\ frame' < frame)
        => home[frame] \notin Live ]_vars

\* A non-local return ends: the loop over previousFrame finds its frame or
\* falls off the end of the stack.
UnwindEnds == (mode = "unwind") ~> (mode # "unwind" \/ status = "lost")

(***************************************************************************)
(* What a comment promises and the code does not keep.                     *)
(***************************************************************************)

\* The emergency frame replaces the current frame for everyone: a non-local
\* return never runs past the bootstrap frame.
NeverLost == status # "lost"
=============================================================================
