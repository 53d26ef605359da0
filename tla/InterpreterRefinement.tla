----------------------- MODULE InterpreterRefinement -----------------------
(***************************************************************************)
(* The interpreter's linked frames implement the call stack of CallStack.  *)
(* A non-local return takes effect when its loop starts: from then on only *)
(* the frames below the target count as live.                              *)
(***************************************************************************)
EXTENDS Interpreter

LiveActivations ==
  IF mode = "unwind" THEN {f \in Live : f < target} ELSE Live

Abstract == INSTANCE CallStack WITH
  Activation <- Frame, live <- LiveActivations, made <- created, homeOf <- home

\* No frame has been replaced by an emergency frame: each has its own registers.
NoEmergency == \A f \in 1 .. created : cell[f] = f

\* Frames linked by previousFrame and context behave as a stack of activations
\* with homes: a local return removes the youngest activation, ^ in a block
\* removes everything from its home upwards in one step, and nothing else ever
\* changes the stack.  Failing lookups and escapedBlock: are calls like any other.
\* Stated up to the first emergency frame (doPushGlobal, send), after which ^ may
\* miss its home; a program whose lookups all succeed never makes one.
ImplementsCallStack ==
  Abstract!Init /\ [][NoEmergency' => Abstract!Next]_(Abstract!absVars)
=============================================================================
