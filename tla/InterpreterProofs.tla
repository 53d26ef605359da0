-------------------------- MODULE InterpreterProofs --------------------------
(***************************************************************************)
(* The frames of the interpreter form a stack, for every program and every *)
(* number of frames.                                                       *)
(*                                                                         *)
(* FrameStack is not inductive by itself.  The strengthening adds that     *)
(* registers are shared only with older frames (CellsOlder), so that a new *)
(* frame never makes an old one look replaced, that contexts and homes are *)
(* older than the frames that use them (ContextChain), and what a          *)
(* non-local return knows about its target (UnwindKnown).                  *)
(*                                                                         *)
(* On top of it: operands are never short, because the registers of two    *)
(* live frames are distinct and a caller keeps its callee's arguments      *)
(* (OperandParts); escapedBlock: is sent only for a home that has gone;    *)
(* and without unplanned messages, whose emergency frames the abstract     *)
(* stack knows nothing of, every step is a step of CallStack or a stutter. *)
(***************************************************************************)
EXTENDS InterpreterRefinement, TLAPS

\* A frame's registers are its own or those of an older frame it replaced.
CellsOlder == \A f \in 1 .. created : cell[f] <= f

\* The bootstrap frame has no caller.
BootIsBottom == prev[Boot] = Nil

\* The loop of doReturnNonLocal runs only for a frame that had a caller.
UnwindKnown == mode = "unwind" => target \in 2 .. created

\* A frame's home is the frame itself or an older one.
HomesOlder == \A f \in 1 .. created : home[f] <= f

IInv ==
  /\ TypeOK
  /\ created >= 2
  /\ FrameStack
  /\ ContextChain
  /\ CellsOlder
  /\ BootIsBottom
  /\ UnwindKnown
  /\ UnwindTargetLive
  /\ HomesOlder

USE DEF Frame, Nil, Boot

\* The part of TypeOK that the links between frames need.
LinkTypes ==
  /\ created \in Nat /\ created >= 2 /\ created <= MaxFrames
  /\ prev \in [Frame -> Frame \cup {Nil}]
  /\ cell \in [Frame -> Frame]

-----------------------------------------------------------------------------
(***************************************************************************)
(* What the operations on frames do to the set of live frames.             *)
(***************************************************************************)

\* Updating one entry keeps a function's type.
LEMMA UpdateInt ==
  ASSUME NEW g \in [Frame -> Int], NEW i \in Frame, NEW v \in Int
  PROVE  [g EXCEPT ![i] = v] \in [Frame -> Int]
OBVIOUS

\* popFrame removes exactly the current frame from the live ones.
LEMMA PopLive ==
  ASSUME LinkTypes, frame \in Live, frame # Boot, popFrame
  PROVE  /\ Live' = Live \ {frame}
         /\ \A f \in Live' : prev'[f] = prev[f]
<1>1. /\ created' = created
      /\ cell' = cell
      /\ prev'[frame] = Nil
      /\ \A f \in 1 .. created : f # frame => prev'[f] = prev[f]
  BY BoundAssumption DEF LinkTypes, popFrame, Live
<1>2. \A f \in 1 .. created : Replaced(f)' <=> Replaced(f)
  BY <1>1 DEF Replaced
<1>3. QED
  BY <1>1, <1>2 DEF Live

\* A new frame is live and leaves the other frames as they were.
LEMMA PushLive ==
  ASSUME LinkTypes, CellsOlder, frame \in Live,
         NEW m, NEW ctx, NEW len, created < MaxFrames,
         NewFrame(created + 1, m, frame, ctx, len, created + 1)
  PROVE  /\ Live' = Live \cup {created + 1}
         /\ prev'[created + 1] = frame
         /\ \A f \in Live : prev'[f] = prev[f]
<1>1. /\ created' = created + 1
      /\ prev'[created + 1] = frame
      /\ cell'[created + 1] = created + 1
      /\ \A f \in 1 .. created : prev'[f] = prev[f] /\ cell'[f] = cell[f]
  BY BoundAssumption DEF LinkTypes, NewFrame
<1>2. \A f \in 1 .. created : Replaced(f)' <=> Replaced(f)
  BY <1>1 DEF Replaced, CellsOlder, LinkTypes
<1>3. \A f : f = created + 1 => ~Replaced(f)'
  BY <1>1 DEF Replaced, LinkTypes
<1>4. frame # Nil
  BY DEF Live
<1>5. ASSUME NEW f \in 1 .. created
      PROVE  f \in Live' <=> f \in Live
  <2>1. f \in 1 .. created'
    BY <1>1 DEF LinkTypes
  <2> QED BY <1>1, <1>2, <2>1 DEF Live
<1>6. \A f : f = created + 1 => f \in Live'
  <2>1. \A f : f = created + 1 => f \in 1 .. created'
    BY <1>1 DEF LinkTypes
  <2> QED BY <1>1, <1>3, <1>4, <2>1 DEF Live
<1>7. /\ \A f \in Live : f \in 1 .. created
      /\ \A f \in Live' : f \in 1 .. created \/ f = created + 1
  <2>1. \A f \in 1 .. created' : f \in 1 .. created \/ f = created + 1
    BY <1>1 DEF LinkTypes
  <2> QED BY <2>1 DEF Live
<1>8. Live' = Live \cup {created + 1}
  BY <1>5, <1>6, <1>7
<1>9. QED
  BY <1>1, <1>7, <1>8

\* An emergency frame takes the current frame's place among the live ones.
LEMMA EmergencyLive ==
  ASSUME LinkTypes, frame \in Live, frame # Boot,
         \A f \in Live : f <= frame,
         NEW extra, created < MaxFrames, EmergencyFrameFrom(extra)
  PROVE  /\ Live' = (Live \ {frame}) \cup {created + 1}
         /\ prev'[created + 1] = prev[frame]
         /\ \A f \in Live : prev'[f] = prev[f]
<1>1. /\ created' = created + 1
      /\ prev'[created + 1] = prev[frame]
      /\ cell'[created + 1] = cell[frame]
      /\ \A f \in 1 .. created : prev'[f] = prev[f] /\ cell'[f] = cell[f]
  BY BoundAssumption DEF LinkTypes, NewFrame, EmergencyFrameFrom
<1>2. frame \in 1 .. created /\ prev[frame] # Nil
  BY DEF Live
<1>3. \A f \in 1 .. created : f = frame => Replaced(f)'
  BY <1>1, <1>2 DEF Replaced, LinkTypes
<1>4. \A f : f = created + 1 => ~Replaced(f)'
  BY <1>1 DEF Replaced, LinkTypes
<1>5. ASSUME NEW f \in 1 .. created, f # frame
      PROVE  f \in Live' <=> f \in Live
  <2>1. CASE cell[f] = cell[frame]
    <3>1. f > frame \/ Replaced(f)
      BY <1>2, <1>5, <2>1 DEF Replaced, LinkTypes
    <3>2. f \notin Live
      BY <3>1, <1>2 DEF Live
    <3>3. Replaced(f)'
      BY <1>1, <2>1 DEF Replaced, LinkTypes
    <3> QED BY <3>2, <3>3 DEF Live
  <2>2. CASE cell[f] # cell[frame]
    <3>1. ASSUME Replaced(f)
          PROVE  Replaced(f)'
      BY <1>1, <3>1 DEF Replaced, LinkTypes
    <3>2. ASSUME Replaced(f)'
          PROVE  Replaced(f)
      <4>1. PICK e \in f + 1 .. created + 1 : cell'[e] = cell'[f]
        BY <1>1, <3>2 DEF Replaced
      <4>2. cell'[f] = cell[f]
        BY <1>1
      <4>3. e # created + 1
        BY <1>1, <2>2, <4>1, <4>2
      <4>4. e \in f + 1 .. created /\ e \in 1 .. created
        BY <4>1, <4>3 DEF LinkTypes
      <4>5. cell[e] = cell[f]
        BY <1>1, <4>1, <4>2, <4>4
      <4> QED BY <4>4, <4>5 DEF Replaced
    <3>3. f \in 1 .. created'
      BY <1>1 DEF LinkTypes
    <3> QED BY <1>1, <3>1, <3>2, <3>3 DEF Live
  <2> QED BY <2>1, <2>2
<1>6. \A f : /\ f = frame => f \notin Live'
             /\ f = created + 1 => f \in Live'
  <2>1. \A f : f = created + 1 => f \in 1 .. created'
    BY <1>1 DEF LinkTypes
  <2> QED BY <1>1, <1>2, <1>3, <1>4, <2>1 DEF Live
<1>7. /\ \A f \in Live : f \in 1 .. created
      /\ \A f \in Live' : f \in 1 .. created \/ f = created + 1
  <2>1. \A f \in 1 .. created' : f \in 1 .. created \/ f = created + 1
    BY <1>1 DEF LinkTypes
  <2> QED BY <2>1 DEF Live
<1>8. Live' = (Live \ {frame}) \cup {created + 1}
  BY <1>5, <1>6, <1>7
<1>9. QED
  BY <1>1, <1>7, <1>8

-----------------------------------------------------------------------------
(***************************************************************************)
(* The shape of the stack is preserved by each of them.                    *)
(***************************************************************************)

\* The conjuncts that constrain how frames are linked.
LinkInv == LinkTypes /\ StackShape /\ CellsOlder /\ BootIsBottom

\* The stack of frames depends on the frames alone.
LEMMA SameShape ==
  ASSUME LinkInv, UNCHANGED <<frame, created, prev, cell>>
  PROVE  LinkInv'
<1>1. Live' = Live
  BY DEF Live, Replaced
<1>2. QED
  BY <1>1 DEF LinkInv, LinkTypes, StackShape, CellsOlder, BootIsBottom

\* Popping the current frame leaves a stack whose top is its caller.
LEMMA PopShape ==
  ASSUME LinkInv, frame # Boot, popFrame
  PROVE  LinkInv'
<1>1. /\ Live' = Live \ {frame}
      /\ \A f \in Live' : prev'[f] = prev[f]
  BY PopLive DEF LinkInv, StackShape
<1>2. LinkTypes' /\ CellsOlder' /\ BootIsBottom'
  <2>1. frame \in Frame
    BY BoundAssumption DEF LinkInv, StackShape, Live, LinkTypes
  <2> QED BY <2>1 DEF LinkInv, LinkTypes, CellsOlder, BootIsBottom, popFrame
<1>3. frame' = prev[frame] /\ frame' \in Live /\ frame' < frame
  BY DEF popFrame, LinkInv, StackShape
<1>4. \A f \in Live : f \in Int
  BY DEF Live
<1>5. \A f \in Live' : f <= frame'
  BY <1>1, <1>3, <1>4 DEF LinkInv, StackShape
<1>6. frame' \in Live' /\ Boot \in Live'
  BY <1>1, <1>3, <1>4 DEF LinkInv, StackShape
<1>7. ASSUME NEW f \in Live' \ {Boot}
      PROVE  /\ prev'[f] \in Live'
             /\ prev'[f] < f
             /\ \A g \in Live' : g < f => g <= prev'[f]
  <2>0. frame \in Live /\ f <= frame'
    BY <1>5 DEF LinkInv, StackShape
  <2>1. /\ f \in Live /\ prev'[f] = prev[f] /\ f < frame
    BY <1>1, <1>3, <1>4, <2>0
  <2>2. /\ prev[f] \in Live
        /\ prev[f] < f
        /\ \A g \in Live : g < f => g <= prev[f]
    BY <2>1 DEF LinkInv, StackShape
  <2> QED BY <1>1, <1>4, <2>1, <2>2
<1>8. QED
  BY <1>2, <1>5, <1>6, <1>7 DEF LinkInv, StackShape

\* A new frame called by the current one becomes the top of the stack.
LEMMA PushShape ==
  ASSUME LinkInv, NEW m, NEW ctx, NEW len, created < MaxFrames,
         NewFrame(created + 1, m, frame, ctx, len, created + 1),
         frame' = created + 1
  PROVE  LinkInv'
<1>1. /\ Live' = Live \cup {created + 1}
      /\ prev'[created + 1] = frame
      /\ \A f \in Live : prev'[f] = prev[f]
  BY PushLive DEF LinkInv, StackShape
<1>2. \A f \in Live : f \in Int /\ f < created + 1 /\ f >= 1
  BY DEF Live, LinkInv, LinkTypes
<1>3. LinkTypes' /\ CellsOlder' /\ BootIsBottom'
  <2>1. frame \in Frame
    BY <1>2, BoundAssumption DEF LinkInv, StackShape, LinkTypes
  <2> QED
    BY <2>1, BoundAssumption DEF LinkInv, LinkTypes, CellsOlder, BootIsBottom, NewFrame
<1>4. frame' \in Live' /\ Boot \in Live' /\ \A f \in Live' : f <= frame'
  BY <1>1, <1>2 DEF LinkInv, StackShape, LinkTypes
<1>5. ASSUME NEW f \in Live' \ {Boot}
      PROVE  /\ prev'[f] \in Live'
             /\ prev'[f] < f
             /\ \A g \in Live' : g < f => g <= prev'[f]
  <2>1. CASE f = created + 1
    BY <1>1, <1>2, <2>1 DEF LinkInv, StackShape, LinkTypes
  <2>2. CASE f \in Live
    <3>1. /\ prev[f] \in Live
          /\ prev[f] < f
          /\ \A g \in Live : g < f => g <= prev[f]
      BY <2>2 DEF LinkInv, StackShape
    <3> QED BY <1>1, <1>2, <2>2, <3>1 DEF LinkInv, LinkTypes
  <2> QED BY <1>1, <2>1, <2>2
<1>6. QED
  BY <1>3, <1>4, <1>5 DEF LinkInv, StackShape

\* An emergency frame takes the place of the frame it copies.
LEMMA EmergencyShape ==
  ASSUME LinkInv, NEW extra, created < MaxFrames,
         frame # Boot, EmergencyFrameFrom(extra)
  PROVE  LinkInv'
<1>1. /\ Live' = (Live \ {frame}) \cup {created + 1}
      /\ prev'[created + 1] = prev[frame]
      /\ \A f \in Live : prev'[f] = prev[f]
  BY EmergencyLive DEF LinkInv, StackShape
<1>2. \A f \in Live : f \in Int /\ f < created + 1 /\ f >= 1
  BY DEF Live, LinkInv, LinkTypes
<1>3. frame' = created + 1
  BY DEF EmergencyFrameFrom
<1>4. LinkTypes' /\ CellsOlder' /\ BootIsBottom'
  <2>1. frame \in Frame /\ frame \in 1 .. created
    BY <1>2, BoundAssumption DEF LinkInv, StackShape, LinkTypes
  <2> QED
    BY <2>1, BoundAssumption DEF LinkInv, LinkTypes, CellsOlder, BootIsBottom, NewFrame,
                EmergencyFrameFrom
<1>5. /\ prev[frame] \in Live
      /\ prev[frame] < frame
      /\ \A g \in Live : g < frame => g <= prev[frame]
      /\ \A g \in Live : g <= frame
      /\ Boot \in Live
      /\ frame \in Live
  BY DEF LinkInv, StackShape
<1>6. frame' \in Live' /\ Boot \in Live' /\ \A f \in Live' : f <= frame'
  BY <1>1, <1>2, <1>3, <1>5
<1>7. ASSUME NEW f \in Live' \ {Boot}
      PROVE  /\ prev'[f] \in Live'
             /\ prev'[f] < f
             /\ \A g \in Live' : g < f => g <= prev'[f]
  <2>1. CASE f = created + 1
    <3>1. prev'[f] = prev[frame] /\ prev[frame] # frame
      BY <1>1, <1>2, <1>5, <2>1
    <3>2. prev'[f] \in Live' /\ prev'[f] < f
      BY <1>1, <1>2, <1>5, <2>1, <3>1
    <3>3. ASSUME NEW g \in Live', g < f
          PROVE  g <= prev'[f]
      <4>1. g \in Live /\ g # frame
        BY <1>1, <1>2, <2>1, <3>3 DEF LinkInv, LinkTypes
      <4>2. g < frame
        BY <1>2, <1>5, <4>1
      <4> QED BY <1>5, <3>1, <4>1, <4>2
    <3> QED BY <3>2, <3>3
  <2>2. CASE f \in Live \ {frame}
    <3>1. /\ prev[f] \in Live
          /\ prev[f] < f
          /\ \A g \in Live : g < f => g <= prev[f]
      BY <2>2 DEF LinkInv, StackShape
    <3>2. f < frame
      BY <1>2, <1>5, <2>2
    <3>3. prev'[f] = prev[f] /\ prev[f] # frame
      BY <1>1, <1>2, <1>5, <2>2, <3>1, <3>2
    <3>4. ASSUME NEW g \in Live', g < f
          PROVE  g <= prev'[f]
      <4>1. g \in Live
        BY <1>1, <1>2, <2>2, <3>4 DEF LinkInv, LinkTypes
      <4> QED BY <3>1, <3>3, <3>4, <4>1
    <3> QED BY <1>1, <3>1, <3>3, <3>4
  <2> QED BY <1>1, <2>1, <2>2
<1>8. QED
  BY <1>4, <1>6, <1>7 DEF LinkInv, StackShape

-----------------------------------------------------------------------------
(***************************************************************************)
(* Contexts and homes.                                                     *)
(***************************************************************************)

\* The part of TypeOK that contexts and homes need.
ContextTypes ==
  /\ created \in Nat /\ created <= MaxFrames
  /\ context \in [Frame -> Frame \cup {Nil}]
  /\ home \in [Frame -> Frame]
  /\ method \in [Frame -> Method]
  /\ \A b \in blocks : b.context \in Nat

\* A new frame with an older context, or with none if it is a method's, keeps
\* contexts and homes in order.
LEMMA NewFrameContext ==
  ASSUME ContextTypes, ContextChain, HomesOlder,
         NEW m \in Method, NEW p, NEW ctx \in 0 .. created, NEW len, NEW c,
         ctx = Nil <=> m \notin BlockMethod,
         created < MaxFrames,
         NewFrame(created + 1, m, p, ctx, len, c),
         blocks' = blocks
  PROVE  ContextChain' /\ HomesOlder'
<1> DEFINE h == GetOuterContext(created + 1, ctx)
<1>1. /\ created' = created + 1
      /\ context'[created + 1] = ctx
      /\ home'[created + 1] = h
      /\ method'[created + 1] = m
      /\ \A f \in 1 .. created : /\ context'[f] = context[f]
                               /\ home'[f] = home[f]
                               /\ method'[f] = method[f]
  BY BoundAssumption DEF ContextTypes, NewFrame
<1>2. \A f \in 1 .. created : home[f] \in 1 .. created
  BY BoundAssumption DEF ContextTypes, HomesOlder
<1>3. /\ ctx = Nil => h = created + 1
      /\ ctx # Nil => h = home[ctx] /\ h \in 1 .. created /\ h <= ctx
  <2>1. ctx # Nil => ctx \in 1 .. created
    BY DEF ContextTypes
  <2> QED BY <1>2, <2>1 DEF GetOuterContext, HomesOlder
<1>4. HomesOlder'
  BY <1>1, <1>3 DEF HomesOlder, ContextTypes
<1>5. \A b \in blocks' : b.context <= created'
  BY <1>1 DEF ContextChain, ContextTypes
<1>6. ASSUME NEW f \in 1 .. created
      PROVE  /\ context'[f] # Nil
                  => context'[f] < f /\ home'[f] = home'[context'[f]]
             /\ context'[f] = Nil => home'[f] = f
             /\ context'[f] = Nil <=> method'[f] \notin BlockMethod
             /\ method'[home'[f]] \notin BlockMethod
  <2>1. context[f] # Nil => context[f] \in 1 .. created
    <3>1. f \in Frame /\ f \in Int /\ f <= created
      BY BoundAssumption DEF ContextTypes
    <3>2. context[f] \in Frame \cup {Nil}
      BY <3>1 DEF ContextTypes
    <3> QED BY <3>1, <3>2, BoundAssumption DEF ContextChain, ContextTypes
  <2> QED BY <1>1, <1>2, <2>1 DEF ContextChain
<1>7. /\ ctx # Nil => ctx < created + 1 /\ h = home'[ctx]
      /\ ctx = Nil => h = created + 1
      /\ method'[h] \notin BlockMethod
  <2>1. CASE ctx = Nil
    BY <1>1, <1>3, <2>1
  <2>2. CASE ctx # Nil
    <3>1. ctx \in 1 .. created
      BY <2>2 DEF ContextTypes
    <3> QED BY <1>1, <1>3, <2>2, <3>1 DEF ContextChain, ContextTypes
  <2> QED BY <2>1, <2>2
<1>8. \A f \in 1 .. created' : f \in 1 .. created \/ f = created + 1
  BY <1>1 DEF ContextTypes
<1>9. ContextChain'
  BY <1>1, <1>5, <1>6, <1>7, <1>8 DEF ContextChain
<1>10. QED
  BY <1>4, <1>9

-----------------------------------------------------------------------------
(***************************************************************************)
(* The invariant is preserved by the four things an action can do to the   *)
(* frames: leave them alone, push one, replace the current one, pop it.    *)
(***************************************************************************)

\* What the invariant says of the current frame, in the form the steps below use.
LEMMA Facts ==
  ASSUME IInv, status # "lost"
  PROVE  /\ LinkInv
         /\ ContextTypes
         /\ frame \in Frame /\ frame <= created
         /\ cell[frame] \in Frame
<1>0. created \in Nat /\ created >= 2 /\ created <= MaxFrames
  BY BoundAssumption DEF IInv, TypeOK
<1>1. LinkTypes
  <2>1. prev \in [Frame -> Frame \cup {Nil}] /\ cell \in [Frame -> Frame]
    BY Zenon DEF IInv, TypeOK
  <2> QED BY Zenon, <1>0, <2>1 DEF LinkTypes
<1>2. LinkInv
  BY <1>1 DEF IInv, LinkInv, FrameStack
<1>3. ContextTypes
  <2>1. /\ context \in [Frame -> Frame \cup {Nil}]
        /\ home \in [Frame -> Frame]
        /\ method \in [Frame -> Method]
    BY Zenon DEF IInv, TypeOK
  <2>2. \A b \in blocks : b.context \in Nat
    BY BoundAssumption DEF IInv, TypeOK, Block
  <2> QED BY Zenon, <1>0, <2>1, <2>2 DEF ContextTypes
<1>4. frame \in Frame /\ frame <= created
  BY <1>2, BoundAssumption DEF LinkInv, StackShape, Live, LinkTypes
<1>5. QED
  BY <1>1, <1>2, <1>3, <1>4 DEF LinkTypes

\* A step that leaves every frame alone: it may make a block of the current
\* frame, and it may start to unwind towards a frame that has a caller.
LEMMA QuietStep ==
  ASSUME IInv, status # "lost", TypeOK',
         UNCHANGED <<frame, created, frameVars>>,
         \A b \in blocks' : b \in blocks \/ b.context = frame,
         mode' = "unwind" => /\ target' \in 2 .. created
                             /\ prev[target'] # Nil
  PROVE  IInv'
<1>1. LinkInv'
  BY Facts, SameShape DEF frameVars
<1>2. frame <= created /\ created \in Nat
  BY Facts DEF LinkInv, LinkTypes
<1>3. ContextChain' /\ HomesOlder'
  BY <1>2 DEF IInv, ContextChain, HomesOlder, frameVars
<1>4. UnwindKnown' /\ UnwindTargetLive'
  BY DEF UnwindKnown, UnwindTargetLive, Live, Replaced, frameVars
<1>5. QED
  BY <1>1, <1>3, <1>4 DEF IInv, LinkInv, LinkTypes, FrameStack

\* A step that calls a method or evaluates a block (PushNewFrame).
LEMMA PushStep ==
  ASSUME IInv, status = "running",
         NEW m \in Method, NEW ctx \in 0 .. created, NEW s \in Int, NEW d \in Int,
         ctx = Nil <=> m \notin BlockMethod,
         PushNewFrame(m, ctx, s, d),
         mode' = "run", pending' \in {0, 2, 3},
         UNCHANGED <<blocks, target, status>>
  PROVE  IInv'
<1>1. /\ LinkInv /\ ContextTypes /\ frame \in Frame
      /\ cell[frame] \in Frame
      /\ created \in Nat /\ created + 1 \in Frame /\ created < MaxFrames
  <2>1. LinkInv /\ ContextTypes /\ frame \in Frame /\ cell[frame] \in Frame
    BY Facts
  <2>2. created \in Nat /\ created < MaxFrames
    BY <2>1 DEF PushNewFrame, ContextTypes
  <2>3. created + 1 \in Frame
    BY <2>2, BoundAssumption
  <2> QED BY <2>1, <2>2, <2>3
<1>2. NewFrame(created + 1, m, frame, ctx, FrameLength(m), created + 1)
  BY DEF PushNewFrame
<1>3. LinkInv'
  BY <1>1, <1>2, PushShape DEF PushNewFrame
<1>4. ContextChain' /\ HomesOlder'
  BY <1>1, <1>2, NewFrameContext DEF PushNewFrame, IInv
<1>5. FrameLength(m) \in Nat /\ Base(m) \in Int
  BY MethodAssumption DEF FrameLength, Base
<1>6. home' \in [Frame -> Frame]
  <2>0. ctx # Nil => ctx \in Frame
    BY <1>1, BoundAssumption
  <2>1. GetOuterContext(created + 1, ctx) \in Frame
    BY <1>1, <2>0 DEF GetOuterContext, ContextTypes
  <2> QED BY <1>1, <1>2, <2>1 DEF NewFrame, ContextTypes
<1>7. TypeOK'
  <2>1. sp' \in [Frame -> Int] /\ depth' \in [Frame -> Int]
    <3>1. sp \in [Frame -> Int] /\ depth \in [Frame -> Int]
      BY Zenon DEF IInv, TypeOK
    <3>2. /\ [sp EXCEPT ![cell[frame]] = s] \in [Frame -> Int]
          /\ [depth EXCEPT ![cell[frame]] = d] \in [Frame -> Int]
      BY <1>1, <3>1
    <3>3. /\ sp' = [[sp EXCEPT ![cell[frame]] = s] EXCEPT ![created + 1] = Base(m)]
          /\ depth' = [[depth EXCEPT ![cell[frame]] = d] EXCEPT ![created + 1] = 0]
      BY DEF PushNewFrame, Cur
    <3>4. sp' \in [Frame -> Int]
      BY <1>1, <1>5, <3>2, <3>3
    <3>5. depth' \in [Frame -> Int]
      BY <1>1, <3>2, <3>3
    <3> QED BY <3>4, <3>5
  <2>2. /\ created' \in Frame
        /\ frame' \in Frame
        /\ prev' \in [Frame -> Frame \cup {Nil}]
        /\ context' \in [Frame -> Frame \cup {Nil}]
        /\ method' \in [Frame -> Method]
        /\ length' \in [Frame -> Nat]
        /\ cell' \in [Frame -> Frame]
    <3>1. ctx \in Frame \cup {Nil}
      BY <1>1, BoundAssumption DEF ContextTypes
    <3>2. /\ context \in [Frame -> Frame \cup {Nil}]
          /\ prev \in [Frame -> Frame \cup {Nil}]
          /\ method \in [Frame -> Method]
          /\ length \in [Frame -> Nat]
          /\ cell \in [Frame -> Frame]
      BY Zenon DEF IInv, TypeOK
    <3>3. created' \in Frame /\ frame' \in Frame
      BY <1>1 DEF PushNewFrame, NewFrame
    <3>4. prev' \in [Frame -> Frame \cup {Nil}] /\ cell' \in [Frame -> Frame]
      BY <1>1, <1>2, <3>2 DEF NewFrame
    <3>5. context' \in [Frame -> Frame \cup {Nil}]
      BY <1>1, <1>2, <3>1, <3>2 DEF NewFrame
    <3>6. method' \in [Frame -> Method] /\ length' \in [Frame -> Nat]
      BY <1>1, <1>2, <1>5, <3>2 DEF NewFrame
    <3> QED BY Zenon, <3>3, <3>4, <3>5, <3>6
  <2>3. /\ blocks' \subseteq Block
        /\ target' \in Frame \cup {Nil}
        /\ mode' \in {"run", "send", "unwind"}
        /\ status' \in {"running", "halted", "errorExit", "lost"}
    BY Zenon DEF IInv, TypeOK
  <2> QED BY Zenon, <1>6, <2>1, <2>2, <2>3 DEF TypeOK
<1>8. UnwindKnown' /\ UnwindTargetLive'
  BY DEF UnwindKnown, UnwindTargetLive
<1>9. QED
  BY <1>3, <1>4, <1>7, <1>8 DEF IInv, LinkInv, LinkTypes, FrameStack

\* A step that makes room for an unplanned send (MakeRoom).
LEMMA RoomStep ==
  ASSUME IInv, status = "running", frame # Boot,
         NEW k \in Nat, NEW s \in Int, created + 2 <= MaxFrames,
         MakeRoom(k, s), mode' = "send", pending' \in {0, 2, 3},
         sp' \in [Frame -> Int], depth' \in [Frame -> Int],
         UNCHANGED <<blocks, target, status>>
  PROVE  IInv'
<1> DEFINE extra == k - RemainingStackSize(s)
<1>1. /\ LinkInv /\ ContextTypes /\ frame \in Frame /\ frame <= created
      /\ cell[frame] \in Frame
      /\ created \in Nat /\ created + 1 \in Frame /\ created < MaxFrames
  <2>1. /\ LinkInv /\ ContextTypes /\ frame \in Frame /\ frame <= created
        /\ cell[frame] \in Frame
    BY Facts
  <2>2. created \in Nat /\ created < MaxFrames
    BY <2>1, BoundAssumption DEF ContextTypes
  <2>3. created + 1 \in Frame
    BY <2>2, BoundAssumption
  <2> QED BY <2>1, <2>2, <2>3
<1>2. CASE UNCHANGED <<frame, created, frameVars>>
  <2>1. TypeOK'
    BY <1>2 DEF IInv, TypeOK, frameVars
  <2> QED BY <1>2, <2>1, QuietStep
<1>3. CASE extra > 0 /\ EmergencyFrameFrom(extra)
  <2>1. NewFrame(created + 1, method[frame], prev[frame], context[frame],
                 length[frame] + extra, cell[frame])
    BY <1>3 DEF EmergencyFrameFrom
  <2>2. LinkInv'
    BY <1>1, <1>3, EmergencyShape
  <2>3. /\ method[frame] \in Method
        /\ context[frame] \in 0 .. created
        /\ context[frame] = Nil <=> method[frame] \notin BlockMethod
    <3>1. frame \in 1 .. created
      BY <1>1, BoundAssumption
    <3>2. /\ context[frame] # Nil => context[frame] < frame
          /\ context[frame] = Nil <=> method[frame] \notin BlockMethod
      BY <3>1 DEF IInv, ContextChain
    <3>3. method[frame] \in Method /\ context[frame] \in Frame \cup {Nil}
      BY <1>1 DEF ContextTypes
    <3>4. context[frame] \in 0 .. created
      BY <1>1, <3>1, <3>2, <3>3
    <3> QED BY <3>2, <3>3, <3>4
  <2>4. ContextChain' /\ HomesOlder'
    BY <1>1, <2>1, <2>3, NewFrameContext DEF IInv
  <2>5. length[frame] + extra \in Nat
    <3>1. length \in [Frame -> Nat]
      BY Zenon DEF IInv, TypeOK
    <3>2. length[frame] \in Nat
      BY <1>1, <3>1
    <3> QED BY <1>3, <3>2 DEF RemainingStackSize
  <2>6. GetOuterContext(created + 1, context[frame]) \in Frame
    BY <1>1, <2>3 DEF GetOuterContext, ContextTypes
  <2>7. TypeOK'
    <3>1. /\ context \in [Frame -> Frame \cup {Nil}]
          /\ prev \in [Frame -> Frame \cup {Nil}]
          /\ home \in [Frame -> Frame]
          /\ method \in [Frame -> Method]
          /\ length \in [Frame -> Nat]
          /\ cell \in [Frame -> Frame]
          /\ blocks' \subseteq Block
          /\ target' \in Frame \cup {Nil}
          /\ mode' \in {"run", "send", "unwind"}
          /\ status' \in {"running", "halted", "errorExit", "lost"}
      BY Zenon DEF IInv, TypeOK
    <3>2. created' \in Frame /\ frame' \in Frame
      BY <1>1, <1>3, <2>1 DEF EmergencyFrameFrom, NewFrame
    <3>3. prev' \in [Frame -> Frame \cup {Nil}]
      BY <1>1, <2>1, <3>1 DEF NewFrame
    <3>4. context' \in [Frame -> Frame \cup {Nil}]
      BY <1>1, <2>1, <3>1 DEF NewFrame
    <3>5. home' \in [Frame -> Frame] /\ cell' \in [Frame -> Frame]
      BY <1>1, <2>1, <2>6, <3>1 DEF NewFrame
    <3>6. method' \in [Frame -> Method] /\ length' \in [Frame -> Nat]
      BY <1>1, <2>1, <2>5, <3>1 DEF NewFrame
    <3> QED
      BY Zenon, <3>1, <3>2, <3>3, <3>4, <3>5, <3>6 DEF TypeOK
  <2>8. UnwindKnown' /\ UnwindTargetLive'
    BY DEF UnwindKnown, UnwindTargetLive
  <2> QED
    BY <2>2, <2>4, <2>7, <2>8 DEF IInv, LinkInv, LinkTypes, FrameStack
<1>4. QED
  BY <1>2, <1>3 DEF MakeRoom

\* A step that pops the current frame (popFrame).
LEMMA PopStep ==
  ASSUME IInv, status = "running", frame # Boot, popFrame,
         mode' \in {"run", "send", "unwind"}, pending' \in {0, 2, 3},
         target' \in Frame \cup {Nil},
         sp' \in [Frame -> Int], depth' \in [Frame -> Int],
         mode' = "unwind" => /\ mode = "unwind"
                             /\ target' = target
                             /\ frame # target,
         UNCHANGED <<blocks, status>>
  PROVE  IInv'
<1>1. LinkInv /\ frame \in Frame
  BY Facts
<1>2. LinkInv'
  BY <1>1, PopShape
<1>3. ContextChain' /\ HomesOlder'
  BY DEF IInv, ContextChain, HomesOlder, popFrame
<1>4. TypeOK'
  BY <1>1 DEF IInv, TypeOK, popFrame
<1>5. UnwindKnown'
  BY DEF IInv, UnwindKnown, popFrame
<1>6. UnwindTargetLive'
  <2> SUFFICES ASSUME mode' = "unwind", ~Replaced(target)'
               PROVE  target' \in Live'
    BY DEF UnwindTargetLive
  <2>1. target' = target /\ mode = "unwind" /\ target # frame
    OBVIOUS
  <2>2. ~Replaced(target)
    BY <2>1 DEF Replaced, popFrame
  <2>3. target \in Live
    BY <2>1, <2>2 DEF IInv, UnwindTargetLive
  <2>4. Live' = Live \ {frame}
    BY <1>1, PopLive DEF LinkInv, StackShape
  <2> QED BY <2>1, <2>3, <2>4
<1>7. QED
  BY <1>2, <1>3, <1>4, <1>5, <1>6 DEF IInv, LinkInv, LinkTypes, FrameStack

-----------------------------------------------------------------------------
(***************************************************************************)
(* The theorem.                                                            *)
(***************************************************************************)

\* Universe::initialize establishes the invariant.
LEMMA InitIInv ==
  ASSUME Init
  PROVE  IInv
<1>1. PICK m \in Method \ BlockMethod :
        /\ NumArgs[m] = 2
        /\ frame = 2
        /\ created = 2
        /\ prev = [f \in Frame |-> IF f = 2 THEN Boot ELSE Nil]
        /\ context = [f \in Frame |-> Nil]
        /\ home = [f \in Frame |-> f]
        /\ method = [f \in Frame |-> IF f = 2 THEN m ELSE BootMethod]
        /\ length = [f \in Frame |-> IF f = 2 THEN FrameLength(m)
                                     ELSE FrameLength(BootMethod)]
        /\ cell = [f \in Frame |-> f]
        /\ sp = [f \in Frame |-> IF f = 2 THEN Base(m) ELSE Base(BootMethod) + 2]
        /\ depth = [f \in Frame |-> IF f = Boot THEN 1 ELSE 0]
        /\ blocks = {}
        /\ mode = "run"
        /\ pending = 0
        /\ target = Nil
        /\ status = "running"
  BY DEF Init
<1>2. 1 \in Frame /\ 2 \in Frame
  BY BoundAssumption
<1>3. \A k \in Method : FrameLength(k) \in Nat /\ Base(k) \in Int
  BY MethodAssumption DEF FrameLength, Base
<1>4. TypeOK
  <2>1. length \in [Frame -> Nat] /\ sp \in [Frame -> Int]
    BY <1>1, <1>3, MethodAssumption
  <2>2. prev \in [Frame -> Frame \cup {Nil}] /\ context \in [Frame -> Frame \cup {Nil}]
    BY <1>1, <1>2
  <2>3. home \in [Frame -> Frame] /\ cell \in [Frame -> Frame]
    BY <1>1
  <2>4. method \in [Frame -> Method] /\ depth \in [Frame -> Int]
    BY <1>1, MethodAssumption
  <2>5. /\ frame \in Frame \cup {Nil} /\ created \in Frame
        /\ blocks \subseteq Block /\ mode \in {"run", "send", "unwind"}
        /\ pending \in {0, 2, 3} /\ target \in Frame \cup {Nil}
        /\ status \in {"running", "halted", "errorExit", "lost"}
    BY <1>1, <1>2
  <2> QED BY Zenon, <2>1, <2>2, <2>3, <2>4, <2>5 DEF TypeOK
<1>5. Live = {1, 2}
  BY <1>1, <1>2 DEF Live, Replaced
<1>6. FrameStack
  BY <1>1, <1>2, <1>5 DEF FrameStack, StackShape
<1>7. ContextChain
  BY <1>1, <1>2, MethodAssumption DEF ContextChain
<1>8. CellsOlder /\ BootIsBottom /\ HomesOlder /\ UnwindKnown /\ UnwindTargetLive
  BY <1>1, <1>2 DEF CellsOlder, BootIsBottom, HomesOlder, UnwindKnown,
                    UnwindTargetLive
<1>9. QED
  BY <1>1, <1>4, <1>6, <1>7, <1>8 DEF IInv

\* An array access that ends the process changes no frame.
LEMMA ErrorExitStep ==
  ASSUME IInv, status = "running", mode # "unwind", ErrorExit
  PROVE  IInv'
<1>1. TypeOK'
  BY Zenon DEF IInv, TypeOK, ErrorExit, frameVars
<1>2. QED
  BY <1>1, QuietStep DEF ErrorExit

\* Every bytecode, every unplanned send and every turn of the unwinding loop
\* keeps the invariant.
LEMMA NextIInv ==
  ASSUME IInv, [Next]_vars
  PROVE  IInv'
<1> USE DEF AtBytecode
<1>0. CASE UNCHANGED vars
  BY <1>0 DEF vars, IInv, TypeOK, FrameStack, StackShape, ContextChain, CellsOlder,
         BootIsBottom, UnwindKnown, UnwindTargetLive, HomesOlder, Live, Replaced
<1> SUFFICES ASSUME Next, status = "running"
             PROVE  IInv'
  BY <1>0 DEF Next, Done, Halt, doDup, doPushValue, doPushBlock, doPop,
       doSendMethod, evaluationRoutine, doSendPrimitive, Restart, sendDNU,
       superSendDNU, pushUnknownGlobal, Send, doReturnLocal, doReturnNonLocal,
       Unwind, UnwindFound
<1>a. /\ LinkInv /\ ContextTypes /\ frame \in Frame /\ frame <= created
      /\ cell[frame] \in Frame
  BY Facts
<1>b. /\ sp \in [Frame -> Int] /\ depth \in [Frame -> Int]
      /\ sp[Cur] \in Int /\ depth[Cur] \in Int /\ Cur \in Frame
      /\ method[frame] \in Method /\ pending \in {0, 2, 3}
  <2>1. sp \in [Frame -> Int] /\ depth \in [Frame -> Int] /\ pending \in {0, 2, 3}
    BY Zenon DEF IInv, TypeOK
  <2> QED BY <1>a, <2>1 DEF Cur, ContextTypes
<1>c. \A m \in Method : NumArgs[m] \in Nat /\ MaxStack[m] \in Nat /\ Base(m) \in Int
  BY MethodAssumption DEF Base
<1>1. CASE Halt
  <2>1. TypeOK'
    BY Zenon, <1>1 DEF IInv, TypeOK, Halt, frameVars
  <2> QED BY <1>1, <2>1, QuietStep DEF Halt
<1>2. ASSUME AtBytecode, Push, blocks' \subseteq Block,
             \A b \in blocks' : b \in blocks \/ b.context = frame
      PROVE  IInv'
  <2>1. /\ sp' \in [Frame -> Int] /\ depth' \in [Frame -> Int]
        /\ UNCHANGED <<frame, created, frameVars, mode, pending, target>>
        /\ status' \in {"running", "errorExit"}
    BY <1>2, <1>b DEF Push, ErrorExit
  <2>2. TypeOK'
    BY Zenon, <2>1, <1>2 DEF IInv, TypeOK, frameVars
  <2> QED BY <1>2, <2>1, <2>2, QuietStep
<1>3. CASE doDup
  BY <1>2, <1>3 DEF doDup, IInv, TypeOK
<1>4. CASE doPushValue
  BY <1>2, <1>4 DEF doPushValue, IInv, TypeOK
<1>5. CASE doPushBlock
  <2>1. PICK m \in BlockMethod :
          blocks' = blocks \cup {[context |-> frame, method |-> m]}
    BY <1>5 DEF doPushBlock
  <2>2. blocks' \subseteq Block
    BY <2>1, <1>a DEF Block, IInv, TypeOK
  <2> QED BY <1>2, <1>5, <2>1, <2>2 DEF doPushBlock
<1>6. ASSUME NEW n \in Nat, NEW k \in Nat, AtBytecode, Replace(n, k)
      PROVE  IInv'
  <2>1. sp' \in [Frame -> Int] /\ depth' \in [Frame -> Int]
    BY <1>6, <1>b DEF Replace
  <2>2. TypeOK'
    BY Zenon, <1>6, <2>1 DEF IInv, TypeOK, Replace, frameVars
  <2> QED BY <1>6, <2>2, QuietStep DEF Replace
<1>7. CASE doPop
  BY <1>6, <1>7 DEF doPop
<1>8. CASE doSendPrimitive
  BY <1>6, <1>8, <1>b, <1>c DEF doSendPrimitive
<1>9. CASE Restart
  <2>1. sp' \in [Frame -> Int] /\ depth' \in [Frame -> Int]
    BY <1>9, <1>b, <1>c DEF Restart
  <2>2. TypeOK'
    BY Zenon, <1>9, <2>1 DEF IInv, TypeOK, Restart, frameVars
  <2> QED BY <1>9, <2>2, QuietStep DEF Restart
<1>10. CASE doSendMethod
  <2>1. PICK m \in Method \ (BlockMethod \cup {BootMethod}) :
          PushNewFrame(m, Nil, sp[Cur], depth[Cur] - NumArgs[m] + 1)
    BY <1>10 DEF doSendMethod
  <2>2. depth[Cur] - NumArgs[m] + 1 \in Int /\ 0 \in 0 .. created
    BY <1>a, <1>b, <1>c DEF ContextTypes
  <2> QED BY <1>10, <1>b, <2>1, <2>2, PushStep DEF doSendMethod
<1>11. CASE evaluationRoutine
  <2>1. PICK b \in blocks :
          PushNewFrame(b.method, b.context, sp[Cur],
                       depth[Cur] - NumArgs[b.method] + 1)
    BY <1>11 DEF evaluationRoutine
  <2>2. /\ b.method \in BlockMethod /\ b.method \in Method
        /\ b.context \in Frame /\ b.context <= created
    BY MethodAssumption DEF IInv, TypeOK, Block, ContextChain
  <2>3. depth[Cur] - NumArgs[b.method] + 1 \in Int
    BY <1>b, <1>c, <2>2
  <2>4. b.context \in 0 .. created /\ b.context # Nil
    BY <1>a, <2>2, BoundAssumption DEF ContextTypes
  <2> QED BY <1>11, <1>b, <2>1, <2>2, <2>3, <2>4, PushStep DEF evaluationRoutine
<1>12. CASE sendDNU
  <2>1. PICK n \in 1 .. MaxStack[method[frame]] :
          /\ sp' = [sp EXCEPT ![Cur] = @ - n]
          /\ depth' = [depth EXCEPT ![Cur] = @ - n + 1]
          /\ MakeRoom(3, sp[Cur] - n)
    BY <1>12 DEF sendDNU
  <2>2. /\ sp' \in [Frame -> Int] /\ depth' \in [Frame -> Int]
        /\ sp[Cur] - n \in Int
    BY <1>b, <1>c, <2>1
  <2> QED BY <1>12, <2>1, <2>2, RoomStep DEF sendDNU, RoomForUnplanned
<1>13. CASE superSendDNU
  <2>1. PICK n \in 1 .. MaxStack[method[frame]] :
          /\ sp' = [sp EXCEPT ![Cur] = @ - n]
          /\ depth' = [depth EXCEPT ![Cur] = @ - n + 1]
    BY <1>13 DEF superSendDNU
  <2>2. sp' \in [Frame -> Int] /\ depth' \in [Frame -> Int]
    BY <1>b, <1>c, <2>1
  <2>3. TypeOK'
    BY Zenon, <1>13, <2>2 DEF IInv, TypeOK, superSendDNU, frameVars
  <2> QED BY <1>13, <2>3, QuietStep DEF superSendDNU
<1>14. CASE pushUnknownGlobal
  <2>1. /\ sp' \in [Frame -> Int] /\ depth' \in [Frame -> Int]
        /\ sp[Cur] \in Int
    BY <1>14, <1>b DEF pushUnknownGlobal
  <2> QED BY <1>14, <2>1, RoomStep DEF pushUnknownGlobal, RoomForUnplanned
<1>15. CASE Send
  <2>1. CASE pending <= RemainingStackSize(sp[Cur])
    <3>1. PICK m \in Method \ (BlockMethod \cup {BootMethod}) :
            PushNewFrame(m, Nil, sp[Cur] + pending, depth[Cur])
      BY <1>15, <2>1 DEF Send
    <3>2. sp[Cur] + pending \in Int /\ 0 \in 0 .. created
      BY <1>a, <1>b DEF ContextTypes
    <3> QED BY <1>15, <1>b, <2>1, <3>1, <3>2, PushStep DEF Send
  <2>2. CASE ErrorExit
    BY <1>15, <2>2, ErrorExitStep DEF Send
  <2> QED BY <1>15, <2>1, <2>2 DEF Send
<1>16. ASSUME popFrameAndPushResult, frame # Boot
       PROVE  sp' \in [Frame -> Int]
  <2> DEFINE c == cell[prev[frame]]
  <2> DEFINE v == sp[c] - NumArgs[method[frame]] + 1
  <2>1. prev[frame] \in Live
    BY <1>16, <1>a DEF LinkInv, StackShape
  <2>2. prev[frame] \in Frame
    BY <2>1, <1>a, BoundAssumption DEF Live, ContextTypes, LinkInv, LinkTypes
  <2>3. c \in Frame
    BY <2>2, <1>a DEF LinkInv, LinkTypes
  <2>4. v \in Int
    BY <2>3, <1>b, <1>c
  <2>5. sp' = [sp EXCEPT ![c] = v]
    BY <1>16 DEF popFrameAndPushResult
  <2> HIDE DEF c, v
  <2> QED BY <2>3, <2>4, <2>5, <1>b, UpdateInt
<1>17. CASE doReturnLocal
  <2>1. popFrame /\ sp' \in [Frame -> Int]
    BY <1>16, <1>17 DEF doReturnLocal, popFrameAndPushResult
  <2>2. target' \in Frame \cup {Nil} /\ depth' \in [Frame -> Int]
    BY Zenon, <1>17, <1>b DEF doReturnLocal, IInv, TypeOK
  <2> QED BY <1>17, <1>b, <2>1, <2>2, PopStep DEF doReturnLocal
<1>18. CASE doReturnNonLocal
  <2>1. CASE prev[home[frame]] = Nil
    <3>1. target' \in Frame \cup {Nil}
      BY Zenon, <1>18, <2>1 DEF doReturnNonLocal, IInv, TypeOK
    <3> QED BY <1>18, <1>b, <2>1, <3>1, PopStep DEF doReturnNonLocal
  <2>2. CASE prev[home[frame]] # Nil
    <3>1. home[frame] \in 2 .. created
      <4>1. home[frame] \in Frame /\ home[frame] <= frame
        BY <1>a, BoundAssumption DEF IInv, HomesOlder, ContextTypes
      <4>2. home[frame] # Boot
        BY <2>2 DEF IInv, BootIsBottom
      <4> QED BY <1>a, <4>1, <4>2, BoundAssumption, SMTT(30) DEF ContextTypes
    <3>2. sp' \in [Frame -> Int] /\ depth' \in [Frame -> Int]
      BY <1>18, <1>b, <2>2 DEF doReturnNonLocal
    <3>3. target' \in Frame \cup {Nil}
      BY <1>18, <1>a, <2>2 DEF doReturnNonLocal, ContextTypes
    <3>4. TypeOK'
      BY Zenon, <1>18, <2>2, <3>2, <3>3
         DEF IInv, TypeOK, doReturnNonLocal, frameVars
    <3> QED BY <1>18, <2>2, <3>1, <3>4, QuietStep DEF doReturnNonLocal
  <2> QED BY <2>1, <2>2
<1>19. CASE Unwind
  <2>1. CASE frame = Boot
    <3>1. frame' = Nil /\ prev' = prev /\ status' = "lost" /\ mode' = mode
      BY <1>19, <1>a, <2>1 DEF Unwind, popFrame, IInv, BootIsBottom, LinkInv, LinkTypes
    <3>2. TypeOK'
      BY Zenon, <1>19, <3>1 DEF IInv, TypeOK, Unwind, popFrame
    <3>3. FrameStack' /\ UnwindTargetLive'
      BY <3>1 DEF FrameStack, UnwindTargetLive
    <3>4. ContextChain' /\ HomesOlder' /\ UnwindKnown'
      BY <1>19 DEF IInv, ContextChain, HomesOlder, UnwindKnown, Unwind, popFrame
    <3>5. CellsOlder' /\ BootIsBottom' /\ created' >= 2
      BY <1>19, <3>1 DEF IInv, CellsOlder, BootIsBottom, Unwind, popFrame
    <3> QED BY <3>2, <3>3, <3>4, <3>5 DEF IInv
  <2>2. CASE frame # Boot
    <3>1. prev[frame] # Nil
      BY <1>a, <2>2 DEF LinkInv, StackShape, Live
    <3>2. target' \in Frame \cup {Nil} /\ mode' \in {"run", "send", "unwind"}
      BY Zenon, <1>19 DEF IInv, TypeOK, Unwind
    <3> QED BY <1>19, <1>b, <2>2, <3>1, <3>2, PopStep DEF Unwind
  <2> QED BY <2>1, <2>2
<1>20. CASE UnwindFound
  <2>1. frame # Boot
    BY <1>20 DEF UnwindFound, IInv, UnwindKnown
  <2>2. popFrame /\ sp' \in [Frame -> Int]
    BY <1>16, <1>20, <2>1 DEF UnwindFound, popFrameAndPushResult
  <2> QED BY <1>20, <1>b, <2>1, <2>2, PopStep DEF UnwindFound
<1>21. QED
  BY <1>1, <1>3, <1>4, <1>5, <1>7, <1>8, <1>9, <1>10, <1>11, <1>12, <1>13, <1>14,
     <1>15, <1>17, <1>18, <1>19, <1>20 DEF Next, Done

\* The initial states satisfy IInv and every step keeps it.
THEOREM Inductive == Spec => []IInv
<1>1. Init => IInv
  BY InitIInv
<1>2. IInv /\ [Next]_vars => IInv'
  BY NextIInv
<1>3. QED
  BY <1>1, <1>2, PTL DEF Spec

\* Every variable of the interpreter keeps its type, for every program.
THEOREM TypeCorrect == Spec => []TypeOK
<1>1. IInv => TypeOK
  BY Zenon DEF IInv
<1>2. QED
  BY <1>1, Inductive, PTL

\* Following previousFrame from the current frame visits every activation in
\* progress once, youngest first, and ends at the bootstrap frame: popFrame,
\* PushNewFrame and EmergencyFrameFrom keep the frames a stack whatever the
\* program does.
THEOREM FramesAreAStack == Spec => []FrameStack
<1>1. IInv => FrameStack
  BY Zenon DEF IInv
<1>2. QED
  BY <1>1, Inductive, PTL

\* GetOuterContext ends, and ends at a method's frame, for every nesting of
\* blocks and for blocks that outlive the frame that made them.
THEOREM ContextsEndAtMethods == Spec => []ContextChain
<1>1. IInv => ContextChain
  BY Zenon DEF IInv
<1>2. QED
  BY <1>1, Inductive, PTL

\* The frame doReturnNonLocal unwinds to is on the stack all the while it pops,
\* unless an emergency frame took its place.
THEOREM TargetStaysLive == Spec => []UnwindTargetLive
<1>1. IInv => UnwindTargetLive
  BY Zenon DEF IInv
<1>2. QED
  BY <1>1, Inductive, PTL

\* A non-local return ends in the caller of the block's home method with
\* exactly the activations older than the home method left (doReturnNonLocal).
THEOREM NonLocalReturn == Spec => NonLocalReturnReachesCaller
<1> DEFINE A == (mode = "unwind" /\ mode' = "run" /\ ~Replaced(target))
                   => /\ frame' = prev[target]
                      /\ Live' = {f \in Live : f < target}
<1>1. ASSUME IInv, [Next]_vars
      PROVE  [A]_vars
  <2>1. SUFFICES ASSUME Next, mode = "unwind", mode' = "run"
                 PROVE  /\ frame' = prev[target]
                        /\ Live' = {f \in Live : f < target}
    BY <1>1
  <2>2. UnwindFound
    BY <2>1 DEF Next, Halt, doDup, doPushValue, doPushBlock, doPop, doSendMethod,
         evaluationRoutine, doSendPrimitive, Restart, sendDNU, superSendDNU,
         pushUnknownGlobal, Send, doReturnLocal, doReturnNonLocal, Unwind, Done,
         AtBytecode, vars, Push, Replace, ErrorExit
  <2>3. frame = target /\ popFrame /\ status = "running"
    BY <2>2 DEF UnwindFound, popFrameAndPushResult
  <2>4. frame # Boot
    BY <1>1, <2>1, <2>3 DEF IInv, UnwindKnown
  <2>5. LinkInv
    BY <1>1, <2>3, Facts
  <2>6. Live' = Live \ {frame}
    BY <2>3, <2>4, <2>5, PopLive DEF LinkInv, StackShape
  <2>7. \A f \in Live : f \in Int /\ f <= frame
    BY <2>5 DEF LinkInv, StackShape, Live
  <2>8. frame \in Int
    BY <2>5, <2>7 DEF LinkInv, StackShape
  <2>9. Live \ {frame} = {f \in Live : f < frame}
    BY <2>7, <2>8
  <2> QED BY <2>3, <2>6, <2>9 DEF popFrame
<1>2. QED
  BY <1>1, Inductive, PTL DEF Spec, NonLocalReturnReachesCaller


-----------------------------------------------------------------------------
(***************************************************************************)
(* Escaped blocks.                                                         *)
(***************************************************************************)

\* The bootstrap method has no block literal, so no block and no frame has the
\* bootstrap frame for its home.
NoBootHome ==
  /\ \A b \in blocks : b.context >= 2
  /\ \A f \in 2 .. created : home[f] >= 2

\* What a step does to blocks, homes and the number of frames.
LEMMA NewFrameHome ==
  ASSUME IInv, NoBootHome, status = "running", created < MaxFrames,
         NEW m, NEW p, NEW ctx \in 0 .. created, NEW len, NEW c,
         NewFrame(created + 1, m, p, ctx, len, c),
         ctx # Nil => home[ctx] >= 2,
         blocks' = blocks
  PROVE  NoBootHome'
<1>1. created \in Nat /\ created >= 2 /\ created + 1 \in Frame /\ home \in [Frame -> Frame]
  <2>1. created \in Nat /\ home \in [Frame -> Frame]
    BY Facts DEF ContextTypes
  <2>2. created >= 2
    BY DEF IInv
  <2> QED BY <2>1, <2>2, BoundAssumption
<1>2. /\ created' = created + 1
      /\ home'[created + 1] = GetOuterContext(created + 1, ctx)
      /\ \A f \in 2 .. created : home'[f] = home[f]
  BY <1>1, BoundAssumption DEF NewFrame
<1>3. GetOuterContext(created + 1, ctx) >= 2
  BY <1>1 DEF GetOuterContext
<1>4. \A f \in 2 .. created' : f \in 2 .. created \/ f = created + 1
  BY <1>1, <1>2
<1> QED BY <1>2, <1>3, <1>4 DEF NoBootHome

LEMMA NextNoBootHome ==
  ASSUME IInv, NoBootHome, [Next]_vars
  PROVE  NoBootHome'
<1> USE DEF AtBytecode
<1>0. CASE UNCHANGED <<created, home, blocks>>
  BY <1>0 DEF NoBootHome
<1>1. CASE doPushBlock
  <2>1. PICK m \in BlockMethod :
          blocks' = blocks \cup {[context |-> frame, method |-> m]}
    BY <1>1 DEF doPushBlock
  <2>2. frame \in Frame /\ frame # Boot
    BY <1>1, Facts DEF doPushBlock
  <2>3. created' = created /\ home' = home
    BY <1>1 DEF doPushBlock, Push, ErrorExit, frameVars
  <2> QED BY <2>1, <2>2, <2>3, BoundAssumption DEF NoBootHome
<1>2. ASSUME status = "running", NEW m, NEW ctx \in 0 .. created, NEW s, NEW d,
             PushNewFrame(m, ctx, s, d), ctx # Nil => home[ctx] >= 2, blocks' = blocks
      PROVE  NoBootHome'
  BY <1>2, NewFrameHome DEF PushNewFrame
<1>3. created \in Nat /\ 0 \in 0 .. created
  BY BoundAssumption DEF IInv, TypeOK
<1>4. CASE doSendMethod
  BY <1>2, <1>3, <1>4 DEF doSendMethod
<1>5. CASE evaluationRoutine
  <2>1. PICK b \in blocks :
          PushNewFrame(b.method, b.context, sp[Cur],
                       depth[Cur] - NumArgs[b.method] + 1)
    BY <1>5 DEF evaluationRoutine
  <2>2. b.context \in Frame /\ b.context <= created
    BY DEF IInv, TypeOK, Block, ContextChain
  <2>3. b.context \in 2 .. created
    BY <1>3, <2>2, BoundAssumption DEF NoBootHome
  <2>4. home[b.context] >= 2 /\ b.context \in 0 .. created
    BY <1>3, <2>3 DEF NoBootHome
  <2> QED BY <1>2, <1>5, <2>1, <2>4 DEF evaluationRoutine
<1>6. CASE Send
  <2>1. CASE ErrorExit
    BY <1>0, <2>1 DEF ErrorExit, frameVars
  <2>2. CASE ~ErrorExit
    BY <1>2, <1>3, <1>6, <2>2 DEF Send
  <2> QED BY <2>1, <2>2
<1>7. ASSUME AtBytecode, NEW k, NEW s, MakeRoom(k, s), RoomForUnplanned, blocks' = blocks
      PROVE  NoBootHome'
  <2>1. CASE UNCHANGED <<frame, created, frameVars>>
    BY <1>0, <1>7, <2>1 DEF frameVars
  <2>2. ASSUME NEW extra, EmergencyFrameFrom(extra) PROVE NoBootHome'
    <3>1. frame \in 2 .. created
      BY <1>3, <1>7, Facts, BoundAssumption
    <3>2. /\ context[frame] # Nil
               => context[frame] < frame /\ home[frame] = home[context[frame]]
          /\ home[frame] >= 2
      BY <1>3, <3>1 DEF IInv, ContextChain, NoBootHome
    <3>3. context[frame] \in 0 .. created
      <4>1. context[frame] \in Frame \cup {Nil}
        BY <1>7, Facts DEF ContextTypes
      <4> QED BY <1>3, <3>1, <3>2, <4>1, BoundAssumption
    <3>4. created < MaxFrames
      BY <1>3, <1>7, BoundAssumption DEF RoomForUnplanned
    <3> QED BY <1>7, <2>2, <3>2, <3>3, <3>4, NewFrameHome DEF EmergencyFrameFrom
  <2> QED BY <1>7, <2>1, <2>2 DEF MakeRoom
<1>8. CASE sendDNU
  BY <1>7, <1>8 DEF sendDNU
<1>9. CASE pushUnknownGlobal
  BY <1>7, <1>9 DEF pushUnknownGlobal
<1>10. CASE Halt \/ doDup \/ doPushValue \/ doPop \/ doSendPrimitive \/ Restart \/ superSendDNU
  BY <1>0, <1>10 DEF Halt, doDup, doPushValue, doPop, doSendPrimitive, Restart,
       superSendDNU, Push, Replace, ErrorExit, frameVars
<1>11. CASE doReturnLocal \/ doReturnNonLocal \/ Unwind \/ UnwindFound
  BY <1>0, <1>11 DEF doReturnLocal, doReturnNonLocal, Unwind, UnwindFound,
       popFrameAndPushResult, popFrame, frameVars
<1>12. CASE Done \/ UNCHANGED vars
  BY <1>0, <1>12 DEF Done, vars
<1> QED
  BY <1>1, <1>4, <1>5, <1>6, <1>8, <1>9, <1>10, <1>11, <1>12 DEF Next

\* doReturnNonLocal sends escapedBlock: only when the method that made the block
\* has returned, however deep the block is nested: a home without previousFrame
\* is not on the stack, since it is never the bootstrap frame.
THEOREM EscapeIsReal == Spec => EscapeOnlyIfHomeReturned
<1> DEFINE A == (mode = "run" /\ mode' = "send" /\ frame' < frame)
                   => home[frame] \notin Live
<1>1. Init => NoBootHome
  BY BoundAssumption DEF Init, NoBootHome
<1>2. IInv /\ NoBootHome /\ [Next]_vars => NoBootHome'
  BY NextNoBootHome
<1>3. ASSUME IInv, NoBootHome, [Next]_vars
      PROVE  [A]_vars
  <2> SUFFICES ASSUME Next, mode = "run", mode' = "send", frame' < frame
               PROVE  home[frame] \notin Live
    BY <1>3
  <2>1. status = "running"
    BY DEF Next, Halt, doDup, doPushValue, doPushBlock, doPop, doSendMethod,
         evaluationRoutine, doSendPrimitive, Restart, sendDNU, superSendDNU,
         pushUnknownGlobal, Send, doReturnLocal, doReturnNonLocal, Unwind, Done,
         UnwindFound, AtBytecode, vars
  <2>2. frame \in Frame /\ frame <= created /\ created \in Nat
    BY <1>3, <2>1, Facts DEF ContextTypes
  <2>3. frame' # frame /\ frame' # created + 1
    BY <2>2, BoundAssumption
  <2>4. \A k, s : ~MakeRoom(k, s)
    BY <2>3 DEF MakeRoom, EmergencyFrameFrom
  <2>5. doReturnNonLocal
    BY <2>1, <2>3, <2>4 DEF Next, Halt, doDup, doPushValue, doPushBlock, doPop,
         doSendMethod, evaluationRoutine, doSendPrimitive, Restart, sendDNU,
         superSendDNU, pushUnknownGlobal, Send, doReturnLocal, Unwind, Done,
         UnwindFound, AtBytecode, vars, Push, Replace, ErrorExit
  <2>6. prev[home[frame]] = Nil /\ frame # Boot
    BY <2>5 DEF doReturnNonLocal, AtBytecode
  <2>7. home[frame] >= 2
    BY <1>3, <2>2, <2>6, BoundAssumption DEF NoBootHome
  <2> QED BY <2>6, <2>7 DEF Live
<1> QED
  BY <1>1, <1>2, <1>3, Inductive, PTL DEF Spec, EscapeOnlyIfHomeReturned


-----------------------------------------------------------------------------
(***************************************************************************)
(* The frames implement the call stack of CallStack until an emergency     *)
(* frame replaces one.  Until then every frame has registers of its own,   *)
(* so no live frame is hidden by a younger copy.                           *)
(***************************************************************************)

\* Frames not yet made are their own homes.
FreshHomes == \A f \in Frame : f > created => home[f] = f

OwnRegisters == NoEmergency /\ FreshHomes

LEMMA NeverReplaced ==
  ASSUME OwnRegisters, created \in Nat, NEW f \in 1 .. created
  PROVE  ~Replaced(f)
BY DEF OwnRegisters, NoEmergency, Replaced

\* The steps of a program: quiet ones, calls, emergency frames, and the four that
\* pop.  A failing lookup is quiet: the message it leads to is sent by Send.
LEMMA StepKinds ==
  ASSUME IInv, [Next]_vars
  PROVE  \/ /\ UNCHANGED <<created, frameVars, target>>
            /\ mode' = mode \/ (mode # "unwind" /\ mode' # "unwind")
         \/ /\ status = "running" /\ mode # "unwind" /\ mode' = "run"
            /\ \E m \in Method, ctx \in 0 .. created : \E s, d : PushNewFrame(m, ctx, s, d)
         \/ /\ status = "running" /\ created < MaxFrames
            /\ \E extra : EmergencyFrameFrom(extra)
         \/ doReturnLocal \/ doReturnNonLocal \/ Unwind \/ UnwindFound
<1> USE DEF AtBytecode
<1>1. CASE Halt \/ doDup \/ doPushValue \/ doPushBlock \/ doPop \/ doSendPrimitive \/ Restart
  BY <1>1 DEF Halt, doDup, doPushValue, doPushBlock, doPop, doSendPrimitive, Restart,
       Push, Replace, ErrorExit
<1>2. CASE Done \/ UNCHANGED vars
  BY <1>2 DEF Done, vars, frameVars
<1>4. created \in Nat /\ 0 \in 0 .. created
  BY BoundAssumption DEF IInv, TypeOK
<1>3. CASE sendDNU \/ superSendDNU \/ pushUnknownGlobal
  <2>1. /\ status = "running" /\ mode = "run" /\ mode' = "send" /\ target' = target
        /\ RoomForUnplanned
        /\ \/ UNCHANGED <<created, frameVars>>
           \/ \E extra : EmergencyFrameFrom(extra)
    BY <1>3 DEF sendDNU, superSendDNU, pushUnknownGlobal, MakeRoom
  <2>2. created < MaxFrames
    BY <1>4, <2>1, BoundAssumption DEF RoomForUnplanned
  <2> QED BY <2>1, <2>2
<1>5. CASE doSendMethod
  BY <1>4, <1>5 DEF doSendMethod
<1>6. CASE evaluationRoutine
  <2>1. PICK b \in blocks :
          PushNewFrame(b.method, b.context, sp[Cur],
                       depth[Cur] - NumArgs[b.method] + 1)
    BY <1>6 DEF evaluationRoutine
  <2>2. b.context \in Frame /\ b.context <= created /\ b.method \in Method
    BY MethodAssumption DEF IInv, TypeOK, Block, ContextChain
  <2>3. b.context \in 0 .. created
    BY <1>4, <2>2, BoundAssumption
  <2> QED BY <1>6, <2>1, <2>2, <2>3 DEF evaluationRoutine
<1>7. CASE Send
  <2>1. CASE ErrorExit
    BY <2>1 DEF ErrorExit
  <2>2. CASE ~ErrorExit
    BY <1>4, <1>7, <2>2 DEF Send
  <2> QED BY <2>1, <2>2
<1> QED
  BY <1>1, <1>2, <1>3, <1>5, <1>6, <1>7 DEF Next

\* What NewFrame does to the registers and homes of the frames.
LEMMA NewFrameRegisters ==
  ASSUME IInv, created < MaxFrames, NEW m, NEW p, NEW ctx, NEW len, NEW c,
         NewFrame(created + 1, m, p, ctx, len, c)
  PROVE  /\ created \in Nat /\ created + 1 \in Frame
         /\ created' = created + 1 /\ cell'[created + 1] = c
         /\ \A f \in 1 .. created : cell'[f] = cell[f]
         /\ \A f \in Frame : f # created + 1 => home'[f] = home[f]
<1>1. created \in Nat
  BY BoundAssumption DEF IInv, TypeOK
<1>2. home \in [Frame -> Frame] /\ cell \in [Frame -> Frame]
  BY Zenon DEF IInv, TypeOK
<1>3. created + 1 \in Frame
  BY <1>1, BoundAssumption
<1> QED BY <1>1, <1>2, <1>3, BoundAssumption DEF NewFrame

\* No step makes the home of a frame before the frame, and no step takes an
\* emergency frame back.
LEMMA NextRegisters ==
  ASSUME IInv, FreshHomes, [Next]_vars
  PROVE  FreshHomes' /\ (NoEmergency' => NoEmergency)
<1>1. CASE UNCHANGED <<created, home, cell>>
  BY <1>1 DEF FreshHomes, NoEmergency
<1>2. ASSUME created < MaxFrames, NEW m, NEW p, NEW ctx, NEW len, NEW c,
             NewFrame(created + 1, m, p, ctx, len, c)
      PROVE  FreshHomes' /\ (NoEmergency' => NoEmergency)
  <2>1. /\ created \in Nat /\ created + 1 \in Frame /\ created' = created + 1
        /\ \A f \in 1 .. created : cell'[f] = cell[f]
        /\ \A f \in Frame : f # created + 1 => home'[f] = home[f]
    BY <1>2, NewFrameRegisters
  <2>2. \A f \in 1 .. created : f \in 1 .. created'
    BY <2>1
  <2>3. \A f \in Frame : f > created' => f > created /\ f # created + 1
    BY <2>1, BoundAssumption
  <2> QED BY <2>1, <2>2, <2>3 DEF FreshHomes, NoEmergency
<1>3. CASE doReturnLocal \/ doReturnNonLocal \/ Unwind \/ UnwindFound
  BY <1>1, <1>3 DEF doReturnLocal, doReturnNonLocal, Unwind, UnwindFound,
       popFrameAndPushResult, popFrame, frameVars
<1>4. ASSUME NEW m, NEW ctx, NEW s, NEW d, PushNewFrame(m, ctx, s, d)
      PROVE  FreshHomes' /\ (NoEmergency' => NoEmergency)
  BY <1>2, <1>4 DEF PushNewFrame
<1>5. ASSUME created < MaxFrames, NEW extra, EmergencyFrameFrom(extra)
      PROVE  FreshHomes' /\ (NoEmergency' => NoEmergency)
  BY <1>2, <1>5 DEF EmergencyFrameFrom
<1> QED
  BY <1>1, <1>3, <1>4, <1>5, StepKinds DEF frameVars

\* An emergency frame shares the registers of an older frame.
LEMMA EmergencyShares ==
  ASSUME IInv, status = "running", created < MaxFrames,
         NEW extra, EmergencyFrameFrom(extra)
  PROVE  ~NoEmergency'
<1>1. /\ created \in Nat /\ created' = created + 1
      /\ cell'[created + 1] = cell[frame]
      /\ \A f \in 1 .. created : cell'[f] = cell[f]
  BY NewFrameRegisters DEF EmergencyFrameFrom
<1>2. frame \in 1 .. created
  BY <1>1, Facts, BoundAssumption DEF ContextTypes
<1>3. created + 1 \in 1 .. created' /\ frame \in 1 .. created' /\ frame # created + 1
  BY <1>1, <1>2
<1>4. ASSUME NoEmergency'
      PROVE  FALSE
  <2>1. cell'[created + 1] = created + 1 /\ cell'[frame] = frame
    BY <1>3, <1>4 DEF NoEmergency
  <2> QED BY <1>1, <1>2, <1>3, <2>1
<1> QED BY <1>4

\* Universe::initialize leaves the bootstrap activation and the first method's.
LEMMA InitRefines ==
  ASSUME Init
  PROVE  Abstract!Init /\ OwnRegisters
<1>1. /\ created = 2 /\ mode = "run"
      /\ prev = [f \in Frame |-> IF f = 2 THEN Boot ELSE Nil]
      /\ home = [f \in Frame |-> f]
      /\ cell = [f \in Frame |-> f]
  BY DEF Init
<1>2. 1 \in Frame /\ 2 \in Frame
  BY BoundAssumption
<1>3. Live = {1, 2}
  BY <1>1, <1>2 DEF Live, Replaced
<1>4. Abstract!Init
  BY <1>1, <1>3 DEF Abstract!Init, LiveActivations
<1>5. OwnRegisters
  BY <1>1, <1>2 DEF OwnRegisters, NoEmergency, FreshHomes
<1> QED BY <1>4, <1>5

\* A send starts one activation.
LEMMA CallRefines ==
  ASSUME IInv, OwnRegisters, status = "running", mode # "unwind", mode' = "run",
         NEW m \in Method, NEW ctx \in 0 .. created, NEW s, NEW d,
         PushNewFrame(m, ctx, s, d)
  PROVE  Abstract!Call
<1>1. LinkInv /\ ContextTypes /\ frame \in Live
  BY Facts DEF LinkInv, StackShape
<1>2. created \in Nat /\ created + 1 \in Frame /\ created < MaxFrames
  BY <1>1, BoundAssumption DEF ContextTypes, PushNewFrame
<1>3. NewFrame(created + 1, m, frame, ctx, FrameLength(m), created + 1)
  BY DEF PushNewFrame
<1>4. Live' = Live \cup {created + 1}
  BY <1>1, <1>2, <1>3, PushLive DEF LinkInv
<1>5. LiveActivations' = LiveActivations \cup {created + 1}
  BY <1>4 DEF LiveActivations
<1> DEFINE h == GetOuterContext(created + 1, ctx)
<1>6. created' = created + 1 /\ home' = [home EXCEPT ![created + 1] = h]
  BY <1>3 DEF NewFrame
<1>7. h \in 1 .. created + 1 /\ home[h] = h
  <2>1. CASE ctx = Nil
    <3>1. h = created + 1
      BY <2>1 DEF GetOuterContext
    <3>2. home[created + 1] = created + 1
      BY <1>2 DEF OwnRegisters, FreshHomes
    <3> QED BY <1>2, <3>1, <3>2
  <2>2. CASE ctx # Nil
    <3>1. h = home[ctx] /\ ctx \in 1 .. created
      BY <1>2, <2>2 DEF GetOuterContext
    <3>2. home[ctx] \in Frame /\ home[ctx] <= ctx
      BY <1>1, <1>2, <3>1, BoundAssumption DEF IInv, HomesOlder, ContextTypes
    <3>3. h \in 1 .. created
      BY <1>2, <3>1, <3>2, BoundAssumption
    <3>4. method[h] \notin BlockMethod
      BY <3>1 DEF IInv, ContextChain
    <3>5. home[h] = h
      BY <3>3, <3>4 DEF IInv, ContextChain
    <3> QED BY <1>2, <3>3, <3>5
  <2> QED BY <2>1, <2>2
<1> HIDE DEF h
<1> QED BY <1>2, <1>5, <1>6, <1>7 DEF Abstract!Call

\* Popping the current frame outside an unwinding is a return.
LEMMA ReturnRefines ==
  ASSUME IInv, status = "running", frame # Boot, mode # "unwind", mode' # "unwind", popFrame
  PROVE  Abstract!Return
<1>1. LinkInv /\ frame \in Live
  BY Facts DEF LinkInv, StackShape
<1>2. Live' = Live \ {frame}
  BY <1>1, PopLive DEF LinkInv
<1>3. LiveActivations = Live /\ LiveActivations' = Live'
  BY DEF LiveActivations
<1>4. \A b \in Live : b <= frame
  BY <1>1 DEF LinkInv, StackShape
<1>5. frame \in LiveActivations \ {1} /\ Abstract!IsTop(frame)
  BY <1>1, <1>3, <1>4 DEF Abstract!IsTop
<1>6. created' = created /\ home' = home
  BY DEF popFrame
<1> QED BY <1>2, <1>3, <1>5, <1>6 DEF Abstract!Return

\* The loop of doReturnNonLocal takes effect as a whole when it starts.
LEMMA NonLocalRefines ==
  ASSUME IInv, OwnRegisters, doReturnNonLocal
  PROVE  Abstract!Return \/ Abstract!NonLocalReturn
<1>0. status = "running" /\ mode = "run" /\ frame # Boot /\ method[frame] \in BlockMethod
  BY DEF doReturnNonLocal, AtBytecode
<1>1. CASE prev[home[frame]] = Nil
  <2>1. popFrame /\ mode' = "send"
    BY <1>1 DEF doReturnNonLocal
  <2> QED BY <1>0, <2>1, ReturnRefines
<1>2. CASE prev[home[frame]] # Nil
  <2>1. /\ mode' = "unwind" /\ target' = home[frame]
        /\ UNCHANGED <<frame, created, frameVars>>
    BY <1>2 DEF doReturnNonLocal
  <2>2. /\ LinkInv /\ ContextTypes
        /\ frame \in Live /\ frame \in Frame /\ frame <= created
        /\ \A b \in Live : b <= frame
    BY <1>0, Facts DEF LinkInv, StackShape
  <2>3. Live' = Live
    BY <2>1 DEF Live, Replaced, frameVars
  <2>4. LiveActivations = Live /\ LiveActivations' = {f \in Live : f < home[frame]}
    BY <1>0, <2>1, <2>3 DEF LiveActivations
  <2>5. frame \in 1 .. created /\ created \in Nat
    BY <2>2, BoundAssumption DEF ContextTypes
  <2>6. home[frame] # frame
    <3>1. context[frame] # Nil
      BY <1>0, <2>5 DEF IInv, ContextChain
    <3>2. context[frame] < frame /\ home[frame] = home[context[frame]]
      BY <2>5, <3>1 DEF IInv, ContextChain
    <3>3. context[frame] \in 1 .. created
      BY <2>2, <2>5, <3>1, <3>2, BoundAssumption DEF ContextTypes
    <3>4. home[context[frame]] <= context[frame] /\ home[context[frame]] \in Frame
      BY <2>2, <3>3, BoundAssumption DEF IInv, HomesOlder, ContextTypes
    <3> QED BY <2>5, <3>2, <3>3, <3>4, BoundAssumption
  <2>7. home[frame] \in Live \ {1}
    <3>1. home[frame] \in Frame /\ home[frame] <= frame
      BY <2>2, <2>5 DEF IInv, HomesOlder, ContextTypes
    <3>2. home[frame] \in 1 .. created
      BY <2>5, <3>1, BoundAssumption
    <3>3. home[frame] # 1
      BY <1>2 DEF IInv, BootIsBottom
    <3>4. ~Replaced(home[frame])
      BY <2>5, <3>2, NeverReplaced
    <3> QED BY <1>2, <3>2, <3>3, <3>4 DEF Live
  <2>8. Abstract!IsTop(frame)
    BY <2>2, <2>4 DEF Abstract!IsTop
  <2>9. UNCHANGED <<created, home>>
    BY <2>1 DEF frameVars
  <2> QED BY <2>2, <2>4, <2>6, <2>7, <2>8, <2>9 DEF Abstract!NonLocalReturn
<1> QED BY <1>1, <1>2

\* Its turns then change nothing that counts as live.
LEMMA UnwindRefines ==
  ASSUME IInv, OwnRegisters, Unwind \/ UnwindFound
  PROVE  UNCHANGED Abstract!absVars
<1>1. status = "running" /\ mode = "unwind" /\ popFrame
  BY DEF Unwind, UnwindFound, popFrameAndPushResult
<1>2. LinkInv /\ frame \in Live /\ \A b \in Live : b <= frame
  BY <1>1, Facts DEF LinkInv, StackShape
<1>3. created \in Nat /\ target \in 2 .. created
  BY <1>1, <1>2 DEF IInv, UnwindKnown, LinkInv, LinkTypes
<1>4. ~Replaced(target)
  BY <1>3, NeverReplaced
<1>5. target \in Live
  BY <1>1, <1>4 DEF IInv, UnwindTargetLive
<1>6. target <= frame /\ frame # Boot
  BY <1>2, <1>3, <1>5
<1>7. Live' = Live \ {frame}
  BY <1>1, <1>2, <1>6, PopLive DEF LinkInv
<1>8. \A f \in Live : f \in Int
  BY DEF Live
<1>9. LiveActivations' = LiveActivations
  <2>1. LiveActivations = {f \in Live : f < target}
    BY <1>1 DEF LiveActivations
  <2>2. CASE Unwind
    <3>1. mode' = "unwind" /\ target' = target
      BY <1>1, <2>2 DEF Unwind
    <3>2. LiveActivations' = {f \in Live' : f < target}
      BY <3>1 DEF LiveActivations
    <3> QED BY <1>2, <1>3, <1>6, <1>7, <1>8, <2>1, <3>2
  <2>3. CASE UnwindFound
    <3>1. mode' = "run" /\ frame = target
      BY <2>3 DEF UnwindFound
    <3>2. LiveActivations' = Live'
      BY <3>1 DEF LiveActivations
    <3>3. \A f \in Live : f # frame <=> f < target
      BY <1>2, <1>3, <1>8, <3>1
    <3> QED BY <1>7, <2>1, <3>2, <3>3
  <2> QED BY <2>2, <2>3
<1>10. created' = created /\ home' = home
  BY <1>1 DEF popFrame
<1> QED BY <1>9, <1>10 DEF Abstract!absVars

LEMMA NextRefines ==
  ASSUME IInv, FreshHomes, [Next]_vars
  PROVE  [NoEmergency' => Abstract!Next]_(Abstract!absVars)
<1>0. SUFFICES ASSUME NoEmergency'
               PROVE  [Abstract!Next]_(Abstract!absVars)
  OBVIOUS
<1>r. OwnRegisters
  BY <1>0, NextRegisters DEF OwnRegisters
<1>1. CASE /\ UNCHANGED <<created, frameVars, target>>
           /\ mode' = mode \/ (mode # "unwind" /\ mode' # "unwind")
  <2>1. Live' = Live
    BY <1>1 DEF Live, Replaced, frameVars
  <2>2. LiveActivations' = LiveActivations
    BY <1>1, <2>1 DEF LiveActivations
  <2> QED BY <1>1, <2>2 DEF Abstract!absVars, frameVars
<1>2. ASSUME status = "running", mode # "unwind", mode' = "run",
             \E m \in Method, ctx \in 0 .. created : \E s, d : PushNewFrame(m, ctx, s, d)
      PROVE  Abstract!Next
  BY <1>r, <1>2, CallRefines DEF Abstract!Next
<1>3. CASE doReturnLocal
  BY <1>3, ReturnRefines DEF doReturnLocal, popFrameAndPushResult, Abstract!Next
<1>4. CASE doReturnNonLocal
  BY <1>r, <1>4, NonLocalRefines DEF Abstract!Next
<1>5. CASE Unwind \/ UnwindFound
  BY <1>r, <1>5, UnwindRefines
<1>6. ASSUME status = "running", created < MaxFrames, NEW extra, EmergencyFrameFrom(extra)
      PROVE  FALSE
  BY <1>0, <1>6, EmergencyShares
<1> QED
  BY <1>1, <1>2, <1>3, <1>4, <1>5, <1>6, StepKinds

\* For every program and every number of frames, up to the first emergency frame,
\* the interpreter's linked frames behave as the call stack of CallStack: a return
\* removes the youngest activation, ^ in a block removes its home and all that
\* is above it in one step (escapedBlock: when the home has returned is a plain
\* return and a call), and nothing else changes which activations are live.
THEOREM Refinement == Spec => ImplementsCallStack
<1>1. Init => Abstract!Init /\ FreshHomes
  BY InitRefines DEF OwnRegisters
<1>2. IInv /\ FreshHomes /\ [Next]_vars => FreshHomes'
  BY NextRegisters
<1>3. IInv /\ FreshHomes /\ [Next]_vars
        => [NoEmergency' => Abstract!Next]_(Abstract!absVars)
  BY NextRefines
<1> QED
  BY <1>1, <1>2, <1>3, Inductive, PTL DEF Spec, ImplementsCallStack

\* A program whose lookups all succeed never makes an emergency frame: its frames
\* implement CallStack for good (send, doSuperSend, doPushGlobal).
THEOREM PlannedRefinement ==
  ASSUME Unplanned = {}
  PROVE  Spec => Abstract!Spec
<1>1. Init => NoEmergency
  BY InitRefines DEF OwnRegisters
<1>2. IInv /\ NoEmergency /\ [Next]_vars => NoEmergency'
  <2> SUFFICES ASSUME IInv, NoEmergency, [Next]_vars
               PROVE  NoEmergency'
    OBVIOUS
  <2>1. CASE UNCHANGED <<created, cell>>
    BY <2>1 DEF NoEmergency
  <2>2. ASSUME NEW m, NEW ctx, NEW s, NEW d, PushNewFrame(m, ctx, s, d)
        PROVE  NoEmergency'
    <3>1. /\ created \in Nat /\ created' = created + 1
          /\ cell'[created + 1] = created + 1
          /\ \A f \in 1 .. created : cell'[f] = cell[f]
      BY <2>2, NewFrameRegisters DEF PushNewFrame
    <3>2. \A f \in 1 .. created' : f \in 1 .. created \/ f = created + 1
      BY <3>1
    <3> QED BY <3>1, <3>2 DEF NoEmergency
  <2>3. CASE doReturnLocal \/ doReturnNonLocal \/ Unwind \/ UnwindFound
    BY <2>1, <2>3 DEF doReturnLocal, doReturnNonLocal, Unwind, UnwindFound,
         popFrameAndPushResult, popFrame, frameVars
  <2>4. CASE Halt \/ doDup \/ doPushValue \/ doPushBlock \/ doPop \/ doSendPrimitive
               \/ Restart
    BY <2>1, <2>4 DEF Halt, doDup, doPushValue, doPushBlock, doPop, doSendPrimitive,
         Restart, Push, Replace, ErrorExit, frameVars
  <2>5. CASE Done \/ UNCHANGED vars
    BY <2>1, <2>5 DEF Done, vars
  <2>6. CASE doSendMethod \/ evaluationRoutine
    BY <2>2, <2>6 DEF doSendMethod, evaluationRoutine
  <2>7. CASE Send
    <3>1. CASE ErrorExit
      BY <2>1, <3>1 DEF ErrorExit, frameVars
    <3>2. CASE ~ErrorExit
      BY <2>2, <2>7, <3>2 DEF Send
    <3> QED BY <3>1, <3>2
  <2>8. CASE sendDNU \/ superSendDNU \/ pushUnknownGlobal
    BY <2>8 DEF sendDNU, superSendDNU, pushUnknownGlobal
  <2> QED BY <2>1, <2>2, <2>3, <2>4, <2>5, <2>6, <2>7, <2>8 DEF Next
<1>3. [NoEmergency' => Abstract!Next]_(Abstract!absVars) /\ NoEmergency'
        => [Abstract!Next]_(Abstract!absVars)
  OBVIOUS
<1> QED
  BY <1>1, <1>2, <1>3, Inductive, Refinement, PTL
     DEF Spec, ImplementsCallStack, Abstract!Spec


-----------------------------------------------------------------------------
(***************************************************************************)
(* The operand stacks.                                                     *)
(***************************************************************************)

\* The parts of OperandStack: the static depth of a frame is one the compiler
\* planned; the current frame holds its operands; a caller still holds the
\* arguments of its callee.
Planned(f) == depth[cell[f]] \in 0 .. MaxStack[method[f]]
Filled(f) == sp[cell[f]] >= Base(method[f]) + depth[cell[f]]
AlmostFilled(f) == sp[cell[f]] >= Base(method[f]) + depth[cell[f]] - 1
HoldsArguments(f) ==
  sp[cell[prev[f]]] >= Base(method[prev[f]]) + depth[cell[prev[f]]]
                         + NumArgs[method[f]] - 1

OperandParts ==
  /\ \A f \in Live : Planned(f)
  /\ mode = "run" => Filled(frame)
  /\ mode = "send" => AlmostFilled(frame)
  /\ \A f \in Live \ {Boot} : HoldsArguments(f)

LEMMA OperandSplit ==
  IInv /\ status = "running" => (OperandStack <=> OperandParts)
<1> SUFFICES ASSUME IInv, status = "running" PROVE OperandStack <=> OperandParts
  OBVIOUS
<1>1. frame \in Live
  BY Facts DEF LinkInv, StackShape
<1> QED
  BY <1>1 DEF OperandStack, OperandParts, Planned, Filled, AlmostFilled, HoldsArguments

\* The live frames have registers of their own.
LEMMA LiveCells ==
  ASSUME IInv, status = "running"
  PROVE  /\ \A f \in Live : /\ f \in 1 .. created /\ f \in Frame /\ cell[f] \in Frame
                            /\ method[f] \in Method /\ f <= frame
         /\ \A f, g \in Live : f # g => cell[f] # cell[g]
         /\ frame \in Live /\ Cur \in Frame
         /\ \A f \in Live \ {Boot} : prev[f] \in Live /\ prev[f] # frame /\ prev[f] # f
         /\ \A m \in Method : NumArgs[m] \in Nat /\ MaxStack[m] \in Nat /\ Base(m) \in Int
         /\ sp \in [Frame -> Int] /\ depth \in [Frame -> Int]
<1>1. LinkInv /\ ContextTypes /\ cell[frame] \in Frame
  BY Facts
<1>2. \A f \in Live : f \in 1 .. created /\ f \in Frame /\ f <= frame
  BY <1>1, BoundAssumption DEF LinkInv, StackShape, LinkTypes, Live
<1>3. \A f \in Live : cell[f] \in Frame /\ method[f] \in Method
  BY <1>1, <1>2 DEF LinkInv, LinkTypes, ContextTypes
<1>4. ASSUME NEW f \in Live, NEW g \in Live, f < g PROVE cell[f] # cell[g]
  <2>1. g \in f + 1 .. created /\ ~Replaced(f)
    BY <1>1, <1>2, <1>4 DEF Live, LinkInv, LinkTypes
  <2> QED BY <2>1 DEF Replaced
<1>5. \A f, g \in Live : f # g => cell[f] # cell[g]
  <2>1. \A f, g \in Live : f # g => f < g \/ g < f
    BY <1>1, <1>2 DEF LinkInv, LinkTypes
  <2> QED BY <1>4, <2>1
<1>6. \A f \in Live \ {Boot} : prev[f] \in Live /\ prev[f] # frame /\ prev[f] # f
  <2>1. \A f \in Live \ {Boot} : prev[f] \in Live /\ prev[f] < f /\ f <= frame
    BY <1>1 DEF LinkInv, StackShape
  <2>2. frame \in Int /\ \A f \in Live : f \in Int
    BY <1>1, <1>2 DEF LinkInv, StackShape, LinkTypes
  <2> QED BY <2>1, <2>2
<1>7. \A m \in Method : NumArgs[m] \in Nat /\ MaxStack[m] \in Nat /\ Base(m) \in Int
  BY MethodAssumption DEF Base
<1>8. sp \in [Frame -> Int] /\ depth \in [Frame -> Int]
  BY Zenon DEF IInv, TypeOK
<1>9. frame \in Live /\ Cur \in Frame
  BY <1>1 DEF LinkInv, StackShape, Cur
<1> QED BY <1>2, <1>3, <1>5, <1>6, <1>7, <1>8, <1>9

\* What NewFrame writes, and that it leaves the live frames alone.
LEMMA NewFrameEntries ==
  ASSUME LinkInv, ContextTypes, created + 1 \in Frame,
         NEW m, NEW p, NEW ctx, NEW len, NEW c,
         NewFrame(created + 1, m, p, ctx, len, c)
  PROVE  /\ cell'[created + 1] = c /\ method'[created + 1] = m
         /\ \A f \in Live : /\ f # created + 1
                            /\ cell'[f] = cell[f] /\ method'[f] = method[f]
<1>1. created \in Nat /\ DOMAIN cell = Frame /\ DOMAIN method = Frame
  BY DEF LinkInv, LinkTypes, ContextTypes
<1>2. /\ cell' = [cell EXCEPT ![created + 1] = c]
      /\ method' = [method EXCEPT ![created + 1] = m]
  BY DEF NewFrame
<1>3. \A f \in Live : f # created + 1
  BY <1>1 DEF Live
<1> QED BY <1>1, <1>2, <1>3

\* A bytecode that works on the current frame's operands alone.
LEMMA OperandsHere ==
  ASSUME IInv, status = "running", OperandParts,
         UNCHANGED <<frame, created, prev, method, cell>>,
         NEW s \in Int, NEW d \in Int,
         sp' = [sp EXCEPT ![Cur] = s], depth' = [depth EXCEPT ![Cur] = d],
         d \in 0 .. MaxStack[method[frame]],
         mode' = "run" => s >= Base(method[frame]) + d,
         mode' = "send" => s >= Base(method[frame]) + d - 1
  PROVE  OperandParts'
<1>1. Live' = Live
  BY DEF Live, Replaced
<1>2. sp'[Cur] = s /\ depth'[Cur] = d
  BY LiveCells
<1>3. \A f \in Live : f # frame => sp'[cell[f]] = sp[cell[f]] /\ depth'[cell[f]] = depth[cell[f]]
  BY LiveCells DEF Cur
<1>4. \A f \in Live' : Planned(f)'
  BY <1>1, <1>2, <1>3 DEF OperandParts, Planned, Cur
<1>5. /\ mode' = "run" => Filled(frame)'
      /\ mode' = "send" => AlmostFilled(frame)'
  BY <1>2 DEF Filled, AlmostFilled, Cur
<1>6. ASSUME NEW f \in Live \ {Boot} PROVE HoldsArguments(f)'
  <2>1. HoldsArguments(f) /\ prev[f] \in Live /\ prev[f] # frame
    BY LiveCells DEF OperandParts
  <2>2. sp'[cell[prev[f]]] = sp[cell[prev[f]]] /\ depth'[cell[prev[f]]] = depth[cell[prev[f]]]
    BY <1>3, <2>1
  <2> QED BY <2>1, <2>2 DEF HoldsArguments
<1> QED BY <1>1, <1>4, <1>5, <1>6 DEF OperandParts

\* A send: the caller keeps the arguments, the callee starts empty.
LEMMA OperandsPush ==
  ASSUME IInv, status = "running", OperandParts,
         NEW m \in Method, NEW ctx, NEW s \in Int, NEW d \in Int,
         PushNewFrame(m, ctx, s, d), mode' = "run",
         d \in 0 .. MaxStack[method[frame]],
         s >= Base(method[frame]) + d + NumArgs[m] - 1
  PROVE  OperandParts'
<1> DEFINE n == created + 1
<1>1. LinkInv /\ ContextTypes
  BY Facts
<1>2. created \in Nat /\ n \in Frame /\ created < MaxFrames
  BY <1>1, BoundAssumption DEF ContextTypes, PushNewFrame
<1>3. NewFrame(n, m, frame, ctx, FrameLength(m), n)
  BY DEF PushNewFrame
<1>4. /\ Live' = Live \cup {n} /\ prev'[n] = frame
      /\ \A f \in Live : prev'[f] = prev[f]
  BY <1>1, <1>2, <1>3, LiveCells, PushLive DEF LinkInv
<1>5. /\ cell'[n] = n /\ method'[n] = m
      /\ \A f \in Live : f # n /\ cell'[f] = cell[f] /\ method'[f] = method[f]
  BY <1>1, <1>2, <1>3, NewFrameEntries
<1>6. \A f \in Live : cell[f] # n
  <2>1. \A f \in Live : f \in 1 .. created /\ cell[f] \in Frame /\ cell[f] <= f
    BY LiveCells DEF IInv, CellsOlder
  <2> QED BY <1>2, <2>1, BoundAssumption
<1>7. /\ sp' = [[sp EXCEPT ![Cur] = s] EXCEPT ![n] = Base(m)]
      /\ depth' = [[depth EXCEPT ![Cur] = d] EXCEPT ![n] = 0]
  BY DEF PushNewFrame
<1>8. sp'[n] = Base(m) /\ depth'[n] = 0
  BY <1>2, <1>7, LiveCells
<1>9. sp'[Cur] = s /\ depth'[Cur] = d
  <2>1. Cur # n
    BY <1>6, LiveCells DEF Cur
  <2> QED BY <1>2, <1>7, <2>1, LiveCells
<1>10. \A f \in Live : f # frame => sp'[cell[f]] = sp[cell[f]] /\ depth'[cell[f]] = depth[cell[f]]
  BY <1>2, <1>6, <1>7, LiveCells DEF Cur
<1> HIDE DEF n
<1>11. frame' = n
  BY DEF PushNewFrame, n
<1>12. ASSUME NEW f \in Live' PROVE Planned(f)'
  <2>1. CASE f = n
    BY <1>5, <1>8, <2>1, LiveCells, SMTT(30) DEF Planned
  <2>2. CASE f = frame
    BY <1>5, <1>9, <2>2, LiveCells DEF Planned, Cur
  <2>3. CASE f \in Live /\ f # frame
    BY <1>5, <1>10, <2>3 DEF Planned, OperandParts
  <2> QED BY <1>4, <2>1, <2>2, <2>3
<1>13. Filled(frame)'
  BY <1>5, <1>8, <1>11, LiveCells DEF Filled
<1>14. ASSUME NEW f \in Live' \ {Boot} PROVE HoldsArguments(f)'
  <2>1. CASE f = n
    BY <1>4, <1>5, <1>9, <2>1, LiveCells DEF HoldsArguments, Cur
  <2>2. CASE f \in Live
    <3>1. HoldsArguments(f) /\ prev[f] \in Live /\ prev[f] # frame
      BY <2>2, LiveCells DEF OperandParts
    <3>2. /\ prev'[f] = prev[f] /\ method'[f] = method[f]
          /\ cell'[prev[f]] = cell[prev[f]] /\ method'[prev[f]] = method[prev[f]]
      BY <1>4, <1>5, <2>2, <3>1
    <3>3. sp'[cell[prev[f]]] = sp[cell[prev[f]]] /\ depth'[cell[prev[f]]] = depth[cell[prev[f]]]
      BY <1>10, <3>1
    <3> QED BY <3>1, <3>2, <3>3 DEF HoldsArguments
  <2> QED BY <1>4, <2>1, <2>2
<1> QED BY <1>12, <1>13, <1>14 DEF OperandParts

\* An emergency frame takes over the registers of the frame it replaces.
LEMMA OperandsRoom ==
  ASSUME IInv, status = "running", OperandParts, frame # Boot, created + 2 <= MaxFrames,
         NEW extra, EmergencyFrameFrom(extra), mode' = "send",
         NEW s \in Int, NEW d \in Int,
         sp' = [sp EXCEPT ![Cur] = s], depth' = [depth EXCEPT ![Cur] = d],
         d \in 0 .. MaxStack[method[frame]],
         s >= Base(method[frame]) + d - 1
  PROVE  OperandParts'
<1> DEFINE n == created + 1
<1>1. LinkInv /\ ContextTypes
  BY Facts
<1>2. created \in Nat /\ n \in Frame /\ created < MaxFrames
  BY <1>1, BoundAssumption DEF ContextTypes
<1>3. /\ NewFrame(n, method[frame], prev[frame], context[frame],
                  length[frame] + extra, cell[frame])
      /\ frame' = n
  BY DEF EmergencyFrameFrom
<1>4. /\ Live' = (Live \ {frame}) \cup {n} /\ prev'[n] = prev[frame]
      /\ \A f \in Live : prev'[f] = prev[f]
  BY <1>1, <1>2, LiveCells, EmergencyLive DEF LinkInv
<1>5. /\ cell'[n] = Cur /\ method'[n] = method[frame]
      /\ \A f \in Live : f # n /\ cell'[f] = cell[f] /\ method'[f] = method[f]
  BY <1>1, <1>2, <1>3, NewFrameEntries DEF Cur
<1>6. sp'[Cur] = s /\ depth'[Cur] = d
  BY LiveCells
<1>7. \A f \in Live : f # frame => sp'[cell[f]] = sp[cell[f]] /\ depth'[cell[f]] = depth[cell[f]]
  BY LiveCells DEF Cur
<1> HIDE DEF n
<1>8. ASSUME NEW f \in Live' PROVE Planned(f)'
  <2>1. CASE f = n
    BY <1>5, <1>6, <2>1 DEF Planned
  <2>2. CASE f \in Live /\ f # frame
    BY <1>5, <1>7, <2>2 DEF Planned, OperandParts
  <2> QED BY <1>4, <2>1, <2>2
<1>9. AlmostFilled(frame)'
  BY <1>3, <1>5, <1>6 DEF AlmostFilled, n
<1>10. ASSUME NEW f \in Live \ {Boot}, NEW g,
              prev'[g] = prev[f], method'[g] = method[f]
       PROVE  HoldsArguments(g)'
  <2>1. HoldsArguments(f) /\ prev[f] \in Live /\ prev[f] # frame
    BY LiveCells DEF OperandParts
  <2>2. cell'[prev[f]] = cell[prev[f]] /\ method'[prev[f]] = method[prev[f]]
    BY <1>5, <2>1
  <2>3. sp'[cell[prev[f]]] = sp[cell[prev[f]]] /\ depth'[cell[prev[f]]] = depth[cell[prev[f]]]
    BY <1>7, <2>1
  <2> QED BY <1>10, <2>1, <2>2, <2>3 DEF HoldsArguments
<1>11. ASSUME NEW f \in Live' \ {Boot} PROVE HoldsArguments(f)'
  <2>1. CASE f = n
    <3>1. frame \in Live \ {Boot} /\ prev'[f] = prev[frame] /\ method'[f] = method[frame]
      BY <1>4, <1>5, <2>1, LiveCells
    <3> QED BY <1>10, <3>1
  <2>2. CASE f \in Live \ {Boot}
    BY <1>4, <1>5, <1>10, <2>2
  <2> QED BY <1>4, <2>1, <2>2
<1> QED BY <1>8, <1>9, <1>11 DEF OperandParts

\* A return: the caller exchanges the arguments for the result, or, before
\* escapedBlock: and while unwinding, is left as it is.
LEMMA OperandsPop ==
  ASSUME IInv, status = "running", OperandParts, frame # Boot, popFrame, depth' = depth,
         \/ popFrameAndPushResult /\ mode' = "run"
         \/ sp' = sp /\ mode' \in {"send", "unwind"}
  PROVE  OperandParts'
<1> DEFINE p == prev[frame]
<1>1. LinkInv
  BY Facts
<1>2. Live' = Live \ {frame} /\ \A f \in Live' : prev'[f] = prev[f]
  BY <1>1, LiveCells, PopLive DEF LinkInv
<1>3. frame' = p /\ cell' = cell /\ method' = method /\ p \in Live /\ HoldsArguments(frame)
  BY LiveCells DEF popFrame, OperandParts
<1>4. \A f \in Live : f # p => sp'[cell[f]] = sp[cell[f]]
  BY <1>3, LiveCells DEF popFrameAndPushResult
<1>5. \A f \in Live' : Planned(f)'
  BY <1>2, <1>3 DEF OperandParts, Planned
<1>6. mode' = "run" => Filled(frame)'
  <2>1. SUFFICES ASSUME mode' = "run" PROVE Filled(frame)'
    OBVIOUS
  <2>2. sp'[cell[p]] = sp[cell[p]] - NumArgs[method[frame]] + 1
    BY <1>3, <2>1, LiveCells DEF popFrameAndPushResult
  <2>3. /\ sp[cell[p]] \in Int /\ depth[cell[p]] \in Int
        /\ NumArgs[method[frame]] \in Int /\ Base(method[p]) \in Int
    <3>1. /\ cell[p] \in Frame /\ method[p] \in Method /\ method[frame] \in Method
      BY <1>3, LiveCells
    <3>2. sp[cell[p]] \in Int /\ depth[cell[p]] \in Int
      <4>1. sp \in [Frame -> Int] /\ depth \in [Frame -> Int]
        BY LiveCells
      <4> QED BY <3>1, <4>1
    <3>3. \A m \in Method : NumArgs[m] \in Nat /\ Base(m) \in Int
      BY LiveCells
    <3> QED BY <3>1, <3>2, <3>3
  <2>4. sp[cell[p]] >= Base(method[p]) + depth[cell[p]] + NumArgs[method[frame]] - 1
    BY <1>3 DEF HoldsArguments
  <2>5. sp'[cell[p]] >= Base(method[p]) + depth[cell[p]]
    BY <2>2, <2>3, <2>4
  <2> QED BY <1>3, <2>5 DEF Filled
<1>7. mode' = "send" => AlmostFilled(frame)'
  <2>1. SUFFICES ASSUME mode' = "send" PROVE AlmostFilled(frame)'
    OBVIOUS
  <2>2. sp' = sp
    BY <2>1
  <2>3. /\ sp[cell[p]] \in Int /\ depth[cell[p]] \in Int
        /\ NumArgs[method[frame]] \in Nat /\ Base(method[p]) \in Int
    BY <1>3, LiveCells
  <2>4. sp[cell[p]] >= Base(method[p]) + depth[cell[p]] + NumArgs[method[frame]] - 1
    BY <1>3 DEF HoldsArguments
  <2>5. sp[cell[p]] >= Base(method[p]) + depth[cell[p]] - 1
    BY <2>3, <2>4
  <2> QED BY <1>3, <2>2, <2>5 DEF AlmostFilled
<1>8. ASSUME NEW f \in Live' \ {Boot} PROVE HoldsArguments(f)'
  <2>1. f \in Live /\ f # frame /\ prev'[f] = prev[f] /\ prev[f] \in Live
        /\ HoldsArguments(f)
    BY <1>2, LiveCells DEF OperandParts
  <2>2. prev[f] # p
    <3>0. f <= frame /\ f \in Int /\ frame \in Int /\ frame \in Live
      BY <2>1, LiveCells, BoundAssumption
    <3>1. f < frame /\ f <= p
      BY <1>1, <2>1, <3>0 DEF LinkInv, StackShape
    <3>2. prev[f] < f
      BY <1>1, <2>1 DEF LinkInv, StackShape
    <3>3. prev[f] \in Int /\ f \in Int /\ p \in Int
      BY <1>3, <2>1 DEF Live
    <3> QED BY <3>1, <3>2, <3>3
  <2>3. sp'[cell[prev[f]]] = sp[cell[prev[f]]]
    BY <1>4, <2>1, <2>2
  <2> QED BY <1>3, <2>1, <2>3 DEF HoldsArguments
<1> QED BY <1>5, <1>6, <1>7, <1>8 DEF OperandParts


\* The sends the compiler did not plan: n operands are taken and the frame is
\* replaced or not.
LEMMA OperandsUnplanned ==
  ASSUME IInv, status = "running", OperandParts, frame # Boot, RoomForUnplanned,
         NEW k, NEW r, MakeRoom(k, r), mode' = "send",
         NEW s \in Int, NEW d \in Int,
         sp' = [sp EXCEPT ![Cur] = s], depth' = [depth EXCEPT ![Cur] = d],
         d \in 0 .. MaxStack[method[frame]],
         s >= Base(method[frame]) + d - 1
  PROVE  OperandParts'
<1>1. CASE UNCHANGED <<frame, created, frameVars>>
  <2>1. UNCHANGED <<frame, created, prev, method, cell>>
    BY <1>1 DEF frameVars
  <2> QED BY <2>1, OperandsHere
<1>2. ASSUME NEW extra, EmergencyFrameFrom(extra) PROVE OperandParts'
  BY <1>2, OperandsRoom DEF RoomForUnplanned
<1> QED BY <1>1, <1>2 DEF MakeRoom

LEMMA NextOperandStack ==
  ASSUME IInv, IInv', OperandStack, [Next]_vars
  PROVE  OperandStack'
<1> USE DEF AtBytecode
<1>0. CASE UNCHANGED vars
  BY <1>0 DEF vars, OperandStack, Live, Replaced
<1>r. CASE status' # "running"
  BY <1>r DEF OperandStack
<1> SUFFICES ASSUME Next, status = "running", status' = "running" PROVE OperandParts'
  <2>1. status = "running" \/ UNCHANGED vars
    BY <1>0 DEF Next, Done, Halt, doDup, doPushValue, doPushBlock, doPop,
         doSendMethod, evaluationRoutine, doSendPrimitive, Restart, sendDNU,
         superSendDNU, pushUnknownGlobal, Send, doReturnLocal, doReturnNonLocal,
         Unwind, UnwindFound
  <2>2. (IInv /\ status = "running" => (OperandStack <=> OperandParts))'
    BY OperandSplit, PTL
  <2> QED BY <1>0, <1>r, <2>1, <2>2
<1>p. OperandParts
  BY OperandSplit
<1>t. /\ Cur \in Frame /\ sp[Cur] \in Int /\ depth[Cur] \in Int
      /\ frame \in Live /\ method[frame] \in Method
      /\ sp = [sp EXCEPT ![Cur] = sp[Cur]]
  BY LiveCells
<1>m. \A m \in Method : NumArgs[m] \in Nat /\ MaxStack[m] \in Nat /\ Base(m) \in Int
  BY LiveCells
<1>c. /\ depth[Cur] \in 0 .. MaxStack[method[frame]]
      /\ mode = "run" => sp[Cur] >= Base(method[frame]) + depth[Cur]
      /\ mode = "send" => sp[Cur] >= Base(method[frame]) + depth[Cur] - 1
  BY <1>p, <1>t DEF OperandParts, Planned, Filled, AlmostFilled, Cur
<1> DEFINE M == MaxStack[method[frame]]
           B == Base(method[frame])
           s0 == sp[Cur]
           d0 == depth[Cur]
<1>i. M \in Nat /\ B \in Int /\ s0 \in Int /\ d0 \in 0 .. M
  BY <1>t, <1>m, <1>c
<1>1. CASE Halt
  BY <1>1 DEF Halt
<1>2. ASSUME AtBytecode, MayPush, Push
      PROVE  OperandParts'
  <2>1. /\ sp' = [sp EXCEPT ![Cur] = s0 + 1] /\ depth' = [depth EXCEPT ![Cur] = d0 + 1]
        /\ UNCHANGED <<frame, created, prev, method, cell>> /\ mode' = "run"
    BY <1>2 DEF Push, ErrorExit, frameVars
  <2>2. d0 < M
    BY <1>2 DEF MayPush
  <2>3. s0 + 1 \in Int /\ d0 + 1 \in Int /\ d0 + 1 \in 0 .. M /\ s0 + 1 >= B + (d0 + 1)
    BY <1>2, <1>c, <1>i, <2>2
  <2> QED BY <1>p, <2>1, <2>3, OperandsHere
<1>3. CASE doDup \/ doPushValue \/ doPushBlock
  BY <1>2, <1>3 DEF doDup, doPushValue, doPushBlock
<1>4. ASSUME AtBytecode, NEW n \in Nat, NEW k \in Nat, Replace(n, k),
             d0 >= n, k <= n
      PROVE  OperandParts'
  <2>1. /\ sp' = [sp EXCEPT ![Cur] = s0 - n + k] /\ depth' = [depth EXCEPT ![Cur] = d0 - n + k]
        /\ UNCHANGED <<frame, created, prev, method, cell>> /\ mode' = "run"
    BY <1>4 DEF Replace, frameVars
  <2>2. /\ s0 - n + k \in Int /\ d0 - n + k \in Int
        /\ d0 - n + k \in 0 .. M /\ s0 - n + k >= B + (d0 - n + k)
    BY <1>4, <1>c, <1>i
  <2> QED BY <1>p, <2>1, <2>2, OperandsHere
<1>5. CASE doPop
  BY <1>4, <1>5 DEF doPop, HasOperands
<1>6. CASE doSendPrimitive
  <2>1. PICK n \in 1 .. M : d0 >= n /\ Replace(n, 1)
    BY <1>6 DEF doSendPrimitive, HasOperands
  <2>2. n \in Nat /\ 1 <= n
    BY <1>i
  <2> QED BY <1>4, <1>6, <2>1, <2>2 DEF doSendPrimitive
<1>7. CASE Restart
  <2>1. /\ sp' = [sp EXCEPT ![Cur] = B] /\ depth' = [depth EXCEPT ![Cur] = 0]
        /\ UNCHANGED <<frame, created, prev, method, cell>> /\ mode' = "run"
    BY <1>7 DEF Restart, frameVars
  <2>2. B \in Int /\ 0 \in Int /\ 0 \in 0 .. M /\ B >= B + 0
    BY <1>i
  <2> QED BY <1>p, <2>1, <2>2, OperandsHere
<1>8. ASSUME AtBytecode, NEW m \in Method \ {BootMethod}, NEW ctx, HasOperands(NumArgs[m]),
             PushNewFrame(m, ctx, sp[Cur], depth[Cur] - NumArgs[m] + 1), mode' = "run"
      PROVE  OperandParts'
  <2>1. NumArgs[m] \in Nat /\ NumArgs[m] >= 1 /\ d0 >= NumArgs[m]
    BY <1>8, <1>m, MethodAssumption DEF HasOperands
  <2>2. /\ d0 - NumArgs[m] + 1 \in Int /\ d0 - NumArgs[m] + 1 \in 0 .. M
        /\ s0 >= B + (d0 - NumArgs[m] + 1) + NumArgs[m] - 1
    BY <1>8, <1>c, <1>i, <2>1
  <2> QED BY <1>8, <1>p, <1>t, <2>2, OperandsPush
<1>9. CASE doSendMethod
  BY <1>8, <1>9 DEF doSendMethod
<1>10. CASE evaluationRoutine
  <2>1. PICK b \in blocks :
          /\ HasOperands(NumArgs[b.method])
          /\ PushNewFrame(b.method, b.context, sp[Cur],
                          depth[Cur] - NumArgs[b.method] + 1)
    BY <1>10 DEF evaluationRoutine
  <2>2. b.method \in Method \ {BootMethod}
    BY MethodAssumption DEF IInv, TypeOK, Block
  <2> QED BY <1>8, <1>10, <2>1, <2>2 DEF evaluationRoutine
<1>11. ASSUME NEW n \in 1 .. M, AtBytecode, HasOperands(n),
              sp' = [sp EXCEPT ![Cur] = @ - n],
              depth' = [depth EXCEPT ![Cur] = @ - n + 1]
       PROVE  /\ sp' = [sp EXCEPT ![Cur] = s0 - n] /\ depth' = [depth EXCEPT ![Cur] = d0 - n + 1]
              /\ s0 - n \in Int /\ d0 - n + 1 \in Int /\ d0 - n + 1 \in 0 .. M
              /\ s0 - n >= B + (d0 - n + 1) - 1
  <2>1. n \in Nat /\ n >= 1 /\ d0 >= n
    BY <1>11, <1>i DEF HasOperands
  <2> QED BY <1>11, <1>c, <1>i, <2>1
<1>12. CASE sendDNU
  <2>1. PICK n \in 1 .. M :
          /\ HasOperands(n)
          /\ sp' = [sp EXCEPT ![Cur] = @ - n]
          /\ depth' = [depth EXCEPT ![Cur] = @ - n + 1]
          /\ MakeRoom(3, sp[Cur] - n)
    BY <1>12 DEF sendDNU
  <2>2. /\ sp' = [sp EXCEPT ![Cur] = s0 - n] /\ depth' = [depth EXCEPT ![Cur] = d0 - n + 1]
        /\ s0 - n \in Int /\ d0 - n + 1 \in Int /\ d0 - n + 1 \in 0 .. M
        /\ s0 - n >= B + (d0 - n + 1) - 1
    BY <1>11, <1>12, <2>1 DEF sendDNU
  <2>3. AtBytecode /\ RoomForUnplanned /\ mode' = "send"
    BY <1>12 DEF sendDNU
  <2> QED BY <1>p, <2>1, <2>2, <2>3, OperandsUnplanned
<1>13. CASE superSendDNU
  <2>1. PICK n \in 1 .. M :
          /\ HasOperands(n)
          /\ sp' = [sp EXCEPT ![Cur] = @ - n]
          /\ depth' = [depth EXCEPT ![Cur] = @ - n + 1]
    BY <1>13 DEF superSendDNU
  <2>2. /\ sp' = [sp EXCEPT ![Cur] = s0 - n] /\ depth' = [depth EXCEPT ![Cur] = d0 - n + 1]
        /\ s0 - n \in Int /\ d0 - n + 1 \in Int /\ d0 - n + 1 \in 0 .. M
        /\ s0 - n >= B + (d0 - n + 1) - 1
    BY <1>11, <1>13, <2>1 DEF superSendDNU
  <2>3. mode' = "send" /\ UNCHANGED <<frame, created, prev, method, cell>>
    BY <1>13 DEF superSendDNU, frameVars
  <2> QED BY <1>p, <2>2, <2>3, OperandsHere
<1>14. CASE pushUnknownGlobal
  <2>1. /\ AtBytecode /\ RoomForUnplanned /\ mode' = "send" /\ MakeRoom(2, sp[Cur])
        /\ sp' = [sp EXCEPT ![Cur] = s0] /\ depth' = [depth EXCEPT ![Cur] = d0 + 1]
    BY <1>14, <1>t DEF pushUnknownGlobal
  <2>2. d0 < M
    BY <1>14 DEF pushUnknownGlobal, MayPush
  <2>3. d0 + 1 \in Int /\ d0 + 1 \in 0 .. M /\ s0 >= B + (d0 + 1) - 1
    BY <1>c, <1>i, <2>1, <2>2
  <2> QED BY <1>p, <1>t, <2>1, <2>3, OperandsUnplanned
<1>15. CASE Send
  <2>1. CASE ErrorExit
    BY <2>1 DEF ErrorExit
  <2>2. CASE ~ErrorExit
    <3>1. PICK m \in Method \ (BlockMethod \cup {BootMethod}) :
            NumArgs[m] = pending /\ PushNewFrame(m, Nil, sp[Cur] + pending, depth[Cur])
      BY <1>15, <2>2 DEF Send
    <3>2. mode = "send" /\ mode' = "run"
      BY <1>15, <2>2 DEF Send
    <3>3. NumArgs[m] \in Nat
      BY <1>m
    <3>4. s0 + pending \in Int /\ s0 + pending >= B + d0 + NumArgs[m] - 1
      BY <1>c, <1>i, <3>1, <3>2, <3>3
    <3> QED BY <1>p, <1>t, <1>c, <3>1, <3>2, <3>4, OperandsPush
  <2> QED BY <2>1, <2>2
<1>16. CASE doReturnLocal
  BY <1>16, <1>p, OperandsPop DEF doReturnLocal, popFrameAndPushResult
<1>17. CASE doReturnNonLocal
  <2>1. CASE prev[home[frame]] = Nil
    <3>1. popFrame /\ sp' = sp /\ depth' = depth /\ mode' = "send" /\ frame # Boot
      BY <1>17, <2>1 DEF doReturnNonLocal
    <3> QED BY <1>p, <3>1, OperandsPop
  <2>2. CASE prev[home[frame]] # Nil
    <3>1. /\ sp' = [sp EXCEPT ![Cur] = s0 - 1] /\ depth' = [depth EXCEPT ![Cur] = d0 - 1]
          /\ UNCHANGED <<frame, created, prev, method, cell>> /\ mode' = "unwind"
      BY <1>17, <2>2 DEF doReturnNonLocal, frameVars
    <3>2. d0 >= 1
      BY <1>17 DEF doReturnNonLocal, HasOperands
    <3>3. s0 - 1 \in Int /\ d0 - 1 \in Int /\ d0 - 1 \in 0 .. M
      BY <1>i, <3>2
    <3> QED BY <1>p, <3>1, <3>3, OperandsHere
  <2> QED BY <2>1, <2>2
<1>18. CASE Unwind
  <2>1. popFrame /\ sp' = sp /\ depth' = depth /\ mode' = "unwind"
    BY <1>18 DEF Unwind
  <2>2. frame # Boot
    BY <1>18 DEF Unwind, IInv, BootIsBottom
  <2> QED BY <1>p, <2>1, <2>2, OperandsPop
<1>19. CASE UnwindFound
  <2>1. popFrameAndPushResult /\ popFrame /\ depth' = depth /\ mode' = "run"
    BY <1>19 DEF UnwindFound, popFrameAndPushResult
  <2>2. frame # Boot
    BY <1>19 DEF UnwindFound, IInv, UnwindKnown
  <2> QED BY <1>p, <2>1, <2>2, OperandsPop
<1> QED
  BY <1>1, <1>3, <1>5, <1>6, <1>7, <1>9, <1>10, <1>12, <1>13, <1>14, <1>15, <1>16,
     <1>17, <1>18, <1>19 DEF Next, Done

\* No bytecode ever pops an operand that the compiled code did not push: through
\* calls, returns, non-local returns, restarts, escaped blocks and sends the
\* compiler did not plan, emergency frames included, each live frame holds what
\* its static depth promises and its callee's arguments on top.
THEOREM OperandsSuffice == Spec => []OperandStack
<1>1. Init => OperandStack
  <2> SUFFICES ASSUME Init PROVE OperandStack
    OBVIOUS
  <2>1. IInv /\ status = "running"
    BY InitIInv DEF Init
  <2>2. PICK m \in Method \ BlockMethod :
          /\ NumArgs[m] = 2
          /\ frame = 2
          /\ created = 2
          /\ prev = [f \in Frame |-> IF f = 2 THEN Boot ELSE Nil]
          /\ method = [f \in Frame |-> IF f = 2 THEN m ELSE BootMethod]
          /\ cell = [f \in Frame |-> f]
          /\ sp = [f \in Frame |-> IF f = 2 THEN Base(m) ELSE Base(BootMethod) + 2]
          /\ depth = [f \in Frame |-> IF f = Boot THEN 1 ELSE 0]
          /\ mode = "run"
    BY DEF Init
  <2>3. 1 \in Frame /\ 2 \in Frame
    BY BoundAssumption
  <2>4. Live = {1, 2}
    BY <2>2, <2>3 DEF Live, Replaced
  <2>5. /\ Base(BootMethod) = 0 /\ MaxStack[BootMethod] = 2
        /\ Base(m) \in Int /\ MaxStack[m] \in Nat
    BY MethodAssumption DEF Base
  <2>6. /\ cell[1] = 1 /\ cell[2] = 2 /\ method[1] = BootMethod /\ method[2] = m
        /\ sp[1] = 2 /\ sp[2] = Base(m) /\ depth[1] = 1 /\ depth[2] = 0 /\ prev[2] = 1
    BY <2>2, <2>3, <2>5
  <2>7. Planned(1) /\ Planned(2) /\ Filled(2) /\ HoldsArguments(2)
    BY <2>2, <2>5, <2>6 DEF Planned, Filled, HoldsArguments
  <2>8. OperandParts
    BY <2>2, <2>4, <2>7 DEF OperandParts
  <2> QED BY <2>1, <2>8, OperandSplit
<1>2. IInv /\ IInv' /\ OperandStack /\ [Next]_vars => OperandStack'
  BY NextOperandStack
<1> QED
  BY <1>1, <1>2, Inductive, PTL DEF Spec
=============================================================================
