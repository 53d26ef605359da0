----------------------------- MODULE CallStack -----------------------------
(***************************************************************************)
(* What SOM promises about activations, without frames or links between    *)
(* them.  Activations are numbered in the order they are made, so the call *)
(* stack is the set of live activations ordered by number.  Each one has a *)
(* home: itself for a method, and for a block the method activation that   *)
(* created the block.                                                      *)
(***************************************************************************)
EXTENDS Integers

CONSTANT Activation  \* 1..n: the activations a behaviour may make

VARIABLES live, made, homeOf

absVars == <<live, made, homeOf>>

IsTop(a) == a \in live /\ \A b \in live : b <= a

\* The bootstrap activation has called the first method.
Init ==
  /\ live = {1, 2}
  /\ made = 2
  /\ homeOf = [a \in Activation |-> a]

\* A send starts an activation of a method (its own home) or of a block made
\* by some earlier activation, returned or not.
Call ==
  /\ made + 1 \in Activation
  /\ made' = made + 1
  /\ live' = live \cup {made + 1}
  /\ \E h \in 1 .. made + 1 :
       /\ homeOf[h] = h
       /\ homeOf' = [homeOf EXCEPT ![made + 1] = h]

\* The youngest activation returns to its caller.
Return ==
  /\ \E a \in live \ {1} : IsTop(a) /\ live' = live \ {a}
  /\ UNCHANGED <<made, homeOf>>

\* ^ in a block returns from its home: the home and everything above it go.
NonLocalReturn ==
  /\ \E a \in live :
       /\ IsTop(a)
       /\ homeOf[a] # a
       /\ homeOf[a] \in live \ {1}
       /\ live' = {b \in live : b < homeOf[a]}
  /\ UNCHANGED <<made, homeOf>>

Next == Call \/ Return \/ NonLocalReturn

Spec == Init /\ [][Next]_absVars
=============================================================================
