------------------------------ MODULE MCMarking ------------------------------
(* Object graphs for Marking: a fan of roots that exhausts the packets, and *)
(* a cycle with shared parts and garbage.                                   *)
EXTENDS Marking

Graph(r, f, n) == [roots |-> r, refs |-> f, slots |-> n]
MCGraphs ==
  {Graph(<<1, 2, 3, 4, 5>>, <<<<6, 7>>, <<>>, <<>>, <<>>, <<>>, <<>>, <<>>>>, 1),
   Graph(<<2, 3>>, <<<<2>>, <<3, 4, 5>>, <<4, 2>>, <<6>>, <<2>>, <<>>, <<>>>>, 2)}
=============================================================================
