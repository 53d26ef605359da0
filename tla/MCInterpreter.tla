--------------------------- MODULE MCInterpreter ---------------------------
(***************************************************************************)
(* Small programs for the interpreter: a method for every arity an         *)
(* unplanned send needs, a block method and the empty block.               *)
(***************************************************************************)
EXTENDS InterpreterRefinement

MCMethod == {"boot", "unary", "keyword", "handler", "block", "empty"}
MCNumArgs == [m \in MCMethod |->
  CASE m = "keyword" -> 2 [] m = "handler" -> 3 [] OTHER -> 1]
MCNumLocals == [m \in MCMethod |-> IF m = "unary" THEN 1 ELSE 0]
MCMaxStack == [m \in MCMethod |->
  CASE m \in {"boot", "keyword"} -> 2 [] m = "empty" -> 0 [] OTHER -> 1]
=============================================================================
