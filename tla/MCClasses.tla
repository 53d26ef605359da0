----------------------------- MODULE MCClasses ------------------------------
(* Two program classes in any hierarchy below Object, with a small choice  *)
(* of fields, methods, primitives and libraries.                           *)
EXTENDS Classes

M(s) == [sig |-> s, primitive |-> FALSE]
P(s) == [sig |-> s, primitive |-> TRUE]

MCUserClass == << "A", "B" >>
MCObjectTable == << M("value"), P("and") >>
MCClassTable == << P("new") >>

Def(f, t, mf, mt) == [fields |-> f, table |-> t, metaFields |-> mf, metaTable |-> mt]
MCDefinitions == {
  Def(<< "y", "x" >>, << M("value") >>, <<>>, <<>>),
  Def(<< "x" >>, <<>>, << "x", "y" >>, <<>>),
  Def(<<>>, << M("and"), P("&") >>, << "x" >>, <<>>),
  Def(<< "z", "y" >>, << M("value"), M("value") >>, << "y" >>, << P("new") >>) }

MCBlockTable == << << P("value") >>,
                   << M("value"), P("value:") >>,
                   << M("value"), M("value:"), P("value:with:") >> >>
MCEvalSelector == << "value", "value:", "value:with:" >>

(* `&' and `and' have routines of the same name.                           *)
MCPlainString ==
  [s \in {"value", "value:", "value:with:", "and", "&", "new"} |->
     CASE s = "value:" -> "value_"
       [] s = "value:with:" -> "value_with_"
       [] s = "&" -> "and"
       [] OTHER -> s]

Lib(p, f, ok, supports, routines) ==
  [path |-> p, file |-> f, format |-> ok, supports |-> supports, routines |-> routines]

(* A core library for the system classes, which also has a routine of A    *)
(* but does not support that class; one for the program's classes; one     *)
(* that is no library; and libraries of single classes, the second of      *)
(* which has routines for a class it does not support.                     *)
Core1 == Lib(1, "SOMCore", TRUE, {"Object", "Class", "Block"},
             {<<"Object", "and">>, <<"Class", "new">>, <<"Block", "value">>, <<"A", "and">>})
Core2 == Lib(2, "SOMCore", TRUE, {"A", "B"}, {<<"A", "and">>, <<"A", "new">>, <<"B", "and">>})
Broken == Lib(2, "SOMCore", FALSE, {}, {})
OwnA == Lib(1, "A", TRUE, {"A"}, {<<"A", "and">>})
OwnB == Lib(1, "B", TRUE, {}, {<<"B", "and">>, <<"B", "new">>})

MCDisks == { {Core1, Core2}, {Core1, OwnA, OwnB, Core2}, {Core1, Broken} }
=============================================================================
