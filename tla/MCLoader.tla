------------------------------ MODULE MCLoader ------------------------------
(***************************************************************************)
(* Small instances of Loader for TLC.  The class path has two directories: *)
(* the library, which may lack any of its files, and the program's.  A     *)
(* program's classes may be missing, defined twice, misnamed, subclasses   *)
(* of Frame or of each other, in a circle too.                             *)
(***************************************************************************)
EXTENDS Loader

File(p, n, c, s, sels) ==
  [path |-> p, file |-> n, class |-> c, super |-> s, selectors |-> sels]

MCName == {"Object", "Array", "Frame", "Block", "Block1", "A", "B", "C",
           "Statement", "run", "NewClass"}
MCSystemClass == <<"Object", "Array", "Frame">>
MCSystemSuper == <<0, 1, 2>>
MCCoreClass == <<"Block">>
MCStatements == {File(0, "Statement", "Statement", "Object", {"run"})}

Library ==
  {File(1, "Object", "Object", "Object", {}), File(1, "Array", "Array", "Object", {}),
   File(1, "Frame", "Frame", "Array", {}), File(1, "Block", "Block", "Object", {}),
   File(1, "Block1", "Block1", "Block", {})}

MCFiles ==
  Library \cup
  {File(1, "A", "A", "B", {"run"}), File(2, "A", "A", "Object", {}),
   File(1, "B", "C", "Object", {}), File(2, "B", "B", "C", {"run"}),
   File(1, "C", "C", "A", {}), File(2, "C", "C", "Frame", {}),
   File(2, "C", "C", "Object", {})}

(* The instance meets the hypotheses of the theorems about Loader.         *)
ASSUME InstanceSeparate == Separate /\ RoomForFiles
=============================================================================
