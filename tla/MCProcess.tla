------------------------------ MODULE MCProcess ------------------------------
(* A task with both kinds of barrier, in every order.                         *)
EXTENDS Process

MCSyncPoints == <<"all", "master", "master", "all">>
=============================================================================
