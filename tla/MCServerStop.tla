---------------------------- MODULE MCServerStop ----------------------------
(* A transaction of two statements, and methods of one and two statements  *)
(* that commit one by one.                                                 *)
EXTENDS ServerStop

MCMethods ==
  { [transaction |-> TRUE, statements |-> 2], [transaction |-> FALSE, statements |-> 2], Refresh }
=============================================================================
