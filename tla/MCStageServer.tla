--------------------------- MODULE MCStageServer ----------------------------
(***************************************************************************)
(* alice asks for two tickets and, in another request, for one; bob for one.*)
(* There are two.                                                          *)
(***************************************************************************)
EXTENDS StageServer, TLC

CONSTANTS o1, o2, o3, alice, bob, c1, w1

MCCustomerOf == [o \in Orders |-> IF o = o3 THEN bob ELSE alice]
MCQuantityOf == [o \in Orders |-> IF o = o1 THEN 2 ELSE 1]
MCRequests == [s \in Stages |-> IF s = 1 THEN Orders ELSE {o1, o2}]
=============================================================================
