------------------------------- MODULE MCSaga -------------------------------
(***************************************************************************)
(* Two orders of different customers, one of two tickets.                  *)
(***************************************************************************)
EXTENDS Reconciler, TLC

CONSTANTS o1, o2, alice, bob, q1, q2

MCCustomerOf == [o \in Orders |-> IF o = o1 THEN alice ELSE bob]
MCQuantityOf == [o \in Orders |-> IF o = o1 THEN 1 ELSE 2]
=============================================================================
