--------------------------- MODULE MCHotInventory ----------------------------
(***************************************************************************)
(* Two orders for the two tickets of one event, one of them for both.       *)
(***************************************************************************)
EXTENDS HotInventory, TLC

CONSTANTS o1, o2, alice, bob, p1, p2

MCCustomerOf == [o \in Orders |-> IF o = o1 THEN alice ELSE bob]
MCQuantityOf == [o \in Orders |-> IF o = o1 THEN 2 ELSE 1]
=============================================================================
