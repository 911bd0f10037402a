--------------------------- MODULE MCReservation ---------------------------
(***************************************************************************)
(* Three requests: alice asks for one ticket twice, bob for two at once.   *)
(***************************************************************************)
EXTENDS Reservation, TLC

CONSTANTS o1, o2, o3, alice, bob

MCCustomerOf == [o \in Orders |-> IF o = o3 THEN bob ELSE alice]
MCQuantityOf == [o \in Orders |-> IF o = o3 THEN 2 ELSE 1]
=============================================================================
