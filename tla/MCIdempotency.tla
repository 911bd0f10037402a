--------------------------- MODULE MCIdempotency ----------------------------
(***************************************************************************)
(* The requests of MCReservation with one key: alice's two have the same   *)
(* body, bob sends her key with his own.                                   *)
(***************************************************************************)
EXTENDS Idempotency, TLC

CONSTANTS o1, o2, o3, alice, bob, k1

MCCustomerOf == [o \in Orders |-> IF o = o3 THEN bob ELSE alice]
MCQuantityOf == [o \in Orders |-> IF o = o3 THEN 2 ELSE 1]
MCKeyOf == [o \in Orders |-> k1]
MCBodyOf == [o \in Orders |-> IF o = o3 THEN o3 ELSE o1]
=============================================================================
