--------------------------- MODULE MCBookingSystem --------------------------
(***************************************************************************)
(* One or two requests for two tickets: o1 asks for both of them, o2 for   *)
(* one. They come from two customers, or both from alice.                  *)
(***************************************************************************)
EXTENDS BookingSystem, TLC

CONSTANTS o1, o2, alice, bob

TwoCustomers == [o \in Orders |-> IF o = o1 THEN alice ELSE bob]
OneCustomer == [o \in Orders |-> alice]
MCQuantityOf == [o \in Orders |-> IF o = o1 THEN 2 ELSE 1]

\* A bound on the behaviours of one run: no customer goes on to pay.
NobodyPays == \A o \in Orders : payer[o] = "idle"
=============================================================================
