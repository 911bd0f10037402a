--------------------------- MODULE RedisInventory ---------------------------
(***************************************************************************)
(* The hot-path inventory of one ticket type in Redis: the quantity that   *)
(* deduct.lua takes from and revert.lua gives back to, and the keys        *)
(* saga:reverted:<compensation id> that make a revert idempotent. The      *)
(* worker names a revert by the id of the stream message, the saga by      *)
(* "order:" and the order id, so the two kinds of key never meet. Their    *)
(* expiry after 7 days is not modelled.                                    *)
(***************************************************************************)
EXTENDS Environment

VARIABLES qty,              \* ticket_type_qty:<id>
          revertedMsgs,     \* the stream message ids with a saga:reverted key
          revertedOrders    \* the orders with a saga:reverted:order:<id> key

redisVars == <<qty, revertedMsgs, revertedOrders>>

RedisTypeOK ==
    /\ qty \in Nat
    /\ revertedMsgs \subseteq Nat
    /\ revertedOrders \subseteq Orders

\* Mutants of RevertMsg and RevertOrder: the script does not look for the key.
RevertMsgAgain(m, n) ==
    /\ qty' = qty + n
    /\ revertedMsgs' = revertedMsgs \cup {m}
    /\ UNCHANGED revertedOrders

RevertOrderAgain(o, n) ==
    /\ qty' = qty + n
    /\ revertedOrders' = revertedOrders \cup {o}
    /\ UNCHANGED revertedMsgs

\* revert.lua, called by the worker for the message m of n tickets.
RevertMsg(m, n) ==
    /\ IF m \in revertedMsgs THEN UNCHANGED qty ELSE qty' = qty + n
    /\ revertedMsgs' = revertedMsgs \cup {m}
    /\ UNCHANGED revertedOrders

\* revert.lua, called by the saga for the order o of n tickets.
RevertOrder(o, n) ==
    /\ IF o \in revertedOrders THEN UNCHANGED qty ELSE qty' = qty + n
    /\ revertedOrders' = revertedOrders \cup {o}
    /\ UNCHANGED revertedMsgs
=============================================================================
