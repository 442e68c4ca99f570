-------------------------------- MODULE Market --------------------------------
(***************************************************************************)
(* What the consumer/supplier programs of LAB_16 promise, without          *)
(* processes, semaphores or shared memory: a purchase moves goods from one *)
(* supplier's stock to one consumer's demand in a single step, a delivery  *)
(* adds exactly one supply unit, and a supplier closes only when no demand *)
(* is left.  Both programs are shown to implement it.                      *)
(***************************************************************************)
EXTENDS Naturals

CONSTANTS Consumers,  \* the consumer processes
          Suppliers,  \* the supplier processes
          Demand,     \* demand_unit: what every consumer wants
          Supply      \* supply_unit: initial stock and size of a delivery

VARIABLES dem,    \* what each consumer still wants
          stock,  \* what each supplier holds
          closed  \* the suppliers that have left

vars == <<dem, stock, closed>>

Init == /\ dem = [c \in Consumers |-> Demand]
        /\ stock = [s \in Suppliers |-> Supply]
        /\ closed = {}

Smaller(a, b) == IF a < b THEN a ELSE b

\* c buys all it can from s.
Buy(c, s) ==
    /\ dem[c] > 0 /\ stock[s] > 0
    /\ LET take == Smaller(dem[c], stock[s])
       IN /\ dem' = [dem EXCEPT ![c] = @ - take]
          /\ stock' = [stock EXCEPT ![s] = @ - take]
    /\ UNCHANGED closed

\* s receives one delivery.
Deliver(s) ==
    /\ s \notin closed
    /\ stock' = [stock EXCEPT ![s] = @ + Supply]
    /\ UNCHANGED <<dem, closed>>

\* s leaves: every consumer has been served.
Close(s) ==
    /\ \A c \in Consumers : dem[c] = 0
    /\ closed' = closed \cup {s}
    /\ UNCHANGED <<dem, stock>>

Next == \/ \E c \in Consumers, s \in Suppliers : Buy(c, s)
        \/ \E s \in Suppliers : Deliver(s) \/ Close(s)

Spec == Init /\ [][Next]_vars
===============================================================================
