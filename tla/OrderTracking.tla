--------------------------- MODULE OrderTracking ---------------------------
(***************************************************************************)
(* What the ledger's exchange_order_status promises: it follows the        *)
(* exchange.  An order goes from unplaced (0) to resting (1) to final (2), *)
(* the view of it goes through the same phases, late but never ahead, and   *)
(* neither goes back.  Rows of several orders may be written at once.       *)
(***************************************************************************)
EXTENDS Integers

CONSTANT Orders

VARIABLES order, view

Phases == 0..2

Init == /\ order = [o \in Orders |-> 0]
        /\ view  = [o \in Orders |-> 0]

Next == \A o \in Orders :
          /\ order[o] <= order'[o]
          /\ view[o]  <= view'[o]
          /\ view'[o] <= order'[o]

Spec == Init /\ [][Next]_<<order, view>>
=============================================================================
