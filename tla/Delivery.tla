-------------------------------- MODULE Delivery --------------------------------
(* What Submit promises: the service records a delivery only when the consumer    *)
(* holds a portrait, completes the transaction and sends the customer on only     *)
(* after it recorded one, and takes none of this back.                           *)

VARIABLES taken,      \* the consumer holds a portrait
          recorded,   \* its acknowledgement is stored
          completed,  \* the transaction is COMPLETED
          confirmed   \* the customer was sent on

Init == ~taken /\ ~recorded /\ ~completed /\ ~confirmed

Take == taken' /\ UNCHANGED <<recorded, completed, confirmed>>

\* The answer that is recorded may be that to the post the consumer takes.
Record == taken' /\ recorded' /\ UNCHANGED <<completed, confirmed>>

Complete == recorded /\ completed' /\ UNCHANGED <<taken, recorded, confirmed>>

Confirm == recorded /\ confirmed' /\ UNCHANGED <<taken, recorded, completed>>

Next == Take \/ Record \/ Complete \/ Confirm

Spec == Init /\ [][Next]_<<taken, recorded, completed, confirmed>>
===============================================================================
