------------------------------ MODULE DiffLog ------------------------------
(***************************************************************************)
(* What the persistent frontier's synchronisation promises: the diffs it   *)
(* is notified of are applied to the database once each and in the order   *)
(* of the notifications.                                                   *)
(***************************************************************************)
EXTENDS Sequences

CONSTANT Batch   \* what one notification may hold

VARIABLES pending, applied

Init == pending = << >> /\ applied = << >>

Notify == /\ \E ds \in Batch : pending' = pending \o ds
          /\ UNCHANGED applied

Apply == /\ pending # << >>
         /\ applied' = Append(applied, Head(pending))
         /\ pending' = Tail(pending)

Next == Notify \/ Apply

Spec == Init /\ [][Next]_<<pending, applied>>
=============================================================================
