------------------------------ MODULE FetchOrder ------------------------------
(***************************************************************************)
(* What fetching promises, whoever applies the batches: the pages iCloud    *)
(* sends are saved on this Mac in the order they came, each once, and the   *)
(* position kept for the next launch never passes a page that was not       *)
(* saved ("Saves fetched batches in the order they arrived", `apply_in_     *)
(* order`; "Saves the engine checkpoint, but only once everything it covers *)
(* has been applied", `flush_state`).                                       *)
(***************************************************************************)
EXTENDS Naturals, Sequences

VARIABLES
    brought,   \* pages the engine delivered, counted from the first
    waiting,   \* those not saved yet, oldest first
    saved,     \* those saved, or with nothing to save
    lost,      \* those of which something could not be kept
    position   \* up to where the next launch need not fetch

orderVars == <<brought, waiting, saved, lost, position>>

Init ==
    /\ brought = 0
    /\ waiting = <<>>
    /\ saved = {}
    /\ lost = {}
    /\ position = 0

(* A page arrives: changes to save, nothing to save, or something lost.     *)
Bring(save, lose) ==
    /\ brought' = brought + 1
    /\ waiting' = IF save THEN Append(waiting, brought + 1) ELSE waiting
    /\ saved' = IF save THEN saved ELSE saved \union {brought + 1}
    /\ lost' = IF lose THEN lost \union {brought + 1} ELSE lost
    /\ UNCHANGED position

Save ==
    /\ waiting # <<>>
    /\ saved' = saved \union {Head(waiting)}
    /\ waiting' = Tail(waiting)
    /\ UNCHANGED <<brought, lost, position>>

Kept(page) == page \in saved /\ page \notin lost

Advance ==
    /\ position' \in position .. brought
    /\ \A page \in 1 .. position' : Kept(page)
    /\ UNCHANGED <<brought, waiting, saved, lost>>

(* The program ends; the next launch fetches from the position it kept.     *)
Relaunch ==
    /\ brought' = position
    /\ waiting' = <<>>
    /\ saved' = 1 .. position
    /\ lost' = {}
    /\ UNCHANGED position

Next ==
    \/ \E save, lose \in BOOLEAN : Bring(save, lose)
    \/ Save
    \/ Advance
    \/ Relaunch

Spec == Init /\ [][Next]_orderVars
=============================================================================
