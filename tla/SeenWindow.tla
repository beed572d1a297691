----------------------------- MODULE SeenWindow -----------------------------
(***************************************************************************)
(* What a sensor node's seen cache promises, whatever its layout: the last *)
(* SIZE different packets are remembered, and the one forgotten to make    *)
(* room is the one remembered longest. Only a reboot forgets them all.     *)
(***************************************************************************)
EXTENDS Naturals, Sequences

CONSTANTS
    SIZE,       \* packets remembered
    Packets     \* packets there can be

VARIABLE recent \* the packets remembered, oldest first

Remembered == {recent[i] : i \in DOMAIN recent}

Init == recent = <<>>

\* A packet is new: remember it, and forget the oldest when there are too many.
Remember(p) ==
    /\ p \notin Remembered
    /\ recent' = IF Len(recent) < SIZE THEN Append(recent, p) ELSE Append(Tail(recent), p)

Reboot == recent' = <<>>

Next == Reboot \/ \E p \in Packets : Remember(p)

Step == Next \/ UNCHANGED recent

Spec == Init /\ [][Next]_recent
=============================================================================
