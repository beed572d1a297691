--------------------------- MODULE MCMobileNode ---------------------------
(* Instances of MobileNode for TLC. *)
EXTENDS MobileNode, TLC

\* The sniffer's run follows a link up to its first end, and proc_thread, for
\* which it has no commands, no further than to its second loop.
MCSniffing == ~adv_restart /\ proc.at # "cmd"

MCSymmetry == Permutations(Nodes)
===========================================================================
