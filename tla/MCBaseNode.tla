---------------------------- MODULE MCBaseNode ----------------------------
(* Instances of BaseNode for TLC. *)
EXTENDS BaseNode

\* Good air, and each of the two gases at a band that matters.
MCReadings ==
    { [eco2 |-> GOOD, tvoc |-> GOOD],
      [eco2 |-> WARNING, tvoc |-> GOOD],
      [eco2 |-> GOOD, tvoc |-> POOR] }

\* Two bands of one gas: enough to tell an old record of a node from a new one.
MCTwoReadings ==
    { [eco2 |-> GOOD, tvoc |-> GOOD], [eco2 |-> POOR, tvoc |-> GOOD] }
===========================================================================
