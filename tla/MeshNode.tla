------------------------------ MODULE MeshNode ------------------------------
(***************************************************************************)
(* What a sensor node promises the others: it advertises what it sampled   *)
(* or heard, once for each time that it was new to it; it obeys a command  *)
(* when it is new, and no other; and it takes for new what is not among    *)
(* the last packets it remembers.                                          *)
(*                                                                         *)
(* ThingyNode implements this with its threads and queues, and each node   *)
(* of FloodMesh does so in fewer steps.                                    *)
(***************************************************************************)
EXTENDS Integers, Sequences

CONSTANTS
    Samples,            \* samples there can be
    Own,                \* those of this node
    Commands,           \* commands there can be
    Sleeps,             \* those that put a node into low power
    Wakes,              \* those that put it into normal mode
    SAMPLES_KEPT,       \* samples remembered
    COMMANDS_KEPT,      \* commands remembered
    Nothing             \* what is advertised when nothing is

VARIABLES
    mode,
    samples,            \* the samples remembered, oldest first
    commands,           \* the commands remembered, oldest first
    owed,               \* how often each packet is still to be advertised
    advertised

vars == <<mode, samples, commands, owed, advertised>>

SampleWindow ==
    INSTANCE SeenWindow WITH recent <- samples, SIZE <- SAMPLES_KEPT, Packets <- Samples
CommandWindow ==
    INSTANCE SeenWindow WITH recent <- commands, SIZE <- COMMANDS_KEPT, Packets <- Commands

Packets == Samples \cup Commands

-----------------------------------------------------------------------------
Init ==
    /\ mode = "normal"
    /\ samples = <<>> /\ commands = <<>>
    /\ owed = [p \in Packets |-> 0]
    /\ advertised = Nothing

\* A new packet is to be advertised, if the node has room for it.
Owe(p) == owed' = [owed EXCEPT ![p] = @ + 1] \/ UNCHANGED owed

\* Another node's sample: nothing is owed in low power.
HearSample(p) ==
    /\ p \notin Own
    /\ UNCHANGED <<advertised, mode, commands>>
    /\ SampleWindow!Remember(p)
    /\ IF mode = "normal" THEN Owe(p) ELSE UNCHANGED owed

HearCommand(p) ==
    /\ UNCHANGED <<advertised, samples>>
    /\ mode' = CASE p \in Sleeps -> "low_power" [] p \in Wakes -> "normal" [] OTHER -> mode
    /\ CommandWindow!Remember(p)
    /\ Owe(p)

\* An own sample; its number may be one that the node still remembers.
TakeSample(p) ==
    /\ p \in Own
    /\ UNCHANGED <<advertised, mode, commands>>
    /\ IF p \in SampleWindow!Remembered THEN UNCHANGED samples
       ELSE SampleWindow!Remember(p)
    /\ Owe(p)

Discharge(p) == owed[p] > 0 /\ owed' = [owed EXCEPT ![p] = @ - 1]

Advertise(p) ==
    /\ advertised' = p
    /\ UNCHANGED <<mode, samples, commands>>
    /\ Discharge(p)

\* A packet is dropped: a full queue, a node in low power, a failing controller.
GiveUp(p) ==
    /\ UNCHANGED <<advertised, mode, samples, commands>>
    /\ Discharge(p)

StopAdvertising ==
    /\ advertised' = Nothing
    /\ UNCHANGED <<mode, samples, commands, owed>>

Reboot ==
    /\ mode' = "normal"
    /\ samples' = <<>> /\ commands' = <<>>
    /\ owed' = [p \in Packets |-> 0]
    /\ advertised' = Nothing

Next ==
    \/ \E p \in Samples : HearSample(p) \/ TakeSample(p)
    \/ \E p \in Commands : HearCommand(p)
    \/ \E p \in Packets : Advertise(p) \/ GiveUp(p)
    \/ StopAdvertising \/ Reboot

Step == UNCHANGED vars \/ Next

Spec == Init /\ [][Next]_vars
=============================================================================
