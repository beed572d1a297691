------------------------------ MODULE FloodMesh ------------------------------
(***************************************************************************)
(* Several sensor nodes (Thingy52/src) and the mobile node's command       *)
(* broadcaster (mobile_node/src/ble.c): samples and commands flood the     *)
(* mesh, each node relaying what it has not seen before.                   *)
(*                                                                         *)
(* A node is coarser here than in ThingyNode: a turn of flood_thread is    *)
(* one step, and so is device_found; when its scanner is on is left open   *)
(* (a node may or may not hear what is on the air), and its sensors are    *)
(* left out. The mobile node's queue of commands is left out too: it only  *)
(* delays an order.                                                        *)
(*                                                                         *)
(* A command packet carries its number and the command. The order it       *)
(* belongs to, which tells equal numbers of different times apart, is not  *)
(* in the packet, and no node looks at it.                                 *)
(*                                                                         *)
(* A definition whose name starts with Bad is a plausible slip; see Buzzer.*)
(***************************************************************************)
EXTENDS Integers, Sequences, FiniteSets

CONSTANTS
    Nodes,
    Samplers,                   \* bound: nodes that take samples
    SEQ_MOD,                    \* values of an 8-bit command number (256)
    FLOOD_QUEUE_SIZE,           \* 12
    SEEN_SENSOR_CACHE_SIZE,     \* 32
    SEEN_COMMAND_CACHE_SIZE,    \* 32
    CMD_BROADCAST_COUNT,        \* times a command is broadcast (3)
    CMD_SLEEP,
    CMD_MEASURE,
    MAX_SAMPLES,                \* bound: samples of each node
    MAX_ORDERS,                 \* bound: commands ordered
    MAX_MOBILE_REBOOTS,         \* bound: reboots of the mobile node
    MAX_NODE_REBOOTS            \* bound: reboots of sensor nodes

ASSUME FloodMeshAssumption ==
    /\ Samplers \subseteq Nodes
    /\ CMD_SLEEP # CMD_MEASURE
    /\ \A c \in {SEQ_MOD, FLOOD_QUEUE_SIZE, SEEN_SENSOR_CACHE_SIZE, SEEN_COMMAND_CACHE_SIZE,
                 CMD_BROADCAST_COUNT} : c \in Nat \ {0}
    /\ \A c \in {MAX_SAMPLES, MAX_ORDERS, MAX_MOBILE_REBOOTS, MAX_NODE_REBOOTS} : c \in Nat

VARIABLES
    mode,               \* current_mode of each node
    seq,                \* number of each node's last sample
    msgq,               \* flood_msgq of each node
    seen_sensor,        \* caches of each node
    seen_command,
    advertised,         \* what each node advertises; NoPacket if nothing
    mobile,             \* the broadcaster: next number, command, repetitions left, reboots
    on_air,             \* the mobile node's advertisement; NoPacket if none
    orders,             \* commands ordered so far
    node_reboots,       \* reboots of sensor nodes so far
    heard,              \* history: commands each node heard since it started
    obeyed              \* history: whether it obeyed each of them 0, 1 or more times

caches == <<seen_sensor, seen_command>>
history == <<heard, obeyed>>
base == <<mobile, on_air, orders>>
vars == <<mode, seq, msgq, caches, advertised, base, node_reboots, history>>

SensorCache == INSTANCE SeenCache WITH SIZE <- SEEN_SENSOR_CACHE_SIZE
CommandCache == INSTANCE SeenCache WITH SIZE <- SEEN_COMMAND_CACHE_SIZE

-----------------------------------------------------------------------------
Cmds == {CMD_SLEEP, CMD_MEASURE}
Seqs == 0 .. SEQ_MOD - 1
Sample == [origin : Nodes, seq : 0 .. MAX_SAMPLES]
Broadcast == [seq : Seqs, cmd : Cmds, order : 1 .. MAX_ORDERS]
Packet == Sample \cup Broadcast
NoPacket == SensorCache!NoPacket
IsSample(p) == "origin" \in DOMAIN p

\* What a node can tell of a command.
Key(p) == [seq |-> p.seq, cmd |-> p.cmd]
Keys == [seq : Seqs, cmd : Cmds]

\* Every variable has its declared shape, and the queues their bound.
TypeOK ==
    /\ mode \in [Nodes -> {"normal", "low_power"}]
    /\ seq \in [Nodes -> 0 .. MAX_SAMPLES]
    /\ msgq \in [Nodes -> Seq(Packet)]
    /\ \A n \in Nodes : Len(msgq[n]) <= FLOOD_QUEUE_SIZE
    /\ seen_sensor \in [Nodes -> SensorCache!Caches(Sample)]
    /\ seen_command \in [Nodes -> CommandCache!Caches(Keys)]
    /\ advertised \in [Nodes -> Packet \cup {NoPacket}]
    /\ mobile \in [seq : Seqs, cmd : Cmds, left : 0 .. CMD_BROADCAST_COUNT,
                   reboots : 0 .. MAX_MOBILE_REBOOTS]
    /\ on_air \in Broadcast \cup {NoPacket}
    /\ orders \in 0 .. MAX_ORDERS
    /\ node_reboots \in 0 .. MAX_NODE_REBOOTS
    /\ heard \in [Nodes -> SUBSET Broadcast]
    /\ obeyed \in [Nodes -> [Broadcast -> 0 .. 2]]

BadPutUnbounded(n, p) == msgq' = [msgq EXCEPT ![n] = Append(@, p)]

\* k_msgq_put with K_NO_WAIT: a full queue drops the packet.
k_msgq_put(n, p) ==
    msgq' = IF Len(msgq[n]) < FLOOD_QUEUE_SIZE THEN [msgq EXCEPT ![n] = Append(@, p)]
            ELSE msgq

-----------------------------------------------------------------------------
(* The sensor nodes.                                                       *)

\* sensor_thread takes a sample, in normal mode.
NodeSamples(n) ==
    /\ n \in Samplers
    /\ mode[n] = "normal" /\ seq[n] < MAX_SAMPLES
    /\ seq' = [seq EXCEPT ![n] = @ + 1]
    /\ LET sample == [origin |-> n, seq |-> seq'[n]]
       IN  /\ seen_sensor' = [seen_sensor EXCEPT ![n] = SensorCache!check_and_add(@, sample)]
           /\ k_msgq_put(n, sample)
    /\ UNCHANGED <<mode, seen_command, advertised, base, node_reboots, history>>

\* A turn of flood_thread: a sample is not relayed in low power.
Relay(n) ==
    /\ msgq[n] # <<>>
    /\ msgq' = [msgq EXCEPT ![n] = Tail(@)]
    /\ LET p == Head(msgq[n])
       IN  advertised' = IF IsSample(p) /\ mode[n] # "normal" THEN advertised
                         ELSE [advertised EXCEPT ![n] = p]
    /\ UNCHANGED <<mode, seq, caches, base, node_reboots, history>>

\* scan_thread begins a turn of low power.
StopAdvertising(n) ==
    /\ mode[n] = "low_power"
    /\ advertised[n] # NoPacket
    /\ advertised' = [advertised EXCEPT ![n] = NoPacket]
    /\ UNCHANGED <<mode, seq, msgq, caches, base, node_reboots, history>>

\* What the others advertise.
OnAir(n) == {advertised[m] : m \in Nodes \ {n}} \cup {on_air}

HearSample(n, p) ==
    /\ p.origin # n
    /\ ~SensorCache!contains(seen_sensor[n], p)
    /\ seen_sensor' = [seen_sensor EXCEPT ![n] = SensorCache!check_and_add(@, p)]
    /\ IF mode[n] = "normal" THEN k_msgq_put(n, p) ELSE UNCHANGED msgq
    /\ UNCHANGED <<mode, seq, seen_command, advertised, base, node_reboots, history>>

BadHearCommandRelaysAgain(n, p) ==
    /\ heard' = [heard EXCEPT ![n] = @ \cup {p}]
    /\ k_msgq_put(n, p)
    /\ IF CommandCache!contains(seen_command[n], Key(p))
       THEN UNCHANGED <<mode, seen_command, obeyed>>
       ELSE /\ seen_command' = [seen_command EXCEPT ![n] =
                                    CommandCache!check_and_add(@, Key(p))]
            /\ mode' = [mode EXCEPT ![n] =
                            IF p.cmd = CMD_MEASURE THEN "normal" ELSE "low_power"]
            /\ obeyed' = [obeyed EXCEPT ![n][p] = IF @ < 2 THEN @ + 1 ELSE 2]
    /\ UNCHANGED <<seq, seen_sensor, advertised, base, node_reboots>>

\* A command is remembered by its key; a new one is relayed and obeyed.
HearCommand(n, p) ==
    /\ heard' = [heard EXCEPT ![n] = @ \cup {p}]
    /\ IF CommandCache!contains(seen_command[n], Key(p))
       THEN UNCHANGED <<mode, msgq, seen_command, obeyed>>
       ELSE /\ seen_command' = [seen_command EXCEPT ![n] =
                                    CommandCache!check_and_add(@, Key(p))]
            /\ k_msgq_put(n, p)
            /\ mode' = [mode EXCEPT ![n] =
                            IF p.cmd = CMD_MEASURE THEN "normal" ELSE "low_power"]
            /\ obeyed' = [obeyed EXCEPT ![n][p] = IF @ < 2 THEN @ + 1 ELSE 2]
    /\ UNCHANGED <<seq, seen_sensor, advertised, base, node_reboots>>

device_found(n) ==
    \E p \in OnAir(n) \ {NoPacket} :
        IF IsSample(p) THEN HearSample(n, p) ELSE HearCommand(n, p)

\* Everything is in RAM: the watchdog or a power cut starts a node from nothing.
NodeReboots(n) ==
    /\ node_reboots < MAX_NODE_REBOOTS /\ node_reboots' = node_reboots + 1
    /\ mode' = [mode EXCEPT ![n] = "normal"]
    /\ seq' = [seq EXCEPT ![n] = 0]
    /\ msgq' = [msgq EXCEPT ![n] = <<>>]
    /\ seen_sensor' = [seen_sensor EXCEPT ![n] = SensorCache!Empty]
    /\ seen_command' = [seen_command EXCEPT ![n] = CommandCache!Empty]
    /\ advertised' = [advertised EXCEPT ![n] = NoPacket]
    /\ heard' = [heard EXCEPT ![n] = {}]
    /\ obeyed' = [obeyed EXCEPT ![n] = [p \in Broadcast |-> 0]]
    /\ UNCHANGED base

-----------------------------------------------------------------------------
(* The mobile node.                                                        *)

\* proc_thread takes a command that the base node sent.
Order(cmd) ==
    /\ mobile.left = 0 /\ on_air = NoPacket
    /\ orders < MAX_ORDERS
    /\ orders' = orders + 1
    /\ mobile' = [mobile EXCEPT !.cmd = cmd, !.left = CMD_BROADCAST_COUNT]
    /\ UNCHANGED <<mode, seq, msgq, caches, advertised, on_air, node_reboots, history>>

BadStartSameNumber ==
    /\ mobile.left > 0 /\ on_air = NoPacket
    /\ mobile' = [mobile EXCEPT !.left = @ - 1]
    /\ on_air' = [seq |-> 0, cmd |-> mobile.cmd, order |-> orders]
    /\ UNCHANGED <<mode, seq, msgq, caches, advertised, orders, node_reboots, history>>

\* Each repetition has a number of its own, used up also when the advertiser is taken
\* and the rest of the broadcast is given up.
StartBroadcast ==
    /\ mobile.left > 0 /\ on_air = NoPacket
    /\ \/ /\ on_air' = [seq |-> mobile.seq, cmd |-> mobile.cmd, order |-> orders]
          /\ mobile' = [mobile EXCEPT !.seq = (@ + 1) % SEQ_MOD, !.left = @ - 1]
       \/ /\ mobile' = [mobile EXCEPT !.seq = (@ + 1) % SEQ_MOD, !.left = 0]
          /\ UNCHANGED on_air
    /\ UNCHANGED <<mode, seq, msgq, caches, advertised, orders, node_reboots, history>>

StopBroadcast ==
    /\ on_air # NoPacket
    /\ on_air' = NoPacket
    /\ UNCHANGED <<mode, seq, msgq, caches, advertised, mobile, orders, node_reboots, history>>

\* The counter starts again; what was to be broadcast is lost.
MobileReboots ==
    /\ mobile.reboots < MAX_MOBILE_REBOOTS
    /\ mobile' = [mobile EXCEPT !.seq = 0, !.left = 0, !.reboots = @ + 1]
    /\ on_air' = NoPacket
    /\ UNCHANGED <<mode, seq, msgq, caches, advertised, orders, node_reboots, history>>

-----------------------------------------------------------------------------
Init ==
    /\ mode = [n \in Nodes |-> "normal"]
    /\ seq = [n \in Nodes |-> 0]
    /\ msgq = [n \in Nodes |-> <<>>]
    /\ seen_sensor = [n \in Nodes |-> SensorCache!Empty]
    /\ seen_command = [n \in Nodes |-> CommandCache!Empty]
    /\ advertised = [n \in Nodes |-> NoPacket]
    /\ mobile = [seq |-> 0, cmd |-> CMD_MEASURE, left |-> 0, reboots |-> 0]
    /\ on_air = NoPacket
    /\ orders = 0
    /\ node_reboots = 0
    /\ heard = [n \in Nodes |-> {}]
    /\ obeyed = [n \in Nodes |-> [p \in Broadcast |-> 0]]

Next ==
    \/ \E n \in Nodes :
          NodeSamples(n) \/ Relay(n) \/ StopAdvertising(n) \/ device_found(n) \/ NodeReboots(n)
    \/ \E cmd \in Cmds : Order(cmd)
    \/ StartBroadcast \/ StopBroadcast \/ MobileReboots

Spec == Init /\ [][Next]_vars

\* Each node's flood_thread runs.
FairSpec == Spec /\ \A n \in Nodes : WF_vars(Relay(n))

-----------------------------------------------------------------------------
\* A command that a node hears, directly or from a relay, it obeys: what it takes for
\* a repeat of an earlier one is a repeat. (Until the numbers start again, by a wrap or
\* by a reboot of the mobile node: WakeIsObeyed.)
HeardIsObeyed ==
    (orders * CMD_BROADCAST_COUNT <= SEQ_MOD /\ mobile.reboots = 0) =>
        \A n \in Nodes : \A p \in heard[n] : obeyed[n][p] > 0

\* A wake command that reaches a node for the first time puts it in normal mode.
WakeIsObeyed ==
    [][\A n \in Nodes : \A p \in heard'[n] \ heard[n] :
          p.cmd = CMD_MEASURE => mode'[n] = "normal"]_vars

\* What a node could tell apart of the commands it has heard since it started.
KeysHeard(n) == {Key(p) : p \in heard[n]}

\* However often the mesh brings a command back, a node obeys it once: a relayed SLEEP
\* can put a node to sleep after a later MEASURE, but it cannot go on doing so. (Until
\* the node has heard more commands than its cache holds and forgets the oldest.)
ObeyedOnce ==
    \A n \in Nodes :
        Cardinality(KeysHeard(n)) <= SEEN_COMMAND_CACHE_SIZE =>
            \A p \in Broadcast : obeyed[n][p] <= 1

\* The flood ends: when no more samples are taken and no more commands ordered, each
\* node has relayed what there is to relay, and packets do not go round in circles.
FloodEnds == <>[](\A n \in Nodes : msgq[n] = <<>>)

\* Each node's caches remember what SeenWindow promises: as refinements, one for each
\* cache of each node.
SampleWindow(n) ==
    INSTANCE SeenWindow WITH recent <- SensorCache!OldestFirst(seen_sensor[n]),
                             SIZE <- SEEN_SENSOR_CACHE_SIZE, Packets <- Sample
CommandWindow(n) ==
    INSTANCE SeenWindow WITH recent <- CommandCache!OldestFirst(seen_command[n]),
                             SIZE <- SEEN_COMMAND_CACHE_SIZE, Packets <- Keys
ForgetsOldest ==
    /\ \A n \in Nodes : SampleWindow(n)!Init /\ CommandWindow(n)!Init
    /\ [][\A n \in Nodes : SampleWindow(n)!Step /\ CommandWindow(n)!Step]_vars

\* Each node is a MeshNode, for which the order of a command does not exist.
Shown(p) == IF p = NoPacket \/ IsSample(p) THEN p ELSE Key(p)
Owed(n, k) == Cardinality({i \in DOMAIN msgq[n] : Shown(msgq[n][i]) = k})
MeshNode(n) ==
    INSTANCE MeshNode WITH
        Samples <- Sample, Own <- {p \in Sample : p.origin = n},
        Commands <- Keys,
        Sleeps <- {k \in Keys : k.cmd = CMD_SLEEP}, Wakes <- {k \in Keys : k.cmd = CMD_MEASURE},
        SAMPLES_KEPT <- SEEN_SENSOR_CACHE_SIZE, COMMANDS_KEPT <- SEEN_COMMAND_CACHE_SIZE,
        Nothing <- NoPacket,
        mode <- mode[n],
        samples <- SensorCache!OldestFirst(seen_sensor[n]),
        commands <- CommandCache!OldestFirst(seen_command[n]),
        owed <- [k \in Sample \cup Keys |-> Owed(n, k)],
        advertised <- Shown(advertised[n])
NodesAreMeshNodes ==
    /\ \A n \in Nodes : MeshNode(n)!Init
    /\ [][\A n \in Nodes : MeshNode(n)!Step]_vars
=============================================================================
