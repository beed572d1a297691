--------------------------- MODULE FloodMeshProofs ---------------------------
(***************************************************************************)
(* Theorems about FloodMesh, for every number of nodes, depth of queues    *)
(* and size of caches: its type invariant; that each cache of each node    *)
(* implements SeenWindow; that a command heard is obeyed for as long as    *)
(* the numbers of commands have not started again; that it is obeyed once; *)
(* and that each node implements MeshNode.                                 *)
(***************************************************************************)
EXTENDS FloodMesh, QueueProofs, TLAPS

SensorLemmas == INSTANCE SeenCacheProofs WITH SIZE <- SEEN_SENSOR_CACHE_SIZE
CommandLemmas == INSTANCE SeenCacheProofs WITH SIZE <- SEEN_COMMAND_CACHE_SIZE

SensorCaches == SensorLemmas!Reachable(Sample)
CommandCaches == CommandLemmas!Reachable(Keys)

-----------------------------------------------------------------------------
(* Packets and caches.                                                     *)

\* Packets and what is no packet can be told apart.
LEMMA PacketKinds ==
    /\ NoPacket \notin Packet
    /\ NoPacket \notin Sample
    /\ NoPacket \notin Broadcast
    /\ NoPacket \notin Keys
    /\ \A p \in Sample : IsSample(p)
    /\ \A p \in Broadcast : ~IsSample(p) /\ Key(p) \in Keys
<1>1. \A p \in Sample : DOMAIN p = {"origin", "seq"}
  BY DEF Sample
<1>2. \A p \in Broadcast : DOMAIN p = {"seq", "cmd", "order"}
  BY DEF Broadcast
<1>3. \A p \in Keys : DOMAIN p = {"seq", "cmd"}
  BY DEF Keys
<1>4. DOMAIN NoPacket = {}
  BY DEF NoPacket, SensorCache!NoPacket
<1> QED
  BY <1>1, <1>2, <1>3, <1>4 DEF Packet, IsSample, Key, Broadcast, Keys

\* The operators that the lemmas are about are those of FloodMesh.
LEMMA SameSensorOperators ==
    /\ SensorCache!Empty = SensorLemmas!Empty
    /\ \A c : SensorCache!OldestFirst(c) = SensorLemmas!OldestFirst(c)
    /\ \A c, p : SensorCache!check_and_add(c, p) = SensorLemmas!check_and_add(c, p)
BY DEF SensorCache!Empty, SensorLemmas!Empty, SensorCache!OldestFirst,
       SensorLemmas!OldestFirst, SensorCache!check_and_add, SensorLemmas!check_and_add,
       SensorCache!contains, SensorLemmas!contains, SensorCache!add, SensorLemmas!add,
       SensorCache!Full, SensorLemmas!Full, SensorCache!InCircle, SensorLemmas!InCircle,
       SensorCache!Slots, SensorLemmas!Slots, SensorCache!NoPacket, SensorLemmas!NoPacket

LEMMA SameCommandOperators ==
    /\ CommandCache!Empty = CommandLemmas!Empty
    /\ \A c : CommandCache!OldestFirst(c) = CommandLemmas!OldestFirst(c)
    /\ \A c, p : CommandCache!check_and_add(c, p) = CommandLemmas!check_and_add(c, p)
BY DEF CommandCache!Empty, CommandLemmas!Empty, CommandCache!OldestFirst,
       CommandLemmas!OldestFirst, CommandCache!check_and_add, CommandLemmas!check_and_add,
       CommandCache!contains, CommandLemmas!contains, CommandCache!add, CommandLemmas!add,
       CommandCache!Full, CommandLemmas!Full, CommandCache!InCircle, CommandLemmas!InCircle,
       CommandCache!Slots, CommandLemmas!Slots, CommandCache!NoPacket, CommandLemmas!NoPacket

\* A cache, and the window it stands for, after a call of check_and_add.
LEMMA SensorCacheStep ==
    ASSUME NEW cache \in SensorCaches, NEW p \in Sample
    PROVE  /\ SensorCache!check_and_add(cache, p) \in SensorCaches
           /\ SensorLemmas!Remembers(SensorCache!OldestFirst(cache),
                  SensorCache!OldestFirst(SensorCache!check_and_add(cache, p)), p)
<1>1. SensorLemmas!NoPacket \notin Sample
  BY PacketKinds DEF NoPacket, SensorCache!NoPacket, SensorLemmas!NoPacket
<1>2. /\ SensorLemmas!check_and_add(cache, p) \in SensorCaches
      /\ SensorLemmas!Remembers(SensorLemmas!OldestFirst(cache),
             SensorLemmas!OldestFirst(SensorLemmas!check_and_add(cache, p)), p)
  BY <1>1, FloodMeshAssumption, SensorLemmas!CheckAndAdd DEF SensorCaches
<1> QED BY <1>2, SameSensorOperators

LEMMA CommandCacheStep ==
    ASSUME NEW cache \in CommandCaches, NEW p \in Keys
    PROVE  /\ CommandCache!check_and_add(cache, p) \in CommandCaches
           /\ CommandLemmas!Remembers(CommandCache!OldestFirst(cache),
                  CommandCache!OldestFirst(CommandCache!check_and_add(cache, p)), p)
<1>1. CommandLemmas!NoPacket \notin Keys
  BY PacketKinds DEF NoPacket, SensorCache!NoPacket, CommandLemmas!NoPacket
<1>2. /\ CommandLemmas!check_and_add(cache, p) \in CommandCaches
      /\ CommandLemmas!Remembers(CommandLemmas!OldestFirst(cache),
             CommandLemmas!OldestFirst(CommandLemmas!check_and_add(cache, p)), p)
  BY <1>1, FloodMeshAssumption, CommandLemmas!CheckAndAdd DEF CommandCaches
<1> QED BY <1>2, SameCommandOperators

\* What a cache contains is what its window holds; and what it does not, check_and_add
\* puts there.
LEMMA SensorContents ==
    ASSUME NEW cache \in SensorCaches, NEW p \in Sample
    PROVE  LET recent == SensorCache!OldestFirst(cache)
               after == SensorCache!OldestFirst(SensorCache!check_and_add(cache, p))
           IN  /\ SensorCache!contains(cache, p) =>
                      p \in {recent[i] : i \in DOMAIN recent}
               /\ ~SensorCache!contains(cache, p) =>
                      /\ p \notin {recent[i] : i \in DOMAIN recent}
                      /\ after = IF Len(recent) < SEEN_SENSOR_CACHE_SIZE
                                 THEN Append(recent, p) ELSE Append(Tail(recent), p)
<1>1. SensorLemmas!NoPacket \notin Sample
  BY PacketKinds DEF NoPacket, SensorCache!NoPacket, SensorLemmas!NoPacket
<1>2. SensorCache!contains(cache, p) <=> SensorLemmas!contains(cache, p)
  BY DEF SensorCache!contains, SensorLemmas!contains, SensorCache!Slots, SensorLemmas!Slots
<1>3. CASE SensorCache!contains(cache, p)
  <2>1. p \in {SensorLemmas!OldestFirst(cache)[i] : i \in DOMAIN SensorLemmas!OldestFirst(cache)}
    BY <1>1, <1>2, <1>3, FloodMeshAssumption, SensorLemmas!ContainsWindow DEF SensorCaches
  <2> QED BY <1>3, <2>1, SameSensorOperators
<1>4. CASE ~SensorCache!contains(cache, p)
  <2> DEFINE recent == SensorLemmas!OldestFirst(cache)
  <2>1. /\ p \notin {recent[i] : i \in DOMAIN recent}
        /\ SensorLemmas!OldestFirst(SensorLemmas!check_and_add(cache, p)) =
               IF Len(recent) < SEEN_SENSOR_CACHE_SIZE
               THEN Append(recent, p) ELSE Append(Tail(recent), p)
    BY <1>1, <1>2, <1>4, FloodMeshAssumption, SensorLemmas!NewIsRemembered DEF SensorCaches
  <2> QED BY <1>4, <2>1, SameSensorOperators
<1> QED BY <1>3, <1>4

LEMMA CommandContents ==
    ASSUME NEW cache \in CommandCaches, NEW p \in Keys
    PROVE  LET recent == CommandCache!OldestFirst(cache)
               after == CommandCache!OldestFirst(CommandCache!check_and_add(cache, p))
           IN  /\ CommandCache!contains(cache, p) =>
                      p \in {recent[i] : i \in DOMAIN recent}
               /\ ~CommandCache!contains(cache, p) =>
                      /\ p \notin {recent[i] : i \in DOMAIN recent}
                      /\ after = IF Len(recent) < SEEN_COMMAND_CACHE_SIZE
                                 THEN Append(recent, p) ELSE Append(Tail(recent), p)
<1>1. CommandLemmas!NoPacket \notin Keys
  BY PacketKinds DEF NoPacket, SensorCache!NoPacket, CommandLemmas!NoPacket
<1>2. CommandCache!contains(cache, p) <=> CommandLemmas!contains(cache, p)
  BY DEF CommandCache!contains, CommandLemmas!contains, CommandCache!Slots, CommandLemmas!Slots
<1>3. CASE CommandCache!contains(cache, p)
  <2>1. p \in {CommandLemmas!OldestFirst(cache)[i] : i \in DOMAIN CommandLemmas!OldestFirst(cache)}
    BY <1>1, <1>2, <1>3, FloodMeshAssumption, CommandLemmas!ContainsWindow DEF CommandCaches
  <2> QED BY <1>3, <2>1, SameCommandOperators
<1>4. CASE ~CommandCache!contains(cache, p)
  <2> DEFINE recent == CommandLemmas!OldestFirst(cache)
  <2>1. /\ p \notin {recent[i] : i \in DOMAIN recent}
        /\ CommandLemmas!OldestFirst(CommandLemmas!check_and_add(cache, p)) =
               IF Len(recent) < SEEN_COMMAND_CACHE_SIZE
               THEN Append(recent, p) ELSE Append(Tail(recent), p)
    BY <1>1, <1>2, <1>4, FloodMeshAssumption, CommandLemmas!NewIsRemembered DEF CommandCaches
  <2> QED BY <1>4, <2>1, SameCommandOperators
<1> QED BY <1>3, <1>4

\* What the caches are when a node starts.
LEMMA EmptyCaches ==
    /\ SensorCache!Empty \in SensorCaches /\ SensorCache!OldestFirst(SensorCache!Empty) = <<>>
    /\ CommandCache!Empty \in CommandCaches
    /\ CommandCache!OldestFirst(CommandCache!Empty) = <<>>
<1>1. /\ SensorLemmas!Empty \in SensorCaches
      /\ SensorLemmas!OldestFirst(SensorLemmas!Empty) = <<>>
  BY FloodMeshAssumption, SensorLemmas!EmptyReachable DEF SensorCaches
<1>2. /\ CommandLemmas!Empty \in CommandCaches
      /\ CommandLemmas!OldestFirst(CommandLemmas!Empty) = <<>>
  BY FloodMeshAssumption, CommandLemmas!EmptyReachable DEF CommandCaches
<1> QED BY <1>1, <1>2, SameSensorOperators, SameCommandOperators

-----------------------------------------------------------------------------
(* Type correctness.                                                       *)

\* Inductive: the caches are moreover such as the operations build them, and something
\* is left to broadcast only of a command that was ordered.
TypeInv ==
    /\ TypeOK
    /\ seen_sensor \in [Nodes -> SensorCaches]
    /\ seen_command \in [Nodes -> CommandCaches]
    /\ mobile.left > 0 => orders > 0

\* The caches of TypeInv are caches.
LEMMA CachesReachable ==
    /\ SensorCaches \subseteq SensorCache!Caches(Sample)
    /\ CommandCaches \subseteq CommandCache!Caches(Keys)
BY DEF SensorCaches, CommandCaches, SensorLemmas!Reachable, CommandLemmas!Reachable,
       SensorCache!Caches, SensorLemmas!Caches, CommandCache!Caches, CommandLemmas!Caches,
       SensorCache!Slots, SensorLemmas!Slots, CommandCache!Slots, CommandLemmas!Slots,
       SensorCache!NoPacket, SensorLemmas!NoPacket, CommandCache!NoPacket,
       CommandLemmas!NoPacket

\* k_msgq_put keeps the queues' shape and bound.
LEMMA PutTyped ==
    ASSUME NEW n \in Nodes, NEW p \in Packet, TypeOK, k_msgq_put(n, p)
    PROVE  /\ msgq' \in [Nodes -> Seq(Packet)]
           /\ \A m \in Nodes : Len(msgq'[m]) <= FLOOD_QUEUE_SIZE
<1>1. /\ msgq \in [Nodes -> Seq(Packet)]
      /\ \A m \in Nodes : Len(msgq[m]) <= FLOOD_QUEUE_SIZE
      /\ FLOOD_QUEUE_SIZE \in Nat
  BY FloodMeshAssumption DEF TypeOK
<1>2. CASE msgq' = msgq
  BY <1>1, <1>2
<1>3. CASE msgq' = [msgq EXCEPT ![n] = Append(msgq[n], p)] /\ Len(msgq[n]) < FLOOD_QUEUE_SIZE
  <2>1. /\ Append(msgq[n], p) \in Seq(Packet)
        /\ Len(Append(msgq[n], p)) <= FLOOD_QUEUE_SIZE
    BY <1>1, <1>3
  <2> QED BY <1>1, <1>3, <2>1
<1> QED BY <1>2, <1>3 DEF k_msgq_put

LEMMA TypeInit == Init => TypeInv
<1> SUFFICES ASSUME Init PROVE TypeInv
  OBVIOUS
<1>1. seen_sensor \in [Nodes -> SensorCaches] /\ seen_command \in [Nodes -> CommandCaches]
  BY EmptyCaches DEF Init
<1>2. seen_sensor \in [Nodes -> SensorCache!Caches(Sample)]
      /\ seen_command \in [Nodes -> CommandCache!Caches(Keys)]
  BY <1>1, CachesReachable
<1>3. mobile \in [seq : Seqs, cmd : Cmds, left : 0 .. CMD_BROADCAST_COUNT,
                  reboots : 0 .. MAX_MOBILE_REBOOTS]
  BY FloodMeshAssumption DEF Init, Seqs, Cmds
<1>4. obeyed \in [Nodes -> [Broadcast -> 0 .. 2]]
  BY DEF Init
<1> QED
  BY <1>1, <1>2, <1>3, <1>4, FloodMeshAssumption DEF TypeInv, TypeOK, Init

LEMMA TypeNext == TypeInv /\ [Next]_vars => TypeInv'
<1> SUFFICES ASSUME TypeInv, [Next]_vars PROVE TypeInv'
  OBVIOUS
<1> USE FloodMeshAssumption DEF TypeInv
<1>0. CMD_BROADCAST_COUNT \in Nat \ {0} /\ SEQ_MOD \in Nat \ {0} /\ MAX_ORDERS \in Nat
  OBVIOUS
<1>1. ASSUME NEW n \in Nodes, NodeSamples(n) PROVE TypeInv'
  <2> DEFINE sample == [origin |-> n, seq |-> seq'[n]]
  <2>1. seq' \in [Nodes -> 0 .. MAX_SAMPLES] /\ sample \in Sample
    BY <1>1 DEF NodeSamples, TypeOK, Sample
  <2>2. seen_sensor' \in [Nodes -> SensorCaches]
    BY <1>1, <2>1, SensorCacheStep DEF NodeSamples
  <2>3. /\ msgq' \in [Nodes -> Seq(Packet)]
        /\ \A m \in Nodes : Len(msgq'[m]) <= FLOOD_QUEUE_SIZE
    BY <1>1, <2>1, PutTyped DEF NodeSamples, Packet
  <2>4. seen_sensor' \in [Nodes -> SensorCache!Caches(Sample)]
    BY <2>2, CachesReachable
  <2> QED
    BY <1>1, <2>1, <2>2, <2>3, <2>4 DEF NodeSamples, TypeOK, base, history
<1>2. ASSUME NEW n \in Nodes, Relay(n) PROVE TypeInv'
  <2>1. /\ Head(msgq[n]) \in Packet
        /\ msgq' \in [Nodes -> Seq(Packet)]
        /\ \A m \in Nodes : Len(msgq'[m]) <= FLOOD_QUEUE_SIZE
    BY <1>2 DEF Relay, TypeOK
  <2>2. advertised' \in [Nodes -> Packet \cup {NoPacket}]
    BY <1>2, <2>1 DEF Relay, TypeOK
  <2> QED
    BY <1>2, <2>1, <2>2 DEF Relay, TypeOK, caches, base, history
<1>3. ASSUME NEW n \in Nodes, StopAdvertising(n) PROVE TypeInv'
  BY <1>3 DEF StopAdvertising, TypeOK, caches, base, history
<1>4. ASSUME NEW n \in Nodes, device_found(n) PROVE TypeInv'
  <2>1. PICK p \in OnAir(n) \ {NoPacket} :
            IF IsSample(p) THEN HearSample(n, p) ELSE HearCommand(n, p)
    BY <1>4 DEF device_found
  <2>2. p \in Packet
    BY <1>4 DEF OnAir, TypeOK, Packet
  <2>3. CASE IsSample(p)
    <3>1. p \in Sample /\ HearSample(n, p)
      BY <2>1, <2>2, <2>3, PacketKinds DEF Packet
    <3>2. seen_sensor' \in [Nodes -> SensorCaches]
      BY <3>1, SensorCacheStep DEF HearSample
    <3>3. /\ msgq' \in [Nodes -> Seq(Packet)]
          /\ \A m \in Nodes : Len(msgq'[m]) <= FLOOD_QUEUE_SIZE
      <4>1. CASE mode[n] = "normal"
        BY <4>1, <3>1, <2>2, PutTyped DEF HearSample
      <4>2. CASE mode[n] # "normal"
        BY <4>2, <3>1 DEF HearSample, TypeOK
      <4> QED BY <4>1, <4>2
    <3>4. seen_sensor' \in [Nodes -> SensorCache!Caches(Sample)]
      BY <3>2, CachesReachable
    <3> QED
      BY <3>1, <3>2, <3>3, <3>4 DEF HearSample, TypeOK, base, history
  <2>4. CASE ~IsSample(p)
    <3>1. p \in Broadcast /\ Key(p) \in Keys /\ HearCommand(n, p)
      BY <2>1, <2>2, <2>4, PacketKinds DEF Packet
    <3>2. heard' \in [Nodes -> SUBSET Broadcast]
      BY <3>1 DEF HearCommand, TypeOK
    <3>3. CASE CommandCache!contains(seen_command[n], Key(p))
      BY <3>1, <3>2, <3>3 DEF HearCommand, TypeOK, base
    <3>4. CASE ~CommandCache!contains(seen_command[n], Key(p))
      <4>1. seen_command' \in [Nodes -> CommandCaches]
        BY <3>1, <3>4, CommandCacheStep DEF HearCommand
      <4>2. seen_command' \in [Nodes -> CommandCache!Caches(Keys)]
        BY <4>1, CachesReachable
      <4>3. /\ msgq' \in [Nodes -> Seq(Packet)]
            /\ \A m \in Nodes : Len(msgq'[m]) <= FLOOD_QUEUE_SIZE
        BY <3>1, <3>4, <2>2, PutTyped DEF HearCommand
      <4>4. mode' \in [Nodes -> {"normal", "low_power"}]
        BY <3>1, <3>4 DEF HearCommand, TypeOK
      <4>5. obeyed' \in [Nodes -> [Broadcast -> 0 .. 2]]
        <5> DEFINE count == IF obeyed[n][p] < 2 THEN obeyed[n][p] + 1 ELSE 2
        <5>1. obeyed' = [obeyed EXCEPT ![n] = [obeyed[n] EXCEPT ![p] = count]]
          BY <3>1, <3>4 DEF HearCommand
        <5>2. obeyed[n] \in [Broadcast -> 0 .. 2]
          BY DEF TypeOK
        <5>3. count \in 0 .. 2
          BY <5>2, <3>1
        <5>4. [obeyed[n] EXCEPT ![p] = count] \in [Broadcast -> 0 .. 2]
          BY <5>2, <5>3
        <5> HIDE DEF count
        <5> QED BY <5>1, <5>4 DEF TypeOK
      <4> QED
        BY <3>1, <3>2, <4>1, <4>2, <4>3, <4>4, <4>5 DEF HearCommand, TypeOK, base
    <3> QED BY <3>3, <3>4
  <2> QED BY <2>3, <2>4
<1>5. ASSUME NEW n \in Nodes, NodeReboots(n) PROVE TypeInv'
  <2>1. /\ seen_sensor' \in [Nodes -> SensorCaches]
        /\ seen_command' \in [Nodes -> CommandCaches]
    BY <1>5, EmptyCaches DEF NodeReboots
  <2>2. /\ seen_sensor' \in [Nodes -> SensorCache!Caches(Sample)]
        /\ seen_command' \in [Nodes -> CommandCache!Caches(Keys)]
    BY <2>1, CachesReachable
  <2>3. /\ msgq' \in [Nodes -> Seq(Packet)]
        /\ \A m \in Nodes : Len(msgq'[m]) <= FLOOD_QUEUE_SIZE
    BY <1>5 DEF NodeReboots, TypeOK
  <2>4. /\ heard' \in [Nodes -> SUBSET Broadcast]
        /\ obeyed' \in [Nodes -> [Broadcast -> 0 .. 2]]
    BY <1>5 DEF NodeReboots, TypeOK
  <2> QED
    BY <1>5, <2>1, <2>2, <2>3, <2>4 DEF NodeReboots, TypeOK, base
<1>6. ASSUME NEW cmd \in Cmds, Order(cmd) PROVE TypeInv'
  <2>1. orders' \in 0 .. MAX_ORDERS /\ orders' > 0
    BY <1>0, <1>6 DEF Order, TypeOK
  <2>2. mobile' \in [seq : Seqs, cmd : Cmds, left : 0 .. CMD_BROADCAST_COUNT,
                     reboots : 0 .. MAX_MOBILE_REBOOTS]
    <3>1. mobile' = [mobile EXCEPT !.cmd = cmd, !.left = CMD_BROADCAST_COUNT]
      BY <1>6 DEF Order
    <3>2. CMD_BROADCAST_COUNT \in 0 .. CMD_BROADCAST_COUNT
      BY <1>0
    <3>3. mobile \in [seq : Seqs, cmd : Cmds, left : 0 .. CMD_BROADCAST_COUNT,
                      reboots : 0 .. MAX_MOBILE_REBOOTS]
      BY DEF TypeOK
    <3> QED BY ONLY <3>1, <3>2, <3>3, cmd \in Cmds
  <2> QED
    BY <1>6, <2>1, <2>2 DEF Order, TypeOK, caches, history
<1>7. CASE StartBroadcast
  <2>1. [seq |-> mobile.seq, cmd |-> mobile.cmd, order |-> orders] \in Broadcast
    BY <1>0, <1>7 DEF StartBroadcast, TypeOK, Broadcast
  <2>2. on_air' \in Broadcast \cup {NoPacket}
    BY <1>7, <2>1 DEF StartBroadcast, TypeOK
  <2>3. (mobile.seq + 1) % SEQ_MOD \in Seqs
    BY <1>0 DEF TypeOK, Seqs
  <2>4. mobile.left - 1 \in 0 .. CMD_BROADCAST_COUNT /\ 0 \in 0 .. CMD_BROADCAST_COUNT
    BY <1>0, <1>7 DEF StartBroadcast, TypeOK
  <2>5. mobile' \in [seq : Seqs, cmd : Cmds, left : 0 .. CMD_BROADCAST_COUNT,
                     reboots : 0 .. MAX_MOBILE_REBOOTS]
    BY <1>7, <2>3, <2>4 DEF StartBroadcast, TypeOK
  <2>6. orders > 0 /\ orders' = orders
    BY <1>7 DEF StartBroadcast
  <2> QED
    BY <1>7, <2>2, <2>5, <2>6 DEF StartBroadcast, TypeOK, caches, history
<1>8. CASE StopBroadcast
  BY <1>8 DEF StopBroadcast, TypeOK, caches, history
<1>9. CASE MobileReboots
  <2>1. 0 \in Seqs /\ 0 \in 0 .. CMD_BROADCAST_COUNT
    BY <1>0 DEF Seqs
  <2>2. mobile.reboots + 1 \in 0 .. MAX_MOBILE_REBOOTS
    BY <1>9 DEF MobileReboots, TypeOK
  <2>3. mobile' \in [seq : Seqs, cmd : Cmds, left : 0 .. CMD_BROADCAST_COUNT,
                     reboots : 0 .. MAX_MOBILE_REBOOTS] /\ mobile'.left = 0
    BY <1>9, <2>1, <2>2 DEF MobileReboots, TypeOK
  <2> QED
    BY <1>9, <2>3 DEF MobileReboots, TypeOK, caches, history
<1>10. CASE UNCHANGED vars
  BY <1>10 DEF vars, TypeOK, caches, base, history
<1> QED
  BY <1>1, <1>2, <1>3, <1>4, <1>5, <1>6, <1>7, <1>8, <1>9, <1>10 DEF Next

\* Queues keep their bound, numbers their range, caches their shape, in every node of
\* every mesh and whatever reboots.
THEOREM TypeCorrect == Spec => []TypeOK
<1>1. TypeInv => TypeOK
  BY DEF TypeInv
<1> QED
  BY <1>1, TypeInit, TypeNext, PTL DEF Spec

-----------------------------------------------------------------------------
(* The caches implement SeenWindow.                                        *)

\* What SeenWindow allows a step to do, read off the caches.
LEMMA WindowSteps ==
    ASSUME NEW n \in Nodes
    PROVE  /\ \A p \in Sample :
                 SensorLemmas!Remembers(SensorCache!OldestFirst(seen_sensor[n]),
                     SensorCache!OldestFirst(seen_sensor[n])', p) => SampleWindow(n)!Step
           /\ SensorCache!OldestFirst(seen_sensor[n])' = <<>> => SampleWindow(n)!Step
           /\ seen_sensor'[n] = seen_sensor[n] => SampleWindow(n)!Step
           /\ \A p \in Keys :
                 CommandLemmas!Remembers(CommandCache!OldestFirst(seen_command[n]),
                     CommandCache!OldestFirst(seen_command[n])', p) => CommandWindow(n)!Step
           /\ CommandCache!OldestFirst(seen_command[n])' = <<>> => CommandWindow(n)!Step
           /\ seen_command'[n] = seen_command[n] => CommandWindow(n)!Step
<1>1. \A p \in Sample :
          SensorLemmas!Remembers(SensorCache!OldestFirst(seen_sensor[n]),
              SensorCache!OldestFirst(seen_sensor[n])', p) => SampleWindow(n)!Step
  BY DEF SensorLemmas!Remembers, SampleWindow!Step, SampleWindow!Next,
         SampleWindow!Remember, SampleWindow!Remembered
<1>2. SensorCache!OldestFirst(seen_sensor[n])' = <<>> => SampleWindow(n)!Step
  BY DEF SampleWindow!Step, SampleWindow!Next, SampleWindow!Reboot
<1>3. seen_sensor'[n] = seen_sensor[n] => SampleWindow(n)!Step
  BY DEF SampleWindow!Step, SensorCache!OldestFirst, SensorCache!Full
<1>4. \A p \in Keys :
          CommandLemmas!Remembers(CommandCache!OldestFirst(seen_command[n]),
              CommandCache!OldestFirst(seen_command[n])', p) => CommandWindow(n)!Step
  BY DEF CommandLemmas!Remembers, CommandWindow!Step, CommandWindow!Next,
         CommandWindow!Remember, CommandWindow!Remembered
<1>5. CommandCache!OldestFirst(seen_command[n])' = <<>> => CommandWindow(n)!Step
  BY DEF CommandWindow!Step, CommandWindow!Next, CommandWindow!Reboot
<1>6. seen_command'[n] = seen_command[n] => CommandWindow(n)!Step
  BY DEF CommandWindow!Step, CommandCache!OldestFirst, CommandCache!Full
<1> QED BY <1>1, <1>2, <1>3, <1>4, <1>5, <1>6

\* Every step of the mesh is a step, or none, of each window.
LEMMA StepsOfWindows ==
    TypeInv /\ [Next]_vars =>
        \A n \in Nodes : SampleWindow(n)!Step /\ CommandWindow(n)!Step
<1> SUFFICES ASSUME TypeInv, [Next]_vars, NEW m \in Nodes
             PROVE  SampleWindow(m)!Step /\ CommandWindow(m)!Step
  OBVIOUS
<1>1. ASSUME NEW n \in Nodes, NodeSamples(n)
      PROVE  SampleWindow(m)!Step /\ CommandWindow(m)!Step
  <2> DEFINE sample == [origin |-> n, seq |-> seq'[n]]
  <2>1. sample \in Sample
    BY <1>1, FloodMeshAssumption DEF NodeSamples, TypeInv, TypeOK, Sample
  <2>2. /\ seen_command' = seen_command
        /\ seen_sensor' = [seen_sensor EXCEPT ![n] = SensorCache!check_and_add(@, sample)]
    BY <1>1 DEF NodeSamples
  <2> HIDE DEF sample
  <2>3. seen_sensor \in [Nodes -> SensorCaches]
    BY DEF TypeInv
  <2>4. CASE m = n
    <3>1. SensorCache!OldestFirst(seen_sensor[m])' =
              SensorCache!OldestFirst(SensorCache!check_and_add(seen_sensor[m], sample))
      BY <2>2, <2>3, <2>4 DEF SensorCache!OldestFirst, SensorCache!Full
    <3> QED BY <2>1, <2>2, <2>3, <3>1, SensorCacheStep, WindowSteps
  <2>5. CASE m # n
    BY <2>2, <2>3, <2>5, WindowSteps
  <2> QED BY <2>4, <2>5
<1>2. ASSUME NEW n \in Nodes, NEW p \in Sample, HearSample(n, p)
      PROVE  SampleWindow(m)!Step /\ CommandWindow(m)!Step
  <2>1. /\ seen_command' = seen_command
        /\ seen_sensor' = [seen_sensor EXCEPT ![n] = SensorCache!check_and_add(@, p)]
    BY <1>2 DEF HearSample
  <2>2. seen_sensor \in [Nodes -> SensorCaches]
    BY DEF TypeInv
  <2>3. CASE m = n
    <3>1. SensorCache!OldestFirst(seen_sensor[m])' =
              SensorCache!OldestFirst(SensorCache!check_and_add(seen_sensor[m], p))
      BY <2>1, <2>2, <2>3 DEF SensorCache!OldestFirst, SensorCache!Full
    <3> QED BY <2>1, <2>2, <3>1, SensorCacheStep, WindowSteps
  <2>4. CASE m # n
    BY <2>1, <2>2, <2>4, WindowSteps
  <2> QED BY <2>3, <2>4
<1>3. ASSUME NEW n \in Nodes, NEW p \in Broadcast, HearCommand(n, p)
      PROVE  SampleWindow(m)!Step /\ CommandWindow(m)!Step
  <2>1. /\ seen_sensor' = seen_sensor
        /\ \/ seen_command' = seen_command
           \/ seen_command' = [seen_command EXCEPT ![n] =
                                   CommandCache!check_and_add(@, Key(p))]
    BY <1>3 DEF HearCommand
  <2>2. seen_command \in [Nodes -> CommandCaches] /\ Key(p) \in Keys
    BY PacketKinds DEF TypeInv
  <2>3. CASE seen_command'[m] = seen_command[m]
    BY <2>1, <2>3, WindowSteps
  <2>4. CASE seen_command'[m] # seen_command[m]
    <3>1. seen_command'[m] = CommandCache!check_and_add(seen_command[m], Key(p))
      BY <2>1, <2>2, <2>4
    <3>2. CommandCache!OldestFirst(seen_command[m])' =
              CommandCache!OldestFirst(CommandCache!check_and_add(seen_command[m], Key(p)))
      BY <3>1 DEF CommandCache!OldestFirst, CommandCache!Full
    <3> QED BY <2>1, <2>2, <3>2, CommandCacheStep, WindowSteps
  <2> QED BY <2>3, <2>4
<1>4. ASSUME NEW n \in Nodes, device_found(n)
      PROVE  SampleWindow(m)!Step /\ CommandWindow(m)!Step
  <2>1. PICK p \in OnAir(n) \ {NoPacket} :
            IF IsSample(p) THEN HearSample(n, p) ELSE HearCommand(n, p)
    BY <1>4 DEF device_found
  <2>2. p \in Packet
    BY DEF OnAir, TypeInv, TypeOK, Packet
  <2>3. \/ p \in Sample /\ HearSample(n, p)
        \/ p \in Broadcast /\ HearCommand(n, p)
    BY <2>1, <2>2, PacketKinds DEF Packet
  <2> QED BY <2>3, <1>2, <1>3
<1>5. ASSUME NEW n \in Nodes, NodeReboots(n)
      PROVE  SampleWindow(m)!Step /\ CommandWindow(m)!Step
  <2>1. /\ seen_sensor' = [seen_sensor EXCEPT ![n] = SensorCache!Empty]
        /\ seen_command' = [seen_command EXCEPT ![n] = CommandCache!Empty]
    BY <1>5 DEF NodeReboots
  <2>2. /\ seen_sensor \in [Nodes -> SensorCaches]
        /\ seen_command \in [Nodes -> CommandCaches]
    BY DEF TypeInv
  <2>3. CASE m = n
    <3>1. SensorCache!OldestFirst(seen_sensor[m])' = SensorCache!OldestFirst(SensorCache!Empty)
      BY <2>1, <2>2, <2>3 DEF SensorCache!OldestFirst, SensorCache!Full
    <3>2. CommandCache!OldestFirst(seen_command[m])' =
              CommandCache!OldestFirst(CommandCache!Empty)
      BY <2>1, <2>2, <2>3 DEF CommandCache!OldestFirst, CommandCache!Full
    <3> QED BY <3>1, <3>2, EmptyCaches, WindowSteps
  <2>4. CASE m # n
    BY <2>1, <2>2, <2>4, WindowSteps
  <2> QED BY <2>3, <2>4
<1>6. CASE UNCHANGED caches
  BY <1>6, WindowSteps DEF caches
<1>7. ASSUME NEW n \in Nodes, Relay(n) \/ StopAdvertising(n) PROVE UNCHANGED caches
  BY <1>7 DEF Relay, StopAdvertising
<1>8. ASSUME NEW cmd \in Cmds, Order(cmd) PROVE UNCHANGED caches
  BY <1>8 DEF Order
<1>9. CASE StartBroadcast \/ StopBroadcast \/ MobileReboots \/ UNCHANGED vars
  <2>1. UNCHANGED caches
    BY <1>9 DEF StartBroadcast, StopBroadcast, MobileReboots, vars
  <2> QED BY <2>1, <1>6
<1> QED
  BY <1>1, <1>4, <1>5, <1>6, <1>7, <1>8, <1>9 DEF Next

\* Each cache of each node implements SeenWindow: it forgets nothing but the packet it
\* has remembered longest, and that only to make room for a new one, or in a reboot.
THEOREM CachesAreWindows == Spec => ForgetsOldest
<1>1. Init => \A n \in Nodes : SampleWindow(n)!Init /\ CommandWindow(n)!Init
  <2> SUFFICES ASSUME Init, NEW n \in Nodes
               PROVE  SampleWindow(n)!Init /\ CommandWindow(n)!Init
    OBVIOUS
  <2>1. seen_sensor[n] = SensorCache!Empty /\ seen_command[n] = CommandCache!Empty
    BY DEF Init
  <2> QED BY <2>1, EmptyCaches DEF SampleWindow!Init, CommandWindow!Init
<1>2. TypeInv /\ [Next]_vars =>
          [\A n \in Nodes : SampleWindow(n)!Step /\ CommandWindow(n)!Step]_vars
  BY StepsOfWindows
<1> QED
  BY <1>1, <1>2, TypeInit, TypeNext, PTL DEF Spec, ForgetsOldest

-----------------------------------------------------------------------------
(* Commands heard are obeyed.                                              *)

\* Broadcasts that the orders so far allow.
Budget == orders * CMD_BROADCAST_COUNT

\* The numbers have not started again.
Unrepeated == Budget <= SEQ_MOD /\ mobile.reboots = 0

\* p is still somewhere: on the air, relayed, queued, or in what a node has heard.
Afoot(p) ==
    \/ p = on_air
    \/ \E n \in Nodes :
          \/ p = advertised[n]
          \/ p \in heard[n]
          \/ \E i \in 1 .. Len(msgq[n]) : p = msgq[n][i]

UsedUp == mobile.left = 0 /\ SEQ_MOD <= Budget

\* There is a number of its own for everything that is still to be broadcast.
NumbersLeft == UsedUp \/ mobile.seq + mobile.left <= Budget

\* What is afoot has a number used before, and the number tells it from all else.
NumbersTell ==
    /\ \A p \in Broadcast : Afoot(p) => UsedUp \/ p.seq < mobile.seq
    /\ \A p, q \in Broadcast : Afoot(p) /\ Afoot(q) /\ p.seq = q.seq => p = q

\* What a node takes for a repeat it has heard and obeyed.
CachedObeyed ==
    \A n \in Nodes, k \in Keys :
        CommandCache!contains(seen_command[n], k) =>
            \E q \in heard[n] : Key(q) = k /\ obeyed[n][q] > 0

\* And what it has heard it has obeyed.
AllObeyed == \A n \in Nodes : \A p \in heard[n] : obeyed[n][p] > 0

ObeyInv == Unrepeated => NumbersLeft /\ NumbersTell /\ CachedObeyed /\ AllObeyed

\* One more order allows as many more broadcasts as a command is repeated.
LEMMA BudgetGrows ==
    ASSUME TypeOK
    PROVE  /\ Budget \in Nat
           /\ orders' = orders => Budget' = Budget
           /\ orders' = orders + 1 => Budget' = Budget + CMD_BROADCAST_COUNT
<1>1. orders \in Nat /\ CMD_BROADCAST_COUNT \in Nat
  BY FloodMeshAssumption DEF TypeOK
<1>2. \A a, b \in Nat : a * b \in Nat /\ (a + 1) * b = a * b + b
  OBVIOUS
<1> QED BY <1>1, <1>2 DEF Budget

LEMMA ObeyInit == Init => ObeyInv
<1> SUFFICES ASSUME Init PROVE NumbersLeft /\ NumbersTell /\ CachedObeyed /\ AllObeyed
  BY DEF ObeyInv
<1>1. CMD_BROADCAST_COUNT \in Nat
  BY FloodMeshAssumption
<1>2. NumbersLeft
  <2>1. Budget = 0 * CMD_BROADCAST_COUNT /\ mobile.seq = 0 /\ mobile.left = 0
    BY DEF Init, Budget
  <2>2. 0 * CMD_BROADCAST_COUNT = 0
    BY <1>1
  <2> QED BY <2>1, <2>2 DEF NumbersLeft
<1>3. \A p \in Broadcast : ~Afoot(p)
  BY PacketKinds DEF Init, Afoot
<1>4. NumbersTell
  BY <1>3 DEF NumbersTell
<1>5. CachedObeyed
  <2>1. \A n \in Nodes, k \in Keys : ~CommandCache!contains(CommandCache!Empty, k)
    BY PacketKinds DEF CommandCache!contains, CommandCache!Empty, CommandCache!NoPacket,
                       NoPacket, SensorCache!NoPacket
  <2> QED BY <2>1 DEF Init, CachedObeyed
<1>6. AllObeyed
  BY DEF Init, AllObeyed
<1> QED BY <1>2, <1>4, <1>5, <1>6

\* A queue holds nothing new after k_msgq_put but the packet put.
LEMMA PutHolds ==
    ASSUME TypeOK, NEW n \in Nodes, NEW p \in Packet, k_msgq_put(n, p),
           NEW m \in Nodes, NEW i \in 1 .. Len(msgq'[m])
    PROVE  msgq'[m][i] = p \/ \E j \in 1 .. Len(msgq[m]) : msgq'[m][i] = msgq[m][j]
<1>1. msgq[m] \in Seq(Packet)
  BY DEF TypeOK
<1>2. msgq'[m] = msgq[m] \/ msgq'[m] = Append(msgq[m], p)
  BY DEF k_msgq_put, TypeOK
<1> QED BY <1>1, <1>2

\* A step of a sensor node brings no broadcast up that was not afoot.
LEMMA NodeStepAfoot ==
    ASSUME TypeInv, NEW n \in Nodes,
           NodeSamples(n) \/ Relay(n) \/ StopAdvertising(n) \/ device_found(n) \/ NodeReboots(n),
           NEW p \in Broadcast, Afoot(p)'
    PROVE  Afoot(p)
<1> USE DEF TypeInv
<1>0. on_air' = on_air
  BY DEF NodeSamples, Relay, StopAdvertising, device_found, HearSample, HearCommand,
         NodeReboots, base
<1>1. CASE NodeSamples(n)
  <2> DEFINE sample == [origin |-> n, seq |-> seq'[n]]
  <2>1. sample \in Sample
    BY <1>1, FloodMeshAssumption DEF NodeSamples, TypeOK, Sample
  <2>2. k_msgq_put(n, sample) /\ advertised' = advertised /\ heard' = heard
    BY <1>1 DEF NodeSamples, history
  <2> HIDE DEF sample
  <2>3. sample # p
    BY <2>1, PacketKinds
  <2> QED BY <1>0, <2>1, <2>2, <2>3, PutHolds DEF Afoot, Packet
<1>2. CASE Relay(n)
  <2>1. msgq[n] \in Seq(Packet) /\ msgq[n] # <<>> /\ msgq \in [Nodes -> Seq(Packet)]
    BY <1>2 DEF Relay, TypeOK
  <2>2. msgq' = [msgq EXCEPT ![n] = Tail(msgq[n])] /\ heard' = heard
    BY <1>2 DEF Relay, history
  <2>3. \A m \in Nodes : \A i \in 1 .. Len(msgq'[m]) :
            \E j \in 1 .. Len(msgq[m]) : msgq'[m][i] = msgq[m][j]
    <3> SUFFICES ASSUME NEW m \in Nodes, NEW i \in 1 .. Len(msgq'[m])
                 PROVE  \E j \in 1 .. Len(msgq[m]) : msgq'[m][i] = msgq[m][j]
      OBVIOUS
    <3>1. CASE m = n
      <4>1. msgq'[m] = Tail(msgq[n])
        BY <2>1, <2>2, <3>1
      <4>2. i + 1 \in 1 .. Len(msgq[n]) /\ msgq'[m][i] = msgq[n][i + 1]
        BY <2>1, <4>1
      <4> QED BY <3>1, <4>2
    <3>2. CASE m # n
      BY <2>1, <2>2, <3>2
    <3> QED BY <3>1, <3>2
  <2>4. 1 \in 1 .. Len(msgq[n]) /\ Head(msgq[n]) = msgq[n][1]
    BY <2>1
  <2>5. \A m \in Nodes : advertised'[m] = advertised[m] \/ advertised'[m] = Head(msgq[n])
    BY <1>2 DEF Relay, TypeOK
  <2>6. CASE p = on_air' \/ \E m \in Nodes : p \in heard'[m]
    BY <1>0, <2>2, <2>6 DEF Afoot
  <2>7. CASE \E m \in Nodes : p = advertised'[m]
    BY <2>4, <2>5, <2>7 DEF Afoot
  <2>8. CASE \E m \in Nodes : \E i \in 1 .. Len(msgq'[m]) : p = msgq'[m][i]
    BY <2>3, <2>8 DEF Afoot
  <2> QED BY <2>6, <2>7, <2>8 DEF Afoot
<1>3. CASE StopAdvertising(n)
  BY <1>0, <1>3, PacketKinds DEF StopAdvertising, Afoot, TypeOK, history
<1>4. CASE device_found(n)
  <2>1. PICK q \in OnAir(n) \ {NoPacket} :
            IF IsSample(q) THEN HearSample(n, q) ELSE HearCommand(n, q)
    BY <1>4 DEF device_found
  <2>2. q \in Packet
    BY DEF OnAir, TypeOK, Packet
  <2>3. q \in Broadcast => Afoot(q)
    BY <2>1 DEF OnAir, Afoot
  <2>4. /\ advertised' = advertised
        /\ k_msgq_put(n, q) \/ msgq' = msgq
        /\ \A m \in Nodes : heard'[m] \subseteq heard[m] \cup {q}
    <3>1. CASE IsSample(q)
      <4>1. HearSample(n, q)
        BY <2>1, <3>1
      <4>2. advertised' = advertised /\ \A m \in Nodes : heard'[m] \subseteq heard[m] \cup {q}
        BY <4>1 DEF HearSample, history
      <4>3. IF mode[n] = "normal" THEN k_msgq_put(n, q) ELSE UNCHANGED msgq
        BY <4>1, Zenon DEF HearSample
      <4>4. k_msgq_put(n, q) \/ msgq' = msgq
        BY <4>3, Zenon
      <4> QED BY <4>2, <4>4, Zenon
    <3>2. CASE ~IsSample(q)
      <4>1. HearCommand(n, q)
        BY <2>1, <3>2
      <4>2. /\ heard' = [heard EXCEPT ![n] = heard[n] \cup {q}] /\ advertised' = advertised
            /\ heard \in [Nodes -> SUBSET Broadcast]
        BY <4>1 DEF HearCommand, TypeOK
      <4>3. \A m \in Nodes : heard'[m] \subseteq heard[m] \cup {q}
        BY <4>2
      <4>4. k_msgq_put(n, q) \/ msgq' = msgq
        BY <4>1, Zenon DEF HearCommand
      <4> QED BY <4>2, <4>3, <4>4, Zenon
    <3> QED BY <3>1, <3>2
  <2>5. p = q \/ Afoot(p)
    BY <1>0, <2>2, <2>4, PutHolds DEF Afoot
  <2> QED BY <2>3, <2>5
<1>5. CASE NodeReboots(n)
  <2>1. /\ \A m \in Nodes : advertised'[m] = advertised[m] \/ advertised'[m] = NoPacket
        /\ \A m \in Nodes : msgq'[m] = msgq[m] \/ msgq'[m] = <<>>
        /\ \A m \in Nodes : heard'[m] \subseteq heard[m]
    BY <1>5 DEF NodeReboots, TypeOK
  <2> QED BY <1>0, <2>1, PacketKinds DEF Afoot
<1> QED BY <1>1, <1>2, <1>3, <1>4, <1>5

LEMMA ObeyNext == TypeInv /\ ObeyInv /\ [Next]_vars => ObeyInv'
<1> SUFFICES ASSUME TypeInv, ObeyInv, [Next]_vars, Unrepeated'
             PROVE  NumbersLeft' /\ NumbersTell' /\ CachedObeyed' /\ AllObeyed'
  BY DEF ObeyInv
<1> USE DEF TypeInv
<1>0. /\ Budget \in Nat /\ mobile.seq \in Nat /\ mobile.left \in Nat
      /\ mobile.seq < SEQ_MOD /\ SEQ_MOD \in Nat \ {0} /\ CMD_BROADCAST_COUNT \in Nat \ {0}
  BY FloodMeshAssumption, BudgetGrows DEF TypeOK, Seqs
<1>1. ASSUME Budget' = Budget, mobile' = mobile, Unrepeated,
             \A p \in Broadcast : Afoot(p)' => Afoot(p)
      PROVE  NumbersLeft' /\ NumbersTell'
  <2>1. UsedUp' = UsedUp
    BY <1>1 DEF UsedUp
  <2>2. NumbersLeft /\ NumbersTell
    BY <1>1 DEF ObeyInv
  <2> QED BY <1>1, <2>1, <2>2 DEF NumbersLeft, NumbersTell
<1>2. ASSUME seen_command' = seen_command, heard' = heard, obeyed' = obeyed, Unrepeated
      PROVE  CachedObeyed' /\ AllObeyed'
  BY <1>2 DEF ObeyInv, CachedObeyed, AllObeyed
<1>3. ASSUME NEW n \in Nodes,
             NodeSamples(n) \/ Relay(n) \/ StopAdvertising(n) \/ device_found(n) \/ NodeReboots(n)
      PROVE  NumbersLeft' /\ NumbersTell' /\ CachedObeyed' /\ AllObeyed'
  <2>1. mobile' = mobile /\ orders' = orders
    BY <1>3 DEF NodeSamples, Relay, StopAdvertising, device_found, HearSample, HearCommand,
                NodeReboots, base
  <2>2. Budget' = Budget /\ Unrepeated
    BY <2>1, BudgetGrows DEF Unrepeated
  <2>3. NumbersLeft' /\ NumbersTell'
    BY <1>1, <1>3, <2>1, <2>2, NodeStepAfoot
  <2>4. CachedObeyed /\ AllObeyed /\ NumbersTell
    BY <2>2 DEF ObeyInv
  <2>5. CASE NodeSamples(n) \/ Relay(n) \/ StopAdvertising(n)
    BY <1>2, <2>2, <2>3, <2>5 DEF NodeSamples, Relay, StopAdvertising, caches, history
  <2>6. CASE device_found(n)
    <3>1. PICK p \in OnAir(n) \ {NoPacket} :
              IF IsSample(p) THEN HearSample(n, p) ELSE HearCommand(n, p)
      BY <2>6 DEF device_found
    <3>2. p \in Packet
      BY DEF OnAir, TypeOK, Packet
    <3>3. CASE IsSample(p)
      BY <1>2, <2>2, <2>3, <3>1, <3>3 DEF HearSample, history
    <3>4. CASE ~IsSample(p)
      <4>1. p \in Broadcast /\ Key(p) \in Keys /\ HearCommand(n, p) /\ Afoot(p)
        BY <3>1, <3>2, <3>4, PacketKinds DEF Packet, OnAir, Afoot
      <4>2. heard' = [heard EXCEPT ![n] = heard[n] \cup {p}]
        BY <4>1 DEF HearCommand
      <4>3. /\ heard \in [Nodes -> SUBSET Broadcast]
            /\ obeyed \in [Nodes -> [Broadcast -> 0 .. 2]]
        BY DEF TypeOK
      <4>4. CASE CommandCache!contains(seen_command[n], Key(p))
        <5>1. seen_command' = seen_command /\ obeyed' = obeyed
          BY <4>1, <4>4 DEF HearCommand
        <5>2. PICK q \in heard[n] : Key(q) = Key(p) /\ obeyed[n][q] > 0
          BY <4>1, <4>4, <2>4 DEF CachedObeyed
        <5>3. q \in Broadcast /\ Afoot(q) /\ q.seq = p.seq
          BY <4>3, <5>2 DEF Afoot, Key
        <5>4. q = p
          BY <4>1, <5>3, <2>4 DEF NumbersTell
        <5>5. AllObeyed'
          BY <4>2, <4>3, <5>1, <5>2, <5>4, <2>4 DEF AllObeyed
        <5>6. CachedObeyed'
          BY <4>2, <4>3, <5>1, <2>4 DEF CachedObeyed
        <5> QED BY <2>3, <5>5, <5>6
      <4>5. CASE ~CommandCache!contains(seen_command[n], Key(p))
        <5>1. /\ obeyed' = [obeyed EXCEPT ![n][p] = IF @ < 2 THEN @ + 1 ELSE 2]
              /\ seen_command' = [seen_command EXCEPT ![n] =
                                      CommandCache!add(seen_command[n], Key(p))]
          BY <4>1, <4>5 DEF HearCommand, CommandCache!check_and_add
        <5>2. \A m \in Nodes, q \in Broadcast :
                  obeyed'[m][q] > 0 <=> obeyed[m][q] > 0 \/ (m = n /\ q = p)
          <6> SUFFICES ASSUME NEW m \in Nodes, NEW q \in Broadcast
                       PROVE  obeyed'[m][q] > 0 <=> obeyed[m][q] > 0 \/ (m = n /\ q = p)
            OBVIOUS
          <6>1. obeyed[m][q] \in 0 .. 2 /\ obeyed[n] \in [Broadcast -> 0 .. 2]
            BY <4>3
          <6>2. obeyed'[m][q] = IF m = n /\ q = p
                                THEN IF obeyed[n][p] < 2 THEN obeyed[n][p] + 1 ELSE 2
                                ELSE obeyed[m][q]
            BY <4>1, <4>3, <5>1
          <6> QED BY <6>1, <6>2
        <5>3. AllObeyed'
          BY <4>1, <4>2, <4>3, <5>2, <2>4 DEF AllObeyed
        <5>4. \A m \in Nodes, k \in Keys :
                  CommandCache!contains(seen_command'[m], k) =>
                      CommandCache!contains(seen_command[m], k) \/ (m = n /\ k = Key(p))
          <6>1. seen_command \in [Nodes -> CommandCaches]
            OBVIOUS
          <6>2. \A k \in Keys : CommandCache!contains(CommandCache!add(seen_command[n], Key(p)), k)
                    => CommandCache!contains(seen_command[n], k) \/ k = Key(p)
            BY <6>1 DEF CommandCache!contains, CommandCache!add, CommandCaches,
                        CommandLemmas!Reachable, CommandLemmas!Caches, CommandLemmas!Slots,
                        CommandCache!Slots
          <6> QED BY <5>1, <6>1, <6>2
        <5>5. CachedObeyed'
          <6> SUFFICES ASSUME NEW m \in Nodes, NEW k \in Keys,
                              CommandCache!contains(seen_command'[m], k)
                       PROVE  \E q \in heard'[m] : Key(q) = k /\ obeyed'[m][q] > 0
            BY DEF CachedObeyed, CommandCache!contains
          <6>1. CASE CommandCache!contains(seen_command[m], k)
            <7>1. PICK q \in heard[m] : Key(q) = k /\ obeyed[m][q] > 0
              BY <6>1, <2>4 DEF CachedObeyed
            <7>2. q \in Broadcast /\ q \in heard'[m]
              BY <4>2, <4>3
            <7> QED BY <7>1, <7>2, <5>2
          <6>2. CASE m = n /\ k = Key(p)
            <7>1. p \in heard'[n]
              BY <4>2, <4>3
            <7> QED BY <6>2, <7>1, <4>1, <5>2
          <6> QED BY <5>4, <6>1, <6>2
        <5> QED BY <2>3, <5>3, <5>5
      <4> QED BY <4>4, <4>5
    <3> QED BY <3>3, <3>4
  <2>7. CASE NodeReboots(n)
    <3>1. /\ heard' = [heard EXCEPT ![n] = {}]
          /\ obeyed' = [obeyed EXCEPT ![n] = [p \in Broadcast |-> 0]]
          /\ seen_command' = [seen_command EXCEPT ![n] = CommandCache!Empty]
          /\ heard \in [Nodes -> SUBSET Broadcast]
          /\ obeyed \in [Nodes -> [Broadcast -> 0 .. 2]]
          /\ seen_command \in [Nodes -> CommandCaches]
      BY <2>7 DEF NodeReboots, TypeOK
    <3>2. \A k \in Keys : ~CommandCache!contains(CommandCache!Empty, k)
      BY PacketKinds DEF CommandCache!contains, CommandCache!Empty, CommandCache!NoPacket,
                         NoPacket, SensorCache!NoPacket
    <3>3. AllObeyed'
      BY <3>1, <2>4 DEF AllObeyed
    <3>4. CachedObeyed'
      <4> SUFFICES ASSUME NEW m \in Nodes, NEW k \in Keys,
                          CommandCache!contains(seen_command'[m], k)
                   PROVE  \E q \in heard'[m] : Key(q) = k /\ obeyed'[m][q] > 0
        BY DEF CachedObeyed, CommandCache!contains
      <4>1. m # n
        BY <3>1, <3>2
      <4> QED BY <3>1, <4>1, <2>4 DEF CachedObeyed
    <3> QED BY <2>3, <3>3, <3>4
  <2> QED BY <1>3, <2>5, <2>6, <2>7
<1>4. ASSUME NEW cmd \in Cmds, Order(cmd)
      PROVE  NumbersLeft' /\ NumbersTell' /\ CachedObeyed' /\ AllObeyed'
  <2>1. /\ orders' = orders + 1 /\ on_air' = on_air /\ advertised' = advertised
        /\ msgq' = msgq /\ heard' = heard
        /\ mobile.left = 0
        /\ mobile'.seq = mobile.seq /\ mobile'.left = CMD_BROADCAST_COUNT
        /\ mobile'.reboots = mobile.reboots
    BY <1>4 DEF Order, history, TypeOK
  <2>2. Budget' = Budget + CMD_BROADCAST_COUNT
    BY <2>1, BudgetGrows
  <2>3. Unrepeated /\ ~UsedUp
    BY <1>0, <2>1, <2>2 DEF Unrepeated, UsedUp
  <2>4. NumbersLeft /\ NumbersTell
    BY <2>3 DEF ObeyInv
  <2>5. NumbersLeft'
    BY <1>0, <2>1, <2>2, <2>3, <2>4 DEF NumbersLeft
  <2>6. \A p \in Broadcast : Afoot(p)' => Afoot(p)
    BY <2>1 DEF Afoot
  <2>7. NumbersTell'
    BY <2>1, <2>3, <2>4, <2>6 DEF NumbersTell
  <2> QED BY <1>2, <1>4, <2>3, <2>5, <2>7 DEF Order, caches, history
<1>5. CASE StartBroadcast
  <2>1. /\ orders' = orders /\ advertised' = advertised /\ msgq' = msgq /\ heard' = heard
        /\ mobile.left > 0 /\ mobile'.reboots = mobile.reboots
        /\ mobile'.seq = (mobile.seq + 1) % SEQ_MOD
        /\ mobile'.left < mobile.left
    <3>1. mobile \in [seq : Seqs, cmd : Cmds, left : 0 .. CMD_BROADCAST_COUNT,
                      reboots : 0 .. MAX_MOBILE_REBOOTS]
      BY DEF TypeOK
    <3>2. \/ mobile' = [mobile EXCEPT !.seq = (mobile.seq + 1) % SEQ_MOD,
                                     !.left = mobile.left - 1]
          \/ mobile' = [mobile EXCEPT !.seq = (mobile.seq + 1) % SEQ_MOD, !.left = 0]
      BY <1>5 DEF StartBroadcast
    <3>3. mobile.left > 0 /\ UNCHANGED <<orders, advertised, msgq, heard>>
      BY <1>5 DEF StartBroadcast, history
    <3>4. \/ mobile' = [seq |-> (mobile.seq + 1) % SEQ_MOD, cmd |-> mobile.cmd,
                        left |-> mobile.left - 1, reboots |-> mobile.reboots]
          \/ mobile' = [seq |-> (mobile.seq + 1) % SEQ_MOD, cmd |-> mobile.cmd,
                        left |-> 0, reboots |-> mobile.reboots]
      BY <3>1, <3>2
    <3>5. /\ mobile'.reboots = mobile.reboots
          /\ mobile'.seq = (mobile.seq + 1) % SEQ_MOD
          /\ mobile'.left = mobile.left - 1 \/ mobile'.left = 0
      BY <3>4
    <3> QED BY <1>0, <3>3, <3>5
  <2>2. Budget' = Budget /\ Unrepeated /\ ~UsedUp
    BY <1>0, <2>1, BudgetGrows DEF Unrepeated, UsedUp
  <2>3. mobile.seq + mobile.left <= Budget /\ NumbersTell
    BY <2>2 DEF ObeyInv, NumbersLeft
  <2>4. mobile'.left \in Nat
    BY TypeNext DEF TypeOK
  <2>5. UsedUp' \/ mobile'.seq = mobile.seq + 1
    <3>1. CASE mobile.seq + 1 < SEQ_MOD
      BY <1>0, <2>1, <3>1
    <3>2. CASE mobile.seq + 1 = SEQ_MOD
      <4>1. Budget <= SEQ_MOD /\ Budget \in Nat
        BY <1>0, <2>2 DEF Unrepeated
      <4>2. mobile.left = 1 /\ Budget = SEQ_MOD
        BY <1>0, <2>1, <2>3, <3>2, <4>1
      <4>3. mobile'.left = 0 /\ SEQ_MOD <= Budget'
        BY <1>0, <2>1, <2>2, <2>4, <4>2
      <4> QED BY <4>3 DEF UsedUp
    <3> QED BY <1>0, <3>1, <3>2
  <2>6. NumbersLeft'
    BY <1>0, <2>1, <2>2, <2>3, <2>4, <2>5 DEF NumbersLeft
  <2>7. \A p \in Broadcast : Afoot(p)' => Afoot(p) \/ (p = on_air' /\ p.seq = mobile.seq)
    <3>1. on_air' = on_air \/ on_air'.seq = mobile.seq
      BY <1>5 DEF StartBroadcast
    <3> QED BY <2>1, <3>1 DEF Afoot
  <2>8. \A p \in Broadcast : p.seq \in Nat
    BY <1>0 DEF Broadcast, Seqs
  <2>9. \A p \in Broadcast : Afoot(p) => p.seq < mobile.seq
    BY <2>2, <2>3 DEF NumbersTell
  <2>10. NumbersTell'
    <3>1. \A p \in Broadcast : Afoot(p)' => UsedUp' \/ p.seq < mobile'.seq
      BY <1>0, <2>5, <2>7, <2>8, <2>9
    <3>2. ASSUME NEW p \in Broadcast, NEW q \in Broadcast, Afoot(p)', Afoot(q)',
                 p.seq = q.seq
          PROVE  p = q
      <4>1. CASE Afoot(p) /\ Afoot(q)
        BY <3>2, <4>1, <2>3 DEF NumbersTell
      <4>2. CASE ~Afoot(p) \/ ~Afoot(q)
        BY <1>0, <3>2, <4>2, <2>7, <2>8, <2>9
      <4> QED BY <4>1, <4>2
    <3> QED BY <3>1, <3>2 DEF NumbersTell
  <2> QED BY <1>2, <1>5, <2>2, <2>6, <2>10 DEF StartBroadcast, caches, history
<1>6. CASE StopBroadcast
  <2>1. /\ orders' = orders /\ advertised' = advertised /\ msgq' = msgq /\ heard' = heard
        /\ mobile' = mobile /\ on_air' = NoPacket
    BY <1>6 DEF StopBroadcast, history
  <2>2. Budget' = Budget /\ Unrepeated
    BY <2>1, BudgetGrows DEF Unrepeated
  <2>3. \A p \in Broadcast : Afoot(p)' => Afoot(p)
    BY <2>1, PacketKinds DEF Afoot
  <2> QED BY <1>1, <1>2, <1>6, <2>1, <2>2, <2>3 DEF StopBroadcast, caches, history
<1>7. CASE MobileReboots
  BY <1>7 DEF MobileReboots, Unrepeated, TypeOK
<1>8. CASE UNCHANGED vars
  <2>1. /\ orders' = orders /\ advertised' = advertised /\ msgq' = msgq /\ heard' = heard
        /\ mobile' = mobile /\ on_air' = on_air
    BY <1>8 DEF vars, history, base
  <2>2. Budget' = Budget /\ Unrepeated
    BY <2>1, BudgetGrows DEF Unrepeated
  <2>3. \A p \in Broadcast : Afoot(p)' => Afoot(p)
    BY <2>1 DEF Afoot
  <2> QED BY <1>1, <1>2, <1>8, <2>1, <2>2, <2>3 DEF vars, caches, history
<1> QED
  BY <1>3, <1>4, <1>5, <1>6, <1>7, <1>8 DEF Next

\* Until the numbers start again, a node that hears a command obeys it, from whom and
\* however late it comes: in every mesh, and however small the caches.
THEOREM CommandsObeyed == Spec => []HeardIsObeyed
<1>1. ObeyInv => HeardIsObeyed
  BY DEF ObeyInv, Unrepeated, Budget, AllObeyed, HeardIsObeyed
<1> QED
  BY <1>1, TypeInit, TypeNext, ObeyInit, ObeyNext, PTL DEF Spec

-----------------------------------------------------------------------------
(* Commands are obeyed once.                                               *)

\* A node's cache holds commands that the node heard, and each once.
CacheHeard ==
    \A n \in Nodes :
        /\ IsFiniteSet(KeysHeard(n))
        /\ \A k \in Keys : CommandCache!contains(seen_command[n], k) => k \in KeysHeard(n)
        /\ CommandLemmas!Distinct(seen_command[n])

\* The cache never had to forget.
Few(n) == Cardinality(KeysHeard(n)) <= SEEN_COMMAND_CACHE_SIZE

\* Until then it holds all of them, and each was obeyed at most once.
HeardCached(n) ==
    /\ \A k \in KeysHeard(n) : CommandCache!contains(seen_command[n], k)
    /\ \A p \in Broadcast : obeyed[n][p] <= 1 /\ (obeyed[n][p] > 0 => p \in heard[n])

OnceInv == CacheHeard /\ \A n \in Nodes : Few(n) => HeardCached(n)

\* What an empty cache holds, for nodes that start.
LEMMA EmptyHolds ==
    /\ \A k \in Keys : ~CommandCache!contains(CommandCache!Empty, k)
    /\ CommandLemmas!Distinct(CommandCache!Empty)
<1>1. CommandLemmas!Distinct(CommandCache!Empty)
  BY SameCommandOperators, CommandLemmas!EmptyDistinct
<1> QED
  BY <1>1, PacketKinds DEF CommandCache!contains, CommandCache!Empty, CommandCache!NoPacket,
                           NoPacket, SensorCache!NoPacket

LEMMA OnceInit == Init => OnceInv
<1> SUFFICES ASSUME Init, NEW n \in Nodes
             PROVE  /\ IsFiniteSet(KeysHeard(n))
                    /\ \A k \in Keys :
                           CommandCache!contains(seen_command[n], k) => k \in KeysHeard(n)
                    /\ CommandLemmas!Distinct(seen_command[n])
                    /\ HeardCached(n)
  BY DEF OnceInv, CacheHeard
<1>1. /\ heard[n] = {} /\ obeyed[n] = [p \in Broadcast |-> 0]
      /\ seen_command[n] = CommandCache!Empty
  BY DEF Init
<1>2. KeysHeard(n) = {}
  BY <1>1 DEF KeysHeard
<1> QED BY <1>1, <1>2, EmptyHolds, FS_EmptySet DEF HeardCached

\* Nothing of the invariant changes for a node whose memory of commands does not.
LEMMA SameMemory ==
    ASSUME OnceInv, NEW n \in Nodes,
           heard'[n] = heard[n], obeyed'[n] = obeyed[n], seen_command'[n] = seen_command[n]
    PROVE  /\ IsFiniteSet(KeysHeard(n)')
           /\ \A k \in Keys :
                  CommandCache!contains(seen_command'[n], k) => k \in KeysHeard(n)'
           /\ CommandLemmas!Distinct(seen_command'[n])
           /\ Few(n)' => HeardCached(n)'
<1>1. KeysHeard(n)' = KeysHeard(n)
  BY DEF KeysHeard
<1>2. Few(n)' = Few(n) /\ HeardCached(n)' = HeardCached(n)
  BY <1>1 DEF Few, HeardCached, CommandCache!contains
<1> QED BY <1>1, <1>2 DEF OnceInv, CacheHeard, CommandCache!contains, CommandLemmas!Distinct

\* A command that a node hears is in its cache afterwards, and drives no other out as
\* long as they are few.
LEMMA HearOnce ==
    ASSUME TypeInv, OnceInv, NEW n \in Nodes, NEW p \in Broadcast, HearCommand(n, p)
    PROVE  /\ IsFiniteSet(KeysHeard(n)')
           /\ \A k \in Keys :
                  CommandCache!contains(seen_command'[n], k) => k \in KeysHeard(n)'
           /\ CommandLemmas!Distinct(seen_command'[n])
           /\ Few(n)' => HeardCached(n)'
<1> DEFINE cache == seen_command[n]
           key == Key(p)
<1>1. /\ heard \in [Nodes -> SUBSET Broadcast]
      /\ obeyed \in [Nodes -> [Broadcast -> 0 .. 2]]
      /\ seen_command \in [Nodes -> CommandCaches]
      /\ key \in Keys
  BY PacketKinds DEF TypeInv, TypeOK
<1>2. heard'[n] = heard[n] \cup {p}
  BY <1>1 DEF HearCommand
<1>3. KeysHeard(n)' = KeysHeard(n) \cup {key}
  BY <1>2 DEF KeysHeard
<1>4. /\ IsFiniteSet(KeysHeard(n))
      /\ \A k \in Keys : CommandCache!contains(cache, k) => k \in KeysHeard(n)
      /\ CommandLemmas!Distinct(cache)
      /\ Few(n) => HeardCached(n)
  BY DEF OnceInv, CacheHeard
<1>5. IsFiniteSet(KeysHeard(n)')
  BY <1>3, <1>4, FS_AddElement
<1>6. ASSUME Few(n)'
      PROVE  Few(n)
  <2>1. Cardinality(KeysHeard(n)) <= Cardinality(KeysHeard(n)')
    BY <1>3, <1>5, FS_Subset
  <2>2. Cardinality(KeysHeard(n)) \in Nat /\ Cardinality(KeysHeard(n)') \in Nat
    BY <1>4, <1>5, FS_CardinalityType
  <2> QED BY <1>6, <2>1, <2>2, FloodMeshAssumption DEF Few
<1>7. CASE CommandCache!contains(cache, key)
  <2>1. seen_command' = seen_command /\ obeyed' = obeyed
    BY <1>7 DEF HearCommand
  <2>2. Few(n)' => HeardCached(n)'
    BY <1>2, <1>3, <1>4, <1>6, <1>7, <2>1 DEF HeardCached, CommandCache!contains
  <2>3. \A k \in Keys : CommandCache!contains(seen_command'[n], k) => k \in KeysHeard(n)'
    BY <1>3, <1>4, <2>1
  <2> QED BY <1>4, <1>5, <2>1, <2>2, <2>3
<1>8. CASE ~CommandCache!contains(cache, key)
  <2> DEFINE next == CommandLemmas!add(cache, key)
  <2>1. /\ seen_command'[n] = CommandCache!add(cache, key)
        /\ obeyed' = [obeyed EXCEPT ![n][p] = IF @ < 2 THEN @ + 1 ELSE 2]
    BY <1>1, <1>8 DEF HearCommand, CommandCache!check_and_add
  <2>2. /\ \A c, k : CommandCache!contains(c, k) <=> CommandLemmas!contains(c, k)
        /\ CommandCache!add(cache, key) = next
    BY DEF CommandCache!contains, CommandLemmas!contains, CommandCache!add,
           CommandLemmas!add, CommandCache!Slots, CommandLemmas!Slots
  <2>3. CommandLemmas!NoPacket \notin Keys
    BY PacketKinds DEF NoPacket, SensorCache!NoPacket, CommandLemmas!NoPacket
  <2>4. cache \in CommandLemmas!Reachable(Keys) /\ ~CommandLemmas!contains(cache, key)
    BY <1>1, <1>8, <2>2 DEF CommandCaches
  <2>5. SEEN_COMMAND_CACHE_SIZE \in Nat \ {0}
    BY FloodMeshAssumption
  <2>6. /\ CommandLemmas!Distinct(next)
        /\ CommandLemmas!contains(next, key)
        /\ \A q : CommandLemmas!contains(next, q) => CommandLemmas!contains(cache, q) \/ q = key
        /\ ~CommandLemmas!Full(cache) =>
               \A q \in Keys : CommandLemmas!contains(cache, q) => CommandLemmas!contains(next, q)
    BY <1>1, <1>4, <2>3, <2>4, <2>5, CommandLemmas!AddContains
  <2>7. \A k \in Keys : CommandCache!contains(seen_command'[n], k) => k \in KeysHeard(n)'
    BY <1>3, <1>4, <2>1, <2>2, <2>6
  <2>8. ASSUME Few(n)'
        PROVE  HeardCached(n)'
    <3>1. HeardCached(n)
      BY <1>4, <1>6, <2>8
    <3>2. key \notin KeysHeard(n) /\ p \notin heard[n]
      BY <3>1, <1>8 DEF HeardCached, KeysHeard
    <3>3. ~CommandLemmas!Full(cache)
      <4> SUFFICES ASSUME CommandLemmas!Full(cache) PROVE FALSE
        OBVIOUS
      <4> DEFINE entries == cache.entries
                 slots == 0 .. SEEN_COMMAND_CACHE_SIZE - 1
      <4>1. /\ entries \in [slots -> Keys]
            /\ \A i \in slots : CommandLemmas!contains(cache, entries[i])
            /\ \A i, j \in slots : entries[i] = entries[j] => i = j
        BY <1>4, <2>4, <2>5, CommandLemmas!FullOfDistinct
      <4>2. \A i \in slots : entries[i] \in KeysHeard(n)
        BY <1>4, <2>2, <4>1
      <4>3. entries \in Injection(slots, KeysHeard(n))
        BY <4>1, <4>2 DEF Injection, IsInjective
      <4>4. Cardinality(0 .. SEEN_COMMAND_CACHE_SIZE - 1) <= Cardinality(KeysHeard(n))
        BY <1>4, <4>3, FS_Injection
      <4>5. Cardinality(0 .. SEEN_COMMAND_CACHE_SIZE - 1) = SEEN_COMMAND_CACHE_SIZE
        BY <2>5, FS_Interval
      <4>6. Cardinality(KeysHeard(n)') = Cardinality(KeysHeard(n)) + 1
        <5> HIDE DEF key
        <5>1. Cardinality(KeysHeard(n) \cup {key}) = Cardinality(KeysHeard(n)) + 1
          BY <1>4, <3>2, FS_AddElement
        <5> QED BY <1>3, <5>1
      <4>7. Cardinality(KeysHeard(n)) \in Nat
        BY <1>4, FS_CardinalityType
      <4> QED BY <2>5, <2>8, <4>4, <4>5, <4>6, <4>7 DEF Few
    <3>4. KeysHeard(n) \subseteq Keys
      BY <1>1, PacketKinds DEF KeysHeard
    <3>5. \A k \in KeysHeard(n)' : CommandCache!contains(seen_command'[n], k)
      BY <1>3, <2>1, <2>2, <2>6, <3>1, <3>3, <3>4 DEF HeardCached
    <3>6. \A q \in Broadcast : obeyed'[n][q] <= 1 /\ (obeyed'[n][q] > 0 => q \in heard'[n])
      <4> SUFFICES ASSUME NEW q \in Broadcast
                   PROVE  obeyed'[n][q] <= 1 /\ (obeyed'[n][q] > 0 => q \in heard'[n])
        OBVIOUS
      <4>1. obeyed[n] \in [Broadcast -> 0 .. 2]
        BY <1>1
      <4>2. obeyed'[n][q] = IF q = p THEN IF obeyed[n][p] < 2 THEN obeyed[n][p] + 1 ELSE 2
                            ELSE obeyed[n][q]
        BY <1>1, <2>1
      <4>3. obeyed[n][p] = 0
        BY <3>1, <3>2, <4>1 DEF HeardCached
      <4>4. obeyed[n][q] <= 1 /\ (obeyed[n][q] > 0 => q \in heard[n])
        BY <3>1 DEF HeardCached
      <4> QED BY <1>2, <4>2, <4>3, <4>4
    <3> QED BY <3>5, <3>6 DEF HeardCached, CommandCache!contains
  <2> QED BY <1>5, <2>1, <2>2, <2>6, <2>7, <2>8
<1> QED BY <1>7, <1>8

LEMMA OnceNext == TypeInv /\ OnceInv /\ [Next]_vars => OnceInv'
<1> SUFFICES ASSUME TypeInv, OnceInv, [Next]_vars, NEW n \in Nodes
             PROVE  /\ IsFiniteSet(KeysHeard(n)')
                    /\ \A k \in Keys :
                           CommandCache!contains(seen_command'[n], k) => k \in KeysHeard(n)'
                    /\ CommandLemmas!Distinct(seen_command'[n])
                    /\ Few(n)' => HeardCached(n)'
  BY DEF OnceInv, CacheHeard, CommandCache!contains, CommandLemmas!Distinct
<1>0. /\ heard \in [Nodes -> SUBSET Broadcast]
      /\ obeyed \in [Nodes -> [Broadcast -> 0 .. 2]]
      /\ seen_command \in [Nodes -> CommandCaches]
  BY DEF TypeInv, TypeOK
<1>1. CASE UNCHANGED <<heard, obeyed, seen_command>>
  BY <1>1, SameMemory
<1>2. ASSUME NEW m \in Nodes, device_found(m)
      PROVE  \/ UNCHANGED <<heard, obeyed, seen_command>>
             \/ \E p \in Broadcast : HearCommand(m, p)
  <2>1. PICK p \in OnAir(m) \ {NoPacket} :
            IF IsSample(p) THEN HearSample(m, p) ELSE HearCommand(m, p)
    BY <1>2 DEF device_found
  <2>2. p \in Packet
    BY DEF OnAir, TypeInv, TypeOK, Packet
  <2> QED BY <2>1, <2>2, PacketKinds DEF Packet, HearSample, history
<1>3. ASSUME NEW m \in Nodes, NEW p \in Broadcast, HearCommand(m, p)
      PROVE  m = n \/ (heard'[n] = heard[n] /\ obeyed'[n] = obeyed[n]
                           /\ seen_command'[n] = seen_command[n])
  BY <1>0, <1>3 DEF HearCommand
<1>4. ASSUME NEW m \in Nodes, NodeReboots(m)
      PROVE  \/ /\ heard'[n] = {} /\ obeyed'[n] = [p \in Broadcast |-> 0]
                /\ seen_command'[n] = CommandCache!Empty
             \/ /\ heard'[n] = heard[n] /\ obeyed'[n] = obeyed[n]
                /\ seen_command'[n] = seen_command[n]
  BY <1>0, <1>4 DEF NodeReboots
<1>5. ASSUME heard'[n] = {}, obeyed'[n] = [p \in Broadcast |-> 0],
             seen_command'[n] = CommandCache!Empty
      PROVE  /\ IsFiniteSet(KeysHeard(n)')
             /\ \A k \in Keys :
                    CommandCache!contains(seen_command'[n], k) => k \in KeysHeard(n)'
             /\ CommandLemmas!Distinct(seen_command'[n])
             /\ HeardCached(n)'
  <2>1. KeysHeard(n)' = {}
    BY <1>5 DEF KeysHeard
  <2> QED
    BY <1>5, <2>1, EmptyHolds, FS_EmptySet DEF HeardCached, CommandCache!contains
<1> QED
  BY <1>1, <1>2, <1>3, <1>4, <1>5, HearOnce, SameMemory
     DEF Next, vars, NodeSamples, Relay, StopAdvertising, Order, StartBroadcast,
         StopBroadcast, MobileReboots, caches, history

\* A node that has not heard more commands than its cache holds obeys each at most once,
\* whatever the mesh repeats and whoever reboots.
THEOREM ObeysOnce == Spec => []ObeyedOnce
<1>1. TypeInv /\ OnceInv => ObeyedOnce
  BY DEF OnceInv, Few, HeardCached, ObeyedOnce
<1> QED
  BY <1>1, TypeInit, TypeNext, OnceInit, OnceNext, PTL DEF Spec

-----------------------------------------------------------------------------
(* Each node is a MeshNode.                                                *)

Recent(n) == SensorCache!OldestFirst(seen_sensor[n])
Known(n) == CommandCache!OldestFirst(seen_command[n])
Due(n) == [k \in Sample \cup Keys |-> Owed(n, k)]

\* The packets that look the same to a node.
Alike(k) == {p \in Packet : Shown(p) = k}

LEMMA ShownIs ==
    /\ Shown(NoPacket) = NoPacket
    /\ \A p \in Sample : Shown(p) = p
    /\ \A p \in Broadcast : Shown(p) = Key(p) /\ Key(p) \in Keys
    /\ \A p \in Packet : Shown(p) \in Sample \cup Keys
BY PacketKinds DEF Shown, Packet

\* What a node owes is what is in its queue.
LEMMA OwedIs ==
    ASSUME TypeOK, NEW n \in Nodes, NEW k
    PROVE  /\ Owed(n, k) = Count(msgq[n], Alike(k))
           /\ Owed(n, k) \in Nat
<1>1. msgq[n] \in Seq(Packet)
  BY DEF TypeOK
<1>2. DOMAIN msgq[n] = 1 .. Len(msgq[n]) /\ msgq[n] \in [1 .. Len(msgq[n]) -> Packet]
  BY <1>1, LenProperties
<1>3. Indices(msgq[n], Alike(k)) = {i \in DOMAIN msgq[n] : Shown(msgq[n][i]) = k}
  BY <1>2 DEF Indices, Alike
<1>4. Owed(n, k) = Count(msgq[n], Alike(k))
  BY <1>3 DEF Owed, Count
<1> QED BY <1>1, <1>4, CountType

LEMMA OwedIsNext ==
    ASSUME TypeOK', NEW n \in Nodes, NEW k
    PROVE  Owed(n, k)' = Count(msgq'[n], Alike(k))
<1>1. msgq'[n] \in Seq(Packet)
  BY DEF TypeOK
<1>2. DOMAIN msgq'[n] = 1 .. Len(msgq'[n]) /\ msgq'[n] \in [1 .. Len(msgq'[n]) -> Packet]
  BY <1>1, LenProperties
<1>3. Indices(msgq'[n], Alike(k)) = {i \in DOMAIN msgq'[n] : Shown(msgq'[n][i]) = k}
  BY <1>2 DEF Indices, Alike
<1> QED BY <1>3 DEF Owed, Count

LEMMA DueSame ==
    ASSUME NEW n \in Nodes, msgq'[n] = msgq[n]
    PROVE  Due(n)' = Due(n)
BY DEF Due, Owed

\* A packet put in a queue is owed, unless it is dropped; one taken is not owed any more.
LEMMA PutDue ==
    ASSUME TypeInv, TypeInv', NEW n \in Nodes, NEW p \in Packet, NEW k, k = Shown(p),
           k_msgq_put(n, p)
    PROVE  Due(n)' = [Due(n) EXCEPT ![k] = @ + 1] \/ Due(n)' = Due(n)
<1>0. msgq \in [Nodes -> Seq(Packet)]
  BY DEF TypeInv, TypeOK
<1>1. CASE msgq' = msgq
  BY <1>1, DueSame
<1>2. CASE msgq' = [msgq EXCEPT ![n] = Append(msgq[n], p)]
  <2>1. ASSUME NEW j
        PROVE  /\ j = k => Owed(n, j)' = Owed(n, j) + 1
               /\ j # k => Owed(n, j)' = Owed(n, j)
    <3>1. Owed(n, j)' = Count(Append(msgq[n], p), Alike(j))
      BY <1>0, <1>2, OwedIsNext DEF TypeInv
    <3>2. p \in Alike(j) <=> j = k
      BY DEF Alike
    <3>3. Count(Append(msgq[n], p), Alike(j)) =
              IF p \in Alike(j) THEN Count(msgq[n], Alike(j)) + 1 ELSE Count(msgq[n], Alike(j))
      BY <1>0, CountAppend
    <3>4. Owed(n, j) = Count(msgq[n], Alike(j))
      BY OwedIs DEF TypeInv
    <3> QED BY <3>1, <3>2, <3>3, <3>4
  <2> QED BY <2>1 DEF Due
<1> QED BY <1>1, <1>2 DEF k_msgq_put

LEMMA TakeDue ==
    ASSUME TypeInv, TypeInv', NEW n \in Nodes, msgq[n] # <<>>,
           msgq' = [msgq EXCEPT ![n] = Tail(@)], NEW k, k = Shown(Head(msgq[n]))
    PROVE  k \in Sample \cup Keys /\ Due(n)' = [Due(n) EXCEPT ![k] = @ - 1] /\ Due(n)[k] > 0
<1>0. msgq \in [Nodes -> Seq(Packet)]
  BY DEF TypeInv, TypeOK
<1>1. Head(msgq[n]) \in Packet
  BY <1>0
<1>2. ASSUME NEW j
      PROVE  /\ j = k => Owed(n, j) > 0 /\ Owed(n, j)' = Owed(n, j) - 1
             /\ j # k => Owed(n, j)' = Owed(n, j)
  <2>1. Owed(n, j)' = Count(Tail(msgq[n]), Alike(j))
    BY <1>0, OwedIsNext DEF TypeInv
  <2>2. Head(msgq[n]) \in Alike(j) <=> j = k
    BY <1>1 DEF Alike
  <2>3. Count(msgq[n], Alike(j)) =
            IF Head(msgq[n]) \in Alike(j) THEN Count(Tail(msgq[n]), Alike(j)) + 1
            ELSE Count(Tail(msgq[n]), Alike(j))
    BY <1>0, CountTail
  <2>4. Owed(n, j) = Count(msgq[n], Alike(j))
    BY OwedIs DEF TypeInv
  <2>5. Tail(msgq[n]) \in Seq(Packet)
    BY <1>0, HeadTailProperties
  <2>6. Count(Tail(msgq[n]), Alike(j)) \in Nat
    BY <2>5, CountType
  <2> QED BY <2>1, <2>2, <2>3, <2>4, <2>6
<1>3. k \in Sample \cup Keys
  BY <1>1, ShownIs
<1> QED BY <1>2, <1>3 DEF Due

\* A node's windows after a step.
LEMMA RecentKept ==
    ASSUME NEW n \in Nodes, seen_sensor'[n] = seen_sensor[n]
    PROVE  Recent(n)' = Recent(n)
BY DEF Recent, SensorCache!OldestFirst, SensorCache!Full

LEMMA KnownKept ==
    ASSUME NEW n \in Nodes, seen_command'[n] = seen_command[n]
    PROVE  Known(n)' = Known(n)
BY DEF Known, CommandCache!OldestFirst, CommandCache!Full

LEMMA SampleRemembered ==
    ASSUME TypeInv, NEW n \in Nodes, NEW p \in Sample,
           ~SensorCache!contains(seen_sensor[n], p),
           seen_sensor' = [seen_sensor EXCEPT ![n] = SensorCache!check_and_add(@, p)]
    PROVE  MeshNode(n)!SampleWindow!Remember(p)
<1>1. seen_sensor \in [Nodes -> SensorCaches]
  BY DEF TypeInv
<1>2. Recent(n)' = SensorCache!OldestFirst(SensorCache!check_and_add(seen_sensor[n], p))
  BY <1>1 DEF Recent, SensorCache!OldestFirst, SensorCache!Full
<1>3. /\ p \notin {Recent(n)[i] : i \in DOMAIN Recent(n)}
      /\ Recent(n)' = IF Len(Recent(n)) < SEEN_SENSOR_CACHE_SIZE
                      THEN Append(Recent(n), p) ELSE Append(Tail(Recent(n)), p)
  BY <1>1, <1>2, SensorContents DEF Recent
<1> QED
  BY <1>3 DEF Recent, MeshNode!SampleWindow!Remember, MeshNode!SampleWindow!Remembered

LEMMA CommandRemembered ==
    ASSUME TypeInv, NEW n \in Nodes, NEW k \in Keys,
           ~CommandCache!contains(seen_command[n], k),
           seen_command' = [seen_command EXCEPT ![n] = CommandCache!check_and_add(@, k)]
    PROVE  MeshNode(n)!CommandWindow!Remember(k)
<1>1. seen_command \in [Nodes -> CommandCaches]
  BY DEF TypeInv
<1>2. Known(n)' = CommandCache!OldestFirst(CommandCache!check_and_add(seen_command[n], k))
  BY <1>1 DEF Known, CommandCache!OldestFirst, CommandCache!Full
<1>3. /\ k \notin {Known(n)[i] : i \in DOMAIN Known(n)}
      /\ Known(n)' = IF Len(Known(n)) < SEEN_COMMAND_CACHE_SIZE
                     THEN Append(Known(n), k) ELSE Append(Tail(Known(n)), k)
  BY <1>1, <1>2, CommandContents DEF Known
<1> QED
  BY <1>3 DEF Known, MeshNode!CommandWindow!Remember, MeshNode!CommandWindow!Remembered

\* A node whose part of the state stays the same.
LEMMA NodeStutters ==
    ASSUME NEW n \in Nodes, mode'[n] = mode[n], seen_sensor'[n] = seen_sensor[n],
           seen_command'[n] = seen_command[n], msgq'[n] = msgq[n],
           advertised'[n] = advertised[n]
    PROVE  MeshNode(n)!Step
<1>1. Shown(advertised[n])' = Shown(advertised[n])
  BY DEF Shown, IsSample, Key
<1>2. UNCHANGED MeshNode(n)!vars
  BY <1>1, DueSame, RecentKept, KnownKept DEF MeshNode!vars, Due, Recent, Known
<1> QED BY <1>2 DEF MeshNode!Step

\* The steps of a node itself.
LEMMA NodeSamplesStep ==
    ASSUME TypeInv, TypeInv', NEW n \in Nodes, NodeSamples(n)
    PROVE  MeshNode(n)!Step
<1> PICK p : p = [origin |-> n, seq |-> seq'[n]]
  OBVIOUS
<1>1. p \in Sample /\ p \in Packet /\ Shown(p) = p /\ p.origin = n
  BY ShownIs, FloodMeshAssumption DEF NodeSamples, TypeInv, TypeOK, Sample, Packet
<1>2. Due(n)' = [Due(n) EXCEPT ![p] = @ + 1] \/ Due(n)' = Due(n)
  BY <1>1, PutDue DEF NodeSamples
<1>3. seen_sensor \in [Nodes -> SensorCaches]
  BY DEF TypeInv
<1>4. p \in {Recent(n)[i] : i \in DOMAIN Recent(n)}
        <=> SensorCache!contains(seen_sensor[n], p)
  BY <1>1, <1>3, SensorContents DEF Recent
<1>5. IF p \in MeshNode(n)!SampleWindow!Remembered THEN Recent(n)' = Recent(n)
      ELSE MeshNode(n)!SampleWindow!Remember(p)
  <2>1. seen_sensor' = [seen_sensor EXCEPT ![n] = SensorCache!check_and_add(@, p)]
    BY DEF NodeSamples
  <2>2. CASE SensorCache!contains(seen_sensor[n], p)
    <3>1. seen_sensor'[n] = seen_sensor[n]
      BY <1>3, <2>1, <2>2 DEF SensorCache!check_and_add
    <3> QED BY <1>4, <2>2, <3>1, RecentKept DEF Recent, MeshNode!SampleWindow!Remembered
  <2>3. CASE ~SensorCache!contains(seen_sensor[n], p)
    BY <1>1, <1>4, <2>1, <2>3, SampleRemembered DEF Recent, MeshNode!SampleWindow!Remembered
  <2> QED BY <2>2, <2>3
<1>6. UNCHANGED <<mode[n], Known(n), Shown(advertised[n])>>
  BY KnownKept DEF NodeSamples, Shown, IsSample, Key
<1>7. MeshNode(n)!TakeSample(p)
  BY <1>1, <1>2, <1>5, <1>6 DEF MeshNode!TakeSample, MeshNode!Owe, Due, Recent, Known
<1> QED BY <1>1, <1>7 DEF MeshNode!Step, MeshNode!Next

LEMMA RelayStep ==
    ASSUME TypeInv, TypeInv', NEW n \in Nodes, Relay(n)
    PROVE  MeshNode(n)!Step
<1> PICK p : p = Head(msgq[n])
  OBVIOUS
<1> PICK k : k = Shown(p)
  OBVIOUS
<1>1. /\ k \in MeshNode(n)!Packets
      /\ Due(n)' = [Due(n) EXCEPT ![k] = @ - 1] /\ Due(n)[k] > 0
  BY TakeDue DEF Relay, MeshNode!Packets
<1>2. UNCHANGED <<mode[n], Recent(n), Known(n)>>
  BY RecentKept, KnownKept DEF Relay, caches
<1>3. CASE advertised' = advertised
  <2>1. UNCHANGED Shown(advertised[n])
    BY <1>3 DEF Shown, IsSample, Key
  <2>2. MeshNode(n)!GiveUp(k)
    BY <1>1, <1>2, <2>1 DEF MeshNode!GiveUp, MeshNode!Discharge, Due, Recent, Known
  <2> QED BY <1>1, <2>2 DEF MeshNode!Step, MeshNode!Next
<1>4. CASE advertised' = [advertised EXCEPT ![n] = p]
  <2>1. advertised'[n] = p
    BY <1>4 DEF TypeInv, TypeOK
  <2>2. Shown(advertised[n])' = k
    BY <2>1 DEF Shown, IsSample, Key
  <2>3. MeshNode(n)!Advertise(k)
    BY <1>1, <1>2, <2>2 DEF MeshNode!Advertise, MeshNode!Discharge, Due, Recent, Known
  <2> QED BY <1>1, <2>3 DEF MeshNode!Step, MeshNode!Next
<1> QED BY <1>3, <1>4 DEF Relay

LEMMA StopAdvertisingStep ==
    ASSUME TypeInv, NEW n \in Nodes, StopAdvertising(n)
    PROVE  MeshNode(n)!Step
<1>1. advertised'[n] = NoPacket
  BY DEF StopAdvertising, TypeInv, TypeOK
<1>2. Shown(advertised[n])' = NoPacket
  BY <1>1, ShownIs DEF Shown, IsSample, Key
<1>3. UNCHANGED <<mode[n], Recent(n), Known(n)>> /\ Due(n)' = Due(n)
  BY RecentKept, KnownKept, DueSame DEF StopAdvertising, caches
<1>4. MeshNode(n)!StopAdvertising
  BY <1>2, <1>3 DEF MeshNode!StopAdvertising, Due, Recent, Known
<1> QED BY <1>4 DEF MeshNode!Step, MeshNode!Next

LEMMA HearSampleStep ==
    ASSUME TypeInv, TypeInv', NEW n \in Nodes, NEW p \in Sample, HearSample(n, p)
    PROVE  MeshNode(n)!Step
<1>1. p \in Packet /\ Shown(p) = p /\ p.origin # n
  BY ShownIs DEF HearSample, Packet
<1>2. MeshNode(n)!SampleWindow!Remember(p)
  BY SampleRemembered DEF HearSample
<1>3. IF mode[n] = "normal" THEN Due(n)' = [Due(n) EXCEPT ![p] = @ + 1] \/ Due(n)' = Due(n)
      ELSE Due(n)' = Due(n)
  BY <1>1, PutDue, DueSame DEF HearSample
<1>4. UNCHANGED <<mode[n], Known(n), Shown(advertised[n])>>
  BY KnownKept DEF HearSample, Shown, IsSample, Key
<1>5. MeshNode(n)!HearSample(p)
  BY <1>1, <1>2, <1>3, <1>4 DEF MeshNode!HearSample, MeshNode!Owe, Due, Known
<1> QED BY <1>5 DEF MeshNode!Step, MeshNode!Next

LEMMA HearCommandStep ==
    ASSUME TypeInv, TypeInv', NEW n \in Nodes, NEW p \in Broadcast, HearCommand(n, p)
    PROVE  MeshNode(n)!Step
<1> PICK k : k = Key(p)
  OBVIOUS
<1>1. k \in Keys /\ k = Shown(p) /\ p \in Packet /\ k.cmd = p.cmd
  BY ShownIs DEF Packet, Key
<1>2. CASE CommandCache!contains(seen_command[n], k)
  BY <1>2, NodeStutters DEF HearCommand
<1>3. CASE ~CommandCache!contains(seen_command[n], k)
  <2>1. MeshNode(n)!CommandWindow!Remember(k)
    BY <1>1, <1>3, CommandRemembered DEF HearCommand
  <2>2. Due(n)' = [Due(n) EXCEPT ![k] = @ + 1] \/ Due(n)' = Due(n)
    BY <1>1, <1>3, PutDue DEF HearCommand
  <2>3. UNCHANGED <<Recent(n), Shown(advertised[n])>>
    BY RecentKept DEF HearCommand, Shown, IsSample, Key
  <2>4. mode'[n] = CASE k \in {j \in Keys : j.cmd = CMD_SLEEP} -> "low_power"
                     [] k \in {j \in Keys : j.cmd = CMD_MEASURE} -> "normal"
                     [] OTHER -> mode[n]
    <3>1. mode'[n] = IF p.cmd = CMD_MEASURE THEN "normal" ELSE "low_power"
      BY <1>3 DEF HearCommand, TypeInv, TypeOK
    <3>2. k.cmd \in {CMD_SLEEP, CMD_MEASURE} /\ CMD_SLEEP # CMD_MEASURE
      BY <1>1, FloodMeshAssumption DEF Keys, Cmds
    <3> QED BY <1>1, <3>1, <3>2
  <2>5. MeshNode(n)!HearCommand(k)
    BY <2>1, <2>2, <2>3, <2>4 DEF MeshNode!HearCommand, MeshNode!Owe, Due, Recent
  <2> QED BY <1>1, <2>5 DEF MeshNode!Step, MeshNode!Next
<1> QED BY <1>2, <1>3

\* A node that has nothing: its windows and what it owes.
LEMMA NodeEmpty ==
    /\ \A n \in Nodes : msgq[n] = <<>> => Due(n) = [k \in Sample \cup Keys |-> 0]
    /\ \A n \in Nodes : seen_sensor[n] = SensorCache!Empty => Recent(n) = <<>>
    /\ \A n \in Nodes : seen_command[n] = CommandCache!Empty => Known(n) = <<>>
<1>1. ASSUME NEW n \in Nodes, msgq[n] = <<>>, NEW k PROVE Owed(n, k) = 0
  <2>1. {i \in DOMAIN msgq[n] : Shown(msgq[n][i]) = k} = {}
    BY <1>1
  <2> QED BY <2>1, FS_EmptySet DEF Owed
<1> QED BY <1>1, EmptyCaches DEF Due, Recent, Known

LEMMA NodeEmptyNext ==
    /\ \A n \in Nodes : msgq'[n] = <<>> => Due(n)' = [k \in Sample \cup Keys |-> 0]
    /\ \A n \in Nodes : seen_sensor'[n] = SensorCache!Empty => Recent(n)' = <<>>
    /\ \A n \in Nodes : seen_command'[n] = CommandCache!Empty => Known(n)' = <<>>
<1>1. ASSUME NEW n \in Nodes, msgq'[n] = <<>>, NEW k PROVE Owed(n, k)' = 0
  <2>1. {i \in DOMAIN msgq'[n] : Shown(msgq'[n][i]) = k} = {}
    BY <1>1
  <2> QED BY <2>1, FS_EmptySet DEF Owed
<1>2. /\ \A n \in Nodes :
            seen_sensor'[n] = SensorCache!Empty =>
                Recent(n)' = SensorCache!OldestFirst(SensorCache!Empty)
      /\ \A n \in Nodes :
            seen_command'[n] = CommandCache!Empty =>
                Known(n)' = CommandCache!OldestFirst(CommandCache!Empty)
  BY DEF Recent, Known, SensorCache!OldestFirst, SensorCache!Full,
         CommandCache!OldestFirst, CommandCache!Full
<1> QED BY <1>1, <1>2, EmptyCaches DEF Due

LEMMA NodeRebootsStep ==
    ASSUME TypeInv, NEW n \in Nodes, NodeReboots(n)
    PROVE  MeshNode(n)!Step
<1>1. /\ mode'[n] = "normal" /\ msgq'[n] = <<>> /\ advertised'[n] = NoPacket
      /\ seen_sensor'[n] = SensorCache!Empty /\ seen_command'[n] = CommandCache!Empty
  BY DEF NodeReboots, TypeInv, TypeOK
<1>2. /\ Due(n)' = [k \in Sample \cup Keys |-> 0]
      /\ Recent(n)' = <<>> /\ Known(n)' = <<>>
  BY <1>1, NodeEmptyNext
<1>3. Shown(advertised[n])' = NoPacket
  BY <1>1, ShownIs DEF Shown, IsSample, Key
<1>4. MeshNode(n)!Reboot
  BY <1>1, <1>2, <1>3 DEF MeshNode!Reboot, MeshNode!Packets, Due, Recent, Known
<1> QED BY <1>4 DEF MeshNode!Step, MeshNode!Next

\* Every step of the mesh is, for each node, a step of its MeshNode or none.
LEMMA NodesStep ==
    ASSUME TypeInv, TypeInv', [Next]_vars, NEW m \in Nodes
    PROVE  MeshNode(m)!Step
<1>0. /\ mode \in [Nodes -> {"normal", "low_power"}] /\ msgq \in [Nodes -> Seq(Packet)]
      /\ seen_sensor \in [Nodes -> SensorCaches] /\ seen_command \in [Nodes -> CommandCaches]
      /\ advertised \in [Nodes -> Packet \cup {NoPacket}]
  BY DEF TypeInv, TypeOK
<1>1. ASSUME NEW n \in Nodes \ {m},
             \/ NodeSamples(n) \/ Relay(n) \/ StopAdvertising(n) \/ NodeReboots(n)
             \/ \E p \in Sample : HearSample(n, p)
             \/ \E p \in Broadcast : HearCommand(n, p)
      PROVE  MeshNode(m)!Step
  <2>1. /\ mode'[m] = mode[m] /\ msgq'[m] = msgq[m] /\ advertised'[m] = advertised[m]
        /\ seen_sensor'[m] = seen_sensor[m] /\ seen_command'[m] = seen_command[m]
    BY <1>0, <1>1 DEF NodeSamples, Relay, StopAdvertising, NodeReboots, HearSample,
       HearCommand, k_msgq_put, caches
  <2> QED BY <2>1, NodeStutters
<1>2. ASSUME NEW n \in Nodes, device_found(n)
      PROVE  \/ \E p \in Sample : HearSample(n, p)
             \/ \E p \in Broadcast : HearCommand(n, p)
  <2>1. PICK p \in OnAir(n) \ {NoPacket} :
            IF IsSample(p) THEN HearSample(n, p) ELSE HearCommand(n, p)
    BY <1>2 DEF device_found
  <2>2. p \in Packet
    BY DEF OnAir, TypeInv, TypeOK, Packet
  <2> QED BY <2>1, <2>2, PacketKinds DEF Packet
<1>3. CASE NodeSamples(m) \/ Relay(m) \/ StopAdvertising(m) \/ NodeReboots(m)
  BY <1>3, NodeSamplesStep, RelayStep, StopAdvertisingStep, NodeRebootsStep
<1>4. CASE device_found(m)
  BY <1>2, <1>4, HearSampleStep, HearCommandStep
<1>5. CASE UNCHANGED <<mode, msgq, caches, advertised>>
  BY <1>5, NodeStutters DEF caches
<1>6. ASSUME NEW cmd \in Cmds, Order(cmd) PROVE UNCHANGED <<mode, msgq, caches, advertised>>
  BY <1>6 DEF Order
<1>7. CASE StartBroadcast \/ StopBroadcast \/ MobileReboots \/ UNCHANGED vars
  BY <1>5, <1>7 DEF StartBroadcast, StopBroadcast, MobileReboots, vars
<1> QED BY <1>1, <1>2, <1>3, <1>4, <1>5, <1>6, <1>7 DEF Next

LEMMA NodesInit == ASSUME Init, NEW n \in Nodes PROVE MeshNode(n)!Init
<1>1. /\ mode[n] = "normal" /\ msgq[n] = <<>> /\ advertised[n] = NoPacket
      /\ seen_sensor[n] = SensorCache!Empty /\ seen_command[n] = CommandCache!Empty
  BY DEF Init
<1> QED
  BY <1>1, NodeEmpty, ShownIs DEF MeshNode!Init, MeshNode!Packets, Due, Recent, Known

\* In every mesh each node is a MeshNode: what it advertises it sampled or heard, once
\* for each time it was new to it, and it obeys a command exactly when it is new.
THEOREM Refinement == Spec => NodesAreMeshNodes
<1>1. Init => \A n \in Nodes : MeshNode(n)!Init
  BY NodesInit
<1>2. TypeInv /\ TypeInv' /\ [Next]_vars => [\A n \in Nodes : MeshNode(n)!Step]_vars
  BY NodesStep
<1> QED
  BY <1>1, <1>2, TypeInit, TypeNext, PTL DEF Spec, NodesAreMeshNodes
=============================================================================
