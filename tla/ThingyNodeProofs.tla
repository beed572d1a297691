-------------------------- MODULE ThingyNodeProofs --------------------------
(***************************************************************************)
(* Theorems about ThingyNode, for every size of queue and caches, every    *)
(* set of peers and commands, and any number of refused requests: its type *)
(* invariant; that the caches implement SeenWindow; that scan_thread knows *)
(* whether it scans; that at most one sample leaks out in low power; that  *)
(* sensors_suspended can be believed; and that the node, threads, queue    *)
(* and all, implements MeshNode.                                           *)
(***************************************************************************)
EXTENDS ThingyNode, QueueProofs, TLAPS

SensorLemmas == INSTANCE SeenCacheProofs WITH SIZE <- SEEN_SENSOR_CACHE_SIZE
CommandLemmas == INSTANCE SeenCacheProofs WITH SIZE <- SEEN_COMMAND_CACHE_SIZE

SensorCaches == SensorLemmas!Reachable(Sample)
CommandCaches == CommandLemmas!Reachable(Command)

-----------------------------------------------------------------------------
(* The invariants.                                                         *)

\* The caches are moreover such as the operations build them.
TypeInv ==
    /\ TypeOK
    /\ seen_sensor_cache \in SensorCaches
    /\ seen_command_cache \in CommandCaches

\* A sample is let out in low power only if flood_thread looked at the mode before it
\* changed: once it was let out, flood_thread does not hold another.
LeakInv ==
    /\ leaks <= 1
    /\ current_mode = "normal" => leaks = 0
    /\ at["flood"] = "advertise" /\ IsSample(packet) => leaks = 0

Resumers == {"sensor", "scan", "rx"}

\* Where scan_thread may be when the controller scans.
ScanPlaces ==
    /\ scan_running = scanning
    /\ scanning => at["scan"] \in {"loop", "stop", "listening", "unlisten"}
    /\ at["scan"] = "scan" => current_mode = "normal"
    /\ at["scan"] = "listen" => current_mode = "low_power"

\* A node in normal mode has its sensors on, or device_found sees to it, unless
\* scan_thread is in a turn of low power; and nobody hears of a command until it has.
AwakePlaces ==
    /\ at["scan"] \in {"start", "loop", "scan", "listening", "unlisten"}
            /\ current_mode = "normal" =>
          ~sensors_suspended \/ at["rx"] \in Resumes
    /\ at["scan"] = "loop" /\ scanning => ~sensors_suspended \/ at["rx"] \in Resumes
    /\ at["scan"] \in {"stop", "settle"} \cup Suspends => ~sensors_suspended
    /\ at["rx"] # "idle" =>
          current_mode = "normal" /\ at["scan"] \in {"loop", "scan", "listening", "unlisten"}
    /\ at["rx"] # "resume"

\* Whoever still resumes what another has resumed keeps that one from going on.
Overlap ==
    \A t \in Resumers :
        at[t] \in Resumes /\ ~sensors_suspended =>
            \E u \in Resumers \ {t} : at[u] = "settle"

\* What the transfers have done so far: a sensor is on, or off, unless its last one
\* failed.
On(s) == s \in power \cup failed
Off(s) == s \notin power \ failed

PowerSoFar ==
    /\ at["scan"] = "suspend_hts" => On("hts221") /\ On("ccs811")
    /\ at["scan"] = "suspend_ccs" => Off("hts221") /\ On("ccs811")
    /\ at["scan"] = "suspend_flag" => Off("hts221") /\ Off("ccs811")
    /\ \A t \in Resumers : at[t] = "resume_ccs" => On("hts221")
    /\ \A t \in Resumers : at[t] = "resume_flag" => On("hts221") /\ On("ccs811")
    /\ ~sensors_suspended /\ at["scan"] \notin Suspends => On("hts221") /\ On("ccs811")
    /\ sensors_suspended =>
          (Off("hts221") /\ Off("ccs811")) \/ \E t \in Resumers : at[t] \in Resumes

SensorInv == RadioObeys => ScanPlaces /\ AwakePlaces /\ Overlap /\ PowerSoFar

-----------------------------------------------------------------------------
(* Packets, caches and places.                                             *)

\* Packets and what is no packet can be told apart.
LEMMA PacketKinds ==
    /\ NoPacket \notin Packet
    /\ NoPacket \notin Sample
    /\ NoPacket \notin Command
    /\ \A p \in Sample : IsSample(p)
    /\ \A p \in Command : ~IsSample(p)
<1>1. \A p \in Sample : DOMAIN p = {"origin", "seq"}
  BY DEF Sample
<1>2. \A p \in Command : DOMAIN p = {"seq", "cmd"}
  BY DEF Command
<1>3. DOMAIN NoPacket = {}
  BY DEF NoPacket, SensorCache!NoPacket
<1> QED
  BY <1>1, <1>2, <1>3 DEF Packet, IsSample

\* The operators that SeenCacheProofs is about are those of ThingyNode.
LEMMA SameSensorOperators ==
    /\ SensorCache!Empty = SensorLemmas!Empty
    /\ \A c : SensorCache!OldestFirst(c) = SensorLemmas!OldestFirst(c)
    /\ \A c, p : SensorCache!check_and_add(c, p) = SensorLemmas!check_and_add(c, p)
BY DEF SensorCache!Empty, SensorLemmas!Empty, SensorCache!OldestFirst,
       SensorLemmas!OldestFirst, SensorCache!check_and_add, SensorLemmas!check_and_add,
       SensorCache!contains, SensorLemmas!contains, SensorCache!add, SensorLemmas!add,
       SensorCache!Full, SensorLemmas!Full, SensorCache!InCircle, SensorLemmas!InCircle,
       SensorCache!Slots, SensorLemmas!Slots, SensorCache!NoPacket, SensorLemmas!NoPacket

LEMMA SameCommandOperators ==
    /\ CommandCache!Empty = CommandLemmas!Empty
    /\ \A c : CommandCache!OldestFirst(c) = CommandLemmas!OldestFirst(c)
    /\ \A c, p : CommandCache!check_and_add(c, p) = CommandLemmas!check_and_add(c, p)
BY DEF CommandCache!Empty, CommandLemmas!Empty, CommandCache!OldestFirst,
       CommandLemmas!OldestFirst, CommandCache!check_and_add, CommandLemmas!check_and_add,
       CommandCache!contains, CommandLemmas!contains, CommandCache!add, CommandLemmas!add,
       CommandCache!Full, CommandLemmas!Full, CommandCache!InCircle, CommandLemmas!InCircle,
       CommandCache!Slots, CommandLemmas!Slots, CommandCache!NoPacket, CommandLemmas!NoPacket

\* A cache, and the window it stands for, after a call of check_and_add.
LEMMA SensorCacheStep ==
    ASSUME NEW cache \in SensorCaches, NEW p \in Sample
    PROVE  /\ SensorCache!check_and_add(cache, p) \in SensorCaches
           /\ SensorLemmas!Remembers(SensorCache!OldestFirst(cache),
                  SensorCache!OldestFirst(SensorCache!check_and_add(cache, p)), p)
<1>1. SensorLemmas!NoPacket \notin Sample
  BY PacketKinds DEF NoPacket, SensorCache!NoPacket, SensorLemmas!NoPacket
<1>2. /\ SensorLemmas!check_and_add(cache, p) \in SensorCaches
      /\ SensorLemmas!Remembers(SensorLemmas!OldestFirst(cache),
             SensorLemmas!OldestFirst(SensorLemmas!check_and_add(cache, p)), p)
  BY <1>1, ThingyNodeAssumption, SensorLemmas!CheckAndAdd DEF SensorCaches
<1> QED BY <1>2, SameSensorOperators

LEMMA CommandCacheStep ==
    ASSUME NEW cache \in CommandCaches, NEW p \in Command
    PROVE  /\ CommandCache!check_and_add(cache, p) \in CommandCaches
           /\ CommandLemmas!Remembers(CommandCache!OldestFirst(cache),
                  CommandCache!OldestFirst(CommandCache!check_and_add(cache, p)), p)
<1>1. CommandLemmas!NoPacket \notin Command
  BY PacketKinds DEF NoPacket, SensorCache!NoPacket, CommandLemmas!NoPacket
<1>2. /\ CommandLemmas!check_and_add(cache, p) \in CommandCaches
      /\ CommandLemmas!Remembers(CommandLemmas!OldestFirst(cache),
             CommandLemmas!OldestFirst(CommandLemmas!check_and_add(cache, p)), p)
  BY <1>1, ThingyNodeAssumption, CommandLemmas!CheckAndAdd DEF CommandCaches
<1> QED BY <1>2, SameCommandOperators

\* What a cache contains is what its window holds; and what it does not, check_and_add
\* puts there.
LEMMA SensorContents ==
    ASSUME NEW cache \in SensorCaches, NEW p \in Sample
    PROVE  LET recent == SensorCache!OldestFirst(cache)
               after == SensorCache!OldestFirst(SensorCache!check_and_add(cache, p))
           IN  /\ SensorCache!contains(cache, p) =>
                      p \in {recent[i] : i \in DOMAIN recent}
               /\ ~SensorCache!contains(cache, p) =>
                      /\ p \notin {recent[i] : i \in DOMAIN recent}
                      /\ after = IF Len(recent) < SEEN_SENSOR_CACHE_SIZE
                                 THEN Append(recent, p) ELSE Append(Tail(recent), p)
<1>1. SensorLemmas!NoPacket \notin Sample
  BY PacketKinds DEF NoPacket, SensorCache!NoPacket, SensorLemmas!NoPacket
<1>2. SensorCache!contains(cache, p) <=> SensorLemmas!contains(cache, p)
  BY DEF SensorCache!contains, SensorLemmas!contains, SensorCache!Slots, SensorLemmas!Slots
<1>3. CASE SensorCache!contains(cache, p)
  <2>1. p \in {SensorLemmas!OldestFirst(cache)[i] : i \in DOMAIN SensorLemmas!OldestFirst(cache)}
    BY <1>1, <1>2, <1>3, ThingyNodeAssumption, SensorLemmas!ContainsWindow DEF SensorCaches
  <2> QED BY <1>3, <2>1, SameSensorOperators
<1>4. CASE ~SensorCache!contains(cache, p)
  <2> DEFINE recent == SensorLemmas!OldestFirst(cache)
  <2>1. /\ p \notin {recent[i] : i \in DOMAIN recent}
        /\ SensorLemmas!OldestFirst(SensorLemmas!check_and_add(cache, p)) =
               IF Len(recent) < SEEN_SENSOR_CACHE_SIZE
               THEN Append(recent, p) ELSE Append(Tail(recent), p)
    BY <1>1, <1>2, <1>4, ThingyNodeAssumption, SensorLemmas!NewIsRemembered DEF SensorCaches
  <2> QED BY <1>4, <2>1, SameSensorOperators
<1> QED BY <1>3, <1>4

LEMMA CommandContents ==
    ASSUME NEW cache \in CommandCaches, NEW p \in Command
    PROVE  LET recent == CommandCache!OldestFirst(cache)
               after == CommandCache!OldestFirst(CommandCache!check_and_add(cache, p))
           IN  /\ CommandCache!contains(cache, p) =>
                      p \in {recent[i] : i \in DOMAIN recent}
               /\ ~CommandCache!contains(cache, p) =>
                      /\ p \notin {recent[i] : i \in DOMAIN recent}
                      /\ after = IF Len(recent) < SEEN_COMMAND_CACHE_SIZE
                                 THEN Append(recent, p) ELSE Append(Tail(recent), p)
<1>1. CommandLemmas!NoPacket \notin Command
  BY PacketKinds DEF NoPacket, SensorCache!NoPacket, CommandLemmas!NoPacket
<1>2. CommandCache!contains(cache, p) <=> CommandLemmas!contains(cache, p)
  BY DEF CommandCache!contains, CommandLemmas!contains, CommandCache!Slots, CommandLemmas!Slots
<1>3. CASE CommandCache!contains(cache, p)
  <2>1. p \in {CommandLemmas!OldestFirst(cache)[i] : i \in DOMAIN CommandLemmas!OldestFirst(cache)}
    BY <1>1, <1>2, <1>3, ThingyNodeAssumption, CommandLemmas!ContainsWindow DEF CommandCaches
  <2> QED BY <1>3, <2>1, SameCommandOperators
<1>4. CASE ~CommandCache!contains(cache, p)
  <2> DEFINE recent == CommandLemmas!OldestFirst(cache)
  <2>1. /\ p \notin {recent[i] : i \in DOMAIN recent}
        /\ CommandLemmas!OldestFirst(CommandLemmas!check_and_add(cache, p)) =
               IF Len(recent) < SEEN_COMMAND_CACHE_SIZE
               THEN Append(recent, p) ELSE Append(Tail(recent), p)
    BY <1>1, <1>2, <1>4, ThingyNodeAssumption, CommandLemmas!NewIsRemembered DEF CommandCaches
  <2> QED BY <1>4, <2>1, SameCommandOperators
<1> QED BY <1>3, <1>4

\* What the caches are when the node starts.
LEMMA EmptyCaches ==
    /\ SensorCache!Empty \in SensorCaches /\ SensorCache!OldestFirst(SensorCache!Empty) = <<>>
    /\ CommandCache!Empty \in CommandCaches
    /\ CommandCache!OldestFirst(CommandCache!Empty) = <<>>
<1>1. /\ SensorLemmas!Empty \in SensorCaches
      /\ SensorLemmas!OldestFirst(SensorLemmas!Empty) = <<>>
  BY ThingyNodeAssumption, SensorLemmas!EmptyReachable DEF SensorCaches
<1>2. /\ CommandLemmas!Empty \in CommandCaches
      /\ CommandLemmas!OldestFirst(CommandLemmas!Empty) = <<>>
  BY ThingyNodeAssumption, CommandLemmas!EmptyReachable DEF CommandCaches
<1> QED BY <1>1, <1>2, SameSensorOperators, SameCommandOperators

\* The caches of TypeInv are caches.
LEMMA CachesReachable ==
    /\ SensorCaches \subseteq SensorCache!Caches(Sample)
    /\ CommandCaches \subseteq CommandCache!Caches(Command)
BY DEF SensorCaches, CommandCaches, SensorLemmas!Reachable, CommandLemmas!Reachable,
       SensorCache!Caches, SensorLemmas!Caches, CommandCache!Caches, CommandLemmas!Caches,
       SensorCache!Slots, SensorLemmas!Slots, CommandCache!Slots, CommandLemmas!Slots,
       SensorCache!NoPacket, SensorLemmas!NoPacket, CommandCache!NoPacket,
       CommandLemmas!NoPacket

\* Where each can be.
Actors == {"main", "sensor", "flood", "scan", "rx"}

AtOK ==
    /\ at \in [Actors -> UNION {Places[t] : t \in Actors}]
    /\ \A t \in Actors : at[t] \in Places[t]

LEMMA PlacesOf ==
    /\ DOMAIN Places = Actors
    /\ Places["main"] = {"start", "done"}
    /\ Places["sensor"] = {"start", "check", "read", "add", "put"} \cup Resuming
    /\ Places["flood"] = {"start", "get", "check", "advertise"}
    /\ Places["scan"] = {"start", "loop", "scan", "stop", "quiet", "suspend", "suspend_hts",
                         "suspend_ccs", "suspend_flag", "sleep", "listen", "listening",
                         "unlisten"} \cup Resuming
    /\ Places["rx"] = {"idle"} \cup Resuming
BY DEF Places, Actors

\* Goto moves one and leaves the others where they are.
LEMMA Moves ==
    ASSUME AtOK, NEW t \in Actors, NEW place \in Places[t], Goto(t, place)
    PROVE  /\ AtOK'
           /\ at'[t] = place
           /\ \A u \in Actors \ {t} : at'[u] = at[u]
<1>1. place \in UNION {Places[u] : u \in Actors}
  OBVIOUS
<1>2. at' = [at EXCEPT ![t] = place]
  BY DEF Goto
<1>3. at \in [Actors -> UNION {Places[u] : u \in Actors}]
  BY DEF AtOK
<1>4. at' \in [Actors -> UNION {Places[u] : u \in Actors}]
  BY <1>1, <1>2, <1>3
<1>5. at'[t] = place /\ \A u \in Actors \ {t} : at'[u] = at[u]
  BY <1>2, <1>3
<1>6. \A u \in Actors : at'[u] \in Places[u]
  BY <1>5 DEF AtOK
<1> QED BY <1>4, <1>5, <1>6 DEF AtOK

\* k_msgq_put keeps the queue's shape and bound.
LEMMA PutTyped ==
    ASSUME NEW p \in Packet, TypeOK, k_msgq_put(p)
    PROVE  flood_msgq' \in Seq(Packet) /\ Len(flood_msgq') <= FLOOD_QUEUE_SIZE
BY ThingyNodeAssumption DEF TypeOK, k_msgq_put

-----------------------------------------------------------------------------
(* Type correctness.                                                       *)

\* The part of the state other than the places.
RestOK ==
    /\ bt_ready_sem \in 0 .. 3
    /\ current_mode \in {"normal", "low_power"}
    /\ seq \in Seqs
    /\ packet \in Packet \cup {NoPacket}
    /\ flood_msgq \in Seq(Packet) /\ Len(flood_msgq) <= FLOOD_QUEUE_SIZE
    /\ seen_sensor_cache \in SensorCaches
    /\ seen_command_cache \in CommandCaches
    /\ advertised \in Packet \cup {NoPacket}
    /\ scanning \in BOOLEAN /\ scan_running \in BOOLEAN
    /\ power \subseteq Sensors
    /\ sensors_suspended \in BOOLEAN
    /\ errors \in 0 .. MAX_ERRORS
    /\ failed \subseteq Sensors \cup {"radio"}
    /\ leaks \in Nat

\* What flood_thread holds, where it uses it.
HeldOK ==
    /\ packet \in Packet <=> at["flood"] \in {"check", "advertise"}
    /\ at["flood"] = "check" => IsSample(packet)

LEMMA TypeParts ==
    /\ TypeInv <=> AtOK /\ RestOK /\ HeldOK
    /\ TypeInv' <=> AtOK' /\ RestOK' /\ HeldOK'
BY PlacesOf, CachesReachable DEF TypeInv, TypeOK, AtOK, RestOK, HeldOK

LEMMA TypeInit == Init => TypeInv
<1> SUFFICES ASSUME Init PROVE AtOK /\ RestOK /\ HeldOK
  BY TypeParts
<1>1. seen_sensor_cache \in SensorCaches /\ seen_command_cache \in CommandCaches
  BY EmptyCaches DEF Init
<1>2. \A t \in Actors : at[t] = IF t = "rx" THEN "idle" ELSE "start"
  BY PlacesOf DEF Init
<1>3. \A t \in Actors : at[t] \in Places[t]
  BY <1>2, PlacesOf DEF Actors
<1>4. at \in [Actors -> UNION {Places[t] : t \in Actors}]
  <2> DEFINE placeOf(t) == IF t = "rx" THEN "idle" ELSE "start"
  <2>1. at = [t \in Actors |-> placeOf(t)]
    BY PlacesOf DEF Init
  <2>2. \A t \in Actors : placeOf(t) \in UNION {Places[u] : u \in Actors}
    BY <1>2, <1>3
  <2> HIDE DEF placeOf
  <2> QED BY <2>1, <2>2
<1>5. HeldOK
  <2>1. packet \notin Packet
    BY PacketKinds DEF Init
  <2> QED BY <1>2, <2>1 DEF Actors, HeldOK
<1>6. 0 \in Seqs /\ MAX_ERRORS \in 0 .. MAX_ERRORS /\ FLOOD_QUEUE_SIZE \in Nat
  BY ThingyNodeAssumption DEF Seqs
<1>7. flood_msgq = <<>> /\ <<>> \in Seq(Packet) /\ Len(<<>>) = 0
  BY DEF Init
<1>8. RestOK
  <2>1. /\ power \subseteq Sensors /\ sensors_suspended \in BOOLEAN
        /\ scanning \in BOOLEAN /\ scan_running \in BOOLEAN
    BY Zenon DEF Init
  <2>2. /\ bt_ready_sem = 0 /\ current_mode = "normal" /\ seq = 0 /\ packet = NoPacket
        /\ advertised = NoPacket /\ errors = MAX_ERRORS /\ failed = {}
        /\ leaks = 0
    BY DEF Init
  <2>3. FLOOD_QUEUE_SIZE \in Nat /\ 0 <= FLOOD_QUEUE_SIZE
    BY <1>6
  <2>4. flood_msgq \in Seq(Packet) /\ Len(flood_msgq) <= FLOOD_QUEUE_SIZE
    BY <1>7, <2>3
  <2> QED BY <1>1, <1>6, <2>1, <2>2, <2>4 DEF RestOK
<1> QED
  BY <1>3, <1>4, <1>5, <1>8 DEF AtOK

\* A step of sensor_thread, scan_thread, device_found or main, which flood_thread and
\* its packet do not take part in.
LEMMA OtherMoves ==
    ASSUME AtOK, HeldOK, NEW t \in Actors \ {"flood"}, NEW place \in Places[t],
           Goto(t, place), packet' = packet
    PROVE  AtOK' /\ HeldOK'
<1>1. AtOK' /\ \A u \in Actors \ {t} : at'[u] = at[u]
  BY Moves
<1>2. at'["flood"] = at["flood"]
  BY <1>1 DEF Actors
<1> QED BY <1>1, <1>2 DEF HeldOK

\* A bus transfer, failing or not.
LEMMA TransferTyped ==
    ASSUME RestOK, NEW sensor \in Sensors, NEW powered \in SUBSET Sensors,
           pm_device_action_run(sensor, powered)
    PROVE  /\ power' \subseteq Sensors
           /\ errors' \in 0 .. MAX_ERRORS
           /\ failed' \subseteq Sensors \cup {"radio"}
<1>1. MAX_ERRORS \in Nat
  BY ThingyNodeAssumption
<1> QED BY <1>1 DEF pm_device_action_run, Refused, RestOK

\* resume_sensors and suspend_sensors, as each thread calls them.
LEMMA ResumeTyped ==
    ASSUME TypeInv, NEW t \in Actors \ {"flood"}, NEW next \in Places[t],
           Resuming \subseteq Places[t], resume_sensors(t, next)
    PROVE  TypeInv'
<1> USE DEF RestOK
<1>1. AtOK /\ RestOK /\ HeldOK
  BY TypeParts
<1>2. RestOK'
  <2>1. /\ UNCHANGED unpower
        /\ sensors_suspended' \in BOOLEAN
    BY <1>1, Zenon DEF resume_sensors, sensors
  <2>2. \/ UNCHANGED <<power, faults>>
        \/ \E s \in Sensors : pm_device_action_run(s, power \cup {s})
    BY DEF resume_sensors, sensors, Sensors
  <2>3. /\ power' \subseteq Sensors
        /\ errors' \in 0 .. MAX_ERRORS
        /\ failed' \subseteq Sensors \cup {"radio"}
    <3>1. CASE UNCHANGED <<power, faults>>
      BY <1>1, <3>1 DEF faults
    <3>2. ASSUME NEW s \in Sensors, pm_device_action_run(s, power \cup {s})
          PROVE  /\ power' \subseteq Sensors
                 /\ errors' \in 0 .. MAX_ERRORS
                 /\ failed' \subseteq Sensors \cup {"radio"}
      <4>1. power \cup {s} \in SUBSET Sensors
        BY <1>1
      <4> QED BY <1>1, <3>2, <4>1, TransferTyped
    <3> QED BY <2>2, <3>1, <3>2
  <2> QED BY <1>1, <2>1, <2>3 DEF unpower, caches
<1>3. packet' = packet
  BY DEF resume_sensors, unpower
<1>4. PICK place \in Places[t] : Goto(t, place)
  <2>1. {"resume_hts", "resume_ccs", "resume_flag", "settle"} \subseteq Places[t]
    BY DEF Resuming
  <2> QED BY <2>1 DEF resume_sensors
<1> QED BY <1>1, <1>2, <1>3, <1>4, OtherMoves, TypeParts

LEMMA SuspendTyped ==
    ASSUME TypeInv, suspend_sensors("scan", "sleep")
    PROVE  TypeInv'
<1> USE DEF RestOK
<1>1. AtOK /\ RestOK /\ HeldOK
  BY TypeParts
<1>2. RestOK'
  <2>1. /\ UNCHANGED unpower
        /\ sensors_suspended' \in BOOLEAN
    BY <1>1, Zenon DEF suspend_sensors, sensors
  <2>2. \/ UNCHANGED <<power, faults>>
        \/ \E s \in Sensors : pm_device_action_run(s, power \ {s})
    BY DEF suspend_sensors, sensors, Sensors
  <2>3. /\ power' \subseteq Sensors
        /\ errors' \in 0 .. MAX_ERRORS
        /\ failed' \subseteq Sensors \cup {"radio"}
    <3>1. CASE UNCHANGED <<power, faults>>
      BY <1>1, <3>1 DEF faults
    <3>2. ASSUME NEW s \in Sensors, pm_device_action_run(s, power \ {s})
          PROVE  /\ power' \subseteq Sensors
                 /\ errors' \in 0 .. MAX_ERRORS
                 /\ failed' \subseteq Sensors \cup {"radio"}
      <4>1. power \ {s} \in SUBSET Sensors
        BY <1>1
      <4> QED BY <1>1, <3>2, <4>1, TransferTyped
    <3> QED BY <2>2, <3>1, <3>2
  <2> QED BY <1>1, <2>1, <2>3 DEF unpower, caches
<1>3. packet' = packet
  BY DEF suspend_sensors, unpower
<1>4. {"suspend_hts", "suspend_ccs", "suspend_flag", "sleep"} \subseteq Places["scan"]
  BY PlacesOf
<1>5. PICK place \in Places["scan"] : Goto("scan", place)
  BY <1>4 DEF suspend_sensors
<1>6. "scan" \in Actors \ {"flood"}
  BY DEF Actors
<1> QED BY <1>1, <1>2, <1>3, <1>5, <1>6, OtherMoves, TypeParts

LEMMA TypeNext == TypeInv /\ [Next]_vars => TypeInv'
<1> SUFFICES ASSUME TypeInv, [Next]_vars PROVE TypeInv'
  OBVIOUS
<1>0. /\ AtOK /\ RestOK /\ HeldOK
      /\ {"main", "sensor", "scan", "rx"} \subseteq Actors \ {"flood"} /\ "flood" \in Actors
      /\ SEQ_MOD \in Nat \ {0} /\ MAX_ERRORS \in Nat
  BY TypeParts, ThingyNodeAssumption DEF Actors
<1> SUFFICES AtOK' /\ RestOK' /\ HeldOK'
  BY TypeParts
<1> USE DEF RestOK, caches, radio, faults, sensors
<1>1. CASE main
  <2>1. "done" \in Places["main"]
    BY PlacesOf
  <2> QED BY <1>0, <1>1, <2>1, OtherMoves DEF main
<1>2. ASSUME NEW t \in Threads, StartThread(t) PROVE AtOK' /\ RestOK' /\ HeldOK'
  <2>1. RestOK' /\ packet' = packet
    BY <1>0, <1>2 DEF StartThread
  <2>2. CASE t = "sensor"
    <3>1. Goto("sensor", "check") /\ "check" \in Places["sensor"]
      BY <1>2, <2>2, PlacesOf DEF StartThread
    <3> QED BY <1>0, <2>1, <3>1, OtherMoves
  <2>3. CASE t = "scan"
    <3>1. Goto("scan", "loop") /\ "loop" \in Places["scan"]
      BY <1>2, <2>3, PlacesOf DEF StartThread
    <3> QED BY <1>0, <2>1, <3>1, OtherMoves
  <2>4. CASE t = "flood"
    <3>1. Goto("flood", "get") /\ "get" \in Places["flood"]
      BY <1>2, <2>4, PlacesOf DEF StartThread
    <3>2. AtOK' /\ at'["flood"] = "get"
      BY <1>0, <3>1, Moves
    <3>3. packet \notin Packet
      BY <1>0, <1>2, <2>4 DEF HeldOK, StartThread
    <3> QED BY <2>1, <3>2, <3>3 DEF HeldOK
  <2> QED BY <2>2, <2>3, <2>4 DEF Threads
<1>3. CASE sensor_thread
  <2>1. CASE CheckSampling
    <3>1. "resume" \in Places["sensor"]
      BY PlacesOf DEF Resuming
    <3> QED BY <1>0, <2>1, <3>1, OtherMoves DEF CheckSampling
  <2>2. CASE resume_sensors("sensor", "read")
    <3>1. "read" \in Places["sensor"] /\ Resuming \subseteq Places["sensor"]
      BY PlacesOf
    <3> QED BY <1>0, <2>2, <3>1, ResumeTyped, TypeParts
  <2>3. CASE ReadSensors
    <3>1. "add" \in Places["sensor"] /\ seq' \in Seqs
      BY <1>0, <2>3, PlacesOf DEF ReadSensors, Seqs
    <3> QED BY <1>0, <2>3, <3>1, OtherMoves DEF ReadSensors
  <2>4. CASE RememberOwn
    <3>1. OwnSample \in Sample /\ "put" \in Places["sensor"]
      BY <1>0, PlacesOf DEF OwnSample, Sample
    <3>2. seen_sensor_cache' \in SensorCaches
      BY <1>0, <2>4, <3>1, SensorCacheStep DEF RememberOwn
    <3> QED BY <1>0, <2>4, <3>1, <3>2, OtherMoves DEF RememberOwn
  <2>5. CASE QueueOwn
    <3>1. OwnSample \in Packet /\ "check" \in Places["sensor"]
      BY <1>0, PlacesOf DEF OwnSample, Sample, Packet
    <3>2. flood_msgq' \in Seq(Packet) /\ Len(flood_msgq') <= FLOOD_QUEUE_SIZE
      BY <2>5, <3>1, PutTyped DEF QueueOwn, TypeInv
    <3> QED BY <1>0, <2>5, <3>1, <3>2, OtherMoves DEF QueueOwn
  <2> QED BY <1>2, <1>3, <2>1, <2>2, <2>3, <2>4, <2>5 DEF sensor_thread, Threads
<1>4. CASE flood_thread
  <2>0. {"get", "check", "advertise"} \subseteq Places["flood"]
    BY PlacesOf
  <2>1. CASE GetPacket
    <3>1. packet' \in Packet /\ flood_msgq' \in Seq(Packet)
          /\ Len(flood_msgq') <= FLOOD_QUEUE_SIZE
      <4>1. flood_msgq \in Seq(Packet) /\ Len(flood_msgq) <= FLOOD_QUEUE_SIZE
            /\ flood_msgq # <<>>
        BY <1>0, <2>1 DEF GetPacket
      <4>2. packet' = Head(flood_msgq) /\ flood_msgq' = Tail(flood_msgq)
        BY <2>1 DEF GetPacket
      <4>3. FLOOD_QUEUE_SIZE \in Nat
        BY ThingyNodeAssumption
      <4> QED BY <4>1, <4>2, <4>3
    <3>2. AtOK' /\ at'["flood"] = IF IsSample(packet') THEN "check" ELSE "advertise"
      BY <1>0, <2>0, <2>1, Moves DEF GetPacket
    <3> QED BY <1>0, <2>1, <3>1, <3>2 DEF GetPacket, HeldOK
  <2>2. CASE CheckRelay
    <3>0. PICK place \in {"advertise", "get"} :
             /\ Goto("flood", place)
             /\ packet' = IF place = "get" THEN NoPacket ELSE packet
      BY <2>2 DEF CheckRelay
    <3>1. AtOK' /\ at'["flood"] = place
      BY <1>0, <2>0, <3>0, Moves
    <3>2. RestOK'
      BY <1>0, <2>2, <3>0 DEF CheckRelay
    <3>3. packet \in Packet
      BY <1>0, <2>2 DEF HeldOK, CheckRelay
    <3> QED BY <3>0, <3>1, <3>2, <3>3, PacketKinds DEF HeldOK
  <2>3. CASE Advertise
    <3>1. AtOK' /\ at'["flood"] = "get"
      BY <1>0, <2>0, <2>3, Moves DEF Advertise
    <3>2. packet \in Packet
      BY <1>0, <2>3 DEF HeldOK, Advertise
    <3>3. UNCHANGED faults \/ Refused("radio")
      BY <2>3, Zenon DEF Advertise
    <3>4. errors' \in 0 .. MAX_ERRORS /\ failed' \subseteq Sensors \cup {"radio"}
      BY <1>0, <3>3 DEF Refused
    <3>5. RestOK' /\ packet' = NoPacket
      BY <1>0, <2>3, <3>2, <3>4 DEF Advertise
    <3> QED BY <3>1, <3>5, PacketKinds DEF HeldOK
  <2> QED BY <1>2, <1>4, <2>1, <2>2, <2>3 DEF flood_thread, Threads
<1>5. CASE scan_thread
  <2>0. /\ {"loop", "scan", "stop", "quiet", "suspend", "sleep", "listen", "listening",
            "unlisten"} \subseteq Places["scan"]
        /\ "resume" \in Places["scan"] /\ Resuming \subseteq Places["scan"]
    BY PlacesOf DEF Resuming
  <2>1. CASE ScanLoop
    <3>1. PICK place \in Places["scan"] : Goto("scan", place)
      BY <1>0, <2>0, <2>1 DEF ScanLoop
    <3> QED BY <1>0, <2>1, <3>1, OtherMoves DEF ScanLoop, unscan
  <2>2. ASSUME NEW next \in Places["scan"], start_fast_scan(next)
        PROVE  AtOK' /\ RestOK' /\ HeldOK'
    <3>1. RestOK' /\ packet' = packet
      <4>1. UNCHANGED <<bt_ready_sem, current_mode, seq, packet, flood_msgq,
                        seen_sensor_cache, seen_command_cache, leaks, advertised, power,
                        sensors_suspended>>
        BY <2>2, Zenon DEF start_fast_scan, unscan
      <4>2. /\ scanning' = TRUE \/ scanning' = FALSE \/ scanning' = scanning
            /\ scan_running' = TRUE \/ scan_running' = FALSE \/ scan_running' = scan_running
        BY <2>2, Zenon DEF start_fast_scan
      <4>3. UNCHANGED faults \/ Refused("radio")
        BY <2>2, Zenon DEF start_fast_scan
      <4>4. scanning' \in BOOLEAN /\ scan_running' \in BOOLEAN
        BY <1>0, <4>2, Zenon
      <4>5. errors' \in 0 .. MAX_ERRORS /\ failed' \subseteq Sensors \cup {"radio"}
        BY <1>0, <4>3 DEF Refused
      <4> QED BY <1>0, <4>1, <4>4, <4>5
    <3>2. Goto("scan", next)
      BY <2>2 DEF start_fast_scan
    <3> QED BY <1>0, <3>1, <3>2, OtherMoves
  <2>3. ASSUME NEW next \in Places["scan"], stop_scan(next)
        PROVE  AtOK' /\ RestOK' /\ HeldOK'
    <3>1. RestOK' /\ packet' = packet
      <4>1. UNCHANGED <<bt_ready_sem, current_mode, seq, packet, flood_msgq,
                        seen_sensor_cache, seen_command_cache, leaks, advertised, power,
                        sensors_suspended>>
        BY <2>3, Zenon DEF stop_scan, unscan
      <4>2. /\ scanning' = TRUE \/ scanning' = FALSE \/ scanning' = scanning
            /\ scan_running' = TRUE \/ scan_running' = FALSE \/ scan_running' = scan_running
        BY <2>3, Zenon DEF stop_scan
      <4>3. UNCHANGED faults \/ Refused("radio")
        BY <2>3, Zenon DEF stop_scan
      <4>4. scanning' \in BOOLEAN /\ scan_running' \in BOOLEAN
        BY <1>0, <4>2, Zenon
      <4>5. errors' \in 0 .. MAX_ERRORS /\ failed' \subseteq Sensors \cup {"radio"}
        BY <1>0, <4>3 DEF Refused
      <4> QED BY <1>0, <4>1, <4>4, <4>5
    <3>2. Goto("scan", next)
      BY <2>3 DEF stop_scan
    <3> QED BY <1>0, <3>1, <3>2, OtherMoves
  <2>4. CASE stop_advertising_if_running
    BY <1>0, <2>0, <2>4, OtherMoves DEF stop_advertising_if_running, unscan, Refused
  <2>5. CASE suspend_sensors("scan", "sleep")
    BY <2>5, SuspendTyped, TypeParts
  <2>6. CASE WakeUp
    <3>1. PICK place \in Places["scan"] : Goto("scan", place)
      BY <2>0, <2>6 DEF WakeUp
    <3> QED BY <1>0, <2>6, <3>1, OtherMoves DEF WakeUp, unscan
  <2>7. CASE resume_sensors("scan", "loop")
    BY <1>0, <2>0, <2>7, ResumeTyped, TypeParts
  <2>8. CASE EndListening
    <3>1. PICK place \in Places["scan"] : Goto("scan", place)
      BY <2>0, <2>8 DEF EndListening
    <3> QED BY <1>0, <2>8, <3>1, OtherMoves DEF EndListening, unscan
  <2> QED
    BY <1>2, <1>5, <2>0, <2>1, <2>2, <2>3, <2>4, <2>5, <2>6, <2>7, <2>8
       DEF scan_thread, Threads
<1>6. ASSUME NEW p \in Packet, device_found(p) PROVE AtOK' /\ RestOK' /\ HeldOK'
  <2>0. UNCHANGED <<bt_ready_sem, seq, packet, advertised, scanning, scan_running, faults,
                    power, sensors_suspended>>
    BY <1>6 DEF device_found
  <2>1. CASE p \in Sample /\ HearSample(p)
    <3>1. seen_sensor_cache' \in SensorCaches
      BY <1>0, <2>1, SensorCacheStep DEF HearSample
    <3>2. flood_msgq' \in Seq(Packet) /\ Len(flood_msgq') <= FLOOD_QUEUE_SIZE
      <4>1. CASE current_mode = "normal"
        BY <2>1, <4>1, PutTyped DEF HearSample, TypeInv
      <4>2. CASE current_mode # "normal"
        BY <1>0, <2>1, <4>2 DEF HearSample
      <4> QED BY <4>1, <4>2
    <3>3. UNCHANGED <<at, current_mode, seen_command_cache, leaks>>
      BY <2>1 DEF HearSample
    <3> QED BY <1>0, <2>0, <3>1, <3>2, <3>3 DEF AtOK, HeldOK
  <2>2. CASE p \in Command /\ HearCommand(p)
    <3>1. seen_command_cache' \in CommandCaches /\ seen_sensor_cache' = seen_sensor_cache
      BY <1>0, <2>2, CommandCacheStep DEF HearCommand
    <3>2. flood_msgq' \in Seq(Packet) /\ Len(flood_msgq') <= FLOOD_QUEUE_SIZE
      BY <2>2, PutTyped DEF HearCommand, TypeInv
    <3>3. handle_command(p.cmd)
      BY <2>2 DEF HearCommand
    <3>4. current_mode' \in {"normal", "low_power"} /\ leaks' \in Nat
      BY <1>0, <3>3 DEF handle_command, set_node_mode
    <3>5. AtOK' /\ HeldOK'
      <4>1. CASE UNCHANGED at
        BY <1>0, <2>0, <4>1 DEF AtOK, HeldOK
      <4>2. CASE ~UNCHANGED at
        <5>1. PICK place \in {"resume_hts", "idle"} : Goto("rx", place)
          BY <3>3, <4>2 DEF handle_command
        <5>2. {"resume_hts", "idle"} \subseteq Places["rx"]
          BY PlacesOf DEF Resuming
        <5> QED BY <1>0, <2>0, <5>1, <5>2, OtherMoves
      <4> QED BY <4>1, <4>2
    <3> QED BY <1>0, <2>0, <3>1, <3>2, <3>4, <3>5
  <2> QED BY <1>6, <2>1, <2>2 DEF device_found
<1>7. CASE FinishResume
  <2>1. "idle" \in Places["rx"] /\ Resuming \subseteq Places["rx"]
    BY PlacesOf
  <2> QED BY <1>0, <1>7, <2>1, ResumeTyped, TypeParts DEF FinishResume
<1>8. CASE UNCHANGED vars
  BY <1>0, <1>8 DEF vars, AtOK, HeldOK
<1> QED
  BY <1>1, <1>3, <1>4, <1>5, <1>6, <1>7, <1>8 DEF Next

\* The queue keeps its bound, numbers their range and caches their shape, and
\* flood_thread holds a packet of the kind it is about to treat.
THEOREM TypeCorrect == Spec => []TypeOK
<1>1. TypeInv => TypeOK
  BY DEF TypeInv
<1> QED
  BY <1>1, TypeInit, TypeNext, PTL DEF Spec

-----------------------------------------------------------------------------
(* The caches implement SeenWindow.                                        *)

\* What a step does to the caches.
LEMMA CacheSteps ==
    ASSUME TypeInv, [Next]_vars
    PROVE  /\ \/ seen_sensor_cache' = seen_sensor_cache
              \/ \E p \in Sample :
                    seen_sensor_cache' = SensorCache!check_and_add(seen_sensor_cache, p)
           /\ \/ seen_command_cache' = seen_command_cache
              \/ \E p \in Command :
                    seen_command_cache' = CommandCache!check_and_add(seen_command_cache, p)
<1> DEFINE Unseen == UNCHANGED <<seen_sensor_cache, seen_command_cache>>
<1>1. main \/ FinishResume \/ UNCHANGED vars => Unseen
  BY DEF main, FinishResume, resume_sensors, unpower, vars, caches
<1>2. CASE sensor_thread
  <2>1. CASE RememberOwn
    <3>1. OwnSample \in Sample
      BY DEF TypeInv, TypeOK, OwnSample, Sample
    <3> QED BY <2>1, <3>1 DEF RememberOwn
  <2>2. CASE ~RememberOwn
    BY <1>2, <2>2 DEF sensor_thread, StartThread, CheckSampling, resume_sensors, ReadSensors,
                      QueueOwn, unpower, caches
  <2> QED BY <2>1, <2>2
<1>3. flood_thread => Unseen
  BY DEF flood_thread, StartThread, GetPacket, CheckRelay, Advertise, caches
<1>4. scan_thread => Unseen
  BY DEF scan_thread, StartThread, ScanLoop, start_fast_scan, stop_scan,
         stop_advertising_if_running, suspend_sensors, WakeUp, resume_sensors, EndListening,
         unscan, unpower, caches
<1>5. ASSUME NEW p \in Packet, device_found(p)
      PROVE  /\ \/ seen_sensor_cache' = seen_sensor_cache
                \/ \E q \in Sample :
                      seen_sensor_cache' = SensorCache!check_and_add(seen_sensor_cache, q)
             /\ \/ seen_command_cache' = seen_command_cache
                \/ \E q \in Command :
                      seen_command_cache' = CommandCache!check_and_add(seen_command_cache, q)
  BY <1>5 DEF device_found, HearSample, HearCommand
<1> QED
  BY <1>1, <1>2, <1>3, <1>4, <1>5 DEF Next

LEMMA WindowSteps == TypeInv /\ [Next]_vars =>
    /\ [SampleWindow!Next]_(SensorCache!OldestFirst(seen_sensor_cache))
    /\ [CommandWindow!Next]_(CommandCache!OldestFirst(seen_command_cache))
<1> SUFFICES ASSUME TypeInv, [Next]_vars
             PROVE  /\ [SampleWindow!Next]_(SensorCache!OldestFirst(seen_sensor_cache))
                    /\ [CommandWindow!Next]_(CommandCache!OldestFirst(seen_command_cache))
  OBVIOUS
<1>1. [SampleWindow!Next]_(SensorCache!OldestFirst(seen_sensor_cache))
  <2>1. CASE seen_sensor_cache' = seen_sensor_cache
    BY <2>1 DEF SensorCache!OldestFirst, SensorCache!Full
  <2>2. ASSUME NEW p \in Sample,
               seen_sensor_cache' = SensorCache!check_and_add(seen_sensor_cache, p)
        PROVE  [SampleWindow!Next]_(SensorCache!OldestFirst(seen_sensor_cache))
    <3> DEFINE before == SensorCache!OldestFirst(seen_sensor_cache)
               after == SensorCache!OldestFirst(SensorCache!check_and_add(seen_sensor_cache, p))
    <3>1. SensorCache!OldestFirst(seen_sensor_cache)' = after
      BY <2>2 DEF SensorCache!OldestFirst, SensorCache!Full
    <3>2. SensorLemmas!Remembers(before, after, p)
      BY SensorCacheStep DEF TypeInv
    <3> HIDE DEF before, after
    <3>3. \/ after = before
          \/ /\ p \notin {before[i] : i \in DOMAIN before}
             /\ after = IF Len(before) < SEEN_SENSOR_CACHE_SIZE THEN Append(before, p)
                        ELSE Append(Tail(before), p)
      BY <3>2 DEF SensorLemmas!Remembers
    <3> QED
      BY <3>1, <3>3 DEF before, SampleWindow!Next, SampleWindow!Remember,
                        SampleWindow!Remembered
  <2> QED BY <2>1, <2>2, CacheSteps
<1>2. [CommandWindow!Next]_(CommandCache!OldestFirst(seen_command_cache))
  <2>1. CASE seen_command_cache' = seen_command_cache
    BY <2>1 DEF CommandCache!OldestFirst, CommandCache!Full
  <2>2. ASSUME NEW p \in Command,
               seen_command_cache' = CommandCache!check_and_add(seen_command_cache, p)
        PROVE  [CommandWindow!Next]_(CommandCache!OldestFirst(seen_command_cache))
    <3> DEFINE before == CommandCache!OldestFirst(seen_command_cache)
               after == CommandCache!OldestFirst(CommandCache!check_and_add(
                                                     seen_command_cache, p))
    <3>1. CommandCache!OldestFirst(seen_command_cache)' = after
      BY <2>2 DEF CommandCache!OldestFirst, CommandCache!Full
    <3>2. CommandLemmas!Remembers(before, after, p)
      BY CommandCacheStep DEF TypeInv
    <3> HIDE DEF before, after
    <3>3. \/ after = before
          \/ /\ p \notin {before[i] : i \in DOMAIN before}
             /\ after = IF Len(before) < SEEN_COMMAND_CACHE_SIZE THEN Append(before, p)
                        ELSE Append(Tail(before), p)
      BY <3>2 DEF CommandLemmas!Remembers
    <3> QED
      BY <3>1, <3>3 DEF before, CommandWindow!Next, CommandWindow!Remember,
                        CommandWindow!Remembered
  <2> QED BY <2>1, <2>2, CacheSteps
<1> QED BY <1>1, <1>2

\* The samples remembered are the last different ones, heard or the node's own: the
\* cache that sensor_thread and device_found share implements SeenWindow.
THEOREM SamplesAreAWindow == Spec => ForgetsOldestSample
<1>1. Init => SampleWindow!Init
  BY EmptyCaches DEF Init, SampleWindow!Init
<1> QED
  BY <1>1, TypeInit, TypeNext, WindowSteps, PTL
     DEF Spec, ForgetsOldestSample, SampleWindow!Spec

\* The same of the commands remembered.
THEOREM CommandsAreAWindow == Spec => ForgetsOldestCommand
<1>1. Init => CommandWindow!Init
  BY EmptyCaches DEF Init, CommandWindow!Init
<1> QED
  BY <1>1, TypeInit, TypeNext, WindowSteps, PTL
     DEF Spec, ForgetsOldestCommand, CommandWindow!Spec

-----------------------------------------------------------------------------
(* What scan_thread knows of the scanner.                                  *)

LEMMA TrackedNext == ScanTracked /\ [Next]_vars => ScanTracked'
<1> SUFFICES ASSUME ScanTracked, [Next]_vars PROVE scan_running' = scanning'
  BY DEF ScanTracked
<1> USE DEF ScanTracked, radio
<1>1. CASE main \/ FinishResume \/ UNCHANGED vars
  BY <1>1 DEF main, FinishResume, resume_sensors, unpower, vars
<1>2. CASE sensor_thread
  BY <1>2 DEF sensor_thread, StartThread, CheckSampling, resume_sensors, ReadSensors,
              RememberOwn, QueueOwn, unpower
<1>3. CASE flood_thread
  BY <1>3 DEF flood_thread, StartThread, GetPacket, CheckRelay, Advertise
<1>4. CASE scan_thread
  <2>1. ASSUME NEW next, start_fast_scan(next) PROVE scan_running' = scanning'
    BY <2>1, Zenon DEF start_fast_scan
  <2>2. ASSUME NEW next, stop_scan(next) PROVE scan_running' = scanning'
    BY <2>2, Zenon DEF stop_scan
  <2> QED
    BY <1>4, <2>1, <2>2
       DEF scan_thread, StartThread, ScanLoop, stop_advertising_if_running, suspend_sensors,
           WakeUp, resume_sensors, EndListening, unpower
<1>5. CASE \E p \in Packet : device_found(p)
  BY <1>5 DEF device_found
<1> QED BY <1>1, <1>2, <1>3, <1>4, <1>5 DEF Next

\* The bit on which scan_thread decides to start and to stop says what the controller
\* does, whatever request is refused.
THEOREM ScanIsTracked == Spec => []ScanTracked
<1>1. Init => ScanTracked
  BY DEF Init, ScanTracked
<1> QED BY <1>1, TrackedNext, PTL DEF Spec

-----------------------------------------------------------------------------
(* Samples in low power.                                                   *)

LEMMA LeakNext == TypeInv /\ LeakInv /\ [Next]_vars => LeakInv'
<1> SUFFICES ASSUME TypeInv, LeakInv, [Next]_vars PROVE LeakInv'
  OBVIOUS
<1>0. AtOK /\ leaks \in Nat /\ {"main", "sensor", "scan", "rx", "flood"} \subseteq Actors
      /\ current_mode \in {"normal", "low_power"}
  BY TypeParts DEF Actors, RestOK
<1>1. ASSUME UNCHANGED <<leaks, current_mode, packet>>, at'["flood"] = at["flood"]
      PROVE  LeakInv'
  BY <1>1 DEF LeakInv
<1>2. ASSUME UNCHANGED <<leaks, current_mode, packet>>, NEW t \in Actors \ {"flood"},
             NEW place \in Places[t], Goto(t, place)
      PROVE  LeakInv'
  BY <1>0, <1>1, <1>2, Moves
<1>3. ASSUME NEW t \in {"sensor", "scan", "rx"}, NEW next \in Places[t],
             resume_sensors(t, next)
      PROVE  LeakInv'
  <2>1. PICK place \in Places[t] : Goto(t, place)
    BY <1>3, PlacesOf DEF resume_sensors, Resuming
  <2> QED BY <1>0, <1>2, <1>3, <2>1 DEF resume_sensors, unpower
<1>4. CASE main
  BY <1>0, <1>2, <1>4, PlacesOf DEF main
<1>5. CASE sensor_thread
  <2>1. {"check", "resume", "read", "add", "put"} \subseteq Places["sensor"]
    BY PlacesOf DEF Resuming
  <2>2. CASE resume_sensors("sensor", "read")
    BY <1>3, <2>1, <2>2
  <2>3. CASE StartThread("sensor")
    BY <1>0, <1>2, <2>1, <2>3 DEF StartThread
  <2> QED
    BY <1>0, <1>2, <1>5, <2>1, <2>2, <2>3
       DEF sensor_thread, CheckSampling, ReadSensors, RememberOwn, QueueOwn
<1>6. CASE flood_thread
  <2>0. {"get", "check", "advertise"} \subseteq Places["flood"]
    BY PlacesOf
  <2>1. CASE StartThread("flood")
    <3>1. at'["flood"] = "get" /\ UNCHANGED <<leaks, current_mode>>
      BY <1>0, <2>0, <2>1, Moves DEF StartThread
    <3> QED BY <3>1 DEF LeakInv
  <2>2. CASE GetPacket
    <3>1. /\ at'["flood"] = IF IsSample(packet') THEN "check" ELSE "advertise"
          /\ UNCHANGED <<leaks, current_mode>>
      BY <1>0, <2>0, <2>2, Moves DEF GetPacket
    <3> QED BY <3>1 DEF LeakInv
  <2>3. CASE CheckRelay
    <3>0. /\ UNCHANGED <<leaks, current_mode>>
          /\ \/ Goto("flood", "advertise") /\ current_mode = "normal"
             \/ Goto("flood", "get")
      BY <2>3, Zenon DEF CheckRelay
    <3>1. at'["flood"] = "get" \/ current_mode = "normal"
      BY <1>0, <2>0, <3>0, Moves
    <3> QED BY <3>0, <3>1 DEF LeakInv
  <2>4. CASE Advertise
    <3>1. at'["flood"] = "get" /\ at["flood"] = "advertise"
          /\ UNCHANGED current_mode
      BY <1>0, <2>0, <2>4, Moves DEF Advertise
    <3>2. leaks' = (IF IsSample(packet) /\ current_mode = "low_power" THEN leaks + 1
                    ELSE leaks) \/ leaks' = leaks
      BY <2>4 DEF Advertise
    <3> QED BY <1>0, <3>1, <3>2 DEF LeakInv
  <2> QED BY <1>6, <2>1, <2>2, <2>3, <2>4 DEF flood_thread
<1>7. CASE scan_thread
  <2>0. {"loop", "scan", "stop", "quiet", "suspend", "suspend_hts", "suspend_ccs",
         "suspend_flag", "sleep", "listen", "listening", "unlisten", "resume"}
            \subseteq Places["scan"]
    BY PlacesOf DEF Resuming
  <2>1. CASE resume_sensors("scan", "loop")
    BY <1>3, <2>0, <2>1
  <2>2. ASSUME NEW next \in Places["scan"], start_fast_scan(next) \/ stop_scan(next)
        PROVE  LeakInv'
    <3>1. Goto("scan", next) /\ UNCHANGED <<leaks, current_mode, packet>>
      BY <2>2, Zenon DEF start_fast_scan, stop_scan, unscan
    <3> QED BY <1>0, <1>2, <3>1
  <2>3. CASE StartThread("scan") \/ ScanLoop \/ WakeUp \/ EndListening
             \/ stop_advertising_if_running \/ suspend_sensors("scan", "sleep")
    <3>1. PICK place \in Places["scan"] : Goto("scan", place)
      BY <2>0, <2>3 DEF StartThread, ScanLoop, WakeUp, EndListening,
                        stop_advertising_if_running, suspend_sensors
    <3>2. UNCHANGED <<leaks, current_mode, packet>>
      BY <2>3 DEF StartThread, ScanLoop, WakeUp, EndListening, stop_advertising_if_running,
                  suspend_sensors, unscan, unpower
    <3> QED BY <1>0, <1>2, <3>1, <3>2
  <2> QED BY <1>7, <2>0, <2>1, <2>2, <2>3 DEF scan_thread
<1>8. ASSUME NEW p \in Packet, device_found(p) PROVE LeakInv'
  <2>0. packet' = packet
    BY <1>8 DEF device_found
  <2>1. CASE HearSample(p)
    BY <1>1, <2>0, <2>1 DEF HearSample
  <2>2. CASE HearCommand(p)
    <3>1. handle_command(p.cmd)
      BY <2>2 DEF HearCommand
    <3>2. at'["flood"] = at["flood"]
      <4>1. CASE UNCHANGED at
        BY <4>1
      <4>2. CASE ~UNCHANGED at
        <5>1. PICK place \in {"resume_hts", "idle"} : Goto("rx", place)
          BY <3>1, <4>2 DEF handle_command
        <5>2. {"resume_hts", "idle"} \subseteq Places["rx"]
          BY PlacesOf DEF Resuming
        <5> QED BY <1>0, <5>1, <5>2, Moves
      <4> QED BY <4>1, <4>2
    <3>3. \/ UNCHANGED <<current_mode, leaks>>
          \/ \E mode \in {"normal", "low_power"} : set_node_mode(mode)
      BY <3>1 DEF handle_command
    <3> QED BY <1>0, <2>0, <3>2, <3>3 DEF LeakInv, set_node_mode
  <2> QED BY <1>8, <2>1, <2>2 DEF device_found
<1>9. CASE FinishResume
  <2>1. "idle" \in Places["rx"]
    BY PlacesOf
  <2> QED BY <1>3, <1>9, <2>1 DEF FinishResume
<1>10. CASE UNCHANGED vars
  BY <1>1, <1>10 DEF vars
<1> QED
  BY <1>4, <1>5, <1>6, <1>7, <1>8, <1>9, <1>10 DEF Next

\* However often the mode changes and whatever flood_thread holds, at most one sample
\* is advertised after a command to sleep.
THEOREM AtMostOneLeaks == Spec => []LeaksAtMostOne
<1>1. Init => LeakInv
  <2> SUFFICES ASSUME Init PROVE LeakInv
    OBVIOUS
  <2>1. at["flood"] = "start" /\ leaks = 0
    BY PlacesOf DEF Init, Actors
  <2> QED BY <2>1 DEF LeakInv
<1>2. LeakInv => LeaksAtMostOne
  BY DEF LeakInv, LeaksAtMostOne
<1> QED
  BY <1>1, <1>2, TypeInit, TypeNext, LeakNext, PTL DEF Spec

-----------------------------------------------------------------------------
(* The sensors and the flag.                                               *)

\* Where the sensors' power may change: nobody resumes what scan_thread suspends.
LEMMA NobodyResumes ==
    ASSUME AwakePlaces, Overlap, at["scan"] \in Suspends
    PROVE  \A t \in Resumers : at[t] \notin Resumes
<1>1. ~sensors_suspended /\ at["rx"] = "idle"
  BY DEF AwakePlaces, Suspends
<1>2. \A u \in Resumers : at[u] = "settle" => u = "sensor"
  BY <1>1 DEF Resumers, Suspends
<1>3. at["scan"] \notin Resumes /\ at["rx"] \notin Resumes
  BY <1>1 DEF Suspends, Resumes
<1>4. at["sensor"] \notin Resumes
  BY <1>1, <1>2 DEF Overlap, Resumers
<1> QED BY <1>3, <1>4 DEF Resumers

\* What the controller has once refused is not forgotten.
LEMMA NothingRefused ==
    ASSUME [Next]_vars, RadioObeys'
    PROVE  RadioObeys /\ ~Refused("radio")
<1>1. ~Refused("radio")
  BY DEF Refused, RadioObeys
<1>2. \/ UNCHANGED failed
      \/ \E d : failed' = failed \cup {d} \/ (d # "radio" /\ failed' = failed \ {d})
  <2>1. ASSUME NEW sensor \in Sensors, NEW powered, pm_device_action_run(sensor, powered)
        PROVE  \E d : failed' = failed \cup {d} \/ (d # "radio" /\ failed' = failed \ {d})
    BY <2>1 DEF pm_device_action_run, Refused, Sensors
  <2>2. "hts221" \in Sensors /\ "ccs811" \in Sensors
    BY DEF Sensors
  <2>3. CASE \E t, next : resume_sensors(t, next) \/ suspend_sensors(t, next)
    BY <2>1, <2>2, <2>3, Zenon DEF resume_sensors, suspend_sensors, faults
  <2>4. CASE main \/ UNCHANGED vars \/ \E p \in Packet : device_found(p)
    BY <2>4 DEF main, vars, radio, faults, device_found
  <2>5. CASE sensor_thread \/ FinishResume
    BY <2>3, <2>5, Zenon DEF sensor_thread, StartThread, CheckSampling, ReadSensors,
                RememberOwn, QueueOwn, FinishResume, radio, faults
  <2>6. CASE flood_thread
    BY <1>1, <2>6, Zenon DEF flood_thread, StartThread, GetPacket, CheckRelay, Advertise,
                             radio, faults
  <2>7. CASE scan_thread
    BY <1>1, <2>3, <2>7, Zenon DEF scan_thread, StartThread, ScanLoop, start_fast_scan,
                stop_scan, stop_advertising_if_running, WakeUp, EndListening, radio, faults
  <2> QED BY <2>4, <2>5, <2>6, <2>7, Zenon DEF Next
<1> QED BY <1>1, <1>2 DEF RadioObeys

\* The invariant without its condition.
SensorParts == ScanPlaces /\ AwakePlaces /\ Overlap /\ PowerSoFar

\* What the invariant is about, when a step leaves it alone.
View == <<at["sensor"], at["scan"], at["rx"], current_mode, scanning, scan_running, power,
          failed, sensors_suspended>>

\* A bus transfer of one sensor, whether it fails or not.
LEMMA Transfer ==
    ASSUME NEW sensor \in Sensors, NEW powered \in SUBSET Sensors,
           pm_device_action_run(sensor, powered),
           \A s \in Sensors \ {sensor} : s \in powered <=> s \in power
    PROVE  /\ sensor \in powered => On(sensor)'
           /\ sensor \notin powered => Off(sensor)'
           /\ \A s \in Sensors \ {sensor} : (On(s) <=> On(s)') /\ (Off(s) <=> Off(s)')
BY DEF pm_device_action_run, Refused, On, Off, Sensors

LEMMA SameView == SensorParts /\ UNCHANGED View => SensorParts'
BY DEF View, SensorParts, ScanPlaces, AwakePlaces, Overlap, PowerSoFar, On, Off, Resumers

\* Each step of resume_sensors, whoever calls it.
LEMMA ResumeParts ==
    ASSUME TypeInv, SensorParts, NEW t \in Resumers, NEW next,
           next = CASE t = "sensor" -> "read" [] t = "scan" -> "loop" [] t = "rx" -> "idle",
           resume_sensors(t, next)
    PROVE  SensorParts'
<1> USE DEF SensorParts
<1>0. AtOK /\ power \subseteq Sensors /\ Resumers \subseteq Actors
  BY TypeParts DEF RestOK, Resumers, Actors
<1>1. UNCHANGED <<current_mode, scanning, scan_running>>
  BY DEF resume_sensors, unpower
<1>2. next \in Places[t] /\ Resuming \subseteq Places[t]
      /\ next \notin Resumes /\ next \notin Suspends /\ next # "settle"
  BY PlacesOf DEF Resumers, Resumes, Suspends
<1>3. CASE at[t] = "resume"
  <2>1. Goto(t, IF sensors_suspended THEN "resume_hts" ELSE next)
        /\ UNCHANGED <<power, failed, sensors_suspended>>
    BY <1>3 DEF resume_sensors, sensors, faults
  <2>2. /\ at'[t] = IF sensors_suspended THEN "resume_hts" ELSE next
        /\ \A u \in Resumers \ {t} : at'[u] = at[u]
    BY <1>0, <1>2, <2>1, Moves DEF Resuming
  <2>3. t \in {"sensor", "scan"}
    BY <1>3 DEF AwakePlaces, Resumers
  <2>4. t = "scan" => ~scanning /\ at["rx"] = "idle"
    BY <1>3 DEF ScanPlaces, AwakePlaces
  <2>5. ScanPlaces'
    BY <1>1, <1>3, <2>2, <2>3, <2>4 DEF ScanPlaces, Resumers
  <2>6. AwakePlaces'
    BY <1>1, <1>3, <2>1, <2>2, <2>3, <2>4 DEF AwakePlaces, Resumers, Suspends
  <2>7. Overlap'
    BY <1>2, <1>3, <2>1, <2>2 DEF Overlap
  <2>8. PowerSoFar'
    BY <1>2, <1>3, <2>1, <2>2, <2>3 DEF PowerSoFar, On, Off, Resumers, Resumes, Suspends
  <2> QED BY <2>5, <2>6, <2>7, <2>8
<1>4. ASSUME at[t] \in Resumes PROVE at["scan"] \notin Suspends
  BY <1>4, NobodyResumes
<1>5. CASE at[t] = "resume_hts" \/ at[t] = "resume_ccs"
  <2>1. /\ Goto(t, IF at[t] = "resume_hts" THEN "resume_ccs" ELSE "resume_flag")
        /\ UNCHANGED sensors_suspended
    BY <1>5 DEF resume_sensors
  <2>2. /\ at'[t] = IF at[t] = "resume_hts" THEN "resume_ccs" ELSE "resume_flag"
        /\ \A u \in Resumers \ {t} : at'[u] = at[u]
    BY <1>0, <1>2, <2>1, Moves DEF Resuming
  <2>3. at["scan"] \notin Suspends
    BY <1>4, <1>5 DEF Resumes
  <2>4. t = "scan" => ~scanning /\ at["rx"] = "idle"
    BY <1>5 DEF ScanPlaces, AwakePlaces
  <2>5. ScanPlaces'
    BY <1>1, <1>5, <2>2, <2>4 DEF ScanPlaces, Resumers
  <2>6. AwakePlaces'
    BY <1>1, <1>5, <2>1, <2>2, <2>4 DEF AwakePlaces, Resumers, Resumes, Suspends
  <2>7. Overlap'
    BY <1>5, <2>1, <2>2 DEF Overlap, Resumes
  <2>8. PowerSoFar'
    <3>1. /\ at[t] = "resume_hts" =>
                 On("hts221")' /\ (On("ccs811") <=> On("ccs811")')
          /\ at[t] = "resume_ccs" =>
                 On("ccs811")' /\ (On("hts221") <=> On("hts221")')
      BY <1>0, <1>5, Transfer DEF resume_sensors, Sensors
    <3>2. at'[t] = "resume_ccs" => On("hts221")'
      BY <1>5, <2>2, <3>1
    <3>3. at'[t] = "resume_flag" => On("hts221")' /\ On("ccs811")'
      BY <1>5, <2>2, <3>1 DEF PowerSoFar
    <3>4. at'["scan"] \notin Suspends
      BY <2>2, <2>3 DEF Resumers, Suspends
    <3>5. at'[t] \in Resumes
      BY <2>2 DEF Resumes
    <3>6. (On("hts221") => On("hts221")') /\ (On("ccs811") => On("ccs811")')
      BY <1>5, <3>1
    <3> HIDE DEF On, Off
    <3> QED
      BY <2>1, <2>2, <2>3, <3>2, <3>3, <3>4, <3>5, <3>6 DEF PowerSoFar, Suspends
  <2> QED BY <2>5, <2>6, <2>7, <2>8
<1>6. CASE at[t] = "resume_flag"
  <2>1. /\ Goto(t, "settle") /\ sensors_suspended' = FALSE
        /\ UNCHANGED <<power, failed>>
    BY <1>6 DEF resume_sensors, faults
  <2>2. at'[t] = "settle" /\ \A u \in Resumers \ {t} : at'[u] = at[u]
    BY <1>0, <1>2, <2>1, Moves DEF Resuming
  <2>3. ~sensors_suspended'
    BY <2>1
  <2>4. t = "scan" => ~scanning /\ at["rx"] = "idle"
    BY <1>6 DEF ScanPlaces, AwakePlaces
  <2>5. ScanPlaces'
    BY <1>1, <1>6, <2>2, <2>4 DEF ScanPlaces, Resumers
  <2>6. AwakePlaces'
    BY <1>1, <1>6, <2>2, <2>3, <2>4 DEF AwakePlaces, Resumers
  <2>7. Overlap'
    BY <2>2 DEF Overlap, Resumes
  <2>8. PowerSoFar'
    <3>1. On("hts221")' /\ On("ccs811")'
      BY <1>6, <2>1 DEF PowerSoFar, On
    <3>2. at'["scan"] \notin Suspends
      BY <1>4, <1>6, <2>2 DEF Resumers, Suspends, Resumes
    <3> QED BY <2>3, <3>1, <3>2 DEF PowerSoFar, Suspends
  <2> QED BY <2>5, <2>6, <2>7, <2>8
<1>7. CASE at[t] = "settle"
  <2>1. Goto(t, next) /\ UNCHANGED <<power, failed, sensors_suspended>> /\ Settled(t)
    BY <1>7 DEF resume_sensors, sensors, faults
  <2>2. at'[t] = next /\ \A u \in Resumers \ {t} : at'[u] = at[u]
    BY <1>0, <1>2, <2>1, Moves
  <2>3. \A u \in Resumers \ {t} : at[u] \notin Resumes
    BY <1>0, <2>1 DEF Settled, AtOK
  <2>4. t = "scan" => ~scanning /\ at["rx"] = "idle" /\ ~sensors_suspended
    BY <1>7 DEF ScanPlaces, AwakePlaces
  <2>5. ScanPlaces'
    BY <1>1, <1>7, <2>2, <2>4 DEF ScanPlaces, Resumers
  <2>6. AwakePlaces'
    <3>1. t = "rx" => ~sensors_suspended
      BY <1>7 DEF AwakePlaces, Resumes
    <3> QED BY <1>1, <1>7, <2>1, <2>2, <2>4, <3>1 DEF AwakePlaces, Resumers, Resumes, Suspends
  <2>7. Overlap'
    BY <1>2, <2>2, <2>3 DEF Overlap
  <2>8. PowerSoFar'
    BY <1>2, <1>7, <2>1, <2>2 DEF PowerSoFar, On, Off, Resumers, Resumes, Suspends
  <2> QED BY <2>5, <2>6, <2>7, <2>8
<1> QED
  BY <1>3, <1>5, <1>6, <1>7 DEF resume_sensors

\* Each step of suspend_sensors.
LEMMA SuspendParts ==
    ASSUME TypeInv, SensorParts, suspend_sensors("scan", "sleep")
    PROVE  SensorParts'
<1> USE DEF SensorParts
<1>0. AtOK /\ {"sensor", "scan", "rx"} \subseteq Actors
      /\ {"sleep", "suspend_hts", "suspend_ccs", "suspend_flag"} \subseteq Places["scan"]
      /\ power \subseteq Sensors
  BY TypeParts, PlacesOf DEF Actors, RestOK
<1>1. UNCHANGED <<current_mode, scanning, scan_running>>
  BY DEF suspend_sensors, unpower
<1>2. at["scan"] \in {"suspend"} \cup Suspends
  BY DEF suspend_sensors, Suspends
<1>3. ~scanning /\ at["rx"] = "idle"
  BY <1>2 DEF ScanPlaces, AwakePlaces, Suspends
<1>4. CASE at["scan"] = "suspend"
  <2>1. Goto("scan", IF sensors_suspended THEN "sleep" ELSE "suspend_hts")
        /\ UNCHANGED <<power, failed, sensors_suspended>>
    BY <1>4 DEF suspend_sensors, sensors, faults
  <2>2. /\ at'["scan"] = IF sensors_suspended THEN "sleep" ELSE "suspend_hts"
        /\ at'["sensor"] = at["sensor"] /\ at'["rx"] = at["rx"]
    BY <1>0, <2>1, Moves
  <2>3. ScanPlaces'
    BY <1>1, <1>3, <1>4, <2>2 DEF ScanPlaces
  <2>4. AwakePlaces'
    BY <1>1, <1>3, <1>4, <2>1, <2>2 DEF AwakePlaces, Suspends
  <2>5. Overlap'
    BY <1>4, <2>1, <2>2 DEF Overlap, Resumers, Resumes
  <2>6. PowerSoFar'
    BY <1>4, <2>1, <2>2 DEF PowerSoFar, On, Off, Resumers, Resumes, Suspends
  <2> QED BY <2>3, <2>4, <2>5, <2>6
<1>5. CASE at["scan"] \in {"suspend_hts", "suspend_ccs"}
  <2>1. /\ Goto("scan", IF at["scan"] = "suspend_hts" THEN "suspend_ccs" ELSE "suspend_flag")
        /\ UNCHANGED sensors_suspended
    BY <1>5 DEF suspend_sensors
  <2>2. /\ at'["scan"] = IF at["scan"] = "suspend_hts" THEN "suspend_ccs" ELSE "suspend_flag"
        /\ at'["sensor"] = at["sensor"] /\ at'["rx"] = at["rx"]
    BY <1>0, <2>1, Moves
  <2>3. ~sensors_suspended /\ \A t \in Resumers : at[t] \notin Resumes
    BY <1>5, NobodyResumes DEF AwakePlaces, Suspends
  <2>4. \A t \in Resumers : at'[t] \notin Resumes
    BY <2>2, <2>3 DEF Resumers, Resumes
  <2>5. ScanPlaces'
    BY <1>1, <1>3, <2>2 DEF ScanPlaces
  <2>6. AwakePlaces'
    BY <1>1, <1>3, <2>1, <2>2, <2>3 DEF AwakePlaces, Suspends
  <2>7. Overlap'
    BY <2>4 DEF Overlap
  <2>8. PowerSoFar'
    <3>1. /\ at["scan"] = "suspend_hts" =>
                 Off("hts221")' /\ (On("ccs811") <=> On("ccs811")')
          /\ at["scan"] = "suspend_ccs" =>
                 Off("ccs811")' /\ (Off("hts221") <=> Off("hts221")')
      BY <1>0, <1>5, Transfer DEF suspend_sensors, Sensors
    <3>2. at'["scan"] = "suspend_ccs" => Off("hts221")' /\ On("ccs811")'
      BY <1>5, <2>2, <3>1 DEF PowerSoFar
    <3>3. at'["scan"] = "suspend_flag" => Off("hts221")' /\ Off("ccs811")'
      BY <1>5, <2>2, <3>1 DEF PowerSoFar
    <3>4. at'["scan"] \in {"suspend_ccs", "suspend_flag"}
      BY <2>2
    <3> QED BY <2>1, <2>3, <2>4, <3>2, <3>3, <3>4 DEF PowerSoFar, Resumes, Suspends
  <2> QED BY <2>5, <2>6, <2>7, <2>8
<1>6. CASE at["scan"] = "suspend_flag"
  <2>1. /\ Goto("scan", "sleep") /\ sensors_suspended' = TRUE
        /\ UNCHANGED <<power, failed>>
    BY <1>6 DEF suspend_sensors, faults
  <2>2. /\ at'["scan"] = "sleep" /\ at'["sensor"] = at["sensor"] /\ at'["rx"] = at["rx"]
        /\ sensors_suspended' /\ Off("hts221")' /\ Off("ccs811")'
    BY <1>0, <1>6, <2>1, Moves DEF PowerSoFar, Off
  <2>3. \A t \in Resumers : at'[t] \notin Resumes
    BY <1>6, <2>2, NobodyResumes DEF Resumers, Resumes, Suspends
  <2>4. ScanPlaces'
    BY <1>1, <1>3, <2>2 DEF ScanPlaces
  <2>5. AwakePlaces'
    BY <1>1, <1>3, <2>2 DEF AwakePlaces, Suspends
  <2>6. Overlap' /\ PowerSoFar'
    BY <2>2, <2>3 DEF Overlap, PowerSoFar, Resumes
  <2> QED BY <2>4, <2>5, <2>6
<1> QED BY <1>2, <1>4, <1>5, <1>6 DEF Suspends

\* The steps of scan_thread that decide, and that start and stop the scanner.
LEMMA ScanParts ==
    ASSUME TypeInv, SensorParts, NEW place \in Places["scan"], Goto("scan", place),
           UNCHANGED <<current_mode, power, failed, sensors_suspended>>,
           scan_running' = scanning',
           at["scan"] \notin {"settle"} \cup Resumes \cup Suspends,
           place \notin {"settle"} \cup Resumes \cup Suspends,
           scanning' => place \in {"loop", "stop", "listening", "unlisten"},
           place = "scan" => current_mode = "normal",
           place = "listen" => current_mode = "low_power",
           at["rx"] # "idle" => place \in {"loop", "scan", "listening", "unlisten"},
           place \in {"start", "loop", "scan", "listening", "unlisten"}
              /\ current_mode = "normal" => ~sensors_suspended \/ at["rx"] \in Resumes,
           place = "loop" /\ scanning' => ~sensors_suspended \/ at["rx"] \in Resumes,
           place = "stop" => ~sensors_suspended
    PROVE  SensorParts'
<1>0. AtOK /\ {"sensor", "scan", "rx"} \subseteq Actors
  BY TypeParts DEF Actors
<1>1. at'["scan"] = place /\ at'["sensor"] = at["sensor"] /\ at'["rx"] = at["rx"]
  BY <1>0, Moves
<1>2. ScanPlaces'
  BY <1>1 DEF ScanPlaces
<1>3. AwakePlaces'
  BY <1>1 DEF AwakePlaces, SensorParts
<1>4. Overlap'
  BY <1>1 DEF Overlap, SensorParts, Resumers, Resumes
<1>5. PowerSoFar'
  BY <1>1 DEF PowerSoFar, On, Off, SensorParts, Resumers, Resumes, Suspends
<1> QED BY <1>2, <1>3, <1>4, <1>5 DEF SensorParts

\* The steps of sensor_thread outside resume_sensors.
LEMMA SamplingParts ==
    ASSUME TypeInv, SensorParts, NEW place \in {"check", "resume", "read", "add", "put"},
           Goto("sensor", place), at["sensor"] \notin {"settle"} \cup Resumes,
           UNCHANGED <<current_mode, scanning, scan_running, power, failed,
                       sensors_suspended>>
    PROVE  SensorParts'
<1>0. AtOK /\ {"sensor", "scan", "rx"} \subseteq Actors /\ place \in Places["sensor"]
  BY TypeParts, PlacesOf DEF Actors, Resuming
<1>1. at'["sensor"] = place /\ at'["scan"] = at["scan"] /\ at'["rx"] = at["rx"]
  BY <1>0, Moves
<1>2. ScanPlaces' /\ AwakePlaces'
  BY <1>1 DEF ScanPlaces, AwakePlaces, SensorParts
<1>3. Overlap' /\ PowerSoFar'
  BY <1>1 DEF Overlap, PowerSoFar, On, Off, SensorParts, Resumers, Resumes
<1> QED BY <1>2, <1>3 DEF SensorParts

\* A command is heard: MEASURE wakes the node, and device_found resumes the sensors if
\* they are suspended.
LEMMA CommandParts ==
    ASSUME TypeInv, SensorParts, NEW cmd, scanning, at["rx"] = "idle", handle_command(cmd),
           UNCHANGED <<scanning, scan_running, power, failed, sensors_suspended>>
    PROVE  SensorParts'
<1> USE DEF SensorParts
<1>0. AtOK /\ {"sensor", "scan", "rx"} \subseteq Actors
      /\ {"idle", "resume_hts"} \subseteq Places["rx"]
  BY TypeParts, PlacesOf DEF Actors, Resuming
<1>1. at["scan"] \in {"loop", "stop", "listening", "unlisten"}
  BY DEF ScanPlaces
<1>2. CASE cmd = CMD_SLEEP
  <2>1. current_mode' = "low_power" /\ at' = at
    BY <1>2, ThingyNodeAssumption DEF handle_command, set_node_mode
  <2>2. ScanPlaces'
    BY <1>1, <2>1 DEF ScanPlaces
  <2>3. AwakePlaces'
    BY <2>1 DEF AwakePlaces
  <2>4. Overlap' /\ PowerSoFar'
    BY <2>1 DEF Overlap, PowerSoFar, On, Off
  <2> QED BY <2>2, <2>3, <2>4
<1>3. CASE cmd = CMD_MEASURE
  <2>1. /\ current_mode' = "normal"
        /\ Goto("rx", IF sensors_suspended THEN "resume_hts" ELSE "idle")
    BY <1>3, ThingyNodeAssumption DEF handle_command, set_node_mode
  <2>2. /\ at'["rx"] = IF sensors_suspended THEN "resume_hts" ELSE "idle"
        /\ at'["sensor"] = at["sensor"] /\ at'["scan"] = at["scan"]
    BY <1>0, <2>1, Moves
  <2>3. ScanPlaces'
    BY <1>1, <2>1, <2>2 DEF ScanPlaces
  <2>4. AwakePlaces'
    BY <1>1, <2>1, <2>2 DEF AwakePlaces, Resumes
  <2>5. Overlap'
    BY <2>2 DEF Overlap, Resumers, Resumes
  <2>6. PowerSoFar'
    BY <2>2 DEF PowerSoFar, On, Off, Resumers, Resumes
  <2> QED BY <2>3, <2>4, <2>5, <2>6
<1>4. CASE cmd # CMD_SLEEP /\ cmd # CMD_MEASURE
  <2>1. UNCHANGED View
    BY <1>4 DEF handle_command, View
  <2> QED BY <2>1, SameView
<1> QED BY <1>2, <1>3, <1>4

\* The steps of scan_thread outside resume_sensors and suspend_sensors, when no request
\* is refused.
LEMMA TurnParts ==
    ASSUME TypeInv, SensorParts, ~Refused("radio"),
           \/ StartThread("scan") \/ ScanLoop \/ WakeUp \/ EndListening
           \/ stop_advertising_if_running
           \/ at["scan"] = "scan" /\ start_fast_scan("loop")
           \/ at["scan"] = "listen" /\ start_fast_scan("listening")
           \/ at["scan"] = "stop" /\ stop_scan("quiet")
           \/ at["scan"] = "unlisten" /\ stop_scan("loop")
    PROVE  SensorParts'
<1>0. AtOK /\ current_mode \in {"normal", "low_power"} /\ scanning \in BOOLEAN
      /\ scan_running = scanning
      /\ {"loop", "scan", "stop", "quiet", "suspend", "sleep", "listen", "listening",
          "unlisten", "resume"} \subseteq Places["scan"]
  BY TypeParts, PlacesOf DEF RestOK, Resuming, SensorParts, ScanPlaces
<1>1. CASE StartThread("scan")
  <2>1. at["scan"] = "start" /\ Goto("scan", "loop")
    BY <1>1 DEF StartThread
  <2>2. UNCHANGED <<current_mode, power, failed, sensors_suspended, scanning, scan_running>>
    BY <1>1 DEF StartThread, radio, faults, sensors
  <2>3. ~scanning /\ at["rx"] = "idle"
    BY <2>1 DEF SensorParts, ScanPlaces, AwakePlaces
  <2>4. current_mode = "normal" => ~sensors_suspended \/ at["rx"] \in Resumes
    BY <2>1 DEF SensorParts, AwakePlaces
  <2> QED BY <1>0, <2>1, <2>2, <2>3, <2>4, ScanParts DEF Resumes, Suspends
<1>2. CASE ScanLoop
  <2>1. at["scan"] = "loop"
    BY <1>2 DEF ScanLoop
  <2>2. UNCHANGED <<current_mode, power, failed, sensors_suspended, scanning, scan_running>>
    BY <1>2 DEF ScanLoop, unscan, radio, faults, sensors
  <2>3. at["rx"] # "idle" => current_mode = "normal"
    BY DEF SensorParts, AwakePlaces
  <2>4. current_mode = "normal" \/ scanning => ~sensors_suspended \/ at["rx"] \in Resumes
    BY <2>1 DEF SensorParts, AwakePlaces
  <2>5. CASE current_mode = "normal"
    <3>1. PICK place \in {"loop", "scan"} :
             Goto("scan", place) /\ (scanning => place = "loop")
      BY <1>0, <1>2, <2>5 DEF ScanLoop
    <3> QED BY <1>0, <2>1, <2>2, <2>4, <2>5, <3>1, ScanParts DEF Resumes, Suspends
  <2>6. CASE current_mode # "normal"
    <3>1. at["rx"] = "idle"
      BY <2>3, <2>6
    <3>2. PICK place \in {"stop", "quiet"} :
             Goto("scan", place) /\ (scanning <=> place = "stop")
      BY <1>0, <1>2, <2>6 DEF ScanLoop
    <3>3. place = "stop" => ~sensors_suspended
      BY <2>4, <3>1, <3>2 DEF Resumes
    <3> QED BY <1>0, <2>1, <2>2, <2>6, <3>1, <3>2, <3>3, ScanParts DEF Resumes, Suspends
  <2> QED BY <2>5, <2>6
<1>3. CASE WakeUp
  <2>1. at["scan"] = "sleep"
    BY <1>3 DEF WakeUp
  <2>2. UNCHANGED <<current_mode, power, failed, sensors_suspended, scanning, scan_running>>
    BY <1>3 DEF WakeUp, unscan, radio, faults, sensors
  <2>3. ~scanning /\ at["rx"] = "idle"
    BY <2>1 DEF SensorParts, ScanPlaces, AwakePlaces
  <2>4. PICK place \in {"resume", "listen"} :
             Goto("scan", place) /\ (place = "listen" => current_mode = "low_power")
    BY <1>0, <1>3 DEF WakeUp
  <2> QED BY <1>0, <2>1, <2>2, <2>3, <2>4, ScanParts DEF Resumes, Suspends
<1>4. CASE EndListening
  <2>1. at["scan"] = "listening"
    BY <1>4 DEF EndListening
  <2>2. UNCHANGED <<current_mode, power, failed, sensors_suspended, scanning, scan_running>>
    BY <1>4 DEF EndListening, unscan, radio, faults, sensors
  <2>3. current_mode = "normal" => ~sensors_suspended \/ at["rx"] \in Resumes
    BY <2>1 DEF SensorParts, AwakePlaces
  <2>4. CASE current_mode = "low_power" /\ scanning
    <3>1. Goto("scan", "unlisten")
      BY <1>0, <1>4, <2>4 DEF EndListening
    <3> QED BY <1>0, <2>1, <2>2, <2>3, <3>1, ScanParts DEF Resumes, Suspends
  <2>5. CASE ~(current_mode = "low_power" /\ scanning)
    <3>1. Goto("scan", "loop")
      BY <1>0, <1>4, <2>5 DEF EndListening
    <3>2. scanning => ~sensors_suspended \/ at["rx"] \in Resumes
      BY <1>0, <2>3, <2>5
    <3> QED BY <1>0, <2>1, <2>2, <2>3, <3>1, <3>2, ScanParts DEF Resumes, Suspends
  <2> QED BY <2>4, <2>5
<1>5. CASE stop_advertising_if_running
  <2>1. at["scan"] = "quiet" /\ Goto("scan", "suspend")
    BY <1>5 DEF stop_advertising_if_running
  <2>2. UNCHANGED <<current_mode, power, failed, sensors_suspended, scanning, scan_running>>
    BY <1>5 DEF stop_advertising_if_running, unscan, faults, sensors
  <2>3. ~scanning /\ at["rx"] = "idle"
    BY <2>1 DEF SensorParts, ScanPlaces, AwakePlaces
  <2> QED BY <1>0, <2>1, <2>2, <2>3, ScanParts DEF Resumes, Suspends
<1>6. ASSUME NEW next, start_fast_scan(next)
      PROVE  /\ Goto("scan", next)
             /\ UNCHANGED <<current_mode, power, failed, sensors_suspended>>
             /\ scan_running' = scanning' /\ scanning'
  <2>1. Goto("scan", next) /\ UNCHANGED <<current_mode, power, failed, sensors_suspended>>
    BY <1>6, Zenon DEF start_fast_scan, unscan, faults, sensors
  <2>2. CASE scanning' = TRUE /\ scan_running' = TRUE
    BY <2>1, <2>2
  <2>3. CASE scanning /\ UNCHANGED <<scanning, scan_running>>
    BY <1>0, <2>1, <2>3
  <2> QED BY <1>6, <2>2, <2>3, Zenon DEF start_fast_scan
<1>7. CASE at["scan"] = "scan" /\ start_fast_scan("loop")
  <2>1. current_mode = "normal"
    BY <1>7 DEF SensorParts, ScanPlaces
  <2>2. ~sensors_suspended \/ at["rx"] \in Resumes
    BY <1>7, <2>1 DEF SensorParts, AwakePlaces
  <2> QED BY <1>0, <1>6, <1>7, <2>1, <2>2, ScanParts DEF Resumes, Suspends
<1>8. CASE at["scan"] = "listen" /\ start_fast_scan("listening")
  <2>1. current_mode = "low_power"
    BY <1>8 DEF SensorParts, ScanPlaces
  <2> QED BY <1>0, <1>6, <1>8, <2>1, ScanParts DEF Resumes, Suspends
<1>9. ASSUME NEW next, stop_scan(next)
      PROVE  /\ Goto("scan", next)
             /\ UNCHANGED <<current_mode, power, failed, sensors_suspended>>
             /\ scan_running' = scanning' /\ ~scanning'
  BY <1>0, <1>9 DEF stop_scan, unscan, faults, sensors
<1>10. CASE at["scan"] = "stop" /\ stop_scan("quiet")
  <2>1. at["rx"] = "idle"
    BY <1>10 DEF SensorParts, AwakePlaces
  <2> QED BY <1>0, <1>9, <1>10, <2>1, ScanParts DEF Resumes, Suspends
<1>11. CASE at["scan"] = "unlisten" /\ stop_scan("loop")
  <2>1. current_mode = "normal" => ~sensors_suspended \/ at["rx"] \in Resumes
    BY <1>11 DEF SensorParts, AwakePlaces
  <2> QED BY <1>0, <1>9, <1>11, <2>1, ScanParts DEF Resumes, Suspends
<1> QED
  BY <1>1, <1>2, <1>3, <1>4, <1>5, <1>7, <1>8, <1>10, <1>11, Zenon

LEMMA SensorNext == TypeInv /\ SensorInv /\ [Next]_vars => SensorInv'
<1> SUFFICES ASSUME TypeInv, SensorInv, [Next]_vars, RadioObeys' PROVE SensorParts'
  BY DEF SensorInv, SensorParts
<1>1. SensorParts
  BY NothingRefused DEF SensorInv, SensorParts
<1>2. ~Refused("radio")
  BY NothingRefused
<1>3. AtOK /\ Actors = {"main", "sensor", "flood", "scan", "rx"}
  BY TypeParts DEF Actors
<1>4. ASSUME UNCHANGED <<current_mode, scanning, scan_running, power, failed,
                         sensors_suspended>>,
             NEW t \in {"main", "flood"}, NEW place \in Places[t], Goto(t, place)
      PROVE  SensorParts'
  <2>1. UNCHANGED <<at["sensor"], at["scan"], at["rx"]>>
    BY <1>3, <1>4, Moves
  <2> QED BY <1>1, <1>4, <2>1, SameView DEF View
<1>5. CASE main
  <2>1. "done" \in Places["main"]
    BY PlacesOf
  <2> QED BY <1>4, <1>5, <2>1 DEF main, radio, faults, sensors
<1>6. CASE sensor_thread
  <2>1. CASE resume_sensors("sensor", "read")
    BY <1>1, <2>1, ResumeParts DEF Resumers
  <2>2. CASE StartThread("sensor")
    <3>1. at["sensor"] = "start" /\ Goto("sensor", "check")
          /\ UNCHANGED <<current_mode, scanning, scan_running, power, failed,
                         sensors_suspended>>
      BY <2>2 DEF StartThread, radio, faults, sensors
    <3> QED BY <1>1, <3>1, SamplingParts DEF Resumes
  <2>3. CASE CheckSampling \/ ReadSensors \/ RememberOwn \/ QueueOwn
    <3>1. UNCHANGED <<current_mode, scanning, scan_running, power, failed,
                      sensors_suspended>>
      BY <2>3 DEF CheckSampling, ReadSensors, RememberOwn, QueueOwn, radio, faults, sensors
    <3>2. at["sensor"] \in {"check", "read", "add", "put"}
      BY <2>3 DEF CheckSampling, ReadSensors, RememberOwn, QueueOwn
    <3>3. PICK place \in {"check", "resume", "add", "put"} : Goto("sensor", place)
      BY <2>3 DEF CheckSampling, ReadSensors, RememberOwn, QueueOwn
    <3> QED BY <1>1, <3>1, <3>2, <3>3, SamplingParts DEF Resumes
  <2> QED BY <1>6, <2>1, <2>2, <2>3, Zenon DEF sensor_thread
<1>7. CASE flood_thread
  <2>1. UNCHANGED <<current_mode, scanning, scan_running, power, failed,
                    sensors_suspended>>
    BY <1>2, <1>7, Zenon DEF flood_thread, StartThread, GetPacket, CheckRelay, Advertise,
                             radio, faults, sensors
  <2>2. PICK place \in {"get", "check", "advertise"} : Goto("flood", place)
    BY <1>7 DEF flood_thread, StartThread, GetPacket, CheckRelay, Advertise
  <2>3. place \in Places["flood"]
    BY PlacesOf
  <2> QED BY <1>4, <2>1, <2>2, <2>3
<1>8. CASE scan_thread
  <2>1. CASE resume_sensors("scan", "loop")
    BY <1>1, <2>1, ResumeParts DEF Resumers
  <2>2. CASE suspend_sensors("scan", "sleep")
    BY <1>1, <2>2, SuspendParts
  <2>3. ~resume_sensors("scan", "loop") /\ ~suspend_sensors("scan", "sleep") =>
          \/ StartThread("scan") \/ ScanLoop \/ WakeUp \/ EndListening
          \/ stop_advertising_if_running
          \/ at["scan"] = "scan" /\ start_fast_scan("loop")
          \/ at["scan"] = "listen" /\ start_fast_scan("listening")
          \/ at["scan"] = "stop" /\ stop_scan("quiet")
          \/ at["scan"] = "unlisten" /\ stop_scan("loop")
    BY <1>8, Zenon DEF scan_thread
  <2> QED BY <1>1, <1>2, <2>1, <2>2, <2>3, TurnParts, Zenon
<1>9. ASSUME NEW p \in Packet, device_found(p) PROVE SensorParts'
  <2>1. /\ scanning /\ at["rx"] = "idle"
        /\ UNCHANGED <<scanning, scan_running, power, failed, sensors_suspended>>
    BY <1>9 DEF device_found, radio, faults, sensors
  <2>2. CASE HearSample(p)
    BY <1>1, <2>1, <2>2, SameView DEF HearSample, View
  <2>3. CASE HearCommand(p)
    BY <1>1, <2>1, <2>3, CommandParts DEF HearCommand
  <2> QED BY <1>9, <2>2, <2>3 DEF device_found
<1>10. CASE FinishResume
  BY <1>1, <1>10, ResumeParts DEF FinishResume, Resumers
<1>11. CASE UNCHANGED vars
  BY <1>1, <1>11, SameView DEF vars, View, radio, faults, sensors
<1> QED
  BY <1>5, <1>6, <1>7, <1>8, <1>9, <1>10, <1>11, Zenon DEF Next

\* sensors_suspended says what each sensor is whose last transfer did not fail, whenever
\* nobody is switching them, however the calls of resume_sensors and suspend_sensors by
\* the three threads interleave, if no request to the controller is refused.
THEOREM SensorsBelieved == Spec => []SensorsAsBelieved
<1>1. Init => SensorInv
  <2> SUFFICES ASSUME Init PROVE SensorInv
    OBVIOUS
  <2>1. at["sensor"] = "start" /\ at["scan"] = "start" /\ at["rx"] = "idle"
    BY PlacesOf DEF Init, Actors
  <2>2. power = Sensors /\ ~sensors_suspended /\ ~scanning /\ ~scan_running
        /\ scan_running = scanning
    BY DEF Init
  <2>3. ScanPlaces /\ AwakePlaces
    BY <2>1, <2>2, Zenon DEF ScanPlaces, AwakePlaces, Suspends
  <2>4. Overlap
    BY <2>1 DEF Overlap, Resumers, Resumes
  <2>5. PowerSoFar
    BY <2>1, <2>2 DEF PowerSoFar, On, Resumers, Sensors
  <2> QED BY <2>3, <2>4, <2>5 DEF SensorInv
<1>2. TypeInv /\ SensorInv => SensorsAsBelieved
  <2> SUFFICES ASSUME TypeInv, SensorInv, RadioObeys,
                      \A t \in DOMAIN at : at[t] \notin Transferring,
                      NEW s \in Sensors \ failed
               PROVE  s \in power <=> ~sensors_suspended
    BY DEF SensorsAsBelieved
  <2>1. PowerSoFar
    BY DEF SensorInv
  <2>2. DOMAIN at = Actors
    BY TypeParts DEF AtOK
  <2>3. at["scan"] \notin Suspends /\ \A t \in Resumers : at[t] \notin Resumes
    BY <2>2 DEF Transferring, Resumers, Actors
  <2>4. ~sensors_suspended => On("hts221") /\ On("ccs811")
    BY <2>1, <2>3 DEF PowerSoFar
  <2>5. sensors_suspended => Off("hts221") /\ Off("ccs811")
    BY <2>1, <2>3 DEF PowerSoFar
  <2> QED BY <2>4, <2>5 DEF On, Off, Sensors
<1> QED
  BY <1>1, <1>2, TypeInit, TypeNext, SensorNext, PTL DEF Spec

-----------------------------------------------------------------------------
(* The node is a MeshNode.                                                 *)

Recent == SensorCache!OldestFirst(seen_sensor_cache)
Known == CommandCache!OldestFirst(seen_command_cache)
Due == [p \in Packet |-> Owed(p)]

\* Owed in parts: what waits in the queue, and what the threads hold.
Held(p) == IF at["flood"] \in {"check", "advertise"} /\ packet = p THEN 1 ELSE 0
Taken(p) == IF at["sensor"] = "put" /\ p = OwnSample THEN 1 ELSE 0

LEMMA OwedIs ==
    ASSUME TypeOK, NEW p
    PROVE  /\ Owed(p) = Count(flood_msgq, {p}) + Held(p) + Taken(p)
           /\ Count(flood_msgq, {p}) \in Nat
           /\ Owed(p) \in Nat
<1>1. Indices(flood_msgq, {p}) = {i \in DOMAIN flood_msgq : flood_msgq[i] = p}
  BY DEF Indices
<1>2. Count(flood_msgq, {p}) \in Nat
  BY CountType DEF TypeOK
<1>3. Owed(p) = Count(flood_msgq, {p}) + Held(p) + Taken(p)
  BY <1>1 DEF Owed, Held, Taken, Count
<1>4. Held(p) \in {0, 1} /\ Taken(p) \in {0, 1}
  BY DEF Held, Taken
<1> QED BY <1>2, <1>3, <1>4

\* The same after a step.
LEMMA OwedIsNext ==
    ASSUME TypeOK', NEW p
    PROVE  /\ Owed(p)' = Count(flood_msgq, {p})' + Held(p)' + Taken(p)'
           /\ Count(flood_msgq, {p})' \in Nat
           /\ Owed(p)' \in Nat
<1>1. Indices(flood_msgq, {p})' = {i \in DOMAIN flood_msgq' : flood_msgq'[i] = p}
  BY DEF Indices
<1>2. Count(flood_msgq', {p}) \in Nat
  BY CountType DEF TypeOK
<1>3. Count(flood_msgq, {p})' = Count(flood_msgq', {p})
  BY DEF Count, Indices
<1>4. Owed(p)' = Count(flood_msgq, {p})' + Held(p)' + Taken(p)'
  BY <1>1 DEF Owed, Held, Taken, Count
<1>5. Held(p)' \in {0, 1} /\ Taken(p)' \in {0, 1}
  BY DEF Held, Taken
<1> QED BY <1>2, <1>3, <1>4, <1>5

\* The three ways in which what is owed changes.
LEMMA DueSame ==
    ASSUME \A p \in Packet : Owed(p)' = Owed(p)
    PROVE  Due' = Due
BY DEF Due

LEMMA DueMore ==
    ASSUME NEW p \in Packet, Owed(p)' = Owed(p) + 1,
           \A q \in Packet \ {p} : Owed(q)' = Owed(q)
    PROVE  Due' = [Due EXCEPT ![p] = @ + 1]
BY DEF Due

LEMMA DueLess ==
    ASSUME TypeOK, TypeOK', NEW p \in Packet, Owed(p)' = Owed(p) - 1,
           \A q \in Packet \ {p} : Owed(q)' = Owed(q)
    PROVE  Due' = [Due EXCEPT ![p] = @ - 1] /\ Due[p] > 0
<1>1. Due' = [Due EXCEPT ![p] = @ - 1]
  BY DEF Due
<1>2. Owed(p) \in Nat /\ Owed(p)' \in Nat
  BY OwedIs, OwedIsNext
<1> QED BY <1>1, <1>2 DEF Due

\* What the window of a cache is after a step.
LEMMA SampleKept ==
    ASSUME seen_sensor_cache' = seen_sensor_cache
    PROVE  Recent' = Recent
BY DEF Recent, SensorCache!OldestFirst, SensorCache!Full

LEMMA CommandKept ==
    ASSUME seen_command_cache' = seen_command_cache
    PROVE  Known' = Known
BY DEF Known, CommandCache!OldestFirst, CommandCache!Full

LEMMA SampleRemembered ==
    ASSUME TypeInv, NEW p \in Sample, ~SensorCache!contains(seen_sensor_cache, p),
           seen_sensor_cache' = SensorCache!check_and_add(seen_sensor_cache, p)
    PROVE  MeshNode!SampleWindow!Remember(p)
<1>1. Recent' = SensorCache!OldestFirst(SensorCache!check_and_add(seen_sensor_cache, p))
  BY DEF Recent, SensorCache!OldestFirst, SensorCache!Full
<1>2. /\ p \notin {Recent[i] : i \in DOMAIN Recent}
      /\ Recent' = IF Len(Recent) < SEEN_SENSOR_CACHE_SIZE
                   THEN Append(Recent, p) ELSE Append(Tail(Recent), p)
  BY <1>1, SensorContents DEF TypeInv, Recent
<1> QED
  BY <1>2 DEF Recent, MeshNode!SampleWindow!Remember, MeshNode!SampleWindow!Remembered

LEMMA CommandRemembered ==
    ASSUME TypeInv, NEW p \in Command, ~CommandCache!contains(seen_command_cache, p),
           seen_command_cache' = CommandCache!check_and_add(seen_command_cache, p)
    PROVE  MeshNode!CommandWindow!Remember(p)
<1>1. Known' = CommandCache!OldestFirst(CommandCache!check_and_add(seen_command_cache, p))
  BY DEF Known, CommandCache!OldestFirst, CommandCache!Full
<1>2. /\ p \notin {Known[i] : i \in DOMAIN Known}
      /\ Known' = IF Len(Known) < SEEN_COMMAND_CACHE_SIZE
                  THEN Append(Known, p) ELSE Append(Tail(Known), p)
  BY <1>1, CommandContents DEF TypeInv, Known
<1> QED
  BY <1>2 DEF Known, MeshNode!CommandWindow!Remember, MeshNode!CommandWindow!Remembered

\* The steps of MeshNode, by what becomes of the node's variables.
LEMMA Stutters ==
    ASSUME UNCHANGED <<current_mode, caches, advertised>>, Due' = Due
    PROVE  UNCHANGED MeshNode!vars
BY SampleKept, CommandKept DEF MeshNode!vars, Due, Recent, Known, caches

LEMMA GivesUp ==
    ASSUME UNCHANGED <<current_mode, caches, advertised>>,
           NEW p \in Packet, Due' = [Due EXCEPT ![p] = @ - 1], Due[p] > 0
    PROVE  MeshNode!Next
<1>1. MeshNode!GiveUp(p)
  BY SampleKept, CommandKept DEF MeshNode!GiveUp, MeshNode!Discharge, Due, Recent, Known, caches
<1>2. p \in MeshNode!Packets
  BY DEF MeshNode!Packets, Packet
<1> QED BY <1>1, <1>2 DEF MeshNode!Next

LEMMA Advertises ==
    ASSUME UNCHANGED <<current_mode, caches>>,
           NEW p \in Packet, Due' = [Due EXCEPT ![p] = @ - 1], Due[p] > 0, advertised' = p
    PROVE  MeshNode!Next
<1>1. MeshNode!Advertise(p)
  BY SampleKept, CommandKept DEF MeshNode!Advertise, MeshNode!Discharge, Due, Recent, Known,
       caches
<1>2. p \in MeshNode!Packets
  BY DEF MeshNode!Packets, Packet
<1> QED BY <1>1, <1>2 DEF MeshNode!Next

LEMMA StopsAdvertising ==
    ASSUME UNCHANGED <<current_mode, caches>>, Due' = Due, advertised' = NoPacket
    PROVE  MeshNode!Next
<1>1. MeshNode!StopAdvertising
  BY SampleKept, CommandKept DEF MeshNode!StopAdvertising, Due, Recent, Known, caches
<1> QED BY <1>1 DEF MeshNode!Next

LEMMA TakesSample ==
    ASSUME TypeInv, UNCHANGED <<current_mode, seen_command_cache, advertised>>,
           NEW p \in Sample, p.origin = NODE_ID,
           seen_sensor_cache' = SensorCache!check_and_add(seen_sensor_cache, p),
           Due' = [Due EXCEPT ![p] = @ + 1]
    PROVE  MeshNode!Next
<1>1. Known' = Known
  BY CommandKept
<1>2. p \in {Recent[i] : i \in DOMAIN Recent} <=> SensorCache!contains(seen_sensor_cache, p)
  BY SensorContents DEF TypeInv, Recent
<1>3. IF p \in MeshNode!SampleWindow!Remembered THEN Recent' = Recent
      ELSE MeshNode!SampleWindow!Remember(p)
  <2>1. CASE SensorCache!contains(seen_sensor_cache, p)
    BY <1>2, <2>1, SampleKept
       DEF SensorCache!check_and_add, Recent, MeshNode!SampleWindow!Remembered
  <2>2. CASE ~SensorCache!contains(seen_sensor_cache, p)
    BY <1>2, <2>2, SampleRemembered DEF Recent, MeshNode!SampleWindow!Remembered
  <2> QED BY <2>1, <2>2
<1>4. MeshNode!TakeSample(p)
  BY <1>1, <1>3 DEF MeshNode!TakeSample, MeshNode!Owe, Due, Recent, Known
<1> QED BY <1>4 DEF MeshNode!Next

LEMMA HearsSample ==
    ASSUME TypeInv, UNCHANGED <<current_mode, seen_command_cache, advertised>>,
           NEW p \in Sample, p.origin # NODE_ID,
           ~SensorCache!contains(seen_sensor_cache, p),
           seen_sensor_cache' = SensorCache!check_and_add(seen_sensor_cache, p),
           Due' = [Due EXCEPT ![p] = @ + 1] \/ Due' = Due,
           current_mode # "normal" => Due' = Due
    PROVE  MeshNode!Next
<1>1. Known' = Known
  BY CommandKept
<1>2. MeshNode!SampleWindow!Remember(p)
  BY SampleRemembered
<1>3. MeshNode!HearSample(p)
  BY <1>1, <1>2 DEF MeshNode!HearSample, MeshNode!Owe, Due, Known
<1> QED BY <1>3 DEF MeshNode!Next

LEMMA HearsCommand ==
    ASSUME TypeInv, UNCHANGED <<seen_sensor_cache, advertised>>,
           NEW p \in Command, ~CommandCache!contains(seen_command_cache, p),
           seen_command_cache' = CommandCache!check_and_add(seen_command_cache, p),
           Due' = [Due EXCEPT ![p] = @ + 1] \/ Due' = Due,
           current_mode' = IF p.cmd = CMD_SLEEP THEN "low_power"
                           ELSE IF p.cmd = CMD_MEASURE THEN "normal" ELSE current_mode
    PROVE  MeshNode!Next
<1>1. Recent' = Recent
  BY SampleKept
<1>2. MeshNode!CommandWindow!Remember(p)
  BY CommandRemembered
<1>3. current_mode' = CASE p \in {q \in Command : q.cmd = CMD_SLEEP} -> "low_power"
                        [] p \in {q \in Command : q.cmd = CMD_MEASURE} -> "normal"
                        [] OTHER -> current_mode
  BY ThingyNodeAssumption
<1>4. MeshNode!HearCommand(p)
  BY <1>1, <1>2, <1>3 DEF MeshNode!HearCommand, MeshNode!Owe, Due, Recent
<1> QED BY <1>4 DEF MeshNode!Next

\* What moves none of the packets that are owed.
LEMMA GoneTo ==
    ASSUME TypeInv, NEW t \in Actors, NEW place, Goto(t, place)
    PROVE  at'[t] = place /\ \A u \in Actors \ {t} : at'[u] = at[u]
BY TypeParts DEF AtOK, Goto

LEMMA NoneMoves ==
    ASSUME TypeInv, NEW t \in {"main", "scan", "rx"}, NEW place,
           Goto(t, place) \/ UNCHANGED at, UNCHANGED <<flood_msgq, packet, seq>>
    PROVE  Due' = Due
<1>1. at'["flood"] = at["flood"] /\ at'["sensor"] = at["sensor"]
  BY GoneTo DEF Actors
<1>2. \A p \in Packet : Owed(p)' = Owed(p)
  BY <1>1 DEF Owed, OwnSample
<1> QED BY <1>2, DueSame

LEMMA NoneSampled ==
    ASSUME TypeInv, NEW place, Goto("sensor", place), at["sensor"] # "put", place # "put",
           UNCHANGED <<flood_msgq, packet>>
    PROVE  Due' = Due
<1>1. at'["flood"] = at["flood"] /\ at'["sensor"] # "put"
  BY GoneTo DEF Actors
<1>2. \A p \in Packet : Owed(p)' = Owed(p)
  BY <1>1 DEF Owed
<1> QED BY <1>2, DueSame

\* k_msgq_put adds the packet or drops it.
LEMMA PutCounts ==
    ASSUME TypeInv, NEW p \in Packet, k_msgq_put(p)
    PROVE  \/ flood_msgq' = flood_msgq
           \/ \A q : Count(flood_msgq, {q})' = Count(flood_msgq, {q}) + (IF q = p THEN 1 ELSE 0)
<1>1. CASE flood_msgq' = flood_msgq
  BY <1>1
<1>2. CASE flood_msgq' = Append(flood_msgq, p)
  <2>1. ASSUME NEW q
        PROVE  Count(flood_msgq, {q})' = Count(flood_msgq, {q}) + (IF q = p THEN 1 ELSE 0)
    <3>1. Count(flood_msgq, {q})' = Count(flood_msgq', {q})
      BY DEF Count, Indices
    <3>2. flood_msgq \in Seq(Packet) /\ Count(flood_msgq, {q}) \in Nat
      BY CountType DEF TypeInv, TypeOK
    <3>3. Count(Append(flood_msgq, p), {q}) = IF p \in {q} THEN Count(flood_msgq, {q}) + 1
                                              ELSE Count(flood_msgq, {q})
      BY <3>2, CountAppend
    <3> QED BY <1>2, <3>1, <3>2, <3>3
  <2> QED BY <2>1
<1> QED BY <1>1, <1>2 DEF k_msgq_put

\* A packet heard is owed, unless it is dropped.
LEMMA PutDue ==
    ASSUME TypeInv, TypeInv', NEW p \in Packet, k_msgq_put(p), UNCHANGED <<packet, seq>>,
           at'["flood"] = at["flood"], at'["sensor"] = at["sensor"]
    PROVE  Due' = [Due EXCEPT ![p] = @ + 1] \/ Due' = Due
<1>1. \A q : Held(q)' = Held(q) /\ Taken(q)' = Taken(q)
  BY DEF Held, Taken, OwnSample
<1>2. CASE flood_msgq' = flood_msgq
  <2>1. \A q \in Packet : Owed(q)' = Owed(q)
    BY <1>2 DEF Owed, OwnSample
  <2> QED BY <2>1, DueSame
<1>3. CASE \A q : Count(flood_msgq, {q})' = Count(flood_msgq, {q}) + (IF q = p THEN 1 ELSE 0)
  <2>1. \A q \in Packet : Owed(q)' = Owed(q) + (IF q = p THEN 1 ELSE 0)
    <3> SUFFICES ASSUME NEW q \in Packet
                 PROVE  Owed(q)' = Owed(q) + (IF q = p THEN 1 ELSE 0)
      OBVIOUS
    <3>1. /\ Owed(q) = Count(flood_msgq, {q}) + Held(q) + Taken(q)
          /\ Count(flood_msgq, {q}) \in Nat
      BY OwedIs DEF TypeInv
    <3>2. Owed(q)' = Count(flood_msgq, {q})' + Held(q)' + Taken(q)'
      BY OwedIsNext DEF TypeInv
    <3>3. Held(q) \in {0, 1} /\ Taken(q) \in {0, 1}
      BY DEF Held, Taken
    <3> QED BY <1>1, <1>3, <3>1, <3>2, <3>3
  <2>2. \A q \in Packet : Owed(q) \in Nat
    BY OwedIs DEF TypeInv
  <2>3. Owed(p)' = Owed(p) + 1 /\ \A q \in Packet \ {p} : Owed(q)' = Owed(q)
    BY <2>1, <2>2
  <2> QED BY <2>3, DueMore
<1> QED BY <1>2, <1>3, PutCounts

\* The steps of the threads that do.
LEMMA OwnIsSample ==
    ASSUME TypeInv
    PROVE  OwnSample \in Sample /\ OwnSample \in Packet /\ OwnSample.origin = NODE_ID
BY DEF TypeInv, TypeOK, OwnSample, Sample, Packet

\* What is owed before and after a step, in parts.
LEMMA OwedSums ==
    ASSUME TypeInv, TypeInv', NEW q
    PROVE  /\ Owed(q) = Count(flood_msgq, {q}) + Held(q) + Taken(q)
           /\ Owed(q)' = Count(flood_msgq, {q})' + Held(q)' + Taken(q)'
           /\ Count(flood_msgq, {q}) \in Nat /\ Count(flood_msgq, {q})' \in Nat
           /\ Held(q) \in {0, 1} /\ Taken(q) \in {0, 1}
BY OwedIs, OwedIsNext DEF TypeInv, Held, Taken

LEMMA RememberOwnStep ==
    ASSUME TypeInv, TypeInv', RememberOwn
    PROVE  MeshNode!Next
<1> PICK p : p = OwnSample
  OBVIOUS
<1>1. /\ at["sensor"] = "add" /\ at'["sensor"] = "put" /\ at'["flood"] = at["flood"]
      /\ OwnSample' = OwnSample
  BY GoneTo DEF RememberOwn, Actors, OwnSample
<1>2. ASSUME NEW q
      PROVE  /\ q = p => Owed(q)' = Owed(q) + 1
             /\ q # p => Owed(q)' = Owed(q)
  <2>1. Count(flood_msgq, {q})' = Count(flood_msgq, {q})
    BY DEF Count, Indices, RememberOwn
  <2>2. Held(q)' = Held(q)
    BY <1>1 DEF Held, RememberOwn
  <2>3. Taken(q) = 0 /\ (q = p => Taken(q)' = 1) /\ (q # p => Taken(q)' = 0)
    BY <1>1 DEF Taken
  <2> QED BY <2>1, <2>2, <2>3, OwedSums
<1>3. p \in Sample /\ p \in Packet /\ p.origin = NODE_ID
  BY OwnIsSample
<1>4. Due' = [Due EXCEPT ![p] = @ + 1]
  BY <1>2, <1>3, DueMore
<1> QED BY <1>3, <1>4, TakesSample DEF RememberOwn, radio

LEMMA QueueOwnStep ==
    ASSUME TypeInv, TypeInv', QueueOwn
    PROVE  [MeshNode!Next]_(MeshNode!vars)
<1> PICK p : p = OwnSample
  OBVIOUS
<1>1. /\ at["sensor"] = "put" /\ at'["sensor"] = "check" /\ at'["flood"] = at["flood"]
  BY GoneTo DEF QueueOwn, Actors
<1>2. ASSUME NEW q
      PROVE  /\ Held(q)' = Held(q)
             /\ Taken(q)' = 0
             /\ q = p => Taken(q) = 1
             /\ q # p => Taken(q) = 0
  BY <1>1 DEF Held, Taken, QueueOwn
<1>3. p \in Packet
  BY OwnIsSample
<1>4. CASE flood_msgq' = flood_msgq
  <2>1. ASSUME NEW q
        PROVE  /\ q = p => Owed(q)' = Owed(q) - 1
               /\ q # p => Owed(q)' = Owed(q)
    <3>1. Count(flood_msgq, {q})' = Count(flood_msgq, {q})
      BY <1>4 DEF Count, Indices
    <3> QED BY <1>2, <3>1, OwedSums
  <2>2. Due' = [Due EXCEPT ![p] = @ - 1] /\ Due[p] > 0
    BY <1>3, <2>1, DueLess DEF TypeInv
  <2> QED BY <1>3, <2>2, GivesUp DEF QueueOwn, caches, radio
<1>5. CASE \A q : Count(flood_msgq, {q})' = Count(flood_msgq, {q}) + (IF q = p THEN 1 ELSE 0)
  <2>1. ASSUME NEW q PROVE Owed(q)' = Owed(q)
    <3>1. /\ q = p => Count(flood_msgq, {q})' = Count(flood_msgq, {q}) + 1
          /\ q # p => Count(flood_msgq, {q})' = Count(flood_msgq, {q}) + 0
      BY <1>5
    <3>2. /\ Held(q)' = Held(q) /\ Taken(q)' = 0
          /\ q = p => Taken(q) = 1
          /\ q # p => Taken(q) = 0
      BY <1>2
    <3>3. /\ Owed(q) = Count(flood_msgq, {q}) + Held(q) + Taken(q)
          /\ Owed(q)' = Count(flood_msgq, {q})' + Held(q)' + Taken(q)'
          /\ Count(flood_msgq, {q}) \in Nat /\ Held(q) \in {0, 1}
      BY OwedSums
    <3> QED BY <3>1, <3>2, <3>3
  <2> QED BY <2>1, DueSame, Stutters DEF QueueOwn, caches, radio
<1> QED BY <1>3, <1>4, <1>5, PutCounts DEF QueueOwn

LEMMA GetPacketStep ==
    ASSUME TypeInv, TypeInv', GetPacket
    PROVE  UNCHANGED MeshNode!vars
<1> PICK p : p = Head(flood_msgq)
  OBVIOUS
<1>1. /\ at["flood"] = "get" /\ at'["flood"] \in {"check", "advertise"}
      /\ at'["sensor"] = at["sensor"] /\ packet' = p
  BY GoneTo DEF GetPacket, Actors
<1>2. ASSUME NEW q PROVE Owed(q)' = Owed(q)
  <2>1. Taken(q)' = Taken(q)
    BY <1>1 DEF Taken, GetPacket, OwnSample
  <2>2. Held(q) = 0 /\ (q = p => Held(q)' = 1) /\ (q # p => Held(q)' = 0)
    BY <1>1 DEF Held
  <2>3. flood_msgq \in Seq(Packet) /\ flood_msgq # <<>>
    BY DEF TypeInv, TypeOK, GetPacket
  <2>4. Count(flood_msgq, {q})' = Count(Tail(flood_msgq), {q})
    BY DEF Count, Indices, GetPacket
  <2>5. /\ q = p => Count(flood_msgq, {q}) = Count(Tail(flood_msgq), {q}) + 1
        /\ q # p => Count(flood_msgq, {q}) = Count(Tail(flood_msgq), {q})
    BY <2>3, CountTail
  <2> QED BY <2>1, <2>2, <2>4, <2>5, OwedSums
<1> QED BY <1>2, DueSame, Stutters DEF GetPacket, radio

\* flood_thread lets go of the packet it holds.
LEMMA LetGo ==
    ASSUME TypeInv, TypeInv', at["flood"] \in {"check", "advertise"}, Goto("flood", "get"),
           UNCHANGED <<flood_msgq, seq>>
    PROVE  packet \in Packet /\ Due' = [Due EXCEPT ![packet] = @ - 1] /\ Due[packet] > 0
<1> PICK p : p = packet
  OBVIOUS
<1>1. at'["flood"] = "get" /\ at'["sensor"] = at["sensor"]
  BY GoneTo DEF Actors
<1>2. ASSUME NEW q
      PROVE  /\ q = p => Owed(q)' = Owed(q) - 1
             /\ q # p => Owed(q)' = Owed(q)
  <2>1. Count(flood_msgq, {q})' = Count(flood_msgq, {q})
    BY DEF Count, Indices
  <2>2. Taken(q)' = Taken(q)
    BY <1>1 DEF Taken, OwnSample
  <2>3. Held(q)' = 0 /\ (q = p => Held(q) = 1) /\ (q # p => Held(q) = 0)
    BY <1>1 DEF Held
  <2>4. /\ Owed(q) = Count(flood_msgq, {q}) + Held(q) + Taken(q)
        /\ Owed(q)' = Count(flood_msgq, {q})' + Held(q)' + Taken(q)'
        /\ Count(flood_msgq, {q}) \in Nat /\ Taken(q) \in {0, 1}
    BY OwedSums
  <2> QED BY <2>1, <2>2, <2>3, <2>4
<1>3. p \in Packet
  BY DEF TypeInv, TypeOK
<1>4. Due' = [Due EXCEPT ![p] = @ - 1] /\ Due[p] > 0
  BY <1>2, <1>3, DueLess DEF TypeInv
<1> QED BY <1>3, <1>4

LEMMA CheckRelayStep ==
    ASSUME TypeInv, TypeInv', CheckRelay
    PROVE  [MeshNode!Next]_(MeshNode!vars)
<1>1. CASE current_mode = "normal"
  <2>0. UNCHANGED packet /\ Goto("flood", "advertise")
    BY <1>1 DEF CheckRelay
  <2>1. /\ at["flood"] = "check" /\ at'["flood"] = "advertise"
        /\ at'["sensor"] = at["sensor"]
    BY <2>0, GoneTo DEF CheckRelay, Actors
  <2>2. \A q \in Packet : Owed(q)' = Owed(q)
    BY <2>0, <2>1 DEF Owed, CheckRelay, OwnSample
  <2> QED BY <2>2, DueSame, Stutters DEF CheckRelay, radio
<1>2. CASE current_mode # "normal"
  BY <1>2, LetGo, GivesUp DEF CheckRelay, radio
<1> QED BY <1>1, <1>2

LEMMA AdvertiseStep ==
    ASSUME TypeInv, TypeInv', Advertise
    PROVE  MeshNode!Next
<1>1. packet \in Packet /\ Due' = [Due EXCEPT ![packet] = @ - 1] /\ Due[packet] > 0
  BY LetGo DEF Advertise
<1> QED BY <1>1, GivesUp, Advertises DEF Advertise, caches

\* The callback: what is heard is owed if there is room, and obeyed if it is a command.
LEMMA HeardStep ==
    ASSUME TypeInv, TypeInv', NEW p \in Packet, device_found(p)
    PROVE  MeshNode!Next
<1>1. UNCHANGED <<packet, seq, advertised>>
  BY DEF device_found, radio
<1>2. CASE p \in Sample /\ HearSample(p)
  <2>1. UNCHANGED at
    BY <1>2 DEF HearSample
  <2>2. CASE current_mode = "normal"
    <3>1. Due' = [Due EXCEPT ![p] = @ + 1] \/ Due' = Due
      BY <1>1, <1>2, <2>1, <2>2, PutDue DEF HearSample
    <3> QED BY <1>1, <1>2, <2>2, <3>1, HearsSample DEF HearSample
  <2>3. CASE current_mode # "normal"
    <3>1. Due' = Due
      BY <1>1, <1>2, <2>1, <2>3, NoneMoves DEF HearSample
    <3> QED BY <1>1, <1>2, <3>1, HearsSample DEF HearSample
  <2> QED BY <2>2, <2>3
<1>3. CASE p \in Command /\ HearCommand(p)
  <2>1. /\ current_mode' = IF p.cmd = CMD_SLEEP THEN "low_power"
                           ELSE IF p.cmd = CMD_MEASURE THEN "normal" ELSE current_mode
        /\ UNCHANGED at \/ \E place : Goto("rx", place)
    BY <1>3, ThingyNodeAssumption DEF HearCommand, handle_command, set_node_mode
  <2>2. at'["flood"] = at["flood"] /\ at'["sensor"] = at["sensor"]
    BY <2>1, GoneTo DEF Actors
  <2>3. Due' = [Due EXCEPT ![p] = @ + 1] \/ Due' = Due
    BY <1>1, <1>3, <2>2, PutDue DEF HearCommand
  <2> QED BY <1>1, <1>3, <2>1, <2>3, HearsCommand DEF HearCommand
<1> QED BY <1>2, <1>3 DEF device_found

\* The other steps of the scanner and of the sensors' power change nothing of this but
\* what is advertised.
LEMMA QuietStep ==
    ASSUME TypeInv, NEW t \in {"main", "scan", "rx"}, NEW place, Goto(t, place),
           UNCHANGED <<current_mode, seq, packet, flood_msgq, caches>>,
           advertised' = advertised \/ advertised' = NoPacket
    PROVE  [MeshNode!Next]_(MeshNode!vars)
<1>1. Due' = Due
  BY NoneMoves
<1>2. CASE advertised' = advertised
  BY <1>1, <1>2, Stutters
<1>3. CASE advertised' = NoPacket
  BY <1>1, <1>3, StopsAdvertising
<1> QED BY <1>2, <1>3

LEMMA ResumeGoes ==
    ASSUME NEW t, NEW next, resume_sensors(t, next)
    PROVE  /\ \E place \in {"resume_hts", "resume_ccs", "resume_flag", "settle", next} :
                  Goto(t, place)
           /\ at[t] \in Resuming
           /\ UNCHANGED <<current_mode, seq, packet, flood_msgq, caches, advertised>>
BY DEF resume_sensors, unpower, Resuming

LEMMA ScanStep ==
    ASSUME TypeInv, scan_thread
    PROVE  [MeshNode!Next]_(MeshNode!vars)
<1> DEFINE Quiet ==
        /\ \E place : Goto("scan", place)
        /\ UNCHANGED <<current_mode, seq, packet, flood_msgq, caches>>
        /\ advertised' = advertised \/ advertised' = NoPacket
<1> SUFFICES Quiet
  BY QuietStep
<1>1. CASE StartThread("scan")
  BY <1>1 DEF StartThread, radio
<1>2. CASE ScanLoop \/ WakeUp \/ EndListening
  BY <1>2 DEF ScanLoop, WakeUp, EndListening, unscan, radio
<1>3. ASSUME NEW next, start_fast_scan(next) \/ stop_scan(next) PROVE Quiet
  BY <1>3 DEF start_fast_scan, stop_scan, unscan
<1>4. CASE stop_advertising_if_running
  BY <1>4 DEF stop_advertising_if_running, unscan
<1>5. CASE suspend_sensors("scan", "sleep")
  BY <1>5 DEF suspend_sensors, unpower
<1>6. CASE resume_sensors("scan", "loop")
  BY <1>6, ResumeGoes
<1> QED
  BY <1>1, <1>2, <1>3, <1>4, <1>5, <1>6 DEF scan_thread

LEMMA MeshNodeNext ==
    ASSUME TypeInv, TypeInv', [Next]_vars
    PROVE  [MeshNode!Next]_(MeshNode!vars)
<1>1. CASE main
  BY <1>1, QuietStep DEF main, radio
<1>2. CASE sensor_thread
  <2>1. CASE StartThread("sensor") \/ CheckSampling \/ ReadSensors
                \/ resume_sensors("sensor", "read")
    <3>1. /\ at["sensor"] # "put"
          /\ \E place : place # "put" /\ Goto("sensor", place)
          /\ UNCHANGED <<current_mode, packet, flood_msgq, caches, advertised>>
      <4>1. CASE StartThread("sensor")
        BY <4>1 DEF StartThread, radio
      <4>2. CASE CheckSampling \/ ReadSensors
        BY <4>2 DEF CheckSampling, ReadSensors, radio
      <4>3. CASE resume_sensors("sensor", "read")
        BY <4>3, ResumeGoes DEF Resuming
      <4> QED BY <2>1, <4>1, <4>2, <4>3
    <3> QED BY <3>1, NoneSampled, Stutters
  <2>2. CASE RememberOwn
    BY <2>2, RememberOwnStep
  <2>3. CASE QueueOwn
    BY <2>3, QueueOwnStep
  <2> QED BY <1>2, <2>1, <2>2, <2>3 DEF sensor_thread
<1>3. CASE flood_thread
  <2>1. CASE StartThread("flood")
    <3>1. /\ at["flood"] = "start" /\ at'["flood"] = "get" /\ at'["sensor"] = at["sensor"]
          /\ UNCHANGED <<current_mode, seq, packet, flood_msgq, caches, advertised>>
      BY <2>1, GoneTo DEF StartThread, radio, Actors
    <3>2. \A p \in Packet : Owed(p)' = Owed(p)
      BY <3>1 DEF Owed, OwnSample
    <3> QED BY <3>1, <3>2, DueSame, Stutters
  <2> QED BY <1>3, <2>1, GetPacketStep, CheckRelayStep, AdvertiseStep DEF flood_thread
<1>4. CASE scan_thread
  BY <1>4, ScanStep
<1>5. ASSUME NEW p \in Packet, device_found(p) PROVE MeshNode!Next
  BY <1>5, HeardStep
<1>6. CASE FinishResume
  BY <1>6, ResumeGoes, QuietStep DEF FinishResume
<1>7. CASE UNCHANGED vars
  <2>1. UNCHANGED <<at, current_mode, seq, packet, flood_msgq, caches, advertised>>
    BY <1>7 DEF vars, radio
  <2> QED BY <2>1, NoneMoves, Stutters
<1> QED BY <1>1, <1>2, <1>3, <1>4, <1>5, <1>6, <1>7 DEF Next

LEMMA MeshNodeInit == Init => MeshNode!Init
<1> SUFFICES ASSUME Init PROVE MeshNode!Init
  OBVIOUS
<1>1. Recent = <<>> /\ Known = <<>>
  BY EmptyCaches DEF Init, Recent, Known
<1>2. ASSUME NEW p \in Packet PROVE Owed(p) = 0
  <2>1. Count(flood_msgq, {p}) = 0
    BY CountEmpty DEF Init
  <2>2. Held(p) = 0 /\ Taken(p) = 0
    BY PlacesOf DEF Init, Held, Taken, Actors
  <2> QED BY <2>1, <2>2, OwedIs, TypeInit DEF TypeInv
<1>3. Due = [p \in Packet |-> 0]
  BY <1>2 DEF Due
<1> QED BY <1>1, <1>3 DEF Init, MeshNode!Init, MeshNode!Packets, Packet, Recent, Known, Due

\* sensor_thread, flood_thread, scan_thread and device_found together are a MeshNode,
\* however they interleave, whatever is refused and however full the queue.
THEOREM Refinement == Spec => ImplementsMeshNode
BY TypeInit, TypeNext, MeshNodeInit, MeshNodeNext, PTL
   DEF Spec, ImplementsMeshNode, MeshNode!Spec
=============================================================================
