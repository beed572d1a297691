----------------------------- MODULE ThingyNode -----------------------------
(***************************************************************************)
(* One sensor node (Thingy52/src): it samples its sensors, relays the      *)
(* samples and commands it hears, each once, and obeys the commands SLEEP  *)
(* and MEASURE.                                                            *)
(*                                                                         *)
(* sensor_thread, flood_thread and scan_thread have one priority and       *)
(* device_found is called on a thread of the stack that preempts them. The *)
(* function at says where each is. A step is one access to shared state:   *)
(* a call made under a mutex, or a read or write of sensors_suspended,     *)
(* which has none. device_found is one step but for resume_sensors, whose  *)
(* bus transfers and sleep block it.                                       *)
(*                                                                         *)
(* A definition whose name starts with Bad is a plausible slip; see Buzzer.*)
(***************************************************************************)
EXTENDS Integers, Sequences, FiniteSets

CONSTANTS
    NODE_ID,
    Peers,                      \* ids of the other nodes
    SEQ_MOD,                    \* values of an 8-bit number (256)
    FLOOD_QUEUE_SIZE,           \* packets flood_msgq holds (12)
    SEEN_SENSOR_CACHE_SIZE,     \* 32
    SEEN_COMMAND_CACHE_SIZE,    \* 32
    Cmds,                       \* commands heard, among them CMD_SLEEP and CMD_MEASURE
    CMD_SLEEP,
    CMD_MEASURE,
    MAX_ERRORS                  \* bound: requests that fail, to the controller or a sensor

ASSUME ThingyNodeAssumption ==
    /\ NODE_ID \notin Peers
    /\ CMD_SLEEP # CMD_MEASURE
    /\ \A c \in {SEQ_MOD, FLOOD_QUEUE_SIZE, SEEN_SENSOR_CACHE_SIZE,
                 SEEN_COMMAND_CACHE_SIZE} : c \in Nat \ {0}
    /\ MAX_ERRORS \in Nat

VARIABLES
    at,                 \* places of main, the three threads and device_found
    bt_ready_sem,
    current_mode,
    seq,                \* sensor_thread's number of the last sample
    packet,             \* flood_thread's packet, NoPacket when it is done with it
    flood_msgq,
    seen_sensor_cache,
    seen_command_cache,
    advertised,         \* what is advertised; NoPacket when adv_running is false
    scanning,           \* whether the controller scans
    scan_running,       \* whether scan_thread believes that it does
    power,              \* which of the two sensors are powered
    sensors_suspended,
    errors,             \* requests that may still fail
    failed,             \* history: "radio" once the controller refused a request, and
                        \* each sensor whose last transfer failed
    leaks               \* history: samples advertised since the mode became low power

faults == <<errors, failed>>
radio == <<advertised, scanning, scan_running, faults>>
sensors == <<power, sensors_suspended>>
caches == <<seen_sensor_cache, seen_command_cache>>
vars == <<at, bt_ready_sem, current_mode, seq, packet, flood_msgq, caches, radio, sensors,
          leaks>>

SensorCache == INSTANCE SeenCache WITH SIZE <- SEEN_SENSOR_CACHE_SIZE
CommandCache == INSTANCE SeenCache WITH SIZE <- SEEN_COMMAND_CACHE_SIZE

-----------------------------------------------------------------------------
Seqs == 0 .. SEQ_MOD - 1
Sample == [origin : Peers \cup {NODE_ID}, seq : Seqs]
Command == [seq : Seqs, cmd : Cmds]
Packet == Sample \cup Command
NoPacket == SensorCache!NoPacket
IsSample(p) == "origin" \in DOMAIN p

Sensors == {"hts221", "ccs811"}
Threads == {"sensor", "flood", "scan"}
Resuming == {"resume", "resume_hts", "resume_ccs", "resume_flag", "settle"}

Places == [
    main   |-> {"start", "done"},
    sensor |-> {"start", "check", "read", "add", "put"} \cup Resuming,
    flood  |-> {"start", "get", "check", "advertise"},
    scan   |-> {"start", "loop", "scan", "stop", "quiet", "suspend", "suspend_hts",
                "suspend_ccs", "suspend_flag", "sleep", "listen", "listening",
                "unlisten"} \cup Resuming,
    rx     |-> {"idle"} \cup Resuming]

\* Every variable has its declared shape, and the queue its bound.
TypeOK ==
    /\ at \in [DOMAIN Places -> UNION {Places[t] : t \in DOMAIN Places}]
    /\ \A t \in DOMAIN Places : at[t] \in Places[t]
    /\ bt_ready_sem \in 0 .. 3
    /\ current_mode \in {"normal", "low_power"}
    /\ seq \in Seqs
    /\ packet \in Packet \cup {NoPacket}
    /\ packet \in Packet <=> at["flood"] \in {"check", "advertise"}
    /\ at["flood"] = "check" => IsSample(packet)
    /\ flood_msgq \in Seq(Packet) /\ Len(flood_msgq) <= FLOOD_QUEUE_SIZE
    /\ seen_sensor_cache \in SensorCache!Caches(Sample)
    /\ seen_command_cache \in CommandCache!Caches(Command)
    /\ advertised \in Packet \cup {NoPacket}
    /\ scanning \in BOOLEAN /\ scan_running \in BOOLEAN
    /\ power \subseteq Sensors
    /\ sensors_suspended \in BOOLEAN
    /\ errors \in 0 .. MAX_ERRORS
    /\ failed \subseteq Sensors \cup {"radio"}
    /\ leaks \in Nat

Goto(t, place) == at' = [at EXCEPT ![t] = place]

\* A request to the radio, or to a sensor, fails, for as long as errors are left.
Refused(device) ==
    /\ errors > 0
    /\ errors' = errors - 1
    /\ failed' = failed \cup {device}

BadPutUnbounded(p) == flood_msgq' = Append(flood_msgq, p)

\* k_msgq_put with K_NO_WAIT: a full queue drops the packet.
k_msgq_put(p) ==
    flood_msgq' = IF Len(flood_msgq) < FLOOD_QUEUE_SIZE THEN Append(flood_msgq, p)
                  ELSE flood_msgq

-----------------------------------------------------------------------------
(* Start.                                                                  *)

\* The sensors are ready and Bluetooth starts: each thread may run.
main ==
    /\ at["main"] = "start"
    /\ Goto("main", "done")
    /\ bt_ready_sem' = 3
    /\ UNCHANGED <<current_mode, seq, packet, flood_msgq, caches, radio, sensors, leaks>>

StartThread(t) ==
    /\ at[t] = "start" /\ bt_ready_sem > 0
    /\ bt_ready_sem' = bt_ready_sem - 1
    /\ Goto(t, CASE t = "sensor" -> "check" [] t = "flood" -> "get" [] t = "scan" -> "loop")
    /\ UNCHANGED <<current_mode, seq, packet, flood_msgq, caches, radio, sensors, leaks>>

-----------------------------------------------------------------------------
(* Sensor power, called by several threads: next is where t continues.     *)

Resumes == {"resume_hts", "resume_ccs", "resume_flag"}
Suspends == {"suspend_hts", "suspend_ccs", "suspend_flag"}
Transferring == Resumes \cup Suspends

BadSettled(t) == TRUE

\* The two seconds of sleep are longer than a bus transfer: a resume that began before
\* them is over. (The guard waits for one that began since as well.)
Settled(t) == \A u \in DOMAIN at \ {t} : at[u] \notin Resumes

\* pm_device_action_run of a sensor: the caller only prints what it returns.
pm_device_action_run(sensor, powered) ==
    \/ /\ power' = powered
       /\ failed' = failed \ {sensor}
       /\ UNCHANGED errors
    \/ Refused(sensor) /\ UNCHANGED power

unpower == <<bt_ready_sem, current_mode, seq, packet, flood_msgq, caches, advertised,
             scanning, scan_running, leaks>>

resume_sensors(t, next) ==
    /\ \/ /\ at[t] = "resume"
          /\ Goto(t, IF sensors_suspended THEN "resume_hts" ELSE next)
          /\ UNCHANGED <<sensors, faults>>
       \/ /\ at[t] = "resume_hts"
          /\ pm_device_action_run("hts221", power \cup {"hts221"})
          /\ Goto(t, "resume_ccs")
          /\ UNCHANGED sensors_suspended
       \/ /\ at[t] = "resume_ccs"
          /\ pm_device_action_run("ccs811", power \cup {"ccs811"})
          /\ Goto(t, "resume_flag")
          /\ UNCHANGED sensors_suspended
       \/ /\ at[t] = "resume_flag"
          /\ sensors_suspended' = FALSE
          /\ Goto(t, "settle")
          /\ UNCHANGED <<power, faults>>
       \/ /\ at[t] = "settle" /\ Settled(t)
          /\ Goto(t, next)
          /\ UNCHANGED <<sensors, faults>>
    /\ UNCHANGED unpower

suspend_sensors(t, next) ==
    /\ \/ /\ at[t] = "suspend"
          /\ Goto(t, IF sensors_suspended THEN next ELSE "suspend_hts")
          /\ UNCHANGED <<sensors, faults>>
       \/ /\ at[t] = "suspend_hts"
          /\ pm_device_action_run("hts221", power \ {"hts221"})
          /\ Goto(t, "suspend_ccs")
          /\ UNCHANGED sensors_suspended
       \/ /\ at[t] = "suspend_ccs"
          /\ pm_device_action_run("ccs811", power \ {"ccs811"})
          /\ Goto(t, "suspend_flag")
          /\ UNCHANGED sensors_suspended
       \/ /\ at[t] = "suspend_flag"
          /\ sensors_suspended' = TRUE
          /\ Goto(t, next)
          /\ UNCHANGED <<power, faults>>
    /\ UNCHANGED unpower

-----------------------------------------------------------------------------
(* sensor_thread.                                                          *)

\* In low power it looks again after half a second.
CheckSampling ==
    /\ at["sensor"] = "check" /\ current_mode = "normal"
    /\ Goto("sensor", "resume")
    /\ UNCHANGED <<bt_ready_sem, current_mode, seq, packet, flood_msgq, caches, radio,
                   sensors, leaks>>

\* The values read, also those of a failed read, are not told apart.
ReadSensors ==
    /\ at["sensor"] = "read"
    /\ seq' = (seq + 1) % SEQ_MOD
    /\ Goto("sensor", "add")
    /\ UNCHANGED <<bt_ready_sem, current_mode, packet, flood_msgq, caches, radio, sensors,
                   leaks>>

OwnSample == [origin |-> NODE_ID, seq |-> seq]

RememberOwn ==
    /\ at["sensor"] = "add"
    /\ seen_sensor_cache' = SensorCache!check_and_add(seen_sensor_cache, OwnSample)
    /\ Goto("sensor", "put")
    /\ UNCHANGED <<bt_ready_sem, current_mode, seq, packet, flood_msgq, seen_command_cache,
                   radio, sensors, leaks>>

QueueOwn ==
    /\ at["sensor"] = "put"
    /\ k_msgq_put(OwnSample)
    /\ Goto("sensor", "check")
    /\ UNCHANGED <<bt_ready_sem, current_mode, seq, packet, caches, radio, sensors, leaks>>

sensor_thread ==
    \/ StartThread("sensor")
    \/ CheckSampling
    \/ resume_sensors("sensor", "read")
    \/ ReadSensors \/ RememberOwn \/ QueueOwn

-----------------------------------------------------------------------------
(* flood_thread.                                                           *)

GetPacket ==
    /\ at["flood"] = "get" /\ flood_msgq # <<>>
    /\ packet' = Head(flood_msgq)
    /\ flood_msgq' = Tail(flood_msgq)
    /\ Goto("flood", IF IsSample(packet') THEN "check" ELSE "advertise")
    /\ UNCHANGED <<bt_ready_sem, current_mode, seq, caches, radio, sensors, leaks>>

BadCheckRelayNone ==
    /\ at["flood"] = "check"
    /\ Goto("flood", "advertise")
    /\ UNCHANGED <<bt_ready_sem, current_mode, seq, packet, flood_msgq, caches, radio,
                   sensors, leaks>>

\* A sample is dropped in low power.
CheckRelay ==
    /\ at["flood"] = "check"
    /\ \/ current_mode = "normal" /\ Goto("flood", "advertise") /\ UNCHANGED packet
       \/ current_mode # "normal" /\ Goto("flood", "get") /\ packet' = NoPacket
    /\ UNCHANGED <<bt_ready_sem, current_mode, seq, flood_msgq, caches, radio, sensors,
                   leaks>>

\* start_or_update_advertising: the packet replaces what was advertised. Refused, it
\* is not sent at all.
Advertise ==
    /\ at["flood"] = "advertise"
    /\ \/ /\ advertised' = packet
          /\ leaks' = IF IsSample(packet) /\ current_mode = "low_power" THEN leaks + 1
                      ELSE leaks
          /\ UNCHANGED faults
       \/ Refused("radio") /\ UNCHANGED <<advertised, leaks>>
    /\ Goto("flood", "get") /\ packet' = NoPacket
    /\ UNCHANGED <<bt_ready_sem, current_mode, seq, flood_msgq, caches, scanning,
                   scan_running, sensors>>

flood_thread == StartThread("flood") \/ GetPacket \/ CheckRelay \/ Advertise

-----------------------------------------------------------------------------
(* scan_thread. Its sleeps of 1, 10 and 3 seconds are the places loop      *)
(* (before another turn), sleep and listening.                             *)

unscan == <<bt_ready_sem, current_mode, seq, packet, flood_msgq, caches, leaks>>

\* The mode decides the turn.
ScanLoop ==
    /\ at["scan"] = "loop"
    /\ Goto("scan", CASE current_mode = "normal" /\ ~scan_running -> "scan"
                      [] current_mode = "normal" /\ scan_running -> "loop"
                      [] current_mode # "normal" /\ scan_running -> "stop"
                      [] OTHER -> "quiet")
    /\ UNCHANGED <<unscan, radio, sensors>>

BadStartScanBelieved(next) ==
    /\ \/ ~scanning /\ scanning' = TRUE /\ scan_running' = TRUE /\ UNCHANGED faults
       \/ scanning /\ scan_running' = TRUE /\ UNCHANGED <<scanning, faults>>
       \/ Refused("radio") /\ scan_running' = TRUE /\ UNCHANGED scanning
    /\ Goto("scan", next)
    /\ UNCHANGED <<unscan, advertised, sensors>>

\* Refused when already scanning, and possibly otherwise.
start_fast_scan(next) ==
    /\ \/ ~scanning /\ scanning' = TRUE /\ scan_running' = TRUE /\ UNCHANGED faults
       \/ scanning /\ UNCHANGED <<scanning, scan_running, faults>>
       \/ ~scanning /\ Refused("radio") /\ UNCHANGED <<scanning, scan_running>>
    /\ Goto("scan", next)
    /\ UNCHANGED <<unscan, advertised, sensors>>

BadStopScanForgets(next) ==
    /\ \/ scanning' = FALSE /\ UNCHANGED <<scan_running, faults>>
       \/ Refused("radio") /\ UNCHANGED <<scanning, scan_running>>
    /\ Goto("scan", next)
    /\ UNCHANGED <<unscan, advertised, sensors>>

stop_scan(next) ==
    /\ \/ scanning' = FALSE /\ scan_running' = FALSE /\ UNCHANGED faults
       \/ Refused("radio") /\ UNCHANGED <<scanning, scan_running>>
    /\ Goto("scan", next)
    /\ UNCHANGED <<unscan, advertised, sensors>>

stop_advertising_if_running ==
    /\ at["scan"] = "quiet"
    /\ \/ advertised' = NoPacket /\ UNCHANGED faults
       \/ advertised # NoPacket /\ Refused("radio") /\ UNCHANGED advertised
    /\ Goto("scan", "suspend")
    /\ UNCHANGED <<unscan, scanning, scan_running, sensors>>


\* After the long sleep the mode is read again.
WakeUp ==
    /\ at["scan"] = "sleep"
    /\ Goto("scan", IF current_mode = "normal" THEN "resume" ELSE "listen")
    /\ UNCHANGED <<unscan, radio, sensors>>

EndListening ==
    /\ at["scan"] = "listening"
    /\ Goto("scan", IF current_mode = "low_power" /\ scan_running THEN "unlisten" ELSE "loop")
    /\ UNCHANGED <<unscan, radio, sensors>>

scan_thread ==
    \/ StartThread("scan")
    \/ ScanLoop
    \/ at["scan"] = "scan" /\ start_fast_scan("loop")
    \/ at["scan"] = "stop" /\ stop_scan("quiet")
    \/ stop_advertising_if_running
    \/ suspend_sensors("scan", "sleep")
    \/ WakeUp
    \/ resume_sensors("scan", "loop")
    \/ at["scan"] = "listen" /\ start_fast_scan("listening")
    \/ EndListening
    \/ at["scan"] = "unlisten" /\ stop_scan("loop")

-----------------------------------------------------------------------------
(* device_found: a packet of the mesh is heard.                            *)

\* A sample of another node that is new is remembered, and relayed if the mode allows.
HearSample(p) ==
    /\ p.origin # NODE_ID
    /\ ~SensorCache!contains(seen_sensor_cache, p)
    /\ seen_sensor_cache' = SensorCache!check_and_add(seen_sensor_cache, p)
    /\ IF current_mode = "normal" THEN k_msgq_put(p) ELSE UNCHANGED flood_msgq
    /\ UNCHANGED <<at, current_mode, seen_command_cache, leaks>>

set_node_mode(mode) ==
    /\ current_mode' = mode
    /\ leaks' = IF mode = current_mode THEN leaks ELSE 0

handle_command(cmd) ==
    CASE cmd = CMD_SLEEP -> set_node_mode("low_power") /\ UNCHANGED at
      [] cmd = CMD_MEASURE ->
            /\ set_node_mode("normal")
            /\ Goto("rx", IF sensors_suspended THEN "resume_hts" ELSE "idle")
      [] OTHER -> UNCHANGED <<at, current_mode, leaks>>

BadHearCommandRelaysRepeats(p) ==
    /\ k_msgq_put(p)
    /\ IF CommandCache!contains(seen_command_cache, p)
       THEN UNCHANGED <<at, current_mode, seen_command_cache, leaks>>
       ELSE /\ seen_command_cache' = CommandCache!check_and_add(seen_command_cache, p)
            /\ handle_command(p.cmd)
    /\ UNCHANGED seen_sensor_cache

\* A new command is relayed, if there is room, and obeyed.
HearCommand(p) ==
    /\ ~CommandCache!contains(seen_command_cache, p)
    /\ seen_command_cache' = CommandCache!check_and_add(seen_command_cache, p)
    /\ k_msgq_put(p)
    /\ handle_command(p.cmd)
    /\ UNCHANGED seen_sensor_cache

\* What is heard twice, or is the node's own, changes nothing.
device_found(p) ==
    /\ scanning /\ at["rx"] = "idle"
    /\ \/ p \in Sample /\ HearSample(p)
       \/ p \in Command /\ HearCommand(p)
    /\ UNCHANGED <<bt_ready_sem, seq, packet, radio, sensors>>

FinishResume == resume_sensors("rx", "idle")

-----------------------------------------------------------------------------
Init ==
    /\ at = [t \in DOMAIN Places |-> IF t = "rx" THEN "idle" ELSE "start"]
    /\ bt_ready_sem = 0
    /\ current_mode = "normal"
    /\ seq = 0
    /\ packet = NoPacket
    /\ flood_msgq = <<>>
    /\ seen_sensor_cache = SensorCache!Empty
    /\ seen_command_cache = CommandCache!Empty
    /\ advertised = NoPacket
    /\ scanning = FALSE /\ scan_running = FALSE
    /\ power = Sensors /\ sensors_suspended = FALSE
    /\ errors = MAX_ERRORS /\ failed = {}
    /\ leaks = 0

Next ==
    \/ main
    \/ sensor_thread \/ flood_thread \/ scan_thread
    \/ \E p \in Packet : device_found(p)
    \/ FinishResume

Spec == Init /\ [][Next]_vars

\* Every thread that is ready runs; nothing is assumed of what is heard.
FairSpec ==
    /\ Spec
    /\ WF_vars(main) /\ WF_vars(sensor_thread) /\ WF_vars(flood_thread)
    /\ WF_vars(scan_thread) /\ WF_vars(FinishResume)

-----------------------------------------------------------------------------
RadioObeys == "radio" \notin failed

\* sensors_suspended is written without a lock by three threads, each after two bus
\* transfers. When none is in the middle of that, it says what each sensor is: were it
\* wrong, resume_sensors would return at once and the sensor stay off. A transfer that
\* fails, which sets the flag as well, makes it wrong of that sensor alone, and until the
\* next transfer. (A scan that could not be stopped lets a command in while scan_thread
\* goes to sleep, and then it may be wrong of both.)
SensorsAsBelieved ==
    RadioObeys /\ (\A t \in DOMAIN at : at[t] \notin Transferring) =>
        \A s \in Sensors \ failed : s \in power <=> ~sensors_suspended

\* flood_thread looks at the mode and advertises later: a command to sleep may come
\* between, but lets at most that one sample out.
LeaksAtMostOne == leaks <= 1

\* scan_thread's own bit of scanning, on which it decides to start and to stop, is
\* never wrong, whatever request fails and whenever the mode changes.
ScanTracked == scan_running = scanning

\* Each sample is remembered until SEEN_SENSOR_CACHE_SIZE later ones, own ones
\* included, pushed it out: the cache shared by sensor_thread and device_found
\* implements SeenWindow.
SampleWindow ==
    INSTANCE SeenWindow WITH recent <- SensorCache!OldestFirst(seen_sensor_cache),
                             SIZE <- SEEN_SENSOR_CACHE_SIZE, Packets <- Sample
ForgetsOldestSample == SampleWindow!Spec

\* The same of commands.
CommandWindow ==
    INSTANCE SeenWindow WITH recent <- CommandCache!OldestFirst(seen_command_cache),
                             SIZE <- SEEN_COMMAND_CACHE_SIZE, Packets <- Command
ForgetsOldestCommand == CommandWindow!Spec

\* What is between a packet being new and its advertisement: in flood_msgq, in the
\* hands of flood_thread, or of sensor_thread before it.
Owed(p) ==
    Cardinality({i \in DOMAIN flood_msgq : flood_msgq[i] = p})
        + (IF at["flood"] \in {"check", "advertise"} /\ packet = p THEN 1 ELSE 0)
        + (IF at["sensor"] = "put" /\ p = OwnSample THEN 1 ELSE 0)

\* The threads and the callback together are a MeshNode: however they interleave, the
\* node advertises only what it sampled or heard, once for each time it was new, and
\* obeys a command exactly when it is new.
MeshNode ==
    INSTANCE MeshNode WITH
        Samples <- Sample, Own <- {p \in Sample : p.origin = NODE_ID},
        Commands <- Command,
        Sleeps <- {p \in Command : p.cmd = CMD_SLEEP},
        Wakes <- {p \in Command : p.cmd = CMD_MEASURE},
        SAMPLES_KEPT <- SEEN_SENSOR_CACHE_SIZE, COMMANDS_KEPT <- SEEN_COMMAND_CACHE_SIZE,
        Nothing <- NoPacket,
        mode <- current_mode,
        samples <- SensorCache!OldestFirst(seen_sensor_cache),
        commands <- CommandCache!OldestFirst(seen_command_cache),
        owed <- [p \in Packet |-> Owed(p)]
ImplementsMeshNode == MeshNode!Spec

\* If the last command heard leaves the node in normal mode, the scanner is on in the
\* end and stays so, and so does each sensor, unless its last transfer failed, whatever
\* scan_thread was about to switch off.
SettlesAwake ==
    <>[](current_mode = "normal" /\ RadioObeys) =>
        <>[](scanning /\ Sensors \ failed \subseteq power)

=============================================================================
