------------------------------ MODULE BaseNode ------------------------------
(***************************************************************************)
(* The base node: the link to the mobile node (nus_central.c), the window  *)
(* of records (node_buffer.c), the filtered air quality (air_quality.c,    *)
(* kalman.c), the shell commands (main.c) and the buzzer (module Buzzer).  *)
(*                                                                         *)
(* Bluetooth callbacks and work items run on cooperative threads: each is  *)
(* one step. The shell thread is preemptible: its statements are steps of  *)
(* their own, and any callback or work item can run between two of them.   *)
(*                                                                         *)
(* A definition whose name starts with Bad is a plausible slip; see Buzzer.*)
(***************************************************************************)
EXTENDS Naturals, Sequences

CONSTANTS
    Nodes,              \* names of sensor nodes
    Readings,           \* [eco2, tvoc] bands the sensors measure
    NODE_BUFFER_MAX,    \* records the window buffer holds (8 in the source)
    ENV_NODE_NAME_LEN,  \* of this node's env_packet.h (8 in the source)
    PEER_NAME_LEN,      \* of the mobile node's env_packet.h (9 in the source)
    ShellCommands,      \* the commands the user types
    ScanErrors,         \* whether bt_le_scan_start may fail
    MSGQ_DEPTH,         \* see Buzzer
    CHIRP_COUNT         \* see Buzzer

GOOD == 0
WARNING == 1
POOR == 2
Level == {GOOD, WARNING, POOR}
Quality == [eco2 : Level, tvoc : Level]

EOW_NODE_ID == "EOW"

ASSUME BaseNodeAssumption ==
    /\ EOW_NODE_ID \notin Nodes /\ "none" \notin Nodes
    /\ Readings \subseteq Quality
    /\ NODE_BUFFER_MAX \in Nat \ {0}
    /\ ENV_NODE_NAME_LEN \in Nat /\ PEER_NAME_LEN \in Nat
    /\ ShellCommands \subseteq {"wake", "sleep"}
    /\ ScanErrors \in BOOLEAN
    /\ MSGQ_DEPTH \in Nat \ {0} /\ CHIRP_COUNT \in Nat \ {0}

VARIABLES
    default_conn,   \* "null", "creating" (bt_conn_le_create issued) or "up"
    is_connected,
    nus_rx_handle,  \* 0 or 1 (some handle)
    scanning,       \* the controller scans for mobile_node
    scan_restart,   \* scan_restart_work is scheduled
    discovery,      \* what discover_func looks for, or "subscribed", or "none"
    rx_discovery,   \* rx_discover_func is awaited
    pending_rec,    \* the record notify_work will read, NoRecord if not submitted
    buffer,         \* node_buffer.c: the records of this window
    est,            \* bands of the two Kalman estimates
    last,           \* last_eco2_class and last_tvoc_class
    shell,          \* the shell thread: command and place in it
    bz,             \* the buzzer
    reported,       \* history: newest record printed of each node since the last EOW
    missed          \* history: a record of some node came and can no longer be printed

link == <<default_conn, is_connected, nus_rx_handle, scanning, scan_restart,
          discovery, rx_discovery>>
window == <<buffer, reported>>
vars == <<link, pending_rec, missed, window, est, last, shell, bz>>

Bz == INSTANCE Buzzer

-----------------------------------------------------------------------------
Record == [id : Nodes, eco2 : Level, tvoc : Level]
EowRecord == [id |-> EOW_NODE_ID, eco2 |-> GOOD, tvoc |-> GOOD]
NoRecord == [id |-> "none", eco2 |-> GOOD, tvoc |-> GOOD]

Stage == <<"service", "tx", "ccc", "subscribed">>
Idle == [cmd |-> "none", at |-> "idle"]
ShellAt == {"check", "write", "stop", "resetEco2", "resetTvoc", "forgetEco2", "forgetTvoc"}
AllGood == [eco2 |-> GOOD, tvoc |-> GOOD]

\* Every variable has its declared shape and the window buffer its bound.
TypeOK ==
    /\ default_conn \in {"null", "creating", "up"}
    /\ is_connected \in BOOLEAN
    /\ nus_rx_handle \in {0, 1}
    /\ scanning \in BOOLEAN /\ scan_restart \in BOOLEAN
    /\ discovery \in {"none", "service", "tx", "ccc", "subscribed"}
    /\ rx_discovery \in BOOLEAN
    /\ pending_rec \in Record \cup {EowRecord, NoRecord}
    /\ buffer \in Seq(Record) /\ Len(buffer) <= NODE_BUFFER_MAX
    /\ est \in Quality /\ last \in Quality
    /\ shell \in [cmd : ShellCommands, at : ShellAt] \cup {Idle}
    /\ Bz!TypeOK
    /\ reported \subseteq Record
    /\ missed \in BOOLEAN

-----------------------------------------------------------------------------
(* The window buffer (node_buffer.c).                                      *)

BadAddTwice(buf, rec) ==
    IF Len(buf) < NODE_BUFFER_MAX THEN Append(buf, rec) ELSE buf

BadAddUnbounded(buf, rec) ==
    IF \E i \in DOMAIN buf : buf[i].id = rec.id
    THEN [i \in DOMAIN buf |-> IF buf[i].id = rec.id THEN rec ELSE buf[i]]
    ELSE IF Len(buf) <= NODE_BUFFER_MAX THEN Append(buf, rec) ELSE buf

\* Overwrite the node's record, or append one while there is room.
node_buffer_add(buf, rec) ==
    IF \E i \in DOMAIN buf : buf[i].id = rec.id
    THEN [i \in DOMAIN buf |-> IF buf[i].id = rec.id THEN rec ELSE buf[i]]
    ELSE IF Len(buf) < NODE_BUFFER_MAX THEN Append(buf, rec) ELSE buf

(***************************************************************************)
(* The filter (kalman.c). A step moves the estimate part of the way to the *)
(* measurement (the gain lies strictly between 0 and 1), so the bands the  *)
(* estimate can end in after a window are those between its old band and   *)
(* the bands of the window's records.                                      *)
(***************************************************************************)
Hull(levels) ==
    {l \in Level : \E a \in levels, b \in levels : a <= l /\ l <= b}

air_quality_update(e, buf) ==
    [ eco2 : Hull({e.eco2} \cup {buf[i].eco2 : i \in DOMAIN buf}),
      tvoc : Hull({e.tvoc} \cup {buf[i].tvoc : i \in DOMAIN buf}) ]

-----------------------------------------------------------------------------
(* Scanning and connecting (nus_central.c).                                *)

\* bt_le_scan_start: it may fail, and nobody tries again.
start_scan == scanning' \in (IF ScanErrors THEN BOOLEAN ELSE {TRUE})

\* The restart is not cancelled by anyone, nor does it ask whether it is needed.
scan_restart_fn ==
    /\ scan_restart
    /\ scan_restart' = FALSE
    /\ start_scan
    /\ UNCHANGED <<default_conn, is_connected, nus_rx_handle, discovery, rx_discovery,
                   pending_rec, missed, window, est, last, shell, bz>>

\* An advertisement with the mobile node's name: create the connection, or
\* scan on when that is refused.
device_found ==
    /\ scanning
    /\ default_conn = "null"
    /\ \/ default_conn' = "creating" /\ scanning' = FALSE
       \/ default_conn' = "null" /\ start_scan
    /\ UNCHANGED <<is_connected, nus_rx_handle, scan_restart, discovery, rx_discovery,
                   pending_rec, missed, window, est, last, shell, bz>>

BadConnectFailedNoScan ==
    /\ default_conn = "creating"
    /\ default_conn' = "null"
    /\ UNCHANGED <<scanning, is_connected, nus_rx_handle, scan_restart, discovery,
                   rx_discovery, pending_rec, missed, window, est, last, shell, bz>>

\* connected(conn, conn_err # 0)
ConnectFailed ==
    /\ default_conn = "creating"
    /\ default_conn' = "null"
    /\ start_scan
    /\ UNCHANGED <<is_connected, nus_rx_handle, scan_restart, discovery, rx_discovery,
                   pending_rec, missed, window, est, last, shell, bz>>

\* connected(conn, 0): the search for the service can be refused, which also
\* skips the search for the RX characteristic, or only the latter is refused.
Connected ==
    /\ default_conn = "creating"
    /\ default_conn' = "up"
    /\ is_connected' = TRUE
    /\ \/ discovery' = "service" /\ rx_discovery' \in BOOLEAN
       \/ discovery' = "none" /\ rx_discovery' = FALSE
    /\ UNCHANGED <<nus_rx_handle, scanning, scan_restart, pending_rec, missed, window,
                   est, last, shell, bz>>

\* discover_func finds what it looks for and looks for the next thing, or
\* ends: nothing found, or the next search refused.
discover_func ==
    /\ discovery \in {"service", "tx", "ccc"}
    /\ \/ discovery' = "none"
       \/ \E i \in 1..3 : Stage[i] = discovery /\ discovery' = Stage[i + 1]
    /\ UNCHANGED <<default_conn, is_connected, nus_rx_handle, scanning, scan_restart,
                   rx_discovery, pending_rec, missed, window, est, last, shell, bz>>

rx_discover_func ==
    /\ rx_discovery
    /\ rx_discovery' = FALSE
    /\ nus_rx_handle' \in {nus_rx_handle, 1}
    /\ UNCHANGED <<default_conn, is_connected, scanning, scan_restart, discovery,
                   pending_rec, missed, window, est, last, shell, bz>>

BadDisconnectedKeepsHandle ==
    /\ default_conn = "up"
    /\ default_conn' = "null"
    /\ is_connected' = FALSE
    /\ discovery' = "none" /\ rx_discovery' = FALSE
    /\ bz' = Bz!buzzer_stop(bz)
    /\ last' = AllGood
    /\ scan_restart' = TRUE
    /\ UNCHANGED <<nus_rx_handle, scanning, pending_rec, missed, window, est, shell>>

BadDisconnectedKeepsClass ==
    /\ default_conn = "up"
    /\ default_conn' = "null"
    /\ is_connected' = FALSE
    /\ nus_rx_handle' = 0
    /\ discovery' = "none" /\ rx_discovery' = FALSE
    /\ bz' = Bz!buzzer_stop(bz)
    /\ scan_restart' = TRUE
    /\ UNCHANGED <<last, scanning, pending_rec, missed, window, est, shell>>

\* The filters, the window and a submitted notify_work survive the link.
Disconnected ==
    /\ default_conn = "up"
    /\ default_conn' = "null"
    /\ is_connected' = FALSE
    /\ nus_rx_handle' = 0
    /\ discovery' = "none" /\ rx_discovery' = FALSE
    /\ bz' = Bz!buzzer_stop(bz)
    /\ last' = AllGood
    /\ scan_restart' = TRUE
    /\ UNCHANGED <<scanning, pending_rec, missed, window, est, shell>>

-----------------------------------------------------------------------------
(* Records from the mobile node.                                           *)

\* sizeof(struct env_record): the name, padded to 4 bytes, and 12 bytes more.
SizeOfRecord(nameLen) == ((nameLen + 3) \div 4) * 4 + 12

\* A notification of a whole record is left for notify_work, over whatever
\* record that work has not read yet.
notify_func(rec) ==
    /\ discovery = "subscribed"
    /\ IF SizeOfRecord(PEER_NAME_LEN) = SizeOfRecord(ENV_NODE_NAME_LEN)
       THEN /\ pending_rec' = rec
            /\ missed' = (missed \/ pending_rec.id \in Nodes)
       ELSE /\ missed' = (missed \/ rec.id \in Nodes)
            /\ UNCHANGED pending_rec
    /\ UNCHANGED <<link, window, est, last, shell, bz>>

ReceiveRecord ==
    \/ notify_func(EowRecord)
    \/ \E n \in Nodes, q \in Readings :
          notify_func([id |-> n, eco2 |-> q.eco2, tvoc |-> q.tvoc])

\* notify_work_fn, a node's record.
StoreRecord ==
    /\ pending_rec.id \in Nodes
    /\ buffer' = node_buffer_add(buffer, pending_rec)
    /\ reported' = {r \in reported : r.id # pending_rec.id} \cup {pending_rec}
    /\ pending_rec' = NoRecord
    /\ UNCHANGED <<link, missed, est, last, shell, bz>>

BadAlarmChirpsFirst(b, cls) ==
    CASE POOR \in {cls.eco2, cls.tvoc}    -> Bz!buzzer_poor(b)
      [] POOR \notin {cls.eco2, cls.tvoc} /\ WARNING \in {cls.eco2, cls.tvoc}
                                          -> Bz!buzzer_stop(Bz!buzzer_warning(b))
      [] OTHER                            -> Bz!buzzer_stop(b)

BadAlarmWarningAdds(b, cls) ==
    CASE POOR \in {cls.eco2, cls.tvoc}    -> Bz!buzzer_poor(b)
      [] POOR \notin {cls.eco2, cls.tvoc} /\ WARNING \in {cls.eco2, cls.tvoc}
                                          -> Bz!buzzer_warning(b)
      [] OTHER                            -> Bz!buzzer_stop(b)

\* What a changed classification asks of the buzzer.
Announce(b, cls) ==
    CASE POOR \in {cls.eco2, cls.tvoc}    -> Bz!buzzer_poor(b)
      [] POOR \notin {cls.eco2, cls.tvoc} /\ WARNING \in {cls.eco2, cls.tvoc}
                                          -> Bz!buzzer_warning(Bz!buzzer_stop(b))
      [] OTHER                            -> Bz!buzzer_stop(b)

\* notify_work_fn, the end of the window.
CloseWindow ==
    /\ pending_rec = EowRecord
    /\ est' \in air_quality_update(est, buffer)
    /\ bz' = IF est' # last THEN Announce(bz, est') ELSE bz
    /\ last' = est'
    /\ buffer' = <<>> /\ reported' = {}
    /\ pending_rec' = NoRecord
    /\ UNCHANGED <<link, missed, shell>>

notify_work_fn == StoreRecord \/ CloseWindow

-----------------------------------------------------------------------------
(* Shell commands (main.c), one step per access to shared state.           *)

Goto(place) == shell' = [shell EXCEPT !.at = place]

\* The user types a command; without a connection it only complains.
EnterCommand ==
    /\ shell = Idle
    /\ is_connected
    /\ \E c \in ShellCommands : shell' = [cmd |-> c, at |-> "check"]
    /\ UNCHANGED <<link, pending_rec, missed, window, est, last, bz>>

\* The checks of nus_send_command.
CheckLink ==
    /\ shell.at = "check"
    /\ IF is_connected /\ nus_rx_handle # 0 THEN Goto("write") ELSE shell' = Idle
    /\ UNCHANGED <<link, pending_rec, missed, window, est, last, bz>>

\* bt_gatt_write(default_conn, ...): refused when the link went down since the
\* checks, and possibly otherwise; only sleep has more to do. On a link that came
\* up again the handle can be 0, which the peer refuses later: that is no error here.
WriteCommand ==
    /\ shell.at = "write"
    /\ \/ shell' = Idle
       \/ default_conn = "up" /\ shell.cmd = "sleep" /\ Goto("stop")
    /\ UNCHANGED <<link, pending_rec, missed, window, est, last, bz>>

\* The chip starts again from main: everything is in RAM.
Restart ==
    /\ default_conn' = "null" /\ is_connected' = FALSE /\ nus_rx_handle' = 0
    /\ start_scan /\ scan_restart' = FALSE
    /\ discovery' = "none" /\ rx_discovery' = FALSE
    /\ pending_rec' = NoRecord
    /\ missed' = (missed \/ pending_rec.id \in Nodes)
    /\ buffer' = <<>> /\ reported' = {}
    /\ est' = AllGood /\ last' = AllGood
    /\ shell' = Idle
    /\ Bz!Reset

\* disconnected() has cleared default_conn since the checks and bt_gatt_write gets
\* NULL. What it reads there may look like a connection that is down, which is the
\* refusal above, or fault: then the watchdog, fed no more, resets the chip.
WriteFaults ==
    /\ shell.at = "write"
    /\ default_conn = "null"
    /\ Restart

StopBuzzer ==
    /\ shell.at = "stop"
    /\ bz' = Bz!buzzer_stop(bz)
    /\ Goto("resetEco2")
    /\ UNCHANGED <<link, pending_rec, missed, window, est, last>>

\* air_quality_reset, one filter after the other.
air_quality_reset ==
    /\ \/ shell.at = "resetEco2" /\ est' = [est EXCEPT !.eco2 = GOOD] /\ Goto("resetTvoc")
       \/ shell.at = "resetTvoc" /\ est' = [est EXCEPT !.tvoc = GOOD] /\ Goto("forgetEco2")
    /\ UNCHANGED <<link, pending_rec, missed, window, last, bz>>

nus_central_reset_classification ==
    /\ \/ shell.at = "forgetEco2" /\ last' = [last EXCEPT !.eco2 = GOOD] /\ Goto("forgetTvoc")
       \/ shell.at = "forgetTvoc" /\ last' = [last EXCEPT !.tvoc = GOOD] /\ shell' = Idle
    /\ UNCHANGED <<link, pending_rec, missed, window, est, bz>>

ShellStep ==
    \/ CheckLink
    \/ WriteCommand
    \/ WriteFaults
    \/ StopBuzzer
    \/ air_quality_reset
    \/ nus_central_reset_classification

-----------------------------------------------------------------------------
buzzer_thread ==
    /\ Bz!buzzer_thread
    /\ UNCHANGED <<link, pending_rec, missed, window, est, last, shell>>

Init ==
    /\ default_conn = "null" /\ is_connected = FALSE /\ nus_rx_handle = 0
    /\ scanning \in (IF ScanErrors THEN BOOLEAN ELSE {TRUE})
    /\ scan_restart = FALSE
    /\ discovery = "none" /\ rx_discovery = FALSE
    /\ pending_rec = NoRecord /\ missed = FALSE
    /\ buffer = <<>> /\ reported = {}
    /\ est = AllGood /\ last = AllGood
    /\ shell = Idle
    /\ Bz!Init

LinkStep ==
    \/ scan_restart_fn
    \/ device_found
    \/ ConnectFailed
    \/ Connected
    \/ discover_func
    \/ rx_discover_func
    \/ Disconnected

Next ==
    \/ LinkStep
    \/ ReceiveRecord
    \/ notify_work_fn
    \/ EnterCommand
    \/ ShellStep
    \/ buzzer_thread

Spec == Init /\ [][Next]_vars

\* Work items and threads that are ready run; a connection attempt ends, one
\* way or the other, within the stack's timeout.
FairSpec ==
    /\ Spec
    /\ WF_vars(scan_restart_fn)
    /\ WF_vars(ConnectFailed \/ Connected)
    /\ WF_vars(notify_work_fn)
    /\ WF_vars(ShellStep)
    /\ WF_vars(buzzer_thread)

-----------------------------------------------------------------------------
MidReset == shell.at \in {"resetEco2", "resetTvoc", "forgetEco2", "forgetTvoc"}
PoorAir == POOR \in {last.eco2, last.tvoc}

\* The pieces of link state that different callbacks and the scan restart work
\* maintain agree: no handle, search or subscription outlives its connection,
\* and the node never scans, nor will restart the scan, while it has one.
LinkConsistent ==
    /\ is_connected <=> default_conn = "up"
    /\ nus_rx_handle # 0 \/ rx_discovery \/ discovery # "none" => is_connected
    /\ scanning \/ scan_restart => default_conn = "null"
    /\ ~(scanning /\ scan_restart)

\* The buffer the filter is fed from is the window that was printed: one record
\* of a node, its newest, and every node's unless the buffer is full.
BufferIsWindow ==
    /\ \A i \in DOMAIN buffer : buffer[i] \in reported
    /\ \A i, j \in DOMAIN buffer : buffer[i].id = buffer[j].id => i = j
    /\ \/ \A r \in reported : \E i \in DOMAIN buffer : buffer[i] = r
       \/ Len(buffer) = NODE_BUFFER_MAX

\* README "Buzzer Behaviour": air last classified as poor has the alarm demanded
\* of the buzzer, through any interleaving of windows, disconnections and shell
\* commands; not while sleep is being carried out, nor once a command was lost.
PoorIsSounded == PoorAir /\ ~MidReset /\ ~bz.lost => Bz!Demand(bz)

\* README "Buzzer Behaviour": the alarm is demanded exactly while the air is
\* classified as poor, and sleep stops it.
AlarmMatchesClassification == ~MidReset /\ ~bz.lost => (Bz!Demand(bz) <=> PoorAir)

\* src/README.md:480, "the base node will output JSON for each received record":
\* no record of a node is refused or overwritten before it is printed.
EveryRecordReported == ~missed

\* Seen through its buzzer, the node behaves as module Buzzer says its callers
\* do: STOP, POOR, or STOP then WARNING, posted between two steps of the thread.
ImplementsBuzzer == Bz!Spec

\* A node without a connection comes back to scanning for the mobile node.
ReturnsToScan == default_conn = "null" ~> scanning \/ default_conn # "null"

\* Air classified as poor is heard, and air that no longer is falls silent,
\* unless the classification changes, or the queue overflows, before.
PoorIsHeard == PoorAir ~> bz.tone = "alarm" \/ ~PoorAir \/ bz.lost
GoodIsSilent == ~PoorAir ~> bz.tone # "alarm" \/ PoorAir \/ bz.lost
=============================================================================
