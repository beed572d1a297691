----------------------------- MODULE MobileNode -----------------------------
(***************************************************************************)
(* The mobile node: it sniffs the sensor nodes' advertisements, forwards   *)
(* the newest record of each to the base node once per window, and         *)
(* broadcasts the base node's commands into the mesh (ble.c); it keeps     *)
(* itself connectable whenever it is not connected (nus_peripheral.c).     *)
(*                                                                         *)
(* Bluetooth callbacks and work items run on cooperative threads: each is  *)
(* one step. nus_send_thread and proc_thread are preemptible: their places *)
(* between two accesses to shared state are the variables sender and proc. *)
(* node_records_mutex is held exactly while sender is not asleep, and in   *)
(* the one step in which proc_thread stores a record.                      *)
(*                                                                         *)
(* A sample's identity is its origin, the lap its origin is in (laps begin *)
(* at a reboot and when the 8-bit counter wraps; the packet does not carry *)
(* the lap) and its sequence number.                                       *)
(*                                                                         *)
(* A definition whose name starts with Bad is a plausible slip; see Buzzer.*)
(***************************************************************************)
EXTENDS Integers, Sequences, FiniteSets

CONSTANTS
    Nodes,                  \* sensor nodes
    SEQ_MOD,                \* values of a sequence number (256 in the source)
    SNIFFER_MAX_NODES,      \* slots of seq_table and node_records (8)
    NODE_TIMEOUT,           \* NODE_TIMEOUT_MS, in ticks
    MAX_DELAY,              \* ticks a packet can stay in the mesh
    ADV_MSGQ_SIZE,          \* packets adv_msgq holds (32)
    CMD_MSGQ_SIZE,          \* commands cmd_msgq holds (4)
    CMD_BROADCAST_COUNT,    \* times a command is broadcast (3)
    Commands,               \* commands the base node sends
    ScanErrors,             \* whether bt_le_scan_start may fail
    BroadcastErrors,        \* whether a broadcast's bt_le_adv_start may fail
    MAX_LAP,                \* bound: the last lap of a node
    MAX_NOW                 \* bound: the last tick

ASSUME MobileNodeAssumption ==
    /\ \A c \in {SEQ_MOD, SNIFFER_MAX_NODES, ADV_MSGQ_SIZE, CMD_MSGQ_SIZE,
                 CMD_BROADCAST_COUNT} : c \in Nat \ {0}
    /\ NODE_TIMEOUT \in Nat /\ MAX_DELAY \in Nat
    /\ MAX_DELAY < NODE_TIMEOUT
    /\ ScanErrors \in BOOLEAN /\ BroadcastErrors \in BOOLEAN
    /\ MAX_LAP \in Nat /\ MAX_NOW \in Nat

VARIABLES
    now,                \* uptime, in ticks
    source,             \* lap and sequence number of each node's newest sample
    air,                \* packets the mesh may still deliver, once or often
    adv_msgq,           \* sniffed packets
    seq_table,          \* last_seq and last_seen_ms of the nodes with a slot
    node_records,       \* the records of this window
    cmd_msgq,           \* commands to broadcast
    proc,               \* proc_thread: place, the packet held, repetitions left
    sender,             \* nus_send_thread: place, records already passed
    current_conn,       \* whether it is non-NULL
    nus_notify_enabled,
    advertising,        \* "off", "conn" (connectable) or "nconn" (a command)
    scanning,
    adv_restart,        \* adv_restart_work is scheduled
    forwarded           \* history: last sequence number sent per node and lap

env  == <<now, source, air>>
link == <<current_conn, nus_notify_enabled, advertising, scanning, adv_restart>>
vars == <<env, adv_msgq, seq_table, node_records, cmd_msgq, proc, sender, link, forwarded>>

-----------------------------------------------------------------------------
Seqs == 0 .. SEQ_MOD - 1
Laps == 0 .. MAX_LAP
Sample == [id : Nodes, lap : Laps, seq : Seqs]
Packet == [id : Nodes, lap : Laps, seq : Seqs, born : Nat]
Raw == [id : Nodes, lap : Laps, seq : Seqs, timestamp : Nat]

NoEntry == [valid |-> FALSE, last_seq |-> 0, last_seen |-> 0]
NoRaw == <<>>
Broadcasting == {"start", "airing", "gap"}

\* Every variable has its declared shape, and the queues and tables their bounds.
TypeOK ==
    /\ now \in Nat
    /\ source \in [Nodes -> [lap : Laps, seq : Seqs]]
    /\ air \subseteq Packet
    /\ adv_msgq \in Seq(Raw) /\ Len(adv_msgq) <= ADV_MSGQ_SIZE
    /\ seq_table \in [Nodes -> [valid : BOOLEAN, last_seq : Seqs, last_seen : Nat]]
    /\ Cardinality({n \in Nodes : seq_table[n].valid}) <= SNIFFER_MAX_NODES
    /\ node_records \in Seq(Sample) /\ Len(node_records) <= SNIFFER_MAX_NODES
    /\ cmd_msgq \in Seq(Commands) /\ Len(cmd_msgq) <= CMD_MSGQ_SIZE
    /\ proc \in [at : {"adv", "store", "cmd"} \cup Broadcasting,
                 raw : Raw \cup {NoRaw}, left : 0 .. CMD_BROADCAST_COUNT]
    /\ proc.at = "store" <=> proc.raw # NoRaw
    /\ sender \in [at : {"sleep", "send", "eow"}, passed : Nat]
    /\ sender.passed <= Len(node_records)
    /\ current_conn \in BOOLEAN /\ nus_notify_enabled \in BOOLEAN
    /\ advertising \in {"off", "conn", "nconn"}
    /\ scanning \in BOOLEAN /\ adv_restart \in BOOLEAN
    /\ forwarded \in [Nodes -> [Laps -> Int]]

-----------------------------------------------------------------------------
(* The mesh, as the sniffer can tell. Its code is in Thingy52.             *)

NextSample(s) ==
    IF s.seq + 1 < SEQ_MOD THEN [s EXCEPT !.seq = @ + 1] ELSE [lap |-> s.lap + 1, seq |-> 0]

\* A tick is the sampling interval (also the least time a reboot takes).
NodeSamples(n) ==
    /\ NextSample(source[n]).lap \in Laps
    /\ \A p \in air : p.id = n => p.born # now
    /\ source' = [source EXCEPT ![n] = NextSample(@)]
    /\ air' = air \cup {[id |-> n, lap |-> source'[n].lap, seq |-> source'[n].seq,
                         born |-> now]}
    /\ UNCHANGED <<now, adv_msgq, seq_table, node_records, cmd_msgq, proc, sender, link,
                   forwarded>>

\* The counter starts again; the first sample after it has number 1.
NodeReboots(n) ==
    /\ source[n].lap + 1 \in Laps
    /\ source' = [source EXCEPT ![n] = [lap |-> @.lap + 1, seq |-> 0]]
    /\ UNCHANGED <<now, air, adv_msgq, seq_table, node_records, cmd_msgq, proc, sender,
                   link, forwarded>>

\* Packets held by the mobile node itself are processed within a tick.
Pending == {adv_msgq[i] : i \in DOMAIN adv_msgq}
              \cup (IF proc.at = "store" THEN {proc.raw} ELSE {})

Tick ==
    /\ now < MAX_NOW
    /\ \A r \in Pending : r.timestamp = now
    /\ now' = now + 1
    /\ air' = {p \in air : now' - p.born <= MAX_DELAY}
    /\ UNCHANGED <<source, adv_msgq, seq_table, node_records, cmd_msgq, proc, sender,
                   link, forwarded>>

-----------------------------------------------------------------------------
(* Sniffing (sniffer_device_found and the first loop of proc_thread).      *)

sniffer_device_found(p) ==
    /\ scanning
    /\ adv_msgq' = IF Len(adv_msgq) < ADV_MSGQ_SIZE
                   THEN Append(adv_msgq, [id |-> p.id, lap |-> p.lap, seq |-> p.seq,
                                          timestamp |-> now])
                   ELSE adv_msgq
    /\ UNCHANGED <<env, seq_table, node_records, cmd_msgq, proc, sender, link, forwarded>>

BadAllocSeqUnlimited(n) ==
    \/ seq_table[n].valid
    \/ Cardinality({m \in Nodes : seq_table[m].valid}) <= SNIFFER_MAX_NODES

\* The node has a slot, or one is left to give it: slots are never freed.
find_or_alloc_seq(n) ==
    \/ seq_table[n].valid
    \/ Cardinality({m \in Nodes : seq_table[m].valid}) < SNIFFER_MAX_NODES

BadSeqAcceptsRepeat(entry, seq) ==
    \/ now - entry.last_seen > NODE_TIMEOUT
    \/ seq >= entry.last_seq

seq_is_valid(entry, seq) ==
    \/ now - entry.last_seen > NODE_TIMEOUT
    \/ seq > entry.last_seq

\* Take a packet; keep it when its node has a slot and its number is news.
TakePacket ==
    /\ proc.at = "adv" /\ adv_msgq # <<>>
    /\ adv_msgq' = Tail(adv_msgq)
    /\ LET raw == Head(adv_msgq)
       IN  \/ /\ ~find_or_alloc_seq(raw.id)
              /\ UNCHANGED <<seq_table, proc>>
           \/ /\ find_or_alloc_seq(raw.id)
              /\ ~seq_is_valid(seq_table[raw.id], raw.seq)
              /\ seq_table' = [seq_table EXCEPT ![raw.id].valid = TRUE]
              /\ UNCHANGED proc
           \/ /\ find_or_alloc_seq(raw.id)
              /\ seq_is_valid(seq_table[raw.id], raw.seq)
              /\ seq_table' = [seq_table EXCEPT ![raw.id] =
                    [valid |-> TRUE, last_seq |-> raw.seq, last_seen |-> raw.timestamp]]
              /\ proc' = [proc EXCEPT !.at = "store", !.raw = raw]
    /\ UNCHANGED <<env, node_records, cmd_msgq, sender, link, forwarded>>

SampleOf(raw) == [id |-> raw.id, lap |-> raw.lap, seq |-> raw.seq]

BadNodeAppends(recs, s) ==
    IF Len(recs) < SNIFFER_MAX_NODES THEN Append(recs, s) ELSE recs

BadNodeKeepsFirst(recs, s) ==
    IF \E i \in DOMAIN recs : recs[i].id = s.id THEN recs
    ELSE IF Len(recs) < SNIFFER_MAX_NODES THEN Append(recs, s) ELSE recs

\* Overwrite the node's record, or append one while there is room.
find_or_alloc_node(recs, s) ==
    IF \E i \in DOMAIN recs : recs[i].id = s.id
    THEN [i \in DOMAIN recs |-> IF recs[i].id = s.id THEN s ELSE recs[i]]
    ELSE IF Len(recs) < SNIFFER_MAX_NODES THEN Append(recs, s) ELSE recs

\* Waits for node_records_mutex.
StoreRecord ==
    /\ proc.at = "store"
    /\ sender.at = "sleep"
    /\ node_records' = find_or_alloc_node(node_records, SampleOf(proc.raw))
    /\ proc' = [proc EXCEPT !.at = "adv", !.raw = NoRaw]
    /\ UNCHANGED <<env, adv_msgq, seq_table, cmd_msgq, sender, link, forwarded>>

-----------------------------------------------------------------------------
(* Forwarding the window (nus_send_thread).                                *)

CanSend == current_conn /\ nus_notify_enabled

LockRecords ==
    /\ sender.at = "sleep"
    /\ sender' = [at |-> "send", passed |-> 0]
    /\ UNCHANGED <<env, adv_msgq, seq_table, node_records, cmd_msgq, proc, link, forwarded>>

\* One turn of the loop: bt_nus_send succeeds or fails; without a connection
\* that listens the loop is left.
SendRecord ==
    /\ sender.at = "send"
    /\ IF sender.passed < Len(node_records) /\ CanSend
       THEN LET r == node_records[sender.passed + 1]
            IN  /\ sender' = [sender EXCEPT !.passed = @ + 1]
                /\ \/ UNCHANGED forwarded
                   \/ forwarded' = [forwarded EXCEPT ![r.id][r.lap] = r.seq]
       ELSE /\ sender' = [sender EXCEPT !.at = "eow"]
            /\ UNCHANGED forwarded
    /\ UNCHANGED <<env, adv_msgq, seq_table, node_records, cmd_msgq, proc, link>>

BadEndWindowKeepsUnsent ==
    /\ sender.at = "eow"
    /\ sender' = [at |-> "sleep", passed |-> 0]
    /\ node_records' = IF CanSend THEN <<>> ELSE node_records
    /\ UNCHANGED <<env, adv_msgq, seq_table, cmd_msgq, proc, link, forwarded>>

\* The end-of-window marker, if there is someone to send it to; the records
\* are dropped whether or not they were sent.
EndWindow ==
    /\ sender.at = "eow"
    /\ sender' = [at |-> "sleep", passed |-> 0]
    /\ node_records' = <<>>
    /\ UNCHANGED <<env, adv_msgq, seq_table, cmd_msgq, proc, link, forwarded>>

nus_send_thread == LockRecords \/ SendRecord \/ EndWindow

-----------------------------------------------------------------------------
(* Commands (on_receive, the second loop of proc_thread).                  *)

\* The command is queued, or refused when the queue is full.
ble_broadcast_command(c) ==
    cmd_msgq' = IF Len(cmd_msgq) < CMD_MSGQ_SIZE THEN Append(cmd_msgq, c) ELSE cmd_msgq

on_receive(c) ==
    /\ current_conn
    /\ ble_broadcast_command(c)
    /\ UNCHANGED <<env, adv_msgq, seq_table, node_records, proc, sender, link, forwarded>>

\* Nothing left to take in one loop: on to the other.
NextLoop ==
    /\ \/ proc.at = "adv" /\ adv_msgq = <<>> /\ proc' = [proc EXCEPT !.at = "cmd"]
       \/ proc.at = "cmd" /\ cmd_msgq = <<>> /\ proc' = [proc EXCEPT !.at = "adv"]
    /\ UNCHANGED <<env, adv_msgq, seq_table, node_records, cmd_msgq, sender, link, forwarded>>

TakeCommand ==
    /\ proc.at = "cmd" /\ cmd_msgq # <<>>
    /\ cmd_msgq' = Tail(cmd_msgq)
    /\ proc' = [proc EXCEPT !.at = "start", !.left = CMD_BROADCAST_COUNT]
    /\ UNCHANGED <<env, adv_msgq, seq_table, node_records, sender, link, forwarded>>

\* bt_le_adv_start: refused while the node advertises itself as connectable,
\* and possibly otherwise; the rest of the broadcast is then given up.
StartBroadcast ==
    /\ proc.at = "start"
    /\ \/ /\ advertising = "off"
          /\ advertising' = "nconn"
          /\ proc' = [proc EXCEPT !.at = "airing", !.left = @ - 1]
       \/ /\ advertising = "conn" \/ BroadcastErrors
          /\ proc' = [proc EXCEPT !.at = "cmd", !.left = 0]
          /\ UNCHANGED advertising
    /\ UNCHANGED <<env, adv_msgq, seq_table, node_records, cmd_msgq, sender, current_conn,
                   nus_notify_enabled, scanning, adv_restart, forwarded>>

StopBroadcast ==
    /\ proc.at = "airing"
    /\ advertising' = "off"
    /\ proc' = [proc EXCEPT !.at = "gap"]
    /\ UNCHANGED <<env, adv_msgq, seq_table, node_records, cmd_msgq, sender, current_conn,
                   nus_notify_enabled, scanning, adv_restart, forwarded>>

BadEndGapNoRestart ==
    /\ proc.at = "gap"
    /\ proc' = [proc EXCEPT !.at = IF proc.left > 0 THEN "start" ELSE "cmd"]
    /\ UNCHANGED <<env, adv_msgq, seq_table, node_records, cmd_msgq, sender, link, forwarded>>

\* Again, or done: then the node's own advertising is to be restarted.
EndGap ==
    /\ proc.at = "gap"
    /\ \/ proc.left > 0 /\ proc' = [proc EXCEPT !.at = "start"] /\ UNCHANGED adv_restart
       \/ proc.left = 0 /\ proc' = [proc EXCEPT !.at = "cmd"] /\ adv_restart' = TRUE
    /\ UNCHANGED <<env, adv_msgq, seq_table, node_records, cmd_msgq, sender, current_conn,
                   nus_notify_enabled, advertising, scanning, forwarded>>

do_broadcast_command == StartBroadcast \/ StopBroadcast \/ EndGap

proc_thread ==
    TakePacket \/ StoreRecord \/ NextLoop \/ TakeCommand \/ do_broadcast_command

-----------------------------------------------------------------------------
(* The link to the base node (nus_peripheral.c).                           *)

rest == <<env, adv_msgq, seq_table, node_records, cmd_msgq, proc, sender, forwarded>>

\* The controller stops advertising when the base node connects.
Connected ==
    /\ advertising = "conn"
    /\ current_conn' = TRUE
    /\ advertising' = "off"
    /\ UNCHANGED <<nus_notify_enabled, scanning, adv_restart, rest>>

nus_notif_changed ==
    /\ current_conn
    /\ nus_notify_enabled' = ~nus_notify_enabled
    /\ UNCHANGED <<current_conn, advertising, scanning, adv_restart, rest>>

\* The stack first withdraws the peer's subscription (nus_notif_changed).
Disconnected ==
    /\ current_conn
    /\ current_conn' = FALSE
    /\ nus_notify_enabled' = FALSE
    /\ scanning' = FALSE
    /\ adv_restart' = TRUE
    /\ UNCHANGED <<advertising, rest>>

BadRestartSkipsScan ==
    /\ adv_restart
    /\ adv_restart' = FALSE
    /\ \/ current_conn /\ UNCHANGED <<advertising, scanning>>
       \/ /\ ~current_conn
          /\ \/ advertising = "off" /\ advertising' = "conn" /\ scanning' = TRUE
             \/ advertising # "off" /\ UNCHANGED <<advertising, scanning>>
    /\ UNCHANGED <<current_conn, nus_notify_enabled, rest>>

BadRestartStopsFirst ==
    /\ adv_restart
    /\ adv_restart' = FALSE
    /\ \/ current_conn /\ UNCHANGED <<advertising, scanning>>
       \/ ~current_conn /\ advertising' = "conn" /\ scanning' = TRUE
    /\ UNCHANGED <<current_conn, nus_notify_enabled, rest>>

\* Advertise, unless something is being advertised already, and sniff. When
\* advertising cannot be started the work reschedules itself: nothing changes.
adv_restart_fn ==
    /\ adv_restart
    /\ adv_restart' = FALSE
    /\ \/ current_conn /\ UNCHANGED <<advertising, scanning>>
       \/ /\ ~current_conn
          /\ advertising' = IF advertising = "off" THEN "conn" ELSE advertising
          /\ scanning' \in (IF ScanErrors THEN {scanning, TRUE} ELSE {TRUE})
    /\ UNCHANGED <<current_conn, nus_notify_enabled, rest>>

-----------------------------------------------------------------------------
\* sniffer_start gives up for good when its scan cannot be started; here it could.
Init ==
    /\ now = 0
    /\ source = [n \in Nodes |-> [lap |-> 0, seq |-> 0]]
    /\ air = {}
    /\ adv_msgq = <<>> /\ cmd_msgq = <<>>
    /\ seq_table = [n \in Nodes |-> NoEntry]
    /\ node_records = <<>>
    /\ proc = [at |-> "adv", raw |-> NoRaw, left |-> 0]
    /\ sender = [at |-> "sleep", passed |-> 0]
    /\ current_conn = FALSE /\ nus_notify_enabled = FALSE
    /\ advertising = "conn" /\ scanning = TRUE /\ adv_restart = FALSE
    /\ forwarded = [n \in Nodes |-> [l \in Laps |-> -1]]

Mesh == Tick \/ \E n \in Nodes : NodeSamples(n) \/ NodeReboots(n)
Link == Connected \/ nus_notif_changed \/ Disconnected \/ adv_restart_fn

Next ==
    \/ Mesh
    \/ \E p \in air : sniffer_device_found(p)
    \/ \E c \in Commands : on_receive(c)
    \/ proc_thread
    \/ nus_send_thread
    \/ Link

Spec == Init /\ [][Next]_vars

\* Threads run, and a scheduled work item does; adv_restart_fn changing
\* something means that advertising can be started at last.
FairSpec == Spec /\ WF_vars(proc_thread) /\ WF_vars(nus_send_thread) /\ WF_vars(adv_restart_fn)

-----------------------------------------------------------------------------
\* A window has one record of a node.
OneRecordPerNode ==
    \A i, j \in DOMAIN node_records : node_records[i].id = node_records[j].id => i = j

\* What the window holds of a node is the sample seq_table says was accepted last:
\* the two tables, filled under different protection by two halves of proc_thread
\* and of different lifetime, never disagree but while a record waits to be stored.
WindowMatchesTable ==
    \A i \in DOMAIN node_records :
        LET r == node_records[i]
        IN  /\ seq_table[r.id].valid
            /\ \/ seq_table[r.id].last_seq = r.seq
               \/ proc.at = "store" /\ proc.raw.id = r.id

\* The base node gets each sample of a node at most once, and the samples of a
\* lap in the order they were taken, however the mesh repeats, delays and
\* reorders packets: what the window still has to send is news.
IsNews(s) == s.seq > forwarded[s.id][s.lap]

OnlyNewsForwarded ==
    /\ \A i \in DOMAIN node_records :
          sender.passed < i => IsNews(node_records[i])
    /\ proc.at = "store" => IsNews(proc.raw)

\* What the base node gets is a feed of news, as NewsFeed promises it: both threads,
\* the tables and the mutex come to no more than turns in a burst, each with a record
\* that is newer than all before, and never two of a node.
Passed == {node_records[i] : i \in 1 .. sender.passed}

Feed == INSTANCE NewsFeed WITH newest <- source, sent <- forwarded, burst <- Passed

ImplementsNewsFeed == Feed!Spec

\* A node that is not connected advertises itself, or something is under way
\* that will make it: it can always be found again.
NeverStranded ==
    current_conn \/ advertising = "conn" \/ adv_restart \/ proc.at \in Broadcasting

\* A node that stopped sniffing at a disconnection has the restart scheduled.
SniffingSurvives == scanning \/ adv_restart

\* What a broadcast stops is its own advertising, never the connectable one.
BroadcastStopsItsOwn == proc.at = "airing" <=> advertising = "nconn"

\* Not connected, the node becomes connectable again.
Readvertises == ~current_conn ~> advertising = "conn" \/ current_conn
=============================================================================
