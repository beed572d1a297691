---------------------------- MODULE SnifferProofs ----------------------------
(***************************************************************************)
(* Proofs about the sniffer of MobileNode: its tables, its window and that *)
(* it forwards nothing twice, for every set of nodes, every size of the    *)
(* queues and tables and every delay of the mesh less than NODE_TIMEOUT;   *)
(* and, from that, that the mobile node implements NewsFeed.               *)
(***************************************************************************)
EXTENDS MobileNode, FiniteSetTheorems, TLAPS

-----------------------------------------------------------------------------
(* Type correctness.                                                       *)

Taken == {n \in Nodes : seq_table[n].valid}

TypeInv ==
    /\ TypeOK
    /\ IsFiniteSet(Taken)
    /\ proc.at = "start" => proc.left > 0
    /\ sender.at = "sleep" => sender.passed = 0

\* The parts of the state and who changes them.
EnvOK ==
    /\ now \in Nat
    /\ source \in [Nodes -> [lap : Laps, seq : Seqs]]
    /\ air \subseteq Packet

TableOK ==
    /\ seq_table \in [Nodes -> [valid : BOOLEAN, last_seq : Seqs, last_seen : Nat]]
    /\ IsFiniteSet(Taken)
    /\ Cardinality(Taken) <= SNIFFER_MAX_NODES

QueueOK == adv_msgq \in Seq(Raw) /\ Len(adv_msgq) <= ADV_MSGQ_SIZE

CommandsOK == cmd_msgq \in Seq(Commands) /\ Len(cmd_msgq) <= CMD_MSGQ_SIZE

WindowOK ==
    /\ node_records \in Seq(Sample) /\ Len(node_records) <= SNIFFER_MAX_NODES
    /\ sender \in [at : {"sleep", "send", "eow"}, passed : Nat]
    /\ sender.passed <= Len(node_records)
    /\ sender.at = "sleep" => sender.passed = 0

ProcOK ==
    /\ proc \in [at : {"adv", "store", "cmd"} \cup Broadcasting,
                 raw : Raw \cup {NoRaw}, left : 0 .. CMD_BROADCAST_COUNT]
    /\ proc.at = "store" <=> proc.raw # NoRaw
    /\ proc.at = "start" => proc.left > 0

LinkOK ==
    /\ current_conn \in BOOLEAN /\ nus_notify_enabled \in BOOLEAN
    /\ advertising \in {"off", "conn", "nconn"}
    /\ scanning \in BOOLEAN /\ adv_restart \in BOOLEAN

ForwardedOK == forwarded \in [Nodes -> [Laps -> Int]]

LEMMA TypeParts ==
    /\ TypeInv <=> /\ EnvOK /\ TableOK /\ QueueOK /\ CommandsOK /\ WindowOK /\ ProcOK
                   /\ LinkOK /\ ForwardedOK
    /\ TypeInv' <=> /\ EnvOK' /\ TableOK' /\ QueueOK' /\ CommandsOK' /\ WindowOK' /\ ProcOK'
                    /\ LinkOK' /\ ForwardedOK'
BY DEF TypeInv, TypeOK, EnvOK, TableOK, QueueOK, CommandsOK, WindowOK, ProcOK, LinkOK,
       ForwardedOK, Taken

LEMMA Sizes ==
    /\ SNIFFER_MAX_NODES \in Nat /\ ADV_MSGQ_SIZE \in Nat /\ CMD_MSGQ_SIZE \in Nat
    /\ CMD_BROADCAST_COUNT \in Nat \ {0} /\ SEQ_MOD \in Nat \ {0}
    /\ NODE_TIMEOUT \in Nat /\ MAX_DELAY \in Nat /\ MAX_DELAY + 1 <= NODE_TIMEOUT
    /\ MAX_LAP \in Nat
<1>1. \A c \in {SEQ_MOD, SNIFFER_MAX_NODES, ADV_MSGQ_SIZE, CMD_MSGQ_SIZE,
              CMD_BROADCAST_COUNT} : c \in Nat \ {0}
  BY MobileNodeAssumption, Zenon
<1>2. NODE_TIMEOUT \in Nat /\ MAX_DELAY \in Nat /\ MAX_DELAY < NODE_TIMEOUT
      /\ MAX_LAP \in Nat
  BY MobileNodeAssumption, Zenon
<1>3. MAX_DELAY + 1 <= NODE_TIMEOUT
  BY <1>2
<1>4. /\ SNIFFER_MAX_NODES \in Nat \ {0} /\ ADV_MSGQ_SIZE \in Nat \ {0}
      /\ CMD_MSGQ_SIZE \in Nat \ {0} /\ CMD_BROADCAST_COUNT \in Nat \ {0}
      /\ SEQ_MOD \in Nat \ {0}
  BY <1>1, Zenon
<1> QED BY <1>2, <1>3, <1>4

LEMMA TypeInit == Init => TypeInv
<1> SUFFICES ASSUME Init PROVE TypeInv
  OBVIOUS
<1> USE MobileNodeAssumption DEF Init
<1>1. EnvOK
  BY DEF EnvOK, Laps, Seqs
<1>2. TableOK
  <2>1. Taken = {}
    BY DEF Taken, NoEntry
  <2> QED BY <2>1, FS_EmptySet DEF TableOK, NoEntry, Seqs
<1>3. QueueOK /\ CommandsOK
  BY Sizes DEF QueueOK, CommandsOK
<1>7. LinkOK
  BY DEF LinkOK
<1>4. WindowOK
  BY DEF WindowOK
<1>5. ProcOK
  BY DEF ProcOK, NoRaw
<1>6. ForwardedOK
  BY DEF ForwardedOK
<1> QED BY <1>1, <1>2, <1>3, <1>4, <1>5, <1>6, <1>7, TypeParts

\* A record's domain is not empty, so no raw packet is NoRaw.
LEMMA RawIsNoNoRaw == \A r \in Raw : r # NoRaw
BY DEF Raw, NoRaw

\* What TakePacket does, by cases: the packet is dropped, or kept to be stored.
Rejects(raw) ==
    /\ UNCHANGED proc
    /\ \/ UNCHANGED seq_table
       \/ /\ find_or_alloc_seq(raw.id)
          /\ ~seq_is_valid(seq_table[raw.id], raw.seq)
          /\ seq_table' = [seq_table EXCEPT ![raw.id].valid = TRUE]

Accepts(raw) ==
    /\ find_or_alloc_seq(raw.id)
    /\ seq_is_valid(seq_table[raw.id], raw.seq)
    /\ seq_table' = [seq_table EXCEPT ![raw.id] =
          [valid |-> TRUE, last_seq |-> raw.seq, last_seen |-> raw.timestamp]]
    /\ proc' = [proc EXCEPT !.at = "store", !.raw = raw]

LEMMA TakeCases ==
    ASSUME TakePacket
    PROVE  /\ proc.at = "adv" /\ adv_msgq # <<>> /\ adv_msgq' = Tail(adv_msgq)
           /\ Rejects(Head(adv_msgq)) \/ Accepts(Head(adv_msgq))
           /\ UNCHANGED <<env, node_records, cmd_msgq, sender, link, forwarded>>
BY Zenon DEF TakePacket, Rejects, Accepts

\* A slot is given while one is left.
LEMMA TableStep ==
    ASSUME TypeInv, NEW raw \in Raw, Rejects(raw) \/ Accepts(raw)
    PROVE  TableOK'
<1>1. TableOK /\ SNIFFER_MAX_NODES \in Nat
  BY TypeParts, MobileNodeAssumption
<1>2. raw.id \in Nodes /\ raw.seq \in Seqs /\ raw.timestamp \in Nat
  BY DEF Raw
<1>3. CASE UNCHANGED seq_table
  BY <1>1, <1>3 DEF TableOK, Taken
<1>4. CASE ~UNCHANGED seq_table
  <2>1. find_or_alloc_seq(raw.id)
    BY <1>4 DEF Rejects, Accepts
  <2>2. /\ seq_table' \in [Nodes -> [valid : BOOLEAN, last_seq : Seqs, last_seen : Nat]]
        /\ seq_table'[raw.id].valid = TRUE
        /\ \A n \in Nodes \ {raw.id} : seq_table'[n] = seq_table[n]
    <3>1. CASE seq_table' = [seq_table EXCEPT ![raw.id].valid = TRUE]
      BY <1>1, <1>2, <3>1 DEF TableOK
    <3>2. CASE Accepts(raw)
      BY <1>1, <1>2, <3>2 DEF Accepts, TableOK
    <3> QED BY <1>4, <3>1, <3>2 DEF Rejects
  <2>3. Taken' = Taken \cup {raw.id}
    BY <1>2, <2>2 DEF Taken
  <2>4. Cardinality(Taken') <= SNIFFER_MAX_NODES /\ IsFiniteSet(Taken')
    <3>1. /\ IsFiniteSet(Taken') /\ Cardinality(Taken) \in Nat
          /\ Cardinality(Taken') = (IF raw.id \in Taken THEN Cardinality(Taken)
                                    ELSE Cardinality(Taken) + 1)
      BY <1>1, <2>3, FS_AddElement, FS_CardinalityType DEF TableOK
    <3>2. raw.id \in Taken \/ Cardinality(Taken) < SNIFFER_MAX_NODES
      BY <1>2, <2>1 DEF find_or_alloc_seq, Taken
    <3> QED BY <1>1, <3>1, <3>2 DEF TableOK
  <2> QED BY <2>2, <2>4 DEF TableOK
<1> QED BY <1>3, <1>4

\* The record put into the window.
LEMMA StoredTyped ==
    ASSUME NEW recs \in Seq(Sample), Len(recs) <= SNIFFER_MAX_NODES, NEW s \in Sample
    PROVE  /\ find_or_alloc_node(recs, s) \in Seq(Sample)
           /\ Len(find_or_alloc_node(recs, s)) <= SNIFFER_MAX_NODES
<1>1. CASE \E i \in DOMAIN recs : recs[i].id = s.id
  <2> DEFINE new == [i \in DOMAIN recs |-> IF recs[i].id = s.id THEN s ELSE recs[i]]
  <2>1. new \in [1 .. Len(recs) -> Sample] /\ Len(recs) \in Nat
    OBVIOUS
  <2>2. new \in Seq(Sample) /\ Len(new) = Len(recs)
    BY <2>1
  <2> QED BY <1>1, <2>2 DEF find_or_alloc_node
<1>2. CASE ~\E i \in DOMAIN recs : recs[i].id = s.id
  BY <1>2, MobileNodeAssumption DEF find_or_alloc_node
<1> QED BY <1>1, <1>2

LEMMA TypeNext == TypeInv /\ [Next]_vars => TypeInv'
<1> SUFFICES ASSUME TypeInv, [Next]_vars PROVE TypeInv'
  OBVIOUS
<1>0. /\ EnvOK /\ TableOK /\ QueueOK /\ CommandsOK /\ WindowOK /\ ProcOK
      /\ LinkOK /\ ForwardedOK
  BY TypeParts
<1>1. /\ UNCHANGED env => EnvOK'
      /\ UNCHANGED seq_table => TableOK'
      /\ UNCHANGED adv_msgq => QueueOK'
      /\ UNCHANGED cmd_msgq => CommandsOK'
      /\ UNCHANGED <<node_records, sender>> => WindowOK'
      /\ UNCHANGED proc => ProcOK'
      /\ UNCHANGED link => LinkOK'
      /\ UNCHANGED forwarded => ForwardedOK'
  <2>1. UNCHANGED env => EnvOK'
    BY <1>0 DEF EnvOK, env
  <2>2. UNCHANGED seq_table => TableOK'
    BY <1>0 DEF TableOK, Taken
  <2>3. UNCHANGED link => LinkOK'
    BY <1>0 DEF LinkOK, link
  <2>4. /\ UNCHANGED adv_msgq => QueueOK'
        /\ UNCHANGED cmd_msgq => CommandsOK'
        /\ UNCHANGED forwarded => ForwardedOK'
    BY <1>0 DEF QueueOK, CommandsOK, ForwardedOK
  <2>5. UNCHANGED <<node_records, sender>> => WindowOK'
    BY <1>0 DEF WindowOK
  <2>6. UNCHANGED proc => ProcOK'
    BY <1>0 DEF ProcOK
  <2> QED BY <2>1, <2>2, <2>3, <2>4, <2>5, <2>6
<1>2. CASE Mesh
  <2>1. EnvOK'
    <3>1. CASE Tick
      BY <1>0, <3>1 DEF Tick, EnvOK
    <3>2. ASSUME NEW n \in Nodes, NodeSamples(n) PROVE EnvOK'
      <4>1. NextSample(source[n]) \in [lap : Laps, seq : Seqs]
        <5>1. source[n].seq \in Seqs /\ source[n].lap \in Laps
              /\ source[n] \in [lap : Laps, seq : Seqs]
          BY <1>0 DEF EnvOK
        <5>2. CASE source[n].seq + 1 < SEQ_MOD
          BY <5>1, <5>2, Sizes DEF NextSample, Seqs
        <5>3. CASE ~(source[n].seq + 1 < SEQ_MOD)
          <6>1. NextSample(source[n]) = [lap |-> source[n].lap + 1, seq |-> 0]
            BY <5>3 DEF NextSample
          <6>2. NextSample(source[n]).lap \in Laps
            BY <3>2 DEF NodeSamples
          <6>3. 0 \in Seqs
            BY Sizes DEF Seqs
          <6> QED BY <6>1, <6>2, <6>3
        <5> QED BY <5>2, <5>3
      <4>2. source' = [source EXCEPT ![n] = NextSample(source[n])]
        BY <3>2 DEF NodeSamples
      <4>3. source' \in [Nodes -> [lap : Laps, seq : Seqs]]
        BY <1>0, <4>1, <4>2 DEF EnvOK
      <4>4. air' \subseteq Packet
        BY <1>0, <3>2, <4>3 DEF NodeSamples, EnvOK, Packet
      <4> QED BY <1>0, <3>2, <4>3, <4>4 DEF NodeSamples, EnvOK
    <3>3. ASSUME NEW n \in Nodes, NodeReboots(n) PROVE EnvOK'
      BY <1>0, <3>3, Sizes DEF NodeReboots, EnvOK, Seqs
    <3> QED BY <1>2, <3>1, <3>2, <3>3 DEF Mesh
  <2>2. UNCHANGED <<adv_msgq, seq_table, node_records, cmd_msgq, proc, sender, link, forwarded>>
    BY <1>2 DEF Mesh, Tick, NodeSamples, NodeReboots
  <2> QED BY <1>1, <2>1, <2>2, TypeParts
<1>3. ASSUME NEW p \in air, sniffer_device_found(p) PROVE TypeInv'
  <2>1. QueueOK'
    <3>1. [id |-> p.id, lap |-> p.lap, seq |-> p.seq, timestamp |-> now] \in Raw
      BY <1>0 DEF EnvOK, Packet, Raw
    <3> QED BY <1>0, <1>3, <3>1, Sizes DEF sniffer_device_found, QueueOK
  <2> QED BY <1>1, <1>3, <2>1, TypeParts DEF sniffer_device_found
<1>4. ASSUME NEW c \in Commands, on_receive(c) PROVE TypeInv'
  <2>1. CommandsOK'
    BY <1>0, <1>4, Sizes DEF on_receive, ble_broadcast_command, CommandsOK
  <2> QED BY <1>1, <1>4, <2>1, TypeParts DEF on_receive
<1>5. CASE TakePacket
  <2> DEFINE raw == Head(adv_msgq)
  <2>1. /\ proc.at = "adv" /\ adv_msgq # <<>> /\ adv_msgq' = Tail(adv_msgq)
        /\ Rejects(raw) \/ Accepts(raw)
        /\ UNCHANGED <<env, node_records, cmd_msgq, sender, link, forwarded>>
    BY <1>5, TakeCases
  <2>2. raw \in Raw /\ QueueOK'
    <3>1. adv_msgq \in Seq(Raw) /\ adv_msgq # <<>> /\ Len(adv_msgq) <= ADV_MSGQ_SIZE
      BY <1>0, <2>1 DEF QueueOK
    <3>2. Tail(adv_msgq) \in Seq(Raw) /\ Len(Tail(adv_msgq)) <= ADV_MSGQ_SIZE
      BY <3>1, Sizes
    <3>3. raw \in Raw
      BY <3>1
    <3> QED BY <2>1, <3>2, <3>3 DEF QueueOK
  <2>3. TableOK'
    BY <2>1, <2>2, TableStep
  <2>4. ProcOK'
    <3>1. CASE Rejects(raw)
      BY <1>1, <3>1 DEF Rejects
    <3>2. CASE Accepts(raw)
      BY <1>0, <2>2, <3>2, RawIsNoNoRaw DEF Accepts, ProcOK
    <3> QED BY <2>1, <3>1, <3>2
  <2> QED BY <1>1, <2>1, <2>2, <2>3, <2>4, TypeParts
<1>6. CASE StoreRecord
  <2>1. proc.raw \in Raw /\ SampleOf(proc.raw) \in Sample
    BY <1>0, <1>6 DEF StoreRecord, ProcOK, SampleOf, Raw, Sample
  <2>2. ProcOK'
    BY <1>0, <1>6 DEF StoreRecord, ProcOK
  <2>3. WindowOK'
    <3>1. /\ node_records' \in Seq(Sample) /\ Len(node_records') <= SNIFFER_MAX_NODES
      BY <1>0, <1>6, <2>1, StoredTyped DEF StoreRecord, WindowOK
    <3>2. sender' = sender /\ sender.at = "sleep" /\ sender.passed = 0
      BY <1>0, <1>6 DEF StoreRecord, WindowOK
    <3> QED BY <1>0, <3>1, <3>2 DEF WindowOK
  <2> QED BY <1>1, <1>6, <2>2, <2>3, TypeParts DEF StoreRecord
<1>7. CASE NextLoop
  <2>1. ProcOK'
    BY <1>0, <1>7 DEF NextLoop, ProcOK, Broadcasting
  <2> QED BY <1>1, <1>7, <2>1, TypeParts DEF NextLoop
<1>8. CASE TakeCommand
  <2>1. ProcOK'
    <3>1. CMD_BROADCAST_COUNT \in 0 .. CMD_BROADCAST_COUNT /\ CMD_BROADCAST_COUNT > 0
      BY Sizes
    <3> QED BY <1>0, <1>8, <3>1 DEF TakeCommand, ProcOK, Broadcasting
  <2>2. CommandsOK'
    <3>1. Tail(cmd_msgq) \in Seq(Commands) /\ Len(Tail(cmd_msgq)) <= CMD_MSGQ_SIZE
      BY <1>0, <1>8, Sizes DEF TakeCommand, CommandsOK
    <3> QED BY <1>8, <3>1 DEF TakeCommand, CommandsOK
  <2> QED BY <1>1, <1>8, <2>1, <2>2, TypeParts DEF TakeCommand
<1>9. CASE do_broadcast_command
  <2>1. ProcOK'
    <3>1. CASE StartBroadcast
      <4>1. proc.at = "start" /\ proc.left > 0 /\ proc.left \in 0 .. CMD_BROADCAST_COUNT
        BY <1>0, <3>1 DEF StartBroadcast, ProcOK
      <4>2. /\ proc.left - 1 \in 0 .. CMD_BROADCAST_COUNT
            /\ 0 \in 0 .. CMD_BROADCAST_COUNT
        BY <4>1, Sizes
      <4>3. PICK place \in {"airing", "cmd"}, left \in {proc.left - 1, 0} :
               proc' = [proc EXCEPT !.at = place, !.left = left]
        BY <3>1 DEF StartBroadcast
      <4> QED BY <1>0, <4>1, <4>2, <4>3 DEF ProcOK, Broadcasting
    <3>2. CASE StopBroadcast
      BY <1>0, <3>2 DEF StopBroadcast, ProcOK, Broadcasting
    <3>3. CASE EndGap
      BY <1>0, <3>3, Sizes DEF EndGap, ProcOK, Broadcasting
    <3> QED BY <1>9, <3>1, <3>2, <3>3 DEF do_broadcast_command
  <2>2. /\ advertising' \in {"off", "conn", "nconn"} /\ adv_restart' \in BOOLEAN
        /\ UNCHANGED <<current_conn, nus_notify_enabled, scanning>>
    BY <1>0, <1>9 DEF do_broadcast_command, StartBroadcast, StopBroadcast, EndGap, LinkOK
  <2>3. LinkOK'
    BY <1>0, <2>2 DEF LinkOK
  <2>4. UNCHANGED <<env, adv_msgq, seq_table, node_records, cmd_msgq, sender, forwarded>>
    BY <1>9, Zenon DEF do_broadcast_command, StartBroadcast, StopBroadcast, EndGap
  <2> QED BY <1>1, <2>1, <2>3, <2>4, TypeParts
<1>10. CASE nus_send_thread
  <2>1. WindowOK'
    <3>1. CASE LockRecords
      BY <1>0, <3>1 DEF LockRecords, WindowOK
    <3>2. CASE SendRecord
      <4>1. CASE sender.passed < Len(node_records) /\ CanSend
        <5>1. sender' = [sender EXCEPT !.passed = @ + 1] /\ UNCHANGED node_records
              /\ sender.at = "send"
          BY <3>2, <4>1 DEF SendRecord
        <5> QED BY <1>0, <4>1, <5>1 DEF WindowOK
      <4>2. CASE ~(sender.passed < Len(node_records) /\ CanSend)
        <5>1. sender' = [sender EXCEPT !.at = "eow"] /\ UNCHANGED node_records
          BY <3>2, <4>2 DEF SendRecord
        <5> QED BY <1>0, <5>1 DEF WindowOK
      <4> QED BY <4>1, <4>2
    <3>3. CASE EndWindow
      BY <3>3, Sizes DEF EndWindow, WindowOK
    <3> QED BY <1>10, <3>1, <3>2, <3>3 DEF nus_send_thread
  <2>2. ForwardedOK'
    <3>1. CASE SendRecord /\ ~UNCHANGED forwarded
      <4>1. sender.passed < Len(node_records)
        BY <3>1 DEF SendRecord
      <4> DEFINE r == node_records[sender.passed + 1]
      <4>2. forwarded' = [forwarded EXCEPT ![r.id][r.lap] = r.seq]
        BY <3>1, Zenon DEF SendRecord
      <4>3. r \in Sample
        BY <1>0, <4>1 DEF WindowOK
      <4>4. r.id \in Nodes /\ r.lap \in Laps /\ r.seq \in Int
        BY <4>3, Sizes DEF Sample, Seqs
      <4> QED BY <1>0, <4>2, <4>4 DEF ForwardedOK
    <3>2. CASE UNCHANGED forwarded
      BY <1>1, <3>2
    <3>3. LockRecords \/ EndWindow => UNCHANGED forwarded
      BY DEF LockRecords, EndWindow
    <3> QED BY <1>10, <3>1, <3>2, <3>3 DEF nus_send_thread
  <2>3. UNCHANGED <<env, adv_msgq, seq_table, cmd_msgq, proc, link>>
    BY <1>10, Zenon DEF nus_send_thread, LockRecords, SendRecord, EndWindow
  <2> QED BY <1>1, <2>1, <2>2, <2>3, TypeParts
<1>11. CASE Link
  <2>1. LinkOK'
    <3>1. CASE Connected
      BY <1>0, <3>1 DEF Connected, LinkOK
    <3>2. CASE nus_notif_changed
      BY <1>0, <3>2 DEF nus_notif_changed, LinkOK
    <3>3. CASE Disconnected
      BY <1>0, <3>3 DEF Disconnected, LinkOK
    <3>4. CASE adv_restart_fn
      <4>1. /\ adv_restart' = FALSE /\ UNCHANGED <<current_conn, nus_notify_enabled>>
            /\ advertising' \in {advertising, "conn"}
            /\ scanning' \in {scanning, TRUE}
        BY <3>4 DEF adv_restart_fn
      <4> QED BY <1>0, <4>1 DEF LinkOK
    <3> QED BY <1>11, <3>1, <3>2, <3>3, <3>4 DEF Link
  <2>2. UNCHANGED rest
    BY <1>11, Zenon DEF Link, Connected, nus_notif_changed, Disconnected, adv_restart_fn
  <2> QED BY <1>1, <2>1, <2>2, TypeParts DEF rest
<1>12. CASE UNCHANGED vars
  BY <1>1, <1>12, TypeParts DEF vars
<1> QED
  BY <1>2, <1>3, <1>4, <1>5, <1>6, <1>7, <1>8, <1>9, <1>10, <1>11, <1>12, Zenon
     DEF Next, proc_thread

\* Every reachable state has its declared shape; the queues, the table and the window
\* keep their bounds.
THEOREM TypeCorrect == Spec => []TypeOK
<1>1. TypeInv => TypeOK
  BY DEF TypeInv
<1> QED BY <1>1, TypeInit, TypeNext, PTL DEF Spec

-----------------------------------------------------------------------------
(* The invariant of the sniffer.                                           *)

AtMost(l, s, newest) == l < newest.lap \/ (l = newest.lap /\ s <= newest.seq)

\* A packet of n with lap l and number s may still reach seq_is_valid; it was born at
\* t or, when it is already in adv_msgq, no earlier.
Alive(n, l, s, t) ==
    \/ \E p \in air : p.id = n /\ p.lap = l /\ p.seq = s /\ p.born = t
    \/ \E i \in DOMAIN adv_msgq :
          /\ adv_msgq[i].id = n /\ adv_msgq[i].lap = l /\ adv_msgq[i].seq = s
          /\ adv_msgq[i].timestamp - MAX_DELAY = t

\* A number as great was accepted of that lap, and sent or still held.
Accepted(n, l, s) ==
    \/ s <= forwarded[n][l]
    \/ \E i \in DOMAIN node_records :
          /\ node_records[i].id = n /\ node_records[i].lap = l /\ s <= node_records[i].seq
    \/ /\ proc.at = "store"
       /\ proc.raw.id = n /\ proc.raw.lap = l /\ s <= proc.raw.seq

\* Nothing is newer than the newest sample, and what is alive is young.
AliveYoung ==
    \A n \in Nodes, l \in Laps, s \in Seqs, t \in Int :
        Alive(n, l, s, t) =>
            AtMost(l, s, source[n]) /\ now - 1 - MAX_DELAY <= t /\ t <= now

AcceptedPast ==
    \A n \in Nodes, l \in Laps, s \in Seqs : Accepted(n, l, s) => AtMost(l, s, source[n])

AirYoung == \A p \in air : now - p.born <= MAX_DELAY

\* The queue is in the order of its timestamps, after what the table has seen.
QueueInv ==
    /\ \A n \in Nodes : seq_table[n].last_seen <= now
    /\ \A i \in DOMAIN adv_msgq :
          /\ now - 1 <= adv_msgq[i].timestamp /\ adv_msgq[i].timestamp <= now
          /\ seq_table[adv_msgq[i].id].last_seen <= adv_msgq[i].timestamp
    /\ \A i, j \in DOMAIN adv_msgq :
          i < j => adv_msgq[i].timestamp <= adv_msgq[j].timestamp

\* What has a smaller number was born before a greater one of its lap was heard.
BornInOrder ==
    \A n \in Nodes, l \in Laps, s \in Seqs, t \in Int :
        Alive(n, l, s, t) =>
            \A i \in DOMAIN adv_msgq :
                adv_msgq[i].id = n /\ adv_msgq[i].lap = l /\ s <= adv_msgq[i].seq =>
                    t <= adv_msgq[i].timestamp

\* A packet that must not be accepted is not: the table has a number as great, and
\* has seen the node too recently to forget it while the packet lives.
Refused ==
    \A n \in Nodes, l \in Laps, s \in Seqs, t \in Int :
        Alive(n, l, s, t) /\ Accepted(n, l, s) =>
            s <= seq_table[n].last_seq /\ t <= seq_table[n].last_seen

StoredIsNews ==
    proc.at = "store" =>
        \A i \in DOMAIN node_records :
            node_records[i].id = proc.raw.id /\ node_records[i].lap = proc.raw.lap =>
                node_records[i].seq < proc.raw.seq

StoredInTable ==
    proc.at = "store" =>
        seq_table[proc.raw.id].valid /\ seq_table[proc.raw.id].last_seq = proc.raw.seq

PastInv == AliveYoung /\ AcceptedPast /\ AirYoung /\ QueueInv /\ BornInOrder /\ Refused
NewsInv == OnlyNewsForwarded /\ StoredIsNews
WindowInv == OneRecordPerNode /\ WindowMatchesTable /\ StoredInTable
SnifferInv == PastInv /\ NewsInv /\ WindowInv

\* The types the steps need.
LEMMA SnifferTypes ==
    ASSUME TypeInv
    PROVE  /\ now \in Nat
           /\ \A n \in Nodes : source[n].lap \in Laps /\ source[n].seq \in Seqs
           /\ \A p \in air : p.id \in Nodes /\ p.lap \in Laps /\ p.seq \in Seqs /\ p.born \in Nat
           /\ adv_msgq \in Seq(Raw)
           /\ \A i \in DOMAIN adv_msgq :
                 /\ adv_msgq[i].id \in Nodes /\ adv_msgq[i].lap \in Laps
                 /\ adv_msgq[i].seq \in Seqs /\ adv_msgq[i].timestamp \in Nat
           /\ \A n \in Nodes : seq_table[n].last_seq \in Seqs /\ seq_table[n].last_seen \in Nat
           /\ node_records \in Seq(Sample)
           /\ \A i \in DOMAIN node_records :
                 /\ node_records[i].id \in Nodes /\ node_records[i].lap \in Laps
                 /\ node_records[i].seq \in Seqs
           /\ proc.at = "store" =>
                 /\ proc.raw.id \in Nodes /\ proc.raw.lap \in Laps
                 /\ proc.raw.seq \in Seqs /\ proc.raw.timestamp \in Nat
           /\ \A n \in Nodes, l \in Laps : forwarded[n][l] \in Int
           /\ Seqs \subseteq Nat /\ Laps \subseteq Nat /\ MAX_DELAY \in Nat
<1>0. /\ EnvOK /\ TableOK /\ QueueOK /\ WindowOK /\ ProcOK /\ ForwardedOK
  BY TypeParts
<1>1. Seqs \subseteq Nat /\ Laps \subseteq Nat /\ MAX_DELAY \in Nat
  BY Sizes DEF Seqs, Laps
<1>2. /\ now \in Nat
      /\ \A n \in Nodes : source[n].lap \in Laps /\ source[n].seq \in Seqs
      /\ \A p \in air : p.id \in Nodes /\ p.lap \in Laps /\ p.seq \in Seqs /\ p.born \in Nat
  BY <1>0 DEF EnvOK, Packet
<1>3. /\ adv_msgq \in Seq(Raw)
      /\ \A i \in DOMAIN adv_msgq : adv_msgq[i] \in Raw
  BY <1>0 DEF QueueOK
<1>4. \A i \in DOMAIN adv_msgq :
         /\ adv_msgq[i].id \in Nodes /\ adv_msgq[i].lap \in Laps
         /\ adv_msgq[i].seq \in Seqs /\ adv_msgq[i].timestamp \in Nat
  BY <1>3 DEF Raw
<1>5. \A n \in Nodes : seq_table[n].last_seq \in Seqs /\ seq_table[n].last_seen \in Nat
  BY <1>0 DEF TableOK
<1>6. node_records \in Seq(Sample) /\ \A i \in DOMAIN node_records : node_records[i] \in Sample
  BY <1>0 DEF WindowOK
<1>7. \A i \in DOMAIN node_records :
         /\ node_records[i].id \in Nodes /\ node_records[i].lap \in Laps
         /\ node_records[i].seq \in Seqs
  BY <1>6 DEF Sample
<1>8. proc.at = "store" => proc.raw \in Raw
  BY <1>0 DEF ProcOK
<1>9. proc.at = "store" =>
         /\ proc.raw.id \in Nodes /\ proc.raw.lap \in Laps
         /\ proc.raw.seq \in Seqs /\ proc.raw.timestamp \in Nat
  BY <1>8 DEF Raw
<1>10. \A n \in Nodes, l \in Laps : forwarded[n][l] \in Int
  BY <1>0 DEF ForwardedOK
<1> QED BY <1>1, <1>2, <1>3, <1>4, <1>5, <1>6, <1>7, <1>9, <1>10

\* A step that leaves the sniffer's part of the state alone.
LEMMA Quiet ==
    ASSUME SnifferInv, UNCHANGED <<env, adv_msgq, seq_table, node_records, forwarded>>,
           sender'.passed = sender.passed,
           \/ UNCHANGED proc
           \/ proc.at # "store" /\ proc'.at # "store"
    PROVE  SnifferInv'
<1>1. /\ \A n, l, s, t : Alive(n, l, s, t)' <=> Alive(n, l, s, t)
      /\ \A n, l, s : Accepted(n, l, s)' <=> Accepted(n, l, s)
  BY DEF Alive, Accepted, env
<1>2. PastInv'
  <2>1. AliveYoung' /\ AcceptedPast'
    BY <1>1 DEF SnifferInv, PastInv, AliveYoung, AcceptedPast, env
  <2>2. AirYoung' /\ QueueInv'
    BY DEF SnifferInv, PastInv, AirYoung, QueueInv, env
  <2>3. BornInOrder' /\ Refused'
    BY <1>1 DEF SnifferInv, PastInv, BornInOrder, Refused
  <2> QED BY <2>1, <2>2, <2>3 DEF PastInv
<1>3. NewsInv'
  BY DEF SnifferInv, NewsInv, OnlyNewsForwarded, StoredIsNews, IsNews
<1>4. WindowInv'
  BY DEF SnifferInv, WindowInv, OneRecordPerNode, WindowMatchesTable, StoredInTable
<1> QED BY <1>2, <1>3, <1>4 DEF SnifferInv

\* A step that accepts nothing keeps what is known of the past.
LEMMA NothingAccepted ==
    ASSUME PastInv, UNCHANGED <<env, adv_msgq, seq_table>>,
           \A n \in Nodes, l \in Laps, s \in Seqs : Accepted(n, l, s)' => Accepted(n, l, s)
    PROVE  PastInv'
<1>1. \A n, l, s, t : Alive(n, l, s, t)' <=> Alive(n, l, s, t)
  BY DEF Alive, env
<1>2. AliveYoung' /\ AcceptedPast'
  BY <1>1 DEF PastInv, AliveYoung, AcceptedPast, env
<1>3. AirYoung' /\ QueueInv'
  BY DEF PastInv, AirYoung, QueueInv, env
<1>4. BornInOrder' /\ Refused'
  BY <1>1 DEF PastInv, BornInOrder, Refused
<1> QED BY <1>2, <1>3, <1>4 DEF PastInv

\* What only the mesh or the queue changes is neither in the window nor accepted.
LEMMA WindowKept ==
    ASSUME SnifferInv,
           UNCHANGED <<seq_table, node_records, proc, sender, forwarded>>
    PROVE  /\ NewsInv' /\ WindowInv'
           /\ \A n, l, s : Accepted(n, l, s)' <=> Accepted(n, l, s)
<1>1. NewsInv'
  BY DEF SnifferInv, NewsInv, OnlyNewsForwarded, StoredIsNews, IsNews
<1>2. WindowInv'
  BY DEF SnifferInv, WindowInv, OneRecordPerNode, WindowMatchesTable, StoredInTable
<1>3. \A n, l, s : Accepted(n, l, s)' <=> Accepted(n, l, s)
  BY DEF Accepted
<1> QED BY <1>1, <1>2, <1>3

LEMMA TickKeeps == ASSUME TypeInv, SnifferInv, Tick PROVE SnifferInv'
<1>0. NewsInv' /\ WindowInv' /\ \A n, l, s : Accepted(n, l, s)' <=> Accepted(n, l, s)
  BY WindowKept DEF Tick
<1>1. /\ now' = now + 1 /\ now \in Nat /\ MAX_DELAY \in Nat
      /\ air' \subseteq air /\ \A p \in air' : now' - p.born <= MAX_DELAY
      /\ UNCHANGED <<source, adv_msgq, seq_table>>
      /\ \A i \in DOMAIN adv_msgq : adv_msgq[i].timestamp = now
  BY SnifferTypes DEF Tick, Pending
<1>2. \A n, l, s, t : Alive(n, l, s, t)' => Alive(n, l, s, t)
  BY <1>1 DEF Alive
<1>3. AliveYoung'
  <2> SUFFICES ASSUME NEW n \in Nodes, NEW l \in Laps, NEW s \in Seqs, NEW t \in Int,
                      Alive(n, l, s, t)'
               PROVE  AtMost(l, s, source[n])' /\ now' - 1 - MAX_DELAY <= t /\ t <= now'
    BY DEF AliveYoung
  <2>1. AtMost(l, s, source[n]) /\ t <= now
    BY <1>2 DEF SnifferInv, PastInv, AliveYoung
  <2>2. now' - 1 - MAX_DELAY <= t
    <3>1. CASE \E p \in air' : p.id = n /\ p.lap = l /\ p.seq = s /\ p.born = t
      <4>1. now' - t <= MAX_DELAY
        BY <1>1, <3>1
      <4> QED BY <1>1, <4>1
    <3>2. CASE \E i \in DOMAIN adv_msgq : adv_msgq[i].timestamp - MAX_DELAY = t
      <4>1. now - MAX_DELAY = t
        BY <1>1, <3>2
      <4> QED BY <1>1, <4>1
    <3> QED BY <1>1, <3>1, <3>2 DEF Alive
  <2> QED BY <1>1, <2>1, <2>2 DEF AtMost
<1>4. AcceptedPast'
  BY <1>0, <1>1 DEF SnifferInv, PastInv, AcceptedPast
<1>5. AirYoung'
  BY <1>1 DEF AirYoung
<1>6. QueueInv'
  <2>1. \A n \in Nodes : seq_table[n].last_seen <= now'
    BY <1>1, SnifferTypes DEF SnifferInv, PastInv, QueueInv
  <2>2. \A i \in DOMAIN adv_msgq :
           now' - 1 <= adv_msgq[i].timestamp /\ adv_msgq[i].timestamp <= now'
    BY <1>1
  <2> QED BY <1>1, <2>1, <2>2 DEF SnifferInv, PastInv, QueueInv
<1>7. BornInOrder' /\ Refused'
  BY <1>0, <1>1, <1>2 DEF SnifferInv, PastInv, BornInOrder, Refused
<1> QED BY <1>0, <1>3, <1>4, <1>5, <1>6, <1>7 DEF SnifferInv, PastInv

\* The newest sample is newer than what was, and is accepted of nowhere.
LEMMA SourceGrows ==
    ASSUME TypeInv, NEW n \in Nodes,
           \/ source' = [source EXCEPT ![n] = NextSample(@)]
           \/ source' = [source EXCEPT ![n] = [lap |-> source[n].lap + 1, seq |-> 0]]
    PROVE  /\ \A m \in Nodes, l \in Laps, s \in Seqs :
                  AtMost(l, s, source[m]) => AtMost(l, s, source'[m])
           /\ ~AtMost(source'[n].lap, source'[n].seq, source[n])
           /\ \A m \in Nodes \ {n} : source'[m] = source[m]
<1>0. /\ source \in [Nodes -> [lap : Laps, seq : Seqs]] /\ Laps \subseteq Nat /\ Seqs \subseteq Nat
      /\ source[n].lap \in Nat /\ source[n].seq \in Nat
  <2>1. EnvOK
    BY TypeParts
  <2>2. Laps \subseteq Nat /\ Seqs \subseteq Nat
    BY SnifferTypes
  <2>3. source[n].lap \in Laps /\ source[n].seq \in Seqs
    BY SnifferTypes
  <2> QED BY <2>1, <2>2, <2>3 DEF EnvOK
<1>1. /\ source'[n] = [lap |-> source[n].lap, seq |-> source[n].seq + 1]
         \/ source'[n] = [lap |-> source[n].lap + 1, seq |-> 0]
      /\ \A m \in Nodes \ {n} : source'[m] = source[m]
  <2>1. NextSample(source[n]) \in {[lap |-> source[n].lap, seq |-> source[n].seq + 1],
                                   [lap |-> source[n].lap + 1, seq |-> 0]}
    <3>1. source[n] \in [lap : Laps, seq : Seqs]
      BY <1>0
    <3> QED BY <3>1 DEF NextSample
  <2>2. source'[n] = NextSample(source[n])
        \/ source'[n] = [lap |-> source[n].lap + 1, seq |-> 0]
    BY <1>0
  <2>3. \A m \in Nodes \ {n} : source'[m] = source[m]
    BY <1>0
  <2> QED BY <2>1, <2>2, <2>3
<1>2. \A l \in Laps, s \in Seqs : AtMost(l, s, source[n]) => AtMost(l, s, source'[n])
  BY <1>0, <1>1 DEF AtMost
<1>3. ~AtMost(source'[n].lap, source'[n].seq, source[n])
  BY <1>0, <1>1 DEF AtMost
<1> QED BY <1>1, <1>2, <1>3

LEMMA RebootKeeps ==
    ASSUME TypeInv, SnifferInv, NEW n \in Nodes, NodeReboots(n)
    PROVE  SnifferInv'
<1>0. NewsInv' /\ WindowInv' /\ \A m, l, s : Accepted(m, l, s)' <=> Accepted(m, l, s)
  BY WindowKept DEF NodeReboots
<1>1. \A m \in Nodes, l \in Laps, s \in Seqs :
         AtMost(l, s, source[m]) => AtMost(l, s, source'[m])
  BY SourceGrows DEF NodeReboots
<1>2. UNCHANGED <<now, air, adv_msgq, seq_table>>
  BY DEF NodeReboots
<1>3. \A m, l, s, t : Alive(m, l, s, t)' <=> Alive(m, l, s, t)
  BY <1>2 DEF Alive
<1>4. AliveYoung' /\ AcceptedPast'
  BY <1>0, <1>1, <1>2, <1>3 DEF SnifferInv, PastInv, AliveYoung, AcceptedPast, AtMost
<1>5. AirYoung' /\ QueueInv'
  BY <1>2 DEF SnifferInv, PastInv, AirYoung, QueueInv
<1>6. BornInOrder' /\ Refused'
  BY <1>0, <1>2, <1>3 DEF SnifferInv, PastInv, BornInOrder, Refused
<1> QED BY <1>0, <1>4, <1>5, <1>6 DEF SnifferInv, PastInv

LEMMA SampleKeeps ==
    ASSUME TypeInv, TypeInv', SnifferInv, NEW n \in Nodes, NodeSamples(n)
    PROVE  SnifferInv'
<1> DEFINE new == source'[n]
<1>0. NewsInv' /\ WindowInv' /\ \A m, l, s : Accepted(m, l, s)' <=> Accepted(m, l, s)
  BY WindowKept DEF NodeSamples
<1>1. /\ \A m \in Nodes, l \in Laps, s \in Seqs :
            AtMost(l, s, source[m]) => AtMost(l, s, source'[m])
      /\ ~AtMost(new.lap, new.seq, source[n])
  BY SourceGrows DEF NodeSamples
<1>2. /\ UNCHANGED <<now, adv_msgq, seq_table>>
      /\ air' = air \cup {[id |-> n, lap |-> new.lap, seq |-> new.seq, born |-> now]}
  BY DEF NodeSamples
<1>3. new.lap \in Laps /\ new.seq \in Seqs /\ now \in Nat /\ MAX_DELAY \in Nat
      /\ Laps \subseteq Nat /\ Seqs \subseteq Nat
  <2>1. EnvOK'
    BY TypeParts
  <2> QED BY <2>1, SnifferTypes DEF EnvOK
<1>4. \A m, l, s, t : Alive(m, l, s, t)' =>
         Alive(m, l, s, t) \/ (m = n /\ l = new.lap /\ s = new.seq /\ t = now)
  BY <1>2 DEF Alive
<1>5. AliveYoung'
  <2> SUFFICES ASSUME NEW m \in Nodes, NEW l \in Laps, NEW s \in Seqs, NEW t \in Int,
                      Alive(m, l, s, t)'
               PROVE  AtMost(l, s, source'[m]) /\ now - 1 - MAX_DELAY <= t /\ t <= now
    BY <1>2 DEF AliveYoung, AtMost
  <2>1. CASE Alive(m, l, s, t)
    BY <1>1, <2>1 DEF SnifferInv, PastInv, AliveYoung
  <2>2. CASE m = n /\ l = new.lap /\ s = new.seq /\ t = now
    BY <1>3, <2>2 DEF AtMost
  <2> QED BY <1>4, <2>1, <2>2
<1>6. AcceptedPast'
  BY <1>0, <1>1 DEF SnifferInv, PastInv, AcceptedPast, AtMost
<1>7. AirYoung' /\ QueueInv'
  BY <1>2, <1>3 DEF SnifferInv, PastInv, AirYoung, QueueInv
<1>8. BornInOrder'
  <2> SUFFICES ASSUME NEW m \in Nodes, NEW l \in Laps, NEW s \in Seqs, NEW t \in Int,
                      Alive(m, l, s, t)', NEW i \in DOMAIN adv_msgq,
                      adv_msgq[i].id = m, adv_msgq[i].lap = l, s <= adv_msgq[i].seq
               PROVE  t <= adv_msgq[i].timestamp
    BY <1>2 DEF BornInOrder
  <2>1. CASE Alive(m, l, s, t)
    BY <2>1 DEF SnifferInv, PastInv, BornInOrder
  <2>2. CASE m = n /\ l = new.lap /\ s = new.seq
    <3>1. Alive(m, l, adv_msgq[i].seq, adv_msgq[i].timestamp - MAX_DELAY)
          /\ adv_msgq[i].seq \in Seqs /\ adv_msgq[i].timestamp - MAX_DELAY \in Int
      BY SnifferTypes DEF Alive
    <3>2. AtMost(l, adv_msgq[i].seq, source[n])
      BY <2>2, <3>1 DEF SnifferInv, PastInv, AliveYoung
    <3>3. AtMost(l, s, source[n])
      BY <1>3, <3>1, <3>2, SnifferTypes DEF AtMost
    <3> QED BY <1>1, <2>2, <3>3
  <2> QED BY <1>4, <2>1, <2>2
<1>9. Refused'
  <2> SUFFICES ASSUME NEW m \in Nodes, NEW l \in Laps, NEW s \in Seqs, NEW t \in Int,
                      Alive(m, l, s, t)', Accepted(m, l, s)
               PROVE  s <= seq_table[m].last_seq /\ t <= seq_table[m].last_seen
    BY <1>0, <1>2 DEF Refused
  <2>1. Alive(m, l, s, t)
    BY <1>1, <1>4 DEF SnifferInv, PastInv, AcceptedPast
  <2> QED BY <2>1 DEF SnifferInv, PastInv, Refused
<1> QED BY <1>0, <1>5, <1>6, <1>7, <1>8, <1>9 DEF SnifferInv, PastInv

LEMMA SniffKeeps ==
    ASSUME TypeInv, SnifferInv, NEW p \in air, sniffer_device_found(p)
    PROVE  SnifferInv'
<1> DEFINE raw == [id |-> p.id, lap |-> p.lap, seq |-> p.seq, timestamp |-> now]
<1>0. NewsInv' /\ WindowInv' /\ \A m, l, s : Accepted(m, l, s)' <=> Accepted(m, l, s)
  BY WindowKept DEF sniffer_device_found
<1>1. UNCHANGED <<now, source, air, seq_table>>
  BY DEF sniffer_device_found, env
<1>2. CASE UNCHANGED adv_msgq
  <2>1. PastInv'
    BY <1>0, <1>1, <1>2, NothingAccepted DEF SnifferInv, env
  <2> QED BY <1>0, <2>1 DEF SnifferInv
<1>3. CASE adv_msgq' = Append(adv_msgq, raw)
  <2>0. /\ p.id \in Nodes /\ p.lap \in Laps /\ p.seq \in Seqs /\ p.born \in Nat
        /\ now \in Nat /\ MAX_DELAY \in Nat /\ adv_msgq \in Seq(Raw)
        /\ Seqs \subseteq Nat
    BY SnifferTypes
  <2>1. /\ DOMAIN adv_msgq' = DOMAIN adv_msgq \cup {Len(adv_msgq) + 1}
        /\ adv_msgq'[Len(adv_msgq) + 1] = raw
        /\ \A i \in DOMAIN adv_msgq : adv_msgq'[i] = adv_msgq[i] /\ i < Len(adv_msgq) + 1
        /\ Len(adv_msgq) + 1 \notin DOMAIN adv_msgq
    BY <1>3, <2>0
  <2>2. /\ Alive(p.id, p.lap, p.seq, p.born) /\ p.born <= now
        /\ now - MAX_DELAY <= p.born
    <3>1. Alive(p.id, p.lap, p.seq, p.born)
      BY DEF Alive
    <3>2. p.born <= now
      <4>1. AliveYoung /\ p.born \in Int
        BY <2>0 DEF SnifferInv, PastInv
      <4> QED BY <2>0, <3>1, <4>1, Zenon DEF AliveYoung
    <3>3. now - p.born <= MAX_DELAY
      BY DEF SnifferInv, PastInv, AirYoung
    <3> QED BY <2>0, <3>1, <3>2, <3>3
  <2>3. ASSUME NEW n, NEW l, NEW s, NEW t, Alive(n, l, s, t)'
        PROVE  \/ Alive(n, l, s, t)
               \/ n = p.id /\ l = p.lap /\ s = p.seq /\ t = now - MAX_DELAY
    BY <1>1, <2>1, <2>3 DEF Alive
  <2>4. \A n \in Nodes, l \in Laps, s \in Seqs, t \in Int :
           Alive(n, l, s, t)' => t <= now
    BY <2>0, <2>3 DEF SnifferInv, PastInv, AliveYoung
  <2>5. AliveYoung'
    <3> SUFFICES ASSUME NEW n \in Nodes, NEW l \in Laps, NEW s \in Seqs, NEW t \in Int,
                        Alive(n, l, s, t)'
                 PROVE  AtMost(l, s, source[n]) /\ now - 1 - MAX_DELAY <= t /\ t <= now
      BY <1>1 DEF AliveYoung, AtMost
    <3>1. CASE Alive(n, l, s, t)
      BY <3>1 DEF SnifferInv, PastInv, AliveYoung
    <3>2. CASE n = p.id /\ l = p.lap /\ s = p.seq /\ t = now - MAX_DELAY
      <4>1. AtMost(l, s, source[n])
        BY <2>0, <2>2, <3>2 DEF SnifferInv, PastInv, AliveYoung
      <4> QED BY <2>0, <3>2, <4>1
    <3> QED BY <2>3, <3>1, <3>2
  <2>6. AcceptedPast' /\ AirYoung'
    BY <1>0, <1>1 DEF SnifferInv, PastInv, AcceptedPast, AirYoung
  <2>7. QueueInv'
    <3>1. \A i \in DOMAIN adv_msgq' :
             /\ now - 1 <= adv_msgq'[i].timestamp /\ adv_msgq'[i].timestamp <= now
             /\ seq_table[adv_msgq'[i].id].last_seen <= adv_msgq'[i].timestamp
      BY <2>0, <2>1 DEF SnifferInv, PastInv, QueueInv
    <3>2. \A i, j \in DOMAIN adv_msgq' :
             i < j => adv_msgq'[i].timestamp <= adv_msgq'[j].timestamp
      <4> SUFFICES ASSUME NEW i \in DOMAIN adv_msgq', NEW j \in DOMAIN adv_msgq', i < j
                   PROVE  adv_msgq'[i].timestamp <= adv_msgq'[j].timestamp
        OBVIOUS
      <4>1. CASE j = Len(adv_msgq) + 1
        BY <2>0, <2>1, <3>1, <4>1
      <4>2. CASE j \in DOMAIN adv_msgq
        <5>1. i \in DOMAIN adv_msgq
          BY <2>0, <2>1, <4>2
        <5> QED BY <2>1, <4>2, <5>1 DEF SnifferInv, PastInv, QueueInv
      <4> QED BY <2>1, <4>1, <4>2
    <3>3. \A n \in Nodes : seq_table[n].last_seen <= now
      BY DEF SnifferInv, PastInv, QueueInv
    <3> QED BY <1>1, <3>1, <3>2, <3>3 DEF QueueInv
  <2>8. BornInOrder'
    <3> SUFFICES ASSUME NEW n \in Nodes, NEW l \in Laps, NEW s \in Seqs, NEW t \in Int,
                        Alive(n, l, s, t)', NEW i \in DOMAIN adv_msgq',
                        adv_msgq'[i].id = n, adv_msgq'[i].lap = l, s <= adv_msgq'[i].seq
                 PROVE  t <= adv_msgq'[i].timestamp
      BY DEF BornInOrder
    <3>1. CASE i = Len(adv_msgq) + 1
      BY <2>1, <2>4, <3>1
    <3>2. CASE i \in DOMAIN adv_msgq /\ Alive(n, l, s, t)
      BY <2>1, <3>2 DEF SnifferInv, PastInv, BornInOrder
    <3>3. CASE i \in DOMAIN adv_msgq
               /\ n = p.id /\ l = p.lap /\ s = p.seq /\ t = now - MAX_DELAY
      <4>1. p.born <= adv_msgq[i].timestamp
        BY <2>0, <2>1, <2>2, <3>3 DEF SnifferInv, PastInv, BornInOrder
      <4>2. adv_msgq[i].timestamp \in Nat /\ adv_msgq'[i] = adv_msgq[i]
        BY <2>1, <3>3, SnifferTypes
      <4> QED BY <2>0, <2>2, <3>3, <4>1, <4>2
    <3> QED BY <2>1, <2>3, <3>1, <3>2, <3>3
  <2>9. Refused'
    <3> SUFFICES ASSUME NEW n \in Nodes, NEW l \in Laps, NEW s \in Seqs, NEW t \in Int,
                        Alive(n, l, s, t)', Accepted(n, l, s)
                 PROVE  s <= seq_table[n].last_seq /\ t <= seq_table[n].last_seen
      BY <1>0, <1>1 DEF Refused
    <3>1. CASE Alive(n, l, s, t)
      BY <3>1 DEF SnifferInv, PastInv, Refused
    <3>2. CASE n = p.id /\ l = p.lap /\ s = p.seq /\ t = now - MAX_DELAY
      <4>1. p.seq <= seq_table[n].last_seq /\ p.born <= seq_table[n].last_seen
        BY <2>0, <2>2, <3>2 DEF SnifferInv, PastInv, Refused
      <4>2. seq_table[n].last_seen \in Nat
        BY SnifferTypes
      <4> QED BY <2>0, <2>2, <3>2, <4>1, <4>2
    <3> QED BY <2>3, <3>1, <3>2
  <2> QED BY <1>0, <2>5, <2>6, <2>7, <2>8, <2>9 DEF SnifferInv, PastInv
<1> QED
  BY <1>2, <1>3 DEF sniffer_device_found

\* A packet that is taken is first in the queue; the rest stays in order behind it.
LEMMA TakenParts ==
    ASSUME TypeInv, SnifferInv, TakePacket
    PROVE  LET raw == Head(adv_msgq)
           IN  /\ raw.id \in Nodes /\ raw.lap \in Laps /\ raw.seq \in Seqs
               /\ raw.timestamp \in Nat /\ now - 1 <= raw.timestamp /\ raw.timestamp <= now
               /\ seq_table[raw.id].last_seen <= raw.timestamp
               /\ Alive(raw.id, raw.lap, raw.seq, raw.timestamp - MAX_DELAY)
               /\ \A n \in Nodes, l \in Laps, s \in Seqs, t \in Int :
                     /\ Alive(n, l, s, t)' => Alive(n, l, s, t)
                     /\ Alive(n, l, s, t) /\ n = raw.id /\ l = raw.lap /\ s <= raw.seq =>
                           t <= raw.timestamp
               /\ \A i \in DOMAIN adv_msgq' :
                     /\ i + 1 \in DOMAIN adv_msgq /\ adv_msgq'[i] = adv_msgq[i + 1]
                     /\ raw.timestamp <= adv_msgq'[i].timestamp
<1> DEFINE raw == Head(adv_msgq)
<1>1. adv_msgq \in Seq(Raw) /\ adv_msgq # <<>> /\ adv_msgq' = Tail(adv_msgq)
      /\ UNCHANGED env
  BY TakeCases, SnifferTypes
<1>2. /\ 1 \in DOMAIN adv_msgq /\ raw = adv_msgq[1]
      /\ \A i \in DOMAIN adv_msgq' :
            i + 1 \in DOMAIN adv_msgq /\ adv_msgq'[i] = adv_msgq[i + 1] /\ 1 < i + 1
  BY <1>1
<1>3. /\ raw.id \in Nodes /\ raw.lap \in Laps /\ raw.seq \in Seqs /\ raw.timestamp \in Nat
  BY <1>2, SnifferTypes
<1>4. /\ now - 1 <= raw.timestamp /\ raw.timestamp <= now
      /\ seq_table[raw.id].last_seen <= raw.timestamp
      /\ \A i \in DOMAIN adv_msgq' : raw.timestamp <= adv_msgq'[i].timestamp
  BY <1>2 DEF SnifferInv, PastInv, QueueInv
<1>5. Alive(raw.id, raw.lap, raw.seq, raw.timestamp - MAX_DELAY)
  BY <1>2 DEF Alive
<1>6. \A n, l, s, t : Alive(n, l, s, t)' => Alive(n, l, s, t)
  BY <1>1, <1>2 DEF Alive, env
<1>7. \A n \in Nodes, l \in Laps, s \in Seqs, t \in Int :
         Alive(n, l, s, t) /\ n = raw.id /\ l = raw.lap /\ s <= raw.seq => t <= raw.timestamp
  BY <1>2 DEF SnifferInv, PastInv, BornInOrder
<1> QED BY <1>2, <1>3, <1>4, <1>5, <1>6, <1>7

\* What the queue's head leaves behind holds for the rest, unless it is accepted.
LEMMA RejectKeeps ==
    ASSUME TypeInv, SnifferInv, TakePacket, Rejects(Head(adv_msgq))
    PROVE  SnifferInv'
<1> DEFINE raw == Head(adv_msgq)
<1>1. UNCHANGED <<env, proc, node_records, sender, forwarded>>
  BY TakeCases DEF Rejects
<1>2. /\ \A n \in Nodes : /\ seq_table'[n].last_seq = seq_table[n].last_seq
                          /\ seq_table'[n].last_seen = seq_table[n].last_seen
                          /\ seq_table[n].valid => seq_table'[n].valid
  <2>1. raw.id \in Nodes
    BY TakenParts
  <2>2. TableOK
    BY TypeParts
  <2> QED BY <2>1, <2>2 DEF Rejects, TableOK
<1>3. \A n, l, s : Accepted(n, l, s)' <=> Accepted(n, l, s)
  BY <1>1 DEF Accepted
<1>4. AliveYoung' /\ AcceptedPast' /\ AirYoung'
  <2>1. AliveYoung'
    BY <1>1, TakenParts DEF SnifferInv, PastInv, AliveYoung, env
  <2> QED BY <1>1, <1>3, <2>1 DEF SnifferInv, PastInv, AcceptedPast, AirYoung, env
<1>5. \A i \in DOMAIN adv_msgq' : i \in Nat /\ i + 1 \in DOMAIN adv_msgq
                                  /\ adv_msgq'[i] = adv_msgq[i + 1]
  BY TakenParts, TakeCases, SnifferTypes
<1>6. QueueInv'
  <2>1. \A i, j \in DOMAIN adv_msgq' :
           i < j => adv_msgq'[i].timestamp <= adv_msgq'[j].timestamp
    BY <1>5 DEF SnifferInv, PastInv, QueueInv
  <2>2. \A i \in DOMAIN adv_msgq' :
           /\ now - 1 <= adv_msgq'[i].timestamp /\ adv_msgq'[i].timestamp <= now
           /\ seq_table[adv_msgq'[i].id].last_seen <= adv_msgq'[i].timestamp
           /\ adv_msgq'[i].id \in Nodes
    BY <1>5, SnifferTypes DEF SnifferInv, PastInv, QueueInv
  <2>3. \A n \in Nodes : seq_table[n].last_seen <= now
    BY DEF SnifferInv, PastInv, QueueInv
  <2> QED BY <1>1, <1>2, <2>1, <2>2, <2>3 DEF QueueInv, env
<1>7. BornInOrder'
  BY <1>5, TakenParts DEF SnifferInv, PastInv, BornInOrder
<1>8. Refused'
  BY <1>2, <1>3, TakenParts DEF SnifferInv, PastInv, Refused
<1>9. NewsInv'
  BY <1>1 DEF SnifferInv, NewsInv, OnlyNewsForwarded, StoredIsNews, IsNews
<1>10. WindowInv'
  <2>1. \A i \in DOMAIN node_records : node_records[i].id \in Nodes
    BY SnifferTypes
  <2>2. proc.at # "store"
    BY TakeCases
  <2> QED
    BY <1>1, <1>2, <2>1, <2>2
       DEF SnifferInv, WindowInv, OneRecordPerNode, WindowMatchesTable, StoredInTable
<1> QED BY <1>4, <1>6, <1>7, <1>8, <1>9, <1>10 DEF SnifferInv, PastInv

\* A packet that seq_is_valid lets through is news: what is not has, by Refused, a
\* number the table still remembers.
LEMMA AcceptedIsNews ==
    ASSUME TypeInv, SnifferInv, TakePacket, Accepts(Head(adv_msgq))
    PROVE  LET raw == Head(adv_msgq)
           IN  /\ ~Accepted(raw.id, raw.lap, raw.seq)
               /\ \A n \in Nodes, l \in Laps, s \in Seqs, t \in Int :
                     Alive(n, l, s, t) /\ Accepted(n, l, s) /\ n = raw.id =>
                         s <= raw.seq /\ t <= raw.timestamp
<1> DEFINE raw == Head(adv_msgq)
           entry == seq_table[raw.id]
<1>1. /\ raw.id \in Nodes /\ raw.lap \in Laps /\ raw.seq \in Seqs /\ raw.timestamp \in Nat
      /\ now - 1 <= raw.timestamp /\ entry.last_seen <= raw.timestamp
      /\ Alive(raw.id, raw.lap, raw.seq, raw.timestamp - MAX_DELAY)
  BY TakenParts
<1>2. /\ entry.last_seq \in Nat /\ entry.last_seen \in Nat /\ now \in Nat
      /\ raw.seq \in Nat /\ MAX_DELAY \in Nat /\ NODE_TIMEOUT \in Nat
      /\ MAX_DELAY + 1 <= NODE_TIMEOUT
  BY <1>1, SnifferTypes, Sizes
<1>3. now - entry.last_seen > NODE_TIMEOUT \/ raw.seq > entry.last_seq
  BY DEF Accepts, seq_is_valid
<1>4. ASSUME NEW n \in Nodes, NEW l \in Laps, NEW s \in Seqs, NEW t \in Int,
             Alive(n, l, s, t), Accepted(n, l, s), n = raw.id
      PROVE  s <= entry.last_seq /\ t <= entry.last_seen /\ raw.seq > entry.last_seq
  <2>1. s <= entry.last_seq /\ t <= entry.last_seen
    BY <1>4 DEF SnifferInv, PastInv, Refused
  <2>2. now - 1 - MAX_DELAY <= t
    BY <1>4 DEF SnifferInv, PastInv, AliveYoung
  <2>3. ~(now - entry.last_seen > NODE_TIMEOUT)
    BY <1>2, <2>1, <2>2
  <2> QED BY <1>3, <2>1, <2>3
<1>5. ~Accepted(raw.id, raw.lap, raw.seq)
  <2> SUFFICES ASSUME Accepted(raw.id, raw.lap, raw.seq) PROVE FALSE
    OBVIOUS
  <2>1. raw.timestamp - MAX_DELAY \in Int
    BY <1>1, <1>2
  <2>2. raw.seq <= entry.last_seq /\ raw.seq > entry.last_seq
    BY <1>1, <1>4, <2>1
  <2> QED BY <1>2, <2>2
<1>6. ASSUME NEW n \in Nodes, NEW l \in Laps, NEW s \in Seqs, NEW t \in Int,
             Alive(n, l, s, t), Accepted(n, l, s), n = raw.id
      PROVE  s <= raw.seq /\ t <= raw.timestamp
  <2>1. s <= entry.last_seq /\ t <= entry.last_seen /\ raw.seq > entry.last_seq
    BY <1>4, <1>6
  <2>2. s \in Nat
    BY SnifferTypes
  <2> QED BY <1>1, <1>2, <2>1, <2>2
<1> QED BY <1>5, <1>6

LEMMA AcceptKeeps ==
    ASSUME TypeInv, SnifferInv, TakePacket, Accepts(Head(adv_msgq))
    PROVE  SnifferInv'
<1> DEFINE raw == Head(adv_msgq)
<1>1. /\ proc.at # "store" /\ UNCHANGED <<env, node_records, sender, forwarded>>
  BY TakeCases
<1>2. /\ raw.id \in Nodes /\ raw.lap \in Laps /\ raw.seq \in Seqs /\ raw.timestamp \in Nat
      /\ raw.timestamp <= now
  BY TakenParts
<1>3. /\ \A n \in Nodes \ {raw.id} : seq_table'[n] = seq_table[n]
      /\ seq_table'[raw.id] =
            [valid |-> TRUE, last_seq |-> raw.seq, last_seen |-> raw.timestamp]
      /\ proc'.at = "store" /\ proc'.raw = raw
  <2>1. TableOK /\ ProcOK
    BY TypeParts
  <2> QED BY <1>2, <2>1 DEF Accepts, TableOK, ProcOK
<1>4. \A n, l, s : Accepted(n, l, s)' <=>
         Accepted(n, l, s) \/ (n = raw.id /\ l = raw.lap /\ s <= raw.seq)
  BY <1>1, <1>3 DEF Accepted
<1>5. \A i \in DOMAIN adv_msgq' :
         /\ i \in Nat /\ i + 1 \in DOMAIN adv_msgq /\ adv_msgq'[i] = adv_msgq[i + 1]
         /\ raw.timestamp <= adv_msgq'[i].timestamp
  BY TakenParts, TakeCases, SnifferTypes
<1>6. AliveYoung' /\ AirYoung'
  <2>1. AliveYoung'
    BY <1>1, TakenParts DEF SnifferInv, PastInv, AliveYoung, env
  <2> QED BY <1>1, <2>1 DEF SnifferInv, PastInv, AirYoung, env
<1>7. AcceptedPast'
  <2> SUFFICES ASSUME NEW n \in Nodes, NEW l \in Laps, NEW s \in Seqs, Accepted(n, l, s)'
               PROVE  AtMost(l, s, source[n])
    BY <1>1 DEF AcceptedPast, env
  <2>1. CASE Accepted(n, l, s)
    BY <2>1 DEF SnifferInv, PastInv, AcceptedPast
  <2>2. CASE n = raw.id /\ l = raw.lap /\ s <= raw.seq
    <3>1. Alive(raw.id, raw.lap, raw.seq, raw.timestamp - MAX_DELAY)
          /\ raw.timestamp - MAX_DELAY \in Int
      BY <1>2, TakenParts, Sizes
    <3>2. AtMost(l, raw.seq, source[n])
      BY <1>2, <2>2, <3>1 DEF SnifferInv, PastInv, AliveYoung
    <3> QED BY <1>2, <2>2, <3>2, SnifferTypes DEF AtMost
  <2> QED BY <1>4, <2>1, <2>2
<1>8. QueueInv'
  <2>1. \A i, j \in DOMAIN adv_msgq' :
           i < j => adv_msgq'[i].timestamp <= adv_msgq'[j].timestamp
    BY <1>5 DEF SnifferInv, PastInv, QueueInv
  <2>2. \A i \in DOMAIN adv_msgq' :
           /\ now - 1 <= adv_msgq'[i].timestamp /\ adv_msgq'[i].timestamp <= now
           /\ seq_table[adv_msgq'[i].id].last_seen <= adv_msgq'[i].timestamp
           /\ adv_msgq'[i].id \in Nodes
    BY <1>5, SnifferTypes DEF SnifferInv, PastInv, QueueInv
  <2>3. \A n \in Nodes : seq_table[n].last_seen <= now
    BY DEF SnifferInv, PastInv, QueueInv
  <2>4. \A i \in DOMAIN adv_msgq' :
           seq_table'[adv_msgq'[i].id].last_seen <= adv_msgq'[i].timestamp
    BY <1>3, <1>5, <2>2
  <2>5. \A n \in Nodes : seq_table'[n].last_seen <= now
    BY <1>2, <1>3, <2>3
  <2> QED BY <1>1, <2>1, <2>2, <2>4, <2>5 DEF QueueInv, env
<1>9. BornInOrder'
  BY <1>5, TakenParts DEF SnifferInv, PastInv, BornInOrder
<1>10. Refused'
  <2> SUFFICES ASSUME NEW n \in Nodes, NEW l \in Laps, NEW s \in Seqs, NEW t \in Int,
                      Alive(n, l, s, t)', Accepted(n, l, s)'
               PROVE  s <= seq_table'[n].last_seq /\ t <= seq_table'[n].last_seen
    BY DEF Refused
  <2>0. Alive(n, l, s, t)
    BY TakenParts
  <2>1. CASE n # raw.id
    BY <1>3, <1>4, <2>0, <2>1 DEF SnifferInv, PastInv, Refused
  <2>2. CASE n = raw.id /\ Accepted(n, l, s)
    <3>1. s <= raw.seq /\ t <= raw.timestamp
      BY <2>0, <2>2, AcceptedIsNews
    <3> QED BY <1>3, <2>2, <3>1
  <2>3. CASE n = raw.id /\ l = raw.lap /\ s <= raw.seq
    <3>1. t <= raw.timestamp
      BY <2>0, <2>3, TakenParts
    <3> QED BY <1>3, <2>3, <3>1
  <2> QED BY <1>4, <2>1, <2>2, <2>3
<1>11. NewsInv'
  <2>1. ~Accepted(raw.id, raw.lap, raw.seq)
    BY AcceptedIsNews
  <2>2. raw.seq > forwarded[raw.id][raw.lap]
    BY <1>2, <2>1, SnifferTypes DEF Accepted
  <2>3. \A i \in DOMAIN node_records :
           node_records[i].id = raw.id /\ node_records[i].lap = raw.lap =>
               node_records[i].seq < raw.seq
    BY <1>2, <2>1, SnifferTypes DEF Accepted
  <2>4. OnlyNewsForwarded'
    BY <1>1, <1>3, <2>2 DEF SnifferInv, NewsInv, OnlyNewsForwarded, IsNews
  <2>5. StoredIsNews'
    BY <1>1, <1>3, <2>3 DEF StoredIsNews
  <2> QED BY <2>4, <2>5 DEF NewsInv
<1>12. WindowInv'
  <2>1. OneRecordPerNode' /\ StoredInTable'
    BY <1>1, <1>3 DEF SnifferInv, WindowInv, OneRecordPerNode, StoredInTable
  <2>2. WindowMatchesTable'
    <3>1. \A i \in DOMAIN node_records : node_records[i].id \in Nodes
      BY SnifferTypes
    <3> QED BY <1>1, <1>3, <3>1 DEF SnifferInv, WindowInv, WindowMatchesTable
  <2> QED BY <2>1, <2>2 DEF WindowInv
<1> QED BY <1>6, <1>7, <1>8, <1>9, <1>10, <1>11, <1>12 DEF SnifferInv, PastInv

\* The window after a record was put into it.
LEMMA StoredRecords ==
    ASSUME NEW recs \in Seq(Sample), NEW s \in Sample,
           \A i, j \in DOMAIN recs : recs[i].id = recs[j].id => i = j
    PROVE  LET new == find_or_alloc_node(recs, s)
           IN  /\ \A i \in DOMAIN new :
                     new[i] = s \/ (i \in DOMAIN recs /\ new[i] = recs[i] /\ recs[i].id # s.id)
                                \/ (i \in DOMAIN recs /\ new = recs
                                    /\ \A j \in DOMAIN recs : recs[j].id # s.id)
               /\ \A i, j \in DOMAIN new : new[i].id = new[j].id => i = j
<1> DEFINE new == find_or_alloc_node(recs, s)
<1>1. CASE \E i \in DOMAIN recs : recs[i].id = s.id
  <2>1. new = [i \in DOMAIN recs |-> IF recs[i].id = s.id THEN s ELSE recs[i]]
    BY <1>1 DEF find_or_alloc_node
  <2> HIDE DEF new
  <2>2. \A i \in DOMAIN new : i \in DOMAIN recs /\ new[i].id = recs[i].id
    BY <2>1
  <2> QED BY <2>1, <2>2 DEF new
<1>2. CASE /\ ~\E i \in DOMAIN recs : recs[i].id = s.id
           /\ Len(recs) < SNIFFER_MAX_NODES
  <2>1. new = Append(recs, s)
    BY <1>2 DEF find_or_alloc_node
  <2> HIDE DEF new
  <2>2. /\ DOMAIN new = DOMAIN recs \cup {Len(recs) + 1}
        /\ new[Len(recs) + 1] = s
        /\ \A i \in DOMAIN recs : new[i] = recs[i]
    BY <2>1
  <2> QED BY <1>2, <2>2 DEF new
<1>3. CASE /\ ~\E i \in DOMAIN recs : recs[i].id = s.id
           /\ ~(Len(recs) < SNIFFER_MAX_NODES)
  <2>1. new = recs
    BY <1>3, Zenon DEF find_or_alloc_node
  <2> QED BY <1>3, <2>1
<1> QED BY <1>1, <1>2, <1>3

LEMMA StoreKeeps == ASSUME TypeInv, SnifferInv, StoreRecord PROVE SnifferInv'
<1> DEFINE s == SampleOf(proc.raw)
<1>1. /\ proc.at = "store" /\ sender.at = "sleep" /\ sender.passed = 0
      /\ node_records' = find_or_alloc_node(node_records, s)
      /\ proc'.at = "adv"
      /\ UNCHANGED <<env, adv_msgq, seq_table, sender, forwarded>>
  <2>1. ProcOK /\ WindowOK
    BY TypeParts
  <2> QED BY <2>1 DEF StoreRecord, ProcOK, WindowOK
<1>2. /\ s \in Sample /\ s.id = proc.raw.id /\ s.lap = proc.raw.lap /\ s.seq = proc.raw.seq
      /\ node_records \in Seq(Sample)
  BY <1>1, SnifferTypes DEF SampleOf, Sample
<1>3. OneRecordPerNode
  BY DEF SnifferInv, WindowInv
<1>4. /\ \A i \in DOMAIN node_records' :
            \/ node_records'[i] = s
            \/ /\ i \in DOMAIN node_records /\ node_records'[i] = node_records[i]
               /\ node_records[i].id # s.id
      /\ \A i, j \in DOMAIN node_records' :
            node_records'[i].id = node_records'[j].id => i = j
  BY <1>1, <1>2, <1>3, StoredRecords DEF OneRecordPerNode
<1>5. \A n \in Nodes, l \in Laps, q \in Seqs : Accepted(n, l, q)' => Accepted(n, l, q)
  <2> SUFFICES ASSUME NEW n \in Nodes, NEW l \in Laps, NEW q \in Seqs, Accepted(n, l, q)'
               PROVE  Accepted(n, l, q)
    OBVIOUS
  <2>1. CASE q <= forwarded'[n][l]
    BY <1>1, <2>1 DEF Accepted
  <2>2. ASSUME NEW i \in DOMAIN node_records', node_records'[i].id = n,
               node_records'[i].lap = l, q <= node_records'[i].seq
        PROVE  Accepted(n, l, q)
    BY <1>1, <1>2, <1>4, <2>2 DEF Accepted
  <2> QED BY <1>1, <2>1, <2>2 DEF Accepted
<1>6. PastInv'
  BY <1>1, <1>5, NothingAccepted DEF SnifferInv
<1>7. NewsInv'
  <2>1. \A i \in DOMAIN node_records : IsNews(node_records[i])
    <3>1. \A i \in DOMAIN node_records : sender.passed < i
      BY <1>1, <1>2
    <3> QED BY <3>1 DEF SnifferInv, NewsInv, OnlyNewsForwarded
  <2>2. IsNews(s)
    BY <1>1, <1>2 DEF SnifferInv, NewsInv, OnlyNewsForwarded, IsNews
  <2>3. \A i \in DOMAIN node_records' : IsNews(node_records'[i])
    BY <1>4, <2>1, <2>2
  <2>4. OnlyNewsForwarded'
    BY <1>1, <2>3 DEF OnlyNewsForwarded, IsNews
  <2> QED BY <1>1, <2>4 DEF NewsInv, StoredIsNews
<1>8. WindowInv'
  <2>1. OneRecordPerNode'
    BY <1>4 DEF OneRecordPerNode
  <2>2. WindowMatchesTable'
    BY <1>1, <1>2, <1>4 DEF SnifferInv, WindowInv, WindowMatchesTable, StoredInTable
  <2>3. StoredInTable'
    BY <1>1 DEF StoredInTable
  <2> QED BY <2>1, <2>2, <2>3 DEF WindowInv
<1> QED BY <1>6, <1>7, <1>8 DEF SnifferInv

LEMMA SendKeeps == ASSUME TypeInv, SnifferInv, nus_send_thread PROVE SnifferInv'
<1>1. CASE LockRecords
  <2>1. sender'.passed = sender.passed
    <3>1. WindowOK
      BY TypeParts
    <3> QED BY <1>1, <3>1 DEF LockRecords, WindowOK
  <2> QED BY <1>1, <2>1, Quiet DEF LockRecords
<1>2. CASE SendRecord /\ ~(sender.passed < Len(node_records) /\ CanSend)
  <2>1. sender'.passed = sender.passed /\ UNCHANGED forwarded
    <3>1. WindowOK
      BY TypeParts
    <3> QED BY <1>2, <3>1 DEF SendRecord, WindowOK
  <2> QED BY <1>2, <2>1, Quiet DEF SendRecord
<1>3. CASE SendRecord /\ sender.passed < Len(node_records) /\ CanSend
  <2> DEFINE r == node_records[sender.passed + 1]
  <2>1. /\ sender'.passed = sender.passed + 1 /\ sender.passed \in Nat
        /\ sender.passed + 1 \in DOMAIN node_records
    <3>1. WindowOK
      BY TypeParts
    <3>2. sender' = [sender EXCEPT !.passed = sender.passed + 1]
      BY <1>3 DEF SendRecord
    <3>3. sender'.passed = sender.passed + 1 /\ sender.passed \in Nat
          /\ node_records \in Seq(Sample)
      BY <3>1, <3>2 DEF WindowOK
    <3> QED BY <1>3, <3>3
  <2>2. UNCHANGED <<env, adv_msgq, seq_table, node_records, proc>>
    BY <1>3, Zenon DEF SendRecord
  <2>3. UNCHANGED forwarded \/ forwarded' = [forwarded EXCEPT ![r.id][r.lap] = r.seq]
    BY <1>3, Zenon DEF SendRecord
  <2>4. r.id \in Nodes /\ r.lap \in Laps /\ r.seq \in Seqs
    BY <2>1, SnifferTypes
  <2>5. \A n \in Nodes, l \in Laps :
           \/ forwarded'[n][l] = forwarded[n][l]
           \/ n = r.id /\ l = r.lap /\ forwarded'[n][l] = r.seq
    <3>1. ForwardedOK
      BY TypeParts
    <3> QED BY <2>3, <2>4, <3>1 DEF ForwardedOK
  <2>6. PastInv'
    <3>1. \A n \in Nodes, l \in Laps, s \in Seqs : Accepted(n, l, s)' => Accepted(n, l, s)
      BY <2>1, <2>2, <2>5 DEF Accepted
    <3> QED BY <2>2, <3>1, NothingAccepted DEF SnifferInv
  <2>7. NewsInv'
    <3>1. ASSUME NEW i \in DOMAIN node_records, sender.passed + 1 < i
          PROVE  IsNews(node_records[i])'
      <4>1. IsNews(node_records[i])
        BY <2>1, <3>1, SnifferTypes DEF SnifferInv, NewsInv, OnlyNewsForwarded
      <4>2. node_records[i].id # r.id
        BY <2>1, <3>1, SnifferTypes DEF SnifferInv, WindowInv, OneRecordPerNode
      <4>3. node_records[i].id \in Nodes /\ node_records[i].lap \in Laps
        BY SnifferTypes
      <4> QED BY <2>2, <2>5, <4>1, <4>2, <4>3 DEF IsNews
    <3>2. ASSUME proc.at = "store" PROVE IsNews(proc.raw)'
      <4>1. IsNews(proc.raw) /\ proc.raw.id \in Nodes /\ proc.raw.lap \in Laps
        BY <3>2, SnifferTypes DEF SnifferInv, NewsInv, OnlyNewsForwarded
      <4>2. r.id = proc.raw.id /\ r.lap = proc.raw.lap => r.seq < proc.raw.seq
        BY <2>1, <3>2 DEF SnifferInv, NewsInv, StoredIsNews
      <4>3. proc.raw.seq \in Nat /\ r.seq \in Nat
        BY <2>4, <3>2, SnifferTypes
      <4> QED BY <2>2, <2>5, <4>1, <4>2, <4>3 DEF IsNews
    <3>3. OnlyNewsForwarded'
      BY <2>1, <2>2, <3>1, <3>2 DEF OnlyNewsForwarded
    <3>4. StoredIsNews'
      BY <2>2 DEF SnifferInv, NewsInv, StoredIsNews
    <3> QED BY <3>3, <3>4 DEF NewsInv
  <2>8. WindowInv'
    BY <2>2 DEF SnifferInv, WindowInv, OneRecordPerNode, WindowMatchesTable, StoredInTable
  <2> QED BY <2>6, <2>7, <2>8 DEF SnifferInv
<1>4. CASE EndWindow
  <2>1. node_records' = <<>> /\ UNCHANGED <<env, adv_msgq, seq_table, proc, forwarded>>
    BY <1>4 DEF EndWindow
  <2>2. PastInv'
    <3>1. \A n \in Nodes, l \in Laps, s \in Seqs : Accepted(n, l, s)' => Accepted(n, l, s)
      BY <2>1 DEF Accepted
    <3> QED BY <2>1, <3>1, NothingAccepted DEF SnifferInv
  <2>3. NewsInv'
    BY <2>1 DEF SnifferInv, NewsInv, OnlyNewsForwarded, StoredIsNews, IsNews
  <2>4. WindowInv'
    BY <2>1 DEF SnifferInv, WindowInv, OneRecordPerNode, WindowMatchesTable, StoredInTable
  <2> QED BY <2>2, <2>3, <2>4 DEF SnifferInv
<1> QED BY <1>1, <1>2, <1>3, <1>4, Zenon DEF nus_send_thread

LEMMA SnifferInit == Init => SnifferInv
<1> SUFFICES ASSUME Init PROVE SnifferInv
  OBVIOUS
<1> USE DEF Init
<1>1. \A n, l, s, t : ~Alive(n, l, s, t)
  BY DEF Alive
<1>2. \A n \in Nodes, l \in Laps, s \in Seqs : ~Accepted(n, l, s)
  <2>1. \A n \in Nodes, l \in Laps : forwarded[n][l] = -1
    OBVIOUS
  <2>2. \A s \in Seqs : ~(s <= -1)
    BY Sizes DEF Seqs
  <2> QED BY <2>1, <2>2 DEF Accepted
<1>3. AliveYoung /\ AcceptedPast /\ BornInOrder /\ Refused
  BY <1>1, <1>2 DEF AliveYoung, AcceptedPast, BornInOrder, Refused
<1>4. AirYoung /\ QueueInv
  BY DEF AirYoung, QueueInv, NoEntry
<1>5. NewsInv /\ WindowInv
  BY DEF NewsInv, OnlyNewsForwarded, StoredIsNews, WindowInv, OneRecordPerNode,
         WindowMatchesTable, StoredInTable
<1> QED BY <1>3, <1>4, <1>5 DEF SnifferInv, PastInv

LEMMA SnifferNext == TypeInv /\ SnifferInv /\ [Next]_vars => SnifferInv'
<1> SUFFICES ASSUME TypeInv, SnifferInv, [Next]_vars PROVE SnifferInv'
  OBVIOUS
<1>0. TypeInv' /\ ProcOK
  BY TypeNext, TypeParts
<1>1. CASE Mesh
  BY <1>0, <1>1, TickKeeps, RebootKeeps, SampleKeeps DEF Mesh
<1>2. ASSUME NEW p \in air, sniffer_device_found(p) PROVE SnifferInv'
  BY <1>2, SniffKeeps
<1>3. CASE TakePacket
  BY <1>3, TakeCases, RejectKeeps, AcceptKeeps
<1>4. CASE StoreRecord
  BY <1>4, StoreKeeps
<1>5. CASE NextLoop \/ TakeCommand \/ do_broadcast_command
  <2>1. proc.at # "store" /\ proc'.at # "store"
    <3>1. CASE NextLoop
      BY <1>0, <3>1 DEF NextLoop, ProcOK
    <3>2. CASE TakeCommand
      BY <1>0, <3>2 DEF TakeCommand, ProcOK
    <3>3. CASE do_broadcast_command
      BY <1>0, <3>3 DEF do_broadcast_command, StartBroadcast, StopBroadcast, EndGap, ProcOK
    <3> QED BY <1>5, <3>1, <3>2, <3>3
  <2>2. UNCHANGED <<env, adv_msgq, seq_table, node_records, forwarded, sender>>
    BY <1>5, Zenon DEF NextLoop, TakeCommand, do_broadcast_command, StartBroadcast,
                       StopBroadcast, EndGap
  <2> QED BY <2>1, <2>2, Quiet
<1>6. CASE nus_send_thread
  BY <1>6, SendKeeps
<1>7. CASE Link
  <2>1. UNCHANGED <<env, adv_msgq, seq_table, node_records, forwarded, sender, proc>>
    BY <1>7, Zenon DEF Link, Connected, nus_notif_changed, Disconnected, adv_restart_fn, rest
  <2> QED BY <2>1, Quiet
<1>8. ASSUME NEW c \in Commands, on_receive(c) PROVE SnifferInv'
  BY <1>8, Quiet DEF on_receive
<1>9. CASE UNCHANGED vars
  BY <1>9, Quiet DEF vars
<1> QED
  BY <1>1, <1>2, <1>3, <1>4, <1>5, <1>6, <1>7, <1>8, <1>9, Zenon DEF Next, proc_thread

LEMMA SnifferInvariant == Spec => []SnifferInv
BY TypeInit, TypeNext, SnifferInit, SnifferNext, PTL DEF Spec

\* However the mesh repeats, delays and reorders packets, nodes reboot and their 8-bit
\* numbers wrap, seq_is_valid lets a number of a lap through at most once, in order.
THEOREM NothingTwice == Spec => []OnlyNewsForwarded
<1>1. SnifferInv => OnlyNewsForwarded
  BY DEF SnifferInv, NewsInv
<1> QED BY <1>1, SnifferInvariant, PTL

\* find_or_alloc_node never makes a second record of a node.
THEOREM NodesAreDistinct == Spec => []OneRecordPerNode
<1>1. SnifferInv => OneRecordPerNode
  BY DEF SnifferInv, WindowInv
<1> QED BY <1>1, SnifferInvariant, PTL

\* node_records and seq_table agree on what was accepted last of a node.
THEOREM TablesAgree == Spec => []WindowMatchesTable
<1>1. SnifferInv => WindowMatchesTable
  BY DEF SnifferInv, WindowInv
<1> QED BY <1>1, SnifferInvariant, PTL

-----------------------------------------------------------------------------
(* The mobile node implements NewsFeed: taking a sample and starting again *)
(* are a node's progress, a turn of the loop is a node's turn, emptying    *)
(* the window ends the burst, and no other step can be told from none.     *)

LEMMA FeedInit == Init => Feed!Init
<1> SUFFICES ASSUME Init PROVE Feed!Init
  OBVIOUS
<1>1. Passed = {}
  BY DEF Init, Passed
<1> QED BY <1>1 DEF Init, Feed!Init

\* Steps that change neither the samples, nor what was sent, nor whose turn is over.
LEMMA NothingFed ==
    ASSUME UNCHANGED <<source, forwarded>>, Passed' = Passed
    PROVE  UNCHANGED Feed!vars
BY DEF Feed!vars

LEMMA PassedUnchanged ==
    ASSUME UNCHANGED <<node_records, sender>> PROVE Passed' = Passed
BY DEF Passed

\* While the sender sleeps, it is nobody's turn.
LEMMA AsleepNobodyPassed ==
    ASSUME TypeInv, sender.at = "sleep" PROVE Passed = {}
BY TypeParts DEF WindowOK, Passed

LEMMA MeshFeeds == ASSUME TypeInv, Mesh PROVE [Feed!Next]_(Feed!vars)
<1>0. source \in [Nodes -> [lap : Laps, seq : Seqs]] /\ EnvOK
  BY TypeParts DEF EnvOK
<1>1. Passed' = Passed /\ UNCHANGED forwarded
  <2>1. UNCHANGED <<node_records, sender, forwarded>>
    BY Zenon DEF Mesh, Tick, NodeSamples, NodeReboots
  <2> QED BY <2>1, PassedUnchanged
<1>2. CASE Tick
  BY <1>1, <1>2, NothingFed DEF Tick
<1>3. ASSUME NEW n \in Nodes, NEW s, s \in [lap : Laps, seq : Seqs],
             Feed!Later(s, source[n]), source' = [source EXCEPT ![n] = s]
      PROVE  Feed!Next
  BY <1>1, <1>3 DEF Feed!Next, Feed!Progress
<1>4. ASSUME NEW n \in Nodes, NodeSamples(n) PROVE Feed!Next
  <2> DEFINE s == NextSample(source[n])
  <2>1. /\ source[n] \in [lap : Laps, seq : Seqs]
        /\ source[n].lap \in Laps /\ source[n].lap \in Nat
        /\ source[n].seq \in Seqs /\ source[n].seq \in Nat
    BY <1>0 DEF Laps, Seqs
  <2>2. s.lap \in Laps /\ source' = [source EXCEPT ![n] = s]
    BY <1>4 DEF NodeSamples
  <2>3. s \in [lap : Laps, seq : Seqs] /\ Feed!Later(s, source[n])
    <3>1. CASE source[n].seq + 1 < SEQ_MOD
      <4>1. s = [source[n] EXCEPT !.seq = source[n].seq + 1]
        BY <3>1 DEF NextSample
      <4>2. source[n].seq + 1 \in Seqs
        BY <2>1, <3>1, Sizes DEF Seqs
      <4> QED BY <2>1, <4>1, <4>2 DEF Feed!Later
    <3>2. CASE ~(source[n].seq + 1 < SEQ_MOD)
      <4>1. s = [lap |-> source[n].lap + 1, seq |-> 0]
        BY <3>2 DEF NextSample
      <4>2. 0 \in Seqs
        BY Sizes DEF Seqs
      <4> HIDE DEF s
      <4> QED BY <2>1, <2>2, <4>1, <4>2 DEF Feed!Later
    <3> QED BY <3>1, <3>2
  <2> HIDE DEF s
  <2> QED BY <1>3, <2>2, <2>3
<1>5. ASSUME NEW n \in Nodes, NodeReboots(n) PROVE Feed!Next
  <2> DEFINE s == [lap |-> source[n].lap + 1, seq |-> 0]
  <2>1. source[n].lap \in Nat /\ 0 \in Seqs
    BY <1>0, Sizes DEF Laps, Seqs
  <2>2. source[n].lap + 1 \in Laps /\ source' = [source EXCEPT ![n] = s]
    BY <1>5 DEF NodeReboots
  <2>3. s \in [lap : Laps, seq : Seqs] /\ Feed!Later(s, source[n])
    BY <2>1, <2>2 DEF Feed!Later
  <2> HIDE DEF s
  <2> QED BY <1>3, <2>2, <2>3
<1> QED BY <1>2, <1>4, <1>5 DEF Mesh

\* A turn of the loop sends the record of a node that had no turn in this burst, and
\* the record is news.
LEMMA TurnFeeds ==
    ASSUME TypeInv, SnifferInv, SendRecord, sender.passed < Len(node_records), CanSend
    PROVE  Feed!Next
<1> DEFINE k == sender.passed + 1
           r == node_records[k]
<1>1. /\ sender.passed \in Nat /\ k \in DOMAIN node_records
      /\ 1 .. sender.passed \subseteq DOMAIN node_records
      /\ sender'.passed = k
  <2>1. WindowOK
    BY TypeParts
  <2>2. sender' = [sender EXCEPT !.passed = sender.passed + 1]
    BY DEF SendRecord
  <2> QED BY <2>1, <2>2 DEF WindowOK
<1>2. UNCHANGED <<source, node_records>>
  BY Zenon DEF SendRecord, env
<1>3. UNCHANGED forwarded \/ forwarded' = [forwarded EXCEPT ![r.id][r.lap] = r.seq]
  BY Zenon DEF SendRecord
<1>4. r.id \in Nodes /\ r.lap \in Laps /\ r.seq \in Seqs /\ r \in Feed!Sample
  <2>1. node_records \in Seq(Sample)
    BY SnifferTypes
  <2>2. r \in Sample
    BY <1>1, <2>1
  <2> QED BY <2>2 DEF Sample, Feed!Sample
<1>5. Passed' = Passed \cup {r}
  <2>1. 1 .. sender'.passed = (1 .. sender.passed) \cup {k}
    BY <1>1
  <2> QED BY <1>2, <2>1 DEF Passed
<1>6. \A q \in Passed : q.id # r.id
  <2>1. \A i \in 1 .. sender.passed : i \in DOMAIN node_records /\ i # k
    BY <1>1
  <2>2. OneRecordPerNode
    BY DEF SnifferInv, WindowInv
  <2> QED BY <1>1, <2>1, <2>2 DEF Passed, OneRecordPerNode
<1>7. r.seq > forwarded[r.id][r.lap]
  <2>1. sender.passed < k
    BY <1>1
  <2> QED BY <1>1, <2>1 DEF SnifferInv, NewsInv, OnlyNewsForwarded, IsNews
<1>8. ~Feed!Later(r, source[r.id])
  <2>1. r.seq <= r.seq
    BY <1>4, Sizes DEF Seqs
  <2>2. Accepted(r.id, r.lap, r.seq)
    BY <1>1, <2>1 DEF Accepted
  <2>3. AtMost(r.lap, r.seq, source[r.id])
    BY <1>4, <2>2 DEF SnifferInv, PastInv, AcceptedPast
  <2>4. /\ source[r.id].lap \in Nat /\ source[r.id].seq \in Nat
        /\ r.lap \in Nat /\ r.seq \in Nat
    BY <1>4, SnifferTypes, Sizes DEF Laps, Seqs
  <2> QED BY <2>3, <2>4 DEF Feed!Later, AtMost
<1> HIDE DEF r
<1>9. Feed!Turn(r)
  BY <1>2, <1>5, <1>6, <1>7, <1>8 DEF Feed!Turn
<1>10. Feed!Fail(r) \/ Feed!Send(r)
  BY <1>3, <1>9 DEF Feed!Fail, Feed!Send
<1> QED BY <1>4, <1>10 DEF Feed!Next

LEMMA SenderFeeds ==
    ASSUME TypeInv, SnifferInv, nus_send_thread PROVE [Feed!Next]_(Feed!vars)
<1>1. CASE LockRecords
  <2>1. Passed = {} /\ Passed' = {}
    BY <1>1, AsleepNobodyPassed DEF LockRecords, Passed
  <2> QED BY <1>1, <2>1, NothingFed DEF LockRecords, env
<1>2. CASE SendRecord /\ ~(sender.passed < Len(node_records) /\ CanSend)
  <2>1. sender' = [sender EXCEPT !.at = "eow"]
        /\ UNCHANGED <<source, forwarded, node_records>>
    BY <1>2 DEF SendRecord, env
  <2>2. Passed' = Passed
    BY <2>1, TypeParts DEF Passed, WindowOK
  <2> QED BY <2>1, <2>2, NothingFed
<1>3. CASE SendRecord /\ sender.passed < Len(node_records) /\ CanSend
  BY <1>3, TurnFeeds
<1>4. CASE EndWindow
  <2>1. Passed' = {}
    BY <1>4 DEF EndWindow, Passed
  <2> QED BY <1>4, <2>1 DEF EndWindow, env, Feed!Next, Feed!EndBurst
<1> QED BY <1>1, <1>2, <1>3, <1>4, Zenon DEF nus_send_thread

LEMMA FeedStep ==
    ASSUME TypeInv, SnifferInv, [Next]_vars PROVE [Feed!Next]_(Feed!vars)
<1>1. CASE Mesh
  BY <1>1, MeshFeeds
<1>2. CASE nus_send_thread
  BY <1>2, SenderFeeds
<1>3. CASE StoreRecord
  <2>1. sender.passed = 0 /\ UNCHANGED sender
    BY <1>3, TypeParts DEF StoreRecord, WindowOK
  <2>2. Passed = {} /\ Passed' = {}
    BY <2>1 DEF Passed
  <2> QED BY <1>3, <2>2, NothingFed DEF StoreRecord, env
<1>4. CASE \/ \E p \in air : sniffer_device_found(p)
           \/ \E c \in Commands : on_receive(c)
           \/ TakePacket \/ NextLoop \/ TakeCommand \/ do_broadcast_command
           \/ Link \/ UNCHANGED vars
  <2>1. UNCHANGED <<source, forwarded, node_records, sender>>
    BY <1>4, Zenon
       DEF sniffer_device_found, on_receive, TakePacket, NextLoop, TakeCommand,
           do_broadcast_command, StartBroadcast, StopBroadcast, EndGap, Link, Connected,
           nus_notif_changed, Disconnected, adv_restart_fn, rest, env, vars
  <2> QED BY <2>1, NothingFed, PassedUnchanged
<1> QED BY <1>1, <1>2, <1>3, <1>4, Zenon DEF Next, proc_thread

\* Whatever the sizes of queues and tables, the base node gets each sample at most once,
\* never an older one of a lap after a newer, and one of a node in a burst.
THEOREM Refinement == Spec => ImplementsNewsFeed
BY TypeInit, TypeNext, SnifferInvariant, FeedInit, FeedStep, PTL
   DEF Spec, ImplementsNewsFeed, Feed!Spec

=============================================================================
