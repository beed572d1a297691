--------------------------- MODULE BaseNodeProofs ---------------------------
(***************************************************************************)
(* Proofs about BaseNode, for every set of nodes and readings, every size  *)
(* of the buffer, the queue and the records, and every set of commands.    *)
(***************************************************************************)
EXTENDS BaseNode, TLAPS

-----------------------------------------------------------------------------
(* The link.                                                               *)

\* The callbacks, the scan restart and the shell agree on whether there is a
\* connection, for every outcome of every call into the stack.
THEOREM LinkCorrect == Spec => []LinkConsistent
<1>1. Init => LinkConsistent
  BY DEF Init, LinkConsistent
<1>2. LinkConsistent /\ [Next]_vars => LinkConsistent'
  <2> SUFFICES ASSUME LinkConsistent, [Next]_vars PROVE LinkConsistent'
    OBVIOUS
  <2> USE DEF LinkConsistent
  <2>1. CASE scan_restart_fn
    BY <2>1 DEF scan_restart_fn, start_scan
  <2>8. CASE device_found
    BY <2>8 DEF device_found, start_scan
  <2>9. CASE ConnectFailed
    BY <2>9 DEF ConnectFailed, start_scan
  <2>2. CASE Connected
    BY <2>2 DEF Connected
  <2>3. CASE discover_func
    BY <2>3 DEF discover_func
  <2>4. CASE rx_discover_func
    BY <2>4 DEF rx_discover_func
  <2>5. CASE Disconnected
    BY <2>5 DEF Disconnected
  <2>6. CASE UNCHANGED link
    BY <2>6 DEF link
  <2>7. ReceiveRecord \/ notify_work_fn \/ EnterCommand \/ (ShellStep /\ ~WriteFaults)
           \/ buzzer_thread \/ UNCHANGED vars => UNCHANGED link
    BY DEF ReceiveRecord, notify_func, notify_work_fn, StoreRecord, CloseWindow,
           EnterCommand, ShellStep, CheckLink, WriteCommand, StopBuzzer,
           air_quality_reset, nus_central_reset_classification, buzzer_thread, vars
  <2>10. CASE WriteFaults
    BY <2>10 DEF WriteFaults, Restart
  <2>. QED
    BY <2>1, <2>2, <2>3, <2>4, <2>5, <2>6, <2>7, <2>8, <2>9, <2>10 DEF Next, LinkStep
<1>. QED
  BY <1>1, <1>2, PTL DEF Spec

-----------------------------------------------------------------------------
(* The window buffer.                                                      *)

\* What adding rec to buf makes of it, entry by entry.
AddedTo(buf, rec, new) ==
    /\ new \in Seq(Record) /\ Len(buf) <= Len(new) /\ Len(new) <= NODE_BUFFER_MAX
    /\ \A i \in DOMAIN buf :
          i \in DOMAIN new /\ new[i] = IF buf[i].id = rec.id THEN rec ELSE buf[i]
    /\ \A i \in DOMAIN new : i \notin DOMAIN buf =>
          i = Len(buf) + 1 /\ new[i] = rec /\ \A j \in DOMAIN buf : buf[j].id # rec.id
    /\ (\E i \in DOMAIN new : new[i] = rec) \/ Len(new) = NODE_BUFFER_MAX

\* node_buffer_add overwrites or appends, and leaves a full buffer alone.
LEMMA AddFacts ==
    ASSUME NEW buf \in Seq(Record), Len(buf) <= NODE_BUFFER_MAX, NEW rec \in Record
    PROVE  AddedTo(buf, rec, node_buffer_add(buf, rec))
<1> DEFINE new == node_buffer_add(buf, rec)
<1> USE BaseNodeAssumption
<1>0. Len(buf) \in Nat /\ DOMAIN buf = 1 .. Len(buf) /\ \A i \in DOMAIN buf : buf[i] \in Record
  OBVIOUS
<1>1. CASE \E i \in DOMAIN buf : buf[i].id = rec.id
  <2>1. new = [i \in DOMAIN buf |-> IF buf[i].id = rec.id THEN rec ELSE buf[i]]
    BY <1>1 DEF node_buffer_add
  <2>2. new \in Seq(Record) /\ Len(new) = Len(buf) /\ DOMAIN new = DOMAIN buf
    BY <1>0, <2>1
  <2>3. \A i \in DOMAIN new : new[i] = IF buf[i].id = rec.id THEN rec ELSE buf[i]
    BY <2>1
  <2>4. \E i \in DOMAIN new : new[i] = rec
    BY <1>1, <2>1, <2>2
  <2>5. \A i \in DOMAIN buf :
           i \in DOMAIN new /\ new[i] = IF buf[i].id = rec.id THEN rec ELSE buf[i]
    BY <2>2, <2>3
  <2>6. \A i \in DOMAIN new : i \in DOMAIN buf
    BY <2>2
  <2>7. Len(new) <= NODE_BUFFER_MAX /\ Len(buf) <= Len(new)
    BY <1>0, <2>2
  <2>. QED
    BY <2>2, <2>4, <2>5, <2>6, <2>7, Zenon DEF AddedTo
<1>2. CASE ~(\E i \in DOMAIN buf : buf[i].id = rec.id) /\ Len(buf) < NODE_BUFFER_MAX
  <2>1. new = Append(buf, rec)
    BY <1>2 DEF node_buffer_add
  <2>2. /\ new \in Seq(Record) /\ Len(new) = Len(buf) + 1
        /\ DOMAIN new = 1 .. Len(buf) + 1
        /\ new[Len(buf) + 1] = rec
        /\ \A i \in DOMAIN buf : new[i] = buf[i]
    BY <1>0, <2>1
  <2>3. AddedTo(buf, rec, new)
    BY <1>0, <1>2, <2>2 DEF AddedTo
  <2>. QED
    BY <2>3
<1>3. CASE ~(\E i \in DOMAIN buf : buf[i].id = rec.id) /\ ~(Len(buf) < NODE_BUFFER_MAX)
  BY <1>0, <1>3 DEF node_buffer_add, AddedTo
<1>. QED
  BY <1>1, <1>2, <1>3

WindowType ==
    /\ buffer \in Seq(Record) /\ Len(buffer) <= NODE_BUFFER_MAX
    /\ pending_rec \in Record \cup {EowRecord, NoRecord}

LEMMA PendingIsRecord ==
    ASSUME pending_rec \in Record \cup {EowRecord, NoRecord}, pending_rec.id \in Nodes
    PROVE  pending_rec \in Record
BY BaseNodeAssumption DEF EowRecord, NoRecord

LEMMA ReceivedType ==
    ASSUME ReceiveRecord, pending_rec \in Record \cup {EowRecord, NoRecord}
    PROVE  pending_rec' \in Record \cup {EowRecord, NoRecord}
<1>1. \A q \in Readings : q.eco2 \in Level /\ q.tvoc \in Level
  BY BaseNodeAssumption DEF Quality
<1>. QED
  BY <1>1 DEF ReceiveRecord, notify_func, Record

LEMMA WindowTypeStep == WindowType /\ [Next]_vars => WindowType'
<1> SUFFICES ASSUME WindowType, [Next]_vars PROVE WindowType'
  OBVIOUS
<1>1. CASE StoreRecord
  <2>1. AddedTo(buffer, pending_rec, buffer')
    BY <1>1, AddFacts, PendingIsRecord DEF StoreRecord, WindowType
  <2>. QED
    BY <1>1, <2>1 DEF StoreRecord, WindowType, AddedTo
<1>2. CASE CloseWindow
  <2>1. <<>> \in Seq(Record) /\ Len(<<>>) = 0
    OBVIOUS
  <2>. QED
    BY <1>2, <2>1, BaseNodeAssumption DEF CloseWindow, WindowType
<1>3. CASE ReceiveRecord
  <2>1. UNCHANGED buffer
    BY <1>3 DEF ReceiveRecord, notify_func, window
  <2>. QED
    BY <1>3, <2>1, ReceivedType DEF WindowType
<1>4. LinkStep \/ EnterCommand \/ (ShellStep /\ ~WriteFaults) \/ buzzer_thread
         \/ UNCHANGED vars => UNCHANGED <<buffer, pending_rec>>
  BY DEF LinkStep, scan_restart_fn, device_found, ConnectFailed, Connected, discover_func,
         rx_discover_func, Disconnected, EnterCommand, ShellStep, CheckLink, WriteCommand,
         StopBuzzer, air_quality_reset, nus_central_reset_classification, buzzer_thread,
         vars, window
<1>5. CASE UNCHANGED <<buffer, pending_rec>>
  BY <1>5 DEF WindowType
<1>6. CASE WriteFaults
  <2>1. <<>> \in Seq(Record) /\ Len(<<>>) = 0
    OBVIOUS
  <2>. QED
    BY <1>6, <2>1, BaseNodeAssumption DEF WriteFaults, Restart, WindowType
<1>. QED
  BY <1>1, <1>2, <1>3, <1>4, <1>5, <1>6 DEF Next, notify_work_fn

\* Whatever records arrive in whatever order, the buffer the filter is fed from
\* holds what was printed since the last end of a window.
THEOREM WindowCorrect == Spec => []BufferIsWindow
<1>1. Init => WindowType /\ BufferIsWindow
  BY BaseNodeAssumption DEF Init, WindowType, BufferIsWindow
<1>2. WindowType /\ BufferIsWindow /\ [Next]_vars => (WindowType /\ BufferIsWindow)'
  <2> SUFFICES ASSUME WindowType, BufferIsWindow, [Next]_vars PROVE BufferIsWindow'
    BY WindowTypeStep
  <2>1. CASE StoreRecord
    <3> DEFINE rec == pending_rec
    <3>0. /\ buffer \in Seq(Record) /\ Len(buffer) <= NODE_BUFFER_MAX /\ rec \in Record
          /\ buffer' = node_buffer_add(buffer, rec)
          /\ reported' = {r \in reported : r.id # rec.id} \cup {rec}
      BY <2>1, PendingIsRecord DEF StoreRecord, WindowType
    <3> HIDE DEF rec
    <3>a. AddedTo(buffer, rec, buffer')
      BY <3>0, AddFacts
    <3>1. /\ \A i \in DOMAIN buffer :
                i \in DOMAIN buffer'
                /\ buffer'[i] = IF buffer[i].id = rec.id THEN rec ELSE buffer[i]
          /\ \A i \in DOMAIN buffer' : i \notin DOMAIN buffer =>
                i = Len(buffer) + 1 /\ buffer'[i] = rec
                /\ \A j \in DOMAIN buffer : buffer[j].id # rec.id
          /\ (\E i \in DOMAIN buffer' : buffer'[i] = rec) \/ Len(buffer') = NODE_BUFFER_MAX
          /\ Len(buffer) <= Len(buffer') /\ Len(buffer') <= NODE_BUFFER_MAX
      BY <3>a DEF AddedTo
    <3>2. \A i \in DOMAIN buffer' : buffer'[i] \in reported'
      BY <3>0, <3>1 DEF BufferIsWindow
    <3>3. \A i, j \in DOMAIN buffer' : buffer'[i].id = buffer'[j].id => i = j
      BY <3>1 DEF BufferIsWindow
    <3>4. \/ \A r \in reported' : \E i \in DOMAIN buffer' : buffer'[i] = r
          \/ Len(buffer') = NODE_BUFFER_MAX
      <4>1. CASE Len(buffer) = NODE_BUFFER_MAX
        <5>1. Len(buffer) \in Nat /\ Len(buffer') \in Nat
          BY <3>0, WindowTypeStep DEF WindowType
        <5>. QED
          BY <3>1, <4>1, <5>1, BaseNodeAssumption
      <4>2. CASE \A r \in reported : \E i \in DOMAIN buffer : buffer[i] = r
        BY <3>0, <3>1, <4>2
      <4>. QED
        BY <4>1, <4>2 DEF BufferIsWindow
    <3>. QED
      BY <3>2, <3>3, <3>4 DEF BufferIsWindow
  <2>2. CASE CloseWindow
    BY <2>2 DEF CloseWindow, BufferIsWindow
  <2>3. LinkStep \/ ReceiveRecord \/ EnterCommand \/ (ShellStep /\ ~WriteFaults)
           \/ buzzer_thread \/ UNCHANGED vars => UNCHANGED window
    BY DEF LinkStep, scan_restart_fn, device_found, ConnectFailed, Connected,
           discover_func, rx_discover_func, Disconnected, ReceiveRecord, notify_func,
           EnterCommand, ShellStep, CheckLink, WriteCommand, StopBuzzer,
           air_quality_reset, nus_central_reset_classification, buzzer_thread, vars
  <2>4. CASE UNCHANGED window
    BY <2>4 DEF window, BufferIsWindow
  <2>5. CASE WriteFaults
    BY <2>5 DEF WriteFaults, Restart, BufferIsWindow
  <2>. QED
    BY <2>1, <2>2, <2>3, <2>4, <2>5 DEF Next, notify_work_fn
<1>. QED
  BY <1>1, <1>2, PTL DEF Spec

-----------------------------------------------------------------------------
(***************************************************************************)
(* The buzzer. Every step of the node is, for the buzzer, a step of its    *)
(* thread, a request or nothing: BaseNode implements Buzzer, and what is   *)
(* proved of Buzzer holds in it.                                           *)
(***************************************************************************)
BP == INSTANCE BuzzerProofs

\* For the buzzer, what a changed classification asks for is a request.
LEMMA AnnounceIsRequest ==
    ASSUME NEW cls, bz' = Announce(bz, cls)
    PROVE  Bz!Request
BY DEF Announce, Bz!Request

LEMMA BuzzerStep == [Next]_vars => [Bz!Next]_bz
<1> SUFFICES ASSUME Next PROVE Bz!Next \/ UNCHANGED bz
  BY DEF vars
<1>1. CASE buzzer_thread
  BY <1>1 DEF buzzer_thread, Bz!Next
<1>2. CASE Disconnected \/ StopBuzzer
  BY <1>2 DEF Disconnected, StopBuzzer, Bz!Next, Bz!Request
<1>3. CASE CloseWindow
  BY <1>3, AnnounceIsRequest DEF CloseWindow, Bz!Next
<1>4. CASE WriteFaults
  BY <1>4 DEF WriteFaults, Restart, Bz!Next
<1>5. ASSUME ~Disconnected, ~StopBuzzer, ~CloseWindow, ~buzzer_thread, ~WriteFaults
      PROVE  UNCHANGED bz
  BY <1>5 DEF Next, LinkStep, scan_restart_fn, device_found, ConnectFailed, Connected,
              discover_func, rx_discover_func, ReceiveRecord, notify_func, notify_work_fn,
              StoreRecord, EnterCommand, ShellStep, CheckLink, WriteCommand,
              air_quality_reset, nus_central_reset_classification
<1>. QED
  BY <1>1, <1>2, <1>3, <1>4, <1>5

\* However windows, disconnections, resets and shell commands interleave, the
\* buzzer sees only what module Buzzer allows its callers.
THEOREM Refinement == Spec => ImplementsBuzzer
<1>1. Init => Bz!Init
  BY DEF Init
<1>. QED
  BY <1>1, BuzzerStep, PTL DEF Spec, ImplementsBuzzer, Bz!Spec

\* Buzzer as BuzzerProofs names it.
LEMMA SameBuzzer ==
    /\ BP!BuzzerAssumption
    /\ Bz!Init => BP!Init
    /\ [Bz!Next]_bz => [BP!Next]_bz
<1>1. BP!BuzzerAssumption
  BY BaseNodeAssumption DEF BP!BuzzerAssumption
<1>2. Bz!Init => BP!Init
  BY DEF Bz!Init, BP!Init, Bz!InitialBuzzer, BP!InitialBuzzer
<1>3. \A b, c : Bz!Put(b, c) = BP!Put(b, c)
  BY DEF Bz!Put, BP!Put
<1>4. \A b : Bz!SilenceAndGet(b) = BP!SilenceAndGet(b)
  BY DEF Bz!SilenceAndGet, BP!SilenceAndGet
<1>5. Bz!Request => BP!Request
  BY <1>3 DEF Bz!Request, BP!Request, Bz!buzzer_stop, BP!buzzer_stop, Bz!buzzer_poor,
              BP!buzzer_poor, Bz!buzzer_warning, BP!buzzer_warning
<1>6. Bz!buzzer_thread => BP!buzzer_thread
  BY <1>4 DEF Bz!buzzer_thread, BP!buzzer_thread, Bz!RunWarning, BP!RunWarning,
              Bz!RunPoor, BP!RunPoor, Bz!RunStop, BP!RunStop, Bz!EndBeep, BP!EndBeep,
              Bz!EndGap, BP!EndGap, Bz!PollPoor, BP!PollPoor, Bz!LeavePoor, BP!LeavePoor
<1>7. Bz!Reset => BP!Reset
  BY DEF Bz!Reset, BP!Reset, Bz!InitialBuzzer, BP!InitialBuzzer
<1>. QED
  BY <1>1, <1>2, <1>5, <1>6, <1>7 DEF Bz!Next, BP!Next

LEMMA BuzzerInvariant == Spec => []BP!IInv
<1>1. Init => BP!Init
  BY SameBuzzer DEF Init
<1>2. [Next]_vars => [BP!Next]_bz
  BY BuzzerStep, SameBuzzer
<1>3. BP!Spec => []BP!IInv
  BY SameBuzzer, BP!Invariant
<1>. QED
  BY <1>1, <1>2, <1>3, PTL DEF Spec, BP!Spec

-----------------------------------------------------------------------------
(* Type correctness.                                                       *)

NodeType ==
    /\ default_conn \in {"null", "creating", "up"}
    /\ is_connected \in BOOLEAN
    /\ nus_rx_handle \in {0, 1}
    /\ scanning \in BOOLEAN /\ scan_restart \in BOOLEAN
    /\ discovery \in {"none", "service", "tx", "ccc", "subscribed"}
    /\ rx_discovery \in BOOLEAN
    /\ est \in Quality /\ last \in Quality
    /\ shell \in [cmd : ShellCommands, at : ShellAt] \cup {Idle}
    /\ reported \subseteq Record
    /\ missed \in BOOLEAN

LEMMA TypeParts ==
    /\ BP!IInv => Bz!TypeOK
    /\ TypeOK <=> NodeType /\ WindowType /\ Bz!TypeOK
<1>1. BP!IInv => Bz!TypeOK
  BY DEF BP!IInv, BP!TypeOK, Bz!TypeOK, BP!BuzzerState, Bz!BuzzerState, BP!ThreadAt,
         Bz!ThreadAt, BP!Command, Bz!Command
<1>2. TypeOK <=> NodeType /\ WindowType /\ Bz!TypeOK
  BY DEF TypeOK, NodeType, WindowType
<1>. QED
  BY <1>1, <1>2

LEMMA EstimateType ==
    ASSUME NEW e, NEW buf, NEW e2 \in air_quality_update(e, buf)
    PROVE  e2 \in Quality
BY DEF air_quality_update, Hull, Quality

LEMMA NodeTypeStep == NodeType /\ WindowType /\ [Next]_vars => NodeType'
<1> SUFFICES ASSUME NodeType, WindowType, [Next]_vars PROVE NodeType'
  OBVIOUS
<1> USE BaseNodeAssumption DEF NodeType
<1>0. AllGood \in Quality /\ \A l \in Quality : [l EXCEPT !.eco2 = GOOD] \in Quality
         /\ [l EXCEPT !.tvoc = GOOD] \in Quality
  BY DEF AllGood, Quality, Level
<1>1. CASE scan_restart_fn
  BY <1>1 DEF scan_restart_fn, start_scan, window
<1>2. CASE device_found
  BY <1>2 DEF device_found, start_scan, window
<1>3. CASE ConnectFailed
  BY <1>3 DEF ConnectFailed, start_scan, window
<1>4. CASE Connected
  BY <1>4 DEF Connected, window
<1>5. CASE discover_func
  <2>1. discovery' \in {"none", "service", "tx", "ccc", "subscribed"}
    BY <1>5 DEF discover_func, Stage
  <2>. QED
    BY <1>5, <2>1 DEF discover_func, window
<1>6. CASE rx_discover_func
  BY <1>6 DEF rx_discover_func, window
<1>7. CASE Disconnected
  BY <1>0, <1>7 DEF Disconnected, window
<1>8. CASE ReceiveRecord
  <2>1. missed' \in BOOLEAN
    BY <1>8 DEF ReceiveRecord, notify_func
  <2>. QED
    BY <1>8, <2>1 DEF ReceiveRecord, notify_func, window, link
<1>9. CASE StoreRecord
  <2>1. reported' \subseteq Record
    BY <1>9, PendingIsRecord DEF StoreRecord, WindowType
  <2>. QED
    BY <1>9, <2>1 DEF StoreRecord, link
<1>10. CASE CloseWindow
  <2>1. est' \in Quality /\ last' = est'
    BY <1>10, EstimateType DEF CloseWindow
  <2>. QED
    BY <1>10, <2>1 DEF CloseWindow, link
<1>11. CASE EnterCommand
  BY <1>11 DEF EnterCommand, ShellAt, link, window
<1>12. ASSUME NEW place \in ShellAt, shell.at # "idle", Goto(place)
       PROVE  shell' \in [cmd : ShellCommands, at : ShellAt]
  BY <1>12 DEF Goto, Idle
<1>13. CASE CheckLink
  <2>1. shell' \in [cmd : ShellCommands, at : ShellAt] \cup {Idle}
    BY <1>12, <1>13 DEF CheckLink, ShellAt
  <2>. QED
    BY <1>13, <2>1 DEF CheckLink, link, window
<1>14. CASE WriteCommand
  <2>1. shell' \in [cmd : ShellCommands, at : ShellAt] \cup {Idle}
    BY <1>12, <1>14 DEF WriteCommand, ShellAt
  <2>. QED
    BY <1>14, <2>1 DEF WriteCommand, link, window
<1>15. CASE StopBuzzer
  <2>1. shell' \in [cmd : ShellCommands, at : ShellAt] \cup {Idle}
    BY <1>12, <1>15 DEF StopBuzzer, ShellAt
  <2>. QED
    BY <1>15, <2>1 DEF StopBuzzer, link, window
<1>16. CASE air_quality_reset
  <2>1. shell' \in [cmd : ShellCommands, at : ShellAt] \cup {Idle}
    BY <1>12, <1>16 DEF air_quality_reset, ShellAt
  <2>2. est' \in Quality
    BY <1>0, <1>16 DEF air_quality_reset
  <2>. QED
    BY <1>16, <2>1, <2>2 DEF air_quality_reset, link, window
<1>17. CASE nus_central_reset_classification
  <2>1. shell' \in [cmd : ShellCommands, at : ShellAt] \cup {Idle}
    BY <1>12, <1>17 DEF nus_central_reset_classification, ShellAt
  <2>2. last' \in Quality
    BY <1>0, <1>17 DEF nus_central_reset_classification
  <2>. QED
    BY <1>17, <2>1, <2>2 DEF nus_central_reset_classification, link, window
<1>18. CASE buzzer_thread \/ UNCHANGED vars
  BY <1>18 DEF buzzer_thread, vars, link, window
<1>19. CASE WriteFaults
  <2>1. scanning' \in BOOLEAN /\ missed' \in BOOLEAN /\ reported' = {}
    BY <1>19 DEF WriteFaults, Restart, start_scan
  <2>. QED
    BY <1>0, <1>19, <2>1 DEF WriteFaults, Restart
<1>. QED
  BY <1>1, <1>2, <1>3, <1>4, <1>5, <1>6, <1>7, <1>8, <1>9, <1>10, <1>11, <1>13, <1>14,
     <1>15, <1>16, <1>17, <1>18, <1>19
     DEF Next, LinkStep, notify_work_fn, ShellStep

LEMMA NodeInvariant == Spec => [](NodeType /\ WindowType /\ BP!IInv)
<1>1. Init => NodeType /\ WindowType
  <2> SUFFICES ASSUME Init PROVE NodeType /\ WindowType
    OBVIOUS
  <2>1. AllGood \in Quality
    BY DEF AllGood, Quality, Level
  <2>2. scanning \in BOOLEAN
    BY BaseNodeAssumption DEF Init
  <2>3. WindowType
    BY BaseNodeAssumption DEF Init, WindowType
  <2>. QED
    BY <2>1, <2>2, <2>3 DEF Init, NodeType
<1>2. NodeType /\ WindowType /\ [Next]_vars => (NodeType /\ WindowType)'
  BY NodeTypeStep, WindowTypeStep
<1>. QED
  BY <1>1, <1>2, BuzzerInvariant, PTL DEF Spec

\* Every variable keeps its shape and the buffer and the queue their bounds.
THEOREM TypeCorrect == Spec => []TypeOK
<1>1. NodeType /\ WindowType /\ BP!IInv => TypeOK
  BY TypeParts
<1>. QED
  BY <1>1, NodeInvariant, PTL

-----------------------------------------------------------------------------
(***************************************************************************)
(* The alarm. PoorIsSounded is not inductive: sleep stops the buzzer and   *)
(* forgets the two classes one after the other, and a window that ends in  *)
(* between may find the air poor again. What makes it so is that after the *)
(* first class is forgotten, only such a window can have made it poor, and *)
(* that window demanded the alarm.                                         *)
(***************************************************************************)
AlarmInv ==
    ~bz.lost => /\ ~MidReset /\ PoorAir => BP!Demand(bz)
                /\ shell.at = "forgetTvoc" /\ last.eco2 = POOR => BP!Demand(bz)

LEMMA SameDemand ==
    /\ Bz!Demand(bz) <=> BP!Demand(bz)
    /\ \A b : /\ Bz!buzzer_stop(b) = BP!Put(b, "STOP")
              /\ Bz!buzzer_poor(b) = BP!Put(b, "POOR")
              /\ Bz!buzzer_warning(b) = BP!Put(b, "WARNING")
BY DEF Bz!Demand, BP!Demand, Bz!Decides, BP!Decides, Bz!Put, BP!Put, Bz!buzzer_stop,
       Bz!buzzer_poor, Bz!buzzer_warning

\* A single command that is not lost decides the demand.
LEMMA PutDecides ==
    ASSUME BP!IInv, NEW c \in {"STOP", "POOR"}, NEW s, s = BP!Put(bz, c), ~s.lost
    PROVE  ~bz.lost /\ (BP!Demand(s) <=> c = "POOR")
<1>1. bz \in BP!BuzzerState /\ (bz.at = "pend" => bz.msgq = <<>>) /\ c \in BP!Command
  BY DEF BP!IInv, BP!TypeOK, BP!ToneFollowsThread, BP!Command
<1>. QED
  BY <1>1, SameBuzzer, BP!PutDemand, BP!PutLost

\* What a changed classification asks for, if not lost, is the alarm exactly
\* when the air is poor.
LEMMA AnnounceDecides ==
    ASSUME BP!IInv, NEW cls, NEW s, s = Announce(bz, cls), ~s.lost
    PROVE  ~bz.lost /\ (BP!Demand(s) <=> POOR \in {cls.eco2, cls.tvoc})
<1>1. CASE POOR \in {cls.eco2, cls.tvoc}
  <2>1. s = BP!Put(bz, "POOR")
    BY <1>1, SameDemand DEF Announce
  <2>. QED
    BY <1>1, <2>1, PutDecides
<1>2. CASE POOR \notin {cls.eco2, cls.tvoc} /\ WARNING \in {cls.eco2, cls.tvoc}
  <2> DEFINE t == BP!Put(bz, "STOP")
  <2>1. s = BP!Put(t, "WARNING")
    BY <1>2, SameDemand DEF Announce
  <2>2. t \in BP!BuzzerState /\ (t.at = "pend" => t.msgq = <<>>)
    BY SameBuzzer, BP!PutIInv
       DEF BP!IInv, BP!TypeOK, BP!BeepsCounted, BP!ToneFollowsThread, BP!Command
  <2> HIDE DEF t
  <2>3. ~t.lost
    BY <2>1, <2>2, SameBuzzer, BP!PutLost
  <2>4. BP!Demand(s) <=> BP!Demand(t)
    BY <2>1, <2>2, SameBuzzer, BP!PutDemand DEF BP!Command
  <2>5. ~bz.lost /\ ~BP!Demand(t)
    BY <2>3, PutDecides DEF t
  <2>. QED
    BY <1>2, <2>4, <2>5
<1>3. CASE POOR \notin {cls.eco2, cls.tvoc} /\ WARNING \notin {cls.eco2, cls.tvoc}
  <2>1. s = BP!Put(bz, "STOP")
    BY <1>3, SameDemand DEF Announce
  <2>. QED
    BY <1>3, <2>1, PutDecides
<1>. QED
  BY <1>1, <1>2, <1>3

\* The thread changes neither the demand nor what was lost.
LEMMA ThreadKeeps ==
    ASSUME BP!IInv, buzzer_thread
    PROVE  (BP!Demand(bz') <=> BP!Demand(bz)) /\ bz'.lost = bz.lost
<1>1. BP!buzzer_thread
  BY DEF buzzer_thread, Bz!buzzer_thread, BP!buzzer_thread, Bz!RunWarning, BP!RunWarning,
         Bz!RunPoor, BP!RunPoor, Bz!RunStop, BP!RunStop, Bz!EndBeep, BP!EndBeep,
         Bz!EndGap, BP!EndGap, Bz!PollPoor, BP!PollPoor, Bz!LeavePoor, BP!LeavePoor,
         Bz!SilenceAndGet, BP!SilenceAndGet
<1>2. bz \in BP!BuzzerState
  BY DEF BP!IInv, BP!TypeOK
<1>. QED
  BY <1>1, <1>2, SameBuzzer, BP!ThreadStepKeepsDemand, BP!ThreadLost

LEMMA AlarmStep ==
    ASSUME NodeType, BP!IInv, AlarmInv, [Next]_vars
    PROVE  AlarmInv'
<1> SUFFICES ASSUME ~bz'.lost
             PROVE  /\ ~MidReset' /\ PoorAir' => BP!Demand(bz')
                    /\ shell'.at = "forgetTvoc" /\ last'.eco2 = POOR => BP!Demand(bz')
  BY DEF AlarmInv, MidReset, PoorAir
<1>1. CASE buzzer_thread
  <2>1. UNCHANGED <<shell, last>>
    BY <1>1 DEF buzzer_thread
  <2>. QED
    BY <1>1, <2>1, ThreadKeeps DEF AlarmInv, MidReset, PoorAir
<1>2. CASE Disconnected
  <2>1. last'.eco2 = GOOD /\ last'.tvoc = GOOD
    BY <1>2 DEF Disconnected, AllGood
  <2>. QED
    BY <2>1 DEF PoorAir, GOOD, POOR
<1>3. CASE CloseWindow
  <2>1. /\ last' = est' /\ shell' = shell
        /\ bz' = IF est' # last THEN Announce(bz, est') ELSE bz
    BY <1>3 DEF CloseWindow
  <2>2. CASE est' = last
    BY <2>1, <2>2 DEF AlarmInv, MidReset, PoorAir
  <2>3. CASE est' # last
    <3>1. BP!Demand(bz') <=> POOR \in {last'.eco2, last'.tvoc}
      BY <2>1, <2>3, AnnounceDecides
    <3>. QED
      BY <3>1 DEF PoorAir
  <2>. QED
    BY <2>2, <2>3
<1>4. CASE StopBuzzer
  <2>1. shell'.at = "resetEco2"
    BY <1>4 DEF StopBuzzer, Goto, NodeType, Idle
  <2>. QED
    BY <2>1 DEF MidReset
<1>5. CASE air_quality_reset
  <2>1. shell'.at \in {"resetTvoc", "forgetEco2"}
    BY <1>5 DEF air_quality_reset, Goto, NodeType, Idle
  <2>. QED
    BY <2>1 DEF MidReset
<1>6. CASE nus_central_reset_classification
  <2>1. CASE shell.at = "forgetEco2"
    <3>1. shell'.at = "forgetTvoc" /\ last'.eco2 = GOOD
      BY <1>6, <2>1 DEF nus_central_reset_classification, Goto, NodeType, Idle, Quality
    <3>. QED
      BY <3>1 DEF MidReset, GOOD, POOR
  <2>2. CASE shell.at = "forgetTvoc"
    <3>1. /\ shell'.at = "idle" /\ bz' = bz
          /\ last'.eco2 = last.eco2 /\ last'.tvoc = GOOD
      BY <1>6, <2>2 DEF nus_central_reset_classification, Idle, NodeType, Quality
    <3>. QED
      BY <2>2, <3>1 DEF AlarmInv, PoorAir, GOOD, POOR
  <2>. QED
    BY <1>6, <2>1, <2>2 DEF nus_central_reset_classification
<1>7. CASE EnterCommand \/ CheckLink \/ WriteCommand
  <2>1. /\ shell.at \in {"idle", "check", "write"}
        /\ shell'.at \in {"idle", "check", "write", "stop"}
        /\ last' = last /\ bz' = bz
    BY <1>7 DEF EnterCommand, CheckLink, WriteCommand, Goto, NodeType, Idle
  <2>. QED
    BY <2>1 DEF AlarmInv, MidReset, PoorAir
<1>8. ASSUME UNCHANGED <<shell, last, bz>> PROVE AlarmInv'
  BY <1>8, Zenon DEF AlarmInv, MidReset, PoorAir, BP!Demand, BP!Decides
<1>9. (LinkStep /\ ~Disconnected) \/ ReceiveRecord \/ StoreRecord \/ UNCHANGED vars
         => UNCHANGED <<shell, last, bz>>
  BY DEF LinkStep, scan_restart_fn, device_found, ConnectFailed, Connected, discover_func,
         rx_discover_func, ReceiveRecord, notify_func, StoreRecord, vars
<1>10. CASE WriteFaults
  <2>1. shell'.at = "idle" /\ last'.eco2 = GOOD /\ last'.tvoc = GOOD
    BY <1>10 DEF WriteFaults, Restart, AllGood, Idle
  <2>. QED
    BY <2>1 DEF PoorAir, GOOD, POOR
<1>. QED
  BY <1>1, <1>2, <1>3, <1>4, <1>5, <1>6, <1>7, <1>8, <1>9, <1>10
     DEF Next, notify_work_fn, ShellStep, AlarmInv, MidReset, PoorAir

\* Poor air has the alarm demanded, however windows, disconnections and sleep
\* interleave, as long as the buzzer's queue has lost no command.
THEOREM AlarmRaised == Spec => []PoorIsSounded
<1>1. Init => AlarmInv
  BY DEF Init, AlarmInv, PoorAir, AllGood, Idle, GOOD, POOR
<1>2. AlarmInv => PoorIsSounded
  BY SameDemand DEF AlarmInv, PoorIsSounded
<1>3. NodeType /\ BP!IInv /\ AlarmInv /\ [Next]_vars => AlarmInv'
  BY AlarmStep
<1>. QED
  BY <1>1, <1>2, <1>3, NodeInvariant, PTL DEF Spec

-----------------------------------------------------------------------------
(***************************************************************************)
(* Where the user never types sleep, only windows and disconnections touch *)
(* the classification and the buzzer, and each of them does both at once.  *)
(***************************************************************************)
ExactInv ==
    /\ shell.at \in {"idle", "check", "write"} /\ shell.cmd # "sleep"
    /\ ~bz.lost => (BP!Demand(bz) <=> PoorAir)

\* A node that has just started.
LEMMA ExactStart ==
    ASSUME NEW s, s = Idle, NEW l, l = AllGood, NEW b, b = Bz!InitialBuzzer
    PROVE  /\ s.at = "idle" /\ s.cmd = "none"
           /\ POOR \notin {l.eco2, l.tvoc}
           /\ ~BP!Demand(b)
<1>1. b.at = "pend" /\ b.msgq = <<>>
  BY DEF Bz!InitialBuzzer
<1>2. ~BP!Demand(b)
  BY <1>1 DEF BP!Demand, BP!Decides
<1>. QED
  BY <1>2 DEF AllGood, Idle, GOOD, POOR

LEMMA ExactStep ==
    ASSUME "sleep" \notin ShellCommands, NodeType, BP!IInv, ExactInv, [Next]_vars
    PROVE  ExactInv'
<1>0. /\ shell.at \in {"idle", "check", "write"} /\ shell.cmd # "sleep"
      /\ ~bz.lost => (BP!Demand(bz) <=> PoorAir)
  BY DEF ExactInv
<1>1. ASSUME UNCHANGED <<last, bz>>
      PROVE  ~bz'.lost => (BP!Demand(bz') <=> PoorAir')
  BY <1>0, <1>1, Zenon DEF PoorAir, BP!Demand, BP!Decides
<1>2. ASSUME UNCHANGED shell, ~bz'.lost => (BP!Demand(bz') <=> PoorAir')
      PROVE  ExactInv'
  BY <1>0, <1>2, Zenon DEF ExactInv, PoorAir, BP!Demand, BP!Decides
<1>3. CASE buzzer_thread
  <2>1. UNCHANGED <<shell, last>>
    BY <1>3 DEF buzzer_thread
  <2>2. (BP!Demand(bz') <=> BP!Demand(bz)) /\ bz'.lost = bz.lost
    BY <1>3, ThreadKeeps
  <2>3. PoorAir' <=> PoorAir
    BY <2>1 DEF PoorAir
  <2>. QED
    BY <1>0, <1>2, <2>1, <2>2, <2>3
<1>4. CASE Disconnected
  <2>1. /\ last'.eco2 = GOOD /\ last'.tvoc = GOOD /\ bz' = BP!Put(bz, "STOP")
        /\ UNCHANGED shell
    BY <1>4, SameDemand DEF Disconnected, AllGood
  <2>2. ~bz'.lost => ~BP!Demand(bz')
    BY <2>1, PutDecides
  <2>3. ~PoorAir'
    BY <2>1 DEF PoorAir, GOOD, POOR
  <2>. QED
    BY <1>2, <2>1, <2>2, <2>3
<1>5. CASE CloseWindow
  <2>1. /\ last' = est' /\ shell' = shell
        /\ bz' = IF est' # last THEN Announce(bz, est') ELSE bz
    BY <1>5 DEF CloseWindow
  <2>2. CASE est' = last
    BY <1>1, <1>2, <2>1, <2>2
  <2>3. CASE est' # last
    <3>1. ~bz'.lost => (BP!Demand(bz') <=> POOR \in {last'.eco2, last'.tvoc})
      BY <2>1, <2>3, AnnounceDecides
    <3>2. ~bz'.lost => (BP!Demand(bz') <=> PoorAir')
      BY <3>1 DEF PoorAir
    <3>. QED
      BY <1>2, <2>1, <3>2
  <2>. QED
    BY <2>2, <2>3
<1>6. CASE EnterCommand \/ CheckLink \/ WriteCommand
  <2>1. UNCHANGED <<last, bz>>
    BY <1>6 DEF EnterCommand, CheckLink, WriteCommand
  <2>2. shell'.at \in {"idle", "check", "write"} /\ shell'.cmd # "sleep"
    BY <1>0, <1>6 DEF EnterCommand, CheckLink, WriteCommand, Goto, NodeType, Idle
  <2>3. ~bz'.lost => (BP!Demand(bz') <=> PoorAir')
    BY <1>1, <2>1
  <2>. QED
    BY <2>2, <2>3, Zenon DEF ExactInv, PoorAir, BP!Demand, BP!Decides
<1>7. CASE (LinkStep /\ ~Disconnected) \/ ReceiveRecord \/ StoreRecord \/ UNCHANGED vars
  <2>1. UNCHANGED <<shell, last, bz>>
    BY <1>7 DEF LinkStep, scan_restart_fn, device_found, ConnectFailed, Connected,
                discover_func, rx_discover_func, ReceiveRecord, notify_func, StoreRecord, vars
  <2>. QED
    BY <1>1, <1>2, <2>1
<1>8. ~(StopBuzzer \/ air_quality_reset \/ nus_central_reset_classification)
  BY <1>0 DEF StopBuzzer, air_quality_reset, nus_central_reset_classification
<1>9. CASE WriteFaults
  <2>1. shell' = Idle /\ last' = AllGood /\ bz' = Bz!InitialBuzzer
    BY <1>9 DEF WriteFaults, Restart, Bz!Reset
  <2>2. /\ shell'.at = "idle" /\ shell'.cmd = "none"
        /\ POOR \notin {last'.eco2, last'.tvoc}
        /\ ~BP!Demand(bz')
    BY <2>1, ExactStart
  <2>. QED
    BY <2>2 DEF ExactInv, PoorAir
<1>. QED
  BY <1>3, <1>4, <1>5, <1>6, <1>7, <1>8, <1>9 DEF Next, notify_work_fn, ShellStep

\* If the mesh is never put to sleep, the alarm is demanded exactly while the air is
\* classified as poor, as long as the buzzer's queue has lost no command.
THEOREM AlarmExact ==
    ASSUME "sleep" \notin ShellCommands
    PROVE  Spec => []AlarmMatchesClassification
<1>1. Init => ExactInv
  <2> SUFFICES ASSUME Init PROVE ExactInv
    OBVIOUS
  <2>1. shell = Idle /\ last = AllGood /\ bz = Bz!InitialBuzzer
    BY DEF Init, Bz!Init
  <2>. QED
    BY <2>1, ExactStart DEF ExactInv, PoorAir
<1>2. ExactInv => AlarmMatchesClassification
  BY SameDemand DEF ExactInv, AlarmMatchesClassification
<1>3. NodeType /\ BP!IInv /\ ExactInv /\ [Next]_vars => ExactInv'
  BY ExactStep
<1>. QED
  BY <1>1, <1>2, <1>3, NodeInvariant, PTL DEF Spec

=============================================================================
