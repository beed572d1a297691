-------------------------- MODULE MobileNodeProofs --------------------------
(***************************************************************************)
(* Proofs about MobileNode, for every set of nodes and commands, every     *)
(* size of the queues and tables and every number of repetitions.          *)
(***************************************************************************)
EXTENDS MobileNode, TLAPS

(***************************************************************************)
(* The advertiser. Three parties use it: the base node's connection, the   *)
(* restart work and a command broadcast. What a broadcast does depends on  *)
(* the place of proc_thread, so its shape belongs to the invariant.        *)
(***************************************************************************)
Places == {"adv", "store", "cmd"} \cup Broadcasting
ProcShape == DOMAIN proc = {"at", "raw", "left"} /\ proc.at \in Places

AdvertiserInv ==
    /\ ProcShape
    /\ BroadcastStopsItsOwn
    /\ advertising \in {"off", "conn", "nconn"}

\* The steps of proc_thread that do not broadcast.
Processing == TakePacket \/ StoreRecord \/ NextLoop \/ TakeCommand

\* They stay clear of the advertiser and of the broadcast's places, but for
\* TakeCommand, which begins one.
LEMMA ProcessingStep ==
    ASSUME AdvertiserInv, Processing
    PROVE  /\ UNCHANGED link
           /\ DOMAIN proc' = {"at", "raw", "left"}
           /\ proc'.at \in {"adv", "store", "cmd", "start"}
           /\ proc.at \notin Broadcasting
<1> USE DEF AdvertiserInv, ProcShape, Places, Broadcasting
<1>1. CASE TakePacket
  <2>1. /\ proc.at = "adv"
        /\ UNCHANGED link
        /\ UNCHANGED proc \/ proc' = [proc EXCEPT !.at = "store", !.raw = Head(adv_msgq)]
    BY <1>1 DEF TakePacket
  <2>. QED
    BY <2>1
<1>2. CASE StoreRecord
  BY <1>2 DEF StoreRecord
<1>3. CASE NextLoop
  BY <1>3 DEF NextLoop
<1>4. CASE TakeCommand
  BY <1>4 DEF TakeCommand
<1>. QED
  BY <1>1, <1>2, <1>3, <1>4 DEF Processing

\* Whatever is neither proc_thread nor the link leaves both alone.
LEMMA Elsewhere ==
    ASSUME \/ Mesh \/ nus_send_thread \/ UNCHANGED vars
           \/ \E p \in air : sniffer_device_found(p)
           \/ \E c \in Commands : on_receive(c)
    PROVE  UNCHANGED <<link, proc>>
BY DEF Mesh, Tick, NodeSamples, NodeReboots, sniffer_device_found, on_receive,
       nus_send_thread, LockRecords, SendRecord, EndWindow, vars

LEMMA AdvertiserStep == AdvertiserInv /\ [Next]_vars => AdvertiserInv'
<1> SUFFICES ASSUME AdvertiserInv, [Next]_vars PROVE AdvertiserInv'
  OBVIOUS
<1> USE DEF AdvertiserInv, ProcShape, Places, Broadcasting, BroadcastStopsItsOwn
<1>1. CASE Processing
  BY <1>1, ProcessingStep DEF link
<1>2. CASE StartBroadcast
  BY <1>2 DEF StartBroadcast
<1>3. CASE StopBroadcast
  BY <1>3 DEF StopBroadcast
<1>4. CASE EndGap
  BY <1>4 DEF EndGap
<1>5. CASE Connected
  BY <1>5 DEF Connected, rest
<1>6. CASE nus_notif_changed \/ Disconnected
  BY <1>6 DEF nus_notif_changed, Disconnected, rest
<1>7. CASE adv_restart_fn
  BY <1>7 DEF adv_restart_fn, rest
<1>8. CASE UNCHANGED <<link, proc>>
  BY <1>8 DEF link
<1>. QED
  BY <1>1, <1>2, <1>3, <1>4, <1>5, <1>6, <1>7, <1>8, Elsewhere
     DEF Next, Link, proc_thread, do_broadcast_command, Processing

LEMMA AdvertiserInit == Init => AdvertiserInv
BY DEF Init, AdvertiserInv, ProcShape, Places, Broadcasting, BroadcastStopsItsOwn

LEMMA AdvertiserInvariant == Spec => []AdvertiserInv
BY AdvertiserInit, AdvertiserStep, PTL DEF Spec

\* do_broadcast_command's bt_le_adv_stop never stops the connectable advertising
\* that adv_restart_fn may have started between two repetitions.
THEOREM BroadcasterCorrect == Spec => []BroadcastStopsItsOwn
<1>1. AdvertiserInv => BroadcastStopsItsOwn
  BY DEF AdvertiserInv
<1>. QED
  BY <1>1, AdvertiserInvariant, PTL

-----------------------------------------------------------------------------
\* A node without a connection is advertising itself or will: adv_restart_fn may
\* take a broadcast for its own advertising, but then the broadcast's end
\* schedules it again. This needs that a broadcast is refused by nothing but the
\* connectable advertising.
THEOREM AlwaysFound == ASSUME ~BroadcastErrors PROVE Spec => []NeverStranded
<1>1. Init => NeverStranded
  BY DEF Init, NeverStranded
<1>2. ASSUME AdvertiserInv, NeverStranded, [Next]_vars PROVE NeverStranded'
  <2> USE <1>2 DEF AdvertiserInv, ProcShape, Places, Broadcasting, NeverStranded
  <2>1. CASE Processing
    BY <2>1, ProcessingStep DEF link
  <2>2. CASE StartBroadcast
    BY <2>2 DEF StartBroadcast
  <2>3. CASE StopBroadcast
    BY <2>3 DEF StopBroadcast, BroadcastStopsItsOwn
  <2>4. CASE EndGap
    BY <2>4 DEF EndGap
  <2>5. CASE Connected \/ Disconnected
    BY <2>5 DEF Connected, Disconnected
  <2>6. CASE nus_notif_changed
    BY <2>6 DEF nus_notif_changed, rest
  <2>7. CASE adv_restart_fn
    BY <2>7 DEF adv_restart_fn, rest, BroadcastStopsItsOwn
  <2>8. CASE UNCHANGED <<link, proc>>
    BY <2>8 DEF link
  <2>. QED
    BY <2>1, <2>2, <2>3, <2>4, <2>5, <2>6, <2>7, <2>8, Elsewhere
       DEF Next, Link, proc_thread, do_broadcast_command, Processing
<1>. QED
  BY <1>1, <1>2, AdvertiserInvariant, PTL DEF Spec

-----------------------------------------------------------------------------
(***************************************************************************)
(* The sniffer. SniffingSurvives is not inductive: adv_restart_fn gives up *)
(* its one run without restarting the scan when it finds a connection. It  *)
(* never finds one with the scan stopped, because a connection needs the   *)
(* advertising that only that work restarts, and the scan with it.         *)
(***************************************************************************)
SniffingInv ==
    /\ scanning \/ (adv_restart /\ ~current_conn /\ advertising # "conn")
    /\ ~(current_conn /\ advertising = "conn")

\* After each disconnection the sniffer is started again, where scans start when
\* asked: no run of adv_restart_fn that leaves it off is the last one scheduled.
THEOREM SnifferCorrect == ASSUME ~ScanErrors PROVE Spec => []SniffingSurvives
<1>1. Init => SniffingInv
  BY DEF Init, SniffingInv
<1>2. ASSUME AdvertiserInv, SniffingInv, [Next]_vars PROVE SniffingInv'
  <2> USE <1>2 DEF SniffingInv
  <2>1. CASE Processing
    BY <2>1, ProcessingStep DEF link
  <2>2. CASE StartBroadcast
    BY <2>2 DEF StartBroadcast
  <2>3. CASE StopBroadcast
    BY <2>3 DEF StopBroadcast
  <2>4. CASE EndGap
    BY <2>4 DEF EndGap
  <2>5. CASE Connected \/ Disconnected
    BY <2>5 DEF Connected, Disconnected
  <2>6. CASE nus_notif_changed
    BY <2>6 DEF nus_notif_changed
  <2>7. CASE adv_restart_fn
    <3>1. \/ current_conn /\ UNCHANGED <<advertising, scanning>>
          \/ ~current_conn /\ scanning' \in {TRUE}
      BY <2>7, Zenon DEF adv_restart_fn
    <3>2. UNCHANGED current_conn
      BY <2>7 DEF adv_restart_fn
    <3>. QED
      BY <3>1, <3>2
  <2>8. CASE UNCHANGED <<link, proc>>
    BY <2>8 DEF link
  <2>. QED
    BY <2>1, <2>2, <2>3, <2>4, <2>5, <2>6, <2>7, <2>8, Elsewhere
       DEF Next, Link, proc_thread, do_broadcast_command, Processing
<1>3. SniffingInv => SniffingSurvives
  BY DEF SniffingInv, SniffingSurvives
<1>. QED
  BY <1>1, <1>2, <1>3, AdvertiserInvariant, PTL DEF Spec
=============================================================================
