---------------------------- MODULE BuzzerProofs ----------------------------
(***************************************************************************)
(* Proofs about Buzzer, for every queue depth and every number of beeps.   *)
(***************************************************************************)
EXTENDS Buzzer, TLAPS

\* Posting a command keeps the buzzer well-formed and its queue within bounds.
LEMMA PutType ==
    ASSUME NEW b \in BuzzerState, Len(b.msgq) <= MSGQ_DEPTH, NEW c \in Command
    PROVE  Put(b, c) \in BuzzerState /\ Len(Put(b, c).msgq) <= MSGQ_DEPTH
<1>1. CASE b.at = "pend"
  BY <1>1 DEF Put, BuzzerState, ThreadAt, Command
<1>2. CASE b.at # "pend" /\ Len(b.msgq) < MSGQ_DEPTH
  <2>1. /\ Append(b.msgq, c) \in Seq(Command)
        /\ Len(Append(b.msgq, c)) = Len(b.msgq) + 1
        /\ Len(b.msgq) \in Nat
    BY DEF BuzzerState
  <2>2. Put(b, c) = [b EXCEPT !.msgq = Append(b.msgq, c)]
    BY <1>2 DEF Put
  <2>3. [b EXCEPT !.msgq = Append(b.msgq, c)] \in BuzzerState
    BY <2>1 DEF BuzzerState
  <2>4. Put(b, c).msgq = Append(b.msgq, c)
    BY <2>2 DEF BuzzerState
  <2>. QED
    BY <1>2, <2>1, <2>2, <2>3, <2>4, BuzzerAssumption
<1>3. CASE b.at # "pend" /\ ~(Len(b.msgq) < MSGQ_DEPTH)
  BY <1>3 DEF Put, BuzzerState
<1>. QED
  BY <1>1, <1>2, <1>3

\* Taking the head of a queue that is not empty.
LEMMA HeadTail ==
    ASSUME NEW q \in Seq(Command), q # <<>>
    PROVE  /\ Head(q) \in Command
           /\ Tail(q) \in Seq(Command)
           /\ Len(q) \in Nat \ {0}
           /\ Len(Tail(q)) = Len(q) - 1
OBVIOUS

\* Going back to the outer loop's k_msgq_get leaves the thread silent, blocked
\* on an empty queue or about to act on the command it took.
LEMMA Silence ==
    ASSUME NEW b \in BuzzerState, Len(b.msgq) <= MSGQ_DEPTH,
           NEW s, s = SilenceAndGet(b)
    PROVE  /\ s \in BuzzerState /\ Len(s.msgq) <= MSGQ_DEPTH
           /\ s.tone = "off" /\ s.beeps = 0
           /\ s.at = "pend" => s.msgq = <<>>
           /\ s.at \in Command \cup {"pend"}
<1>0. 0 \in 0 .. CHIRP_COUNT
  BY BuzzerAssumption
<1>1. CASE b.msgq = <<>>
  <2>1. s = [b EXCEPT !.at = "pend", !.beeps = 0, !.tone = "off"]
    BY <1>1 DEF SilenceAndGet
  <2>. QED
    BY <1>0, <1>1, <2>1 DEF BuzzerState, ThreadAt
<1>2. CASE b.msgq # <<>>
  <2>1. b.msgq \in Seq(Command)
    BY DEF BuzzerState
  <2>2. s = [b EXCEPT !.at = Head(b.msgq), !.msgq = Tail(b.msgq), !.beeps = 0,
                      !.tone = "off"]
    BY <1>2 DEF SilenceAndGet
  <2>3. Head(b.msgq) \in ThreadAt /\ Head(b.msgq) # "pend"
    BY <1>2, <2>1, HeadTail DEF ThreadAt, Command
  <2>4. s \in BuzzerState
    BY <1>0, <1>2, <2>1, <2>2, <2>3, HeadTail DEF BuzzerState
  <2>5. s.msgq = Tail(b.msgq) /\ s.at = Head(b.msgq) /\ s.beeps = 0 /\ s.tone = "off"
    BY <2>2 DEF BuzzerState
  <2>. QED
    BY <1>2, <2>1, <2>3, <2>4, <2>5, HeadTail, BuzzerAssumption
<1>. QED
  BY <1>1, <1>2

-----------------------------------------------------------------------------
(***************************************************************************)
(* The inductive invariant. TypeOK alone is not inductive: EndBeep counts  *)
(* a beep, and only the place of the thread says that one was left to      *)
(* count. What the tone is follows from the place as well.                 *)
(***************************************************************************)
BeepsCounted ==
    /\ bz.at \notin {"beep", "gap"} => bz.beeps = 0
    /\ bz.at = "beep" => bz.beeps < CHIRP_COUNT

IInv == TypeOK /\ BeepsCounted /\ ToneFollowsThread

LEMMA IInvInit == Init => IInv
BY BuzzerAssumption
   DEF Init, InitialBuzzer, IInv, TypeOK, BeepsCounted, ToneFollowsThread, BuzzerState,
       ThreadAt

\* A caller's command is handed to the thread blocked in k_msgq_get, or queued.
LEMMA PutIInv ==
    ASSUME NEW b \in BuzzerState, Len(b.msgq) <= MSGQ_DEPTH, NEW c \in Command,
           b.at \notin {"beep", "gap"} => b.beeps = 0,
           b.at = "beep" => b.beeps < CHIRP_COUNT,
           b.tone = "alarm" <=> b.at \in {"poor", "leaving"},
           b.tone = "chirp" <=> b.at = "beep",
           b.at = "pend" => b.msgq = <<>>,
           NEW s, s = Put(b, c)
    PROVE  /\ s \in BuzzerState /\ Len(s.msgq) <= MSGQ_DEPTH
           /\ s.at \notin {"beep", "gap"} => s.beeps = 0
           /\ s.at = "beep" => s.beeps < CHIRP_COUNT
           /\ s.tone = "alarm" <=> s.at \in {"poor", "leaving"}
           /\ s.tone = "chirp" <=> s.at = "beep"
           /\ s.at = "pend" => s.msgq = <<>>
<1>1. s \in BuzzerState /\ Len(s.msgq) <= MSGQ_DEPTH
  BY PutType
<1>2. CASE b.at = "pend"
  <2>1. s = [b EXCEPT !.at = c]
    BY <1>2 DEF Put
  <2>. QED
    BY <1>1, <1>2, <2>1 DEF BuzzerState, Command
<1>3. CASE b.at # "pend"
  <2>1. s.at = b.at /\ s.beeps = b.beeps /\ s.tone = b.tone
    BY <1>3 DEF Put, BuzzerState
  <2>. QED
    BY <1>1, <1>3, <2>1
<1>. QED
  BY <1>2, <1>3

LEMMA IInvStep == IInv /\ [Next]_bz => IInv'
<1> SUFFICES ASSUME IInv, [Next]_bz PROVE IInv'
  OBVIOUS
<1> USE BuzzerAssumption
<1>0. /\ bz \in BuzzerState /\ Len(bz.msgq) <= MSGQ_DEPTH
      /\ bz.msgq \in Seq(Command) /\ bz.beeps \in 0 .. CHIRP_COUNT
  BY DEF IInv, TypeOK, BuzzerState
<1>1. CASE RunWarning
  <2>1. bz' = [bz EXCEPT !.at = "beep", !.tone = "chirp"]
    BY <1>1 DEF RunWarning
  <2>2. bz.at = "WARNING" /\ bz.beeps = 0
    BY <1>1 DEF RunWarning, IInv, BeepsCounted
  <2>3. bz' \in BuzzerState
    BY <1>0, <2>1 DEF BuzzerState, ThreadAt
  <2>4. /\ bz'.at = "beep" /\ bz'.tone = "chirp"
        /\ bz'.msgq = bz.msgq /\ bz'.beeps = bz.beeps
    BY <1>0, <2>1 DEF BuzzerState
  <2>. QED
    BY <1>0, <2>2, <2>3, <2>4 DEF IInv, TypeOK, BeepsCounted, ToneFollowsThread
<1>2. CASE RunPoor
  <2>1. bz' = [bz EXCEPT !.at = "poor", !.tone = "alarm"]
    BY <1>2 DEF RunPoor
  <2>2. bz.at = "POOR" /\ bz.beeps = 0
    BY <1>2 DEF RunPoor, IInv, BeepsCounted
  <2>3. bz' \in BuzzerState
    BY <1>0, <2>1 DEF BuzzerState, ThreadAt
  <2>4. /\ bz'.at = "poor" /\ bz'.tone = "alarm"
        /\ bz'.msgq = bz.msgq /\ bz'.beeps = bz.beeps
    BY <1>0, <2>1 DEF BuzzerState
  <2>. QED
    BY <1>0, <2>2, <2>3, <2>4 DEF IInv, TypeOK, BeepsCounted, ToneFollowsThread
<1>3. CASE RunStop \/ LeavePoor
  <2>1. bz' = SilenceAndGet(bz)
    BY <1>3 DEF RunStop, LeavePoor
  <2>. QED
    BY <1>0, <2>1, Silence DEF IInv, TypeOK, BeepsCounted, ToneFollowsThread, Command
<1>4. CASE EndBeep
  <2>1. bz.beeps + 1 \in 0 .. CHIRP_COUNT
    BY <1>0, <1>4 DEF EndBeep, IInv, BeepsCounted
  <2>. QED
    BY <1>0, <1>4, <2>1 DEF EndBeep, IInv, TypeOK, BeepsCounted, ToneFollowsThread,
                            BuzzerState, ThreadAt
<1>5. CASE EndGap
  <2>1. CASE bz.beeps < CHIRP_COUNT
    BY <1>0, <1>5, <2>1 DEF EndGap, IInv, TypeOK, BeepsCounted, ToneFollowsThread,
                            BuzzerState, ThreadAt
  <2>2. CASE ~(bz.beeps < CHIRP_COUNT)
    <3>1. bz' = SilenceAndGet(bz)
      BY <1>5, <2>2 DEF EndGap
    <3>. QED
      BY <1>0, <3>1, Silence DEF IInv, TypeOK, BeepsCounted, ToneFollowsThread, Command
  <2>. QED
    BY <2>1, <2>2
<1>6. CASE PollPoor
  <2>1. PICK a \in {"leaving", "poor"} :
            bz' = [bz EXCEPT !.msgq = Tail(bz.msgq), !.at = a]
    BY <1>6 DEF PollPoor
  <2>2. Tail(bz.msgq) \in Seq(Command) /\ Len(Tail(bz.msgq)) <= MSGQ_DEPTH
    BY <1>0, <1>6, HeadTail DEF PollPoor
  <2>3. bz' \in BuzzerState
    BY <1>0, <2>1, <2>2 DEF BuzzerState, ThreadAt
  <2>4. /\ bz'.msgq = Tail(bz.msgq) /\ bz'.at = a
        /\ bz'.beeps = bz.beeps /\ bz'.tone = bz.tone
    BY <1>0, <2>1 DEF BuzzerState
  <2>. QED
    BY <1>6, <2>2, <2>3, <2>4 DEF PollPoor, IInv, TypeOK, BeepsCounted, ToneFollowsThread
<1>7. CASE Request
  <2>1. CASE bz' = buzzer_stop(bz) \/ bz' = buzzer_poor(bz)
    <3>1. PICK c \in Command : bz' = Put(bz, c)
      BY <2>1 DEF buzzer_stop, buzzer_poor, Command
    <3>. QED
      BY <1>0, <3>1, PutIInv DEF IInv, TypeOK, BeepsCounted, ToneFollowsThread
  <2>2. CASE bz' = buzzer_warning(buzzer_stop(bz))
    <3> DEFINE s == Put(bz, "STOP")
    <3>1. /\ s \in BuzzerState /\ Len(s.msgq) <= MSGQ_DEPTH
          /\ s.at \notin {"beep", "gap"} => s.beeps = 0
          /\ s.at = "beep" => s.beeps < CHIRP_COUNT
          /\ s.tone = "alarm" <=> s.at \in {"poor", "leaving"}
          /\ s.tone = "chirp" <=> s.at = "beep"
          /\ s.at = "pend" => s.msgq = <<>>
      BY <1>0, PutIInv DEF IInv, BeepsCounted, ToneFollowsThread, Command
    <3>2. bz' = Put(s, "WARNING") /\ "WARNING" \in Command
      BY <2>2 DEF buzzer_stop, buzzer_warning, Command
    <3> HIDE DEF s
    <3>. QED
      BY <3>1, <3>2, PutIInv DEF IInv, TypeOK, BeepsCounted, ToneFollowsThread
  <2>. QED
    BY <1>7, <2>1, <2>2 DEF Request
<1>8. CASE UNCHANGED bz
  BY <1>8 DEF IInv, TypeOK, BeepsCounted, ToneFollowsThread
<1>9. CASE Reset
  BY <1>9 DEF Reset, InitialBuzzer, IInv, TypeOK, BeepsCounted, ToneFollowsThread,
              BuzzerState, ThreadAt
<1>. QED
  BY <1>1, <1>2, <1>3, <1>4, <1>5, <1>6, <1>7, <1>8, <1>9 DEF Next, buzzer_thread

THEOREM Invariant == Spec => []IInv
BY IInvInit, IInvStep, PTL DEF Spec

\* The queue never holds more than it has room for and no beep is counted twice.
THEOREM TypeCorrect == Spec => []TypeOK
<1>1. IInv => TypeOK
  BY DEF IInv
<1>. QED
  BY <1>1, Invariant, PTL

\* No path through buzzer_thread leaves a tone on, or blocks on a command.
THEOREM ToneCorrect == Spec => []ToneFollowsThread
<1>1. IInv => ToneFollowsThread
  BY DEF IInv
<1>. QED
  BY <1>1, Invariant, PTL

-----------------------------------------------------------------------------
(***************************************************************************)
(* ThreadKeepsDemand. The demand depends on the queue and on whether the   *)
(* thread is in the alarm loop, or about to enter it; taking the head of   *)
(* the queue moves what the head says from the one to the other.           *)
(***************************************************************************)
Alarm == {"POOR", "poor"}

Sounding(q, place) ==
    \/ \E i \in DOMAIN q : Decides(q, i) /\ q[i] = "POOR"
    \/ place \in Alarm /\ \A i \in DOMAIN q : q[i] = "WARNING"

LEMMA DemandIsSounding ==
    ASSUME NEW b
    PROVE  Demand(b) <=> Sounding(b.msgq, b.at)
BY DEF Demand, Sounding, Alarm

\* The head of the queue, taken, decides unless it is a WARNING.
LEMMA TakeHead ==
    ASSUME NEW q \in Seq(Command), q # <<>>, NEW d, NEW e,
           Head(q) = "WARNING" => (e \in Alarm <=> d \in Alarm),
           Head(q) # "WARNING" => (e \in Alarm <=> Head(q) = "POOR")
    PROVE  Sounding(q, d) <=> Sounding(Tail(q), e)
<1> DEFINE t == Tail(q)
<1>1. /\ Len(q) \in Nat \ {0}
      /\ DOMAIN q = 1 .. Len(q) /\ DOMAIN t = 1 .. Len(q) - 1
      /\ Head(q) = q[1]
      /\ \A i \in 1 .. Len(q) - 1 : t[i] = q[i + 1]
  OBVIOUS
<1> HIDE DEF t
<1>2. ASSUME Sounding(q, d) PROVE Sounding(t, e)
  <2>1. CASE d \in Alarm /\ \A i \in DOMAIN q : q[i] = "WARNING"
    <3>1. q[1] = "WARNING" /\ \A i \in DOMAIN t : t[i] = "WARNING"
      BY <1>1, <2>1
    <3>. QED
      BY <1>1, <2>1, <3>1 DEF Sounding
  <2>2. ASSUME NEW i \in DOMAIN q, Decides(q, i), q[i] = "POOR"
        PROVE  Sounding(t, e)
    <3>1. CASE i = 1
      <4>1. e \in Alarm /\ \A j \in DOMAIN t : t[j] = "WARNING"
        BY <1>1, <2>2, <3>1 DEF Decides
      <4>. QED
        BY <4>1 DEF Sounding
    <3>2. CASE i # 1
      <4>1. i - 1 \in DOMAIN t /\ t[i - 1] = q[i]
        BY <1>1, <3>2
      <4>2. \A j \in DOMAIN t : j > i - 1 => t[j] = "WARNING"
        BY <1>1, <2>2 DEF Decides
      <4>. QED
        BY <2>2, <4>1, <4>2 DEF Sounding, Decides
    <3>. QED
      BY <3>1, <3>2
  <2>. QED
    BY <1>2, <2>1, <2>2 DEF Sounding
<1>3. ASSUME Sounding(t, e) PROVE Sounding(q, d)
  <2>1. CASE e \in Alarm /\ \A i \in DOMAIN t : t[i] = "WARNING"
    <3>1. \A j \in DOMAIN q : j > 1 => q[j] = "WARNING"
      <4> SUFFICES ASSUME NEW j \in DOMAIN q, j > 1 PROVE q[j] = "WARNING"
        OBVIOUS
      <4>1. j - 1 \in DOMAIN t /\ t[j - 1] = q[j]
        BY <1>1
      <4>. QED
        BY <2>1, <4>1
    <3>2. CASE q[1] = "WARNING"
      <4>1. d \in Alarm
        BY <1>1, <2>1, <3>2
      <4>2. \A j \in DOMAIN q : q[j] = "WARNING"
        BY <1>1, <3>1, <3>2
      <4>. QED
        BY <4>1, <4>2 DEF Sounding
    <3>3. CASE q[1] # "WARNING"
      <4>1. 1 \in DOMAIN q /\ q[1] = "POOR"
        BY <1>1, <2>1, <3>3
      <4>. QED
        BY <3>1, <4>1 DEF Sounding, Decides
    <3>. QED
      BY <3>2, <3>3
  <2>2. ASSUME NEW i \in DOMAIN t, Decides(t, i), t[i] = "POOR"
        PROVE  Sounding(q, d)
    <3>1. i + 1 \in DOMAIN q /\ q[i + 1] = "POOR"
      BY <1>1, <2>2
    <3>2. ASSUME NEW j \in DOMAIN q, j > i + 1 PROVE q[j] = "WARNING"
      <4>1. j - 1 \in DOMAIN t /\ j - 1 > i /\ t[j - 1] = q[j]
        BY <1>1, <3>2
      <4>. QED
        BY <2>2, <4>1 DEF Decides
    <3>. QED
      BY <3>1, <3>2 DEF Sounding, Decides
  <2>. QED
    BY <1>3, <2>1, <2>2 DEF Sounding
<1>. QED
  BY <1>2, <1>3 DEF t

\* Out of a place other than the alarm loop, k_msgq_get changes no demand.
LEMMA SilenceKeepsDemand ==
    ASSUME NEW b \in BuzzerState, b.at \notin {"POOR", "poor"},
           NEW s, s = SilenceAndGet(b)
    PROVE  Demand(s) <=> Demand(b)
<1>1. CASE b.msgq = <<>>
  <2>1. s.msgq = <<>> /\ s.at = "pend"
    BY <1>1 DEF SilenceAndGet, BuzzerState
  <2>. QED
    BY <1>1, <2>1 DEF Demand
<1>2. CASE b.msgq # <<>>
  <2>1. s.msgq = Tail(b.msgq) /\ s.at = Head(b.msgq)
    BY <1>2 DEF SilenceAndGet, BuzzerState
  <2>2. b.msgq \in Seq(Command) /\ Head(b.msgq) \in Command
    BY <1>2, HeadTail DEF BuzzerState
  <2>3. Sounding(b.msgq, b.at) <=> Sounding(Tail(b.msgq), s.at)
    BY <1>2, <2>1, <2>2, TakeHead DEF Command, Alarm
  <2>. QED
    BY <2>1, <2>3, DemandIsSounding
<1>. QED
  BY <1>1, <1>2

LEMMA ThreadStepKeepsDemand ==
    ASSUME IInv, buzzer_thread
    PROVE  Demand(bz') <=> Demand(bz)
<1>0. bz \in BuzzerState /\ bz.msgq \in Seq(Command)
  BY DEF IInv, TypeOK, BuzzerState
<1>1. CASE RunWarning \/ RunPoor \/ EndBeep
  <2>1. /\ bz'.msgq = bz.msgq
        /\ bz'.at \in Alarm <=> bz.at \in Alarm
    BY <1>0, <1>1 DEF RunWarning, RunPoor, EndBeep, BuzzerState, Alarm
  <2>. QED
    BY <2>1, DemandIsSounding DEF Sounding
<1>2. CASE RunStop \/ LeavePoor
  BY <1>0, <1>2, SilenceKeepsDemand DEF RunStop, LeavePoor
<1>3. CASE EndGap
  <2>1. CASE bz.beeps < CHIRP_COUNT
    <3>1. bz'.msgq = bz.msgq /\ bz'.at = "beep" /\ bz.at = "gap"
      BY <1>0, <1>3, <2>1 DEF EndGap, BuzzerState
    <3>. QED
      BY <3>1, DemandIsSounding DEF Sounding, Alarm
  <2>2. CASE ~(bz.beeps < CHIRP_COUNT)
    BY <1>0, <1>3, <2>2, SilenceKeepsDemand DEF EndGap
  <2>. QED
    BY <2>1, <2>2
<1>4. CASE PollPoor
  <2>1. /\ bz'.msgq = Tail(bz.msgq) /\ bz.msgq # <<>> /\ bz.at = "poor"
        /\ bz'.at = IF Head(bz.msgq) = "STOP" THEN "leaving" ELSE "poor"
    BY <1>0, <1>4 DEF PollPoor, BuzzerState
  <2>2. Head(bz.msgq) \in Command
    BY <1>0, <2>1, HeadTail
  <2>3. Sounding(bz.msgq, bz.at) <=> Sounding(Tail(bz.msgq), bz'.at)
    BY <1>0, <2>1, <2>2, TakeHead DEF Command, Alarm
  <2>. QED
    BY <2>1, <2>3, DemandIsSounding
<1>. QED
  BY <1>1, <1>2, <1>3, <1>4 DEF buzzer_thread

\* The thread, whatever it is doing when a command arrives, swallows no POOR
\* and no STOP that nothing later in the queue overrides.
THEOREM DemandKept == Spec => ThreadKeepsDemand
<1>1. IInv /\ [Next]_bz => [buzzer_thread => Demand(bz') = Demand(bz)]_bz
  <2> SUFFICES ASSUME IInv, buzzer_thread PROVE Demand(bz') = Demand(bz)
    OBVIOUS
  <2>1. Demand(bz') \in BOOLEAN /\ Demand(bz) \in BOOLEAN
    BY DEF Demand
  <2>. QED
    BY <2>1, ThreadStepKeepsDemand
<1>. QED
  BY <1>1, Invariant, PTL DEF Spec, ThreadKeepsDemand

-----------------------------------------------------------------------------
(* What the callers' commands do to the demand.                            *)

\* A command the queue takes decides what it says, a WARNING nothing.
LEMMA AppendDecides ==
    ASSUME NEW q \in Seq(Command), NEW c \in Command, NEW a
    PROVE  /\ c = "POOR" => Sounding(Append(q, c), a)
           /\ c = "STOP" => ~Sounding(Append(q, c), a)
           /\ c = "WARNING" => (Sounding(Append(q, c), a) <=> Sounding(q, a))
<1> DEFINE r == Append(q, c)
<1>1. /\ Len(q) \in Nat
      /\ DOMAIN q = 1 .. Len(q) /\ DOMAIN r = 1 .. Len(q) + 1
      /\ r[Len(q) + 1] = c
      /\ \A i \in 1 .. Len(q) : r[i] = q[i]
  OBVIOUS
<1> HIDE DEF r
<1>2. CASE c # "WARNING"
  <2>1. Len(q) + 1 \in DOMAIN r /\ Decides(r, Len(q) + 1)
    BY <1>1, <1>2 DEF Decides
  <2>2. \A i \in DOMAIN r : Decides(r, i) => i = Len(q) + 1
    <3> SUFFICES ASSUME NEW i \in DOMAIN r, Decides(r, i), i # Len(q) + 1
                 PROVE  FALSE
      OBVIOUS
    <3>1. i < Len(q) + 1
      BY <1>1
    <3>. QED
      BY <1>1, <1>2, <2>1, <3>1 DEF Decides
  <2>3. \E i \in DOMAIN r : r[i] # "WARNING"
    BY <1>1, <1>2, <2>1
  <2>4. CASE c = "POOR"
    <3>1. Sounding(r, a)
      BY <1>1, <2>1, <2>4 DEF Sounding
    <3>. QED
      BY <2>4, <3>1 DEF r
  <2>5. CASE c = "STOP"
    <3>1. ~Sounding(r, a)
      BY <1>1, <2>2, <2>3, <2>5 DEF Sounding
    <3>. QED
      BY <2>5, <3>1 DEF r
  <2>. QED
    BY <1>2, <2>4, <2>5 DEF Command
<1>3. CASE c = "WARNING"
  <2>1. \A i \in DOMAIN q : i \in DOMAIN r /\ r[i] = q[i]
    BY <1>1
  <2>2. \A i \in DOMAIN r : i \in DOMAIN q \/ r[i] = "WARNING"
    BY <1>1, <1>3
  <2>3. \A i \in DOMAIN q : Decides(q, i) <=> Decides(r, i)
    BY <2>1, <2>2 DEF Decides
  <2>4. (\A i \in DOMAIN q : q[i] = "WARNING") <=> (\A i \in DOMAIN r : r[i] = "WARNING")
    BY <2>1, <2>2
  <2>5. (\E i \in DOMAIN q : Decides(q, i) /\ q[i] = "POOR")
          <=> (\E i \in DOMAIN r : Decides(r, i) /\ r[i] = "POOR")
    BY <2>1, <2>2, <2>3
  <2>. QED
    BY <1>3, <2>4, <2>5 DEF Sounding, r
<1>. QED
  BY <1>2, <1>3

\* A command that is not refused decides the demand, a WARNING nothing.
LEMMA PutDemand ==
    ASSUME NEW b \in BuzzerState, b.at = "pend" => b.msgq = <<>>,
           NEW c \in Command, NEW s, s = Put(b, c), ~s.lost
    PROVE  /\ c = "POOR" => Demand(s)
           /\ c = "STOP" => ~Demand(s)
           /\ c = "WARNING" => (Demand(s) <=> Demand(b))
<1>1. CASE b.at = "pend"
  <2>1. s.at = c /\ s.msgq = <<>>
    BY <1>1 DEF Put, BuzzerState
  <2>. QED
    BY <1>1, <2>1 DEF Demand
<1>2. CASE b.at # "pend"
  <2>1. s.msgq = Append(b.msgq, c) /\ s.at = b.at /\ b.msgq \in Seq(Command)
    BY <1>2 DEF Put, BuzzerState
  <2>2. /\ Demand(s) <=> Sounding(Append(b.msgq, c), b.at)
        /\ Demand(b) <=> Sounding(b.msgq, b.at)
    BY <2>1, DemandIsSounding
  <2>. QED
    BY <2>1, <2>2, AppendDecides
<1>. QED
  BY <1>1, <1>2

\* Once a command was refused, that stays recorded.
LEMMA PutLost ==
    ASSUME NEW b \in BuzzerState, NEW c
    PROVE  b.lost => Put(b, c).lost
BY DEF Put, BuzzerState

LEMMA ThreadLost ==
    ASSUME bz \in BuzzerState, buzzer_thread
    PROVE  bz'.lost = bz.lost
BY DEF buzzer_thread, RunWarning, RunPoor, RunStop, EndBeep, EndGap, PollPoor, LeavePoor,
       SilenceAndGet, BuzzerState
=============================================================================
