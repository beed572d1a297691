------------------------------- MODULE Buzzer -------------------------------
(***************************************************************************)
(* The base node's buzzer (base_node/src/buzzer.c): a message queue of     *)
(* commands, filled without blocking by whoever calls buzzer_warning,      *)
(* buzzer_poor or buzzer_stop, and drained by one thread that drives the   *)
(* PWM output.                                                             *)
(*                                                                         *)
(* The whole component is one record, so that a caller that posts several  *)
(* commands in one uninterrupted handler can compose Put with itself.      *)
(*                                                                         *)
(* A definition whose name starts with Bad is a plausible slip of the      *)
(* programmer: nothing uses it, and substituting it for the definition it  *)
(* precedes makes the property named in PROJECT.json fail.                 *)
(***************************************************************************)
EXTENDS Naturals, Sequences

CONSTANTS
    MSGQ_DEPTH,    \* messages buzzer_msgq holds (4 in the source)
    CHIRP_COUNT    \* beeps of one warning (3 in the source)

ASSUME BuzzerAssumption ==
    /\ MSGQ_DEPTH \in Nat \ {0}
    /\ CHIRP_COUNT \in Nat \ {0}

VARIABLE bz

\* BUZZER_IDLE is never sent by anyone and the thread ignores it.
Command == {"WARNING", "POOR", "STOP"}

(***************************************************************************)
(* Where the thread is: blocked in k_msgq_get ("pend"), about to act on    *)
(* the command it took (the command itself), in the loud or the silent     *)
(* half of a beep ("beep", "gap"), polling inside the alarm loop ("poor"), *)
(* or in that loop's last sleep after it read a STOP ("leaving").          *)
(***************************************************************************)
ThreadAt == {"pend", "beep", "gap", "poor", "leaving"} \cup Command

BuzzerState ==
    [ msgq  : Seq(Command),
      at    : ThreadAt,
      beeps : 0..CHIRP_COUNT,               \* beeps of this warning finished
      tone  : {"off", "chirp", "alarm"},    \* PWM: silent, 1000 Hz, 2000 Hz
      lost  : BOOLEAN ]                     \* history: a full queue refused a command

\* The queue never holds more than K_MSGQ_DEFINE allots it.
TypeOK ==
    /\ bz \in BuzzerState
    /\ Len(bz.msgq) <= MSGQ_DEPTH

InitialBuzzer ==
    [msgq |-> <<>>, at |-> "pend", beeps |-> 0, tone |-> "off", lost |-> FALSE]

-----------------------------------------------------------------------------
(***************************************************************************)
(* k_msgq_put(..., K_NO_WAIT): a thread blocked in k_msgq_get is handed    *)
(* the message at once; otherwise it is queued, or refused when the queue  *)
(* is full (and no caller looks at the return value).                      *)
(***************************************************************************)
BadPutUnbounded(b, c) ==
    IF b.at = "pend" THEN [b EXCEPT !.at = c]
    ELSE IF Len(b.msgq) <= MSGQ_DEPTH THEN [b EXCEPT !.msgq = Append(@, c)]
    ELSE [b EXCEPT !.lost = TRUE]

Put(b, c) ==
    IF b.at = "pend" THEN [b EXCEPT !.at = c]
    ELSE IF Len(b.msgq) < MSGQ_DEPTH THEN [b EXCEPT !.msgq = Append(@, c)]
    ELSE [b EXCEPT !.lost = TRUE]

buzzer_warning(b) == Put(b, "WARNING")
buzzer_poor(b)    == Put(b, "POOR")
buzzer_stop(b)    == Put(b, "STOP")

\* The thread silences the PWM and is back at the k_msgq_get of its outer loop.
SilenceAndGet(b) ==
    IF b.msgq = <<>>
    THEN [b EXCEPT !.at = "pend", !.beeps = 0, !.tone = "off"]
    ELSE [b EXCEPT !.at = Head(b.msgq), !.msgq = Tail(@), !.beeps = 0, !.tone = "off"]

-----------------------------------------------------------------------------
(* Steps of buzzer_thread, each from one blocking call to the next.        *)

RunWarning ==
    /\ bz.at = "WARNING"
    /\ bz' = [bz EXCEPT !.at = "beep", !.tone = "chirp"]

RunPoor ==
    /\ bz.at = "POOR"
    /\ bz' = [bz EXCEPT !.at = "poor", !.tone = "alarm"]

RunStop ==
    /\ bz.at = "STOP"
    /\ bz' = SilenceAndGet(bz)

BadEndBeepUncounted ==
    /\ bz.at = "beep"
    /\ bz' = [bz EXCEPT !.at = "gap", !.tone = "off"]

EndBeep ==
    /\ bz.at = "beep"
    /\ bz' = [bz EXCEPT !.at = "gap", !.beeps = @ + 1, !.tone = "off"]

EndGap ==
    /\ bz.at = "gap"
    /\ bz' = IF bz.beeps < CHIRP_COUNT
             THEN [bz EXCEPT !.at = "beep", !.tone = "chirp"]
             ELSE SilenceAndGet(bz)

\* The alarm loop reads one command each 100 ms and discards all but STOP.
BadPollPoorAnyEnds ==
    /\ bz.at = "poor"
    /\ bz.msgq # <<>>
    /\ bz' = [bz EXCEPT !.msgq = Tail(@), !.at = "leaving"]

PollPoor ==
    /\ bz.at = "poor"
    /\ bz.msgq # <<>>
    /\ bz' = [bz EXCEPT !.msgq = Tail(@),
                        !.at = IF Head(bz.msgq) = "STOP" THEN "leaving" ELSE @]

BadLeavePoorToneOn ==
    /\ bz.at = "leaving"
    /\ bz' = [SilenceAndGet(bz) EXCEPT !.tone = "alarm"]

LeavePoor ==
    /\ bz.at = "leaving"
    /\ bz' = SilenceAndGet(bz)

buzzer_thread ==
    RunWarning \/ RunPoor \/ RunStop \/ EndBeep \/ EndGap \/ PollPoor \/ LeavePoor

-----------------------------------------------------------------------------
(***************************************************************************)
(* What the callers do: they stop the alarm (disconnection, shell command, *)
(* air good again), start it, or stop it and chirp, the two commands of    *)
(* the warning case being posted by one uninterrupted handler.             *)
(***************************************************************************)
Request ==
    \/ bz' = buzzer_stop(bz)
    \/ bz' = buzzer_poor(bz)
    \/ bz' = buzzer_warning(buzzer_stop(bz))

\* The watchdog resets the chip: buzzer_init once more.
Reset == bz' = InitialBuzzer

Init == bz = InitialBuzzer
Next == buzzer_thread \/ Request \/ Reset
Spec == Init /\ [][Next]_bz
FairSpec == Spec /\ WF_bz(buzzer_thread)

-----------------------------------------------------------------------------
(***************************************************************************)
(* The alarm the accepted commands ask for, whatever the thread has done   *)
(* of them yet: the last POOR or STOP in the queue decides; if it holds    *)
(* neither, whether the thread is in the alarm loop or about to enter it.  *)
(***************************************************************************)
Decides(q, i) ==
    /\ q[i] # "WARNING"
    /\ \A j \in DOMAIN q : j > i => q[j] = "WARNING"

Demand(b) ==
    \/ \E i \in DOMAIN b.msgq : Decides(b.msgq, i) /\ b.msgq[i] = "POOR"
    \/ /\ b.at \in {"POOR", "poor"}
       /\ \A i \in DOMAIN b.msgq : b.msgq[i] = "WARNING"

\* The 2000 Hz tone is on exactly while the thread is in the alarm loop, the
\* 1000 Hz tone exactly in a beep, and the thread blocks only on an empty queue:
\* no path out of the switch leaves a tone or a command behind.
ToneFollowsThread ==
    /\ bz.tone = "alarm" <=> bz.at \in {"poor", "leaving"}
    /\ bz.tone = "chirp" <=> bz.at = "beep"
    /\ bz.at = "pend" => bz.msgq = <<>>

\* Nothing the thread does on its own changes what the callers asked for: it
\* takes the commands in order and neither the chirps nor the alarm loop, which
\* throws commands away, swallows a POOR or a STOP that still matters.
ThreadKeepsDemand == [][buzzer_thread => Demand(bz') = Demand(bz)]_bz

\* README "Buzzer Behaviour": a demanded alarm sounds, and one no longer
\* demanded falls silent, unless the demand changes again first.
AlarmSounds == Demand(bz) ~> (bz.tone = "alarm" \/ ~Demand(bz))
AlarmStops  == ~Demand(bz) ~> (bz.tone # "alarm" \/ Demand(bz))
=============================================================================
