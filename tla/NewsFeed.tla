------------------------------ MODULE NewsFeed ------------------------------
(***************************************************************************)
(* What the base node may rely on: the mobile node sends in bursts; in a   *)
(* burst there is no more than one record of a node; each record is of a   *)
(* sample the node took, and newer than every record sent of the same lap  *)
(* of its counter. A record may get lost, or never be sent; and after a    *)
(* reboot of the node a late record of the lap before may follow one of    *)
(* the new lap: the counter alone cannot tell.                             *)
(***************************************************************************)
EXTENDS Integers

CONSTANTS
    Nodes,      \* sensor nodes
    Laps,       \* laps of their counters
    Seqs        \* values of the counters

VARIABLES
    newest,     \* lap and number of each node's newest sample
    sent,       \* the last number sent, per node and lap
    burst       \* the records whose turn in this burst is over

vars == <<newest, sent, burst>>

Sample == [id : Nodes, lap : Laps, seq : Seqs]

Later(a, b) == a.lap > b.lap \/ (a.lap = b.lap /\ a.seq > b.seq)

Init ==
    /\ newest = [n \in Nodes |-> [lap |-> 0, seq |-> 0]]
    /\ sent = [n \in Nodes |-> [l \in Laps |-> -1]]
    /\ burst = {}

\* A node samples, or starts again.
Progress(n) ==
    /\ UNCHANGED <<sent, burst>>
    /\ \E s \in [lap : Laps, seq : Seqs] :
          Later(s, newest[n]) /\ newest' = [newest EXCEPT ![n] = s]

\* It is a record's turn: it is news, of a node that had no turn in this burst.
Turn(r) ==
    /\ UNCHANGED newest
    /\ burst' = burst \cup {r}
    /\ \A q \in burst : q.id # r.id
    /\ r.seq > sent[r.id][r.lap]
    /\ ~Later(r, newest[r.id])

Send(r) == Turn(r) /\ sent' = [sent EXCEPT ![r.id][r.lap] = r.seq]

Fail(r) == Turn(r) /\ UNCHANGED sent

EndBurst == burst' = {} /\ UNCHANGED <<newest, sent>>

Next ==
    \/ \E n \in Nodes : Progress(n)
    \/ \E r \in Sample : Send(r) \/ Fail(r)
    \/ EndBurst

Spec == Init /\ [][Next]_vars
=============================================================================
