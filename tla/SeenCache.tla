------------------------------ MODULE SeenCache ------------------------------
(***************************************************************************)
(* The seen caches of a sensor node (node_helpers.c): an array filled in a *)
(* circle. The source has it twice, once for samples and once for          *)
(* commands; here a cache is a record and the operations are operators on  *)
(* it. Each is called under the cache's mutex, so it is one step.          *)
(*                                                                         *)
(* A packet stands for what identifies it: origin and number of a sample,  *)
(* number and command of a command.                                        *)
(*                                                                         *)
(* A definition whose name starts with Bad is a plausible slip; see Buzzer.*)
(***************************************************************************)
EXTENDS Naturals, Sequences

CONSTANT SIZE   \* SEEN_SENSOR_CACHE_SIZE, SEEN_COMMAND_CACHE_SIZE (32)

NoPacket == <<>>    \* an entry that is not valid
Slots == 0 .. SIZE - 1

\* The caches over a set of packets.
Caches(Packets) ==
    [entries : [Slots -> Packets \cup {NoPacket}], write_index : Slots]

Empty == [entries |-> [i \in Slots |-> NoPacket], write_index |-> 0]

contains(cache, p) == \E i \in Slots : cache.entries[i] = p

BadAddStays(cache, p) == [cache EXCEPT !.entries[cache.write_index] = p]

add(cache, p) ==
    [entries |-> [cache.entries EXCEPT ![cache.write_index] = p],
     write_index |-> IF cache.write_index + 1 >= SIZE THEN 0 ELSE cache.write_index + 1]

\* The cache after the call; whether p was already seen is contains(cache, p).
check_and_add(cache, p) == IF contains(cache, p) THEN cache ELSE add(cache, p)

-----------------------------------------------------------------------------
(* The cache as SeenWindow sees it.                                        *)

\* Entries are filled from 0 up; once the last one is valid all are.
Full(cache) == cache.entries[SIZE - 1] # NoPacket

InCircle(i) == IF i < SIZE THEN i ELSE i - SIZE

\* From the oldest entry, which is the next to be overwritten, to the newest.
OldestFirst(cache) ==
    IF Full(cache)
    THEN [i \in 1 .. SIZE |-> cache.entries[InCircle(cache.write_index + i - 1)]]
    ELSE [i \in 1 .. cache.write_index |-> cache.entries[i - 1]]
=============================================================================
