--------------------------- MODULE SeenCacheProofs ---------------------------
(***************************************************************************)
(* A seen cache, read from its oldest entry to its newest, is a SeenWindow *)
(* of the same size: what add does to the circle is what Remember does to  *)
(* the sequence. Facts about values, for the modules that keep such caches *)
(* in their state.                                                         *)
(***************************************************************************)
EXTENDS SeenCache, SequenceTheorems, TLAPS

\* The valid entries are those before write_index, or all of them.
Filled(cache) ==
    \A i \in Slots : cache.entries[i] # NoPacket <=> (Full(cache) \/ i < cache.write_index)

\* The caches that the operations can build.
Reachable(Packets) == {cache \in Caches(Packets) : Filled(cache)}

\* The empty cache is one of them and remembers nothing.
LEMMA EmptyReachable ==
    ASSUME SIZE \in Nat \ {0}, NEW Packets
    PROVE  Empty \in Reachable(Packets) /\ OldestFirst(Empty) = <<>>
<1>1. Empty \in Caches(Packets)
  BY DEF Empty, Caches, Slots
<1>2. ~Full(Empty)
  BY DEF Full, Empty, Slots
<1>3. Filled(Empty)
  BY <1>2 DEF Filled, Empty, Slots
<1>4. OldestFirst(Empty) = <<>>
  BY <1>2 DEF OldestFirst, Empty
<1> QED
  BY <1>1, <1>3, <1>4 DEF Reachable

\* add, which the source calls for a packet that is not yet in the cache, builds such
\* a cache again.
LEMMA AddReachable ==
    ASSUME SIZE \in Nat \ {0}, NEW Packets, NoPacket \notin Packets,
           NEW cache \in Reachable(Packets), NEW p \in Packets
    PROVE  add(cache, p) \in Reachable(Packets)
<1> DEFINE w == cache.write_index
           next == add(cache, p)
<1>1. /\ cache.entries \in [Slots -> Packets \cup {NoPacket}]
      /\ w \in Slots
      /\ Filled(cache)
  BY DEF Reachable, Caches
<1>2. /\ next.entries = [cache.entries EXCEPT ![w] = p]
      /\ next.write_index = IF w + 1 >= SIZE THEN 0 ELSE w + 1
  BY DEF add
<1>3. next \in Caches(Packets)
  BY <1>1 DEF add, Caches, Slots
<1>4. Full(next) <=> Full(cache) \/ w = SIZE - 1
  BY <1>1, <1>2 DEF Full, Slots
<1>5. Filled(next)
  <2> SUFFICES ASSUME NEW i \in Slots
               PROVE  next.entries[i] # NoPacket <=> (Full(next) \/ i < next.write_index)
    BY DEF Filled
  <2>1. next.entries[i] # NoPacket <=> (i = w \/ Full(cache) \/ i < w)
    BY <1>1, <1>2 DEF Filled
  <2>2. i \in 0 .. SIZE - 1 /\ w \in 0 .. SIZE - 1
    BY <1>1 DEF Slots
  <2>3. CASE Full(cache)
    BY <2>1, <2>3, <1>4
  <2>4. CASE ~Full(cache) /\ w = SIZE - 1
    BY <2>1, <2>2, <2>4, <1>4
  <2>5. CASE ~Full(cache) /\ w # SIZE - 1
    <3>1. next.write_index = w + 1
      BY <1>2, <2>2, <2>5
    <3> QED BY <2>1, <2>2, <2>5, <1>4, <3>1
  <2> QED BY <2>3, <2>4, <2>5
<1> QED
  BY <1>3, <1>5 DEF Reachable

\* The window is a sequence of packets: its length, and the entries it is read from.
LEMMA WindowShape ==
    ASSUME SIZE \in Nat \ {0}, NEW Packets, NoPacket \notin Packets,
           NEW cache \in Reachable(Packets)
    PROVE  LET recent == OldestFirst(cache)
               w == cache.write_index
           IN  /\ recent \in Seq(Packets)
               /\ Len(recent) = IF Full(cache) THEN SIZE ELSE w
               /\ \A i \in 1 .. Len(recent) :
                      recent[i] = cache.entries[IF Full(cache) THEN InCircle(w + i - 1)
                                                ELSE i - 1]
<1> DEFINE w == cache.write_index
           length == IF Full(cache) THEN SIZE ELSE w
           slot(i) == IF Full(cache) THEN InCircle(w + i - 1) ELSE i - 1
<1>1. /\ cache.entries \in [Slots -> Packets \cup {NoPacket}]
      /\ w \in 0 .. SIZE - 1
      /\ Filled(cache)
  BY DEF Reachable, Caches, Slots
<1>2. OldestFirst(cache) = [i \in 1 .. length |-> cache.entries[slot(i)]]
  <2>1. CASE Full(cache)
    BY <2>1 DEF OldestFirst
  <2>2. CASE ~Full(cache)
    BY <2>2 DEF OldestFirst
  <2> QED BY <2>1, <2>2
<1>3. \A i \in 1 .. length : cache.entries[slot(i)] \in Packets
  <2> SUFFICES ASSUME NEW i \in 1 .. length
               PROVE  cache.entries[slot(i)] \in Packets
    OBVIOUS
  <2>1. slot(i) \in Slots /\ (Full(cache) \/ slot(i) < w)
    BY <1>1 DEF Slots, InCircle
  <2>2. cache.entries[slot(i)] # NoPacket
    BY <2>1, <1>1 DEF Filled
  <2> QED BY <2>1, <2>2, <1>1
<1>4. length \in Nat
  BY <1>1
<1> HIDE DEF length, slot
<1>5. OldestFirst(cache) \in [1 .. length -> Packets]
  BY <1>2, <1>3
<1>6. OldestFirst(cache) \in Seq(Packets) /\ Len(OldestFirst(cache)) = length
  BY <1>4, <1>5
<1> QED
  BY <1>2, <1>6 DEF length, slot

\* The window holds only what the cache contains.
LEMMA WindowContains ==
    ASSUME SIZE \in Nat \ {0}, NEW Packets, NoPacket \notin Packets,
           NEW cache \in Reachable(Packets), NEW p, ~contains(cache, p)
    PROVE  \A i \in DOMAIN OldestFirst(cache) : OldestFirst(cache)[i] # p
<1> DEFINE w == cache.write_index
<1>1. w \in 0 .. SIZE - 1
  BY DEF Reachable, Caches, Slots
<1>2. ASSUME NEW i \in DOMAIN OldestFirst(cache), Full(cache)
      PROVE  OldestFirst(cache)[i] # p
  <2>1. i \in 1 .. SIZE /\ OldestFirst(cache)[i] = cache.entries[InCircle(w + i - 1)]
    BY <1>2 DEF OldestFirst
  <2>2. InCircle(w + i - 1) \in Slots
    BY <1>1, <2>1 DEF InCircle, Slots
  <2> QED BY <2>1, <2>2 DEF contains
<1>3. ASSUME NEW i \in DOMAIN OldestFirst(cache), ~Full(cache)
      PROVE  OldestFirst(cache)[i] # p
  <2>1. i \in 1 .. w /\ OldestFirst(cache)[i] = cache.entries[i - 1]
    BY <1>3 DEF OldestFirst
  <2>2. i - 1 \in Slots
    BY <1>1, <2>1 DEF Slots
  <2> QED BY <2>1, <2>2 DEF contains
<1> QED BY <1>2, <1>3

\* A new packet goes to the end of the window, and the oldest leaves it when it is full.
LEMMA AddIsRemember ==
    ASSUME SIZE \in Nat \ {0}, NEW Packets, NoPacket \notin Packets,
           NEW cache \in Reachable(Packets), NEW p \in Packets
    PROVE  LET recent == OldestFirst(cache)
           IN  OldestFirst(add(cache, p)) =
                   IF Len(recent) < SIZE THEN Append(recent, p) ELSE Append(Tail(recent), p)
<1> DEFINE w == cache.write_index
           next == add(cache, p)
           v == next.write_index
           recent == OldestFirst(cache)
           kept == IF Len(recent) < SIZE THEN recent ELSE Tail(recent)
           after == OldestFirst(next)
<1>1. /\ cache.entries \in [Slots -> Packets \cup {NoPacket}]
      /\ w \in 0 .. SIZE - 1
  BY DEF Reachable, Caches, Slots
<1>2. /\ next.entries = [cache.entries EXCEPT ![w] = p]
      /\ v = IF w + 1 >= SIZE THEN 0 ELSE w + 1
  BY DEF add
<1>3. Full(next) <=> Full(cache) \/ w = SIZE - 1
  BY <1>1, <1>2 DEF Full, Slots
<1>4. /\ recent \in Seq(Packets)
      /\ Len(recent) = IF Full(cache) THEN SIZE ELSE w
      /\ \A i \in 1 .. Len(recent) :
             recent[i] = cache.entries[IF Full(cache) THEN InCircle(w + i - 1) ELSE i - 1]
  BY WindowShape
<1>5. next \in Reachable(Packets)
  BY AddReachable
<1>6. /\ after \in Seq(Packets)
      /\ Len(after) = IF Full(next) THEN SIZE ELSE v
      /\ \A i \in 1 .. Len(after) :
             after[i] = next.entries[IF Full(next) THEN InCircle(v + i - 1) ELSE i - 1]
  BY <1>5, WindowShape
<1> HIDE DEF recent, next, after
<1>7. Len(recent) < SIZE <=> ~Full(cache)
  BY <1>1, <1>4
<1>8. /\ kept \in Seq(Packets)
      /\ Len(kept) = IF Full(cache) THEN SIZE - 1 ELSE w
      /\ \A i \in 1 .. Len(kept) : kept[i] = IF Full(cache) THEN recent[i + 1] ELSE recent[i]
  <2>1. CASE Full(cache)
    <3>1. recent # <<>>
      BY <2>1, <1>4
    <3>2. /\ Tail(recent) \in Seq(Packets)
          /\ Len(Tail(recent)) = Len(recent) - 1
          /\ \A i \in 1 .. Len(Tail(recent)) : Tail(recent)[i] = recent[i + 1]
      BY <3>1, <1>4, HeadTailProperties
    <3> QED BY <2>1, <3>2, <1>4, <1>7
  <2>2. CASE ~Full(cache)
    BY <2>2, <1>4, <1>7
  <2> QED BY <2>1, <2>2
<1> HIDE DEF kept
<1>9. /\ Append(kept, p) \in Seq(Packets)
      /\ Len(Append(kept, p)) = Len(kept) + 1
      /\ \A i \in 1 .. Len(kept) : Append(kept, p)[i] = kept[i]
      /\ Append(kept, p)[Len(kept) + 1] = p
  BY <1>8, AppendProperties
<1>10. Len(after) = Len(kept) + 1
  BY <1>1, <1>2, <1>3, <1>6, <1>8
<1>11. ASSUME NEW i \in 1 .. Len(after)
       PROVE  after[i] = Append(kept, p)[i]
  <2> DEFINE slot == IF Full(next) THEN InCircle(v + i - 1) ELSE i - 1
  <2>1. after[i] = next.entries[slot]
    BY <1>6
  <2>2. i \in 1 .. Len(kept) + 1 /\ Len(kept) \in 0 .. SIZE - 1
    BY <1>10, <1>8, <1>1
  <2>3. CASE i = Len(kept) + 1
    <3>1. slot = w
      BY <2>2, <2>3, <1>1, <1>2, <1>3, <1>8 DEF InCircle
    <3>2. w \in Slots
      BY <1>1 DEF Slots
    <3> QED BY <3>1, <3>2, <2>1, <2>3, <1>1, <1>2, <1>9
  <2>4. CASE i # Len(kept) + 1
    <3>1. CASE Full(cache)
      <4>1. i \in 1 .. SIZE - 1 /\ Full(next)
        BY <2>2, <2>4, <3>1, <1>3, <1>8
      <4>2. slot = InCircle(w + i)
        BY <4>1, <1>1, <1>2 DEF InCircle
      <4>3. InCircle(w + i) \in Slots /\ InCircle(w + i) # w
        BY <4>1, <1>1 DEF InCircle, Slots
      <4>4. next.entries[slot] = cache.entries[InCircle(w + i)]
        BY <4>2, <4>3, <1>1, <1>2
      <4>5. i + 1 \in 1 .. Len(recent) /\ w + (i + 1) - 1 = w + i
        BY <4>1, <3>1, <1>1, <1>4
      <4>6. recent[i + 1] = cache.entries[InCircle(w + i)]
        BY <4>5, <3>1, <1>4
      <4>7. Append(kept, p)[i] = recent[i + 1]
        BY <4>1, <3>1, <1>8, <1>9
      <4> QED BY <4>4, <4>6, <4>7, <2>1
    <3>2. CASE ~Full(cache)
      <4>1. i \in 1 .. w
        BY <2>2, <2>4, <3>2, <1>8
      <4>2. slot = i - 1
        BY <4>1, <3>2, <1>1, <1>2, <1>3 DEF InCircle
      <4>3. i - 1 \in Slots /\ i - 1 # w
        BY <4>1, <1>1 DEF Slots
      <4>4. next.entries[slot] = cache.entries[i - 1]
        BY <4>2, <4>3, <1>1, <1>2
      <4>5. recent[i] = cache.entries[i - 1]
        BY <4>1, <3>2, <1>4
      <4>6. Append(kept, p)[i] = recent[i]
        BY <4>1, <3>2, <1>8, <1>9
      <4> QED BY <4>4, <4>5, <4>6, <2>1
    <3> QED BY <3>1, <3>2
  <2> QED BY <2>3, <2>4
<1>12. after = Append(kept, p)
  BY <1>6, <1>9, <1>10, <1>11, SeqEqual
<1> QED
  BY <1>12 DEF kept, after, recent, next

\* A window before and after a packet: the packet is remembered, or nothing changes.
Remembers(recent, after, p) ==
    \/ after = recent
    \/ /\ p \notin {recent[i] : i \in DOMAIN recent}
       /\ after = IF Len(recent) < SIZE THEN Append(recent, p) ELSE Append(Tail(recent), p)

\* check_and_add does to a cache what SeenWindow's Remember does to its window.
LEMMA CheckAndAdd ==
    ASSUME SIZE \in Nat \ {0}, NEW Packets, NoPacket \notin Packets,
           NEW cache \in Reachable(Packets), NEW p \in Packets
    PROVE  /\ check_and_add(cache, p) \in Reachable(Packets)
           /\ Remembers(OldestFirst(cache), OldestFirst(check_and_add(cache, p)), p)
<1>1. CASE contains(cache, p)
  BY <1>1 DEF check_and_add, Remembers
<1>2. CASE ~contains(cache, p)
  <2>1. check_and_add(cache, p) = add(cache, p)
    BY <1>2 DEF check_and_add
  <2>2. add(cache, p) \in Reachable(Packets)
    BY AddReachable
  <2>3. \A i \in DOMAIN OldestFirst(cache) : OldestFirst(cache)[i] # p
    BY <1>2, WindowContains
  <2> QED BY <2>1, <2>2, <2>3, AddIsRemember DEF Remembers
<1> QED BY <1>1, <1>2

\* The window holds all that the cache contains.
LEMMA ContainsWindow ==
    ASSUME SIZE \in Nat \ {0}, NEW Packets, NoPacket \notin Packets,
           NEW cache \in Reachable(Packets), NEW p \in Packets, contains(cache, p)
    PROVE  p \in {OldestFirst(cache)[i] : i \in DOMAIN OldestFirst(cache)}
<1> DEFINE w == cache.write_index
<1>1. w \in 0 .. SIZE - 1 /\ Filled(cache)
  BY DEF Reachable, Caches, Slots
<1>2. PICK s \in 0 .. SIZE - 1 : cache.entries[s] = p
  BY DEF contains, Slots
<1>3. CASE Full(cache)
  <2> DEFINE i == IF s >= w THEN s - w + 1 ELSE s - w + 1 + SIZE
  <2>1. i \in 1 .. SIZE /\ InCircle(w + i - 1) = s
    BY <1>1 DEF InCircle
  <2>2. i \in DOMAIN OldestFirst(cache) /\ OldestFirst(cache)[i] = p
    BY <1>2, <1>3, <2>1 DEF OldestFirst
  <2> QED BY <2>2
<1>4. CASE ~Full(cache)
  <2>1. s + 1 \in 1 .. w /\ (s + 1) - 1 = s
    BY <1>1, <1>2, <1>4 DEF Filled, Slots
  <2>2. s + 1 \in DOMAIN OldestFirst(cache) /\ OldestFirst(cache)[s + 1] = p
    BY <1>2, <1>4, <2>1 DEF OldestFirst
  <2> QED BY <2>2
<1> QED BY <1>3, <1>4

\* A packet that the cache does not contain is new to the window, which remembers it.
LEMMA NewIsRemembered ==
    ASSUME SIZE \in Nat \ {0}, NEW Packets, NoPacket \notin Packets,
           NEW cache \in Reachable(Packets), NEW p \in Packets, ~contains(cache, p)
    PROVE  LET recent == OldestFirst(cache)
           IN  /\ p \notin {recent[i] : i \in DOMAIN recent}
               /\ OldestFirst(check_and_add(cache, p)) =
                      IF Len(recent) < SIZE THEN Append(recent, p) ELSE Append(Tail(recent), p)
<1>1. check_and_add(cache, p) = add(cache, p)
  BY DEF check_and_add
<1>2. \A i \in DOMAIN OldestFirst(cache) : OldestFirst(cache)[i] # p
  BY WindowContains
<1> QED BY <1>1, <1>2, AddIsRemember

-----------------------------------------------------------------------------
(* How much a cache holds before it forgets.                               *)

\* No packet is there twice.
Distinct(cache) ==
    \A i, j \in Slots :
        cache.entries[i] = cache.entries[j] /\ cache.entries[i] # NoPacket => i = j

LEMMA EmptyDistinct == Distinct(Empty)
BY DEF Distinct, Empty

\* A new packet comes to the others, and to all of them while there is room.
LEMMA AddContains ==
    ASSUME SIZE \in Nat \ {0}, NEW Packets, NoPacket \notin Packets,
           NEW cache \in Reachable(Packets), Distinct(cache),
           NEW p \in Packets, ~contains(cache, p)
    PROVE  /\ Distinct(add(cache, p))
           /\ contains(add(cache, p), p)
           /\ \A q : contains(add(cache, p), q) => contains(cache, q) \/ q = p
           /\ ~Full(cache) =>
                  \A q \in Packets : contains(cache, q) => contains(add(cache, p), q)
<1> DEFINE w == cache.write_index
           next == add(cache, p)
<1>1. /\ cache.entries \in [Slots -> Packets \cup {NoPacket}]
      /\ w \in Slots
      /\ Filled(cache)
  BY DEF Reachable, Caches
<1>2. \A i \in Slots : next.entries[i] = IF i = w THEN p ELSE cache.entries[i]
  BY <1>1 DEF add
<1>3. \A i \in Slots : cache.entries[i] # p
  BY DEF contains
<1> HIDE DEF next
<1>4. Distinct(next)
  BY <1>2, <1>3 DEF Distinct
<1>5. contains(next, p)
  BY <1>1, <1>2 DEF contains
<1>6. \A q : contains(next, q) => contains(cache, q) \/ q = p
  BY <1>2 DEF contains
<1>7. ASSUME ~Full(cache), NEW q \in Packets, contains(cache, q)
      PROVE  contains(next, q)
  <2>1. cache.entries[w] = NoPacket
    BY <1>1, <1>7 DEF Filled, Slots
  <2>2. PICK i \in Slots : cache.entries[i] = q
    BY <1>7 DEF contains
  <2>3. i # w
    BY <2>1, <2>2
  <2> QED BY <1>2, <2>2, <2>3 DEF contains
<1> QED BY <1>4, <1>5, <1>6, <1>7 DEF next

\* A full cache holds as many different packets as it has slots.
LEMMA FullOfDistinct ==
    ASSUME SIZE \in Nat \ {0}, NEW Packets, NEW cache \in Reachable(Packets),
           Distinct(cache), Full(cache)
    PROVE  /\ cache.entries \in [0 .. SIZE - 1 -> Packets]
           /\ \A i \in 0 .. SIZE - 1 : contains(cache, cache.entries[i])
           /\ \A i, j \in 0 .. SIZE - 1 : cache.entries[i] = cache.entries[j] => i = j
<1>1. /\ cache.entries \in [Slots -> Packets \cup {NoPacket}]
      /\ Filled(cache)
  BY DEF Reachable, Caches
<1>2. \A i \in Slots : cache.entries[i] # NoPacket /\ contains(cache, cache.entries[i])
  BY <1>1 DEF Filled, contains
<1>3. cache.entries \in [Slots -> Packets]
  BY <1>1, <1>2
<1>4. \A i, j \in Slots : cache.entries[i] = cache.entries[j] => i = j
  BY <1>2 DEF Distinct
<1> QED BY <1>2, <1>3, <1>4 DEF Slots
=============================================================================
