-------------------------- MODULE AddressSweepProofs --------------------------
(***************************************************************************)
(* What the sweeps of host discovery guarantee, for any ranges, any size   *)
(* of a chunk, any rates and any number of sweeps that share the limiters. *)
(*                                                                         *)
(* SweepInv follows the addresses of one sweep from the producer through   *)
(* the channel and the slots to the wire.  RateInv keeps the accounts of   *)
(* the global limiter; the packets that senders have paid for are counted  *)
(* as a set of pairs, a sender and the number of a packet.                 *)
(***************************************************************************)
EXTENDS AddressSweep, FiniteSetTheorems, SequenceTheorems, TLAPS

-------------------------------------------------------------------------------
(* Numbers.                                                                *)

LEMMA MinOfTwo ==
  ASSUME NEW a \in Int, NEW b \in Int
  PROVE  Min({a, b}) = IF a <= b THEN a ELSE b
<1>1. \E x \in {a, b} : \A y \in {a, b} : x <= y
  OBVIOUS
<1> QED BY <1>1 DEF Min

LEMMA MaxOfTwo ==
  ASSUME NEW a \in Int, NEW b \in Int
  PROVE  Max({a, b}) = IF a >= b THEN a ELSE b
<1>1. \E x \in {a, b} : \A y \in {a, b} : x >= y
  OBVIOUS
<1> QED BY <1>1 DEF Max

\* Rounding up a division.
LEMMA RoundedUp ==
  ASSUME NEW a \in Nat, NEW b \in Nat \ {0}
  PROVE  (a + b - 1) \div b \in Nat /\ ((a + b - 1) \div b) * b >= a
OBVIOUS

LEMMA Monotone ==
  ASSUME NEW a \in Nat, NEW b \in Nat, NEW c \in Nat, a <= b
  PROVE  a * c <= b * c /\ a * c \in Nat
OBVIOUS

LEMMA Cancels ==
  ASSUME NEW t \in Nat \ {0}, NEW x \in Int, NEW y \in Int, t * x <= t * y
  PROVE  x <= y
OBVIOUS

-------------------------------------------------------------------------------
(* Ranges and chunks.                                                      *)

\* The ends of a range are addresses, in order.
LEMMA RangeTyped ==
  ASSUME TypeOK, NEW s \in Senders
  PROVE  /\ First(s) \in Address /\ Last(s) \in Address /\ First(s) <= Last(s)
         /\ Address \subseteq Int /\ RangeOf(s) \subseteq Address
         /\ NoEnd \notin Address /\ Chunk \in Nat \ {0} /\ Space \in Nat
<1>1. /\ target[s].first \in Address /\ target[s].last \in Address \cup {NoEnd}
      /\ NoEnd \notin Int /\ Space \in Nat /\ Chunk \in Nat \ {0}
  BY SweepAssumption DEF TypeOK
<1>2. Address \subseteq Int /\ NoEnd \notin Address /\ target[s].first \in Int
  BY <1>1 DEF Address
<1>3. /\ First(s) \in Address /\ Last(s) \in Address /\ First(s) <= Last(s)
  <2>1. CASE Single(s)
    BY <1>1, <1>2, <2>1 DEF First, Last
  <2>2. CASE ~Single(s)
    <3>1. target[s].last \in Address /\ target[s].last \in Int
      BY <1>1, <1>2, <2>2 DEF Single
    <3> QED BY <1>1, <1>2, <2>2, <3>1, MinOfTwo, MaxOfTwo DEF First, Last
  <2> QED BY <2>1, <2>2
<1> QED BY <1>1, <1>2, <1>3 DEF RangeOf, Address

\* A chunk is n addresses in some order.
ChunkOf(a, n, order) == [i \in 1..n |-> a + order[i] - 1]

LEMMA ChunkFilled ==
  ASSUME NEW s \in Senders, NEW a \in Int, NEW n \in Nat, NEW order \in Orders(s, n),
         NEW c, c = ChunkOf(a, n, order)
  PROVE  /\ a..a+n-1 \subseteq Address => c \in Seq(Address)
         /\ Len(c) = n /\ DOMAIN c = 1..n
         /\ IsInjective(c) /\ Range(c) = a..a+n-1
<1>1. /\ order \in [1..n -> 1..n]
      /\ \A i, j \in 1..n : order[i] = order[j] => i = j
      /\ \A k \in 1..n : \E i \in 1..n : order[i] = k
  BY DEF Orders, Bijection, Injection, Surjection, IsInjective
<1>2. c \in [1..n -> Int]
  BY <1>1 DEF ChunkOf
<1>3. c \in Seq(Int) /\ Len(c) = n /\ DOMAIN c = 1..n
  BY <1>2
<1>4. \A i \in 1..n : c[i] = a + order[i] - 1 /\ order[i] \in 1..n
  BY <1>1 DEF ChunkOf
<1>5. IsInjective(c)
  <2> SUFFICES ASSUME NEW i \in 1..n, NEW j \in 1..n, c[i] = c[j] PROVE i = j
    BY <1>3 DEF IsInjective
  <2>1. a + order[i] - 1 = a + order[j] - 1 /\ order[i] \in Int /\ order[j] \in Int
    BY <1>4
  <2>2. order[i] = order[j]
    BY <2>1
  <2> QED BY <1>1, <2>2
<1>6. Range(c) \subseteq a..a+n-1
  <2> SUFFICES ASSUME NEW i \in 1..n PROVE c[i] \in a..a+n-1
    BY <1>3 DEF Range
  <2> QED BY <1>4
<1>7. ASSUME NEW x \in a..a+n-1 PROVE x \in Range(c)
  <2>1. x - a + 1 \in 1..n
    OBVIOUS
  <2>2. PICK i \in 1..n : order[i] = x - a + 1
    BY <1>1, <2>1
  <2>3. c[i] = x
    BY <1>4, <2>2
  <2> QED BY <1>3, <2>3 DEF Range
<1>8. a..a+n-1 \subseteq Address => c \in Seq(Address)
  <2>1. \A i \in 1..n : c[i] \in a..a+n-1
    BY <1>4
  <2> QED BY <1>3, <2>1
<1> QED BY <1>3, <1>5, <1>6, <1>7, <1>8

-------------------------------------------------------------------------------
(* One sweep and the others.                                               *)

SweepOK(s) == ChunksInv(s) /\ SlotsInv(s) /\ AskedInv(s) /\ RefusedInv(s)
IInv == TypeOK /\ SweepInv

\* A step leaves the sender, the channel and the slots, the counts of a sweep alone.
SameProducer(q) == cursor'[q] = cursor[q] /\ producer'[q] = producer[q]
SameChunks(q)   == chunks'[q] = chunks[q]
SameSender(q)   == sendPc'[q] = sendPc[q] /\ ipChunk'[q] = ipChunk[q] /\ slots'[q] = slots[q]
SameWire(q)     == asked'[q] = asked[q] /\ lost'[q] = lost[q]
SameSweep(q)    == SameProducer(q) /\ SameChunks(q) /\ SameSender(q) /\ SameWire(q)
Fixed           == target' = target /\ pps' = pps

\* What is derived from the parts that stay stays.
LEMMA SameRange ==
  ASSUME NEW q \in Senders, Fixed
  PROVE  First(q)' = First(q) /\ Last(q)' = Last(q) /\ RangeOf(q)' = RangeOf(q)
BY DEF Fixed, First, Last, Single, RangeOf

LEMMA SameHanded ==
  ASSUME NEW q \in Senders, Fixed, SameProducer(q)
  PROVE  Handed(q)' = Handed(q) /\ (AllHanded(q)' <=> AllHanded(q))
BY SameRange DEF SameProducer, Handed, AllHanded

LEMMA SameInChunks ==
  ASSUME NEW q \in Senders, SameChunks(q)
  PROVE  InChunks(q)' = InChunks(q)
BY DEF SameChunks, InChunks

LEMMA SameTouched ==
  ASSUME NEW q \in Senders, SameWire(q)
  PROVE  Touched(q)' = Touched(q)
BY DEF SameWire, Touched

LEMMA SameCharge ==
  ASSUME NEW q \in Senders, Fixed, ipChunk'[q] = ipChunk[q]
  PROVE  Charge(q)' = Charge(q)
BY DEF Fixed, Charge

\* A sweep that nothing happens to keeps its invariant.
LEMMA SweepKept ==
  ASSUME NEW q \in Senders, Fixed, SameSweep(q), SweepOK(q)
  PROVE  SweepOK(q)'
<1> USE DEF SameSweep
<1>1. /\ First(q)' = First(q) /\ Last(q)' = Last(q) /\ Handed(q)' = Handed(q)
      /\ (AllHanded(q)' <=> AllHanded(q)) /\ InChunks(q)' = InChunks(q)
      /\ Touched(q)' = Touched(q) /\ Charge(q)' = Charge(q)
  BY SameRange, SameHanded, SameInChunks, SameTouched, SameCharge DEF SameSender
<1>2. (Taken(q)' <=> Taken(q)) /\ (Exhausted(q)' <=> Exhausted(q))
  BY <1>1 DEF Taken, Exhausted, SameSender, SameChunks
<1>3. ChunksInv(q)'
  BY <1>1 DEF SweepOK, ChunksInv, SameProducer, SameChunks, Fixed
<1>4. SlotsInv(q)'
  BY <1>1, <1>2 DEF SweepOK, SlotsInv, SameSender
<1>5. AskedInv(q)'
  BY <1>1, <1>2 DEF SweepOK, AskedInv, SameSender, SameProducer, SameWire, Fixed
<1>6. RefusedInv(q)'
  BY <1>1, <1>2 DEF SweepOK, RefusedInv, SameSender, Fixed
<1> QED BY <1>3, <1>4, <1>5, <1>6 DEF SweepOK

\* So a step of one sweep is only about that one.
LEMMA OneSweep ==
  ASSUME SweepInv, Fixed, NEW s \in Senders, \A q \in Senders \ {s} : SameSweep(q), SweepOK(s)'
  PROVE  SweepInv'
<1>1. ASSUME NEW q \in Senders PROVE SweepOK(q)'
  <2>1. CASE q = s
    BY <2>1
  <2>2. CASE q # s
    BY <2>2, SweepKept DEF SweepInv, SweepOK
  <2> QED BY <2>1, <2>2
<1> QED BY <1>1 DEF SweepInv, SweepOK

-------------------------------------------------------------------------------
(* The producer.                                                           *)

\* What an address in the channel is.
LEMMA QueuedAddress ==
  ASSUME NEW s \in Senders, NEW x
  PROVE  x \in InChunks(s) <=> \E i \in DOMAIN chunks[s] : x \in Range(chunks[s][i])
BY DEF InChunks

\* One more chunk in the channel.
LEMMA OneMoreChunk ==
  ASSUME NEW s \in Senders, NEW c \in Seq(Address), chunks[s] \in Seq(Seq(Address)),
         chunks'[s] = Append(chunks[s], c)
  PROVE  /\ Len(chunks[s]) \in Nat /\ DOMAIN chunks[s] = 1..Len(chunks[s])
         /\ DOMAIN chunks'[s] = DOMAIN chunks[s] \cup {Len(chunks[s]) + 1}
         /\ Len(chunks[s]) + 1 \notin DOMAIN chunks[s]
         /\ Len(chunks'[s]) = Len(chunks[s]) + 1 /\ chunks'[s][Len(chunks[s]) + 1] = c
         /\ \A i \in DOMAIN chunks[s] : chunks'[s][i] = chunks[s][i]
         /\ InChunks(s)' = InChunks(s) \cup Range(c)
<1>1. /\ Len(chunks[s]) \in Nat /\ DOMAIN chunks[s] = 1..Len(chunks[s])
      /\ DOMAIN chunks'[s] = 1..Len(chunks[s])+1
      /\ Len(chunks'[s]) = Len(chunks[s]) + 1 /\ chunks'[s][Len(chunks[s]) + 1] = c
      /\ \A i \in 1..Len(chunks[s]) : chunks'[s][i] = chunks[s][i]
  OBVIOUS
<1>2. DOMAIN chunks'[s] = DOMAIN chunks[s] \cup {Len(chunks[s]) + 1}
  BY <1>1
<1>3. \A x : x \in InChunks(s)' <=> \E i \in DOMAIN chunks'[s] : x \in Range(chunks'[s][i])
  BY DEF InChunks
<1>4. \A x : x \in InChunks(s) <=> \E i \in DOMAIN chunks[s] : x \in Range(chunks[s][i])
  BY QueuedAddress
<1>5. ASSUME NEW x \in InChunks(s)' PROVE x \in InChunks(s) \cup Range(c)
  <2>1. PICK i \in DOMAIN chunks'[s] : x \in Range(chunks'[s][i])
    BY <1>3
  <2> QED BY <1>1, <1>2, <1>4, <2>1
<1>6. ASSUME NEW x \in InChunks(s) PROVE x \in InChunks(s)'
  <2>1. PICK i \in DOMAIN chunks[s] : x \in Range(chunks[s][i])
    BY <1>4
  <2> QED BY <1>1, <1>2, <1>3, <2>1
<1>7. Range(c) \subseteq InChunks(s)'
  BY <1>1, <1>2, <1>3
<1> QED BY <1>1, <1>2, <1>5, <1>6, <1>7

LEMMA StaysBelow ==
  ASSUME NEW a \in Int, NEW b \in Int, NEW n \in Nat, NEW z \in Int, a <= b, b + n <= z + 1
  PROVE  b + n \in a..z+1
OBVIOUS

\* An interval that goes on.
LEMMA LongerInterval ==
  ASSUME NEW a \in Int, NEW b \in Int, NEW n \in Nat, a <= b
  PROVE  /\ a..b+n-1 = (a..b-1) \cup (b..b+n-1)
         /\ (a..b-1) \cap (b..b+n-1) = {}
OBVIOUS

\* A chunk of the next n addresses is handed over, all that are left or a full one.
LEMMA ProducerKeeps ==
  ASSUME TypeOK, NEW s \in Senders, SweepOK(s), Fixed, SameSender(s), SameWire(s),
         producer[s] = "run", cursor[s] <= Last(s),
         NEW n \in Nat, n = IF Last(s) - cursor[s] + 1 <= Chunk THEN Last(s) - cursor[s] + 1 ELSE Chunk,
         NEW c \in Seq(Address), Len(c) = n, IsInjective(c), Range(c) = cursor[s]..cursor[s]+n-1,
         chunks'[s] = Append(chunks[s], c),
         Handed(s)' = First(s)..cursor[s]+n-1, AllHanded(s)' <=> cursor[s] + n > Last(s),
         producer'[s] = "run" => cursor'[s] = cursor[s] + n,
         target[s].kind = "ping6" /\ producer'[s] = "run" => cursor'[s] <= Last(s),
         producer'[s] # "closed"
  PROVE  SweepOK(s)'
<1>1. /\ First(s) \in Int /\ Last(s) \in Int /\ Chunk \in Nat \ {0} /\ cursor[s] \in Int
      /\ First(s)' = First(s) /\ Last(s)' = Last(s) /\ cursor[s] >= First(s)
      /\ Handed(s) = First(s)..cursor[s]-1
  <2>1. First(s) \in Int /\ Last(s) \in Int /\ Chunk \in Nat \ {0}
    BY RangeTyped
  <2>2. cursor[s] \in Int
    BY SweepAssumption DEF TypeOK
  <2>3. cursor[s] \in First(s)..Last(s)+1
    BY DEF SweepOK, ChunksInv
  <2> QED BY <2>1, <2>2, <2>3, SameRange DEF Handed
<1>2. n >= 1 /\ n <= Chunk /\ (n < Chunk => AllHanded(s)') /\ cursor[s] + n <= Last(s) + 1
  BY <1>1
<1>3. ~AllHanded(s) /\ ~Exhausted(s)
  BY <1>1 DEF AllHanded, Exhausted
<1>4. chunks[s] \in Seq(Seq(Address))
  BY DEF TypeOK
<1>5. c # <<>>
  BY <1>2
<1>6. Handed(s)' = Handed(s) \cup Range(c) /\ Handed(s) \cap Range(c) = {}
  BY <1>1, LongerInterval
<1>7. \A i \in DOMAIN chunks[s] :
        /\ chunks[s][i] # <<>> /\ Len(chunks[s][i]) <= Chunk /\ ~(Len(chunks[s][i]) < Chunk)
        /\ IsInjective(chunks[s][i]) /\ Range(chunks[s][i]) \subseteq Handed(s)
  BY <1>3 DEF SweepOK, ChunksInv
<1>8. /\ DOMAIN chunks'[s] = DOMAIN chunks[s] \cup {Len(chunks[s]) + 1}
      /\ Len(chunks[s]) + 1 \notin DOMAIN chunks[s]
      /\ Len(chunks'[s]) = Len(chunks[s]) + 1 /\ chunks'[s][Len(chunks[s]) + 1] = c
      /\ \A i \in DOMAIN chunks[s] : chunks'[s][i] = chunks[s][i]
      /\ InChunks(s)' = InChunks(s) \cup Range(c)
  BY <1>4, OneMoreChunk
<1>9. InChunks(s) \subseteq Handed(s)
  BY <1>7, QueuedAddress
<1>10. (Taken(s)' <=> Taken(s)) /\ Touched(s)' = Touched(s) /\ Charge(s)' = Charge(s)
  BY SameTouched, SameCharge DEF Taken, SameSender
<1>11. ChunksInv(s)'
  <2>1. producer'[s] = "run" => cursor'[s] \in First(s)..Last(s)+1
    <3>1. cursor[s] + n \in First(s)..Last(s)+1
      BY <1>1, <1>2, StaysBelow
    <3> QED BY <3>1
  <2>2. ASSUME NEW i \in DOMAIN chunks'[s]
        PROVE  /\ chunks'[s][i] # <<>> /\ Len(chunks'[s][i]) <= Chunk
               /\ IsInjective(chunks'[s][i]) /\ Range(chunks'[s][i]) \subseteq Handed(s)'
               /\ Len(chunks'[s][i]) < Chunk => i = Len(chunks'[s]) /\ AllHanded(s)'
    <3>1. CASE i = Len(chunks[s]) + 1
      BY <1>2, <1>8, <1>5, <1>6, <3>1
    <3>2. CASE i \in DOMAIN chunks[s]
      BY <1>8, <1>6, <1>7, <3>2
    <3> QED BY <1>8, <3>1, <3>2
  <2>3. ASSUME NEW i \in DOMAIN chunks'[s], NEW j \in DOMAIN chunks'[s], i # j
        PROVE  Range(chunks'[s][i]) \cap Range(chunks'[s][j]) = {}
    <3>1. CASE i \in DOMAIN chunks[s] /\ j \in DOMAIN chunks[s]
      BY <1>8, <2>3, <3>1 DEF SweepOK, ChunksInv
    <3>2. CASE i = Len(chunks[s]) + 1 /\ j \in DOMAIN chunks[s]
      BY <1>8, <1>6, <1>7, <3>2
    <3>3. CASE j = Len(chunks[s]) + 1 /\ i \in DOMAIN chunks[s]
      BY <1>8, <1>6, <1>7, <3>3
    <3> QED BY <1>8, <2>3, <3>1, <3>2, <3>3
  <2> QED BY <1>1, <2>1, <2>2, <2>3 DEF ChunksInv, Fixed
<1>12. SlotsInv(s)'
  <2>1. \A i \in 1..Chunk : slots[s][i] # NoEnd => slots[s][i] \in Handed(s)' \ InChunks(s)'
    BY <1>6, <1>8 DEF SweepOK, SlotsInv
  <2> QED BY <1>3, <1>10, <2>1 DEF SweepOK, SlotsInv, SameSender
<1>13. AskedInv(s)'
  <2>1. Touched(s) \subseteq Handed(s)' \ InChunks(s)'
    BY <1>6, <1>8 DEF SweepOK, AskedInv
  <2>2. sendPc[s] # "done" /\ \A a \in Address : asked[s][a] <= 1
    BY <1>3 DEF SweepOK, AskedInv
  <2> QED BY <1>6, <1>8, <1>10, <2>1, <2>2 DEF SweepOK, AskedInv, SameSender, SameWire
<1>14. RefusedInv(s)'
  BY <1>3, <1>10 DEF SweepOK, RefusedInv, SameSender, Fixed
<1> QED BY <1>11, <1>12, <1>13, <1>14 DEF SweepOK

\* The size of the next chunk.
NextSizeOf(s) == IF Last(s) - cursor[s] + 1 <= Chunk THEN Last(s) - cursor[s] + 1 ELSE Chunk

LEMMA NextSize ==
  ASSUME TypeOK, NEW s \in Senders, SweepOK(s), producer[s] = "run", cursor[s] <= Last(s)
  PROVE  /\ Min({Last(s) - cursor[s] + 1, Chunk}) = NextSizeOf(s)
         /\ NextSizeOf(s) \in Nat /\ NextSizeOf(s) >= 1 /\ NextSizeOf(s) <= Chunk
         /\ cursor[s] \in Int /\ First(s) \in Int /\ Last(s) \in Int /\ First(s) <= cursor[s]
         /\ cursor[s] + NextSizeOf(s) <= Last(s) + 1 /\ cursor[s] >= 0 /\ Last(s) < Space
         /\ cursor[s]..cursor[s]+NextSizeOf(s)-1 \subseteq Address
<1>1. /\ First(s) \in Int /\ Last(s) \in Int /\ Chunk \in Nat \ {0} /\ Space \in Nat
      /\ First(s) >= 0 /\ Last(s) < Space
  BY RangeTyped DEF Address
<1>2. cursor[s] \in Int
  BY <1>1 DEF TypeOK
<1>3. First(s) <= cursor[s]
  <2>1. cursor[s] \in First(s)..Last(s)+1
    BY DEF SweepOK, ChunksInv
  <2> QED BY <1>1, <1>2, <2>1
<1>4. Min({Last(s) - cursor[s] + 1, Chunk}) = NextSizeOf(s)
  BY <1>1, <1>2, MinOfTwo DEF NextSizeOf
<1>5. /\ NextSizeOf(s) \in Nat /\ NextSizeOf(s) >= 1 /\ NextSizeOf(s) <= Chunk
      /\ cursor[s] + NextSizeOf(s) <= Last(s) + 1
  BY <1>1, <1>2 DEF NextSizeOf
<1> QED BY <1>1, <1>2, <1>3, <1>4, <1>5 DEF Address

\* What is handed over is a chunk of the next addresses.
LEMMA HandedOver ==
  ASSUME TypeOK, NEW s \in Senders, NEW n \in Nat, cursor[s] \in Int,
         cursor[s]..cursor[s]+n-1 \subseteq Address, HandOver(s, cursor[s], n)
  PROVE  /\ \E c \in Seq(Address) :
              /\ Len(c) = n /\ IsInjective(c) /\ Range(c) = cursor[s]..cursor[s]+n-1
              /\ chunks'[s] = Append(chunks[s], c)
         /\ \A q \in Senders \ {s} : chunks'[q] = chunks[q]
         /\ chunks' \in [Senders -> Seq(Seq(Address))]
         /\ \A q \in Senders : Len(chunks'[q]) <= ChunksCap
<1>1. PICK order \in Orders(s, n) :
        chunks' = [chunks EXCEPT ![s] = Append(@, ChunkOf(cursor[s], n, order))]
  BY DEF HandOver, ChunkOf
<1> DEFINE c == ChunkOf(cursor[s], n, order)
<1> HIDE DEF c
<1>2. c \in Seq(Address) /\ Len(c) = n /\ IsInjective(c) /\ Range(c) = cursor[s]..cursor[s]+n-1
  <2>1. order \in Orders(s, n)
    BY <1>1
  <2>2. c = ChunkOf(cursor[s], n, order)
    BY DEF c
  <2>3. Len(c) = n /\ IsInjective(c) /\ Range(c) = cursor[s]..cursor[s]+n-1
    BY <2>1, <2>2, ChunkFilled
  <2>4. cursor[s]..cursor[s]+n-1 \subseteq Address => c \in Seq(Address)
    BY <2>1, <2>2, ChunkFilled
  <2> QED BY <2>3, <2>4
<1>3. chunks \in [Senders -> Seq(Seq(Address))] /\ ChunksCap \in Nat
  BY SweepAssumption DEF TypeOK
<1>4. chunks' = [chunks EXCEPT ![s] = Append(@, c)]
  BY <1>1 DEF c
<1>5. Append(chunks[s], c) \in Seq(Seq(Address)) /\ Len(Append(chunks[s], c)) = Len(chunks[s]) + 1
  BY <1>2, <1>3
<1>6. /\ chunks'[s] = Append(chunks[s], c) /\ \A q \in Senders \ {s} : chunks'[q] = chunks[q]
      /\ chunks' \in [Senders -> Seq(Seq(Address))]
  BY <1>3, <1>4, <1>5
<1>7. Len(chunks'[s]) <= ChunksCap
  <2>1. Len(chunks[s]) \in Nat /\ Len(chunks[s]) < ChunksCap
    BY <1>3 DEF HandOver
  <2> QED BY <1>3, <1>5, <1>6, <2>1
<1> QED BY <1>2, <1>6, <1>7 DEF TypeOK

LEMMA Produce4Inv == ASSUME IInv, NEW s \in Senders, Produce4(s) PROVE IInv'
<1> DEFINE n == NextSizeOf(s)
<1>1. SweepOK(s) /\ TypeOK /\ producer[s] = "run" /\ cursor[s] <= Last(s)
  BY DEF Produce4, IInv, SweepInv, SweepOK
<1>2. /\ Min({Last(s) - cursor[s] + 1, Chunk}) = n /\ n \in Nat /\ n >= 1
      /\ cursor[s] \in Int /\ First(s) \in Int /\ Last(s) \in Int
      /\ cursor[s] + n <= Last(s) + 1 /\ cursor[s] >= 0 /\ Last(s) < Space
      /\ cursor[s]..cursor[s]+n-1 \subseteq Address
      /\ n = IF Last(s) - cursor[s] + 1 <= Chunk THEN Last(s) - cursor[s] + 1 ELSE Chunk
  BY <1>1, NextSize DEF NextSizeOf
<1> HIDE DEF n
<1>3. /\ HandOver(s, cursor[s], n) /\ cursor' = [cursor EXCEPT ![s] = cursor[s] + n]
      /\ target[s].kind # "ping6" /\ UNCHANGED <<limiterVars, target, producer, sending, wire>>
  BY <1>2 DEF Produce4
<1>4. cursor'[s] = cursor[s] + n /\ \A q \in Senders \ {s} : cursor'[q] = cursor[q]
  BY <1>1, <1>3 DEF TypeOK
<1>5. PICK c \in Seq(Address) :
        /\ Len(c) = n /\ IsInjective(c) /\ Range(c) = cursor[s]..cursor[s]+n-1
        /\ chunks'[s] = Append(chunks[s], c)
  BY <1>1, <1>2, <1>3, HandedOver
<1>6. Fixed /\ SameSender(s) /\ SameWire(s) /\ producer' = producer
  BY <1>3 DEF Fixed, SameSender, SameWire, sending, wire, limiterVars
<1>7. /\ Handed(s)' = First(s)..cursor[s]+n-1 /\ (AllHanded(s)' <=> cursor[s] + n > Last(s))
  BY <1>1, <1>2, <1>4, <1>6, SameRange DEF Handed, AllHanded
<1>8. SweepOK(s)'
  BY <1>1, <1>2, <1>3, <1>4, <1>5, <1>6, <1>7, ProducerKeeps
<1>9. \A q \in Senders \ {s} : SameSweep(q)
  BY <1>1, <1>2, <1>3, <1>4, HandedOver
     DEF SameSweep, SameProducer, SameChunks, SameSender, SameWire, sending, wire
<1>10. TypeOK'
  <2>1. cursor' \in [Senders -> 0..Space]
    <3>1. cursor[s] + n \in 0..Space
      BY <1>2, SweepAssumption
    <3> QED BY <1>1, <1>3, <3>1 DEF TypeOK
  <2>2. chunks' \in [Senders -> Seq(Seq(Address))] /\ \A q \in Senders : Len(chunks'[q]) <= ChunksCap
    BY <1>1, <1>2, <1>3, HandedOver
  <2> QED BY <1>1, <1>3, <2>1, <2>2 DEF TypeOK, LimiterType, Full, limiterVars, sending, wire
<1> QED BY <1>6, <1>8, <1>9, <1>10, OneSweep DEF IInv

LEMMA Produce6Inv == ASSUME IInv, NEW s \in Senders, Produce6(s) PROVE IInv'
<1> DEFINE n == NextSizeOf(s)
           over == cursor[s] + n > Last(s)
<1>1. SweepOK(s) /\ TypeOK /\ producer[s] = "run" /\ cursor[s] <= Last(s)
  BY DEF Produce6, IInv, SweepInv, SweepOK
<1>2. /\ Min({Last(s) - cursor[s] + 1, Chunk}) = n /\ n \in Nat /\ n >= 1
      /\ cursor[s] \in Int /\ First(s) \in Int /\ Last(s) \in Int
      /\ cursor[s] + n <= Last(s) + 1 /\ cursor[s] >= 0 /\ Last(s) < Space
      /\ cursor[s]..cursor[s]+n-1 \subseteq Address
      /\ n = IF Last(s) - cursor[s] + 1 <= Chunk THEN Last(s) - cursor[s] + 1 ELSE Chunk
  BY <1>1, NextSize DEF NextSizeOf
<1>3. /\ HandOver(s, cursor[s], n)
      /\ cursor' = [cursor EXCEPT ![s] = IF over THEN Last(s) ELSE (cursor[s] + n) % Space]
      /\ producer' = [producer EXCEPT ![s] = IF over THEN "leave" ELSE "run"]
      /\ target[s].kind = "ping6" /\ UNCHANGED <<limiterVars, target, sending, wire>>
  BY <1>2 DEF Produce6
<1> HIDE DEF n
<1>4. ~over => (cursor[s] + n) % Space = cursor[s] + n
  BY <1>2, SweepAssumption
<1>5. /\ cursor'[s] = (IF over THEN Last(s) ELSE cursor[s] + n)
      /\ producer'[s] = (IF over THEN "leave" ELSE "run")
      /\ \A q \in Senders \ {s} : cursor'[q] = cursor[q] /\ producer'[q] = producer[q]
  BY <1>1, <1>3, <1>4 DEF TypeOK
<1>6. PICK c \in Seq(Address) :
        /\ Len(c) = n /\ IsInjective(c) /\ Range(c) = cursor[s]..cursor[s]+n-1
        /\ chunks'[s] = Append(chunks[s], c)
  BY <1>1, <1>2, <1>3, HandedOver
<1>7. Fixed /\ SameSender(s) /\ SameWire(s)
  BY <1>3 DEF Fixed, SameSender, SameWire, sending, wire, limiterVars
<1>8. /\ Handed(s)' = First(s)..cursor[s]+n-1 /\ (AllHanded(s)' <=> cursor[s] + n > Last(s))
  <2>1. CASE over
    <3>1. Last(s) = cursor[s] + n - 1
      BY <1>2, <2>1
    <3> QED BY <1>2, <1>5, <1>7, <2>1, <3>1, SameRange DEF Handed, AllHanded, RangeOf
  <2>2. CASE ~over
    BY <1>2, <1>5, <1>7, <2>2, SameRange DEF Handed, AllHanded
  <2> QED BY <2>1, <2>2
<1>9. /\ producer'[s] = "run" => cursor'[s] = cursor[s] + n /\ cursor'[s] <= Last(s)
      /\ producer'[s] # "closed"
  BY <1>2, <1>5
<1>10. SweepOK(s)'
  BY <1>1, <1>2, <1>6, <1>7, <1>8, <1>9, ProducerKeeps
<1>11. \A q \in Senders \ {s} : SameSweep(q)
  BY <1>1, <1>2, <1>3, <1>5, HandedOver
     DEF SameSweep, SameProducer, SameChunks, SameSender, SameWire, sending, wire
<1>12. TypeOK'
  <2>1. cursor' \in [Senders -> 0..Space] /\ producer' \in [Senders -> {"run", "leave", "closed"}]
    <3>1. ~over => cursor[s] + n \in 0..Space
      BY <1>2, SweepAssumption
    <3>2. Last(s) \in 0..Space
      BY <1>1, RangeTyped DEF Address
    <3> QED BY <1>1, <1>3, <1>4, <3>1, <3>2 DEF TypeOK
  <2>2. chunks' \in [Senders -> Seq(Seq(Address))] /\ \A q \in Senders : Len(chunks'[q]) <= ChunksCap
    BY <1>1, <1>2, <1>3, HandedOver
  <2> QED BY <1>1, <1>3, <2>1, <2>2 DEF TypeOK, LimiterType, Full, limiterVars, sending, wire
<1> QED BY <1>7, <1>10, <1>11, <1>12, OneSweep DEF IInv

\* The channel is closed when all has been handed over.
LEMMA CloseChunksInv == ASSUME IInv, NEW s \in Senders, CloseChunks(s) PROVE IInv'
<1>1. SweepOK(s) /\ TypeOK
  BY DEF IInv, SweepInv, SweepOK
<1>2. /\ producer' = [producer EXCEPT ![s] = "closed"] /\ producer'[s] = "closed"
      /\ \A q \in Senders \ {s} : producer'[q] = producer[q]
      /\ UNCHANGED <<limiterVars, target, cursor, chunks, sending, wire>>
  BY <1>1 DEF CloseChunks, TypeOK
<1>3. Fixed /\ SameSender(s) /\ SameWire(s) /\ SameChunks(s)
  BY <1>2 DEF Fixed, SameSender, SameWire, SameChunks, sending, wire, limiterVars
<1>4. AllHanded(s) /\ AllHanded(s)'
  BY <1>2 DEF CloseChunks, AllHanded
<1>5. Handed(s)' = Handed(s)
  <2>1. Handed(s)' = RangeOf(s)
    BY <1>2, <1>3, SameRange DEF Handed
  <2>2. CASE producer[s] = "run"
    <3>1. cursor[s] \in First(s)..Last(s)+1 /\ cursor[s] > Last(s)
      BY <1>1, <2>2 DEF SweepOK, ChunksInv, CloseChunks
    <3>2. First(s) \in Int /\ Last(s) \in Int
      BY <1>1, RangeTyped
    <3>3. cursor[s] - 1 = Last(s)
      BY <3>1, <3>2
    <3> QED BY <2>1, <2>2, <3>3 DEF Handed, RangeOf
  <2> QED BY <2>1, <2>2 DEF Handed
<1>6. /\ First(s)' = First(s) /\ InChunks(s)' = InChunks(s)
      /\ Touched(s)' = Touched(s) /\ Charge(s)' = Charge(s)
  BY <1>3, SameRange, SameInChunks, SameTouched, SameCharge DEF SameSender
<1>7. (Taken(s)' <=> Taken(s)) /\ (Exhausted(s)' <=> Exhausted(s))
  BY <1>3, <1>4 DEF Taken, Exhausted, SameSender, SameChunks
<1>8. ChunksInv(s)'
  BY <1>1, <1>2, <1>3, <1>4, <1>5 DEF SweepOK, ChunksInv, SameChunks
<1>9. SlotsInv(s)'
  BY <1>1, <1>3, <1>5, <1>6, <1>7 DEF SweepOK, SlotsInv, SameSender
<1>10. AskedInv(s)'
  BY <1>1, <1>2, <1>3, <1>5, <1>6, <1>7 DEF SweepOK, AskedInv, SameSender, SameWire, Fixed
<1>11. RefusedInv(s)'
  BY <1>1, <1>3, <1>6, <1>7 DEF SweepOK, RefusedInv, SameSender, Fixed
<1>12. \A q \in Senders \ {s} : SameSweep(q)
  BY <1>2 DEF SameSweep, SameProducer, SameChunks, SameSender, SameWire, sending, wire
<1>13. TypeOK'
  BY <1>1, <1>2 DEF TypeOK, LimiterType, Full, limiterVars, sending, wire
<1> QED BY <1>3, <1>8, <1>9, <1>10, <1>11, <1>12, <1>13, OneSweep DEF IInv, SweepOK

-------------------------------------------------------------------------------
(* The sender.                                                             *)

\* One chunk less in the channel.
LEMMA OneChunkLess ==
  ASSUME NEW s \in Senders, chunks[s] \in Seq(Seq(Address)), chunks[s] # <<>>,
         chunks'[s] = Tail(chunks[s])
  PROVE  /\ Head(chunks[s]) \in Seq(Address) /\ Head(chunks[s]) = chunks[s][1]
         /\ 1 \in DOMAIN chunks[s] /\ Len(chunks[s]) \in Nat /\ Len(chunks'[s]) = Len(chunks[s]) - 1
         /\ \A i \in DOMAIN chunks'[s] :
              /\ i \in Nat /\ i + 1 \in DOMAIN chunks[s] /\ i + 1 # 1
              /\ chunks'[s][i] = chunks[s][i+1]
         /\ Len(chunks[s]) = 1 => chunks'[s] = <<>>
         /\ InChunks(s) = Range(Head(chunks[s])) \cup InChunks(s)'
<1>1. /\ Head(chunks[s]) \in Seq(Address) /\ Head(chunks[s]) = chunks[s][1]
      /\ Len(chunks[s]) \in Nat /\ Len(chunks[s]) >= 1 /\ DOMAIN chunks[s] = 1..Len(chunks[s])
      /\ Len(chunks'[s]) = Len(chunks[s]) - 1 /\ DOMAIN chunks'[s] = 1..Len(chunks[s])-1
      /\ \A i \in 1..Len(chunks[s])-1 : chunks'[s][i] = chunks[s][i+1]
      /\ Tail(chunks[s]) \in Seq(Seq(Address))
  OBVIOUS
<1>2. \A i \in DOMAIN chunks'[s] :
        /\ i \in Nat /\ i + 1 \in DOMAIN chunks[s] /\ i + 1 # 1
        /\ chunks'[s][i] = chunks[s][i+1]
  BY <1>1
<1>3. \A i \in DOMAIN chunks[s] : i # 1 => i - 1 \in DOMAIN chunks'[s] /\ chunks'[s][i-1] = chunks[s][i]
  BY <1>1
<1>4. Len(chunks[s]) = 1 => chunks'[s] = <<>>
  <2>1. Len(chunks[s]) = 1 => Len(chunks'[s]) = 0
    BY <1>1
  <2>2. chunks'[s] \in Seq(Seq(Address))
    BY <1>1
  <2> QED BY <2>1, <2>2, EmptySeq
<1>5. \A x : x \in InChunks(s)' <=> \E i \in DOMAIN chunks'[s] : x \in Range(chunks'[s][i])
  BY DEF InChunks
<1>6. \A x : x \in InChunks(s) <=> \E i \in DOMAIN chunks[s] : x \in Range(chunks[s][i])
  BY QueuedAddress
<1>7. InChunks(s)' \subseteq InChunks(s)
  BY <1>2, <1>5, <1>6
<1>8. 1 \in DOMAIN chunks[s]
  BY <1>1
<1>9. Range(Head(chunks[s])) \subseteq InChunks(s)
  BY <1>1, <1>6, <1>8
<1>10. ASSUME NEW x \in InChunks(s), x \notin Range(Head(chunks[s])) PROVE x \in InChunks(s)'
  <2>1. PICK i \in DOMAIN chunks[s] : x \in Range(chunks[s][i])
    BY <1>6
  <2>2. i # 1
    BY <1>1, <1>10, <2>1
  <2> QED BY <1>3, <1>5, <2>1, <2>2
<1> QED BY <1>1, <1>2, <1>4, <1>7, <1>8, <1>9, <1>10

\* The elements of a sequence.
LEMMA Elements ==
  ASSUME NEW q \in Seq(Address)
  PROVE  /\ DOMAIN q = 1..Len(q) /\ Len(q) \in Nat
         /\ \A i \in 1..Len(q) : q[i] \in Range(q) /\ q[i] \in Address
         /\ \A x \in Range(q) : \E i \in 1..Len(q) : x = q[i]
         /\ q # <<>> => Len(q) >= 1
<1>1. DOMAIN q = 1..Len(q) /\ Len(q) \in Nat /\ \A i \in 1..Len(q) : q[i] \in Address
  OBVIOUS
<1>2. q # <<>> => Len(q) >= 1
  OBVIOUS
<1> QED BY <1>1, <1>2 DEF Range

LEMMA TakeChunkInv == ASSUME IInv, NEW s \in Senders, TakeChunk(s) PROVE IInv'
<1> DEFINE h == Head(chunks[s])
<1>1. SweepOK(s) /\ TypeOK /\ chunks[s] \in Seq(Seq(Address)) /\ sendPc[s] = "take" /\ chunks[s] # <<>>
  BY DEF IInv, SweepInv, SweepOK, TypeOK, TakeChunk
<1>2. /\ ipChunk'[s] = h /\ chunks'[s] = Tail(chunks[s]) /\ sendPc'[s] = "global"
      /\ slots'[s] = [i \in 1..Chunk |-> IF i <= Len(h) THEN h[i] ELSE slots[s][i]]
      /\ \A q \in Senders \ {s} : /\ ipChunk'[q] = ipChunk[q] /\ chunks'[q] = chunks[q]
                                  /\ sendPc'[q] = sendPc[q] /\ slots'[q] = slots[q]
      /\ UNCHANGED <<limiterVars, target, cursor, producer, wire>>
  BY <1>1 DEF TakeChunk, TypeOK
<1>3. /\ h \in Seq(Address) /\ h = chunks[s][1] /\ 1 \in DOMAIN chunks[s]
      /\ Len(chunks[s]) \in Nat /\ Len(chunks'[s]) = Len(chunks[s]) - 1
      /\ \A i \in DOMAIN chunks'[s] :
           i \in Nat /\ i + 1 \in DOMAIN chunks[s] /\ i + 1 # 1 /\ chunks'[s][i] = chunks[s][i+1]
      /\ Len(chunks[s]) = 1 => chunks'[s] = <<>>
      /\ InChunks(s) = Range(h) \cup InChunks(s)'
  BY <1>1, <1>2, OneChunkLess
<1> HIDE DEF h
<1>4. /\ h # <<>> /\ Len(h) <= Chunk /\ IsInjective(h) /\ Range(h) \subseteq Handed(s)
      /\ Len(h) < Chunk => Len(chunks[s]) = 1 /\ AllHanded(s)
  BY <1>1, <1>3 DEF SweepOK, ChunksInv
<1>5. Range(h) \cap InChunks(s)' = {}
  <2>1. \A i \in DOMAIN chunks'[s] : Range(h) \cap Range(chunks'[s][i]) = {}
    BY <1>1, <1>3 DEF SweepOK, ChunksInv
  <2>2. \A x : x \in InChunks(s)' <=> \E i \in DOMAIN chunks'[s] : x \in Range(chunks'[s][i])
    BY DEF InChunks
  <2> QED BY <2>1, <2>2
<1>6. Fixed /\ SameProducer(s) /\ SameWire(s)
  BY <1>2 DEF Fixed, SameProducer, SameWire, wire, limiterVars
<1>7. /\ First(s)' = First(s) /\ Last(s)' = Last(s) /\ Handed(s)' = Handed(s)
      /\ (AllHanded(s)' <=> AllHanded(s)) /\ Touched(s)' = Touched(s)
  BY <1>6, SameRange, SameHanded, SameTouched
<1>8. Taken(s)' /\ ~Taken(s) /\ ~Exhausted(s)
  BY <1>1, <1>2 DEF Taken, Exhausted
<1>9. ChunksInv(s)'
  <2>1. ASSUME NEW i \in DOMAIN chunks'[s]
        PROVE  /\ chunks'[s][i] # <<>> /\ Len(chunks'[s][i]) <= Chunk
               /\ IsInjective(chunks'[s][i]) /\ Range(chunks'[s][i]) \subseteq Handed(s)
               /\ Len(chunks'[s][i]) < Chunk => i = Len(chunks'[s]) /\ AllHanded(s)
    <3>1. i + 1 = Len(chunks[s]) => i = Len(chunks'[s])
      BY <1>3
    <3> QED BY <1>1, <1>3, <3>1 DEF SweepOK, ChunksInv
  <2>2. ASSUME NEW i \in DOMAIN chunks'[s], NEW j \in DOMAIN chunks'[s], i # j
        PROVE  Range(chunks'[s][i]) \cap Range(chunks'[s][j]) = {}
    <3>1. i + 1 # j + 1
      BY <1>3, <2>2
    <3> QED BY <1>1, <1>3, <3>1 DEF SweepOK, ChunksInv
  <2> QED BY <1>1, <1>6, <1>7, <2>1, <2>2 DEF SweepOK, ChunksInv, SameProducer, Fixed
<1>10. /\ \A i \in 1..Chunk : slots'[s][i] = IF i <= Len(h) THEN h[i] ELSE slots[s][i]
       /\ Len(h) \in Nat /\ Len(h) >= 1 /\ Chunk \in Nat
       /\ \A i \in 1..Len(h) : h[i] \in Range(h) /\ h[i] \in Address
       /\ \A x \in Range(h) : \E i \in 1..Len(h) : x = h[i]
       /\ \A i, j \in 1..Len(h) : h[i] = h[j] => i = j
       /\ NoEnd \notin Address
  BY <1>1, <1>2, <1>3, <1>4, Elements, RangeTyped DEF IsInjective
<1>11. SlotsInv(s)'
  <2>1. ASSUME NEW i \in 1..Chunk, slots'[s][i] # NoEnd
        PROVE  /\ slots'[s][i] \in Handed(s) \ InChunks(s)'
               /\ \A j \in 1..Chunk : slots'[s][j] = slots'[s][i] => i = j
    <3>1. CASE i <= Len(h)
      <4>1. i \in 1..Len(h) /\ slots'[s][i] = h[i] /\ h[i] \in Range(h) /\ h[i] \in Address
        BY <1>10, <3>1
      <4>2. ASSUME NEW j \in 1..Chunk, slots'[s][j] = h[i] PROVE i = j
        <5>1. CASE j <= Len(h)
          BY <1>10, <4>1, <4>2, <5>1
        <5>2. CASE ~(j <= Len(h))
          <6>1. slots[s][j] = h[i] /\ h[i] \in InChunks(s) /\ h[i] # NoEnd
            BY <1>3, <1>10, <4>1, <4>2, <5>2
          <6> QED BY <1>1, <6>1 DEF SweepOK, SlotsInv
        <5> QED BY <5>1, <5>2
      <4> QED BY <1>4, <1>5, <4>1, <4>2
    <3>2. CASE ~(i <= Len(h))
      <4>1. slots'[s][i] = slots[s][i] /\ slots[s][i] \in Handed(s) \ InChunks(s)
        BY <1>1, <1>10, <2>1, <3>2 DEF SweepOK, SlotsInv
      <4>2. ASSUME NEW j \in 1..Chunk, slots'[s][j] = slots[s][i] PROVE i = j
        <5>1. CASE j <= Len(h)
          <6>1. slots[s][i] \in Range(h)
            BY <1>10, <4>2, <5>1
          <6> QED BY <1>3, <4>1, <6>1
        <5>2. CASE ~(j <= Len(h))
          BY <1>1, <1>10, <2>1, <3>2, <4>2, <5>2 DEF SweepOK, SlotsInv
        <5> QED BY <5>1, <5>2
      <4> QED BY <1>3, <4>1, <4>2
    <3> QED BY <3>1, <3>2
  <2>2. \A i \in 1..Len(h) : slots'[s][i] = h[i] /\ h[i] \notin Touched(s)
    <3>1. \A i \in 1..Len(h) : slots'[s][i] = h[i] /\ h[i] \in Range(h)
      BY <1>4, <1>10
    <3> QED BY <1>1, <1>3, <3>1 DEF SweepOK, AskedInv
  <2>3. Len(h) < Chunk => Exhausted(s)'
    BY <1>3, <1>4, <1>7 DEF Exhausted
  <2> QED BY <1>2, <1>4, <1>7, <2>1, <2>2, <2>3 DEF SlotsInv
<1>12. AskedInv(s)'
  <2>1. Touched(s) \subseteq Handed(s) \ InChunks(s)'
    BY <1>1, <1>3 DEF SweepOK, AskedInv
  <2>2. Handed(s) \subseteq (Touched(s) \cup InChunks(s)') \cup Range(h)
    BY <1>1, <1>3, <1>8 DEF SweepOK, AskedInv
  <2>3. \A a \in Address : asked[s][a] <= 1
    BY <1>1, <1>8 DEF SweepOK, AskedInv
  <2> QED BY <1>2, <1>6, <1>7, <1>8, <2>1, <2>2, <2>3 DEF AskedInv, SameWire
<1>13. RefusedInv(s)'
  BY <1>1, <1>2, <1>6, <1>7, <1>8 DEF SweepOK, RefusedInv, Fixed
<1>14. \A q \in Senders \ {s} : SameSweep(q)
  BY <1>2 DEF SameSweep, SameProducer, SameChunks, SameSender, SameWire, wire
<1>15. TypeOK'
  <2>1. slots'[s] \in [1..Chunk -> Address \cup {NoEnd}]
    <3>1. slots[s] \in [1..Chunk -> Address \cup {NoEnd}]
      BY <1>1 DEF TypeOK
    <3>2. ASSUME NEW i \in 1..Chunk PROVE slots'[s][i] \in Address \cup {NoEnd}
      <4>1. CASE i <= Len(h)
        BY <1>10, <4>1
      <4> QED BY <1>10, <3>1, <4>1
    <3> QED BY <1>2, <3>2
  <2>2. /\ slots' \in [Senders -> [1..Chunk -> Address \cup {NoEnd}]]
        /\ ipChunk' \in [Senders -> Seq(Address)] /\ chunks' \in [Senders -> Seq(Seq(Address))]
        /\ sendPc' = [sendPc EXCEPT ![s] = "global"]
    <3>1. Tail(chunks[s]) \in Seq(Seq(Address))
      BY <1>1
    <3> QED BY <1>1, <1>2, <1>3, <2>1, <3>1 DEF TypeOK, TakeChunk
  <2>3. \A q \in Senders : Len(chunks'[q]) <= ChunksCap /\ Len(ipChunk'[q]) <= Chunk
    <3>1. Len(chunks'[s]) <= ChunksCap
      BY <1>1, <1>3, SweepAssumption DEF TypeOK
    <3> QED BY <1>1, <1>2, <1>4, <3>1 DEF TypeOK
  <2> QED BY <1>1, <1>2, <2>2, <2>3 DEF TypeOK, LimiterType, Full, limiterVars, wire
<1> QED BY <1>6, <1>9, <1>11, <1>12, <1>13, <1>14, <1>15, OneSweep DEF IInv, SweepOK

\* What a step of the sender that leaves the addresses where they are keeps.
SameData(q) ==
  SameProducer(q) /\ SameChunks(q) /\ SameWire(q) /\ ipChunk'[q] = ipChunk[q] /\ slots'[q] = slots[q]

LEMMA DataKept ==
  ASSUME NEW q \in Senders, Fixed, SameData(q), SweepOK(q)
  PROVE  /\ First(q)' = First(q) /\ Handed(q)' = Handed(q) /\ InChunks(q)' = InChunks(q)
         /\ Touched(q)' = Touched(q) /\ Charge(q)' = Charge(q)
         /\ (Exhausted(q)' <=> Exhausted(q)) /\ ChunksInv(q)'
<1> USE DEF SameData
<1>1. /\ First(q)' = First(q) /\ Last(q)' = Last(q) /\ Handed(q)' = Handed(q)
      /\ (AllHanded(q)' <=> AllHanded(q)) /\ InChunks(q)' = InChunks(q)
      /\ Touched(q)' = Touched(q) /\ Charge(q)' = Charge(q)
  BY SameRange, SameHanded, SameInChunks, SameTouched, SameCharge
<1>2. Exhausted(q)' <=> Exhausted(q)
  BY <1>1 DEF Exhausted, SameChunks
<1>3. ChunksInv(q)'
  BY <1>1 DEF SweepOK, ChunksInv, SameProducer, SameChunks, Fixed
<1> QED BY <1>1, <1>2, <1>3

Live == {"start", "take", "global", "local", "send", "done"}
SenderPlaces == Live \cup {"refused", "failed"}

\* A sender goes from one place to the next and does no more than ask a limiter.
LEMMA SenderMoves ==
  ASSUME IInv, NEW s \in Senders, NEW pc \in SenderPlaces, sendPc' = [sendPc EXCEPT ![s] = pc],
         Fixed, UNCHANGED <<target, producing, ipChunk, slots, wire>>, LimiterType',
         pc \in {"global", "local", "send"} => Taken(s),
         pc \in Live => sendPc[s] \in Live /\ (Taken(s) <=> pc \in {"global", "local", "send"}),
         pc = "done" => Exhausted(s) /\ producer[s] = "closed",
         pc \in {"local", "send"} => Charge(s) <= pps["global"],
         pc = "send" => Charge(s) <= pps[ScanOf[s]],
         pc \in {"start", "refused"} => Touched(s) = {}
  PROVE  IInv'
<1>1. SweepOK(s) /\ TypeOK
  BY DEF IInv, SweepInv, SweepOK
<1>2. sendPc'[s] = pc /\ \A q \in Senders \ {s} : sendPc'[q] = sendPc[q]
  BY <1>1 DEF TypeOK
<1>3. SameData(s) /\ \A q \in Senders \ {s} : SameSweep(q)
  BY <1>2 DEF SameData, SameSweep, SameProducer, SameChunks, SameSender, SameWire, producing, wire
<1>4. /\ First(s)' = First(s) /\ Handed(s)' = Handed(s) /\ InChunks(s)' = InChunks(s)
      /\ Touched(s)' = Touched(s) /\ Charge(s)' = Charge(s)
      /\ (Exhausted(s)' <=> Exhausted(s)) /\ ChunksInv(s)'
  BY <1>1, <1>3, DataKept
<1>5. Taken(s)' => Taken(s)
  BY <1>2 DEF Taken
<1>6. SlotsInv(s)'
  BY <1>1, <1>3, <1>4, <1>5 DEF SweepOK, SlotsInv, SameData
<1>7. AskedInv(s)'
  <2>1. Touched(s)' \subseteq Handed(s)' \ InChunks(s)'
    BY <1>1, <1>4 DEF SweepOK, AskedInv
  <2>2. sendPc'[s] \in Live =>
          Handed(s) \subseteq Touched(s) \cup InChunks(s)
                                \cup (IF Taken(s)' THEN Range(ipChunk[s]) ELSE {})
    <3>1. CASE pc \in Live
      <4>1. Taken(s)' <=> Taken(s)
        BY <1>2, <3>1 DEF Taken
      <4> QED BY <1>1, <3>1, <4>1 DEF SweepOK, AskedInv, Live
    <3> QED BY <1>2, <3>1
  <2>3. \/ \A a \in Address : asked[s][a] <= 1
        \/ /\ target[s].kind = "arp" /\ ~Taken(s)' /\ Exhausted(s)
           /\ \A a \in Address : asked[s][a] <= 2
    BY <1>1, <1>5 DEF SweepOK, AskedInv
  <2> QED BY <1>2, <1>3, <1>4, <2>1, <2>2, <2>3
          DEF AskedInv, Live, SameData, SameProducer, SameWire, Fixed
<1>8. RefusedInv(s)'
  BY <1>1, <1>2, <1>4, <1>5 DEF SweepOK, RefusedInv, Fixed
<1>9. TypeOK'
  BY <1>1 DEF TypeOK, SenderPlaces, Live, Fixed, producing, wire
<1> QED BY <1>3, <1>4, <1>6, <1>7, <1>8, <1>9, OneSweep DEF IInv, SweepOK

\* No more than a chunk is asked for.
LEMMA ChargeTyped ==
  ASSUME TypeOK, NEW s \in Senders
  PROVE  /\ Charge(s) \in Nat /\ Charge(s) <= Chunk /\ Charge(s) >= Len(ipChunk[s])
         /\ \A l \in Limiters : pps[l] \in Nat \ {0} /\ credit[l] \in Int
         /\ "global" \in Limiters /\ ScanOf[s] \in Limiters /\ Chunk \in Nat \ {0}
<1>1. ipChunk[s] \in Seq(Address) /\ Len(ipChunk[s]) <= Chunk /\ Chunk \in Nat \ {0}
  BY SweepAssumption DEF TypeOK
<1>2. Charge(s) \in Nat /\ Charge(s) <= Chunk /\ Charge(s) >= Len(ipChunk[s])
  BY <1>1 DEF Charge
<1>3. \A l \in Limiters : pps[l] \in Nat \ {0} /\ credit[l] \in Int
  BY LimiterAssumption DEF TypeOK, LimiterType
<1>4. "global" \in Limiters /\ ScanOf[s] \in Limiters
  BY SweepAssumption DEF Limiters
<1> QED BY <1>1, <1>2, <1>3, <1>4

LEMMA StartSweepInv == ASSUME IInv, NEW s \in Senders, StartSweep(s) PROVE IInv'
<1>1. LimiterType' /\ Fixed
  BY DEF StartSweep, limiterVars, IInv, TypeOK, LimiterType, Full, Fixed
<1> QED BY <1>1, SenderMoves DEF StartSweep, SenderPlaces, Live, Taken

LEMMA EndSweepInv == ASSUME IInv, NEW s \in Senders, EndSweep(s) PROVE IInv'
<1>1. LimiterType' /\ Fixed
  BY DEF EndSweep, limiterVars, IInv, TypeOK, LimiterType, Full, Fixed
<1>2. Exhausted(s)
  BY DEF EndSweep, Exhausted, AllHanded
<1> QED BY <1>1, <1>2, SenderMoves DEF EndSweep, SenderPlaces, Live, Taken

LEMMA SendFailsInv == ASSUME IInv, NEW s \in Senders, SendFails(s) PROVE IInv'
<1>1. LimiterType' /\ Fixed
  BY DEF SendFails, limiterVars, IInv, TypeOK, LimiterType, Full, Fixed
<1> QED BY <1>1, SenderMoves DEF SendFails, SenderPlaces, Live, Taken

\* Nobody who has sent something is refused: its chunks got no longer.
LEMMA GiveUpInv == ASSUME IInv, NEW s \in Senders, GiveUp(s) PROVE IInv'
<1>1. LimiterType' /\ Fixed
  BY DEF GiveUp, limiterVars, IInv, TypeOK, LimiterType, Full, Fixed
<1>2. Touched(s) = {}
  <2>1. TypeOK /\ SweepOK(s)
    BY DEF IInv, SweepInv, SweepOK
  <2>2. Charge(s) <= Chunk /\ Charge(s) \in Nat /\ pps["global"] \in Nat /\ pps[ScanOf[s]] \in Nat
        /\ Chunk \in Nat
    BY <2>1, ChargeTyped
  <2>3. Taken(s) /\ (Charge(s) > pps["global"] \/ Charge(s) > pps[ScanOf[s]])
    BY DEF GiveUp, Refuses, Taken
  <2>4. ~(Chunk <= pps["global"] /\ Chunk <= pps[ScanOf[s]])
    BY <2>2, <2>3
  <2> QED BY <2>1, <2>3, <2>4 DEF SweepOK, RefusedInv
<1> QED BY <1>1, <1>2, SenderMoves DEF GiveUp, SenderPlaces, Live, Taken

\* What a limiter is after WaitN.
LEMMA ReserveTyped ==
  ASSUME TypeOK, NEW s \in Senders, NEW l \in Limiters, NEW n \in Nat, Reserve(s, l, n)
  PROVE  LimiterType' /\ pps' = pps
<1>1. /\ pps[l] \in Nat \ {0} /\ credit[l] \in Int /\ credit[l] <= Full(l) /\ TicksPerSecond \in Nat \ {0}
      /\ n * TicksPerSecond \in Nat
  BY ChargeTyped, LimiterAssumption DEF TypeOK, LimiterType
<1>2. /\ credit' = [credit EXCEPT ![l] = @ - n * TicksPerSecond]
      /\ wait' = [wait EXCEPT ![s] = TicksToPay(l, credit'[l])]
      /\ UNCHANGED <<pps, setUp, made>>
  BY DEF Reserve
<1>3. credit'[l] = credit[l] - n * TicksPerSecond /\ credit'[l] \in Int /\ credit'[l] <= credit[l]
  BY <1>1, <1>2 DEF TypeOK, LimiterType
<1>4. TicksToPay(l, credit'[l]) \in Nat
  <2>1. CASE credit'[l] >= 0
    BY <2>1 DEF TicksToPay
  <2>2. CASE ~(credit'[l] >= 0)
    <3>1. -(credit'[l]) \in Nat
      BY <1>3, <2>2
    <3> QED BY <1>1, <2>2, <3>1, RoundedUp DEF TicksToPay
  <2> QED BY <2>1, <2>2
<1>5. credit' \in [Limiters -> Int] /\ wait' \in [Senders -> Nat]
  BY <1>2, <1>3, <1>4 DEF TypeOK, LimiterType
<1>6. \A k \in Limiters : credit'[k] <= Full(k)
  <2> TAKE k \in Limiters
  <2>1. CASE k = l
    <3>1. Full(l) \in Int
      BY <1>1 DEF Full
    <3> QED BY <1>1, <1>3, <2>1, <3>1
  <2>2. CASE k # l
    BY <1>2, <2>2 DEF TypeOK, LimiterType
  <2> QED BY <2>1, <2>2
<1> QED BY <1>2, <1>5, <1>6 DEF TypeOK, LimiterType, Full

LEMMA AskGlobalInv == ASSUME IInv, NEW s \in Senders, AskGlobal(s) PROVE IInv'
<1>1. TypeOK /\ Charge(s) \in Nat /\ "global" \in Limiters
  BY ChargeTyped DEF IInv
<1>2. LimiterType' /\ Fixed
  BY <1>1, ReserveTyped DEF AskGlobal, Fixed
<1>3. Charge(s) <= pps["global"]
  BY DEF AskGlobal, Reserve
<1> QED BY <1>2, <1>3, SenderMoves DEF AskGlobal, SenderPlaces, Live, Taken

LEMMA AskLocalInv == ASSUME IInv, NEW s \in Senders, AskLocal(s) PROVE IInv'
<1>1. TypeOK /\ SweepOK(s) /\ Charge(s) \in Nat /\ ScanOf[s] \in Limiters
  BY ChargeTyped DEF IInv, SweepInv, SweepOK
<1>2. LimiterType' /\ Fixed
  BY <1>1, ReserveTyped DEF AskLocal, Fixed
<1>3. Charge(s) <= pps["global"] /\ Charge(s) <= pps[ScanOf[s]]
  BY <1>1 DEF AskLocal, Reserve, SweepOK, RefusedInv
<1> QED BY <1>2, <1>3, SenderMoves DEF AskLocal, SenderPlaces, Live, Taken

\* A set of numbers that holds what is below each of its own.
LEMMA DownClosed ==
  ASSUME NEW n \in Nat, NEW W \in SUBSET (1..n), \A i \in W : \A j \in 1..i : j \in W
  PROVE  Cardinality(W) \in Nat /\ Cardinality(W) <= n /\ W = 1..Cardinality(W)
<1>1. IsFiniteSet(1..n) /\ Cardinality(1..n) = n
  BY FS_Interval
<1>2. IsFiniteSet(W) /\ Cardinality(W) \in Nat /\ Cardinality(W) <= n
  BY <1>1, FS_Subset, FS_CardinalityType
<1>3. ASSUME NEW i \in W PROVE i \in 1..Cardinality(W)
  <2>1. i \in Nat /\ i >= 1 /\ 1..i \subseteq W
    OBVIOUS
  <2>2. Cardinality(1..i) = i
    BY <2>1, FS_Interval
  <2>3. Cardinality(1..i) <= Cardinality(W)
    BY <1>2, <2>1, FS_Subset
  <2> QED BY <1>2, <2>1, <2>2, <2>3
<1>4. IsFiniteSet(1..Cardinality(W)) /\ Cardinality(1..Cardinality(W)) = Cardinality(W)
  BY <1>2, FS_Interval
<1>5. W = 1..Cardinality(W)
  BY <1>3, <1>4, FS_Subset
<1> QED BY <1>2, <1>5

\* How often an address is among the first slots.
LEMMA CountedOnce ==
  ASSUME NEW k \in Nat, NEW f, NEW a, \A i, j \in 1..k : f[i] = a /\ f[j] = a => i = j
  PROVE  Cardinality({i \in 1..k : f[i] = a}) = IF \E i \in 1..k : f[i] = a THEN 1 ELSE 0
<1>1. CASE \E i \in 1..k : f[i] = a
  <2>1. PICK i \in 1..k : f[i] = a
    BY <1>1
  <2>2. {j \in 1..k : f[j] = a} = {i}
    BY <2>1
  <2> QED BY <1>1, <2>2, FS_Singleton
<1>2. CASE ~\E i \in 1..k : f[i] = a
  <2>1. {j \in 1..k : f[j] = a} = {}
    BY <1>2
  <2> QED BY <1>2, <2>1, FS_EmptySet
<1> QED BY <1>1, <1>2

\* The slots sendmmsg may transmit are the first ones, those of the chunk among them.
LEMMA ReadySlots ==
  ASSUME TypeOK, NEW s \in Senders, SlotsInv(s), Taken(s)
  PROVE  /\ Ready(s) \in Nat /\ Ready(s) <= Charge(s) /\ Len(ipChunk[s]) <= Ready(s)
         /\ Charge(s) \in Nat /\ Charge(s) <= Chunk /\ Chunk \in Nat /\ Len(ipChunk[s]) \in Nat
         /\ \A i \in 1..Ready(s) : i \in 1..Chunk /\ slots[s][i] # NoEnd /\ slots[s][i] \in Address
         /\ \A i \in 1..Len(ipChunk[s]) : i \in 1..Ready(s)
<1>1. /\ Charge(s) \in Nat /\ Charge(s) <= Chunk /\ Chunk \in Nat /\ Len(ipChunk[s]) \in Nat
      /\ Charge(s) >= Len(ipChunk[s])
  BY ChargeTyped DEF TypeOK
<1>2. /\ Ready(s) \in Nat /\ Ready(s) <= Charge(s) /\ Written(s) = 1..Ready(s)
  <2>1. Written(s) \in SUBSET (1..Charge(s))
    BY DEF Written
  <2>2. ASSUME NEW i \in Written(s), NEW j \in 1..i PROVE j \in Written(s)
    <3>1. i \in 1..Charge(s) /\ \A m \in 1..i : slots[s][m] # NoEnd
      BY DEF Written
    <3>2. j \in 1..Charge(s) /\ \A m \in 1..j : m \in 1..i
      BY <1>1, <3>1
    <3> QED BY <3>1, <3>2 DEF Written
  <2> QED BY <1>1, <2>1, <2>2, DownClosed DEF Ready
<1>3. \A i \in 1..Ready(s) : i \in 1..Chunk /\ slots[s][i] # NoEnd /\ slots[s][i] \in Address
  <2> TAKE i \in 1..Ready(s)
  <2>1. i \in 1..Chunk /\ i \in 1..i
    BY <1>1, <1>2
  <2>2. slots[s][i] # NoEnd
    BY <1>2, <2>1 DEF Written
  <2>3. slots[s] \in [1..Chunk -> Address \cup {NoEnd}]
    BY DEF TypeOK
  <2> QED BY <2>1, <2>2, <2>3
<1>4. ASSUME NEW i \in 1..Len(ipChunk[s]) PROVE i \in 1..Ready(s)
  <2>1. i \in 1..Charge(s) /\ \A j \in 1..i : j \in 1..Len(ipChunk[s])
    BY <1>1
  <2>2. \A j \in 1..Len(ipChunk[s]) : slots[s][j] # NoEnd
    <3>1. \A j \in 1..Len(ipChunk[s]) : slots[s][j] = ipChunk[s][j] /\ ipChunk[s][j] \in Address
      BY DEF TypeOK, SlotsInv
    <3> QED BY <3>1, RangeTyped
  <2> QED BY <1>2, <2>1, <2>2 DEF Written
<1>5. Len(ipChunk[s]) <= Ready(s)
  <2>1. CASE Len(ipChunk[s]) = 0
    BY <1>2, <2>1
  <2>2. CASE Len(ipChunk[s]) # 0
    <3>1. Len(ipChunk[s]) \in 1..Ready(s)
      BY <1>1, <1>4, <2>2
    <3> QED BY <3>1, <1>2
  <2> QED BY <2>1, <2>2
<1> QED BY <1>1, <1>2, <1>3, <1>4, <1>5

LEMMA SendInv == ASSUME IInv, NEW s \in Senders, Send(s) PROVE IInv'
<1>1. SweepOK(s) /\ TypeOK /\ sendPc[s] = "send" /\ Taken(s)
  BY DEF IInv, SweepInv, SweepOK, Send, Taken
<1>2. /\ Ready(s) \in Nat /\ Ready(s) <= Charge(s) /\ Len(ipChunk[s]) <= Ready(s)
      /\ Charge(s) \in Nat /\ Charge(s) <= Chunk /\ Chunk \in Nat /\ Len(ipChunk[s]) \in Nat
      /\ \A i \in 1..Ready(s) : i \in 1..Chunk /\ slots[s][i] # NoEnd /\ slots[s][i] \in Address
      /\ \A i \in 1..Len(ipChunk[s]) : i \in 1..Ready(s)
  BY <1>1, ReadySlots DEF SweepOK
<1>3. PICK k \in 1..Ready(s) :
        /\ asked' = [asked EXCEPT ![s] = [a \in Address |->
                       @[a] + Cardinality({i \in 1..k : slots[s][i] = a})]]
        /\ lost' = [lost EXCEPT ![s] = @ \cup {slots[s][i] : i \in k+1..Ready(s)}]
        /\ sent' = [sent EXCEPT ![0] = @ + k]
  BY DEF Send
<1>4. /\ k \in Nat /\ k <= Ready(s) /\ k >= 1
      /\ \A i : i \in 1..Ready(s) <=> i \in 1..k \/ i \in k+1..Ready(s)
  BY <1>2, <1>3
<1>5. /\ sendPc' = [sendPc EXCEPT ![s] = "take"] /\ sendPc'[s] = "take"
      /\ \A q \in Senders \ {s} : /\ sendPc'[q] = sendPc[q] /\ asked'[q] = asked[q]
                                  /\ lost'[q] = lost[q]
      /\ UNCHANGED <<limiterVars, target, producing, ipChunk, slots>>
      /\ lost'[s] = lost[s] \cup {slots[s][i] : i \in k+1..Ready(s)}
  BY <1>1, <1>3 DEF Send, TypeOK
<1>6. ASSUME NEW a \in Address
      PROVE  /\ asked'[s][a] = asked[s][a] + (IF \E i \in 1..k : slots[s][i] = a THEN 1 ELSE 0)
             /\ asked[s][a] \in Nat
  <2>1. asked'[s][a] = asked[s][a] + Cardinality({i \in 1..k : slots[s][i] = a}) /\ asked[s][a] \in Nat
    BY <1>1, <1>3 DEF TypeOK
  <2>2. \A i, j \in 1..k : slots[s][i] = a /\ slots[s][j] = a => i = j
    BY <1>1, <1>2, <1>4 DEF SweepOK, SlotsInv
  <2>3. Cardinality({i \in 1..k : slots[s][i] = a}) = IF \E i \in 1..k : slots[s][i] = a THEN 1 ELSE 0
    BY <1>4, <2>2, CountedOnce
  <2> QED BY <2>1, <2>3
<1>7. Touched(s)' = Touched(s) \cup {slots[s][i] : i \in 1..Ready(s)}
  <2>1. ASSUME NEW a PROVE a \in Touched(s)' <=> a \in Touched(s) \/ \E i \in 1..Ready(s) : slots[s][i] = a
    <3>1. a \in Touched(s)' <=> (a \in Address /\ asked'[s][a] > 0) \/ a \in lost'[s]
      BY DEF Touched
    <3>2. a \in Touched(s) <=> (a \in Address /\ asked[s][a] > 0) \/ a \in lost[s]
      BY DEF Touched
    <3>3. a \in Address => (asked'[s][a] > 0 <=> asked[s][a] > 0 \/ \E i \in 1..k : slots[s][i] = a)
      BY <1>6
    <3>4. a \in lost'[s] <=> a \in lost[s] \/ \E i \in k+1..Ready(s) : slots[s][i] = a
      BY <1>5
    <3> QED BY <1>2, <1>4, <3>1, <3>2, <3>3, <3>4
  <2> QED BY <2>1
<1>8. Fixed /\ SameProducer(s) /\ SameChunks(s) /\ ipChunk'[s] = ipChunk[s] /\ slots'[s] = slots[s]
  BY <1>5 DEF Fixed, SameProducer, SameChunks, producing, limiterVars
<1>9. /\ First(s)' = First(s) /\ Last(s)' = Last(s) /\ Handed(s)' = Handed(s)
      /\ (AllHanded(s)' <=> AllHanded(s)) /\ InChunks(s)' = InChunks(s)
      /\ Charge(s)' = Charge(s) /\ ~Taken(s)' /\ (Exhausted(s)' <=> Exhausted(s))
  BY <1>5, <1>8, SameRange, SameHanded, SameInChunks, SameCharge DEF Taken, Exhausted, SameChunks
<1>10. ChunksInv(s)'
  BY <1>1, <1>8, <1>9 DEF SweepOK, ChunksInv, SameProducer, SameChunks, Fixed
<1>11. SlotsInv(s)'
  BY <1>1, <1>8, <1>9 DEF SweepOK, SlotsInv
<1>12. Charge(s) # Len(ipChunk[s]) => target[s].kind = "arp" /\ Charge(s) = Chunk /\ Exhausted(s)
  BY <1>1, <1>2 DEF Charge, SweepOK, SlotsInv
<1>13. AskedInv(s)'
  <2>1. {slots[s][i] : i \in 1..Ready(s)} \subseteq Handed(s) \ InChunks(s)
    BY <1>1, <1>2 DEF SweepOK, SlotsInv
  <2>2. Range(ipChunk[s]) \subseteq {slots[s][i] : i \in 1..Ready(s)}
    <3>1. \A x \in Range(ipChunk[s]) : \E i \in 1..Len(ipChunk[s]) : x = ipChunk[s][i]
      BY <1>1, Elements DEF TypeOK
    <3>2. \A i \in 1..Len(ipChunk[s]) : ipChunk[s][i] = slots[s][i] /\ i \in 1..Ready(s)
      BY <1>1, <1>2 DEF SweepOK, SlotsInv
    <3> QED BY <3>1, <3>2
  <2>3. Handed(s) \subseteq Touched(s)' \cup InChunks(s)
    BY <1>1, <1>7, <2>2 DEF SweepOK, AskedInv
  <2>4. \A a \in Address : asked[s][a] <= 1
    BY <1>1 DEF SweepOK, AskedInv
  <2>5. CASE Charge(s) = Len(ipChunk[s])
    <3>1. \A i \in 1..k : slots[s][i] \notin Touched(s)
      <4>1. \A i \in 1..k : i \in 1..Len(ipChunk[s])
        BY <1>2, <1>4, <2>5
      <4> QED BY <1>1, <4>1 DEF SweepOK, SlotsInv
    <3>2. ASSUME NEW a \in Address PROVE asked'[s][a] <= 1
      <4>1. CASE \E i \in 1..k : slots[s][i] = a
        <5>1. ~(asked[s][a] > 0)
          BY <3>1, <4>1 DEF Touched
        <5> QED BY <1>6, <4>1, <5>1
      <4>2. CASE ~\E i \in 1..k : slots[s][i] = a
        BY <1>6, <2>4, <4>2
      <4> QED BY <4>1, <4>2
    <3> QED BY <1>1, <1>5, <1>7, <1>9, <2>1, <2>3, <3>2 DEF SweepOK, AskedInv
  <2>6. CASE Charge(s) # Len(ipChunk[s])
    <3>1. \A a \in Address : asked'[s][a] <= 2
      BY <1>6, <2>4
    <3> QED BY <1>1, <1>5, <1>7, <1>8, <1>9, <1>12, <2>1, <2>3, <2>6, <3>1
            DEF SweepOK, AskedInv, Fixed
  <2> QED BY <2>5, <2>6
<1>14. RefusedInv(s)'
  <2>1. Charge(s) <= pps["global"] /\ Charge(s) <= pps[ScanOf[s]]
    BY <1>1 DEF SweepOK, RefusedInv
  <2>2. Charge(s) # Chunk => Exhausted(s)
    BY <1>1, <1>2, <1>12 DEF SweepOK, SlotsInv
  <2> QED BY <1>5, <1>8, <1>9, <2>1, <2>2 DEF RefusedInv, Fixed
<1>15. \A q \in Senders \ {s} : SameSweep(q)
  BY <1>5 DEF SameSweep, SameProducer, SameChunks, SameSender, SameWire, producing
<1>16. TypeOK'
  <2>1. asked' \in [Senders -> [Address -> Nat]]
    <3>1. asked'[s] = [a \in Address |-> asked[s][a] + Cardinality({i \in 1..k : slots[s][i] = a})]
      BY <1>1, <1>3 DEF TypeOK
    <3>2. asked'[s] \in [Address -> Nat]
      <4>1. \A a \in Address : asked'[s][a] \in Nat
        BY <1>6
      <4> QED BY <3>1, <4>1
    <3> QED BY <1>1, <1>3, <3>2 DEF TypeOK
  <2>2. lost' \in [Senders -> SUBSET Address]
    BY <1>1, <1>2, <1>3, <1>4 DEF TypeOK
  <2>3. sent' \in [0..TicksPerSecond+1 -> Nat]
    <3>1. 0 \in 0..TicksPerSecond+1 /\ sent \in [0..TicksPerSecond+1 -> Nat]
      BY <1>1, LimiterAssumption DEF TypeOK
    <3> QED BY <1>3, <1>4, <3>1
  <2> QED BY <1>1, <1>5, <2>1, <2>2, <2>3 DEF TypeOK, LimiterType, Full, limiterVars, producing
<1> QED BY <1>8, <1>10, <1>11, <1>13, <1>14, <1>15, <1>16, OneSweep DEF IInv, SweepOK

-------------------------------------------------------------------------------
(* The limiters, time, and the whole.                                      *)

\* A step that no sweep takes part in.
LEMMA NoSweepInv ==
  ASSUME IInv, Fixed, LimiterType', sent' \in [0..TicksPerSecond+1 -> Nat],
         UNCHANGED <<target, producing, sending, asked, lost>>
  PROVE  IInv'
<1>1. \A q \in Senders : SameSweep(q)
  BY DEF SameSweep, SameProducer, SameChunks, SameSender, SameWire, producing, sending
<1>2. SweepInv'
  BY <1>1, SweepKept DEF IInv, SweepInv, SweepOK
<1>3. TypeOK'
  BY DEF IInv, TypeOK, producing, sending
<1> QED BY <1>2, <1>3 DEF IInv

\* The size of a limiter.
LEMMA FullTyped ==
  ASSUME pps \in [Limiters -> Rates], NEW l \in Limiters
  PROVE  pps[l] \in Nat \ {0} /\ Full(l) \in Nat /\ Full(l) <= Full(l)
<1>1. pps[l] \in Nat \ {0} /\ TicksPerSecond \in Nat
  BY LimiterAssumption
<1> QED BY <1>1 DEF Full

LEMMA ScanStepInv == ASSUME IInv, NEW c \in Scans, ScanStep(c) PROVE IInv'
<1>1. Fixed /\ UNCHANGED <<target, producing, sending, asked, lost>> /\ sent' = sent
  BY DEF ScanStep, CheckLimiter, MakeLimiter, Fixed, wire
<1>2. LimiterType'
  <2>1. CASE CheckLimiter(c)
    BY <2>1 DEF CheckLimiter, IInv, TypeOK, LimiterType, Full
  <2>2. CASE MakeLimiter(c)
    <3>1. "global" \in Limiters /\ Full("global") \in Int
      BY FullTyped DEF Limiters, IInv, TypeOK, LimiterType
    <3>2. Full("global") <= Full("global")
      BY <3>1
    <3> QED BY <2>2, <3>1, <3>2 DEF MakeLimiter, IInv, TypeOK, LimiterType, Full
  <2> QED BY <2>1, <2>2 DEF ScanStep
<1> QED BY <1>1, <1>2, NoSweepInv DEF IInv, TypeOK

\* A limiter and a sleeper after a tick.
LEMMA PassTimeTyped ==
  ASSUME TypeOK, PassTime
  PROVE  /\ LimiterType' /\ pps' = pps
         /\ \A l \in Limiters : /\ Full(l) \in Int
              /\ credit'[l] = IF Full(l) <= credit[l] + pps[l] THEN Full(l) ELSE credit[l] + pps[l]
         /\ \A s \in Senders : wait'[s] = IF wait[s] = 0 THEN 0 ELSE wait[s] - 1
<1>1. /\ credit' = [l \in Limiters |-> Min({Full(l), credit[l] + pps[l]})]
      /\ wait' = [s \in Senders |-> Max({0, wait[s] - 1})]
      /\ UNCHANGED <<pps, setUp, made>>
  BY DEF PassTime
<1>2. ASSUME NEW l \in Limiters
      PROVE  /\ Full(l) \in Int /\ credit'[l] \in Int /\ credit'[l] <= Full(l)
             /\ credit'[l] = IF Full(l) <= credit[l] + pps[l] THEN Full(l) ELSE credit[l] + pps[l]
  <2>1. Full(l) \in Int /\ credit[l] + pps[l] \in Int
    BY FullTyped DEF TypeOK, LimiterType
  <2>2. credit'[l] = IF Full(l) <= credit[l] + pps[l] THEN Full(l) ELSE credit[l] + pps[l]
    BY <1>1, <2>1, MinOfTwo
  <2> QED BY <2>1, <2>2
<1>3. ASSUME NEW s \in Senders
      PROVE  wait'[s] = (IF wait[s] = 0 THEN 0 ELSE wait[s] - 1) /\ wait'[s] \in Nat
  <2>1. wait[s] \in Nat
    BY DEF TypeOK, LimiterType
  <2>2. wait'[s] = IF 0 >= wait[s] - 1 THEN 0 ELSE wait[s] - 1
    BY <1>1, <2>1, MaxOfTwo
  <2> QED BY <2>1, <2>2
<1>4. credit' \in [Limiters -> Int] /\ wait' \in [Senders -> Nat]
  BY <1>1, <1>2, <1>3
<1> QED BY <1>1, <1>2, <1>3, <1>4 DEF TypeOK, LimiterType, Full

LEMMA TickInv == ASSUME IInv, Tick PROVE IInv'
<1>1. sent' \in [0..TicksPerSecond+1 -> Nat]
  <2>1. \A t \in 0..TicksPerSecond+1 : t # 0 => t - 1 \in 0..TicksPerSecond+1
    BY LimiterAssumption
  <2>2. 0 \in 0..TicksPerSecond+1
    BY LimiterAssumption
  <2> QED BY <2>1, <2>2 DEF Tick, IInv, TypeOK
<1>2. LimiterType' /\ Fixed
  BY PassTimeTyped DEF Tick, IInv, Fixed
<1> QED BY <1>1, <1>2, NoSweepInv DEF Tick

LEMMA InitIInv == ASSUME Init PROVE IInv
<1>1. LimiterType
  <2>1. \A l \in Limiters : Full(l) \in Int /\ Full(l) <= Full(l)
    BY FullTyped DEF Init, LimiterInit
  <2> QED BY <2>1 DEF Init, LimiterInit, LimiterType
<1>2. target \in Targets /\ Chunk \in Nat \ {0} /\ ChunksCap \in Nat \ {0} /\ Space \in Nat
  BY SweepAssumption DEF Init
<1>3. ASSUME NEW s \in Senders
      PROVE  /\ First(s) \in Address /\ Last(s) \in Address /\ First(s) <= Last(s)
             /\ Address \subseteq Int
  <2>1. target[s].first \in Address /\ target[s].last \in Address \cup {NoEnd} /\ Address \subseteq Int
        /\ target[s].first \in Int
    BY <1>2, SweepAssumption DEF Address
  <2>2. CASE Single(s)
    BY <2>1, <2>2 DEF First, Last
  <2>3. CASE ~Single(s)
    <3>1. target[s].last \in Address /\ target[s].last \in Int /\ target[s].first \in Int
      BY <2>1, <2>3 DEF Single
    <3> QED BY <2>1, <2>3, <3>1, MinOfTwo, MaxOfTwo DEF First, Last
  <2> QED BY <2>2, <2>3
<1>4. ASSUME NEW s \in Senders
      PROVE  /\ chunks[s] \in Seq(Seq(Address)) /\ Len(chunks[s]) <= ChunksCap
             /\ ipChunk[s] \in Seq(Address) /\ Len(ipChunk[s]) <= Chunk
  <2>1. ipChunk[s] = <<>> /\ Len(ipChunk[s]) = 0
    BY DEF Init
  <2>2. CASE Single(s)
    <3>1. <<First(s)>> \in Seq(Address)
      BY <1>3
    <3>2. chunks[s] = <<<<First(s)>>>> /\ <<<<First(s)>>>> \in Seq(Seq(Address)) /\ Len(chunks[s]) = 1
      BY <2>2, <3>1 DEF Init
    <3> QED BY <1>2, <2>1, <3>2
  <2>3. CASE ~Single(s)
    <3>1. chunks[s] = <<>> /\ Len(chunks[s]) = 0
      BY <2>3 DEF Init
    <3> QED BY <1>2, <2>1, <3>1
  <2> QED BY <2>2, <2>3
<1>5. TypeOK
  <2>1. cursor \in [Senders -> 0..Space]
    <3>1. \A s \in Senders : First(s) \in 0..Space
      BY <1>2, <1>3 DEF Address
    <3> QED BY <3>1 DEF Init
  <2>2. chunks \in [Senders -> Seq(Seq(Address))] /\ ipChunk \in [Senders -> Seq(Address)]
    BY <1>4 DEF Init
  <2> QED BY <1>1, <1>2, <1>4, <2>1, <2>2 DEF Init, TypeOK
<1>6. ASSUME NEW s \in Senders PROVE SweepOK(s)
  <2>1. Touched(s) = {} /\ sendPc[s] = "start" /\ ~Taken(s)
    BY DEF Init, Touched, Taken
  <2>2. \A i \in 1..Chunk : slots[s][i] = NoEnd
    BY DEF Init
  <2>3. \A a \in Address : asked[s][a] <= 1
    BY DEF Init
  <2>4. CASE Single(s)
    <3>1. /\ chunks[s] = <<<<First(s)>>>> /\ producer[s] = "closed" /\ First(s) = Last(s)
          /\ First(s) \in Int
      BY <1>3, <2>4 DEF Init, First, Last
    <3>2. Handed(s) = {First(s)}
      BY <3>1 DEF Handed, RangeOf
    <3>3. DOMAIN chunks[s] = {1} /\ chunks[s][1] = <<First(s)>> /\ Len(chunks[s]) = 1
      BY <3>1
    <3>4. Range(<<First(s)>>) = {First(s)} /\ IsInjective(<<First(s)>>) /\ Len(<<First(s)>>) = 1
      BY DEF Range, IsInjective
    <3>5. InChunks(s) = {First(s)}
      BY <3>3, <3>4 DEF InChunks
    <3>6. ChunksInv(s)
      BY <1>2, <3>1, <3>2, <3>3, <3>4 DEF ChunksInv, AllHanded
    <3> QED BY <2>1, <2>2, <2>3, <3>2, <3>5, <3>6 DEF SweepOK, SlotsInv, AskedInv, RefusedInv
  <2>5. CASE ~Single(s)
    <3>1. chunks[s] = <<>> /\ producer[s] = "run" /\ cursor[s] = First(s)
      BY <2>5 DEF Init
    <3>2. Handed(s) = {}
      BY <1>3, <3>1 DEF Handed
    <3>3. DOMAIN chunks[s] = {}
      BY <3>1
    <3>4. cursor[s] \in First(s)..Last(s)+1 /\ cursor[s] <= Last(s)
      BY <1>3, <3>1
    <3>5. ChunksInv(s)
      BY <3>3, <3>4 DEF ChunksInv
    <3> QED BY <2>1, <2>2, <2>3, <3>2, <3>5 DEF SweepOK, SlotsInv, AskedInv, RefusedInv
  <2> QED BY <2>4, <2>5
<1> QED BY <1>5, <1>6 DEF IInv, SweepInv, SweepOK

LEMMA NextIInv == ASSUME IInv, [Next]_vars PROVE IInv'
<1>1. CASE UNCHANGED vars
  <2>1. Fixed /\ LimiterType'
    BY <1>1 DEF IInv, TypeOK, LimiterType, Full, Fixed, vars, limiterVars
  <2> QED BY <1>1, <2>1, NoSweepInv DEF IInv, TypeOK, vars, wire
<1>2. CASE Next
  <2>1. ASSUME NEW c \in Scans, ScanStep(c) PROVE IInv'
    BY <2>1, ScanStepInv
  <2>2. ASSUME NEW s \in Senders, ProducerStep(s) PROVE IInv'
    BY <2>2, Produce4Inv, Produce6Inv, CloseChunksInv DEF ProducerStep
  <2>3. ASSUME NEW s \in Senders, SenderStep(s) \/ SendFails(s) PROVE IInv'
    BY <2>3, StartSweepInv, TakeChunkInv, EndSweepInv, AskGlobalInv, AskLocalInv, GiveUpInv,
       SendInv, SendFailsInv DEF SenderStep
  <2> QED BY <1>2, <2>1, <2>2, <2>3, TickInv DEF Next
<1> QED BY <1>1, <1>2

\* What the addresses of the sweeps go through, from every initial state on.
THEOREM SweepInvariance == Spec => []IInv
<1>1. Init => IInv
  BY InitIInv
<1>2. IInv /\ [Next]_vars => IInv'
  BY NextIInv
<1> QED BY <1>1, <1>2, PTL DEF Spec

\* Every variable of the sweeps and the limiters keeps its type.
THEOREM TypeCorrect == Spec => []TypeOK
<1>1. IInv => TypeOK
  BY DEF IInv
<1> QED BY <1>1, SweepInvariance, PTL

\* A sweep that has come to its end has asked every address of its range or lost it to
\* sendmmsg: no boundary of a chunk, short chunk, shuffle or last address of the
\* address space loses one, whatever the size of a chunk.
THEOREM AllAsked == Spec => []EveryAddressAsked
<1>1. ASSUME IInv PROVE EveryAddressAsked
  <2> SUFFICES ASSUME NEW s \in Senders, sendPc[s] = "done", NEW a \in RangeOf(s)
               PROVE  asked[s][a] > 0 \/ a \in lost[s]
    BY DEF EveryAddressAsked
  <2>1. AskedInv(s)
    BY <1>1 DEF IInv, SweepInv
  <2>2. InChunks(s) = {} /\ Handed(s) = RangeOf(s)
    BY <2>1 DEF AskedInv, Exhausted, InChunks, Handed
  <2>3. ~Taken(s)
    BY DEF Taken
  <2> QED BY <2>1, <2>2, <2>3 DEF AskedInv, Touched
<1> QED BY <1>1, SweepInvariance, PTL

\* Nothing outside of the range is asked, and nothing in it more than once, by ARP
\* more than twice.
THEOREM InRangeOnly == Spec => []AskedInRange
<1>1. ASSUME IInv PROVE AskedInRange
  <2> SUFFICES ASSUME NEW s \in Senders, NEW a \in Address
               PROVE  asked[s][a] <= IF a \notin RangeOf(s) THEN 0
                                     ELSE IF target[s].kind = "arp" THEN 2 ELSE 1
    BY DEF AskedInRange
  <2>1. TypeOK /\ AskedInv(s) /\ ChunksInv(s) /\ asked[s][a] \in Nat
    BY <1>1 DEF IInv, SweepInv, TypeOK
  <2>2. Handed(s) \subseteq RangeOf(s)
    BY <2>1, RangeTyped DEF Handed, RangeOf, ChunksInv
  <2>3. a \notin RangeOf(s) => asked[s][a] = 0
    BY <2>1, <2>2 DEF AskedInv, Touched
  <2> QED BY <2>1, <2>3 DEF AskedInv
<1> QED BY <1>1, SweepInvariance, PTL

\* A sweep whose chunks are larger than a rate allows is refused with its first chunk:
\* one that has sent anything is never refused.
THEOREM RefusedFirst == Spec => []RefusedAtOnce
<1>1. ASSUME IInv PROVE RefusedAtOnce
  <2> SUFFICES ASSUME NEW s \in Senders, sendPc[s] = "refused"
               PROVE  lost[s] = {} /\ \A a \in Address : asked[s][a] = 0
    BY DEF RefusedAtOnce
  <2>1. Touched(s) = {} /\ \A a \in Address : asked[s][a] \in Nat
    BY <1>1 DEF IInv, SweepInv, RefusedInv, TypeOK
  <2> QED BY <2>1 DEF Touched
<1> QED BY <1>1, SweepInvariance, PTL

-------------------------------------------------------------------------------
(* What the global limiter is owed.                                        *)

LEMMA Scales ==
  ASSUME NEW t \in Nat, NEW a \in Int, NEW b \in Int, a <= b
  PROVE  t * a <= t * b /\ t * a \in Int /\ t * b \in Int
OBVIOUS

LEMMA Distributes ==
  ASSUME NEW t \in Int, NEW a \in Int, NEW b \in Int
  PROVE  t * (a + b) = t * a + t * b /\ t * a \in Int /\ t * b \in Int /\ t * a = a * t
OBVIOUS

\* What one sender pays for at a time.
Batch(s) == {s} \X (1..Charge(s))

\* What the senders together can have paid for and not sent.
Batches == Chunk * Cardinality(Senders)

LEMMA BatchCounted ==
  ASSUME TypeOK, NEW s \in Senders
  PROVE  /\ IsFiniteSet(Batch(s)) /\ Cardinality(Batch(s)) = Charge(s)
         /\ Batch(s) \subseteq Senders \X (1..Chunk)
         /\ Charge(s) \in Nat
<1>1. Charge(s) \in Nat /\ Charge(s) <= Chunk /\ Chunk \in Nat
  BY ChargeTyped
<1>2. IsFiniteSet(1..Charge(s)) /\ Cardinality(1..Charge(s)) = Charge(s)
  BY <1>1, FS_Interval
<1>3. IsFiniteSet({s}) /\ Cardinality({s}) = 1
  BY FS_Singleton
<1>4. IsFiniteSet(Batch(s)) /\ Cardinality(Batch(s)) = 1 * Charge(s)
  BY <1>2, <1>3, FS_Product DEF Batch
<1>5. Batch(s) \subseteq Senders \X (1..Chunk)
  BY <1>1 DEF Batch
<1> QED BY <1>1, <1>4, <1>5

LEMMA PaidCounted ==
  ASSUME TypeOK
  PROVE  /\ IsFiniteSet(Paid) /\ Cardinality(Paid) \in Nat /\ Cardinality(Paid) <= Batches
         /\ Batches \in Nat
         /\ \A k \in Nat : /\ Unpaid(k) \subseteq Paid /\ IsFiniteSet(Unpaid(k))
                           /\ Cardinality(Unpaid(k)) \in Nat
                           /\ Cardinality(Unpaid(k)) <= Cardinality(Paid)
<1>1. IsFiniteSet(Senders) /\ Cardinality(Senders) \in Nat /\ Chunk \in Nat
  BY LimiterAssumption, SweepAssumption, FS_CardinalityType
<1>2. IsFiniteSet(1..Chunk) /\ Cardinality(1..Chunk) = Chunk
  BY <1>1, FS_Interval
<1>3. /\ IsFiniteSet(Senders \X (1..Chunk))
      /\ Cardinality(Senders \X (1..Chunk)) = Cardinality(Senders) * Chunk
  BY <1>1, <1>2, FS_Product
<1>4. Cardinality(Senders) * Chunk = Batches /\ Batches \in Nat
  BY <1>1, Distributes DEF Batches
<1>5. Paid \in SUBSET (Senders \X (1..Chunk))
  BY DEF Paid
<1>6. IsFiniteSet(Paid) /\ Cardinality(Paid) \in Nat /\ Cardinality(Paid) <= Batches
  BY <1>3, <1>4, <1>5, FS_Subset, FS_CardinalityType
<1>7. ASSUME NEW k \in Nat
      PROVE  /\ Unpaid(k) \in SUBSET Paid /\ IsFiniteSet(Unpaid(k))
             /\ Cardinality(Unpaid(k)) \in Nat /\ Cardinality(Unpaid(k)) <= Cardinality(Paid)
  <2>1. Unpaid(k) \in SUBSET Paid
    BY DEF Unpaid
  <2> QED BY <1>6, <2>1, FS_Subset, FS_CardinalityType
<1> QED BY <1>4, <1>6, <1>7

\* The numbers in the accounts.
LEMMA AccountsTyped ==
  ASSUME TypeOK
  PROVE  /\ TicksPerSecond \in Nat \ {0} /\ pps["global"] \in Nat \ {0} /\ credit["global"] \in Int
         /\ Full("global") = TicksPerSecond * pps["global"] /\ Full("global") \in Nat
         /\ credit["global"] <= Full("global") /\ "global" \in Limiters
         /\ made \in Nat /\ Max({1, made}) = (IF made = 0 THEN 1 ELSE made)
         /\ sent \in [0..TicksPerSecond+1 -> Nat] /\ 0 \in 0..TicksPerSecond+1
         /\ \A j \in 1..TicksPerSecond+1 : j \in 0..TicksPerSecond+1 /\ j \in Nat
<1>1. TicksPerSecond \in Nat \ {0} /\ "global" \in Limiters /\ made \in Nat
  BY LimiterAssumption DEF TypeOK, LimiterType, Limiters
<1>2. pps["global"] \in Nat \ {0} /\ Full("global") \in Nat
  BY <1>1, FullTyped DEF TypeOK, LimiterType
<1>3. Full("global") = TicksPerSecond * pps["global"]
  BY <1>1, <1>2, Distributes DEF Full
<1>4. Max({1, made}) = IF made = 0 THEN 1 ELSE made
  BY <1>1, MaxOfTwo
<1>5. credit["global"] \in Int /\ credit["global"] <= Full("global")
  BY <1>1 DEF TypeOK, LimiterType
<1>6. sent \in [0..TicksPerSecond+1 -> Nat]
  BY DEF TypeOK
<1>7. 0 \in 0..TicksPerSecond+1 /\ \A j \in 1..TicksPerSecond+1 : j \in 0..TicksPerSecond+1 /\ j \in Nat
  BY <1>1
<1> QED BY <1>1, <1>2, <1>3, <1>4, <1>5, <1>6, <1>7

\* What the window allows when m limiters were made.
Allowance(m) == TicksPerSecond * ((IF m = 0 THEN 1 ELSE m) * (pps["global"] + Batches))

LEMMA AllowanceTyped ==
  ASSUME TypeOK, NEW m \in Nat
  PROVE  Allowance(m) \in Nat
<1>1. pps["global"] + Batches \in Nat /\ TicksPerSecond \in Nat
  <2>1. Batches \in Nat
    BY PaidCounted
  <2>2. pps["global"] \in Nat /\ TicksPerSecond \in Nat
    BY AccountsTyped
  <2> QED BY <2>1, <2>2
<1>2. (IF m = 0 THEN 1 ELSE m) * (pps["global"] + Batches) \in Nat
  BY <1>1, Monotone
<1> QED BY <1>1, <1>2, Monotone DEF Allowance

Window(j) ==
  TicksPerSecond * (sent[0] - sent[j] + Cardinality(Paid)) + credit["global"] <=
    Allowance(made) + (j - 1) * pps["global"]

LEMMA Windows == ASSUME TypeOK PROVE WindowInv <=> \A j \in 1..TicksPerSecond+1 : Window(j)
BY AccountsTyped DEF WindowInv, Window, Allowance, Batches

Debt(k) == credit["global"] + k * pps["global"] + TicksPerSecond * Cardinality(Unpaid(k)) >= 0

LEMMA Debts == DebtInv <=> \A k \in Nat : Debt(k)
BY DEF DebtInv, Debt

\* The same two after a step.
LEMMA WindowsNext ==
  ASSUME made' \in Nat, \A j \in 1..TicksPerSecond+1 : Window(j)'
  PROVE  WindowInv'
<1>1. Max({1, made'}) = IF made' = 0 THEN 1 ELSE made'
  BY MaxOfTwo
<1> QED BY <1>1 DEF WindowInv, Window, Allowance, Batches

LEMMA DebtsNext == (\A k \in Nat : Debt(k)') => DebtInv'
BY DEF DebtInv, Debt

\* A sender that asks no limiter and is not asleep.
Awake(q) ==
  /\ sendPc[q] = "local" => wait[q] = 0
  /\ sendPc'[q] # "local"
  /\ sendPc'[q] = "send" => sendPc[q] \in {"local", "send"} /\ Charge(q)' = Charge(q)

Idle(q) == sendPc'[q] = sendPc[q] /\ wait'[q] = wait[q] /\ Charge(q)' = Charge(q)

LEMMA NothingPaid ==
  ASSUME TypeOK, \A q \in Senders : Awake(q) \/ Idle(q)
  PROVE  Paid' \subseteq Paid /\ \A k \in Nat : Unpaid(k)' = Unpaid(k)
<1>1. ASSUME NEW p \in Senders \X (1..Chunk), p \in Paid' PROVE p \in Paid
  <2>1. p[1] \in Senders /\ sendPc'[p[1]] \in {"local", "send"} /\ p[2] <= Charge(p[1])'
    BY <1>1 DEF Paid
  <2> QED BY <2>1 DEF Paid, Awake, Idle
<1>2. ASSUME NEW k \in Nat, NEW p \in Senders \X (1..Chunk)
      PROVE  p \in Unpaid(k)' <=> p \in Unpaid(k)
  <2>1. p[1] \in Senders /\ wait[p[1]] \in Nat
    BY DEF TypeOK, LimiterType
  <2>2. p \in Unpaid(k)' <=> sendPc'[p[1]] = "local" /\ p[2] <= Charge(p[1])' /\ wait'[p[1]] > k
    BY DEF Unpaid, Paid
  <2>3. p \in Unpaid(k) <=> sendPc[p[1]] = "local" /\ p[2] <= Charge(p[1]) /\ wait[p[1]] > k
    BY DEF Unpaid, Paid
  <2> QED BY <2>1, <2>2, <2>3 DEF Awake, Idle
<1>3. Paid' \subseteq Senders \X (1..Chunk)
  BY DEF Paid
<1>4. \A k \in Nat : Unpaid(k)' \subseteq Senders \X (1..Chunk) /\ Unpaid(k) \subseteq Senders \X (1..Chunk)
  BY DEF Unpaid, Paid
<1> QED BY <1>1, <1>2, <1>3, <1>4

\* k packets that were paid for are sent, or none.
LEMMA BooksKept ==
  ASSUME TypeOK, DebtInv, WindowInv, \A q \in Senders : Awake(q) \/ Idle(q),
         credit'["global"] = credit["global"], pps' = pps, made' = made,
         NEW k \in Nat, sent'[0] = sent[0] + k, \A j \in 1..TicksPerSecond+1 : sent'[j] = sent[j],
         Cardinality(Paid') + k <= Cardinality(Paid), Cardinality(Paid') \in Nat
  PROVE  DebtInv' /\ WindowInv'
<1>1. ASSUME NEW n \in Nat PROVE Debt(n)'
  <2>1. Unpaid(n)' = Unpaid(n)
    BY NothingPaid
  <2> QED BY <2>1, Debts DEF Debt
<1>2. ASSUME NEW j \in 1..TicksPerSecond+1 PROVE Window(j)'
  <2> DEFINE before == sent[0] - sent[j] + Cardinality(Paid)
             after == sent'[0] - sent'[j] + Cardinality(Paid')
             t == TicksPerSecond
  <2>1. before \in Int /\ after \in Int /\ after <= before /\ t \in Nat
    <3>1. /\ sent[0] \in Nat /\ sent[j] \in Nat /\ sent'[j] = sent[j] /\ TicksPerSecond \in Nat
          /\ Cardinality(Paid) \in Nat
      BY PaidCounted, AccountsTyped
    <3> QED BY <3>1
  <2>2. t * after <= t * before /\ t * after \in Int /\ t * before \in Int
    BY <2>1, Scales
  <2>3. t * before + credit["global"] <= Allowance(made) + (j - 1) * pps["global"]
    BY Windows DEF Window
  <2>4. Allowance(made)' = Allowance(made) /\ Allowance(made) \in Nat
    BY AllowanceTyped, AccountsTyped DEF Allowance, Batches
  <2>5. credit["global"] \in Int /\ (j - 1) * pps["global"] \in Int
    BY AccountsTyped
  <2>6. Window(j)' <=> t * after + credit["global"] <= Allowance(made)' + (j - 1) * pps["global"]
    BY DEF Window
  <2> HIDE DEF before, after, t
  <2> QED BY <2>2, <2>3, <2>4, <2>5, <2>6
<1> QED BY <1>1, <1>2, DebtsNext, WindowsNext, AccountsTyped

\* The steps of a sweep that leave the global limiter alone and send nothing.
LEMMA NothingSent ==
  ASSUME TypeOK, DebtInv, WindowInv, \A q \in Senders : Awake(q) \/ Idle(q),
         credit'["global"] = credit["global"], pps' = pps, made' = made, sent' = sent
  PROVE  DebtInv' /\ WindowInv'
<1>1. IsFiniteSet(Paid) /\ Cardinality(Paid) \in Nat /\ Paid' \in SUBSET Paid
  BY PaidCounted, NothingPaid
<1>2. Cardinality(Paid') <= Cardinality(Paid) /\ Cardinality(Paid') \in Nat
  BY <1>1, FS_Subset, FS_CardinalityType
<1>3. /\ sent'[0] = sent[0] + 0 /\ \A j \in 1..TicksPerSecond+1 : sent'[j] = sent[j]
      /\ Cardinality(Paid') + 0 <= Cardinality(Paid)
  BY <1>1, <1>2, AccountsTyped
<1> QED BY <1>2, <1>3, BooksKept

LEMMA ProducerRate ==
  ASSUME TypeOK, RateInv, NEW s \in Senders, ProducerStep(s)
  PROVE  RateInv'
<1>1. UNCHANGED <<limiterVars, target, sending, wire>>
  BY DEF ProducerStep, Produce4, Produce6, CloseChunks
<1>2. \A q \in Senders : Idle(q)
  BY <1>1 DEF Idle, Charge, sending, limiterVars
<1>3. DebtInv' /\ WindowInv'
  BY <1>1, <1>2, NothingSent DEF RateInv, limiterVars, wire
<1>4. UnusedInv'
  BY <1>1 DEF RateInv, UnusedInv, limiterVars, sending, Full
<1> QED BY <1>3, <1>4 DEF RateInv

\* What a sender does once it has started presupposes a limiter.
LEMMA StartedLate ==
  ASSUME RateInv, NEW s \in Senders, SenderStep(s) \/ SendFails(s)
  PROVE  made # 0
<1>1. CASE StartSweep(s)
  BY <1>1, SweepAssumption DEF StartSweep, RateInv, UnusedInv
<1>2. CASE ~StartSweep(s)
  <2>1. sendPc[s] # "start"
    BY <1>2 DEF SenderStep, TakeChunk, EndSweep, AskGlobal, AskLocal, GiveUp, Send, SendFails
  <2> QED BY <2>1 DEF RateInv, UnusedInv
<1> QED BY <1>1, <1>2

\* All of them but AskGlobal and Send.
LEMMA QuietSenderRate ==
  ASSUME TypeOK, RateInv, NEW s \in Senders,
         \/ StartSweep(s) \/ TakeChunk(s) \/ EndSweep(s) \/ AskLocal(s) \/ GiveUp(s) \/ SendFails(s)
  PROVE  RateInv'
<1>1. /\ UNCHANGED <<pps, made, target, sent>> /\ credit'["global"] = credit["global"]
      /\ \A q \in Senders \ {s} : Idle(q)
  <2>1. CASE AskLocal(s)
    <3>1. ScanOf[s] # "global" /\ ScanOf[s] \in Limiters
      BY LimiterAssumption, SweepAssumption, ChargeTyped
    <3> QED BY <2>1, <3>1 DEF AskLocal, Reserve, Idle, Charge, TypeOK, LimiterType, wire
  <2>2. CASE ~AskLocal(s)
    <3>1. UNCHANGED <<limiterVars, target, wire>>
      BY <2>2 DEF StartSweep, TakeChunk, EndSweep, GiveUp, SendFails
    <3>2. \A q \in Senders \ {s} : ipChunk'[q] = ipChunk[q] /\ sendPc'[q] = sendPc[q]
      BY <2>2 DEF StartSweep, TakeChunk, EndSweep, GiveUp, SendFails, TypeOK
    <3> QED BY <3>1, <3>2 DEF Idle, Charge, limiterVars, wire
  <2> QED BY <2>1, <2>2
<1>2. Awake(s)
  <2>1. CASE AskLocal(s)
    BY <2>1 DEF AskLocal, Awake, Charge, TypeOK
  <2>2. CASE GiveUp(s)
    BY <2>2 DEF GiveUp, Awake, TypeOK
  <2>3. CASE StartSweep(s) \/ TakeChunk(s) \/ EndSweep(s) \/ SendFails(s)
    BY <2>3 DEF StartSweep, TakeChunk, EndSweep, SendFails, Awake, TypeOK
  <2> QED BY <2>1, <2>2, <2>3
<1>3. \A q \in Senders : Awake(q) \/ Idle(q)
  BY <1>1, <1>2
<1>4. DebtInv' /\ WindowInv'
  BY <1>1, <1>3, NothingSent DEF RateInv
<1>5. UnusedInv'
  BY <1>1, StartedLate DEF UnusedInv, SenderStep
<1> QED BY <1>4, <1>5 DEF RateInv

\* Send: the packets sent are among those that were paid for.
LEMMA SendRate ==
  ASSUME TypeOK, RateInv, NEW s \in Senders, SlotsInv(s), Send(s)
  PROVE  RateInv'
<1>1. Ready(s) \in Nat /\ Ready(s) <= Charge(s) /\ Charge(s) \in Nat
  BY ReadySlots DEF Send, Taken
<1>2. PICK k \in 1..Ready(s) : sent' = [sent EXCEPT ![0] = @ + k]
  BY DEF Send
<1>3. k \in Nat /\ k <= Charge(s)
  BY <1>1, <1>2
<1>4. /\ UNCHANGED <<limiterVars, target, ipChunk>> /\ sendPc' = [sendPc EXCEPT ![s] = "take"]
      /\ sendPc[s] = "send" /\ sendPc'[s] = "take"
      /\ \A q \in Senders \ {s} : sendPc'[q] = sendPc[q] /\ Charge(q)' = Charge(q)
  BY DEF Send, TypeOK, Charge
<1>5. \A q \in Senders : Awake(q) \/ Idle(q)
  BY <1>4 DEF Awake, Idle, limiterVars
<1>6. Batch(s) \subseteq Paid
  <2>1. Batch(s) \subseteq Senders \X (1..Chunk)
    BY BatchCounted
  <2>2. \A p \in Batch(s) : p[1] = s /\ p[2] <= Charge(s)
    BY <1>1 DEF Batch
  <2> QED BY <1>4, <2>1, <2>2 DEF Paid
<1>7. Paid' \cap Batch(s) = {}
  BY <1>4 DEF Paid, Batch
<1>8. Paid' \subseteq Paid
  BY <1>5, NothingPaid
<1>9. /\ Cardinality(Paid') + Cardinality(Batch(s)) <= Cardinality(Paid) /\ Cardinality(Paid') \in Nat
  <2>1. IsFiniteSet(Paid) /\ IsFiniteSet(Batch(s)) /\ Cardinality(Paid) \in Nat
    BY PaidCounted, BatchCounted
  <2>2. IsFiniteSet(Paid') /\ Cardinality(Paid') \in Nat
    BY <1>8, <2>1, FS_Subset, FS_CardinalityType
  <2>3. Cardinality(Batch(s)) \in Nat
    BY <2>1, FS_CardinalityType
  <2>4. /\ Cardinality(Paid' \cup Batch(s)) =
             Cardinality(Paid') + Cardinality(Batch(s)) - Cardinality(Paid' \cap Batch(s))
    BY <2>1, <2>2, FS_Union
  <2>5. Cardinality(Paid' \cap Batch(s)) = 0
    BY <1>7, FS_EmptySet
  <2>6. Cardinality(Paid' \cup Batch(s)) <= Cardinality(Paid)
    <3>1. (Paid' \cup Batch(s)) \in SUBSET Paid
      BY <1>6, <1>8
    <3> QED BY <2>1, <3>1, FS_Subset
  <2> QED BY <2>2, <2>3, <2>4, <2>5, <2>6
<1>10. Cardinality(Paid') + k <= Cardinality(Paid)
  <2>1. Cardinality(Batch(s)) = Charge(s) /\ Cardinality(Paid) \in Nat
    BY BatchCounted, PaidCounted
  <2> QED BY <1>1, <1>3, <1>9, <2>1
<1>11. sent'[0] = sent[0] + k /\ \A j \in 1..TicksPerSecond+1 : sent'[j] = sent[j]
  <2>1. /\ sent \in [0..TicksPerSecond+1 -> Nat] /\ 0 \in 0..TicksPerSecond+1
        /\ \A j \in 1..TicksPerSecond+1 : j \in 0..TicksPerSecond+1 /\ j # 0
    BY AccountsTyped
  <2> QED BY <1>2, <2>1
<1>12. DebtInv' /\ WindowInv'
  BY <1>3, <1>4, <1>5, <1>9, <1>10, <1>11, BooksKept DEF RateInv, limiterVars
<1>13. UnusedInv'
  BY <1>4, StartedLate DEF UnusedInv, SenderStep, limiterVars
<1> QED BY <1>12, <1>13 DEF RateInv

\* A debt is slept off.
LEMMA SleptOff ==
  ASSUME NEW c \in Int, NEW p \in Nat \ {0}, NEW w \in Nat, NEW k \in Nat,
         w = (IF c >= 0 THEN 0 ELSE (-c + p - 1) \div p), ~(w > k)
  PROVE  c + k * p >= 0
<1>1. CASE c >= 0
  <2>1. k * p \in Nat
    BY Monotone
  <2> QED BY <1>1, <2>1
<1>2. CASE c < 0
  <2>1. w * p >= -c
    <3>1. -c \in Nat
      BY <1>2
    <3> QED BY <1>2, <3>1, RoundedUp
  <2>2. w * p <= k * p /\ w * p \in Nat /\ k * p \in Nat
    BY Monotone
  <2> QED BY <2>1, <2>2
<1> QED BY <1>1, <1>2

\* What a debt is made of.
LEMMA DebtSettled ==
  ASSUME NEW c \in Int, NEW p \in Int, NEW t \in Nat, NEW n \in Nat, NEW u \in Nat,
         c + p + t * u >= 0
  PROVE  (c - n * t) + p + t * (u + n) >= 0
BY Distributes

LEMMA BatchOnCredit ==
  ASSUME NEW c \in Int, NEW t \in Nat, NEW n \in Nat, NEW x \in Int, NEW u \in Nat, NEW b \in Int,
         t * (x + u) + c <= b
  PROVE  t * (x + (u + n)) + (c - n * t) <= b
<1>1. t * (x + (u + n)) = t * (x + u) + t * n /\ t * n = n * t /\ t * n \in Int /\ t * (x + u) \in Int
  <2>1. x + (u + n) = (x + u) + n /\ x + u \in Int
    OBVIOUS
  <2> QED BY <2>1, Distributes
<1> QED BY <1>1

\* AskGlobal: what is paid for and not sent is what the limiter has lost, and if it
\* is in debt for it the sender sleeps.
LEMMA AskGlobalRate ==
  ASSUME TypeOK, RateInv, NEW s \in Senders, AskGlobal(s)
  PROVE  RateInv'
<1> DEFINE n == Charge(s)
<1>1. /\ credit' = [credit EXCEPT !["global"] = @ - n * TicksPerSecond]
      /\ wait' = [wait EXCEPT ![s] = TicksToPay("global", credit'["global"])]
      /\ UNCHANGED <<pps, setUp, made, target, ipChunk, sent>>
      /\ sendPc[s] = "global" /\ sendPc' = [sendPc EXCEPT ![s] = "local"]
  BY DEF AskGlobal, Reserve, wire
<1>2. /\ n \in Nat /\ TicksPerSecond \in Nat \ {0} /\ pps["global"] \in Nat \ {0}
      /\ credit["global"] \in Int /\ n * TicksPerSecond \in Int
      /\ credit'["global"] = credit["global"] - n * TicksPerSecond /\ credit'["global"] \in Int
  <2>1. /\ n \in Nat /\ TicksPerSecond \in Nat \ {0} /\ pps["global"] \in Nat \ {0}
        /\ credit["global"] \in Int /\ "global" \in Limiters
    BY ChargeTyped, AccountsTyped
  <2>2. n * TicksPerSecond \in Int
    BY <2>1, Distributes
  <2>3. credit'["global"] = credit["global"] - n * TicksPerSecond
    BY <1>1, <2>1 DEF TypeOK, LimiterType
  <2> QED BY <2>1, <2>2, <2>3
<1>3. /\ sendPc'[s] = "local" /\ Charge(s)' = n /\ wait'[s] = TicksToPay("global", credit'["global"])
      /\ \A q \in Senders \ {s} : Idle(q)
  BY <1>1 DEF TypeOK, LimiterType, Idle, Charge
<1>4. /\ IsFiniteSet(Batch(s)) /\ Cardinality(Batch(s)) = n /\ Batch(s) \subseteq Senders \X (1..Chunk)
      /\ \A p \in Senders \X (1..Chunk) : p \in Batch(s) <=> p[1] = s /\ p[2] <= n
  <2>1. \A p \in Senders \X (1..Chunk) : p \in Batch(s) <=> p[1] = s /\ p[2] <= n
    BY <1>2 DEF Batch
  <2> QED BY <2>1, BatchCounted
<1> HIDE DEF n
<1>5. \A k \in Nat : /\ Unpaid(k) \subseteq Paid /\ IsFiniteSet(Unpaid(k)) /\ Cardinality(Unpaid(k)) \in Nat
  BY PaidCounted
<1>6. Paid' = Paid \cup Batch(s) /\ Paid \cap Batch(s) = {}
  <2>1. ASSUME NEW p \in Senders \X (1..Chunk)
        PROVE  /\ p \in Paid' <=> p \in Paid \/ p \in Batch(s)
               /\ ~(p \in Paid /\ p \in Batch(s))
    <3>1. p[1] \in Senders
      OBVIOUS
    <3> QED BY <1>1, <1>3, <1>4, <3>1 DEF Paid, Idle
  <2>2. Paid \subseteq Senders \X (1..Chunk) /\ Paid' \subseteq Senders \X (1..Chunk)
    BY DEF Paid
  <2> QED BY <1>4, <2>1, <2>2
<1>7. Cardinality(Paid') = Cardinality(Paid) + n /\ Cardinality(Paid) \in Nat
  <2>1. IsFiniteSet(Paid) /\ Cardinality(Paid) \in Nat
    BY PaidCounted
  <2>2. Cardinality(Paid') = Cardinality(Paid) + n - Cardinality(Paid \cap Batch(s))
    BY <1>4, <1>6, <2>1, FS_Union
  <2>3. Cardinality(Paid \cap Batch(s)) = 0
    BY <1>6, FS_EmptySet
  <2> QED BY <1>2, <2>1, <2>2, <2>3
<1>8. ASSUME NEW k \in Nat
      PROVE  Unpaid(k)' = IF wait'[s] > k THEN Unpaid(k) \cup Batch(s) ELSE Unpaid(k)
  <2>1. ASSUME NEW p \in Senders \X (1..Chunk)
        PROVE  p \in Unpaid(k)' <=> p \in Unpaid(k) \/ (wait'[s] > k /\ p \in Batch(s))
    <3>1. p[1] \in Senders
      OBVIOUS
    <3>2. p \in Unpaid(k)' <=> sendPc'[p[1]] = "local" /\ p[2] <= Charge(p[1])' /\ wait'[p[1]] > k
      BY DEF Unpaid, Paid
    <3>3. p \in Unpaid(k) <=> sendPc[p[1]] = "local" /\ p[2] <= Charge(p[1]) /\ wait[p[1]] > k
      BY DEF Unpaid, Paid
    <3> QED BY <1>1, <1>3, <1>4, <3>1, <3>2, <3>3 DEF Idle
  <2>2. Unpaid(k) \subseteq Senders \X (1..Chunk) /\ Unpaid(k)' \subseteq Senders \X (1..Chunk)
    BY DEF Paid, Unpaid
  <2> QED BY <1>4, <2>1, <2>2
<1>9. ASSUME NEW k \in Nat PROVE Debt(k)'
  <2>1. CASE wait'[s] > k
    <3>1. Cardinality(Unpaid(k)') = Cardinality(Unpaid(k)) + n
      <4>1. Unpaid(k)' = Unpaid(k) \cup Batch(s)
        BY <1>8, <2>1
      <4>2. Cardinality(Unpaid(k)') =
              Cardinality(Unpaid(k)) + n - Cardinality(Unpaid(k) \cap Batch(s))
        BY <1>4, <1>5, <4>1, FS_Union
      <4>3. Unpaid(k) \cap Batch(s) = {}
        BY <1>5, <1>6
      <4>4. Cardinality(Unpaid(k) \cap Batch(s)) = 0
        BY <4>3, FS_EmptySet
      <4> QED BY <1>2, <1>5, <4>2, <4>4
    <3>2. credit["global"] + k * pps["global"] + TicksPerSecond * Cardinality(Unpaid(k)) >= 0
      BY Debts DEF RateInv, Debt
    <3>3. k * pps["global"] \in Int /\ Cardinality(Unpaid(k)) \in Nat
      BY <1>2, <1>5, Distributes
    <3>4. (credit["global"] - n * TicksPerSecond) + k * pps["global"]
            + TicksPerSecond * (Cardinality(Unpaid(k)) + n) >= 0
      BY <1>2, <3>2, <3>3, DebtSettled
    <3> QED BY <1>1, <1>2, <3>1, <3>4 DEF Debt
  <2>2. CASE ~(wait'[s] > k)
    <3>1. Unpaid(k)' = Unpaid(k)
      BY <1>8, <2>2
    <3>2. TicksPerSecond * Cardinality(Unpaid(k)) \in Nat
      BY <1>2, <1>5, Monotone
    <3>3. wait'[s] \in Nat
      BY ReserveTyped, ChargeTyped DEF AskGlobal, LimiterType
    <3>4. credit'["global"] + k * pps["global"] >= 0
      BY <1>2, <1>3, <2>2, <3>3, SleptOff DEF TicksToPay
    <3>5. k * pps["global"] \in Int
      BY <1>2, Distributes
    <3> QED BY <1>1, <1>2, <3>1, <3>2, <3>4, <3>5 DEF Debt
  <2> QED BY <2>1, <2>2
<1>10. ASSUME NEW j \in 1..TicksPerSecond+1 PROVE Window(j)'
  <2>1. sent[0] - sent[j] \in Int
    BY AccountsTyped
  <2>2. Allowance(made) + (j - 1) * pps["global"] \in Int /\ Allowance(made)' = Allowance(made)
    <3>1. Allowance(made) \in Nat /\ Allowance(made)' = Allowance(made)
      BY <1>1, AllowanceTyped, AccountsTyped DEF Allowance, Batches
    <3>2. (j - 1) * pps["global"] \in Int
      BY <1>2, Distributes
    <3> QED BY <3>1, <3>2
  <2>3. TicksPerSecond * ((sent[0] - sent[j]) + Cardinality(Paid)) + credit["global"] <=
          Allowance(made) + (j - 1) * pps["global"]
    BY Windows DEF RateInv, Window
  <2>4. TicksPerSecond * ((sent[0] - sent[j]) + (Cardinality(Paid) + n))
          + (credit["global"] - n * TicksPerSecond) <= Allowance(made) + (j - 1) * pps["global"]
    BY <1>2, <1>7, <2>1, <2>2, <2>3, BatchOnCredit
  <2> QED BY <1>1, <1>2, <1>7, <2>2, <2>4 DEF Window
<1>11. UnusedInv'
  BY <1>1, StartedLate DEF UnusedInv, SenderStep
<1> QED BY <1>1, <1>9, <1>10, <1>11, DebtsNext, WindowsNext, AccountsTyped DEF RateInv

\* A new limiter in the place of one that was used.
LEMMA OneLimiterMore ==
  ASSUME NEW t \in Nat, NEW m \in Nat, NEW p \in Nat, NEW b \in Nat, NEW u \in Nat, NEW c \in Int,
         NEW full \in Int, NEW x \in Int, NEW r \in Int,
         u <= b, c + t * u >= 0, full = t * p, t * x + c <= t * (m * (p + b)) + r
  PROVE  t * x + full <= t * ((m + 1) * (p + b)) + r
<1>1. t * u <= t * b /\ t * u \in Int /\ t * b \in Int
  BY Scales
<1>2. (m + 1) * (p + b) = m * (p + b) + (p + b) /\ m * (p + b) \in Int
  <2>1. p + b \in Int
    OBVIOUS
  <2> QED BY <2>1, Distributes
<1>3. t * ((m + 1) * (p + b)) = t * (m * (p + b)) + t * (p + b) /\ t * (m * (p + b)) \in Int
  BY <1>2, Distributes
<1>4. t * (p + b) = t * p + t * b /\ t * p \in Int
  BY Distributes
<1>5. t * x \in Int
  BY Distributes
<1> QED BY <1>1, <1>3, <1>4, <1>5

\* MakeLimiter: the first limiter is full already if nobody has used it; another is
\* full where the old one was in debt.
LEMMA MakeLimiterRate ==
  ASSUME TypeOK, RateInv, NEW c \in Scans, ScanStep(c), MakeLimiter(c)
  PROVE  RateInv'
<1>1. /\ credit' = [credit EXCEPT !["global"] = Full("global")] /\ made' = made + 1
      /\ UNCHANGED <<pps, wait, target, sendPc, ipChunk, sent>>
  BY DEF ScanStep, MakeLimiter, sending, wire
<1>2. /\ TicksPerSecond \in Nat \ {0} /\ pps["global"] \in Nat \ {0} /\ credit["global"] \in Int
      /\ Full("global") = TicksPerSecond * pps["global"] /\ Full("global") \in Nat
      /\ credit'["global"] = Full("global") /\ made \in Nat
  <2>1. "global" \in Limiters
    BY AccountsTyped
  <2> QED BY <1>1, <2>1, AccountsTyped DEF TypeOK, LimiterType
<1>3. Paid' = Paid /\ \A k : Unpaid(k)' = Unpaid(k)
  BY <1>1 DEF Paid, Unpaid, Charge
<1>4. /\ Cardinality(Paid) \in Nat /\ Batches \in Nat
      /\ \A k \in Nat : Cardinality(Unpaid(k)) \in Nat /\ Cardinality(Unpaid(k)) <= Cardinality(Paid)
      /\ Cardinality(Paid) <= Batches
  BY PaidCounted
<1>5. ASSUME NEW k \in Nat PROVE Debt(k)'
  <2>1. k * pps["global"] \in Nat /\ TicksPerSecond * Cardinality(Unpaid(k)) \in Nat
    BY <1>2, <1>4, Monotone
  <2> QED BY <1>1, <1>2, <1>3, <2>1 DEF Debt
<1>6. ASSUME NEW j \in 1..TicksPerSecond+1 PROVE Window(j)'
  <2> DEFINE x == sent[0] - sent[j] + Cardinality(Paid)
             r == (j - 1) * pps["global"]
  <2>1. x \in Int /\ r \in Int
    <3>1. sent[0] \in Nat /\ sent[j] \in Nat /\ j \in Nat
      BY AccountsTyped
    <3> QED BY <1>2, <1>4, <3>1, Distributes
  <2>2. TicksPerSecond * x + credit["global"] <= Allowance(made) + r
    BY Windows DEF RateInv, Window
  <2>3. Window(j)' <=> TicksPerSecond * x + Full("global") <= Allowance(made + 1) + r
    BY <1>1, <1>2, <1>3 DEF Window, Allowance, Batches
  <2> HIDE DEF x, r
  <2>4. CASE made = 0
    <3>1. Allowance(made + 1) = Allowance(made) /\ credit["global"] = Full("global")
      BY <2>4 DEF Allowance, RateInv, UnusedInv
    <3> QED BY <2>2, <2>3, <3>1
  <2>5. CASE made # 0
    <3>1. /\ Allowance(made) = TicksPerSecond * (made * (pps["global"] + Batches))
          /\ Allowance(made + 1) = TicksPerSecond * ((made + 1) * (pps["global"] + Batches))
      BY <1>2, <2>5 DEF Allowance
    <3>2. credit["global"] + 0 * pps["global"] + TicksPerSecond * Cardinality(Unpaid(0)) >= 0
      BY Debts DEF RateInv, Debt
    <3>3. Cardinality(Unpaid(0)) \in Nat /\ Cardinality(Unpaid(0)) <= Batches
      BY <1>4
    <3>4. credit["global"] + TicksPerSecond * Cardinality(Unpaid(0)) >= 0
      BY <1>2, <3>2, <3>3
    <3>5. TicksPerSecond * x + credit["global"] <=
            TicksPerSecond * (made * (pps["global"] + Batches)) + r
      BY <2>2, <3>1
    <3>6. /\ TicksPerSecond \in Nat /\ made \in Nat /\ pps["global"] \in Nat /\ Batches \in Nat
          /\ credit["global"] \in Int /\ Full("global") \in Int
          /\ Full("global") = TicksPerSecond * pps["global"]
      BY <1>2, <1>4
    <3>7. TicksPerSecond * x + Full("global") <=
            TicksPerSecond * ((made + 1) * (pps["global"] + Batches)) + r
      BY <2>1, <3>3, <3>4, <3>5, <3>6, OneLimiterMore
    <3> QED BY <2>3, <3>1, <3>7
  <2> QED BY <2>4, <2>5
<1>7. made' \in Nat /\ made' # 0
  BY <1>1, <1>2
<1> QED BY <1>5, <1>6, <1>7, DebtsNext, WindowsNext DEF RateInv, UnusedInv

LEMMA CheckLimiterRate ==
  ASSUME TypeOK, RateInv, NEW c \in Scans, ScanStep(c), CheckLimiter(c)
  PROVE  RateInv'
<1>1. /\ UNCHANGED <<pps, credit, wait, made, target, sendPc, ipChunk, sent>>
      /\ setUp' = [setUp EXCEPT ![c] = IF made = 0 THEN "missing" ELSE "ready"]
  BY DEF ScanStep, CheckLimiter, sending, wire
<1>2. \A q \in Senders : Idle(q)
  BY <1>1 DEF Idle, Charge
<1>3. DebtInv' /\ WindowInv'
  BY <1>1, <1>2, NothingSent DEF RateInv
<1>4. UnusedInv'
  BY <1>1 DEF RateInv, UnusedInv, Full, TypeOK, LimiterType
<1> QED BY <1>3, <1>4 DEF RateInv

\* The youngest tick: what is paid for, and no more credit than a burst.
LEMMA WindowOpens ==
  ASSUME NEW t \in Nat, NEW m \in Nat \ {0}, NEW p \in Nat, NEW b \in Nat, NEW u \in Nat,
         NEW c \in Int, u <= b, c <= t * p
  PROVE  t * u + c <= t * (m * (p + b))
<1>1. t * u <= t * b /\ t * u \in Int /\ t * b \in Int
  BY Scales
<1>2. t * (p + b) = t * p + t * b /\ t * p \in Int
  BY Distributes
<1>3. 1 * (p + b) <= m * (p + b) /\ m * (p + b) \in Int /\ p + b \in Nat
  <2>1. p + b \in Nat /\ 1 <= m
    OBVIOUS
  <2> QED BY <2>1, Monotone, Distributes
<1>4. t * (p + b) <= t * (m * (p + b)) /\ t * (p + b) \in Int /\ t * (m * (p + b)) \in Int
  BY <1>3, Scales
<1> QED BY <1>1, <1>2, <1>4

\* Tick: the debts and the windows are one tick older.
LEMMA TickRate == ASSUME TypeOK, RateInv, Tick PROVE RateInv'
<1> DEFINE p == pps["global"]
           c == credit["global"]
           T == TicksPerSecond
<1>1. /\ UNCHANGED <<pps, made, setUp, target, sendPc, ipChunk>>
      /\ sent' = [t \in 0..T+1 |-> IF t = 0 THEN sent[0] ELSE sent[t-1]]
  BY DEF Tick, PassTime, sending
<1>2. /\ T \in Nat \ {0} /\ p \in Nat \ {0} /\ c \in Int /\ Full("global") = T * p
      /\ Full("global") \in Nat /\ made \in Nat /\ c <= Full("global")
  BY AccountsTyped
<1>3. /\ credit'["global"] = IF Full("global") <= c + p THEN Full("global") ELSE c + p
      /\ \A s \in Senders : wait'[s] = (IF wait[s] = 0 THEN 0 ELSE wait[s] - 1) /\ wait[s] \in Nat
  <2>1. \A s \in Senders : wait[s] \in Nat
    BY DEF TypeOK, LimiterType
  <2> QED BY <2>1, AccountsTyped, PassTimeTyped DEF Tick
<1>4. credit'["global"] \in Int /\ credit'["global"] <= Full("global") /\ credit'["global"] <= c + p
  BY <1>2, <1>3
<1>5. Paid' = Paid
  BY <1>1 DEF Paid, Charge
<1>6. ASSUME NEW k \in Nat PROVE Unpaid(k)' = Unpaid(k+1)
  <2>1. \A s \in Senders : wait'[s] > k <=> wait[s] > k + 1
    BY <1>3
  <2>2. \A q \in Paid : q[1] \in Senders
    BY DEF Paid
  <2> QED BY <1>1, <1>5, <2>1, <2>2 DEF Unpaid
<1>7. /\ Cardinality(Paid) \in Nat /\ Batches \in Nat /\ Cardinality(Paid) <= Batches
      /\ \A k \in Nat : Cardinality(Unpaid(k)) \in Nat
  BY PaidCounted
<1>8. ASSUME NEW k \in Nat PROVE Debt(k)'
  <2>1. /\ k * p \in Nat /\ k + 1 \in Nat /\ Cardinality(Unpaid(k+1)) \in Nat
        /\ T * Cardinality(Unpaid(k+1)) \in Nat
    BY <1>2, <1>7, Monotone
  <2>2. c + (k + 1) * p + T * Cardinality(Unpaid(k+1)) >= 0
    BY <2>1, Debts DEF RateInv, Debt
  <2>3. (k + 1) * p = k * p + p
    BY <1>2, Distributes
  <2>4. credit'["global"] + k * p + T * Cardinality(Unpaid(k+1)) >= 0
    <3> HIDE DEF p, c, T
    <3> QED BY <1>2, <1>3, <2>1, <2>2, <2>3
  <2> QED BY <1>1, <1>6, <2>4 DEF Debt
<1>9. Allowance(made)' = Allowance(made) /\ Allowance(made) \in Nat
  BY <1>1, <1>2, AllowanceTyped DEF Allowance, Batches
<1>10. ASSUME NEW j \in 1..T+1 PROVE Window(j)'
  <2>1. /\ sent'[0] = sent[0] /\ sent'[j] = sent[j-1] /\ sent[0] \in Nat /\ sent[j-1] \in Nat
        /\ j - 1 \in Nat
    <3>1. 0 \in 0..T+1 /\ j \in 0..T+1 /\ j # 0 /\ j - 1 \in 0..T+1 /\ j - 1 \in Nat
      BY <1>2
    <3> QED BY <1>1, <3>1, AccountsTyped
  <2>2. Window(j)' <=> T * (sent[0] - sent[j-1] + Cardinality(Paid)) + credit'["global"] <=
                         Allowance(made) + (j - 1) * p
    BY <1>1, <1>5, <1>9, <2>1 DEF Window
  <2>3. CASE j = 1
    <3>1. sent[0] - sent[j-1] + Cardinality(Paid) = Cardinality(Paid) /\ (j - 1) * p = 0
      BY <1>2, <1>7, <2>1, <2>3
    <3> DEFINE m == IF made = 0 THEN 1 ELSE made
    <3>2. m \in Nat \ {0} /\ Allowance(made) = T * (m * (p + Batches))
      BY <1>2 DEF Allowance
    <3> HIDE DEF m, p, c, T
    <3>3. T \in Nat /\ p \in Nat /\ credit'["global"] <= T * p
      BY <1>2, <1>4
    <3> DEFINE d == credit'["global"]
               u == Cardinality(Paid)
    <3>4. T * u + d <= T * (m * (p + Batches))
      <4>1. d \in Int /\ d <= T * p /\ u \in Nat /\ Batches \in Nat /\ u <= Batches
        BY <1>4, <1>7, <3>3
      <4> HIDE DEF d, u
      <4> QED BY <3>2, <3>3, <4>1, WindowOpens
    <3>5. Allowance(made) + 0 = Allowance(made)
      BY <1>9
    <3> QED BY <2>2, <3>1, <3>2, <3>4, <3>5
  <2>4. CASE j # 1
    <3> DEFINE x == sent[0] - sent[j-1] + Cardinality(Paid)
    <3>1. j - 1 \in 1..T+1
      BY <1>2, <2>4
    <3>2. T * x + c <= Allowance(made) + ((j - 1) - 1) * p
      BY <3>1, Windows DEF RateInv, Window
    <3>3. ((j - 1) - 1) * p = (j - 1) * p - p /\ (j - 1) * p \in Int
      BY <1>2, <2>1
    <3>4. x \in Int /\ T * x \in Int
      <4>1. x \in Int
        BY <1>7, <2>1
      <4> QED BY <1>2, <4>1, Distributes
    <3> HIDE DEF x, p, c, T
    <3>5. T * x + credit'["global"] <= Allowance(made) + (j - 1) * p
      BY <1>2, <1>4, <1>9, <3>2, <3>3, <3>4
    <3> QED BY <2>2, <3>5 DEF x
  <2> QED BY <2>3, <2>4
<1>11. UnusedInv'
  <2>1. c = Full("global") => credit'["global"] = Full("global")
    BY <1>2, <1>3
  <2> QED BY <1>1, <2>1 DEF RateInv, UnusedInv, Full
<1> QED BY <1>1, <1>2, <1>8, <1>10, <1>11, DebtsNext, WindowsNext DEF RateInv

LEMMA StutterRate == ASSUME TypeOK, RateInv, UNCHANGED vars PROVE RateInv'
<1>1. UNCHANGED <<limiterVars, target, producing, sending, wire>>
  BY DEF vars
<1>2. \A q \in Senders : Idle(q)
  BY <1>1 DEF Idle, Charge, sending, limiterVars
<1>3. DebtInv' /\ WindowInv'
  BY <1>1, <1>2, NothingSent DEF RateInv, limiterVars, wire
<1> QED BY <1>1, <1>3 DEF RateInv, UnusedInv, limiterVars, sending, Full

LEMMA InitRate == ASSUME Init PROVE RateInv
<1>1. TypeOK
  BY InitIInv DEF IInv
<1>2. /\ credit["global"] = Full("global") /\ \A s \in Senders : sendPc[s] = "start"
      /\ \A c \in Scans : setUp[c] = "new"
  BY <1>1, AccountsTyped DEF Init, LimiterInit
<1>3. Paid = {}
  BY <1>2 DEF Paid
<1>4. /\ TicksPerSecond \in Nat /\ pps["global"] \in Nat /\ Full("global") = TicksPerSecond * pps["global"]
      /\ Full("global") \in Nat /\ made \in Nat
  BY <1>1, AccountsTyped
<1>5. Cardinality(Paid) = 0 /\ Batches \in Nat /\ \A k \in Nat : Cardinality(Unpaid(k)) \in Nat
  BY <1>1, <1>3, FS_EmptySet, PaidCounted
<1>6. ASSUME NEW k \in Nat PROVE Debt(k)
  <2>1. k * pps["global"] \in Nat /\ TicksPerSecond * Cardinality(Unpaid(k)) \in Nat
    BY <1>4, <1>5, Monotone
  <2> QED BY <1>2, <1>4, <2>1 DEF Debt
<1>7. ASSUME NEW j \in 1..TicksPerSecond+1 PROVE Window(j)
  <2> DEFINE m == IF made = 0 THEN 1 ELSE made
             p == pps["global"]
             T == TicksPerSecond
  <2>1. m \in Nat \ {0} /\ Allowance(made) = T * (m * (p + Batches))
    BY <1>4 DEF Allowance
  <2>2. sent[0] - sent[j] + Cardinality(Paid) = 0
    <3>1. 0 \in 0..TicksPerSecond+1 /\ j \in 0..TicksPerSecond+1
      BY <1>4
    <3>2. sent[0] = 0 /\ sent[j] = 0
      BY <3>1 DEF Init
    <3> QED BY <1>5, <3>2
  <2>3. (j - 1) * p \in Nat
    <3>1. j - 1 \in Nat
      BY <1>4
    <3> QED BY <1>4, <3>1, Monotone
  <2>4. Allowance(made) \in Nat
    BY <1>1, <1>4, AllowanceTyped
  <2>5. T \in Nat /\ p \in Nat /\ T * p \in Int /\ T * p <= T * p
    BY <1>4
  <2> HIDE DEF m, p, T
  <2>6. T * 0 + T * p <= T * (m * (p + Batches))
    BY <1>5, <2>1, <2>5, WindowOpens
  <2>7. T * 0 = 0
    BY <2>5
  <2> QED BY <1>2, <1>4, <2>1, <2>2, <2>3, <2>4, <2>6, <2>7 DEF Window, p, T
<1>8. UnusedInv
  BY <1>2 DEF UnusedInv
<1> QED BY <1>1, <1>6, <1>7, <1>8, Debts, Windows DEF RateInv

\* IInv has the types, and SlotsInv, which Send needs: what it sends was paid for.
LEMMA NextRate == ASSUME IInv, RateInv, [Next]_vars PROVE RateInv'
<1>1. TypeOK /\ \A s \in Senders : SlotsInv(s)
  BY DEF IInv, SweepInv
<1>2. CASE UNCHANGED vars
  BY <1>1, <1>2, StutterRate
<1>3. CASE Next
  <2>1. ASSUME NEW c \in Scans, ScanStep(c) PROVE RateInv'
    <3>1. CheckLimiter(c) \/ MakeLimiter(c)
      BY <2>1 DEF ScanStep
    <3> QED BY <1>1, <2>1, <3>1, CheckLimiterRate, MakeLimiterRate
  <2>2. ASSUME NEW s \in Senders, ProducerStep(s) PROVE RateInv'
    BY <1>1, <2>2, ProducerRate
  <2>3. ASSUME NEW s \in Senders, SenderStep(s) \/ SendFails(s) PROVE RateInv'
    BY <1>1, <2>3, QuietSenderRate, AskGlobalRate, SendRate DEF SenderStep
  <2> QED BY <1>1, <1>3, <2>1, <2>2, <2>3, TickRate DEF Next
<1> QED BY <1>2, <1>3

\* The accounts of the global limiter are in order from every initial state on.
THEOREM RateInvariance == Spec => []RateInv
<1>1. Init => RateInv
  BY InitRate
<1>2. IInv /\ RateInv /\ [Next]_vars => RateInv'
  BY NextRate
<1> QED BY <1>1, <1>2, SweepInvariance, PTL DEF Spec

\* The arithmetic of the whole window.
LEMMA WholeWindow ==
  ASSUME NEW t \in Nat \ {0}, NEW d \in Int, NEW b \in Int, NEW p \in Int, NEW c \in Int,
         NEW paid \in Nat, NEW u \in Nat, u <= paid, c + t * u >= 0,
         t * (d + paid) + c <= t * b + t * p
  PROVE  d <= p + b
<1>1. t * u <= t * paid /\ t * u \in Int /\ t * paid \in Int
  BY Scales
<1>2. t * (d + paid) = t * d + t * paid /\ t * d \in Int
  BY Distributes
<1>3. t * (p + b) = t * p + t * b /\ t * p \in Int /\ t * b \in Int /\ p + b \in Int
  BY Distributes
<1>4. t * d <= t * (p + b)
  BY <1>1, <1>2, <1>3
<1> QED BY <1>3, <1>4, Cancels

\* In any second, however many sweeps share the global limiter and whatever their
\* chunks, the scanner sends no more than the refill of one second, and for each
\* limiter there was a burst and one batch of every sender.
THEOREM RateBounded == Spec => []RateBound
<1>1. ASSUME TypeOK, RateInv PROVE RateBound
  <2> DEFINE T == TicksPerSecond
             p == pps["global"]
             c == credit["global"]
             b == (IF made = 0 THEN 1 ELSE made) * (p + Batches)
             d == sent[0] - sent[T+1]
             paid == Cardinality(Paid)
             u == Cardinality(Unpaid(0))
  <2>1. T \in Nat \ {0} /\ p \in Nat /\ c \in Int /\ made \in Nat
    BY <1>1, AccountsTyped
  <2>2. paid \in Nat /\ u \in Nat /\ u <= paid /\ Batches \in Nat
    BY <1>1, PaidCounted
  <2>3. T + 1 \in 1..T+1 /\ T + 1 - 1 = T
    BY <2>1
  <2>4. d \in Int
    BY <1>1, <2>3, AccountsTyped
  <2>5. b \in Int
    BY <2>1, <2>2, Distributes
  <2>6. T * (d + paid) + c <= T * b + T * p
    <3>1. Window(T+1)
      BY <1>1, <2>3, Windows DEF RateInv
    <3>2. T * (d + paid) + c <= Allowance(made) + ((T + 1) - 1) * p
      BY <3>1 DEF Window
    <3>3. Allowance(made) = T * b
      BY DEF Allowance
    <3> HIDE DEF T, p, c, b, d, paid
    <3>4. ((T + 1) - 1) * p = T * p
      <4>1. (T + 1) - 1 = T
        BY <2>1
      <4> QED BY <4>1
    <3> QED BY <3>2, <3>3, <3>4
  <2>7. c + T * u >= 0
    <3>1. c + 0 * p + T * u >= 0
      BY <1>1, Debts DEF RateInv, Debt
    <3>2. 0 * p = 0
      BY <2>1
    <3>3. T * u \in Int
      BY <2>1, <2>2, Distributes
    <3> QED BY <2>1, <3>1, <3>2, <3>3
  <2>8. RateBound <=> d <= p + b
    BY <1>1, AccountsTyped DEF RateBound, Batches
  <2> HIDE DEF T, p, c, b, d, paid, u
  <2>9. d <= p + b
    BY <2>1, <2>2, <2>4, <2>5, <2>6, <2>7, WholeWindow
  <2> QED BY <2>8, <2>9
<1>2. IInv => TypeOK
  BY DEF IInv
<1> QED BY <1>1, <1>2, SweepInvariance, RateInvariance, PTL

===============================================================================
