--------------------------- MODULE RouteSplitProofs ---------------------------
(***************************************************************************)
(* Theorems about RouteSplit, for every address space, every routing table *)
(* and every network.                                                      *)
(*                                                                         *)
(* The inductive invariant RouteInv joins what the ranges cover            *)
(* (Partition) with which routes they have (Ordered).  The heart of both   *)
(* is what one call of Split leaves of one range, the lemmas SplitPieces   *)
(* and SplitCovers; the wrap-around of PreviousIP and NextIP is kept out   *)
(* of it by NoWrap.                                                        *)
(***************************************************************************)
EXTENDS RouteSplit, TLAPS

\* The last address is a number.
LEMMA TopNat == Top \in Nat
BY AddressAssumption

\* The destinations of the table's routes are prefixes.
LEMMA DstPrefix ==
  ASSUME TypeOK, NEW i \in DOMAIN table
  PROVE  /\ Dst(i) \in Prefixes
         /\ Dst(i).first \in 0..Top /\ Dst(i).last \in 0..Top /\ Dst(i).first <= Dst(i).last
         /\ table[i].usable \in BOOLEAN
<1>1. table \in Seq(Route)
  BY DEF TypeOK
<1>2. table[i] \in Route
  BY <1>1
<1> QED
  BY <1>2, AddressAssumption DEF Route, Dst, Addresses

\* The rule's network is a prefix, but for its host bits.
LEMMA NetPrefix ==
  ASSUME TypeOK
  PROVE  /\ PrefixOf(net) \in Prefixes
         /\ PrefixOf(net).first = net.base /\ PrefixOf(net).last = net.last
         /\ net.base \in 0..Top /\ net.first \in 0..Top /\ net.last \in 0..Top
         /\ net.base <= net.first /\ net.first <= net.last
         /\ net.wide => net.first = net.last
<1>1. PrefixOf(net) \in Prefixes /\ net \in Network
  BY AddressAssumption DEF TypeOK
<1>2. net.base <= net.first /\ net.first <= net.last
  BY AddressAssumption DEF TypeOK
<1>3. net.base \in 0..Top /\ net.first \in 0..Top /\ net.last \in 0..Top
  BY <1>1 DEF Network, Addresses
<1>4. PrefixOf(net).first = net.base /\ PrefixOf(net).last = net.last
  BY DEF PrefixOf
<1>5. SingleHost(net) => net.first = net.last
  BY <1>2, <1>3, TopNat DEF SingleHost
<1>6. net.wide => SingleHost(net)
  BY AddressAssumption, Zenon DEF TypeOK
<1>7. net.wide => net.first = net.last
  BY <1>5, <1>6, Zenon
<1> QED
  BY <1>1, <1>2, <1>3, <1>4, <1>7, Zenon

\* The fields of a range.
LEMMA RangeShape ==
  ASSUME TypeOK, NEW r \in ranges
  PROVE  /\ r = IpRange(r.start, r.wide, r.end, r.route)
         /\ r.route \in DOMAIN table /\ r.wide \in BOOLEAN
BY DEF TypeOK, IpRange

\* The pieces of a range of four-byte bounds.
LEMMA SplitForm ==
  ASSUME NEW i, NEW r, ~r.wide
  PROVE  LET d == Dst(i) IN
         Split(r, i) =
           IF r.end < PreviousIP(d.first) \/ ~(r.start <= NextIP(d.last))
             THEN {r}
             ELSE (IF r.start < d.first /\ r.start <= PreviousIP(d.first)
                     THEN {IpRange(r.start, r.wide, PreviousIP(d.first), r.route)} ELSE {})
                  \cup (IF r.start <= d.first
                          THEN IF d.first <= MinIP(r.end, d.last)
                                 THEN {IpRange(d.first, FALSE, MinIP(r.end, d.last), i)} ELSE {}
                          ELSE IF r.start <= MinIP(r.end, d.last)
                                 THEN {IpRange(r.start, r.wide, MinIP(r.end, d.last), i)} ELSE {})
                  \cup (IF NextIP(d.last) <= r.end
                          THEN {IpRange(NextIP(d.last), FALSE, r.end, r.route)} ELSE {})
BY DEF Split, Untouched, Piece, From, IpRange, StartsBefore, StartsBy

\* What split leaves of a range: pieces of it that keep its route away from the
\* specific route, or get the specific route within it.  They start and end where
\* the range did or where the route cuts.
LEMMA SplitPieces ==
  ASSUME TypeOK, NEW i \in DOMAIN table, NEW r, Bounded(r),
         r = IpRange(r.start, r.wide, r.end, r.route), r.wide \in BOOLEAN,
         NEW p \in Split(r, i)
  PROVE  /\ p = IpRange(p.start, p.wide, p.end, p.route) /\ p.wide \in BOOLEAN
         /\ Bounded(p) /\ r.start <= p.start /\ p.end <= r.end
         /\ \/ p = r /\ (Meets(r, i) => Dst(i).first = 0 \/ Dst(i).last = Top)
            \/ p.route = r.route /\ ~Meets(p, i)
            \/ p.route = i /\ Dst(i).first <= p.start /\ p.end <= Dst(i).last
         /\ p.start \in {r.start, Dst(i).first, NextIP(Dst(i).last)}
         /\ p.end \in {r.end, Dst(i).last, PreviousIP(Dst(i).first)}
<1> DEFINE d == Dst(i)
<1>1. /\ d.first \in 0..Top /\ d.last \in 0..Top /\ d.first <= d.last
      /\ r.start \in 0..Top /\ r.end \in 0..Top /\ r.start <= r.end /\ ~r.wide
      /\ r.wide = FALSE
  BY DstPrefix DEF Bounded, Addresses
<1>2. CASE r.end < PreviousIP(d.first) \/ ~(r.start <= NextIP(d.last))
  <2>1. p = r
    BY <1>1, <1>2, SplitForm
  <2>2. Meets(r, i) => d.first = 0 \/ d.last = Top
    BY <1>1, <1>2, TopNat DEF Meets, PreviousIP, NextIP
  <2> QED
    BY <1>1, <2>1, <2>2
<1>3. CASE ~(r.end < PreviousIP(d.first) \/ ~(r.start <= NextIP(d.last)))
  <2> DEFINE e == MinIP(r.end, d.last)
  <2>1. \/ /\ r.start < d.first /\ r.start <= PreviousIP(d.first)
           /\ p = IpRange(r.start, r.wide, PreviousIP(d.first), r.route)
        \/ r.start <= d.first /\ d.first <= e /\ p = IpRange(d.first, FALSE, e, i)
        \/ d.first < r.start /\ r.start <= e /\ p = IpRange(r.start, r.wide, e, i)
        \/ NextIP(d.last) <= r.end /\ p = IpRange(NextIP(d.last), FALSE, r.end, r.route)
    <3>1. p \in (IF r.start < d.first /\ r.start <= PreviousIP(d.first)
                   THEN {IpRange(r.start, r.wide, PreviousIP(d.first), r.route)} ELSE {})
                \cup (IF r.start <= d.first
                        THEN IF d.first <= e THEN {IpRange(d.first, FALSE, e, i)} ELSE {}
                        ELSE IF r.start <= e THEN {IpRange(r.start, r.wide, e, i)} ELSE {})
                \cup (IF NextIP(d.last) <= r.end
                        THEN {IpRange(NextIP(d.last), FALSE, r.end, r.route)} ELSE {})
      BY <1>1, <1>3, SplitForm, Zenon
    <3> HIDE DEF e
    <3>2. p \in (IF r.start <= d.first
                   THEN IF d.first <= e THEN {IpRange(d.first, FALSE, e, i)} ELSE {}
                   ELSE IF r.start <= e THEN {IpRange(r.start, r.wide, e, i)} ELSE {})
          => \/ r.start <= d.first /\ d.first <= e /\ p = IpRange(d.first, FALSE, e, i)
             \/ d.first < r.start /\ r.start <= e /\ p = IpRange(r.start, r.wide, e, i)
      <4>1. r.start <= d.first \/ d.first < r.start
        BY <1>1, TopNat
      <4> QED
        BY <4>1, Zenon
    <3> QED
      BY <3>1, <3>2, Zenon
  <2>2. e \in {r.end, d.last} /\ e \in 0..Top /\ e <= r.end /\ e <= d.last
    BY <1>1, TopNat DEF MinIP
  <2> HIDE DEF e
  <2>3. CASE /\ r.start < d.first /\ r.start <= PreviousIP(d.first)
             /\ p = IpRange(r.start, r.wide, PreviousIP(d.first), r.route)
    <3>1. PreviousIP(d.first) = d.first - 1
      BY <2>3, <1>1, TopNat DEF PreviousIP
    <3>2. p.start = r.start /\ p.end = d.first - 1 /\ p.route = r.route /\ p.wide = r.wide
      BY <2>3, <3>1 DEF IpRange
    <3>3. Bounded(p) /\ p.end <= r.end /\ ~Meets(p, i)
      BY <1>1, <1>3, <2>3, <3>1, <3>2, TopNat DEF Bounded, Addresses, Meets
    <3> QED
      BY <1>1, <2>3, <3>1, <3>2, <3>3
  <2>4. CASE r.start <= d.first /\ d.first <= e /\ p = IpRange(d.first, FALSE, e, i)
    <3>1. p.start = d.first /\ p.end = e /\ p.route = i /\ ~p.wide
      BY <2>4 DEF IpRange
    <3> QED
      BY <1>1, <2>2, <2>4, <3>1, TopNat DEF Bounded, Addresses, IpRange
  <2>5. CASE d.first < r.start /\ r.start <= e /\ p = IpRange(r.start, r.wide, e, i)
    <3>1. p.start = r.start /\ p.end = e /\ p.route = i /\ ~p.wide
      BY <1>1, <2>5 DEF IpRange
    <3> QED
      BY <1>1, <2>2, <2>5, <3>1, TopNat DEF Bounded, Addresses, IpRange
  <2>6. CASE NextIP(d.last) <= r.end /\ p = IpRange(NextIP(d.last), FALSE, r.end, r.route)
    <3>1. p.start = NextIP(d.last) /\ p.end = r.end /\ p.route = r.route /\ p.wide = FALSE
      BY <2>6 DEF IpRange
    <3>2. CASE d.last = Top
      <4>1. NextIP(d.last) = 0 /\ r.start = 0
        BY <3>2, <1>1, <1>3, TopNat DEF NextIP
      <4>2. p = r
        BY <4>1, <1>1, <2>6
      <4> QED
        BY <1>1, <3>2, <4>2
    <3>3. CASE d.last # Top
      <4>1. NextIP(d.last) = d.last + 1
        BY <3>3 DEF NextIP
      <4>2. p.start = d.last + 1 /\ p.end = r.end /\ ~p.wide /\ d.last + 1 <= r.end
        BY <2>6, <3>1, <4>1
      <4>3. r.start <= d.last + 1
        BY <1>3, <4>1
      <4>4. Bounded(p) /\ r.start <= p.start /\ p.end <= r.end /\ ~Meets(p, i)
        BY <1>1, <4>2, <4>3, TopNat DEF Bounded, Addresses, Meets
      <4> QED
        BY <1>1, <2>6, <3>1, <4>4 DEF IpRange
    <3> QED
      BY <3>2, <3>3
  <2> QED
    BY <2>1, <2>3, <2>4, <2>5, <2>6
<1> QED
  BY <1>2, <1>3

\* Split loses no address of the range.
LEMMA SplitCovers ==
  ASSUME TypeOK, NEW i \in DOMAIN table, NEW r, Bounded(r),
         NEW a \in 0..Top, Holds(r, a)
  PROVE  \E p \in Split(r, i) : Holds(p, a)
<1> DEFINE d == Dst(i)
           e == MinIP(r.end, d.last)
<1>1. /\ d.first \in 0..Top /\ d.last \in 0..Top /\ d.first <= d.last
      /\ r.start \in 0..Top /\ r.end \in 0..Top /\ r.start <= r.end /\ ~r.wide
      /\ r.start <= a /\ a <= r.end
  BY DstPrefix DEF Bounded, Addresses, Holds
<1>2. CASE r.end < PreviousIP(d.first) \/ ~(r.start <= NextIP(d.last))
  <2>1. Split(r, i) = {r}
    BY <1>1, <1>2, SplitForm
  <2> QED
    BY <2>1
<1>3. CASE ~(r.end < PreviousIP(d.first) \/ ~(r.start <= NextIP(d.last)))
  <2>1. CASE a < d.first
    <3> DEFINE p == IpRange(r.start, r.wide, PreviousIP(d.first), r.route)
    <3>1. PreviousIP(d.first) = d.first - 1 /\ r.start < d.first /\ r.start <= d.first - 1
      BY <2>1, <1>1, TopNat DEF PreviousIP
    <3>2. p \in Split(r, i)
      BY <3>1, <1>1, <1>3, SplitForm
    <3>3. Holds(p, a)
      BY <3>1, <2>1, <1>1, TopNat DEF Holds, IpRange
    <3> QED
      BY <3>2, <3>3
  <2>2. CASE d.first <= a /\ a <= d.last
    <3>1. a <= e
      BY <2>2, <1>1 DEF MinIP
    <3> HIDE DEF e
    <3>2. CASE r.start <= d.first
      <4>1. IpRange(d.first, FALSE, e, i) \in Split(r, i)
        <5>1. d.first <= e
          BY <2>2, <3>1, <1>1, TopNat DEF e, MinIP
        <5> QED
          BY <5>1, <3>2, <1>1, <1>3, SplitForm DEF e
      <4> QED
        BY <4>1, <3>1, <2>2 DEF Holds, IpRange
    <3>3. CASE ~(r.start <= d.first)
      <4>1. IpRange(r.start, r.wide, e, i) \in Split(r, i)
        <5>1. r.start <= e
          BY <2>2, <3>1, <1>1, TopNat DEF e, MinIP
        <5> QED
          BY <5>1, <3>3, <1>1, <1>3, SplitForm DEF e
      <4> QED
        BY <4>1, <3>1, <1>1 DEF Holds, IpRange
    <3> QED
      BY <3>2, <3>3
  <2>3. CASE d.last < a
    <3> DEFINE p == IpRange(NextIP(d.last), FALSE, r.end, r.route)
    <3>1. NextIP(d.last) = d.last + 1 /\ d.last + 1 <= r.end
      BY <2>3, <1>1, TopNat DEF NextIP
    <3>2. p \in Split(r, i)
      BY <3>1, <1>1, <1>3, SplitForm
    <3>3. Holds(p, a)
      BY <3>1, <2>3, <1>1, TopNat DEF Holds, IpRange
    <3> QED
      BY <3>2, <3>3
  <2> QED
    BY <2>1, <2>2, <2>3, <1>1
<1> QED
  BY <1>2, <1>3

\* A specific route that reaches the last address leaves ranges from address 0
\* alone, unless the network is the whole address space.
LEMMA NoWrap ==
  ASSUME TypeOK, ~Everything, NEW i \in Specifics, Dst(i).last = Top,
         NEW r, Within(r), Bounded(r), r.start = 0
  PROVE  r.end < PreviousIP(Dst(i).first)
<1> DEFINE d == Dst(i)
           n == PrefixOf(net)
<1>1. i \in DOMAIN table /\ net.base <= d.first /\ d.first <= net.last
  BY DEF Specifics
<1>2. /\ d \in Prefixes /\ d.first \in 0..Top /\ d.first <= d.last
  BY <1>1, DstPrefix
<1>3. /\ n \in Prefixes /\ n.first = net.base /\ n.last = net.last
      /\ net.base = 0 /\ net.last \in 0..Top /\ net.last < Top
  BY NetPrefix, TopNat DEF Within, Bounded, Addresses, Everything
<1> HIDE DEF n, d
<1>4. Covers(d, n)
  <2>1. Covers(d, n) \/ Covers(n, d) \/ Disjoint(d, n)
    BY <1>2, <1>3, AddressAssumption
  <2> QED
    BY <2>1, <1>1, <1>2, <1>3, TopNat DEF Covers, Disjoint, d
<1>5. d.first = 0
  BY <1>2, <1>3, <1>4, TopNat DEF Covers
<1> QED
  BY <1>5, <1>3, TopNat DEF PreviousIP, Within, Bounded, Addresses, d

\* The pieces of a range do not overlap.
LEMMA SplitApart ==
  ASSUME TypeOK, ~Everything, NEW i \in Specifics,
         NEW r, Within(r), Bounded(r),
         NEW p \in Split(r, i), NEW q \in Split(r, i), p # q
  PROVE  Apart(p, q)
<1> DEFINE d == Dst(i)
           e == MinIP(r.end, d.last)
           before == IpRange(r.start, r.wide, PreviousIP(d.first), r.route)
           over1  == IpRange(d.first, FALSE, e, i)
           over2  == IpRange(r.start, r.wide, e, i)
           after  == IpRange(NextIP(d.last), FALSE, r.end, r.route)
<1>1. i \in DOMAIN table
  BY DEF Specifics
<1>2. /\ d.first \in 0..Top /\ d.last \in 0..Top /\ d.first <= d.last
      /\ r.start \in 0..Top /\ r.end \in 0..Top /\ r.start <= r.end /\ ~r.wide
  BY <1>1, DstPrefix DEF Bounded, Addresses
<1>3. ~(r.end < PreviousIP(d.first) \/ ~(r.start <= NextIP(d.last)))
  <2> SUFFICES ASSUME r.end < PreviousIP(d.first) \/ ~(r.start <= NextIP(d.last))
               PROVE  Split(r, i) = {r}
    OBVIOUS
  <2> QED
    BY <1>2, SplitForm
<1>4. d.last < Top
  <2>1. SUFFICES ASSUME d.last = Top PROVE FALSE
    BY <1>2, TopNat
  <2>2. NextIP(d.last) = 0
    BY <2>1 DEF NextIP
  <2>3. r.start = 0
    BY <2>2, <1>2, <1>3, TopNat
  <2> QED
    BY <2>1, <2>3, <1>3, NoWrap
<1>5. NextIP(d.last) = d.last + 1
  BY <1>2, <1>4 DEF NextIP
<1>6. /\ e \in 0..Top /\ e <= d.last /\ e <= r.end
      /\ r.start < d.first => PreviousIP(d.first) = d.first - 1
  BY <1>2, TopNat DEF MinIP, PreviousIP
<1> HIDE DEF e
<1>7. ASSUME NEW x \in Split(r, i)
      PROVE  \/ x = before /\ r.start < d.first
             \/ x = over1 /\ r.start <= d.first
             \/ x = over2 /\ ~(r.start <= d.first)
             \/ x = after
  <2>1. x \in (IF r.start < d.first /\ r.start <= PreviousIP(d.first) THEN {before} ELSE {})
              \cup (IF r.start <= d.first
                      THEN IF d.first <= e THEN {over1} ELSE {}
                      ELSE IF r.start <= e THEN {over2} ELSE {})
              \cup (IF NextIP(d.last) <= r.end THEN {after} ELSE {})
    BY <1>2, <1>3, SplitForm, Zenon DEF e
  <2> HIDE DEF before, over1, over2, after
  <2> QED
    BY <2>1
<1>8. /\ before.start = r.start /\ before.end = PreviousIP(d.first)
      /\ over1.start = d.first /\ over1.end = e /\ over2.start = r.start /\ over2.end = e
      /\ after.start = d.last + 1
  BY <1>5 DEF IpRange
<1> HIDE DEF before, over1, over2, after
<1> QED
  BY <1>2, <1>6, <1>7, <1>8, TopNat DEF Apart

-------------------------------------------------------------------------------
(* The steps.                                                              *)

\* Refine only changes what is left to do and the ranges.
LEMMA Frame ==
  ASSUME table' = table, net' = net
  PROVE  /\ Specifics' = Specifics /\ Covering' = Covering
         /\ Starts' = Starts /\ Ends' = Ends
         /\ \A i : Dst(i)' = Dst(i) /\ (Best(i)' <=> Best(i))
BY DEF Specifics, Covering, Printed, Starts, Ends, Dst, Best

\* A route that starts in a wide network starts at its address.  It leaves of a range
\* what lies before it, moves the end of a wide start, or takes the address over.
LEMMA WideSplit ==
  ASSUME TypeOK, net.wide, NEW i \in Specifics, NEW r \in ranges,
         \/ r.wide /\ r.start = net.first /\ (r.end = net.first \/ (r.end = net.first - 1 /\ 0 < net.first))
         \/ ~r.wide /\ r.start = net.first /\ r.end = net.first,
         NEW p \in Split(r, i)
  PROVE  /\ p = IpRange(p.start, p.wide, p.end, p.route) /\ p.wide \in BOOLEAN
         /\ \/ p = r
            \/ /\ r.wide /\ p.wide /\ p.start = net.first /\ p.route = r.route
               /\ p.end = net.first - 1 /\ 0 < net.first
            \/ ~p.wide /\ p.start = net.first /\ p.end = net.first /\ p.route = i
<1> DEFINE d == Dst(i)
           a == net.first
<1>1. /\ i \in DOMAIN table /\ d.first = a /\ d.last \in 0..Top /\ a <= d.last /\ a \in 0..Top
      /\ r = IpRange(r.start, r.wide, r.end, r.route) /\ r.wide \in BOOLEAN
  <2>1. i \in DOMAIN table /\ net.base <= d.first /\ d.first <= net.last
    BY DEF Specifics
  <2>2. net.base = net.first /\ net.first = net.last
    <3>1. SingleHost(net)
      BY AddressAssumption DEF TypeOK
    <3> QED
      BY <3>1, NetPrefix, TopNat DEF SingleHost
  <2>3. /\ d.first \in 0..Top /\ d.last \in 0..Top /\ d.first <= d.last
    BY <2>1, DstPrefix
  <2>4. a \in 0..Top
    BY NetPrefix
  <2> QED
    BY <2>1, <2>2, <2>3, <2>4, RangeShape, TopNat
<1> HIDE DEF d, a
<1>2. CASE p = r
  BY <1>1, <1>2
<1>3. CASE p # r
  <2>1. /\ ~(r.end < PreviousIP(a)) /\ StartsBy(r, NextIP(d.last))
        /\ \/ StartsBefore(r, a) /\ p \in Piece(IpRange(r.start, r.wide, PreviousIP(a), r.route))
           \/ p \in Piece(From(r, a, MinIP(r.end, d.last), i))
           \/ p \in Piece(IpRange(NextIP(d.last), FALSE, r.end, r.route))
    BY <1>1, <1>3 DEF Split, Untouched, d
  <2>2. a \in 0..Top /\ r.start = a
    BY <1>1 DEF a
  <2>3. CASE r.wide
    <3>1. a > 0 /\ PreviousIP(a) = a - 1
      <4>1. a # 0 \/ Top = 0
        BY <2>1, <2>2, <2>3, TopNat DEF PreviousIP, a
      <4>2. Top # 0
        BY <2>1, <2>3, <1>1, TopNat DEF StartsBy, NextIP
      <4> QED
        BY <4>1, <4>2, <2>2, TopNat DEF PreviousIP
    <3>2. NextIP(d.last) = d.last + 1
      BY <2>1, <2>3, <1>1, TopNat DEF StartsBy, NextIP
    <3>3. CASE p \in Piece(IpRange(r.start, r.wide, PreviousIP(a), r.route))
      <4>1. p = IpRange(a, r.wide, a - 1, r.route)
        BY <3>1, <3>3, <2>2 DEF Piece
      <4> QED
        BY <4>1, <3>1, <2>3, <1>1 DEF IpRange, a
    <3>4. CASE p \in Piece(From(r, a, MinIP(r.end, d.last), i))
      <4>1. From(r, a, MinIP(r.end, d.last), i) = IpRange(a, FALSE, MinIP(r.end, d.last), i)
        BY <3>1, <2>3 DEF From, StartsBy
      <4>2. p = IpRange(a, FALSE, MinIP(r.end, d.last), i) /\ a <= MinIP(r.end, d.last)
        BY <4>1, <3>4 DEF Piece, StartsBy, IpRange
      <4>3. MinIP(r.end, d.last) = a
        BY <4>2, <1>1, <2>2 DEF MinIP, a
      <4> QED
        BY <4>2, <4>3 DEF IpRange, a
    <3>5. CASE p \in Piece(IpRange(NextIP(d.last), FALSE, r.end, r.route))
      <4>1. d.last + 1 <= r.end
        BY <3>2, <3>5 DEF Piece, StartsBy, IpRange
      <4> QED
        BY <4>1, <1>1, <2>2, TopNat DEF a
    <3> QED
      BY <2>1, <3>3, <3>4, <3>5
  <2>4. CASE ~r.wide
    <3>1. r.end = a
      BY <2>4 DEF a
    <3>2. ~StartsBefore(r, a)
      BY <2>2, <2>4, TopNat DEF StartsBefore
    <3>3. CASE p \in Piece(From(r, a, MinIP(r.end, d.last), i))
      <4>1. From(r, a, MinIP(r.end, d.last), i) = IpRange(a, FALSE, MinIP(r.end, d.last), i)
        BY <2>2, <2>4, TopNat DEF From, StartsBy
      <4>2. MinIP(r.end, d.last) = a
        BY <1>1, <2>2, <3>1, TopNat DEF MinIP
      <4>3. p = IpRange(a, FALSE, a, i)
        BY <4>1, <4>2, <3>3 DEF Piece
      <4> QED
        BY <4>3 DEF IpRange, a
    <3>4. CASE p \in Piece(IpRange(NextIP(d.last), FALSE, r.end, r.route))
      <4>1. p = IpRange(NextIP(d.last), FALSE, a, r.route) /\ NextIP(d.last) <= a
        BY <3>1, <3>4 DEF Piece, StartsBy, IpRange
      <4>2. a <= NextIP(d.last)
        BY <2>1, <2>2, <2>4 DEF StartsBy
      <4>3. p = IpRange(a, FALSE, a, r.route)
        <5>1. NextIP(d.last) = a
          BY <4>1, <4>2, <1>1, TopNat DEF NextIP
        <5> QED
          BY <4>1, <5>1
      <4> QED
        BY <4>3, <3>1, <2>2, <2>4, <1>1, <1>3
    <3> QED
      BY <2>1, <3>2, <3>3, <3>4
  <2> QED
    BY <2>3, <2>4, <1>1
<1> QED
  BY <1>2, <1>3

\* The ranges of a wide network keep their form.
LEMMA RefineWide ==
  ASSUME TypeOK, Chosen, WideRanges, Refine, net.wide
  PROVE  TypeOK' /\ WideRanges' /\ Chosen'
<1>1. PICK i \in todo : /\ ranges' = UNION {Split(r, i) : r \in ranges}
                       /\ todo' = todo \ {i}
  BY DEF Refine
<1>2. pc = "refine" /\ UNCHANGED <<family, table, net, pc, base>>
  BY DEF Refine
<1>3. /\ i \in Specifics /\ todo \subseteq Specifics /\ Specifics \subseteq DOMAIN table
      /\ todo' \subseteq todo /\ Best(base) /\ base \in DOMAIN table
  BY <1>1, <1>2 DEF Chosen, Specifics, Best, Covering
<1>4. Specifics' = Specifics /\ Laid' = Laid \cup {i}
  BY <1>1, <1>2, <1>3, Frame DEF Laid
<1>5. net.first \in 0..Top
  BY NetPrefix
<1>6. ASSUME NEW p \in ranges'
      PROVE  /\ p = IpRange(p.start, p.wide, p.end, p.route) /\ p.wide \in BOOLEAN
             /\ \/ /\ p.wide /\ p.start = net.first /\ p.route = base
                   /\ p.end = net.first \/ (p.end = net.first - 1 /\ 0 < net.first)
                \/ ~p.wide /\ p.start = net.first /\ p.end = net.first /\ p.route \in Laid \cup {i}
  <2>1. PICK r \in ranges : p \in Split(r, i)
    BY <1>1
  <2>2. \/ /\ r.wide /\ r.start = net.first /\ r.route = base
           /\ r.end = net.first \/ (r.end = net.first - 1 /\ 0 < net.first)
        \/ ~r.wide /\ r.start = net.first /\ r.end = net.first /\ r.route \in Laid
    BY <1>2 DEF WideRanges
  <2>3. /\ p = IpRange(p.start, p.wide, p.end, p.route) /\ p.wide \in BOOLEAN
        /\ \/ p = r
           \/ /\ r.wide /\ p.wide /\ p.start = net.first /\ p.route = r.route
              /\ p.end = net.first - 1 /\ 0 < net.first
           \/ ~p.wide /\ p.start = net.first /\ p.end = net.first /\ p.route = i
    BY <2>1, <2>2, <1>3, WideSplit
  <2> QED
    BY <2>2, <2>3
<1>7. TypeOK'
  <2>1. ASSUME NEW p \in ranges'
        PROVE  /\ p \in [start : Addresses \cup {NoAddress}, wide : BOOLEAN,
                          end : Addresses \cup {NoAddress}, route : DOMAIN table]
               /\ p.start # NoAddress
    <3>1. /\ p.start \in 0..Top /\ p.end \in 0..Top /\ p.route \in DOMAIN table
          /\ p.wide \in BOOLEAN /\ p = IpRange(p.start, p.wide, p.end, p.route)
      BY <1>3, <1>5, <1>6, TopNat DEF Laid
    <3> QED
      BY <3>1, TopNat DEF IpRange, Addresses, NoAddress
  <2> QED
    BY <1>1, <1>2, <2>1 DEF TypeOK
<1>8. WideRanges'
  BY <1>2, <1>4, <1>6 DEF WideRanges
<1>9. Chosen'
  BY <1>2, <1>3, Frame DEF Chosen
<1> QED
  BY <1>7, <1>8, <1>9

\* An overlay keeps the types, and the ranges the routes that were chosen.
LEMMA RefineType ==
  ASSUME TypeOK, Chosen, Refine, ~net.wide
  PROVE  TypeOK' /\ Chosen'
<1>1. PICK i \in todo : /\ Earliest(i)
                       /\ ranges' = UNION {Split(r, i) : r \in ranges}
                       /\ todo' = todo \ {i}
  BY DEF Refine
<1>2. pc = "refine" /\ UNCHANGED <<family, table, net, pc, base>>
  BY DEF Refine
<1>3. i \in DOMAIN table /\ todo' \subseteq todo
  BY <1>1 DEF TypeOK
<1>4. ASSUME NEW p \in ranges'
      PROVE  /\ Bounded(p) /\ p.route \in DOMAIN table
             /\ p = IpRange(p.start, p.wide, p.end, p.route)
             /\ p.start \in Starts /\ p.end \in Ends /\ p.wide \in BOOLEAN
  <2>1. PICK r \in ranges : p \in Split(r, i)
    BY <1>1
  <2>2. /\ r = IpRange(r.start, r.wide, r.end, r.route)
        /\ r.route \in DOMAIN table /\ Bounded(r) /\ r.start \in Starts /\ r.end \in Ends
        /\ r.wide \in BOOLEAN
    BY <1>2, RangeShape DEF Chosen
  <2>3. /\ p = IpRange(p.start, p.wide, p.end, p.route)
        /\ Bounded(p) /\ p.wide \in BOOLEAN
        /\ p = r \/ p.route = r.route \/ p.route = i
        /\ p.start \in {r.start, Dst(i).first, NextIP(Dst(i).last)}
        /\ p.end \in {r.end, Dst(i).last, PreviousIP(Dst(i).first)}
    BY <2>1, <2>2, <1>3, SplitPieces
  <2> QED
    BY <2>2, <2>3, <1>3 DEF Starts, Ends
<1>5. TypeOK'
  <2>1. ranges' \subseteq [start : Addresses \cup {NoAddress}, wide : BOOLEAN,
                          end : Addresses \cup {NoAddress}, route : DOMAIN table]
    BY <1>4 DEF Bounded, IpRange
  <2>2. \A r \in ranges' : r.start # NoAddress
    BY <1>4, TopNat DEF Bounded, NoAddress, Addresses
  <2> QED
    BY <1>2, <1>3, <2>1, <2>2 DEF TypeOK
<1>6. Chosen'
  BY <1>2, <1>3, <1>4, Frame DEF Chosen, Bounded
<1> QED
  BY <1>5, <1>6

\* An overlay cuts ranges into pieces that partition what they were.
LEMMA RefinePartition ==
  ASSUME TypeOK, Chosen, Partition, Refine
  PROVE  Partition'
<1>1. PICK i \in todo : ranges' = UNION {Split(r, i) : r \in ranges}
  BY DEF Refine
<1>2. pc = "refine" /\ net' = net
  BY DEF Refine
<1>3. i \in DOMAIN table /\ i \in Specifics
  BY <1>1, <1>2 DEF TypeOK, Chosen
<1> SUFFICES ASSUME ~Everything, ~net.wide
             PROVE  /\ \A p \in ranges' : Within(p)
                    /\ \A a \in net.first..net.last : \E p \in ranges' : Holds(p, a)
                    /\ \A p, q \in ranges' : p # q => Apart(p, q)
  BY <1>2 DEF Partition, Within, Holds, Apart, Everything
<1>4. /\ net.first \in 0..Top /\ net.last \in 0..Top
  BY NetPrefix
<1>5. ASSUME NEW r \in ranges
      PROVE  /\ r = IpRange(r.start, r.wide, r.end, r.route)
             /\ Bounded(r) /\ Within(r) /\ r.wide \in BOOLEAN
  BY <1>2, RangeShape DEF Chosen, Partition
<1>6. ASSUME NEW r \in ranges, NEW p \in Split(r, i)
      PROVE  Bounded(p) /\ r.start <= p.start /\ p.end <= r.end
  BY <1>3, <1>5, SplitPieces
<1>7. ASSUME NEW p \in ranges' PROVE Within(p)
  <2>1. PICK r \in ranges : p \in Split(r, i)
    BY <1>1
  <2> QED
    BY <2>1, <1>4, <1>5, <1>6, TopNat DEF Within, Bounded, Addresses
<1>8. ASSUME NEW a \in net.first..net.last PROVE \E p \in ranges' : Holds(p, a)
  <2>1. PICK r \in ranges : Holds(r, a)
    BY <1>2 DEF Partition
  <2>2. a \in 0..Top
    BY <1>4, TopNat
  <2>3. PICK p \in Split(r, i) : Holds(p, a)
    BY <2>1, <2>2, <1>3, <1>5, SplitCovers
  <2> QED
    BY <2>3, <1>1
<1>9. ASSUME NEW p \in ranges', NEW q \in ranges', p # q PROVE Apart(p, q)
  <2>1. PICK r \in ranges : p \in Split(r, i)
    BY <1>1
  <2>2. PICK s \in ranges : q \in Split(s, i)
    BY <1>1
  <2>3. CASE r = s
    BY <2>1, <2>2, <2>3, <1>3, <1>5, <1>9, SplitApart
  <2>4. CASE r # s
    <3>1. Apart(r, s)
      BY <2>4, <1>2 DEF Partition
    <3> QED
      BY <3>1, <2>1, <2>2, <1>5, <1>6, TopNat DEF Apart, Bounded, Addresses
  <2> QED
    BY <2>3, <2>4
<1> QED
  BY <1>7, <1>8, <1>9

\* Nothing that covers the network is narrower than the chosen route.
LEMMA BaseNarrowest ==
  ASSUME TypeOK, Best(base), NEW i \in Covering
  PROVE  Covers(Dst(i), Dst(base))
<1>1. /\ base \in DOMAIN table /\ i \in DOMAIN table /\ Length(Dst(base)) <= Length(Dst(i))
      /\ Dst(i).first <= net.first /\ net.last <= Dst(i).last
      /\ Dst(base).first <= net.first /\ net.last <= Dst(base).last
  BY DEF Best, Covering
<1>2. /\ Dst(i) \in Prefixes /\ Dst(base) \in Prefixes
      /\ Dst(i).first \in 0..Top /\ Dst(i).last \in 0..Top
      /\ Dst(base).first \in 0..Top /\ Dst(base).last \in 0..Top
  BY <1>1, DstPrefix
<1>3. net.first \in 0..Top /\ net.last \in 0..Top /\ net.first <= net.last
  BY NetPrefix
<1>4. Covers(Dst(i), Dst(base)) \/ Covers(Dst(base), Dst(i))
  BY <1>1, <1>2, <1>3, TopNat, AddressAssumption DEF Covers, Disjoint
<1> QED
  BY <1>1, <1>2, <1>4, TopNat DEF Covers, Length

\* After an overlay no range has a wider route than one already laid that it meets.
LEMMA RefineOrdered ==
  ASSUME TypeOK, Chosen, Ordered, Refine
  PROVE  Ordered'
<1>1. PICK i \in todo : /\ Earliest(i)
                       /\ ranges' = UNION {Split(r, i) : r \in ranges}
                       /\ todo' = todo \ {i}
  BY DEF Refine
<1>2. pc = "refine" /\ UNCHANGED <<family, table, net, pc, base>>
  BY DEF Refine
<1>3. /\ i \in DOMAIN table /\ i \in Specifics /\ Best(base) /\ base \in DOMAIN table
      /\ todo \subseteq Specifics /\ Specifics \subseteq DOMAIN table
  BY <1>1, <1>2 DEF TypeOK, Chosen, Best, Covering, Specifics
<1>4. /\ Specifics' = Specifics /\ \A k : Dst(k)' = Dst(k)
      /\ Laid' = Laid \cup {i}
  BY <1>1, <1>2, <1>3, Frame DEF Laid
<1> SUFFICES ASSUME DistinctStarts, 0 < net.base, net.last < Top, ~net.wide
             PROVE  /\ \A p \in ranges' :
                         /\ Within(p)
                         /\ p.route \in Laid \cup {i, base}
                         /\ Dst(p.route).first <= p.start /\ p.end <= Dst(p.route).last
                         /\ \A k \in Laid \cup {i} : Meets(p, k) => Covers(Dst(k), Dst(p.route))
                    /\ \A k \in Laid \cup {i}, j \in todo' : Dst(k).first <= Dst(j).first
  BY <1>2, <1>4 DEF Ordered, DistinctStarts, Within, Meets
<1>5. /\ net.base \in 0..Top /\ net.first \in 0..Top /\ net.last \in 0..Top
      /\ net.base <= net.first /\ net.first <= net.last
  BY NetPrefix
<1>6. ASSUME NEW k \in DOMAIN table
      PROVE  /\ Dst(k) \in Prefixes /\ Dst(k).first \in 0..Top /\ Dst(k).last \in 0..Top
             /\ Dst(k).first <= Dst(k).last
  BY DstPrefix
<1>7. /\ \A j \in todo : Dst(i).first <= Dst(j).first
      /\ \A k \in Laid : Dst(k).first <= Dst(i).first
  BY <1>1, <1>2 DEF Earliest, Ordered
<1>8. \A k \in Laid \cup {i}, j \in todo' : Dst(k).first <= Dst(j).first
  BY <1>1, <1>2, <1>7 DEF Ordered
<1>9. net.base <= Dst(i).first /\ Dst(i).first <= net.last /\ 0 < Dst(i).first
  <2>1. net.base <= Dst(i).first /\ Dst(i).first <= net.last
    BY <1>3 DEF Specifics
  <2> QED
    BY <2>1, <1>3, <1>5, <1>6, TopNat
  \* Routes laid earlier that meet the new one cover it.
<1>10. ASSUME NEW k \in Laid, ~Disjoint(Dst(k), Dst(i)) PROVE Covers(Dst(k), Dst(i))
  <2>1. k \in DOMAIN table /\ k # i
    BY <1>1, <1>3 DEF Laid
  <2>2. Dst(k).first < Dst(i).first
    BY <2>1, <1>3, <1>6, <1>7, TopNat DEF DistinctStarts
  <2> QED
    BY <2>1, <2>2, <1>3, <1>6, <1>10, TopNat, AddressAssumption DEF Covers, Disjoint
<1>11. ASSUME NEW p \in ranges'
       PROVE  /\ Within(p)
              /\ p.route \in Laid \cup {i, base}
              /\ Dst(p.route).first <= p.start /\ p.end <= Dst(p.route).last
              /\ \A k \in Laid \cup {i} : Meets(p, k) => Covers(Dst(k), Dst(p.route))
  <2>1. PICK r \in ranges : p \in Split(r, i)
    BY <1>1
  <2>2. /\ r = IpRange(r.start, r.wide, r.end, r.route)
        /\ Bounded(r) /\ Within(r) /\ r.route \in DOMAIN table /\ r.wide \in BOOLEAN
        /\ r.route \in Laid \cup {base}
        /\ Dst(r.route).first <= r.start /\ r.end <= Dst(r.route).last
        /\ \A k \in Laid : Meets(r, k) => Covers(Dst(k), Dst(r.route))
    BY <1>2, RangeShape DEF Chosen, Ordered
  <2>3. /\ Bounded(p) /\ r.start <= p.start /\ p.end <= r.end
        /\ \/ p = r /\ (Meets(r, i) => Dst(i).first = 0 \/ Dst(i).last = Top)
           \/ p.route = r.route /\ ~Meets(p, i)
           \/ p.route = i /\ Dst(i).first <= p.start /\ p.end <= Dst(i).last
    BY <2>1, <2>2, <1>3, SplitPieces
  <2>4. Within(p)
    BY <2>2, <2>3, <1>5, TopNat DEF Within, Bounded, Addresses
  <2>5. ASSUME NEW k \in Laid, Meets(p, k) PROVE Meets(r, k) /\ k \in DOMAIN table
    BY <2>2, <2>3, <2>5, <1>3, <1>6, TopNat DEF Meets, Bounded, Addresses, Laid
  <2>6. CASE p = r /\ (Meets(r, i) => Dst(i).last = Top)
    <3>1. Meets(r, i) => Covers(Dst(i), Dst(r.route))
      <4> SUFFICES ASSUME Dst(i).last = Top PROVE Covers(Dst(i), Dst(r.route))
        BY <2>6
      <4>1. CASE r.route = base
        <5>1. i \in Covering
          <6> DEFINE n == PrefixOf(net)
          <6>1. n \in Prefixes /\ n.first = net.base /\ n.last = net.last
            BY NetPrefix
          <6> HIDE DEF n
          <6>2. Covers(Dst(i), n) \/ Covers(n, Dst(i)) \/ Disjoint(Dst(i), n)
            BY <6>1, <1>3, <1>6, AddressAssumption
          <6>3. Covers(Dst(i), n)
            BY <6>1, <6>2, <1>3, <1>5, <1>6, <1>9, TopNat DEF Covers, Disjoint
          <6> QED
            BY <6>1, <6>3, <1>3, <1>5, <1>6, TopNat DEF Covers, Covering
        <5> QED
          BY <4>1, <5>1, <1>3, BaseNarrowest
      <4>2. CASE r.route \in Laid
        <5> DEFINE k == r.route
        <5>1. k # i /\ Dst(k).first < Dst(i).first
          BY <4>2, <2>2, <1>1, <1>3, <1>6, <1>7, TopNat DEF DistinctStarts, Laid
        <5>2. Dst(i).first = net.base /\ net.base <= Dst(k).first
          <6> DEFINE n == PrefixOf(net)
          <6>1. n \in Prefixes /\ n.first = net.base /\ n.last = net.last
            BY NetPrefix
          <6> HIDE DEF n
          <6>2. Covers(Dst(i), n) \/ Covers(n, Dst(i)) \/ Disjoint(Dst(i), n)
            BY <6>1, <1>3, <1>6, AddressAssumption
          <6>3. Dst(i).first = net.base
            BY <6>1, <6>2, <1>3, <1>5, <1>6, <1>9, TopNat DEF Covers, Disjoint
          <6> QED
            BY <6>3, <4>2 DEF Laid, Specifics
        <5> QED
          BY <5>1, <5>2, <2>2, <1>5, <1>6, TopNat
      <4> QED
        BY <2>2, <4>1, <4>2
    <3> QED
      BY <2>2, <2>4, <2>6, <3>1
  <2>7. CASE p.route = r.route /\ ~Meets(p, i)
    <3>1. Dst(p.route).first <= p.start /\ p.end <= Dst(p.route).last
      BY <2>2, <2>3, <2>7, <1>6, TopNat DEF Bounded, Addresses
    <3> QED
      BY <2>2, <2>4, <2>5, <2>7, <3>1
  <2>8. CASE p.route = i /\ Dst(i).first <= p.start /\ p.end <= Dst(i).last
    <3>1. ASSUME NEW k \in Laid, Meets(p, k) PROVE Covers(Dst(k), Dst(i))
      <4>1. ~Disjoint(Dst(k), Dst(i))
        BY <2>3, <2>5, <2>8, <3>1, <1>3, <1>6, TopNat DEF Disjoint, Meets, Bounded, Addresses
      <4> QED
        BY <4>1, <1>10
    <3>2. Covers(Dst(i), Dst(i))
      BY <1>3, <1>6, TopNat DEF Covers
    <3> QED
      BY <2>4, <2>8, <3>1, <3>2
  <2> QED
    BY <2>3, <2>6, <2>7, <2>8, <1>9, <1>3, <1>6, TopNat
<1> QED
  BY <1>8, <1>11

\* The first range is the whole network with the chosen route.
LEMMA ChooseBaseKeeps ==
  ASSUME RouteInv, ChooseBase
  PROVE  RouteInv'
<1>1. PICK i \in DOMAIN table :
        Best(i) /\ table[i].usable /\ base' = i
        /\ ranges' = {IpRange(net.first, net.wide, net.last, i)}
  BY DEF ChooseBase
<1>2. /\ todo' = Specifics /\ pc' = "refine" /\ UNCHANGED <<family, table, net>> /\ TypeOK
  BY DEF ChooseBase, RouteInv
<1>3. /\ net.first \in 0..Top /\ net.last \in 0..Top /\ net.first <= net.last
      /\ net.wide \in BOOLEAN /\ (net.wide => net.first = net.last)
  BY <1>2, NetPrefix, AddressAssumption DEF TypeOK, Network
<1>4. /\ Dst(i).first \in 0..Top /\ Dst(i).last \in 0..Top
      /\ Dst(i).first <= net.first /\ net.last <= Dst(i).last
  BY <1>1, <1>2, DstPrefix DEF Best, Covering
<1>5. /\ Specifics' = Specifics /\ Starts' = Starts /\ Ends' = Ends
      /\ \A k : Dst(k)' = Dst(k) /\ (Best(k)' <=> Best(k))
  BY <1>2, Frame
<1>6. ASSUME NEW r \in ranges'
      PROVE  /\ r.start = net.first /\ r.wide = net.wide /\ r.end = net.last /\ r.route = i
             /\ r = IpRange(net.first, net.wide, net.last, i)
  BY <1>1 DEF IpRange
<1>7. /\ TypeOK' /\ Specifics \subseteq DOMAIN table
  <2>1. Specifics \subseteq DOMAIN table
    BY DEF Specifics
  <2>2. ranges' \subseteq [start : Addresses \cup {NoAddress}, wide : BOOLEAN,
                          end : Addresses \cup {NoAddress}, route : DOMAIN table]
    BY <1>1, <1>3 DEF Addresses, IpRange
  <2>3. \A r \in ranges' : r.start # NoAddress
    BY <1>6, <1>3, TopNat DEF NoAddress
  <2> QED
    BY <1>1, <1>2, <2>1, <2>2, <2>3 DEF TypeOK
<1>8. Chosen'
  <2>1. (Best(base))'
    BY <1>1, <1>2, Frame DEF Best, Covering, Dst
  <2>2. ~net.wide => \A r \in ranges' : Bounded(r) /\ r.start \in Starts /\ r.end \in Ends
    BY <1>3, <1>6 DEF Bounded, Addresses, Starts, Ends
  <2> QED
    BY <1>2, <1>5, <2>1, <2>2 DEF Chosen, Bounded
<1>9. Partition'
  <2>1. \A r, q \in ranges' : r = q
    BY <1>6
  <2>2. \A r \in ranges' : net.first <= r.start /\ r.start <= r.end /\ r.end <= net.last
    BY <1>3, <1>6, TopNat
  <2>3. \A a \in net.first..net.last : \E r \in ranges' : r.start <= a /\ a <= r.end
    BY <1>1, <1>3, <1>6
  <2> QED
    BY <1>2, <2>1, <2>2, <2>3 DEF Partition, Within, Holds
<1>10. Laid' = {}
  BY <1>2, <1>5 DEF Laid
<1>11. WideRanges'
  BY <1>1, <1>2, <1>3, <1>6 DEF WideRanges
<1>12. Ordered'
  <2>1. ASSUME NEW r \in ranges'
        PROVE  /\ net.first <= r.start /\ r.start <= r.end /\ r.end <= net.last
               /\ r.route = i /\ Dst(i).first <= r.start /\ r.end <= Dst(i).last
    BY <1>3, <1>4, <1>6, TopNat
  <2> QED
    BY <1>1, <1>2, <1>5, <1>10, <2>1 DEF Ordered, Within
<1>13. NoHostLost'
  BY <1>2 DEF NoHostLost
<1> QED
  BY <1>7, <1>8, <1>9, <1>11, <1>12, <1>13 DEF RouteInv

\* A range with its bounds set anew.
LEMMA Rewritten ==
  ASSUME NEW r, r = IpRange(r.start, r.wide, r.end, r.route), NEW x, NEW y
  PROVE  /\ [r EXCEPT !.end = y] = IpRange(r.start, r.wide, y, r.route)
         /\ [r EXCEPT !.start = x, !.end = y] = IpRange(x, r.wide, y, r.route)
<1>1. /\ DOMAIN r = {"start", "wide", "end", "route"}
      /\ r = [f \in {"start", "wide", "end", "route"} |-> r[f]]
  BY DEF IpRange
<1>2. [r EXCEPT !.end = y] = IpRange(r.start, r.wide, y, r.route)
  BY <1>1 DEF IpRange
<1>3. [r EXCEPT !.start = x, !.end = y] = IpRange(x, r.wide, y, r.route)
  <2> DEFINE q == IpRange(x, r.wide, r.end, r.route)
  <2>1. [r EXCEPT !.start = x] = q
    BY <1>1 DEF IpRange
  <2>2. [q EXCEPT !.end = y] = IpRange(x, r.wide, y, r.route)
    BY DEF IpRange
  <2>3. [r EXCEPT !.start = x, !.end = y] = [[r EXCEPT !.start = x] EXCEPT !.end = y]
    OBVIOUS
  <2> QED
    BY <2>1, <2>2, <2>3
<1> QED
  BY <1>2, <1>3

\* Sanitizing a range gives up its start if that is a network address, its end if
\* that is a broadcast address, and nothing between.
LEMMA TidyV4Scans ==
  ASSUME TypeOK, NEW r \in ranges, Bounded(r),
         NEW a \in 0..Top, Holds(r, a),
         ~(a = r.start /\ StartsNetwork(r)), ~(a = r.end /\ IsBroadcastAddress(a))
  PROVE  a \in Scanned(TidyV4(r))
<1>1. /\ r = IpRange(r.start, r.wide, r.end, r.route) /\ r.route \in DOMAIN table
      /\ r.start \in 0..Top /\ r.end \in 0..Top /\ r.start <= a /\ a <= r.end /\ Top \in Nat
  BY RangeShape, TopNat DEF Bounded, Addresses, Holds
<1> DEFINE s == TrimmedStart(r)
           e == TrimmedEnd(r)
<1>2. e = r.end \/ (a # r.end /\ e = r.end - 1)
  <2>1. CASE e = r.end
    BY <2>1
  <2>2. CASE e # r.end
    <3>1. IsBroadcastAddress(r.end) /\ e = PreviousIP(r.end)
      BY <2>2 DEF TrimmedEnd
    <3>2. r.end # 0
      BY <3>1, DstPrefix, TopNat DEF IsBroadcastAddress, Length
    <3> QED
      BY <3>1, <3>2 DEF PreviousIP
  <2> QED
    BY <2>1, <2>2
<1>3. s = r.start \/ (a # r.start /\ s = r.start + 1)
  <2>1. CASE s = r.start
    BY <2>1
  <2>2. CASE s # r.start
    <3>1. StartsNetwork(r) /\ s = NextIP(r.start) /\ a # r.start
      BY <2>2 DEF TrimmedStart
    <3>2. r.start # Top
      BY <3>1, <1>1
    <3> QED
      BY <3>1, <3>2 DEF NextIP
  <2> QED
    BY <2>1, <2>2
<1> HIDE DEF s, e
<1>4. CASE r.start = r.end /\ IsSingleHost(r.route)
  <2>1. TidyV4(r) = IpRange(r.start, r.wide, NoAddress, r.route)
    <3>1. TidyV4(r) = [r EXCEPT !.end = NoAddress]
      BY <1>4, Zenon DEF TidyV4
    <3> QED
      BY <1>1, <3>1, Rewritten, Zenon
  <2> QED
    BY <2>1, <1>1, <1>4 DEF IpRange, Scanned, NoAddress
<1>5. CASE r.start = r.end /\ ~IsSingleHost(r.route) /\ StartsNetwork(r)
  BY <1>1, <1>5
<1>6. CASE ~(r.start = r.end /\ IsSingleHost(r.route))
           /\ ~(r.start = r.end /\ ~IsSingleHost(r.route) /\ StartsNetwork(r))
  <2>1. TidyV4(r) = IF e # r.end /\ e = r.start
                      THEN IpRange(r.start, r.wide, NoAddress, r.route)
                    ELSE IF s # r.start /\ s = e
                      THEN IpRange(s, r.wide, NoAddress, r.route)
                      ELSE IpRange(s, r.wide, e, r.route)
    <3>1. TidyV4(r) = IF TrimmedEnd(r) # r.end /\ TrimmedEnd(r) = r.start
                        THEN [r EXCEPT !.end = NoAddress]
                      ELSE IF TrimmedStart(r) # r.start /\ TrimmedStart(r) = TrimmedEnd(r)
                        THEN [r EXCEPT !.start = TrimmedStart(r), !.end = NoAddress]
                        ELSE [r EXCEPT !.start = TrimmedStart(r), !.end = TrimmedEnd(r)]
      BY <1>6, Zenon DEF TidyV4
    <3>2. /\ [r EXCEPT !.end = NoAddress] = IpRange(r.start, r.wide, NoAddress, r.route)
          /\ [r EXCEPT !.start = s, !.end = NoAddress]
               = IpRange(s, r.wide, NoAddress, r.route)
          /\ [r EXCEPT !.start = s, !.end = e] = IpRange(s, r.wide, e, r.route)
      BY <1>1, Rewritten
    <3> QED
      BY <3>1, <3>2, Zenon DEF s, e
  <2>2. CASE e # r.end /\ e = r.start
    <3>1. Scanned(TidyV4(r)) = {r.start}
      BY <1>1, <2>1, <2>2 DEF IpRange, Scanned, NoAddress
    <3> QED
      BY <3>1, <2>2, <1>1, <1>2
  <2>3. CASE ~(e # r.end /\ e = r.start) /\ s # r.start /\ s = e
    <3>1. Scanned(TidyV4(r)) = {s}
      BY <1>1, <1>3, <2>1, <2>3 DEF IpRange, Scanned, NoAddress
    <3> QED
      BY <3>1, <2>3, <1>1, <1>2, <1>3
  <2>4. CASE ~(e # r.end /\ e = r.start) /\ ~(s # r.start /\ s = e)
    <3>1. TidyV4(r) = IpRange(s, r.wide, e, r.route)
      BY <2>1, <2>4
    <3>2. s <= a /\ a <= e /\ s \in Int /\ e \in Int /\ e >= 0
      BY <1>1, <1>2, <1>3
    <3>3. Scanned(TidyV4(r)) = s..e
      BY <3>1, <3>2 DEF IpRange, Scanned, NoAddress, MinIP, MaxIP
    <3> QED
      BY <1>1, <3>2, <3>3
  <2> QED
    BY <2>2, <2>3, <2>4
<1> QED
  BY <1>4, <1>5, <1>6

\* The sanitized IPv6 range is the range.
LEMMA TidyV6Scans ==
  ASSUME TypeOK, NEW r \in ranges, Bounded(r), NEW a \in 0..Top, Holds(r, a)
  PROVE  a \in Scanned(TidyV6(r))
<1>1. /\ r = IpRange(r.start, r.wide, r.end, r.route)
      /\ r.start \in 0..Top /\ r.end \in 0..Top /\ r.start <= a /\ a <= r.end /\ Top \in Nat
  BY RangeShape, TopNat DEF Bounded, Addresses, Holds
<1>2. CASE r.start = r.end
  <2>1. TidyV6(r) = IpRange(r.start, r.wide, NoAddress, r.route)
    <3>1. TidyV6(r) = [r EXCEPT !.end = NoAddress]
      BY <1>2, Zenon DEF TidyV6
    <3> QED
      BY <1>1, <3>1, Rewritten, Zenon
  <2> QED
    BY <2>1, <1>1, <1>2 DEF IpRange, Scanned, NoAddress
<1>3. CASE r.start # r.end
  BY <1>1, <1>3 DEF TidyV6, IpRange, Scanned, NoAddress, MinIP, MaxIP
<1> QED
  BY <1>2, <1>3

\* What the sanitizing makes of a range is a range, or empty.
LEMMA TidyShape ==
  ASSUME TypeOK, NEW r \in ranges, r.start \in Addresses, r.end \in Addresses,
         NEW q \in {TidyV4(r), TidyV6(r)}
  PROVE  /\ q \in [start : Addresses \cup {NoAddress}, wide : BOOLEAN,
                  end : Addresses \cup {NoAddress}, route : DOMAIN table]
         /\ q.start = NoAddress => q.end = NoAddress
<1>1. /\ r = IpRange(r.start, r.wide, r.end, r.route) /\ r.route \in DOMAIN table
      /\ r.start \in 0..Top /\ r.end \in 0..Top /\ Top \in Nat /\ r.wide \in BOOLEAN
  BY RangeShape, TopNat DEF Addresses
<1>2. TrimmedStart(r) \in 0..Top /\ TrimmedEnd(r) \in 0..Top
  BY <1>1 DEF TrimmedStart, TrimmedEnd, NextIP, PreviousIP
<1>3. \/ q = r
      \/ q = IpRange(r.start, r.wide, NoAddress, r.route)
      \/ q = IpRange(NoAddress, r.wide, NoAddress, r.route)
      \/ q = IpRange(TrimmedStart(r), r.wide, NoAddress, r.route)
      \/ q = IpRange(TrimmedStart(r), r.wide, TrimmedEnd(r), r.route)
  <2>1. \A x, y : /\ [r EXCEPT !.end = y] = IpRange(r.start, r.wide, y, r.route)
                 /\ [r EXCEPT !.start = x, !.end = y] = IpRange(x, r.wide, y, r.route)
    BY <1>1, Rewritten
  <2>2. CASE q = TidyV6(r)
    BY <2>1, <2>2 DEF TidyV6
  <2>3. CASE q = TidyV4(r)
    BY <2>1, <2>3, Zenon DEF TidyV4
  <2> QED
    BY <2>2, <2>3
<1> QED
  BY <1>1, <1>2, <1>3 DEF IpRange, Addresses, NoAddress

\* A wide network whose only route is its own keeps its address.
LEMMA HostRouteKeeps ==
  ASSUME RouteInv, Tidy, net.wide, HostRouteOnly
  PROVE  \E q \in ranges' : net.first \in Scanned(q)
<1>1. /\ pc = "refine" /\ todo = {} /\ TypeOK /\ WideRanges /\ Best(base)
  BY DEF Tidy, RouteInv, Chosen
<1>2. ranges' = {TidyV4(r) : r \in ranges}
  BY <1>1 DEF Tidy, TypeOK
<1>3. /\ net.base = net.first /\ net.first = net.last /\ net.first \in 0..Top
  <2>1. SingleHost(net)
    BY <1>1, AddressAssumption DEF TypeOK
  <2> QED
    BY <1>1, <2>1, NetPrefix, TopNat DEF SingleHost
<1>4. Laid = {}
  <2>1. ASSUME NEW i \in Specifics PROVE FALSE
    <3>1. i \in DOMAIN table /\ Dst(i) # Printed /\ net.base <= Dst(i).first /\ Dst(i).first <= net.last
      BY <1>3 DEF Specifics
    <3>2. Dst(i).first = net.first
      BY <3>1, <1>1, <1>3, DstPrefix, TopNat
    <3> QED
      BY <3>1, <3>2 DEF HostRouteOnly
  <2> QED
    BY <2>1 DEF Laid
<1>5. PICK r \in ranges : TRUE
  BY <1>1, <1>4 DEF WideRanges
<1>6. /\ r.start = net.first /\ r.end = net.first /\ r.route = base
      /\ r = IpRange(r.start, r.wide, r.end, r.route)
  BY <1>1, <1>4, RangeShape DEF WideRanges
<1>7. IsSingleHost(base)
  <2>1. PICK i \in DOMAIN table : Dst(i) = Printed
    BY DEF HostRouteOnly
  <2>2. i \in Covering /\ Length(Dst(i)) = 0
    BY <1>3, <2>1, TopNat DEF Covering, Printed, Length
  <2>3. base \in DOMAIN table /\ Length(Dst(base)) <= 0
    BY <1>1, <2>2 DEF Best, Covering
  <2>4. /\ Dst(base).first \in 0..Top /\ Dst(base).last \in 0..Top /\ Dst(base).first <= Dst(base).last
    BY <1>1, <2>3, DstPrefix
  <2> QED
    BY <2>3, <2>4, TopNat DEF IsSingleHost, Length
<1>8. TidyV4(r) = IpRange(net.first, r.wide, NoAddress, base)
  <2>1. TidyV4(r) = [r EXCEPT !.end = NoAddress]
    BY <1>6, <1>7, Zenon DEF TidyV4
  <2> QED
    BY <1>6, <2>1, Rewritten, Zenon
<1>9. net.first \in Scanned(TidyV4(r))
  BY <1>3, <1>8, TopNat DEF Scanned, IpRange, NoAddress
<1> QED
  BY <1>2, <1>9

\* Sanitizing shrinks ranges at their edges only.
LEMMA TidyKeeps ==
  ASSUME RouteInv, Tidy
  PROVE  RouteInv'
<1>1. /\ pc = "refine" /\ pc' = "done" /\ UNCHANGED <<family, table, net, base, todo>>
      /\ TypeOK /\ Partition /\ WideRanges
      /\ ~net.wide => \A r \in ranges : Bounded(r) /\ r.start \in Starts /\ r.end \in Ends
  BY DEF Tidy, RouteInv, Chosen
<1>2. \/ family = "v4" /\ ranges' = {TidyV4(r) : r \in ranges}
      \/ family = "v6" /\ ranges' = {TidyV6(r) : r \in ranges}
  BY DEF Tidy
<1>3. TypeOK'
  <2>1. ASSUME NEW r \in ranges PROVE r.start \in Addresses /\ r.end \in Addresses
    <3>1. CASE net.wide
      <4>1. net.first \in 0..Top
        BY <1>1, NetPrefix
      <4>2. r.start = net.first /\ (r.end = net.first \/ (r.end = net.first - 1 /\ 0 < net.first))
        BY <1>1, <3>1 DEF WideRanges
      <4> QED
        BY <4>1, <4>2, TopNat DEF Addresses
    <3>2. CASE ~net.wide
      BY <1>1, <3>2 DEF Bounded
    <3> QED
      BY <3>1, <3>2
  <2>2. \A r \in ranges' :
          /\ r \in [start : Addresses \cup {NoAddress}, wide : BOOLEAN,
                    end : Addresses \cup {NoAddress}, route : DOMAIN table]
          /\ r.start = NoAddress => r.end = NoAddress
    BY <1>1, <1>2, <2>1, TidyShape
  <2> QED
    BY <1>1, <2>2 DEF TypeOK
<1>4. NoHostLost'
  <2> SUFFICES ASSUME ~Everything, NEW a \in net.first..net.last,
                      ~(family = "v4" /\ ~net.wide /\ GivenUpAtAnEdge(a)),
                      ~(net.wide /\ ~HostRouteOnly)
               PROVE  \E q \in ranges' : a \in Scanned(q)
    BY <1>1 DEF NoHostLost, Everything, Scanned, GivenUpAtAnEdge, HostRouteOnly, Printed, Starts,
                Ends, IsBroadcastAddress, Dst
  <2>1. a \in 0..Top /\ (net.wide => a = net.first)
    BY <1>1, NetPrefix, TopNat
  <2>2. CASE net.wide
    BY <2>1, <2>2, HostRouteKeeps
  <2>3. CASE ~net.wide
    <3>1. PICK r \in ranges : Holds(r, a)
      BY <1>1, <2>3 DEF Partition
    <3>2. Bounded(r) /\ r.start \in Starts /\ r.end \in Ends
      BY <1>1, <2>3
    <3>3. CASE family = "v4" /\ ranges' = {TidyV4(x) : x \in ranges}
      <4>1. ~(a = r.start /\ StartsNetwork(r))
        BY <2>3, <3>2, <3>3 DEF GivenUpAtAnEdge, StartsNetwork, StartOctet, Bounded
      <4>2. ~(a = r.end /\ IsBroadcastAddress(a))
        BY <2>3, <3>2, <3>3 DEF GivenUpAtAnEdge
      <4>3. a \in Scanned(TidyV4(r))
        BY <1>1, <2>1, <3>1, <3>2, <4>1, <4>2, TidyV4Scans
      <4> QED
        BY <3>3, <4>3
    <3>4. CASE family = "v6" /\ ranges' = {TidyV6(x) : x \in ranges}
      BY <1>1, <2>1, <3>1, <3>2, <3>4, TidyV6Scans
    <3> QED
      BY <1>2, <3>3, <3>4
  <2> QED
    BY <2>2, <2>3
<1>5. Chosen' /\ Partition' /\ WideRanges' /\ Ordered'
  BY <1>1 DEF Chosen, Partition, WideRanges, Ordered
<1> QED
  BY <1>3, <1>4, <1>5 DEF RouteInv

\* A route that is not a specific one, but matches an address of the network,
\* covers it all; a specific one was laid over the ranges.
LEMMA NarrowestInTheEnd ==
  ASSUME RouteInv
  PROVE  MostSpecificIfDistinct
<1> SUFFICES ASSUME pc = "refine", todo = {}, DistinctStarts, 0 < net.base, net.last < Top,
                    NEW r \in ranges, NEW i \in DOMAIN table, table[i].usable, Meets(r, i)
             PROVE  Length(Dst(r.route)) <= Length(Dst(i))
  BY DEF MostSpecificIfDistinct, MostSpecific
<1>1. /\ TypeOK /\ Best(base) /\ Laid = Specifics /\ r.route \in DOMAIN table
      /\ \A k \in Covering : Length(Dst(base)) <= Length(Dst(k))
  BY RangeShape DEF RouteInv, Chosen, Laid, Best
<1>2. /\ net.base \in 0..Top /\ net.first \in 0..Top /\ net.last \in 0..Top
      /\ net.base <= net.first /\ net.first <= net.last
  BY <1>1, NetPrefix
<1>3. ASSUME NEW k \in DOMAIN table
      PROVE  /\ Dst(k) \in Prefixes /\ Dst(k).first \in 0..Top /\ Dst(k).last \in 0..Top
             /\ Dst(k).first <= Dst(k).last
  BY <1>1, DstPrefix
  \* A route laid that starts where another ends, or inside it, is within it.
<1>4. ASSUME NEW k \in Specifics, Dst(i).first <= Dst(k).first, Dst(k).first <= Dst(i).last
      PROVE  Length(Dst(k)) <= Length(Dst(i))
  <2>1. k \in DOMAIN table
    BY DEF Specifics
  <2>2. Covers(Dst(i), Dst(k)) \/ Covers(Dst(k), Dst(i)) \/ Disjoint(Dst(i), Dst(k))
    BY <2>1, <1>3, AddressAssumption
  <2>3. Covers(Dst(k), Dst(i)) => k = i
    BY <2>1, <1>3, <1>4, TopNat DEF Covers, DistinctStarts
  <2> QED
    BY <2>1, <2>2, <2>3, <1>3, <1>4, TopNat DEF Covers, Disjoint, Length
<1>5. CASE net.wide
  <2>1. \/ /\ r.start = net.first /\ r.route = base
           /\ r.end = net.first \/ r.end = net.first - 1
        \/ r.start = net.first /\ r.end = net.first /\ r.route \in Laid
    BY <1>5 DEF WideRanges, RouteInv
  <2>2. net.base = net.first /\ net.first = net.last
    <3>1. SingleHost(net)
      BY <1>1, <1>5, AddressAssumption DEF TypeOK
    <3> QED
      BY <1>2, <3>1, TopNat DEF SingleHost
  <2>3. Dst(i).first <= net.first /\ net.first <= Dst(i).last
    BY <1>2, <1>3, <2>1, TopNat DEF Meets
  <2>4. CASE r.route = base
    BY <1>1, <2>2, <2>3, <2>4 DEF Covering
  <2>5. CASE r.route \in Laid
    <3>1. Dst(r.route).first = net.first
      BY <1>1, <1>2, <1>3, <2>2, <2>5, TopNat DEF Specifics
    <3> QED
      BY <1>1, <1>4, <2>3, <2>5, <3>1
  <2> QED
    BY <2>1, <2>4, <2>5
<1>6. CASE ~net.wide
  <2>1. /\ Bounded(r) /\ Within(r) /\ r.route \in Laid \cup {base}
        /\ \A k \in Laid : Meets(r, k) => Covers(Dst(k), Dst(r.route))
    BY <1>6 DEF RouteInv, Chosen, Ordered
  <2>2. CASE i \in Specifics
    BY <1>1, <1>3, <2>1, <2>2, TopNat DEF Covers, Length
  <2>3. CASE i \notin Specifics
    <3> DEFINE n == PrefixOf(net)
    <3>1. n \in Prefixes /\ n.first = net.base /\ n.last = net.last
      BY <1>1, NetPrefix
    <3>2. Dst(i) = n \/ Dst(i).first < net.base \/ net.last < Dst(i).first
      BY <1>2, <1>3, <2>3, TopNat DEF Specifics, Printed, PrefixOf
    <3> HIDE DEF n
    <3>3. Covers(Dst(i), n) \/ Covers(n, Dst(i)) \/ Disjoint(Dst(i), n)
      BY <1>3, <3>1, AddressAssumption
    <3>4. Dst(i).first <= net.last /\ net.first <= Dst(i).last
      BY <1>2, <1>3, <2>1, TopNat DEF Meets, Within, Bounded, Addresses
    <3>5. Dst(i).first <= net.base /\ net.last <= Dst(i).last
      BY <1>2, <1>3, <3>1, <3>2, <3>3, <3>4, TopNat DEF Covers, Disjoint
    <3>6. i \in Covering
      BY <1>2, <1>3, <3>5, TopNat DEF Covering
    <3>7. ASSUME r.route \in Laid PROVE Length(Dst(r.route)) <= Length(Dst(i))
      <4>1. net.base <= Dst(r.route).first /\ Dst(r.route).first <= net.last
        BY <1>1, <3>7 DEF Specifics
      <4> QED
        BY <1>1, <1>2, <1>3, <1>4, <3>5, <3>7, <4>1, TopNat
    <3> QED
      BY <1>1, <2>1, <3>6, <3>7
  <2> QED
    BY <2>2, <2>3
<1> QED
  BY <1>5, <1>6

\* Every step keeps the inductive invariant.
LEMMA RouteInvStep ==
  ASSUME RouteInv, [Next]_vars
  PROVE  RouteInv'
<1>1. CASE ChooseBase
  BY <1>1, ChooseBaseKeeps
<1>2. CASE Fail
  BY <1>2 DEF Fail, RouteInv, TypeOK, Chosen, Partition, WideRanges, Ordered, NoHostLost
<1>3. CASE Refine
  <2>1. TypeOK /\ Chosen /\ Partition /\ WideRanges /\ Ordered
    BY DEF RouteInv
  <2>2. NoHostLost' /\ net' = net
    BY <1>3 DEF Refine, NoHostLost
  <2>3. TypeOK' /\ Chosen' /\ WideRanges'
    <3>1. CASE net.wide
      BY <1>3, <2>1, <3>1, RefineWide
    <3>2. CASE ~net.wide
      BY <1>3, <2>1, <2>2, <3>2, RefineType DEF WideRanges
    <3> QED
      BY <3>1, <3>2
  <2>4. Partition' /\ Ordered'
    BY <1>3, <2>1, RefinePartition, RefineOrdered
  <2> QED
    BY <2>2, <2>3, <2>4 DEF RouteInv
<1>4. CASE Tidy
  BY <1>4, TidyKeeps
<1>5. CASE UNCHANGED vars
  <2>1. TypeOK' /\ Chosen' /\ Partition'
    BY <1>5 DEF vars, RouteInv, TypeOK, Chosen, Partition, Best, Covering, Specifics, Dst,
                Within, Holds, Printed, Starts, Ends, Everything, Bounded
  <2>2. WideRanges' /\ Ordered'
    BY <1>5 DEF vars, RouteInv, WideRanges, Ordered, DistinctStarts, Within, Laid, Meets,
                Specifics, Dst, Printed
  <2>3. NoHostLost'
    BY <1>5 DEF vars, RouteInv, NoHostLost, GivenUpAtAnEdge, HostRouteOnly, Printed, Starts, Ends,
                IsBroadcastAddress, Dst, Everything
  <2> QED
    BY <2>1, <2>2, <2>3 DEF RouteInv
<1> QED
  BY <1>1, <1>2, <1>3, <1>4, <1>5 DEF Next, Finished

\* A split starts in the inductive invariant.
LEMMA RouteInvInit == Init => RouteInv
<1> SUFFICES ASSUME Init PROVE RouteInv
  OBVIOUS
<1>1. TypeOK
  BY AddressAssumption DEF Init, TypeOK
<1> QED
  BY <1>1 DEF Init, RouteInv, Chosen, Partition, WideRanges, Ordered, NoHostLost

-------------------------------------------------------------------------------
(* The theorems.                                                           *)

\* The inductive invariant holds for any tables and networks.
THEOREM RouteInvariance == Spec => []RouteInv
<1> QED
  BY RouteInvInit, RouteInvStep, PTL DEF Spec

\* Every table, network, route index and range bound keeps its type.
THEOREM RouteTypes == Spec => []TypeOK
<1>1. RouteInv => TypeOK
  BY DEF RouteInv
<1> QED
  BY <1>1, RouteInvariance, PTL

\* The ranges always partition the network, unless it is the whole address space.
THEOREM NetworkPartitioned == Spec => []Partition
<1>1. RouteInv => Partition
  BY DEF RouteInv
<1> QED
  BY <1>1, RouteInvariance, PTL

\* With distinct first addresses, and away from the ends of the address space,
\* every address gets the narrowest usable route that matches it.
THEOREM NarrowestWins == Spec => []MostSpecificIfDistinct
<1>1. RouteInv => MostSpecificIfDistinct
  BY NarrowestInTheEnd
<1> QED
  BY <1>1, RouteInvariance, PTL

\* Sanitizing gives up nothing of a network written with its mask but network and
\* broadcast addresses at the edges that the routes cut, and keeps a host named alone
\* if it has a host route and no other route starts there.
THEOREM HostsKept == Spec => []NoHostLost
<1>1. RouteInv => NoHostLost
  BY DEF RouteInv
<1> QED
  BY <1>1, RouteInvariance, PTL
===============================================================================
