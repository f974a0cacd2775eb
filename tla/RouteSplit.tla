------------------------------ MODULE RouteSplit ------------------------------
(***************************************************************************)
(* router.SmartV4Route and SmartV6Route: the network of a rule is cut into *)
(* ranges, each with the route its packets take.                           *)
(*                                                                         *)
(* The whole network first gets the most specific route that covers it.    *)
(* The routes that start inside the network are then laid over the ranges  *)
(* one by one, in the order of their first address; each overlay cuts a    *)
(* range into up to three pieces.  At last the IPv4 ranges lose network    *)
(* and broadcast addresses at their edges.                                 *)
(*                                                                         *)
(* Addresses are numbers 0..Top; PreviousIP and NextIP wrap around at the  *)
(* ends, as the byte loops of utils do.  A prefix is the interval of its   *)
(* addresses.  A missing (nil) address is NoAddress.                       *)
(*                                                                         *)
(* An IPv4 address has four bytes, or sixteen when net.ParseIP or the      *)
(* resolver made it: the network of a rule that names one address or host  *)
(* (rule.go:236, IPtoIPNet).  Such an address is called wide.  PreviousIP, *)
(* NextIP and LastIP return four bytes, so that only the start of a range  *)
(* can be wide.  What reads bytes, and not numbers, sees the difference:   *)
(* bytes.Compare and ip[3].  A default route's 0.0.0.0 is wide as well,    *)
(* but is laid over no range: the address before it is the last one.       *)
(***************************************************************************)
EXTENDS Integers, Sequences

CONSTANTS
  Top,        (* the last address of the family                            *)
  Octet,      (* number of values of an address's last octet: 256          *)
  Prefixes,   (* destinations of routes and networks of rules              *)
  Tables,     (* routing tables to consider: sequences of routes           *)
  Networks    (* networks of rules to consider, as ParseRule makes them    *)

Addresses == 0..Top
NoAddress == -1

\* A route's destination and whether pickSrc finds a source address for it.  The
\* netlink library gives a default route the destination 0.0.0.0/0 or ::/0.
Route == [dst : Prefixes, usable : BOOLEAN]

\* The network of a rule: the prefix from base to last, and n.IP.  That is the base,
\* but an IPv6 rule keeps the host bits it is written with (rule.go:207-213).
Network == [base : Addresses, first : Addresses, last : Addresses, wide : BOOLEAN]
PrefixOf(n) == [first |-> n.base, last |-> n.last]
SingleHost(n) == n.base = n.last

Covers(p, q)   == p.first <= q.first /\ q.last <= p.last
Disjoint(p, q) == p.last < q.first \/ q.last < p.first

\* CIDR prefixes are intervals that are nested or disjoint.
ASSUME AddressAssumption ==
  /\ Top \in Nat /\ Octet \in Nat \ {0, 1}
  /\ Prefixes \subseteq [first : Addresses, last : Addresses]
  /\ \A p \in Prefixes : p.first <= p.last
  /\ \A p, q \in Prefixes : Covers(p, q) \/ Covers(q, p) \/ Disjoint(p, q)
  /\ Tables \subseteq Seq(Route)
  /\ Networks \subseteq Network
  /\ \A n \in Networks : /\ PrefixOf(n) \in Prefixes
                         /\ n.base <= n.first /\ n.first <= n.last
                         /\ n.wide => SingleHost(n)

VARIABLES
  family,     (* "v4" or "v6"                                              *)
  table,      (* the routing table, as RouteList returned it               *)
  net,        (* the network of the rule                                   *)
  pc,
  base,       (* index of the route that covers the network; 0: none yet   *)
  todo,       (* specific routes not laid over the ranges yet              *)
  ranges      (* the ranges so far                                         *)

vars == <<family, table, net, pc, base, todo, ranges>>

Init ==
  /\ family \in {"v4", "v6"} /\ table \in Tables /\ net \in Networks
  /\ family = "v4" => net.first = net.base
  /\ family = "v6" => ~net.wide
  /\ pc = "choose" /\ base = 0 /\ todo = {} /\ ranges = {}

-------------------------------------------------------------------------------
(* Operators on addresses and ranges.                                      *)

PreviousIP(a) == IF a = 0 THEN Top ELSE a - 1
NextIP(a)     == IF a = Top THEN 0 ELSE a + 1
MaxIP(a, b)   == IF a > b THEN a ELSE b
MinIP(a, b)   == IF a < b THEN a ELSE b

Dst(i) == table[i].dst
Length(p) == p.last - p.first

\* makeIpRangeRoute: bounds, whether the start is wide, and the index of the route.
IpRange(start, wide, end, route) ==
  [start |-> start, wide |-> wide, end |-> end, route |-> route]

\* bytes.Compare(r.Start, a) < 0 and <= 0, for an address a of four bytes.  A wide
\* start begins with zeros, and is longer than 0.0.0.0: it lies between 0 and 1.
StartsBefore(r, a) == IF r.wide THEN a > 0 ELSE r.start < a
StartsBy(r, a)     == IF r.wide THEN a > 0 ELSE r.start <= a

\* A piece that is not empty.
Piece(q) == IF StartsBy(q, q.end) THEN {q} ELSE {}

\* The part of range r that begins with address a, or r if it begins later (MaxIP).
From(r, a, end, route) ==
  IF StartsBy(r, a) THEN IpRange(a, FALSE, end, route)
                    ELSE IpRange(r.start, r.wide, end, route)

\* Range r and route i do not touch.
Untouched(r, i) ==
  r.end < PreviousIP(Dst(i).first) \/ ~StartsBy(r, NextIP(Dst(i).last))

\* Mutant of Split: the piece after the overlay starts at its last address.
SplitOffByOne(r, i) ==
  LET d == Dst(i)
      before == IpRange(r.start, r.wide, PreviousIP(d.first), r.route)
  IN  IF Untouched(r, i)
        THEN {r}
        ELSE (IF StartsBefore(r, d.first) THEN Piece(before) ELSE {})
             \cup Piece(From(r, d.first, MinIP(r.end, d.last), i))
             \cup Piece(IpRange(d.last, FALSE, r.end, r.route))

\* What route i leaves of range r: the part before it, the part it takes over,
\* and the part after it.  Ranges that do not touch it stay as they are.
Split(r, i) ==
  LET d == Dst(i)
      before == IpRange(r.start, r.wide, PreviousIP(d.first), r.route)
  IN  IF Untouched(r, i)
        THEN {r}
        ELSE (IF StartsBefore(r, d.first) THEN Piece(before) ELSE {})
             \cup Piece(From(r, d.first, MinIP(r.end, d.last), i))
             \cup Piece(IpRange(NextIP(d.last), FALSE, r.end, r.route))

-------------------------------------------------------------------------------
(* Choosing the covering route.                                            *)

\* ContainsSubnet: the route's destination contains n.IP and the last address.
Covering == {i \in DOMAIN table : Dst(i).first <= net.first /\ net.last <= Dst(i).last}

\* The first of the most specific routes that cover the network.
Best(i) ==
  /\ i \in Covering
  /\ \A j \in Covering : Length(Dst(i)) <= Length(Dst(j))
  /\ \A j \in Covering : Length(Dst(i)) = Length(Dst(j)) => i <= j

\* The network as it is printed: with n.IP, not with the base.
Printed == [first |-> net.first, last |-> net.last]

\* Usable routes that start inside the network's prefix, but those that are printed
\* like the network.
Specifics ==
  {i \in DOMAIN table : /\ Dst(i) # Printed \/ net.first # net.base
                        /\ net.base <= Dst(i).first /\ Dst(i).first <= net.last
                        /\ table[i].usable}

ChooseBase ==
  /\ pc = "choose"
  /\ \E i \in DOMAIN table :
       /\ Best(i)
       /\ table[i].usable
       /\ base' = i
       /\ ranges' = {IpRange(net.first, net.wide, net.last, i)}
  /\ todo' = Specifics
  /\ pc' = "refine"
  /\ UNCHANGED <<family, table, net>>

\* No route covers the network, or the chosen one has no source address; or an
\* interface is gone when makeIpRangeRoute asks for it, at any time.
Fail ==
  /\ pc \in {"choose", "refine"}
  /\ pc' = "error"
  /\ UNCHANGED <<family, table, net, base, todo, ranges>>

-------------------------------------------------------------------------------
(* Laying the specific routes over the ranges.                             *)

\* Mutant of Earliest: the routes are taken in any order.
EarliestUnsorted(i) == i \in todo

\* sort.Slice orders by first address only and is not stable: routes with the
\* same first address come in any order.
Earliest(i) == i \in todo /\ \A j \in todo : Dst(i).first <= Dst(j).first

Refine ==
  /\ pc = "refine"
  /\ \E i \in todo :
       /\ Earliest(i)
       /\ ranges' = UNION {Split(r, i) : r \in ranges}
       /\ todo' = todo \ {i}
  /\ UNCHANGED <<family, table, net, pc, base>>

-------------------------------------------------------------------------------
(* The edges of the ranges.                                                *)

LastOctet(a) == a % Octet

\* Start[3]: the last octet of four bytes, always 0 in sixteen.
StartOctet(r) == IF r.wide THEN 0 ELSE LastOctet(r.start)

\* utils.IsV4NetworkAddress of a start: the first address of any route, or one whose
\* fourth byte is 0.
StartsNetwork(r) == StartOctet(r) = 0 \/ \E i \in DOMAIN table : Dst(i).first = r.start

\* utils.IsV4BroadcastAddress: the last address of any route shorter than /31.
IsBroadcastAddress(a) == \E i \in DOMAIN table : Length(Dst(i)) > 1 /\ Dst(i).last = a

\* utils.IsSingleV4HostMask
IsSingleHost(i) == Length(Dst(i)) = 0

TrimmedEnd(r) ==
  IF IsBroadcastAddress(r.end) /\ LastOctet(r.end) < Octet - 1
    THEN PreviousIP(r.end) ELSE r.end

TrimmedStart(r) ==
  IF StartsNetwork(r) /\ StartOctet(r) < Octet - 1 THEN NextIP(r.start) ELSE r.start

\* Mutant of TidyV4: the end is given up whether it is a broadcast address or not.
TidyV4Greedy(r) == [r EXCEPT !.start = TrimmedStart(r), !.end = PreviousIP(r.end)]

\* Mutant of TidyV4: a range that is a single network address keeps its end.
TidyV4HalfEmpty(r) ==
  IF r.start = r.end /\ StartsNetwork(r) THEN [r EXCEPT !.start = NoAddress] ELSE r

\* The cases of the loop over the finished ranges, in their order.  A range
\* without end is its start alone, one without start is empty.  IP.Equal sees no
\* difference between four and sixteen bytes, and nothing after this does.
TidyV4(r) ==
  CASE r.start = r.end /\ IsSingleHost(r.route) -> [r EXCEPT !.end = NoAddress]
    [] r.start = r.end /\ ~IsSingleHost(r.route) /\ StartsNetwork(r) ->
         [r EXCEPT !.start = NoAddress, !.end = NoAddress]
    [] OTHER ->
         IF TrimmedEnd(r) # r.end /\ TrimmedEnd(r) = r.start
           THEN [r EXCEPT !.end = NoAddress]
         ELSE IF TrimmedStart(r) # r.start /\ TrimmedStart(r) = TrimmedEnd(r)
           THEN [r EXCEPT !.start = TrimmedStart(r), !.end = NoAddress]
           ELSE [r EXCEPT !.start = TrimmedStart(r), !.end = TrimmedEnd(r)]

TidyV6(r) == IF r.start = r.end THEN [r EXCEPT !.end = NoAddress] ELSE r

Tidy ==
  /\ pc = "refine" /\ todo = {}
  /\ \/ family = "v4" /\ ranges' = {TidyV4(r) : r \in ranges}
     \/ family = "v6" /\ ranges' = {TidyV6(r) : r \in ranges}
  /\ pc' = "done"
  /\ UNCHANGED <<family, table, net, base, todo>>

Finished == pc \in {"done", "error"} /\ UNCHANGED vars

Next == ChooseBase \/ Fail \/ Refine \/ Tidy \/ Finished

Spec == Init /\ [][Next]_vars

-------------------------------------------------------------------------------
(* What the scan will make of a range: the addresses that                  *)
(* utils.IPv4RangeBytesChunks yields, which takes the bounds in any order. *)
Scanned(r) ==
  IF r.end = NoAddress
    THEN {r.start} \ {NoAddress}
    ELSE MinIP(r.start, r.end)..MaxIP(r.start, r.end)

\* Every variable has its type, and a range without start has no end.
TypeOK ==
  /\ family \in {"v4", "v6"} /\ table \in Seq(Route) /\ net \in Networks
  /\ net.wide => family = "v4"
  /\ pc \in {"choose", "refine", "done", "error"}
  /\ base \in DOMAIN table \cup {0} /\ todo \subseteq DOMAIN table
  /\ ranges \subseteq [start : Addresses \cup {NoAddress}, wide : BOOLEAN,
                       end : Addresses \cup {NoAddress}, route : DOMAIN table]
  /\ \A r \in ranges : r.start = NoAddress => r.end = NoAddress

\* The whole address space, 0.0.0.0/0: the one network in whose split an
\* address after the last one is taken for the first.
Everything == net.first = 0 /\ net.last = Top

Within(r)        == net.first <= r.start /\ r.start <= r.end /\ r.end <= net.last
Holds(r, a)      == r.start <= a /\ a <= r.end
Apart(r, q)      == r.end < q.start \/ q.end < r.start

\* While the routes are laid over it, the network is covered by the ranges
\* without a gap or an overlap, and they never reach beyond it.  A wide network is
\* one address, and a route that starts there leaves a range before it.
Partition ==
  pc = "refine" /\ ~Everything /\ ~net.wide =>
    /\ \A r \in ranges : Within(r)
    /\ \A a \in net.first..net.last : \E r \in ranges : Holds(r, a)
    /\ \A r, q \in ranges : r # q => Apart(r, q)

\* Some address of the range matches route i.
Meets(r, i) == Dst(i).first <= r.end /\ r.start <= Dst(i).last

\* The comment over SmartV4Route: "It applies more specific routes (narrower
\* subnets) inside the main CIDR and uses a default or best matching route to
\* cover the rest."  No address is left to a route while a usable, narrower one
\* matches it.
MostSpecific ==
  pc = "refine" /\ todo = {} =>
    \A r \in ranges : \A i \in DOMAIN table :
      table[i].usable /\ Meets(r, i) => Length(Dst(r.route)) <= Length(Dst(i))

\* No two routes start at the same address.
DistinctStarts ==
  \A i, j \in DOMAIN table : i # j => Dst(i).first # Dst(j).first

\* The comment is right for such tables and networks away from the ends of the
\* address space.
MostSpecificIfDistinct ==
  DistinctStarts /\ 0 < net.base /\ net.last < Top => MostSpecific

\* The edges the routes cut: where a range may start, and where it may end.
Starts == {net.first} \cup {Dst(i).first : i \in DOMAIN table}
                      \cup {NextIP(Dst(i).last) : i \in DOMAIN table}
Ends == {net.last} \cup {Dst(i).last : i \in DOMAIN table}
                   \cup {PreviousIP(Dst(i).first) : i \in DOMAIN table}

\* The one route that starts at the network's first address is its own.
HostRouteOnly ==
  /\ \E i \in DOMAIN table : Dst(i) = Printed
  /\ \A i \in DOMAIN table : Dst(i).first = net.first => Dst(i) = Printed

\* What the sanitizing gives up, of a network written with its mask: an address
\* where the routes cut and a range starts, if it is the first of some route or ends
\* in 0; one where a range ends, if it is the last of some route.  Never one in the
\* middle of a range, whatever octet it ends in.
GivenUpAtAnEdge(a) ==
  \/ a \in Starts /\ (LastOctet(a) = 0 \/ \E i \in DOMAIN table : Dst(i).first = a)
  \/ a \in Ends /\ IsBroadcastAddress(a)

\* The result covers every other address of the network.  A rule that names one IPv4
\* address is sure to keep it when it has a host route and no other route starts
\* there; else its fourth byte reads 0, and the host is given up as a network address.
NoHostLost ==
  pc = "done" /\ ~Everything =>
    \A a \in net.first..net.last :
      \/ \E r \in ranges : a \in Scanned(r)
      \/ family = "v4" /\ ~net.wide /\ GivenUpAtAnEdge(a)
      \/ net.wide /\ ~HostRouteOnly

\* The comment over the last loop: "Post-process: sanitize singletons,
\* network/broadcast edges."  A sanitized range holds no address that the
\* network does not.
StaysInside ==
  pc = "done" /\ ~Everything =>
    \A r \in ranges : Scanned(r) \subseteq net.first..net.last

-------------------------------------------------------------------------------
(* The inductive invariants of the proofs.                                 *)

\* The routes already laid over the ranges.
Laid == Specifics \ todo

\* A range before any sanitizing.
Bounded(r) == r.start \in Addresses /\ r.end \in Addresses /\ r.start <= r.end /\ ~r.wide

\* The covering route was chosen well, the rest are specific routes; the ranges
\* start and end where the routes cut.
Chosen ==
  pc = "refine" =>
    /\ Best(base) /\ todo \subseteq Specifics
    /\ ~net.wide => \A r \in ranges : Bounded(r) /\ r.start \in Starts /\ r.end \in Ends

\* The ranges of a wide network: the wide start with the covering route, which a
\* route that starts there moves the end of; and what such a route takes over.
WideRanges ==
  pc = "refine" /\ net.wide =>
    /\ \A r \in ranges :
         \/ /\ r.wide /\ r.start = net.first /\ r.route = base
            /\ r.end = net.first \/ (r.end = net.first - 1 /\ 0 < net.first /\ Laid # {})
         \/ ~r.wide /\ r.start = net.first /\ r.end = net.first /\ r.route \in Laid
    /\ Laid = {} => ranges # {}

\* Every range is within its route, which is the covering route or one laid
\* over it; it is at least as narrow as any laid route that matches in the
\* range, for the routes come in the order of their first addresses.
Ordered ==
  pc = "refine" /\ DistinctStarts /\ 0 < net.base /\ net.last < Top /\ ~net.wide =>
    /\ \A r \in ranges :
         /\ Within(r)
         /\ r.route \in Laid \cup {base}
         /\ Dst(r.route).first <= r.start /\ r.end <= Dst(r.route).last
         /\ \A i \in Laid : Meets(r, i) => Covers(Dst(i), Dst(r.route))
    /\ \A i \in Laid, j \in todo : Dst(i).first <= Dst(j).first

RouteInv == TypeOK /\ Chosen /\ Partition /\ WideRanges /\ Ordered /\ NoHostLost

===============================================================================
