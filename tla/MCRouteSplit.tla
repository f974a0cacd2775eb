----------------------------- MODULE MCRouteSplit -----------------------------
(* Instances of RouteSplit for TLC: four-bit addresses, three-bit last octets. *)
EXTENDS RouteSplit

PrefixesOf(size) == {[first |-> size * k, last |-> size * k + size - 1] : k \in 0..(16 \div size - 1)}
AllPrefixes == UNION {PrefixesOf(size) : size \in {1, 2, 4, 8, 16}}

Use(p) == [dst |-> p, usable |-> TRUE]
DefaultRoute == Use([first |-> 0, last |-> 15])
LeftHalf == {p \in AllPrefixes : p.last <= 7}
Middle == {p \in AllPrefixes : p.first >= 4 /\ p.last <= 7}

\* A default route with two others before or after it, or with an unusable one.
SmallTables ==
  {<<Use(p), Use(q), DefaultRoute>> : p, q \in AllPrefixes} \cup
  {<<DefaultRoute, Use(p), Use(q)>> : p, q \in LeftHalf} \cup
  {<<[dst |-> p, usable |-> FALSE], Use(q)>> : p, q \in LeftHalf}

\* A network written with its mask, and one that is named by its only address.
Written(first, last) == [base |-> first, first |-> first, last |-> last, wide |-> FALSE]
Named(a) == [base |-> a, first |-> a, last |-> a, wide |-> TRUE]

\* Networks in the middle and at both ends of the address space, and all of it;
\* single addresses; IPv6 networks written with host bits.
SomeNetworks ==
  {Written(a[1], a[2]) : a \in {<<0, 15>>, <<0, 7>>, <<8, 15>>, <<4, 7>>, <<6, 7>>, <<4, 4>>, <<3, 3>>}}
    \cup {Named(a) : a \in {1, 4, 6}}
    \cup {[base |-> 4, first |-> a, last |-> 7, wide |-> FALSE] : a \in {5, 6}}
    \cup {[base |-> 0, first |-> 3, last |-> 15, wide |-> FALSE]}

\* Routes in and around a network in the middle.
MiddleTables == {<<Use(p), Use(q), DefaultRoute>> : p, q \in Middle \cup PrefixesOf(8)}

\* The last address of a /30 on its own.
LastOfFour == {Written(3, 3)}
HalfTables == {<<Use(p), Use(q), DefaultRoute>> : p, q \in LeftHalf}
MiddleNetwork == {Written(4, 7)}
===============================================================================
