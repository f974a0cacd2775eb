---------------------------- MODULE MCAddressSweep ----------------------------
(* Instances of AddressSweep for TLC. *)
EXTENDS AddressSweep, TLC
CONSTANTS s1, s2, c1, c2
OwnScan == (s1 :> c1) @@ (s2 :> c2)
Sweep(k, f, l, sh) == [kind |-> k, first |-> f, last |-> l, shuffle |-> sh]
Both(a, b) == (s1 :> a) @@ (s2 :> b)
\* Full chunks, short last ones, short first ones, one address, the last address
\* there is, and a sweep that is long enough to wear the limiters down.
SomeTargets ==
  {Both(Sweep("arp", 1, 3, FALSE), Sweep("ping4", 6, 7, TRUE)),
   Both(Sweep("arp", 7, 6, TRUE), Sweep("ping6", 5, 7, FALSE)),
   Both(Sweep("ping4", 5, 7, FALSE), Sweep("ping6", 4, NoEnd, FALSE)),
   Both(Sweep("arp", 0, NoEnd, FALSE), Sweep("ping6", 0, 7, FALSE))}
===============================================================================
