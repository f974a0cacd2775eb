---------------------------- MODULE MCScanSession ----------------------------
(* Instances of ScanSession for TLC. *)
EXTENDS ScanSession, TLC

CONSTANTS h1, h2, h3

\* One or two ranges; an address answers in exactly one of them.
OneRange == {1}
TwoRanges == {1, 2}
BothInOne == [r \in OneRange |-> {h1, h2}]
TwoAndOne == [r \in TwoRanges |-> IF r = 1 THEN {h1, h2} ELSE {h3}]

\* Three ranges without host discovery, none of which gets further than an error.
ThreeRanges == {1, 2, 3}
NobodyThere == [r \in ThreeRanges |-> {}]
ThreeDirect == {[local |-> FALSE, family |-> "v4", noHostDiscovery |-> TRUE,
                 noMulticast |-> FALSE, defaultGateway |-> TRUE, ranges |-> 3]}

\* The addresses of a range are interchangeable (for safety properties).
HostSymmetry == Permutations({h1, h2})

\* One range for every way to dispatch it, and a local address.  Scan does not look at
\* noMulticast in a rule for IPv4, at the family without host discovery, nor at the
\* default gateway with neither of the two options.
LocalRule == [local |-> TRUE, family |-> "v4", noHostDiscovery |-> FALSE,
              noMulticast |-> FALSE, defaultGateway |-> TRUE, ranges |-> 1]
Distinct == {ru \in RuleType : /\ ~ru.local
                               /\ ru.noMulticast => ru.family = "v6"
                               /\ ru.noHostDiscovery => ru.family = "v4"
                               /\ ~(ru.noMulticast \/ ru.noHostDiscovery) => ru.defaultGateway}
OneRangeRules == {LocalRule} \cup {ru \in Distinct : ru.ranges = 1}

\* The same, no range at all, and two ranges without host discovery.
SessionRules == OneRangeRules \cup {ru \in Distinct : ru.noHostDiscovery}
===============================================================================
