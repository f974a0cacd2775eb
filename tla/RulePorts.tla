------------------------------- MODULE RulePorts -------------------------------
(***************************************************************************)
(* From the ports field of a rule to the list of ports a scan probes:      *)
(* parsePorts, parsePortsRange and AutocompleteRule (rule/rule.go), then   *)
(* Validate, Expand, Sort, Compact and Shuffle in createScannerContext     *)
(* (scanner/common.go).  A rule built by a caller of the library comes     *)
(* without the first part.                                                 *)
(*                                                                         *)
(* A field is a record: the single ports and the ranges in the order they  *)
(* are written, as the integers the digits stand for, and whether it was   *)
(* parsed.  Fields that are no numbers at all are left out.                *)
(***************************************************************************)
EXTENDS Integers, Sequences, FiniteSets

CONSTANTS
  Fields,         (* ports fields of rules: [parsed, singles, ranges]      *)
  PortLimit,      (* 2^16                                                  *)
  CommonPorts     (* constants.CommonPorts                                 *)

PortRange == [start : Nat, end : Nat]

ASSUME FieldAssumption ==
  /\ PortLimit \in Nat \ {0}
  /\ CommonPorts \in Seq(1..PortLimit-1)
  /\ \A f \in Fields :
       /\ f.parsed \in BOOLEAN /\ f.singles \in Seq(Nat) /\ f.ranges \in Seq(PortRange)
       \* The fields of a PortsRange are uint16 already.
       /\ ~f.parsed => /\ \A i \in DOMAIN f.singles : f.singles[i] < PortLimit
                       /\ \A i \in DOMAIN f.ranges :
                            f.ranges[i].start < PortLimit /\ f.ranges[i].end < PortLimit

Uint16(n) == n % PortLimit

\* parsePortsRange converts both ends before it looks at them.
Parsed(r) == [start |-> Uint16(r.start), end |-> Uint16(r.end)]

RangeParses(r) == /\ Parsed(r).start > 0 /\ Parsed(r).end > 0
                  /\ Parsed(r).start <= Parsed(r).end

\* parsePorts accepts the field.
Parses(f) ==
  /\ \A i \in DOMAIN f.singles : f.singles[i] > 0 /\ f.singles[i] < PortLimit
  /\ \A i \in DOMAIN f.ranges : RangeParses(f.ranges[i])

\* PortsRange.Validate and Expand: the end is not in the range.
Validate(r) == r.end > r.start
Expand(r) == r.start..r.end-1

\* ParseRule succeeds, and then createScannerContext.
Accepted(f) ==
  /\ f.parsed => Parses(f)
  /\ \A i \in DOMAIN f.ranges : Validate(Parsed(f.ranges[i]))

\* Mutant of Singles: a field with ranges only is completed too.
SinglesByPorts(f) == IF f.parsed /\ f.singles = <<>> THEN CommonPorts ELSE f.singles

\* AutocompleteRule: an empty field stands for the common ports.
Singles(f) ==
  IF f.parsed /\ f.singles = <<>> /\ f.ranges = <<>> THEN CommonPorts ELSE f.singles

\* The ports of the ranges and the single ports, each with its origin: a port that
\* is given twice is there twice.
Expanded(f) ==
  (UNION {Expand(Parsed(f.ranges[i])) \X {i} : i \in DOMAIN f.ranges})
    \cup {<<Singles(f)[j], Len(f.ranges) + j>> : j \in DOMAIN Singles(f)}

\* slices.Sort: the k-th port is the one with fewer than k before it and at least k up
\* to its last copy.
Sort(given) ==
  LET Below(n) == Cardinality({g \in given : g[1] < n})
  IN  [k \in 1..Cardinality(given) |->
         CHOOSE p \in {g[1] : g \in given} : Below(p) < k /\ k <= Below(p + 1)]

\* slices.Compact drops an element that equals the one before it.
Kept(s) == {i \in DOMAIN s : i = 1 \/ s[i] # s[i-1]}
Compact(s) ==
  [k \in 1..Cardinality(Kept(s)) |->
     s[CHOOSE i \in Kept(s) : Cardinality(Kept(s) \cap 1..i) = k]]

\* Mutant of PortsList: duplicates stay.
PortsListRepeating(f) == Sort(Expanded(f))

\* c.ports.  The shuffle of Options.Shuffle changes only the order in which the
\* ports are probed: position p of the model stands for the p-th in either order.
PortsList(f) == Compact(Sort(Expanded(f)))

===============================================================================
