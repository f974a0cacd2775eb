---------------------------- MODULE MCProbeBatches ----------------------------
(* Instances of ProbeBatches for TLC. *)
EXTENDS ProbeBatches, TLC
HostSymmetry == Permutations(Hosts)
From(a, b) == [start |-> a, end |-> b]
Cli(singles, ranges) == [parsed |-> TRUE, singles |-> singles, ranges |-> ranges]
\* Nothing; an empty rule of the library; a range; singles in and beside ranges that
\* overlap; a range that wraps; a range to 0; one that is a single port; port 0 from the
\* library.
SomeFields ==
  {Cli(<<>>, <<>>), [parsed |-> FALSE, singles |-> <<>>, ranges |-> <<>>],
   Cli(<<>>, <<From(5, 7)>>), Cli(<<3>>, <<From(3, 4), From(2, 3)>>),
   Cli(<<5>>, <<From(9, 11)>>), Cli(<<>>, <<From(8, 9)>>), Cli(<<>>, <<From(3, 3)>>),
   [parsed |-> FALSE, singles |-> <<0>>, ranges |-> <<From(6, 7)>>]}
TheCommonPorts == <<3>>
===============================================================================
