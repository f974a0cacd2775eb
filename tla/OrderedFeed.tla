------------------------------ MODULE OrderedFeed ------------------------------
(***************************************************************************)
(* What a Stream promises its caller, without goroutines or channels: the  *)
(* findings arrive one by one, in the order in which they were reported,   *)
(* none twice and none invented; and when the feed is over, every finding  *)
(* has arrived and none will follow, unless an error ended the scan.       *)
(***************************************************************************)
EXTENDS Naturals, Sequences

CONSTANT Findings

VARIABLES
  sent,     (* findings reported so far, oldest first                      *)
  got,      (* findings the caller has received                            *)
  over,     (* the caller has seen the end of the feed                     *)
  failed    (* the scan has failed                                         *)

vars == <<sent, got, over, failed>>

Init == sent = <<>> /\ got = <<>> /\ over = FALSE /\ failed = FALSE

Report(f) ==
  /\ over => failed
  /\ sent' = Append(sent, f)
  /\ UNCHANGED <<got, over, failed>>

Deliver ==
  /\ ~over
  /\ Len(got) < Len(sent)
  /\ got' = Append(got, sent[Len(got) + 1])
  /\ UNCHANGED <<sent, over, failed>>

Finish ==
  /\ ~over
  /\ failed \/ got = sent
  /\ over' = TRUE
  /\ UNCHANGED <<sent, got, failed>>

Fail ==
  /\ failed' = TRUE
  /\ UNCHANGED <<sent, got, over>>

Next == (\E f \in Findings : Report(f)) \/ Deliver \/ Finish \/ Fail

Spec == Init /\ [][Next]_vars
===============================================================================
