----------------------------- MODULE ScanChannels -----------------------------
(***************************************************************************)
(* The two channels that every goroutine of one scan shares, as they are   *)
(* created by createScannerContext (scanner/common.go) and getLocalPorts:  *)
(*                                                                         *)
(*   findingsChan   hosts and ports, filled by the packet interceptors     *)
(*   errorChan      errors, filled by any goroutine that gives up          *)
(*                                                                         *)
(* A Go channel is a sequence with a capacity and a "closed" flag: a send  *)
(* blocks while the channel is full, and a send on a closed channel is a   *)
(* run-time panic, which ends the whole process.                           *)
(***************************************************************************)
EXTENDS Naturals, Sequences

CONSTANTS
  FindingsCap,   (* constants.FindingsChanBufferSize                       *)
  ErrorCap       (* constants.ErrorChanBufferSize                          *)

ASSUME CapsAssumption == FindingsCap \in Nat \ {0} /\ ErrorCap \in Nat \ {0}

VARIABLES
  findings,        (* contents of findingsChan                             *)
  findingsClosed,
  errs,            (* contents of errorChan                                *)
  errsClosed,
  panicked,        (* some goroutine has panicked: the process is dead     *)
  reported,        (* history: every finding ever sent on findingsChan     *)
  raised           (* history: every error ever sent on errorChan          *)

channelVars == <<findings, findingsClosed, errs, errsClosed, panicked, reported, raised>>

ChannelsInit ==
  /\ findings = <<>> /\ findingsClosed = FALSE
  /\ errs = <<>> /\ errsClosed = FALSE
  /\ panicked = FALSE
  /\ reported = <<>> /\ raised = <<>>

\* c.findingsChan <- f
SendFinding(f) ==
  /\ \/ /\ ~findingsClosed
        /\ Len(findings) < FindingsCap
        /\ findings' = Append(findings, f)
        /\ reported' = Append(reported, f)
        /\ UNCHANGED panicked
     \/ /\ findingsClosed
        /\ panicked' = TRUE
        /\ UNCHANGED <<findings, reported>>
  /\ UNCHANGED <<findingsClosed, errs, errsClosed, raised>>

\* c.errorChan <- e
SendError(e) ==
  /\ \/ /\ ~errsClosed
        /\ Len(errs) < ErrorCap
        /\ errs' = Append(errs, e)
        /\ raised' = Append(raised, e)
        /\ UNCHANGED panicked
     \/ /\ errsClosed
        /\ panicked' = TRUE
        /\ UNCHANGED <<errs, raised>>
  /\ UNCHANGED <<findings, findingsClosed, errsClosed, reported>>

\* A receive from findingsChan or errorChan takes the oldest element.
TakeFinding ==
  /\ findings # <<>>
  /\ findings' = Tail(findings)
  /\ UNCHANGED <<findingsClosed, errs, errsClosed, panicked, reported, raised>>

TakeError ==
  /\ errs # <<>>
  /\ errs' = Tail(errs)
  /\ UNCHANGED <<findings, findingsClosed, errsClosed, panicked, reported, raised>>

CloseFindings ==
  /\ findingsClosed' = TRUE
  /\ UNCHANGED <<findings, errs, errsClosed, panicked, reported, raised>>

CloseErrors ==
  /\ errsClosed' = TRUE
  /\ UNCHANGED <<findings, findingsClosed, errs, panicked, reported, raised>>

\* F is the set of findings, E the set of errors.
ChannelsType(F, E) ==
  /\ findings \in Seq(F) /\ Len(findings) <= FindingsCap
  /\ errs \in Seq(E) /\ Len(errs) <= ErrorCap
  /\ reported \in Seq(F) /\ raised \in Seq(E)
  /\ findingsClosed \in BOOLEAN /\ errsClosed \in BOOLEAN /\ panicked \in BOOLEAN

===============================================================================
