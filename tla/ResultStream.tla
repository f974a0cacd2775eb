----------------------------- MODULE ResultStream -----------------------------
(***************************************************************************)
(* wrapChannels (scanner/common.go): the Stream a scan hands to its caller.*)
(*                                                                         *)
(*   forwarder   moves findings from findingsChan to the Findings channel  *)
(*   collector   takes errors from errorChan until the first one           *)
(*   Wait        errgroup.Wait: both have returned; the first error        *)
(*                                                                         *)
(* When the collector returns an error the errgroup cancels its context;   *)
(* the forwarder looks at the context only while it holds a finding.       *)
(*                                                                         *)
(* The caller is the one doc.go prescribes and cli.InteractiveScan writes: *)
(* range over Findings until it is closed, then call Wait.                 *)
(***************************************************************************)
EXTENDS ScanChannels

CONSTANTS
  OutCap,        (* capacity of Stream.Findings: 256                       *)
  NoFinding,     (* "no finding in hand"                                   *)
  NoError        (* a nil error                                            *)

ASSUME StreamAssumption == OutCap \in Nat \ {0}

VARIABLES
  out, outClosed,   (* the Findings channel of the Stream                  *)
  fwdPc, fwdItem,   (* forwarder                                           *)
  collPc,           (* collector                                           *)
  groupErr,         (* the errgroup's first error                          *)
  cancelled,        (* the errgroup's context                              *)
  callerPc,         (* the caller of Scan                                  *)
  delivered,        (* history: findings the caller received               *)
  waitErr           (* what Wait returned to the caller                    *)

streamVars == <<out, outClosed, fwdPc, fwdItem, collPc, groupErr, cancelled,
                callerPc, delivered, waitErr>>

StreamInit ==
  /\ out = <<>> /\ outClosed = FALSE
  /\ fwdPc = "off" /\ fwdItem = NoFinding
  /\ collPc = "off"
  /\ groupErr = NoError /\ cancelled = FALSE
  /\ callerPc = "scan" /\ delivered = <<>> /\ waitErr = NoError

\* wrapChannels returns the Stream with its two goroutines started.
OpenStream ==
  /\ callerPc = "scan"
  /\ fwdPc' = "recv" /\ collPc' = "recv" /\ callerPc' = "range"
  /\ UNCHANGED <<out, outClosed, fwdItem, groupErr, cancelled, delivered, waitErr>>

-------------------------------------------------------------------------------
\* for f := range findings
ForwarderTakes ==
  /\ fwdPc = "recv"
  /\ TakeFinding
  /\ fwdItem' = Head(findings)
  /\ fwdPc' = "send"
  /\ UNCHANGED <<out, outClosed, collPc, groupErr, cancelled, callerPc, delivered, waitErr>>

\* case out <- f
ForwarderSends ==
  /\ fwdPc = "send"
  /\ Len(out) < OutCap
  /\ out' = Append(out, fwdItem)
  /\ fwdItem' = NoFinding
  /\ fwdPc' = "recv"
  /\ UNCHANGED <<channelVars, outClosed, collPc, groupErr, cancelled, callerPc, delivered, waitErr>>

\* case <-ctx.Done(): the finding in hand is dropped and out is closed.
ForwarderCancelled ==
  /\ fwdPc = "send"
  /\ cancelled
  /\ fwdPc' = "end"
  /\ outClosed' = TRUE
  /\ UNCHANGED <<channelVars, out, fwdItem, collPc, groupErr, cancelled, callerPc,
                 delivered, waitErr>>

\* Mutant of ForwarderEnds: it stops at the close, whatever is still buffered.
ForwarderEndsAtClose ==
  /\ fwdPc = "recv"
  /\ findingsClosed
  /\ fwdPc' = "end"
  /\ outClosed' = TRUE
  /\ UNCHANGED <<channelVars, out, fwdItem, collPc, groupErr, cancelled, callerPc,
                 delivered, waitErr>>

\* findingsChan is closed and empty.
ForwarderEnds ==
  /\ fwdPc = "recv"
  /\ findings = <<>> /\ findingsClosed
  /\ fwdPc' = "end"
  /\ outClosed' = TRUE
  /\ UNCHANGED <<channelVars, out, fwdItem, collPc, groupErr, cancelled, callerPc,
                 delivered, waitErr>>

\* Mutant of CollectorReturnsError: it goes on and keeps the last error.
CollectorKeepsLast ==
  /\ collPc = "recv"
  /\ TakeError
  /\ groupErr' = Head(errs)
  /\ cancelled' = TRUE
  /\ UNCHANGED <<out, outClosed, fwdPc, fwdItem, collPc, callerPc, delivered, waitErr>>

\* return e: the errgroup keeps it and cancels the context.
CollectorReturnsError ==
  /\ collPc = "recv"
  /\ TakeError
  /\ groupErr' = Head(errs)
  /\ cancelled' = TRUE
  /\ collPc' = "end"
  /\ UNCHANGED <<out, outClosed, fwdPc, fwdItem, callerPc, delivered, waitErr>>

CollectorEnds ==
  /\ collPc = "recv"
  /\ errs = <<>> /\ errsClosed
  /\ collPc' = "end"
  /\ UNCHANGED <<channelVars, out, outClosed, fwdPc, fwdItem, groupErr, cancelled,
                 callerPc, delivered, waitErr>>

-------------------------------------------------------------------------------
\* for f := range stream.Findings
CallerReceives ==
  /\ callerPc = "range"
  /\ out # <<>>
  /\ delivered' = Append(delivered, Head(out))
  /\ out' = Tail(out)
  /\ UNCHANGED <<channelVars, outClosed, fwdPc, fwdItem, collPc, groupErr, cancelled,
                 callerPc, waitErr>>

CallerSeesEnd ==
  /\ callerPc = "range"
  /\ out = <<>> /\ outClosed
  /\ callerPc' = "wait"
  /\ UNCHANGED <<channelVars, out, outClosed, fwdPc, fwdItem, collPc, groupErr,
                 cancelled, delivered, waitErr>>

\* stream.Wait() returns.
WaitReturns ==
  /\ callerPc = "wait"
  /\ fwdPc = "end" /\ collPc = "end"
  /\ waitErr' = groupErr
  /\ callerPc' = "end"
  /\ UNCHANGED <<channelVars, out, outClosed, fwdPc, fwdItem, collPc, groupErr,
                 cancelled, delivered>>

Forwarder == ForwarderTakes \/ ForwarderSends \/ ForwarderCancelled \/ ForwarderEnds
Collector == CollectorReturnsError \/ CollectorEnds
Caller    == CallerReceives \/ CallerSeesEnd \/ WaitReturns

StreamStep == Forwarder \/ Collector \/ Caller

\* F is the set of findings, E the set of errors.
StreamType(F, E) ==
  /\ out \in Seq(F) /\ Len(out) <= OutCap /\ outClosed \in BOOLEAN
  /\ fwdPc \in {"off", "recv", "send", "end"} /\ fwdItem \in F \cup {NoFinding}
  /\ fwdPc = "send" => fwdItem \in F
  /\ collPc \in {"off", "recv", "end"}
  /\ groupErr \in E \cup {NoError} /\ cancelled \in BOOLEAN
  /\ callerPc \in {"scan", "range", "wait", "end", "refused"}
  /\ delivered \in Seq(F) /\ waitErr \in E \cup {NoError}

===============================================================================
