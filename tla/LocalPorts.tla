------------------------------ MODULE LocalPorts ------------------------------
(***************************************************************************)
(* getLocalPorts (scanner/common.go): the scan of a rule whose network is  *)
(* the machine's own.  One goroutine lists the machine's sockets, reports  *)
(* the listening ones of the rule's techniques, family and network, and    *)
(* closes both channels itself.  It is fed into the same result stream as  *)
(* the ranges of other scans are.                                          *)
(*                                                                         *)
(* Which sockets pass is left open: any set of addresses may be listened   *)
(* on, and a scan without TCP and UDP techniques finds none.               *)
(***************************************************************************)
EXTENDS RangePipeline

VARIABLES
  localPc,     (* the goroutine                                            *)
  sockets      (* listening sockets it has still to report                 *)

localVars == <<localPc, sockets>>

LocalInit == localPc = "off" /\ sockets = {}

NoRange == 0
LocalError == ErrorFrom(NoRange, "local")

\* psnet.Connections, and the filter.
ListSockets ==
  /\ localPc = "list"
  /\ sockets' \in SUBSET Hosts
  /\ localPc' = "report"
  /\ UNCHANGED channelVars

ListSocketsFails ==
  /\ "sockets" \in Failures
  /\ localPc = "list"
  /\ localPc' = "fail"
  /\ UNCHANGED <<channelVars, sockets>>

ReportLocalError ==
  /\ localPc = "fail"
  /\ SendError(LocalError)
  /\ localPc' = "report"
  /\ UNCHANGED sockets

\* c <- Port{...}, in the order of the list.
ReportSocket ==
  /\ localPc = "report"
  /\ \E h \in sockets :
       /\ SendFinding(PortFinding(h))
       /\ sockets' = sockets \ {h}
  /\ UNCHANGED localPc

\* The deferred calls: close(e), then close(c).
CloseLocalErrors ==
  /\ localPc = "report" /\ sockets = {}
  /\ CloseErrors
  /\ localPc' = "close"
  /\ UNCHANGED sockets

CloseLocalFindings ==
  /\ localPc = "close"
  /\ CloseFindings
  /\ localPc' = "end"
  /\ UNCHANGED sockets

LocalStep ==
  \/ ListSockets \/ ReportLocalError \/ ReportSocket
  \/ CloseLocalErrors \/ CloseLocalFindings

LocalType ==
  /\ localPc \in {"off", "list", "fail", "report", "close", "end"}
  /\ sockets \subseteq Hosts

===============================================================================
