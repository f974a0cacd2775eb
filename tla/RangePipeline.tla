---------------------------- MODULE RangePipeline ----------------------------
(***************************************************************************)
(* The goroutines that scan one address range (scanner/v4.go, v6.go), for  *)
(* every range of a scan:                                                  *)
(*                                                                         *)
(*   range        scanV4PointToPoint, scanV4OverGateway,                   *)
(*                scanV4WithoutHostDiscovery and their V6 counterparts     *)
(*   discovery    arpScan, pingV4Scan, pingV6Scan, findIPv6NeighborsOnLink *)
(*   hostCapture  interceptArpPackets, interceptICMPPackets                *)
(*   portScan     pointToPointV4PortsScan, scanPortsV4OverGateway, ...     *)
(*   portCapture  interceptTransportV4Responses, ...V6Responses            *)
(*                                                                         *)
(* A sender starts its capture goroutine, waits for it on an unbuffered    *)
(* "ready" channel, sends, sleeps for the rule's timeout and then hands    *)
(* over a token on an unbuffered "done" channel.  A capture goroutine that *)
(* hears a host reports it and passes it to the port scan on UpHostsChan.  *)
(* The range goroutine waits for the other four on a sync.WaitGroup.       *)
(*                                                                         *)
(* In mode "direct" (no-host-discovery) there is no discovery: the range   *)
(* goroutine runs the port scan itself and waits for nobody.               *)
(***************************************************************************)
EXTENDS ScanChannels, FiniteSets

CONSTANTS
  Ranges,        (* the ranges of scannerContext.IpRanges, 1..n            *)
  Hosts,         (* addresses of rule.Network that may answer              *)
  HostsOf,       (* the addresses of each range                            *)
  NoHost,        (* "no host in hand"                                      *)
  Repliers,      (* bound: addresses whose packets reach the source ports  *)
  UpHostsCap,    (* constants.UpHostsChanSize                              *)
  Failures,      (* which of FailurePoints may fail in this instance       *)
  MaxHeard,      (* bound: discovery packets captured per range            *)
  MaxSeen        (* bound: transport packets captured per range            *)

\* Where a goroutine may give up: the calls into the kernel or libpcap that
\* return an error, the rate limiter, and a capture that ends by itself; before any
\* range is started, createScannerContext and the list of sockets; and
\* "partial_send", where it should and does not: sendmmsg takes a part of a batch.
FailurePoints ==
  {"context", "sockets", "gateway_mac", "multicast_open", "host_capture", "host_send",
   "port_filter", "direct_filter", "port_capture", "port_send", "partial_send",
   "capture_lost"}

ASSUME RangeAssumption ==
  /\ HostsOf \in [Ranges -> SUBSET Hosts]
  /\ Repliers \subseteq Hosts
  /\ NoHost \notin Hosts
  /\ UpHostsCap \in Nat \ {0}
  /\ Failures \subseteq FailurePoints
  /\ MaxHeard \in Nat /\ MaxSeen \in Nat

VARIABLES
  mode,        (* how Scan dispatched the range                            *)
  rangePc, discPc, hearPc, scanPc, replyPc,   (* where each goroutine is   *)
  hearHost,    (* the host hostCapture is handling                         *)
  scanHost,    (* the host portScan has taken from UpHostsChan             *)
  replyHost,   (* the host whose reply portCapture is handling             *)
  wg,          (* the range's sync.WaitGroup counter                       *)
  upHosts, upClosed,   (* IpRangeRouteContext.UpHostsChan                  *)
  probed,      (* history: hosts whose transport probes all went out       *)
  lost,        (* history: hosts some of whose probes sendmmsg left over   *)
  heard, seen, (* packets captured so far (bounded by MaxHeard, MaxSeen)   *)
  refused      (* history: ranges one of whose transmissions was refused   *)

pcVars   == <<rangePc, discPc, hearPc, scanPc, replyPc>>
handVars == <<hearHost, scanHost, replyHost>>
netVars  == <<probed, lost, heard, seen, refused>>
upVars   == <<upHosts, upClosed>>
rangeVars == <<mode, rangePc, discPc, hearPc, scanPc, replyPc, hearHost, scanHost,
               replyHost, wg, upHosts, upClosed, probed, lost, heard, seen, refused>>

OnLink    == {"arp", "multicast"}
Discovery == OnLink \cup {"gateway"}

HostFinding(h) == [kind |-> "host", ip |-> h]
PortFinding(h) == [kind |-> "port", ip |-> h]
ErrorFrom(r, goroutine) == [range |-> r, from |-> goroutine]

\* makeIpRangeRoute: fresh channels.  The random source port is not modelled:
\* whatever it is, packets for it may come from anybody.
RangeInit ==
  /\ mode = [r \in Ranges |-> "none"]
  /\ rangePc = [r \in Ranges |-> "off"]
  /\ discPc = [r \in Ranges |-> "off"]
  /\ hearPc = [r \in Ranges |-> "off"]
  /\ scanPc = [r \in Ranges |-> "off"]
  /\ replyPc = [r \in Ranges |-> "off"]
  /\ hearHost = [r \in Ranges |-> NoHost]
  /\ scanHost = [r \in Ranges |-> NoHost]
  /\ replyHost = [r \in Ranges |-> NoHost]
  /\ wg = [r \in Ranges |-> 0]
  /\ upHosts = [r \in Ranges |-> <<>>]
  /\ upClosed = [r \in Ranges |-> FALSE]
  /\ probed = [r \in Ranges |-> {}]
  /\ lost = [r \in Ranges |-> {}]
  /\ heard = [r \in Ranges |-> 0]
  /\ seen = [r \in Ranges |-> 0]
  /\ refused = {}

-------------------------------------------------------------------------------
(* The range goroutine.                                                    *)

\* ipRangeScannerWg.Go(func() { scan...(scanCtx, networkRange) }), called by
\* the dispatch loop of Scan with the mode it chose.
StartRange(r, m) ==
  /\ rangePc[r] = "off"
  /\ mode' = [mode EXCEPT ![r] = m]
  /\ rangePc' = [rangePc EXCEPT ![r] = IF m \in OnLink THEN "launch" ELSE "resolve"]
  /\ UNCHANGED <<discPc, hearPc, scanPc, replyPc, handVars, wg, upVars, netVars>>

\* The gateway's MAC address is known, from the ARP table or by asking.
ResolveGateway(r) ==
  /\ rangePc[r] = "resolve"
  /\ rangePc' = [rangePc EXCEPT ![r] = "launch"]
  /\ UNCHANGED <<channelVars, mode, discPc, hearPc, scanPc, replyPc, handVars, wg,
                 upVars, netVars>>

\* No MAC address: the table cannot be read, the request cannot be sent, or
\* nobody answered in time.
ResolveGatewayFails(r) ==
  /\ "gateway_mac" \in Failures
  /\ rangePc[r] = "resolve"
  /\ rangePc' = [rangePc EXCEPT ![r] = "fail"]
  /\ UNCHANGED <<channelVars, mode, discPc, hearPc, scanPc, replyPc, handVars, wg,
                 upVars, netVars>>

ReportGatewayError(r) ==
  /\ rangePc[r] = "fail"
  /\ SendError(ErrorFrom(r, "range"))
  /\ rangePc' = [rangePc EXCEPT ![r] = "done"]
  /\ UNCHANGED <<mode, discPc, hearPc, scanPc, replyPc, handVars, wg, upVars, netVars>>

\* wg.Add(1) and go, twice: discovery and port scan start together.
LaunchPair(r) ==
  /\ rangePc[r] = "launch"
  /\ mode[r] \in Discovery
  /\ wg' = [wg EXCEPT ![r] = 2]
  /\ discPc' = [discPc EXCEPT ![r] = "start"]
  /\ scanPc' = [scanPc EXCEPT ![r] = "compile"]
  /\ rangePc' = [rangePc EXCEPT ![r] = "join"]
  /\ UNCHANGED <<channelVars, mode, hearPc, replyPc, handVars, upVars, netVars>>

\* Without discovery the range goroutine is the port scanner.
LaunchDirect(r) ==
  /\ rangePc[r] = "launch"
  /\ mode[r] = "direct"
  /\ scanPc' = [scanPc EXCEPT ![r] = "compile"]
  /\ rangePc' = [rangePc EXCEPT ![r] = "join"]
  /\ UNCHANGED <<channelVars, mode, discPc, hearPc, replyPc, handVars, wg, upVars, netVars>>

\* Mutant of JoinPair: the range returns without p2pWg.Wait().
JoinPairNoWait(r) ==
  /\ rangePc[r] = "join"
  /\ mode[r] \in Discovery
  /\ rangePc' = [rangePc EXCEPT ![r] = "done"]
  /\ UNCHANGED <<channelVars, mode, discPc, hearPc, scanPc, replyPc, handVars, wg,
                 upVars, netVars>>

\* p2pWg.Wait() / pingWg.Wait() returns.
JoinPair(r) ==
  /\ rangePc[r] = "join"
  /\ mode[r] \in Discovery
  /\ wg[r] = 0
  /\ rangePc' = [rangePc EXCEPT ![r] = "done"]
  /\ UNCHANGED <<channelVars, mode, discPc, hearPc, scanPc, replyPc, handVars, wg,
                 upVars, netVars>>

\* scanV4WithoutHostDiscovery returns; its wg is never waited for.
ReturnDirect(r) ==
  /\ rangePc[r] = "join"
  /\ mode[r] = "direct"
  /\ scanPc[r] = "end"
  /\ rangePc' = [rangePc EXCEPT ![r] = "done"]
  /\ UNCHANGED <<channelVars, mode, discPc, hearPc, scanPc, replyPc, handVars, wg,
                 upVars, netVars>>

RangeStep(r) ==
  \/ ResolveGateway(r) \/ ReportGatewayError(r)
  \/ LaunchPair(r) \/ LaunchDirect(r) \/ JoinPair(r) \/ ReturnDirect(r)

-------------------------------------------------------------------------------
(* Host discovery: the sender.                                             *)

\* What the host side of a range (discovery, hostCapture) never writes.
PortSide == <<mode, rangePc, scanPc, replyPc, scanHost, replyHost, probed, lost, seen, refused>>

\* findIPv6NeighborsOnLink opens its own handle and looks up its address
\* before it starts the capture; either may fail.
OpenMulticastFails(r) ==
  /\ "multicast_open" \in Failures
  /\ mode[r] = "multicast"
  /\ discPc[r] = "start"
  /\ discPc' = [discPc EXCEPT ![r] = "fail"]
  /\ UNCHANGED <<channelVars, PortSide, hearPc, hearHost, wg, upVars, heard>>

\* Mutant of StartHostCapture: a plain go statement, not wg.Go.
StartHostCaptureUncounted(r) ==
  /\ discPc[r] = "start"
  /\ discPc' = [discPc EXCEPT ![r] = "await"]
  /\ hearPc' = [hearPc EXCEPT ![r] = "setup"]
  /\ UNCHANGED <<channelVars, PortSide, hearHost, wg, upVars, heard>>

\* arpWg.Go(interceptArpPackets ...)
StartHostCapture(r) ==
  /\ discPc[r] = "start"
  /\ discPc' = [discPc EXCEPT ![r] = "await"]
  /\ hearPc' = [hearPc EXCEPT ![r] = "setup"]
  /\ wg' = [wg EXCEPT ![r] = @ + 1]
  /\ UNCHANGED <<channelVars, PortSide, hearHost, upVars, heard>>

\* Rendezvous on ReadyToInterceptHostsStateChan.
HostCaptureReady(r) ==
  /\ discPc[r] = "await"
  /\ hearPc[r] = "ready"
  /\ discPc' = [discPc EXCEPT ![r] = "probe"]
  /\ hearPc' = [hearPc EXCEPT ![r] = "listen"]
  /\ UNCHANGED <<channelVars, PortSide, hearHost, wg, upVars, heard>>

\* Mutant of SendDiscovery: discovery returns without the "done" token.
SendDiscoveryNoSignal(r) ==
  /\ discPc[r] = "probe"
  /\ discPc' = [discPc EXCEPT ![r] = "exit"]
  /\ UNCHANGED <<channelVars, PortSide, hearPc, hearHost, wg, upVars, heard>>

\* Every chunk of requests went out and the timeout passed.
SendDiscovery(r) ==
  /\ discPc[r] = "probe"
  /\ discPc' = [discPc EXCEPT ![r] = "signal"]
  /\ UNCHANGED <<channelVars, PortSide, hearPc, hearHost, wg, upVars, heard>>

\* A limiter or sendmmsg refuses one of the chunks.
SendDiscoveryFails(r) ==
  /\ "host_send" \in Failures
  /\ discPc[r] = "probe"
  /\ discPc' = [discPc EXCEPT ![r] = "fail"]
  /\ refused' = refused \cup {r}
  /\ UNCHANGED <<channelVars, mode, rangePc, hearPc, scanPc, replyPc, handVars, wg,
                 upVars, probed, lost, heard, seen>>

ReportDiscoveryError(r) ==
  /\ discPc[r] = "fail"
  /\ SendError(ErrorFrom(r, "discovery"))
  /\ discPc' = [discPc EXCEPT ![r] = "exit"]
  /\ UNCHANGED <<PortSide, hearPc, hearHost, wg, upVars, heard>>

\* Rendezvous on HostDiscoveryDoneChan: the capture goroutine is in its
\* select, takes the token and returns.
HostDiscoveryDone(r) ==
  /\ discPc[r] = "signal"
  /\ hearPc[r] = "listen"
  /\ discPc' = [discPc EXCEPT ![r] = "exit"]
  /\ hearPc' = [hearPc EXCEPT ![r] = "leave"]
  /\ UNCHANGED <<channelVars, PortSide, hearHost, wg, upVars, heard>>

\* The deferred calls, in the order they run.  ARP and ping: wg.Done(), then
\* close(UpHostsChan).  Multicast: close(UpHostsChan), then wg.Done().  The
\* close of the ready channel, which nobody uses any more, goes unrecorded.
DiscoveryExit(r) ==
  /\ discPc[r] = "exit"
  /\ discPc' = [discPc EXCEPT ![r] = "exiting"]
  /\ \/ /\ mode[r] # "multicast"
        /\ wg' = [wg EXCEPT ![r] = @ - 1]
        /\ UNCHANGED upClosed
     \/ /\ mode[r] = "multicast"
        /\ upClosed' = [upClosed EXCEPT ![r] = TRUE]
        /\ UNCHANGED wg
  /\ UNCHANGED <<channelVars, PortSide, hearPc, hearHost, upHosts, heard>>

\* Mutants of DiscoveryExited: wg.Done() is called a second time; UpHostsChan
\* is never closed.
DiscoveryExitedTwice(r) ==
  /\ discPc[r] = "exiting"
  /\ discPc' = [discPc EXCEPT ![r] = "end"]
  /\ upClosed' = [upClosed EXCEPT ![r] = TRUE]
  /\ wg' = [wg EXCEPT ![r] = @ - 1]
  /\ UNCHANGED <<channelVars, PortSide, hearPc, hearHost, upHosts, heard>>

DiscoveryExitedNoClose(r) ==
  /\ discPc[r] = "exiting"
  /\ discPc' = [discPc EXCEPT ![r] = "end"]
  /\ wg' = [wg EXCEPT ![r] = IF mode[r] = "multicast" THEN @ - 1 ELSE @]
  /\ UNCHANGED <<channelVars, PortSide, hearPc, hearHost, upVars, heard>>

DiscoveryExited(r) ==
  /\ discPc[r] = "exiting"
  /\ discPc' = [discPc EXCEPT ![r] = "end"]
  /\ \/ /\ mode[r] # "multicast"
        /\ upClosed' = [upClosed EXCEPT ![r] = TRUE]
        /\ UNCHANGED wg
     \/ /\ mode[r] = "multicast"
        /\ wg' = [wg EXCEPT ![r] = @ - 1]
        /\ UNCHANGED upClosed
  /\ UNCHANGED <<channelVars, PortSide, hearPc, hearHost, upHosts, heard>>

DiscoveryStep(r) ==
  \/ StartHostCapture(r) \/ HostCaptureReady(r)
  \/ SendDiscovery(r) \/ ReportDiscoveryError(r)
  \/ HostDiscoveryDone(r) \/ DiscoveryExit(r) \/ DiscoveryExited(r)

-------------------------------------------------------------------------------
(* Host discovery: the capture.                                            *)

OpenHostCapture(r) ==
  /\ hearPc[r] = "setup"
  /\ hearPc' = [hearPc EXCEPT ![r] = "ready"]
  /\ UNCHANGED <<channelVars, PortSide, discPc, hearHost, wg, upVars, heard>>

\* pcap cannot open the interface, or refuses the filter, the direction or
\* the link type: the goroutine returns without ever sending "ready".
OpenHostCaptureFails(r) ==
  /\ "host_capture" \in Failures
  /\ hearPc[r] = "setup"
  /\ hearPc' = [hearPc EXCEPT ![r] = "fail"]
  /\ UNCHANGED <<channelVars, PortSide, discPc, hearHost, wg, upVars, heard>>

ReportHostCaptureError(r) ==
  /\ hearPc[r] = "fail"
  /\ SendError(ErrorFrom(r, "hostCapture"))
  /\ hearPc' = [hearPc EXCEPT ![r] = "leave"]
  /\ UNCHANGED <<PortSide, discPc, hearHost, wg, upVars, heard>>

\* Mutant of Hear: the host goes to the port scan before it is reported.
HearHandsOver(r, h) ==
  /\ hearPc[r] = "listen"
  /\ heard[r] < MaxHeard
  /\ h \in HostsOf[r]
  /\ Len(upHosts[r]) < UpHostsCap /\ ~upClosed[r]
  /\ upHosts' = [upHosts EXCEPT ![r] = Append(@, h)]
  /\ hearHost' = [hearHost EXCEPT ![r] = h]
  /\ hearPc' = [hearPc EXCEPT ![r] = "report"]
  /\ heard' = [heard EXCEPT ![r] = @ + 1]
  /\ UNCHANGED <<channelVars, PortSide, discPc, wg, upClosed>>

\* A packet from an address of this range.  Packets from elsewhere, and of
\* other kinds, change nothing.
Hear(r, h) ==
  /\ hearPc[r] = "listen"
  /\ heard[r] < MaxHeard
  /\ h \in HostsOf[r]
  /\ hearHost' = [hearHost EXCEPT ![r] = h]
  /\ hearPc' = [hearPc EXCEPT ![r] = "report"]
  /\ heard' = [heard EXCEPT ![r] = @ + 1]
  /\ UNCHANGED <<channelVars, PortSide, discPc, wg, upVars>>

\* Any ARP packet will do: requests and gratuitous ones count.
HearArp(r, h)  == mode[r] = "arp" /\ Hear(r, h)
\* An ICMP or ICMPv6 echo reply.
HearEcho(r, h) == mode[r] \in {"multicast", "gateway"} /\ Hear(r, h)

\* c.findingsChan <- Host{...}
ReportHost(r) ==
  /\ hearPc[r] = "report"
  /\ SendFinding(HostFinding(hearHost[r]))
  /\ hearPc' = [hearPc EXCEPT ![r] = "handoff"]
  /\ UNCHANGED <<PortSide, discPc, hearHost, wg, upVars, heard>>

\* r.UpHostsChan <- EthIPPairBytes{...}: blocks while the channel is full,
\* panics once discovery has closed it.
HandOverHost(r) ==
  /\ hearPc[r] = "handoff"
  /\ ~upClosed[r]
  /\ Len(upHosts[r]) < UpHostsCap
  /\ upHosts' = [upHosts EXCEPT ![r] = Append(@, hearHost[r])]
  /\ hearHost' = [hearHost EXCEPT ![r] = NoHost]
  /\ hearPc' = [hearPc EXCEPT ![r] = "listen"]
  /\ UNCHANGED <<channelVars, PortSide, discPc, wg, upClosed, heard>>

HandOverHostPanics(r) ==
  /\ hearPc[r] = "handoff"
  /\ upClosed[r]
  /\ panicked' = TRUE
  /\ UNCHANGED <<findings, findingsClosed, errs, errsClosed, reported, raised, rangeVars>>

\* The packet channel is closed under the capture goroutine (!isOpen).
HostCaptureLost(r) ==
  /\ "capture_lost" \in Failures
  /\ hearPc[r] = "listen"
  /\ hearPc' = [hearPc EXCEPT ![r] = "leave"]
  /\ UNCHANGED <<channelVars, PortSide, discPc, hearHost, wg, upVars, heard>>

\* The goroutine returns to wg.Go, which calls wg.Done().
HostCaptureLeave(r) ==
  /\ hearPc[r] = "leave"
  /\ hearPc' = [hearPc EXCEPT ![r] = "end"]
  /\ wg' = [wg EXCEPT ![r] = @ - 1]
  /\ UNCHANGED <<channelVars, PortSide, discPc, hearHost, upVars, heard>>

HostCaptureStep(r) ==
  \/ OpenHostCapture(r) \/ ReportHostCaptureError(r)
  \/ ReportHost(r) \/ HandOverHost(r) \/ HandOverHostPanics(r)
  \/ HostCaptureLeave(r)

-------------------------------------------------------------------------------
(* The port scan: the sender.                                              *)

\* What the port side of a range never writes.
HostSide == <<mode, rangePc, discPc, hearPc, hearHost, heard, upClosed, refused>>

\* compileTransportStateDetectionBPF succeeds and the capture is started.
StartPortCapture(r) ==
  /\ scanPc[r] = "compile"
  /\ scanPc' = [scanPc EXCEPT ![r] = "await"]
  /\ replyPc' = [replyPc EXCEPT ![r] = "setup"]
  /\ wg' = [wg EXCEPT ![r] = @ + 1]
  /\ UNCHANGED <<channelVars, HostSide, scanHost, replyHost, upHosts, probed, lost, seen>>

CompileFilterFails(r) ==
  /\ IF mode[r] = "direct" THEN "direct_filter" \in Failures ELSE "port_filter" \in Failures
  /\ scanPc[r] = "compile"
  /\ scanPc' = [scanPc EXCEPT ![r] = "fail"]
  /\ UNCHANGED <<channelVars, HostSide, replyPc, scanHost, replyHost, wg, upHosts, probed, lost, seen>>

\* Rendezvous on ReadyToInterceptPortsStateChan.
PortCaptureReady(r) ==
  /\ scanPc[r] = "await"
  /\ replyPc[r] = "ready"
  /\ scanPc' = [scanPc EXCEPT ![r] = IF mode[r] = "direct" THEN "send" ELSE "drain"]
  /\ replyPc' = [replyPc EXCEPT ![r] = "listen"]
  /\ UNCHANGED <<channelVars, HostSide, scanHost, replyHost, wg, upHosts, probed, lost, seen>>

\* for host := range r.UpHostsChan
TakeHost(r) ==
  /\ scanPc[r] = "drain"
  /\ upHosts[r] # <<>>
  /\ scanHost' = [scanHost EXCEPT ![r] = Head(upHosts[r])]
  /\ upHosts' = [upHosts EXCEPT ![r] = Tail(@)]
  /\ scanPc' = [scanPc EXCEPT ![r] = "probe"]
  /\ UNCHANGED <<channelVars, HostSide, replyPc, replyHost, wg, probed, lost, seen>>

\* Mutant of DrainEnds: the scan stops as soon as discovery is over.
DrainEndsAtClose(r) ==
  /\ scanPc[r] = "drain"
  /\ upClosed[r]
  /\ scanPc' = [scanPc EXCEPT ![r] = "signal"]
  /\ UNCHANGED <<channelVars, HostSide, replyPc, scanHost, replyHost, wg, upHosts, probed, lost, seen>>

\* The loop ends when UpHostsChan is closed and empty; then the timeout.
DrainEnds(r) ==
  /\ scanPc[r] = "drain"
  /\ upHosts[r] = <<>>
  /\ upClosed[r]
  /\ scanPc' = [scanPc EXCEPT ![r] = "signal"]
  /\ UNCHANGED <<channelVars, HostSide, replyPc, scanHost, replyHost, wg, upHosts, probed, lost, seen>>

\* All batches of one host are handed to sendmmsg.  It may take only the first
\* messages of a batch and say so in a count that nobody reads: the rest is not
\* sent again.
ProbeHost(r) ==
  /\ scanPc[r] = "probe"
  /\ \/ /\ probed' = [probed EXCEPT ![r] = @ \cup {scanHost[r]}]
        /\ UNCHANGED lost
     \/ /\ "partial_send" \in Failures
        /\ lost' = [lost EXCEPT ![r] = @ \cup {scanHost[r]}]
        /\ UNCHANGED probed
  /\ scanHost' = [scanHost EXCEPT ![r] = NoHost]
  /\ scanPc' = [scanPc EXCEPT ![r] = "drain"]
  /\ UNCHANGED <<channelVars, HostSide, replyPc, replyHost, wg, upHosts, seen>>

\* A batch is refused: not all of the host's probes went out.
ProbeHostFails(r) ==
  /\ "port_send" \in Failures
  /\ scanPc[r] = "probe"
  /\ scanHost' = [scanHost EXCEPT ![r] = NoHost]
  /\ scanPc' = [scanPc EXCEPT ![r] = "fail"]
  /\ refused' = refused \cup {r}
  /\ UNCHANGED <<channelVars, mode, rangePc, discPc, hearPc, replyPc, hearHost, replyHost,
                 wg, upVars, probed, lost, heard, seen>>

\* The hosts a range is done with, whether the kernel took all of their probes or not.
Tried(r) == probed[r] \cup lost[r]

\* Mode "direct": the last probes of some addresses are handed to sendmmsg, which
\* may leave some of theirs over.
SendBatch(r) ==
  /\ scanPc[r] = "send"
  /\ \E batch \in SUBSET (HostsOf[r] \ Tried(r)) : \E left \in SUBSET batch :
       /\ batch # {}
       /\ left # {} => "partial_send" \in Failures
       /\ probed' = [probed EXCEPT ![r] = @ \cup (batch \ left)]
       /\ lost' = [lost EXCEPT ![r] = @ \cup left]
  /\ UNCHANGED <<channelVars, pcVars, mode, handVars, wg, upVars, heard, seen, refused>>

\* Mutant of BatchesEnd: the last, incomplete batch is forgotten.
BatchesEndEarly(r) ==
  /\ scanPc[r] = "send"
  /\ Cardinality(HostsOf[r] \ Tried(r)) <= 1
  /\ scanPc' = [scanPc EXCEPT ![r] = "signal"]
  /\ UNCHANGED <<channelVars, HostSide, replyPc, scanHost, replyHost, wg, upHosts, probed, lost, seen>>

\* The chunks are exhausted, whatever sendmmsg took of them.
BatchesEnd(r) ==
  /\ scanPc[r] = "send"
  /\ HostsOf[r] \subseteq Tried(r)
  /\ scanPc' = [scanPc EXCEPT ![r] = "signal"]
  /\ UNCHANGED <<channelVars, HostSide, replyPc, scanHost, replyHost, wg, upHosts, probed, lost, seen>>

BatchFails(r) ==
  /\ "port_send" \in Failures
  /\ scanPc[r] = "send"
  /\ scanPc' = [scanPc EXCEPT ![r] = "fail"]
  /\ refused' = refused \cup {r}
  /\ UNCHANGED <<channelVars, mode, rangePc, discPc, hearPc, replyPc, handVars, wg,
                 upVars, probed, lost, heard, seen>>

\* Mutant of ReportPortScanError: the scan goes on with the next host or batch.
ReportPortScanErrorGoesOn(r) ==
  /\ scanPc[r] = "fail"
  /\ SendError(ErrorFrom(r, "portScan"))
  /\ scanPc' = [scanPc EXCEPT ![r] = IF mode[r] = "direct" THEN "send" ELSE "drain"]
  /\ UNCHANGED <<HostSide, replyPc, scanHost, replyHost, wg, upHosts, probed, lost, seen>>

ReportPortScanError(r) ==
  /\ scanPc[r] = "fail"
  /\ SendError(ErrorFrom(r, "portScan"))
  /\ scanPc' = [scanPc EXCEPT ![r] = "exit"]
  /\ UNCHANGED <<HostSide, replyPc, scanHost, replyHost, wg, upHosts, probed, lost, seen>>

\* Rendezvous on PortsDiscoveryDoneChan.
PortScanDone(r) ==
  /\ scanPc[r] = "signal"
  /\ replyPc[r] = "listen"
  /\ scanPc' = [scanPc EXCEPT ![r] = "exit"]
  /\ replyPc' = [replyPc EXCEPT ![r] = "leave"]
  /\ UNCHANGED <<channelVars, HostSide, scanHost, replyHost, wg, upHosts, probed, lost, seen>>

\* portsScanWg.Done(); in mode "direct" the function simply returns.
PortScanExit(r) ==
  /\ scanPc[r] = "exit"
  /\ scanPc' = [scanPc EXCEPT ![r] = "end"]
  /\ \/ mode[r] \in Discovery /\ wg' = [wg EXCEPT ![r] = @ - 1]
     \/ mode[r] = "direct" /\ UNCHANGED wg
  /\ UNCHANGED <<channelVars, HostSide, replyPc, scanHost, replyHost, upHosts, probed, lost, seen>>

PortScanStep(r) ==
  \/ StartPortCapture(r) \/ PortCaptureReady(r)
  \/ TakeHost(r) \/ DrainEnds(r) \/ ProbeHost(r)
  \/ SendBatch(r) \/ BatchesEnd(r)
  \/ ReportPortScanError(r) \/ PortScanDone(r) \/ PortScanExit(r)

-------------------------------------------------------------------------------
(* The port scan: the capture.                                             *)

OpenPortCapture(r) ==
  /\ replyPc[r] = "setup"
  /\ replyPc' = [replyPc EXCEPT ![r] = "ready"]
  /\ UNCHANGED <<channelVars, HostSide, scanPc, scanHost, replyHost, wg, upHosts, probed, lost, seen>>

OpenPortCaptureFails(r) ==
  /\ "port_capture" \in Failures
  /\ replyPc[r] = "setup"
  /\ replyPc' = [replyPc EXCEPT ![r] = "fail"]
  /\ UNCHANGED <<channelVars, HostSide, scanPc, scanHost, replyHost, wg, upHosts, probed, lost, seen>>

ReportPortCaptureError(r) ==
  /\ replyPc[r] = "fail"
  /\ SendError(ErrorFrom(r, "portCapture"))
  /\ replyPc' = [replyPc EXCEPT ![r] = "leave"]
  /\ UNCHANGED <<HostSide, scanPc, scanHost, replyHost, wg, upHosts, probed, lost, seen>>

\* A SYN+ACK or a datagram sent to the range's source port from any address of the
\* rule's network: the filter of compileTransportStateDetectionBPF asks no more, and
\* the interceptor does not look whether the range has probed that address, has seen
\* it up, or has it at all.
HearReply(r, h) ==
  /\ replyPc[r] = "listen"
  /\ h \in Repliers
  /\ seen[r] < MaxSeen
  /\ replyHost' = [replyHost EXCEPT ![r] = h]
  /\ replyPc' = [replyPc EXCEPT ![r] = "report"]
  /\ seen' = [seen EXCEPT ![r] = @ + 1]
  /\ UNCHANGED <<channelVars, HostSide, scanPc, scanHost, wg, upHosts, probed, lost>>

\* c.findingsChan <- Port{...}: panics once the channel is closed.
ReportPort(r) ==
  /\ replyPc[r] = "report"
  /\ SendFinding(PortFinding(replyHost[r]))
  /\ replyHost' = [replyHost EXCEPT ![r] = NoHost]
  /\ replyPc' = [replyPc EXCEPT ![r] = "listen"]
  /\ UNCHANGED <<HostSide, scanPc, scanHost, wg, upHosts, probed, lost, seen>>

PortCaptureLost(r) ==
  /\ "capture_lost" \in Failures
  /\ replyPc[r] = "listen"
  /\ replyPc' = [replyPc EXCEPT ![r] = "leave"]
  /\ UNCHANGED <<channelVars, HostSide, scanPc, scanHost, replyHost, wg, upHosts, probed, lost, seen>>

PortCaptureLeave(r) ==
  /\ replyPc[r] = "leave"
  /\ replyPc' = [replyPc EXCEPT ![r] = "end"]
  /\ wg' = [wg EXCEPT ![r] = @ - 1]
  /\ UNCHANGED <<channelVars, HostSide, scanPc, scanHost, replyHost, upHosts, probed, lost, seen>>

PortCaptureStep(r) ==
  \/ OpenPortCapture(r) \/ ReportPortCaptureError(r)
  \/ ReportPort(r) \/ PortCaptureLeave(r)

-------------------------------------------------------------------------------
(* Packets from the network: no fairness, nobody has to answer.            *)
NetworkStep(r) == \E h \in Hosts : HearArp(r, h) \/ HearEcho(r, h) \/ HearReply(r, h)

(* A call that can fail does not have to.                                  *)
FailureStep(r) ==
  \/ ResolveGatewayFails(r) \/ OpenMulticastFails(r) \/ SendDiscoveryFails(r)
  \/ OpenHostCaptureFails(r) \/ HostCaptureLost(r)
  \/ CompileFilterFails(r) \/ ProbeHostFails(r) \/ BatchFails(r)
  \/ OpenPortCaptureFails(r) \/ PortCaptureLost(r)

PipelineStep(r) ==
  \/ RangeStep(r) \/ DiscoveryStep(r) \/ HostCaptureStep(r)
  \/ PortScanStep(r) \/ PortCaptureStep(r) \/ NetworkStep(r) \/ FailureStep(r)

-------------------------------------------------------------------------------
(* The state of the ranges.                                                *)

Finding == [kind : {"host", "port"}, ip : Hosts]
Error   == [range : Ranges \cup {0}, from : {"range", "discovery", "hostCapture", "portScan",
                                             "portCapture", "local"}]

RangeType ==
  /\ mode \in [Ranges -> {"none", "arp", "multicast", "gateway", "direct"}]
  /\ rangePc \in [Ranges -> {"off", "resolve", "launch", "join", "fail", "done"}]
  /\ discPc \in [Ranges -> {"off", "start", "await", "probe", "fail", "signal", "exit",
                            "exiting", "end"}]
  /\ hearPc \in [Ranges -> {"off", "setup", "fail", "ready", "listen", "report",
                            "handoff", "leave", "end"}]
  /\ scanPc \in [Ranges -> {"off", "compile", "await", "drain", "probe", "send", "fail",
                            "signal", "exit", "end"}]
  /\ replyPc \in [Ranges -> {"off", "setup", "fail", "ready", "listen", "report",
                             "leave", "end"}]
  /\ hearHost \in [Ranges -> Hosts \cup {NoHost}]
  /\ scanHost \in [Ranges -> Hosts \cup {NoHost}]
  /\ replyHost \in [Ranges -> Hosts \cup {NoHost}]
  /\ wg \in [Ranges -> Nat]
  /\ upHosts \in [Ranges -> Seq(Hosts)]
  /\ upClosed \in [Ranges -> BOOLEAN]
  /\ probed \in [Ranges -> SUBSET Hosts] /\ lost \in [Ranges -> SUBSET Hosts]
  /\ heard \in [Ranges -> Nat] /\ seen \in [Ranges -> Nat]
  /\ refused \subseteq Ranges
  /\ \A r \in Ranges :
       /\ Len(upHosts[r]) <= UpHostsCap
       /\ hearPc[r] \in {"report", "handoff"} => hearHost[r] \in Hosts
       /\ scanPc[r] = "probe" => scanHost[r] \in Hosts
       /\ replyPc[r] = "report" => replyHost[r] \in Hosts

-------------------------------------------------------------------------------
(* What the WaitGroup of a range knows of its goroutines.                  *)

\* How many calls of wg.Done() a goroutine still owes.  The ARP and ping
\* senders pay before their last deferred call, the multicast sender after it;
\* in mode "direct" the port scan is no goroutine of its own.
Owes(pc) == IF pc \in {"off", "end"} THEN 0 ELSE 1
DiscoveryOwes(r) ==
  IF discPc[r] = "exiting" /\ mode[r] # "multicast" THEN 0 ELSE Owes(discPc[r])
PortScanOwes(r) == IF mode[r] = "direct" THEN 0 ELSE Owes(scanPc[r])

\* The counter of a range's WaitGroup is the number of its goroutines that run
\* and will still call Done: Wait returns neither too early nor never, and the
\* counter never goes below zero (which would be a panic).
CountsGoroutines(r) ==
  wg[r] = DiscoveryOwes(r) + Owes(hearPc[r]) + PortScanOwes(r) + Owes(replyPc[r])

WaitGroupCounts == \A r \in Ranges : CountsGoroutines(r)

\* No goroutine of the range will send on findingsChan or errorChan again:
\* at most its last deferred calls are left to run.
RangeSilent(r) ==
  /\ rangePc[r] \in {"off", "done"}
  /\ discPc[r] \in {"off", "exiting", "end"} /\ hearPc[r] \in {"off", "end"}
  /\ scanPc[r] \in {"off", "end"} /\ replyPc[r] \in {"off", "leave", "end"}

-------------------------------------------------------------------------------
(* Parts of the inductive invariants of the proofs.                        *)

\* Each goroutine of a range is started once, by the goroutine before it.
StartedInOrder(r) ==
  /\ rangePc[r] = "off" <=> mode[r] = "none"
  /\ rangePc[r] \in {"off", "resolve", "launch", "fail"} =>
       discPc[r] = "off" /\ scanPc[r] = "off"
  /\ discPc[r] \in {"off", "start"} => hearPc[r] = "off"
  /\ scanPc[r] \in {"off", "compile"} => replyPc[r] = "off"
  /\ mode[r] = "direct" => discPc[r] = "off"

\* A range goroutine that has joined the others leaves none behind.
JoinedAll(r) == rangePc[r] = "done" /\ mode[r] \in Discovery => wg[r] = 0

\* The ranges' part of the inductive invariant, whatever fails.
RangeOK(r) == CountsGoroutines(r) /\ StartedInOrder(r) /\ JoinedAll(r)
RangeInv == RangeType /\ \A r \in Ranges : RangeOK(r)

\* Unless it was refused a transmission, a sender that has given up, or finished,
\* leaves no capture listening; and UpHostsChan is closed by the last deferred
\* call of discovery.
SendersLeaveLast(r) ==
  /\ discPc[r] \in {"fail", "exit", "exiting", "end"} => hearPc[r] \in {"off", "leave", "end"}
  /\ scanPc[r] \in {"fail", "exit", "end"} => replyPc[r] \in {"off", "leave", "end"}
  /\ upClosed[r] => discPc[r] \in {"exiting", "end"}
  /\ mode[r] = "direct" /\ rangePc[r] = "done" => scanPc[r] \in {"off", "end"}

===============================================================================
