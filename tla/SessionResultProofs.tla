-------------------------- MODULE SessionResultProofs --------------------------
(***************************************************************************)
(* Theorems about the result of a scan.  A range that is scanned through a *)
(* gateway has one; no host is probed before it is reported; and a nil     *)
(* from Wait means that the scan ran to its end.  The last two follow a    *)
(* host through the buffers and goroutines of its range, from its report   *)
(* to the port scan (KnownHosts, HostsAt).                                 *)
(***************************************************************************)
EXTENDS SessionStreamProofs

-------------------------------------------------------------------------------
(* What is reported stays reported.                                        *)

\* A host stays reported, and one that is reported now is from now on.
LEMMA ReportsStay ==
  ASSUME NEW f \in Finding, reported \in Seq(Finding), reported' = Append(reported, f)
  PROVE  HostsReported \subseteq HostsReported' /\ (f.kind = "host" => f.ip \in HostsReported')
<1>1. /\ DOMAIN reported = 1..Len(reported) /\ DOMAIN reported' = 1..(Len(reported) + 1)
      /\ Len(reported) \in Nat /\ reported'[Len(reported) + 1] = f
      /\ \A i \in 1..Len(reported) : reported'[i] = reported[i]
  OBVIOUS
<1>2. \A i \in DOMAIN reported : i \in DOMAIN reported' /\ reported'[i] = reported[i]
  BY <1>1
<1>3. Len(reported) + 1 \in DOMAIN reported'
  BY <1>1
<1> QED BY <1>1, <1>2, <1>3 DEF HostsReported

\* Only the report of a host adds one.
LEMMA ReportsAdd ==
  ASSUME NEW f \in Finding, reported \in Seq(Finding), reported' = Append(reported, f)
  PROVE  \A h \in HostsReported' : h \in HostsReported \/ (f.kind = "host" /\ h = f.ip)
<1>1. /\ DOMAIN reported = 1..Len(reported) /\ DOMAIN reported' = 1..(Len(reported) + 1)
      /\ Len(reported) \in Nat /\ reported'[Len(reported) + 1] = f
      /\ \A i \in 1..Len(reported) : reported'[i] = reported[i]
  OBVIOUS
<1>2. SUFFICES ASSUME NEW i \in DOMAIN reported', reported'[i].kind = "host"
               PROVE  reported'[i].ip \in HostsReported \/ (f.kind = "host" /\ reported'[i].ip = f.ip)
  BY DEF HostsReported
<1>3. CASE i = Len(reported) + 1
  BY <1>1, <1>2, <1>3
<1>4. CASE i \in DOMAIN reported
  <2>1. reported'[i] = reported[i]
    BY <1>1, <1>4
  <2> QED BY <1>2, <1>4, <2>1 DEF HostsReported
<1> QED BY <1>1, <1>2, <1>3, <1>4

\* A range with discovery that still has a host to report has open channels.
LEMMA ReportsOpen ==
  ASSUME IInv, NEW r \in Ranges, mode[r] # "direct", hearPc[r] = "report"
  PROVE  ~findingsClosed
<1>1. mode[r] \in Discovery /\ rangePc[r] # "off"
  BY DEF IInv, RangeInv, RangeType, RangeOK, StartedInOrder, Discovery, OnLink
<1>2. rangePc[r] # "done"
  BY <1>1, Counted DEF IInv, Owes
<1> QED BY <1>1, <1>2 DEF IInv, ClosingOrder

\* What a step of a range does to findingsChan as far as hosts are concerned.
LEMMA StepReports ==
  ASSUME IInv, NEW r \in Ranges, mode[r] # "direct", PipelineStep(r)
  PROVE  /\ HostsReported \subseteq HostsReported'
         /\ ReportHost(r) => hearHost[r] \in HostsReported'
<1>0. reported \in Seq(Finding)
  BY DEF IInv, TypeOK, ChannelsType
<1>1. CASE ReportHost(r)
  <2>1. HostFinding(hearHost[r]) \in Finding
    BY <1>1 DEF ReportHost, IInv, RangeInv, RangeType, HostFinding, Finding
  <2>2. reported' = Append(reported, HostFinding(hearHost[r]))
    BY <1>1, ReportsOpen DEF ReportHost, SendFinding
  <2> QED BY <1>0, <2>1, <2>2, ReportsStay DEF HostFinding
<1>2. CASE ~ReportHost(r)
  <2>1. ChannelUse(r)
    BY UsesChannels DEF IInv
  <2>2. reported' = reported \/ \E f \in Finding : reported' = Append(reported, f)
    BY <2>1 DEF ChannelUse, channelVars, SendFinding, SendError, HandOverHostPanics
  <2>3. HostsReported \subseteq HostsReported'
    BY <1>0, <2>2, ReportsStay DEF HostsReported
  <2> QED BY <1>2, <2>3
<1> QED BY <1>1, <1>2

-------------------------------------------------------------------------------
(* A host on its way through its range.                                    *)

\* What the lemmas about the goroutines have in common.
Kept(r) ==
  /\ RangeInv /\ mode[r] # "direct" /\ (\A q \in Ranges : KnownHosts(q))
  /\ HostsReported \subseteq HostsReported'
  /\ ReportHost(r) => hearHost[r] \in HostsReported'

\* The range goroutine and the sender of host discovery handle no host.
LEMMA StartersKeep ==
  ASSUME NEW r \in Ranges, Kept(r), RangeStep(r) \/ DiscoveryStep(r)
  PROVE  \A q \in Ranges : KnownHosts(q)'
<1> USE DEF Kept, RangeInv, RangeType, KnownHosts, Tried, handVars, netVars, upVars, PortSide
<1>1. CASE RangeStep(r)
  BY <1>1 DEF RangeStep, ResolveGateway, ReportGatewayError, LaunchPair, LaunchDirect, JoinPair,
     ReturnDirect
<1>2. CASE DiscoveryStep(r)
  BY <1>2 DEF DiscoveryStep, StartHostCapture, HostCaptureReady, SendDiscovery,
     ReportDiscoveryError, HostDiscoveryDone, DiscoveryExit, DiscoveryExited
<1> QED BY <1>1, <1>2

\* The capture of host discovery reports a host before it hands it over.
LEMMA HostCaptureKeeps ==
  ASSUME NEW r \in Ranges, Kept(r), HostCaptureStep(r)
  PROVE  \A q \in Ranges : KnownHosts(q)'
<1> USE DEF Kept, RangeInv, RangeType, KnownHosts, Tried, upVars, PortSide
<1>1. CASE ReportHost(r)
  BY <1>1 DEF ReportHost
<1>2. CASE HandOverHost(r)
  <2>1. /\ upHosts'[r] = Append(upHosts[r], hearHost[r]) /\ upHosts[r] \in Seq(Hosts)
        /\ hearHost[r] \in HostsReported'
        /\ \A i \in DOMAIN upHosts[r] : upHosts[r][i] \in HostsReported'
    BY <1>2 DEF HandOverHost
  <2>2. \A i \in DOMAIN upHosts'[r] : upHosts'[r][i] \in HostsReported'
    BY <2>1
  <2> QED BY <1>2, <2>2 DEF HandOverHost
<1>3. CASE OpenHostCapture(r) \/ ReportHostCaptureError(r) \/ HostCaptureLeave(r)
  BY <1>3 DEF OpenHostCapture, ReportHostCaptureError, HostCaptureLeave
<1>4. CASE HandOverHostPanics(r)
  BY <1>4 DEF HandOverHostPanics, rangeVars
<1> QED BY <1>1, <1>2, <1>3, <1>4 DEF HostCaptureStep

\* The port scan takes hosts from UpHostsChan alone.
LEMMA PortScanKeeps ==
  ASSUME NEW r \in Ranges, Kept(r), PortScanStep(r)
  PROVE  \A q \in Ranges : KnownHosts(q)'
<1> USE DEF Kept, RangeInv, RangeType, KnownHosts, Tried, HostSide
<1>1. CASE TakeHost(r)
  <2>1. /\ upHosts'[r] = Tail(upHosts[r]) /\ upHosts[r] \in Seq(Hosts) /\ upHosts[r] # <<>>
        /\ scanHost'[r] = Head(upHosts[r])
        /\ \A i \in DOMAIN upHosts[r] : upHosts[r][i] \in HostsReported'
    BY <1>1 DEF TakeHost
  <2>2. scanHost'[r] \in HostsReported'
        /\ \A i \in DOMAIN upHosts'[r] : upHosts'[r][i] \in HostsReported'
    BY <2>1
  <2> QED BY <1>1, <2>2 DEF TakeHost
<1>2. CASE StartPortCapture(r) \/ PortCaptureReady(r)
  BY <1>2 DEF StartPortCapture, PortCaptureReady
<1>3. CASE DrainEnds(r) \/ ProbeHost(r) \/ ReportPortScanError(r)
  BY <1>3 DEF DrainEnds, ProbeHost, ReportPortScanError
<1>4. CASE PortScanDone(r) \/ PortScanExit(r)
  BY <1>4 DEF PortScanDone, PortScanExit
<1>5. CASE SendBatch(r) \/ BatchesEnd(r)
  BY <1>5 DEF SendBatch, BatchesEnd
<1> QED BY <1>1, <1>2, <1>3, <1>4, <1>5 DEF PortScanStep

\* A reply is reported and handed to nobody, whoever sent it.
LEMMA RepliesKeep ==
  ASSUME NEW r \in Ranges, Kept(r), PortCaptureStep(r) \/ NetworkStep(r)
  PROVE  \A q \in Ranges : KnownHosts(q)'
<1> USE DEF Kept, RangeInv, RangeType, KnownHosts, Tried, HostSide, PortSide, upVars
<1>1. CASE PortCaptureStep(r)
  BY <1>1 DEF PortCaptureStep, OpenPortCapture, ReportPortCaptureError, ReportPort, PortCaptureLeave
<1>2. ASSUME NEW h \in Hosts, HearArp(r, h) \/ HearEcho(r, h)
      PROVE  \A q \in Ranges : KnownHosts(q)'
  BY <1>2 DEF HearArp, HearEcho, Hear
<1>3. ASSUME NEW h \in Hosts, HearReply(r, h) PROVE \A q \in Ranges : KnownHosts(q)'
  BY <1>3 DEF HearReply
<1> QED BY <1>1, <1>2, <1>3 DEF NetworkStep

\* A host whose probes were refused is not tried again.
LEMMA FailuresKeep ==
  ASSUME NEW r \in Ranges, Kept(r), FailureStep(r)
  PROVE  \A q \in Ranges : KnownHosts(q)'
<1> USE DEF Kept, RangeInv, RangeType, KnownHosts, Tried, HostSide, PortSide, upVars, netVars, handVars
<1>1. CASE ProbeHostFails(r)
  BY <1>1 DEF ProbeHostFails
<1>2. CASE ResolveGatewayFails(r) \/ OpenMulticastFails(r) \/ SendDiscoveryFails(r)
  BY <1>2 DEF ResolveGatewayFails, OpenMulticastFails, SendDiscoveryFails
<1>3. CASE OpenHostCaptureFails(r) \/ HostCaptureLost(r) \/ CompileFilterFails(r)
  BY <1>3 DEF OpenHostCaptureFails, HostCaptureLost, CompileFilterFails
<1>4. CASE BatchFails(r) \/ OpenPortCaptureFails(r) \/ PortCaptureLost(r)
  BY <1>4 DEF BatchFails, OpenPortCaptureFails, PortCaptureLost
<1> QED BY <1>1, <1>2, <1>3, <1>4 DEF FailureStep

\* Every step of a range keeps what is known of the hosts.
LEMMA PipelineKnows ==
  ASSUME IInv, NEW r \in Ranges, mode[r] # "direct", \A q \in Ranges : KnownHosts(q),
         PipelineStep(r)
  PROVE  \A q \in Ranges : KnownHosts(q)'
<1>1. Kept(r)
  BY StepReports DEF Kept, IInv
<1> QED BY <1>1, StartersKeep, HostCaptureKeeps, PortScanKeeps, RepliesKeep, FailuresKeep
        DEF PipelineStep

-------------------------------------------------------------------------------
(* The order of the reports.                                               *)

\* The mode of a range is chosen by the dispatch loop alone.
LEMMA ModeStays ==
  ASSUME NEW r \in Ranges, PipelineStep(r)
  PROVE  mode' = mode
<1> USE DEF pcVars, handVars, netVars, upVars, PortSide, HostSide, rangeVars
<1>1. CASE RangeStep(r)
  BY <1>1 DEF RangeStep, ResolveGateway, ReportGatewayError, LaunchPair, LaunchDirect, JoinPair,
     ReturnDirect
<1>2. CASE DiscoveryStep(r)
  BY <1>2 DEF DiscoveryStep, StartHostCapture, HostCaptureReady, SendDiscovery,
     ReportDiscoveryError, HostDiscoveryDone, DiscoveryExit, DiscoveryExited
<1>3. CASE HostCaptureStep(r)
  BY <1>3 DEF HostCaptureStep, OpenHostCapture, ReportHostCaptureError, ReportHost, HandOverHost,
     HandOverHostPanics, HostCaptureLeave
<1>4. CASE PortScanStep(r)
  BY <1>4 DEF PortScanStep, StartPortCapture, PortCaptureReady, TakeHost, DrainEnds,
     ProbeHost, SendBatch, BatchesEnd, ReportPortScanError, PortScanDone, PortScanExit
<1>5. CASE PortCaptureStep(r)
  BY <1>5 DEF PortCaptureStep, OpenPortCapture, ReportPortCaptureError, ReportPort, PortCaptureLeave
<1>6. CASE NetworkStep(r)
  BY <1>6 DEF NetworkStep, HearArp, HearEcho, Hear, HearReply
<1>7. CASE FailureStep(r)
  BY <1>7 DEF FailureStep, ResolveGatewayFails, OpenMulticastFails, SendDiscoveryFails,
     OpenHostCaptureFails, HostCaptureLost, CompileFilterFails, ProbeHostFails, BatchFails,
     OpenPortCaptureFails, PortCaptureLost
<1> QED BY <1>1, <1>2, <1>3, <1>4, <1>5, <1>6, <1>7 DEF PipelineStep

\* Who reports what: a host its capture holds, or the sender of a reply.
LEMMA WhoReports ==
  ASSUME NEW r \in Ranges, PipelineStep(r)
  PROVE  \/ reported' = reported
         \/ reported' = Append(reported, HostFinding(hearHost[r])) /\ ReportHost(r)
         \/ reported' = Append(reported, PortFinding(replyHost[r])) /\ replyPc[r] = "report"
<1> USE DEF channelVars
<1>1. CASE RangeStep(r)
  BY <1>1 DEF RangeStep, ResolveGateway, ReportGatewayError, SendError, LaunchPair, LaunchDirect,
     JoinPair, ReturnDirect
<1>2. CASE DiscoveryStep(r)
  BY <1>2 DEF DiscoveryStep, StartHostCapture, HostCaptureReady, SendDiscovery,
     ReportDiscoveryError, SendError, HostDiscoveryDone, DiscoveryExit, DiscoveryExited
<1>3. CASE HostCaptureStep(r)
  BY <1>3 DEF HostCaptureStep, OpenHostCapture, ReportHostCaptureError, SendError, ReportHost,
     SendFinding, HandOverHost, HandOverHostPanics, HostCaptureLeave
<1>4. CASE PortScanStep(r)
  BY <1>4 DEF PortScanStep, StartPortCapture, PortCaptureReady, TakeHost, DrainEnds, ProbeHost,
     SendBatch, BatchesEnd, ReportPortScanError, SendError, PortScanDone, PortScanExit
<1>5. CASE PortCaptureStep(r)
  BY <1>5 DEF PortCaptureStep, OpenPortCapture, ReportPortCaptureError, SendError, ReportPort,
     SendFinding, PortCaptureLeave
<1>6. CASE NetworkStep(r)
  BY <1>6 DEF NetworkStep, HearArp, HearEcho, Hear, HearReply
<1>7. CASE FailureStep(r)
  BY <1>7 DEF FailureStep, ResolveGatewayFails, OpenMulticastFails, SendDiscoveryFails,
     OpenHostCaptureFails, HostCaptureLost, CompileFilterFails, ProbeHostFails, BatchFails,
     OpenPortCaptureFails, PortCaptureLost
<1> QED BY <1>1, <1>2, <1>3, <1>4, <1>5, <1>6, <1>7 DEF PipelineStep

-------------------------------------------------------------------------------
(* The whole session.                                                      *)

\* A step that starts no range and reports nothing.
LEMMA NothingNew ==
  ASSUME OrderInv, UNCHANGED <<rangeVars, reported, rule, gateway>>
  PROVE  OrderInv'
BY DEF OrderInv, DirectByRule, GatewayKnown, KnownHosts, Tried, HostsReported, rangeVars

\* The dispatch loop gives a range a gateway if it is to have one.
LEMMA DispatchOrder ==
  ASSUME IInv, OrderInv, Dispatching, NEW m \in Discovery \cup {"direct"}, NEW gw \in BOOLEAN,
         Dispatch(m, gw), m = "direct" => rule.noHostDiscovery, m \in {"gateway", "direct"} => gw
  PROVE  OrderInv'
<1>1. /\ next \in Ranges /\ mode' = [mode EXCEPT ![next] = m]
      /\ gateway' = [gateway EXCEPT ![next] = gw] /\ rule' = rule /\ reported' = reported
      /\ DOMAIN mode = Ranges /\ DOMAIN gateway = Ranges
  BY SessionAssumption DEF Dispatching, Dispatch, StartRange, channelVars, IInv, TypeOK, RuleType,
     RangeInv, RangeType
<1>2. GatewayKnown' /\ DirectByRule'
  BY <1>1 DEF OrderInv, GatewayKnown, DirectByRule
<1>3. \A r \in Ranges : KnownHosts(r) => KnownHosts(r)'
  BY <1>1 DEF Dispatch, StartRange, handVars, upVars, netVars, KnownHosts, Tried, HostsReported
<1> QED BY <1>1, <1>2, <1>3 DEF OrderInv

\* The step lemma of OrderInv.
LEMMA OrderStep ==
  ASSUME IInv, OrderInv, [Next]_vars
  PROVE  OrderInv'
<1>1. CASE Scan
  <2>1. CASE DispatchDirect
    <3>1. gateway[next] \/ rule.defaultGateway
      BY <2>1 DEF DispatchDirect
    <3> QED BY <2>1, <3>1, DispatchOrder DEF DispatchDirect
  <2>2. CASE DispatchGateway
    <3>1. gateway[next] \/ rule.defaultGateway
      BY <2>2 DEF DispatchGateway
    <3> QED BY <2>2, <3>1, DispatchOrder DEF DispatchGateway, Discovery
  <2>3. CASE DispatchArp
    BY <2>3, DispatchOrder DEF DispatchArp, Discovery, OnLink
  <2>4. CASE DispatchMulticast
    BY <2>4, DispatchOrder DEF DispatchMulticast, Discovery, OnLink
  <2>5. CASE RefuseRule \/ DispatchFails \/ ReturnStream \/ ReturnLocalStream
    BY <2>5, NothingNew DEF RefuseRule, DispatchFails, ReturnStream, ReturnLocalStream,
       sessionVars, channelVars
  <2> QED BY <1>1, <2>1, <2>2, <2>3, <2>4, <2>5 DEF Scan
<1>2. CASE RangeMoves
  <2>1. PICK r \in Ranges : PipelineStep(r) /\ UNCHANGED <<streamVars, sessionVars>>
    BY <1>2 DEF RangeMoves
  <2>2. mode' = mode /\ rule' = rule /\ gateway' = gateway
    BY <2>1, ModeStays DEF sessionVars
  <2>3. DirectByRule' /\ GatewayKnown'
    BY <2>2 DEF OrderInv, DirectByRule, GatewayKnown
  <2>4. CASE rule.noHostDiscovery
    BY <2>2, <2>3, <2>4 DEF OrderInv
  <2>5. CASE ~rule.noHostDiscovery
    <3>1. mode[r] # "direct" /\ \A q \in Ranges : KnownHosts(q)
      BY <2>1, <2>5 DEF OrderInv, DirectByRule
    <3>2. \A q \in Ranges : KnownHosts(q)'
      BY <2>1, <3>1, PipelineKnows
    <3> QED BY <2>2, <2>3, <3>2 DEF OrderInv
  <2> QED BY <2>4, <2>5
<1>3. CASE LocalMoves
  <2>1. UNCHANGED <<rangeVars, rule, gateway>> /\ rule.local
    <3>1. localPc # "off"
      BY <1>3 DEF LocalMoves, LocalStep, ListSockets, ListSocketsFails, ReportLocalError,
         ReportSocket, CloseLocalErrors, CloseLocalFindings
    <3> QED BY <1>3, <3>1 DEF LocalMoves, ButLocal, IInv, ClosingOrder
  <2>2. reported' = reported \/ \E f \in Finding : reported' = Append(reported, f)
    <3>1. \A h \in sockets : PortFinding(h) \in Finding
      BY DEF PortFinding, Finding, IInv, TypeOK, LocalType
    <3> QED BY <1>3, <3>1 DEF LocalMoves, LocalStep, ListSockets, ListSocketsFails,
               ReportLocalError, SendError, ReportSocket, SendFinding, CloseLocalErrors,
               CloseErrors, CloseLocalFindings, CloseFindings, channelVars
  <2>3. HostsReported \subseteq HostsReported'
    <3>1. reported \in Seq(Finding)
      BY DEF IInv, TypeOK, ChannelsType
    <3> QED BY <2>2, <3>1, ReportsStay DEF HostsReported
  <2>4. \A r \in Ranges : KnownHosts(r) => KnownHosts(r)'
    BY <2>1, <2>3 DEF KnownHosts, Tried, rangeVars
  <2>5. DirectByRule' /\ GatewayKnown'
    BY <2>1 DEF rangeVars, OrderInv, DirectByRule, GatewayKnown
  <2> QED BY <2>1, <2>4, <2>5 DEF OrderInv
<1>4. CASE StreamMoves
  <2>1. reported' = reported
    BY <1>4 DEF StreamMoves, StreamStep, Forwarder, ForwarderTakes, TakeFinding, ForwarderSends,
       ForwarderCancelled, ForwarderEnds, Collector, CollectorReturnsError, TakeError,
       CollectorEnds, Caller, CallerReceives, CallerSeesEnd, WaitReturns, channelVars
  <2> QED BY <1>4, <2>1, NothingNew DEF StreamMoves, sessionVars
<1>5. CASE Closer \/ UNCHANGED vars
  BY <1>5, NothingNew DEF Closer, CloserClosesFindings, CloserClosesErrors, CloseFindings,
     CloseErrors, vars, channelVars, sessionVars
<1> QED BY <1>1, <1>2, <1>3, <1>4, <1>5 DEF Next, Finished

\* OrderInv holds in every reachable state.
THEOREM OrderAlways == Spec => []OrderInv
<1>1. Init => OrderInv
  <2> SUFFICES ASSUME Init PROVE OrderInv
    OBVIOUS
  <2>1. \A r \in Ranges : mode[r] = "none" /\ KnownHosts(r)
    BY DEF Init, RangeInit, KnownHosts, Tried
  <2>2. reported = <<>>
    BY DEF Init, ChannelsInit
  <2> QED BY <2>1, <2>2 DEF OrderInv, DirectByRule, GatewayKnown
<1> QED BY <1>1, OrderStep, Invariance, PTL DEF Spec

\* A range that is scanned through a gateway, or without host discovery, has one, for
\* any number of ranges: nobody dereferences a nil Route.Gw.
THEOREM GatewaysKnown == Spec => []GatewayKnown
<1>1. OrderInv => GatewayKnown
  BY DEF OrderInv
<1> QED BY <1>1, OrderAlways, PTL

\* With host discovery no host is sent a transport probe before it is reported, for
\* any number of ranges and hosts, any capacities, any replies and whatever fails.
THEOREM ReportsGoFirst == Spec => []ProbedAfterReport
<1>1. OrderInv => ProbedAfterReport
  BY DEF OrderInv, KnownHosts, ProbedAfterReport
<1> QED BY <1>1, OrderAlways, PTL

-------------------------------------------------------------------------------
(* Nothing is missing.                                                     *)

\* Who is about to report an error finds errorChan open, unless it is a capture.
OpenForErrors(r) == "fail" \in {rangePc[r], discPc[r], scanPc[r]} => ~errsClosed

\* The closer waits for it: by the WaitGroup, or because it is the range goroutine.
LEMMA OpenToFail ==
  ASSUME IInv, NEW r \in Ranges, ScannedInOrder(r)
  PROVE  OpenForErrors(r)
<1> SUFFICES ASSUME "fail" \in {rangePc[r], discPc[r], scanPc[r]} PROVE rangePc[r] \notin {"off", "done"}
  BY DEF OpenForErrors, IInv, ClosingOrder
<1>1. rangePc[r] # "off"
  BY DEF IInv, RangeInv, RangeOK, StartedInOrder
<1>2. mode[r] \in Discovery \cup {"direct"}
  BY <1>1 DEF IInv, RangeInv, RangeType, RangeOK, StartedInOrder, Discovery, OnLink
<1>3. CASE rangePc[r] # "fail" /\ mode[r] = "direct"
  BY <1>1, <1>3 DEF IInv, RangeInv, RangeOK, StartedInOrder, ScannedInOrder
<1>4. CASE rangePc[r] # "fail" /\ mode[r] \in Discovery
  <2>1. DiscoveryOwes(r) = 1 \/ PortScanOwes(r) = 1
    BY <1>4 DEF DiscoveryOwes, PortScanOwes, Owes, Discovery, OnLink
  <2> QED BY <1>1, <1>4, <2>1, Counted DEF IInv
<1> QED BY <1>1, <1>2, <1>3, <1>4

\* The order of the steps of a range, whatever is reported.
LEMMA ScanOrderKept ==
  ASSUME NEW r \in Ranges, RangeInv, PipelineStep(r), \A q \in Ranges : ScannedInOrder(q)
  PROVE  \A q \in Ranges : ScannedInOrder(q)'
<1> USE DEF RangeInv, RangeType, RangeOK, StartedInOrder, ScannedInOrder, Tried, pcVars, handVars,
        netVars, upVars, PortSide, HostSide, Discovery, OnLink
<1>1. CASE RangeStep(r)
  <2>1. CASE ResolveGateway(r) \/ ReportGatewayError(r)
    BY <1>1, <2>1 DEF ResolveGateway, ReportGatewayError
  <2>2. CASE LaunchPair(r)
    BY <2>2 DEF LaunchPair
  <2>4. CASE LaunchDirect(r)
    BY <2>4 DEF LaunchDirect
  <2>3. CASE JoinPair(r) \/ ReturnDirect(r)
    BY <1>1, <2>3 DEF JoinPair, ReturnDirect
  <2> QED BY <1>1, <2>1, <2>2, <2>3, <2>4 DEF RangeStep
<1>2. CASE DiscoveryStep(r)
  BY <1>2 DEF DiscoveryStep, StartHostCapture, HostCaptureReady, SendDiscovery,
     ReportDiscoveryError, HostDiscoveryDone, DiscoveryExit, DiscoveryExited
<1>3. CASE HostCaptureStep(r)
  <2>1. CASE HandOverHost(r)
    BY <2>1 DEF HandOverHost
  <2>2. CASE HandOverHostPanics(r)
    BY <2>2 DEF HandOverHostPanics, rangeVars
  <2> QED BY <1>3, <2>1, <2>2 DEF HostCaptureStep, OpenHostCapture, ReportHostCaptureError,
             ReportHost, HostCaptureLeave
<1>4. CASE PortScanStep(r)
  <2>1. CASE StartPortCapture(r)
    BY <2>1 DEF StartPortCapture
  <2>6. CASE PortCaptureReady(r)
    BY <2>6 DEF PortCaptureReady
  <2>2. CASE TakeHost(r) \/ DrainEnds(r) \/ ProbeHost(r)
    BY <2>2 DEF TakeHost, DrainEnds, ProbeHost
  <2>3. CASE BatchesEnd(r)
    BY <2>3 DEF BatchesEnd
  <2>5. CASE SendBatch(r)
    <3>1. mode[r] = "direct" => Tried(r)' \subseteq HostsOf[r]
      <4> SUFFICES ASSUME mode[r] = "direct" PROVE Tried(r)' \subseteq HostsOf[r]
        OBVIOUS
      <4>1. Tried(r) \subseteq HostsOf[r]
        OBVIOUS
      <4>2. PICK batch \in SUBSET HostsOf[r], left \in SUBSET HostsOf[r] :
              /\ probed' = [probed EXCEPT ![r] = @ \cup (batch \ left)]
              /\ lost' = [lost EXCEPT ![r] = @ \cup left]
        <5>1. PICK batch \in SUBSET (HostsOf[r] \ Tried(r)) : \E left \in SUBSET batch :
                /\ probed' = [probed EXCEPT ![r] = @ \cup (batch \ left)]
                /\ lost' = [lost EXCEPT ![r] = @ \cup left]
          BY <2>5 DEF SendBatch
        <5>2. PICK left \in SUBSET batch :
                /\ probed' = [probed EXCEPT ![r] = @ \cup (batch \ left)]
                /\ lost' = [lost EXCEPT ![r] = @ \cup left]
          BY <5>1
        <5>3. batch \in SUBSET HostsOf[r] /\ left \in SUBSET HostsOf[r]
          BY Zenon
        <5> QED BY <5>2, <5>3
      <4>3. probed'[r] = probed[r] \cup (batch \ left) /\ lost'[r] = lost[r] \cup left
        BY <4>2
      <4> QED BY <4>1, <4>3 DEF Tried
    <3>2. \A q \in Ranges \ {r} : Tried(q)' = Tried(q)
      BY <2>5 DEF SendBatch, Tried
    <3> QED BY <2>5, <3>1, <3>2 DEF SendBatch
  <2>4. CASE ReportPortScanError(r) \/ PortScanDone(r) \/ PortScanExit(r)
    BY <2>4 DEF ReportPortScanError, PortScanDone, PortScanExit
  <2> QED BY <1>4, <2>1, <2>2, <2>3, <2>4, <2>5, <2>6 DEF PortScanStep
<1>5. CASE PortCaptureStep(r)
  BY <1>5 DEF PortCaptureStep, OpenPortCapture, ReportPortCaptureError, ReportPort, PortCaptureLeave
<1>6. CASE NetworkStep(r)
  BY <1>6 DEF NetworkStep, HearArp, HearEcho, Hear, HearReply
<1>7. CASE FailureStep(r)
  <2>1. CASE ResolveGatewayFails(r) \/ OpenMulticastFails(r) \/ SendDiscoveryFails(r)
    BY <2>1 DEF ResolveGatewayFails, OpenMulticastFails, SendDiscoveryFails
  <2>2. CASE OpenHostCaptureFails(r) \/ HostCaptureLost(r) \/ CompileFilterFails(r)
    BY <2>2 DEF OpenHostCaptureFails, HostCaptureLost, CompileFilterFails
  <2>3. CASE ProbeHostFails(r)
    BY <2>3 DEF ProbeHostFails
  <2>4. CASE BatchFails(r)
    BY <2>4 DEF BatchFails
  <2>5. CASE OpenPortCaptureFails(r) \/ PortCaptureLost(r)
    BY <2>5 DEF OpenPortCaptureFails, PortCaptureLost
  <2> QED BY <1>7, <2>1, <2>2, <2>3, <2>4, <2>5 DEF FailureStep
<1> QED BY <1>1, <1>2, <1>3, <1>4, <1>5, <1>6, <1>7 DEF PipelineStep

\* What the lemmas about a scan without errors have in common.
NoErrorYet(r) ==
  /\ RangeInv /\ raised = <<>> /\ raised' = <<>> /\ OpenForErrors(r)
  /\ \A q \in Ranges : ScannedInOrder(q) /\ NothingMissed(q)

\* A sender that has failed has not got further until its error is reported.
LEMMA NoReport ==
  ASSUME NEW r \in Ranges, NoErrorYet(r)
  PROVE  ~ReportGatewayError(r) /\ ~ReportDiscoveryError(r) /\ ~ReportPortScanError(r)
<1>1. \A e : Append(raised, e) # raised
  <2>1. \A e : Append(<<>>, e) # <<>>
    OBVIOUS
  <2> QED BY <2>1 DEF NoErrorYet
<1>2. raised' = raised
  BY DEF NoErrorYet
<1>3. ReportGatewayError(r) \/ ReportDiscoveryError(r) \/ ReportPortScanError(r) => ~errsClosed
  BY DEF NoErrorYet, OpenForErrors, ReportGatewayError, ReportDiscoveryError, ReportPortScanError
<1> QED BY <1>1, <1>2, <1>3 DEF ReportGatewayError, ReportDiscoveryError, ReportPortScanError, SendError

\* Until an error is reported a port scan ends only when it has seen everything.
LEMMA NothingMissedYet ==
  ASSUME NEW r \in Ranges, NoErrorYet(r), PipelineStep(r)
  PROVE  \A q \in Ranges : NothingMissed(q)'
<1> USE DEF NoErrorYet, RangeInv, RangeType, ScannedInOrder, NothingMissed, Tried,
        pcVars, handVars, netVars, upVars, PortSide, HostSide
<1>1. CASE RangeStep(r)
  <2>1. CASE ResolveGateway(r)
    BY <2>1 DEF ResolveGateway
  <2>2. CASE LaunchPair(r)
    BY <2>2 DEF LaunchPair, RangeOK, StartedInOrder
  <2>3. CASE LaunchDirect(r)
    BY <2>3 DEF LaunchDirect, RangeOK, StartedInOrder
  <2>4. CASE JoinPair(r)
    <3>1. scanPc[r] = "end"
      <4>1. wg[r] = 0 /\ CountsGoroutines(r) /\ scanPc[r] # "off" /\ mode[r] # "direct"
        BY <2>4 DEF JoinPair, RangeOK, Discovery, OnLink
      <4>2. /\ DiscoveryOwes(r) \in {0, 1} /\ Owes(hearPc[r]) \in {0, 1}
            /\ PortScanOwes(r) \in {0, 1} /\ Owes(replyPc[r]) \in {0, 1}
        BY OwesBound DEF DiscoveryOwes, PortScanOwes
      <4>3. PortScanOwes(r) = 0
        BY <4>1, <4>2 DEF CountsGoroutines
      <4> QED BY <4>1, <4>3 DEF PortScanOwes, Owes
    <3> QED BY <2>4, <3>1 DEF JoinPair
  <2>5. CASE ReturnDirect(r)
    BY <2>5 DEF ReturnDirect
  <2> QED BY <1>1, <2>1, <2>2, <2>3, <2>4, <2>5, NoReport DEF RangeStep
<1>2. CASE DiscoveryStep(r)
  <2>1. CASE DiscoveryExit(r)
    BY <2>1 DEF DiscoveryExit
  <2>2. CASE DiscoveryExited(r)
    BY <2>2 DEF DiscoveryExited
  <2>3. CASE StartHostCapture(r) \/ HostCaptureReady(r)
    BY <2>3 DEF StartHostCapture, HostCaptureReady
  <2>4. CASE SendDiscovery(r) \/ HostDiscoveryDone(r)
    BY <2>4 DEF SendDiscovery, HostDiscoveryDone
  <2> QED BY <1>2, <2>1, <2>2, <2>3, <2>4, NoReport DEF DiscoveryStep
<1>3. CASE HostCaptureStep(r)
  <2>1. CASE HandOverHost(r)
    BY <2>1 DEF HandOverHost
  <2>2. CASE HandOverHostPanics(r)
    BY <2>2 DEF HandOverHostPanics, rangeVars
  <2> QED BY <1>3, <2>1, <2>2 DEF HostCaptureStep, OpenHostCapture, ReportHostCaptureError,
             ReportHost, HostCaptureLeave
<1>4. CASE PortScanStep(r)
  <2>1. CASE StartPortCapture(r)
    BY <2>1 DEF StartPortCapture
  <2>6. CASE PortCaptureReady(r)
    BY <2>6 DEF PortCaptureReady
  <2>2. CASE TakeHost(r) \/ DrainEnds(r) \/ ProbeHost(r)
    BY <2>2 DEF TakeHost, DrainEnds, ProbeHost
  <2>3. CASE BatchesEnd(r)
    BY <2>3 DEF BatchesEnd
  <2>4. CASE SendBatch(r)
    BY <2>4 DEF SendBatch
  <2>5. CASE PortScanDone(r)
    BY <2>5 DEF PortScanDone
  <2>7. CASE PortScanExit(r)
    BY <2>7 DEF PortScanExit
  <2> QED BY <1>4, <2>1, <2>2, <2>3, <2>4, <2>5, <2>6, <2>7, NoReport DEF PortScanStep
<1>5. CASE PortCaptureStep(r)
  BY <1>5 DEF PortCaptureStep, OpenPortCapture, ReportPortCaptureError, ReportPort, PortCaptureLeave
<1>6. CASE NetworkStep(r)
  BY <1>6 DEF NetworkStep, HearArp, HearEcho, Hear, HearReply
<1>7. CASE FailureStep(r)
  <2>1. CASE ResolveGatewayFails(r) \/ OpenMulticastFails(r)
    BY <2>1 DEF ResolveGatewayFails, OpenMulticastFails
  <2>2. CASE SendDiscoveryFails(r)
    BY <2>2 DEF SendDiscoveryFails
  <2>3. CASE OpenHostCaptureFails(r) \/ HostCaptureLost(r) \/ CompileFilterFails(r)
    BY <2>3 DEF OpenHostCaptureFails, HostCaptureLost, CompileFilterFails
  <2>4. CASE ProbeHostFails(r)
    BY <2>4 DEF ProbeHostFails
  <2>6. CASE BatchFails(r)
    BY <2>6 DEF BatchFails
  <2>5. CASE OpenPortCaptureFails(r) \/ PortCaptureLost(r)
    BY <2>5 DEF OpenPortCaptureFails, PortCaptureLost
  <2> QED BY <1>7, <2>1, <2>2, <2>3, <2>4, <2>5, <2>6 DEF FailureStep
<1> QED BY <1>1, <1>2, <1>3, <1>4, <1>5, <1>6, <1>7 DEF PipelineStep

\* Hosts in UpHostsChan stay there in a step that leaves it alone.
LEMMA QueuedSame ==
  ASSUME upHosts' = upHosts
  PROVE  \A q \in Ranges : Queued(q)' = Queued(q)
BY DEF Queued

\* All but the first of them stay there when the first is taken.
LEMMA QueuedTail ==
  ASSUME NEW r \in Ranges, upHosts[r] \in Seq(Hosts), upHosts[r] # <<>>,
         upHosts'[r] = Tail(upHosts[r])
  PROVE  Queued(r) \subseteq Queued(r)' \cup {Head(upHosts[r])}
<1>1. ASSUME NEW i \in DOMAIN upHosts[r], i # 1
      PROVE  i - 1 \in DOMAIN Tail(upHosts[r]) /\ Tail(upHosts[r])[i - 1] = upHosts[r][i]
  BY <1>1, HeadTailProperties, LenProperties
<1>2. Head(upHosts[r]) = upHosts[r][1]
  OBVIOUS
<1>3. ASSUME NEW i \in DOMAIN upHosts[r]
      PROVE  upHosts[r][i] \in Queued(r)' \cup {Head(upHosts[r])}
  <2>1. CASE i = 1
    BY <1>2, <2>1
  <2>2. CASE i # 1
    <3>1. i - 1 \in DOMAIN upHosts'[r] /\ upHosts'[r][i - 1] = upHosts[r][i]
      BY <1>1, <2>2
    <3>2. upHosts'[r][i - 1] \in Queued(r)'
      BY <3>1 DEF Queued
    <3> QED BY <3>1, <3>2
  <2> QED BY <2>1, <2>2
<1> QED BY <1>3 DEF Queued

\* Nor is a host dropped on its way through the range, unless the scan is to fail.
Carried(q) ==
  /\ HostsAt(q) \subseteq HostsAt(q)' \/ scanPc'[q] = "fail"
  /\ scanPc[q] = "fail" => scanPc'[q] = "fail"

LEMMA HostsCarried ==
  ASSUME NEW r \in Ranges, NoErrorYet(r), PipelineStep(r)
  PROVE  /\ \A q \in Ranges : Carried(q)
         /\ ReportHost(r) => hearHost[r] \in HostsAt(r)'
<1> USE QueuedSame DEF NoErrorYet, RangeInv, RangeType, Carried, HostsAt, Tried, Holding,
        pcVars, handVars, netVars, upVars, PortSide, HostSide, ReportHost
<1>1. CASE RangeStep(r)
  <2>1. CASE ResolveGateway(r) \/ JoinPair(r) \/ ReturnDirect(r)
    BY <2>1 DEF ResolveGateway, JoinPair, ReturnDirect
  <2>2. CASE LaunchPair(r)
    BY <2>2 DEF LaunchPair, RangeOK, StartedInOrder
  <2>3. CASE LaunchDirect(r)
    BY <2>3 DEF LaunchDirect, RangeOK, StartedInOrder
  <2> QED BY <1>1, <2>1, <2>2, <2>3, NoReport DEF RangeStep
<1>2. CASE DiscoveryStep(r)
  <2>1. CASE StartHostCapture(r)
    BY <2>1 DEF StartHostCapture, RangeOK, StartedInOrder
  <2>2. CASE HostCaptureReady(r) \/ SendDiscovery(r) \/ HostDiscoveryDone(r)
    BY <2>2 DEF HostCaptureReady, SendDiscovery, HostDiscoveryDone
  <2>3. CASE DiscoveryExit(r)
    BY <2>3 DEF DiscoveryExit
  <2>4. CASE DiscoveryExited(r)
    BY <2>4 DEF DiscoveryExited
  <2> QED BY <1>2, <2>1, <2>2, <2>3, <2>4, NoReport DEF DiscoveryStep
<1>3. CASE HostCaptureStep(r)
  <2>1. CASE HandOverHost(r)
    <3>1. /\ upHosts[r] \in Seq(Hosts) /\ hearHost[r] \in Hosts
          /\ upHosts' = [upHosts EXCEPT ![r] = Append(@, hearHost[r])]
          /\ upHosts'[r] = Append(upHosts[r], hearHost[r])
      BY <2>1 DEF HandOverHost
    <3>2. Queued(r) \cup {hearHost[r]} \subseteq Queued(r)'
      <4>1. /\ \A i \in DOMAIN upHosts[r] :
                  i \in DOMAIN upHosts'[r] /\ upHosts'[r][i] = upHosts[r][i]
            /\ Len(upHosts[r]) + 1 \in DOMAIN upHosts'[r]
            /\ upHosts'[r][Len(upHosts[r]) + 1] = hearHost[r]
        BY <3>1, AppendProperties, LenProperties
      <4> QED BY <4>1 DEF Queued
    <3>3. \A q \in Ranges \ {r} : Queued(q)' = Queued(q)
      BY <3>1 DEF Queued
    <3> QED BY <2>1, <3>2, <3>3 DEF HandOverHost
  <2>2. CASE HandOverHostPanics(r)
    BY <2>2 DEF HandOverHostPanics, rangeVars
  <2>3. CASE ReportHost(r)
    BY <2>3
  <2>4. CASE OpenHostCapture(r) \/ ReportHostCaptureError(r) \/ HostCaptureLeave(r)
    BY <2>4 DEF OpenHostCapture, ReportHostCaptureError, HostCaptureLeave
  <2> QED BY <1>3, <2>1, <2>2, <2>3, <2>4 DEF HostCaptureStep
<1>4. CASE PortScanStep(r)
  <2>1. CASE TakeHost(r)
    <3>1. /\ upHosts[r] \in Seq(Hosts) /\ upHosts[r] # <<>>
          /\ upHosts' = [upHosts EXCEPT ![r] = Tail(@)] /\ upHosts'[r] = Tail(upHosts[r])
      BY <2>1 DEF TakeHost
    <3>2. Queued(r) \subseteq Queued(r)' \cup {Head(upHosts[r])}
      BY <3>1, QueuedTail
    <3>3. \A q \in Ranges \ {r} : Queued(q)' = Queued(q)
      BY <3>1 DEF Queued
    <3> QED BY <2>1, <3>2, <3>3 DEF TakeHost
  <2>2. CASE ProbeHost(r)
    BY <2>2 DEF ProbeHost
  <2>3. CASE StartPortCapture(r) \/ PortCaptureReady(r) \/ DrainEnds(r)
    BY <2>3 DEF StartPortCapture, PortCaptureReady, DrainEnds
  <2>4. CASE SendBatch(r)
    BY <2>4 DEF SendBatch
  <2>5. CASE BatchesEnd(r) \/ PortScanDone(r)
    BY <2>5 DEF BatchesEnd, PortScanDone
  <2>6. CASE PortScanExit(r)
    BY <2>6 DEF PortScanExit
  <2> QED BY <1>4, <2>1, <2>2, <2>3, <2>4, <2>5, <2>6, NoReport DEF PortScanStep
<1>5. CASE PortCaptureStep(r)
  BY <1>5 DEF PortCaptureStep, OpenPortCapture, ReportPortCaptureError, ReportPort, PortCaptureLeave
<1>6. CASE NetworkStep(r)
  BY <1>6 DEF NetworkStep, HearArp, HearEcho, Hear, HearReply
<1>7. CASE FailureStep(r)
  <2>1. CASE ResolveGatewayFails(r) \/ OpenMulticastFails(r) \/ SendDiscoveryFails(r)
    BY <2>1 DEF ResolveGatewayFails, OpenMulticastFails, SendDiscoveryFails
  <2>2. CASE OpenHostCaptureFails(r) \/ HostCaptureLost(r) \/ CompileFilterFails(r)
    BY <2>2 DEF OpenHostCaptureFails, HostCaptureLost, CompileFilterFails
  <2>3. CASE ProbeHostFails(r)
    BY <2>3 DEF ProbeHostFails
  <2>4. CASE BatchFails(r) \/ OpenPortCaptureFails(r) \/ PortCaptureLost(r)
    BY <2>4 DEF BatchFails, OpenPortCaptureFails, PortCaptureLost
  <2> QED BY <1>7, <2>1, <2>2, <2>3, <2>4 DEF FailureStep
<1> QED BY <1>1, <1>2, <1>3, <1>4, <1>5, <1>6, <1>7 DEF PipelineStep

\* A step that moves no range, reports no error and lists no socket.
LEMMA NothingMoves ==
  ASSUME CompleteInv, UNCHANGED <<rangeVars, reported, raised, sockets>>,
         localPc' # "report" => localPc # "report" \/ sockets = {}
  PROVE  CompleteInv'
<1>1. \A r \in Ranges : /\ ScannedInOrder(r)' <=> ScannedInOrder(r)
                        /\ NothingMissed(r)' <=> NothingMissed(r)
                        /\ HostsAt(r)' = HostsAt(r) /\ scanPc'[r] = scanPc[r]
  BY DEF rangeVars, ScannedInOrder, NothingMissed, HostsAt, Tried, Queued
<1>2. HostsReported' = HostsReported
  BY DEF HostsReported
<1> QED BY <1>1, <1>2 DEF CompleteInv

\* The dispatch loop starts a range that has not reported or probed anything.
LEMMA DispatchMisses ==
  ASSUME IInv, CompleteInv, Dispatching, NEW m \in Discovery \cup {"direct"}, NEW gw \in BOOLEAN,
         Dispatch(m, gw)
  PROVE  CompleteInv'
<1>1. /\ next \in Ranges /\ rangePc[next] = "off" /\ mode' = [mode EXCEPT ![next] = m]
      /\ rangePc' = [rangePc EXCEPT ![next] = IF m \in OnLink THEN "launch" ELSE "resolve"]
      /\ UNCHANGED <<discPc, hearPc, scanPc, hearHost, scanHost, upHosts, upClosed, probed, lost, refused>>
      /\ UNCHANGED <<reported, raised, sockets, localPc>>
  BY SessionAssumption DEF Dispatching, Dispatch, StartRange, handVars, upVars, netVars, channelVars,
     localVars, IInv, TypeOK, RuleType
<1>2. scanPc[next] = "off" /\ DOMAIN mode = Ranges /\ DOMAIN rangePc = Ranges
  BY <1>1 DEF IInv, RangeInv, RangeType, RangeOK, StartedInOrder
<1>3. \A r \in Ranges : ScannedInOrder(r)'
  BY <1>1, <1>2 DEF CompleteInv, ScannedInOrder, Tried
<1>4. \A r \in Ranges : NothingMissed(r) => NothingMissed(r)'
  BY <1>1, <1>2 DEF NothingMissed, Tried
<1>5. HostsReported' = HostsReported /\ \A r \in Ranges : HostsAt(r)' = HostsAt(r)
  BY <1>1 DEF HostsReported, HostsAt, Tried, Queued
<1> QED BY <1>1, <1>3, <1>4, <1>5 DEF CompleteInv

\* A step of a range.
LEMMA RangeMisses ==
  ASSUME IInv, CompleteInv, RangeMoves
  PROVE  CompleteInv'
<1>1. PICK r \in Ranges : PipelineStep(r) /\ UNCHANGED <<streamVars, sessionVars>>
  BY DEF RangeMoves
<1>2. \A q \in Ranges : ScannedInOrder(q)'
  BY <1>1, ScanOrderKept DEF IInv, CompleteInv
<1>3. localPc' = localPc /\ sockets' = sockets
  BY <1>1 DEF sessionVars, localVars
<1>4. ASSUME raised' = <<>>
      PROVE  /\ \A q \in Ranges : NothingMissed(q)'
             /\ \A h \in HostsReported' : \E q \in Ranges : h \in HostsAt(q)' \/ scanPc'[q] = "fail"
  <2>1. raised = <<>>
    <3>1. raised \in Seq(Error)
      BY DEF IInv, TypeOK, ChannelsType
    <3>2. \A e \in Error : Append(raised, e) # <<>>
      BY <3>1, AppendProperties
    <3>3. raised' = raised \/ Speaks(r)
      BY <1>1, PipelineSpeaks DEF IInv
    <3>4. Speaks(r) => \E e \in Error : raised' = Append(raised, e)
      BY DEF Speaks, ErrorFrom, Error
    <3> QED BY <1>4, <3>2, <3>3, <3>4
  <2>2. NoErrorYet(r)
    BY <1>1, <1>4, <2>1, OpenToFail DEF NoErrorYet, IInv, CompleteInv
  <2>3. (\A q \in Ranges : Carried(q)) /\ (ReportHost(r) => hearHost[r] \in HostsAt(r)')
    BY <1>1, <2>2, HostsCarried
  <2>4. \A h \in HostsReported' : h \in HostsReported \/ (ReportHost(r) /\ h = hearHost[r])
    <3>0. reported \in Seq(Finding)
      BY DEF IInv, TypeOK, ChannelsType
    <3>1. CASE reported' = reported
      BY <3>1 DEF HostsReported
    <3>2. CASE reported' = Append(reported, HostFinding(hearHost[r])) /\ ReportHost(r)
      <4>1. HostFinding(hearHost[r]) \in Finding
        BY <3>2 DEF ReportHost, IInv, RangeInv, RangeType, HostFinding, Finding
      <4> QED BY <3>0, <3>2, <4>1, ReportsAdd DEF HostFinding
    <3>3. CASE reported' = Append(reported, PortFinding(replyHost[r])) /\ replyPc[r] = "report"
      <4>1. PortFinding(replyHost[r]) \in Finding
        BY <3>3 DEF IInv, RangeInv, RangeType, PortFinding, Finding
      <4> QED BY <3>0, <3>3, <4>1, ReportsAdd DEF PortFinding
    <3> QED BY <1>1, <3>1, <3>2, <3>3, WhoReports
  <2>5. \A h \in HostsReported : \E q \in Ranges : h \in HostsAt(q)' \/ scanPc'[q] = "fail"
    BY <2>1, <2>3 DEF CompleteInv, Carried
  <2> QED BY <1>1, <2>2, <2>3, <2>4, <2>5, NothingMissedYet
<1> QED BY <1>2, <1>3, <1>4 DEF CompleteInv

\* The goroutine of a local scan reports ports, and ends when it has none left.
LEMMA LocalMisses ==
  ASSUME IInv, CompleteInv, LocalMoves
  PROVE  CompleteInv'
<1>1. UNCHANGED rangeVars
  BY DEF LocalMoves, ButLocal
<1>2. CASE ReportLocalError
  <2>1. raised' # <<>> /\ localPc = "fail" /\ sockets' = sockets /\ localPc' = "report"
    <3>1. ~errsClosed /\ raised \in Seq(Error)
      BY <1>2 DEF ReportLocalError, IInv, TypeOK, ChannelsType, ClosingOrder
    <3> QED BY <1>2, <3>1 DEF ReportLocalError, SendError
  <2>2. \A q \in Ranges : ScannedInOrder(q)' <=> ScannedInOrder(q)
    BY <1>1 DEF rangeVars, ScannedInOrder, Tried
  <2> QED BY <2>1, <2>2 DEF CompleteInv
<1>3. CASE ReportSocket
  <2>1. PICK h \in sockets : SendFinding(PortFinding(h))
    BY <1>3 DEF ReportSocket
  <2>2. PortFinding(h) \in Finding /\ PortFinding(h).kind # "host" /\ reported \in Seq(Finding)
    BY DEF PortFinding, Finding, IInv, TypeOK, LocalType, ChannelsType
  <2>3. HostsReported' \subseteq HostsReported
    <3>1. CASE reported' = reported
      BY <3>1 DEF HostsReported
    <3>2. CASE reported' = Append(reported, PortFinding(h))
      BY <2>2, <3>2, ReportsAdd
    <3> QED BY <2>1, <3>1, <3>2 DEF SendFinding
  <2>4. \A r \in Ranges : /\ ScannedInOrder(r)' <=> ScannedInOrder(r)
                          /\ NothingMissed(r)' <=> NothingMissed(r)
                          /\ HostsAt(r)' = HostsAt(r) /\ scanPc'[r] = scanPc[r]
    BY <1>1 DEF rangeVars, ScannedInOrder, NothingMissed, HostsAt, Tried, Queued
  <2>5. raised' = raised /\ localPc' = "report"
    BY <1>3, <2>1 DEF ReportSocket, SendFinding
  <2> QED BY <2>3, <2>4, <2>5 DEF CompleteInv
<1>4. CASE ListSockets
  <2>1. localPc' = "report" /\ reported' = reported /\ raised' = raised
    BY <1>4 DEF ListSockets, channelVars
  <2>2. \A r \in Ranges : /\ ScannedInOrder(r)' <=> ScannedInOrder(r)
                          /\ NothingMissed(r)' <=> NothingMissed(r)
                          /\ HostsAt(r)' = HostsAt(r) /\ scanPc'[r] = scanPc[r]
    BY <1>1 DEF rangeVars, ScannedInOrder, NothingMissed, HostsAt, Tried, Queued
  <2>3. HostsReported' = HostsReported
    BY <2>1 DEF HostsReported
  <2> QED BY <2>1, <2>2, <2>3 DEF CompleteInv
<1>5. CASE ListSocketsFails \/ CloseLocalErrors \/ CloseLocalFindings
  BY <1>1, <1>5, NothingMoves DEF ListSocketsFails, CloseLocalErrors, CloseErrors,
     CloseLocalFindings, CloseFindings, channelVars
<1> QED BY <1>2, <1>3, <1>4, <1>5 DEF LocalMoves, LocalStep

\* The step lemma of CompleteInv.
LEMMA CompleteStep ==
  ASSUME IInv, CompleteInv, [Next]_vars
  PROVE  CompleteInv'
<1>1. CASE Scan
  <2>1. CASE DispatchDirect
    BY <2>1, DispatchMisses DEF DispatchDirect
  <2>2. CASE DispatchGateway
    BY <2>2, DispatchMisses DEF DispatchGateway, Discovery
  <2>3. CASE DispatchArp
    BY <2>3, DispatchMisses DEF DispatchArp, Discovery, OnLink
  <2>4. CASE DispatchMulticast
    BY <2>4, DispatchMisses DEF DispatchMulticast, Discovery, OnLink
  <2>5. CASE RefuseRule \/ DispatchFails \/ ReturnStream
    BY <2>5, NothingMoves DEF RefuseRule, DispatchFails, ReturnStream, sessionVars, localVars,
       channelVars
  <2>6. CASE ReturnLocalStream
    BY <2>6, NothingMoves DEF ReturnLocalStream, OpenStream, channelVars, IInv, ClosingOrder
  <2> QED BY <1>1, <2>1, <2>2, <2>3, <2>4, <2>5, <2>6 DEF Scan
<1>2. CASE RangeMoves
  BY <1>2, RangeMisses
<1>3. CASE StreamMoves
  <2>1. UNCHANGED <<reported, raised>>
    BY <1>3 DEF StreamMoves, StreamStep, Forwarder, ForwarderTakes, TakeFinding, ForwarderSends,
       ForwarderCancelled, ForwarderEnds, Collector, CollectorReturnsError, TakeError,
       CollectorEnds, Caller, CallerReceives, CallerSeesEnd, WaitReturns, channelVars
  <2> QED BY <1>3, <2>1, NothingMoves DEF StreamMoves, sessionVars, localVars
<1>4. CASE Closer \/ UNCHANGED vars
  BY <1>4, NothingMoves DEF Closer, CloserClosesFindings, CloserClosesErrors, CloseFindings,
     CloseErrors, vars, channelVars, sessionVars, localVars
<1>5. CASE LocalMoves
  BY <1>5, LocalMisses
<1> QED BY <1>1, <1>2, <1>3, <1>4, <1>5 DEF Next, Finished

\* CompleteInv holds in every reachable state.
THEOREM CompleteAlways == Spec => []CompleteInv
<1>1. Init => CompleteInv
  <2> SUFFICES ASSUME Init PROVE CompleteInv
    OBVIOUS
  <2>1. \A r \in Ranges : ScannedInOrder(r) /\ NothingMissed(r)
    BY DEF Init, RangeInit, ScannedInOrder, NothingMissed, Tried
  <2>2. sockets = {} /\ HostsReported = {}
    BY DEF Init, LocalInit, ChannelsInit, HostsReported
  <2> QED BY <2>1, <2>2 DEF CompleteInv
<1> QED BY <1>1, CompleteStep, Invariance, PTL DEF Spec

-------------------------------------------------------------------------------
(* What a nil from Wait means.                                             *)

\* All that the theorem is drawn from.
ResultInv == IInv /\ QuietInv /\ CollectorInv /\ FeedInv /\ OrderInv /\ CompleteInv
WaitReturnedNil == callerPc = "end" /\ waitErr = NoError

\* No error was reported, both channels are closed, and every range is done.
LEMMA NilMeansClosed ==
  ASSUME ResultInv, WaitReturnedNil
  PROVE  /\ raised = <<>> /\ groupErr = NoError /\ errsClosed
         /\ \A r \in Ranges : rangePc[r] \in {"off", "done"}
         /\ localPc \in {"off", "close", "end"} /\ sockets = {}
<1>1. raised \in Seq(Error) /\ NoError \notin Error
  BY SessionAssumption DEF ResultInv, IInv, TypeOK, ChannelsType
<1>2. raised # <<>> => raised[1] # NoError
  BY <1>1
<1>3. raised = <<>> /\ groupErr = NoError /\ errsClosed
  BY <1>2 DEF ResultInv, CollectorInv, WaitReturnedNil
<1>4. /\ \A r \in Ranges : rangePc[r] \in {"off", "done"}
      /\ localPc \in {"off", "close", "end"}
  BY <1>3 DEF ResultInv, IInv, ClosingOrder, TypeOK, LocalType
<1> QED BY <1>3, <1>4 DEF ResultInv, CompleteInv

\* Every finding has passed the Stream.
LEMMA NilMeansDelivered ==
  ASSUME ResultInv, WaitReturnedNil
  PROVE  delivered = reported
<1>1. out = <<>> /\ findings = <<>> /\ fwdItem = NoFinding
  BY NilMeansClosed DEF ResultInv, FeedInv, WaitReturnedNil
<1>2. reported = ((delivered \o <<>>) \o <<>>) \o <<>>
  BY <1>1 DEF ResultInv, FeedInv, InHand
<1>3. delivered \in Seq(Finding)
  BY QueuesTyped DEF ResultInv, QueueTypes
<1> QED BY <1>2, <1>3, ConcatEmptySeq

\* Nobody of a range is left that could send, and its port scan has seen everything.
LEMMA NilMeansSilent ==
  ASSUME ResultInv, WaitReturnedNil, NEW r \in Ranges
  PROVE  /\ RangeSilent(r)
         /\ mode[r] = "direct" => Tried(r) = HostsOf[r]
         /\ HostsAt(r) \subseteq Tried(r)
<1> USE DEF ResultInv
<1>1. RangeInv /\ ScannedInOrder(r) /\ NothingMissed(r) /\ rangePc[r] \in {"off", "done"}
  BY NilMeansClosed DEF IInv, CompleteInv
<1>2. RangeSilent(r)
  <2>1. CASE rangePc[r] = "off"
    BY <1>1, <2>1, OffIsSilent
  <2>2. CASE rangePc[r] = "done" /\ mode[r] \in Discovery
    BY <1>1, <2>2, DoneIsSilent
  <2>3. CASE rangePc[r] = "done" /\ mode[r] = "direct"
    <3>1. r \notin refused
      BY <1>1, <2>3 DEF NothingMissed, RangeInv, RangeOK, StartedInOrder
    <3> QED BY <1>1, <2>3, <3>1, DoneIsQuiet DEF QuietInv
  <2>4. rangePc[r] = "done" => mode[r] \in Discovery \cup {"direct"}
    BY <1>1 DEF RangeInv, RangeType, RangeOK, StartedInOrder, Discovery, OnLink
  <2> QED BY <1>1, <2>1, <2>2, <2>3, <2>4
<1>3. mode[r] = "direct" => Tried(r) = HostsOf[r]
  BY <1>1 DEF ScannedInOrder, NothingMissed, RangeInv, RangeOK, StartedInOrder
<1>4. upHosts[r] = <<>>
  BY <1>1, <1>2 DEF ScannedInOrder, NothingMissed, RangeSilent
<1>5. Queued(r) = {}
  BY <1>4 DEF Queued
<1> QED BY <1>2, <1>3, <1>5 DEF HostsAt, Holding, RangeSilent

\* Every host that was reported has been probed, as far as the kernel went.
LEMMA NilMeansTried ==
  ASSUME ResultInv, WaitReturnedNil, NEW h \in HostsReported
  PROVE  \E r \in Ranges : h \in Tried(r)
<1>1. PICK r \in Ranges : h \in HostsAt(r) \/ scanPc[r] = "fail"
  BY NilMeansClosed DEF ResultInv, CompleteInv
<1> QED BY <1>1, NilMeansSilent DEF RangeSilent

\* When Wait returns nil the caller has every finding in the order of the reports,
\* every host that was reported (every address, without discovery) was probed, as far
\* as sendmmsg took its probes, every local socket was reported, and nobody is left
\* who could add to the result.
THEOREM NilIsComplete == Spec => []NilMeansComplete
<1>1. ResultInv => NilMeansComplete
  <2> SUFFICES ASSUME ResultInv, WaitReturnedNil
               PROVE  /\ delivered = reported
                      /\ \A r \in Ranges : RangeSilent(r)
                      /\ \A r \in Ranges : mode[r] = "direct" => Tried(r) = HostsOf[r]
                      /\ HostsReported \subseteq UNION {Tried(r) : r \in Ranges}
                      /\ sockets = {} /\ localPc \in {"off", "close", "end"}
    BY DEF NilMeansComplete, WaitReturnedNil
  <2>1. HostsReported \subseteq UNION {Tried(r) : r \in Ranges}
    BY NilMeansTried
  <2> QED BY <2>1, NilMeansDelivered, NilMeansSilent, NilMeansClosed
<1>2. IInv /\ QuietInv /\ CollectorInv /\ FeedInv /\ OrderInv /\ CompleteInv => ResultInv
  BY DEF ResultInv
<1> QED BY <1>1, <1>2, Invariance, Quiet, CollectorAlways, FeedAlways, OrderAlways,
           CompleteAlways, PTL

===============================================================================
