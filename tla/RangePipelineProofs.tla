-------------------------- MODULE RangePipelineProofs --------------------------
(***************************************************************************)
(* Lemmas about the steps of one range, for any ranges, hosts, capacities  *)
(* and failing calls.  ScanSessionProofs puts them together with the rest  *)
(* of a scan.                                                              *)
(*                                                                         *)
(* RangeInv is a conjunction over the ranges.  A step of a range r keeps   *)
(* it because the step touches r alone and leaves r's own part, RangeOK(r),*)
(* true: that is StepOf(r), shown for the steps of each goroutine in turn. *)
(***************************************************************************)
EXTENDS RangePipeline, TLAPS

\* A step of one range leaves the state of the other ranges alone.
OthersSame(r) ==
  \A q \in Ranges \ {r} :
    /\ mode'[q] = mode[q] /\ wg'[q] = wg[q] /\ upClosed'[q] = upClosed[q]
    /\ rangePc'[q] = rangePc[q] /\ discPc'[q] = discPc[q] /\ hearPc'[q] = hearPc[q]
    /\ scanPc'[q] = scanPc[q] /\ replyPc'[q] = replyPc[q]

StepOf(r) == RangeType' /\ OthersSame(r) /\ RangeOK(r)'

\* A step of one range that keeps its own part of RangeInv keeps all of it.
LEMMA StepOfKeepsInv ==
  ASSUME NEW r \in Ranges, RangeInv, StepOf(r)
  PROVE  RangeInv'
<1>1. \A q \in Ranges \ {r} : RangeOK(q)'
  BY DEF RangeInv, StepOf, OthersSame, RangeOK, CountsGoroutines, StartedInOrder, JoinedAll,
     DiscoveryOwes, PortScanOwes
<1> QED BY <1>1 DEF RangeInv, StepOf

\* A goroutine owes its WaitGroup at most one call of Done.
LEMMA OwesBound == \A pc : Owes(pc) \in {0, 1}
BY DEF Owes

\* While a goroutine of a range still owes a call of Done, the counter of the
\* WaitGroup is positive and the range has not joined.
LEMMA Counted ==
  ASSUME NEW r \in Ranges, RangeInv,
         \/ DiscoveryOwes(r) = 1 \/ Owes(hearPc[r]) = 1
         \/ PortScanOwes(r) = 1 \/ Owes(replyPc[r]) = 1
  PROVE  wg[r] - 1 \in Nat /\ (mode[r] \in Discovery => rangePc[r] # "done")
<1>1. DiscoveryOwes(r) \in {0, 1} /\ PortScanOwes(r) \in {0, 1}
  BY OwesBound DEF DiscoveryOwes, PortScanOwes
<1>2. wg[r] >= 1 /\ wg[r] \in Nat
  BY <1>1, OwesBound DEF RangeInv, RangeOK, CountsGoroutines, RangeType
<1> QED BY <1>2 DEF RangeInv, RangeOK, JoinedAll

\* The range goroutine: launching the pair counts two, joining needs zero.
LEMMA RangeStepLocal ==
  ASSUME NEW r \in Ranges, RangeInv, RangeStep(r)
  PROVE  StepOf(r)
<1> USE DEF RangeInv, StepOf, handVars, netVars, upVars
<1>1. CASE ResolveGateway(r)
  <2>1. RangeType' /\ OthersSame(r)
    BY <1>1 DEF ResolveGateway, RangeType, OthersSame, Discovery, OnLink
  <2>2. RangeOK(r)'
    BY <1>1 DEF ResolveGateway, RangeType, RangeOK, CountsGoroutines, StartedInOrder, JoinedAll,
       DiscoveryOwes, PortScanOwes, Owes, Discovery, OnLink
  <2> QED BY <2>1, <2>2
<1>2. CASE ReportGatewayError(r)
  <2>1. RangeType' /\ OthersSame(r)
    BY <1>2 DEF ReportGatewayError, RangeType, OthersSame, Discovery, OnLink
  <2>2. RangeOK(r)'
    BY <1>2 DEF ReportGatewayError, RangeType, RangeOK, CountsGoroutines, StartedInOrder, JoinedAll,
       DiscoveryOwes, PortScanOwes, Owes, Discovery, OnLink
  <2> QED BY <2>1, <2>2
<1>3. CASE LaunchPair(r)
  <2>1. RangeType' /\ OthersSame(r)
    BY <1>3 DEF LaunchPair, RangeType, OthersSame, Discovery, OnLink
  <2>2. RangeOK(r)'
    BY <1>3 DEF LaunchPair, RangeType, RangeOK, CountsGoroutines, StartedInOrder, JoinedAll,
       DiscoveryOwes, PortScanOwes, Owes, Discovery, OnLink
  <2> QED BY <2>1, <2>2
<1>4. CASE LaunchDirect(r)
  <2>1. RangeType' /\ OthersSame(r)
    BY <1>4 DEF LaunchDirect, RangeType, OthersSame, Discovery, OnLink
  <2>2. RangeOK(r)'
    BY <1>4 DEF LaunchDirect, RangeType, RangeOK, CountsGoroutines, StartedInOrder, JoinedAll,
       DiscoveryOwes, PortScanOwes, Owes, Discovery, OnLink
  <2> QED BY <2>1, <2>2
<1>5. CASE JoinPair(r)
  <2>1. RangeType' /\ OthersSame(r)
    BY <1>5 DEF JoinPair, RangeType, OthersSame, Discovery, OnLink
  <2>2. RangeOK(r)'
    BY <1>5 DEF JoinPair, RangeType, RangeOK, CountsGoroutines, StartedInOrder, JoinedAll,
       DiscoveryOwes, PortScanOwes, Owes, Discovery, OnLink
  <2> QED BY <2>1, <2>2
<1>6. CASE ReturnDirect(r)
  <2>1. RangeType' /\ OthersSame(r)
    BY <1>6 DEF ReturnDirect, RangeType, OthersSame, Discovery, OnLink
  <2>2. RangeOK(r)'
    BY <1>6 DEF ReturnDirect, RangeType, RangeOK, CountsGoroutines, StartedInOrder, JoinedAll,
       DiscoveryOwes, PortScanOwes, Owes, Discovery, OnLink
  <2> QED BY <2>1, <2>2
<1> QED BY <1>1, <1>2, <1>3, <1>4, <1>5, <1>6 DEF RangeStep

\* The discovery sender: wg.Go of its capture counts one more, its deferred
\* Done and close of UpHostsChan come once each.
LEMMA DiscoveryStepLocal ==
  ASSUME NEW r \in Ranges, RangeInv, DiscoveryStep(r)
  PROVE  StepOf(r)
<1> USE DEF RangeInv, StepOf, PortSide, upVars
<1>1. CASE StartHostCapture(r)
  <2>1. RangeType' /\ OthersSame(r)
    BY <1>1 DEF StartHostCapture, RangeType, OthersSame, Discovery, OnLink
  <2>2. RangeOK(r)'
    <3>0. mode[r] \in Discovery => rangePc[r] # "done"
      BY <1>1, Counted DEF StartHostCapture, DiscoveryOwes, Owes
    <3>1. StartedInOrder(r)' /\ JoinedAll(r)'
      BY <1>1, <3>0 DEF StartHostCapture, RangeType, RangeOK, CountsGoroutines, StartedInOrder, JoinedAll,
         PortScanOwes, DiscoveryOwes, Owes, Discovery, OnLink
    <3>2. CountsGoroutines(r)'
      BY <1>1 DEF StartHostCapture, RangeType, RangeOK, CountsGoroutines, StartedInOrder,
         DiscoveryOwes, PortScanOwes, Owes
    <3> QED BY <3>1, <3>2 DEF RangeOK
  <2> QED BY <2>1, <2>2
<1>2. CASE HostCaptureReady(r)
  <2>1. RangeType' /\ OthersSame(r)
    BY <1>2 DEF HostCaptureReady, RangeType, OthersSame, Discovery, OnLink
  <2>2. RangeOK(r)'
    BY <1>2 DEF HostCaptureReady, RangeType, RangeOK, CountsGoroutines, StartedInOrder, JoinedAll,
       DiscoveryOwes, PortScanOwes, Owes, Discovery, OnLink
  <2> QED BY <2>1, <2>2
<1>3. CASE SendDiscovery(r)
  <2>1. RangeType' /\ OthersSame(r)
    BY <1>3 DEF SendDiscovery, RangeType, OthersSame, Discovery, OnLink
  <2>2. RangeOK(r)'
    BY <1>3 DEF SendDiscovery, RangeType, RangeOK, CountsGoroutines, StartedInOrder, JoinedAll,
       DiscoveryOwes, PortScanOwes, Owes, Discovery, OnLink
  <2> QED BY <2>1, <2>2
<1>4. CASE ReportDiscoveryError(r)
  <2>1. RangeType' /\ OthersSame(r)
    BY <1>4 DEF ReportDiscoveryError, RangeType, OthersSame, Discovery, OnLink
  <2>2. RangeOK(r)'
    BY <1>4 DEF ReportDiscoveryError, RangeType, RangeOK, CountsGoroutines, StartedInOrder, JoinedAll,
       DiscoveryOwes, PortScanOwes, Owes, Discovery, OnLink
  <2> QED BY <2>1, <2>2
<1>5. CASE HostDiscoveryDone(r)
  <2>1. RangeType' /\ OthersSame(r)
    BY <1>5 DEF HostDiscoveryDone, RangeType, OthersSame, Discovery, OnLink
  <2>2. RangeOK(r)'
    BY <1>5 DEF HostDiscoveryDone, RangeType, RangeOK, CountsGoroutines, StartedInOrder, JoinedAll,
       DiscoveryOwes, PortScanOwes, Owes, Discovery, OnLink
  <2> QED BY <2>1, <2>2
<1>6. CASE DiscoveryExit(r)
  <2>1. wg[r] - 1 \in Nat /\ (mode[r] \in Discovery => rangePc[r] # "done")
    BY <1>6, Counted DEF DiscoveryExit, DiscoveryOwes, PortScanOwes, Owes, RangeType
  <2>2. RangeType' /\ OthersSame(r)
    BY <1>6, <2>1 DEF DiscoveryExit, RangeType, OthersSame
  <2>3. RangeOK(r)'
    <3>1. StartedInOrder(r)' /\ JoinedAll(r)'
      BY <1>6, <2>1 DEF DiscoveryExit, RangeType, RangeOK, CountsGoroutines, StartedInOrder, JoinedAll,
         PortScanOwes, DiscoveryOwes, Owes, Discovery, OnLink
    <3>2. CountsGoroutines(r)'
      <4>1. DiscoveryOwes(r) = 1 /\ wg[r] \in Nat
        BY <1>6 DEF DiscoveryExit, DiscoveryOwes, Owes, RangeType
      <4>2. \/ wg'[r] = wg[r] - 1 /\ DiscoveryOwes(r)' = 0
            \/ wg'[r] = wg[r] /\ DiscoveryOwes(r)' = 1
        <5>1. mode'[r] = mode[r] /\ discPc'[r] = "exiting"
          BY <1>6 DEF DiscoveryExit, RangeType
        <5>2. CASE mode[r] # "multicast" /\ wg' = [wg EXCEPT ![r] = @ - 1]
          BY <5>1, <5>2 DEF DiscoveryOwes, RangeType
        <5>3. CASE mode[r] = "multicast" /\ wg' = wg
          BY <5>1, <5>3 DEF DiscoveryOwes, Owes
        <5> QED BY <1>6, <5>2, <5>3 DEF DiscoveryExit
      <4>3. Owes(hearPc'[r]) = Owes(hearPc[r]) /\ PortScanOwes(r)' = PortScanOwes(r)
            /\ Owes(replyPc'[r]) = Owes(replyPc[r])
        BY <1>6 DEF DiscoveryExit, PortScanOwes
      <4>4. Owes(hearPc[r]) \in Nat /\ PortScanOwes(r) \in Nat /\ Owes(replyPc[r]) \in Nat
        BY OwesBound DEF PortScanOwes
      <4> QED BY <4>1, <4>2, <4>3, <4>4 DEF RangeOK, CountsGoroutines
    <3> QED BY <3>1, <3>2 DEF RangeOK
  <2> QED BY <2>2, <2>3
<1>7. CASE DiscoveryExited(r)
  <2>1. mode[r] = "multicast" => wg[r] - 1 \in Nat /\ rangePc[r] # "done"
    <3> SUFFICES ASSUME mode[r] = "multicast" PROVE wg[r] - 1 \in Nat /\ rangePc[r] # "done"
      OBVIOUS
    <3>1. DiscoveryOwes(r) = 1 /\ mode[r] \in Discovery
      BY <1>7 DEF DiscoveryExited, DiscoveryOwes, Owes, Discovery, OnLink
    <3> QED BY <3>1, Counted
  <2>2. RangeType' /\ OthersSame(r)
    BY <1>7, <2>1 DEF DiscoveryExited, RangeType, OthersSame
  <2>3. RangeOK(r)'
    BY <1>7, <2>1 DEF DiscoveryExited, RangeType, RangeOK, CountsGoroutines, StartedInOrder, JoinedAll,
       DiscoveryOwes, PortScanOwes, Owes, Discovery, OnLink
  <2> QED BY <2>2, <2>3
<1> QED BY <1>1, <1>2, <1>3, <1>4, <1>5, <1>6, <1>7 DEF DiscoveryStep

\* The host interceptor: its Done is the last thing it does.
LEMMA HostCaptureStepLocal ==
  ASSUME NEW r \in Ranges, RangeInv, HostCaptureStep(r)
  PROVE  StepOf(r)
<1> USE DEF RangeInv, StepOf, PortSide, upVars
<1>1. CASE OpenHostCapture(r)
  <2>1. RangeType' /\ OthersSame(r)
    BY <1>1 DEF OpenHostCapture, RangeType, OthersSame, Discovery, OnLink
  <2>2. RangeOK(r)'
    BY <1>1 DEF OpenHostCapture, RangeType, RangeOK, CountsGoroutines, StartedInOrder, JoinedAll,
       DiscoveryOwes, PortScanOwes, Owes, Discovery, OnLink
  <2> QED BY <2>1, <2>2
<1>2. CASE ReportHostCaptureError(r)
  <2>1. RangeType' /\ OthersSame(r)
    BY <1>2 DEF ReportHostCaptureError, RangeType, OthersSame, Discovery, OnLink
  <2>2. RangeOK(r)'
    BY <1>2 DEF ReportHostCaptureError, RangeType, RangeOK, CountsGoroutines, StartedInOrder, JoinedAll,
       DiscoveryOwes, PortScanOwes, Owes, Discovery, OnLink
  <2> QED BY <2>1, <2>2
<1>3. CASE ReportHost(r)
  <2>1. RangeType' /\ OthersSame(r)
    BY <1>3 DEF ReportHost, RangeType, OthersSame, Discovery, OnLink
  <2>2. RangeOK(r)'
    BY <1>3 DEF ReportHost, RangeType, RangeOK, CountsGoroutines, StartedInOrder, JoinedAll,
       DiscoveryOwes, PortScanOwes, Owes, Discovery, OnLink
  <2> QED BY <2>1, <2>2
<1>4. CASE HandOverHost(r)
  <2>1. RangeType' /\ OthersSame(r)
    <3>1. /\ Append(upHosts[r], hearHost[r]) \in Seq(Hosts)
          /\ Len(Append(upHosts[r], hearHost[r])) <= UpHostsCap
      BY <1>4, RangeAssumption DEF HandOverHost, RangeType
    <3> QED BY <1>4, <3>1 DEF HandOverHost, RangeType, OthersSame
  <2>2. RangeOK(r)'
    BY <1>4 DEF HandOverHost, RangeType, RangeOK, CountsGoroutines, StartedInOrder, JoinedAll,
       DiscoveryOwes, PortScanOwes, Owes, Discovery, OnLink
  <2> QED BY <2>1, <2>2
<1>5. CASE HandOverHostPanics(r)
  <2>1. RangeType' /\ OthersSame(r)
    BY <1>5 DEF HandOverHostPanics, rangeVars, RangeType, OthersSame, Discovery, OnLink
  <2>2. RangeOK(r)'
    BY <1>5 DEF HandOverHostPanics, rangeVars, RangeType, RangeOK, CountsGoroutines, StartedInOrder, JoinedAll,
       DiscoveryOwes, PortScanOwes, Owes, Discovery, OnLink
  <2> QED BY <2>1, <2>2
<1>6. CASE HostCaptureLeave(r)
  <2>1. wg[r] - 1 \in Nat /\ (mode[r] \in Discovery => rangePc[r] # "done")
    BY <1>6, Counted DEF HostCaptureLeave, DiscoveryOwes, PortScanOwes, Owes, RangeType
  <2>2. RangeType' /\ OthersSame(r)
    BY <1>6, <2>1 DEF HostCaptureLeave, RangeType, OthersSame
  <2>3. RangeOK(r)'
    <3>1. StartedInOrder(r)' /\ JoinedAll(r)'
      BY <1>6, <2>1 DEF HostCaptureLeave, RangeType, RangeOK, CountsGoroutines, StartedInOrder, JoinedAll,
         PortScanOwes, DiscoveryOwes, Owes, Discovery, OnLink
    <3>2. CountsGoroutines(r)'
      BY <1>6 DEF HostCaptureLeave, RangeType, RangeOK, CountsGoroutines, StartedInOrder,
         DiscoveryOwes, PortScanOwes, Owes
    <3> QED BY <3>1, <3>2 DEF RangeOK
  <2> QED BY <2>2, <2>3
<1> QED BY <1>1, <1>2, <1>3, <1>4, <1>5, <1>6 DEF HostCaptureStep

\* The port scan: the same as the discovery with host discovery, and without
\* it run by the range goroutine, which counts its interceptor and never waits.
LEMMA PortScanStepLocal ==
  ASSUME NEW r \in Ranges, RangeInv, PortScanStep(r)
  PROVE  StepOf(r)
<1> USE DEF RangeInv, StepOf, HostSide
<1>1. CASE StartPortCapture(r)
  <2>1. RangeType' /\ OthersSame(r)
    BY <1>1 DEF StartPortCapture, RangeType, OthersSame, Discovery, OnLink
  <2>2. RangeOK(r)'
    <3>0. mode[r] \in Discovery => rangePc[r] # "done"
      BY <1>1, Counted DEF StartPortCapture, PortScanOwes, Owes, Discovery, OnLink
    <3>1. StartedInOrder(r)' /\ JoinedAll(r)'
      BY <1>1, <3>0 DEF StartPortCapture, RangeType, RangeOK, CountsGoroutines, StartedInOrder, JoinedAll,
         PortScanOwes, DiscoveryOwes, Owes, Discovery, OnLink
    <3>2. CountsGoroutines(r)'
      BY <1>1 DEF StartPortCapture, RangeType, RangeOK, CountsGoroutines, StartedInOrder,
         DiscoveryOwes, PortScanOwes, Owes
    <3> QED BY <3>1, <3>2 DEF RangeOK
  <2> QED BY <2>1, <2>2
<1>2. CASE PortCaptureReady(r)
  <2>1. RangeType' /\ OthersSame(r)
    BY <1>2 DEF PortCaptureReady, RangeType, OthersSame, Discovery, OnLink
  <2>2. RangeOK(r)'
    <3>1. StartedInOrder(r)' /\ JoinedAll(r)'
      BY <1>2 DEF PortCaptureReady, RangeType, RangeOK, CountsGoroutines, StartedInOrder, JoinedAll,
         PortScanOwes, DiscoveryOwes, Owes, Discovery, OnLink
    <3>2. CountsGoroutines(r)'
      <4>1. Owes(scanPc'[r]) = Owes(scanPc[r]) /\ Owes(replyPc'[r]) = Owes(replyPc[r])
        BY <1>2 DEF PortCaptureReady, RangeType, Owes
      <4>2. PortScanOwes(r)' = PortScanOwes(r) /\ DiscoveryOwes(r)' = DiscoveryOwes(r)
        BY <1>2, <4>1 DEF PortCaptureReady, PortScanOwes, DiscoveryOwes
      <4> QED BY <1>2, <4>1, <4>2 DEF PortCaptureReady, RangeOK, CountsGoroutines
    <3> QED BY <3>1, <3>2 DEF RangeOK
  <2> QED BY <2>1, <2>2
<1>3. CASE TakeHost(r)
  <2>1. RangeType' /\ OthersSame(r)
    <3>1. /\ upHosts[r] \in Seq(Hosts) /\ upHosts[r] # <<>>
          /\ Len(upHosts[r]) <= UpHostsCap
      BY <1>3 DEF TakeHost, RangeType
    <3>2. /\ Head(upHosts[r]) \in Hosts /\ Tail(upHosts[r]) \in Seq(Hosts)
          /\ Len(Tail(upHosts[r])) <= UpHostsCap
      BY <3>1, RangeAssumption
    <3> QED BY <1>3, <3>2 DEF TakeHost, RangeType, OthersSame
  <2>2. RangeOK(r)'
    BY <1>3 DEF TakeHost, RangeType, RangeOK, CountsGoroutines, StartedInOrder, JoinedAll,
       DiscoveryOwes, PortScanOwes, Owes, Discovery, OnLink
  <2> QED BY <2>1, <2>2
<1>4. CASE DrainEnds(r)
  <2>1. RangeType' /\ OthersSame(r)
    BY <1>4 DEF DrainEnds, RangeType, OthersSame, Discovery, OnLink
  <2>2. RangeOK(r)'
    BY <1>4 DEF DrainEnds, RangeType, RangeOK, CountsGoroutines, StartedInOrder, JoinedAll,
       DiscoveryOwes, PortScanOwes, Owes, Discovery, OnLink
  <2> QED BY <2>1, <2>2
<1>5. CASE ProbeHost(r)
  <2>1. RangeType' /\ OthersSame(r)
    <3>1. scanHost[r] \in Hosts
      BY <1>5 DEF ProbeHost, RangeType
    <3>2. probed' \in [Ranges -> SUBSET Hosts] /\ lost' \in [Ranges -> SUBSET Hosts]
      <4>1. CASE probed' = [probed EXCEPT ![r] = @ \cup {scanHost[r]}] /\ UNCHANGED lost
        BY <3>1, <4>1 DEF RangeType
      <4>2. CASE lost' = [lost EXCEPT ![r] = @ \cup {scanHost[r]}] /\ UNCHANGED probed
        BY <3>1, <4>2 DEF RangeType
      <4> QED BY <1>5, <4>1, <4>2 DEF ProbeHost
    <3> QED BY <1>5, <3>2 DEF ProbeHost, RangeType, OthersSame, Discovery, OnLink
  <2>2. RangeOK(r)'
    BY <1>5 DEF ProbeHost, RangeType, RangeOK, CountsGoroutines, StartedInOrder, JoinedAll,
       DiscoveryOwes, PortScanOwes, Owes, Discovery, OnLink
  <2> QED BY <2>1, <2>2
<1>6. CASE SendBatch(r)
  <2>1. RangeType' /\ OthersSame(r)
    <3>1. PICK batch \in SUBSET (HostsOf[r] \ Tried(r)), left \in SUBSET HostsOf[r] :
            /\ probed' = [probed EXCEPT ![r] = @ \cup (batch \ left)]
            /\ lost' = [lost EXCEPT ![r] = @ \cup left]
      BY <1>6 DEF SendBatch
    <3>2. probed[r] \cup (batch \ left) \in SUBSET Hosts /\ lost[r] \cup left \in SUBSET Hosts
      BY <3>1, RangeAssumption DEF RangeType
    <3> QED BY <1>6, <3>1, <3>2 DEF SendBatch, pcVars, handVars, upVars, RangeType, OthersSame
  <2>2. RangeOK(r)'
    BY <1>6 DEF SendBatch, pcVars, handVars, upVars, RangeType, RangeOK, CountsGoroutines, StartedInOrder, JoinedAll,
       DiscoveryOwes, PortScanOwes, Owes, Discovery, OnLink
  <2> QED BY <2>1, <2>2
<1>7. CASE BatchesEnd(r)
  <2>1. RangeType' /\ OthersSame(r)
    BY <1>7 DEF BatchesEnd, RangeType, OthersSame, Discovery, OnLink
  <2>2. RangeOK(r)'
    BY <1>7 DEF BatchesEnd, RangeType, RangeOK, CountsGoroutines, StartedInOrder, JoinedAll,
       DiscoveryOwes, PortScanOwes, Owes, Discovery, OnLink
  <2> QED BY <2>1, <2>2
<1>8. CASE ReportPortScanError(r)
  <2>1. RangeType' /\ OthersSame(r)
    BY <1>8 DEF ReportPortScanError, RangeType, OthersSame, Discovery, OnLink
  <2>2. RangeOK(r)'
    BY <1>8 DEF ReportPortScanError, RangeType, RangeOK, CountsGoroutines, StartedInOrder, JoinedAll,
       DiscoveryOwes, PortScanOwes, Owes, Discovery, OnLink
  <2> QED BY <2>1, <2>2
<1>9. CASE PortScanDone(r)
  <2>1. RangeType' /\ OthersSame(r)
    BY <1>9 DEF PortScanDone, RangeType, OthersSame, Discovery, OnLink
  <2>2. /\ PortScanOwes(r)' = PortScanOwes(r) /\ Owes(replyPc[r])' = Owes(replyPc[r])
        /\ DiscoveryOwes(r)' = DiscoveryOwes(r) /\ Owes(hearPc[r])' = Owes(hearPc[r])
    BY <1>9 DEF PortScanDone, RangeType, DiscoveryOwes, PortScanOwes, Owes
  <2>3. CountsGoroutines(r)'
    BY <1>9, <2>2 DEF PortScanDone, RangeOK, CountsGoroutines
  <2>4. StartedInOrder(r)' /\ JoinedAll(r)'
    BY <1>9 DEF PortScanDone, RangeType, RangeOK, StartedInOrder, JoinedAll
  <2> QED BY <2>1, <2>3, <2>4 DEF RangeOK
<1>10. CASE PortScanExit(r)
  <2>1. mode[r] \in Discovery => wg[r] - 1 \in Nat /\ rangePc[r] # "done"
    BY <1>10, Counted DEF PortScanExit, PortScanOwes, Owes, Discovery, OnLink
  <2>2. RangeType' /\ OthersSame(r)
    BY <1>10, <2>1 DEF PortScanExit, RangeType, OthersSame
  <2>3. RangeOK(r)'
    <3>1. CASE mode[r] \in Discovery
      BY <1>10, <2>1, <3>1 DEF PortScanExit, RangeType, RangeOK, CountsGoroutines, StartedInOrder,
         JoinedAll, DiscoveryOwes, PortScanOwes, Owes, Discovery, OnLink
    <3>2. CASE mode[r] = "direct"
      BY <1>10, <3>2 DEF PortScanExit, RangeType, RangeOK, CountsGoroutines, StartedInOrder,
         JoinedAll, DiscoveryOwes, PortScanOwes, Owes, Discovery, OnLink
    <3> QED BY <1>10, <3>1, <3>2 DEF PortScanExit
  <2> QED BY <2>2, <2>3
<1> QED BY <1>1, <1>2, <1>3, <1>4, <1>5, <1>6, <1>7, <1>8, <1>9, <1>10 DEF PortScanStep

\* The port interceptor.
LEMMA PortCaptureStepLocal ==
  ASSUME NEW r \in Ranges, RangeInv, PortCaptureStep(r)
  PROVE  StepOf(r)
<1> USE DEF RangeInv, StepOf, HostSide
<1>1. CASE OpenPortCapture(r)
  <2>1. RangeType' /\ OthersSame(r)
    BY <1>1 DEF OpenPortCapture, RangeType, OthersSame, Discovery, OnLink
  <2>2. RangeOK(r)'
    BY <1>1 DEF OpenPortCapture, RangeType, RangeOK, CountsGoroutines, StartedInOrder, JoinedAll,
       DiscoveryOwes, PortScanOwes, Owes, Discovery, OnLink
  <2> QED BY <2>1, <2>2
<1>2. CASE ReportPortCaptureError(r)
  <2>1. RangeType' /\ OthersSame(r)
    BY <1>2 DEF ReportPortCaptureError, RangeType, OthersSame, Discovery, OnLink
  <2>2. RangeOK(r)'
    BY <1>2 DEF ReportPortCaptureError, RangeType, RangeOK, CountsGoroutines, StartedInOrder, JoinedAll,
       DiscoveryOwes, PortScanOwes, Owes, Discovery, OnLink
  <2> QED BY <2>1, <2>2
<1>3. CASE ReportPort(r)
  <2>1. RangeType' /\ OthersSame(r)
    BY <1>3 DEF ReportPort, RangeType, OthersSame, Discovery, OnLink
  <2>2. RangeOK(r)'
    BY <1>3 DEF ReportPort, RangeType, RangeOK, CountsGoroutines, StartedInOrder, JoinedAll,
       DiscoveryOwes, PortScanOwes, Owes, Discovery, OnLink
  <2> QED BY <2>1, <2>2
<1>4. CASE PortCaptureLeave(r)
  <2>1. wg[r] - 1 \in Nat /\ (mode[r] \in Discovery => rangePc[r] # "done")
    BY <1>4, Counted DEF PortCaptureLeave, DiscoveryOwes, PortScanOwes, Owes, RangeType
  <2>2. RangeType' /\ OthersSame(r)
    BY <1>4, <2>1 DEF PortCaptureLeave, RangeType, OthersSame
  <2>3. RangeOK(r)'
    BY <1>4, <2>1 DEF PortCaptureLeave, RangeType, RangeOK, CountsGoroutines, StartedInOrder, JoinedAll,
       DiscoveryOwes, PortScanOwes, Owes, Discovery, OnLink
  <2> QED BY <2>2, <2>3
<1> QED BY <1>1, <1>2, <1>3, <1>4 DEF PortCaptureStep

\* A packet that arrives only moves an interceptor that listens.
LEMMA NetworkStepLocal ==
  ASSUME NEW r \in Ranges, RangeInv, NetworkStep(r)
  PROVE  StepOf(r)
<1> USE DEF RangeInv, StepOf, Hear, PortSide, HostSide, upVars
<1>1. ASSUME NEW h \in Hosts, HearArp(r, h) PROVE StepOf(r)
  <2>1. RangeType' /\ OthersSame(r)
    BY <1>1, RangeAssumption DEF HearArp, RangeType, OthersSame, Discovery, OnLink
  <2>2. RangeOK(r)'
    BY <1>1 DEF HearArp, RangeType, RangeOK, CountsGoroutines, StartedInOrder, JoinedAll,
       DiscoveryOwes, PortScanOwes, Owes, Discovery, OnLink
  <2> QED BY <2>1, <2>2
<1>2. ASSUME NEW h \in Hosts, HearEcho(r, h) PROVE StepOf(r)
  <2>1. RangeType' /\ OthersSame(r)
    BY <1>2, RangeAssumption DEF HearEcho, RangeType, OthersSame, Discovery, OnLink
  <2>2. RangeOK(r)'
    BY <1>2 DEF HearEcho, RangeType, RangeOK, CountsGoroutines, StartedInOrder, JoinedAll,
       DiscoveryOwes, PortScanOwes, Owes, Discovery, OnLink
  <2> QED BY <2>1, <2>2
<1>3. ASSUME NEW h \in Hosts, HearReply(r, h) PROVE StepOf(r)
  <2>1. RangeType' /\ OthersSame(r)
    BY <1>3, RangeAssumption DEF HearReply, RangeType, OthersSame, Discovery, OnLink
  <2>2. RangeOK(r)'
    BY <1>3 DEF HearReply, RangeType, RangeOK, CountsGoroutines, StartedInOrder, JoinedAll,
       DiscoveryOwes, PortScanOwes, Owes, Discovery, OnLink
  <2> QED BY <2>1, <2>2
<1> QED BY <1>1, <1>2, <1>3 DEF NetworkStep

\* A failing call sends its goroutine to its error path, which still owes Done.
LEMMA FailureStepLocal ==
  ASSUME NEW r \in Ranges, RangeInv, FailureStep(r)
  PROVE  StepOf(r)
<1> USE DEF RangeInv, StepOf, PortSide, HostSide, upVars, netVars, handVars
<1>1. CASE ResolveGatewayFails(r)
  <2>1. RangeType' /\ OthersSame(r)
    BY <1>1 DEF ResolveGatewayFails, RangeType, OthersSame, Discovery, OnLink
  <2>2. RangeOK(r)'
    BY <1>1 DEF ResolveGatewayFails, RangeType, RangeOK, CountsGoroutines, StartedInOrder, JoinedAll,
       DiscoveryOwes, PortScanOwes, Owes, Discovery, OnLink
  <2> QED BY <2>1, <2>2
<1>2. CASE OpenMulticastFails(r)
  <2>1. RangeType' /\ OthersSame(r)
    BY <1>2 DEF OpenMulticastFails, RangeType, OthersSame, Discovery, OnLink
  <2>2. RangeOK(r)'
    BY <1>2 DEF OpenMulticastFails, RangeType, RangeOK, CountsGoroutines, StartedInOrder, JoinedAll,
       DiscoveryOwes, PortScanOwes, Owes, Discovery, OnLink
  <2> QED BY <2>1, <2>2
<1>3. CASE SendDiscoveryFails(r)
  <2>1. RangeType' /\ OthersSame(r)
    BY <1>3 DEF SendDiscoveryFails, RangeType, OthersSame, Discovery, OnLink
  <2>2. RangeOK(r)'
    BY <1>3 DEF SendDiscoveryFails, RangeType, RangeOK, CountsGoroutines, StartedInOrder, JoinedAll,
       DiscoveryOwes, PortScanOwes, Owes, Discovery, OnLink
  <2> QED BY <2>1, <2>2
<1>4. CASE OpenHostCaptureFails(r)
  <2>1. RangeType' /\ OthersSame(r)
    BY <1>4 DEF OpenHostCaptureFails, RangeType, OthersSame, Discovery, OnLink
  <2>2. RangeOK(r)'
    BY <1>4 DEF OpenHostCaptureFails, RangeType, RangeOK, CountsGoroutines, StartedInOrder, JoinedAll,
       DiscoveryOwes, PortScanOwes, Owes, Discovery, OnLink
  <2> QED BY <2>1, <2>2
<1>5. CASE HostCaptureLost(r)
  <2>1. RangeType' /\ OthersSame(r)
    BY <1>5 DEF HostCaptureLost, RangeType, OthersSame, Discovery, OnLink
  <2>2. RangeOK(r)'
    BY <1>5 DEF HostCaptureLost, RangeType, RangeOK, CountsGoroutines, StartedInOrder, JoinedAll,
       DiscoveryOwes, PortScanOwes, Owes, Discovery, OnLink
  <2> QED BY <2>1, <2>2
<1>6. CASE CompileFilterFails(r)
  <2>1. RangeType' /\ OthersSame(r)
    BY <1>6 DEF CompileFilterFails, RangeType, OthersSame, Discovery, OnLink
  <2>2. RangeOK(r)'
    BY <1>6 DEF CompileFilterFails, RangeType, RangeOK, CountsGoroutines, StartedInOrder, JoinedAll,
       DiscoveryOwes, PortScanOwes, Owes, Discovery, OnLink
  <2> QED BY <2>1, <2>2
<1>7. CASE ProbeHostFails(r)
  <2>1. RangeType' /\ OthersSame(r)
    BY <1>7 DEF ProbeHostFails, RangeType, OthersSame, Discovery, OnLink
  <2>2. RangeOK(r)'
    BY <1>7 DEF ProbeHostFails, RangeType, RangeOK, CountsGoroutines, StartedInOrder, JoinedAll,
       DiscoveryOwes, PortScanOwes, Owes, Discovery, OnLink
  <2> QED BY <2>1, <2>2
<1>8. CASE BatchFails(r)
  <2>1. RangeType' /\ OthersSame(r)
    BY <1>8 DEF BatchFails, RangeType, OthersSame, Discovery, OnLink
  <2>2. RangeOK(r)'
    BY <1>8 DEF BatchFails, RangeType, RangeOK, CountsGoroutines, StartedInOrder, JoinedAll,
       DiscoveryOwes, PortScanOwes, Owes, Discovery, OnLink
  <2> QED BY <2>1, <2>2
<1>9. CASE OpenPortCaptureFails(r)
  <2>1. RangeType' /\ OthersSame(r)
    BY <1>9 DEF OpenPortCaptureFails, RangeType, OthersSame, Discovery, OnLink
  <2>2. RangeOK(r)'
    BY <1>9 DEF OpenPortCaptureFails, RangeType, RangeOK, CountsGoroutines, StartedInOrder, JoinedAll,
       DiscoveryOwes, PortScanOwes, Owes, Discovery, OnLink
  <2> QED BY <2>1, <2>2
<1>10. CASE PortCaptureLost(r)
  <2>1. RangeType' /\ OthersSame(r)
    BY <1>10 DEF PortCaptureLost, RangeType, OthersSame, Discovery, OnLink
  <2>2. RangeOK(r)'
    BY <1>10 DEF PortCaptureLost, RangeType, RangeOK, CountsGoroutines, StartedInOrder, JoinedAll,
       DiscoveryOwes, PortScanOwes, Owes, Discovery, OnLink
  <2> QED BY <2>1, <2>2
<1> QED BY <1>1, <1>2, <1>3, <1>4, <1>5, <1>6, <1>7, <1>8, <1>9, <1>10 DEF FailureStep

\* Any step of a range.
LEMMA PipelineStepLocal ==
  ASSUME NEW r \in Ranges, RangeInv, PipelineStep(r)
  PROVE  StepOf(r)
BY RangeStepLocal, DiscoveryStepLocal, HostCaptureStepLocal, PortScanStepLocal,
   PortCaptureStepLocal, NetworkStepLocal, FailureStepLocal DEF PipelineStep

\* The step lemma of RangeInv.
LEMMA PipelineKeepsInv ==
  ASSUME NEW r \in Ranges, RangeInv, PipelineStep(r)
  PROVE  RangeInv'
BY PipelineStepLocal, StepOfKeepsInv

\* RangeInv holds before Scan starts a range.
LEMMA RangeInitInv == ASSUME RangeInit PROVE RangeInv
BY RangeAssumption DEF RangeInit, RangeInv, RangeType, RangeOK, CountsGoroutines, StartedInOrder,
   JoinedAll, DiscoveryOwes, PortScanOwes, Owes, Discovery, OnLink

\* The dispatch loop starts a range that has not been started.
LEMMA StartRangeInv ==
  ASSUME NEW r \in Ranges, NEW m \in Discovery \cup {"direct"}, RangeInv, StartRange(r, m)
  PROVE  RangeInv'
<1>1. RangeType' /\ OthersSame(r)
  BY DEF StartRange, handVars, upVars, netVars, RangeInv, RangeType, OthersSame, Discovery, OnLink
<1>2. RangeOK(r)'
  BY DEF StartRange, RangeInv, RangeType, RangeOK, CountsGoroutines, StartedInOrder, JoinedAll,
     DiscoveryOwes, PortScanOwes, Owes, Discovery, OnLink
<1> QED BY <1>1, <1>2, StepOfKeepsInv DEF StepOf

-------------------------------------------------------------------------------
(* What a range that is done, or was not started, may still do.            *)

\* No step takes a range that is done back, or starts one that is off.
LEMMA DoneForever ==
  ASSUME NEW r \in Ranges, RangeInv, PipelineStep(r),
         NEW q \in Ranges, rangePc[q] \in {"off", "done"}
  PROVE  rangePc'[q] = rangePc[q]
<1>1. CASE q # r
  BY <1>1, PipelineStepLocal DEF StepOf, OthersSame
<1>2. CASE q = r /\ RangeStep(r)
  BY <1>2 DEF RangeStep, ResolveGateway, ReportGatewayError, LaunchPair, LaunchDirect, JoinPair,
     ReturnDirect, RangeInv, RangeType
<1>3. CASE DiscoveryStep(r)
  BY <1>3 DEF DiscoveryStep, StartHostCapture, HostCaptureReady, SendDiscovery,
     ReportDiscoveryError, HostDiscoveryDone, DiscoveryExit, DiscoveryExited, PortSide
<1>4. CASE HostCaptureStep(r)
  BY <1>4 DEF HostCaptureStep, OpenHostCapture, ReportHostCaptureError, ReportHost, HandOverHost,
     HandOverHostPanics, HostCaptureLeave, PortSide, rangeVars
<1>5. CASE PortScanStep(r)
  BY <1>5 DEF PortScanStep, StartPortCapture, PortCaptureReady, TakeHost, DrainEnds, ProbeHost,
     SendBatch, BatchesEnd, ReportPortScanError, PortScanDone, PortScanExit, HostSide, pcVars
<1>6. CASE PortCaptureStep(r)
  BY <1>6 DEF PortCaptureStep, OpenPortCapture, ReportPortCaptureError, ReportPort,
     PortCaptureLeave, HostSide
<1>7. CASE NetworkStep(r)
  BY <1>7 DEF NetworkStep, HearArp, HearEcho, Hear, HearReply, PortSide, HostSide
<1>8. CASE q = r /\ FailureStep(r)
  BY <1>8 DEF FailureStep, ResolveGatewayFails, OpenMulticastFails, SendDiscoveryFails,
     OpenHostCaptureFails, HostCaptureLost, CompileFilterFails, ProbeHostFails, BatchFails,
     OpenPortCaptureFails, PortCaptureLost, PortSide, HostSide, RangeInv, RangeType
<1> QED BY <1>1, <1>2, <1>3, <1>4, <1>5, <1>6, <1>7, <1>8 DEF PipelineStep

\* A range with host discovery that is done will send nothing any more.
LEMMA DoneIsSilent ==
  ASSUME NEW r \in Ranges, RangeInv, rangePc[r] = "done", mode[r] \in Discovery
  PROVE  RangeSilent(r)
<1>1. wg[r] = 0
  BY DEF RangeInv, RangeOK, JoinedAll
<1>2. /\ DiscoveryOwes(r) \in {0, 1} /\ Owes(hearPc[r]) \in {0, 1}
      /\ PortScanOwes(r) \in {0, 1} /\ Owes(replyPc[r]) \in {0, 1}
  BY OwesBound DEF DiscoveryOwes, PortScanOwes
<1>3. /\ DiscoveryOwes(r) = 0 /\ Owes(hearPc[r]) = 0
      /\ PortScanOwes(r) = 0 /\ Owes(replyPc[r]) = 0
  BY <1>1, <1>2 DEF RangeInv, RangeOK, CountsGoroutines
<1>4. mode[r] # "direct"
  BY DEF Discovery, OnLink
<1> QED BY <1>3, <1>4 DEF DiscoveryOwes, PortScanOwes, Owes, RangeSilent

-------------------------------------------------------------------------------
(* The two shared channels.                                                *)

\* A send on findingsChan, or its panic, keeps the types of the channels.
LEMMA SendFindingType ==
  ASSUME NEW f \in Finding, ChannelsType(Finding, Error), SendFinding(f)
  PROVE  ChannelsType(Finding, Error)'
<1>1. CASE findingsClosed
  BY <1>1 DEF ChannelsType, SendFinding
<1>2. CASE ~findingsClosed
  <2>1. /\ Append(findings, f) \in Seq(Finding) /\ Append(reported, f) \in Seq(Finding)
        /\ Len(Append(findings, f)) = Len(findings) + 1 /\ Len(findings) \in Nat
    BY DEF ChannelsType
  <2>2. Len(findings) < FindingsCap /\ findings' = Append(findings, f)
        /\ reported' = Append(reported, f) /\ panicked' = panicked
    BY <1>2 DEF SendFinding
  <2>3. findings' \in Seq(Finding) /\ reported' \in Seq(Finding) /\ Len(findings') <= FindingsCap
    BY <2>1, <2>2, CapsAssumption
  <2> QED BY <2>2, <2>3 DEF ChannelsType, SendFinding
<1> QED BY <1>1, <1>2

\* A send on errorChan, or its panic, keeps the types of the channels.
LEMMA SendErrorType ==
  ASSUME NEW e \in Error, ChannelsType(Finding, Error), SendError(e)
  PROVE  ChannelsType(Finding, Error)'
<1>1. CASE errsClosed
  BY <1>1 DEF ChannelsType, SendError
<1>2. CASE ~errsClosed
  <2>1. /\ Append(errs, e) \in Seq(Error) /\ Append(raised, e) \in Seq(Error)
        /\ Len(Append(errs, e)) = Len(errs) + 1 /\ Len(errs) \in Nat
    BY DEF ChannelsType
  <2>2. Len(errs) < ErrorCap /\ errs' = Append(errs, e)
        /\ raised' = Append(raised, e) /\ panicked' = panicked
    BY <1>2 DEF SendError
  <2>3. errs' \in Seq(Error) /\ raised' \in Seq(Error) /\ Len(errs') <= ErrorCap
    BY <2>1, <2>2, CapsAssumption
  <2> QED BY <2>2, <2>3 DEF ChannelsType, SendError
<1> QED BY <1>1, <1>2

\* A range touches the channels only to send, and panics only on a channel that
\* has been closed.
ChannelUse(r) ==
  \/ UNCHANGED channelVars
  \/ \E f \in Finding : SendFinding(f) /\ (hearPc[r] = "report" \/ replyPc[r] = "report")
  \/ \E e \in Error : SendError(e) /\ "fail" \in {rangePc[r], discPc[r], hearPc[r], scanPc[r], replyPc[r]}
  \/ HandOverHostPanics(r)

\* The four ways in which a step of a range touches a shared channel.
LEMMA UsesChannels ==
  ASSUME NEW r \in Ranges, RangeInv, PipelineStep(r)
  PROVE  ChannelUse(r)
<1> USE DEF ChannelUse
<1>0. \A g \in {"range", "discovery", "hostCapture", "portScan", "portCapture"} :
        ErrorFrom(r, g) \in Error
  BY DEF ErrorFrom, Error
<1>1. CASE RangeStep(r)
  BY <1>0, <1>1 DEF RangeStep, ResolveGateway, ReportGatewayError, LaunchPair, LaunchDirect,
     JoinPair, ReturnDirect
<1>2. CASE DiscoveryStep(r)
  BY <1>0, <1>2 DEF DiscoveryStep, StartHostCapture, HostCaptureReady, SendDiscovery,
     ReportDiscoveryError, HostDiscoveryDone, DiscoveryExit, DiscoveryExited
<1>3. CASE HostCaptureStep(r)
  <2>1. CASE ReportHost(r)
    <3>1. HostFinding(hearHost[r]) \in Finding
      BY <2>1 DEF ReportHost, RangeInv, RangeType, HostFinding, Finding
    <3> QED BY <2>1, <3>1 DEF ReportHost
  <2> QED BY <1>0, <1>3, <2>1 DEF HostCaptureStep, OpenHostCapture, ReportHostCaptureError,
             HandOverHost, HostCaptureLeave
<1>4. CASE PortScanStep(r)
  BY <1>0, <1>4 DEF PortScanStep, StartPortCapture, PortCaptureReady, TakeHost, DrainEnds,
     ProbeHost, SendBatch, BatchesEnd, ReportPortScanError, PortScanDone, PortScanExit
<1>5. CASE PortCaptureStep(r)
  <2>1. CASE ReportPort(r)
    <3>1. PortFinding(replyHost[r]) \in Finding
      BY <2>1 DEF ReportPort, RangeInv, RangeType, PortFinding, Finding
    <3> QED BY <2>1, <3>1 DEF ReportPort
  <2> QED BY <1>0, <1>5, <2>1 DEF PortCaptureStep, OpenPortCapture, ReportPortCaptureError,
             PortCaptureLeave
<1>6. CASE NetworkStep(r)
  BY <1>6 DEF NetworkStep, HearArp, HearEcho, Hear, HearReply
<1>7. CASE FailureStep(r)
  BY <1>7 DEF FailureStep, ResolveGatewayFails, OpenMulticastFails, SendDiscoveryFails,
     OpenHostCaptureFails, HostCaptureLost, CompileFilterFails, ProbeHostFails, BatchFails,
     OpenPortCaptureFails, PortCaptureLost
<1> QED BY <1>1, <1>2, <1>3, <1>4, <1>5, <1>6, <1>7 DEF PipelineStep

\* Whatever a range does with the shared channels, they keep their types and
\* stay as open as they were: only the closer closes them.
LEMMA ChannelsKeepType ==
  ASSUME NEW r \in Ranges, RangeInv, ChannelsType(Finding, Error), PipelineStep(r)
  PROVE  /\ ChannelsType(Finding, Error)'
         /\ findingsClosed' = findingsClosed /\ errsClosed' = errsClosed
<1>1. CASE UNCHANGED channelVars
  BY <1>1 DEF channelVars, ChannelsType
<1>2. CASE \E f \in Finding : SendFinding(f)
  BY <1>2, SendFindingType DEF SendFinding
<1>3. CASE \E e \in Error : SendError(e)
  BY <1>3, SendErrorType DEF SendError
<1>4. CASE HandOverHostPanics(r)
  BY <1>4 DEF HandOverHostPanics, ChannelsType
<1> QED BY <1>1, <1>2, <1>3, <1>4, UsesChannels DEF ChannelUse

-------------------------------------------------------------------------------
(* While a range is refused no transmission.                               *)

\* The range goroutine, when its port scan has left with the done token.
LEMMA RangeStepQuiet ==
  ASSUME NEW r \in Ranges, RangeInv, SendersLeaveLast(r), RangeStep(r)
  PROVE  SendersLeaveLast(r)'
<1> USE DEF RangeInv, RangeType, SendersLeaveLast, handVars, netVars, upVars
<1>1. CASE ResolveGateway(r)
  BY <1>1 DEF ResolveGateway
<1>2. CASE ReportGatewayError(r)
  BY <1>2 DEF ReportGatewayError, RangeOK, StartedInOrder
<1>3. CASE LaunchPair(r)
  BY <1>3 DEF LaunchPair, RangeOK, StartedInOrder
<1>4. CASE LaunchDirect(r)
  BY <1>4 DEF LaunchDirect, RangeOK, StartedInOrder
<1>5. CASE JoinPair(r)
  BY <1>5 DEF JoinPair, Discovery, OnLink
<1>6. CASE ReturnDirect(r)
  BY <1>6 DEF ReturnDirect
<1> QED BY <1>1, <1>2, <1>3, <1>4, <1>5, <1>6 DEF RangeStep

\* The discovery sender.
LEMMA DiscoveryStepQuiet ==
  ASSUME NEW r \in Ranges, RangeInv, SendersLeaveLast(r), DiscoveryStep(r)
  PROVE  SendersLeaveLast(r)'
<1> USE DEF RangeInv, RangeType, SendersLeaveLast, PortSide, upVars
<1>1. CASE StartHostCapture(r)
  BY <1>1 DEF StartHostCapture, RangeOK, StartedInOrder
<1>2. CASE HostCaptureReady(r)
  BY <1>2 DEF HostCaptureReady
<1>3. CASE SendDiscovery(r)
  BY <1>3 DEF SendDiscovery
<1>4. CASE ReportDiscoveryError(r)
  BY <1>4 DEF ReportDiscoveryError
<1>5. CASE HostDiscoveryDone(r)
  BY <1>5 DEF HostDiscoveryDone
<1>6. CASE DiscoveryExit(r)
  BY <1>6 DEF DiscoveryExit
<1>7. CASE DiscoveryExited(r)
  BY <1>7 DEF DiscoveryExited
<1> QED BY <1>1, <1>2, <1>3, <1>4, <1>5, <1>6, <1>7 DEF DiscoveryStep

\* The host interceptor.
LEMMA HostCaptureStepQuiet ==
  ASSUME NEW r \in Ranges, RangeInv, SendersLeaveLast(r), HostCaptureStep(r)
  PROVE  SendersLeaveLast(r)'
<1> USE DEF RangeInv, RangeType, SendersLeaveLast, PortSide, upVars
<1>1. CASE OpenHostCapture(r)
  BY <1>1 DEF OpenHostCapture
<1>2. CASE ReportHostCaptureError(r)
  BY <1>2 DEF ReportHostCaptureError
<1>3. CASE ReportHost(r)
  BY <1>3 DEF ReportHost
<1>4. CASE HandOverHost(r)
  BY <1>4 DEF HandOverHost
<1>5. CASE HandOverHostPanics(r)
  BY <1>5 DEF HandOverHostPanics, rangeVars
<1>6. CASE HostCaptureLeave(r)
  BY <1>6 DEF HostCaptureLeave
<1> QED BY <1>1, <1>2, <1>3, <1>4, <1>5, <1>6 DEF HostCaptureStep

\* The port scan: it leaves at its end only after the done token was taken.
LEMMA PortScanStepQuiet ==
  ASSUME NEW r \in Ranges, RangeInv, SendersLeaveLast(r), PortScanStep(r)
  PROVE  SendersLeaveLast(r)'
<1> USE DEF RangeInv, RangeType, SendersLeaveLast, HostSide
<1>1. CASE StartPortCapture(r)
  BY <1>1 DEF StartPortCapture, RangeOK, StartedInOrder
<1>2. CASE PortCaptureReady(r)
  BY <1>2 DEF PortCaptureReady
<1>3. CASE TakeHost(r)
  BY <1>3 DEF TakeHost
<1>4. CASE DrainEnds(r)
  BY <1>4 DEF DrainEnds
<1>5. CASE ProbeHost(r)
  BY <1>5 DEF ProbeHost
<1>6. CASE SendBatch(r)
  BY <1>6 DEF SendBatch, pcVars, handVars, upVars
<1>7. CASE BatchesEnd(r)
  BY <1>7 DEF BatchesEnd
<1>8. CASE ReportPortScanError(r)
  BY <1>8 DEF ReportPortScanError
<1>9. CASE PortScanDone(r)
  BY <1>9 DEF PortScanDone
<1>10. CASE PortScanExit(r)
  BY <1>10 DEF PortScanExit
<1> QED BY <1>1, <1>2, <1>3, <1>4, <1>5, <1>6, <1>7, <1>8, <1>9, <1>10 DEF PortScanStep

\* The port interceptor.
LEMMA PortCaptureStepQuiet ==
  ASSUME NEW r \in Ranges, RangeInv, SendersLeaveLast(r), PortCaptureStep(r)
  PROVE  SendersLeaveLast(r)'
<1> USE DEF RangeInv, RangeType, SendersLeaveLast, HostSide
<1>1. CASE OpenPortCapture(r)
  BY <1>1 DEF OpenPortCapture
<1>2. CASE ReportPortCaptureError(r)
  BY <1>2 DEF ReportPortCaptureError
<1>3. CASE ReportPort(r)
  BY <1>3 DEF ReportPort
<1>4. CASE PortCaptureLeave(r)
  BY <1>4 DEF PortCaptureLeave
<1> QED BY <1>1, <1>2, <1>3, <1>4 DEF PortCaptureStep

\* A packet that arrives.
LEMMA NetworkStepQuiet ==
  ASSUME NEW r \in Ranges, RangeInv, SendersLeaveLast(r), NetworkStep(r)
  PROVE  SendersLeaveLast(r)'
<1> USE DEF RangeInv, RangeType, SendersLeaveLast, Hear, PortSide, HostSide, upVars
<1>1. ASSUME NEW h \in Hosts, HearArp(r, h) PROVE SendersLeaveLast(r)'
  BY <1>1 DEF HearArp
<1>2. ASSUME NEW h \in Hosts, HearEcho(r, h) PROVE SendersLeaveLast(r)'
  BY <1>2 DEF HearEcho
<1>3. ASSUME NEW h \in Hosts, HearReply(r, h) PROVE SendersLeaveLast(r)'
  BY <1>3 DEF HearReply
<1> QED BY <1>1, <1>2, <1>3 DEF NetworkStep

\* A failing call that is not a transmission.
LEMMA FailureStepQuiet ==
  ASSUME NEW r \in Ranges, RangeInv, SendersLeaveLast(r), FailureStep(r), r \notin refused'
  PROVE  SendersLeaveLast(r)'
<1> USE DEF RangeInv, RangeType, SendersLeaveLast, PortSide, HostSide, upVars, netVars, handVars
<1>1. CASE ResolveGatewayFails(r)
  BY <1>1 DEF ResolveGatewayFails
<1>2. CASE OpenMulticastFails(r)
  BY <1>2 DEF OpenMulticastFails, RangeOK, StartedInOrder
<1>3. CASE SendDiscoveryFails(r)
  BY <1>3 DEF SendDiscoveryFails
<1>4. CASE OpenHostCaptureFails(r)
  BY <1>4 DEF OpenHostCaptureFails
<1>5. CASE HostCaptureLost(r)
  BY <1>5 DEF HostCaptureLost
<1>6. CASE CompileFilterFails(r)
  BY <1>6 DEF CompileFilterFails, RangeOK, StartedInOrder
<1>7. CASE ProbeHostFails(r)
  BY <1>7 DEF ProbeHostFails
<1>8. CASE BatchFails(r)
  BY <1>8 DEF BatchFails
<1>9. CASE OpenPortCaptureFails(r)
  BY <1>9 DEF OpenPortCaptureFails
<1>10. CASE PortCaptureLost(r)
  BY <1>10 DEF PortCaptureLost
<1> QED BY <1>1, <1>2, <1>3, <1>4, <1>5, <1>6, <1>7, <1>8, <1>9, <1>10 DEF FailureStep

\* What was refused once stays recorded.
LEMMA RefusalsStay ==
  ASSUME NEW r \in Ranges, PipelineStep(r)
  PROVE  refused \subseteq refused'
<1> USE DEF pcVars, handVars, netVars, upVars, PortSide, HostSide, rangeVars
<1>1. CASE RangeStep(r)
  BY <1>1 DEF RangeStep, ResolveGateway, ReportGatewayError, LaunchPair, LaunchDirect, JoinPair,
     ReturnDirect
<1>2. CASE DiscoveryStep(r)
  BY <1>2 DEF DiscoveryStep, StartHostCapture, HostCaptureReady, SendDiscovery,
     ReportDiscoveryError, HostDiscoveryDone, DiscoveryExit, DiscoveryExited
<1>3. CASE HostCaptureStep(r)
  BY <1>3 DEF HostCaptureStep, OpenHostCapture, ReportHostCaptureError, ReportHost, HandOverHost,
     HandOverHostPanics, HostCaptureLeave
<1>4. CASE PortScanStep(r)
  BY <1>4 DEF PortScanStep, StartPortCapture, PortCaptureReady, TakeHost, DrainEnds, ProbeHost,
     SendBatch, BatchesEnd, ReportPortScanError, PortScanDone, PortScanExit
<1>5. CASE PortCaptureStep(r)
  BY <1>5 DEF PortCaptureStep, OpenPortCapture, ReportPortCaptureError, ReportPort,
     PortCaptureLeave
<1>6. CASE NetworkStep(r)
  BY <1>6 DEF NetworkStep, HearArp, HearEcho, Hear, HearReply
<1>7. CASE FailureStep(r)
  BY <1>7 DEF FailureStep, ResolveGatewayFails, OpenMulticastFails, SendDiscoveryFails,
     OpenHostCaptureFails, HostCaptureLost, CompileFilterFails, ProbeHostFails, BatchFails,
     OpenPortCaptureFails, PortCaptureLost
<1> QED BY <1>1, <1>2, <1>3, <1>4, <1>5, <1>6, <1>7 DEF PipelineStep

\* The step lemma of SendersLeaveLast, for all ranges.
LEMMA PipelineQuiet ==
  ASSUME NEW r \in Ranges, RangeInv, PipelineStep(r),
         \A q \in Ranges \ refused : SendersLeaveLast(q)
  PROVE  \A q \in Ranges \ refused' : SendersLeaveLast(q)'
<1>0. refused \subseteq refused'
  BY RefusalsStay
<1>1. r \notin refused' => SendersLeaveLast(r)'
  BY <1>0, RangeStepQuiet, DiscoveryStepQuiet, HostCaptureStepQuiet, PortScanStepQuiet,
     PortCaptureStepQuiet, NetworkStepQuiet, FailureStepQuiet DEF PipelineStep
<1>2. \A q \in Ranges \ (refused' \cup {r}) : SendersLeaveLast(q)'
  BY <1>0, PipelineStepLocal DEF StepOf, OthersSame, SendersLeaveLast
<1> QED BY <1>1, <1>2

\* A range that is done will send nothing any more.
LEMMA DoneIsQuiet ==
  ASSUME NEW r \in Ranges, RangeInv, rangePc[r] = "done", SendersLeaveLast(r)
  PROVE  RangeSilent(r)
<1>1. CASE mode[r] \in Discovery
  BY <1>1, DoneIsSilent
<1>2. CASE mode[r] = "direct"
  <2>1. discPc[r] = "off" /\ hearPc[r] = "off"
    BY <1>2 DEF RangeInv, RangeOK, StartedInOrder
  <2>2. scanPc[r] \in {"off", "end"} /\ replyPc[r] \in {"off", "leave", "end"}
    BY <1>2 DEF SendersLeaveLast, RangeInv, RangeOK, StartedInOrder
  <2> QED BY <2>1, <2>2 DEF RangeSilent
<1>3. mode[r] # "none"
  BY DEF RangeInv, RangeOK, StartedInOrder
<1> QED BY <1>1, <1>2, <1>3 DEF RangeInv, RangeType, Discovery, OnLink

\* Nor will one that has not been started.
LEMMA OffIsSilent ==
  ASSUME NEW r \in Ranges, RangeInv, rangePc[r] = "off"
  PROVE  RangeSilent(r)
BY DEF RangeInv, RangeOK, StartedInOrder, RangeSilent

\* A range that can still step has not joined, or will send nothing: as the
\* closing waits for all ranges, no step of a range meets a closed channel, unless
\* the range was refused a transmission.
LEMMA PipelineDoesNotPanic ==
  ASSUME NEW r \in Ranges, RangeInv, PipelineStep(r), SendersLeaveLast(r),
         findingsClosed \/ errsClosed => rangePc[r] \in {"off", "done"},
         ~panicked
  PROVE  ~panicked'
<1>1. findingsClosed \/ errsClosed => RangeSilent(r)
  BY DoneIsQuiet, OffIsSilent
<1>2. ~HandOverHostPanics(r)
  BY DEF HandOverHostPanics, SendersLeaveLast
<1> QED BY <1>1, <1>2, UsesChannels DEF ChannelUse, RangeSilent, SendFinding, SendError, channelVars

===============================================================================
