-------------------------- MODULE SessionStreamProofs --------------------------
(***************************************************************************)
(* Theorems about what the caller of Scan is given: the errors and the     *)
(* findings of a scan on their way from the goroutines that report them to *)
(* Wait and to Findings.  Three invariants lie under them: SpokenInv (who  *)
(* has reported an error is past the place where it does), CollectorInv    *)
(* (where the errors are) and FeedInv (where the findings are).            *)
(***************************************************************************)
EXTENDS ScanSessionProofs, SequenceTheorems

-------------------------------------------------------------------------------
(* Who reports which error.                                                *)

\* Once a goroutine of the range is past its report it does not come back.
StaysPast(r) ==
  /\ rangePc[r] = "done" => rangePc'[r] = "done"
  /\ discPc[r] \in {"exit", "exiting", "end"} => discPc'[r] \in {"exit", "exiting", "end"}
  /\ hearPc[r] \in {"leave", "end"} => hearPc'[r] \in {"leave", "end"}
  /\ scanPc[r] \in {"exit", "end"} => scanPc'[r] \in {"exit", "end"}
  /\ replyPc[r] \in {"leave", "end"} => replyPc'[r] \in {"leave", "end"}

\* A goroutine of the range reports an error, and is then past its report.
Speaks(r) ==
  \/ /\ rangePc[r] = "fail" /\ rangePc'[r] = "done"
     /\ raised' = Append(raised, ErrorFrom(r, "range"))
  \/ /\ discPc[r] = "fail" /\ discPc'[r] = "exit"
     /\ raised' = Append(raised, ErrorFrom(r, "discovery"))
  \/ /\ hearPc[r] = "fail" /\ hearPc'[r] = "leave"
     /\ raised' = Append(raised, ErrorFrom(r, "hostCapture"))
  \/ /\ scanPc[r] = "fail" /\ scanPc'[r] = "exit"
     /\ raised' = Append(raised, ErrorFrom(r, "portScan"))
  \/ /\ replyPc[r] = "fail" /\ replyPc'[r] = "leave"
     /\ raised' = Append(raised, ErrorFrom(r, "portCapture"))

\* The range goroutine.
LEMMA RangeStepSpeaks ==
  ASSUME NEW r \in Ranges, RangeInv, RangeStep(r)
  PROVE  StaysPast(r) /\ (raised' = raised \/ Speaks(r))
<1> USE DEF RangeInv, RangeType, StaysPast, Speaks, handVars, netVars, upVars
<1>1. CASE ReportGatewayError(r)
  BY <1>1 DEF ReportGatewayError, SendError
<1>2. CASE LaunchPair(r) \/ LaunchDirect(r)
  BY <1>2 DEF LaunchPair, LaunchDirect, RangeOK, StartedInOrder, channelVars
<1>3. CASE ResolveGateway(r) \/ JoinPair(r) \/ ReturnDirect(r)
  BY <1>3 DEF ResolveGateway, JoinPair, ReturnDirect, channelVars
<1> QED BY <1>1, <1>2, <1>3 DEF RangeStep

\* The sender of host discovery.
LEMMA DiscoveryStepSpeaks ==
  ASSUME NEW r \in Ranges, RangeInv, DiscoveryStep(r)
  PROVE  StaysPast(r) /\ (raised' = raised \/ Speaks(r))
<1> USE DEF RangeInv, RangeType, StaysPast, Speaks, PortSide, upVars
<1>1. CASE ReportDiscoveryError(r)
  BY <1>1 DEF ReportDiscoveryError, SendError
<1>2. CASE StartHostCapture(r)
  BY <1>2 DEF StartHostCapture, RangeOK, StartedInOrder, channelVars
<1>3. CASE HostCaptureReady(r) \/ SendDiscovery(r) \/ HostDiscoveryDone(r)
  BY <1>3 DEF HostCaptureReady, SendDiscovery, HostDiscoveryDone, channelVars
<1>4. CASE DiscoveryExit(r) \/ DiscoveryExited(r)
  BY <1>4 DEF DiscoveryExit, DiscoveryExited, channelVars
<1> QED BY <1>1, <1>2, <1>3, <1>4 DEF DiscoveryStep

\* The capture of host discovery.
LEMMA HostCaptureStepSpeaks ==
  ASSUME NEW r \in Ranges, RangeInv, HostCaptureStep(r)
  PROVE  StaysPast(r) /\ (raised' = raised \/ Speaks(r))
<1> USE DEF RangeInv, RangeType, StaysPast, Speaks, PortSide, upVars
<1>1. CASE ReportHostCaptureError(r)
  BY <1>1 DEF ReportHostCaptureError, SendError
<1>2. CASE ReportHost(r)
  BY <1>2 DEF ReportHost, SendFinding
<1>3. CASE OpenHostCapture(r) \/ HandOverHost(r) \/ HostCaptureLeave(r)
  BY <1>3 DEF OpenHostCapture, HandOverHost, HostCaptureLeave, channelVars
<1>4. CASE HandOverHostPanics(r)
  BY <1>4 DEF HandOverHostPanics, rangeVars
<1> QED BY <1>1, <1>2, <1>3, <1>4 DEF HostCaptureStep

\* The sender of the port scan.
LEMMA PortScanStepSpeaks ==
  ASSUME NEW r \in Ranges, RangeInv, PortScanStep(r)
  PROVE  StaysPast(r) /\ (raised' = raised \/ Speaks(r))
<1> USE DEF RangeInv, RangeType, StaysPast, Speaks, HostSide
<1>1. CASE ReportPortScanError(r)
  BY <1>1 DEF ReportPortScanError, SendError
<1>2. CASE StartPortCapture(r)
  BY <1>2 DEF StartPortCapture, RangeOK, StartedInOrder, channelVars
<1>3. CASE PortCaptureReady(r) \/ TakeHost(r) \/ DrainEnds(r) \/ ProbeHost(r)
  BY <1>3 DEF PortCaptureReady, TakeHost, DrainEnds, ProbeHost, channelVars
<1>4. CASE SendBatch(r) \/ BatchesEnd(r) \/ PortScanDone(r) \/ PortScanExit(r)
  BY <1>4 DEF SendBatch, BatchesEnd, PortScanDone, PortScanExit, channelVars, pcVars
<1> QED BY <1>1, <1>2, <1>3, <1>4 DEF PortScanStep

\* The capture of the port scan.
LEMMA PortCaptureStepSpeaks ==
  ASSUME NEW r \in Ranges, RangeInv, PortCaptureStep(r)
  PROVE  StaysPast(r) /\ (raised' = raised \/ Speaks(r))
<1> USE DEF RangeInv, RangeType, StaysPast, Speaks, HostSide
<1>1. CASE ReportPortCaptureError(r)
  BY <1>1 DEF ReportPortCaptureError, SendError
<1>2. CASE ReportPort(r)
  BY <1>2 DEF ReportPort, SendFinding
<1>3. CASE OpenPortCapture(r) \/ PortCaptureLeave(r)
  BY <1>3 DEF OpenPortCapture, PortCaptureLeave, channelVars
<1> QED BY <1>1, <1>2, <1>3 DEF PortCaptureStep

\* Captured packets, and the calls that fail: nothing is reported yet.
LEMMA OutsideStepSpeaks ==
  ASSUME NEW r \in Ranges, RangeInv, NetworkStep(r) \/ FailureStep(r)
  PROVE  StaysPast(r) /\ raised' = raised
<1> USE DEF RangeInv, RangeType, StaysPast, Hear, PortSide, HostSide, upVars, netVars,
        handVars, channelVars
<1>1. CASE NetworkStep(r)
  BY <1>1 DEF NetworkStep, HearArp, HearEcho, HearReply
<1>2. CASE ResolveGatewayFails(r) \/ OpenMulticastFails(r) \/ SendDiscoveryFails(r)
  BY <1>2 DEF ResolveGatewayFails, OpenMulticastFails, SendDiscoveryFails
<1>3. CASE OpenHostCaptureFails(r) \/ HostCaptureLost(r) \/ CompileFilterFails(r)
  BY <1>3 DEF OpenHostCaptureFails, HostCaptureLost, CompileFilterFails
<1>4. CASE ProbeHostFails(r) \/ BatchFails(r) \/ OpenPortCaptureFails(r) \/ PortCaptureLost(r)
  BY <1>4 DEF ProbeHostFails, BatchFails, OpenPortCaptureFails, PortCaptureLost
<1> QED BY <1>1, <1>2, <1>3, <1>4 DEF FailureStep

\* A step of a range leaves nobody's report undone and adds at most one error.
LEMMA PipelineSpeaks ==
  ASSUME NEW r \in Ranges, RangeInv, PipelineStep(r)
  PROVE  (\A q \in Ranges : StaysPast(q)) /\ (raised' = raised \/ Speaks(r))
<1>1. StaysPast(r) /\ (raised' = raised \/ Speaks(r))
  BY RangeStepSpeaks, DiscoveryStepSpeaks, HostCaptureStepSpeaks, PortScanStepSpeaks,
     PortCaptureStepSpeaks, OutsideStepSpeaks DEF PipelineStep
<1>2. \A q \in Ranges \ {r} : StaysPast(q)
  BY PipelineStepLocal DEF StepOf, OthersSame, StaysPast
<1> QED BY <1>1, <1>2

\* Two goroutines have two errors.
LEMMA ErrorsDiffer ==
  \A q, r, g, k : ErrorFrom(q, g) = ErrorFrom(r, k) => q = r /\ g = k
BY DEF ErrorFrom

\* A step may add an error of somebody who had not reported one and now has, and
\* nobody's report is undone.
NewVoice ==
  /\ Spoken \subseteq Spoken'
  /\ raised' = raised \/ \E e \in Error \ Spoken : e \in Spoken' /\ raised' = Append(raised, e)

\* A step of a range does no more.
LEMMA RangeVoice ==
  ASSUME IInv, RangeMoves
  PROVE  NewVoice
<1>1. PICK r \in Ranges : PipelineStep(r) /\ UNCHANGED <<streamVars, sessionVars>>
  BY DEF RangeMoves
<1>2. (\A q \in Ranges : StaysPast(q)) /\ (raised' = raised \/ Speaks(r))
  BY <1>1, PipelineSpeaks DEF IInv
<1>3. Spoken \subseteq Spoken'
  BY <1>1, <1>2 DEF Spoken, StaysPast, sessionVars, localVars
<1>4. ASSUME NEW g \in {"range", "discovery", "hostCapture", "portScan", "portCapture"}
      PROVE  /\ ErrorFrom(r, g) \in Error /\ ErrorFrom(r, g) # LocalError
             /\ \A q \in Ranges, k \in {"range", "discovery", "hostCapture", "portScan", "portCapture"} :
                  ErrorFrom(r, g) = ErrorFrom(q, k) => q = r /\ k = g
  BY ErrorsDiffer DEF ErrorFrom, Error, LocalError
<1>5. CASE Speaks(r)
  <2>1. \E e \in Error : e \notin Spoken /\ e \in Spoken' /\ raised' = Append(raised, e)
    BY <1>4, <1>5 DEF Speaks, Spoken
  <2> QED BY <1>3, <2>1 DEF NewVoice
<1> QED BY <1>2, <1>3, <1>5 DEF NewVoice

\* Nor does any other step of a scan.
LEMMA NextVoice ==
  ASSUME IInv, [Next]_vars
  PROVE  NewVoice
<1>1. CASE Scan
  <2>1. raised' = raised /\ UNCHANGED <<discPc, hearPc, scanPc, replyPc>>
    BY <1>1 DEF Scan, RefuseRule, DispatchDirect, DispatchGateway, DispatchArp, DispatchMulticast,
       Dispatch, StartRange, DispatchFails, ReturnStream, ReturnLocalStream, channelVars, rangeVars
  <2>2. \A q \in Ranges : rangePc[q] = "done" => rangePc'[q] = "done"
    BY <1>1 DEF Scan, RefuseRule, DispatchDirect, DispatchGateway, DispatchArp, DispatchMulticast,
       Dispatch, StartRange, DispatchFails, ReturnStream, ReturnLocalStream, rangeVars, IInv,
       RangeInv, RangeType
  <2>3. localPc \in {"report", "close", "end"} => localPc' = localPc
    BY <1>1 DEF Scan, RefuseRule, DispatchDirect, DispatchGateway, DispatchArp, DispatchMulticast,
       Dispatch, DispatchFails, ReturnStream, ReturnLocalStream, OpenStream, sessionVars, localVars,
       IInv, ClosingOrder
  <2> QED BY <2>1, <2>2, <2>3 DEF NewVoice, Spoken
<1>2. CASE RangeMoves
  BY <1>2, RangeVoice
<1>3. CASE StreamMoves \/ Closer \/ UNCHANGED vars
  <2>1. raised' = raised
    BY <1>3 DEF StreamMoves, StreamStep, Forwarder, ForwarderTakes, TakeFinding, ForwarderSends,
       ForwarderCancelled, ForwarderEnds, Collector, CollectorReturnsError, TakeError,
       CollectorEnds, Caller, CallerReceives, CallerSeesEnd, WaitReturns, Closer,
       CloserClosesFindings, CloserClosesErrors, CloseFindings, CloseErrors, vars, channelVars
  <2>2. UNCHANGED <<rangeVars, localVars>>
    BY <1>3 DEF StreamMoves, Closer, CloserClosesFindings, CloserClosesErrors, vars, sessionVars
  <2> QED BY <2>1, <2>2 DEF NewVoice, Spoken, rangeVars, localVars
<1>4. CASE LocalMoves
  <2>1. UNCHANGED <<rangePc, discPc, hearPc, scanPc, replyPc>>
    BY <1>4 DEF LocalMoves, ButLocal, rangeVars
  <2>2. \/ /\ raised' = raised
           /\ localPc \in {"report", "close", "end"} => localPc' \in {"report", "close", "end"}
        \/ /\ raised' = Append(raised, LocalError) /\ localPc = "fail" /\ localPc' = "report"
    BY <1>4 DEF LocalMoves, LocalStep, ListSockets, ListSocketsFails, ReportLocalError, SendError,
       ReportSocket, SendFinding, CloseLocalErrors, CloseLocalFindings, CloseErrors, CloseFindings,
       channelVars, IInv, ClosingOrder
  <2>3. LocalError \in Error /\ \A q \in Ranges, g \in {"range", "discovery", "hostCapture",
          "portScan", "portCapture"} : ErrorFrom(q, g) # LocalError
    BY ErrorsDiffer DEF ErrorFrom, Error, LocalError, NoRange
  <2> QED BY <2>1, <2>2, <2>3 DEF NewVoice, Spoken
<1> QED BY <1>1, <1>2, <1>3, <1>4 DEF Next, Finished

\* SpokenInv holds in every reachable state.
THEOREM SpokenAlways == Spec => []SpokenInv
<1>1. Init => SpokenInv
  BY DEF Init, ChannelsInit, SpokenInv, OneErrorEach
<1>2. IInv /\ SpokenInv /\ [Next]_vars => SpokenInv'
  <2> SUFFICES ASSUME IInv, SpokenInv, NewVoice PROVE SpokenInv'
    BY NextVoice
  <2>0. raised \in Seq(Error)
    BY DEF IInv, TypeOK, ChannelsType
  <2>1. CASE raised' = raised
    BY <2>1 DEF NewVoice, SpokenInv, OneErrorEach
  <2>2. ASSUME NEW e \in Error \ Spoken, e \in Spoken', raised' = Append(raised, e)
        PROVE  SpokenInv'
    <3>1. /\ DOMAIN raised' = 1..(Len(raised) + 1) /\ DOMAIN raised = 1..Len(raised)
          /\ \A i \in 1..Len(raised) : raised'[i] = raised[i]
          /\ raised'[Len(raised) + 1] = e
      BY <2>0, <2>2
    <3>2. \A i \in 1..Len(raised) : raised[i] \in Spoken /\ raised[i] # e
      BY <2>0, <2>2 DEF SpokenInv
    <3>3. Len(raised) \in Nat
      BY <2>0
    <3>4. \A i \in 1..(Len(raised) + 1) : i \in 1..Len(raised) \/ i = Len(raised) + 1
      BY <3>3
    <3>5. OneErrorEach'
      BY <3>1, <3>2, <3>4 DEF SpokenInv, OneErrorEach
    <3>6. \A i \in DOMAIN raised' : raised'[i] \in Spoken'
      BY <2>2, <3>1, <3>2, <3>4 DEF NewVoice
    <3> QED BY <3>5, <3>6 DEF SpokenInv
  <2> QED BY <2>1, <2>2 DEF NewVoice
<1> QED BY <1>1, <1>2, Invariance, PTL DEF Spec

\* No goroutine of a scan reports two errors, for any number of ranges and whatever
\* fails, so that a range by itself never fills errorChan.
THEOREM EachSpeaksOnce == Spec => []OneErrorEach
<1>1. SpokenInv => OneErrorEach
  BY DEF SpokenInv
<1> QED BY <1>1, SpokenAlways, PTL

-------------------------------------------------------------------------------
(* What a step of a scan is to the stream.                                 *)

\* Ranges, closer, local scan and dispatch loop leave the stream alone.  They may
\* add a finding or an error to a channel that is open, or close a channel.
Feeds ==
  /\ UNCHANGED streamVars
  /\ (findingsClosed => findingsClosed') /\ (errsClosed => errsClosed')
  /\ \/ UNCHANGED <<findings, reported>>
     \/ /\ ~findingsClosed
        /\ \E f \in Finding : findings' = Append(findings, f) /\ reported' = Append(reported, f)
  /\ \/ UNCHANGED <<errs, raised>>
     \/ /\ ~errsClosed
        /\ \E e \in Error : errs' = Append(errs, e) /\ raised' = Append(raised, e)

\* Scan returns: an error, or a Stream.
Returns ==
  /\ callerPc = "scan" /\ UNCHANGED channelVars
  /\ \/ OpenStream
     \/ /\ callerPc' = "refused"
        /\ UNCHANGED <<out, outClosed, fwdPc, fwdItem, collPc, groupErr, cancelled, delivered, waitErr>>

\* A step is one of these or a step of the stream.
LEMMA ThreeKinds ==
  ASSUME IInv, [Next]_vars
  PROVE  Feeds \/ Returns \/ StreamStep
<1>1. CASE Scan
  <2>1. CASE DispatchDirect \/ DispatchGateway \/ DispatchArp \/ DispatchMulticast
    BY <2>1 DEF DispatchDirect, DispatchGateway, DispatchArp, DispatchMulticast, Dispatch, Feeds,
       channelVars
  <2>2. CASE RefuseRule \/ DispatchFails
    BY <2>2 DEF RefuseRule, DispatchFails, Dispatching, Returns
  <2>3. CASE ReturnStream \/ ReturnLocalStream
    BY <2>3 DEF ReturnStream, ReturnLocalStream, OpenStream, Returns
  <2> QED BY <1>1, <2>1, <2>2, <2>3 DEF Scan
<1>2. CASE RangeMoves
  <2>1. PICK r \in Ranges : PipelineStep(r) /\ UNCHANGED <<streamVars, sessionVars>>
    BY <1>2 DEF RangeMoves
  <2>2. CASE UNCHANGED channelVars \/ HandOverHostPanics(r)
    BY <2>1, <2>2 DEF HandOverHostPanics, channelVars, Feeds
  <2>3. ASSUME NEW f \in Finding, SendFinding(f) PROVE Feeds
    BY <2>1, <2>3 DEF SendFinding, Feeds
  <2>4. ASSUME NEW e \in Error, SendError(e) PROVE Feeds
    BY <2>1, <2>4 DEF SendError, Feeds
  <2>5. ChannelUse(r)
    BY <2>1, UsesChannels DEF IInv
  <2> QED BY <2>2, <2>3, <2>4, <2>5 DEF ChannelUse
<1>3. CASE StreamMoves
  BY <1>3 DEF StreamMoves
<1>4. CASE Closer
  BY <1>4 DEF Closer, CloserClosesFindings, CloserClosesErrors, CloseFindings, CloseErrors, Feeds
<1>5. CASE LocalMoves
  <2>1. LocalError \in Error /\ \A h \in Hosts : PortFinding(h) \in Finding
    BY DEF LocalError, ErrorFrom, NoRange, Error, PortFinding, Finding
  <2>2. sockets \subseteq Hosts /\ UNCHANGED streamVars
    BY <1>5 DEF LocalMoves, ButLocal, IInv, TypeOK, LocalType
  <2>3. CASE ReportLocalError
    BY <2>1, <2>2, <2>3 DEF ReportLocalError, SendError, Feeds
  <2>4. CASE ReportSocket
    <3>1. PICK h \in sockets : SendFinding(PortFinding(h))
      BY <2>4 DEF ReportSocket
    <3> QED BY <2>1, <2>2, <3>1 DEF SendFinding, Feeds
  <2>5. CASE CloseLocalErrors \/ CloseLocalFindings
    BY <2>2, <2>5 DEF CloseLocalErrors, CloseLocalFindings, CloseErrors, CloseFindings, Feeds
  <2>6. CASE ListSockets \/ ListSocketsFails
    BY <2>2, <2>6 DEF ListSockets, ListSocketsFails, channelVars, Feeds
  <2> QED BY <1>5, <2>3, <2>4, <2>5, <2>6 DEF LocalMoves, LocalStep
<1>6. CASE UNCHANGED vars
  BY <1>6 DEF vars, channelVars, Feeds
<1> QED BY <1>1, <1>2, <1>3, <1>4, <1>5, <1>6 DEF Next, Finished

-------------------------------------------------------------------------------
(* The errors.                                                             *)

\* The collector takes the oldest error, which is the first that was raised.
LEMMA CollectorStep ==
  ASSUME IInv, CollectorInv, [Next]_vars
  PROVE  CollectorInv'
<1>0. /\ errs \in Seq(Error) /\ raised \in Seq(Error) /\ NoError \notin Error
      /\ collPc \in {"off", "recv", "end"}
  BY SessionAssumption DEF IInv, TypeOK, ChannelsType, StreamType
<1>1. CASE Feeds
  <2>1. UNCHANGED <<collPc, groupErr, cancelled, callerPc, waitErr>>
    BY <1>1 DEF Feeds, streamVars
  <2>2. CASE UNCHANGED <<errs, raised>>
    BY <1>1, <2>1, <2>2 DEF Feeds, CollectorInv
  <2>3. ASSUME ~errsClosed, NEW e \in Error,
               errs' = Append(errs, e), raised' = Append(raised, e)
        PROVE  CollectorInv'
    <3>2. raised' # <<>> /\ (raised # <<>> => raised'[1] = raised[1])
      BY <1>0, <2>3
    <3>3. collPc # "end" => errs' = raised'
      BY <2>3 DEF CollectorInv
    <3> QED BY <2>1, <2>3, <3>2, <3>3 DEF CollectorInv
  <2> QED BY <1>1, <2>2, <2>3 DEF Feeds
<1>2. CASE Returns
  BY <1>2 DEF Returns, OpenStream, channelVars, CollectorInv
<1>3. CASE CollectorReturnsError
  <2>1. errs # <<>> /\ errs = raised /\ Head(errs) = raised[1] /\ raised' = raised
    BY <1>0, <1>3 DEF CollectorReturnsError, TakeError, CollectorInv
  <2> QED BY <1>3, <2>1 DEF CollectorReturnsError, CollectorInv
<1>4. CASE CollectorEnds
  BY <1>4 DEF CollectorEnds, channelVars, CollectorInv
<1>5. CASE Forwarder \/ Caller
  BY <1>5 DEF Forwarder, ForwarderTakes, TakeFinding, ForwarderSends, ForwarderCancelled,
     ForwarderEnds, Caller, CallerReceives, CallerSeesEnd, WaitReturns, channelVars, CollectorInv
<1> QED BY <1>1, <1>2, <1>3, <1>4, <1>5, ThreeKinds DEF StreamStep, Collector

\* CollectorInv holds in every reachable state.
THEOREM CollectorAlways == Spec => []CollectorInv
<1>1. Init => CollectorInv
  BY DEF Init, ChannelsInit, StreamInit, CollectorInv
<1> QED BY <1>1, CollectorStep, Invariance, PTL DEF Spec

\* Wait returns the first error that any goroutine of the scan reported, and nil only
\* if none did, for any number of ranges and any capacities.
THEOREM FirstErrorReturned == Spec => []FirstErrorWins
<1>1. IInv /\ CollectorInv => FirstErrorWins
  <2> SUFFICES ASSUME IInv, CollectorInv PROVE FirstErrorWins
    OBVIOUS
  <2>1. raised # <<>> => raised[1] # NoError
    BY SessionAssumption DEF IInv, TypeOK, ChannelsType
  <2>2. collPc \in {"off", "recv", "end"}
    BY DEF IInv, TypeOK, StreamType
  <2> QED BY <2>1, <2>2 DEF CollectorInv, FirstErrorWins
<1> QED BY <1>1, CollectorAlways, Invariance, PTL

-------------------------------------------------------------------------------
(* The findings.                                                           *)

\* A finding added at the end of the last queue is added at the end of all.
LEMMA AddedLast ==
  ASSUME NEW S, NEW s \in Seq(S), NEW t \in Seq(S), NEW e \in S
  PROVE  s \o Append(t, e) = Append(s \o t, e)
<1>1. s \o t \in Seq(S) /\ <<e>> \in Seq(S)
  BY ConcatProperties
<1>2. s \o Append(t, e) = s \o (t \o <<e>>) /\ Append(s \o t, e) = (s \o t) \o <<e>>
  BY <1>1, AppendIsConcat
<1> QED BY <1>1, <1>2, ConcatAssociative

\* The first finding of a queue may as well be the last of the one before.
LEMMA HandedOn ==
  ASSUME NEW S, NEW s \in Seq(S), NEW t \in Seq(S), t # <<>>
  PROVE  Append(s, Head(t)) \o Tail(t) = s \o t
<1>1. Head(t) \in S /\ Tail(t) \in Seq(S) /\ <<Head(t)>> \in Seq(S)
  BY HeadTailProperties
<1>2. Append(s, Head(t)) = s \o <<Head(t)>>
  BY <1>1, AppendIsConcat
<1>3. <<Head(t)>> \o Tail(t) = t
  BY <1>1
<1> QED BY <1>1, <1>2, <1>3, ConcatAssociative

\* The types of the queues a finding goes through.
QueueTypes ==
  /\ delivered \in Seq(Finding) /\ out \in Seq(Finding) /\ findings \in Seq(Finding)
  /\ InHand \in Seq(Finding) /\ delivered \o out \in Seq(Finding)
  /\ (delivered \o out) \o InHand \in Seq(Finding) /\ reported \in Seq(Finding)
  /\ NoFinding \notin Finding /\ NoError \notin Error
  /\ fwdPc = "send" => fwdItem \in Finding

\* They are those of IInv.
LEMMA QueuesTyped == ASSUME IInv PROVE QueueTypes
<1>1. /\ delivered \in Seq(Finding) /\ out \in Seq(Finding) /\ findings \in Seq(Finding)
      /\ reported \in Seq(Finding) /\ fwdItem \in Finding \cup {NoFinding}
      /\ fwdPc = "send" => fwdItem \in Finding
  BY DEF IInv, TypeOK, ChannelsType, StreamType
<1>2. InHand \in Seq(Finding)
  BY <1>1 DEF InHand
<1>3. delivered \o out \in Seq(Finding)
  BY <1>1, ConcatProperties
<1>4. (delivered \o out) \o InHand \in Seq(Finding)
  BY <1>2, <1>3, ConcatProperties
<1> QED BY <1>1, <1>2, <1>3, <1>4, SessionAssumption DEF QueueTypes

\* What is left of FeedInv when the queues are looked at separately.
EndsInOrder ==
  /\ fwdPc \in {"off", "recv"} => fwdItem = NoFinding
  /\ fwdPc = "end" =>
       groupErr # NoError \/ (findingsClosed /\ findings = <<>> /\ fwdItem = NoFinding)
  /\ outClosed => fwdPc = "end"
  /\ callerPc \in {"wait", "end"} => outClosed /\ out = <<>>
  /\ callerPc = "scan" => fwdPc = "off"

\* No finding is lost, doubled or overtaken on its way to the caller.
LEMMA FeedStep ==
  ASSUME IInv, CollectorInv, FeedInv, [Next]_vars
  PROVE  FeedInv'
<1> DEFINE Ahead == (delivered \o out) \o InHand
<1>0. QueueTypes /\ EndsInOrder /\ reported = Ahead \o findings
  BY QueuesTyped DEF FeedInv, EndsInOrder
<1>1. SUFFICES EndsInOrder' /\ reported' = Ahead' \o findings'
  BY DEF FeedInv, EndsInOrder
<1>2. CASE Feeds
  <2>1. Ahead' = Ahead
    BY <1>2 DEF Feeds, streamVars, InHand
  <2>2. CASE UNCHANGED <<findings, reported>>
    BY <1>0, <1>2, <2>1, <2>2 DEF Feeds, streamVars, EndsInOrder
  <2>3. ASSUME ~findingsClosed, NEW f \in Finding,
               findings' = Append(findings, f), reported' = Append(reported, f)
        PROVE  EndsInOrder' /\ reported' = Ahead' \o findings'
    <3>1. Ahead \o findings' = Append(Ahead \o findings, f)
      BY <1>0, <2>3, AddedLast DEF QueueTypes
    <3>2. EndsInOrder'
      BY <1>0, <1>2, <2>3 DEF Feeds, streamVars, EndsInOrder
    <3> QED BY <1>0, <2>1, <2>3, <3>1, <3>2
  <2> QED BY <1>2, <2>2, <2>3 DEF Feeds
<1>3. CASE Returns
  <2>1. Ahead' = Ahead /\ UNCHANGED <<findings, reported>>
    BY <1>3 DEF Returns, OpenStream, InHand, channelVars
  <2>2. EndsInOrder'
    BY <1>0, <1>3 DEF Returns, OpenStream, EndsInOrder, channelVars
  <2> QED BY <1>0, <2>1, <2>2
<1>4. CASE ForwarderTakes
  <2>1. /\ fwdItem = NoFinding /\ findings # <<>> /\ Head(findings) \in Finding
        /\ findings' = Tail(findings) /\ fwdItem' = Head(findings) /\ reported' = reported
        /\ UNCHANGED <<delivered, out>>
    BY <1>0, <1>4, HeadTailProperties DEF ForwarderTakes, TakeFinding, QueueTypes, EndsInOrder
  <2>2. InHand = <<>> /\ InHand' = <<Head(findings)>>
    BY <1>0, <2>1 DEF InHand, QueueTypes
  <2>3. Ahead = delivered \o out /\ Ahead' = Append(delivered \o out, Head(findings))
    BY <1>0, <2>1, <2>2, ConcatEmptySeq, AppendIsConcat DEF QueueTypes
  <2>4. Ahead' \o findings' = Ahead \o findings
    <3>1. Append(delivered \o out, Head(findings)) \o Tail(findings)
             = (delivered \o out) \o findings
      BY <1>0, <2>1, HandedOn DEF QueueTypes
    <3> HIDE DEF Ahead
    <3> QED BY <2>1, <2>3, <3>1
  <2>5. EndsInOrder'
    BY <1>0, <1>4 DEF ForwarderTakes, TakeFinding, EndsInOrder
  <2> QED BY <1>0, <2>1, <2>4, <2>5
<1>5. CASE ForwarderSends
  <2>1. /\ fwdItem \in Finding /\ fwdItem' = NoFinding /\ out' = Append(out, fwdItem)
        /\ UNCHANGED <<delivered, findings, reported>>
    BY <1>0, <1>5 DEF ForwarderSends, QueueTypes, channelVars
  <2>2. InHand = <<fwdItem>> /\ InHand' = <<>>
    BY <1>0, <2>1 DEF InHand, QueueTypes
  <2>3. delivered \o out' = Append(delivered \o out, fwdItem)
    BY <1>0, <2>1, AddedLast DEF QueueTypes
  <2>4. Append(delivered \o out, fwdItem) = Ahead /\ Append(delivered \o out, fwdItem) \in Seq(Finding)
    BY <1>0, <2>1, <2>2, AppendIsConcat DEF QueueTypes
  <2>5. Ahead' = Ahead
    BY <2>1, <2>2, <2>3, <2>4, ConcatEmptySeq
  <2>6. EndsInOrder'
    BY <1>0, <1>5 DEF ForwarderSends, EndsInOrder, channelVars
  <2> QED BY <1>0, <2>1, <2>5, <2>6
<1>6. CASE ForwarderCancelled \/ ForwarderEnds
  <2>1. Ahead' = Ahead /\ UNCHANGED <<findings, reported>>
    BY <1>6 DEF ForwarderCancelled, ForwarderEnds, InHand, channelVars
  <2>2. cancelled => groupErr # NoError
    <3>1. raised # <<>> => raised[1] # NoError
      BY SessionAssumption DEF IInv, TypeOK, ChannelsType
    <3> QED BY <3>1 DEF CollectorInv
  <2>3. EndsInOrder'
    BY <1>0, <1>6, <2>2 DEF ForwarderCancelled, ForwarderEnds, EndsInOrder, channelVars
  <2> QED BY <1>0, <2>1, <2>3
<1>7. CASE Collector
  <2>1. Ahead' = Ahead /\ UNCHANGED <<findings, reported>>
    BY <1>7 DEF Collector, CollectorReturnsError, TakeError, CollectorEnds, InHand, channelVars
  <2>2. groupErr' = groupErr \/ groupErr' # NoError
    <3>1. errs # <<>> => Head(errs) # NoError
      BY SessionAssumption DEF IInv, TypeOK, ChannelsType
    <3> QED BY <1>7, <3>1 DEF Collector, CollectorReturnsError, TakeError, CollectorEnds
  <2>3. EndsInOrder'
    BY <1>0, <1>7, <2>2 DEF Collector, CollectorReturnsError, TakeError, CollectorEnds,
       EndsInOrder, channelVars
  <2> QED BY <1>0, <2>1, <2>3
<1>8. CASE CallerReceives
  <2>1. delivered' \o out' = delivered \o out
    BY <1>0, <1>8, HandedOn DEF CallerReceives, QueueTypes
  <2>2. Ahead' = Ahead /\ UNCHANGED <<findings, reported>>
    BY <1>8, <2>1 DEF CallerReceives, InHand, channelVars
  <2>3. EndsInOrder'
    BY <1>0, <1>8 DEF CallerReceives, EndsInOrder, channelVars
  <2> QED BY <1>0, <2>2, <2>3
<1>9. CASE CallerSeesEnd \/ WaitReturns
  <2>1. Ahead' = Ahead /\ UNCHANGED <<findings, reported>>
    BY <1>9 DEF CallerSeesEnd, WaitReturns, InHand, channelVars
  <2>2. EndsInOrder'
    BY <1>0, <1>9 DEF CallerSeesEnd, WaitReturns, EndsInOrder, channelVars
  <2> QED BY <1>0, <2>1, <2>2
<1> QED BY <1>2, <1>3, <1>4, <1>5, <1>6, <1>7, <1>8, <1>9, ThreeKinds
        DEF StreamStep, Forwarder, Caller

\* FeedInv holds in every reachable state.
THEOREM FeedAlways == Spec => []FeedInv
<1>1. Init => FeedInv
  <2>1. <<>> \in Seq(Finding)
    OBVIOUS
  <2>2. ((<<>> \o <<>>) \o <<>>) \o <<>> = <<>>
    BY <2>1, ConcatEmptySeq
  <2> QED BY <2>2 DEF Init, ChannelsInit, StreamInit, FeedInv, InHand
<1> QED BY <1>1, FeedStep, Invariance, CollectorAlways, PTL DEF Spec

-------------------------------------------------------------------------------
(* The Stream is an ordered feed.                                          *)

\* What the caller is given next is the oldest finding it has not been given.
LEMMA NextInOrder ==
  ASSUME QueueTypes, reported = ((delivered \o out) \o InHand) \o findings, out # <<>>
  PROVE  Len(delivered) < Len(reported) /\ reported[Len(delivered) + 1] = Head(out)
<1> USE DEF QueueTypes
<1>1. /\ Len(delivered \o out) = Len(delivered) + Len(out) /\ Len(out) \in Nat \ {0}
      /\ Len(delivered) \in Nat /\ (delivered \o out)[Len(delivered) + 1] = out[1]
  BY ConcatProperties, EmptySeq, LenProperties
<1>2. Len(InHand) \in Nat /\ Len(findings) \in Nat
  BY LenProperties
<1>3. /\ Len((delivered \o out) \o InHand) = Len(delivered) + Len(out) + Len(InHand)
      /\ ((delivered \o out) \o InHand)[Len(delivered) + 1] = out[1]
  BY <1>1, <1>2, ConcatProperties
<1>4. /\ Len(reported) = Len(delivered) + Len(out) + Len(InHand) + Len(findings)
      /\ reported[Len(delivered) + 1] = out[1]
  BY <1>1, <1>2, <1>3, ConcatProperties
<1> QED BY <1>1, <1>2, <1>4

\* Every step of a scan is a step of the feed, or is none of the feed's business.
LEMMA FeedNext ==
  ASSUME IInv, CollectorInv, FeedInv, FeedInv', [Next]_vars
  PROVE  [Feed!Next]_Feed!vars
<1> USE DEF Feed!Next, Feed!vars
<1>0. QueueTypes /\ EndsInOrder /\ reported = ((delivered \o out) \o InHand) \o findings
  BY QueuesTyped DEF FeedInv, EndsInOrder
<1>1. CASE Feeds
  <2>1. UNCHANGED <<delivered, callerPc, groupErr>>
    BY <1>1 DEF Feeds, streamVars
  <2>2. CASE reported' = reported
    BY <2>1, <2>2
  <2>3. ASSUME ~findingsClosed, NEW f \in Finding, reported' = Append(reported, f)
        PROVE  Feed!Report(f)
    BY <1>0, <2>1, <2>3 DEF EndsInOrder, Feed!Report
  <2> QED BY <1>1, <2>2, <2>3 DEF Feeds
<1>2. CASE Returns
  BY <1>2 DEF Returns, OpenStream, channelVars
<1>3. CASE Forwarder
  BY <1>3 DEF Forwarder, ForwarderTakes, TakeFinding, ForwarderSends, ForwarderCancelled,
     ForwarderEnds, channelVars
<1>4. CASE CollectorReturnsError
  <2>1. Head(errs) # NoError
    BY <1>4, SessionAssumption DEF CollectorReturnsError, TakeError, IInv, TypeOK, ChannelsType
  <2> QED BY <1>4, <2>1 DEF CollectorReturnsError, TakeError, Feed!Fail
<1>5. CASE CollectorEnds
  BY <1>5 DEF CollectorEnds, channelVars
<1>6. CASE CallerReceives
  BY <1>0, <1>6, NextInOrder DEF CallerReceives, channelVars, Feed!Deliver
<1>7. CASE CallerSeesEnd
  <2>1. groupErr # NoError \/ (out = <<>> /\ InHand = <<>> /\ findings = <<>>)
    BY <1>0, <1>7 DEF CallerSeesEnd, EndsInOrder, InHand
  <2>2. groupErr # NoError \/ delivered = reported
    BY <1>0, <2>1, ConcatEmptySeq DEF QueueTypes
  <2> QED BY <1>7, <2>2 DEF CallerSeesEnd, channelVars, Feed!Finish
<1>8. CASE WaitReturns
  BY <1>8 DEF WaitReturns, channelVars
<1> QED BY <1>1, <1>2, <1>3, <1>4, <1>5, <1>6, <1>7, <1>8, ThreeKinds
        DEF StreamStep, Collector, Caller

\* A scan implements OrderedFeed: its caller receives the findings one by one in the
\* order of their reports, none twice and none invented, and all of them unless an
\* error ends the scan, for any number of ranges, any capacities, whatever fails.
THEOREM StreamIsOrderedFeed == Spec => FeedSpec
<1>1. Init => Feed!Init
  BY DEF Init, ChannelsInit, StreamInit, Feed!Init
<1>2. IInv /\ CollectorInv /\ FeedInv /\ FeedInv' /\ [Next]_vars => [Feed!Next]_Feed!vars
  BY FeedNext
<1> QED BY <1>1, <1>2, Invariance, CollectorAlways, FeedAlways, PTL DEF Spec, FeedSpec, Feed!Spec

===============================================================================
