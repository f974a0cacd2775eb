--------------------------- MODULE ScanSessionProofs ---------------------------
(***************************************************************************)
(* Theorems about ScanSession, for any number of ranges, hosts and channel *)
(* capacities and any set of failing calls.  The steps of the ranges are   *)
(* dealt with in RangePipelineProofs; here they meet the dispatch loop,    *)
(* the closer and the result stream.                                       *)
(***************************************************************************)
EXTENDS ScanSession, RangePipelineProofs

\* What a step of one part leaves alone, cited by the steps of the others.
RangesSame == UNCHANGED rangeVars

\* Nor do the ranges lose their invariant by a step that leaves them alone.
LEMMA RangesSameInv ==
  ASSUME RangeInv, RangesSame
  PROVE  RangeInv'
BY DEF RangesSame, rangeVars, RangeInv, RangeType, RangeOK, CountsGoroutines, StartedInOrder,
   JoinedAll, DiscoveryOwes, PortScanOwes

\* A scan starts in the inductive invariant.
LEMMA InitInv == ASSUME Init PROVE IInv
<1> USE DEF Init
<1>0. /\ <<>> \in Seq(Finding) /\ <<>> \in Seq(Error) /\ Len(<<>>) <= FindingsCap
      /\ Len(<<>>) <= ErrorCap /\ Len(<<>>) <= OutCap
  BY CapsAssumption, StreamAssumption
<1>1. ChannelsType(Finding, Error)
  BY <1>0 DEF ChannelsInit, ChannelsType
<1>2. StreamType(Finding, Error)
  BY <1>0 DEF StreamInit, StreamType
<1>3. RangeInv
  BY RangeInitInv
<1>4. rule \in RuleType /\ gateway \in [Ranges -> BOOLEAN] /\ closerPc = "off" /\ LocalType
  BY RulesAssumption DEF LocalInit, LocalType
<1>5. next \in 1..(N + 1)
  BY SessionAssumption
<1>6. ClosingOrder
  BY DEF ChannelsInit, RangeInit, LocalInit, ClosingOrder
<1> QED BY <1>1, <1>2, <1>3, <1>4, <1>5, <1>6 DEF IInv, TypeOK, RangeInv

-------------------------------------------------------------------------------
(* The dispatch loop.                                                      *)

\* Whatever mode the dispatch loop chooses for a range.
LEMMA DispatchInv ==
  ASSUME IInv, Dispatching, NEW m \in Discovery \cup {"direct"}, NEW gw \in BOOLEAN,
         Dispatch(m, gw)
  PROVE  IInv'
<1>1. next \in Ranges /\ next + 1 \in 1..(N + 1)
  BY SessionAssumption DEF Dispatching, IInv, TypeOK, RuleType
<1>2. RangeInv'
  BY <1>1, StartRangeInv DEF Dispatch, IInv
<1>3. ClosingOrder'
  BY DEF Dispatching, Dispatch, IInv, ClosingOrder, channelVars, streamVars, localVars
<1>4. gateway' \in [Ranges -> BOOLEAN] /\ next' \in 1..(N + 1)
  BY <1>1 DEF Dispatch, IInv, TypeOK
<1> QED BY <1>2, <1>3, <1>4 DEF Dispatch, IInv, TypeOK, RangeInv, ChannelsType, StreamType,
           LocalType, channelVars, streamVars, localVars

\* The dispatch loop, its error return and the return of the Stream.
LEMMA ScanInv == ASSUME IInv, Scan PROVE IInv'
<1>1. CASE DispatchDirect
  BY <1>1, DispatchInv DEF DispatchDirect
<1>2. CASE DispatchGateway
  BY <1>2, DispatchInv DEF DispatchGateway, Discovery
<1>3. CASE DispatchArp
  BY <1>3, DispatchInv DEF DispatchArp, Discovery, OnLink
<1>4. CASE DispatchMulticast
  BY <1>4, DispatchInv DEF DispatchMulticast, Discovery, OnLink
<1>5. CASE DispatchFails \/ RefuseRule
  <2>1. RangeInv'
    BY <1>5, RangesSameInv DEF DispatchFails, RefuseRule, RangesSame, IInv
  <2> QED BY <1>5, <2>1 DEF DispatchFails, RefuseRule, LocalType, localVars, IInv, TypeOK, RangeInv, ChannelsType, StreamType,
             ClosingOrder, channelVars, rangeVars, sessionVars
<1>6. CASE ReturnStream \/ ReturnLocalStream
  <2>1. RangeInv'
    BY <1>6, RangesSameInv DEF ReturnStream, ReturnLocalStream, RangesSame, IInv
  <2> QED BY <1>6, <2>1 DEF ReturnStream, ReturnLocalStream, OpenStream, LocalType, localVars, IInv, TypeOK, RangeInv, ChannelsType,
             StreamType, ClosingOrder, channelVars, rangeVars
<1> QED BY <1>1, <1>2, <1>3, <1>4, <1>5, <1>6 DEF Scan

-------------------------------------------------------------------------------
(* The ranges, the closer and the stream.                                  *)

\* A step of a range: it never takes another range, or itself, back from "done".
LEMMA RangeMovesInv == ASSUME IInv, RangeMoves PROVE IInv'
<1>1. PICK r \in Ranges : PipelineStep(r) /\ UNCHANGED <<streamVars, sessionVars>>
  BY DEF RangeMoves
<1>2. RangeInv' /\ ChannelsType(Finding, Error)'
  BY <1>1, PipelineKeepsInv, ChannelsKeepType DEF IInv, TypeOK
<1>3. findingsClosed' = findingsClosed /\ errsClosed' = errsClosed
  BY <1>1, ChannelsKeepType DEF IInv, TypeOK
<1>4. \A q \in Ranges : rangePc[q] \in {"off", "done"} => rangePc'[q] = rangePc[q]
  BY <1>1, DoneForever DEF IInv
<1>5. StreamType(Finding, Error)'
  BY <1>1 DEF IInv, TypeOK, StreamType, streamVars
<1>6. ClosingOrder'
  BY <1>1, <1>3, <1>4 DEF IInv, ClosingOrder, streamVars, sessionVars, localVars
<1> QED BY <1>1, <1>2, <1>5, <1>6 DEF IInv, TypeOK, RangeInv, sessionVars, localVars, LocalType

\* The closer closes findingsChan after every range is done, and errorChan last.
LEMMA CloserInv == ASSUME IInv, Closer PROVE IInv'
<1>1. RangeInv' /\ StreamType(Finding, Error)'
  BY RangesSameInv DEF Closer, CloserClosesFindings, CloserClosesErrors, RangesSame, IInv,
     TypeOK, StreamType, streamVars
<1>2. ChannelsType(Finding, Error)'
  BY DEF Closer, CloserClosesFindings, CloserClosesErrors, CloseFindings, CloseErrors, IInv,
     TypeOK, ChannelsType
<1>3. ClosingOrder'
  BY DEF Closer, CloserClosesFindings, CloserClosesErrors, CloseFindings, CloseErrors, IInv,
     ClosingOrder, rangeVars, streamVars, localVars
<1> QED BY <1>1, <1>2, <1>3 DEF Closer, CloserClosesFindings, CloserClosesErrors, IInv, TypeOK,
           RangeInv, localVars, LocalType

\* The goroutine of a local scan: no range runs beside it.
LEMMA LocalMovesInv == ASSUME IInv, LocalMoves PROVE IInv'
<1> USE DEF LocalMoves, LocalStep, ButLocal
<1>1. RangeInv' /\ StreamType(Finding, Error)'
  BY RangesSameInv DEF RangesSame, IInv, TypeOK, StreamType, streamVars
<1>2. ChannelsType(Finding, Error)'
  <2>1. LocalError \in Error /\ \A h \in sockets : PortFinding(h) \in Finding
    BY DEF LocalError, ErrorFrom, NoRange, Error, PortFinding, Finding, IInv, TypeOK, LocalType
  <2>2. CASE ReportLocalError
    BY <2>1, <2>2, SendErrorType DEF ReportLocalError, IInv, TypeOK
  <2>3. CASE ReportSocket
    BY <2>1, <2>3, SendFindingType DEF ReportSocket, IInv, TypeOK
  <2>4. CASE CloseLocalErrors \/ CloseLocalFindings
    BY <2>4 DEF CloseLocalErrors, CloseLocalFindings, CloseFindings, CloseErrors, IInv, TypeOK,
       ChannelsType
  <2>5. CASE ListSockets \/ ListSocketsFails
    BY <2>5 DEF ListSockets, ListSocketsFails, IInv, TypeOK, ChannelsType, channelVars
  <2> QED BY <2>2, <2>3, <2>4, <2>5
<1>3. localPc # "off" /\ LocalType'
  BY DEF ListSockets, ListSocketsFails, ReportLocalError, ReportSocket, CloseLocalErrors,
     CloseLocalFindings, IInv, TypeOK, LocalType
<1>4. ClosingOrder'
  BY <1>3 DEF ListSockets, ListSocketsFails, ReportLocalError, ReportSocket, SendError,
     SendFinding, CloseLocalErrors, CloseLocalFindings, CloseErrors, CloseFindings, IInv, TypeOK,
     LocalType, ClosingOrder, channelVars, rangeVars, streamVars
<1> QED BY <1>1, <1>2, <1>3, <1>4 DEF IInv, TypeOK, RangeInv

\* The result stream opens and closes none of the shared channels.
LEMMA StreamStepType ==
  ASSUME ChannelsType(Finding, Error), StreamType(Finding, Error), StreamStep
  PROVE  /\ ChannelsType(Finding, Error)' /\ StreamType(Finding, Error)'
         /\ findingsClosed' = findingsClosed /\ errsClosed' = errsClosed
         /\ panicked' = panicked /\ (callerPc' = "scan" => callerPc = "scan")
<1> USE DEF ChannelsType, StreamType
<1>1. CASE ForwarderTakes
  <2>1. Head(findings) \in Finding /\ Tail(findings) \in Seq(Finding)
        /\ Len(Tail(findings)) <= FindingsCap
    BY <1>1, CapsAssumption DEF ForwarderTakes, TakeFinding
  <2> QED BY <1>1, <2>1 DEF ForwarderTakes, TakeFinding
<1>2. CASE ForwarderSends
  <2>1. Append(out, fwdItem) \in Seq(Finding) /\ Len(Append(out, fwdItem)) <= OutCap
    BY <1>2, StreamAssumption DEF ForwarderSends
  <2> QED BY <1>2, <2>1 DEF ForwarderSends, channelVars
<1>3. CASE ForwarderCancelled
  BY <1>3 DEF ForwarderCancelled, channelVars
<1>4. CASE ForwarderEnds
  BY <1>4 DEF ForwarderEnds, channelVars
<1>5. CASE CollectorReturnsError
  <2>1. Head(errs) \in Error /\ Tail(errs) \in Seq(Error) /\ Len(Tail(errs)) <= ErrorCap
    BY <1>5, CapsAssumption DEF CollectorReturnsError, TakeError
  <2> QED BY <1>5, <2>1 DEF CollectorReturnsError, TakeError
<1>6. CASE CollectorEnds
  BY <1>6 DEF CollectorEnds, channelVars
<1>7. CASE CallerReceives
  <2>1. Append(delivered, Head(out)) \in Seq(Finding) /\ Tail(out) \in Seq(Finding)
        /\ Len(Tail(out)) <= OutCap
    BY <1>7, StreamAssumption DEF CallerReceives
  <2> QED BY <1>7, <2>1 DEF CallerReceives, channelVars
<1>8. CASE CallerSeesEnd
  BY <1>8 DEF CallerSeesEnd, channelVars
<1>9. CASE WaitReturns
  BY <1>9 DEF WaitReturns, channelVars
<1> QED BY <1>1, <1>2, <1>3, <1>4, <1>5, <1>6, <1>7, <1>8, <1>9
        DEF StreamStep, Forwarder, Collector, Caller

\* The forwarder, the collector and the caller.
LEMMA StreamMovesInv == ASSUME IInv, StreamMoves PROVE IInv'
<1>1. /\ ChannelsType(Finding, Error)' /\ StreamType(Finding, Error)'
      /\ findingsClosed' = findingsClosed /\ errsClosed' = errsClosed
      /\ callerPc' = "scan" => callerPc = "scan"
  BY StreamStepType DEF StreamMoves, IInv, TypeOK
<1>2. RangeInv'
  BY RangesSameInv DEF StreamMoves, RangesSame, IInv
<1>3. ClosingOrder'
  BY <1>1 DEF StreamMoves, IInv, ClosingOrder, rangeVars, sessionVars, localVars
<1> QED BY <1>1, <1>2, <1>3 DEF StreamMoves, IInv, TypeOK, RangeInv, sessionVars, localVars, LocalType

\* Steps that change nothing.
LEMMA StutterInv == ASSUME IInv, UNCHANGED vars PROVE IInv'
<1>1. RangeInv'
  BY RangesSameInv DEF vars, RangesSame, IInv
<1> QED BY <1>1 DEF vars, channelVars, rangeVars, streamVars, sessionVars, localVars, IInv, TypeOK,
           RangeInv, ChannelsType, StreamType, LocalType, ClosingOrder

\* IInv holds in every reachable state, whatever fails.
THEOREM Invariance == Spec => []IInv
<1>1. Init => IInv
  BY InitInv
<1>2. IInv /\ [Next]_vars => IInv'
  BY ScanInv, RangeMovesInv, StreamMovesInv, CloserInv, LocalMovesInv, StutterInv DEF Next, Finished
<1> QED BY <1>1, <1>2, PTL DEF Spec

-------------------------------------------------------------------------------
(* The properties that hold whatever fails.                                *)

\* Every variable keeps its type and no channel exceeds its capacity.
THEOREM TypeCorrect == Spec => []TypeOK
<1>1. IInv => TypeOK
  BY DEF IInv
<1> QED BY <1>1, Invariance, PTL

\* The WaitGroup of every range counts exactly the goroutines that will still
\* call Done, so that Wait in scanV4OverGateway and its siblings is right.
THEOREM WaitGroupsRight == Spec => []WaitGroupCounts
<1>1. IInv => WaitGroupCounts
  BY DEF IInv, RangeInv, RangeOK, WaitGroupCounts
<1> QED BY <1>1, Invariance, PTL

-------------------------------------------------------------------------------
(* What a refused transmission can spoil.                                  *)

\* No step of a scan disturbs the order in which senders and captures leave, in a
\* range that was refused no transmission.
LEMMA QuietStep ==
  ASSUME IInv, QuietInv, [Next]_vars
  PROVE  QuietInv'
<1>0. (panicked => refused # {}) /\ \A r \in Ranges \ refused : SendersLeaveLast(r)
  BY DEF QuietInv, PanicOnlyAfterRefusal
<1>1. CASE UNCHANGED <<discPc, hearPc, scanPc, replyPc, upClosed, panicked, refused>>
           /\ \A r \in Ranges : \/ rangePc'[r] = rangePc[r] /\ mode'[r] = mode[r]
                                \/ rangePc'[r] # "done"
  BY <1>0, <1>1 DEF QuietInv, PanicOnlyAfterRefusal, SendersLeaveLast
<1>2. CASE Scan
  <2>1. ASSUME NEW m \in Discovery \cup {"direct"}, NEW gw \in BOOLEAN, Dispatching, Dispatch(m, gw)
        PROVE  QuietInv'
    BY <1>1, <2>1 DEF Dispatch, StartRange, Dispatching, channelVars, upVars, netVars, IInv,
       RangeInv, RangeType
  <2>2. CASE DispatchFails \/ RefuseRule \/ ReturnStream \/ ReturnLocalStream
    BY <1>1, <2>2 DEF DispatchFails, RefuseRule, ReturnStream, ReturnLocalStream, rangeVars,
       channelVars
  <2> QED BY <1>2, <2>1, <2>2 DEF Scan, DispatchDirect, DispatchGateway, DispatchArp,
             DispatchMulticast, Discovery, OnLink
<1>3. CASE RangeMoves
  <2>1. PICK r \in Ranges : PipelineStep(r)
    BY <1>3 DEF RangeMoves
  <2>2. \A q \in Ranges \ refused' : SendersLeaveLast(q)'
    BY <1>0, <2>1, PipelineQuiet DEF IInv
  <2>3. refused \subseteq refused'
    BY <2>1, RefusalsStay
  <2>4. CASE refused = {}
    <3>1. ~panicked'
      BY <1>0, <2>1, <2>4, PipelineDoesNotPanic DEF IInv, ClosingOrder
    <3> QED BY <2>2, <3>1 DEF QuietInv, PanicOnlyAfterRefusal
  <2>5. CASE refused # {}
    BY <2>2, <2>3, <2>5 DEF QuietInv, PanicOnlyAfterRefusal
  <2> QED BY <2>4, <2>5
<1>4. CASE StreamMoves
  BY <1>1, <1>4, StreamStepType DEF StreamMoves, rangeVars, IInv, TypeOK
<1>5. CASE Closer
  BY <1>1, <1>5 DEF Closer, CloserClosesFindings, CloserClosesErrors, CloseFindings, CloseErrors,
     rangeVars
<1>6. CASE LocalMoves
  <2>1. panicked' = panicked
    BY <1>6 DEF ClosingOrder, LocalMoves, LocalStep, ListSockets, ListSocketsFails, ReportLocalError,
       ReportSocket, SendError, SendFinding, CloseLocalErrors, CloseLocalFindings, CloseErrors,
       CloseFindings, channelVars, IInv
  <2> QED BY <1>1, <1>6, <2>1 DEF LocalMoves, ButLocal, rangeVars
<1>7. CASE UNCHANGED vars
  BY <1>1, <1>7 DEF vars, rangeVars, channelVars
<1> QED BY <1>2, <1>3, <1>4, <1>5, <1>6, <1>7 DEF Next, Finished

\* QuietInv holds in every reachable state.
THEOREM Quiet == Spec => []QuietInv
<1>1. Init => QuietInv
  BY DEF Init, ChannelsInit, RangeInit, QuietInv, PanicOnlyAfterRefusal, SendersLeaveLast
<1>2. IInv /\ QuietInv /\ [Next]_vars => QuietInv'
  BY QuietStep
<1> QED BY <1>1, <1>2, Invariance, PTL DEF Spec

\* The process does not panic on a closed channel in a scan that was refused no
\* transmission, whatever else failed.
THEOREM PanicsOnlyAfterRefusal == Spec => []PanicOnlyAfterRefusal
<1>1. QuietInv => PanicOnlyAfterRefusal
  BY DEF QuietInv
<1> QED BY <1>1, Quiet, PTL

\* When the closer closes findingsChan no goroutine can send on it, or on
\* errorChan, any more, in any range with host discovery and in any other that was
\* refused no transmission.
THEOREM ClosedSilent == Spec => []ClosedMeansSilent
<1>1. IInv /\ QuietInv => ClosedMeansSilent
  <2> SUFFICES ASSUME IInv, QuietInv, findingsClosed, NEW r \in Ranges
               PROVE  RangeSilent(r) \/ (mode[r] = "direct" /\ r \in refused)
    BY DEF ClosedMeansSilent
  <2>1. RangeInv /\ rangePc[r] \in {"off", "done"}
    BY DEF IInv, ClosingOrder
  <2>2. CASE rangePc[r] = "off"
    BY <2>1, <2>2, OffIsSilent
  <2>3. CASE rangePc[r] = "done" /\ mode[r] \in Discovery
    BY <2>1, <2>3, DoneIsSilent
  <2>4. CASE rangePc[r] = "done" /\ r \notin refused
    BY <2>1, <2>4, DoneIsQuiet DEF QuietInv
  <2>5. rangePc[r] = "done" => mode[r] \in Discovery \cup {"direct"}
    BY <2>1 DEF RangeInv, RangeType, RangeOK, StartedInOrder, Discovery, OnLink
  <2> QED BY <2>1, <2>2, <2>3, <2>4, <2>5
<1> QED BY <1>1, Invariance, Quiet, PTL
===============================================================================
