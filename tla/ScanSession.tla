----------------------------- MODULE ScanSession -----------------------------
(***************************************************************************)
(* scanner.Scan: one scan of one rule, from the dispatch of its ranges to  *)
(* the moment the caller's Wait returns.  The ranges (RangePipeline) and   *)
(* the result stream (ResultStream) run concurrently and meet in the two   *)
(* channels of ScanChannels; a last goroutine, the closer, waits for every *)
(* range and closes both channels.  A rule for the machine's own address   *)
(* has LocalPorts in place of ranges and closer.                           *)
(***************************************************************************)
EXTENDS LocalPorts, ResultStream

CONSTANTS
  N,             (* bound: the ranges the router may produce               *)
  Rules          (* the rules and machines to consider, see RuleType       *)

ASSUME SessionAssumption ==
  /\ N \in Nat /\ Ranges = 1..N
  /\ NoFinding \notin Finding /\ NoError \notin Error

\* What Scan looks at: whether rule.Network is the machine's own (routeType 2), its
\* address family, two rule options, whether the machine has a default gateway,
\* and len(IpRanges).
RuleType == [local : BOOLEAN, family : {"v4", "v6"}, noHostDiscovery : BOOLEAN,
             noMulticast : BOOLEAN, defaultGateway : BOOLEAN, ranges : 0..N]

ASSUME RulesAssumption == Rules \subseteq RuleType

VARIABLES
  rule,          (* the rule and the default gateway                       *)
  gateway,       (* does the range's Route.Gw name a gateway?              *)
  next,          (* the dispatch loop's position in IpRanges               *)
  closerPc       (* the goroutine that closes the channels                 *)

sessionVars == <<rule, gateway, next, closerPc, localVars>>
vars == <<channelVars, rangeVars, streamVars, sessionVars>>

Init ==
  /\ ChannelsInit /\ RangeInit /\ StreamInit /\ LocalInit
  /\ rule \in Rules
  /\ gateway \in [Ranges -> BOOLEAN]
  /\ next = 1
  /\ closerPc = "off"

-------------------------------------------------------------------------------
(* Scan, up to its return.                                                 *)

\* createScannerContext fails: no route, no interface, no address, no socket.
RefuseRule ==
  /\ "context" \in Failures
  /\ callerPc = "scan" /\ next = 1
  /\ callerPc' = "refused"
  /\ UNCHANGED <<channelVars, rangeVars, out, outClosed, fwdPc, fwdItem, collPc,
                 groupErr, cancelled, delivered, waitErr, sessionVars>>

Dispatching == callerPc = "scan" /\ ~rule.local /\ next <= rule.ranges

\* The case of the loop's switch that starts range "next".
Dispatch(m, gw) ==
  /\ StartRange(next, m)
  /\ gateway' = [gateway EXCEPT ![next] = gw]
  /\ next' = next + 1
  /\ UNCHANGED <<channelVars, streamVars, rule, closerPc, localVars>>

\* no-host-discovery: the range's own gateway, else the default gateway.
DispatchDirect ==
  /\ Dispatching
  /\ rule.noHostDiscovery
  /\ gateway[next] \/ rule.defaultGateway
  /\ Dispatch("direct", gateway[next] \/ rule.defaultGateway)

\* Mutant of DispatchGateway: the default gateway is used without a look at it.
DispatchGatewayUnchecked ==
  /\ Dispatching
  /\ ~rule.noHostDiscovery
  /\ gateway[next] \/ (rule.family = "v6" /\ rule.noMulticast)
  /\ Dispatch("gateway", gateway[next] \/ rule.defaultGateway)

\* A gatewayed range; and, with no-ipv6-multicast, an on-link IPv6 range,
\* which then borrows the default gateway.
DispatchGateway ==
  /\ Dispatching
  /\ ~rule.noHostDiscovery
  /\ \/ gateway[next]
     \/ rule.family = "v6" /\ rule.noMulticast /\ rule.defaultGateway
  /\ Dispatch("gateway", gateway[next] \/ rule.defaultGateway)

DispatchArp ==
  /\ Dispatching
  /\ ~rule.noHostDiscovery
  /\ rule.family = "v4" /\ ~gateway[next]
  /\ Dispatch("arp", FALSE)

DispatchMulticast ==
  /\ Dispatching
  /\ ~rule.noHostDiscovery
  /\ rule.family = "v6" /\ ~rule.noMulticast /\ ~gateway[next]
  /\ Dispatch("multicast", FALSE)

\* No usable route to the range: Scan returns an error, and the ranges it has
\* already started stay behind without a closer or a stream.
DispatchFails ==
  /\ Dispatching
  /\ ~gateway[next] /\ ~rule.defaultGateway
  /\ rule.noHostDiscovery \/ (rule.family = "v6" /\ rule.noMulticast)
  /\ callerPc' = "refused"
  /\ UNCHANGED <<channelVars, rangeVars, out, outClosed, fwdPc, fwdItem, collPc,
                 groupErr, cancelled, delivered, waitErr, sessionVars>>

\* All ranges started: start the closer and return the Stream.
ReturnStream ==
  /\ ~rule.local /\ next = rule.ranges + 1
  /\ OpenStream
  /\ closerPc' = "wait"
  /\ UNCHANGED <<channelVars, rangeVars, rule, gateway, next, localVars>>

\* A local address: the goroutine of getLocalPorts, and a Stream on its channels.
ReturnLocalStream ==
  /\ rule.local
  /\ OpenStream
  /\ localPc' = "list"
  /\ UNCHANGED <<channelVars, rangeVars, rule, gateway, next, closerPc, sockets>>

Scan ==
  \/ RefuseRule \/ ReturnLocalStream
  \/ DispatchDirect \/ DispatchGateway \/ DispatchArp \/ DispatchMulticast
  \/ DispatchFails \/ ReturnStream

-------------------------------------------------------------------------------
(* The closer: ipRangeScannerWg.Wait(), close(findingsChan), close(errorChan) *)

CloserClosesFindings ==
  /\ closerPc = "wait"
  /\ \A r \in Ranges : rangePc[r] \in {"off", "done"}
  /\ CloseFindings
  /\ closerPc' = "close"
  /\ UNCHANGED <<rangeVars, streamVars, rule, gateway, next, localVars>>

CloserClosesErrors ==
  /\ closerPc = "close"
  /\ CloseErrors
  /\ closerPc' = "end"
  /\ UNCHANGED <<rangeVars, streamVars, rule, gateway, next, localVars>>

Closer == CloserClosesFindings \/ CloserClosesErrors

-------------------------------------------------------------------------------
RangeMoves  == \E r \in Ranges : PipelineStep(r) /\ UNCHANGED <<streamVars, sessionVars>>
StreamMoves == StreamStep /\ UNCHANGED <<rangeVars, sessionVars>>
ButLocal    == <<rangeVars, streamVars, rule, gateway, next, closerPc>>
LocalMoves  == (LocalStep \/ ListSocketsFails) /\ UNCHANGED ButLocal

\* cli.InteractiveScan goes on to the next rule, or exits, once Wait has
\* returned, and exits when Scan returned an error.  Goroutines of the scan that
\* are left over may run on.
Over == callerPc \in {"end", "refused"}
Finished == Over /\ UNCHANGED vars

Next ==
  \/ ~panicked /\ (Scan \/ RangeMoves \/ StreamMoves \/ Closer \/ LocalMoves)
  \/ Finished

Spec == Init /\ [][Next]_vars

\* The Go scheduler runs every goroutine that can run, and an unblocked channel
\* operation completes.  Nothing makes the network answer or a call fail.
RangeFairness(r) ==
  /\ WF_vars(~panicked /\ RangeStep(r) /\ UNCHANGED <<streamVars, sessionVars>>)
  /\ WF_vars(~panicked /\ DiscoveryStep(r) /\ UNCHANGED <<streamVars, sessionVars>>)
  /\ WF_vars(~panicked /\ HostCaptureStep(r) /\ UNCHANGED <<streamVars, sessionVars>>)
  /\ WF_vars(~panicked /\ PortScanStep(r) /\ UNCHANGED <<streamVars, sessionVars>>)
  /\ WF_vars(~panicked /\ PortCaptureStep(r) /\ UNCHANGED <<streamVars, sessionVars>>)

Fairness ==
  /\ \A r \in Ranges : RangeFairness(r)
  /\ WF_vars(~panicked /\ Scan)
  /\ WF_vars(~panicked /\ Closer)
  /\ WF_vars(~panicked /\ LocalStep /\ UNCHANGED ButLocal)
  /\ WF_vars(~panicked /\ Forwarder /\ UNCHANGED <<rangeVars, sessionVars>>)
  /\ WF_vars(~panicked /\ Collector /\ UNCHANGED <<rangeVars, sessionVars>>)
  /\ WF_vars(~panicked /\ Caller /\ UNCHANGED <<rangeVars, sessionVars>>)

FairSpec == Spec /\ Fairness

-------------------------------------------------------------------------------
(* The state.                                                              *)

\* Every variable has its type; no channel holds more than its capacity, and
\* no sync.WaitGroup counter is negative.
TypeOK ==
  /\ ChannelsType(Finding, Error)
  /\ RangeType
  /\ StreamType(Finding, Error)
  /\ LocalType
  /\ rule \in RuleType /\ gateway \in [Ranges -> BOOLEAN]
  /\ next \in 1..(N + 1) /\ closerPc \in {"off", "wait", "close", "end"}

-------------------------------------------------------------------------------
(* Safety.                                                                 *)

\* A goroutine sends on a channel that has been closed (findingsChan or UpHostsChan
\* by an interceptor, errorChan by anybody: a Go panic, which ends the process) only
\* in a scan that was refused a transmission, whatever else failed.
PanicOnlyAfterRefusal == panicked => refused # {}

\* When the channels are closed no goroutine of a range can send any more, whatever
\* failed, but for a range without host discovery that was refused a transmission.
ClosedMeansSilent ==
  findingsClosed =>
    \A r \in Ranges : RangeSilent(r) \/ (mode[r] = "direct" /\ r \in refused)

\* The comment over the closer: "Wait for all scan goroutines to finish, then
\* close channels."  What the closing needs is that no goroutine can send any
\* more, in any range.
CloseAfterGoroutines == findingsClosed => \A r \in Ranges : RangeSilent(r)

\* The hosts on findingsChan so far.
HostsReported == {reported[i].ip : i \in {j \in DOMAIN reported : reported[j].kind = "host"}}

\* With host discovery, no host is sent a transport probe before it is on
\* findingsChan: what the scan does to a host it has announced first, although the
\* announcement and the host go through two channels and three goroutines.  (That
\* a port is reported after its host is not claimed: the interceptor of replies
\* does not ask who sent them.)
ProbedAfterReport == ~rule.noHostDiscovery => \A r \in Ranges : Tried(r) \subseteq HostsReported

\* When Wait returns nil the scan has run to its end: the caller has received every
\* finding, in the order of their reports; no host reported up was left in a channel
\* or in a goroutine's hand (without discovery: no address of the range was left
\* out), it was probed, or its probes were handed to sendmmsg, which left some of
\* them over; every local socket was reported; and nothing is left that could add
\* to the result.
NilMeansComplete ==
  callerPc = "end" /\ waitErr = NoError =>
    /\ delivered = reported
    /\ \A r \in Ranges : RangeSilent(r)
    /\ \A r \in Ranges : mode[r] = "direct" => Tried(r) = HostsOf[r]
    /\ HostsReported \subseteq UNION {Tried(r) : r \in Ranges}
    /\ sockets = {} /\ localPc \in {"off", "close", "end"}

\* Wait returns the first error raised, and nil only if none was.
FirstErrorWins ==
  /\ groupErr # NoError => groupErr = raised[1]
  /\ callerPc = "end" /\ raised # <<>> => waitErr # NoError

\* No goroutine reports two errors.  A range then has at most four (its own goroutine
\* reports instead of starting the others), which errorChan holds
\* (ErrorChanBufferSize): in a scan of one range nobody blocks in a report and keeps
\* the WaitGroup from zero.  A scan of several ranges has no such bound.
OneErrorEach ==
  \A i, j \in DOMAIN raised : raised[i] = raised[j] => i = j

\* A range that is scanned through a gateway has one (scanV4OverGateway and
\* scanV4WithoutHostDiscovery dereference Route.Gw without looking).
GatewayKnown ==
  \A r \in Ranges : mode[r] \in {"gateway", "direct"} => gateway[r]

\* The Stream is an ordered feed of what the interceptors reported.
Feed == INSTANCE OrderedFeed WITH
          Findings <- Finding,
          sent     <- reported,
          got      <- delivered,
          over     <- callerPc \in {"wait", "end"},
          failed   <- groupErr # NoError

FeedSpec == Feed!Spec

\* structs.go: Wait "blocks until all scanning goroutines finish, and returns
\* the first error (if any)".
WaitMeansFinished ==
  callerPc = "end" => \A r \in Ranges : RangeSilent(r)

-------------------------------------------------------------------------------
(* The inductive invariants of the proofs.                                 *)

\* The channels are closed after Scan has returned its Stream and every range
\* goroutine it started is done; a local scan starts none, and closes them itself.
ClosingOrder ==
  /\ closerPc # "off" \/ localPc # "off" => callerPc # "scan"
  /\ rule.local => \A r \in Ranges : rangePc[r] = "off"
  /\ localPc # "off" => rule.local
  /\ closerPc # "off" => ~rule.local
  /\ localPc \in {"list", "fail", "report"} => ~findingsClosed /\ ~errsClosed
  /\ closerPc \in {"close", "end"} => \A r \in Ranges : rangePc[r] \in {"off", "done"}
  /\ findingsClosed \/ errsClosed =>
       callerPc # "scan" /\ \A r \in Ranges : rangePc[r] \in {"off", "done"}

\* Whatever fails.
IInv == TypeOK /\ RangeInv /\ ClosingOrder

\* Of the ranges that were refused no transmission.
QuietInv == (\A r \in Ranges \ refused : SendersLeaveLast(r)) /\ PanicOnlyAfterRefusal

\* The errors of the goroutines that are past the place where they report one.
Spoken ==
  {e \in Error :
     \/ e = LocalError /\ localPc \in {"report", "close", "end"}
     \/ \E r \in Ranges :
          \/ e = ErrorFrom(r, "range") /\ rangePc[r] = "done"
          \/ e = ErrorFrom(r, "discovery") /\ discPc[r] \in {"exit", "exiting", "end"}
          \/ e = ErrorFrom(r, "hostCapture") /\ hearPc[r] \in {"leave", "end"}
          \/ e = ErrorFrom(r, "portScan") /\ scanPc[r] \in {"exit", "end"}
          \/ e = ErrorFrom(r, "portCapture") /\ replyPc[r] \in {"leave", "end"}}

\* Who has reported an error is past that place: it will not do so again.
SpokenInv == OneErrorEach /\ \A i \in DOMAIN raised : raised[i] \in Spoken

\* Until the collector ends every error is still in errorChan.
CollectorInv ==
  /\ collPc # "end" => errs = raised /\ groupErr = NoError /\ ~cancelled
  /\ collPc = "end" => \/ groupErr = NoError /\ raised = <<>> /\ errsClosed /\ ~cancelled
                       \/ raised # <<>> /\ groupErr = raised[1]
  /\ callerPc = "end" => collPc = "end" /\ waitErr = groupErr
  /\ callerPc = "scan" => collPc = "off"

\* A finding is with the caller, in the Stream, with the forwarder or in
\* findingsChan, and in this order.
InHand == IF fwdItem = NoFinding THEN <<>> ELSE <<fwdItem>>
FeedInv ==
  /\ reported = ((delivered \o out) \o InHand) \o findings
  /\ fwdPc \in {"off", "recv"} => fwdItem = NoFinding
  /\ fwdPc = "end" =>
       groupErr # NoError \/ (findingsClosed /\ findings = <<>> /\ fwdItem = NoFinding)
  /\ outClosed => fwdPc = "end"
  /\ callerPc \in {"wait", "end"} => outClosed /\ out = <<>>
  /\ callerPc = "scan" => fwdPc = "off"

\* A host that a range with discovery has taken further than its report is reported.
KnownHosts(r) ==
  /\ hearPc[r] = "handoff" => hearHost[r] \in HostsReported
  /\ \A i \in DOMAIN upHosts[r] : upHosts[r][i] \in HostsReported
  /\ scanPc[r] = "probe" => scanHost[r] \in HostsReported
  /\ Tried(r) \subseteq HostsReported
  /\ scanPc[r] # "send"

DirectByRule == ~rule.noHostDiscovery => \A r \in Ranges : mode[r] # "direct"
OrderInv ==
  /\ DirectByRule /\ GatewayKnown
  /\ ~rule.noHostDiscovery => \A r \in Ranges : KnownHosts(r)

\* While no error has been reported, a port scan that is over has seen all of its
\* range, or of UpHostsChan, and a range that was refused a transmission is about to
\* report it.
NothingMissed(r) ==
  /\ rangePc[r] = "done" => scanPc[r] = "end"
  /\ r \in refused => "fail" \in {discPc[r], scanPc[r]}
  /\ scanPc[r] \in {"signal", "exit", "end"} =>
       IF mode[r] = "direct" THEN HostsOf[r] \subseteq Tried(r)
                             ELSE upHosts[r] = <<>> /\ upClosed[r]

ScannedInOrder(r) ==
  /\ rangePc[r] = "join" \/ discPc[r] # "off" => scanPc[r] # "off"
  /\ scanPc[r] = "off" => upHosts[r] = <<>> /\ Tried(r) = {}
  /\ scanPc[r] = "send" => mode[r] = "direct"
  /\ mode[r] = "direct" =>
       /\ scanPc[r] \notin {"drain", "probe"} /\ Tried(r) \subseteq HostsOf[r]
       /\ upHosts[r] = <<>>
       /\ rangePc[r] = "done" => scanPc[r] \in {"off", "end"}

\* The hosts a range has reported and not lost.
Holding(holds, h) == IF holds THEN {h} ELSE {}
Queued(r) == {upHosts[r][i] : i \in DOMAIN upHosts[r]}
HostsAt(r) ==
  Tried(r) \cup Queued(r)
  \cup Holding(hearPc[r] = "handoff", hearHost[r]) \cup Holding(scanPc[r] = "probe", scanHost[r])

CompleteInv ==
  /\ localPc # "report" => sockets = {}
  /\ \A r \in Ranges : ScannedInOrder(r)
  /\ raised = <<>> =>
       /\ \A r \in Ranges : NothingMissed(r)
       /\ \A h \in HostsReported : \E r \in Ranges : h \in HostsAt(r) \/ scanPc[r] = "fail"

-------------------------------------------------------------------------------
(* Liveness.                                                               *)

\* Every scan comes to an end that its caller sees: Wait returns, or Scan
\* itself has returned an error.  Holds as long as the calls that fail are the
\* ones made before a capture has been started.
SessionEnds == <>Over

===============================================================================
