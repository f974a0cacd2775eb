# Vaverka: verification project

Vaverka is a network scanner for Linux: a Go library (`scanner.Scan`, `rule`,
`router`) with a small command line. It sends ARP, ICMP, SYN and UDP probes with
`sendmmsg`, captures the answers with libpcap, and hands what it finds to its
caller on one channel. This directory holds TLA+ models of its concurrent core,
of its sending loops and rate limiters, of the resolution of gateways and of the
router and port arithmetic, the TLC runs that check them, and theorems that
TLAPS proves about them. `PROJECT.json` maps every definition to source lines.

Paths below are those of the repository under `src/`.

## 1. Inventory

| Component | State | Operations | Models |
|---|---|---|---|
| Scan session (`scanner/common.go`: `Scan`, `wrapChannels`; `doc.go`) | `findingsChan`, `errorChan`, the Stream's channel, an errgroup, the WaitGroup over ranges | refusal, dispatch loop, closer goroutine, forwarder, collector, caller | `ScanChannels`, `ResultStream`, `ScanSession`, `OrderedFeed` |
| Local addresses (`scanner/common.go`: `getLocalPorts`) | the machine's sockets, two channels | list, report, close both channels | `LocalPorts`, in `ScanSession` |
| Range pipeline (`scanner/v4.go`, `v6.go`) | per range: `UpHostsChan`, ready and done channels, a WaitGroup, the source port | range goroutine, discovery sender, host interceptor, port scan, port interceptor; `defer`red closes and Dones | `RangePipeline` |
| Gateway MAC (`scanner/v4.go:193`, `v6.go:228`, `utils`) | the kernel's table, a pcap handle, a reader goroutine, `addrChan`, a one-second timer | look up, ask, read, take the answer, time out | `GatewayMac`; one step of `RangePipeline` |
| Address chunks and discovery (`utils/v4.go`, `v6.go`: `IPv4RangeBytesChunks`, ...; `arpScan`, `pingV4Scan`, `pingV6Scan`) | a cursor, a channel of chunks, `messageHeaders` | fill, shuffle, hand over, close; write slots, pay, send | `AddressSweep`; two steps of `RangePipeline` |
| Rate limiting (`scanner/common.go`: `SetPps`, `globalLimiter`, `localLimiter`) | two token buckets, one of them a global variable | create on first use, `WaitN` | `RateLimiter`, in `AddressSweep` |
| Packet batching (`scanner/v4.go`, `v6.go`) | header buffers, `messageHeaders`, `currentIndex` | fill a slot, send a full batch, flush | `ProbeBatches` |
| Rules (`rule`) | a `Rule` | parse, default, validate, expand | ports: `RulePorts`, in `ProbeBatches` |
| Router (`router/v4.go`, `v6.go`, `utils`) | routing table, list of ranges | choose the covering route, lay specific routes over it, sanitize edges | `RouteSplit` |
| Command line (`main.go`, `cli`) | list of rules | scan them one by one | its loop over a Stream is the caller of `ResultStream` |
| Constants (`constants`) | none | none | capacities, batch sizes and defaults are CONSTANTS of the modules |

### How the parts interact

`Scan` builds the ranges with the router and starts one goroutine for each, in
one of four modes: on-link IPv4 (`arp`), on-link IPv6 (`multicast`), through a
`gateway`, or without host discovery (`direct`). A range with discovery starts a
discovery sender and a port scan; each starts an interceptor of its own, waits on
an unbuffered ready channel until it captures, sends, sleeps for the rule's
timeout, and hands over a done token on another unbuffered channel. The host
interceptor reports each host on `findingsChan` and passes it to the port scan on
`UpHostsChan`, which the discovery closes in a deferred call. The range waits for
all four on a WaitGroup. In mode `direct` the range goroutine is itself the port
scan and waits for nobody. The closer waits for all ranges and closes
`findingsChan` and `errorChan`; the forwarder copies findings to the Stream, the
collector takes the first error, and the caller ranges over `Findings` and then
calls `Wait`. A rule for one of the machine's own addresses starts none of this: one
goroutine lists the machine's sockets, reports them on the same kind of Stream and
closes the channels itself.

Every range behind a gateway first needs its MAC address, and asks for it on a pcap
handle of its own while other ranges do the same on the same link. Every sender
asks two limiters before each batch: `globalLimiter`, a package variable shared by
all scans, then its scan's own.

### What is hard here, and what correct means

* **Closing.** Two channels are written by up to five goroutines per range and
  closed by a sixth; a send after the close is a panic that kills the process.
  Correct: nobody can send any more when they close.
* **Counting.** `wg.Go` is called from goroutines that are themselves counted, and
  the order of deferred calls differs between senders. Correct: the counter is
  always the number of goroutines that still owe a `Done`.
* **Blocking.** Rendezvous channels and bounded buffers in a ring: a full Stream
  blocks the forwarder, hence an interceptor, hence the sender that wants to hand
  it the done token. Correct: a scan ends, whatever the network does.
* **Ordering.** Findings pass three buffers. Correct: none lost, doubled or
  reordered; no host probed before its report is on the way; a nil from `Wait` means
  that the scan ran to its end.
* **Errors.** The first wins; the others must neither block nor hide it.
* **Shared buffers.** Hosts share header buffers that the kernel reads only when a
  batch is sent. Correct: no frame mixes two hosts, no probe is lost or doubled at
  a batch boundary.
* **Somebody else's answer.** Every open handle captures every packet on the link: a
  reply for another range, a late one, a host that answers `arpScan`. Correct: a
  range goes on with its own gateway's address or not at all, and no goroutine is
  left behind.
* **Rates.** Two buckets, shared or not, asked for whole batches, one of them created
  on first use without a lock. Correct: the rate is bounded in every second, nobody
  starves, and a range is not left half asked because of its rate.
* **Chunks.** A producer cuts a range into chunks of 64 with 32-, 64- and 128-bit
  counters, and slots of the chunk before stay behind a short one. Correct: every
  address is asked, none outside the range.
* **Ports.** 16-bit arithmetic between the text of a rule and the ports probed.
  Correct: no port twice, none that was not written.
* **Address arithmetic.** Splitting a network around nested and adjacent routes
  with wrapping successor and predecessor. Correct: a partition, narrowest route
  first, no host given up.

`PROJECT.json` lists each hazard at its line with the properties that cover it.

## 2. Modules

```
ScanChannels              findingsChan, errorChan: capacity, close, panic
  |-- RangePipeline       the goroutines of every range
  |     \-- LocalPorts    getLocalPorts
  |-- ResultStream        forwarder, collector, errgroup, caller
        \-- ScanSession   dispatch + closer + all of the above
              |-- OrderedFeed      (abstract; refined through INSTANCE)
              \-- MCScanSession    instances for TLC
GatewayMac                gateways' MAC addresses         MCGatewayMac
RateLimiter               the two token buckets
  \-- AddressSweep        chunks, and the sending loops
                          of host discovery               MCAddressSweep
RulePorts                 from a ports field to a list of ports
  \-- ProbeBatches        batches of the port scans       MCProbeBatches
RouteSplit                SmartV4Route, SmartV6Route      MCRouteSplit
RangePipelineProofs <- ScanSessionProofs <- SessionStreamProofs <- SessionResultProofs
GatewayMacProofs ; RouteSplitProofs ; ProbeBatchesProofs ; AddressSweepProofs
```

**ScanChannels.** A channel is a sequence, a capacity and a closed flag. A send
waits for room; a send on a closed channel sets `panicked`, after which nothing
moves. `reported` and `raised` are histories of what was ever sent.

**RangePipeline.** Each goroutine has a program counter whose values are the
points where it may block or be interleaved: `discPc = "await"` is the receive
from the ready channel at `v4.go:1822`, `hearPc = "handoff"` the send on
`UpHostsChan`, `"exit"` and `"exiting"` the two deferred calls. A rendezvous on an
unbuffered channel is one action that moves both goroutines. Code between two such
points touches only the goroutine's own memory and is part of the action before
it. IPv4 and IPv6 have the same control, but for `findIPv6NeighborsOnLink`, which
opens a handle of its own and defers its calls in the opposite order; where they
differ the action asks for the mode. `Failures` names the
calls that may return an error: `context` and `sockets` before any range exists,
`gateway_mac`, `multicast_open`, `host_capture`, `host_send`, `port_filter` and
`direct_filter` (the BPF filter with and without discovery), `port_capture`,
`port_send`, and `capture_lost` (a packet source that ends by itself). A failing call
leads to the goroutine's error path with all its deferred calls. `partial_send` is no
error: `sendmmsg` takes the first messages of a batch and returns their number, which
no caller looks at (`v4.go:882`), so the sender goes on as if all had been sent. Three
histories record what became of transmissions: `refused` the ranges one of whose
batches was refused, `probed` the hosts whose probes were all taken, `lost` those of
which some were left over; `Tried` is both. `HearArp`, `HearEcho` and `HearReply` are
the network. Any host of the range answers discovery, also twice. Any address may
send to a range's source port at any time: the transport interceptors
(`v4.go:60-119`, `v6.go:69-126`) report what passes the filter, and do not ask whether
the host was reported, probed, or is in the range. So the source port, which two
ranges may share, needs no variable.

**ResultStream.** `wrapChannels`, and the caller as `doc.go` prescribes and
`cli.InteractiveScan` writes it.

**LocalPorts.** `getLocalPorts`: it lists the sockets, reports those that pass (any
set of addresses may), and its two deferred closes come in the order of the code,
`errorChan` first. It uses the channels of `ScanChannels`, and its Stream is the
same `ResultStream`.

**ScanSession.** `createScannerContext`'s refusal, the dispatch loop with one action
per case of its switches, its error return, the return of a Stream for ranges or
for a local address, and the closer. `callerPc = "refused"` is an error from `Scan`
itself. Which case applies depends on `rule` (local, family, two options, number of
ranges, whether there is a default gateway) and each range's route.

**OrderedFeed.** What a Stream promises, in four actions: findings arrive in the
order of their reports, none invented or repeated, and the end comes only when all
have arrived or the scan failed. `ScanSession!FeedSpec` instantiates it with
`sent <- reported`, `got <- delivered`, `over` when the caller has seen the end,
`failed` when the errgroup has an error.

**GatewayMac.** Per range: the goroutine that looks, asks and waits (`askPc`), the
reader it starts (`readPc`) with the channel between them, and the packets its
handle has captured. A machine stands for its MAC address. `Answer` is the link: any
machine that was asked, or talks anyway, puts a packet on it, and every open handle
captures that packet; so answers may be lost (never sent), late, repeated and meant
for another range. The IPv4 reader passes on the first ARP reply whoever sent it,
over an unbuffered channel; the IPv6 reader looks at the advertisement's target and
has a channel with a buffer. `TimeOut` may fire at any moment of the wait.
`overheard` is a history: another machine's packet was captured.

**RateLimiter.** A bucket has a rate, which is also its burst, and a credit that may be
negative; `WaitN(n)` takes n at once and sleeps the debt off, or refuses if n exceeds
the burst. Time passes in ticks, which no goroutine is bound to use. `CheckLimiter`
and `MakeLimiter` are the unlocked test and assignment of `globalLimiter`.

**AddressSweep.** The producer's cursor, the channel of chunks, and the sender with
its slots. `Produce4` has the 64-bit cursor that walks past a 32-bit end, `Produce6`
the one as wide as an address that must stop at it. `arpScan` pays for and sends all
slots, `pingV4Scan` and `pingV6Scan` those they filled (`Charge`); a slot that was
never written has no destination, and `sendmmsg` stops there. Several sweeps, of
one scan or several, run against the same limiters. `sent` is a history: the packets
sent by now, by the last tick, by the one before, and so on for a second, so that
`RateBound` compares two counts.

**RulePorts.** `PortsList` is what `createScannerContext` makes of a ports field:
both ends cut to 16 bits before they are compared, `Validate`, `Expand`, defaults,
sort, compact. The ports before the sort are pairs of a port and its origin, so that a
port given twice counts twice; `Sort` finds the k-th port by counting those below it,
`Compact` takes the positions whose element differs from the one before. A rule built
by a caller of the library has not been parsed, and may have port 0.

**RouteSplit.** A prefix is an interval of numbers `0..Top`; `PreviousIP` and
`NextIP` wrap around as the byte loops do. The network of a rule may have an address of
sixteen bytes (`wide`), as `net.ParseIP` and the resolver return it for a rule that
names one IPv4 host (`rule.go:236`): `bytes.Compare` then sees leading zeros, and
`ip[3]` (`utils/v4.go:248`) is always 0. An IPv6 network keeps the host bits it was
written with (`rule.go:213`), so that it may start in the middle of its prefix.
`ChooseBase` is the covering route,
`Refine` lays the specific route with the least first address over every range
(any of them when several start there, as `sort.Slice` is not stable), `Tidy` is
the sanitizing of singletons and network and broadcast edges. A nil bound is
`NoAddress`.

**ProbeBatches.** A slot of `messageHeaders` holds references to an IP header of
one technique and a transport header of one technique and port. What a frame
carries is read from these buffers when the batch is sent, as the kernel does.
With discovery all hosts share the buffers and each host's batch is flushed;
without it each address has its own and the batch is carried over. `sendmmsg` may
take any part of a batch (`lost` is the rest, which the code forgets). `portsList` is
the `PortsList` of a field; `rule` holds it with the field, the techniques and the mode.

## 3. Runs

| Run | Instance | Result |
|---|---|---|
| `session` | every rule with one range, two `direct` ranges, no range, a local address; 3 hosts; capacities 1; up to 2 discovery packets and 1 transport packet per range; every call before the first capture may fail, and batches may be sent in part | `TypeOK`, `ProbedAfterReport`, `GatewayKnown`, `NilMeansComplete`, `SessionEnds`; no deadlock. 343,766 states |
| `session_failures` | 1 range or a local address, every rule, every call may fail | `WaitGroupCounts`, `ClosedMeansSilent`, `PanicOnlyAfterRefusal`, `NilMeansComplete`, `FirstErrorWins`, `OneErrorEach`, `FeedSpec`. 1,863,528 states, with the two hosts symmetric |
| `discovery` | 2 sweeps of 2 scans, 8 addresses, chunks of 2, rates 1 and 2 | `TypeOK`, `EveryAddressAsked`, `AskedInRange`, `RefusedAtOnce`, `RateBound`, `SweepsEnd`; no deadlock. 308,852 states |
| `gateway_mac` | 2 ranges, 3 machines, one gateway or two, every table, both families, 3 packets | `TypeOK`, `WrongMacExplained`, `RangesGoOn`, `NeighborReadersEnd`; no deadlock. 174,385 states |
| `route_split` | 16 addresses, octets of 8, a default route plus two others, in and out of order; 13 networks, of them 3 single hosts with wide addresses and 3 with host bits; both families | `TypeOK`, `Partition`, `MostSpecificIfDistinct`, `NoHostLost`. 171,643 states |
| `probe_batches` | up to 3 symmetric hosts, 3 techniques, 8 ports fields over 3-bit ports, batches of 4 | `TypeOK`, `IndexInBounds`, `RightFrames`, `OnceEach`, `NothingLeft`, `PortsProbedOnce`, `RulePortsProbed`. 121,774 states |
| `wait_before_finish` | `port_send` may fail | `WaitMeansFinished` is violated |
| `close_before_silent` | `port_send` may fail | `CloseAfterGoroutines` is violated |
| `capture_never_ready` | `host_capture` may fail, fair | `SessionEnds` is violated |
| `route_order` | two routes that start alike | `MostSpecific` is violated |
| `route_singleton` | a network of one address, the last of a wider route | `StaysInside` is violated |
| `errors_fill_up` | 3 `direct` ranges behind a gateway, `gateway_mac` may fail, `errorChan` of 1, fair | `SessionEnds` is violated |

**Bounds.** Capacity 1 is the tightest channel that is still buffered: every
blocking that a larger one allows happens with one as well, and sooner; the
theorems hold for all capacities. Two hosts make a host interceptor block on
`UpHostsChan` while the first host is being probed. `MaxHeard` and `MaxSeen` bound
captured packets: two let a host answer twice or both answer, so that the host
goes through every buffer while another waits. Two ranges matter only for what
ranges share, which is the channels; `session` has two in mode `direct`.
The theorems have any number of ranges. `Repliers` bounds the addresses whose packets
reach the source ports: one is enough, for no step asks which it is. In `session` it
is an address of the first range and not of the second, in `session_failures` one of
no range at all. `Distinct` leaves out rules that `Scan` does not tell apart from one
it keeps. In `errors_fill_up` a capacity of 1 and three
failing ranges stand for the code's 4 (`constants/common.go:21`) and six: one error is
with the collector, the buffer is full, and the next sender waits. In `session_failures` the two hosts of a
range are interchangeable and declared symmetric; `session` checks liveness and
declares none.

Eight addresses and chunks of two give sweeps of one to four chunks with short
first and last ones, and the last address of the space; rates 1 and 2 lie below and
at the batch of two, so that `arpScan` is refused or must wait. Three packets on the
link let both gateways answer and a third machine talk, or one answer twice and
late. Four-slot batches with up to twelve packets per host lie below, at and above
one and two full batches; three-bit ports make a range wrap. Sixteen addresses hold
routes nested four deep and both edges of an octet of eight.

**Deadlock** is checked in every passing run but `session_failures`: after some
failures the code does hang, which `capture_never_ready` shows. There the invariants
are about what holds all the same. In `gateway_mac` the end is that every range has
its answer, while an IPv4 reader may be left blocked.

**Fairness.** `FairSpec` gives weak fairness to each goroutine: the Go scheduler
runs every goroutine that can run, and a channel operation that stays possible
completes. Nothing is assumed of the network (`NetworkStep`, `Answer`) nor of
failures (`FailureStep`, `AskFails`, `SendFails`); no step needs strong fairness. At
the done token the interceptor's `select` may choose between token and packet, and
Go's random choice plus the finite stock of packets makes the token win in the end;
in the model the packets of a range are bounded, so weak fairness of the sender says
just that. `AddressSweep` adds that time passes (`Tick`), and `GatewayMac` counts the
timer among the steps of the range that waits for it: `time.After` fires.

## 4. What is proved

All theorems hold for every value of the constants under the named assumptions
of the modules. `ASSUME`s say only what a constant is (a capacity is positive, a
range's hosts are hosts); the one that carries an argument is
`RouteSplit!AddressAssumption`: two CIDR prefixes are nested or disjoint.

**ScanSession** (`RangePipelineProofs`, `ScanSessionProofs`).
`WaitGroupCounts` is not inductive: that a range's counter is right needs to know
that goroutines start once and in order. The invariant is

    IInv == TypeOK /\ RangeInv /\ ClosingOrder
    RangeOK(r) == CountsGoroutines(r) /\ StartedInOrder(r) /\ JoinedAll(r)

`RangeInv` is a conjunction over ranges; a lemma per goroutine shows that its steps
touch one range and keep that range's part (`StepOf`), so the proof is linear in
the actions and holds for any number of ranges. From it: `TypeCorrect`,
`WaitGroupsRight` and `ClosedSilent`, whatever calls fail.

For the ranges that were refused no transmission (those not in `refused`), `QuietInv`
adds that a sender that has left, or given up, leaves no capture listening, and that
`UpHostsChan` is closed by the last deferred call (`SendersLeaveLast`). Then a
goroutine that can still send belongs to a range that has not been joined, hence to
a scan whose channels are open: `PanicsOnlyAfterRefusal`, and the exception in
`ClosedMeansSilent` is only for a refused range without host discovery.
`close_before_silent` shows that the exception is needed. `ClosingOrder` covers the
local scan, which has no closer and closes the channels itself.

**GatewayMac** (`GatewayMacProofs`). `WrongMacExplained` looks at the moment an address
is taken, long after it was captured: the invariant adds `HeardInv`, what may be in a
range's capture buffer, in the reader's hand and on the channel while nobody else was
overheard. `IInv == TypeOK /\ (\A r : HeardInv(r)) /\ WrongMacExplained`. Hence
`TypeCorrect` and `WrongMacs` for any number of ranges and machines.

**RouteSplit** (`RouteSplitProofs`). `RouteInv == TypeOK /\ Chosen /\ Partition /\
WideRanges /\ Ordered /\ NoHostLost`. One lemma describes the pieces that laying one route over
one range leaves (`SplitPieces`); partition and order follow piece by piece.
`Ordered` says that a range's route is at least as narrow as every laid route it
meets; it is preserved because routes come by first address, so a route laid later
is never one that contains an earlier one, unless both start alike. Hence
`NetworkPartitioned`, `RouteTypes`, and `NarrowestWins` for tables
whose routes start at different addresses and networks away from both ends of the
address space, which is where the wrap of `PreviousIP` and `NextIP` interferes.
`HostsKept` is `NoHostLost`, which says of every address the result leaves out why it
does. For a network written with its mask the reason is an edge: a range starts there,
because the network does or because a route starts or has ended there, and it is the
first address of a route or ends in 0; or a range ends there, and it is a broadcast
address. `Chosen` carries it: ranges start in `Starts` and end in `Ends` only, so that
no `.0` in the middle of a range is given up. A rule that names one IPv4 host is sure to
keep it when it has a host route and no other route starts at its address:
`WideRanges` follows the one wide start through the split, where `bytes.Compare` puts
it before every address of four bytes but 0.0.0.0. 0.0.0.0/0 is excepted throughout.

**ProbeBatches** (`ProbeBatchesProofs`). `BatchInv == TypeOK /\ Position /\
BatchIntact /\ Accounted`: the loops' position determines the index; every slot of
the batch points to buffers that still hold what it is meant for; every probe built
is sent, lost or pending, and only one of these. Hence `BatchTypes`,
`NoSlotBeyondTheLast`, `FramesRight`, `NoFrameAgain` and `EveryProbeSent`.

For the ports themselves (`RulePorts`): `SortOrders` says what a sorted list holds and in
which order, `CompactSorted` that compacting such a list leaves every element once;
both count with cardinalities and take the least number that fits (`LeastNumber`), so
that no induction over lists is needed. `PortsListGives` puts them together with the
16-bit arithmetic of a field. With `RuleFixed` and `BatchInv`: `PortsOnce` and
`AllPortsProbed`, for any singles, ranges and common ports. The latter compares what is
probed with the field as it was written, with inclusive ranges: every single port and
every port of a range but its last is probed, and nothing else
(`ParsedAsWritten`: ends within 16 bits are parsed as they stand). A field with a longer
end is excepted, for `parsePortsRange` cuts it before its check.

**AddressSweep** (`AddressSweepProofs`). Two inductive invariants, one on top of the
other. `SweepInv` says, sweep by sweep, where the addresses that the producer has handed
over are: in the channel, in chunks that are apart and full but for the last
(`ChunksInv`); in a slot, each in one (`SlotsInv`); or asked or left over, each once, by
ARP once more when nothing is left to take (`AskedInv`). `RefusedInv` says why nobody who
has sent anything is refused: it was let through with a full chunk, and no chunk is
longer, or it had no other chunk to come. `EveryAddressAsked` needs that the
channel and the slots are empty of unasked addresses at the end, `AskedInRange` that a
slot holds no address twice and, when the slots are full, none that was asked before.
A lemma (`OneSweep`) reduces a step to the sweep that takes it. Hence `TypeCorrect`,
`AllAsked`, `InRangeOnly` and `RefusedFirst` for any ranges, chunk size, order of the
shuffle, rates and number of sweeps.

`RateInv` keeps the global limiter's accounts. `Paid` is the set of packets that were
paid for and not sent, as pairs of a sender and a number, so that the accounts are
cardinalities. `DebtInv`: the bucket owes no more than its sleeping debtors have paid for,
after every number of ticks (`Unpaid(k)`), since `WaitN` sleeps for as long as the debt
lasts (`RoundedUp`). `WindowInv`: what was sent since the j-th last tick, what is paid for and
what is left as credit came from j - 1 refills and, for each limiter there was, a burst and
`Batches`; a step moves packets from one of these to the other. `UnusedInv`: nobody uses
the limiter before it is made. A limiter that replaces another forgives its debts, which
`DebtInv` bounds by a batch for each sender; without that term the bound is false.
`RateBounded` is `WindowInv` for a whole second with `DebtInv` for k = 0. That a sender sends
no more than it paid for is `SlotsInv`, so `RateInv` is inductive only relative to `IInv`.

**The Stream** (`SessionStreamProofs`). Three invariants follow what goes through the
channels, for any capacities and any failures. `SpokenInv`: who has reported an error
is past the place where it does so (`Spoken`), hence `EachSpeaksOnce`. `CollectorInv`:
until the collector leaves, every error ever raised is still in `errorChan` in its
order; it leaves with the first of them, or with none when none was raised and the
channel is closed. Hence `FirstErrorReturned`. `FeedInv`: what was reported is what the
caller has, followed by the Stream's channel, the finding in the forwarder's hand and
`findingsChan`; and who sees a closed channel sees it empty. Hence
`StreamIsOrderedFeed`, the refinement `Spec => FeedSpec`: each step maps to an action
of `OrderedFeed` or a stutter.

**The result** (`SessionResultProofs`). `OrderInv` says of every range with discovery
that the host in its interceptor's hand, the hosts in `UpHostsChan`, the host being
probed and those that were are all reported (`KnownHosts`). Hence `ReportsGoFirst`, that
no probe precedes the report of its host, and `GatewaysKnown` from the dispatch. A port
may still be reported before its host, or without it: whoever sends to the source port
is reported. `CompleteInv` is the converse, while no error has
been raised: a host that is reported is still on its way or its probes were handed to
`sendmmsg` (`HostsAt`, `Tried`), unless a refused transmission is about to be reported; a port scan that has ended has
emptied `UpHostsChan` or sent the whole range; a refused range has not ended
(`NothingMissed`). `NilIsComplete` combines all of these: a nil from `Wait` means that
no error was raised and the channels were closed; so every range is done, none was
refused, nobody is left, and the buffers between the ranges and the caller are empty.
That every probe reached the wire is not part of it: a batch sent in part raises no
error (`lost`).

**Only model-checked.** `SessionEnds`, `SweepsEnd`, `RangesGoOn` and
`NeighborReadersEnd`: liveness under fairness is outside the prover. Every safety
property of the passing runs is proved.

## 5. Disagreements found

1. `structs.go:25` and `doc.go:215`: `Wait` is said to block until all scanning
   goroutines have finished. It waits for the forwarder and the collector
   (`common.go:270`), and the collector returns at the first error
   (`wait_before_finish`).
2. `common.go:238`: "Wait for all scan goroutines to finish, then close channels".
   `scanV4WithoutHostDiscovery` never waits for its interceptor; after a refused
   transmission the channels close under it (`close_before_silent`).
3. `doc.go:23`: an interceptor whose capture cannot be set up returns without its
   ready token (`v4.go:256`); sender, range, closer and caller wait for ever, and
   the error in `errorChan` is never seen (`capture_never_ready`).
4. `router/v4.go:56`: "more specific routes (narrower subnets)" are sorted by first
   address only; of two that start alike the wider may win (`route_order`).
5. `router/v4.go:264`: a range of one address that is a broadcast address of a wider
   route ends before it starts, and the chunk producer, which orders its bounds,
   also yields the address before it (`route_singleton`).
6. `doc.go:23`: "Call stream.Wait() to wait for completion and check for errors." After
   the first error nobody receives from `errorChan` (`common.go:270`), whose buffer holds
   four: when six ranges fail, the sixth waits in its report for ever, `Findings` is never
   closed, and the caller never gets to `Wait` (`errors_fill_up`).

Read or checked in the models, without a run of their own:

* `v4.go:192`: the function that "obtains the MAC address of a remote host" takes any
  ARP reply. Two ranges behind different gateways may take each other's, and
  `arpScan`'s hosts may be taken for a gateway; the whole range is then sent there.
  `WrongMacExplained` says that this, and an incomplete entry of the ARP table
  (`utils/v4.go:110` returns 00:00:00:00:00:00), are the only ways to a wrong address.
* `README.md:390` says the rate "will never exceed the global `--pps` cap". A full
  bucket adds a burst of one second's packets, and what the senders had paid for before
  may go out late: `RateBound` has the refill of a second, a burst, and a batch of every
  sender. The last two count once more for every scan that put its own `globalLimiter` in
  the place of another: the new one is full and knows nothing of the debts of the old.
* `v4.go:1867`: `arpScan` asks for 64 packets whatever the chunk holds; with a rate
  below 64 it gives up before its first packet (`RefusedAtOnce`), and after a short
  last chunk it asks addresses of the chunk before again (`AskedInRange` allows two).
* `README.md:372` says `shuffle` "does not randomize the order of IP addresses";
  the producers shuffle each chunk of 64.
* `README.md:244` says several rules run concurrently; `cli.go:122` scans them one
  after the other.
* `doc.go:117`: "PortsRanges is a list of inclusive port ranges." `Expand` leaves the
  end out (`rule.go:22`): its last port is never probed, 65535 is out of reach of a
  range, and `80-80` parses but is then refused by `Validate`. `RulePortsProbed` reads
  the ranges as inclusive and excepts their last port by name.
* `rule.go:73`: the ends of a range are cut to 16 bits before `rule.go:80` compares
  them, so that 65541-65543 is accepted and probes ports 5 and 6, which nobody wrote.
  `RulePortsProbed` excepts fields with such ends.
* `utils/v4.go:248`: `ip[3]` of the 16-byte address of a rule that names one IPv4 host
  is 0 whatever the host. With `router=smart` the only host of such a rule is taken for
  a network address (`router/v4.go:258`) and its range left empty, unless it has a
  host route of its own and no other route starts there. Without the option a /32 is
  given to `SimpleV4Route` (`rule.go:415`), which does not look. `NoHostLost` names the case.
* `router/v4.go:271`: a range that starts at an address ending in .0 loses it, though it
  may be a host of a wider network. `NoHostLost` names this one as well.
* `v4.go:60-119`, `v6.go:69-126`: a port is reported of whoever sends a SYN+ACK or a
  datagram to the source port from within the rule's network, also of a host that was
  never reported, or before it is; two ranges that draw the same source port report each
  other's answers once more.
* `v4.go:882` and every other call of `sendmmsg`: the number of messages sent is dropped.
  What the kernel leaves over is not sent again, and `Wait` returns nil.
* `utils/v4.go:110`: `/proc/net/arp` is searched for the gateway's IP address whatever
  the interface. `GatewayMac` has one link, on which an address has one entry.
* `common.go:168`: the error of `netlink.RouteGet` is overwritten and `route[0]` read all
  the same; without a route `Scan` panics.
* `[fe80::%if]` without an options field keeps no interface index: `rule.go:378` is
  inside the branch for options.

## 6. Not modelled, and why

* The string grammar of rules but for ports, the layout and checksums of packets, BPF
  filter texts and system call numbers: data without interleaving or state; the
  repository's unit tests cover the grammar. A checksum appears in `ProbeBatches`
  as the address it was computed for.
* Which of the machine's sockets `getLocalPorts` reports: a filter over data of the
  kernel. Any subset may pass.
* The command line: flags, printing, exit codes. It scans one rule after the other,
  so that two scans meet only in `globalLimiter`, which is in `AddressSweep`.
* Time in the session. A sleep or timeout may end at any moment; the limiters may let
  a batch through or refuse it. What they do precisely is in `AddressSweep`.
* The port scans' calls of the limiters: they are those of the sweeps, with batches of
  up to 64; in `RangePipeline` they are part of a transmission that may be refused.
* The content of the source route (`pickSrc`): whether one was found is a flag of
  the route. `SimpleV4Route`, `SimpleV6Route`: one range with the route the kernel
  names.
* Which messages of a batch `sendmmsg` leaves over: `ProbeBatches` and `AddressSweep`
  have batches and their slots; `RangePipeline` knows of a host only that some of its
  probes were left over. That a discovery's requests may be is covered there by hosts
  that never answer.
* A reader of `GatewayMac` that is left over stays for the life of the process, as does
  the producer of a sweep that gave up: the models show them, no property is claimed.

## 7. Plan

Written so far: the session with its ranges, local scan and stream; the router and
the batches; the sweeps with their limiters; the gateways; the ports of a rule. Left:

1. A proof that one range raises at most four errors (from `OneErrorEach`), and with it
   that a scan of one range never waits on `errorChan`.
