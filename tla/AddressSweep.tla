----------------------------- MODULE AddressSweep -----------------------------
(***************************************************************************)
(* How host discovery asks every address of a range: IPv4RangeBytesChunks  *)
(* and IPv6RangeBytesChunks (utils/v4.go, v6.go), the goroutine each of    *)
(* them starts, and the sending loops of arpScan, pingV4Scan and           *)
(* pingV6Scan, which share the limiters of RateLimiter.                    *)
(*                                                                         *)
(* The producer cuts the range into chunks of up to 64 addresses and hands *)
(* them over on a buffered channel.  The sender writes the addresses of a  *)
(* chunk into the slots of messageHeaders, pays both limiters and gives    *)
(* the slots to sendmmsg.  pingV4Scan and pingV6Scan pay for and send the  *)
(* slots they have filled.  arpScan always pays for and sends all of them: *)
(* after a last chunk that is short the others still hold the addresses of *)
(* the chunk before it, or nothing at all if there was none.               *)
(*                                                                         *)
(* RangePipeline has this whole loop as two actions, SendDiscovery and     *)
(* SendDiscoveryFails.                                                     *)
(***************************************************************************)
EXTENDS RateLimiter, Sequences, Functions

CONSTANTS
  ScanOf,     (* the scan each sweep belongs to                             *)
  Targets,    (* what the sweeps may be given: kind, range, shuffle         *)
  NoEnd,      (* a nil IpRangeRouteContext.End                              *)
  Space,      (* bound: the number of addresses, 2^32 or 2^128              *)
  Chunk,      (* constants.IOVecPacketsChunkSize                            *)
  ChunksCap   (* maxChunks of both producers                                *)

Address == 0..Space-1

ASSUME SweepAssumption ==
  /\ ScanOf \in [Senders -> Scans]
  /\ Targets \subseteq [Senders ->
       [kind : {"arp", "ping4", "ping6"}, shuffle : BOOLEAN,
        first : Address, last : Address \cup {NoEnd}]]
  /\ NoEnd \notin Int
  /\ Space \in Nat /\ Chunk \in Nat \ {0} /\ ChunksCap \in Nat \ {0}

VARIABLES
  target,     (* the sweep's kind of packet, range and Options.Shuffle      *)
  cursor,     (* the producer's current, or hi:lo                           *)
  producer,   (* its place                                                  *)
  chunks,     (* the channel                                                *)
  sendPc, ipChunk,
  slots,      (* messageHeaders; NoEnd where nothing was written yet        *)
  asked,      (* how often each address was asked                           *)
  lost,       (* addresses of slots that sendmmsg left over                 *)
  sent        (* packets of all sweeps: by now, by the last tick, and so on  *)

producing == <<cursor, producer, chunks>>
sending == <<sendPc, ipChunk, slots>>
wire == <<asked, lost, sent>>
vars == <<limiterVars, target, producing, sending, wire>>

Single(s) == target[s].last = NoEnd
First(s) == IF Single(s) THEN target[s].first ELSE Min({target[s].first, target[s].last})
Last(s)  == IF Single(s) THEN target[s].first ELSE Max({target[s].first, target[s].last})
RangeOf(s) == First(s)..Last(s)

\* A nil End: the channel is made with its one chunk in it, and closed.
Init ==
  /\ LimiterInit
  /\ target \in Targets
  /\ cursor = [s \in Senders |-> First(s)]
  /\ producer = [s \in Senders |-> IF Single(s) THEN "closed" ELSE "run"]
  /\ chunks = [s \in Senders |-> IF Single(s) THEN <<<<First(s)>>>> ELSE <<>>]
  /\ sendPc = [s \in Senders |-> "start"]
  /\ ipChunk = [s \in Senders |-> <<>>]
  /\ slots = [s \in Senders |-> [i \in 1..Chunk |-> NoEnd]]
  /\ asked = [s \in Senders |-> [a \in Address |-> 0]]
  /\ lost = [s \in Senders |-> {}]
  /\ sent = [t \in 0..TicksPerSecond+1 |-> 0]

-------------------------------------------------------------------------------
(* The producer.                                                           *)

\* rand.Shuffle of one chunk, or the chunk as it is.
Orders(s, n) ==
  IF target[s].shuffle THEN Bijection(1..n, 1..n) ELSE {[i \in 1..n |-> i]}

\* Addresses from a, n of them, in some order.
HandOver(s, a, n) ==
  /\ Len(chunks[s]) < ChunksCap
  /\ \E order \in Orders(s, n) :
       chunks' = [chunks EXCEPT ![s] = Append(@, [i \in 1..n |-> a + order[i] - 1])]

\* Mutant of Produce4: the cursor has the 32 bits of an address.
Produce4Wraps(s) ==
  /\ target[s].kind # "ping6" /\ producer[s] = "run" /\ cursor[s] <= Last(s)
  /\ LET n == Min({Last(s) - cursor[s] + 1, Chunk}) IN
       /\ HandOver(s, cursor[s], n)
       /\ cursor' = [cursor EXCEPT ![s] = (@ + n) % Space]
  /\ UNCHANGED <<limiterVars, target, producer, sending, wire>>

\* for current <= endNum: the cursor is a uint64, it goes past the last address.
Produce4(s) ==
  /\ target[s].kind # "ping6" /\ producer[s] = "run" /\ cursor[s] <= Last(s)
  /\ LET n == Min({Last(s) - cursor[s] + 1, Chunk}) IN
       /\ HandOver(s, cursor[s], n)
       /\ cursor' = [cursor EXCEPT ![s] = @ + n]
  /\ UNCHANGED <<limiterVars, target, producer, sending, wire>>

\* Mutant of Produce6: the chunk ends before the last address.
Produce6Exclusive(s) ==
  /\ target[s].kind = "ping6" /\ producer[s] = "run" /\ cursor[s] <= Last(s)
  /\ LET n == Min({Last(s) - cursor[s] + 1, Chunk})
         done == cursor[s] + n > Last(s) IN
       /\ HandOver(s, cursor[s], IF done /\ n > 1 THEN n - 1 ELSE n)
       /\ cursor' = [cursor EXCEPT ![s] = IF done THEN Last(s) ELSE (@ + n) % Space]
       /\ producer' = [producer EXCEPT ![s] = IF done THEN "leave" ELSE "run"]
  /\ UNCHANGED <<limiterVars, target, sending, wire>>

\* The cursor is as wide as an address: it stops at the last one, which may be the
\* last there is, and the loop is left through "done".
Produce6(s) ==
  /\ target[s].kind = "ping6" /\ producer[s] = "run" /\ cursor[s] <= Last(s)
  /\ LET n == Min({Last(s) - cursor[s] + 1, Chunk})
         done == cursor[s] + n > Last(s) IN
       /\ HandOver(s, cursor[s], n)
       /\ cursor' = [cursor EXCEPT ![s] = IF done THEN Last(s) ELSE (@ + n) % Space]
       /\ producer' = [producer EXCEPT ![s] = IF done THEN "leave" ELSE "run"]
  /\ UNCHANGED <<limiterVars, target, sending, wire>>

\* Mutant of CloseChunks: the IPv4 producer leaves its channel open.
CloseChunks6Only(s) ==
  /\ producer[s] = "leave"
  /\ producer' = [producer EXCEPT ![s] = "closed"]
  /\ UNCHANGED <<limiterVars, target, cursor, chunks, sending, wire>>

\* defer close(ch)
CloseChunks(s) ==
  /\ producer[s] = "leave" \/ (producer[s] = "run" /\ cursor[s] > Last(s))
  /\ producer' = [producer EXCEPT ![s] = "closed"]
  /\ UNCHANGED <<limiterVars, target, cursor, chunks, sending, wire>>

-------------------------------------------------------------------------------
(* The sender.                                                             *)

\* The capture is ready, in a scan that has its limiters.
StartSweep(s) ==
  /\ sendPc[s] = "start" /\ setUp[ScanOf[s]] = "ready"
  /\ sendPc' = [sendPc EXCEPT ![s] = "take"]
  /\ UNCHANGED <<limiterVars, target, producing, ipChunk, slots, wire>>

\* for ipChunk := range ...: the slots of the chunk are written, the others keep
\* what they hold.
TakeChunk(s) ==
  /\ sendPc[s] = "take" /\ chunks[s] # <<>>
  /\ ipChunk' = [ipChunk EXCEPT ![s] = Head(chunks[s])]
  /\ chunks' = [chunks EXCEPT ![s] = Tail(@)]
  /\ slots' = [slots EXCEPT ![s] = [i \in 1..Chunk |->
       IF i <= Len(Head(chunks[s])) THEN Head(chunks[s])[i] ELSE @[i]]]
  /\ sendPc' = [sendPc EXCEPT ![s] = "global"]
  /\ UNCHANGED <<limiterVars, target, cursor, producer, wire>>

\* The loop is over when the channel is closed and empty; then the timeout, and
\* the token on HostDiscoveryDoneChan.
EndSweep(s) ==
  /\ sendPc[s] = "take" /\ chunks[s] = <<>> /\ producer[s] = "closed"
  /\ sendPc' = [sendPc EXCEPT ![s] = "done"]
  /\ UNCHANGED <<limiterVars, target, producing, ipChunk, slots, wire>>

\* len(messageHeaders) for ARP, chunkLen for a ping.
Charge(s) == IF target[s].kind = "arp" THEN Chunk ELSE Len(ipChunk[s])

\* WaitN of the global limiter, then, when it has returned, of the scan's own.
\* The mutex inside a limiter makes each call one step.
AskGlobal(s) ==
  /\ sendPc[s] = "global"
  /\ Reserve(s, "global", Charge(s))
  /\ sendPc' = [sendPc EXCEPT ![s] = "local"]
  /\ UNCHANGED <<target, producing, ipChunk, slots, wire>>

AskLocal(s) ==
  /\ sendPc[s] = "local" /\ wait[s] = 0
  /\ Reserve(s, ScanOf[s], Charge(s))
  /\ sendPc' = [sendPc EXCEPT ![s] = "send"]
  /\ UNCHANGED <<target, producing, ipChunk, slots, wire>>

\* A limiter returns an error: it is reported and the sender returns.  Nobody
\* takes the chunks that are left.
GiveUp(s) ==
  /\ \/ sendPc[s] = "global" /\ Refuses("global", Charge(s))
     \/ sendPc[s] = "local" /\ wait[s] = 0 /\ Refuses(ScanOf[s], Charge(s))
  /\ sendPc' = [sendPc EXCEPT ![s] = "refused"]
  /\ UNCHANGED <<limiterVars, target, producing, ipChunk, slots, wire>>

\* The slots sendmmsg can transmit: it stops at one that was never written, which
\* has no destination.
Written(s) == {i \in 1..Charge(s) : \A j \in 1..i : slots[s][j] # NoEnd}
Ready(s) == Cardinality(Written(s))

\* sendmmsg takes one message or more; how many is not looked at.
Send(s) ==
  /\ sendPc[s] = "send" /\ wait[s] = 0
  /\ \E k \in 1..Ready(s) :
       /\ asked' = [asked EXCEPT ![s] = [a \in Address |->
                      @[a] + Cardinality({i \in 1..k : slots[s][i] = a})]]
       /\ lost' = [lost EXCEPT ![s] = @ \cup {slots[s][i] : i \in k+1..Ready(s)}]
       /\ sent' = [sent EXCEPT ![0] = @ + k]
  /\ sendPc' = [sendPc EXCEPT ![s] = "take"]
  /\ UNCHANGED <<limiterVars, target, producing, ipChunk, slots>>

\* sendmmsg fails on its first message.
SendFails(s) ==
  /\ sendPc[s] = "send" /\ wait[s] = 0
  /\ sendPc' = [sendPc EXCEPT ![s] = "failed"]
  /\ UNCHANGED <<limiterVars, target, producing, ipChunk, slots, wire>>

-------------------------------------------------------------------------------
\* A tick of the clock.  No goroutine is bound to be quick.
Tick ==
  /\ PassTime
  /\ sent' = [t \in 0..TicksPerSecond+1 |-> IF t = 0 THEN sent[0] ELSE sent[t-1]]
  /\ UNCHANGED <<target, producing, sending, asked, lost>>

ScanStep(c) == (CheckLimiter(c) \/ MakeLimiter(c)) /\ UNCHANGED <<target, producing, sending, wire>>
ProducerStep(s) == Produce4(s) \/ Produce6(s) \/ CloseChunks(s)
SenderStep(s) ==
  StartSweep(s) \/ TakeChunk(s) \/ EndSweep(s) \/ AskGlobal(s) \/ AskLocal(s) \/ GiveUp(s) \/ Send(s)

Next ==
  \/ \E c \in Scans : ScanStep(c)
  \/ \E s \in Senders : ProducerStep(s) \/ SenderStep(s) \/ SendFails(s)
  \/ Tick

\* The Go scheduler runs every goroutine that can run, and time passes.
Fairness ==
  /\ \A c \in Scans : WF_vars(ScanStep(c))
  /\ \A s \in Senders : WF_vars(ProducerStep(s)) /\ WF_vars(SenderStep(s))
  /\ WF_vars(Tick)

Spec == Init /\ [][Next]_vars /\ Fairness

-------------------------------------------------------------------------------
\* Every variable has its type.
TypeOK ==
  /\ LimiterType
  /\ target \in Targets
  /\ cursor \in [Senders -> 0..Space]
  /\ producer \in [Senders -> {"run", "leave", "closed"}]
  /\ sendPc \in [Senders -> {"start", "take", "global", "local", "send", "done",
                             "refused", "failed"}]
  /\ chunks \in [Senders -> Seq(Seq(Address))]
  /\ ipChunk \in [Senders -> Seq(Address)]
  /\ \A s \in Senders : Len(chunks[s]) <= ChunksCap /\ Len(ipChunk[s]) <= Chunk
  /\ slots \in [Senders -> [1..Chunk -> Address \cup {NoEnd}]]
  /\ asked \in [Senders -> [Address -> Nat]]
  /\ lost \in [Senders -> SUBSET Address]
  /\ sent \in [0..TicksPerSecond+1 -> Nat]

\* A sweep that is over has asked every address of its range, but for those that
\* sendmmsg left over without a word: chunk boundaries, a last chunk that is short,
\* the end of the address space and the shuffle lose none.
EveryAddressAsked ==
  \A s \in Senders : sendPc[s] = "done" =>
    \A a \in RangeOf(s) : asked[s][a] > 0 \/ a \in lost[s]

\* No address is asked that is not in the range; one that is, once by a ping, and at
\* most twice by ARP, where the slots of the chunk before are sent again.
AskedInRange ==
  \A s \in Senders : \A a \in Address :
    asked[s][a] <= IF a \notin RangeOf(s) THEN 0 ELSE IF target[s].kind = "arp" THEN 2 ELSE 1

\* A limiter refuses a sweep before its first packet or not at all: no range is left
\* half asked because of a rate.
RefusedAtOnce ==
  \A s \in Senders : sendPc[s] = "refused" =>
    lost[s] = {} /\ \A a \in Address : asked[s][a] = 0

\* In a second the scanner sends no more than the refill of the global limiter, its
\* burst, and the batch each sender had paid for before; the last two once more for
\* each limiter that a Scan put in the place of another, since the new one knows
\* nothing of the debts of the old.
RateBound ==
  sent[0] - sent[TicksPerSecond + 1] <=
    pps["global"] + Max({1, made}) * (pps["global"] + Chunk * Cardinality(Senders))

\* Every sweep comes to its end or gives up, whatever the others take from the
\* limiters.
SweepsEnd == \A s \in Senders : <>(sendPc[s] \in {"done", "refused", "failed"})

-------------------------------------------------------------------------------
(* The inductive invariants of the proofs: where the addresses of a sweep are. *)

\* What the producer has put in chunks, and whether that was all.
Handed(s) == IF producer[s] = "run" THEN First(s)..cursor[s]-1 ELSE RangeOf(s)
AllHanded(s) == producer[s] # "run" \/ cursor[s] > Last(s)

InChunks(s) == UNION {Range(chunks[s][i]) : i \in DOMAIN chunks[s]}
Taken(s) == sendPc[s] \in {"global", "local", "send"}
Touched(s) == {a \in Address : asked[s][a] > 0} \cup lost[s]
Exhausted(s) == chunks[s] = <<>> /\ AllHanded(s)

\* Chunks are in the range, apart, and full but for the last.
ChunksInv(s) ==
  /\ producer[s] = "run" => cursor[s] \in First(s)..Last(s)+1
  /\ target[s].kind = "ping6" /\ producer[s] = "run" => cursor[s] <= Last(s)
  /\ \A i \in DOMAIN chunks[s] :
       /\ chunks[s][i] # <<>> /\ Len(chunks[s][i]) <= Chunk
       /\ IsInjective(chunks[s][i]) /\ Range(chunks[s][i]) \subseteq Handed(s)
       /\ Len(chunks[s][i]) < Chunk => i = Len(chunks[s]) /\ AllHanded(s)
  /\ \A i, j \in DOMAIN chunks[s] :
       i # j => Range(chunks[s][i]) \cap Range(chunks[s][j]) = {}

\* The slots hold addresses that were taken from the channel, each once: those of the
\* chunk, which nobody has asked, and behind a last chunk that is short some of the
\* chunk before it.
SlotsInv(s) ==
  /\ \A i \in 1..Chunk : slots[s][i] # NoEnd =>
       /\ slots[s][i] \in Handed(s) \ InChunks(s)
       /\ \A j \in 1..Chunk : slots[s][j] = slots[s][i] => i = j
  /\ Taken(s) =>
       /\ ipChunk[s] # <<>>
       /\ \A i \in 1..Len(ipChunk[s]) : slots[s][i] = ipChunk[s][i] /\ ipChunk[s][i] \notin Touched(s)
       /\ Len(ipChunk[s]) < Chunk => Exhausted(s)

\* An address that was handed over is in the channel or in a slot, or it was asked or
\* left over; and it was asked once, twice only by ARP and after the last chunk.
AskedInv(s) ==
  /\ Touched(s) \subseteq Handed(s) \ InChunks(s)
  /\ sendPc[s] \in {"start", "take", "global", "local", "send", "done"} =>
       Handed(s) \subseteq Touched(s) \cup InChunks(s)
                             \cup (IF Taken(s) THEN Range(ipChunk[s]) ELSE {})
  /\ sendPc[s] = "done" => Exhausted(s) /\ producer[s] = "closed"
  /\ \/ \A a \in Address : asked[s][a] <= 1
     \/ /\ target[s].kind = "arp" /\ ~Taken(s) /\ Exhausted(s)
        /\ \A a \in Address : asked[s][a] <= 2

\* Whoever has sent anything was let through with a full chunk, or has no other.
RefusedInv(s) ==
  /\ sendPc[s] \in {"local", "send"} => Charge(s) <= pps["global"]
  /\ sendPc[s] = "send" => Charge(s) <= pps[ScanOf[s]]
  /\ sendPc[s] \in {"start", "refused"} => Touched(s) = {}
  /\ Touched(s) # {} => \/ Chunk <= pps["global"] /\ Chunk <= pps[ScanOf[s]]
                        \/ ~Taken(s) /\ Exhausted(s)

SweepInv == \A s \in Senders : ChunksInv(s) /\ SlotsInv(s) /\ AskedInv(s) /\ RefusedInv(s)

-------------------------------------------------------------------------------
(* ... and what the global limiter is owed.                                *)

\* The packets that are paid for and not sent yet, and those of them whose sender
\* sleeps more than k ticks.
Paid == {p \in Senders \X (1..Chunk) :
           sendPc[p[1]] \in {"local", "send"} /\ p[2] <= Charge(p[1])}
Unpaid(k) == {p \in Paid : sendPc[p[1]] = "local" /\ wait[p[1]] > k}

\* Who is in debt sleeps until it is paid.
DebtInv ==
  \A k \in Nat :
    credit["global"] + k * pps["global"] + TicksPerSecond * Cardinality(Unpaid(k)) >= 0

\* The first limiter is not used before the Scans that found it missing agree.
UnusedInv ==
  made = 0 => /\ \A c \in Scans : setUp[c] # "ready"
              /\ \A s \in Senders : sendPc[s] = "start"
              /\ credit["global"] = Full("global")

\* What was sent since the j-th last tick, is paid for or left as credit, comes from
\* the bursts of the limiters there were, what was paid for before, and j - 1 ticks.
WindowInv ==
  \A j \in 1..TicksPerSecond+1 :
    TicksPerSecond * (sent[0] - sent[j] + Cardinality(Paid)) + credit["global"] <=
      TicksPerSecond * (Max({1, made}) * (pps["global"] + Chunk * Cardinality(Senders)))
        + (j - 1) * pps["global"]

RateInv == UnusedInv /\ DebtInv /\ WindowInv

===============================================================================
