------------------------------ MODULE GatewayMac ------------------------------
(***************************************************************************)
(* How the ranges that are scanned through a gateway learn its MAC address *)
(* (the first lines of scanV4OverGateway, scanV4WithoutHostDiscovery and   *)
(* their V6 counterparts): a look into the kernel's table, and, if it has  *)
(* no entry, a question on the link, answered to a reader goroutine within *)
(* a second or not at all.  RangePipeline has all this as ResolveGateway   *)
(* and ResolveGatewayFails.                                                *)
(*                                                                         *)
(* The ranges of a scan do this at the same time on the same link, and     *)
(* every open pcap handle captures every answer.  In IPv4 any ARP reply    *)
(* will do (getRemoteMacAddrSingleV4Host, readWhoHasArpResponse); in IPv6  *)
(* an advertisement must name the gateway (readNsResponse).                *)
(*                                                                         *)
(* A machine stands for its MAC address.                                   *)
(***************************************************************************)
EXTENDS Naturals, Sequences

CONSTANTS
  Ranges,        (* the ranges that need a gateway's address                *)
  Machines,      (* the other machines on the link                          *)
  Gateways,      (* what Route.Gw of the ranges may be                      *)
  Families,      (* and rule.Network.IP's family                            *)
  Tables,        (* what the kernel's table may say of a gateway            *)
  NoMac,         (* nil                                                     *)
  ZeroMac,       (* 00:00:00:00:00:00                                       *)
  Talkers,       (* machines that may speak unasked                         *)
  MaxAnswers     (* bound: packets on the link                              *)

ASSUME GatewayAssumption ==
  /\ Gateways \subseteq [Ranges -> Machines]
  /\ Families \subseteq {"v4", "v6"}
  /\ Tables \subseteq {"absent", "incomplete", "known"}
  /\ NoMac \notin Machines /\ ZeroMac \notin Machines /\ NoMac # ZeroMac
  /\ Talkers \subseteq Machines /\ MaxAnswers \in Nat

VARIABLES
  family,      (* of the scan                                               *)
  gateway, table,   (* of each range                                        *)
  askPc,       (* the range's goroutine                                     *)
  mac,         (* gatewayMacAddress                                         *)
  readPc,      (* the reader                                                *)
  held,        (* the address it is about to send on addrChan               *)
  addrChan,    (* IPv6: its buffer of one; IPv4: unbuffered                 *)
  captured,    (* packets its handle captured that it has not looked at     *)
  overheard,   (* history: its handle captured another machine's packet     *)
  asked,       (* gateways somebody asked for                               *)
  answers      (* packets on the link so far                                *)

asker == <<askPc, mac>>
reader == <<readPc, held, addrChan>>
link == <<captured, overheard, asked, answers>>
fixed == <<family, gateway, table>>
vars == <<fixed, asker, reader, link>>

Over(r) == askPc[r] \in {"found", "failed"}

Init ==
  /\ family \in Families
  /\ gateway \in Gateways
  /\ table \in [Ranges -> Tables]
  /\ askPc = [r \in Ranges |-> "lookup"]
  /\ mac = [r \in Ranges |-> NoMac]
  /\ readPc = [r \in Ranges |-> "off"]
  /\ held = [r \in Ranges |-> NoMac]
  /\ addrChan = [r \in Ranges |-> <<>>]
  /\ captured = [r \in Ranges |-> <<>>]
  /\ overheard = [r \in Ranges |-> FALSE]
  /\ asked = {} /\ answers = 0

-------------------------------------------------------------------------------
(* The range's goroutine.                                                  *)

Found(r, m) ==
  /\ mac' = [mac EXCEPT ![r] = m]
  /\ askPc' = [askPc EXCEPT ![r] = "found"]

\* GetHardwareAddrFromARPTable takes the entry as it is: one whose question is
\* still open, or was never answered, has the address zero.  It looks for the IP
\* address alone, on whatever interface (/proc/net/arp lists them all); here there
\* is one link, and so one entry for an address.
LookUp4(r) ==
  /\ askPc[r] = "lookup" /\ family = "v4" /\ table[r] # "absent"
  /\ Found(r, IF table[r] = "known" THEN gateway[r] ELSE ZeroMac)
  /\ UNCHANGED <<fixed, reader, link>>

\* GetHardwareAddrFromNeighborCache looks at the state of the entry.
LookUp6(r) ==
  /\ askPc[r] = "lookup" /\ family = "v6" /\ table[r] = "known"
  /\ Found(r, gateway[r])
  /\ UNCHANGED <<fixed, reader, link>>

\* Nothing in the table: pcap.OpenLive, and the reader is started.
OpenHandle(r) ==
  /\ askPc[r] = "lookup"
  /\ table[r] = "absent" \/ (family = "v6" /\ table[r] = "incomplete")
  /\ askPc' = [askPc EXCEPT ![r] = "ask"]
  /\ readPc' = [readPc EXCEPT ![r] = "listen"]
  /\ UNCHANGED <<fixed, mac, held, addrChan, link>>

\* sendWhoHasArpRequest, sendNsRequest
Ask(r) ==
  /\ askPc[r] = "ask"
  /\ askPc' = [askPc EXCEPT ![r] = "await"]
  /\ asked' = asked \cup {gateway[r]}
  /\ UNCHANGED <<fixed, mac, reader, captured, overheard, answers>>

\* The table cannot be read, no handle, the request cannot be sent.
AskFails(r) ==
  /\ askPc[r] \in {"lookup", "ask"}
  /\ askPc' = [askPc EXCEPT ![r] = "failed"]
  /\ UNCHANGED <<fixed, mac, reader, link>>

\* Mutant of TimeOut: an IPv4 range has no clock.
TimeOut6Only(r) ==
  /\ askPc[r] = "await" /\ family = "v6"
  /\ askPc' = [askPc EXCEPT ![r] = "failed"]
  /\ UNCHANGED <<fixed, mac, reader, link>>

\* GatewayMacRequestTimeout: a nil address in IPv4 and an error in IPv6, and an
\* error on errorChan either way.
TimeOut(r) ==
  /\ askPc[r] = "await"
  /\ askPc' = [askPc EXCEPT ![r] = "failed"]
  /\ UNCHANGED <<fixed, mac, reader, link>>

\* case addr := <-addrChan, IPv4: the reader goes on listening.
TakeAnswer4(r) ==
  /\ askPc[r] = "await" /\ family = "v4" /\ readPc[r] = "deliver"
  /\ Found(r, held[r])
  /\ held' = [held EXCEPT ![r] = NoMac]
  /\ readPc' = [readPc EXCEPT ![r] = "listen"]
  /\ UNCHANGED <<fixed, addrChan, link>>

\* case mac := <-addrChan, IPv6
TakeAnswer6(r) ==
  /\ askPc[r] = "await" /\ family = "v6" /\ addrChan[r] # <<>>
  /\ Found(r, Head(addrChan[r]))
  /\ addrChan' = [addrChan EXCEPT ![r] = <<>>]
  /\ UNCHANGED <<fixed, readPc, held, link>>

-------------------------------------------------------------------------------
(* The reader.                                                             *)

\* Mutant of ReadReply: the address is not taken from the packet.
ReadReplyUnset(r) ==
  /\ family = "v4" /\ readPc[r] = "listen" /\ captured[r] # <<>>
  /\ readPc' = [readPc EXCEPT ![r] = "deliver"]
  /\ captured' = [captured EXCEPT ![r] = Tail(@)]
  /\ UNCHANGED <<fixed, asker, held, addrChan, overheard, asked, answers>>

\* An ARP reply from another machine.
ReadReply(r) ==
  /\ family = "v4" /\ readPc[r] = "listen" /\ captured[r] # <<>>
  /\ held' = [held EXCEPT ![r] = Head(captured[r])]
  /\ readPc' = [readPc EXCEPT ![r] = "deliver"]
  /\ captured' = [captured EXCEPT ![r] = Tail(@)]
  /\ UNCHANGED <<fixed, asker, addrChan, overheard, asked, answers>>

\* Mutant of ReadAdvertisement: as in IPv4, the target is not looked at.
ReadAnyAdvertisement(r) ==
  /\ family = "v6" /\ readPc[r] = "listen" /\ captured[r] # <<>>
  /\ held' = [held EXCEPT ![r] = Head(captured[r])]
  /\ readPc' = [readPc EXCEPT ![r] = "deliver"]
  /\ captured' = [captured EXCEPT ![r] = Tail(@)]
  /\ UNCHANGED <<fixed, asker, addrChan, overheard, asked, answers>>

\* A neighbor advertisement: of another target it is dropped.
ReadAdvertisement(r) ==
  /\ family = "v6" /\ readPc[r] = "listen" /\ captured[r] # <<>>
  /\ \/ /\ Head(captured[r]) = gateway[r]
        /\ held' = [held EXCEPT ![r] = gateway[r]]
        /\ readPc' = [readPc EXCEPT ![r] = "deliver"]
     \/ /\ Head(captured[r]) # gateway[r]
        /\ UNCHANGED <<held, readPc>>
  /\ captured' = [captured EXCEPT ![r] = Tail(@)]
  /\ UNCHANGED <<fixed, asker, addrChan, overheard, asked, answers>>

\* Mutant of Deliver6: addrChan has no buffer, as in IPv4.
Deliver6Unbuffered(r) ==
  /\ family = "v6" /\ readPc[r] = "deliver" /\ askPc[r] = "await"
  /\ addrChan' = [addrChan EXCEPT ![r] = <<held[r]>>]
  /\ held' = [held EXCEPT ![r] = NoMac]
  /\ readPc' = [readPc EXCEPT ![r] = "end"]
  /\ UNCHANGED <<fixed, asker, link>>

\* addrChan <- dstEth; return
Deliver6(r) ==
  /\ family = "v6" /\ readPc[r] = "deliver" /\ addrChan[r] = <<>>
  /\ addrChan' = [addrChan EXCEPT ![r] = <<held[r]>>]
  /\ held' = [held EXCEPT ![r] = NoMac]
  /\ readPc' = [readPc EXCEPT ![r] = "end"]
  /\ UNCHANGED <<fixed, asker, link>>

\* The deferred handle.Close() and close(stop): the packet channel ends, and the
\* select sees stop.  Packets that are still there may be looked at before.
ReaderStops(r) ==
  /\ Over(r) /\ readPc[r] = "listen"
  /\ readPc' = [readPc EXCEPT ![r] = "end"]
  /\ UNCHANGED <<fixed, asker, held, addrChan, link>>

-------------------------------------------------------------------------------
(* The link.                                                               *)

Listening(r) == askPc[r] \in {"ask", "await"}

\* Machine m answers, late or twice perhaps, or speaks unasked: the hosts that an
\* arpScan of the same scan asks do.  Every handle that is open captures it.
Answer(m) ==
  /\ m \in asked \cup Talkers
  /\ answers < MaxAnswers
  /\ answers' = answers + 1
  /\ captured' = [r \in Ranges |-> IF Listening(r) THEN Append(captured[r], m) ELSE captured[r]]
  /\ overheard' = [r \in Ranges |-> overheard[r] \/ (Listening(r) /\ m # gateway[r])]
  /\ UNCHANGED <<fixed, asker, reader, asked>>

AskerStep(r) == LookUp4(r) \/ LookUp6(r) \/ OpenHandle(r) \/ Ask(r) \/ TimeOut(r)
                \/ TakeAnswer4(r) \/ TakeAnswer6(r)
ReaderStep(r) == ReadReply(r) \/ ReadAdvertisement(r) \/ Deliver6(r) \/ ReaderStops(r)

Resolved == (\A r \in Ranges : Over(r)) /\ UNCHANGED vars

Next ==
  \/ \E r \in Ranges : AskerStep(r) \/ AskFails(r) \/ ReaderStep(r)
  \/ \E m \in Machines : Answer(m)
  \/ Resolved

\* The Go scheduler runs every goroutine that can run, and the clock of time.After
\* goes on.  Nobody has to answer.
Fairness == \A r \in Ranges : WF_vars(AskerStep(r)) /\ WF_vars(ReaderStep(r))

Spec == Init /\ [][Next]_vars /\ Fairness

-------------------------------------------------------------------------------
Macs == Machines \cup {NoMac, ZeroMac}

\* Every variable has its type.
TypeOK ==
  /\ family \in Families /\ gateway \in Gateways
  /\ table \in [Ranges -> Tables]
  /\ askPc \in [Ranges -> {"lookup", "ask", "await", "found", "failed"}]
  /\ mac \in [Ranges -> Macs]
  /\ readPc \in [Ranges -> {"off", "listen", "deliver", "end"}]
  /\ held \in [Ranges -> Macs]
  /\ addrChan \in [Ranges -> Seq(Machines)] /\ \A r \in Ranges : Len(addrChan[r]) <= 1
  /\ captured \in [Ranges -> Seq(Machines)]
  /\ overheard \in [Ranges -> BOOLEAN]
  /\ asked \subseteq Machines /\ answers \in 0..MaxAnswers
  /\ \A r \in Ranges : readPc[r] = "deliver" => held[r] \in Machines

\* What a range's handle has captured, and what its reader passes on: the gateway's
\* address, or in IPv4 that of a machine that was overheard.
HeardInv(r) ==
  /\ ~overheard[r] => captured[r] \in Seq({gateway[r]})
  /\ addrChan[r] \in {<<>>, <<gateway[r]>>}
  /\ held[r] \in {NoMac, gateway[r]} \/ (family = "v4" /\ overheard[r])

\* A range goes on with its gateway's address; when it does not (in IPv6 it always
\* does), the ARP table had an entry that nobody answered, or another machine spoke
\* while the range's handle was open, although getRemoteMacAddrSingleV4Host "obtains
\* the MAC address of a remote host if not found in the ARP cache" (v4.go).
WrongMacExplained ==
  \A r \in Ranges : askPc[r] = "found" =>
    \/ mac[r] = gateway[r]
    \/ family = "v4" /\ table[r] = "incomplete"
    \/ family = "v4" /\ overheard[r]

\* The inductive invariant of the proofs.
IInv == TypeOK /\ (\A r \in Ranges : HeardInv(r)) /\ WrongMacExplained

\* Every range learns an address or gives up, whoever answers, and when.
RangesGoOn == \A r \in Ranges : <>Over(r)

\* An IPv6 reader never outlives its question for long: an answer that comes at the
\* timeout, or after it, does not keep the goroutine.  (An IPv4 reader that holds
\* an answer then waits for ever.)
NeighborReadersEnd ==
  \A r \in Ranges : (family = "v6" /\ Over(r)) ~> readPc[r] \in {"off", "end"}

===============================================================================
