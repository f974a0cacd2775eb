----------------------------- MODULE ProbeBatches -----------------------------
(***************************************************************************)
(* The packets of a port scan, as pointToPointV4PortsScan,                 *)
(* scanPortsV4OverGateway, scanV4WithoutHostDiscovery and their IPv6 twins *)
(* batch them for sendmmsg.                                                *)
(*                                                                         *)
(* A packet is never assembled: a slot of messageHeaders points to an IP   *)
(* header, of one technique, and to a transport header, of one technique   *)
(* and port, and the kernel reads what these buffers hold when the batch   *)
(* is sent.  With host discovery all hosts share one set of buffers; a     *)
(* scan without it makes new ones for every address and carries its batch  *)
(* over from one address to the next.                                      *)
(*                                                                         *)
(* The scan is one goroutine: the order of its steps is the code's.  What  *)
(* varies are the hosts and their order, the techniques and ports of the   *)
(* rule, and how much of a batch the kernel takes.                         *)
(***************************************************************************)
EXTENDS RulePorts

CONSTANTS
  Hosts,          (* what UpHostsChan or the address chunks may yield; a    *)
                  (* host that answers twice is there twice                 *)
  NoHost,
  MaxTechniques,  (* three in the code: Syn, Vav, Udp                       *)
  MaxPorts,       (* bound of len(c.ports)                                  *)
  Chunk           (* constants.IOVecPacketsChunkSize                        *)

ASSUME BatchAssumption ==
  /\ NoHost \notin Hosts
  /\ MaxTechniques \in Nat \ {0} /\ MaxPorts \in Nat /\ Chunk \in Nat \ {0}
  /\ \A f \in Fields : Accepted(f) => Len(PortsList(f)) \in 0..MaxPorts

VARIABLES
  direct,         (* the scan runs without host discovery                   *)
  techniques,     (* scanTypesCount: the enabled ones, numbered in order    *)
  field,          (* rule.Ports and rule.PortsRanges                        *)
  portsList,      (* c.ports                                                *)
  up,             (* the hosts that will come                               *)
  taken,          (* those that came                                        *)
  host, technique, port, pc,
  ipHeaders,      (* the address in an IP header buffer                     *)
  portHeaders,    (* the address a transport header's checksum is for       *)
  messageHeaders, currentIndex,
  sent,           (* frames on the wire                                     *)
  again,          (* frames that went out more than once                    *)
  lost            (* frames of a batch that sendmmsg left over              *)

rule == <<direct, techniques, field, portsList, up>>
position == <<taken, host, technique, port>>
buffers == <<ipHeaders, portHeaders, messageHeaders>>
wire == <<sent, again, lost>>
vars == <<rule, position, pc, buffers, currentIndex, wire>>

ports == Len(portsList)
Techniques == 1..MaxTechniques
Ports == 1..MaxPorts
Owners == Hosts \cup {NoHost}
Slot == [owner : Owners, technique : Techniques, port : Ports]
Frame == [to : Owners, sum : Owners, technique : Techniques, port : Ports]

Init ==
  /\ direct \in BOOLEAN /\ techniques \in Techniques
  /\ field \in Fields /\ Accepted(field) /\ portsList = PortsList(field)
  /\ up \in SUBSET Hosts /\ taken = {}
  /\ host = NoHost /\ technique = techniques + 1 /\ port = 1 /\ pc = "next"
  /\ ipHeaders = [b \in Owners \X Techniques |-> NoHost]
  /\ portHeaders = [b \in Owners \X Techniques \X Ports |-> NoHost]
  /\ messageHeaders \in [0..Chunk-1 -> {[owner |-> NoHost, technique |-> 1, port |-> 1]}]
  /\ currentIndex = 0
  /\ sent = {} /\ again = {} /\ lost = {}

-------------------------------------------------------------------------------
(* Sending a batch.                                                        *)

\* Mutant of Owner: the buffers are never made anew.
OwnerShared(h) == NoHost

\* Whose buffers the packets to host h are built in; NoHost stands for the
\* buffers that are made once.
Owner(h) == IF direct THEN h ELSE NoHost

\* Mutant of FitsOneBatch: the techniques are forgotten.
FitsOneBatchByPorts == ~direct /\ ports < Chunk

\* All packets to a host fit in a batch: it is not looked at before the host's
\* last packet.
FitsOneBatch == ~direct /\ ports * techniques < Chunk

\* What the kernel reads when it sends slot i.
Read(i) ==
  LET s == messageHeaders[i] IN
  [to  |-> ipHeaders[<<s.owner, s.technique>>],
   sum |-> portHeaders[<<s.owner, s.technique, s.port>>],
   technique |-> s.technique, port |-> s.port]

\* sendmmsg takes one message or more of a batch that is not empty.  How many it
\* took is not looked at: the rest is lost.
Transmit ==
  \E k \in 0..currentIndex :
    /\ k = 0 => currentIndex = 0
    /\ sent' = sent \cup {Read(i) : i \in 0..k-1}
    /\ again' = again \cup {Read(i) : i \in {i \in 0..k-1 :
                              Read(i) \in sent \/ \E j \in 0..i-1 : Read(j) = Read(i)}}
    /\ lost' = lost \cup {Read(i) : i \in k..currentIndex-1}

-------------------------------------------------------------------------------
(* The loops over hosts, techniques and ports.                             *)

\* The next host from UpHostsChan, or the next address of a chunk, whose IP
\* headers are all filled at once.
TakeHost ==
  /\ pc = "next"
  /\ \E h \in up \ taken :
       /\ host' = h
       /\ taken' = taken \cup {h}
       /\ ipHeaders' = IF direct
            THEN [b \in DOMAIN ipHeaders |-> IF b[1] = h THEN h ELSE ipHeaders[b]]
            ELSE ipHeaders
  /\ technique' = 1 /\ port' = 1 /\ pc' = "technique"
  /\ UNCHANGED <<rule, portHeaders, messageHeaders, currentIndex, wire>>

\* The shared IP header of a technique is written for the host.
StartTechnique ==
  /\ pc = "technique"
  /\ ipHeaders' = [ipHeaders EXCEPT ![<<Owner(host), technique>>] = host]
  /\ pc' = "port"
  /\ UNCHANGED <<rule, position, portHeaders, messageHeaders, currentIndex, wire>>

\* Mutant of AddProbe: a full batch is noticed one packet late.
AddProbeLate ==
  /\ pc = "port" /\ port <= ports
  /\ portHeaders' = [portHeaders EXCEPT ![<<Owner(host), technique, port>>] = host]
  /\ messageHeaders' = [messageHeaders EXCEPT ![currentIndex] =
       [owner |-> Owner(host), technique |-> technique, port |-> port]]
  /\ currentIndex' = currentIndex + 1
  /\ port' = port + 1
  /\ pc' = IF ~FitsOneBatch /\ currentIndex' > Chunk THEN "full" ELSE "port"
  /\ UNCHANGED <<rule, taken, host, technique, ipHeaders, wire>>

\* The transport header of the port is written, and the slot that points to it.
AddProbe ==
  /\ pc = "port" /\ port <= ports
  /\ portHeaders' = [portHeaders EXCEPT ![<<Owner(host), technique, port>>] = host]
  /\ messageHeaders' = [messageHeaders EXCEPT ![currentIndex] =
       [owner |-> Owner(host), technique |-> technique, port |-> port]]
  /\ currentIndex' = currentIndex + 1
  /\ port' = port + 1
  /\ pc' = IF ~FitsOneBatch /\ currentIndex' = Chunk THEN "full" ELSE "port"
  /\ UNCHANGED <<rule, taken, host, technique, ipHeaders, wire>>

\* Mutant of SendFull: the index stays, the batch is sent again with the next one.
SendFullKeepsIndex ==
  /\ pc = "full"
  /\ Transmit
  /\ currentIndex' = currentIndex - 1
  /\ pc' = "port"
  /\ UNCHANGED <<rule, position, buffers>>

SendFull ==
  /\ pc = "full"
  /\ Transmit
  /\ currentIndex' = 0
  /\ pc' = "port"
  /\ UNCHANGED <<rule, position, buffers>>

EndTechnique ==
  /\ pc = "port" /\ port > ports
  /\ technique' = technique + 1 /\ port' = 1
  /\ \/ technique < techniques /\ pc' = "technique"
     \/ technique = techniques /\ pc' = IF direct THEN "next" ELSE "flush"
  /\ UNCHANGED <<rule, taken, host, buffers, currentIndex, wire>>

\* With host discovery: the leftover messages of the host, or its one batch.  The
\* index is a variable of the loop's body.
Flush ==
  /\ pc = "flush"
  /\ Transmit
  /\ currentIndex' = 0
  /\ pc' = "next"
  /\ UNCHANGED <<rule, position, buffers>>

\* Mutant of Finish: a last batch that is not full is forgotten.
FinishUnflushed ==
  /\ pc = "next" /\ taken = up
  /\ currentIndex' = 0
  /\ pc' = "done"
  /\ UNCHANGED <<rule, position, buffers, wire>>

\* No host is left.  Without host discovery the rest of the batch goes out now.
Finish ==
  /\ pc = "next" /\ taken = up
  /\ Transmit
  /\ currentIndex' = 0
  /\ pc' = "done"
  /\ UNCHANGED <<rule, position, buffers>>

\* A limiter refuses the batch, or sendmmsg fails before its first message.
SendFails ==
  /\ \/ pc = "full"
     \/ pc = "flush" /\ (FitsOneBatch \/ currentIndex > 0)
     \/ pc = "next" /\ taken = up /\ currentIndex > 0
  /\ pc' = "failed"
  /\ UNCHANGED <<rule, position, buffers, currentIndex, wire>>

Finished == pc \in {"done", "failed"} /\ UNCHANGED vars

Next ==
  \/ TakeHost \/ StartTechnique \/ AddProbe \/ SendFull \/ EndTechnique
  \/ Flush \/ Finish \/ SendFails \/ Finished

Spec == Init /\ [][Next]_vars

-------------------------------------------------------------------------------
\* Every variable has its type.
TypeOK ==
  /\ direct \in BOOLEAN /\ techniques \in Techniques /\ field \in Fields
  /\ ports \in 0..MaxPorts /\ up \subseteq Hosts /\ taken \subseteq up /\ host \in Owners
  /\ technique \in 1..techniques+1 /\ port \in 1..ports+1
  /\ pc \in {"next", "technique", "port", "full", "flush", "done", "failed"}
  /\ ipHeaders \in [Owners \X Techniques -> Owners]
  /\ portHeaders \in [Owners \X Techniques \X Ports -> Owners]
  /\ DOMAIN messageHeaders = 0..Chunk-1
  /\ currentIndex \in 0..Chunk
  /\ sent \subseteq Frame /\ again \subseteq Frame /\ lost \subseteq Frame

\* The packet that technique t is to send to port p of host h.
Probe(h, t, p) == [to |-> h, sum |-> h, technique |-> t, port |-> p]
ProbesOf(hs) == {Probe(h, t, p) : h \in hs, t \in 1..techniques, p \in 1..ports}

\* No slot beyond the last one is ever written.
IndexInBounds == pc = "port" /\ port <= ports => currentIndex < Chunk

\* What is on the wire are probes of hosts that came: no frame has the address of
\* one host and the checksum of another, though hosts share their buffers.
RightFrames == sent \subseteq ProbesOf(taken)

\* No probe is sent twice, whichever batch boundary it falls on.
OnceEach == again = {}

\* When the scan is over every host has got every probe, except those the kernel
\* left over.  With host discovery that is so before the next host is taken, whose
\* packets go to the same buffers.
NothingLeft ==
  /\ pc = "done" => taken = up /\ sent = ProbesOf(up) \ lost
  /\ pc = "next" /\ ~direct => sent = ProbesOf(taken) \ lost

\* However the singles and the ranges of a rule overlap, no host is probed twice at
\* a port by the same technique, and none, for a rule that was parsed, at port 0,
\* which is no port.
PortsProbedOnce ==
  /\ again = {}
  /\ \A f \in sent : portsList[f.port] \in (IF field.parsed THEN 1 ELSE 0)..PortLimit-1
  /\ \A f, g \in sent : f.to = g.to /\ f.technique = g.technique /\ f # g =>
                          portsList[f.port] # portsList[g.port]

\* What the text of a rule asks for, ranges inclusive as doc.go has them, and what it
\* gets, of a scan that is over and of which the kernel took every batch: every host
\* has been probed at the single ports (the common ports, if the rule gives none) and
\* at every port of a range but its last, which Expand leaves out; and at no port that
\* was not written.  A range with an end of more than 16 bits, which parsePortsRange
\* means to refuse and cuts, is excepted: it may stand for any ports.
RulePortsProbed ==
  pc = "done" /\ lost = {} =>
    LET written == {i \in DOMAIN field.ranges :
                      field.ranges[i].start < PortLimit /\ field.ranges[i].end < PortLimit}
        common == field.parsed /\ field.singles = <<>> /\ field.ranges = <<>>
        list == IF common THEN CommonPorts ELSE field.singles
        singles == {list[j] : j \in DOMAIN list}
    IN  \A h \in up, t \in 1..techniques :
          LET probed == {portsList[f.port] : f \in {g \in sent : g.to = h /\ g.technique = t}}
          IN  /\ singles \subseteq probed
              /\ \A i \in written : field.ranges[i].start..field.ranges[i].end - 1 \subseteq probed
              /\ written = DOMAIN field.ranges =>
                   \A p \in probed \ singles :
                     \E i \in written : p \in field.ranges[i].start..field.ranges[i].end

-------------------------------------------------------------------------------
(* The inductive invariant of the proofs.                                  *)

\* The probes built so far: those of earlier hosts, and of this one those before
\* the loops' position.
Built ==
  {f \in ProbesOf(taken) :
     f.to = host => f.technique < technique \/ (f.technique = technique /\ f.port < port)}

\* The probe a slot is meant for.
Meant(s) == Probe(IF direct THEN s.owner ELSE host, s.technique, s.port)

Pending == {Meant(messageHeaders[i]) : i \in 0..currentIndex-1}

\* The slots of the batch point to buffers that hold what they are meant for; no
\* two slots are meant for the same probe.
BatchIntact ==
  /\ \A i \in 0..currentIndex-1 :
       /\ messageHeaders[i] \in Slot
       /\ (messageHeaders[i].owner = NoHost) = ~direct
       /\ Read(i) = Meant(messageHeaders[i])
  /\ \A i, j \in 0..currentIndex-1 : messageHeaders[i] = messageHeaders[j] => i = j

\* Every probe built is sent, lost or pending, and only one of these.
Accounted ==
  /\ sent \cup lost \cup Pending = Built
  /\ sent \cap lost = {} /\ (sent \cup lost) \cap Pending = {}
  /\ again = {}

\* Where the loops are.
Position ==
  /\ host \in taken \cup {NoHost}
  /\ pc \in {"technique", "port", "full", "flush"} => host \in taken
  /\ pc \in {"technique", "port", "full"} => technique <= techniques
  /\ pc \in {"next", "flush", "done"} => technique = techniques + 1
  /\ pc = "technique" => port = 1
  /\ technique > techniques => port = 1
  /\ pc = "done" => taken = up /\ currentIndex = 0
  /\ pc = "next" /\ ~direct => currentIndex = 0
  /\ ~FitsOneBatch /\ pc # "full" /\ pc # "failed" => currentIndex < Chunk
  /\ FitsOneBatch /\ host \in taken /\ pc \notin {"next", "done"} =>
       pc # "full" /\ currentIndex = (technique - 1) * ports + port - 1
  /\ direct /\ host \in taken => \A t \in Techniques : ipHeaders[<<host, t>>] = host
  /\ pc = "port" \/ pc = "full" => ipHeaders[<<Owner(host), technique>>] = host

\* The rule does not change, and it was accepted.
RuleKept == Accepted(field) /\ portsList = PortsList(field)

BatchInv == TypeOK /\ Position /\ BatchIntact /\ Accounted

===============================================================================
