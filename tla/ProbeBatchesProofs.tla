-------------------------- MODULE ProbeBatchesProofs --------------------------
(***************************************************************************)
(* What the batches of a port scan guarantee, for any hosts, any number of *)
(* techniques and ports and any size of a batch.                           *)
(*                                                                         *)
(* BatchInv is inductive.  Its core, BatchIntact, says that every slot of  *)
(* the unsent batch points to buffers that still hold the packet the slot  *)
(* is meant for; Accounted, that the probes built so far are sent, left    *)
(* over or in the batch, and only one of these.  Position ties the loop    *)
(* variables and the index to them: in particular the shared buffers are   *)
(* written for a new host only when the batch is empty.                    *)
(***************************************************************************)
EXTENDS ProbeBatches, FiniteSetTheorems, SequenceTheorems, WellFoundedInduction, TLAPS

-------------------------------------------------------------------------------
(* Probes, slots and sets of them.                                         *)

\* The bounds are numbers, and NoHost is none of the hosts.
LEMMA ConstantsTyped ==
  /\ NoHost \notin Hosts /\ MaxTechniques \in Nat /\ MaxTechniques >= 1
  /\ MaxPorts \in Nat /\ Chunk \in Nat /\ Chunk >= 1
BY BatchAssumption

\* A probe's fields; two probes are the same only if they agree in all of them.
LEMMA ProbeFields ==
  ASSUME NEW h, NEW t, NEW p
  PROVE  /\ Probe(h, t, p).to = h /\ Probe(h, t, p).technique = t /\ Probe(h, t, p).port = p
BY DEF Probe

\* The probes of hosts hs up to technique tn and port pn of host hn.
BuiltOf(hs, hn, tn, pn) ==
  {f \in ProbesOf(hs) : f.to = hn => f.technique < tn \/ (f.technique = tn /\ f.port < pn)}

\* The probes built so far, by the place the scan has reached.
LEMMA BuiltIsBuiltOf == Built = BuiltOf(taken, host, technique, port)
BY DEF Built, BuiltOf

\* Which probes are built when the scan has reached a place.
LEMMA BuiltOfMember ==
  ASSUME NEW hs, NEW hn, NEW tn, NEW pn, NEW h, NEW t, NEW p
  PROVE  Probe(h, t, p) \in BuiltOf(hs, hn, tn, pn) <=>
           /\ h \in hs /\ t \in 1..techniques /\ p \in 1..ports
           /\ h = hn => t < tn \/ (t = tn /\ p < pn)
<1>1. ASSUME Probe(h, t, p) \in ProbesOf(hs)
      PROVE  h \in hs /\ t \in 1..techniques /\ p \in 1..ports
  <2>1. PICK g \in hs, u \in 1..techniques, q \in 1..ports : Probe(h, t, p) = Probe(g, u, q)
    BY <1>1 DEF ProbesOf
  <2> QED
    BY <2>1, ProbeFields
<1>2. ASSUME h \in hs, t \in 1..techniques, p \in 1..ports
      PROVE  Probe(h, t, p) \in ProbesOf(hs)
  BY <1>2 DEF ProbesOf
<1> QED
  BY <1>1, <1>2, ProbeFields DEF BuiltOf

\* The elements of a set of built probes are probes.
LEMMA BuiltOfProbes ==
  ASSUME NEW hs, NEW hn, NEW tn, NEW pn, NEW f \in BuiltOf(hs, hn, tn, pn)
  PROVE  \E h \in hs, t \in 1..techniques, p \in 1..ports :
           /\ f = Probe(h, t, p)
           /\ h = hn => t < tn \/ (t = tn /\ p < pn)
<1>1. PICK h \in hs, t \in 1..techniques, p \in 1..ports : f = Probe(h, t, p)
  BY DEF BuiltOf, ProbesOf
<1>2. h = hn => t < tn \/ (t = tn /\ p < pn)
  BY <1>1, ProbeFields DEF BuiltOf
<1> QED
  BY <1>1, <1>2

\* Two positions have built the same if they agree on every probe.
LEMMA BuiltOfEq ==
  ASSUME NEW hs, NEW hn, NEW tn, NEW pn, NEW gs, NEW gn, NEW un, NEW qn,
         \A h : \A t \in 1..techniques, p \in 1..ports :
           (h \in hs /\ (h = hn => t < tn \/ (t = tn /\ p < pn))) <=>
           (h \in gs /\ (h = gn => t < un \/ (t = un /\ p < qn)))
  PROVE  BuiltOf(hs, hn, tn, pn) = BuiltOf(gs, gn, un, qn)
<1>1. ASSUME NEW f \in BuiltOf(hs, hn, tn, pn) PROVE f \in BuiltOf(gs, gn, un, qn)
  <2>1. PICK h \in hs, t \in 1..techniques, p \in 1..ports :
          f = Probe(h, t, p) /\ (h = hn => t < tn \/ (t = tn /\ p < pn))
    BY BuiltOfProbes
  <2>2. h \in gs /\ (h = gn => t < un \/ (t = un /\ p < qn))
    BY <2>1
  <2> QED
    BY <2>1, <2>2, BuiltOfMember
<1>2. ASSUME NEW f \in BuiltOf(gs, gn, un, qn) PROVE f \in BuiltOf(hs, hn, tn, pn)
  <2>1. PICK h \in gs, t \in 1..techniques, p \in 1..ports :
          f = Probe(h, t, p) /\ (h = gn => t < un \/ (t = un /\ p < qn))
    BY BuiltOfProbes
  <2>2. h \in hs /\ (h = hn => t < tn \/ (t = tn /\ p < pn))
    BY <2>1
  <2> QED
    BY <2>1, <2>2, BuiltOfMember
<1> QED
  BY <1>1, <1>2

\* Slots meant for the same probe are the same.
LEMMA MeantEq ==
  ASSUME BatchIntact, NEW i \in 0..currentIndex-1, NEW j \in 0..currentIndex-1,
         Meant(messageHeaders[i]) = Meant(messageHeaders[j])
  PROVE  i = j
<1> DEFINE s == messageHeaders[i]
           r == messageHeaders[j]
<1>1. s \in Slot /\ r \in Slot /\ (s.owner = NoHost) = ~direct /\ (r.owner = NoHost) = ~direct
  BY DEF BatchIntact
<1>2. s.technique = r.technique /\ s.port = r.port /\ (direct => s.owner = r.owner)
  BY ProbeFields DEF Meant
<1>3. s.owner = r.owner
  <2>1. CASE direct
    BY <1>2, <2>1
  <2>2. CASE ~direct
    BY <1>1, <2>2
  <2> QED
    BY <2>1, <2>2
<1>4. s = r
  BY <1>1, <1>2, <1>3 DEF Slot
<1> QED
  BY <1>4 DEF BatchIntact

\* A batch that is sent, in whole or in part, is accounted for.
LEMMA Sends ==
  ASSUME TypeOK, BatchIntact, Accounted, Transmit
  PROVE  /\ sent' \cup lost' = Built
         /\ sent' \cap lost' = {} /\ again' = {}
<1>1. PICK k \in 0..currentIndex :
        /\ sent' = sent \cup {Read(i) : i \in 0..k-1}
        /\ again' = again \cup {Read(i) : i \in {i \in 0..k-1 :
                                  Read(i) \in sent \/ \E j \in 0..i-1 : Read(j) = Read(i)}}
        /\ lost' = lost \cup {Read(i) : i \in k..currentIndex-1}
  BY DEF Transmit
<1>2. currentIndex \in Nat
  BY ConstantsTyped DEF TypeOK
<1>3. \A i \in 0..currentIndex-1 : Read(i) = Meant(messageHeaders[i]) /\ Read(i) \in Pending
  BY DEF BatchIntact, Pending
<1>4. \A i, j \in 0..currentIndex-1 : Read(i) = Read(j) => i = j
  BY <1>3, MeantEq
<1>5. {Read(i) : i \in 0..k-1} \cup {Read(i) : i \in k..currentIndex-1} = Pending
  BY <1>2, <1>3 DEF Pending
<1>6. {Read(i) : i \in 0..k-1} \cap {Read(i) : i \in k..currentIndex-1} = {}
  BY <1>2, <1>4
<1>7. \A i \in 0..k-1 : ~(Read(i) \in sent) /\ \A j \in 0..i-1 : Read(j) # Read(i)
  <2>1. TAKE i \in 0..k-1
  <2>2. Read(i) \notin sent
    BY <1>2, <1>3 DEF Accounted
  <2>3. \A j \in 0..i-1 : Read(j) # Read(i)
    BY <1>2, <1>4
  <2> QED
    BY <2>2, <2>3
<1>8. again' = {}
  BY <1>1, <1>7 DEF Accounted
<1>9. sent' \cup lost' = Built
  BY <1>1, <1>5 DEF Accounted
<1>10. sent' \cap lost' = {}
  BY <1>1, <1>5, <1>6 DEF Accounted
<1> QED
  BY <1>8, <1>9, <1>10
-------------------------------------------------------------------------------
(* The first state.                                                        *)

\* A scan starts in the inductive invariant.
LEMMA InitBatch == Init => BatchInv
<1> SUFFICES ASSUME Init PROVE BatchInv
  OBVIOUS
<1> USE ConstantsTyped
<1>1. TypeOK
  <2>1. ports \in 0..MaxPorts
    BY BatchAssumption DEF Init, ports
  <2> QED
    BY <2>1 DEF Init, TypeOK, Techniques, Ports, Owners
<1>2. Position
  BY DEF Init, Position, Techniques
<1>3. BatchIntact
  BY DEF Init, BatchIntact
<1>4. Accounted
  <2>1. Pending = {} /\ Built = {}
    BY DEF Init, Pending, Built, ProbesOf
  <2> QED
    BY <2>1 DEF Init, Accounted
<1> QED
  BY <1>1, <1>2, <1>3, <1>4 DEF BatchInv

-------------------------------------------------------------------------------
(* The steps that do not send.                                             *)

\* The probes built depend on the position only.
LEMMA BuiltNext ==
  ASSUME UNCHANGED rule
  PROVE  Built' = BuiltOf(taken', host', technique', port')
BY DEF Built, BuiltOf, ProbesOf, Probe, rule, ports

\* The next host: no batch waits any more when the shared buffers pass to it.
LEMMA TakeHostBatch ==
  ASSUME BatchInv, TakeHost
  PROVE  BatchInv'
<1> USE ConstantsTyped
<1>1. PICK h \in up \ taken :
        /\ host' = h
        /\ taken' = taken \cup {h}
        /\ ipHeaders' = IF direct
             THEN [b \in DOMAIN ipHeaders |-> IF b[1] = h THEN h ELSE ipHeaders[b]]
             ELSE ipHeaders
  BY DEF TakeHost
<1>2. /\ pc = "next" /\ technique' = 1 /\ port' = 1 /\ pc' = "technique"
      /\ UNCHANGED <<rule, portHeaders, messageHeaders, currentIndex, wire>>
  BY DEF TakeHost
<1>3. h \in Hosts /\ h # NoHost /\ technique = techniques + 1
  BY <1>1, <1>2 DEF BatchInv, TypeOK, Position
<1>4. ipHeaders' \in [Owners \X Techniques -> Owners]
  BY <1>1, <1>3 DEF BatchInv, TypeOK, Owners
<1>5. TypeOK'
  BY <1>1, <1>2, <1>3, <1>4 DEF BatchInv, TypeOK, rule, ports, wire, Owners, Techniques
<1>6. Position'
  <2>1. direct => \A t \in Techniques : ipHeaders'[<<h, t>>] = h
    BY <1>1, <1>3 DEF BatchInv, TypeOK, Owners
  <2>2. FitsOneBatch => currentIndex = (1 - 1) * ports + 1 - 1
    BY <1>2 DEF BatchInv, TypeOK, Position, FitsOneBatch
  <2>3. FitsOneBatch' = FitsOneBatch
    BY <1>2 DEF FitsOneBatch, rule, ports
  <2>4. ~FitsOneBatch => currentIndex < Chunk
    BY <1>2 DEF BatchInv, Position
  <2>5. direct' = direct /\ techniques' = techniques /\ ports' = ports /\ up' = up
    BY <1>2 DEF rule, ports
  <2>6. direct' /\ host' \in taken' => \A t \in Techniques : ipHeaders'[<<host', t>>] = host'
    BY <1>1, <2>1, <2>5
  <2>7. FitsOneBatch' => currentIndex' = (technique' - 1) * ports' + port' - 1
    BY <1>2, <2>2, <2>3, <2>5
  <2>8. host' \in taken' /\ technique' <= techniques'
    BY <1>1, <1>2, <2>5 DEF BatchInv, TypeOK, Techniques
  <2> HIDE DEF FitsOneBatch
  <2> QED
    BY <1>1, <1>2, <2>3, <2>4, <2>6, <2>7, <2>8 DEF Position
<1>7. Built' = Built
  <2>1. Built' = BuiltOf(taken', host', technique', port')
    BY <1>2, BuiltNext
  <2>2. BuiltOf(taken', host', technique', port') = BuiltOf(taken, host, technique, port)
    <3>1. \A g : \A t \in 1..techniques, p \in 1..ports :
            (g \in taken' /\ (g = host' => t < technique' \/ (t = technique' /\ p < port'))) <=>
            (g \in taken /\ (g = host => t < technique \/ (t = technique /\ p < port)))
      BY <1>1, <1>2, <1>3 DEF BatchInv, TypeOK, Techniques
    <3> QED
      BY <3>1, BuiltOfEq
  <2> QED
    BY <2>1, <2>2, BuiltIsBuiltOf
<1>8. \A i \in 0..currentIndex-1 :
        /\ Meant(messageHeaders[i])' = Meant(messageHeaders[i])
        /\ Read(i)' = Read(i)
  <2>1. TAKE i \in 0..currentIndex-1
  <2> DEFINE s == messageHeaders[i]
  <2>2. direct
    BY <1>2 DEF BatchInv, Position
  <2>3. s \in Slot /\ s.owner # NoHost /\ Meant(s) \in Built
    BY <2>2 DEF BatchInv, BatchIntact, Accounted, Pending
  <2>4. s.owner \in taken
    BY <2>2, <2>3, BuiltIsBuiltOf, BuiltOfMember DEF Meant
  <2>5. ipHeaders'[<<s.owner, s.technique>>] = ipHeaders[<<s.owner, s.technique>>]
    BY <1>1, <2>2, <2>3, <2>4 DEF Slot, BatchInv, TypeOK
  <2> QED
    BY <1>2, <2>2, <2>5 DEF Meant, Probe, Read, rule, ports
<1>9. Pending' = Pending
  BY <1>2, <1>8 DEF Pending
<1>10. BatchIntact'
  BY <1>2, <1>8 DEF BatchInv, BatchIntact, rule, ports
<1>11. Accounted'
  BY <1>2, <1>7, <1>9 DEF BatchInv, Accounted, wire
<1> QED
  BY <1>5, <1>6, <1>10, <1>11 DEF BatchInv

\* The IP header of a technique gets the address of the host.
LEMMA StartTechniqueBatch ==
  ASSUME BatchInv, StartTechnique
  PROVE  BatchInv'
<1> USE ConstantsTyped
<1>1. /\ pc = "technique" /\ pc' = "port"
      /\ ipHeaders' = [ipHeaders EXCEPT ![<<Owner(host), technique>>] = host]
      /\ UNCHANGED <<rule, position, portHeaders, messageHeaders, currentIndex, wire>>
  BY DEF StartTechnique
<1>2. host \in taken /\ host \in Hosts /\ technique \in Techniques /\ port = 1 /\ Owner(host) \in Owners
  BY <1>1 DEF BatchInv, TypeOK, Position, Techniques, Owner, Owners
<1>3. ipHeaders' \in [Owners \X Techniques -> Owners]
  BY <1>1, <1>2 DEF BatchInv, TypeOK, Owners
<1>4. TypeOK'
  BY <1>1, <1>3 DEF BatchInv, TypeOK, rule, ports, position, wire, Owners, Techniques
<1>5. Position'
  <2>1. ipHeaders'[<<Owner(host), technique>>] = host
    BY <1>1, <1>2 DEF BatchInv, TypeOK
  <2>2. direct => \A t \in Techniques : ipHeaders'[<<host, t>>] = host
    <3>1. SUFFICES ASSUME direct, NEW t \in Techniques PROVE ipHeaders'[<<host, t>>] = host
      OBVIOUS
    <3> QED
      BY <1>1, <1>2, <2>1, <3>1 DEF BatchInv, TypeOK, Position, Owner
  <2> QED
    BY <1>1, <1>2, <2>1, <2>2 DEF BatchInv, TypeOK, Position, rule, ports, position, FitsOneBatch, Owner, Techniques
<1>6. Built' = Built
  BY <1>1, BuiltNext, BuiltIsBuiltOf DEF position
<1>7. \A i \in 0..currentIndex-1 :
        /\ Meant(messageHeaders[i])' = Meant(messageHeaders[i])
        /\ Read(i)' = Read(i)
  <2>1. TAKE i \in 0..currentIndex-1
  <2> DEFINE s == messageHeaders[i]
  <2>2. s \in Slot /\ (s.owner = NoHost) = ~direct /\ Meant(s) \in Built
    BY DEF BatchInv, BatchIntact, Accounted, Pending
  <2>3. ~direct => s.technique < technique
    <3>1. SUFFICES ASSUME ~direct PROVE s.technique < technique
      OBVIOUS
    <3>2. s.technique < technique \/ (s.technique = technique /\ s.port < port)
      BY <2>2, <3>1, BuiltIsBuiltOf, BuiltOfMember DEF Meant
    <3> QED
      BY <1>2, <2>2, <3>2 DEF Slot, Ports, Techniques
  <2>4. ipHeaders'[<<s.owner, s.technique>>] = ipHeaders[<<s.owner, s.technique>>]
    <3>1. CASE direct
      BY <1>1, <1>2, <2>2, <3>1 DEF BatchInv, TypeOK, Position, Owner, Slot
    <3>2. CASE ~direct
      BY <1>1, <1>2, <2>2, <2>3, <3>2 DEF BatchInv, TypeOK, Slot, Techniques
    <3> QED
      BY <3>1, <3>2
  <2> QED
    BY <1>1, <2>4 DEF Meant, Probe, Read, rule, ports, position
<1>8. Pending' = Pending
  BY <1>1, <1>7 DEF Pending
<1>9. BatchIntact'
  BY <1>1, <1>7 DEF BatchInv, BatchIntact, rule, ports
<1>10. Accounted'
  BY <1>1, <1>6, <1>8 DEF BatchInv, Accounted, wire
<1> QED
  BY <1>4, <1>5, <1>9, <1>10 DEF BatchInv

\* Multiplying out the index of a host that fits in a batch.
LEMMA NextTechnique ==
  ASSUME NEW t \in Nat, NEW n \in Nat
  PROVE  (t + 1 - 1) * n + 1 - 1 = (t - 1) * n + (n + 1) - 1
<1>1. (t - 1) * n = t * n - n
  OBVIOUS
<1> QED
  BY <1>1

\* A technique ends, or the host with its last technique.
LEMMA EndTechniqueBatch ==
  ASSUME BatchInv, EndTechnique
  PROVE  BatchInv'
<1> USE ConstantsTyped
<1>1. /\ pc = "port" /\ port > ports
      /\ technique' = technique + 1 /\ port' = 1
      /\ \/ technique < techniques /\ pc' = "technique"
         \/ technique = techniques /\ pc' = IF direct THEN "next" ELSE "flush"
      /\ UNCHANGED <<rule, taken, host, buffers, currentIndex, wire>>
  BY DEF EndTechnique
<1>2. /\ host \in taken /\ host \in Hosts /\ technique \in 1..techniques /\ techniques \in Techniques
      /\ ports \in Nat /\ port = ports + 1 /\ currentIndex \in Nat
  BY <1>1 DEF BatchInv, TypeOK, Position
<1>3. TypeOK'
  BY <1>1, <1>2 DEF BatchInv, TypeOK, rule, ports, wire, buffers, Owners, Techniques
<1>4. Position'
  <2>1. (technique' - 1) * ports + port' - 1 = (technique - 1) * ports + port - 1
    BY <1>1, <1>2, NextTechnique DEF Techniques
  <2>2. FitsOneBatch' = FitsOneBatch
    BY <1>1 DEF FitsOneBatch, rule, ports
  <2>3. ~FitsOneBatch => currentIndex < Chunk
    BY <1>1 DEF BatchInv, Position
  <2>4. FitsOneBatch => currentIndex = (technique - 1) * ports + port - 1
    BY <1>1, <1>2 DEF BatchInv, Position
  <2>5. direct => ~FitsOneBatch
    BY DEF FitsOneBatch
  <2> HIDE DEF FitsOneBatch
  <2>6. ports' = ports /\ techniques' = techniques
    BY <1>1 DEF rule, ports
  <2>7. FitsOneBatch' /\ host' \in taken' /\ pc' \notin {"next", "done"} =>
          pc' # "full" /\ currentIndex' = (technique' - 1) * ports' + port' - 1
    BY <1>1, <2>1, <2>2, <2>4, <2>6
  <2> QED
    BY <1>1, <1>2, <2>2, <2>3, <2>5, <2>7 DEF BatchInv, TypeOK, Position, rule, ports, buffers, Owner, Techniques
<1>5. Built' = Built
  <2>1. Built' = BuiltOf(taken', host', technique', port')
    BY <1>1, BuiltNext
  <2>2. BuiltOf(taken', host', technique', port') = BuiltOf(taken, host, technique, port)
    <3>1. \A g : \A t \in 1..techniques, p \in 1..ports :
            (g \in taken' /\ (g = host' => t < technique' \/ (t = technique' /\ p < port'))) <=>
            (g \in taken /\ (g = host => t < technique \/ (t = technique /\ p < port)))
      BY <1>1, <1>2 DEF Techniques
    <3> QED
      BY <3>1, BuiltOfEq
  <2> QED
    BY <2>1, <2>2, BuiltIsBuiltOf
<1>6. /\ Pending' = Pending
      /\ \A i \in 0..currentIndex-1 :
           Meant(messageHeaders[i])' = Meant(messageHeaders[i]) /\ Read(i)' = Read(i)
  BY <1>1 DEF Pending, Meant, Probe, Read, rule, ports, buffers
<1>7. BatchIntact'
  BY <1>1, <1>6 DEF BatchInv, BatchIntact, rule, ports, buffers
<1>8. Accounted'
  BY <1>1, <1>5, <1>6 DEF BatchInv, Accounted, wire
<1> QED
  BY <1>3, <1>4, <1>7, <1>8 DEF BatchInv

\* The index of a host that fits in a batch stays below the batch's size.
LEMMA IndexFits ==
  ASSUME NEW m \in Nat, NEW n \in Nat, NEW t \in 1..m, NEW p \in 1..n, n * m < Chunk
  PROVE  (t - 1) * n + p - 1 < Chunk
<1>1. (m - t) * n >= 0
  <2>1. m - t \in Nat
    OBVIOUS
  <2> QED
    BY <2>1
<1>2. (m - t) * n = m * n - t * n /\ (t - 1) * n = t * n - n /\ n * m = m * n
  OBVIOUS
<1>3. m * n \in Int /\ t * n \in Int /\ Chunk \in Nat
  BY ConstantsTyped
<1> QED
  BY <1>1, <1>2, <1>3

\* The invariant keeps the index within the message array.
LEMMA BatchIndex ==
  ASSUME BatchInv
  PROVE  IndexInBounds
<1> USE ConstantsTyped
<1>1. SUFFICES ASSUME pc = "port", port <= ports PROVE currentIndex < Chunk
  BY DEF IndexInBounds
<1>2. CASE ~FitsOneBatch
  BY <1>1, <1>2 DEF BatchInv, Position
<1>3. CASE FitsOneBatch
  <2>1. /\ currentIndex = (technique - 1) * ports + port - 1
        /\ technique \in 1..techniques /\ port \in 1..ports
        /\ techniques \in Nat /\ ports \in Nat /\ ports * techniques < Chunk
    BY <1>1, <1>3 DEF BatchInv, TypeOK, Position, FitsOneBatch, Techniques
  <2> QED
    BY <2>1, IndexFits
<1> QED
  BY <1>2, <1>3

\* A probe takes the next slot; the earlier slots keep what they will send.
LEMMA AddProbeBatch ==
  ASSUME BatchInv, AddProbe
  PROVE  BatchInv'
<1> USE ConstantsTyped
<1> DEFINE new == [owner |-> Owner(host), technique |-> technique, port |-> port]
<1>1. /\ pc = "port" /\ port <= ports
      /\ portHeaders' = [portHeaders EXCEPT ![<<Owner(host), technique, port>>] = host]
      /\ messageHeaders' = [messageHeaders EXCEPT ![currentIndex] = new]
      /\ currentIndex' = currentIndex + 1
      /\ port' = port + 1
      /\ pc' = IF ~FitsOneBatch /\ currentIndex' = Chunk THEN "full" ELSE "port"
      /\ UNCHANGED <<rule, taken, host, technique, ipHeaders, wire>>
  BY DEF AddProbe
<1>2. /\ host \in taken /\ host \in Hosts /\ host # NoHost
      /\ technique \in 1..techniques /\ techniques \in Techniques /\ technique \in Techniques
      /\ ports \in Nat /\ port \in 1..ports /\ port \in Ports
      /\ currentIndex \in 0..Chunk-1 /\ currentIndex < Chunk
  <2>1. currentIndex < Chunk
    BY <1>1, BatchIndex DEF IndexInBounds
  <2> QED
    BY <1>1, <2>1 DEF BatchInv, TypeOK, Position, Techniques, Ports
<1>3. Owner(host) \in Owners /\ (Owner(host) = NoHost) = ~direct /\ (direct => Owner(host) = host)
  BY <1>2 DEF Owner, Owners
<1>4. new \in Slot
  BY <1>2, <1>3 DEF Slot
<1>5. portHeaders' \in [Owners \X Techniques \X Ports -> Owners]
  BY <1>1, <1>2, <1>3 DEF BatchInv, TypeOK, Owners
<1>6. TypeOK'
  BY <1>1, <1>2, <1>5 DEF BatchInv, TypeOK, rule, ports, wire, Owners, Techniques
<1>7. Position'
  <2>1. FitsOneBatch' = FitsOneBatch
    BY <1>1 DEF FitsOneBatch, rule, ports
  <2>2. FitsOneBatch => /\ currentIndex = (technique - 1) * ports + port - 1
                        /\ currentIndex + 1 = (technique - 1) * ports + (port + 1) - 1
    <3>1. SUFFICES ASSUME FitsOneBatch
                   PROVE  /\ currentIndex = (technique - 1) * ports + port - 1
                          /\ currentIndex + 1 = (technique - 1) * ports + (port + 1) - 1
      OBVIOUS
    <3>2. currentIndex = (technique - 1) * ports + port - 1
      BY <1>1, <1>2, <3>1 DEF BatchInv, Position
    <3> QED
      BY <1>2, <3>2 DEF Techniques
  <2>3. direct => ~FitsOneBatch
    BY DEF FitsOneBatch
  <2>4. ports' = ports /\ techniques' = techniques /\ direct' = direct /\ up' = up
        /\ Owner(host)' = Owner(host)
    BY <1>1 DEF rule, ports, Owner
  <2> HIDE DEF FitsOneBatch, Owner
  <2>5. ipHeaders'[<<Owner(host)', technique'>>] = host'
    BY <1>1, <2>4 DEF BatchInv, Position
  <2>6. direct' /\ host' \in taken' => \A t \in Techniques : ipHeaders'[<<host', t>>] = host'
    BY <1>1, <2>4 DEF BatchInv, Position
  <2>7. FitsOneBatch' => pc' = "port" /\ currentIndex' = (technique' - 1) * ports' + port' - 1
    BY <1>1, <2>1, <2>2, <2>4
  <2>8. pc' = "port" \/ pc' = "full"
    BY <1>1
  <2>9. ~FitsOneBatch' /\ pc' # "full" => currentIndex' < Chunk
    BY <1>1, <1>2, <2>1
  <2>10. host' \in taken' \cup {NoHost} /\ technique' <= techniques'
    BY <1>1, <1>2, <2>4
  <2>11. /\ technique' \in Nat /\ ~(technique' > techniques')
         /\ pc' \notin {"next", "flush", "done", "technique", "failed"}
    BY <1>1, <1>2, <2>4, <2>8, <2>10 DEF Techniques
  <2>12. host' \in taken'
    BY <1>1, <1>2
  <2>13. FitsOneBatch' /\ host' \in taken' /\ pc' \notin {"next", "done"} =>
           pc' # "full" /\ currentIndex' = (technique' - 1) * ports' + port' - 1
    BY <2>7, <2>8
  <2> QED
    BY <2>5, <2>6, <2>9, <2>10, <2>11, <2>12, <2>13 DEF Position
<1>n. PICK n \in 0..Chunk-1 : n = currentIndex
  BY <1>2
<1>8. /\ Read(n)' = Probe(host, technique, port)
      /\ Meant(messageHeaders[n])' = Probe(host, technique, port)
      /\ messageHeaders'[n] = new
  <2>1. messageHeaders'[n] = new
    BY <1>1, <1>2, <1>n DEF BatchInv, TypeOK
  <2>2. ipHeaders'[<<Owner(host), technique>>] = host
    BY <1>1 DEF BatchInv, Position
  <2>3. portHeaders'[<<Owner(host), technique, port>>] = host
    BY <1>1, <1>2, <1>3 DEF BatchInv, TypeOK
  <2> QED
    BY <1>1, <1>2, <1>3, <2>1, <2>2, <2>3 DEF Read, Meant, Probe, rule, ports
<1>9. \A i \in 0..currentIndex-1 :
        /\ messageHeaders'[i] = messageHeaders[i]
        /\ Meant(messageHeaders[i])' = Meant(messageHeaders[i])
        /\ Read(i)' = Read(i)
        /\ messageHeaders[i] # new
        /\ Meant(messageHeaders[i]) # Probe(host, technique, port)
  <2>1. TAKE i \in 0..currentIndex-1
  <2> DEFINE s == messageHeaders[i]
  <2>2. s \in Slot /\ (s.owner = NoHost) = ~direct /\ Meant(s) \in Built
    BY DEF BatchInv, BatchIntact, Accounted, Pending
  <2>3. Meant(s) # Probe(host, technique, port)
    BY <1>2, <2>2, BuiltIsBuiltOf, BuiltOfMember DEF Techniques
  <2>4. <<s.owner, s.technique, s.port>> # <<Owner(host), technique, port>>
    BY <1>3, <2>2, <2>3 DEF Meant
  <2>5. s # new
    BY <2>4
  <2>6. messageHeaders'[i] = s
    BY <1>1, <1>2 DEF BatchInv, TypeOK
  <2>7. portHeaders'[<<s.owner, s.technique, s.port>>] = portHeaders[<<s.owner, s.technique, s.port>>]
    BY <1>1, <1>3, <2>2, <2>4 DEF Slot, BatchInv, TypeOK
  <2> QED
    BY <1>1, <2>3, <2>5, <2>6, <2>7 DEF Meant, Probe, Read, rule, ports
<1>10. Pending' = Pending \cup {Probe(host, technique, port)}
  <2>1. 0..currentIndex'-1 = (0..currentIndex-1) \cup {currentIndex}
    BY <1>1, <1>2
  <2>2. Pending' = {Meant(messageHeaders[i])' : i \in 0..currentIndex'-1}
    BY DEF Pending
  <2> QED
    BY <1>8, <1>9, <1>n, <2>1, <2>2 DEF Pending
<1>11. Built' = Built \cup {Probe(host, technique, port)}
  <2>1. Built' = BuiltOf(taken, host, technique, port + 1)
    BY <1>1, BuiltNext
  <2>2. ASSUME NEW f \in BuiltOf(taken, host, technique, port + 1), f # Probe(host, technique, port)
        PROVE  f \in BuiltOf(taken, host, technique, port)
    <3>1. PICK h \in taken, t \in 1..techniques, p \in 1..ports :
            /\ f = Probe(h, t, p)
            /\ h = host => t < technique \/ (t = technique /\ p < port + 1)
      BY BuiltOfProbes
    <3>2. h = host => t < technique \/ (t = technique /\ p < port)
      BY <1>2, <2>2, <3>1
    <3> QED
      BY <3>1, <3>2, BuiltOfMember
  <2>3. Probe(host, technique, port) \in BuiltOf(taken, host, technique, port + 1)
    BY <1>2, BuiltOfMember
  <2>4. ASSUME NEW f \in BuiltOf(taken, host, technique, port)
        PROVE  f \in BuiltOf(taken, host, technique, port + 1)
    <3>1. PICK h \in taken, t \in 1..techniques, p \in 1..ports :
            /\ f = Probe(h, t, p)
            /\ h = host => t < technique \/ (t = technique /\ p < port)
      BY BuiltOfProbes
    <3>2. h = host => t < technique \/ (t = technique /\ p < port + 1)
      BY <1>2, <3>1
    <3> QED
      BY <3>1, <3>2, BuiltOfMember
  <2> QED
    BY <2>1, <2>2, <2>3, <2>4, BuiltIsBuiltOf
<1>12. BatchIntact'
  <2>1. 0..currentIndex'-1 = (0..currentIndex-1) \cup {currentIndex}
    BY <1>1, <1>2
  <2>2. \A i \in 0..currentIndex'-1 :
          /\ messageHeaders'[i] \in Slot
          /\ (messageHeaders'[i].owner = NoHost) = ~direct'
          /\ Read(i)' = Meant(messageHeaders[i])'
    <3>1. TAKE i \in 0..currentIndex'-1
    <3>2. CASE i \in 0..currentIndex-1
      BY <1>1, <1>9, <3>2 DEF BatchInv, BatchIntact, rule, ports
    <3>3. CASE i = n
      BY <1>1, <1>3, <1>4, <1>8, <3>3 DEF rule, ports
    <3> QED
      BY <1>n, <2>1, <3>2, <3>3
  <2>3. \A i, j \in 0..currentIndex'-1 : messageHeaders'[i] = messageHeaders'[j] => i = j
    BY <1>8, <1>9, <1>n, <2>1 DEF BatchInv, BatchIntact
  <2> QED
    BY <2>2, <2>3 DEF BatchIntact
<1>13. Accounted'
  <2>1. Probe(host, technique, port) \notin Built
    BY <1>2, BuiltIsBuiltOf, BuiltOfMember DEF Techniques
  <2> QED
    BY <1>1, <1>10, <1>11, <2>1 DEF BatchInv, Accounted, wire
<1> QED
  BY <1>6, <1>7, <1>12, <1>13 DEF BatchInv

-------------------------------------------------------------------------------
(* The steps that send, and the end.                                       *)

\* What a batch that is sent leaves, wherever it is sent from.
LEMMA SentBatch ==
  ASSUME BatchInv, Transmit, currentIndex' = 0, UNCHANGED <<rule, position, buffers>>
  PROVE  BatchIntact' /\ Accounted' /\ sent' \cup lost' = Built /\ lost' \cap sent' = {}
<1>1. sent' \cup lost' = Built /\ sent' \cap lost' = {} /\ again' = {}
  BY Sends DEF BatchInv
<1>2. Built' = Built
  BY BuiltNext, BuiltIsBuiltOf DEF position
<1>3. Pending' = {} /\ 0..currentIndex'-1 = {}
  BY DEF Pending
<1>4. BatchIntact'
  BY <1>3 DEF BatchIntact
<1>5. Accounted'
  BY <1>1, <1>2, <1>3 DEF Accounted
<1> QED
  BY <1>1, <1>4, <1>5

\* What is sent and lost are frames.
LEMMA SentTyped ==
  ASSUME BatchInv, Transmit
  PROVE  sent' \subseteq Frame /\ again' \subseteq Frame /\ lost' \subseteq Frame
<1>1. sent' \cup lost' = Built /\ again' = {}
  BY Sends DEF BatchInv
<1>2. Built \subseteq Frame
  <2>1. ASSUME NEW f \in Built PROVE f \in Frame
    <3>1. PICK h \in taken, t \in 1..techniques, p \in 1..ports : f = Probe(h, t, p)
      BY BuiltIsBuiltOf, BuiltOfProbes
    <3>2. h \in Owners /\ t \in Techniques /\ p \in Ports
      BY ConstantsTyped DEF BatchInv, TypeOK, Owners, Techniques, Ports
    <3> QED
      BY <3>1, <3>2 DEF Probe, Frame
  <2> QED
    BY <2>1
<1> QED
  BY <1>1, <1>2

\* A full batch goes out, and the next one starts empty.
LEMMA SendFullBatch ==
  ASSUME BatchInv, SendFull
  PROVE  BatchInv'
<1> USE ConstantsTyped
<1>1. pc = "full" /\ Transmit /\ currentIndex' = 0 /\ pc' = "port"
      /\ UNCHANGED <<rule, position, buffers>>
  BY DEF SendFull
<1>2. TypeOK'
  BY <1>1, SentTyped DEF BatchInv, TypeOK, rule, ports, position, buffers, Owners, Techniques
<1>3. Position'
  <2>1. FitsOneBatch' = FitsOneBatch /\ Owner(host)' = Owner(host)
    BY <1>1 DEF FitsOneBatch, Owner, rule, ports, position
  <2>2. ~FitsOneBatch /\ host \in taken
    BY <1>1 DEF BatchInv, Position
  <2> HIDE DEF FitsOneBatch, Owner
  <2> QED
    BY <1>1, <2>1, <2>2 DEF BatchInv, Position, rule, ports, position, buffers
<1> QED
  BY <1>1, <1>2, <1>3, SentBatch DEF BatchInv

\* A batch that is not full goes out where the code flushes it.
LEMMA FlushBatch ==
  ASSUME BatchInv, Flush
  PROVE  BatchInv'
<1> USE ConstantsTyped
<1>1. pc = "flush" /\ Transmit /\ currentIndex' = 0 /\ pc' = "next"
      /\ UNCHANGED <<rule, position, buffers>>
  BY DEF Flush
<1>2. TypeOK'
  BY <1>1, SentTyped DEF BatchInv, TypeOK, rule, ports, position, buffers, Owners, Techniques
<1>3. Position'
  <2>1. FitsOneBatch' = FitsOneBatch
    BY <1>1 DEF FitsOneBatch, rule, ports
  <2> HIDE DEF FitsOneBatch
  <2> QED
    BY <1>1, <2>1 DEF BatchInv, Position, rule, ports, position, buffers
<1> QED
  BY <1>1, <1>2, <1>3, SentBatch DEF BatchInv

\* The scan ends when no host is left and nothing is waiting to be sent.
LEMMA FinishBatch ==
  ASSUME BatchInv, Finish
  PROVE  BatchInv'
<1> USE ConstantsTyped
<1>1. pc = "next" /\ taken = up /\ Transmit /\ currentIndex' = 0 /\ pc' = "done"
      /\ UNCHANGED <<rule, position, buffers>>
  BY DEF Finish
<1>2. TypeOK'
  BY <1>1, SentTyped DEF BatchInv, TypeOK, rule, ports, position, buffers, Owners, Techniques
<1>3. Position'
  <2>1. FitsOneBatch' = FitsOneBatch
    BY <1>1 DEF FitsOneBatch, rule, ports
  <2> HIDE DEF FitsOneBatch
  <2> QED
    BY <1>1, <2>1 DEF BatchInv, Position, rule, ports, position, buffers
<1> QED
  BY <1>1, <1>2, <1>3, SentBatch DEF BatchInv

\* A failed send and stuttering leave everything but pc.
LEMMA IdleBatch ==
  ASSUME BatchInv, SendFails \/ Finished \/ UNCHANGED vars
  PROVE  BatchInv'
<1>1. /\ UNCHANGED <<rule, position, buffers, currentIndex, wire>>
      /\ pc' = pc \/ (pc' = "failed" /\ (pc \in {"full", "flush"} \/ (pc = "next" /\ currentIndex > 0)))
  BY DEF SendFails, Finished, vars
<1>2. TypeOK'
  BY <1>1 DEF BatchInv, TypeOK, rule, ports, position, buffers, wire, Owners, Techniques
<1>3. Position'
  <2>1. FitsOneBatch' = FitsOneBatch /\ Owner(host)' = Owner(host)
    BY <1>1 DEF FitsOneBatch, Owner, rule, ports, position
  <2> HIDE DEF FitsOneBatch, Owner
  <2>2. CASE pc' = pc
    BY <1>1, <2>1, <2>2 DEF BatchInv, Position, rule, ports, position, buffers
  <2>3. CASE pc' = "failed" /\ pc \in {"full", "flush"}
    BY <1>1, <2>1, <2>3 DEF BatchInv, Position, rule, ports, position, buffers
  <2>4. CASE pc' = "failed" /\ pc = "next" /\ currentIndex > 0
    <3>1. ~FitsOneBatch
      BY <2>4 DEF BatchInv, Position, FitsOneBatch
    <3> QED
      BY <1>1, <2>1, <2>4, <3>1 DEF BatchInv, Position, rule, ports, position, buffers
  <2> QED
    BY <1>1, <2>2, <2>3, <2>4
<1>4. Built' = Built /\ Pending' = Pending
  BY <1>1, BuiltNext, BuiltIsBuiltOf DEF Pending, Meant, Probe, rule, ports, position, buffers
<1>5. BatchIntact'
  BY <1>1 DEF BatchInv, BatchIntact, Read, Meant, Probe, rule, ports, position, buffers
<1>6. Accounted'
  BY <1>1, <1>4 DEF BatchInv, Accounted, wire
<1> QED
  BY <1>2, <1>3, <1>5, <1>6 DEF BatchInv

-------------------------------------------------------------------------------
(* Sorting and compacting the ports of a rule.                             *)

\* A set of numbers that is not empty has a least one.
LEMMA LeastNumber ==
  ASSUME NEW T \in SUBSET Nat, NEW n \in T
  PROVE  \E m \in T : \A k \in T : m <= k
<1> DEFINE Upto(k) == 1..k
           S == {Upto(k) : k \in T}
           R == StrictSubsetOrdering(Nat)
<1>1. IsWellFoundedOn(R, FiniteSubsetsOf(Nat))
  BY FS_StrictSubsetOrderingWellFounded
<1>2. S \subseteq FiniteSubsetsOf(Nat) /\ S # {}
  BY FS_Interval DEF FiniteSubsetsOf
<1>3. PICK X \in S : \A Y \in S : <<Y, X>> \notin R
  BY <1>1, <1>2, WFMin
<1>4. PICK m \in T : X = Upto(m)
  OBVIOUS
<1>5. ASSUME NEW k \in T, k < m PROVE FALSE
  <2>1. Upto(k) \in S /\ Upto(k) \subseteq Upto(m) /\ m \in Upto(m) \ Upto(k)
    BY <1>5
  <2>2. <<Upto(k), X>> \in R
    BY <1>4, <2>1 DEF StrictSubsetOrdering
  <2> QED
    BY <1>3, <2>1, <2>2
<1> QED
  BY <1>5

\* How many of the given ports are below n.
Below(given, n) == Cardinality({g \in given : g[1] < n})

\* The counts are numbers that grow with n, by every port that is passed.
LEMMA BelowCounts ==
  ASSUME NEW given, IsFiniteSet(given), \A g \in given : g[1] \in Nat,
         NEW m \in Nat, NEW n \in Nat, m <= n
  PROVE  /\ Below(given, m) \in Nat /\ Below(given, n) \in Nat
         /\ Below(given, n) <= Cardinality(given) /\ Cardinality(given) \in Nat
         /\ Below(given, m) <= Below(given, n)
         /\ Below(given, m) = Below(given, n) <=> ~\E g \in given : m <= g[1] /\ g[1] < n
<1> DEFINE A == {g \in given : g[1] < m}
           B == {g \in given : g[1] < n}
<1>1. A \in SUBSET B /\ B \in SUBSET given
  OBVIOUS
<1>2. IsFiniteSet(B) /\ Cardinality(B) <= Cardinality(given)
  BY <1>1, FS_Subset
<1>3. IsFiniteSet(A) /\ Cardinality(A) <= Cardinality(B) /\ (Cardinality(A) = Cardinality(B) => A = B)
  BY <1>1, <1>2, FS_Subset
<1>4. Cardinality(A) \in Nat /\ Cardinality(B) \in Nat /\ Cardinality(given) \in Nat
  BY <1>2, <1>3, FS_CardinalityType
<1>5. A = B <=> ~\E g \in given : m <= g[1] /\ g[1] < n
  OBVIOUS
<1> QED
  BY <1>2, <1>3, <1>4, <1>5 DEF Below

\* A finite set of numbers is bounded.
LEMMA Bounded ==
  ASSUME NEW given, IsFiniteSet(given), \A g \in given : g[1] \in Nat,
         NEW top \in Nat, \A g \in given : g[1] < top
  PROVE  Below(given, top) = Cardinality(given)
<1>1. {g \in given : g[1] < top} = given
  OBVIOUS
<1> QED
  BY <1>1 DEF Below

\* What the k-th element of a sorted list is.
LEMMA SortElement ==
  ASSUME NEW given, IsFiniteSet(given), \A g \in given : g[1] \in Nat,
         NEW top \in Nat, \A g \in given : g[1] < top,
         NEW k \in 1..Cardinality(given)
  PROVE  /\ \E g \in given : Sort(given)[k] = g[1]
         /\ Below(given, Sort(given)[k]) < k /\ k <= Below(given, Sort(given)[k] + 1)
<1> DEFINE T == {n \in Nat : k <= Below(given, n)}
<1>0. Cardinality(given) \in Nat /\ k \in Nat /\ k >= 1
  BY FS_CardinalityType
<1>1. top \in T
  BY <1>0, Bounded
<1>2. PICK m \in T : \A n \in T : m <= n
  BY <1>1, LeastNumber
<1>3. m # 0
  <2>1. {g \in given : g[1] < 0} = {}
    OBVIOUS
  <2>2. Below(given, 0) = 0
    BY <2>1, FS_EmptySet DEF Below
  <2> QED
    BY <1>0, <2>2
<1>4. m - 1 \in Nat /\ m - 1 \notin T /\ (m - 1) + 1 = m
  BY <1>2, <1>3
<1>5. Below(given, m - 1) < k /\ k <= Below(given, m)
  BY <1>0, <1>4, BelowCounts
<1>6. \E g \in given : m - 1 <= g[1] /\ g[1] < m
  <2>1. Below(given, m - 1) # Below(given, m) /\ Below(given, m - 1) \in Nat /\ Below(given, m) \in Nat
    BY <1>0, <1>4, <1>5, BelowCounts
  <2> QED
    BY <1>4, <2>1, BelowCounts
<1>7. PICK g \in given : m - 1 = g[1]
  BY <1>4, <1>6
<1>8. \E p \in {g1[1] : g1 \in given} : Below(given, p) < k /\ k <= Below(given, p + 1)
  BY <1>4, <1>5, <1>7
<1>9. Sort(given)[k] = CHOOSE p \in {g1[1] : g1 \in given} :
                         Below(given, p) < k /\ k <= Below(given, p + 1)
  BY DEF Sort, Below
<1>10. /\ Sort(given)[k] \in {g1[1] : g1 \in given}
       /\ Below(given, Sort(given)[k]) < k /\ k <= Below(given, Sort(given)[k] + 1)
  BY <1>8, <1>9
<1> QED
  BY <1>10

\* A sorted list is in order, and has all the given ports.
LEMMA SortOrders ==
  ASSUME NEW given, IsFiniteSet(given), \A g \in given : g[1] \in Nat,
         NEW top \in Nat, \A g \in given : g[1] < top
  PROVE  /\ Sort(given) \in Seq(Nat) /\ Len(Sort(given)) = Cardinality(given)
         /\ \A k \in 1..Cardinality(given) : \E g \in given : Sort(given)[k] = g[1]
         /\ \A j, k \in 1..Cardinality(given) : j <= k => Sort(given)[j] <= Sort(given)[k]
         /\ \A g \in given : \E k \in 1..Cardinality(given) : Sort(given)[k] = g[1]
<1> DEFINE s == Sort(given)
           n == Cardinality(given)
<1>0. n \in Nat
  BY FS_CardinalityType
<1>1. \A k \in 1..n : /\ \E g \in given : s[k] = g[1]
                      /\ s[k] \in Nat
                      /\ Below(given, s[k]) < k /\ k <= Below(given, s[k] + 1)
  BY SortElement
<1>2. s = [k \in 1..n |-> s[k]]
  <2> DEFINE e(k) == CHOOSE p \in {g[1] : g \in given} : Below(given, p) < k /\ k <= Below(given, p + 1)
  <2>1. s = [k \in 1..n |-> e(k)]
    BY DEF Sort, Below
  <2> HIDE DEF e
  <2> QED
    BY <2>1
<1>3. s \in Seq(Nat) /\ Len(s) = n
  BY <1>0, <1>1, <1>2, IsASeq
<1>4. ASSUME NEW j \in 1..n, NEW k \in 1..n, j <= k, s[k] < s[j] PROVE FALSE
  <2>1. Below(given, s[k] + 1) <= Below(given, s[j])
    BY <1>1, <1>4, BelowCounts
  <2>2. Below(given, s[k] + 1) \in Nat /\ Below(given, s[j]) \in Nat
    BY <1>1, <1>4, BelowCounts
  <2> QED
    BY <1>0, <1>1, <1>4, <2>1, <2>2
<1>5. ASSUME NEW g \in given PROVE \E k \in 1..n : s[k] = g[1]
  <2> DEFINE p == g[1]
             k == Below(given, p + 1)
  <2>1. p \in Nat /\ p + 1 \in Nat
    OBVIOUS
  <2>2. Below(given, p) # Below(given, p + 1)
    <3>1. \E h \in given : p <= h[1] /\ h[1] < p + 1
      BY <2>1
    <3> QED
      BY <2>1, <3>1, BelowCounts
  <2>3. Below(given, p) \in Nat /\ k \in Nat /\ k <= n /\ Below(given, p) < k
    <3>1. /\ Below(given, p) \in Nat /\ Below(given, p + 1) \in Nat
          /\ Below(given, p + 1) <= n /\ Below(given, p) <= Below(given, p + 1)
      BY <2>1, BelowCounts
    <3> QED
      BY <2>2, <3>1
  <2>4. k \in 1..n
    BY <1>0, <2>3
  <2>5. s[k] \in Nat /\ Below(given, s[k]) < k /\ k <= Below(given, s[k] + 1)
    BY <1>1, <2>4
  <2>6. ASSUME s[k] < p PROVE FALSE
    <3>1. Below(given, s[k] + 1) <= Below(given, p) /\ Below(given, s[k] + 1) \in Nat
      BY <2>1, <2>5, <2>6, BelowCounts
    <3> QED
      BY <2>3, <2>5, <3>1
  <2>7. ASSUME p < s[k] PROVE FALSE
    <3>1. Below(given, p + 1) <= Below(given, s[k]) /\ Below(given, s[k]) \in Nat
      BY <2>1, <2>5, <2>7, BelowCounts
    <3> QED
      BY <2>3, <2>5, <3>1
  <2> QED
    BY <2>1, <2>4, <2>5, <2>6, <2>7
<1> QED
  BY <1>0, <1>1, <1>3, <1>4, <1>5

\* The kept positions up to i.
KeptUpto(s, i) == Cardinality(Kept(s) \cap 1..i)

\* One position more keeps one element more, or none.
LEMMA KeptCounts ==
  ASSUME NEW s \in Seq(Nat), NEW i \in Nat
  PROVE  /\ IsFiniteSet(Kept(s)) /\ KeptUpto(s, i) \in Nat
         /\ KeptUpto(s, i) <= Cardinality(Kept(s)) /\ Cardinality(Kept(s)) \in Nat
         /\ KeptUpto(s, i + 1) = KeptUpto(s, i) + (IF i + 1 \in Kept(s) THEN 1 ELSE 0)
<1>1. Len(s) \in Nat /\ Kept(s) \in SUBSET (1..Len(s))
  BY LenProperties DEF Kept
<1>2. IsFiniteSet(Kept(s))
  <2>1. IsFiniteSet(1..Len(s))
    BY <1>1, FS_Interval
  <2> QED
    BY <1>1, <2>1, FS_Subset
<1>3. /\ IsFiniteSet(Kept(s) \cap 1..i) /\ Cardinality(Kept(s) \cap 1..i) <= Cardinality(Kept(s))
  BY <1>2, FS_Intersection
<1>4. Cardinality(Kept(s)) \in Nat /\ KeptUpto(s, i) \in Nat
  BY <1>2, <1>3, FS_CardinalityType DEF KeptUpto
<1>5. KeptUpto(s, i + 1) = KeptUpto(s, i) + (IF i + 1 \in Kept(s) THEN 1 ELSE 0)
  <2>1. CASE i + 1 \in Kept(s)
    <3>1. Kept(s) \cap 1..(i + 1) = (Kept(s) \cap 1..i) \cup {i + 1}
      BY <2>1
    <3>2. i + 1 \notin Kept(s) \cap 1..i
      OBVIOUS
    <3> QED
      BY <1>3, <2>1, <3>1, <3>2, FS_AddElement DEF KeptUpto
  <2>2. CASE i + 1 \notin Kept(s)
    <3>1. Kept(s) \cap 1..(i + 1) = Kept(s) \cap 1..i
      BY <1>1, <2>2
    <3>2. KeptUpto(s, i + 1) = KeptUpto(s, i)
      BY <3>1 DEF KeptUpto
    <3> QED
      BY <1>4, <2>2, <3>2
  <2> QED
    BY <2>1, <2>2
<1> QED
  BY <1>2, <1>3, <1>4, <1>5 DEF KeptUpto

\* The count grows with the position, strictly at a kept one.
LEMMA KeptGrows ==
  ASSUME NEW s \in Seq(Nat), NEW i \in Nat, NEW j \in Nat, i <= j
  PROVE  /\ KeptUpto(s, i) <= KeptUpto(s, j)
         /\ i < j /\ j \in Kept(s) => KeptUpto(s, i) < KeptUpto(s, j)
<1> DEFINE A == Kept(s) \cap 1..i
           B == Kept(s) \cap 1..j
<1>1. A \in SUBSET B
  OBVIOUS
<1>2. IsFiniteSet(B)
  BY KeptCounts, FS_Intersection
<1>3. Cardinality(A) <= Cardinality(B) /\ (Cardinality(B) = Cardinality(A) => B = A)
  BY <1>1, <1>2, FS_Subset
<1>4. Cardinality(A) \in Nat /\ Cardinality(B) \in Nat
  BY KeptCounts DEF KeptUpto
<1>5. i < j /\ j \in Kept(s) => j \in B /\ j \notin A
  OBVIOUS
<1> QED
  BY <1>3, <1>4, <1>5 DEF KeptUpto

\* The k-th element of a compacted list stands at the k-th kept position.
LEMMA CompactElement ==
  ASSUME NEW s \in Seq(Nat), NEW k \in 1..Cardinality(Kept(s))
  PROVE  \E i \in Kept(s) : KeptUpto(s, i) = k /\ Compact(s)[k] = s[i]
<1> DEFINE T == {i \in Nat : k <= KeptUpto(s, i)}
<1>0. Cardinality(Kept(s)) \in Nat /\ k \in Nat /\ k >= 1 /\ Len(s) \in Nat
  BY KeptCounts, LenProperties
<1>1. Len(s) \in T
  <2>1. Kept(s) \cap 1..Len(s) = Kept(s)
    BY LenProperties DEF Kept
  <2>2. KeptUpto(s, Len(s)) = Cardinality(Kept(s))
    BY <2>1 DEF KeptUpto
  <2> QED
    BY <1>0, <2>2
<1>2. PICK m \in T : \A i \in T : m <= i
  BY <1>1, LeastNumber
<1>3. m # 0
  <2>1. Kept(s) \cap 1..0 = {}
    OBVIOUS
  <2>2. KeptUpto(s, 0) = 0
    BY <2>1, FS_EmptySet DEF KeptUpto
  <2> QED
    BY <1>0, <2>2
<1>4. m - 1 \in Nat /\ m - 1 \notin T /\ (m - 1) + 1 = m /\ m \in Nat
  BY <1>2, <1>3
<1>5. KeptUpto(s, m - 1) < k /\ k <= KeptUpto(s, m) /\ KeptUpto(s, m - 1) \in Nat
  <2>1. KeptUpto(s, m - 1) \in Nat
    BY <1>4, KeptCounts
  <2> QED
    BY <1>0, <1>2, <1>4, <2>1
<1>6. KeptUpto(s, m) = KeptUpto(s, m - 1) + (IF m \in Kept(s) THEN 1 ELSE 0)
  BY <1>4, KeptCounts
<1>7. m \in Kept(s) /\ KeptUpto(s, m) = k
  BY <1>0, <1>5, <1>6
<1>8. Compact(s)[k] = s[CHOOSE i \in Kept(s) : KeptUpto(s, i) = k]
  BY DEF Compact, KeptUpto
<1> QED
  BY <1>7, <1>8

\* What slices.Compact makes of a sorted list: every element once, in order.
LEMMA CompactSorted ==
  ASSUME NEW s \in Seq(Nat), \A i, j \in 1..Len(s) : i <= j => s[i] <= s[j]
  PROVE  /\ Compact(s) \in Seq(Nat)
         /\ \A k \in 1..Len(Compact(s)) : \E i \in 1..Len(s) : Compact(s)[k] = s[i]
         /\ \A j, k \in 1..Len(Compact(s)) : j < k => Compact(s)[j] < Compact(s)[k]
         /\ \A i \in 1..Len(s) : \E k \in 1..Len(Compact(s)) : Compact(s)[k] = s[i]
<1> DEFINE c == Compact(s)
           n == Cardinality(Kept(s))
<1>0. n \in Nat /\ Len(s) \in Nat /\ DOMAIN s = 1..Len(s) /\ Kept(s) \subseteq 1..Len(s)
  BY KeptCounts, LenProperties DEF Kept
<1>1. \A i \in 1..Len(s) : s[i] \in Nat
  BY ElementOfSeq
<1>2. \A k \in 1..n : \E i \in Kept(s) : KeptUpto(s, i) = k /\ c[k] = s[i]
  BY CompactElement
<1>3. \A k \in 1..n : c[k] \in Nat
  BY <1>0, <1>1, <1>2
<1>4. c = [k \in 1..n |-> c[k]]
  <2> DEFINE e(k) == s[CHOOSE i \in Kept(s) : Cardinality(Kept(s) \cap 1..i) = k]
  <2>1. c = [k \in 1..n |-> e(k)]
    BY DEF Compact
  <2> HIDE DEF e
  <2> QED
    BY <2>1
<1>5. c \in Seq(Nat) /\ Len(c) = n
  BY <1>0, <1>3, <1>4, IsASeq
<1>6. ASSUME NEW j \in 1..n, NEW k \in 1..n, j < k PROVE c[j] < c[k]
  <2>1. PICK a \in Kept(s) : KeptUpto(s, a) = j /\ c[j] = s[a]
    BY <1>2
  <2>2. PICK b \in Kept(s) : KeptUpto(s, b) = k /\ c[k] = s[b]
    BY <1>2
  <2>3. a \in 1..Len(s) /\ b \in 1..Len(s) /\ a \in Nat /\ b \in Nat
    BY <1>0
  <2>4. ~(b <= a)
    <3>1. b <= a => KeptUpto(s, b) <= KeptUpto(s, a)
      BY <2>3, KeptGrows
    <3> QED
      BY <1>6, <2>1, <2>2, <3>1
  <2>5. b # 1 /\ b - 1 \in 1..Len(s) /\ a <= b - 1 /\ b - 1 <= b
    BY <1>0, <2>3, <2>4
  <2>6. s[b] # s[b - 1]
    BY <2>5 DEF Kept
  <2>7. s[a] <= s[b - 1] /\ s[b - 1] <= s[b]
    BY <2>3, <2>5
  <2> QED
    BY <1>1, <2>1, <2>2, <2>3, <2>5, <2>6, <2>7
<1>7. ASSUME NEW i \in 1..Len(s) PROVE \E k \in 1..n : c[k] = s[i]
  <2> DEFINE T == {m \in 1..Len(s) : s[m] = s[i]}
  <2>1. T \in SUBSET Nat /\ i \in T
    BY <1>0
  <2>2. PICK m \in T : \A k \in T : m <= k
    BY <2>1, LeastNumber
  <2>3. m \in Kept(s)
    <3>1. CASE m = 1
      BY <1>0, <3>1 DEF Kept
    <3>2. CASE m # 1
      <4>1. m - 1 \in 1..Len(s) /\ ~(m <= m - 1)
        BY <1>0, <3>2
      <4>2. s[m - 1] # s[m]
        BY <2>2, <4>1
      <4> QED
        BY <1>0, <4>2 DEF Kept
    <3> QED
      BY <3>1, <3>2
  <2> DEFINE k == KeptUpto(s, m)
  <2>4. m \in Nat /\ m - 1 \in Nat /\ (m - 1) + 1 = m
    BY <1>0
  <2>5. k \in Nat /\ k <= n /\ KeptUpto(s, m - 1) \in Nat /\ k = KeptUpto(s, m - 1) + 1
    BY <2>3, <2>4, KeptCounts
  <2>6. k \in 1..n
    BY <1>0, <2>5
  <2>7. PICK b \in Kept(s) : KeptUpto(s, b) = k /\ c[k] = s[b]
    BY <1>2, <2>6
  <2>8. b \in Nat
    BY <1>0
  <2>9. ~(b < m)
    <3>1. b < m => KeptUpto(s, b) < KeptUpto(s, m)
      BY <2>3, <2>4, <2>8, KeptGrows
    <3> QED
      BY <2>5, <2>7, <3>1
  <2>10. ~(m < b)
    <3>1. m < b => KeptUpto(s, m) < KeptUpto(s, b)
      BY <2>4, <2>7, <2>8, KeptGrows
    <3> QED
      BY <2>5, <2>7, <3>1
  <2>11. b = m
    BY <2>4, <2>8, <2>9, <2>10
  <2> QED
    BY <2>6, <2>7, <2>11
<1> QED
  BY <1>0, <1>2, <1>5, <1>6, <1>7

\* The ports a field gives, before they are sorted.
Given(f) ==
  (UNION {Parsed(f.ranges[i]).start..Parsed(f.ranges[i]).end - 1 : i \in DOMAIN f.ranges})
    \cup {Singles(f)[j] : j \in DOMAIN Singles(f)}

\* An accepted field's ranges and single ports are 16-bit numbers, and not 0 if the
\* field was parsed.
LEMMA FieldTyped ==
  ASSUME NEW f \in Fields, Accepted(f)
  PROVE  /\ PortLimit \in Nat /\ PortLimit >= 1 /\ f.parsed \in BOOLEAN
         /\ Len(f.ranges) \in Nat /\ DOMAIN f.ranges = 1..Len(f.ranges)
         /\ \A i \in DOMAIN f.ranges :
              /\ Parsed(f.ranges[i]).start \in (IF f.parsed THEN 1 ELSE 0)..PortLimit-1
              /\ Parsed(f.ranges[i]).end \in (IF f.parsed THEN 1 ELSE 0)..PortLimit-1
         /\ Len(Singles(f)) \in Nat /\ DOMAIN Singles(f) = 1..Len(Singles(f))
         /\ \A j \in DOMAIN Singles(f) :
              Singles(f)[j] \in (IF f.parsed THEN 1 ELSE 0)..PortLimit-1
<1>1. /\ PortLimit \in Nat /\ PortLimit >= 1 /\ CommonPorts \in Seq(1..PortLimit-1)
      /\ f.parsed \in BOOLEAN /\ f.singles \in Seq(Nat) /\ f.ranges \in Seq(PortRange)
      /\ ~f.parsed => \A i \in DOMAIN f.singles : f.singles[i] < PortLimit
  BY FieldAssumption
<1>2. \A n \in Nat : Uint16(n) \in 0..PortLimit-1
  BY <1>1 DEF Uint16
<1>3. Len(f.ranges) \in Nat /\ DOMAIN f.ranges = 1..Len(f.ranges)
  BY <1>1, LenProperties
<1>4. ASSUME NEW i \in DOMAIN f.ranges
      PROVE  /\ Parsed(f.ranges[i]).start \in (IF f.parsed THEN 1 ELSE 0)..PortLimit-1
             /\ Parsed(f.ranges[i]).end \in (IF f.parsed THEN 1 ELSE 0)..PortLimit-1
  <2>1. f.ranges[i] \in PortRange
    BY <1>1, <1>3, ElementOfSeq
  <2>2. f.ranges[i].start \in Nat /\ f.ranges[i].end \in Nat
    BY <2>1 DEF PortRange
  <2>3. /\ Parsed(f.ranges[i]).start = Uint16(f.ranges[i].start)
        /\ Parsed(f.ranges[i]).end = Uint16(f.ranges[i].end)
    BY DEF Parsed
  <2>4. Parsed(f.ranges[i]).start \in 0..PortLimit-1 /\ Parsed(f.ranges[i]).end \in 0..PortLimit-1
    BY <1>2, <2>2, <2>3
  <2>5. f.parsed => Parsed(f.ranges[i]).start > 0 /\ Parsed(f.ranges[i]).end > 0
    BY DEF Accepted, Parses, RangeParses
  <2> QED
    BY <1>1, <2>4, <2>5
<1>5. /\ Len(Singles(f)) \in Nat /\ DOMAIN Singles(f) = 1..Len(Singles(f))
      /\ \A j \in DOMAIN Singles(f) : Singles(f)[j] \in (IF f.parsed THEN 1 ELSE 0)..PortLimit-1
  <2> DEFINE common == f.parsed /\ f.singles = <<>> /\ f.ranges = <<>>
  <2>1. CASE common
    <3>1. Singles(f) = CommonPorts
      BY <2>1 DEF Singles
    <3>2. Len(CommonPorts) \in Nat /\ DOMAIN CommonPorts = 1..Len(CommonPorts)
      BY <1>1, LenProperties
    <3>3. \A j \in DOMAIN CommonPorts : CommonPorts[j] \in 1..PortLimit-1
      BY <1>1, <3>2, ElementOfSeq
    <3> QED
      BY <2>1, <3>1, <3>2, <3>3
  <2>2. CASE ~common
    <3>1. Singles(f) = f.singles
      BY <2>2 DEF Singles
    <3>2. Len(f.singles) \in Nat /\ DOMAIN f.singles = 1..Len(f.singles)
      BY <1>1, LenProperties
    <3>3. \A j \in DOMAIN f.singles : f.singles[j] \in Nat
      BY <1>1, <3>2, ElementOfSeq
    <3>4. \A j \in DOMAIN f.singles : f.singles[j] < PortLimit /\ (f.parsed => f.singles[j] > 0)
      BY <1>1 DEF Accepted, Parses
    <3> QED
      BY <1>1, <3>1, <3>2, <3>3, <3>4
  <2> QED
    BY <2>1, <2>2
<1> QED
  BY <1>1, <1>3, <1>4, <1>5

\* There are finitely many, all of 16 bits.
LEMMA ExpandedGives ==
  ASSUME NEW f \in Fields, Accepted(f)
  PROVE  /\ IsFiniteSet(Expanded(f))
         /\ \A g \in Expanded(f) : g[1] \in Given(f)
         /\ \A p \in Given(f) : \E g \in Expanded(f) : g[1] = p
         /\ PortLimit \in Nat
         /\ \A p \in Given(f) : p \in (IF f.parsed THEN 1 ELSE 0)..PortLimit-1
<1> DEFINE low == IF f.parsed THEN 1 ELSE 0
           places == 1..(Len(f.ranges) + Len(Singles(f)))
           FromRange(i) == Expand(Parsed(f.ranges[i])) \X {i}
           PortsOf(i) == Parsed(f.ranges[i]).start..Parsed(f.ranges[i]).end - 1
           inRanges == UNION {FromRange(i) : i \in DOMAIN f.ranges}
           single == {<<Singles(f)[j], Len(f.ranges) + j>> : j \in DOMAIN Singles(f)}
<1>1. Expanded(f) = inRanges \cup single
  BY DEF Expanded
<1>2. PortLimit \in Nat /\ PortLimit >= 1 /\ low \in {0, 1}
  BY FieldTyped
<1>3. ASSUME NEW i \in DOMAIN f.ranges
      PROVE  /\ i \in places /\ PortsOf(i) \subseteq low..PortLimit-1
             /\ FromRange(i) = PortsOf(i) \X {i}
  <2>1. /\ Parsed(f.ranges[i]).start \in low..PortLimit-1
        /\ Parsed(f.ranges[i]).end \in low..PortLimit-1
        /\ Len(f.ranges) \in Nat /\ i \in 1..Len(f.ranges) /\ Len(Singles(f)) \in Nat
    BY FieldTyped
  <2>2. FromRange(i) = PortsOf(i) \X {i}
    BY DEF Expand
  <2> QED
    BY <1>2, <2>1, <2>2
<1>4. ASSUME NEW j \in DOMAIN Singles(f)
      PROVE  Len(f.ranges) + j \in places /\ Singles(f)[j] \in low..PortLimit-1
  BY FieldTyped
<1>5. inRanges \subseteq (0..PortLimit-1) \X places
  <2>1. ASSUME NEW i \in DOMAIN f.ranges, NEW g \in PortsOf(i) \X {i}
        PROVE  g \in (0..PortLimit-1) \X places
    BY <1>2, <1>3
  <2> QED
    BY <1>3, <2>1
<1>6. single \subseteq (0..PortLimit-1) \X places
  BY <1>2, <1>4
<1>7. IsFiniteSet(Expanded(f))
  <2>1. IsFiniteSet(0..PortLimit-1) /\ IsFiniteSet(places)
    BY <1>2, FieldTyped, FS_Interval
  <2>2. IsFiniteSet((0..PortLimit-1) \X places)
    BY <2>1, FS_Product
  <2>3. Expanded(f) \in SUBSET ((0..PortLimit-1) \X places)
    BY <1>1, <1>5, <1>6
  <2> QED
    BY <2>2, <2>3, FS_Subset
<1>8. Given(f) = (UNION {PortsOf(i) : i \in DOMAIN f.ranges}) \cup {Singles(f)[j] : j \in DOMAIN Singles(f)}
  BY DEF Given
<1> HIDE DEF PortsOf, FromRange
<1>9. ASSUME NEW g \in Expanded(f) PROVE g[1] \in Given(f)
  <2>1. CASE g \in inRanges
    <3>1. PICK i \in DOMAIN f.ranges : g \in PortsOf(i) \X {i}
      BY <1>3, <2>1
    <3> QED
      BY <1>8, <3>1
  <2>2. CASE g \in single
    <3>1. PICK j \in DOMAIN Singles(f) : g = <<Singles(f)[j], Len(f.ranges) + j>>
      BY <2>2
    <3>2. g[1] = Singles(f)[j]
      BY <3>1
    <3> QED
      BY <1>8, <3>2
  <2> QED
    BY <1>1, <2>1, <2>2
<1>10. ASSUME NEW p \in Given(f)
       PROVE  (\E g \in Expanded(f) : g[1] = p) /\ p \in low..PortLimit-1
  <2>1. CASE \E i \in DOMAIN f.ranges : p \in PortsOf(i)
    <3>1. PICK i \in DOMAIN f.ranges : p \in PortsOf(i)
      BY <2>1
    <3>2. <<p, i>> \in FromRange(i)
      BY <1>3, <3>1
    <3>3. <<p, i>> \in Expanded(f) /\ <<p, i>>[1] = p
      BY <1>1, <3>2
    <3> QED
      BY <1>3, <3>1, <3>3
  <2>2. CASE \E j \in DOMAIN Singles(f) : p = Singles(f)[j]
    <3>1. PICK j \in DOMAIN Singles(f) : p = Singles(f)[j]
      BY <2>2
    <3>2. <<p, Len(f.ranges) + j>> \in Expanded(f) /\ <<p, Len(f.ranges) + j>>[1] = p
      BY <1>1, <3>1
    <3> QED
      BY <1>4, <3>1, <3>2
  <2>3. (\E i \in DOMAIN f.ranges : p \in PortsOf(i)) \/ \E j \in DOMAIN Singles(f) : p = Singles(f)[j]
    BY <1>8
  <2> QED
    BY <2>1, <2>2, <2>3
<1> QED
  BY <1>2, <1>7, <1>9, <1>10

\* c.ports holds every given port once, in order, and nothing else.
LEMMA PortsListGives ==
  ASSUME NEW f \in Fields, Accepted(f)
  PROVE  /\ \A k \in 1..Len(PortsList(f)) : PortsList(f)[k] \in Given(f)
         /\ \A j, k \in 1..Len(PortsList(f)) : j # k => PortsList(f)[j] # PortsList(f)[k]
         /\ \A p \in Given(f) : \E k \in 1..Len(PortsList(f)) : PortsList(f)[k] = p
<1> DEFINE given == Expanded(f)
           s == Sort(given)
           c == Compact(s)
<1>1. IsFiniteSet(given) /\ PortLimit \in Nat
  BY ExpandedGives
<1>2. \A g \in given : g[1] \in Nat /\ g[1] < PortLimit /\ g[1] \in Given(f)
  BY ExpandedGives
<1>3. /\ s \in Seq(Nat)
      /\ \A k \in 1..Len(s) : \E g \in given : s[k] = g[1]
      /\ \A j, k \in 1..Len(s) : j <= k => s[j] <= s[k]
      /\ \A g \in given : \E k \in 1..Len(s) : s[k] = g[1]
  <2> HIDE DEF given
  <2> QED
    BY <1>1, <1>2, SortOrders
<1>4. /\ c \in Seq(Nat)
      /\ \A k \in 1..Len(c) : \E i \in 1..Len(s) : c[k] = s[i]
      /\ \A j, k \in 1..Len(c) : j < k => c[j] < c[k]
      /\ \A i \in 1..Len(s) : \E k \in 1..Len(c) : c[k] = s[i]
  <2> HIDE DEF s
  <2> QED
    BY <1>3, CompactSorted
<1>5. PortsList(f) = c
  BY DEF PortsList
<1> HIDE DEF c, s, given
<1>6. Len(c) \in Nat /\ \A k \in 1..Len(c) : c[k] \in Nat
  BY <1>4, LenProperties, ElementOfSeq
<1>7. ASSUME NEW j \in 1..Len(c), NEW k \in 1..Len(c), j # k PROVE c[j] # c[k]
  <2>0. c[j] \in Nat /\ c[k] \in Nat
    BY <1>6
  <2>1. CASE j < k
    <3>1. c[j] < c[k]
      BY <1>4, <2>1
    <3> QED
      BY <2>0, <3>1
  <2>2. CASE k < j
    <3>1. c[k] < c[j]
      BY <1>4, <2>2
    <3> QED
      BY <2>0, <3>1
  <2> QED
    BY <1>6, <1>7, <2>1, <2>2
<1>8. ASSUME NEW k \in 1..Len(c) PROVE c[k] \in Given(f)
  <2>1. PICK i \in 1..Len(s) : c[k] = s[i]
    BY <1>4
  <2>2. PICK g \in given : s[i] = g[1]
    BY <1>3
  <2> QED
    BY <1>2, <2>1, <2>2
<1>9. ASSUME NEW p \in Given(f) PROVE \E k \in 1..Len(c) : c[k] = p
  <2>1. PICK g \in given : g[1] = p
    BY ExpandedGives DEF given
  <2>2. PICK i \in 1..Len(s) : s[i] = g[1]
    BY <1>3
  <2> QED
    BY <1>4, <2>1, <2>2
<1> QED
  BY <1>5, <1>7, <1>8, <1>9

-------------------------------------------------------------------------------
(* The theorems.                                                           *)

\* BatchInv is inductive.
THEOREM BatchInvariance == Spec => []BatchInv
<1>1. Init => BatchInv
  BY InitBatch
<1>2. BatchInv /\ [Next]_vars => BatchInv'
  BY TakeHostBatch, StartTechniqueBatch, AddProbeBatch, SendFullBatch, EndTechniqueBatch,
     FlushBatch, FinishBatch, IdleBatch DEF Next
<1> QED
  BY <1>1, <1>2, PTL DEF Spec

\* Every variable has its type.
THEOREM BatchTypes == Spec => []TypeOK
<1>1. BatchInv => TypeOK
  BY DEF BatchInv
<1> QED
  BY <1>1, BatchInvariance, PTL

\* The arrays of 64 messages are never written beyond their end: neither by a host
\* whose packets fit in one batch nor by one whose batches are sent when full.
THEOREM NoSlotBeyondTheLast == Spec => []IndexInBounds
<1>1. BatchInv => IndexInBounds
  BY BatchIndex
<1> QED
  BY <1>1, BatchInvariance, PTL

\* Only probes of hosts that came are on the wire, each with its own checksum.
THEOREM FramesRight == Spec => []RightFrames
<1>1. BatchInv => RightFrames
  BY DEF BatchInv, Accounted, Built, RightFrames
<1> QED
  BY <1>1, BatchInvariance, PTL

\* No probe is sent twice.
THEOREM NoFrameAgain == Spec => []OnceEach
<1>1. BatchInv => OnceEach
  BY DEF BatchInv, Accounted, OnceEach
<1> QED
  BY <1>1, BatchInvariance, PTL

\* At the end every host has got every probe the kernel took, and with host
\* discovery before the next host is taken.
THEOREM EveryProbeSent == Spec => []NothingLeft
<1>1. BatchInv => NothingLeft
  <2> SUFFICES ASSUME BatchInv PROVE NothingLeft
    OBVIOUS
  <2>1. ASSUME pc = "done" \/ (pc = "next" /\ ~direct) PROVE sent = ProbesOf(taken) \ lost
    <3>1. currentIndex = 0 /\ technique = techniques + 1
      BY <2>1 DEF BatchInv, Position
    <3>2. Pending = {}
      BY <3>1 DEF Pending
    <3>3. Built = ProbesOf(taken)
      <4>1. ASSUME NEW f \in ProbesOf(taken) PROVE f \in Built
        <5>1. PICK h \in taken, t \in 1..techniques, p \in 1..ports : f = Probe(h, t, p)
          BY <4>1 DEF ProbesOf
        <5>2. t < technique
          BY <3>1 DEF BatchInv, TypeOK, Techniques
        <5> QED
          BY <5>1, <5>2, BuiltIsBuiltOf, BuiltOfMember
      <4> QED
        BY <4>1 DEF Built
    <3> QED
      BY <3>2, <3>3 DEF BatchInv, Accounted
  <2>2. pc = "done" => taken = up
    BY DEF BatchInv, Position
  <2> QED
    BY <2>1, <2>2 DEF NothingLeft
<1> QED
  BY <1>1, BatchInvariance, PTL

\* The rule and its list of ports stay what they were when the scan began.
THEOREM RuleFixed == Spec => []RuleKept
<1>1. Init => RuleKept
  BY DEF Init, RuleKept
<1>2. RuleKept /\ [Next]_vars => RuleKept'
  <2>1. [Next]_vars => field' = field /\ portsList' = portsList
    BY DEF Next, TakeHost, StartTechnique, AddProbe, SendFull, EndTechnique, Flush, Finish,
           SendFails, Finished, vars, rule
  <2> QED
    BY <2>1 DEF RuleKept
<1> QED
  BY <1>1, <1>2, PTL DEF Spec

\* However singles and ranges overlap, no host is probed twice at a port by one
\* technique; and a rule that was parsed never has a host probed at port 0.
THEOREM PortsOnce == Spec => []PortsProbedOnce
<1>1. BatchInv /\ RuleKept => PortsProbedOnce
  <2> SUFFICES ASSUME BatchInv, RuleKept PROVE PortsProbedOnce
    OBVIOUS
  <2>1. field \in Fields /\ Accepted(field) /\ portsList = PortsList(field)
    BY DEF BatchInv, TypeOK, RuleKept
  <2>2. ASSUME NEW f \in sent
        PROVE  \E h \in taken, t \in 1..techniques, p \in 1..Len(portsList) : f = Probe(h, t, p)
    <3>1. f \in ProbesOf(taken)
      BY DEF BatchInv, Accounted, Built
    <3> QED
      BY <3>1 DEF ProbesOf, ports
  <2>3. ASSUME NEW f \in sent
        PROVE  portsList[f.port] \in (IF field.parsed THEN 1 ELSE 0)..PortLimit-1
    <3>1. f.port \in 1..Len(portsList)
      BY <2>2, ProbeFields
    <3>2. portsList[f.port] \in Given(field)
      BY <2>1, <3>1, PortsListGives
    <3> QED
      BY <2>1, <3>2, ExpandedGives
  <2>4. ASSUME NEW f \in sent, NEW g \in sent, f.to = g.to, f.technique = g.technique, f # g
        PROVE  portsList[f.port] # portsList[g.port]
    <3>1. PICK h \in taken, t \in 1..techniques, p \in 1..Len(portsList) : f = Probe(h, t, p)
      BY <2>2
    <3>2. PICK k \in taken, u \in 1..techniques, q \in 1..Len(portsList) : g = Probe(k, u, q)
      BY <2>2
    <3>3. h = k /\ t = u /\ f.port = p /\ g.port = q
      BY <2>4, <3>1, <3>2, ProbeFields
    <3>4. p # q
      BY <2>4, <3>1, <3>2, <3>3
    <3> QED
      BY <2>1, <3>3, <3>4, PortsListGives
  <2>5. again = {}
    BY DEF BatchInv, Accounted
  <2> QED
    BY <2>3, <2>4, <2>5 DEF PortsProbedOnce
<1> QED
  BY <1>1, BatchInvariance, RuleFixed, PTL

\* A range that fits in 16 bits is kept as it was written.
LEMMA ParsedAsWritten ==
  ASSUME NEW f \in Fields, NEW i \in DOMAIN f.ranges,
         f.ranges[i].start < PortLimit, f.ranges[i].end < PortLimit
  PROVE  /\ f.ranges[i].start \in Nat /\ f.ranges[i].end \in Nat
         /\ Parsed(f.ranges[i]).start = f.ranges[i].start
         /\ Parsed(f.ranges[i]).end = f.ranges[i].end
<1>1. PortLimit \in Nat \ {0} /\ f.ranges \in Seq(PortRange)
  BY FieldAssumption
<1>2. f.ranges[i] \in PortRange
  BY <1>1, LenProperties, ElementOfSeq
<1>3. f.ranges[i].start \in Nat /\ f.ranges[i].end \in Nat
  BY <1>2 DEF PortRange
<1>4. \A n \in Nat : n < PortLimit => Uint16(n) = n
  BY <1>1 DEF Uint16
<1> QED
  BY <1>3, <1>4 DEF Parsed

\* A scan that is over, and lost nothing, has probed every host at the ports its rule
\* was written with but the last ones of its ranges, and, if they all fit in 16 bits,
\* at no other.
THEOREM AllPortsProbed == Spec => []RulePortsProbed
<1>1. BatchInv /\ RuleKept /\ NothingLeft => RulePortsProbed
  <2> DEFINE At(h, t) == {portsList[f.port] : f \in {g \in sent : g.to = h /\ g.technique = t}}
             written == {i \in DOMAIN field.ranges :
                           field.ranges[i].start < PortLimit /\ field.ranges[i].end < PortLimit}
             singles == {Singles(field)[j] : j \in DOMAIN Singles(field)}
             Written(i) == field.ranges[i].start..field.ranges[i].end
             ButLast(i) == field.ranges[i].start..field.ranges[i].end - 1
             Cut(i) == Parsed(field.ranges[i]).start..Parsed(field.ranges[i]).end - 1
  <2> SUFFICES ASSUME BatchInv, RuleKept, NothingLeft, pc = "done", lost = {},
                      NEW h \in up, NEW t \in 1..techniques
               PROVE  /\ singles \subseteq At(h, t)
                      /\ \A i \in written : ButLast(i) \subseteq At(h, t)
                      /\ written = DOMAIN field.ranges =>
                           \A p \in At(h, t) \ singles : \E i \in written : p \in Written(i)
    BY DEF RulePortsProbed, Singles
  <2>1. field \in Fields /\ Accepted(field) /\ portsList = PortsList(field)
    BY DEF BatchInv, TypeOK, RuleKept
  <2>2. sent = ProbesOf(up)
    BY DEF NothingLeft
  <2>3. At(h, t) = Given(field)
    <3>1. ASSUME NEW f \in sent PROVE portsList[f.port] \in Given(field)
      <4>1. PICK k \in up, u \in 1..techniques, p \in 1..Len(portsList) : f = Probe(k, u, p)
        BY <2>2 DEF ProbesOf, ports
      <4>2. f.port \in 1..Len(portsList)
        BY <4>1, ProbeFields
      <4> QED
        BY <2>1, <4>2, PortsListGives
    <3>2. ASSUME NEW p \in Given(field)
          PROVE  \E f \in {g \in sent : g.to = h /\ g.technique = t} : portsList[f.port] = p
      <4>1. PICK k \in 1..Len(portsList) : portsList[k] = p
        BY <2>1, PortsListGives
      <4>2. Probe(h, t, k) \in sent
        BY <2>2 DEF ProbesOf, ports
      <4> QED
        BY <4>1, <4>2, ProbeFields
    <3> QED
      BY <3>1, <3>2
  <2> HIDE DEF At
  <2>4. At(h, t) = (UNION {Cut(i) : i \in DOMAIN field.ranges}) \cup singles
    BY <2>3 DEF Given
  <2>5. ASSUME NEW i \in written
        PROVE  /\ field.ranges[i].start \in Nat /\ field.ranges[i].end \in Nat
               /\ Cut(i) = ButLast(i)
    BY <2>1, <2>5, ParsedAsWritten
  <2>6. ASSUME NEW i \in written PROVE ButLast(i) \subseteq Written(i)
    BY <2>5
  <2> HIDE DEF Cut, ButLast, Written, singles
  <2>7. \A i \in written : ButLast(i) \subseteq At(h, t)
    BY <2>4, <2>5
  <2>8. ASSUME written = DOMAIN field.ranges, NEW p \in At(h, t) \ singles
        PROVE  \E i \in written : p \in Written(i)
    <3>1. PICK i \in DOMAIN field.ranges : p \in Cut(i)
      BY <2>4, <2>8
    <3> QED
      BY <2>5, <2>6, <2>8, <3>1
  <2> QED
    BY <2>4, <2>7, <2>8
<1> QED
  BY <1>1, BatchInvariance, RuleFixed, EveryProbeSent, PTL

===============================================================================
