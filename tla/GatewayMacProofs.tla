--------------------------- MODULE GatewayMacProofs ---------------------------
(***************************************************************************)
(* Theorems about GatewayMac, for any ranges, gateways and machines and    *)
(* any number of packets on the link.                                      *)
(***************************************************************************)
EXTENDS GatewayMac, TLAPS

\* Before anything is asked.
LEMMA InitInv == ASSUME Init PROVE IInv
<1>1. TypeOK
  BY GatewayAssumption DEF Init, TypeOK, Macs
<1>2. \A r \in Ranges : HeardInv(r)
  <2>1. \A S : <<>> \in Seq(S)
    OBVIOUS
  <2> QED BY <2>1 DEF Init, HeardInv
<1>3. WrongMacExplained
  BY DEF Init, WrongMacExplained
<1> QED BY <1>1, <1>2, <1>3 DEF IInv

\* A range that looks into the table, asks, gives up or is answered.
LEMMA AskerInv ==
  ASSUME IInv, NEW r \in Ranges, AskerStep(r) \/ AskFails(r)
  PROVE  IInv'
<1> USE DEF IInv, fixed, reader, link, asker
<1>1. CASE LookUp4(r)
  <2>1. TypeOK'
    BY <1>1, GatewayAssumption DEF LookUp4, Found, TypeOK, Macs
  <2>2. \A q \in Ranges : HeardInv(q)'
    BY <1>1 DEF LookUp4, HeardInv
  <2>3. WrongMacExplained'
    BY <1>1, GatewayAssumption DEF LookUp4, Found, TypeOK, WrongMacExplained
  <2> QED BY <2>1, <2>2, <2>3
<1>2. CASE LookUp6(r)
  <2>1. TypeOK'
    BY <1>2, GatewayAssumption DEF LookUp6, Found, TypeOK, Macs
  <2>2. \A q \in Ranges : HeardInv(q)'
    BY <1>2 DEF LookUp6, HeardInv
  <2>3. WrongMacExplained'
    BY <1>2 DEF LookUp6, Found, TypeOK, WrongMacExplained
  <2> QED BY <2>1, <2>2, <2>3
<1>3. CASE OpenHandle(r)
  <2>1. TypeOK'
    BY <1>3 DEF OpenHandle, TypeOK
  <2>2. \A q \in Ranges : HeardInv(q)'
    BY <1>3 DEF OpenHandle, HeardInv
  <2>3. WrongMacExplained'
    BY <1>3 DEF OpenHandle, TypeOK, WrongMacExplained
  <2> QED BY <2>1, <2>2, <2>3
<1>4. CASE Ask(r)
  <2>1. TypeOK'
    BY <1>4, GatewayAssumption DEF Ask, TypeOK
  <2>2. \A q \in Ranges : HeardInv(q)'
    BY <1>4 DEF Ask, HeardInv
  <2>3. WrongMacExplained'
    BY <1>4 DEF Ask, TypeOK, WrongMacExplained
  <2> QED BY <2>1, <2>2, <2>3
<1>5. CASE TimeOut(r) \/ AskFails(r)
  <2>1. TypeOK'
    BY <1>5 DEF TimeOut, AskFails, TypeOK
  <2>2. \A q \in Ranges : HeardInv(q)'
    BY <1>5 DEF TimeOut, AskFails, HeardInv
  <2>3. WrongMacExplained'
    BY <1>5 DEF TimeOut, AskFails, TypeOK, WrongMacExplained
  <2> QED BY <2>1, <2>2, <2>3
<1>6. CASE TakeAnswer4(r)
  <2>1. held[r] \in Machines
    BY <1>6 DEF TakeAnswer4, TypeOK
  <2>2. TypeOK'
    BY <1>6, <2>1 DEF TakeAnswer4, Found, TypeOK, Macs
  <2>3. \A q \in Ranges : HeardInv(q)'
    BY <1>6 DEF TakeAnswer4, TypeOK, HeardInv
  <2>4. held[r] = gateway[r] \/ overheard[r]
    BY <2>1, GatewayAssumption DEF HeardInv
  <2>5. WrongMacExplained'
    BY <1>6, <2>4 DEF TakeAnswer4, Found, TypeOK, WrongMacExplained
  <2> QED BY <2>2, <2>3, <2>5
<1>7. CASE TakeAnswer6(r)
  <2>0. addrChan[r] = <<gateway[r]>> /\ gateway[r] \in Machines
    <3>1. addrChan[r] # <<>>
      BY <1>7 DEF TakeAnswer6
    <3>2. addrChan[r] \in {<<>>, <<gateway[r]>>}
      BY DEF HeardInv
    <3>3. gateway[r] \in Machines
      BY GatewayAssumption DEF TypeOK
    <3> QED BY <3>1, <3>2, <3>3
  <2>1. Head(addrChan[r]) \in Machines /\ Head(addrChan[r]) = gateway[r]
    BY <2>0
  <2>2. TypeOK'
    BY <1>7, <2>1 DEF TakeAnswer6, Found, TypeOK, Macs
  <2>3. \A q \in Ranges : HeardInv(q)'
    <3>1. addrChan'[r] = <<>> /\ \A q \in Ranges \ {r} : addrChan'[q] = addrChan[q]
      BY <1>7 DEF TakeAnswer6, TypeOK
    <3> QED BY <1>7, <3>1 DEF TakeAnswer6, HeardInv
  <2>4. WrongMacExplained'
    BY <1>7, <2>1 DEF TakeAnswer6, Found, TypeOK, WrongMacExplained
  <2> QED BY <2>2, <2>3, <2>4
<1> QED BY <1>1, <1>2, <1>3, <1>4, <1>5, <1>6, <1>7 DEF AskerStep

\* The reader looks at the oldest packet its handle captured.
LEMMA HeadHeard ==
  ASSUME TypeOK, NEW r \in Ranges, HeardInv(r), captured[r] # <<>>
  PROVE  /\ Head(captured[r]) \in Machines /\ Tail(captured[r]) \in Seq(Machines)
         /\ ~overheard[r] => /\ Head(captured[r]) = gateway[r]
                             /\ Tail(captured[r]) \in Seq({gateway[r]})
BY DEF TypeOK, HeardInv

\* A reader that takes a packet, passes an address on, or stops.
LEMMA ReaderInv ==
  ASSUME IInv, NEW r \in Ranges, ReaderStep(r)
  PROVE  IInv'
<1> USE DEF IInv, fixed, asker
<1>0. WrongMacExplained'
  BY DEF ReaderStep, ReadReply, ReadAdvertisement, Deliver6, ReaderStops, link, WrongMacExplained
<1>1. CASE ReadReply(r)
  <2>1. TypeOK'
    BY <1>1, HeadHeard DEF ReadReply, TypeOK, Macs
  <2>2. HeardInv(r)'
    BY <1>1, HeadHeard DEF ReadReply, TypeOK, HeardInv
  <2>3. \A q \in Ranges \ {r} : HeardInv(q)'
    BY <1>1 DEF ReadReply, TypeOK, HeardInv
  <2> QED BY <1>0, <2>1, <2>2, <2>3
<1>2. CASE ReadAdvertisement(r)
  <2>1. TypeOK'
    <3>1. gateway[r] \in Machines /\ captured' \in [Ranges -> Seq(Machines)]
      BY <1>2, HeadHeard, GatewayAssumption DEF ReadAdvertisement, TypeOK
    <3>2. held' \in [Ranges -> Macs] /\ readPc' \in [Ranges -> {"off", "listen", "deliver", "end"}]
      BY <1>2, <3>1 DEF ReadAdvertisement, TypeOK, Macs
    <3>3. \A q \in Ranges : readPc'[q] = "deliver" => held'[q] \in Machines
      BY <1>2, <3>1 DEF ReadAdvertisement, TypeOK
    <3> QED BY <1>2, <3>1, <3>2, <3>3 DEF ReadAdvertisement, TypeOK
  <2>2. HeardInv(r)'
    BY <1>2, HeadHeard DEF ReadAdvertisement, TypeOK, HeardInv
  <2>3. \A q \in Ranges \ {r} : HeardInv(q)'
    BY <1>2 DEF ReadAdvertisement, TypeOK, HeardInv
  <2> QED BY <1>0, <2>1, <2>2, <2>3
<1>3. CASE Deliver6(r)
  <2>1. held[r] \in Machines /\ held[r] # NoMac
    BY <1>3, GatewayAssumption DEF Deliver6, TypeOK
  <2>2. TypeOK'
    BY <1>3, <2>1 DEF Deliver6, TypeOK, Macs, link
  <2>3. HeardInv(r)'
    BY <1>3, <2>1 DEF Deliver6, TypeOK, HeardInv, link
  <2>4. \A q \in Ranges \ {r} : HeardInv(q)'
    BY <1>3 DEF Deliver6, TypeOK, HeardInv, link
  <2> QED BY <1>0, <2>2, <2>3, <2>4
<1>4. CASE ReaderStops(r)
  <2>1. TypeOK'
    BY <1>4 DEF ReaderStops, TypeOK, link
  <2>2. \A q \in Ranges : HeardInv(q)'
    BY <1>4 DEF ReaderStops, HeardInv, link
  <2> QED BY <1>0, <2>1, <2>2
<1> QED BY <1>1, <1>2, <1>3, <1>4 DEF ReaderStep

\* A packet on the link.
LEMMA AnswerInv == ASSUME IInv, NEW m \in Machines, Answer(m) PROVE IInv'
<1> USE DEF IInv, Answer, fixed, asker, reader
<1>1. TypeOK'
  <2>1. \A r \in Ranges : Append(captured[r], m) \in Seq(Machines)
    BY DEF TypeOK
  <2>2. captured' \in [Ranges -> Seq(Machines)] /\ overheard' \in [Ranges -> BOOLEAN]
    BY <2>1 DEF TypeOK, Listening
  <2>3. answers' \in 0..MaxAnswers
    BY GatewayAssumption DEF TypeOK
  <2> QED BY <2>2, <2>3 DEF TypeOK
<1>2. \A r \in Ranges : HeardInv(r)'
  <2> SUFFICES ASSUME NEW r \in Ranges PROVE HeardInv(r)'
    OBVIOUS
  <2>1. overheard'[r] <=> overheard[r] \/ (Listening(r) /\ m # gateway[r])
    BY DEF TypeOK
  <2>2. captured'[r] = IF Listening(r) THEN Append(captured[r], m) ELSE captured[r]
    BY DEF TypeOK
  <2>3. ~overheard'[r] => captured'[r] \in Seq({gateway[r]})
    BY <2>1, <2>2 DEF HeardInv
  <2> QED BY <2>1, <2>3 DEF TypeOK, HeardInv
<1>3. WrongMacExplained'
  BY DEF TypeOK, WrongMacExplained
<1> QED BY <1>1, <1>2, <1>3

\* IInv holds in every reachable state.
THEOREM Invariance == Spec => []IInv
<1>1. IInv /\ UNCHANGED vars => IInv'
  BY DEF IInv, TypeOK, HeardInv, WrongMacExplained, vars, fixed, asker, reader, link
<1>2. IInv /\ [Next]_vars => IInv'
  BY <1>1, AskerInv, ReaderInv, AnswerInv DEF Next, Resolved
<1> QED BY <1>2, InitInv, PTL DEF Spec

\* Every variable keeps its type; no IPv6 reader passes on more than one address.
THEOREM TypeCorrect == Spec => []TypeOK
<1>1. IInv => TypeOK
  BY DEF IInv
<1> QED BY <1>1, Invariance, PTL

\* A range that goes on with another address than its gateway's is an IPv4 range, and
\* its ARP table had an entry without an answer, or another machine was overheard
\* while its handle was open.
THEOREM WrongMacs == Spec => []WrongMacExplained
<1>1. IInv => WrongMacExplained
  BY DEF IInv
<1> QED BY <1>1, Invariance, PTL
===============================================================================
