---------------------------- MODULE RouterProofs ----------------------------
(***************************************************************************)
(* Proofs about Router: no packet is lost, sent twice or overtaken,        *)
(* whatever the topology, the packets and the ARP replies that come.       *)
(***************************************************************************)
EXTENDS Router, InductionLemmas, FiniteSetTheorems, SequenceTheorems

---------------------------------------------------------------------------
(* The inductive invariant, in parts.                                      *)

Seen == [id : Nat, src : Neighbours, dst : Dests, ttl : 1 .. 2, good : BOOLEAN]
Frames ==
  [kind : Kinds, id : Nat, smac : {Self}, dmac : {Self, "broadcast"} \cup Neighbours,
   src : Neighbours \cup {"self"}, dst : Dests \cup Neighbours, ttl : 0 .. 255]
Histories == log \in Seq(Seen) /\ sent \in Seq(Frames)

(* Each frame and each waiting packet is of a packet that came; those that *)
(* wait have a route; at most one request was sent for each.               *)
FromLog ==
  /\ \A i \in 1 .. Len(sent) :
       sent[i].id \in 0 .. Len(log) /\ (Ip(i) => sent[i].id > 0)
  /\ \A i \in 1 .. Len(q) : q[i].id \in 1 .. Len(log) /\ Routed(q[i].dst)
  /\ \A n \in Neighbours : asked[n] <= Len(log)

(* Where the packet id is: answered, waiting, or dropped on arrival.       *)
One(S) == \E i \in S : S = {i}
Place(id) ==
  \/ log[id].good /\ One(Answers(id)) /\ Waiting(id) = {}
  \/ log[id].good /\ Answers(id) = {} /\ One(Waiting(id))
  \/ ~log[id].good /\ Answers(id) = {} /\ Waiting(id) = {}
InPlace == \A id \in 1 .. Len(log) : Place(id)

(* A waiting packet was counted down already.                              *)
WaitingTtl == \A i \in 1 .. Len(q) : q[i].ttl = log[q[i].id].ttl - 1

(* The queue is in order of arrival, and what it holds for a next hop came *)
(* after whatever was sent towards it.                                     *)
QueueOrder ==
  /\ \A i, j \in 1 .. Len(q) : i < j => q[i].id < q[j].id
  /\ \A i \in 1 .. Len(sent), j \in 1 .. Len(q) :
       Ip(i) /\ Hop(sent[i].dst) = Hop(q[j].dst) => sent[i].id < q[j].id

IInv ==
  /\ TypeOK /\ Histories /\ FromLog /\ InPlace /\ WaitingTtl /\ QueueOrder
  /\ TtlOnce /\ QueueUnresolved /\ FlowOrder
---------------------------------------------------------------------------
(* Addresses, the ARP table, and what a packet that arrives is.            *)

LEMMA Appended ==
  ASSUME NEW T, NEW a \in Seq(T), NEW x \in T
  PROVE  /\ Append(a, x) \in Seq(T) /\ Len(Append(a, x)) = Len(a) + 1 /\ Len(a) \in Nat
         /\ \A i \in 1 .. Len(a) : Append(a, x)[i] = a[i]
         /\ Append(a, x)[Len(a) + 1] = x
OBVIOUS

LEMMA ElementIs ==
  ASSUME NEW T, NEW a \in Seq(T), NEW i \in 1 .. Len(a)
  PROVE  a[i] \in T
OBVIOUS

LEMMA HopIs ==
  ASSUME NEW d \in Dests, Routed(d)
  PROVE  Hop(d) \in Neighbours
<1>1. CASE d \in Hosts
  BY <1>1 DEF Hop, Neighbours
<1>2. CASE d \in Own /\ d \notin Hosts
  <2>1. PICK n \in Neighbours : d = <<"own", n>>
    BY <1>2 DEF Own
  <2> QED BY <1>2, <2>1 DEF Hop
<1> QED BY <1>1, <1>2 DEF Dests, Routed

LEMMA EntryIs ==
  ASSUME mac_table \in Seq([ip : Neighbours, mac : Neighbours]), NEW n, Known(n)
  PROVE  ArpEntry(n) \in Neighbours
<1> DEFINE Places == {i \in 1 .. Len(mac_table) : mac_table[i].ip = n}
           First(i) == mac_table[i].ip = n /\ \A j \in 1 .. i - 1 : mac_table[j].ip # n
<1>1. Places \subseteq Nat /\ Places # {} /\ Len(mac_table) \in Nat
  BY DEF Known
<1>2. PICK i \in Places : \A j \in Places : i <= j
  <2> HIDE DEF Places
  <2> QED BY <1>1, LeastElement
<1>3. i \in 1 .. Len(mac_table) /\ First(i)
  <2>1. ASSUME NEW j \in 1 .. i - 1 PROVE mac_table[j].ip # n
    <3>1. j \in 1 .. Len(mac_table) /\ ~(i <= j)
      BY <1>1, <1>2
    <3> QED BY <1>2, <3>1
  <2> QED BY <1>2, <2>1
<1> DEFINE c == CHOOSE k \in 1 .. Len(mac_table) : First(k)
<1>4. c \in 1 .. Len(mac_table)
  <2> HIDE DEF First
  <2> QED BY <1>3
<1> HIDE DEF c
<1>5. mac_table[c] \in [ip : Neighbours, mac : Neighbours]
  BY <1>4, ElementIs
<1> QED BY <1>5 DEF ArpEntry, c

LEMMA PacketIs ==
  ASSUME IInv, NEW p \in Packets
  PROVE  /\ p \in Seen /\ p.id = Len(log) + 1 /\ p.src \in Neighbours /\ p.dst \in Dests
         /\ p.ttl \in 1 .. 2 /\ p.good \in BOOLEAN
<1>1. Len(log) \in Nat
  BY DEF IInv, Histories
<1>2. p.id = Len(log) + 1 /\ p.src \in Neighbours /\ p.dst \in Dests /\ p.ttl \in 1 .. 2
  <2>1. p.id \in {Len(log) + 1} /\ p.dst \in Dests /\ p.ttl \in 1 .. 2 \cup {1}
    BY DEF Packets, Dests
  <2>2. p.src \in Neighbours
    BY DEF Packets
  <2> QED BY <2>1, <2>2
<1>3. p.good \in BOOLEAN
  BY DEF Packets
<1>4. p = [id |-> p.id, src |-> p.src, dst |-> p.dst, ttl |-> p.ttl, good |-> p.good]
  BY DEF Packets
<1>5. p \in Seen
  BY <1>1, <1>2, <1>3, <1>4 DEF Seen
<1> QED BY <1>2, <1>3, <1>5

(* Nothing is known of a packet before it comes.                           *)
LEMMA NotYet ==
  ASSUME IInv
  PROVE  Answers(Len(log) + 1) = {} /\ Waiting(Len(log) + 1) = {}
<1>1. Len(log) \in Nat
  BY DEF IInv, Histories
<1> QED BY <1>1 DEF IInv, FromLog, Answers, Waiting

LEMMA WaitingIs ==
  ASSUME IInv, NEW i \in 1 .. Len(q)
  PROVE  /\ q[i].src \in Neighbours /\ q[i].dst \in Dests /\ q[i].ttl \in 1 .. 255
         /\ q[i].id \in 1 .. Len(log) /\ Hop(q[i].dst) \in Neighbours
<1>1. q[i] \in HeldPackets
  BY ElementIs DEF IInv, TypeOK
<1>2. q[i].src \in Neighbours /\ q[i].dst \in Dests /\ q[i].ttl \in 1 .. 255
  BY <1>1 DEF HeldPackets
<1>3. q[i].id \in 1 .. Len(log) /\ Routed(q[i].dst)
  BY DEF IInv, FromLog
<1> QED BY <1>2, <1>3, HopIs

LEMMA OneOrNone ==
  ASSUME NEW a, NEW b, IsFiniteSet(a), IsFiniteSet(b)
  PROVE  /\ One(a) /\ b = {} => Cardinality(a) + Cardinality(b) = 1
         /\ a = {} /\ b = {} => Cardinality(a) + Cardinality(b) = 0
BY FS_EmptySet, FS_Singleton DEF One
---------------------------------------------------------------------------
(* The invariant is inductive, step by step.                               *)

LEMMA InitOK == Init => IInv
<1> SUFFICES ASSUME Init PROVE IInv
  OBVIOUS
<1>1. /\ mac_table = <<>> /\ q = <<>> /\ sent = <<>> /\ log = <<>> /\ requests = 0 /\ lost = {}
      /\ asked = [n \in Neighbours |-> 0] /\ MaxPackets \in Nat /\ MaxRequests \in Nat
  BY RouterConstants DEF Init
<1>2. TypeOK
  BY <1>1 DEF TypeOK
<1> QED BY <1>1, <1>2 DEF IInv, Histories, FromLog, InPlace, WaitingTtl, QueueOrder, TtlOnce,
                          QueueUnresolved, FlowOrder

(* A packet that comes is logged; what is known of the others stays.       *)
LEMMA LogStep ==
  ASSUME IInv, NEW p \in Packets, log' = Append(log, p)
  PROVE  /\ log' \in Seq(Seen) /\ Len(log') = Len(log) + 1 /\ Len(log) \in Nat
         /\ \A i \in 1 .. Len(log) : log'[i] = log[i]
         /\ log'[Len(log) + 1] = p
<1>1. log \in Seq(Seen) /\ p \in Seen
  BY PacketIs DEF IInv, Histories
<1> QED BY <1>1, Appended

LEMMA AnswerOK ==
  ASSUME IInv, NEW p \in Packets, p.good, Len(log) < MaxPackets, log' = Append(log, p),
         NEW f \in Frames, f.id = p.id, sent' = Append(sent, f),
         UNCHANGED <<mac_table, q, requests, asked, lost>>,
         f.kind = "ip" =>
           /\ f.ttl = p.ttl - 1 /\ p.ttl > 1 /\ f.dst = p.dst /\ f.dmac \in Neighbours
           /\ Known(Hop(p.dst))
  PROVE  IInv'
<1> USE DEF IInv
<1>1. /\ log' \in Seq(Seen) /\ Len(log') = Len(log) + 1 /\ Len(log) \in Nat
      /\ \A i \in 1 .. Len(log) : log'[i] = log[i]
      /\ log'[Len(log) + 1] = p
  BY LogStep
<1>2. /\ sent' \in Seq(Frames) /\ Len(sent') = Len(sent) + 1 /\ Len(sent) \in Nat
      /\ \A i \in 1 .. Len(sent) : sent'[i] = sent[i]
      /\ sent'[Len(sent) + 1] = f
  BY Appended DEF Histories
<1>3. \A i \in 1 .. Len(sent') : i = Len(sent) + 1 \/ i \in 1 .. Len(sent)
  BY <1>2
<1>4. p.id = Len(log) + 1 /\ p.dst \in Dests /\ p.ttl \in 1 .. 2
  BY PacketIs
<1>5. TypeOK'
  <2>1. \A i \in 1 .. Len(sent') :
          /\ sent'[i].kind \in Kinds
          /\ sent'[i].kind = "ip" =>
               /\ sent'[i].ttl \in 1 .. 255
               /\ sent'[i].dst \in Dests /\ sent'[i].dmac \in Neighbours
    <3>1. f.kind \in Kinds
      BY DEF Frames
    <3>2. ASSUME f.kind = "ip" PROVE f.ttl \in 1 .. 255
      <4>1. f.ttl = p.ttl - 1 /\ p.ttl > 1
        BY <3>2
      <4> QED BY <1>4, <4>1
    <3> SUFFICES ASSUME NEW i \in 1 .. Len(sent')
                 PROVE  /\ sent'[i].kind \in Kinds
                        /\ sent'[i].kind = "ip" =>
                             /\ sent'[i].ttl \in 1 .. 255
                             /\ sent'[i].dst \in Dests /\ sent'[i].dmac \in Neighbours
      OBVIOUS
    <3>3. CASE i = Len(sent) + 1
      BY <1>2, <1>4, <3>1, <3>2, <3>3
    <3>4. CASE i \in 1 .. Len(sent)
      <4>1. sent'[i] = sent[i]
        BY <1>2, <3>4
      <4> QED BY <3>4, <4>1 DEF TypeOK
    <3> QED BY <1>3, <3>3, <3>4
  <2>2. Len(log') <= MaxPackets
    BY <1>1, RouterConstants
  <2> QED BY <2>1, <2>2 DEF TypeOK
<1>6. Histories'
  BY <1>1, <1>2 DEF Histories, Seen, Frames
<1>7. FromLog'
  <2>1. ASSUME NEW i \in 1 .. Len(sent')
        PROVE  sent'[i].id \in 0 .. Len(log') /\ (Ip(i)' => sent'[i].id > 0)
    <3>1. CASE i = Len(sent) + 1
      BY <1>1, <1>2, <1>4, <3>1 DEF Ip
    <3>2. CASE i \in 1 .. Len(sent)
      BY <1>1, <1>2, <3>2 DEF FromLog, Ip
    <3> QED BY <1>3, <3>1, <3>2
  <2>2. \A i \in 1 .. Len(q) : q[i].id \in 1 .. Len(log') /\ Routed(q[i].dst)
    BY <1>1 DEF FromLog
  <2>3. \A n \in Neighbours : asked[n] <= Len(log')
    <3>1. \A n \in Neighbours : asked[n] \in Nat
      BY RouterConstants DEF TypeOK
    <3> QED BY <1>1, <3>1 DEF FromLog
  <2> QED BY <2>1, <2>2, <2>3 DEF FromLog
<1>8. InPlace'
  <2>1. ASSUME NEW id \in 1 .. Len(log') PROVE Place(id)'
    <3>1. CASE id \in 1 .. Len(log)
      <4>1. Answers(id)' = Answers(id) /\ Waiting(id)' = Waiting(id)
        BY <1>1, <1>2, <1>3, <1>4, <3>1 DEF Answers, Waiting
      <4> QED BY <1>1, <3>1, <4>1 DEF InPlace, Place, One
    <3>2. CASE id = Len(log) + 1
      <4>1. Answers(id)' = {Len(sent) + 1} /\ Waiting(id)' = {}
        <5>1. \A i \in 1 .. Len(sent) : sent'[i].id # id
          BY <1>1, <1>2, <3>2 DEF FromLog
        <5>2. Waiting(id) = {}
          BY <3>2, NotYet
        <5> QED BY <1>2, <1>3, <1>4, <3>2, <5>1, <5>2 DEF Answers, Waiting
      <4> QED BY <1>1, <3>2, <4>1 DEF Place, One
    <3> QED BY <1>1, <3>1, <3>2
  <2> QED BY <2>1 DEF InPlace
<1>9. WaitingTtl' /\ TtlOnce'
  <2>1. WaitingTtl'
    BY <1>1 DEF WaitingTtl, FromLog
  <2>2. TtlOnce'
    <3>1. ASSUME NEW i \in 1 .. Len(sent'), Ip(i)'
          PROVE  sent'[i].ttl = log'[sent'[i].id].ttl - 1
      <4>1. CASE i \in 1 .. Len(sent)
        <5>1. sent[i].id \in 1 .. Len(log) /\ Ip(i)
          BY <1>2, <3>1, <4>1 DEF FromLog, Ip
        <5> QED BY <1>1, <1>2, <4>1, <5>1 DEF TtlOnce
      <4>2. CASE i = Len(sent) + 1
        BY <1>1, <1>2, <1>4, <3>1, <4>2 DEF Ip
      <4> QED BY <1>3, <4>1, <4>2
    <3> QED BY <3>1 DEF TtlOnce
  <2> QED BY <2>1, <2>2
<1>10. QueueUnresolved'
  BY DEF QueueUnresolved, Known
<1>11. FlowOrder'
  <2>1. ASSUME NEW i \in 1 .. Len(sent'), NEW j \in 1 .. Len(sent'), Ip(i)', Ip(j)', i < j,
               Hop(sent'[i].dst) = Hop(sent'[j].dst)
        PROVE  sent'[i].id < sent'[j].id
    <3>1. i \in 1 .. Len(sent)
      BY <1>2, <2>1
    <3>2. CASE j \in 1 .. Len(sent)
      BY <1>2, <2>1, <3>1, <3>2 DEF FlowOrder, Ip
    <3>3. CASE j = Len(sent) + 1
      BY <1>1, <1>2, <1>4, <3>1, <3>3 DEF FromLog
    <3> QED BY <1>3, <3>2, <3>3
  <2> QED BY <2>1 DEF FlowOrder, Hop
<1>12. QueueOrder'
  <2>1. ASSUME NEW i \in 1 .. Len(sent'), NEW j \in 1 .. Len(q), Ip(i)',
               Hop(sent'[i].dst) = Hop(q[j].dst)
        PROVE  sent'[i].id < q[j].id
    <3>1. CASE i \in 1 .. Len(sent)
      BY <1>2, <2>1, <3>1 DEF QueueOrder, Ip
    <3>2. CASE i = Len(sent) + 1
      <4>1. Known(Hop(q[j].dst))
        BY <1>2, <2>1, <3>2 DEF Ip
      <4> QED BY <4>1 DEF QueueUnresolved
    <3> QED BY <1>3, <3>1, <3>2
  <2> QED BY <2>1 DEF QueueOrder, Hop
<1> QED BY <1>5, <1>6, <1>7, <1>8, <1>9, <1>10, <1>11, <1>12

LEMMA BadChecksumOK ==
  ASSUME IInv, NEW p \in Packets, BadChecksum(p)
  PROVE  IInv'
<1> USE DEF IInv
<1>1. /\ Len(log) < MaxPackets /\ log' = Append(log, p) /\ ~p.good
      /\ UNCHANGED <<mac_table, q, sent, requests, asked, lost>>
  BY DEF BadChecksum, Received
<1>2. /\ log' \in Seq(Seen) /\ Len(log') = Len(log) + 1 /\ Len(log) \in Nat
      /\ \A i \in 1 .. Len(log) : log'[i] = log[i]
      /\ log'[Len(log) + 1] = p
  BY <1>1, LogStep
<1>3. TypeOK'
  BY <1>1, <1>2, RouterConstants DEF TypeOK
<1>4. Histories' /\ FromLog' /\ QueueUnresolved' /\ FlowOrder' /\ QueueOrder'
  <2>1. Histories'
    BY <1>1, <1>2 DEF Histories, Seen, Frames
  <2>2. FromLog'
    BY <1>1, <1>2, RouterConstants DEF FromLog, Ip, TypeOK, Routed
  <2>3. QueueUnresolved' /\ FlowOrder' /\ QueueOrder'
    BY <1>1 DEF QueueUnresolved, Known, FlowOrder, QueueOrder, Ip, Hop
  <2> QED BY <2>1, <2>2, <2>3
<1>5. InPlace'
  <2>1. ASSUME NEW id \in 1 .. Len(log') PROVE Place(id)'
    <3>1. Answers(id)' = Answers(id) /\ Waiting(id)' = Waiting(id)
      BY <1>1 DEF Answers, Waiting
    <3>2. CASE id \in 1 .. Len(log)
      BY <1>2, <3>1, <3>2 DEF InPlace, Place, One
    <3>3. CASE id = Len(log) + 1
      BY <1>1, <1>2, <3>1, <3>3, NotYet DEF Place
    <3> QED BY <1>2, <3>2, <3>3
  <2> QED BY <2>1 DEF InPlace
<1>6. WaitingTtl' /\ TtlOnce'
  <2>1. WaitingTtl'
    BY <1>1, <1>2 DEF WaitingTtl, FromLog
  <2>2. \A i \in 1 .. Len(sent) : Ip(i) => sent[i].id \in 1 .. Len(log)
    BY <1>2 DEF FromLog
  <2> QED BY <1>1, <1>2, <2>1, <2>2 DEF TtlOnce, Ip
<1> QED BY <1>3, <1>4, <1>5, <1>6

LEMMA EnqueueOK ==
  ASSUME IInv, NEW p \in Packets, Enqueue(p)
  PROVE  IInv'
<1> USE DEF IInv
<1> DEFINE n == Hop(p.dst)
           held == [p EXCEPT !.ttl = p.ttl - 1]
           f == Frame("arp_request", 0, Self, "broadcast", "self", n, 0)
<1>1. /\ Len(log) < MaxPackets /\ log' = Append(log, p) /\ p.good /\ p.ttl > 1 /\ Routed(p.dst)
      /\ ~Known(n) /\ q' = Append(q, held) /\ sent' = Append(sent, f)
      /\ asked' = [asked EXCEPT ![n] = asked[n] + 1]
      /\ UNCHANGED <<mac_table, requests, lost>>
  BY DEF Enqueue, Received, Transit, Send
<1>2. /\ p \in Seen /\ p.id = Len(log) + 1 /\ p.dst \in Dests /\ p.ttl \in 1 .. 2
      /\ p.src \in Neighbours
  BY PacketIs
<1>3. n \in Neighbours
  BY <1>1, <1>2, HopIs
<1>4. /\ log' \in Seq(Seen) /\ Len(log') = Len(log) + 1 /\ Len(log) \in Nat
      /\ \A i \in 1 .. Len(log) : log'[i] = log[i]
      /\ log'[Len(log) + 1] = p
  BY <1>1, LogStep
<1>5. /\ held.id = p.id /\ held.dst = p.dst /\ held.ttl = p.ttl - 1 /\ held \in HeldPackets
  <2>1. /\ p = [id |-> p.id, src |-> p.src, dst |-> p.dst, ttl |-> p.ttl, good |-> p.good]
    BY <1>2 DEF Seen
  <2>2. held = [id |-> p.id, src |-> p.src, dst |-> p.dst, ttl |-> p.ttl - 1, good |-> p.good]
    BY <2>1
  <2>3. p.good = TRUE
    BY <1>1, PacketIs
  <2>4. p.id \in Ids /\ p.ttl - 1 \in 1 .. 255
    BY <1>1, <1>2, <1>4, RouterConstants DEF Ids
  <2> QED BY <1>2, <2>2, <2>3, <2>4 DEF HeldPackets
<1>6. f \in Frames /\ f.id = 0 /\ f.kind = "arp_request"
  BY <1>3 DEF Frame, Frames, Kinds
<1> HIDE DEF held, f, n
<1>7. /\ sent' \in Seq(Frames) /\ Len(sent') = Len(sent) + 1 /\ Len(sent) \in Nat
      /\ \A i \in 1 .. Len(sent) : sent'[i] = sent[i]
      /\ sent'[Len(sent) + 1] = f
  BY <1>1, <1>6, Appended DEF Histories
<1>8. /\ q' \in Seq(HeldPackets) /\ Len(q') = Len(q) + 1 /\ Len(q) \in Nat
      /\ \A i \in 1 .. Len(q) : q'[i] = q[i]
      /\ q'[Len(q) + 1] = held
  BY <1>1, <1>5, Appended DEF TypeOK
<1>9. /\ \A i \in 1 .. Len(sent') : i = Len(sent) + 1 \/ i \in 1 .. Len(sent)
      /\ \A i \in 1 .. Len(q') : i = Len(q) + 1 \/ i \in 1 .. Len(q)
      /\ \A i \in 1 .. Len(sent') : Ip(i)' => i \in 1 .. Len(sent) /\ Ip(i)
  BY <1>6, <1>7, <1>8 DEF Ip
<1>10. /\ asked' \in [Neighbours -> 0 .. MaxPackets]
       /\ \A m \in Neighbours : asked'[m] <= Len(log')
       /\ asked'[n] > 0 /\ \A m \in Neighbours : asked'[m] >= asked[m]
  <2>1. asked \in [Neighbours -> 0 .. MaxPackets] /\ \A m \in Neighbours : asked[m] <= Len(log)
    BY DEF TypeOK, FromLog
  <2>2. asked[n] + 1 \in 0 .. MaxPackets
    BY <1>1, <1>3, <1>4, <2>1, RouterConstants
  <2> QED BY <1>1, <1>3, <1>4, <2>1, <2>2
<1>11. TypeOK'
  <2>1. \A i \in 1 .. Len(sent') :
          /\ sent'[i].kind \in Kinds
          /\ sent'[i].kind = "ip" =>
               /\ sent'[i].ttl \in 1 .. 255
               /\ sent'[i].dst \in Dests /\ sent'[i].dmac \in Neighbours
    BY <1>6, <1>7, <1>9 DEF TypeOK, Kinds
  <2>2. Len(log') <= MaxPackets
    BY <1>1, <1>4, RouterConstants
  <2> QED BY <1>1, <1>8, <1>10, <2>1, <2>2 DEF TypeOK
<1>12. Histories'
  BY <1>4, <1>7 DEF Histories, Seen, Frames
<1>13. FromLog'
  <2>1. \A i \in 1 .. Len(sent') : sent'[i].id \in 0 .. Len(log') /\ (Ip(i)' => sent'[i].id > 0)
    BY <1>4, <1>6, <1>7, <1>9 DEF FromLog
  <2>2. \A i \in 1 .. Len(q') : q'[i].id \in 1 .. Len(log') /\ Routed(q'[i].dst)
    BY <1>1, <1>2, <1>4, <1>5, <1>8, <1>9 DEF FromLog
  <2> QED BY <1>10, <2>1, <2>2 DEF FromLog, Routed
<1>14. InPlace'
  <2>1. ASSUME NEW id \in 1 .. Len(log') PROVE Place(id)'
    <3>1. Answers(id)' = Answers(id)
      BY <1>4, <1>6, <1>7, <1>9 DEF Answers
    <3>2. CASE id \in 1 .. Len(log)
      <4>1. Waiting(id)' = Waiting(id)
        BY <1>2, <1>4, <1>5, <1>8, <1>9, <3>2 DEF Waiting
      <4> QED BY <1>4, <3>1, <3>2, <4>1 DEF InPlace, Place, One
    <3>3. CASE id = Len(log) + 1
      <4>1. Answers(id)' = {} /\ Waiting(id) = {}
        BY <3>1, <3>3, NotYet
      <4>2. Waiting(id)' = {Len(q) + 1}
        BY <1>2, <1>4, <1>5, <1>8, <1>9, <3>3, <4>1 DEF Waiting
      <4> QED BY <1>1, <1>4, <3>3, <4>1, <4>2 DEF Place, One
    <3> QED BY <1>4, <3>2, <3>3
  <2> QED BY <2>1 DEF InPlace
<1>15. WaitingTtl' /\ TtlOnce'
  <2>1. ASSUME NEW i \in 1 .. Len(q') PROVE q'[i].ttl = log'[q'[i].id].ttl - 1
    <3>1. CASE i \in 1 .. Len(q)
      BY <1>4, <1>8, <3>1 DEF WaitingTtl, FromLog
    <3>2. CASE i = Len(q) + 1
      BY <1>2, <1>4, <1>5, <1>8, <3>2
    <3> QED BY <1>9, <3>1, <3>2
  <2>2. ASSUME NEW i \in 1 .. Len(sent'), Ip(i)' PROVE sent'[i].ttl = log'[sent'[i].id].ttl - 1
    <3>1. i \in 1 .. Len(sent) /\ sent[i].id \in 1 .. Len(log) /\ Ip(i)
      BY <1>4, <1>9, <2>2 DEF FromLog
    <3> QED BY <1>4, <1>7, <3>1 DEF TtlOnce
  <2> QED BY <2>1, <2>2 DEF WaitingTtl, TtlOnce
<1>16. QueueUnresolved'
  <2>1. \A m : Known(m)' <=> Known(m)
    BY <1>1 DEF Known
  <2>2. ASSUME NEW i \in 1 .. Len(q')
        PROVE  ~Known(Hop(q'[i].dst)) /\ (asked'[Hop(q'[i].dst)] > 0 \/ Hop(q'[i].dst) \in lost)
    <3>1. CASE i \in 1 .. Len(q)
      <4>1. q'[i] = q[i] /\ ~Known(Hop(q[i].dst))
            /\ (asked[Hop(q[i].dst)] > 0 \/ Hop(q[i].dst) \in lost)
        BY <1>8, <3>1 DEF QueueUnresolved
      <4>2. asked[Hop(q[i].dst)] > 0 => asked'[Hop(q[i].dst)] > 0
        <5>1. asked \in [Neighbours -> 0 .. MaxPackets] /\ asked' \in [Neighbours -> 0 .. MaxPackets]
          BY <1>10 DEF TypeOK
        <5>2. Hop(q[i].dst) \in Neighbours
          BY <3>1, WaitingIs
        <5> QED BY <1>10, <5>1, <5>2
      <4> QED BY <4>1, <4>2
    <3>2. CASE i = Len(q) + 1
      BY <1>1, <1>5, <1>8, <1>10, <3>2 DEF n
    <3> QED BY <1>9, <3>1, <3>2
  <2> QED BY <1>1, <2>1, <2>2 DEF QueueUnresolved, Hop
<1>17. QueueOrder' /\ FlowOrder'
  <2>1. ASSUME NEW i \in 1 .. Len(q'), NEW j \in 1 .. Len(q'), i < j
        PROVE  q'[i].id < q'[j].id
    <3>1. i \in 1 .. Len(q) /\ q[i].id \in 1 .. Len(log)
      BY <1>8, <2>1 DEF FromLog
    <3>2. CASE j \in 1 .. Len(q)
      BY <1>8, <2>1, <3>1, <3>2 DEF QueueOrder
    <3>3. CASE j = Len(q) + 1
      BY <1>2, <1>4, <1>5, <1>8, <3>1, <3>3
    <3> QED BY <1>9, <3>2, <3>3
  <2>2. ASSUME NEW i \in 1 .. Len(sent'), NEW j \in 1 .. Len(q'), Ip(i)',
               Hop(sent'[i].dst) = Hop(q'[j].dst)
        PROVE  sent'[i].id < q'[j].id
    <3>1. i \in 1 .. Len(sent) /\ Ip(i) /\ sent'[i] = sent[i] /\ sent[i].id \in 0 .. Len(log)
      BY <1>7, <1>9, <2>2 DEF FromLog
    <3>2. CASE j \in 1 .. Len(q)
      BY <1>8, <2>2, <3>1, <3>2 DEF QueueOrder
    <3>3. CASE j = Len(q) + 1
      BY <1>2, <1>4, <1>5, <1>8, <3>1, <3>3
    <3> QED BY <1>9, <3>2, <3>3
  <2>3. ASSUME NEW i \in 1 .. Len(sent'), NEW j \in 1 .. Len(sent'), Ip(i)', Ip(j)', i < j,
               Hop(sent'[i].dst) = Hop(sent'[j].dst)
        PROVE  sent'[i].id < sent'[j].id
    BY <1>7, <1>9, <2>3 DEF FlowOrder
  <2> QED BY <2>1, <2>2, <2>3 DEF QueueOrder, FlowOrder, Hop
<1> QED BY <1>11, <1>12, <1>13, <1>14, <1>15, <1>16, <1>17

LEMMA ArpRequestOK ==
  ASSUME IInv, NEW n \in Neighbours, ArpRequest(n)
  PROVE  IInv'
<1> USE DEF IInv
<1> DEFINE f == Frame("arp_reply", 0, Self, n, "self", n, 0)
<1>1. /\ requests < MaxRequests /\ requests' = requests + 1 /\ sent' = Append(sent, f)
      /\ UNCHANGED <<mac_table, q, log, asked, lost>>
  BY DEF ArpRequest, Send
<1>2. f \in Frames /\ f.id = 0 /\ f.kind = "arp_reply"
  BY DEF Frame, Frames, Kinds
<1> HIDE DEF f
<1>3. /\ sent' \in Seq(Frames) /\ Len(sent') = Len(sent) + 1 /\ Len(sent) \in Nat
      /\ \A i \in 1 .. Len(sent) : sent'[i] = sent[i]
      /\ sent'[Len(sent) + 1] = f
  BY <1>1, <1>2, Appended DEF Histories
<1>4. /\ \A i \in 1 .. Len(sent') : i = Len(sent) + 1 \/ i \in 1 .. Len(sent)
      /\ \A i \in 1 .. Len(sent') : Ip(i)' => i \in 1 .. Len(sent) /\ Ip(i)
  BY <1>2, <1>3 DEF Ip
<1>5. TypeOK'
  <2>1. \A i \in 1 .. Len(sent') :
          /\ sent'[i].kind \in Kinds
          /\ sent'[i].kind = "ip" =>
               /\ sent'[i].ttl \in 1 .. 255
               /\ sent'[i].dst \in Dests /\ sent'[i].dmac \in Neighbours
    BY <1>2, <1>3, <1>4 DEF TypeOK, Kinds
  <2>2. requests' \in 0 .. MaxRequests
    BY <1>1, RouterConstants DEF TypeOK
  <2> QED BY <1>1, <2>1, <2>2 DEF TypeOK
<1>6. Histories' /\ FromLog'
  <2>1. Len(log) \in Nat
    BY DEF Histories
  <2>2. \A i \in 1 .. Len(sent') : sent'[i].id \in 0 .. Len(log) /\ (Ip(i)' => sent'[i].id > 0)
    BY <1>2, <1>3, <1>4, <2>1 DEF FromLog
  <2> QED BY <1>1, <1>3, <2>2 DEF Histories, FromLog, Seen, Frames, Routed
<1>7. InPlace'
  <2>1. ASSUME NEW id \in 1 .. Len(log) PROVE Answers(id)' = Answers(id) /\ Waiting(id)' = Waiting(id)
    <3>1. id # 0 /\ Len(log) \in Nat
      BY DEF Histories
    <3> QED BY <1>1, <1>2, <1>3, <1>4, <3>1 DEF Answers, Waiting
  <2> QED BY <1>1, <2>1 DEF InPlace, Place, One
<1>8. WaitingTtl' /\ TtlOnce' /\ QueueUnresolved'
  <2>1. WaitingTtl' /\ QueueUnresolved'
    BY <1>1 DEF WaitingTtl, QueueUnresolved, Known, Hop
  <2>2. TtlOnce'
    BY <1>1, <1>3, <1>4 DEF TtlOnce
  <2> QED BY <2>1, <2>2
<1>9. QueueOrder' /\ FlowOrder'
  <2>1. \A i, j \in 1 .. Len(sent') :
          Ip(i)' /\ Ip(j)' /\ i < j /\ Hop(sent'[i].dst) = Hop(sent'[j].dst) => sent'[i].id < sent'[j].id
    BY <1>3, <1>4 DEF FlowOrder
  <2>2. \A i \in 1 .. Len(sent'), j \in 1 .. Len(q) :
          Ip(i)' /\ Hop(sent'[i].dst) = Hop(q[j].dst) => sent'[i].id < q[j].id
    BY <1>3, <1>4 DEF QueueOrder
  <2> QED BY <1>1, <2>1, <2>2 DEF QueueOrder, FlowOrder, Hop
<1> QED BY <1>5, <1>6, <1>7, <1>8, <1>9

LEMMA LoseOK ==
  ASSUME IInv, NEW n \in Neighbours, Lose(n)
  PROVE  IInv'
<1> USE DEF IInv
<1>1. /\ asked[n] > 0 /\ asked' = [asked EXCEPT ![n] = asked[n] - 1] /\ lost' = lost \cup {n}
      /\ UNCHANGED <<mac_table, q, sent, log, requests>>
  BY DEF Lose
<1>2. asked \in [Neighbours -> 0 .. MaxPackets] /\ MaxPackets \in Nat
      /\ \A m \in Neighbours : asked[m] <= Len(log)
  BY RouterConstants DEF TypeOK, FromLog
<1>3. Len(log) \in Nat
  BY DEF Histories
<1>4. /\ asked' \in [Neighbours -> 0 .. MaxPackets]
      /\ \A m \in Neighbours : asked'[m] <= Len(log) /\ (m # n => asked'[m] = asked[m])
  BY <1>1, <1>2, <1>3
<1>5. TypeOK' /\ Histories'
  BY <1>1, <1>4 DEF TypeOK, Histories, Seen, Frames
<1>6. FromLog'
  BY <1>1, <1>4 DEF FromLog, Ip, Routed
<1>7. InPlace' /\ WaitingTtl' /\ TtlOnce' /\ QueueOrder' /\ FlowOrder'
  <2>1. InPlace'
    BY <1>1 DEF InPlace, Place, One, Answers, Waiting
  <2>2. WaitingTtl' /\ TtlOnce'
    BY <1>1 DEF WaitingTtl, TtlOnce, Ip
  <2>3. QueueOrder' /\ FlowOrder'
    BY <1>1 DEF QueueOrder, FlowOrder, Ip, Hop
  <2> QED BY <2>1, <2>2, <2>3
<1>8. QueueUnresolved'
  <2>1. ASSUME NEW i \in 1 .. Len(q)
        PROVE  ~Known(Hop(q[i].dst)) /\ (asked'[Hop(q[i].dst)] > 0 \/ Hop(q[i].dst) \in lost')
    <3>1. Hop(q[i].dst) \in Neighbours
      BY WaitingIs
    <3>2. ~Known(Hop(q[i].dst)) /\ (asked[Hop(q[i].dst)] > 0 \/ Hop(q[i].dst) \in lost)
      BY DEF QueueUnresolved
    <3> QED BY <1>1, <1>4, <3>1, <3>2
  <2> QED BY <1>1, <2>1 DEF QueueUnresolved, Known, Hop
<1> QED BY <1>5, <1>6, <1>7, <1>8

(* reply_arp: each waiting packet becomes one frame, behind what was sent. *)
LEMMA ReplyArpOK ==
  ASSUME IInv, NEW n \in Neighbours, ReplyArp(n)
  PROVE  IInv'
<1> USE DEF IInv
<1>1. /\ asked[n] > 0 /\ asked' = [asked EXCEPT ![n] = asked[n] - 1]
      /\ mac_table' = Append(mac_table, [ip |-> n, mac |-> n])
      /\ q' = <<>> /\ sent' = sent \o Flushed(n)
      /\ UNCHANGED <<log, requests, lost>>
  BY DEF ReplyArp, Learn
<1>2. /\ asked \in [Neighbours -> 0 .. MaxPackets] /\ MaxPackets \in Nat
      /\ \A m \in Neighbours : asked[m] <= Len(log)
      /\ Len(log) \in Nat /\ Len(q) \in Nat /\ Len(sent) \in Nat /\ q \in Seq(HeldPackets)
  BY RouterConstants DEF TypeOK, FromLog, Histories
<1>3. \A i \in 1 .. Len(q) :
        /\ q[i].src \in Neighbours /\ q[i].dst \in Dests /\ q[i].ttl \in 1 .. 255
        /\ q[i].id \in 1 .. Len(log)
  BY WaitingIs
<1>4. /\ Flushed(n) \in Seq(Frames) /\ Len(Flushed(n)) = Len(q)
      /\ \A i \in 1 .. Len(q) :
           /\ Flushed(n)[i].kind = "ip" /\ Flushed(n)[i].id = q[i].id
           /\ Flushed(n)[i].dst = q[i].dst /\ Flushed(n)[i].ttl = q[i].ttl
           /\ Flushed(n)[i].dmac = n
  <2> DEFINE g(i) == Frame("ip", q[i].id, Self, n, q[i].src, q[i].dst, q[i].ttl)
  <2>1. \A i \in 1 .. Len(q) : g(i) \in Frames
    BY <1>2, <1>3 DEF Frame, Frames, Kinds
  <2>2. Flushed(n) = [i \in 1 .. Len(q) |-> g(i)]
    BY DEF Flushed
  <2>3. \A i \in 1 .. Len(q) :
          g(i).kind = "ip" /\ g(i).id = q[i].id /\ g(i).dst = q[i].dst /\ g(i).ttl = q[i].ttl
          /\ g(i).dmac = n
    BY DEF Frame
  <2> HIDE DEF g
  <2> QED BY <1>2, <2>1, <2>2, <2>3
<1>5. /\ sent' \in Seq(Frames) /\ Len(sent') = Len(sent) + Len(q)
      /\ \A i \in 1 .. Len(sent) : sent'[i] = sent[i]
      /\ \A i \in 1 .. Len(q) : sent'[Len(sent) + i] = Flushed(n)[i]
  <2> DEFINE fl == Flushed(n)
  <2>1. fl \in Seq(Frames) /\ sent \in Seq(Frames) /\ Len(fl) = Len(q) /\ sent' = sent \o fl
    BY <1>1, <1>4 DEF Histories
  <2> HIDE DEF fl
  <2>2. /\ sent \o fl \in Seq(Frames) /\ Len(sent \o fl) = Len(sent) + Len(fl)
        /\ \A i \in 1 .. Len(sent) : (sent \o fl)[i] = sent[i]
        /\ \A i \in 1 .. Len(fl) : (sent \o fl)[Len(sent) + i] = fl[i]
    <3>1. /\ sent \o fl \in Seq(Frames) /\ Len(sent \o fl) = Len(sent) + Len(fl)
          /\ \A i \in 1 .. Len(sent) + Len(fl) :
               (sent \o fl)[i] = IF i <= Len(sent) THEN sent[i] ELSE fl[i - Len(sent)]
      BY <2>1, ConcatProperties
    <3>2. Len(sent) \in Nat /\ Len(fl) \in Nat
      BY <1>2, <2>1
    <3> QED BY <3>1, <3>2
  <2> QED BY <2>1, <2>2 DEF fl
<1>6. \A i \in 1 .. Len(sent') :
        \/ i \in 1 .. Len(sent)
        \/ i - Len(sent) \in 1 .. Len(q) /\ i = Len(sent) + (i - Len(sent)) /\ i > Len(sent)
  BY <1>2, <1>5
<1>7. ASSUME NEW i \in 1 .. Len(sent'), NEW k \in 1 .. Len(q), i = Len(sent) + k
      PROVE  /\ sent'[i].kind = "ip" /\ sent'[i].id = q[k].id /\ sent'[i].dst = q[k].dst
             /\ sent'[i].ttl = q[k].ttl /\ sent'[i].dmac = n
  BY <1>4, <1>5, <1>7
<1> HIDE DEF IInv
<1>8. TypeOK'
  <2>1. ASSUME NEW i \in 1 .. Len(sent')
        PROVE  /\ sent'[i].kind \in Kinds
               /\ sent'[i].kind = "ip" =>
                    /\ sent'[i].ttl \in 1 .. 255
                    /\ sent'[i].dst \in Dests /\ sent'[i].dmac \in Neighbours
    <3>1. CASE i \in 1 .. Len(sent)
      BY <1>5, <3>1 DEF IInv, TypeOK
    <3>2. CASE i - Len(sent) \in 1 .. Len(q) /\ i = Len(sent) + (i - Len(sent))
      BY <1>3, <1>7, <3>2 DEF Kinds
    <3> QED BY <1>6, <3>1, <3>2
  <2>2. mac_table' \in Seq([ip : Neighbours, mac : Neighbours])
    BY <1>1, Appended DEF IInv, TypeOK
  <2>3. asked' \in [Neighbours -> 0 .. MaxPackets]
    BY <1>1, <1>2
  <2>4. q' \in Seq(HeldPackets) /\ Len(log) <= MaxPackets /\ requests \in 0 .. MaxRequests
        /\ lost \subseteq Neighbours
    BY <1>1 DEF IInv, TypeOK
  <2> QED BY <1>1, <2>1, <2>2, <2>3, <2>4 DEF TypeOK
<1>9. Histories' /\ FromLog'
  <2>1. Histories'
    BY <1>1, <1>5 DEF IInv, Histories, Seen, Frames
  <2>2. ASSUME NEW i \in 1 .. Len(sent')
        PROVE  sent'[i].id \in 0 .. Len(log) /\ (Ip(i)' => sent'[i].id > 0)
    <3>1. CASE i \in 1 .. Len(sent)
      BY <1>5, <3>1 DEF IInv, FromLog, Ip
    <3>2. CASE i - Len(sent) \in 1 .. Len(q) /\ i = Len(sent) + (i - Len(sent))
      <4> DEFINE k == i - Len(sent)
      <4>1. k \in 1 .. Len(q) /\ sent'[i].id = q[k].id
        BY <1>7, <3>2
      <4>2. q[k].id \in 1 .. Len(log)
        BY <1>3, <4>1
      <4> QED BY <1>2, <4>1, <4>2
    <3> QED BY <1>6, <3>1, <3>2
  <2>3. \A m \in Neighbours : asked'[m] <= Len(log)
    BY <1>1, <1>2
  <2> QED BY <1>1, <2>1, <2>2, <2>3 DEF FromLog
<1>10. InPlace'
  <2>1. ASSUME NEW id \in 1 .. Len(log) PROVE Place(id)'
    <3>0. Waiting(id)' = {} /\ log'[id] = log[id] /\ Place(id)
      BY <1>1 DEF Waiting, IInv, InPlace
    <3>1. Answers(id)' = Answers(id) \cup {Len(sent) + k : k \in Waiting(id)}
      <4>1. ASSUME NEW i \in Answers(id)' PROVE i \in Answers(id) \cup {Len(sent) + k : k \in Waiting(id)}
        <5>1. i \in 1 .. Len(sent') /\ sent'[i].id = id
          BY DEF Answers
        <5>2. CASE i \in 1 .. Len(sent)
          BY <1>5, <5>1, <5>2 DEF Answers
        <5>3. CASE i - Len(sent) \in 1 .. Len(q) /\ i = Len(sent) + (i - Len(sent))
          <6>1. i - Len(sent) \in Waiting(id)
            BY <1>7, <5>1, <5>3 DEF Waiting
          <6> QED BY <5>3, <6>1
        <5> QED BY <1>6, <5>1, <5>2, <5>3
      <4>2. ASSUME NEW i \in Answers(id) PROVE i \in Answers(id)'
        BY <1>2, <1>5 DEF Answers
      <4>3. ASSUME NEW k \in Waiting(id) PROVE Len(sent) + k \in Answers(id)'
        <5>1. k \in 1 .. Len(q) /\ Len(sent) + k \in 1 .. Len(sent') /\ q[k].id = id
          BY <1>2, <1>5 DEF Waiting
        <5> QED BY <1>7, <5>1 DEF Answers
      <4> QED BY <4>1, <4>2, <4>3
    <3>2. CASE log[id].good /\ One(Answers(id)) /\ Waiting(id) = {}
      <4>1. Answers(id)' = Answers(id)
        BY <3>1, <3>2
      <4> QED BY <3>0, <3>2, <4>1 DEF Place, One
    <3>3. CASE log[id].good /\ Answers(id) = {} /\ One(Waiting(id))
      <4>1. PICK k : Waiting(id) = {k}
        BY <3>3 DEF One
      <4>2. Answers(id)' = {Len(sent) + k}
        BY <3>1, <3>3, <4>1
      <4> QED BY <3>0, <3>3, <4>2 DEF Place, One
    <3>4. CASE ~log[id].good /\ Answers(id) = {} /\ Waiting(id) = {}
      <4>1. Answers(id)' = {}
        BY <3>1, <3>4
      <4> QED BY <3>0, <3>4, <4>1 DEF Place
    <3> QED BY <3>0, <3>2, <3>3, <3>4 DEF Place
  <2> QED BY <1>1, <2>1 DEF InPlace
<1>11. WaitingTtl' /\ QueueUnresolved' /\ QueueOrder'
  BY <1>1 DEF WaitingTtl, QueueUnresolved, QueueOrder
<1>12. TtlOnce'
  <2>1. ASSUME NEW i \in 1 .. Len(sent'), Ip(i)' PROVE sent'[i].ttl = log[sent'[i].id].ttl - 1
    <3>1. CASE i \in 1 .. Len(sent)
      BY <1>5, <2>1, <3>1 DEF IInv, TtlOnce, Ip
    <3>2. CASE i - Len(sent) \in 1 .. Len(q) /\ i = Len(sent) + (i - Len(sent))
      BY <1>7, <3>2 DEF IInv, WaitingTtl
    <3> QED BY <1>6, <3>1, <3>2
  <2> QED BY <1>1, <2>1 DEF TtlOnce
<1>13. FlowOrder'
  <2>1. ASSUME NEW i \in 1 .. Len(sent'), NEW j \in 1 .. Len(sent'), Ip(i)', Ip(j)', i < j,
               Hop(sent'[i].dst) = Hop(sent'[j].dst)
        PROVE  sent'[i].id < sent'[j].id
    <3>1. CASE j \in 1 .. Len(sent)
      <4>1. i \in 1 .. Len(sent)
        BY <1>2, <2>1, <3>1
      <4> QED BY <1>5, <2>1, <3>1, <4>1 DEF IInv, FlowOrder, Ip
    <3>2. CASE j - Len(sent) \in 1 .. Len(q) /\ j = Len(sent) + (j - Len(sent))
      <4> DEFINE b == j - Len(sent)
                 a == i - Len(sent)
      <4>1. b \in 1 .. Len(q) /\ sent'[j].id = q[b].id /\ sent'[j].dst = q[b].dst
        BY <1>7, <3>2
      <4>2. CASE i \in 1 .. Len(sent)
        BY <1>5, <2>1, <4>1, <4>2 DEF IInv, QueueOrder, Ip
      <4>3. CASE a \in 1 .. Len(q) /\ i = Len(sent) + a
        <5>1. sent'[i].id = q[a].id
          BY <1>7, <4>3
        <5>2. a < b
          BY <1>2, <2>1, <4>1, <4>3
        <5> QED BY <4>1, <4>3, <5>1, <5>2 DEF IInv, QueueOrder
      <4> QED BY <1>6, <4>2, <4>3
    <3> QED BY <1>6, <3>1, <3>2
  <2> QED BY <2>1 DEF FlowOrder, Hop
<1> QED BY <1>8, <1>9, <1>10, <1>11, <1>12, <1>13 DEF IInv

LEMMA IpInOK ==
  ASSUME IInv, NEW p \in Packets, IpIn(p)
  PROVE  IInv'
<1>0. p.id = Len(log) + 1 /\ p.id \in Nat /\ p.src \in Neighbours /\ p.dst \in Dests /\ p.ttl \in 1 .. 2
  BY PacketIs DEF IInv, Histories
<1>1. ASSUME NEW kind \in {"unreachable", "expired"}, p.good, IcmpErr(p, kind)
      PROVE  IInv'
  <2> DEFINE f == Frame(kind, p.id, Self, Self, p.src, p.dst, 255)
  <2>1. f \in Frames /\ f.id = p.id /\ f.kind # "ip"
    BY <1>0 DEF Frame, Frames, Kinds
  <2>2. /\ Len(log) < MaxPackets /\ log' = Append(log, p) /\ sent' = Append(sent, f)
        /\ UNCHANGED <<mac_table, q, requests, asked, lost>>
    BY <1>1 DEF IcmpErr, Received, Send
  <2> HIDE DEF f
  <2> QED BY <1>1, <2>1, <2>2, AnswerOK
<1>2. CASE EchoReply(p)
  <2> DEFINE f == Frame("echo", p.id, Self, Self, p.src, p.dst, p.ttl)
  <2>1. f \in Frames /\ f.id = p.id /\ f.kind # "ip"
    BY <1>0 DEF Frame, Frames, Kinds
  <2>2. /\ Len(log) < MaxPackets /\ log' = Append(log, p) /\ sent' = Append(sent, f) /\ p.good
        /\ UNCHANGED <<mac_table, q, requests, asked, lost>>
    BY <1>2 DEF EchoReply, Received, Send
  <2> HIDE DEF f
  <2> QED BY <2>1, <2>2, AnswerOK
<1>3. CASE Forward(p)
  <2> DEFINE f == Frame("ip", p.id, Self, ArpEntry(Hop(p.dst)), p.src, p.dst, p.ttl - 1)
  <2>1. /\ Len(log) < MaxPackets /\ log' = Append(log, p) /\ sent' = Append(sent, f) /\ p.good
        /\ UNCHANGED <<mac_table, q, requests, asked, lost>> /\ p.ttl > 1 /\ Known(Hop(p.dst))
    BY <1>3 DEF Forward, Received, Transit, Send
  <2>2. ArpEntry(Hop(p.dst)) \in Neighbours
    BY <2>1, EntryIs DEF IInv, TypeOK
  <2>3. f \in Frames /\ f.id = p.id /\ f.ttl = p.ttl - 1 /\ f.dst = p.dst /\ f.dmac \in Neighbours
    BY <1>0, <2>2 DEF Frame, Frames, Kinds
  <2> HIDE DEF f
  <2> QED BY <2>1, <2>3, AnswerOK
<1> QED BY <1>1, <1>2, <1>3, BadChecksumOK, EnqueueOK DEF IpIn, Unreachable, Expired

LEMMA StepOK == IInv /\ [Next]_vars => IInv'
<1> SUFFICES ASSUME IInv, [Next]_vars PROVE IInv'
  OBVIOUS
<1>1. CASE UNCHANGED vars
  <2>1. UNCHANGED <<mac_table, q, sent, log, requests, asked, lost>>
    BY <1>1 DEF vars
  <2>2. TypeOK' /\ Histories' /\ FromLog'
    BY <2>1 DEF IInv, TypeOK, Histories, Seen, Frames, FromLog, Ip, Routed
  <2>3. InPlace'
    BY <2>1 DEF IInv, InPlace, Place, One, Answers, Waiting
  <2>4. WaitingTtl' /\ QueueOrder' /\ TtlOnce'
    BY <2>1 DEF IInv, WaitingTtl, QueueOrder, TtlOnce, Ip, Hop
  <2>5. QueueUnresolved' /\ FlowOrder'
    BY <2>1 DEF IInv, QueueUnresolved, FlowOrder, Known, Ip, Hop
  <2> QED BY <2>2, <2>3, <2>4, <2>5 DEF IInv
<1> QED BY <1>1, ArpRequestOK, ReplyArpOK, LoseOK, IpInOK DEF Next

(* The invariant holds.                                                    *)
THEOREM InvariantHolds == Spec => []IInv
<1> QED BY InitOK, StepOK, PTL DEF Spec

(* Types: in particular every frame sent for a packet carries a TTL above  *)
(* zero, and goes to a neighbour.                                          *)
THEOREM TypesHold == Spec => []TypeOK
<1>1. IInv => TypeOK
  BY DEF IInv
<1> QED BY <1>1, InvariantHolds, PTL

(* The queue behind no_next_hop and reply_arp: every good packet is waiting *)
(* once or was sent once, with its TTL one lower, and none is left behind  *)
(* by a reply.                                                             *)
THEOREM NoPacketLost == Spec => []PacketsKept
<1>1. ASSUME IInv, NEW id \in 1 .. Len(log)
      PROVE  Cardinality(Answers(id)) + Cardinality(Waiting(id)) = IF log[id].good THEN 1 ELSE 0
  <2>1. IsFiniteSet(Answers(id)) /\ IsFiniteSet(Waiting(id))
    <3>1. Len(sent) \in Nat /\ Len(q) \in Nat
      BY <1>1 DEF IInv, Histories, TypeOK
    <3>2. IsFiniteSet(1 .. Len(sent)) /\ IsFiniteSet(1 .. Len(q))
      BY <3>1, FS_Interval
    <3>3. Answers(id) \subseteq 1 .. Len(sent) /\ Waiting(id) \subseteq 1 .. Len(q)
      BY DEF Answers, Waiting
    <3> QED BY <3>2, <3>3, FS_Subset
  <2>2. Place(id)
    BY <1>1 DEF IInv, InPlace
  <2>3. Cardinality(Answers(id)) \in Nat /\ Cardinality(Waiting(id)) \in Nat
    BY <2>1, FS_CardinalityType
  <2>4. /\ One(Answers(id)) /\ Waiting(id) = {} =>
             Cardinality(Answers(id)) + Cardinality(Waiting(id)) = 1
        /\ One(Waiting(id)) /\ Answers(id) = {} =>
             Cardinality(Waiting(id)) + Cardinality(Answers(id)) = 1
        /\ Answers(id) = {} /\ Waiting(id) = {} =>
             Cardinality(Answers(id)) + Cardinality(Waiting(id)) = 0
    BY <2>1, OneOrNone
  <2> QED BY <2>2, <2>3, <2>4 DEF Place
<1>2. IInv => PacketsKept
  BY <1>1 DEF PacketsKept, Conserved, IInv
<1> QED BY <1>2, InvariantHolds, PTL

(* Packets for one next hop are never reordered by the queue.              *)
THEOREM FlowKeepsOrder == Spec => []FlowOrder
<1>1. IInv => FlowOrder
  BY DEF IInv
<1> QED BY <1>1, InvariantHolds, PTL
=============================================================================
