------------------------------- MODULE Router -------------------------------
(***************************************************************************)
(* The router of Anul II/Semestrul II/PCOM/Tema 1/router.c.  Its loop takes *)
(* one frame at a time from any link: it answers ARP requests, forwards    *)
(* IP packets, answers the ones it cannot forward, and keeps in one queue  *)
(* the packets whose next hop it has to ask for with ARP.                  *)
(*                                                                         *)
(* The network around it is external: neighbours send packets and ARP      *)
(* requests in any order, and answer the router's ARP requests after any   *)
(* delay, or never.  A host's name stands for its IP and its MAC address;  *)
(* RouteLookup models how get_best_route finds a route, here a function.   *)
(***************************************************************************)
EXTENDS Integers, Sequences, FiniteSets

CONSTANTS
  Hosts,        \* reachable addresses
  NextHop,      \* [Hosts -> Hosts]: the next hop of the best route
  Nowhere,      \* an address without a route
  Self,         \* MAC of the router's interfaces
  MaxPackets,   \* bound on the IP packets that arrive
  MaxRequests   \* bound on the ARP requests that arrive

Neighbours == {NextHop[h] : h \in Hosts}
Own == {<<"own", n>> : n \in Neighbours} \* the address of the interface to n
Dests == Hosts \cup {Nowhere} \cup Own

ASSUME RouterConstants ==
  /\ NextHop \in [Hosts -> Hosts]
  /\ Nowhere \notin Hosts /\ Self \notin Hosts
  /\ MaxPackets \in Nat /\ MaxRequests \in Nat

VARIABLES
  mac_table,  \* the ARP table: [ip, mac] in order of arrival
  q,          \* the packets that wait for a MAC address
  sent,       \* frames sent, in order
  log,        \* history: IP packets received, in order
  requests,   \* history: ARP requests received
  asked,      \* asked[n]: the router's requests for n not yet answered
  lost        \* history: the neighbours a request to, or a reply from, was lost

vars == <<mac_table, q, sent, log, requests, asked, lost>>

Init ==
  /\ mac_table = <<>> /\ q = <<>> /\ sent = <<>> /\ log = <<>>
  /\ requests = 0 /\ lost = {}
  /\ asked = [n \in Neighbours |-> 0]

(* get_best_route, for an address that has a route: its next hop.  The     *)
(* network of an interface is routed to the neighbour on it.               *)
Routed(d) == d # Nowhere
Hop(d) == IF d \in Hosts THEN NextHop[d] ELSE d[2]

(* get_arp_entry: the first entry for ip.                                  *)
Known(ip) == \E i \in 1 .. Len(mac_table) : mac_table[i].ip = ip
ArpEntry(ip) ==
  mac_table[CHOOSE i \in 1 .. Len(mac_table) :
    mac_table[i].ip = ip /\ \A j \in 1 .. i - 1 : mac_table[j].ip # ip].mac

Frame(kind, id, smac, dmac, src, dst, ttl) ==
  [kind |-> kind, id |-> id, smac |-> smac, dmac |-> dmac, src |-> src, dst |-> dst, ttl |-> ttl]

Send(f) == sent' = Append(sent, f)
---------------------------------------------------------------------------
(* IP.  A packet p comes from the neighbour p.src, over its link, in a     *)
(* frame for Self; p.id is its place in log.                               *)

Received(p) ==
  /\ Len(log) < MaxPackets
  /\ log' = Append(log, p)
  /\ UNCHANGED <<requests, lost>>

BadChecksum(p) ==
  /\ Received(p) /\ ~p.good
  /\ UNCHANGED <<mac_table, q, sent, asked>>

(* icmp_err: shost becomes the interface's MAC; dhost and the addresses of *)
(* the IP header stay what they were.                                      *)
IcmpErr(p, kind) ==
  /\ Received(p)
  /\ Send(Frame(kind, p.id, Self, Self, p.src, p.dst, 255))
  /\ UNCHANGED <<mac_table, q, asked>>

Unreachable(p) == p.good /\ ~Routed(p.dst) /\ IcmpErr(p, "unreachable")
Expired(p) == p.good /\ Routed(p.dst) /\ p.ttl <= 1 /\ IcmpErr(p, "expired")

(* echo_reply: shost is overwritten before it is swapped with dhost.       *)
EchoReply(p) ==
  /\ Received(p) /\ p.good /\ Routed(p.dst) /\ p.ttl > 1
  /\ p.dst = <<"own", p.src>>
  /\ Send(Frame("echo", p.id, Self, Self, p.src, p.dst, p.ttl))
  /\ UNCHANGED <<mac_table, q, asked>>

Transit(p) ==
  p.good /\ Routed(p.dst) /\ p.ttl > 1 /\ p.dst # <<"own", p.src>>

Forward(p) ==
  /\ Received(p) /\ Transit(p)
  /\ Known(Hop(p.dst))
  /\ Send(Frame("ip", p.id, Self, ArpEntry(Hop(p.dst)), p.src, p.dst, p.ttl - 1))
  /\ UNCHANGED <<mac_table, q, asked>>

(* The packet waits in the queue, its TTL decremented, and no_next_hop     *)
(* broadcasts an ARP request.                                              *)
Enqueue(p) ==
  /\ Received(p) /\ Transit(p)
  /\ ~Known(Hop(p.dst))
  /\ q' = Append(q, [p EXCEPT !.ttl = @ - 1])
  /\ Send(Frame("arp_request", 0, Self, "broadcast", "self", Hop(p.dst), 0))
  /\ asked' = [asked EXCEPT ![Hop(p.dst)] = @ + 1]
  /\ UNCHANGED mac_table

IpIn(p) ==
  BadChecksum(p) \/ Unreachable(p) \/ Expired(p) \/ EchoReply(p) \/ Forward(p) \/ Enqueue(p)
---------------------------------------------------------------------------
(* ARP.  Every request is answered, whatever address it asks for.          *)
ArpRequest(n) ==
  /\ requests < MaxRequests
  /\ requests' = requests + 1
  /\ Send(Frame("arp_reply", 0, Self, n, "self", n, 0))
  /\ UNCHANGED <<mac_table, q, log, asked, lost>>

(* The frames of the whole queue, for the MAC address in the reply.        *)
Flushed(n) ==
  [i \in 1 .. Len(q) |-> Frame("ip", q[i].id, Self, n, q[i].src, q[i].dst, q[i].ttl)]

Learn(n) ==
  /\ asked[n] > 0
  /\ asked' = [asked EXCEPT ![n] = @ - 1]
  /\ mac_table' = Append(mac_table, [ip |-> n, mac |-> n])
  /\ UNCHANGED <<log, requests, lost>>

(* Mutants: the first packet only; the queue is not emptied; not sent; the *)
(* TTL is decremented again.                                               *)
ReplyArpOne(n) ==
  /\ Learn(n)
  /\ q' = IF q = <<>> THEN q ELSE Tail(q)
  /\ sent' = sent \o SubSeq(Flushed(n), 1, 1)
ReplyArpKeeps(n) ==
  /\ Learn(n)
  /\ sent' = sent \o Flushed(n)
  /\ UNCHANGED q
ReplyArpSilent(n) ==
  /\ Learn(n)
  /\ UNCHANGED <<q, sent>>

(* reply_arp: the neighbour is added to the table, then everything in the  *)
(* queue is sent to it.  Every packet there has a route.                   *)
ReplyArp(n) ==
  /\ Learn(n)
  /\ q' = <<>>
  /\ sent' = sent \o Flushed(n)

(* A request of the router's, or the reply, does not arrive.               *)
Lose(n) ==
  /\ asked[n] > 0
  /\ asked' = [asked EXCEPT ![n] = @ - 1]
  /\ lost' = lost \cup {n}
  /\ UNCHANGED <<mac_table, q, sent, log, requests>>
---------------------------------------------------------------------------
(* What may arrive.  Nothing else of a packet with a bad checksum is read, *)
(* so its other fields are not varied.                                     *)
Packets ==
  [id : {Len(log) + 1}, src : Neighbours, dst : Dests, ttl : 1 .. 2, good : {TRUE}] \cup
  [id : {Len(log) + 1}, src : Neighbours, dst : {Nowhere}, ttl : {1}, good : {FALSE}]

Next ==
  \/ \E n \in Neighbours : ArpRequest(n) \/ ReplyArp(n) \/ Lose(n)
  \/ \E p \in Packets : IpIn(p)

Spec == Init /\ [][Next]_vars

(* Neighbours answer the router's requests that are not lost.              *)
FairSpec == Spec /\ \A n \in Neighbours : WF_vars(ReplyArp(n))
---------------------------------------------------------------------------
Ids == 1 .. MaxPackets
Kinds == {"unreachable", "expired", "echo", "ip", "arp_request", "arp_reply"}
HeldPackets == [id : Ids, src : Neighbours, dst : Dests, ttl : 1 .. 255, good : {TRUE}]

TypeOK ==
  /\ mac_table \in Seq([ip : Neighbours, mac : Neighbours])
  /\ q \in Seq(HeldPackets)
  /\ \A i \in 1 .. Len(sent) :
       /\ sent[i].kind \in Kinds
       /\ sent[i].kind = "ip" =>
            /\ sent[i].ttl \in 1 .. 255
            /\ sent[i].dst \in Dests /\ sent[i].dmac \in Neighbours
  /\ Len(log) <= MaxPackets /\ requests \in 0 .. MaxRequests
  /\ asked \in [Neighbours -> 0 .. MaxPackets] /\ lost \subseteq Neighbours

Ip(i) == sent[i].kind = "ip"
Answers(id) == {i \in 1 .. Len(sent) : sent[i].id = id}
Waiting(id) == {i \in 1 .. Len(q) : q[i].id = id}

(* Every packet with a good checksum is in one place: it waits once in the *)
(* queue, or one frame was sent for it.                                    *)
Conserved ==
  \A id \in 1 .. Len(log) :
    Cardinality(Answers(id)) + Cardinality(Waiting(id)) = IF log[id].good THEN 1 ELSE 0

(* Packets for one next hop leave in the order they came, whether they     *)
(* waited for its MAC address or not.                                      *)
FlowOrder ==
  \A i, j \in 1 .. Len(sent) :
    Ip(i) /\ Ip(j) /\ i < j /\ Hop(sent[i].dst) = Hop(sent[j].dst) => sent[i].id < sent[j].id

(* A packet leaves with one less in its TTL than it came with, also when   *)
(* it waited.                                                              *)
TtlOnce == \A i \in 1 .. Len(sent) : Ip(i) => sent[i].ttl = log[sent[i].id].ttl - 1

(* A packet waits only while its next hop is unknown and a request for it  *)
(* is on its way or was lost: no packet is left behind by a reply.         *)
QueueUnresolved ==
  \A i \in 1 .. Len(q) :
    LET n == Hop(q[i].dst) IN ~Known(n) /\ (asked[n] > 0 \/ n \in lost)

(* No packet is lost, sent twice, counted down twice or left behind.       *)
PacketsKept == Conserved /\ TtlOnce /\ QueueUnresolved

(* The queue is emptied (into frames: Conserved) unless messages are lost: *)
(* nothing asks again for a next hop whose reply does not come.            *)
QueuedLeaves == q # <<>> ~> q = <<>> \/ lost # {}
---------------------------------------------------------------------------
(* What the README says and the code does not do.                          *)

(* On an ARP reply the router "sends any packet in the queue that          *)
(* corresponds to that IP address": to its own next hop.                   *)
RightHop == \A i \in 1 .. Len(sent) : Ip(i) => sent[i].dmac = Hop(sent[i].dst)

(* ICMP errors "are sent back to the source".                              *)
ErrorsReturn ==
  \A i \in 1 .. Len(sent) :
    sent[i].kind \in {"unreachable", "expired"} =>
      sent[i].dst = log[sent[i].id].src

(* An echo reply "inverts the source and destination MAC addresses".       *)
EchoReturns == \A i \in 1 .. Len(sent) : sent[i].kind = "echo" => sent[i].dmac = log[sent[i].id].src
=============================================================================
