-------------------------------- MODULE XinuNet --------------------------------
(***************************************************************************)
(* Packets in network buffers (net/net.c, udp.c, ip.c, and the echo of     *)
(* icmp.c): netin takes a buffer, reads a packet into it and passes it on; *)
(* a packet waits in the queue of a UDP endpoint for udp_recv, or, when it *)
(* is the reply to an echo request, in the IP output queue for ipout.      *)
(* Calls run with interrupts off and are apart only where a process waits: *)
(* for a buffer, for a packet, in recvtime, or while a packet is sent.     *)
(* The fields of the record net:                                           *)
(*   bufs     the semaphore of the pool of network buffers                 *)
(*   udptab   of each endpoint its state, what it is registered for, the   *)
(*            process that waits, its packets, and who registered it       *)
(*   ipoqueue, iqsem   the IP output queue: iqhead, iqtail, and whether    *)
(*            each entry of iqbuf is of a packet ipout has not taken; and    *)
(*            its semaphore                                                  *)
(*   at, slot what each process does next, with which endpoint             *)
(*   mail     whether the process has a message                            *)
(* Bounds: ShareSlots and FillIpq; processes are not killed in a call, nor *)
(* sent other messages; a process sends one packet at a time from its      *)
(* endpoint; where a step signals twice (the answer to an echo: ip_enqueue *)
(* and freebuf), the CPU changes hands after the second.  FillIpq: ip.c:453*)
(* asks the semaphore whether the array is full, which no longer counts    *)
(* the packet of an ipout that was let through and has yet to run; the one *)
(* more that is then stored (FillIpq) is stored over a packet nobody took, *)
(* and BuffersAccounted does not hold.  ARP is in XinuArp, the ring that   *)
(* write waits for in XinuEth.                                             *)
(* A definition named for a slip is the mutant of the one after it.        *)
(***************************************************************************)
EXTENDS XinuSemUse, FiniteSets, FiniteSetsExt

CONSTANTS NetUsers,    \* process IDs of the processes that use UDP
          UDP_SLOTS, UDP_QSIZ, IP_OQSIZ,
          NetBufs,     \* buffers of the pool
          Remotes,     \* the remote addresses of packets; an endpoint has one, or any
          ShareSlots,  \* bound: whether others than the process that registered an
                       \* endpoint may receive from it and release it
          FillIpq      \* bound: whether a packet is stored in an entry of the IP output
                       \* queue that ipout, let through for it, has not read yet

ASSUME NetAssumption ==
  /\ NetUsers \subseteq Nat \ {0, 1} /\ IsFiniteSet(NetUsers) /\ NetBufs \in Nat /\ {ShareSlots, FillIpq} \subseteq BOOLEAN
  /\ {UDP_SLOTS, UDP_QSIZ, IP_OQSIZ} \subseteq Nat \ {0}

Ipout == 0
Netin == 1
NetProcs == NetUsers \cup {Ipout, Netin}
AnyRemote == "any"
IpqEntries == 0 .. IP_OQSIZ - 1
UdpSlots == 0 .. UDP_SLOTS - 1
FreeEndpoint == [udstate |-> "UDP_FREE", udrem |-> AnyRemote, udpid |-> -1, udqueue |-> << >>, user |-> -1]

VARIABLE net

(* net_init; ipout and netin have not run yet.                             *)
NetInit ==
  net = [bufs |-> semcreate(NetBufs), udptab |-> [s \in UdpSlots |-> FreeEndpoint],
         ipoqueue |-> [iqbuf |-> [i \in IpqEntries |-> FALSE], iqhead |-> 0, iqtail |-> 0],
         iqsem |-> semcreate(0),
         at |-> [p \in NetProcs |-> "idle"], slot |-> [p \in NetUsers |-> 0],
         mail |-> [p \in NetUsers |-> FALSE]]

(* Where a process goes on that wait lets through.                         *)
let_on(point) ==
  CASE point = "wait_buf"    -> "hold"
    [] point = "wait_reply"  -> "reply"
    [] point = "wait_packet" -> "send"

let_on_all(at, S) == [p \in NetProcs |-> IF p \in S THEN let_on(at[p]) ELSE at[p]]

(* getbuf: the process goes on at the point then, or waits.                *)
getbuf_in(n, p, waits, then) ==
  [n EXCEPT !.bufs = waited(@, p), !.at[p] = IF blocks(n.bufs) THEN waits ELSE then]

freebuf_in(n) ==
  [n EXCEPT !.bufs = signalled(@), !.at = let_on_all(@, woken(n.bufs))]

(* freebuf of k buffers, while resched is deferred.                        *)
freebufs_in(n, k) ==
  [n EXCEPT !.bufs = signalledn(@, k), !.at = let_on_all(@, wokenn(n.bufs, k))]

idles(n, p) == [n EXCEPT !.at[p] = "idle"]
-----------------------------------------------------------------------------
(* udp_in finds the first endpoint that is registered for the packet and   *)
(* has room.                                                               *)
takes(e, pkt) ==
  /\ e.udstate # "UDP_FREE" /\ e.udrem \in {AnyRemote, pkt}
  /\ Len(e.udqueue) < UDP_QSIZ

(* A process that waits is sent a message, and is ready if its time is not *)
(* up already.                                                             *)
tells(n, s, p, pkt) ==
  [n EXCEPT !.udptab[s].udqueue = Append(@, pkt), !.udptab[s].udstate = "UDP_USED",
            !.mail[p] = TRUE, !.at[p] = IF @ = "wait_recv" THEN "ready" ELSE @]

(* udp_in: without an endpoint the packet is discarded.                    *)
udp_in(n, pkt) ==
  LET taking == {s \in UdpSlots : takes(n.udptab[s], pkt)}
      s == Min(taking)
  IN  IF taking = {} THEN freebuf_in(n)
      ELSE IF n.udptab[s].udstate = "UDP_RECV" THEN tells(n, s, n.udptab[s].udpid, pkt)
      ELSE [n EXCEPT !.udptab[s].udqueue = Append(@, pkt)]

next_entry(i) == IF i + 1 >= IP_OQSIZ THEN 0 ELSE i + 1

put_at_tail(q) == [q EXCEPT !.iqbuf[q.iqtail] = TRUE, !.iqtail = next_entry(@)]
taken_at_head(q) == [q EXCEPT !.iqbuf[q.iqhead] = FALSE, !.iqhead = next_entry(@)]

stored(n) ==
  [n EXCEPT !.ipoqueue = put_at_tail(@), !.iqsem = signalled(@),
            !.at = let_on_all(@, woken(n.iqsem))]

ip_enqueue_overflow_kept(n) == IF n.iqsem.scount >= IP_OQSIZ THEN n ELSE stored(n)

(* ip_enqueue: a packet is discarded when the semaphore counts as many as  *)
(* the array has entries, and else stored at the tail, whatever is there.  *)
ip_enqueue(n) == IF n.iqsem.scount >= IP_OQSIZ THEN freebuf_in(n) ELSE stored(n)

-----------------------------------------------------------------------------
netin_getbuf ==
  /\ net.at[Netin] = "idle"
  /\ net' = getbuf_in(net, Netin, "wait_buf", "hold")

(* A packet that nobody takes, or that ARP is done with.                   *)
netin_other ==
  /\ net.at[Netin] = "hold"
  /\ net' = freebuf_in(idles(net, Netin))

netin_udp(pkt) ==
  /\ net.at[Netin] = "hold"
  /\ net' = udp_in(idles(net, Netin), pkt)

(* An echo request: icmp_mkpkt takes a buffer for the reply.               *)
icmp_echo ==
  /\ net.at[Netin] = "hold"
  /\ net' = getbuf_in(net, Netin, "wait_reply", "reply")

icmp_reply ==
  /\ net.at[Netin] = "reply"
  /\ FillIpq \/ net.iqsem.scount >= IP_OQSIZ \/ ~net.ipoqueue.iqbuf[net.ipoqueue.iqtail]
  /\ net' = freebuf_in(ip_enqueue(idles(net, Netin)))

ipout_wait ==
  /\ net.at[Ipout] = "idle"
  /\ net' = [net EXCEPT !.iqsem = waited(@, Ipout),
                        !.at[Ipout] = IF blocks(net.iqsem) THEN "wait_packet" ELSE "send"]

(* The packet at the head is taken from the array, its next hop resolved.  *)
ipout_take ==
  /\ net.at[Ipout] = "send"
  /\ net' = [net EXCEPT !.ipoqueue = taken_at_head(@), !.at[Ipout] = "hold"]

ipout_sent ==
  /\ net.at[Ipout] = "hold"
  /\ net' = freebuf_in(idles(net, Ipout))

-----------------------------------------------------------------------------
registered(p, s) ==
  net.udptab[s].udstate # "UDP_FREE" /\ (ShareSlots \/ net.udptab[s].user = p)

udp_register(p, rem) ==
  /\ net.at[p] = "idle"
  /\ \A s \in UdpSlots : net.udptab[s].udstate # "UDP_FREE" => net.udptab[s].udrem # rem
  /\ \E s \in UdpSlots :
       /\ net.udptab[s].udstate = "UDP_FREE"
       /\ \A t \in 0 .. s - 1 : net.udptab[t].udstate # "UDP_FREE"
       /\ net' = [net EXCEPT !.udptab[s] = [FreeEndpoint EXCEPT !.udstate = "UDP_USED", !.udrem = rem, !.user = p]]

dequeued(n, s) == freebuf_in([n EXCEPT !.udptab[s].udqueue = Tail(@)])

udp_recv(p, s) ==
  /\ net.at[p] = "idle" /\ registered(p, s) /\ net.udptab[s].udstate = "UDP_USED"
  /\ net' = IF net.udptab[s].udqueue # << >> THEN dequeued(net, s)
            ELSE [net EXCEPT !.udptab[s] = [@ EXCEPT !.udstate = "UDP_RECV", !.udpid = p],
                             !.mail[p] = FALSE, !.at[p] = "wait_recv", !.slot[p] = s]

recv_timeout(p) ==
  /\ net.at[p] = "wait_recv"
  /\ net' = [net EXCEPT !.at[p] = "ready"]

udp_recv_end_still_receiving(p) ==
  /\ net.at[p] = "ready"
  /\ net' = IF net.mail[p]
            THEN dequeued([idles(net, p) EXCEPT !.mail[p] = FALSE, !.udptab[net.slot[p]].udstate = "UDP_USED"],
                          net.slot[p])
            ELSE idles(net, p)

(* After the wait the endpoint is in use, and a packet has arrived if the  *)
(* message says so.                                                        *)
udp_recv_end(p) ==
  LET used == [idles(net, p) EXCEPT !.mail[p] = FALSE, !.udptab[net.slot[p]].udstate = "UDP_USED"]
  IN  /\ net.at[p] = "ready"
      /\ net' = IF net.mail[p] THEN dequeued(used, net.slot[p]) ELSE used

udp_release(p, s) ==
  /\ net.at[p] = "idle" /\ registered(p, s)
  /\ net' = freebufs_in([net EXCEPT !.udptab[s] = FreeEndpoint], Len(net.udptab[s].udqueue))

(* udp_send takes a buffer, and frees it when the packet is sent or cannot *)
(* be; a packet to this machine is delivered to its endpoint.              *)
udp_send(p, s) ==
  /\ net.at[p] = "idle" /\ registered(p, s)
  /\ net' = getbuf_in([net EXCEPT !.slot[p] = s], p, "wait_buf", "hold")

ip_send_out(p) ==
  /\ net.at[p] = "hold"
  /\ net' = freebuf_in(idles(net, p))

ip_send_local(p, pkt) ==
  /\ net.at[p] = "hold"
  /\ net' = udp_in(idles(net, p), pkt)

NetNext ==
  \/ netin_getbuf \/ netin_other \/ icmp_echo \/ icmp_reply
  \/ \E pkt \in Remotes : netin_udp(pkt)
  \/ ipout_wait \/ ipout_take \/ ipout_sent
  \/ \E p \in NetUsers :
       \/ \E rem \in Remotes \cup {AnyRemote} : udp_register(p, rem)
       \/ \E s \in UdpSlots : udp_recv(p, s) \/ udp_release(p, s) \/ udp_send(p, s)
       \/ recv_timeout(p) \/ udp_recv_end(p) \/ ip_send_out(p)
       \/ \E pkt \in Remotes : ip_send_local(p, pkt)

NetSpec == NetInit /\ [][NetNext]_net
-----------------------------------------------------------------------------
(* The packets that wait for ipout, those that wait for udp_recv, the      *)
(* processes that have a buffer, and those that have two.                  *)
untaken(q)  == {i \in IpqEntries : q.iqbuf[i]}
queued(n)   == UNION {{s} \X DOMAIN n.udptab[s].udqueue : s \in UdpSlots}
holding(n)  == {p \in NetProcs : n.at[p] \in {"hold", "wait_reply", "reply"}}
replying(n) == {p \in NetProcs : n.at[p] = "reply"}

(* No network buffer is lost or in two places, whoever waits for one and   *)
(* whatever is discarded: each is in the pool, with a process, or in one   *)
(* queue; and a process waits for one only when the pool is empty.         *)
BuffersAccounted ==
  LET waiting == {p \in NetProcs : net.at[p] \in {"wait_buf", "wait_reply"}}
  IN  /\ counted(net.bufs) + Cardinality(queued(net)) + Cardinality(untaken(net.ipoqueue))
           + Cardinality(holding(net)) + Cardinality(replying(net)) = NetBufs
      /\ ToSet(net.bufs.squeue) = waiting
      /\ waiting # {} => counted(net.bufs) = 0
      /\ net.at[Ipout] = "send" => net.ipoqueue.iqbuf[net.ipoqueue.iqhead]

(* No packet waits for a process that waits for it: an endpoint says that  *)
(* a process waits exactly when that process does and has no message, and  *)
(* then has no packet; and a process with a message finds a packet.        *)
ReceiversAreTold ==
  /\ \A s \in UdpSlots :
       LET e == net.udptab[s]
       IN  e.udstate = "UDP_RECV" =>
             /\ net.at[e.udpid] \in {"wait_recv", "ready"} /\ ~net.mail[e.udpid]
             /\ net.slot[e.udpid] = s /\ e.udqueue = << >>
  /\ \A p \in NetUsers :
       LET e == net.udptab[net.slot[p]]
       IN  /\ net.at[p] = "wait_recv" => e.udstate = "UDP_RECV" /\ e.udpid = p
           /\ net.mail[p] => net.at[p] = "ready" /\ e.udstate = "UDP_USED" /\ e.udqueue # << >>
=============================================================================
