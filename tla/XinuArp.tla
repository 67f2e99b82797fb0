-------------------------------- MODULE XinuArp --------------------------------
(***************************************************************************)
(* Address resolution (net/arp.c): a cache that arp_resolve, called by the *)
(* processes that send, and arp_in, called by netin for each ARP packet,   *)
(* share.  The network loses, repeats, delays and reorders packets: any    *)
(* host's packet may come at any time.  The fields of the record arp:      *)
(*   cache   of each entry its state, the address, the process that waits, *)
(*           and whose hardware address it holds                           *)
(*   call    of each process what it does next, the host it asks for, its  *)
(*           entry and how many requests it has sent                       *)
(*   mail    whether the process has a message                             *)
(*   answer  the host asked for and whose hardware address was answered,   *)
(*           of the last call                                              *)
(* Bounds: EvictFresh; nobody but arp_in sends messages to a process that  *)
(* resolves, and none is killed while it does.                             *)
(* A definition named for a slip is the mutant of the one after it.        *)
(***************************************************************************)
EXTENDS Integers, FiniteSets

CONSTANTS ArpUsers,   \* process IDs of the processes that resolve
          ArpHosts,   \* the other hosts, each with one hardware address
          ARP_SIZ,    \* entries of the cache
          ARP_RETRY,  \* requests sent before giving up
          EvictFresh  \* bound: whether an entry may be taken from a process
                      \* that has been sent its answer and not yet run

ASSUME ArpAssumption ==
  /\ ArpUsers \subseteq Nat /\ ArpHosts \subseteq Nat \ {0}
  /\ ARP_SIZ \in Nat \ {0} /\ ARP_RETRY \in Nat \ {0} /\ EvictFresh \in BOOLEAN

NoHost == 0
ArpSlots == 0 .. ARP_SIZ - 1
FreeEntry == [arstate |-> "AR_FREE", arpaddr |-> NoHost, arpid |-> 0, arhaddr |-> NoHost]
NotResolving == [at |-> "idle", host |-> NoHost, slot |-> 0, sent |-> 0]

VARIABLE arp

(* arp_init leaves out entry 0, which is zero, and so free, anyway.        *)
ArpInit ==
  arp = [cache  |-> [s \in ArpSlots |-> FreeEntry],
         call   |-> [p \in ArpUsers |-> NotResolving],
         mail   |-> [p \in ArpUsers |-> FALSE],
         answer |-> [p \in ArpUsers |-> <<NoHost, NoHost>>]]

arstate(s) == arp.cache[s].arstate
in_use == {s \in ArpSlots : arstate(s) # "AR_FREE"}
entries_of(h) == {s \in in_use : arp.cache[s].arpaddr = h}
in_state(st) == {s \in ArpSlots : arstate(s) = st}
first_of(S) == CHOOSE s \in S : \A t \in S : s <= t

(* The processes that have their answer, at entry s.                       *)
answered_at(s) == {p \in ArpUsers : arp.mail[p] /\ arp.call[p].slot = s}

(* The entry arp_alloc finds or makes free, if there is one.               *)
arp_alloc ==
  LET S == IF in_state("AR_FREE") # {} THEN in_state("AR_FREE") ELSE in_state("AR_RESOLVED")
  IN  {s \in S : s = first_of(S)}

may_take(s) == EvictFresh \/ answered_at(s) = {}

-----------------------------------------------------------------------------
(* The address is in the cache.                                            *)
arp_resolve_cached(p, h) ==
  /\ arp.call[p].at = "idle"
  /\ \E s \in entries_of(h) :
       /\ arstate(s) = "AR_RESOLVED"
       /\ arp' = [arp EXCEPT !.answer[p] = <<h, arp.cache[s].arhaddr>>]

(* It is not, nor is another process asking for it.                        *)
arp_resolve(p, h) ==
  /\ arp.call[p].at = "idle" /\ entries_of(h) = {}
  /\ \E s \in arp_alloc :
       /\ may_take(s)
       /\ arp' = [arp EXCEPT
            !.cache[s] = [FreeEntry EXCEPT !.arstate = "AR_PENDING", !.arpaddr = h, !.arpid = p],
            !.mail[p] = FALSE,
            !.call[p] = [at |-> "write", host |-> h, slot |-> s, sent |-> 0]]

(* A request is sent, which may wait for the Ethernet, and the answer      *)
(* awaited, if it is not there yet.                                        *)
arp_request(p) ==
  /\ arp.call[p].at = "write"
  /\ arp' = [arp EXCEPT !.call[p].sent = @ + 1,
                        !.call[p].at = IF arp.mail[p] THEN "ready" ELSE "wait"]

arp_timeout(p) ==
  /\ arp.call[p].at = "wait"
  /\ arp' = [arp EXCEPT !.call[p].at = "ready"]

arp_retry(p) ==
  /\ arp.call[p].at = "ready" /\ ~arp.mail[p] /\ arp.call[p].sent < ARP_RETRY
  /\ arp' = [arp EXCEPT !.call[p].at = "write"]

arp_give_up_entry_kept(p) ==
  /\ arp.call[p].at = "ready" /\ ~arp.mail[p] /\ arp.call[p].sent >= ARP_RETRY
  /\ arp' = [arp EXCEPT !.call[p] = NotResolving]

arp_give_up(p) ==
  /\ arp.call[p].at = "ready" /\ ~arp.mail[p] /\ arp.call[p].sent >= ARP_RETRY
  /\ arp' = [arp EXCEPT !.cache[arp.call[p].slot].arstate = "AR_FREE", !.call[p] = NotResolving]

(* The hardware address of the entry is the answer.                        *)
arp_resolved(p) ==
  /\ arp.call[p].at = "ready" /\ arp.mail[p]
  /\ arp' = [arp EXCEPT !.answer[p] = <<arp.call[p].host, arp.cache[arp.call[p].slot].arhaddr>>,
                        !.mail[p] = FALSE, !.call[p] = NotResolving]

-----------------------------------------------------------------------------
(* What send of the answer does to process p.                              *)
sent_answer(p) ==
  [arp.call[p] EXCEPT !.at = IF @ = "wait" THEN "ready" ELSE @]

(* A packet of host h, whose address is in the cache.                      *)
arp_in(h) ==
  \E s \in entries_of(h) :
    LET p == arp.cache[s].arpid
    IN  arp' = IF arstate(s) = "AR_PENDING"
               THEN [arp EXCEPT !.cache[s].arhaddr = h, !.cache[s].arstate = "AR_RESOLVED",
                                !.mail[p] = TRUE, !.call[p] = sent_answer(p)]
               ELSE [arp EXCEPT !.cache[s].arhaddr = h]

(* A request of host h for this machine, that is not in the cache: it is   *)
(* added (and replied to).                                                 *)
arp_in_add(h) ==
  /\ entries_of(h) = {}
  /\ \E s \in arp_alloc :
       /\ may_take(s)
       /\ arp' = [arp EXCEPT !.cache[s] = [FreeEntry EXCEPT !.arstate = "AR_RESOLVED",
                                                            !.arpaddr = h, !.arhaddr = h]]

ArpNext ==
  \/ \E p \in ArpUsers : \/ \E h \in ArpHosts : arp_resolve_cached(p, h) \/ arp_resolve(p, h)
                         \/ arp_request(p) \/ arp_timeout(p) \/ arp_retry(p)
                         \/ arp_give_up(p) \/ arp_resolved(p)
  \/ \E h \in ArpHosts : arp_in(h) \/ arp_in_add(h)

ArpSpec == ArpInit /\ [][ArpNext]_arp
-----------------------------------------------------------------------------
(* Resolution keeps its books whatever the network does: an address is in  *)
(* one entry; an entry is pending exactly while the process it names is    *)
(* still asking for that address, so that nobody is refused it afterwards  *)
(* and no message goes to a process that has given up; and a process with  *)
(* a message finds the address it asked for, and only such an answer is    *)
(* returned.                                                               *)
ResolutionsHold ==
  /\ \A s, t \in in_use : arp.cache[s].arpaddr = arp.cache[t].arpaddr => s = t
  /\ \A s \in ArpSlots :
       arstate(s) = "AR_PENDING" <=>
         \E p \in ArpUsers : /\ arp.cache[s].arpid = p /\ arp.call[p].at # "idle" /\ ~arp.mail[p]
                             /\ arp.call[p].slot = s /\ arp.call[p].host = arp.cache[s].arpaddr
                             /\ arstate(s) # "AR_FREE"
  /\ \A p \in ArpUsers : arp.call[p].at # "idle" /\ ~arp.mail[p] =>
       arp.cache[arp.call[p].slot].arpid = p
  /\ \A p \in ArpUsers : arp.mail[p] =>
       arp.cache[arp.call[p].slot].arhaddr = arp.call[p].host
  /\ \A p \in ArpUsers : arp.answer[p][1] = arp.answer[p][2]
=============================================================================
