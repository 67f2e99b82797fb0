-------------------------- MODULE XinuServiceProofs --------------------------
(***************************************************************************)
(* What is proved of the services: address resolution, ports, network      *)
(* buffers, the heap and the buffer pools.                                 *)
(***************************************************************************)
EXTENDS XinuArp, XinuNet, XinuPort, XinuPool, XinuQueueProofs, FiniteSetTheorems, TLAPS

-----------------------------------------------------------------------------
(***************************************************************************)
(* Address resolution keeps its books.  That an entry is pending for a     *)
(* process that waits for it needs to be known of every point of           *)
(* arp_resolve; who has been sent the answer and has not run yet is told   *)
(* apart by its message.                                                   *)
(***************************************************************************)

(* Records of arp, an entry and a call.                                    *)
ArpEntries ==
  [arstate : {"AR_FREE", "AR_PENDING", "AR_RESOLVED"}, arpaddr : Nat, arpid : Nat, arhaddr : Nat]

ArpCalls ==
  [at : {"idle", "write", "wait", "ready"}, host : Nat, slot : ArpSlots, sent : Nat]

ArpTypeOK ==
  arp \in [cache  : [ArpSlots -> ArpEntries],
           call   : [ArpUsers -> ArpCalls],
           mail   : [ArpUsers -> BOOLEAN],
           answer : [ArpUsers -> Nat \X Nat]]

Asking(p) == arp.call[p].at # "idle"

(* An address is in one entry.                                             *)
OneEntry == \A s, t \in in_use : arp.cache[s].arpaddr = arp.cache[t].arpaddr => s = t

(* An entry is pending for the process it names, which waits for that.     *)
PendingAsked ==
  \A s \in ArpSlots :
    arstate(s) = "AR_PENDING" =>
      LET p == arp.cache[s].arpid
      IN  /\ p \in ArpUsers /\ Asking(p) /\ ~arp.mail[p]
          /\ arp.call[p].slot = s /\ arp.call[p].host = arp.cache[s].arpaddr

(* A process without its answer has its entry, and one with it finds it.   *)
AskerPending ==
  \A p \in ArpUsers :
    Asking(p) /\ ~arp.mail[p] =>
      /\ arstate(arp.call[p].slot) = "AR_PENDING"
      /\ arp.cache[arp.call[p].slot].arpid = p

AnswerFound ==
  \A p \in ArpUsers :
    arp.mail[p] =>
      /\ Asking(p) /\ arstate(arp.call[p].slot) = "AR_RESOLVED"
      /\ arp.cache[arp.call[p].slot].arpaddr = arp.call[p].host

(* An entry that is resolved holds the address of its host.                *)
ResolvedTrue ==
  \A s \in ArpSlots : arstate(s) = "AR_RESOLVED" => arp.cache[s].arhaddr = arp.cache[s].arpaddr

AnswersTrue == \A p \in ArpUsers : arp.answer[p][1] = arp.answer[p][2]

ArpIInv ==
  /\ ArpTypeOK /\ OneEntry /\ PendingAsked /\ AskerPending
  /\ AnswerFound /\ ResolvedTrue /\ AnswersTrue

LEMMA ArpInitOK == ArpInit => ArpIInv
<1> SUFFICES ASSUME ArpInit PROVE ArpIInv
  OBVIOUS
<1>1. 0 \in ArpSlots
  BY ArpAssumption DEF ArpSlots
<1>2. ArpTypeOK
  BY <1>1, ArpAssumption
  DEF ArpInit, ArpTypeOK, ArpEntries, ArpCalls, FreeEntry, NotResolving, NoHost
<1> QED
  BY <1>1, <1>2
  DEF ArpInit, ArpIInv, OneEntry, PendingAsked, AskerPending, AnswerFound,
      ResolvedTrue, AnswersTrue, in_use, arstate, Asking, FreeEntry, NotResolving

(* A process that does not resolve.                                        *)
LEMMA IdleIsACall == NotResolving \in ArpCalls /\ NotResolving.at = "idle"
<1>1. 0 \in ArpSlots
  BY ArpAssumption DEF ArpSlots
<1> QED
  BY <1>1 DEF ArpCalls, NotResolving, NoHost

(* Where a new entry goes.                                                 *)
LEMMA AllocFinds ==
  ASSUME NEW s \in arp_alloc
  PROVE  s \in ArpSlots /\ arstate(s) \in {"AR_FREE", "AR_RESOLVED"}
  BY DEF arp_alloc, in_state

(* Nothing that the invariant speaks of has changed.                       *)
LEMMA SameParts ==
  ASSUME ArpIInv, ArpTypeOK', arp'.cache = arp.cache, arp'.call = arp.call,
         arp'.mail = arp.mail, arp'.answer = arp.answer
  PROVE  ArpIInv'
<1>1. \A q : Asking(q)' <=> Asking(q)
  BY DEF Asking
<1>2. in_use' = in_use /\ \A s : arstate(s)' = arstate(s)
  BY DEF in_use, arstate
<1> QED
  BY <1>1, <1>2
  DEF ArpIInv, OneEntry, PendingAsked, AskerPending, AnswerFound, ResolvedTrue,
      AnswersTrue

LEMMA ResolveOK ==
  ASSUME ArpIInv, ~EvictFresh, NEW p \in ArpUsers, NEW h \in ArpHosts, arp_resolve(p, h)
  PROVE  ArpIInv'
<1>1. PICK s \in arp_alloc :
        /\ may_take(s)
        /\ arp' = [arp EXCEPT
             !.cache[s] = [FreeEntry EXCEPT !.arstate = "AR_PENDING", !.arpaddr = h, !.arpid = p],
             !.mail[p] = FALSE,
             !.call[p] = [at |-> "write", host |-> h, slot |-> s, sent |-> 0]]
  BY DEF arp_resolve
<1>2. /\ s \in ArpSlots /\ arstate(s) \in {"AR_FREE", "AR_RESOLVED"} /\ ArpTypeOK
      /\ h \in Nat /\ p \in Nat
  BY AllocFinds, ArpAssumption DEF ArpIInv
<1> DEFINE e == [FreeEntry EXCEPT !.arstate = "AR_PENDING", !.arpaddr = h, !.arpid = p]
           c == [at |-> "write", host |-> h, slot |-> s, sent |-> 0]
<1>3. /\ arp'.cache = [arp.cache EXCEPT ![s] = e] /\ arp'.call = [arp.call EXCEPT ![p] = c]
      /\ arp'.mail = [arp.mail EXCEPT ![p] = FALSE] /\ arp'.answer = arp.answer
      /\ DOMAIN arp' = DOMAIN arp
  BY <1>1, <1>2 DEF ArpTypeOK
<1>4. e \in ArpEntries /\ e.arstate = "AR_PENDING" /\ e.arpaddr = h /\ e.arpid = p
  BY <1>2 DEF FreeEntry, ArpEntries, NoHost
<1>5. c \in ArpCalls /\ c.at = "write" /\ c.host = h /\ c.slot = s
  BY <1>2 DEF ArpCalls
<1> HIDE DEF e, c
<1>6. ArpTypeOK'
  BY <1>1, <1>2, <1>4, <1>5 DEF ArpTypeOK, e, c
<1>7. /\ ~Asking(p) /\ ~arp.mail[p] /\ entries_of(h) = {}
      /\ \A q \in ArpUsers : ~(arp.mail[q] /\ arp.call[q].slot = s)
  BY <1>1 DEF arp_resolve, Asking, ArpIInv, AnswerFound, may_take, answered_at
<1>8. /\ arp'.cache[s] = e /\ \A t \in ArpSlots \ {s} : arp'.cache[t] = arp.cache[t]
      /\ arp'.call[p] = c /\ \A q \in ArpUsers \ {p} : arp'.call[q] = arp.call[q]
      /\ ~arp'.mail[p] /\ \A q \in ArpUsers \ {p} : arp'.mail[q] = arp.mail[q]
      /\ \A q \in ArpUsers : arp.call[q].slot \in ArpSlots
  BY <1>2, <1>3 DEF ArpTypeOK, ArpCalls
<1>a. /\ arstate(s)' = "AR_PENDING" /\ \A t \in ArpSlots \ {s} : arstate(t)' = arstate(t)
      /\ Asking(p)' /\ \A q \in ArpUsers \ {p} : Asking(q)' <=> Asking(q)
  BY <1>4, <1>5, <1>8 DEF arstate, Asking
<1>9. OneEntry'
  BY <1>2, <1>4, <1>7, <1>8 DEF ArpIInv, OneEntry, in_use, arstate, entries_of
<1>10. PendingAsked'
  <2>1. ASSUME NEW t \in ArpSlots \ {s}, arstate(t)' = "AR_PENDING", NEW q, q = arp'.cache[t].arpid
        PROVE  /\ q \in ArpUsers /\ Asking(q)' /\ ~arp'.mail[q]
               /\ arp'.call[q].slot = t /\ arp'.call[q].host = arp'.cache[t].arpaddr
    <3>1. /\ q \in ArpUsers /\ Asking(q) /\ ~arp.mail[q]
          /\ arp.call[q].slot = t /\ arp.call[q].host = arp.cache[t].arpaddr
      BY <1>8, <1>a, <2>1 DEF ArpIInv, PendingAsked
    <3>2. q # p
      BY <1>7, <3>1
    <3> QED
      BY <1>8, <1>a, <3>1, <3>2
  <2>2. /\ arp'.cache[s].arpid = p /\ arp'.call[p].slot = s
        /\ arp'.call[p].host = arp'.cache[s].arpaddr
    BY <1>4, <1>5, <1>8
  <2> QED
    BY <1>8, <1>a, <2>1, <2>2 DEF PendingAsked
<1>11. AskerPending'
  <2>1. ASSUME NEW q \in ArpUsers \ {p}, Asking(q)', ~arp'.mail[q], NEW t, t = arp'.call[q].slot
        PROVE  arstate(t)' = "AR_PENDING" /\ arp'.cache[t].arpid = q
    <3>1. /\ Asking(q) /\ ~arp.mail[q] /\ t = arp.call[q].slot /\ t \in ArpSlots
      BY <1>8, <1>a, <2>1
    <3>2. arstate(t) = "AR_PENDING" /\ arp.cache[t].arpid = q
      BY <3>1 DEF ArpIInv, AskerPending
    <3> QED
      BY <1>2, <1>8, <1>a, <3>1, <3>2
  <2>2. arp'.call[p].slot = s /\ arp'.cache[s].arpid = p
    BY <1>4, <1>5, <1>8
  <2> QED
    BY <1>a, <2>1, <2>2 DEF AskerPending
<1>12. AnswerFound'
  <2>1. ASSUME NEW q \in ArpUsers, arp'.mail[q], NEW t, t = arp'.call[q].slot
        PROVE  /\ Asking(q)' /\ arstate(t)' = "AR_RESOLVED"
               /\ arp'.cache[t].arpaddr = arp'.call[q].host
    <3>1. q # p /\ arp.mail[q] /\ t = arp.call[q].slot /\ t \in ArpSlots \ {s}
      BY <1>7, <1>8, <2>1
    <3>2. /\ Asking(q) /\ arstate(t) = "AR_RESOLVED"
          /\ arp.cache[t].arpaddr = arp.call[q].host
      BY <3>1 DEF ArpIInv, AnswerFound
    <3> QED
      BY <1>8, <1>a, <3>1, <3>2
  <2> QED
    BY <2>1 DEF AnswerFound
<1>13. ResolvedTrue'
  BY <1>2, <1>3, <1>4, <1>5, <1>7
  DEF ArpIInv, ResolvedTrue, ArpTypeOK, in_use, arstate, Asking, entries_of
<1>14. AnswersTrue'
  BY <1>2, <1>3, <1>4, <1>5, <1>7
  DEF ArpIInv, AnswersTrue, ArpTypeOK, in_use, arstate, Asking, entries_of
<1> QED
  BY <1>6, <1>9, <1>10, <1>11, <1>12, <1>13, <1>14 DEF ArpIInv

(* A step of p's call that changes no entry.                               *)
LEMMA CallMoves ==
  ASSUME ArpIInv, NEW p \in ArpUsers, NEW c \in ArpCalls,
         Asking(p), c.at # "idle", c.slot = arp.call[p].slot, c.host = arp.call[p].host,
         arp' = [arp EXCEPT !.call[p] = c]
  PROVE  ArpIInv'
<1>1. /\ arp'.cache = arp.cache /\ arp'.mail = arp.mail /\ arp'.answer = arp.answer
      /\ arp'.call = [arp.call EXCEPT ![p] = c] /\ ArpTypeOK
  BY DEF ArpIInv, ArpTypeOK
<1>2. ArpTypeOK'
  BY <1>1 DEF ArpTypeOK
<1>3. \A q \in ArpUsers : /\ Asking(q)' <=> Asking(q)
                         /\ arp'.call[q].slot = arp.call[q].slot
                         /\ arp'.call[q].host = arp.call[q].host
  BY <1>1 DEF ArpTypeOK, Asking
<1>4. in_use' = in_use /\ \A s : arstate(s)' = arstate(s)
  BY <1>1 DEF in_use, arstate
<1> QED
  BY <1>1, <1>2, <1>3, <1>4
  DEF ArpIInv, OneEntry, PendingAsked, AskerPending, AnswerFound, ResolvedTrue,
      AnswersTrue

LEMMA WaitsOK ==
  ASSUME ArpIInv, NEW p \in ArpUsers, arp_request(p) \/ arp_timeout(p) \/ arp_retry(p)
  PROVE  ArpIInv'
<1> DEFINE c == arp'.call[p]
<1>1. arp.call[p] \in ArpCalls /\ ArpTypeOK
  BY DEF ArpIInv, ArpTypeOK
<1>2. /\ c \in ArpCalls /\ Asking(p) /\ c.at # "idle"
      /\ c.slot = arp.call[p].slot /\ c.host = arp.call[p].host
      /\ arp' = [arp EXCEPT !.call[p] = c]
  <2>1. CASE arp_request(p)
    <3>a. PICK e, n, a, d : /\ e = arp.call[p] /\ n = arp.call[p].sent + 1
                            /\ a = (IF arp.mail[p] THEN "ready" ELSE "wait")
                            /\ d = [e EXCEPT !.sent = n, !.at = a]
      OBVIOUS
    <3>b. e \in ArpCalls /\ a \in {"ready", "wait"}
      BY <1>1, <3>a
    <3>c. n \in Nat
      BY <1>1, <3>a DEF ArpCalls
    <3>1. d = [arp.call[p] EXCEPT !.sent = @ + 1,
                                  !.at = IF arp.mail[p] THEN "ready" ELSE "wait"]
      BY <3>a, <3>b DEF ArpCalls
    <3>2. /\ d \in ArpCalls /\ d.at # "idle"
          /\ d.slot = arp.call[p].slot /\ d.host = arp.call[p].host
      <4>1. d \in ArpCalls /\ d.at # "idle" /\ d.slot = e.slot /\ d.host = e.host
        BY <3>a, <3>b, <3>c DEF ArpCalls
      <4> QED
        BY <3>a, <4>1
    <3>3. arp' = [arp EXCEPT !.call[p] = d]
      BY <1>1, <2>1, <3>1 DEF arp_request, ArpTypeOK, ArpCalls
    <3>4. c = d
      BY <1>1, <3>3 DEF ArpTypeOK
    <3>5. Asking(p)
      BY <2>1 DEF arp_request, Asking
    <3> QED
      BY <3>2, <3>3, <3>4, <3>5
  <2>2. CASE arp_timeout(p)
    BY <1>1, <2>2 DEF arp_timeout, Asking, ArpCalls, ArpTypeOK
  <2>3. CASE arp_retry(p)
    BY <1>1, <2>3 DEF arp_retry, Asking, ArpCalls, ArpTypeOK
  <2> QED
    BY <2>1, <2>2, <2>3
<1> HIDE DEF c
<1> QED
  BY <1>2, CallMoves

LEMMA GiveUpOK ==
  ASSUME ArpIInv, NEW p \in ArpUsers, arp_give_up(p)
  PROVE  ArpIInv'
<1>9. PICK s : s = arp.call[p].slot
  OBVIOUS
<1>0. ArpTypeOK /\ s \in ArpSlots /\ NotResolving \in ArpCalls /\ NotResolving.at = "idle"
  BY <1>9, IdleIsACall DEF ArpIInv, ArpTypeOK, ArpCalls
<1>1. /\ arp'.cache = [arp.cache EXCEPT ![s].arstate = "AR_FREE"] /\ arp'.mail = arp.mail
      /\ arp'.answer = arp.answer /\ arp'.call = [arp.call EXCEPT ![p] = NotResolving]
      /\ DOMAIN arp' = DOMAIN arp
  BY <1>0, <1>9 DEF arp_give_up, ArpTypeOK
<1>2. ArpTypeOK'
  <2>1. [arp.cache EXCEPT ![s].arstate = "AR_FREE"] \in [ArpSlots -> ArpEntries]
    BY <1>0 DEF ArpTypeOK, ArpEntries
  <2> QED
    BY <1>0, <1>9, <2>1 DEF ArpTypeOK, arp_give_up
<1>3. arstate(s) = "AR_PENDING" /\ arp.cache[s].arpid = p /\ ~arp.mail[p]
  BY <1>9 DEF arp_give_up, ArpIInv, OneEntry, AskerPending, Asking
<1>4. /\ arp'.cache[s].arstate = "AR_FREE"
      /\ \A t \in ArpSlots \ {s} : arp'.cache[t] = arp.cache[t]
  BY <1>0, <1>1 DEF ArpTypeOK, ArpEntries
<1>5. /\ \A q \in ArpUsers \ {p} : arp'.call[q] = arp.call[q]
      /\ arp'.call[p].at = "idle"
  BY <1>0, <1>1 DEF ArpTypeOK
<1>6. \A q \in ArpUsers \ {p} : Asking(q) /\ ~arp.mail[q] => arp.call[q].slot # s
  BY <1>3 DEF ArpIInv, AskerPending
<1>7. \A q \in ArpUsers : arp.mail[q] => arp.call[q].slot # s
  BY <1>3 DEF ArpIInv, AnswerFound
<1>8. \A q \in ArpUsers : arp.call[q].slot \in ArpSlots
  BY <1>0 DEF ArpTypeOK, ArpCalls
<1> QED
  <2>1. in_use' = in_use \ {s}
    BY <1>3, <1>4 DEF in_use, arstate
  <2>2. \A t \in ArpSlots \ {s} : arstate(t)' = arstate(t)
    BY <1>4 DEF arstate
  <2>3. ~Asking(p)' /\ \A q \in ArpUsers \ {p} : Asking(q)' <=> Asking(q)
    BY <1>5 DEF Asking
  <2>4. arstate(s)' = "AR_FREE"
    BY <1>4 DEF arstate
  <2>5. \A t \in ArpSlots \ {s} : arstate(t) = "AR_PENDING" => arp.cache[t].arpid # p
    BY <1>0, <1>9 DEF ArpIInv, PendingAsked
  <2>6. \A t \in in_use' : t \in ArpSlots \ {s}
    BY <2>1 DEF in_use
  <2>7. \A t, u \in in_use' : arp'.cache[t].arpaddr = arp'.cache[u].arpaddr => t = u
    BY <1>4, <2>1, <2>6 DEF ArpIInv, OneEntry
  <2>8. \A t \in ArpSlots :
          arstate(t)' = "AR_PENDING" =>
            /\ arp'.cache[t].arpid \in ArpUsers /\ arp'.cache[t].arpid # p
            /\ arp'.cache[t] = arp.cache[t] /\ arstate(t) = "AR_PENDING"
    BY <1>4, <2>2, <2>4, <2>5 DEF ArpIInv, PendingAsked
  <2>9. ASSUME NEW t \in ArpSlots, arp'.cache[t].arstate = "AR_PENDING",
               NEW q, q = arp'.cache[t].arpid
        PROVE  /\ q \in ArpUsers /\ Asking(q)' /\ ~arp'.mail[q]
               /\ arp'.call[q].slot = t /\ arp'.call[q].host = arp'.cache[t].arpaddr
    <3>1. /\ q \in ArpUsers \ {p} /\ arp'.cache[t] = arp.cache[t]
          /\ arstate(t) = "AR_PENDING" /\ q = arp.cache[t].arpid
      BY <2>8, <2>9 DEF arstate
    <3>2. /\ Asking(q) /\ ~arp.mail[q]
          /\ arp.call[q].slot = t /\ arp.call[q].host = arp.cache[t].arpaddr
      BY <3>1 DEF ArpIInv, PendingAsked
    <3> QED
      BY <1>1, <1>5, <2>3, <3>1, <3>2
  <2>10. ASSUME NEW q \in ArpUsers, Asking(q)', ~arp'.mail[q], NEW t, t = arp'.call[q].slot
         PROVE  arp'.cache[t].arstate = "AR_PENDING" /\ arp'.cache[t].arpid = q
    <3>1. q # p /\ Asking(q) /\ ~arp.mail[q] /\ t = arp.call[q].slot /\ t \in ArpSlots \ {s}
      BY <1>1, <1>5, <1>6, <1>8, <2>3, <2>10
    <3> QED
      BY <1>4, <3>1 DEF ArpIInv, AskerPending, arstate
  <2>11. ASSUME NEW q \in ArpUsers, arp'.mail[q], NEW t, t = arp'.call[q].slot
         PROVE  /\ Asking(q)' /\ arp'.cache[t].arstate = "AR_RESOLVED"
                /\ arp'.cache[t].arpaddr = arp'.call[q].host
    <3>1. q # p /\ arp.mail[q] /\ t = arp.call[q].slot /\ t \in ArpSlots \ {s}
      BY <1>1, <1>3, <1>5, <1>7, <1>8, <2>11
    <3>2. Asking(q) /\ arp.cache[t].arstate = "AR_RESOLVED" /\ arp.cache[t].arpaddr = arp.call[q].host
      BY <3>1 DEF ArpIInv, AnswerFound, arstate
    <3> QED
      BY <1>4, <1>5, <2>3, <3>1, <3>2
  <2>12. \A t \in ArpSlots :
           arp'.cache[t].arstate = "AR_RESOLVED" => arp'.cache[t].arhaddr = arp'.cache[t].arpaddr
    BY <1>4, <2>4 DEF ArpIInv, ResolvedTrue, arstate
  <2>13. OneEntry'
    BY <2>7 DEF OneEntry
  <2>14. PendingAsked'
    BY <2>9 DEF PendingAsked, arstate
  <2>15. AskerPending'
    BY <2>10 DEF AskerPending, arstate
  <2>16. AnswerFound'
    BY <2>11 DEF AnswerFound, arstate
  <2>17. ResolvedTrue' /\ AnswersTrue'
    BY <1>1, <2>12 DEF ArpIInv, ResolvedTrue, AnswersTrue, arstate
  <2> QED
    BY <1>2, <2>13, <2>14, <2>15, <2>16, <2>17 DEF ArpIInv

LEMMA ResolvedOK ==
  ASSUME ArpIInv, NEW p \in ArpUsers, arp_resolved(p)
  PROVE  ArpIInv'
<1> DEFINE s == arp.call[p].slot
<1>0. /\ ArpTypeOK /\ s \in ArpSlots /\ NotResolving \in ArpCalls /\ NotResolving.at = "idle"
      /\ arp.cache[s] \in ArpEntries /\ arp.call[p] \in ArpCalls
  BY IdleIsACall DEF ArpIInv, ArpTypeOK, ArpCalls
<1>1. /\ arp'.cache = arp.cache /\ arp'.mail = [arp.mail EXCEPT ![p] = FALSE]
      /\ arp'.answer = [arp.answer EXCEPT ![p] = <<arp.call[p].host, arp.cache[s].arhaddr>>]
      /\ arp'.call = [arp.call EXCEPT ![p] = NotResolving]
      /\ DOMAIN arp' = DOMAIN arp
  BY <1>0 DEF arp_resolved, ArpTypeOK
<1>2. ArpTypeOK'
  BY <1>0 DEF ArpTypeOK, arp_resolved, ArpEntries, ArpCalls
<1>3. arp.call[p].host = arp.cache[s].arhaddr
  BY <1>0, ZenonT(30)
  DEF arp_resolved, ArpIInv, OneEntry, AnswerFound, ResolvedTrue, arstate
<1>4. /\ \A q \in ArpUsers \ {p} : /\ arp'.call[q] = arp.call[q] /\ arp'.mail[q] = arp.mail[q]
                                   /\ arp'.answer[q] = arp.answer[q]
      /\ arp'.call[p].at = "idle" /\ ~arp'.mail[p] /\ arp'.answer[p][1] = arp'.answer[p][2]
      /\ arp.mail[p]
  BY <1>0, <1>1, <1>3 DEF ArpTypeOK, arp_resolved
<1>5. in_use' = in_use /\ \A t : arstate(t)' = arstate(t)
  BY <1>1 DEF in_use, arstate
<1> HIDE DEF s
<1>6. OneEntry'
  BY <1>1, <1>4, <1>5 DEF ArpIInv, OneEntry, Asking
<1>7. PendingAsked'
  BY <1>1, <1>4, <1>5 DEF ArpIInv, PendingAsked, Asking
<1>8. AskerPending'
  BY <1>1, <1>4, <1>5 DEF ArpIInv, AskerPending, Asking
<1>9. AnswerFound'
  BY <1>1, <1>4, <1>5 DEF ArpIInv, AnswerFound, Asking
<1>10. ResolvedTrue'
  BY <1>1, <1>4, <1>5 DEF ArpIInv, ResolvedTrue, Asking
<1>11. AnswersTrue'
  BY <1>1, <1>4, <1>5 DEF ArpIInv, AnswersTrue, Asking
<1> QED
  BY <1>2, <1>6, <1>7, <1>8, <1>9, <1>10, <1>11 DEF ArpIInv

LEMMA CachedOK ==
  ASSUME ArpIInv, NEW p \in ArpUsers, NEW h \in ArpHosts, arp_resolve_cached(p, h)
  PROVE  ArpIInv'
<1>1. PICK s \in entries_of(h) :
        /\ arstate(s) = "AR_RESOLVED"
        /\ arp' = [arp EXCEPT !.answer[p] = <<h, arp.cache[s].arhaddr>>]
  BY DEF arp_resolve_cached
<1>2. /\ s \in ArpSlots /\ arp.cache[s].arhaddr = h /\ arp.cache[s] \in ArpEntries /\ ArpTypeOK
      /\ h \in Nat
  BY <1>1, ArpAssumption DEF entries_of, in_use, ArpIInv, ResolvedTrue, ArpTypeOK
<1>3. /\ arp'.cache = arp.cache /\ arp'.mail = arp.mail /\ arp'.call = arp.call
      /\ arp'.answer = [arp.answer EXCEPT ![p] = <<h, h>>]
  BY <1>1, <1>2 DEF ArpTypeOK
<1>4. ArpTypeOK'
  BY <1>1, <1>2 DEF ArpTypeOK
<1>5. in_use' = in_use /\ (\A t : arstate(t)' = arstate(t)) /\ (\A q : Asking(q)' <=> Asking(q))
  BY <1>3 DEF in_use, arstate, Asking
<1>6. OneEntry' /\ ResolvedTrue'
  BY <1>3, <1>5 DEF ArpIInv, OneEntry, ResolvedTrue
<1>7. PendingAsked' /\ AskerPending' /\ AnswerFound'
  BY <1>3, <1>5 DEF ArpIInv, PendingAsked, AskerPending, AnswerFound
<1>8. AnswersTrue'
  BY <1>2, <1>3 DEF ArpIInv, AnswersTrue, ArpTypeOK
<1> QED
  BY <1>4, <1>6, <1>7, <1>8 DEF ArpIInv

LEMMA ArrivesOK ==
  ASSUME ArpIInv, NEW h \in ArpHosts, arp_in(h)
  PROVE  ArpIInv'
<1>1. PICK s \in entries_of(h) :
        LET p == arp.cache[s].arpid
        IN  arp' = IF arstate(s) = "AR_PENDING"
                   THEN [arp EXCEPT !.cache[s].arhaddr = h, !.cache[s].arstate = "AR_RESOLVED",
                                    !.mail[p] = TRUE, !.call[p] = sent_answer(p)]
                   ELSE [arp EXCEPT !.cache[s].arhaddr = h]
  BY DEF arp_in
<1>2. /\ s \in ArpSlots /\ arp.cache[s].arpaddr = h /\ arp.cache[s] \in ArpEntries /\ ArpTypeOK
      /\ h \in Nat /\ arstate(s) \in {"AR_PENDING", "AR_RESOLVED"}
  BY ArpAssumption DEF entries_of, in_use, ArpIInv, ArpTypeOK, ArpEntries, arstate
<1>3. CASE arstate(s) = "AR_RESOLVED"
  <2>1. arp' = [arp EXCEPT !.cache[s].arhaddr = h]
    BY <1>1, <1>3
  <2>2. /\ arp'.cache = [arp.cache EXCEPT ![s].arhaddr = h] /\ arp'.mail = arp.mail
        /\ arp'.call = arp.call /\ arp'.answer = arp.answer
    BY <1>2, <2>1 DEF ArpTypeOK
  <2>3. arp'.cache = arp.cache
    BY <1>2, <1>3, <2>2 DEF ArpIInv, ResolvedTrue, ArpTypeOK, ArpEntries, arstate
  <2>4. ArpTypeOK'
    BY <1>2, <2>1, <2>3 DEF ArpTypeOK
  <2> QED
    BY <2>2, <2>3, <2>4, SameParts
<1>4. CASE arstate(s) = "AR_PENDING"
  <2> DEFINE p == arp.cache[s].arpid
             c == sent_answer(p)
             e == [arp.cache[s] EXCEPT !.arhaddr = h, !.arstate = "AR_RESOLVED"]
  <2>1. /\ p \in ArpUsers /\ Asking(p) /\ ~arp.mail[p]
        /\ arp.call[p].slot = s /\ arp.call[p].host = h
    BY <1>2, <1>4 DEF ArpIInv, PendingAsked
  <2> HIDE DEF p
  <2>2. arp' = [arp EXCEPT !.cache[s].arhaddr = h, !.cache[s].arstate = "AR_RESOLVED",
                           !.mail[p] = TRUE, !.call[p] = c]
    BY <1>1, <1>4 DEF p
  <2>3. /\ c \in ArpCalls /\ c.at # "idle" /\ c.slot = s /\ c.host = h
    <3>1. arp.call[p] \in ArpCalls
      BY <1>2, <2>1 DEF ArpTypeOK
    <3> QED
      BY <2>1, <3>1 DEF sent_answer, ArpCalls, Asking
  <2>4. /\ e \in ArpEntries /\ e.arstate = "AR_RESOLVED" /\ e.arhaddr = h /\ e.arpaddr = h
    BY <1>2 DEF ArpEntries
  <2> HIDE DEF c, e
  <2>5. /\ arp'.cache = [arp.cache EXCEPT ![s] = e] /\ arp'.mail = [arp.mail EXCEPT ![p] = TRUE]
        /\ arp'.call = [arp.call EXCEPT ![p] = c] /\ arp'.answer = arp.answer
    BY <1>2, <2>2 DEF ArpTypeOK, e
  <2>6. ArpTypeOK'
    <3>1. arp' = [cache |-> arp'.cache, call |-> arp'.call, mail |-> arp'.mail,
                  answer |-> arp'.answer]
      BY <1>2, <2>2 DEF ArpTypeOK
    <3>2. /\ arp'.cache \in [ArpSlots -> ArpEntries] /\ arp'.call \in [ArpUsers -> ArpCalls]
          /\ arp'.mail \in [ArpUsers -> BOOLEAN] /\ arp'.answer \in [ArpUsers -> Nat \X Nat]
      BY <1>2, <2>1, <2>3, <2>4, <2>5 DEF ArpTypeOK
    <3> QED
      BY <3>1, <3>2 DEF ArpTypeOK
  <2>7. /\ arp'.cache[s] = e /\ \A t \in ArpSlots \ {s} : arp'.cache[t] = arp.cache[t]
        /\ arp'.mail[p] /\ \A q \in ArpUsers \ {p} : arp'.mail[q] = arp.mail[q]
        /\ arp'.call[p] = c /\ \A q \in ArpUsers \ {p} : arp'.call[q] = arp.call[q]
    BY <1>2, <2>1, <2>5 DEF ArpTypeOK
  <2>8. in_use' = in_use /\ \A t \in ArpSlots : arp'.cache[t].arpaddr = arp.cache[t].arpaddr
    BY <1>2, <1>4, <2>4, <2>7 DEF in_use, arstate
  <2>9. \A q \in ArpUsers : arp.call[q].slot \in ArpSlots
    BY <1>2 DEF ArpTypeOK, ArpCalls
  <2>10. \A q \in ArpUsers : Asking(q)' <=> Asking(q)
    BY <2>1, <2>3, <2>7 DEF Asking
  <2>11. /\ arstate(s)' = "AR_RESOLVED"
         /\ \A t \in ArpSlots \ {s} : arstate(t)' = arstate(t)
    BY <2>4, <2>7 DEF arstate
  <2>12. \A q \in ArpUsers : /\ arp'.call[q].slot = arp.call[q].slot
                             /\ arp'.call[q].host = arp.call[q].host
    BY <2>1, <2>3, <2>7
  <2>13. \A q \in ArpUsers : q # p /\ Asking(q) /\ ~arp.mail[q] => arp.call[q].slot # s
    BY DEF ArpIInv, AskerPending, p
  <2>14. \A q \in ArpUsers : arp.mail[q] => arp.call[q].slot # s
    BY <1>4 DEF ArpIInv, AnswerFound
  <2>15. \A t \in ArpSlots \ {s} : arstate(t) = "AR_PENDING" => arp.cache[t].arpid # p
    BY <2>1 DEF ArpIInv, PendingAsked
  <2>16. OneEntry'
    BY <1>2, <2>1, <2>4, <2>5, <2>7, <2>8, <2>9, <2>10, <2>11, <2>12, <2>13, <2>14, <2>15
    DEF ArpIInv, OneEntry
  <2>17. PendingAsked'
    BY <1>2, <2>1, <2>4, <2>5, <2>7, <2>8, <2>9, <2>10, <2>11, <2>12, <2>13, <2>14, <2>15
    DEF ArpIInv, PendingAsked
  <2>18. AskerPending'
    BY <1>2, <2>1, <2>4, <2>5, <2>7, <2>8, <2>9, <2>10, <2>11, <2>12, <2>13, <2>14, <2>15
    DEF ArpIInv, AskerPending
  <2>19. AnswerFound'
    BY <1>2, <2>1, <2>4, <2>5, <2>7, <2>8, <2>9, <2>10, <2>11, <2>12, <2>13, <2>14, <2>15
    DEF ArpIInv, AnswerFound
  <2>20. ResolvedTrue'
    BY <1>2, <2>1, <2>4, <2>5, <2>7, <2>8, <2>9, <2>10, <2>11, <2>12, <2>13, <2>14, <2>15
    DEF ArpIInv, ResolvedTrue
  <2>21. AnswersTrue'
    BY <1>2, <2>1, <2>4, <2>5, <2>7, <2>8, <2>9, <2>10, <2>11, <2>12, <2>13, <2>14, <2>15
    DEF ArpIInv, AnswersTrue
  <2> QED
    BY <2>6, <2>16, <2>17, <2>18, <2>19, <2>20, <2>21 DEF ArpIInv
<1> QED
  BY <1>2, <1>3, <1>4

LEMMA AddsOK ==
  ASSUME ArpIInv, ~EvictFresh, NEW h \in ArpHosts, arp_in_add(h)
  PROVE  ArpIInv'
<1> DEFINE e == [FreeEntry EXCEPT !.arstate = "AR_RESOLVED", !.arpaddr = h, !.arhaddr = h]
<1>1. PICK s \in arp_alloc : may_take(s) /\ arp' = [arp EXCEPT !.cache[s] = e]
  BY DEF arp_in_add
<1>2. /\ s \in ArpSlots /\ arstate(s) \in {"AR_FREE", "AR_RESOLVED"} /\ ArpTypeOK /\ h \in Nat
  BY AllocFinds, ArpAssumption DEF ArpIInv
<1>3. e \in ArpEntries /\ e.arstate = "AR_RESOLVED" /\ e.arpaddr = h /\ e.arhaddr = h
  BY <1>2 DEF FreeEntry, ArpEntries, NoHost
<1> HIDE DEF e
<1>4. /\ arp'.cache = [arp.cache EXCEPT ![s] = e] /\ arp'.mail = arp.mail
      /\ arp'.call = arp.call /\ arp'.answer = arp.answer
  BY <1>1, <1>2 DEF ArpTypeOK
<1>5. ArpTypeOK'
  BY <1>1, <1>2, <1>3 DEF ArpTypeOK
<1>6. entries_of(h) = {} /\ \A q \in ArpUsers : ~(arp.mail[q] /\ arp.call[q].slot = s)
  BY <1>1 DEF arp_in_add, may_take, answered_at
<1>7. \A q \in ArpUsers : arp.call[q].slot \in ArpSlots
  BY <1>2 DEF ArpTypeOK, ArpCalls
<1>8. /\ arp'.cache[s] = e /\ \A t \in ArpSlots \ {s} : arp'.cache[t] = arp.cache[t]
  BY <1>2, <1>4 DEF ArpTypeOK
<1>9. OneEntry'
  <2>1. /\ \A t \in in_use : arp.cache[t].arpaddr # h
        /\ \A t \in in_use' : t = s \/ t \in in_use \ {s}
    BY <1>6, <1>8 DEF in_use, arstate, entries_of
  <2>2. ASSUME NEW t \in in_use', NEW u \in in_use', arp'.cache[t].arpaddr = arp'.cache[u].arpaddr
        PROVE  t = u
    <3>1. CASE t = s /\ u # s
      BY <1>3, <1>8, <2>1, <2>2, <3>1 DEF in_use
    <3>2. CASE t # s /\ u = s
      BY <1>3, <1>8, <2>1, <2>2, <3>2 DEF in_use
    <3>3. CASE t # s /\ u # s
      BY <1>8, <2>1, <2>2, <3>3 DEF ArpIInv, OneEntry, in_use
    <3> QED
      BY <3>1, <3>2, <3>3
  <2> QED
    BY <2>2 DEF OneEntry
<1>10. PendingAsked'
  BY <1>2, <1>3, <1>4, <1>6, <1>7, <1>8
  DEF ArpIInv, OneEntry, PendingAsked, in_use, arstate, Asking, entries_of
<1>11. AskerPending'
  BY <1>2, <1>3, <1>4, <1>6, <1>7, <1>8
  DEF ArpIInv, AskerPending, in_use, arstate, Asking, entries_of
<1>12. AnswerFound'
  BY <1>2, <1>3, <1>4, <1>6, <1>7, <1>8
  DEF ArpIInv, AnswerFound, in_use, arstate, Asking, entries_of
<1>13. ResolvedTrue'
  BY <1>2, <1>3, <1>4, <1>6, <1>7, <1>8
  DEF ArpIInv, ResolvedTrue, in_use, arstate, Asking, entries_of
<1>14. AnswersTrue'
  BY <1>2, <1>3, <1>4, <1>6, <1>7, <1>8
  DEF ArpIInv, AnswersTrue, in_use, arstate, Asking, entries_of
<1> QED
  BY <1>5, <1>9, <1>10, <1>11, <1>12, <1>13, <1>14 DEF ArpIInv

(* Whatever the network loses, repeats or delays, resolution keeps its     *)
(* books, for any number of processes, hosts and entries, if no entry is   *)
(* taken from a process that has been sent its answer and not yet run.     *)
THEOREM SpecResolutionsHold ==
  ASSUME ~EvictFresh
  PROVE  ArpSpec => []ResolutionsHold
<1>1. ArpInit => ArpIInv
  BY ArpInitOK
<1>2. ArpIInv /\ [ArpNext]_arp => ArpIInv'
  <2>1. ArpIInv /\ UNCHANGED arp => ArpIInv'
    BY DEF ArpIInv, OneEntry, PendingAsked, AskerPending, AnswerFound, ResolvedTrue,
           AnswersTrue, ArpTypeOK, in_use, arstate, Asking
  <2> QED
    BY <2>1, CachedOK, ResolveOK, WaitsOK, GiveUpOK, ResolvedOK, ArrivesOK, AddsOK DEF ArpNext
<1>3. ArpIInv => ResolutionsHold
  <2> SUFFICES ASSUME ArpIInv PROVE ResolutionsHold
    OBVIOUS
  <2>1. \A p \in ArpUsers : arp.call[p].slot \in ArpSlots
    BY DEF ArpIInv, ArpTypeOK, ArpCalls
  <2> QED
    BY <2>1
    DEF ArpIInv, OneEntry, PendingAsked, AskerPending, AnswerFound, ResolvedTrue,
        AnswersTrue, ResolutionsHold, Asking, arstate
<1> QED
  BY <1>1, <1>2, <1>3, PTL DEF ArpSpec

-----------------------------------------------------------------------------
(***************************************************************************)
(* Semaphores as the services use them.                                    *)
(***************************************************************************)

(* A semaphore that processes of T use: they wait as it counts.            *)
SemEntries(T) == [scount : Int, squeue : Seq(T)]

(* What semcreate, wait, signal and kill keep of it: a process waits       *)
(* once, and as many wait as the count is below zero.                      *)
IsSem(sem, T) ==
  /\ sem \in SemEntries(T)
  /\ IsInjective(sem.squeue)
  /\ Len(sem.squeue) = IF sem.scount < 0 THEN -sem.scount ELSE 0

(* What a semaphore counts is never below zero.                            *)
LEMMA CountedNat ==
  ASSUME NEW T, NEW sem, IsSem(sem, T)
  PROVE  counted(sem) \in Nat
BY DEF IsSem, SemEntries, counted

(* Nobody is on the empty queue, of whatever processes it is.              *)
LEMMA EmptyQueue ==
  /\ IsInjective(<< >>) /\ ToSet(<< >>) = {} /\ \A T : << >> \in Seq(T)
BY DEF IsInjective, ToSet

(* A queue on which nobody is is the empty queue.                          *)
LEMMA NobodyQueued ==
  ASSUME NEW T, NEW q \in Seq(T)
  PROVE  ToSet(q) = {} <=> q = << >>
<1>1. ToSet(q) = {} => q = << >>
  <2> SUFFICES ASSUME ToSet(q) = {}, q # << >> PROVE FALSE
    OBVIOUS
  <2>1. 1 \in DOMAIN q
    OBVIOUS
  <2> QED
    BY <2>1 DEF ToSet
<1> QED
  BY <1>1, EmptyQueue

(* semcreate                                                               *)
LEMMA SemCreated ==
  ASSUME NEW T, NEW n \in Nat
  PROVE  /\ IsSem(semcreate(n), T)
         /\ ToSet(semcreate(n).squeue) = {}
         /\ counted(semcreate(n)) = n
BY EmptyQueue DEF IsSem, SemEntries, semcreate, counted

(* wait: its caller is counted or is queued.                               *)
LEMMA SemWaited ==
  ASSUME NEW T, NEW sem, IsSem(sem, T), NEW p \in T, p \notin ToSet(sem.squeue)
  PROVE  /\ IsSem(waited(sem, p), T)
         /\ blocks(sem) =>
              /\ ToSet(waited(sem, p).squeue) = ToSet(sem.squeue) \cup {p}
              /\ counted(sem) = 0 /\ counted(waited(sem, p)) = 0
         /\ ~blocks(sem) =>
              /\ ToSet(waited(sem, p).squeue) = ToSet(sem.squeue) /\ ToSet(sem.squeue) = {}
              /\ counted(sem) > 0 /\ counted(waited(sem, p)) = counted(sem) - 1
<1>1. PICK q, c : q = sem.squeue /\ c = sem.scount
  OBVIOUS
<1>2. c \in Int /\ q \in Seq(T) /\ IsInjective(q) /\ Len(q) = IF c < 0 THEN -c ELSE 0
  BY <1>1 DEF IsSem, SemEntries
<1>3. CASE blocks(sem)
  <2>1. waited(sem, p) = [scount |-> c - 1, squeue |-> Append(q, p)]
    BY <1>1, <1>3 DEF waited
  <2>2. Append(q, p) \in Seq(T) /\ IsInjective(Append(q, p)) /\ ToSet(Append(q, p)) = ToSet(q) \cup {p}
    BY <1>1, <1>2, AppendJoins
  <2>3. Len(Append(q, p)) = Len(q) + 1
    BY <1>2
  <2>4. c < 1
    BY <1>1, <1>3 DEF blocks
  <2> QED
    BY <1>1, <1>2, <1>3, <2>1, <2>2, <2>3, <2>4 DEF IsSem, SemEntries, counted
<1>4. CASE ~blocks(sem)
  <2>1. waited(sem, p) = [scount |-> c - 1, squeue |-> q] /\ c >= 1
    BY <1>1, <1>2, <1>4 DEF waited, blocks
  <2>2. q = << >> /\ ToSet(q) = {}
    BY <1>2, <2>1, EmptyQueue
  <2> QED
    BY <1>1, <1>2, <1>4, <2>1, <2>2 DEF IsSem, SemEntries, counted
<1> QED
  BY <1>3, <1>4

(* signal: one that waits is woken, or the semaphore counts one more.      *)
LEMMA SemSignalled ==
  ASSUME NEW T, NEW sem, IsSem(sem, T)
  PROVE  /\ IsSem(signalled(sem), T)
         /\ woken(sem) \subseteq ToSet(sem.squeue) /\ woken(sem) \subseteq T
         /\ ToSet(signalled(sem).squeue) = ToSet(sem.squeue) \ woken(sem)
         /\ \/ /\ \E p \in T : woken(sem) = {p}
               /\ counted(sem) = 0 /\ counted(signalled(sem)) = 0
            \/ /\ woken(sem) = {} /\ ToSet(sem.squeue) = {}
               /\ counted(signalled(sem)) = counted(sem) + 1
<1>1. PICK q, c : q = sem.squeue /\ c = sem.scount
  OBVIOUS
<1>2. c \in Int /\ q \in Seq(T) /\ IsInjective(q) /\ Len(q) = IF c < 0 THEN -c ELSE 0
  BY <1>1 DEF IsSem, SemEntries
<1>3. CASE c < 0
  <2>1. signalled(sem) = [scount |-> c + 1, squeue |-> Tail(q)] /\ woken(sem) = {Head(q)}
    BY <1>1, <1>3 DEF signalled, woken
  <2>2. q # << >>
    BY <1>2, <1>3
  <2>3. /\ Head(q) \in ToSet(q) /\ Head(q) \in T
        /\ Tail(q) \in Seq(T) /\ IsInjective(Tail(q)) /\ ToSet(Tail(q)) = ToSet(q) \ {Head(q)}
    BY <1>2, <2>2, TailLeaves
  <2>4. Len(Tail(q)) = Len(q) - 1
    BY <1>2, <2>2
  <2>5. IsSem(signalled(sem), T)
    BY <1>2, <1>3, <2>1, <2>3, <2>4 DEF IsSem, SemEntries
  <2>6. counted(sem) = 0 /\ counted(signalled(sem)) = 0
    BY <1>1, <1>2, <1>3, <2>1 DEF counted
  <2>7. signalled(sem).squeue = Tail(q)
    BY <2>1
  <2> QED
    BY <1>1, <2>1, <2>3, <2>5, <2>6, <2>7
<1>4. CASE ~(c < 0)
  <2>1. signalled(sem) = [scount |-> c + 1, squeue |-> q] /\ woken(sem) = {}
    BY <1>1, <1>4 DEF signalled, woken
  <2>2. q = << >> /\ ToSet(q) = {}
    BY <1>2, <1>4, EmptyQueue
  <2> QED
    BY <1>1, <1>2, <1>4, <2>1, <2>2 DEF IsSem, SemEntries, counted
<1> QED
  BY <1>3, <1>4

(* kill of one that waits leaves the others, and what is counted.          *)
LEMMA SemKilled ==
  ASSUME NEW T, NEW sem, IsSem(sem, T), NEW p \in ToSet(sem.squeue)
  PROVE  /\ IsSem(killed(sem, p), T)
         /\ ToSet(killed(sem, p).squeue) = ToSet(sem.squeue) \ {p}
         /\ counted(sem) = 0 /\ counted(killed(sem, p)) = 0
<1>1. PICK q, c : q = sem.squeue /\ c = sem.scount
  OBVIOUS
<1>2. c \in Int /\ q \in Seq(T) /\ IsInjective(q) /\ Len(q) = IF c < 0 THEN -c ELSE 0
  BY <1>1 DEF IsSem, SemEntries
<1>3. killed(sem, p) = [scount |-> c + 1, squeue |-> getitem(q, p)]
  BY <1>1 DEF killed
<1>4. /\ getitem(q, p) \in Seq(T) /\ IsInjective(getitem(q, p))
      /\ ToSet(getitem(q, p)) = ToSet(q) \ {p} /\ Len(getitem(q, p)) = Len(q) - 1
  BY <1>1, <1>2, GetitemLeaves
<1>5. c < 0
  BY <1>1, <1>2, NobodyQueued
<1> QED
  BY <1>1, <1>2, <1>3, <1>4, <1>5 DEF IsSem, SemEntries, counted

(* As many wait as there are places in the queue.                          *)
LEMMA QueuedCardinality ==
  ASSUME NEW T, NEW q \in Seq(T), IsInjective(q)
  PROVE  IsFiniteSet(ToSet(q)) /\ Cardinality(ToSet(q)) = Len(q)
<1>1. Len(q) \in Nat /\ DOMAIN q = 1 .. Len(q)
  OBVIOUS
<1>2. q \in Bijection(1 .. Len(q), ToSet(q))
  BY <1>1 DEF Bijection, Injection, Surjection, IsInjective, ToSet
<1>3. IsFiniteSet(1 .. Len(q)) /\ Cardinality(1 .. Len(q)) = Len(q)
  BY <1>1, FS_Interval
<1>4. ExistsBijection(1 .. Len(q), ToSet(q))
  BY <1>2 DEF ExistsBijection
<1> QED
  BY <1>1, <1>3, <1>4, FS_Bijection

(* The places of a list of n messages are n.                               *)
LEMMA ColumnSize ==
  ASSUME NEW i, NEW n \in Nat
  PROVE  IsFiniteSet({i} \X (1 .. n)) /\ Cardinality({i} \X (1 .. n)) = n
<1> DEFINE f == [k \in 1 .. n |-> <<i, k>>]
<1>1. f \in Bijection(1 .. n, {i} \X (1 .. n))
  BY DEF Bijection, Injection, Surjection, IsInjective
<1>2. IsFiniteSet(1 .. n) /\ Cardinality(1 .. n) = n
  BY FS_Interval
<1>3. ExistsBijection(1 .. n, {i} \X (1 .. n))
  BY <1>1 DEF ExistsBijection
<1> QED
  BY <1>2, <1>3, FS_Bijection

(* Sets with nothing in common add up.                                     *)
LEMMA DisjointSize ==
  ASSUME NEW S, NEW A, IsFiniteSet(S), IsFiniteSet(A), Cardinality(S \cap A) = 0
  PROVE  /\ IsFiniteSet(S \cup A) /\ Cardinality(S) \in Nat
         /\ Cardinality(S \cup A) = Cardinality(S) + Cardinality(A)
<1>1. Cardinality(S) \in Nat /\ Cardinality(A) \in Nat
  BY FS_CardinalityType
<1>2. /\ IsFiniteSet(S \cup A)
      /\ Cardinality(S \cup A) = Cardinality(S) + Cardinality(A) - Cardinality(S \cap A)
  BY FS_Union
<1> QED
  BY <1>1, <1>2

(* signaln lets the first n that wait go on, and counts the rest.          *)
LEMMA FirstOfQueue ==
  ASSUME NEW T, NEW q \in Seq(T), IsInjective(q), NEW k \in 0 .. Len(q)
  PROVE  LET a == SubSeq(q, 1, k)
             b == SubSeq(q, k + 1, Len(q))
         IN  /\ a \in Seq(T) /\ IsInjective(a) /\ Len(a) = k
             /\ b \in Seq(T) /\ IsInjective(b) /\ Len(b) = Len(q) - k
             /\ ToSet(a) \subseteq ToSet(q) /\ ToSet(b) = ToSet(q) \ ToSet(a)
<1>1. PICK a, b : a = SubSeq(q, 1, k) /\ b = SubSeq(q, k + 1, Len(q))
  OBVIOUS
<1>2. /\ a \in Seq(T) /\ Len(a) = k /\ \A j \in 1 .. k : a[j] = q[j] /\ j \in 1 .. Len(q)
  BY <1>1, SubSeqProperties
<1>3. /\ b \in Seq(T) /\ Len(b) = Len(q) - k
      /\ \A j \in 1 .. Len(q) - k : b[j] = q[k + j] /\ k + j \in 1 .. Len(q)
  <2>1. k + 1 \in 1 .. Len(q) + 1 /\ Len(q) \in Nat
    OBVIOUS
  <2>2. /\ b \in Seq(T) /\ Len(b) = Len(q) - k
        /\ \A j \in 1 .. Len(q) - k : b[j] = q[(k + 1) + j - 1]
    BY <1>1, <2>1, SubSeqProperties
  <2>3. \A j \in 1 .. Len(q) - k : (k + 1) + j - 1 = k + j /\ k + j \in 1 .. Len(q)
    BY <2>1
  <2> QED
    BY <2>2, <2>3
<1>4. \A i, j \in 1 .. Len(q) : q[i] = q[j] => i = j
  BY DEF IsInjective
<1>5. DOMAIN a = 1 .. k /\ DOMAIN b = 1 .. Len(q) - k
  BY <1>2, <1>3
<1>6. IsInjective(a) /\ IsInjective(b)
  <2>1. IsInjective(a)
    BY <1>2, <1>4, <1>5 DEF IsInjective
  <2>2. ASSUME NEW i \in 1 .. Len(q) - k, NEW j \in 1 .. Len(q) - k, b[i] = b[j] PROVE i = j
    <3>1. k + i = k + j
      BY <1>3, <1>4, <2>2
    <3> QED
      BY <3>1
  <2> QED
    BY <1>5, <2>1, <2>2 DEF IsInjective
<1>7. ToSet(a) = {q[j] : j \in 1 .. k} /\ ToSet(q) = {q[j] : j \in 1 .. Len(q)}
  BY <1>2, <1>5 DEF ToSet
<1>8. ToSet(b) = {q[j] : j \in k + 1 .. Len(q)}
  <2>1. \A x : x \in ToSet(b) <=> \E j \in 1 .. Len(q) - k : x = b[j]
    BY <1>5 DEF ToSet
  <2>2. ASSUME NEW j \in k + 1 .. Len(q) PROVE j - k \in 1 .. Len(q) - k /\ b[j - k] = q[j]
    <3>1. j - k \in 1 .. Len(q) - k /\ k + (j - k) = j
      OBVIOUS
    <3> QED
      BY <1>3, <3>1
  <2>3. \A j \in 1 .. Len(q) - k : k + j \in k + 1 .. Len(q) /\ b[j] = q[k + j]
    BY <1>3
  <2> QED
    BY <2>1, <2>2, <2>3
<1>9. ToSet(a) \subseteq ToSet(q) /\ ToSet(b) = ToSet(q) \ ToSet(a)
  <2>1. \A i \in 1 .. k, j \in k + 1 .. Len(q) : i \in 1 .. Len(q) /\ j \in 1 .. Len(q) /\ q[i] # q[j]
    BY <1>4
  <2>2. \A i \in 1 .. Len(q) : i \in 1 .. k \/ i \in k + 1 .. Len(q)
    OBVIOUS
  <2> QED
    BY <1>7, <1>8, <2>1, <2>2
<1> QED
  BY <1>1, <1>2, <1>3, <1>6, <1>9

(* n signals let the first n go, or all, and count the rest of the         *)
(* signals.                                                                *)
LEMMA SemSignalledN ==
  ASSUME NEW T, NEW sem, IsSem(sem, T), NEW n \in Nat
  PROVE  LET k == least(n, Len(sem.squeue))
             W == wokenn(sem, n)
         IN  /\ IsSem(signalledn(sem, n), T)
             /\ W \subseteq ToSet(sem.squeue)
             /\ ToSet(signalledn(sem, n).squeue) = ToSet(sem.squeue) \ W
             /\ IsFiniteSet(W) /\ Cardinality(W) = k /\ k \in Nat
             /\ counted(signalledn(sem, n)) = counted(sem) + n - k
<1>1. PICK q, c, k : q = sem.squeue /\ c = sem.scount /\ k = least(n, Len(q))
  OBVIOUS
<1>2. c \in Int /\ q \in Seq(T) /\ IsInjective(q) /\ Len(q) = IF c < 0 THEN -c ELSE 0
  BY <1>1 DEF IsSem, SemEntries
<1>3. k \in 0 .. Len(q) /\ k = (IF n < Len(q) THEN n ELSE Len(q)) /\ Len(q) \in Nat
  BY <1>1, <1>2 DEF least
<1>4. PICK a, b : a = SubSeq(q, 1, k) /\ b = SubSeq(q, k + 1, Len(q))
  OBVIOUS
<1>5. /\ a \in Seq(T) /\ IsInjective(a) /\ Len(a) = k
      /\ b \in Seq(T) /\ IsInjective(b) /\ Len(b) = Len(q) - k
      /\ ToSet(a) \subseteq ToSet(q) /\ ToSet(b) = ToSet(q) \ ToSet(a)
  <2>1. LET x == SubSeq(q, 1, k)
            y == SubSeq(q, k + 1, Len(q))
         IN  /\ x \in Seq(T) /\ IsInjective(x) /\ Len(x) = k
             /\ y \in Seq(T) /\ IsInjective(y) /\ Len(y) = Len(q) - k
             /\ ToSet(x) \subseteq ToSet(q) /\ ToSet(y) = ToSet(q) \ ToSet(x)
    BY <1>2, <1>3, FirstOfQueue
  <2> QED
    BY <1>4, <2>1
<1>6. signalledn(sem, n) = [scount |-> c + n, squeue |-> b]
  BY <1>1, <1>4 DEF signalledn
<1>7. IsSem(signalledn(sem, n), T)
  <2>1. Len(b) = IF c + n < 0 THEN -(c + n) ELSE 0
    BY <1>2, <1>3, <1>5
  <2> QED
    BY <1>2, <1>5, <1>6, <2>1 DEF IsSem, SemEntries
<1>8. counted(signalledn(sem, n)) = counted(sem) + n - k
  BY <1>1, <1>2, <1>3, <1>6 DEF counted
<1>9. IsFiniteSet(ToSet(a)) /\ Cardinality(ToSet(a)) = k
  BY <1>5, QueuedCardinality
<1>10. signalledn(sem, n).squeue = b
  BY <1>6
<1>11. wokenn(sem, n) = ToSet(a)
  BY <1>1, <1>4 DEF wokenn
<1> QED
  BY <1>1, <1>3, <1>4, <1>5, <1>7, <1>8, <1>9, <1>10, <1>11
-----------------------------------------------------------------------------
(***************************************************************************)
(* Ports keep their books. Every message a port holds and every place it   *)
(* has left is counted by a semaphore or promised to a process that        *)
(* signal has let go and that has not run yet; the sequence number tells   *)
(* the processes of the past from the others, and one process at a time    *)
(* clears a port.                                                          *)
(***************************************************************************)

(* Records of port.                                                        *)
PortPoints == {"idle", "wait_space", "send", "wait_msg", "recv", "clear_rsem", "clear_end"}

(* What a process holds of the port it has called about.                   *)
PortCalls ==
  [at : PortPoints, id : Ports, seq : Nat, newstate : {"PT_FREE", "PT_ALLOC"}]

(* The table of ports and the calls under way hold what their              *)
(* declarations say.                                                       *)
PortTypeOK ==
  /\ port = [state |-> port.state, seq |-> port.seq, maxcnt |-> port.maxcnt, msgs |-> port.msgs,
             ssem |-> port.ssem, rsem |-> port.rsem, nextid |-> port.nextid, free |-> port.free,
             call |-> port.call, off |-> port.off, panicked |-> port.panicked]
  /\ port.state \in [Ports -> {"PT_FREE", "PT_LIMBO", "PT_ALLOC"}]
  /\ port.seq \in [Ports -> Nat] /\ port.maxcnt \in [Ports -> Nat]
  /\ port.msgs \in [Ports -> Seq(Nat)]
  /\ port.ssem \in [Ports -> SemEntries(PortUsers)]
  /\ port.rsem \in [Ports -> SemEntries(PortUsers)]
  /\ port.nextid \in Ports /\ port.free \in Nat
  /\ port.call \in [PortUsers -> PortCalls]

(* The processes at a point of a call with the port.                       *)
at_port(i, point) == {p \in PortUsers : port.call[p].at = point /\ port.call[p].id = i}

(* The queues of the semaphores are the processes that say they wait.      *)
PortQueues(i) ==
  /\ IsSem(port.ssem[i], PortUsers) /\ ToSet(port.ssem[i].squeue) = at_port(i, "wait_space")
  /\ IsSem(port.rsem[i], PortUsers) /\ ToSet(port.rsem[i].squeue) = at_port(i, "wait_msg")

(* A call holds a sequence number of the past, or the present one; the     *)
(* present one surely while it waits for a port in use.                    *)
CallsDated(i) ==
  \A p \in PortUsers :
    port.call[p].id = i /\ port.call[p].at \in {"wait_space", "send", "wait_msg", "recv"} =>
      /\ port.call[p].seq <= port.seq[i]
      /\ port.state[i] # "PT_ALLOC" => port.call[p].seq # port.seq[i]
      /\ port.state[i] = "PT_ALLOC" /\ port.call[p].at \in {"wait_space", "wait_msg"}
           => port.call[p].seq = port.seq[i]

(* Nobody waits for a port that is free, nor sends to one in limbo.        *)
NobodyOutside(i) ==
  /\ port.state[i] # "PT_ALLOC" => at_port(i, "wait_space") = {}
  /\ port.state[i] = "PT_FREE" => at_port(i, "wait_msg") = {}

(* A port is in limbo while one process clears it, which leaves it as      *)
(* ptcreate does.                                                          *)
ClearedByOne(i) ==
  \A p, q \in PortUsers :
    p \in at_port(i, "clear_rsem") \cup at_port(i, "clear_end") =>
      /\ q \in at_port(i, "clear_rsem") \cup at_port(i, "clear_end") => p = q
      /\ port.state[i] = "PT_LIMBO"
      /\ port.ssem[i] = semcreate(port.maxcnt[i])
      /\ port.call[p].at = "clear_end" => port.rsem[i] = semcreate(0)
      /\ port.call[p].newstate = "PT_ALLOC" => port.msgs[i] = << >>

(* Places are free, taken, or promised; messages counted, or promised.     *)
PlacesCounted(i) ==
  port.state[i] = "PT_ALLOC" =>
    counted(port.ssem[i]) + Len(port.msgs[i]) + Cardinality(let_through(i, "send")) = port.maxcnt[i]

(* The receive semaphore counts the messages nobody was promised.          *)
MessagesCounted(i) ==
  port.state[i] = "PT_ALLOC" =>
    counted(port.rsem[i]) + Cardinality(let_through(i, "recv")) = Len(port.msgs[i])

(* What is stored was sent since the last reset.                           *)
MessagesDated(i) ==
  port.state[i] = "PT_ALLOC" => \A k \in 1 .. Len(port.msgs[i]) : port.msgs[i][k] = port.seq[i]

(* All that is known of one port.                                          *)
PortSound(i) ==
  /\ PortQueues(i) /\ CallsDated(i) /\ NobodyOutside(i) /\ ClearedByOne(i)
  /\ PlacesCounted(i) /\ MessagesCounted(i) /\ MessagesDated(i)

(* Nodes are on the free list or hold a message of a port in use.          *)
NodesCounted == IsFiniteSet(nodes_used) /\ port.free + Cardinality(nodes_used) = PT_MSGS

(* The inductive invariant.                                                *)
PortIInv == PortTypeOK /\ (\A i \in Ports : PortSound(i)) /\ NodesCounted

-----------------------------------------------------------------------------
(* What is at a port that a step leaves alone stays as it is.              *)
LeftAlone(j) ==
  /\ port'.state[j] = port.state[j] /\ port'.seq[j] = port.seq[j]
  /\ port'.maxcnt[j] = port.maxcnt[j] /\ port'.msgs[j] = port.msgs[j]
  /\ port'.ssem[j] = port.ssem[j] /\ port'.rsem[j] = port.rsem[j]
  /\ \A q \in PortUsers :
       \/ port'.call[q] = port.call[q]
       \/ /\ port.call[q].at = "idle" \/ port.call[q].id # j
          /\ port'.call[q].at = "idle" \/ port'.call[q].id # j

(* The processes at such a port stay where they are.                       *)
LEMMA LeftAloneSame ==
  ASSUME NEW j, LeftAlone(j)
  PROVE  \A point : point # "idle" =>
           at_port(j, point)' = at_port(j, point) /\ let_through(j, point)' = let_through(j, point)
BY DEF LeftAlone, at_port, let_through

(* What is known of such a port is still known.                            *)
LEMMA LeftAloneSound ==
  ASSUME NEW j \in Ports, PortSound(j), LeftAlone(j)
  PROVE  PortSound(j)'
<1>1. /\ at_port(j, "wait_space")' = at_port(j, "wait_space")
      /\ at_port(j, "wait_msg")' = at_port(j, "wait_msg")
      /\ at_port(j, "clear_rsem")' = at_port(j, "clear_rsem")
      /\ at_port(j, "clear_end")' = at_port(j, "clear_end")
      /\ let_through(j, "send")' = let_through(j, "send")
      /\ let_through(j, "recv")' = let_through(j, "recv")
  BY LeftAloneSame
<1>2. PortQueues(j)'
  BY <1>1 DEF PortSound, PortQueues, LeftAlone
<1>3. CallsDated(j)'
  BY DEF PortSound, CallsDated, LeftAlone
<1>4. NobodyOutside(j)'
  BY <1>1 DEF PortSound, NobodyOutside, LeftAlone
<1>5. ClearedByOne(j)'
  BY <1>1 DEF PortSound, ClearedByOne, LeftAlone, at_port
<1>6. PlacesCounted(j)' /\ MessagesCounted(j)' /\ MessagesDated(j)'
  BY <1>1 DEF PortSound, PlacesCounted, MessagesCounted, MessagesDated, LeftAlone
<1> QED
  BY <1>2, <1>3, <1>4, <1>5, <1>6 DEF PortSound

(* The search of ptcreate from ptnextid finds a port that is free, when    *)
(* there is one.                                                           *)
LEMMA FirstFree ==
  ASSUME PortTypeOK, \E i \in Ports : port.state[i] = "PT_FREE"
  PROVE  first_free \in Ports /\ port.state[first_free] = "PT_FREE"
<1>1. PICK i \in Ports : port.state[i] = "PT_FREE"
  OBVIOUS
<1>2. PICK b, N : b = port.nextid /\ N = NPORTS /\ N \in Nat \ {0} /\ b \in 0 .. N - 1 /\ i \in 0 .. N - 1
  BY PortAssumption DEF PortTypeOK, Ports
<1>3. \A n \in 0 .. N - 1 : (b + n) % N \in 0 .. N - 1
  BY <1>2
<1>4. \E n \in 0 .. N - 1 : (b + n) % N = i
  <2>1. CASE i >= b
    <3>1. i - b \in 0 .. N - 1 /\ b + (i - b) = i /\ i % N = i
      BY <1>2, <2>1
    <3> QED
      BY <3>1
  <2>2. CASE i < b
    <3>1. i - b + N \in 0 .. N - 1 /\ b + (i - b + N) = i + N
      BY <1>2, <2>2
    <3>2. (i + N) % N = i
      BY <1>2
    <3> QED
      BY <3>1, <3>2
  <2> QED
    BY <1>2, <2>1, <2>2
<1> DEFINE I == {n \in 0 .. NPORTS - 1 : port.state[(port.nextid + n) % NPORTS] = "PT_FREE"}
<1>5. I \in SUBSET Nat /\ I # {}
  BY <1>1, <1>2, <1>4
<1>6. Min(I) \in I
  BY <1>5, MinOfNaturals
<1>7. first_free = (port.nextid + Min(I)) % NPORTS
  BY DEF first_free
<1> HIDE DEF I
<1>8. PICK n : n = Min(I) /\ n \in 0 .. NPORTS - 1 /\ port.state[(port.nextid + n) % NPORTS] = "PT_FREE"
  BY <1>6 DEF I
<1> QED
  BY <1>2, <1>3, <1>7, <1>8 DEF Ports

(* Only so many processes are let through.                                 *)
LEMMA LetThroughFinite ==
  \A i, point : IsFiniteSet(let_through(i, point)) /\ Cardinality(let_through(i, point)) \in Nat
<1> SUFFICES ASSUME NEW i, NEW point
             PROVE IsFiniteSet(let_through(i, point)) /\ Cardinality(let_through(i, point)) \in Nat
  OBVIOUS
<1>1. let_through(i, point) \in SUBSET PortUsers
  BY DEF let_through
<1> QED
  BY <1>1, PortAssumption, FS_Subset, FS_CardinalityType

(* ptinit leaves the table as the invariant wants it.                      *)
LEMMA PortInitSound ==
  ASSUME PortInit
  PROVE  PortIInv
<1>1. PortTypeOK
  BY SemCreated, PortAssumption DEF PortInit, PortTypeOK, PortCalls, PortPoints, NoCall, Ports, IsSem
<1>2. ASSUME NEW i \in Ports PROVE PortSound(i)
  <2>1. /\ port.state[i] = "PT_FREE" /\ port.ssem[i] = semcreate(0) /\ port.rsem[i] = semcreate(0)
        /\ \A p \in PortUsers : port.call[p].at = "idle"
    BY DEF PortInit, NoCall
  <2>2. \A point : point # "idle" => at_port(i, point) = {}
    BY <2>1 DEF at_port
  <2>3. PortQueues(i)
    BY <2>1, <2>2, SemCreated DEF PortQueues
  <2> QED
    BY <2>1, <2>2, <2>3 DEF PortSound, CallsDated, NobodyOutside, ClearedByOne, PlacesCounted,
      MessagesCounted, MessagesDated
<1>3. NodesCounted
  <2>1. nodes_used = {} /\ port.free = PT_MSGS
    BY DEF nodes_used, Allocated, PortInit
  <2> QED
    BY <2>1, FS_EmptySet, PortAssumption DEF NodesCounted
<1> QED
  BY <1>1, <1>2, <1>3 DEF PortIInv

(* The processes at a port, before and after one of them moves.            *)
LEMMA CallsMove ==
  ASSUME PortTypeOK, NEW p \in PortUsers, NEW c \in PortCalls, NEW S,
         \A q \in S : q \in PortUsers /\ port.call[q].at \in {"wait_space", "wait_msg"}
  PROVE  /\ calls(p, c, S) \in [PortUsers -> PortCalls]
         /\ calls(p, c, S)[p] = c
         /\ \A q \in PortUsers \ {p} :
              /\ q \in S =>
                   /\ calls(p, c, S)[q].at = IF port.call[q].at = "wait_space" THEN "send" ELSE "recv"
                   /\ calls(p, c, S)[q].id = port.call[q].id
                   /\ calls(p, c, S)[q].seq = port.call[q].seq
              /\ q \notin S => calls(p, c, S)[q] = port.call[q]
<1>1. ASSUME NEW q \in PortUsers, q \in S, q # p
      PROVE /\ calls(p, c, S)[q] \in PortCalls
            /\ calls(p, c, S)[q].at = IF port.call[q].at = "wait_space" THEN "send" ELSE "recv"
            /\ calls(p, c, S)[q].id = port.call[q].id
            /\ calls(p, c, S)[q].seq = port.call[q].seq
  <2>1. PICK x \in PortCalls : x = port.call[q]
    BY DEF PortTypeOK
  <2>2. calls(p, c, S)[q] = [x EXCEPT !.at = IF x.at = "wait_space" THEN "send" ELSE "recv"]
    BY <1>1, <2>1 DEF calls
  <2> QED
    BY <2>1, <2>2 DEF PortCalls, PortPoints
<1>2. ASSUME NEW q \in PortUsers, q \notin S, q # p
      PROVE calls(p, c, S)[q] = port.call[q] /\ port.call[q] \in PortCalls
  BY <1>2 DEF calls, PortTypeOK
<1>3. calls(p, c, S)[p] = c
  BY DEF calls
<1>4. calls(p, c, S) = [q \in PortUsers |-> calls(p, c, S)[q]]
  BY DEF calls
<1> QED
  BY <1>1, <1>2, <1>3, <1>4

(* How many nodes the list of a port in use has.                           *)
list_length(i) == IF port.state[i] = "PT_ALLOC" THEN Len(port.msgs[i]) ELSE 0

(* A step that takes nodes for the list of one port, or gives them back,   *)
(* keeps the nodes counted.                                                *)
LEMMA NodesMove ==
  ASSUME PortTypeOK, PortTypeOK', NodesCounted, NEW i \in Ports,
         \A j \in Ports \ {i} : port'.state[j] = port.state[j] /\ port'.msgs[j] = port.msgs[j],
         port'.free = port.free + list_length(i) - list_length(i)'
  PROVE  NodesCounted'
<1> DEFINE S == UNION {{j} \X (1 .. list_length(j)) : j \in Ports \ {i}}
<1>a. \A s \in Seq(Nat) : Len(s) \in Nat /\ DOMAIN s = 1 .. Len(s)
  OBVIOUS
<1>b. \A j \in Ports : port.msgs[j] \in Seq(Nat) /\ port'.msgs[j] \in Seq(Nat)
  BY DEF PortTypeOK
<1>1. PICK m, n : /\ m = list_length(i) /\ n = list_length(i)' /\ m \in Nat /\ n \in Nat
                  /\ port'.free = port.free + m - n
  <2>1. list_length(i) \in Nat /\ list_length(i)' \in Nat
    BY <1>a, <1>b DEF list_length
  <2> QED
    BY <2>1
<1>2. nodes_used = S \cup ({i} \X (1 .. m))
  <2>1. \A j \in Ports : /\ j \in Allocated => DOMAIN port.msgs[j] = 1 .. list_length(j)
                         /\ j \notin Allocated => 1 .. list_length(j) = {}
    BY <1>a, <1>b DEF list_length, Allocated
  <2>2. nodes_used = UNION {{j} \X (1 .. list_length(j)) : j \in Ports}
    <3>1. \A x : x \in nodes_used <=> \E j \in Allocated : x \in {j} \X DOMAIN port.msgs[j]
      BY DEF nodes_used
    <3>2. Allocated \subseteq Ports
      BY DEF Allocated
    <3>3. \A x : x \in nodes_used <=> \E j \in Ports : x \in {j} \X (1 .. list_length(j))
      <4>1. ASSUME NEW x, NEW j \in Ports
            PROVE  (j \in Allocated /\ x \in {j} \X DOMAIN port.msgs[j]) <=> x \in {j} \X (1 .. list_length(j))
        BY <2>1
      <4> QED
        BY <3>1, <3>2, <4>1
    <3> QED
      BY <3>3
  <2> QED
    BY <2>2, <1>1
<1>3. nodes_used' = S \cup ({i} \X (1 .. n))
  <2>1. \A j \in Ports : /\ j \in Allocated' => DOMAIN port'.msgs[j] = 1 .. list_length(j)'
                         /\ j \notin Allocated' => 1 .. list_length(j)' = {}
    BY <1>a, <1>b DEF list_length, Allocated
  <2>2. nodes_used' = UNION {{j} \X (1 .. list_length(j)') : j \in Ports}
    <3>1. \A x : x \in nodes_used' <=> \E j \in Allocated' : x \in {j} \X DOMAIN port'.msgs[j]
      BY DEF nodes_used
    <3>2. Allocated' \subseteq Ports
      BY DEF Allocated
    <3>3. \A x : x \in nodes_used' <=> \E j \in Ports : x \in {j} \X (1 .. list_length(j)')
      <4>1. ASSUME NEW x, NEW j \in Ports
            PROVE  (j \in Allocated' /\ x \in {j} \X DOMAIN port'.msgs[j]) <=> x \in {j} \X (1 .. list_length(j)')
        BY <2>1
      <4> QED
        BY <3>1, <3>2, <4>1
    <3> QED
      BY <3>3
  <2>3. \A j \in Ports \ {i} : list_length(j)' = list_length(j)
    BY DEF list_length
  <2> QED
    BY <2>2, <2>3, <1>1
<1>4. PICK R, A, B : R = S /\ A = {i} \X (1 .. m) /\ B = {i} \X (1 .. n)
  OBVIOUS
<1>5. R \cap A = {} /\ R \cap B = {} /\ nodes_used = R \cup A /\ nodes_used' = R \cup B
  BY <1>2, <1>3, <1>4
<1> HIDE DEF S
<1>6. IsFiniteSet(B) /\ Cardinality(B) = n /\ Cardinality(A) = m
  BY <1>1, <1>4, ColumnSize
<1>7. IsFiniteSet(R \cup A) /\ port.free + Cardinality(R \cup A) = PT_MSGS
  BY <1>5 DEF NodesCounted
<1>8. IsFiniteSet(R)
  BY <1>7, FS_Subset
<1>9. Cardinality(R \cap A) = 0 /\ Cardinality(R \cap B) = 0
  BY <1>5, FS_EmptySet, Zenon
<1>10. IsFiniteSet(A)
  BY <1>7, FS_Subset
<1>11. Cardinality(R) \in Nat /\ Cardinality(R \cup A) = Cardinality(R) + m
  BY <1>6, <1>8, <1>9, <1>10, DisjointSize
<1>12. IsFiniteSet(R \cup B) /\ Cardinality(R \cup B) = Cardinality(R) + n
  BY <1>6, <1>8, <1>9, DisjointSize
<1>13. port.free \in Nat /\ PT_MSGS \in Nat
  BY PortAssumption DEF PortTypeOK
<1> QED
  BY <1>1, <1>5, <1>7, <1>11, <1>12, <1>13 DEF NodesCounted

(* The ports that a step leaves alone keep what the invariant says.        *)
LEMMA OthersSound ==
  ASSUME \A j \in Ports : PortSound(j), NEW i, \A j \in Ports \ {i} : LeftAlone(j)
  PROVE  \A j \in Ports \ {i} : PortSound(j)'
BY LeftAloneSound

(* ptcreate makes a port nobody has business with.                         *)
LEMMA CreateSound ==
  ASSUME PortIInv, NEW p \in PortUsers, NEW count \in PortSizes, ptcreate(p, count)
  PROVE  PortIInv'
<1>1. PICK i \in Ports : i = first_free /\ port.state[i] = "PT_FREE"
  BY FirstFree DEF ptcreate, PortIInv
<1>2. /\ port'.state = [port.state EXCEPT ![i] = "PT_ALLOC"]
      /\ port'.seq = [port.seq EXCEPT ![i] = @ + 1]
      /\ port'.maxcnt = [port.maxcnt EXCEPT ![i] = count]
      /\ port'.msgs = [port.msgs EXCEPT ![i] = << >>]
      /\ port'.ssem = [port.ssem EXCEPT ![i] = semcreate(count)]
      /\ port'.rsem = [port.rsem EXCEPT ![i] = semcreate(0)]
      /\ port'.nextid = ptnext(i) /\ port'.free = port.free
      /\ port'.call = port.call /\ port'.off = port.off /\ port'.panicked = port.panicked
      /\ port' = [state |-> port'.state, seq |-> port'.seq, maxcnt |-> port'.maxcnt, msgs |-> port'.msgs,
                  ssem |-> port'.ssem, rsem |-> port'.rsem, nextid |-> port'.nextid, free |-> port'.free,
                  call |-> port'.call, off |-> port'.off, panicked |-> port'.panicked]
  BY <1>1 DEF ptcreate, PortIInv, PortTypeOK
<1>3. count \in Nat /\ ptnext(i) \in Ports
  BY PortAssumption DEF ptnext, Ports
<1>4. /\ IsSem(semcreate(count), PortUsers) /\ ToSet(semcreate(count).squeue) = {} /\ counted(semcreate(count)) = count
      /\ IsSem(semcreate(0), PortUsers) /\ ToSet(semcreate(0).squeue) = {} /\ counted(semcreate(0)) = 0
  BY <1>3, SemCreated
<1>5. PortTypeOK'
  <2>1. semcreate(count) \in SemEntries(PortUsers) /\ semcreate(0) \in SemEntries(PortUsers)
    BY <1>4 DEF IsSem
  <2>2. << >> \in Seq(Nat)
    OBVIOUS
  <2>3. /\ port'.state \in [Ports -> {"PT_FREE", "PT_LIMBO", "PT_ALLOC"}]
        /\ port'.seq \in [Ports -> Nat] /\ port'.maxcnt \in [Ports -> Nat]
        /\ port'.nextid \in Ports
    <3>1. /\ port.state \in [Ports -> {"PT_FREE", "PT_LIMBO", "PT_ALLOC"}]
          /\ port.seq \in [Ports -> Nat] /\ port.maxcnt \in [Ports -> Nat] /\ i \in Ports
      BY <1>1 DEF PortTypeOK, PortIInv
    <3>2. port.seq[i] + 1 \in Nat
      BY <3>1
    <3> QED
      BY <1>2, <1>3, <3>1, <3>2
  <2>4. /\ port'.msgs \in [Ports -> Seq(Nat)]
        /\ port'.ssem \in [Ports -> SemEntries(PortUsers)] /\ port'.rsem \in [Ports -> SemEntries(PortUsers)]
    BY <1>2, <2>1, <2>2 DEF PortTypeOK, PortIInv
  <2> QED
    BY <1>2, <2>3, <2>4 DEF PortTypeOK, PortIInv
<1>6. /\ port'.state[i] = "PT_ALLOC" /\ port'.seq[i] = port.seq[i] + 1 /\ port'.maxcnt[i] = count
      /\ port'.msgs[i] = << >> /\ port'.ssem[i] = semcreate(count) /\ port'.rsem[i] = semcreate(0)
      /\ port.seq[i] \in Nat
  BY <1>2 DEF PortTypeOK, PortIInv
<1>7. \A j \in Ports \ {i} : LeftAlone(j)
  BY <1>2 DEF LeftAlone, PortTypeOK, PortIInv
<1>8. PortSound(i)'
  <2>1. \A point : at_port(i, point)' = at_port(i, point)
    BY <1>2 DEF at_port
  <2>2. at_port(i, "wait_space") = {} /\ at_port(i, "wait_msg") = {}
    BY <1>1 DEF PortIInv, PortSound, NobodyOutside
  <2>3. at_port(i, "clear_rsem") = {} /\ at_port(i, "clear_end") = {}
    BY <1>1 DEF PortIInv, PortSound, ClearedByOne, at_port
  <2>4. \A q \in PortUsers : port.call[q].id = i /\ port.call[q].at \in {"wait_space", "send", "wait_msg", "recv"}
          => port.call[q].seq <= port.seq[i] /\ port.call[q].seq \in Nat
    BY DEF PortIInv, PortSound, CallsDated, PortTypeOK, PortCalls
  <2>5. let_through(i, "send")' = {} /\ let_through(i, "recv")' = {}
    BY <1>2, <1>6, <2>4 DEF let_through
  <2>6. PortQueues(i)'
    BY <1>4, <1>6, <2>1, <2>2 DEF PortQueues
  <2>7. CallsDated(i)'
    BY <1>2, <1>6, <2>2, <2>4 DEF CallsDated, at_port
  <2>8. NobodyOutside(i)' /\ ClearedByOne(i)'
    BY <1>6, <2>1, <2>3 DEF NobodyOutside, ClearedByOne
  <2>9. PlacesCounted(i)' /\ MessagesCounted(i)' /\ MessagesDated(i)'
    <3>1. Cardinality({}) = 0
      BY FS_EmptySet
    <3>2. Len(port'.msgs[i]) = 0
      BY <1>6
    <3>3. Cardinality(let_through(i, "send")') = 0 /\ Cardinality(let_through(i, "recv")') = 0
      BY <2>5, <3>1, Zenon
    <3> QED
      BY <1>3, <1>4, <1>6, <3>2, <3>3 DEF PlacesCounted, MessagesCounted, MessagesDated
  <2> QED
    BY <2>6, <2>7, <2>8, <2>9 DEF PortSound
<1>9. NodesCounted'
  <2>1. \A j \in Ports \ {i} : port'.state[j] = port.state[j] /\ port'.msgs[j] = port.msgs[j]
    BY <1>7 DEF LeftAlone
  <2>2. list_length(i) = 0 /\ list_length(i)' = 0
    BY <1>1, <1>6 DEF list_length
  <2>3. port'.free = port.free + list_length(i) - list_length(i)'
    BY <1>2, <2>2 DEF PortIInv, PortTypeOK
  <2> QED
    BY <1>5, <2>1, <2>3, NodesMove DEF PortIInv
<1> QED
  BY <1>5, <1>7, <1>8, <1>9, OthersSound DEF PortIInv

(* ptsend waits for a place, or is let through at once.                    *)
LEMMA SendSound ==
  ASSUME PortIInv, NEW p \in PortUsers, NEW i \in Ports, ptsend(p, i)
  PROVE  PortIInv'
<1>1. PICK d, c : /\ d = waited(port.ssem[i], p)
                  /\ c = [NoCall EXCEPT !.at = IF blocks(port.ssem[i]) THEN "wait_space" ELSE "send",
                                        !.id = i, !.seq = port.seq[i]]
  OBVIOUS
<1>2. /\ port'.state = port.state /\ port'.seq = port.seq /\ port'.maxcnt = port.maxcnt
      /\ port'.msgs = port.msgs /\ port'.rsem = port.rsem
      /\ port'.nextid = port.nextid /\ port'.free = port.free
      /\ port'.ssem = [port.ssem EXCEPT ![i] = d]
      /\ port'.call = [port.call EXCEPT ![p] = c]
      /\ port' = [state |-> port'.state, seq |-> port'.seq, maxcnt |-> port'.maxcnt, msgs |-> port'.msgs,
                  ssem |-> port'.ssem, rsem |-> port'.rsem, nextid |-> port'.nextid, free |-> port'.free,
                  call |-> port'.call, off |-> port'.off, panicked |-> port'.panicked]
  BY <1>1 DEF ptsend, PortIInv, PortTypeOK
<1>3. port.state[i] = "PT_ALLOC" /\ port.call[p].at = "idle" /\ port.seq[i] \in Nat /\ port.maxcnt[i] \in Nat
  BY DEF ptsend, port_at, PortIInv, PortTypeOK
<1>4. /\ c \in PortCalls /\ c.id = i /\ c.seq = port.seq[i]
      /\ c.at = IF blocks(port.ssem[i]) THEN "wait_space" ELSE "send"
  BY <1>1, <1>3 DEF NoCall, PortCalls, PortPoints
<1>5. PortSound(i)
  BY DEF PortIInv
<1>6. /\ IsSem(port.ssem[i], PortUsers) /\ ToSet(port.ssem[i].squeue) = at_port(i, "wait_space")
      /\ p \notin at_port(i, "wait_space")
  BY <1>3, <1>5 DEF PortSound, PortQueues, at_port
<1>7. /\ IsSem(d, PortUsers)
      /\ blocks(port.ssem[i]) =>
           /\ ToSet(d.squeue) = at_port(i, "wait_space") \cup {p}
           /\ counted(port.ssem[i]) = 0 /\ counted(d) = 0
      /\ ~blocks(port.ssem[i]) =>
           /\ ToSet(d.squeue) = at_port(i, "wait_space")
           /\ counted(port.ssem[i]) > 0 /\ counted(d) = counted(port.ssem[i]) - 1
  BY <1>1, <1>6, SemWaited
<1>8. PortTypeOK'
  BY <1>2, <1>4, <1>7 DEF PortTypeOK, PortIInv, IsSem
<1>9. /\ port'.ssem[i] = d /\ port'.call[p] = c
      /\ \A q \in PortUsers \ {p} : port'.call[q] = port.call[q]
  BY <1>2 DEF PortTypeOK, PortIInv
<1>10. \A j \in Ports \ {i} : LeftAlone(j)
  BY <1>2, <1>3, <1>4, <1>9 DEF LeftAlone, PortTypeOK, PortIInv
<1>11. PortSound(i)'
  <2>1. /\ at_port(i, "wait_space")' = IF blocks(port.ssem[i]) THEN at_port(i, "wait_space") \cup {p} ELSE at_port(i, "wait_space")
        /\ let_through(i, "send")' = IF blocks(port.ssem[i]) THEN let_through(i, "send") ELSE let_through(i, "send") \cup {p}
        /\ p \notin let_through(i, "send")
    BY <1>2, <1>3, <1>4, <1>9 DEF at_port, let_through
  <2>2. /\ at_port(i, "wait_msg")' = at_port(i, "wait_msg")
        /\ at_port(i, "clear_rsem")' = at_port(i, "clear_rsem")
        /\ at_port(i, "clear_end")' = at_port(i, "clear_end")
        /\ let_through(i, "recv")' = let_through(i, "recv")
    BY <1>2, <1>3, <1>4, <1>9 DEF at_port, let_through
  <2>3. PortQueues(i)'
    BY <1>2, <1>5, <1>7, <1>9, <2>1, <2>2 DEF PortSound, PortQueues
  <2>4. CallsDated(i)'
    BY <1>2, <1>3, <1>4, <1>5, <1>9 DEF PortSound, CallsDated
  <2>5. NobodyOutside(i)'
    BY <1>2, <1>3 DEF NobodyOutside
  <2>6. ClearedByOne(i)'
    <3>1. at_port(i, "clear_rsem") \cup at_port(i, "clear_end") = {}
      BY <1>3, <1>5 DEF PortSound, ClearedByOne, at_port
    <3> QED
      BY <3>1, <2>2 DEF ClearedByOne
  <2>7. PlacesCounted(i)'
    <3>1. counted(port.ssem[i]) + Len(port.msgs[i]) + Cardinality(let_through(i, "send")) = port.maxcnt[i]
      BY <1>3, <1>5 DEF PortSound, PlacesCounted
    <3>2. /\ IsFiniteSet(let_through(i, "send")) /\ Cardinality(let_through(i, "send")) \in Nat
          /\ Len(port.msgs[i]) \in Nat /\ counted(port.ssem[i]) \in Nat
      BY <1>6, LetThroughFinite, CountedNat DEF PortIInv, PortTypeOK
    <3>3. /\ blocks(port.ssem[i]) => Cardinality(let_through(i, "send")') = Cardinality(let_through(i, "send"))
          /\ ~blocks(port.ssem[i]) => Cardinality(let_through(i, "send")') = Cardinality(let_through(i, "send")) + 1
      <4>1. CASE blocks(port.ssem[i])
        <5>1. let_through(i, "send")' = let_through(i, "send")
          BY <2>1, <4>1
        <5> QED
          BY <4>1, <5>1, Zenon
      <4>2. CASE ~blocks(port.ssem[i])
        <5>1. let_through(i, "send")' = let_through(i, "send") \cup {p}
          BY <2>1, <4>2
        <5>2. Cardinality(let_through(i, "send") \cup {p}) = Cardinality(let_through(i, "send")) + 1
          BY <2>1, <3>2, FS_AddElement
        <5>3. Cardinality(let_through(i, "send")') = Cardinality(let_through(i, "send")) + 1
          BY <5>1, <5>2, Zenon
        <5> QED
          BY <4>2, <5>3
      <4> QED
        BY <4>1, <4>2
    <3>4. counted(d) + Len(port.msgs[i]) + Cardinality(let_through(i, "send")') = port.maxcnt[i]
      <4>1. CASE blocks(port.ssem[i])
        BY <1>7, <3>1, <3>2, <3>3, <4>1
      <4>2. CASE ~blocks(port.ssem[i])
        <5>1. counted(d) = counted(port.ssem[i]) - 1
          BY <1>7, <4>2
        <5>2. Cardinality(let_through(i, "send")') = Cardinality(let_through(i, "send")) + 1
          BY <3>3, <4>2
        <5>3. PICK k, l, x : /\ k = counted(port.ssem[i]) /\ l = Len(port.msgs[i])
                            /\ x = Cardinality(let_through(i, "send"))
          OBVIOUS
        <5>4. k \in Nat /\ l \in Nat /\ x \in Nat /\ k + l + x = port.maxcnt[i]
          BY <3>1, <3>2, <5>3
        <5>5. (k - 1) + l + (x + 1) = port.maxcnt[i]
          BY <5>4
        <5> QED
          BY <5>1, <5>2, <5>3, <5>5
      <4> QED
        BY <4>1, <4>2
    <3> QED
      BY <1>2, <1>9, <3>4 DEF PlacesCounted
  <2>8. MessagesCounted(i)' /\ MessagesDated(i)'
    BY <1>2, <1>5, <2>2 DEF PortSound, MessagesCounted, MessagesDated
  <2> QED
    BY <2>3, <2>4, <2>5, <2>6, <2>7, <2>8 DEF PortSound
<1>12. NodesCounted'
  BY <1>2 DEF PortIInv, NodesCounted, nodes_used, Allocated
<1> QED
  BY <1>8, <1>10, <1>11, <1>12, OthersSound DEF PortIInv

(* ptrecv waits for a message, or is let through at once.                  *)
LEMMA ReceiveSound ==
  ASSUME PortIInv, NEW p \in PortUsers, NEW i \in Ports, ptrecv(p, i)
  PROVE  PortIInv'
<1>1. PICK d, c : /\ d = waited(port.rsem[i], p)
                  /\ c = [NoCall EXCEPT !.at = IF blocks(port.rsem[i]) THEN "wait_msg" ELSE "recv",
                                        !.id = i, !.seq = port.seq[i]]
  OBVIOUS
<1>2. /\ port'.state = port.state /\ port'.seq = port.seq /\ port'.maxcnt = port.maxcnt
      /\ port'.msgs = port.msgs /\ port'.ssem = port.ssem
      /\ port'.nextid = port.nextid /\ port'.free = port.free
      /\ port'.rsem = [port.rsem EXCEPT ![i] = d]
      /\ port'.call = [port.call EXCEPT ![p] = c]
      /\ port' = [state |-> port'.state, seq |-> port'.seq, maxcnt |-> port'.maxcnt, msgs |-> port'.msgs,
                  ssem |-> port'.ssem, rsem |-> port'.rsem, nextid |-> port'.nextid, free |-> port'.free,
                  call |-> port'.call, off |-> port'.off, panicked |-> port'.panicked]
  BY <1>1 DEF ptrecv, PortIInv, PortTypeOK
<1>3. port.state[i] = "PT_ALLOC" /\ port.call[p].at = "idle" /\ port.seq[i] \in Nat /\ port.maxcnt[i] \in Nat
  BY DEF ptrecv, port_at, PortIInv, PortTypeOK
<1>4. /\ c \in PortCalls /\ c.id = i /\ c.seq = port.seq[i]
      /\ c.at = IF blocks(port.rsem[i]) THEN "wait_msg" ELSE "recv"
  BY <1>1, <1>3 DEF NoCall, PortCalls, PortPoints
<1>5. PortSound(i)
  BY DEF PortIInv
<1>6. /\ IsSem(port.rsem[i], PortUsers) /\ ToSet(port.rsem[i].squeue) = at_port(i, "wait_msg")
      /\ p \notin at_port(i, "wait_msg")
  BY <1>3, <1>5 DEF PortSound, PortQueues, at_port
<1>7. /\ IsSem(d, PortUsers)
      /\ blocks(port.rsem[i]) =>
           /\ ToSet(d.squeue) = at_port(i, "wait_msg") \cup {p}
           /\ counted(port.rsem[i]) = 0 /\ counted(d) = 0
      /\ ~blocks(port.rsem[i]) =>
           /\ ToSet(d.squeue) = at_port(i, "wait_msg")
           /\ counted(port.rsem[i]) > 0 /\ counted(d) = counted(port.rsem[i]) - 1
  BY <1>1, <1>6, SemWaited
<1>8. PortTypeOK'
  BY <1>2, <1>4, <1>7 DEF PortTypeOK, PortIInv, IsSem
<1>9. /\ port'.rsem[i] = d /\ port'.call[p] = c
      /\ \A q \in PortUsers \ {p} : port'.call[q] = port.call[q]
  BY <1>2 DEF PortTypeOK, PortIInv
<1>10. \A j \in Ports \ {i} : LeftAlone(j)
  BY <1>2, <1>3, <1>4, <1>9 DEF LeftAlone, PortTypeOK, PortIInv
<1>11. PortSound(i)'
  <2>1. /\ at_port(i, "wait_msg")' = IF blocks(port.rsem[i]) THEN at_port(i, "wait_msg") \cup {p} ELSE at_port(i, "wait_msg")
        /\ let_through(i, "recv")' = IF blocks(port.rsem[i]) THEN let_through(i, "recv") ELSE let_through(i, "recv") \cup {p}
        /\ p \notin let_through(i, "recv")
    BY <1>2, <1>3, <1>4, <1>9 DEF at_port, let_through
  <2>2. /\ at_port(i, "wait_space")' = at_port(i, "wait_space")
        /\ at_port(i, "clear_rsem")' = at_port(i, "clear_rsem")
        /\ at_port(i, "clear_end")' = at_port(i, "clear_end")
        /\ let_through(i, "send")' = let_through(i, "send")
    BY <1>2, <1>3, <1>4, <1>9 DEF at_port, let_through
  <2>3. PortQueues(i)'
    BY <1>2, <1>5, <1>7, <1>9, <2>1, <2>2 DEF PortSound, PortQueues
  <2>4. CallsDated(i)'
    BY <1>2, <1>3, <1>4, <1>5, <1>9 DEF PortSound, CallsDated
  <2>5. NobodyOutside(i)'
    BY <1>2, <1>3 DEF NobodyOutside
  <2>6. ClearedByOne(i)'
    <3>1. at_port(i, "clear_rsem") \cup at_port(i, "clear_end") = {}
      BY <1>3, <1>5 DEF PortSound, ClearedByOne, at_port
    <3> QED
      BY <3>1, <2>2 DEF ClearedByOne
  <2>7. MessagesCounted(i)'
    <3>1. counted(port.rsem[i]) + Cardinality(let_through(i, "recv")) = Len(port.msgs[i])
      BY <1>3, <1>5 DEF PortSound, MessagesCounted
    <3>2. /\ IsFiniteSet(let_through(i, "recv")) /\ Cardinality(let_through(i, "recv")) \in Nat
          /\ Len(port.msgs[i]) \in Nat /\ counted(port.rsem[i]) \in Nat
      BY <1>6, LetThroughFinite, CountedNat DEF PortIInv, PortTypeOK
    <3>3. /\ blocks(port.rsem[i]) => Cardinality(let_through(i, "recv")') = Cardinality(let_through(i, "recv"))
          /\ ~blocks(port.rsem[i]) => Cardinality(let_through(i, "recv")') = Cardinality(let_through(i, "recv")) + 1
      <4>1. CASE blocks(port.rsem[i])
        <5>1. let_through(i, "recv")' = let_through(i, "recv")
          BY <2>1, <4>1
        <5> QED
          BY <4>1, <5>1, Zenon
      <4>2. CASE ~blocks(port.rsem[i])
        <5>1. let_through(i, "recv")' = let_through(i, "recv") \cup {p}
          BY <2>1, <4>2
        <5>2. Cardinality(let_through(i, "recv") \cup {p}) = Cardinality(let_through(i, "recv")) + 1
          BY <2>1, <3>2, FS_AddElement
        <5>3. Cardinality(let_through(i, "recv")') = Cardinality(let_through(i, "recv")) + 1
          BY <5>1, <5>2, Zenon
        <5> QED
          BY <4>2, <5>3
      <4> QED
        BY <4>1, <4>2
    <3>4. counted(d) + Cardinality(let_through(i, "recv")') = Len(port.msgs[i])
      <4>1. CASE blocks(port.rsem[i])
        BY <1>7, <3>1, <3>2, <3>3, <4>1
      <4>2. CASE ~blocks(port.rsem[i])
        <5>1. counted(d) = counted(port.rsem[i]) - 1
          BY <1>7, <4>2
        <5>2. Cardinality(let_through(i, "recv")') = Cardinality(let_through(i, "recv")) + 1
          BY <3>3, <4>2
        <5> QED
          BY <3>1, <3>2, <5>1, <5>2
      <4> QED
        BY <4>1, <4>2
    <3> QED
      BY <1>2, <1>9, <3>4 DEF MessagesCounted
  <2>8. PlacesCounted(i)' /\ MessagesDated(i)'
    BY <1>2, <1>5, <2>2 DEF PortSound, PlacesCounted, MessagesDated
  <2> QED
    BY <2>3, <2>4, <2>5, <2>6, <2>7, <2>8 DEF PortSound
<1>12. NodesCounted'
  BY <1>2 DEF PortIInv, NodesCounted, nodes_used, Allocated
<1> QED
  BY <1>8, <1>10, <1>11, <1>12, OthersSound DEF PortIInv

(* A process that has returned is at no port.                              *)
LEMMA NoCallTyped == NoCall \in PortCalls /\ NoCall.at = "idle"
BY PortAssumption DEF NoCall, PortCalls, PortPoints, Ports

(* The process of a port that a step lets through, and one that leaves.    *)
LEMMA OneLeaves ==
  ASSUME NEW S, IsFiniteSet(S), NEW p \in S
  PROVE  Cardinality(S) \in Nat \ {0} /\ Cardinality(S \ {p}) = Cardinality(S) - 1
<1>1. Cardinality(S) \in Nat /\ Cardinality(S) # 0
  BY FS_CardinalityType, FS_EmptySet
<1> QED
  BY <1>1, FS_RemoveElement

(* ptsend stores its message and signals: the place it was promised is     *)
(* taken, and a receiver is promised the message.                          *)
LEMMA LinkSound ==
  ASSUME PortIInv, NEW p \in PortUsers, link_message(p)
  PROVE  PortIInv'
<1>1. PICK i, d, S : /\ i = port.call[p].id
                     /\ d = signalled(port.rsem[i]) /\ S = woken(port.rsem[i])
  OBVIOUS
<1>a. i \in Ports
  BY <1>1 DEF PortIInv, PortTypeOK, PortCalls
<1>2. /\ port'.state = port.state /\ port'.seq = port.seq /\ port'.maxcnt = port.maxcnt
      /\ port'.ssem = port.ssem /\ port'.nextid = port.nextid
      /\ port'.free = port.free - 1
      /\ port'.msgs = [port.msgs EXCEPT ![i] = Append(port.msgs[i], port.seq[i])]
      /\ port'.rsem = [port.rsem EXCEPT ![i] = d]
      /\ port'.call = calls(p, NoCall, S)
      /\ port' = [state |-> port'.state, seq |-> port'.seq, maxcnt |-> port'.maxcnt, msgs |-> port'.msgs,
                  ssem |-> port'.ssem, rsem |-> port'.rsem, nextid |-> port'.nextid, free |-> port'.free,
                  call |-> port'.call, off |-> port'.off, panicked |-> port'.panicked]
  BY <1>1, <1>a DEF link_message, still_valid, PortIInv, PortTypeOK
<1>3. /\ port.state[i] = "PT_ALLOC" /\ port.call[p].at = "send" /\ port.call[p].seq = port.seq[i]
      /\ port.free > 0 /\ port.seq[i] \in Nat /\ port.msgs[i] \in Seq(Nat)
  BY <1>1, <1>a DEF link_message, still_valid, still_allocated, port_at, PortIInv, PortTypeOK
<1>4. PortSound(i)
  BY <1>a DEF PortIInv
<1>5. IsSem(port.rsem[i], PortUsers) /\ ToSet(port.rsem[i].squeue) = at_port(i, "wait_msg")
  BY <1>4 DEF PortSound, PortQueues
<1>6. /\ IsSem(d, PortUsers) /\ S \subseteq at_port(i, "wait_msg")
      /\ ToSet(d.squeue) = at_port(i, "wait_msg") \ S
      /\ \/ (\E h \in PortUsers : S = {h}) /\ counted(port.rsem[i]) = 0 /\ counted(d) = 0
         \/ S = {} /\ counted(d) = counted(port.rsem[i]) + 1
  <2>1. LET sem == port.rsem[i] IN
        /\ IsSem(signalled(sem), PortUsers)
        /\ woken(sem) \subseteq ToSet(sem.squeue)
        /\ ToSet(signalled(sem).squeue) = ToSet(sem.squeue) \ woken(sem)
        /\ \/ (\E h \in PortUsers : woken(sem) = {h}) /\ counted(sem) = 0 /\ counted(signalled(sem)) = 0
           \/ woken(sem) = {} /\ counted(signalled(sem)) = counted(sem) + 1
    BY <1>5, SemSignalled
  <2> QED
    BY <1>1, <1>5, <2>1
<1>b. \A q \in S : q \in PortUsers /\ q # p /\ port.call[q].id = i /\ port.call[q].at = "wait_msg"
  BY <1>3, <1>6 DEF at_port
<1>7. /\ port'.call \in [PortUsers -> PortCalls] /\ port'.call[p] = NoCall
      /\ \A q \in PortUsers \ {p} :
           /\ q \in S => port'.call[q].at = "recv" /\ port'.call[q].id = i /\ port'.call[q].seq = port.call[q].seq
           /\ q \notin S => port'.call[q] = port.call[q]
  <2>1. \A q \in S : q \in PortUsers /\ port.call[q].at \in {"wait_space", "wait_msg"}
    BY <1>b
  <2>2. /\ calls(p, NoCall, S) \in [PortUsers -> PortCalls] /\ calls(p, NoCall, S)[p] = NoCall
        /\ \A q \in PortUsers \ {p} :
             /\ q \in S => /\ calls(p, NoCall, S)[q].at = IF port.call[q].at = "wait_space" THEN "send" ELSE "recv"
                           /\ calls(p, NoCall, S)[q].id = port.call[q].id
                           /\ calls(p, NoCall, S)[q].seq = port.call[q].seq
             /\ q \notin S => calls(p, NoCall, S)[q] = port.call[q]
    BY <2>1, NoCallTyped, CallsMove DEF PortIInv
  <2> QED
    BY <1>2, <1>b, <2>2
<1>8. PortTypeOK'
  <2>1. d \in SemEntries(PortUsers)
    BY <1>6 DEF IsSem
  <2>2. Append(port.msgs[i], port.seq[i]) \in Seq(Nat)
    BY <1>3
  <2>3. port.free - 1 \in Nat
    BY <1>3 DEF PortIInv, PortTypeOK
  <2>4. /\ port.rsem \in [Ports -> SemEntries(PortUsers)] /\ port.msgs \in [Ports -> Seq(Nat)]
    BY DEF PortTypeOK, PortIInv
  <2>5. port'.rsem \in [Ports -> SemEntries(PortUsers)]
    BY <1>2, <2>1, <2>4
  <2>6. port'.msgs \in [Ports -> Seq(Nat)] /\ port'.free \in Nat
    BY <1>2, <2>2, <2>3, <2>4
  <2> QED
    BY <1>2, <1>7, <2>5, <2>6 DEF PortTypeOK, PortIInv
<1>9. /\ port'.rsem[i] = d /\ port'.msgs[i] = Append(port.msgs[i], port.seq[i])
      /\ Len(port'.msgs[i]) = Len(port.msgs[i]) + 1 /\ Len(port.msgs[i]) \in Nat
  BY <1>2, <1>3, <1>a DEF PortTypeOK, PortIInv
<1>10. \A j \in Ports \ {i} : LeftAlone(j)
  <2> SUFFICES ASSUME NEW j \in Ports \ {i} PROVE LeftAlone(j)
    OBVIOUS
  <2>1. \A q \in PortUsers :
          \/ port'.call[q] = port.call[q]
          \/ port.call[q].id # j /\ (port'.call[q].at = "idle" \/ port'.call[q].id # j)
    BY <1>1, <1>7, <1>b, NoCallTyped
  <2>2. port'.msgs[j] = port.msgs[j] /\ port'.rsem[j] = port.rsem[j]
    BY <1>2 DEF PortTypeOK, PortIInv
  <2> QED
    BY <1>2, <2>1, <2>2 DEF LeftAlone
<1>11. PortSound(i)'
  <2>a. \A q \in S : /\ q \in PortUsers /\ q # p /\ port.call[q].id = i /\ port.call[q].at = "wait_msg"
                     /\ port.call[q].seq = port.seq[i]
    BY <1>b, <1>3, <1>4 DEF PortSound, CallsDated
  <2>c. /\ port'.call[p].at = "idle" /\ port'.seq[i] = port.seq[i]
        /\ port.call[p].at = "send" /\ port.call[p].id = i /\ port.call[p].seq = port.seq[i]
        /\ \A q \in PortUsers \ {p} :
             /\ q \in S => /\ port'.call[q].at = "recv" /\ port'.call[q].id = i /\ port'.call[q].seq = port.seq[i]
                           /\ port.call[q].at = "wait_msg" /\ port.call[q].id = i
             /\ q \notin S => port'.call[q] = port.call[q]
    <3>1. ASSUME NEW q \in PortUsers \ {p}, q \in S
          PROVE  /\ port'.call[q].at = "recv" /\ port'.call[q].id = i /\ port'.call[q].seq = port.seq[i]
                 /\ port.call[q].at = "wait_msg" /\ port.call[q].id = i
      BY <1>7, <2>a, <3>1
    <3>2. port'.call[p].at = "idle" /\ port'.seq[i] = port.seq[i]
      BY <1>2, <1>7, NoCallTyped
    <3> QED
      BY <1>1, <1>3, <1>7, <3>1, <3>2
  <2>1. /\ at_port(i, "wait_msg")' = at_port(i, "wait_msg") \ S
        /\ let_through(i, "recv")' = let_through(i, "recv") \cup S
        /\ let_through(i, "send")' = let_through(i, "send") \ {p} /\ p \in let_through(i, "send")
    BY <2>a, <2>c DEF at_port, let_through
  <2>2. /\ at_port(i, "wait_space")' = at_port(i, "wait_space")
        /\ at_port(i, "clear_rsem")' = at_port(i, "clear_rsem")
        /\ at_port(i, "clear_end")' = at_port(i, "clear_end")
    BY <2>a, <2>c DEF at_port
  <2>3. PortQueues(i)'
    BY <1>2, <1>4, <1>6, <1>9, <2>1, <2>2 DEF PortSound, PortQueues
  <2>4. CallsDated(i)'
    BY <1>2, <1>3, <1>4, <1>7, <2>a, NoCallTyped DEF PortSound, CallsDated
  <2>5. NobodyOutside(i)'
    BY <1>2, <1>3 DEF NobodyOutside
  <2>6. ClearedByOne(i)'
    <3>1. at_port(i, "clear_rsem") \cup at_port(i, "clear_end") = {}
      BY <1>3, <1>4 DEF PortSound, ClearedByOne, at_port
    <3> QED
      BY <3>1, <2>2 DEF ClearedByOne
  <2>b. /\ IsFiniteSet(let_through(i, "send")) /\ Cardinality(let_through(i, "send")) \in Nat
        /\ IsFiniteSet(let_through(i, "recv")) /\ Cardinality(let_through(i, "recv")) \in Nat
        /\ counted(port.ssem[i]) \in Nat /\ counted(port.rsem[i]) \in Nat
    BY <1>4, LetThroughFinite, CountedNat DEF PortSound, PortQueues
  <2>7. PlacesCounted(i)'
    <3>1. counted(port.ssem[i]) + Len(port.msgs[i]) + Cardinality(let_through(i, "send")) = port.maxcnt[i]
      BY <1>3, <1>4 DEF PortSound, PlacesCounted
    <3>2. Cardinality(let_through(i, "send") \ {p}) = Cardinality(let_through(i, "send")) - 1
      BY <2>1, <2>b, OneLeaves
    <3>3. Cardinality(let_through(i, "send")') = Cardinality(let_through(i, "send")) - 1
      BY <2>1, <3>2, Zenon
    <3>4. counted(port.ssem[i]) + Len(port'.msgs[i]) + Cardinality(let_through(i, "send")') = port.maxcnt[i]
      <4>1. Len(port'.msgs[i]) = Len(port.msgs[i]) + 1 /\ Len(port.msgs[i]) \in Nat
        BY <1>9
      <4>2. Cardinality(let_through(i, "send")) \in Nat /\ counted(port.ssem[i]) \in Nat
        BY <2>b
      <4>3. PICK k, l, x : /\ k = counted(port.ssem[i]) /\ l = Len(port.msgs[i])
                           /\ x = Cardinality(let_through(i, "send"))
        OBVIOUS
      <4>4. k \in Nat /\ l \in Nat /\ x \in Nat /\ k + l + x = port.maxcnt[i]
        BY <3>1, <4>1, <4>2, <4>3
      <4>5. k + (l + 1) + (x - 1) = k + l + x
        BY <4>4
      <4> QED
        BY <3>3, <4>1, <4>3, <4>4, <4>5
    <3> QED
      BY <1>2, <3>4 DEF PlacesCounted
  <2>8. MessagesCounted(i)'
    <3>1. counted(port.rsem[i]) + Cardinality(let_through(i, "recv")) = Len(port.msgs[i])
      BY <1>3, <1>4 DEF PortSound, MessagesCounted
    <3>2. counted(d) + Cardinality(let_through(i, "recv")') = Len(port'.msgs[i])
      <4>1. CASE S = {}
        <5>1. let_through(i, "recv")' = let_through(i, "recv")
          BY <2>1, <4>1
        <5>2. Cardinality(let_through(i, "recv")') = Cardinality(let_through(i, "recv"))
          BY <5>1, Zenon
        <5>3. counted(d) = counted(port.rsem[i]) + 1
          BY <1>6, <4>1
        <5> QED
          BY <1>9, <2>b, <3>1, <5>2, <5>3
      <4>2. CASE S # {}
        <5>1. PICK h \in PortUsers : S = {h} /\ h \notin let_through(i, "recv")
          BY <1>6, <2>a, <4>2 DEF let_through
        <5>2. Cardinality(let_through(i, "recv") \cup {h}) = Cardinality(let_through(i, "recv")) + 1
          BY <2>b, <5>1, FS_AddElement
        <5>3. Cardinality(let_through(i, "recv")') = Cardinality(let_through(i, "recv")) + 1
          BY <2>1, <5>1, <5>2, Zenon
        <5>4. counted(d) = counted(port.rsem[i])
          BY <1>6, <4>2
        <5> QED
          BY <1>9, <2>b, <3>1, <5>3, <5>4
      <4> QED
        BY <4>1, <4>2
    <3> QED
      BY <1>9, <3>2 DEF MessagesCounted
  <2>9. MessagesDated(i)'
    <3>1. \A k \in 1 .. Len(port'.msgs[i]) : port'.msgs[i][k] = port.seq[i]
      BY <1>3, <1>4, <1>9 DEF PortSound, MessagesDated
    <3> QED
      BY <1>2, <3>1 DEF MessagesDated
  <2> QED
    BY <2>3, <2>4, <2>5, <2>6, <2>7, <2>8, <2>9 DEF PortSound
<1>12. NodesCounted'
  <2>1. \A j \in Ports \ {i} : port'.state[j] = port.state[j] /\ port'.msgs[j] = port.msgs[j]
    BY <1>10 DEF LeftAlone
  <2>2. list_length(i) = Len(port.msgs[i]) /\ list_length(i)' = Len(port.msgs[i]) + 1
    BY <1>2, <1>3, <1>9 DEF list_length
  <2>3. port'.free = port.free + list_length(i) - list_length(i)'
    BY <1>2, <1>9, <2>2 DEF PortIInv, PortTypeOK
  <2> QED
    BY <1>a, <1>8, <2>1, <2>3, NodesMove DEF PortIInv
<1> QED
  BY <1>8, <1>10, <1>11, <1>12, OthersSound DEF PortIInv

(* ptrecv takes the first message and signals: the promise is kept, and a  *)
(* sender is promised the place.                                           *)
LEMMA UnlinkSound ==
  ASSUME PortIInv, NEW p \in PortUsers, unlink_message(p)
  PROVE  PortIInv'
<1>1. PICK i, d, S, m : /\ i = port.call[p].id /\ m = Tail(port.msgs[i])
                     /\ d = signalled(port.ssem[i]) /\ S = woken(port.ssem[i])
  OBVIOUS
<1>a. i \in Ports
  BY <1>1 DEF PortIInv, PortTypeOK, PortCalls
<1>2. /\ port'.state = port.state /\ port'.seq = port.seq /\ port'.maxcnt = port.maxcnt
      /\ port'.rsem = port.rsem /\ port'.nextid = port.nextid
      /\ port'.free = port.free + 1
      /\ port'.msgs = [port.msgs EXCEPT ![i] = m]
      /\ port'.ssem = [port.ssem EXCEPT ![i] = d]
      /\ port'.call = calls(p, NoCall, S)
      /\ port' = [state |-> port'.state, seq |-> port'.seq, maxcnt |-> port'.maxcnt, msgs |-> port'.msgs,
                  ssem |-> port'.ssem, rsem |-> port'.rsem, nextid |-> port'.nextid, free |-> port'.free,
                  call |-> port'.call, off |-> port'.off, panicked |-> port'.panicked]
  BY <1>1, <1>a DEF unlink_message, PortIInv, PortTypeOK
<1>3. /\ port.state[i] = "PT_ALLOC" /\ port.call[p].at = "recv" /\ port.call[p].seq = port.seq[i]
      /\ port.seq[i] \in Nat /\ port.msgs[i] \in Seq(Nat)
  BY <1>1, <1>a DEF unlink_message, still_valid, still_allocated, port_at, PortIInv, PortTypeOK
<1>4. PortSound(i)
  BY <1>a DEF PortIInv
<1>c. Len(port.msgs[i]) > 0
  <2>a. p \in let_through(i, "recv")
    BY <1>1, <1>3 DEF let_through
  <2>1. p \in let_through(i, "recv") /\ IsFiniteSet(let_through(i, "recv"))
    BY <2>a, LetThroughFinite
  <2>2. Cardinality(let_through(i, "recv")) \in Nat \ {0}
    BY <2>1, OneLeaves
  <2>3. counted(port.rsem[i]) \in Nat
    BY <1>4, CountedNat DEF PortSound, PortQueues
  <2>4. counted(port.rsem[i]) + Cardinality(let_through(i, "recv")) = Len(port.msgs[i])
    BY <1>3, <1>4 DEF PortSound, MessagesCounted
  <2> QED
    BY <2>2, <2>3, <2>4
<1>5. IsSem(port.ssem[i], PortUsers) /\ ToSet(port.ssem[i].squeue) = at_port(i, "wait_space")
  BY <1>4 DEF PortSound, PortQueues
<1>6. /\ IsSem(d, PortUsers) /\ S \subseteq at_port(i, "wait_space")
      /\ ToSet(d.squeue) = at_port(i, "wait_space") \ S
      /\ \/ (\E h \in PortUsers : S = {h}) /\ counted(port.ssem[i]) = 0 /\ counted(d) = 0
         \/ S = {} /\ counted(d) = counted(port.ssem[i]) + 1
  <2>1. LET sem == port.ssem[i] IN
        /\ IsSem(signalled(sem), PortUsers)
        /\ woken(sem) \subseteq ToSet(sem.squeue)
        /\ ToSet(signalled(sem).squeue) = ToSet(sem.squeue) \ woken(sem)
        /\ \/ (\E h \in PortUsers : woken(sem) = {h}) /\ counted(sem) = 0 /\ counted(signalled(sem)) = 0
           \/ woken(sem) = {} /\ counted(signalled(sem)) = counted(sem) + 1
    BY <1>5, SemSignalled
  <2> QED
    BY <1>1, <1>5, <2>1
<1>b. \A q \in S : q \in PortUsers /\ q # p /\ port.call[q].id = i /\ port.call[q].at = "wait_space"
  BY <1>3, <1>6 DEF at_port
<1>7. /\ port'.call \in [PortUsers -> PortCalls] /\ port'.call[p] = NoCall
      /\ \A q \in PortUsers \ {p} :
           /\ q \in S => port'.call[q].at = "send" /\ port'.call[q].id = i /\ port'.call[q].seq = port.call[q].seq
           /\ q \notin S => port'.call[q] = port.call[q]
  <2>1. \A q \in S : q \in PortUsers /\ port.call[q].at \in {"wait_msg", "wait_space"}
    BY <1>b
  <2>2. /\ calls(p, NoCall, S) \in [PortUsers -> PortCalls] /\ calls(p, NoCall, S)[p] = NoCall
        /\ \A q \in PortUsers \ {p} :
             /\ q \in S => /\ calls(p, NoCall, S)[q].at = IF port.call[q].at = "wait_space" THEN "send" ELSE "recv"
                           /\ calls(p, NoCall, S)[q].id = port.call[q].id
                           /\ calls(p, NoCall, S)[q].seq = port.call[q].seq
             /\ q \notin S => calls(p, NoCall, S)[q] = port.call[q]
    BY <2>1, NoCallTyped, CallsMove DEF PortIInv
  <2> QED
    BY <1>2, <1>b, <2>2
<1>8. PortTypeOK'
  <2>1. d \in SemEntries(PortUsers)
    BY <1>6 DEF IsSem
  <2>2. m \in Seq(Nat)
    BY <1>1, <1>3, <1>c
  <2>3. port.free + 1 \in Nat
    BY DEF PortIInv, PortTypeOK
  <2>4. /\ port'.msgs \in [Ports -> Seq(Nat)]
        /\ port'.ssem \in [Ports -> SemEntries(PortUsers)]
    BY <1>2, <2>1, <2>2 DEF PortTypeOK, PortIInv
  <2>5. /\ port.state \in [Ports -> {"PT_FREE", "PT_LIMBO", "PT_ALLOC"}]
        /\ port.seq \in [Ports -> Nat] /\ port.maxcnt \in [Ports -> Nat]
        /\ port.rsem \in [Ports -> SemEntries(PortUsers)] /\ port.nextid \in Ports
    BY DEF PortTypeOK, PortIInv
  <2> QED
    BY <1>2, <1>7, <2>3, <2>4, <2>5 DEF PortTypeOK
<1>9. /\ port'.ssem[i] = d /\ port'.msgs[i] = m
      /\ Len(port'.msgs[i]) = Len(port.msgs[i]) - 1 /\ Len(port.msgs[i]) \in Nat \ {0}
      /\ \A k \in 1 .. Len(m) : k + 1 \in 1 .. Len(port.msgs[i]) /\ m[k] = port.msgs[i][k + 1]
  <2>1. port'.rsem[i] = port.rsem[i] /\ port'.ssem[i] = d /\ port'.msgs[i] = m
    BY <1>2, <1>a DEF PortTypeOK, PortIInv
  <2>2. /\ Len(m) = Len(port.msgs[i]) - 1 /\ Len(port.msgs[i]) \in Nat \ {0}
        /\ \A k \in 1 .. Len(m) : k + 1 \in 1 .. Len(port.msgs[i]) /\ m[k] = port.msgs[i][k + 1]
    <3>1. m = Tail(port.msgs[i]) /\ port.msgs[i] \in Seq(Nat) /\ port.msgs[i] # << >>
      BY <1>1, <1>3, <1>c
    <3> QED
      BY <3>1
  <2> QED
    BY <2>1, <2>2
<1>10. \A j \in Ports \ {i} : LeftAlone(j)
  <2> SUFFICES ASSUME NEW j \in Ports \ {i} PROVE LeftAlone(j)
    OBVIOUS
  <2>1. \A q \in PortUsers :
          \/ port'.call[q] = port.call[q]
          \/ port.call[q].id # j /\ (port'.call[q].at = "idle" \/ port'.call[q].id # j)
    BY <1>1, <1>7, <1>b, NoCallTyped
  <2>2. port'.msgs[j] = port.msgs[j] /\ port'.ssem[j] = port.ssem[j]
    BY <1>2 DEF PortTypeOK, PortIInv
  <2> QED
    BY <1>2, <2>1, <2>2 DEF LeftAlone
<1>11. PortSound(i)'
  <2>a. \A q \in S : /\ q \in PortUsers /\ q # p /\ port.call[q].id = i /\ port.call[q].at = "wait_space"
                     /\ port.call[q].seq = port.seq[i]
    BY <1>b, <1>3, <1>4 DEF PortSound, CallsDated
  <2>c. /\ port'.call[p].at = "idle" /\ port'.seq[i] = port.seq[i]
        /\ port.call[p].at = "recv" /\ port.call[p].id = i /\ port.call[p].seq = port.seq[i]
        /\ \A q \in PortUsers \ {p} :
             /\ q \in S => /\ port'.call[q].at = "send" /\ port'.call[q].id = i /\ port'.call[q].seq = port.seq[i]
                           /\ port.call[q].at = "wait_space" /\ port.call[q].id = i
             /\ q \notin S => port'.call[q] = port.call[q]
    <3>1. ASSUME NEW q \in PortUsers \ {p}, q \in S
          PROVE  /\ port'.call[q].at = "send" /\ port'.call[q].id = i /\ port'.call[q].seq = port.seq[i]
                 /\ port.call[q].at = "wait_space" /\ port.call[q].id = i
      BY <1>7, <2>a, <3>1
    <3>2. port'.call[p].at = "idle" /\ port'.seq[i] = port.seq[i]
      BY <1>2, <1>7, NoCallTyped
    <3> QED
      BY <1>1, <1>3, <1>7, <3>1, <3>2
  <2>1. /\ at_port(i, "wait_space")' = at_port(i, "wait_space") \ S
        /\ let_through(i, "send")' = let_through(i, "send") \cup S
        /\ let_through(i, "recv")' = let_through(i, "recv") \ {p} /\ p \in let_through(i, "recv")
    BY <2>a, <2>c DEF at_port, let_through
  <2>2. /\ at_port(i, "wait_msg")' = at_port(i, "wait_msg")
        /\ at_port(i, "clear_rsem")' = at_port(i, "clear_rsem")
        /\ at_port(i, "clear_end")' = at_port(i, "clear_end")
    BY <2>a, <2>c DEF at_port
  <2>3. PortQueues(i)'
    BY <1>2, <1>4, <1>6, <1>9, <2>1, <2>2 DEF PortSound, PortQueues
  <2>4. CallsDated(i)'
    BY <1>2, <1>3, <1>4, <1>7, <2>a, NoCallTyped DEF PortSound, CallsDated
  <2>5. NobodyOutside(i)'
    BY <1>2, <1>3 DEF NobodyOutside
  <2>6. ClearedByOne(i)'
    <3>1. at_port(i, "clear_rsem") \cup at_port(i, "clear_end") = {}
      BY <1>3, <1>4 DEF PortSound, ClearedByOne, at_port
    <3> QED
      BY <3>1, <2>2 DEF ClearedByOne
  <2>b. /\ IsFiniteSet(let_through(i, "recv")) /\ Cardinality(let_through(i, "recv")) \in Nat
        /\ IsFiniteSet(let_through(i, "send")) /\ Cardinality(let_through(i, "send")) \in Nat
        /\ counted(port.rsem[i]) \in Nat /\ counted(port.ssem[i]) \in Nat
    BY <1>4, LetThroughFinite, CountedNat DEF PortSound, PortQueues
  <2>7. PlacesCounted(i)'
    <3>1. counted(port.ssem[i]) + Len(port.msgs[i]) + Cardinality(let_through(i, "send")) = port.maxcnt[i]
      BY <1>3, <1>4 DEF PortSound, PlacesCounted
    <3>2. counted(d) + Cardinality(let_through(i, "send")') = counted(port.ssem[i]) + Cardinality(let_through(i, "send")) + 1
      <4>1. CASE S = {}
        <5>1. let_through(i, "send")' = let_through(i, "send")
          BY <2>1, <4>1
        <5>2. Cardinality(let_through(i, "send")') = Cardinality(let_through(i, "send"))
          BY <5>1, Zenon
        <5>3. counted(d) = counted(port.ssem[i]) + 1
          BY <1>6, <4>1
        <5> QED
          BY <2>b, <5>2, <5>3
      <4>2. CASE S # {}
        <5>1. PICK h \in PortUsers : S = {h} /\ h \notin let_through(i, "send")
          BY <1>6, <2>a, <4>2 DEF let_through
        <5>2. Cardinality(let_through(i, "send") \cup {h}) = Cardinality(let_through(i, "send")) + 1
          BY <2>b, <5>1, FS_AddElement
        <5>3. Cardinality(let_through(i, "send")') = Cardinality(let_through(i, "send")) + 1
          BY <2>1, <5>1, <5>2, Zenon
        <5>4. counted(d) = counted(port.ssem[i])
          BY <1>6, <4>2
        <5> QED
          BY <2>b, <5>3, <5>4
      <4> QED
        BY <4>1, <4>2
    <3>3. PICK k, l, x, k1, x1 : /\ k = counted(port.ssem[i]) /\ l = Len(port.msgs[i])
                                 /\ x = Cardinality(let_through(i, "send"))
                                 /\ k1 = counted(d) /\ x1 = Cardinality(let_through(i, "send")')
      OBVIOUS
    <3>4. k \in Nat /\ l \in Nat /\ x \in Nat /\ k1 \in Nat /\ x1 \in Nat
      <4>1. counted(d) \in Nat /\ Len(port.msgs[i]) \in Nat
        BY <1>6, <1>9, CountedNat
      <4>2. Cardinality(let_through(i, "send")') \in Nat
        BY <2>1, <2>b, <3>2, LetThroughFinite, FS_Subset, FS_CardinalityType, PortAssumption DEF let_through
      <4> QED
        BY <2>b, <3>3, <4>1, <4>2
    <3>5. k + l + x = port.maxcnt[i] /\ k1 + x1 = k + x + 1
      BY <3>1, <3>2, <3>3
    <3>6. k1 + (l - 1) + x1 = port.maxcnt[i]
      BY <3>4, <3>5
    <3>7. counted(d) + Len(port'.msgs[i]) + Cardinality(let_through(i, "send")') = port'.maxcnt[i]
      BY <1>2, <1>9, <3>3, <3>6
    <3> QED
      BY <1>9, <3>7 DEF PlacesCounted
  <2>8. MessagesCounted(i)'
    <3>1. counted(port.rsem[i]) + Cardinality(let_through(i, "recv")) = Len(port.msgs[i])
      BY <1>3, <1>4 DEF PortSound, MessagesCounted
    <3>2. Cardinality(let_through(i, "recv") \ {p}) = Cardinality(let_through(i, "recv")) - 1
      BY <2>1, <2>b, OneLeaves
    <3>3. Cardinality(let_through(i, "recv")') = Cardinality(let_through(i, "recv")) - 1
      BY <2>1, <3>2, Zenon
    <3>4. PICK k, x : k = counted(port.rsem[i]) /\ x = Cardinality(let_through(i, "recv"))
      OBVIOUS
    <3>5. k \in Nat /\ x \in Nat /\ k + x = Len(port.msgs[i])
      BY <2>b, <3>1, <3>4
    <3>6. k + (x - 1) = Len(port'.msgs[i])
      BY <1>9, <3>5
    <3> QED
      BY <1>2, <3>3, <3>4, <3>6 DEF MessagesCounted
  <2>9. MessagesDated(i)'
    <3>1. \A k \in 1 .. Len(port'.msgs[i]) : port'.msgs[i][k] = port.seq[i]
      BY <1>3, <1>4, <1>9 DEF PortSound, MessagesDated
    <3> QED
      BY <1>2, <3>1 DEF MessagesDated
  <2> QED
    BY <2>3, <2>4, <2>5, <2>6, <2>7, <2>8, <2>9 DEF PortSound
<1>12. NodesCounted'
  <2>1. \A j \in Ports \ {i} : port'.state[j] = port.state[j] /\ port'.msgs[j] = port.msgs[j]
    BY <1>10 DEF LeftAlone
  <2>2. list_length(i) = Len(port.msgs[i]) /\ list_length(i)' = Len(port.msgs[i]) - 1
    BY <1>2, <1>3, <1>9 DEF list_length
  <2>3. port'.free = port.free + list_length(i) - list_length(i)'
    BY <1>2, <1>9, <2>2 DEF PortIInv, PortTypeOK
  <2> QED
    BY <1>a, <1>8, <2>1, <2>3, NodesMove DEF PortIInv
<1> QED
  BY <1>8, <1>10, <1>11, <1>12, OthersSound DEF PortIInv

(* A call that finds its port gone ends.                                   *)
LEMMA FailSound ==
  ASSUME PortIInv, NEW p \in PortUsers, ptsend_fail(p) \/ ptrecv_fail(p)
  PROVE  PortIInv'
<1>1. PICK i : i = port.call[p].id
  OBVIOUS
<1>a. i \in Ports
  BY <1>1 DEF PortIInv, PortTypeOK, PortCalls
<1>2. /\ port'.state = port.state /\ port'.seq = port.seq /\ port'.maxcnt = port.maxcnt
      /\ port'.ssem = port.ssem /\ port'.rsem = port.rsem /\ port'.nextid = port.nextid
      /\ port'.free = port.free /\ port'.msgs = port.msgs
      /\ port'.call = [port.call EXCEPT ![p] = NoCall]
      /\ port' = [state |-> port'.state, seq |-> port'.seq, maxcnt |-> port'.maxcnt, msgs |-> port'.msgs,
                  ssem |-> port'.ssem, rsem |-> port'.rsem, nextid |-> port'.nextid, free |-> port'.free,
                  call |-> port'.call, off |-> port'.off, panicked |-> port'.panicked]
  BY DEF ptsend_fail, ptrecv_fail, PortIInv, PortTypeOK
<1>3. /\ port.call[p].at \in {"send", "recv"}
      /\ ~(port.state[i] = "PT_ALLOC" /\ port.seq[i] = port.call[p].seq)
  BY <1>1 DEF ptsend_fail, ptrecv_fail, still_valid, still_allocated, port_at
<1>4. PortTypeOK'
  BY <1>2, NoCallTyped DEF PortTypeOK, PortIInv
<1>5. port'.call[p].at = "idle" /\ \A q \in PortUsers \ {p} : port'.call[q] = port.call[q]
  BY <1>2, NoCallTyped DEF PortTypeOK, PortIInv
<1>6. \A j \in Ports \ {i} : LeftAlone(j)
  BY <1>1, <1>2, <1>5 DEF LeftAlone
<1>7. PortSound(i)'
  <2>1. PortSound(i)
    BY <1>a DEF PortIInv
  <2>2. /\ at_port(i, "wait_space")' = at_port(i, "wait_space")
        /\ at_port(i, "wait_msg")' = at_port(i, "wait_msg")
        /\ at_port(i, "clear_rsem")' = at_port(i, "clear_rsem")
        /\ at_port(i, "clear_end")' = at_port(i, "clear_end")
    BY <1>3, <1>5 DEF at_port
  <2>3. port.state[i] = "PT_ALLOC" => /\ let_through(i, "send")' = let_through(i, "send")
                                      /\ let_through(i, "recv")' = let_through(i, "recv")
    BY <1>1, <1>2, <1>3, <1>5 DEF let_through
  <2>4. PortQueues(i)' /\ NobodyOutside(i)'
    BY <1>2, <2>1, <2>2 DEF PortSound, PortQueues, NobodyOutside
  <2>5. CallsDated(i)'
    BY <1>2, <1>5, <2>1 DEF PortSound, CallsDated
  <2>6. ClearedByOne(i)'
    BY <1>2, <1>5, <2>1, <2>2 DEF PortSound, ClearedByOne, at_port
  <2>7. PlacesCounted(i)' /\ MessagesCounted(i)' /\ MessagesDated(i)'
    BY <1>2, <2>1, <2>3 DEF PortSound, PlacesCounted, MessagesCounted, MessagesDated
  <2> QED
    BY <2>4, <2>5, <2>6, <2>7 DEF PortSound
<1>8. NodesCounted'
  BY <1>2 DEF PortIInv, NodesCounted, nodes_used, Allocated
<1> QED
  BY <1>4, <1>6, <1>7, <1>8, OthersSound DEF PortIInv

(* ptsend without a free node panics, and changes no book.                 *)
LEMMA PanicSound ==
  ASSUME PortIInv, NEW p \in PortUsers, ptsend_panic(p)
  PROVE  PortIInv'
<1>1. /\ port'.state = port.state /\ port'.seq = port.seq /\ port'.maxcnt = port.maxcnt
      /\ port'.ssem = port.ssem /\ port'.rsem = port.rsem /\ port'.nextid = port.nextid
      /\ port'.free = port.free /\ port'.msgs = port.msgs /\ port'.call = port.call
      /\ port' = [state |-> port'.state, seq |-> port'.seq, maxcnt |-> port'.maxcnt, msgs |-> port'.msgs,
                  ssem |-> port'.ssem, rsem |-> port'.rsem, nextid |-> port'.nextid, free |-> port'.free,
                  call |-> port'.call, off |-> port'.off, panicked |-> port'.panicked]
  BY DEF ptsend_panic, PortIInv, PortTypeOK
<1>2. PortTypeOK'
  BY <1>1 DEF PortTypeOK, PortIInv
<1>3. \A j \in Ports : LeftAlone(j)
  BY <1>1 DEF LeftAlone
<1>4. \A j \in Ports : PortSound(j)'
  BY <1>3, LeftAloneSound DEF PortIInv
<1>5. NodesCounted'
  BY <1>1 DEF PortIInv, NodesCounted, nodes_used, Allocated
<1> QED
  BY <1>2, <1>4, <1>5 DEF PortIInv

(* kill of a process that waits for a place leaves the queue and the       *)
(* count in step.                                                          *)
LEMMA KillSenderSound ==
  ASSUME PortIInv, NEW p \in PortUsers, port.call[p].at = "wait_space",
         port' = [port EXCEPT !.ssem[port.call[p].id] = killed(@, p), !.call[p] = NoCall]
  PROVE  PortIInv'
<1>1. PICK i, d : i = port.call[p].id /\ d = killed(port.ssem[i], p)
  OBVIOUS
<1>a. i \in Ports
  BY <1>1 DEF PortIInv, PortTypeOK, PortCalls
<1>2. /\ port'.state = port.state /\ port'.seq = port.seq /\ port'.maxcnt = port.maxcnt
      /\ port'.rsem = port.rsem /\ port'.nextid = port.nextid
      /\ port'.free = port.free /\ port'.msgs = port.msgs
      /\ port'.ssem = [port.ssem EXCEPT ![i] = d]
      /\ port'.call = [port.call EXCEPT ![p] = NoCall]
      /\ port' = [state |-> port'.state, seq |-> port'.seq, maxcnt |-> port'.maxcnt, msgs |-> port'.msgs,
                  ssem |-> port'.ssem, rsem |-> port'.rsem, nextid |-> port'.nextid, free |-> port'.free,
                  call |-> port'.call, off |-> port'.off, panicked |-> port'.panicked]
  BY <1>1 DEF PortIInv, PortTypeOK
<1>3. PortSound(i)
  BY <1>a DEF PortIInv
<1>4. /\ IsSem(port.ssem[i], PortUsers) /\ ToSet(port.ssem[i].squeue) = at_port(i, "wait_space")
      /\ p \in ToSet(port.ssem[i].squeue)
  BY <1>1, <1>3 DEF PortSound, PortQueues, at_port
<1>5. /\ IsSem(d, PortUsers) /\ ToSet(d.squeue) = at_port(i, "wait_space") \ {p}
      /\ counted(port.ssem[i]) = 0 /\ counted(d) = 0
  <2>1. d = killed(port.ssem[i], p)
    BY <1>1
  <2> QED
    BY <1>4, <2>1, SemKilled
<1>6. PortTypeOK'
  <2>1. d \in SemEntries(PortUsers) /\ NoCall \in PortCalls
    BY <1>5, NoCallTyped DEF IsSem
  <2>2. /\ port.ssem \in [Ports -> SemEntries(PortUsers)] /\ port.call \in [PortUsers -> PortCalls]
        /\ port.state \in [Ports -> {"PT_FREE", "PT_LIMBO", "PT_ALLOC"}]
        /\ port.seq \in [Ports -> Nat] /\ port.maxcnt \in [Ports -> Nat]
        /\ port.msgs \in [Ports -> Seq(Nat)] /\ port.free \in Nat
        /\ port.rsem \in [Ports -> SemEntries(PortUsers)] /\ port.nextid \in Ports
    BY DEF PortTypeOK, PortIInv
  <2>3. port'.ssem \in [Ports -> SemEntries(PortUsers)] /\ port'.call \in [PortUsers -> PortCalls]
    <3>1. port'.ssem = [port.ssem EXCEPT ![i] = d]
      BY <1>2
    <3>2. port'.call = [port.call EXCEPT ![p] = NoCall]
      BY <1>2
    <3>3. [port.ssem EXCEPT ![i] = d] \in [Ports -> SemEntries(PortUsers)]
      BY <2>1, <2>2
    <3>4. [port.call EXCEPT ![p] = NoCall] \in [PortUsers -> PortCalls]
      BY <2>1, <2>2
    <3> QED
      BY <3>1, <3>2, <3>3, <3>4
  <2> QED
    BY <1>2, <2>2, <2>3 DEF PortTypeOK
<1>7. /\ port'.ssem[i] = d /\ port'.call[p].at = "idle"
      /\ \A q \in PortUsers \ {p} : port'.call[q] = port.call[q]
  BY <1>2, <1>a, NoCallTyped DEF PortTypeOK, PortIInv
<1>8. \A j \in Ports \ {i} : LeftAlone(j)
  BY <1>1, <1>2, <1>7 DEF LeftAlone, PortTypeOK, PortIInv
<1>9. PortSound(i)'
  <2>1. /\ at_port(i, "wait_space")' = at_port(i, "wait_space") \ {p}
        /\ at_port(i, "wait_msg")' = at_port(i, "wait_msg")
        /\ at_port(i, "clear_rsem")' = at_port(i, "clear_rsem")
        /\ at_port(i, "clear_end")' = at_port(i, "clear_end")
        /\ let_through(i, "send")' = let_through(i, "send")
        /\ let_through(i, "recv")' = let_through(i, "recv")
    <3>1. port.call[p].at = "wait_space" /\ port.call[p].id = i
      BY <1>1
    <3>2. at_port(i, "wait_space")' = at_port(i, "wait_space") \ {p}
      BY <1>7, <3>1 DEF at_port
    <3>3. /\ at_port(i, "wait_msg")' = at_port(i, "wait_msg")
          /\ at_port(i, "clear_rsem")' = at_port(i, "clear_rsem")
          /\ at_port(i, "clear_end")' = at_port(i, "clear_end")
      BY <1>7, <3>1 DEF at_port
    <3>4. /\ let_through(i, "send")' = let_through(i, "send")
          /\ let_through(i, "recv")' = let_through(i, "recv")
      BY <1>2, <1>7, <3>1 DEF let_through
    <3> QED
      BY <3>2, <3>3, <3>4
  <2>2. PortQueues(i)'
    BY <1>2, <1>3, <1>5, <1>7, <2>1 DEF PortSound, PortQueues
  <2>3. NobodyOutside(i)'
    BY <1>2, <1>3, <2>1 DEF PortSound, NobodyOutside
  <2>4. CallsDated(i)'
    BY <1>2, <1>3, <1>7 DEF PortSound, CallsDated
  <2>5. ClearedByOne(i)'
    <3>1. at_port(i, "clear_rsem") \cup at_port(i, "clear_end") = {}
      BY <1>1, <1>3, <1>4 DEF PortSound, ClearedByOne, NobodyOutside, at_port
    <3> QED
      BY <3>1, <2>1 DEF ClearedByOne
  <2>6. PlacesCounted(i)' /\ MessagesCounted(i)' /\ MessagesDated(i)'
    BY <1>2, <1>3, <1>5, <1>7, <2>1 DEF PortSound, PlacesCounted, MessagesCounted, MessagesDated
  <2> QED
    BY <2>2, <2>3, <2>4, <2>5, <2>6 DEF PortSound
<1>10. NodesCounted'
  BY <1>2 DEF PortIInv, NodesCounted, nodes_used, Allocated
<1> QED
  BY <1>6, <1>8, <1>9, <1>10, OthersSound DEF PortIInv

(* kill of a process that waits for a message does the same.               *)
LEMMA KillReceiverSound ==
  ASSUME PortIInv, NEW p \in PortUsers, port.call[p].at = "wait_msg",
         port' = [port EXCEPT !.rsem[port.call[p].id] = killed(@, p), !.call[p] = NoCall]
  PROVE  PortIInv'
<1>1. PICK i, d : i = port.call[p].id /\ d = killed(port.rsem[i], p)
  OBVIOUS
<1>a. i \in Ports
  BY <1>1 DEF PortIInv, PortTypeOK, PortCalls
<1>2. /\ port'.state = port.state /\ port'.seq = port.seq /\ port'.maxcnt = port.maxcnt
      /\ port'.ssem = port.ssem /\ port'.nextid = port.nextid
      /\ port'.free = port.free /\ port'.msgs = port.msgs
      /\ port'.rsem = [port.rsem EXCEPT ![i] = d]
      /\ port'.call = [port.call EXCEPT ![p] = NoCall]
      /\ port' = [state |-> port'.state, seq |-> port'.seq, maxcnt |-> port'.maxcnt, msgs |-> port'.msgs,
                  ssem |-> port'.ssem, rsem |-> port'.rsem, nextid |-> port'.nextid, free |-> port'.free,
                  call |-> port'.call, off |-> port'.off, panicked |-> port'.panicked]
  BY <1>1 DEF PortIInv, PortTypeOK
<1>3. PortSound(i)
  BY <1>a DEF PortIInv
<1>4. /\ IsSem(port.rsem[i], PortUsers) /\ ToSet(port.rsem[i].squeue) = at_port(i, "wait_msg")
      /\ p \in ToSet(port.rsem[i].squeue)
  BY <1>1, <1>3 DEF PortSound, PortQueues, at_port
<1>5. /\ IsSem(d, PortUsers) /\ ToSet(d.squeue) = at_port(i, "wait_msg") \ {p}
      /\ counted(port.rsem[i]) = 0 /\ counted(d) = 0
  <2>1. d = killed(port.rsem[i], p)
    BY <1>1
  <2> QED
    BY <1>4, <2>1, SemKilled
<1>6. PortTypeOK'
  <2>1. d \in SemEntries(PortUsers) /\ NoCall \in PortCalls
    BY <1>5, NoCallTyped DEF IsSem
  <2>2. /\ port.rsem \in [Ports -> SemEntries(PortUsers)] /\ port.call \in [PortUsers -> PortCalls]
        /\ port.state \in [Ports -> {"PT_FREE", "PT_LIMBO", "PT_ALLOC"}]
        /\ port.seq \in [Ports -> Nat] /\ port.maxcnt \in [Ports -> Nat]
        /\ port.msgs \in [Ports -> Seq(Nat)] /\ port.free \in Nat
        /\ port.ssem \in [Ports -> SemEntries(PortUsers)] /\ port.nextid \in Ports
    BY DEF PortTypeOK, PortIInv
  <2>3. port'.rsem \in [Ports -> SemEntries(PortUsers)] /\ port'.call \in [PortUsers -> PortCalls]
    <3>1. port'.rsem = [port.rsem EXCEPT ![i] = d]
      BY <1>2
    <3>2. port'.call = [port.call EXCEPT ![p] = NoCall]
      BY <1>2
    <3>3. [port.rsem EXCEPT ![i] = d] \in [Ports -> SemEntries(PortUsers)]
      BY <2>1, <2>2
    <3>4. [port.call EXCEPT ![p] = NoCall] \in [PortUsers -> PortCalls]
      BY <2>1, <2>2
    <3> QED
      BY <3>1, <3>2, <3>3, <3>4
  <2> QED
    BY <1>2, <2>2, <2>3 DEF PortTypeOK
<1>7. /\ port'.rsem[i] = d /\ port'.call[p].at = "idle"
      /\ \A q \in PortUsers \ {p} : port'.call[q] = port.call[q]
  BY <1>2, <1>a, NoCallTyped DEF PortTypeOK, PortIInv
<1>8. \A j \in Ports \ {i} : LeftAlone(j)
  BY <1>1, <1>2, <1>7 DEF LeftAlone, PortTypeOK, PortIInv
<1>9. PortSound(i)'
  <2>1. /\ at_port(i, "wait_msg")' = at_port(i, "wait_msg") \ {p}
        /\ at_port(i, "wait_space")' = at_port(i, "wait_space")
        /\ at_port(i, "clear_rsem")' = at_port(i, "clear_rsem")
        /\ at_port(i, "clear_end")' = at_port(i, "clear_end")
        /\ let_through(i, "send")' = let_through(i, "send")
        /\ let_through(i, "recv")' = let_through(i, "recv")
    <3>1. port.call[p].at = "wait_msg" /\ port.call[p].id = i
      BY <1>1
    <3>2. at_port(i, "wait_msg")' = at_port(i, "wait_msg") \ {p}
      BY <1>7, <3>1 DEF at_port
    <3>3. /\ at_port(i, "wait_space")' = at_port(i, "wait_space")
          /\ at_port(i, "clear_rsem")' = at_port(i, "clear_rsem")
          /\ at_port(i, "clear_end")' = at_port(i, "clear_end")
      BY <1>7, <3>1 DEF at_port
    <3>4. /\ let_through(i, "send")' = let_through(i, "send")
          /\ let_through(i, "recv")' = let_through(i, "recv")
      BY <1>2, <1>7, <3>1 DEF let_through
    <3> QED
      BY <3>2, <3>3, <3>4
  <2>2. PortQueues(i)'
    BY <1>2, <1>3, <1>5, <1>7, <2>1 DEF PortSound, PortQueues
  <2>3. NobodyOutside(i)'
    BY <1>2, <1>3, <2>1 DEF PortSound, NobodyOutside
  <2>4. CallsDated(i)'
    BY <1>2, <1>3, <1>7 DEF PortSound, CallsDated
  <2>5. ClearedByOne(i)'
    <3>1. at_port(i, "clear_end") = {}
      BY <1>3, <1>4, SemCreated DEF PortSound, ClearedByOne, at_port
    <3>2. p \notin at_port(i, "clear_rsem")
      BY DEF at_port
    <3>3. \A q \in at_port(i, "clear_rsem") : q \in PortUsers /\ port'.call[q] = port.call[q] /\ port.call[q].at = "clear_rsem"
      BY <1>7, <3>2 DEF at_port
    <3>4. at_port(i, "clear_rsem")' \cup at_port(i, "clear_end")' = at_port(i, "clear_rsem")
      BY <2>1, <3>1
    <3> QED
      BY <1>2, <1>3, <3>1, <3>3, <3>4 DEF PortSound, ClearedByOne
  <2>6. PlacesCounted(i)' /\ MessagesCounted(i)' /\ MessagesDated(i)'
    BY <1>2, <1>3, <1>5, <1>7, <2>1 DEF PortSound, PlacesCounted, MessagesCounted, MessagesDated
  <2> QED
    BY <2>2, <2>3, <2>4, <2>5, <2>6 DEF PortSound
<1>10. NodesCounted'
  BY <1>2 DEF PortIInv, NodesCounted, nodes_used, Allocated
<1> QED
  BY <1>6, <1>8, <1>9, <1>10, OthersSound DEF PortIInv

(* ptreset and ptdelete put the port in limbo, empty its list when it is   *)
(* asked for, and let all senders go with an old date.                     *)
LEMMA ClearSound ==
  ASSUME PortIInv, NEW p \in PortUsers, NEW i \in Ports, NEW newstate \in {"PT_FREE", "PT_ALLOC"},
         ptclear(p, i, newstate)
  PROVE  PortIInv'
<1>1. PICK c, S, m : /\ c = [NoCall EXCEPT !.at = "clear_rsem", !.id = i, !.newstate = newstate]
                     /\ S = all_of(port.ssem[i])
                     /\ m = IF newstate = "PT_ALLOC" THEN << >> ELSE port.msgs[i]
  OBVIOUS
<1>2. /\ port'.state = [port.state EXCEPT ![i] = "PT_LIMBO"]
      /\ port'.seq = [port.seq EXCEPT ![i] = @ + 1]
      /\ port'.maxcnt = port.maxcnt
      /\ port'.msgs = [port.msgs EXCEPT ![i] = m]
      /\ port'.ssem = [port.ssem EXCEPT ![i] = semcreate(port.maxcnt[i])]
      /\ port'.rsem = port.rsem /\ port'.nextid = port.nextid
      /\ port'.free = port.free + Len(port.msgs[i])
      /\ port'.call = calls(p, c, S)
      /\ port' = [state |-> port'.state, seq |-> port'.seq, maxcnt |-> port'.maxcnt, msgs |-> port'.msgs,
                  ssem |-> port'.ssem, rsem |-> port'.rsem, nextid |-> port'.nextid, free |-> port'.free,
                  call |-> port'.call, off |-> port'.off, panicked |-> port'.panicked]
  BY <1>1 DEF ptclear, PortIInv, PortTypeOK
<1>3. /\ port.state[i] = "PT_ALLOC" /\ port.call[p].at = "idle"
      /\ port.seq[i] \in Nat /\ port.maxcnt[i] \in Nat /\ port.msgs[i] \in Seq(Nat) /\ port.free \in Nat
  BY DEF ptclear, port_at, PortIInv, PortTypeOK
<1>4. c \in PortCalls /\ c.at = "clear_rsem" /\ c.id = i /\ c.newstate = newstate
  BY <1>1, NoCallTyped DEF NoCall, PortCalls, PortPoints
<1>5. PortSound(i)
  BY DEF PortIInv
<1>6. S = at_port(i, "wait_space")
  BY <1>1, <1>5 DEF all_of, PortSound, PortQueues
<1>a. \A q \in S : q \in PortUsers /\ q # p /\ port.call[q].id = i /\ port.call[q].at = "wait_space"
  BY <1>3, <1>6 DEF at_port
<1>7. /\ port'.call \in [PortUsers -> PortCalls] /\ port'.call[p] = c
      /\ \A q \in PortUsers \ {p} :
           /\ q \in S => port'.call[q].at = "send" /\ port'.call[q].id = i /\ port'.call[q].seq = port.call[q].seq
           /\ q \notin S => port'.call[q] = port.call[q]
  <2>1. \A q \in S : q \in PortUsers /\ port.call[q].at \in {"wait_space", "wait_msg"}
    BY <1>a
  <2>2. /\ calls(p, c, S) \in [PortUsers -> PortCalls] /\ calls(p, c, S)[p] = c
        /\ \A q \in PortUsers \ {p} :
             /\ q \in S => /\ calls(p, c, S)[q].at = IF port.call[q].at = "wait_space" THEN "send" ELSE "recv"
                           /\ calls(p, c, S)[q].id = port.call[q].id
                           /\ calls(p, c, S)[q].seq = port.call[q].seq
             /\ q \notin S => calls(p, c, S)[q] = port.call[q]
    BY <1>4, <2>1, CallsMove DEF PortIInv
  <2> QED
    BY <1>2, <1>a, <2>2
<1>8. /\ IsSem(semcreate(port.maxcnt[i]), PortUsers) /\ ToSet(semcreate(port.maxcnt[i]).squeue) = {}
  BY <1>3, SemCreated
<1>9. PortTypeOK'
  <2>1. semcreate(port.maxcnt[i]) \in SemEntries(PortUsers)
    BY <1>8 DEF IsSem
  <2>2. m \in Seq(Nat)
    <3>1. << >> \in Seq(Nat)
      OBVIOUS
    <3> QED
      BY <1>1, <1>3, <3>1
  <2>3. port.free + Len(port.msgs[i]) \in Nat
    BY <1>3
  <2>4. /\ port.ssem \in [Ports -> SemEntries(PortUsers)] /\ port.rsem \in [Ports -> SemEntries(PortUsers)]
        /\ port.state \in [Ports -> {"PT_FREE", "PT_LIMBO", "PT_ALLOC"}]
        /\ port.seq \in [Ports -> Nat] /\ port.maxcnt \in [Ports -> Nat]
        /\ port.msgs \in [Ports -> Seq(Nat)] /\ port.nextid \in Ports
    BY DEF PortTypeOK, PortIInv
  <2>5. /\ port'.ssem \in [Ports -> SemEntries(PortUsers)] /\ port'.msgs \in [Ports -> Seq(Nat)]
        /\ port'.state \in [Ports -> {"PT_FREE", "PT_LIMBO", "PT_ALLOC"}] /\ port'.seq \in [Ports -> Nat]
    BY <1>2, <2>1, <2>2, <2>4
  <2> QED
    BY <1>2, <1>7, <2>3, <2>4, <2>5 DEF PortTypeOK
<1>10. /\ port'.state[i] = "PT_LIMBO" /\ port'.seq[i] = port.seq[i] + 1 /\ port'.maxcnt[i] = port.maxcnt[i]
       /\ port'.msgs[i] = m /\ port'.ssem[i] = semcreate(port.maxcnt[i]) /\ port'.rsem[i] = port.rsem[i]
  BY <1>2 DEF PortTypeOK, PortIInv
<1>11. \A j \in Ports \ {i} : LeftAlone(j)
  <2> SUFFICES ASSUME NEW j \in Ports \ {i} PROVE LeftAlone(j)
    OBVIOUS
  <2>1. \A q \in PortUsers :
          \/ port'.call[q] = port.call[q]
          \/ /\ port.call[q].at = "idle" \/ port.call[q].id # j
             /\ port'.call[q].at = "idle" \/ port'.call[q].id # j
    BY <1>3, <1>4, <1>7, <1>a
  <2>2. /\ port'.msgs[j] = port.msgs[j] /\ port'.ssem[j] = port.ssem[j]
        /\ port'.state[j] = port.state[j] /\ port'.seq[j] = port.seq[j]
    BY <1>2 DEF PortTypeOK, PortIInv
  <2> QED
    BY <1>2, <2>1, <2>2 DEF LeftAlone
<1>12. PortSound(i)'
  <2>1. /\ at_port(i, "wait_space")' = {}
        /\ at_port(i, "wait_msg")' = at_port(i, "wait_msg")
    <3>1. at_port(i, "wait_space")' = {}
      BY <1>4, <1>6, <1>7 DEF at_port
    <3>2. at_port(i, "wait_msg")' = at_port(i, "wait_msg")
      BY <1>3, <1>4, <1>7, <1>a DEF at_port
    <3> QED
      BY <3>1, <3>2
  <2>2. at_port(i, "clear_rsem") = {} /\ at_port(i, "clear_end") = {}
    BY <1>3, <1>5 DEF PortSound, ClearedByOne, at_port
  <2>3. at_port(i, "clear_rsem")' = {p} /\ at_port(i, "clear_end")' = {}
    BY <1>4, <1>7, <1>a, <2>2 DEF at_port
  <2>4. PortQueues(i)'
    BY <1>5, <1>8, <1>10, <2>1 DEF PortSound, PortQueues
  <2>5. CallsDated(i)'
    <3> SUFFICES ASSUME NEW q \in PortUsers, port'.call[q].id = i,
                        port'.call[q].at \in {"wait_space", "send", "wait_msg", "recv"}
                 PROVE  port'.call[q].seq <= port'.seq[i] /\ port'.call[q].seq # port'.seq[i]
      BY <1>10 DEF CallsDated
    <3>1. /\ q # p /\ port'.call[q].seq = port.call[q].seq /\ port.call[q].id = i
          /\ port.call[q].at \in {"wait_space", "send", "wait_msg", "recv"}
      BY <1>4, <1>7, <1>a
    <3>2. port.call[q].seq <= port.seq[i] /\ port.call[q].seq \in Nat
      BY <1>5, <3>1 DEF PortSound, CallsDated, PortIInv, PortTypeOK, PortCalls
    <3> QED
      BY <1>3, <1>10, <3>1, <3>2
  <2>6. NobodyOutside(i)'
    BY <1>10, <2>1 DEF NobodyOutside
  <2>7. ClearedByOne(i)'
    <3>1. newstate = "PT_ALLOC" => m = << >>
      BY <1>1
    <3> QED
      BY <1>4, <1>7, <1>10, <2>3, <3>1 DEF ClearedByOne
  <2>8. PlacesCounted(i)' /\ MessagesCounted(i)' /\ MessagesDated(i)'
    BY <1>10 DEF PlacesCounted, MessagesCounted, MessagesDated
  <2> QED
    BY <2>4, <2>5, <2>6, <2>7, <2>8 DEF PortSound
<1>13. NodesCounted'
  <2>1. \A j \in Ports \ {i} : port'.state[j] = port.state[j] /\ port'.msgs[j] = port.msgs[j]
    BY <1>11 DEF LeftAlone
  <2>2. list_length(i) = Len(port.msgs[i]) /\ list_length(i)' = 0
    BY <1>3, <1>10 DEF list_length
  <2>3. port'.free = port.free + list_length(i) - list_length(i)'
    BY <1>2, <1>3, <2>2
  <2> QED
    BY <1>9, <2>1, <2>3, NodesMove DEF PortIInv
<1> QED
  BY <1>9, <1>11, <1>12, <1>13, OthersSound DEF PortIInv

(* Then all receivers are let go.                                          *)
LEMMA ClearReceiversSound ==
  ASSUME PortIInv, NEW p \in PortUsers, ptclear_receivers(p)
  PROVE  PortIInv'
<1>1. PICK i, c, S : /\ i = port.call[p].id /\ c = [port.call[p] EXCEPT !.at = "clear_end"]
                     /\ S = all_of(port.rsem[i])
  OBVIOUS
<1>b. i \in Ports
  BY <1>1 DEF PortIInv, PortTypeOK, PortCalls
<1>2. /\ port'.state = port.state /\ port'.seq = port.seq /\ port'.maxcnt = port.maxcnt
      /\ port'.msgs = port.msgs /\ port'.ssem = port.ssem
      /\ port'.rsem = [port.rsem EXCEPT ![i] = semcreate(0)]
      /\ port'.nextid = port.nextid /\ port'.free = port.free
      /\ port'.call = calls(p, c, S)
      /\ port' = [state |-> port'.state, seq |-> port'.seq, maxcnt |-> port'.maxcnt, msgs |-> port'.msgs,
                  ssem |-> port'.ssem, rsem |-> port'.rsem, nextid |-> port'.nextid, free |-> port'.free,
                  call |-> port'.call, off |-> port'.off, panicked |-> port'.panicked]
  BY <1>1 DEF ptclear_receivers, PortIInv, PortTypeOK
<1>3. port.call[p].at = "clear_rsem"
  BY DEF ptclear_receivers, port_at
<1>4. c \in PortCalls /\ c.at = "clear_end" /\ c.id = i /\ c.newstate = port.call[p].newstate
  BY <1>1 DEF PortIInv, PortTypeOK, PortCalls, PortPoints
<1>5. PortSound(i)
  BY <1>b DEF PortIInv
<1>6. S = at_port(i, "wait_msg")
  BY <1>1, <1>5 DEF all_of, PortSound, PortQueues
<1>a. \A q \in S : q \in PortUsers /\ q # p /\ port.call[q].id = i /\ port.call[q].at = "wait_msg"
  BY <1>3, <1>6 DEF at_port
<1>7. /\ port'.call \in [PortUsers -> PortCalls] /\ port'.call[p] = c
      /\ \A q \in PortUsers \ {p} :
           /\ q \in S => port'.call[q].at = "recv" /\ port'.call[q].id = i /\ port'.call[q].seq = port.call[q].seq
           /\ q \notin S => port'.call[q] = port.call[q]
  <2>1. \A q \in S : q \in PortUsers /\ port.call[q].at \in {"wait_space", "wait_msg"}
    BY <1>a
  <2>2. /\ calls(p, c, S) \in [PortUsers -> PortCalls] /\ calls(p, c, S)[p] = c
        /\ \A q \in PortUsers \ {p} :
             /\ q \in S => /\ calls(p, c, S)[q].at = IF port.call[q].at = "wait_space" THEN "send" ELSE "recv"
                           /\ calls(p, c, S)[q].id = port.call[q].id
                           /\ calls(p, c, S)[q].seq = port.call[q].seq
             /\ q \notin S => calls(p, c, S)[q] = port.call[q]
    BY <1>4, <2>1, CallsMove DEF PortIInv
  <2> QED
    BY <1>2, <1>a, <2>2
<1>8. IsSem(semcreate(0), PortUsers) /\ ToSet(semcreate(0).squeue) = {}
  BY SemCreated
<1>9. PortTypeOK'
  <2>1. semcreate(0) \in SemEntries(PortUsers)
    BY <1>8 DEF IsSem
  <2>2. /\ port.ssem \in [Ports -> SemEntries(PortUsers)] /\ port.rsem \in [Ports -> SemEntries(PortUsers)]
        /\ port.state \in [Ports -> {"PT_FREE", "PT_LIMBO", "PT_ALLOC"}]
        /\ port.seq \in [Ports -> Nat] /\ port.maxcnt \in [Ports -> Nat]
        /\ port.msgs \in [Ports -> Seq(Nat)] /\ port.nextid \in Ports /\ port.free \in Nat
    BY DEF PortTypeOK, PortIInv
  <2>3. port'.rsem \in [Ports -> SemEntries(PortUsers)]
    BY <1>2, <2>1, <2>2
  <2> QED
    BY <1>2, <1>7, <2>2, <2>3 DEF PortTypeOK
<1>10. port'.rsem[i] = semcreate(0)
  BY <1>2, <1>b DEF PortTypeOK, PortIInv
<1>11. \A j \in Ports \ {i} : LeftAlone(j)
  <2> SUFFICES ASSUME NEW j \in Ports \ {i} PROVE LeftAlone(j)
    OBVIOUS
  <2>1. \A q \in PortUsers :
          \/ port'.call[q] = port.call[q]
          \/ port.call[q].id # j /\ port'.call[q].id # j
    BY <1>1, <1>4, <1>7, <1>a
  <2>2. port'.rsem[j] = port.rsem[j]
    BY <1>2 DEF PortTypeOK, PortIInv
  <2> QED
    BY <1>2, <2>1, <2>2 DEF LeftAlone
<1>c. p \in at_port(i, "clear_rsem")
  BY <1>1, <1>3 DEF at_port
<1>d. port.state[i] = "PT_LIMBO"
  BY <1>5, <1>c DEF PortSound, ClearedByOne
<1>12. PortSound(i)'
  <2>1. at_port(i, "wait_msg")' = {} /\ at_port(i, "wait_space")' = at_port(i, "wait_space")
    <3>1. at_port(i, "wait_msg")' = {}
      BY <1>4, <1>6, <1>7 DEF at_port
    <3>2. at_port(i, "wait_space")' = at_port(i, "wait_space")
      BY <1>3, <1>4, <1>7, <1>a DEF at_port
    <3> QED
      BY <3>1, <3>2
  <2>2. at_port(i, "clear_rsem") = {p} /\ at_port(i, "clear_end") = {}
    <3>1. \A q \in at_port(i, "clear_rsem") \cup at_port(i, "clear_end") : q = p
      BY <1>5, <1>c DEF PortSound, ClearedByOne, at_port
    <3>2. p \notin at_port(i, "clear_end")
      BY <1>3 DEF at_port
    <3> QED
      BY <1>c, <3>1, <3>2
  <2>3. at_port(i, "clear_rsem")' = {} /\ at_port(i, "clear_end")' = {p}
    BY <1>4, <1>7, <1>a, <2>2 DEF at_port
  <2>4. PortQueues(i)'
    BY <1>2, <1>5, <1>8, <1>10, <2>1 DEF PortSound, PortQueues
  <2>5. CallsDated(i)'
    <3> SUFFICES ASSUME NEW q \in PortUsers, port'.call[q].id = i,
                        port'.call[q].at \in {"wait_space", "send", "wait_msg", "recv"}
                 PROVE  port'.call[q].seq <= port'.seq[i] /\ port'.call[q].seq # port'.seq[i]
      BY <1>2, <1>d DEF CallsDated
    <3>1. /\ q # p /\ port'.call[q].seq = port.call[q].seq /\ port.call[q].id = i
          /\ port.call[q].at \in {"wait_space", "send", "wait_msg", "recv"}
      BY <1>4, <1>7, <1>a
    <3> QED
      BY <1>2, <1>5, <1>d, <3>1 DEF PortSound, CallsDated
  <2>6. NobodyOutside(i)'
    BY <1>2, <1>5, <2>1 DEF PortSound, NobodyOutside
  <2>7. ClearedByOne(i)'
    <3>1. /\ port.ssem[i] = semcreate(port.maxcnt[i])
          /\ port.call[p].newstate = "PT_ALLOC" => port.msgs[i] = << >>
      BY <1>5, <1>c DEF PortSound, ClearedByOne
    <3> QED
      BY <1>2, <1>4, <1>7, <1>10, <1>d, <2>3, <3>1 DEF ClearedByOne
  <2>8. PlacesCounted(i)' /\ MessagesCounted(i)' /\ MessagesDated(i)'
    BY <1>2, <1>d DEF PlacesCounted, MessagesCounted, MessagesDated
  <2> QED
    BY <2>4, <2>5, <2>6, <2>7, <2>8 DEF PortSound
<1>13. NodesCounted'
  BY <1>2 DEF PortIInv, NodesCounted, nodes_used, Allocated
<1> QED
  BY <1>9, <1>11, <1>12, <1>13, OthersSound DEF PortIInv

(* Then the port is in use anew, or free, and nobody has business with it  *)
(* but processes of the past.                                              *)
LEMMA ClearEndSound ==
  ASSUME PortIInv, NEW p \in PortUsers, ptclear_end(p)
  PROVE  PortIInv'
<1>1. PICK i, newstate : i = port.call[p].id /\ newstate = port.call[p].newstate
  OBVIOUS
<1>a. i \in Ports /\ newstate \in {"PT_FREE", "PT_ALLOC"}
  BY <1>1 DEF PortIInv, PortTypeOK, PortCalls
<1>2. /\ port'.state = [port.state EXCEPT ![i] = newstate]
      /\ port'.seq = port.seq /\ port'.maxcnt = port.maxcnt
      /\ port'.msgs = port.msgs /\ port'.ssem = port.ssem /\ port'.rsem = port.rsem
      /\ port'.nextid = (IF newstate = "PT_FREE" THEN i ELSE port.nextid) /\ port'.free = port.free
      /\ port'.call = [port.call EXCEPT ![p] = NoCall]
      /\ port' = [state |-> port'.state, seq |-> port'.seq, maxcnt |-> port'.maxcnt, msgs |-> port'.msgs,
                  ssem |-> port'.ssem, rsem |-> port'.rsem, nextid |-> port'.nextid, free |-> port'.free,
                  call |-> port'.call, off |-> port'.off, panicked |-> port'.panicked]
  BY <1>1 DEF ptclear_end, PortIInv, PortTypeOK
<1>3. port.call[p].at = "clear_end" /\ p \in at_port(i, "clear_end")
  BY <1>1 DEF ptclear_end, port_at, at_port
<1>4. PortSound(i)
  BY <1>a DEF PortIInv
<1>5. /\ port.state[i] = "PT_LIMBO" /\ port.ssem[i] = semcreate(port.maxcnt[i])
      /\ port.rsem[i] = semcreate(0)
      /\ newstate = "PT_ALLOC" => port.msgs[i] = << >>
  BY <1>1, <1>3, <1>4 DEF PortSound, ClearedByOne
<1>6. /\ ToSet(port.ssem[i].squeue) = {} /\ counted(port.ssem[i]) = port.maxcnt[i]
      /\ ToSet(port.rsem[i].squeue) = {} /\ counted(port.rsem[i]) = 0
  <2>1. port.maxcnt[i] \in Nat
    BY <1>a DEF PortIInv, PortTypeOK
  <2> QED
    BY <1>5, <2>1, SemCreated
<1>7. PortTypeOK'
  <2>1. /\ port.ssem \in [Ports -> SemEntries(PortUsers)] /\ port.rsem \in [Ports -> SemEntries(PortUsers)]
        /\ port.state \in [Ports -> {"PT_FREE", "PT_LIMBO", "PT_ALLOC"}] /\ port.call \in [PortUsers -> PortCalls]
        /\ port.seq \in [Ports -> Nat] /\ port.maxcnt \in [Ports -> Nat]
        /\ port.msgs \in [Ports -> Seq(Nat)] /\ port.nextid \in Ports /\ port.free \in Nat
    BY DEF PortTypeOK, PortIInv
  <2>2. /\ port'.state \in [Ports -> {"PT_FREE", "PT_LIMBO", "PT_ALLOC"}]
        /\ port'.call \in [PortUsers -> PortCalls] /\ port'.nextid \in Ports
    BY <1>2, <1>a, <2>1, NoCallTyped
  <2> QED
    BY <1>2, <2>1, <2>2 DEF PortTypeOK
<1>8. /\ port'.state[i] = newstate /\ port'.call[p].at = "idle"
      /\ \A q \in PortUsers \ {p} : port'.call[q] = port.call[q]
  BY <1>2, <1>a, NoCallTyped DEF PortTypeOK, PortIInv
<1>9. \A j \in Ports \ {i} : LeftAlone(j)
  BY <1>1, <1>2, <1>8 DEF LeftAlone, PortTypeOK, PortIInv
<1>10. PortSound(i)'
  <2>1. at_port(i, "wait_space") = {} /\ at_port(i, "wait_msg") = {}
    BY <1>4, <1>6 DEF PortSound, PortQueues
  <2>2. at_port(i, "wait_space")' = {} /\ at_port(i, "wait_msg")' = {}
    BY <1>8, <2>1 DEF at_port
  <2>3. at_port(i, "clear_rsem") \cup at_port(i, "clear_end") = {p}
    BY <1>3, <1>4 DEF PortSound, ClearedByOne, at_port
  <2>4. at_port(i, "clear_rsem")' \cup at_port(i, "clear_end")' = {}
    <3>1. at_port(i, "clear_rsem")' = {}
      BY <1>8, <2>3 DEF at_port
    <3>2. at_port(i, "clear_end")' = {}
      BY <1>8, <2>3 DEF at_port
    <3> QED
      BY <3>1, <3>2
  <2>5. PortQueues(i)'
    BY <1>2, <1>4, <2>1, <2>2 DEF PortSound, PortQueues
  <2>6. NobodyOutside(i)'
    BY <2>2 DEF NobodyOutside
  <2>7. CallsDated(i)'
    <3> SUFFICES ASSUME NEW q \in PortUsers, port'.call[q].id = i,
                        port'.call[q].at \in {"wait_space", "send", "wait_msg", "recv"}
                 PROVE  /\ port'.call[q].seq <= port'.seq[i] /\ port'.call[q].seq # port'.seq[i]
                        /\ port'.call[q].at \notin {"wait_space", "wait_msg"}
      BY DEF CallsDated
    <3>1. q # p /\ port'.call[q] = port.call[q]
      BY <1>8
    <3>2. q \notin at_port(i, "wait_space") /\ q \notin at_port(i, "wait_msg")
      BY <2>1
    <3> QED
      BY <1>2, <1>4, <1>5, <3>1, <3>2 DEF PortSound, CallsDated, at_port
  <2>8. ClearedByOne(i)'
    BY <2>4 DEF ClearedByOne
  <2>9. /\ PlacesCounted(i)' /\ MessagesCounted(i)' /\ MessagesDated(i)'
    <3>1. CASE newstate = "PT_FREE"
      BY <1>8, <3>1 DEF PlacesCounted, MessagesCounted, MessagesDated
    <3>2. CASE newstate = "PT_ALLOC"
      <4>1. /\ let_through(i, "send")' = {} /\ let_through(i, "recv")' = {}
        <5>1. \A q \in PortUsers :
                port.call[q].id = i /\ port.call[q].at \in {"send", "recv"} => port.call[q].seq # port.seq[i]
          BY <1>4, <1>5 DEF PortSound, CallsDated
        <5> QED
          BY <1>2, <1>8, <5>1 DEF let_through
      <4>2. Cardinality({}) = 0
        BY FS_EmptySet
      <4>3. Cardinality(let_through(i, "send")') = 0 /\ Cardinality(let_through(i, "recv")') = 0
        BY <4>1, <4>2, Zenon
      <4>4. Len(port.msgs[i]) = 0 /\ port.maxcnt[i] \in Nat
        <5>1. port.maxcnt[i] \in Nat
          BY <1>a DEF PortIInv, PortTypeOK
        <5> QED
          BY <1>5, <3>2, <5>1
      <4> QED
        BY <1>2, <1>6, <4>3, <4>4 DEF PlacesCounted, MessagesCounted, MessagesDated
    <3> QED
      BY <1>a, <3>1, <3>2
  <2> QED
    BY <2>5, <2>6, <2>7, <2>8, <2>9 DEF PortSound
<1>11. NodesCounted'
  <2>1. \A j \in Ports \ {i} : port'.state[j] = port.state[j] /\ port'.msgs[j] = port.msgs[j]
    BY <1>9 DEF LeftAlone
  <2>2. list_length(i) = 0 /\ list_length(i)' = 0
    <3>1. newstate = "PT_ALLOC" => Len(port.msgs[i]) = 0
      BY <1>5
    <3> QED
      BY <1>2, <1>5, <1>8, <3>1 DEF list_length
  <2>3. port'.free = port.free + list_length(i) - list_length(i)'
    BY <1>2, <2>2 DEF PortIInv, PortTypeOK
  <2> QED
    BY <1>a, <1>7, <2>1, <2>3, NodesMove DEF PortIInv
<1> QED
  BY <1>7, <1>9, <1>10, <1>11, OthersSound DEF PortIInv

(* Every step keeps the invariant.                                         *)
LEMMA PortNextSound ==
  ASSUME PortIInv, PortNext
  PROVE  PortIInv'
<1>1. PICK p \in PortUsers :
        \/ \E count \in PortSizes : ptcreate(p, count)
        \/ \E i \in Ports : ptsend(p, i) \/ ptrecv(p, i)
                            \/ ptclear(p, i, "PT_FREE") \/ ptclear(p, i, "PT_ALLOC")
        \/ ptsend_fail(p) \/ ptsend_panic(p) \/ link_message(p)
        \/ ptrecv_fail(p) \/ unlink_message(p)
        \/ ptclear_receivers(p) \/ ptclear_end(p) \/ kill_waiting(p)
  BY DEF PortNext
<1>2. ASSUME NEW count \in PortSizes, ptcreate(p, count) PROVE PortIInv'
  BY <1>2, CreateSound
<1>3. ASSUME NEW i \in Ports, ptsend(p, i) PROVE PortIInv'
  BY <1>3, SendSound
<1>4. ASSUME NEW i \in Ports, ptrecv(p, i) PROVE PortIInv'
  BY <1>4, ReceiveSound
<1>5. ASSUME NEW i \in Ports, ptclear(p, i, "PT_FREE") \/ ptclear(p, i, "PT_ALLOC") PROVE PortIInv'
  BY <1>5, ClearSound
<1>6. CASE ptsend_fail(p) \/ ptrecv_fail(p)
  BY <1>6, FailSound
<1>7. CASE ptsend_panic(p)
  BY <1>7, PanicSound
<1>8. CASE link_message(p)
  BY <1>8, LinkSound
<1>9. CASE unlink_message(p)
  BY <1>9, UnlinkSound
<1>10. CASE ptclear_receivers(p)
  BY <1>10, ClearReceiversSound
<1>11. CASE ptclear_end(p)
  BY <1>11, ClearEndSound
<1>12. CASE kill_waiting(p)
  BY <1>12, KillSenderSound, KillReceiverSound DEF kill_waiting, port_at
<1> QED
  BY <1>1, <1>2, <1>3, <1>4, <1>5, <1>6, <1>7, <1>8, <1>9, <1>10, <1>11, <1>12

(* The two properties of ports that the runs check follow.                 *)
LEMMA PortIInvCounts ==
  ASSUME PortIInv
  PROVE  PortCountsHold /\ NoMessageOutlivesReset
<1>1. ASSUME NEW i \in Allocated
      PROVE  LET held     == Len(port.msgs[i])
                 promised == Cardinality(let_through(i, "recv"))
                 waiting  == {p \in PortUsers : port.call[p].id = i /\ port.call[p].at = "wait_space"}
             IN  /\ held >= promised
                 /\ port.maxcnt[i] - held - Cardinality(let_through(i, "send")) = counted(port.ssem[i])
                 /\ ptcount(i) >= 0 => ptcount(i) = held - promised + Cardinality(waiting)
                 /\ ptcount(i) < 0  => held = promised
  <2>1. i \in Ports /\ port.state[i] = "PT_ALLOC" /\ PortSound(i)
    BY DEF Allocated, PortIInv
  <2>2. PICK l, x, y, w, s, r :
          /\ l = Len(port.msgs[i]) /\ x = Cardinality(let_through(i, "recv"))
          /\ y = Cardinality(let_through(i, "send")) /\ w = Cardinality(at_port(i, "wait_space"))
          /\ s = port.ssem[i] /\ r = port.rsem[i]
    OBVIOUS
  <2>3. /\ counted(s) + l + y = port.maxcnt[i] /\ counted(r) + x = l
        /\ IsSem(s, PortUsers) /\ IsSem(r, PortUsers) /\ ToSet(s.squeue) = at_port(i, "wait_space")
    BY <2>1, <2>2 DEF PortSound, PlacesCounted, MessagesCounted, PortQueues
  <2>4. w = Len(s.squeue)
    <3>1. Cardinality(ToSet(s.squeue)) = Len(s.squeue)
      BY <2>3, QueuedCardinality DEF IsSem, SemEntries
    <3> QED
      BY <2>2, <2>3, <3>1
  <2>5. /\ s.scount \in Int /\ r.scount \in Int /\ l \in Nat /\ x \in Nat /\ y \in Nat
        /\ Len(s.squeue) = IF s.scount < 0 THEN -s.scount ELSE 0
    <3>1. port.msgs[i] \in Seq(Nat)
      BY <2>1 DEF PortIInv, PortTypeOK
    <3>2. l \in Nat
      BY <2>2, <3>1
    <3>3. x \in Nat /\ y \in Nat
      BY <2>2, LetThroughFinite
    <3> QED
      BY <2>3, <3>2, <3>3 DEF IsSem, SemEntries
  <2>6. {p \in PortUsers : port.call[p].id = i /\ port.call[p].at = "wait_space"} = at_port(i, "wait_space")
    BY DEF at_port
  <2>7. ptcount(i) = IF r.scount < 0 THEN r.scount
                     ELSE r.scount + (IF s.scount < 0 THEN -s.scount ELSE 0)
    BY <2>2 DEF ptcount
  <2>8. /\ l >= x /\ port.maxcnt[i] - l - y = counted(s)
        /\ ptcount(i) >= 0 => ptcount(i) = l - x + w
        /\ ptcount(i) < 0  => l = x
    <3>1. counted(r) = IF r.scount > 0 THEN r.scount ELSE 0
      BY DEF counted
    <3>2. counted(s) \in Nat
      BY <2>3, CountedNat
    <3>3. l >= x /\ port.maxcnt[i] - l - y = counted(s)
      <4>1. PICK k, h, m : k = counted(s) /\ h = counted(r) /\ m = port.maxcnt[i]
        OBVIOUS
      <4>2. k \in Nat /\ h \in Nat /\ k + l + y = m /\ h + x = l
        BY <2>3, <2>5, <3>1, <3>2, <4>1
      <4>3. l >= x /\ m - l - y = k
        BY <2>5, <4>2
      <4> QED
        BY <4>1, <4>3
    <3>4. (ptcount(i) >= 0 => ptcount(i) = l - x + w) /\ (ptcount(i) < 0  => l = x)
      BY <2>3, <2>4, <2>5, <2>7, <3>1
    <3> QED
      BY <3>3, <3>4
  <2> QED
    BY <2>2, <2>6, <2>8
<1>2. port.free + Cardinality(nodes_used) = PT_MSGS
  BY DEF PortIInv, NodesCounted
<1>3. NoMessageOutlivesReset
  <2> SUFFICES ASSUME NEW i \in Allocated, NEW m \in ToSet(port.msgs[i])
               PROVE  m = port.seq[i]
    BY DEF NoMessageOutlivesReset
  <2>1. i \in Ports /\ port.state[i] = "PT_ALLOC" /\ MessagesDated(i) /\ port.msgs[i] \in Seq(Nat)
    BY DEF Allocated, PortIInv, PortSound, PortTypeOK
  <2>2. PICK k \in 1 .. Len(port.msgs[i]) : m = port.msgs[i][k]
    BY <2>1 DEF ToSet
  <2> QED
    BY <2>1, <2>2 DEF MessagesDated
<1> QED
  BY <1>1, <1>2, <1>3 DEF PortCountsHold

(* Every state of the ports has the invariant.                             *)
THEOREM SpecPortIInv == PortSpec => []PortIInv
<1>1. PortInit => PortIInv
  BY PortInitSound
<1>2. PortIInv /\ [PortNext]_port => PortIInv'
  <2> SUFFICES ASSUME PortIInv, [PortNext]_port PROVE PortIInv'
    OBVIOUS
  <2>1. CASE PortNext
    BY <2>1, PortNextSound
  <2>2. CASE UNCHANGED port
    <3>1. PortTypeOK' /\ NodesCounted'
      BY <2>2 DEF PortIInv, PortTypeOK, NodesCounted, nodes_used, Allocated
    <3>2. \A i \in Ports : LeftAlone(i)
      BY <2>2 DEF LeftAlone
    <3> QED
      BY <3>1, <3>2, LeftAloneSound DEF PortIInv
  <2> QED
    BY <2>1, <2>2
<1> QED
  BY <1>1, <1>2, PTL DEF PortSpec

(* At every step of the ports, the semaphores of a port in use (ptcreate,  *)
(* ptsend, ptrecv, ptclear) agree with its list: what is stored covers     *)
(* the receivers that signal has let through, the places that are left     *)
(* are what the send semaphore counts, ptcount answers as the lists        *)
(* stand, and no node of the table of messages is lost or in two lists.    *)
THEOREM SpecPortCountsHold == PortSpec => []PortCountsHold
<1>1. PortIInv => PortCountsHold
  BY PortIInvCounts
<1> QED
  BY <1>1, SpecPortIInv, PTL

(* A message that a port in use holds was sent under its present sequence  *)
(* number: none that was sent before a ptreset or before the port was      *)
(* deleted and made anew is ever received.                                 *)
THEOREM SpecNoMessageOutlivesReset == PortSpec => []NoMessageOutlivesReset
<1>1. PortIInv => NoMessageOutlivesReset
  BY PortIInvCounts
<1> QED
  BY <1>1, SpecPortIInv, PTL

-----------------------------------------------------------------------------
(***************************************************************************)
(* Network buffers are accounted for.  An action is a chain of changes of  *)
(* the record net, so that each part is said of a record n; some links of  *)
(* the chain have k buffers in hand that are still to be freed.            *)
(***************************************************************************)

(* What a process may be at, and the records of net.                       *)
NetPoints ==
  [p \in NetProcs |-> CASE p = Netin -> {"idle", "wait_buf", "hold", "wait_reply", "reply"}
                        [] p = Ipout -> {"idle", "wait_packet", "send", "hold"}
                        [] OTHER     -> {"idle", "wait_buf", "hold", "wait_recv", "ready"}]

NetPoint == UNION {NetPoints[p] : p \in NetProcs}

Endpoints ==
  [udstate : {"UDP_FREE", "UDP_USED", "UDP_RECV"}, udrem : Remotes \cup {AnyRemote}, udpid : Int,
   udqueue : Seq(Remotes), user : Int]

IpQueues == [iqbuf : [IpqEntries -> BOOLEAN], iqhead : IpqEntries, iqtail : IpqEntries]

NetRecords ==
  [bufs : SemEntries(NetProcs), udptab : [UdpSlots -> Endpoints], ipoqueue : IpQueues,
   iqsem : SemEntries({Ipout}), at : [NetProcs -> NetPoint], slot : [NetUsers -> UdpSlots],
   mail : [NetUsers -> BOOLEAN]]

NetTypeOK(n) ==
  /\ n \in NetRecords
  /\ \A p \in NetProcs : n.at[p] \in NetPoints[p]

(* Who waits for a buffer, and whether ipout waits for a packet.           *)
wanting(n) == {p \in NetProcs : n.at[p] \in {"wait_buf", "wait_reply"}}

BufsQueued(n) == IsSem(n.bufs, NetProcs) /\ ToSet(n.bufs.squeue) = wanting(n)

(* The packets of the IP output queue are in the entries from its head to  *)
(* its tail.                                                               *)
inside(q) == Cardinality(untaken(q))
from_head(q, i) == IF i >= q.iqhead THEN i - q.iqhead ELSE i - q.iqhead + IP_OQSIZ

InOrder(q) ==
  /\ q \in IpQueues /\ inside(q) \in 0 .. IP_OQSIZ
  /\ \A i \in IpqEntries : q.iqbuf[i] <=> from_head(q, i) < inside(q)
  /\ q.iqtail = q.iqhead + inside(q) \/ q.iqtail + IP_OQSIZ = q.iqhead + inside(q)

(* What iqsem counts is in the IP output queue, and so is the packet of an *)
(* ipout that it let go on.                                                *)
PacketsCounted(n) ==
  /\ IsSem(n.iqsem, {Ipout}) /\ InOrder(n.ipoqueue)
  /\ ToSet(n.iqsem.squeue) = IF n.at[Ipout] = "wait_packet" THEN {Ipout} ELSE {}
  /\ inside(n.ipoqueue) = counted(n.iqsem) + IF n.at[Ipout] = "send" THEN 1 ELSE 0

(* k buffers more are in hand.                                             *)
BufsCounted(n, k) ==
  /\ IsFiniteSet(queued(n))
  /\ counted(n.bufs) + Cardinality(queued(n)) + inside(n.ipoqueue)
       + Cardinality(holding(n)) + Cardinality(replying(n)) + k = NetBufs

(* An endpoint at which somebody waits, and one who waits at an endpoint   *)
(* that he registered and nobody else receives from.                       *)
WaitedAt(n, s) ==
  LET e == n.udptab[s]
  IN  /\ e.udstate = "UDP_FREE" => e.udqueue = << >>
      /\ e.udstate = "UDP_RECV" =>
           /\ e.udpid \in NetUsers /\ n.at[e.udpid] \in {"wait_recv", "ready"}
           /\ ~n.mail[e.udpid] /\ n.slot[e.udpid] = s /\ e.udqueue = << >>

Receiving(n, p) == n.at[p] \in {"wait_recv", "ready"}

WaitsAt(n, p) ==
  LET e == n.udptab[n.slot[p]]
  IN  /\ Receiving(n, p) => e.user = p /\ e.udstate # "UDP_FREE"
      /\ Receiving(n, p) /\ ~n.mail[p] => e.udstate = "UDP_RECV" /\ e.udpid = p
      /\ n.mail[p] => n.at[p] = "ready" /\ e.udstate = "UDP_USED" /\ e.udqueue # << >>

ReceiversTold(n) ==
  (\A s \in UdpSlots : WaitedAt(n, s)) /\ (\A p \in NetUsers : WaitsAt(n, p))

NetSound(n, k) ==
  /\ NetTypeOK(n) /\ BufsQueued(n) /\ PacketsCounted(n)
  /\ BufsCounted(n, k) /\ ReceiversTold(n)

NetIInv == NetSound(net, 0)

(* The processes are three kinds.                                          *)
LEMMA NetKinds ==
  /\ Ipout \in NetProcs /\ Netin \in NetProcs /\ Ipout # Netin
  /\ Ipout \notin NetUsers /\ Netin \notin NetUsers /\ NetUsers \subseteq NetProcs
  /\ IsFiniteSet(NetProcs)
  /\ NetPoints[Netin] = {"idle", "wait_buf", "hold", "wait_reply", "reply"}
  /\ NetPoints[Ipout] = {"idle", "wait_packet", "send", "hold"}
  /\ \A p \in NetUsers : NetPoints[p] = {"idle", "wait_buf", "hold", "wait_recv", "ready"}
  /\ \A p \in NetProcs : NetPoints[p] \subseteq NetPoint
<1>1. /\ Ipout \in NetProcs /\ Netin \in NetProcs /\ Ipout # Netin
      /\ Ipout \notin NetUsers /\ Netin \notin NetUsers /\ NetUsers \subseteq NetProcs
  BY NetAssumption DEF Ipout, Netin, NetProcs
<1>2. IsFiniteSet(NetProcs)
  <2>1. IsFiniteSet(NetUsers \cup {Ipout})
    BY NetAssumption, FS_AddElement
  <2>2. IsFiniteSet((NetUsers \cup {Ipout}) \cup {Netin})
    BY <2>1, FS_AddElement
  <2>3. (NetUsers \cup {Ipout}) \cup {Netin} = NetProcs
    BY DEF NetProcs
  <2> QED
    BY <2>2, <2>3
<1>3. /\ NetPoints[Netin] = {"idle", "wait_buf", "hold", "wait_reply", "reply"}
      /\ NetPoints[Ipout] = {"idle", "wait_packet", "send", "hold"}
      /\ \A p \in NetUsers : NetPoints[p] = {"idle", "wait_buf", "hold", "wait_recv", "ready"}
  BY <1>1 DEF NetPoints
<1>4. \A p \in NetProcs : NetPoints[p] \subseteq NetPoint
  BY DEF NetPoint
<1> QED
  BY <1>1, <1>2, <1>3, <1>4

(* The sets that count buffers are finite.                                 *)
LEMMA NetFinite ==
  ASSUME NEW n
  PROVE  /\ IsFiniteSet(holding(n)) /\ Cardinality(holding(n)) \in Nat
         /\ IsFiniteSet(replying(n)) /\ Cardinality(replying(n)) \in Nat
<1>1. holding(n) \subseteq NetProcs /\ replying(n) \subseteq NetProcs
  BY DEF holding, replying
<1>2. IsFiniteSet(holding(n)) /\ IsFiniteSet(replying(n))
  BY <1>1, NetKinds, FS_Subset
<1> QED
  BY <1>2, FS_CardinalityType

(* What there is is added up of numbers.                                   *)
LEMMA NetNumbers ==
  ASSUME NEW n, NetTypeOK(n), BufsQueued(n), PacketsCounted(n), IsFiniteSet(queued(n))
  PROVE  /\ counted(n.bufs) \in Nat /\ Cardinality(queued(n)) \in Nat /\ inside(n.ipoqueue) \in Nat
         /\ Cardinality(holding(n)) \in Nat /\ Cardinality(replying(n)) \in Nat
<1>1. counted(n.bufs) \in Nat
  BY CountedNat DEF BufsQueued
<1>2. Cardinality(queued(n)) \in Nat
  BY FS_CardinalityType
<1>4. inside(n.ipoqueue) \in Nat
  BY NetAssumption DEF PacketsCounted, InOrder
<1> QED
  BY <1>1, <1>2, <1>4, NetFinite

(* The packets of one endpoint change.                                     *)
LEMMA QueueSizes ==
  ASSUME NEW n, NEW m, NEW s \in UdpSlots, NEW e \in Endpoints, n.udptab \in [UdpSlots -> Endpoints],
         m.udptab[s] = e, \A t \in UdpSlots \ {s} : m.udptab[t] = n.udptab[t], IsFiniteSet(queued(n))
  PROVE  /\ IsFiniteSet(queued(m)) /\ Cardinality(queued(m)) \in Nat /\ Cardinality(queued(n)) \in Nat
         /\ Len(e.udqueue) \in Nat /\ Len(n.udptab[s].udqueue) \in Nat
         /\ Cardinality(queued(m)) + Len(n.udptab[s].udqueue) = Cardinality(queued(n)) + Len(e.udqueue)
<1> DEFINE col(l) == {s} \X (1 .. l)
           rest   == {x \in queued(n) : x[1] # s}
<1>1. PICK a, b : a = Len(n.udptab[s].udqueue) /\ b = Len(e.udqueue)
  OBVIOUS
<1>2. /\ a \in Nat /\ DOMAIN n.udptab[s].udqueue = 1 .. a
      /\ b \in Nat /\ DOMAIN e.udqueue = 1 .. b
  <2>1. n.udptab[s].udqueue \in Seq(Remotes) /\ e.udqueue \in Seq(Remotes)
    BY DEF Endpoints
  <2> QED
    BY <1>1, <2>1, LenProperties
<1>3. queued(n) = rest \cup col(a) /\ rest \cap col(a) = {}
  BY <1>2 DEF queued
<1>4. queued(m) = rest \cup col(b) /\ rest \cap col(b) = {}
  BY <1>2 DEF queued
<1>5. /\ IsFiniteSet(col(a)) /\ Cardinality(col(a)) = a
      /\ IsFiniteSet(col(b)) /\ Cardinality(col(b)) = b
  BY <1>2, ColumnSize
<1>6. IsFiniteSet(rest)
  <2>1. rest \subseteq queued(n)
    OBVIOUS
  <2> QED
    BY <2>1, FS_Subset
<1> HIDE DEF rest, col
<1>7. Cardinality({}) = 0
  BY FS_EmptySet
<1>8. /\ Cardinality(rest) \in Nat
      /\ Cardinality(queued(n)) = Cardinality(rest) + a
  <2>1. Cardinality(rest \cap col(a)) = 0
    BY <1>3, <1>7
  <2> QED
    BY <1>3, <1>5, <1>6, <2>1, DisjointSize
<1>9. IsFiniteSet(queued(m)) /\ Cardinality(queued(m)) = Cardinality(rest) + b
  <2>1. Cardinality(rest \cap col(b)) = 0
    BY <1>4, <1>7
  <2>2. IsFiniteSet(rest \cup col(b)) /\ Cardinality(rest \cup col(b)) = Cardinality(rest) + Cardinality(col(b))
    BY <1>5, <1>6, <2>1, DisjointSize
  <2> QED
    BY <1>4, <1>5, <2>2
<1>10. PICK r, x, y : r = Cardinality(rest) /\ x = Cardinality(queued(n)) /\ y = Cardinality(queued(m))
  OBVIOUS
<1>11. r \in Nat /\ x = r + a /\ y = r + b
  BY <1>8, <1>9, <1>10
<1>12. x \in Nat /\ y \in Nat /\ y + a = x + b
  BY <1>2, <1>11
<1> QED
  BY <1>1, <1>2, <1>9, <1>10, <1>12

(* Two sets that differ at most in one member.                             *)
LEMMA OneMember ==
  ASSUME NEW S, NEW A, NEW p, IsFiniteSet(S), IsFiniteSet(A), S \ {p} = A \ {p}
  PROVE  Cardinality(A) + (IF p \in S THEN 1 ELSE 0) = Cardinality(S) + (IF p \in A THEN 1 ELSE 0)
<1>1. ASSUME NEW X, IsFiniteSet(X)
      PROVE  /\ Cardinality(X) \in Nat /\ Cardinality(X \ {p}) \in Nat
             /\ Cardinality(X) = Cardinality(X \ {p}) + IF p \in X THEN 1 ELSE 0
  <2>1. IsFiniteSet(X \ {p}) /\ Cardinality(X \ {p}) = IF p \in X THEN Cardinality(X) - 1 ELSE Cardinality(X)
    BY <1>1, FS_RemoveElement
  <2>2. Cardinality(X) \in Nat /\ Cardinality(X \ {p}) \in Nat
    BY <1>1, <2>1, FS_CardinalityType
  <2> QED
    BY <2>1, <2>2
<1>2. PICK r : r = Cardinality(S \ {p})
  OBVIOUS
<1>3. Cardinality(S) = r + (IF p \in S THEN 1 ELSE 0) /\ r \in Nat
  BY <1>1, <1>2
<1>4. Cardinality(A) = r + IF p \in A THEN 1 ELSE 0
  BY <1>1, <1>2
<1> QED
  BY <1>3, <1>4

(* How many buffers a process has at a point: those of holding and         *)
(* replying.                                                               *)
one(x) == IF x \in {"hold", "wait_reply", "reply"} THEN 1 ELSE 0
two(x) == IF x = "reply" THEN 1 ELSE 0

LEMMA HoldersMove ==
  ASSUME NEW n, NEW m, NEW p \in NetProcs, NEW x,
         m.at[p] = x, \A q \in NetProcs \ {p} : m.at[q] = n.at[q]
  PROVE  /\ Cardinality(holding(m)) + one(n.at[p]) = Cardinality(holding(n)) + one(x)
         /\ Cardinality(replying(m)) + two(n.at[p]) = Cardinality(replying(n)) + two(x)
<1>2. /\ holding(n) \ {p} = holding(m) \ {p} /\ replying(n) \ {p} = replying(m) \ {p}
      /\ (p \in holding(n) <=> n.at[p] \in {"hold", "wait_reply", "reply"})
      /\ (p \in holding(m) <=> x \in {"hold", "wait_reply", "reply"})
      /\ (p \in replying(n) <=> n.at[p] = "reply") /\ (p \in replying(m) <=> x = "reply")
  BY DEF holding, replying
<1>3. /\ one(n.at[p]) = (IF p \in holding(n) THEN 1 ELSE 0) /\ one(x) = (IF p \in holding(m) THEN 1 ELSE 0)
      /\ two(n.at[p]) = (IF p \in replying(n) THEN 1 ELSE 0) /\ two(x) = (IF p \in replying(m) THEN 1 ELSE 0)
  BY <1>2 DEF one, two
<1>4. IsFiniteSet(holding(n)) /\ IsFiniteSet(holding(m)) /\ IsFiniteSet(replying(n)) /\ IsFiniteSet(replying(m))
  BY NetFinite
<1>5. Cardinality(holding(m)) + one(n.at[p]) = Cardinality(holding(n)) + one(x)
  BY <1>2, <1>3, <1>4, OneMember
<1>6. Cardinality(replying(m)) + two(n.at[p]) = Cardinality(replying(n)) + two(x)
  BY <1>2, <1>3, <1>4, OneMember
<1> QED
  BY <1>5, <1>6

(* Those that receive, and where, are the same.                            *)
LEMMA ToldKept ==
  ASSUME NEW n, NEW m, ReceiversTold(n),
         m.udptab = n.udptab, m.slot = n.slot, m.mail = n.mail,
         \A p \in NetUsers : Receiving(n, p) \/ Receiving(m, p) => m.at[p] = n.at[p]
  PROVE  ReceiversTold(m)
<1>1. ASSUME NEW s \in UdpSlots PROVE WaitedAt(m, s)
  <2>1. WaitedAt(n, s)
    BY DEF ReceiversTold
  <2> QED
    BY <2>1 DEF WaitedAt, Receiving
<1>2. ASSUME NEW p \in NetUsers PROVE WaitsAt(m, p)
  <2>1. WaitsAt(n, p)
    BY DEF ReceiversTold
  <2> QED
    BY <2>1 DEF WaitsAt, Receiving
<1> QED
  BY <1>1, <1>2 DEF ReceiversTold

(* Nothing but the point of p changes.                                     *)
PointOnly(n, m, p, x) ==
  /\ m.bufs = n.bufs /\ m.udptab = n.udptab /\ m.ipoqueue = n.ipoqueue /\ m.iqsem = n.iqsem
  /\ m.slot = n.slot /\ m.mail = n.mail
  /\ m \in NetRecords /\ m.at[p] = x /\ \A q \in NetProcs \ {p} : m.at[q] = n.at[q]

LEMMA PointSet ==
  ASSUME NEW n \in NetRecords, NEW p \in NetProcs, NEW x \in NetPoint
  PROVE  PointOnly(n, [n EXCEPT !.at[p] = x], p, x)
BY DEF NetRecords, PointOnly

(* A process goes from one point to another, and takes buffers from hand   *)
(* or gives them.                                                          *)
LEMMA PointMoves ==
  ASSUME NEW n, NEW m, NEW p \in NetProcs, NEW x \in NetPoints[p], NEW k \in Nat, NEW j \in Nat,
         NetSound(n, k), PointOnly(n, m, p, x),
         {n.at[p], x} \cap {"wait_buf", "wait_reply", "wait_packet", "send", "wait_recv", "ready"} = {},
         j + one(x) + two(x) = k + one(n.at[p]) + two(n.at[p])
  PROVE  NetSound(m, j) /\ m.at[p] = x
<1>1. n \in NetRecords /\ x \in NetPoint /\ \A q \in NetProcs : n.at[q] \in NetPoints[q]
  BY NetKinds DEF NetSound, NetTypeOK
<1>2. /\ m.bufs = n.bufs /\ m.udptab = n.udptab /\ m.ipoqueue = n.ipoqueue /\ m.iqsem = n.iqsem
      /\ m.slot = n.slot /\ m.mail = n.mail /\ m \in NetRecords
  BY DEF PointOnly
<1>3. m.at[p] = x /\ \A q \in NetProcs \ {p} : m.at[q] = n.at[q]
  BY DEF PointOnly
<1>4. NetTypeOK(m)
  BY <1>1, <1>2, <1>3 DEF NetTypeOK
<1>5. BufsQueued(m)
  <2>1. wanting(m) = wanting(n)
    BY <1>3 DEF wanting
  <2> QED
    BY <1>2, <2>1 DEF NetSound, BufsQueued
<1>6. PacketsCounted(m)
  <2>1. /\ m.at[Ipout] = "wait_packet" <=> n.at[Ipout] = "wait_packet"
        /\ m.at[Ipout] = "send" <=> n.at[Ipout] = "send"
    BY <1>3, NetKinds
  <2> QED
    BY <1>2, <2>1 DEF NetSound, PacketsCounted
<1>7. BufsCounted(m, j)
  <2>1. queued(m) = queued(n) /\ IsFiniteSet(queued(n))
    BY <1>2 DEF queued, NetSound, BufsCounted
  <2>2. /\ Cardinality(holding(m)) + one(n.at[p]) = Cardinality(holding(n)) + one(x)
        /\ Cardinality(replying(m)) + two(n.at[p]) = Cardinality(replying(n)) + two(x)
    BY <1>3, HoldersMove
  <2>3. /\ Cardinality(holding(n)) \in Nat /\ Cardinality(replying(n)) \in Nat
        /\ Cardinality(holding(m)) \in Nat /\ Cardinality(replying(m)) \in Nat
    BY NetFinite
  <2>4. one(x) \in Nat /\ two(x) \in Nat /\ one(n.at[p]) \in Nat /\ two(n.at[p]) \in Nat
    BY DEF one, two
  <2>5. PICK h, r, g, q : /\ h = Cardinality(holding(n)) /\ r = Cardinality(replying(n))
                          /\ g = Cardinality(holding(m)) /\ q = Cardinality(replying(m))
    OBVIOUS
  <2>6. PICK a, b, c, d : a = one(x) /\ b = two(x) /\ c = one(n.at[p]) /\ d = two(n.at[p])
    OBVIOUS
  <2>7. g + q + j = h + r + k
    <3>1. /\ a \in Nat /\ b \in Nat /\ c \in Nat /\ d \in Nat
          /\ h \in Nat /\ r \in Nat /\ g \in Nat /\ q \in Nat
      BY <2>3, <2>4, <2>5, <2>6
    <3>2. g + c = h + a /\ q + d = r + b /\ j + a + b = k + c + d
      BY <2>2, <2>5, <2>6
    <3> QED
      BY <3>1, <3>2
  <2>8. /\ counted(n.bufs) \in Nat /\ Cardinality(queued(n)) \in Nat /\ inside(n.ipoqueue) \in Nat
    BY <2>1, NetNumbers DEF NetSound
  <2>9. PICK u, v, w : u = counted(n.bufs) /\ v = Cardinality(queued(n)) /\ w = inside(n.ipoqueue)
    OBVIOUS
  <2>10. u + v + w + g + q + j = u + v + w + h + r + k
    <3>1. {u, v, w, h, r, g, q} \subseteq Nat
      BY <2>3, <2>5, <2>8, <2>9
    <3> QED
      BY <2>7, <3>1
  <2>11. counted(m.bufs) = u /\ Cardinality(queued(m)) = v /\ inside(m.ipoqueue) = w
    BY <1>2, <2>1, <2>9
  <2>12. u + v + w + h + r + k = NetBufs
    BY <2>5, <2>9 DEF NetSound, BufsCounted
  <2> QED
    BY <2>1, <2>5, <2>10, <2>11, <2>12 DEF BufsCounted
<1>8. ReceiversTold(m)
  <2>1. \A q \in NetUsers : Receiving(n, q) \/ Receiving(m, q) => m.at[q] = n.at[q]
    BY <1>3, NetKinds DEF Receiving
  <2> QED
    BY <1>2, <2>1, ToldKept DEF NetSound
<1> QED
  BY <1>3, <1>4, <1>5, <1>6, <1>7, <1>8 DEF NetSound

-----------------------------------------------------------------------------
(* Those that a signal of the pool lets go on, in two kinds.               *)
LEMMA HoldersJoin ==
  ASSUME NEW n, NEW m, NEW W, W \subseteq wanting(n), IsFiniteSet(W),
         \A p \in NetProcs : m.at[p] = IF p \in W THEN let_on(n.at[p]) ELSE n.at[p]
  PROVE  Cardinality(holding(m)) + Cardinality(replying(m))
           = Cardinality(holding(n)) + Cardinality(replying(n)) + Cardinality(W)
<1> DEFINE X == {p \in W : n.at[p] = "wait_buf"}
           Y == {p \in W : n.at[p] = "wait_reply"}
<1>1. W \subseteq NetProcs /\ \A p \in W : n.at[p] = "wait_buf" \/ n.at[p] = "wait_reply"
  BY DEF wanting
<1>2. /\ \A p \in X : m.at[p] = "hold" /\ n.at[p] = "wait_buf"
      /\ \A p \in Y : m.at[p] = "reply" /\ n.at[p] = "wait_reply"
      /\ \A p \in NetProcs \ W : m.at[p] = n.at[p]
  BY <1>1 DEF let_on
<1>3. X \cup Y = W /\ X \cap Y = {}
  BY <1>1
<1>4. X \subseteq W /\ Y \subseteq W
  OBVIOUS
<1> HIDE DEF X, Y
<1>5. /\ holding(m) = holding(n) \cup X /\ holding(n) \cap X = {}
      /\ replying(m) = replying(n) \cup Y /\ replying(n) \cap Y = {}
  BY <1>1, <1>2, <1>3 DEF holding, replying
<1>6. IsFiniteSet(X) /\ IsFiniteSet(Y) /\ Cardinality({}) = 0
  BY <1>4, FS_Subset, FS_EmptySet
<1>7. PICK h, r, x, y : /\ h = Cardinality(holding(n)) /\ r = Cardinality(replying(n))
                        /\ x = Cardinality(X) /\ y = Cardinality(Y)
  OBVIOUS
<1>8. h \in Nat /\ r \in Nat /\ x \in Nat /\ y \in Nat
  BY <1>6, <1>7, NetFinite, FS_CardinalityType
<1>9. Cardinality(holding(m)) = h + x
  <2>1. Cardinality(holding(n) \cap X) = 0
    BY <1>5, <1>6
  <2> QED
    BY <1>5, <1>6, <1>7, <2>1, NetFinite, DisjointSize
<1>10. Cardinality(replying(m)) = r + y
  <2>1. Cardinality(replying(n) \cap Y) = 0
    BY <1>5, <1>6
  <2> QED
    BY <1>5, <1>6, <1>7, <2>1, NetFinite, DisjointSize
<1>11. Cardinality(W) = x + y
  <2>1. Cardinality(X \cap Y) = 0
    BY <1>3, <1>6
  <2> QED
    BY <1>3, <1>6, <1>7, <2>1, DisjointSize
<1> QED
  BY <1>7, <1>8, <1>9, <1>10, <1>11

(* The fields after a free of k buffers.                                   *)
LEMMA FreedFields ==
  ASSUME NEW n \in NetRecords, NEW k \in Nat, IsSem(n.bufs, NetProcs),
         \A p \in NetProcs : n.at[p] \in NetPoints[p], ToSet(n.bufs.squeue) = wanting(n)
  PROVE  LET m == freebufs_in(n, k)
         IN  /\ m.bufs = signalledn(n.bufs, k)
             /\ m.udptab = n.udptab /\ m.ipoqueue = n.ipoqueue /\ m.iqsem = n.iqsem
             /\ m.slot = n.slot /\ m.mail = n.mail
             /\ NetTypeOK(m)
             /\ \A p \in NetProcs :
                  m.at[p] = IF p \in wokenn(n.bufs, k) THEN let_on(n.at[p]) ELSE n.at[p]
<1>1. PICK W, b, a : W = wokenn(n.bufs, k) /\ b = signalledn(n.bufs, k) /\ a = let_on_all(n.at, W)
  OBVIOUS
<1>2. IsSem(b, NetProcs) /\ W \subseteq wanting(n)
  <2>1. LET i == least(k, Len(n.bufs.squeue))
            V == wokenn(n.bufs, k)
        IN  /\ IsSem(signalledn(n.bufs, k), NetProcs)
            /\ V \subseteq ToSet(n.bufs.squeue)
            /\ ToSet(signalledn(n.bufs, k).squeue) = ToSet(n.bufs.squeue) \ V
            /\ IsFiniteSet(V) /\ Cardinality(V) = i /\ i \in Nat
            /\ counted(signalledn(n.bufs, k)) = counted(n.bufs) + k - i
    BY SemSignalledN
  <2> QED
    BY <1>1, <2>1
<1>3. \A p \in NetProcs : a[p] = IF p \in W THEN let_on(n.at[p]) ELSE n.at[p]
  BY <1>1 DEF let_on_all
<1>4. \A p \in NetProcs : a[p] \in NetPoints[p]
  <2>1. \A p \in W : n.at[p] = "wait_buf" \/ n.at[p] = "wait_reply"
    BY <1>2 DEF wanting
  <2>2. ASSUME NEW p \in W PROVE let_on(n.at[p]) \in NetPoints[p]
    <3>1. p \in NetProcs /\ n.at[p] \in NetPoints[p]
      BY <1>2 DEF wanting
    <3>2. p = Netin \/ p = Ipout \/ p \in NetUsers
      BY <3>1 DEF NetProcs
    <3> QED
      BY <2>1, <3>1, <3>2, NetKinds DEF let_on
  <2> QED
    BY <1>3, <2>2
<1>5. a \in [NetProcs -> NetPoint]
  <2>1. \A p \in NetProcs : a[p] \in NetPoint
    BY <1>4, NetKinds
  <2>2. a = [p \in NetProcs |-> a[p]]
    BY <1>1 DEF let_on_all
  <2> QED
    BY <2>1, <2>2
<1>6. PICK m : m = [n EXCEPT !.bufs = b, !.at = a]
  OBVIOUS
<1>7. /\ m.bufs = b /\ m.at = a /\ m.udptab = n.udptab /\ m.ipoqueue = n.ipoqueue /\ m.iqsem = n.iqsem
      /\ m.slot = n.slot /\ m.mail = n.mail /\ m \in NetRecords
  <2>1. b \in SemEntries(NetProcs)
    BY <1>2 DEF IsSem
  <2> QED
    BY <1>5, <1>6, <2>1 DEF NetRecords
<1>8. m = freebufs_in(n, k)
  BY <1>1, <1>6 DEF freebufs_in
<1>9. NetTypeOK(m)
  BY <1>4, <1>7 DEF NetTypeOK
<1> QED
  BY <1>1, <1>3, <1>7, <1>8, <1>9, Zenon

(* freebuf of k buffers that were in hand.                                 *)
LEMMA FreedSound ==
  ASSUME NEW n, NEW k \in Nat, NEW j \in Nat, NetSound(n, j + k)
  PROVE  NetSound(freebufs_in(n, k), j)
<1>1. PICK m, W, b : m = freebufs_in(n, k) /\ W = wokenn(n.bufs, k) /\ b = signalledn(n.bufs, k)
  OBVIOUS
<1>2. /\ n \in NetRecords /\ IsSem(n.bufs, NetProcs) /\ ToSet(n.bufs.squeue) = wanting(n)
      /\ \A p \in NetProcs : n.at[p] \in NetPoints[p]
  BY DEF NetSound, NetTypeOK, BufsQueued
<1>3. /\ m.bufs = b /\ m.udptab = n.udptab /\ m.ipoqueue = n.ipoqueue /\ m.iqsem = n.iqsem
      /\ m.slot = n.slot /\ m.mail = n.mail /\ NetTypeOK(m)
      /\ \A p \in NetProcs : m.at[p] = IF p \in W THEN let_on(n.at[p]) ELSE n.at[p]
  BY <1>1, <1>2, FreedFields
<1>4. PICK w : w = least(k, Len(n.bufs.squeue))
  OBVIOUS
<1>5. /\ IsSem(b, NetProcs) /\ W \subseteq wanting(n) /\ ToSet(b.squeue) = wanting(n) \ W
      /\ IsFiniteSet(W) /\ Cardinality(W) = w /\ w \in Nat
      /\ counted(b) = counted(n.bufs) + k - w
  <2>1. LET i == least(k, Len(n.bufs.squeue))
            V == wokenn(n.bufs, k)
        IN  /\ IsSem(signalledn(n.bufs, k), NetProcs)
            /\ V \subseteq ToSet(n.bufs.squeue)
            /\ ToSet(signalledn(n.bufs, k).squeue) = ToSet(n.bufs.squeue) \ V
            /\ IsFiniteSet(V) /\ Cardinality(V) = i /\ i \in Nat
            /\ counted(signalledn(n.bufs, k)) = counted(n.bufs) + k - i
    BY <1>2, SemSignalledN
  <2> QED
    BY <1>1, <1>2, <1>4, <2>1
<1>6. /\ \A p \in W : p \in NetProcs /\ n.at[p] \in {"wait_buf", "wait_reply"} /\ m.at[p] \in {"hold", "reply"}
      /\ \A p \in NetProcs \ W : m.at[p] = n.at[p]
  BY <1>3, <1>5 DEF wanting, let_on
<1>7. BufsQueued(m)
  <2>1. wanting(m) = wanting(n) \ W
    BY <1>6 DEF wanting
  <2> QED
    BY <1>3, <1>5, <2>1 DEF BufsQueued
<1>8. PacketsCounted(m)
  <2>1. Ipout \in NetProcs /\ n.at[Ipout] \notin {"wait_buf", "wait_reply"}
    BY <1>2, NetKinds
  <2>2. m.at[Ipout] = n.at[Ipout]
    BY <1>6, <2>1
  <2> QED
    BY <1>3, <2>2 DEF NetSound, PacketsCounted
<1>9. BufsCounted(m, j)
  <2>1. queued(m) = queued(n) /\ IsFiniteSet(queued(n))
    BY <1>3 DEF queued, NetSound, BufsCounted
  <2>2. Cardinality(holding(m)) + Cardinality(replying(m))
          = Cardinality(holding(n)) + Cardinality(replying(n)) + w
    BY <1>3, <1>5, HoldersJoin
  <2>3. PICK c, u, v, h, r, g, q :
          /\ c = counted(n.bufs) /\ u = Cardinality(queued(n)) /\ v = inside(n.ipoqueue)
          /\ h = Cardinality(holding(n)) /\ r = Cardinality(replying(n))
          /\ g = Cardinality(holding(m)) /\ q = Cardinality(replying(m))
    OBVIOUS
  <2>4. /\ c \in Nat /\ u \in Nat /\ v \in Nat /\ h \in Nat /\ r \in Nat /\ g \in Nat /\ q \in Nat
    BY <2>1, <2>3, NetNumbers, NetFinite DEF NetSound
  <2>5. g + q = h + r + w /\ c + u + v + h + r + (j + k) = NetBufs
    BY <2>2, <2>3 DEF NetSound, BufsCounted
  <2>6. (c + k - w) + u + v + g + q + j = NetBufs
    BY <1>5, <2>4, <2>5
  <2> QED
    BY <1>3, <1>5, <2>1, <2>3, <2>6 DEF BufsCounted
<1>10. ReceiversTold(m)
  <2>1. \A p \in NetUsers : Receiving(n, p) \/ Receiving(m, p) => m.at[p] = n.at[p]
    BY <1>6, NetKinds DEF Receiving
  <2> QED
    BY <1>3, <2>1, ToldKept DEF NetSound
<1> QED
  BY <1>1, <1>3, <1>7, <1>8, <1>9, <1>10 DEF NetSound

(* One signal is signaln of one.                                           *)
LEMMA SignalOfOne ==
  ASSUME NEW T, NEW sem, IsSem(sem, T)
  PROVE  signalledn(sem, 1) = signalled(sem) /\ wokenn(sem, 1) = woken(sem)
<1>1. PICK q, c : q = sem.squeue /\ c = sem.scount
  OBVIOUS
<1>2. c \in Int /\ q \in Seq(T) /\ Len(q) = IF c < 0 THEN -c ELSE 0
  BY <1>1 DEF IsSem, SemEntries
<1>3. CASE c < 0
  <2>1. Len(q) >= 1 /\ least(1, Len(q)) = 1 /\ q # << >>
    BY <1>2, <1>3 DEF least
  <2>2. SubSeq(q, 1 + 1, Len(q)) = Tail(q)
    BY <1>2, <2>1
  <2>3. ToSet(SubSeq(q, 1, 1)) = {Head(q)}
    <3>1. PICK a : a = SubSeq(q, 1, 1)
      OBVIOUS
    <3>2. 1 \in 1 .. Len(q) + 1 /\ 1 \in 0 .. Len(q)
      BY <1>2, <2>1
    <3>3. a \in Seq(T) /\ Len(a) = 1 /\ a[1] = q[1]
      BY <1>2, <3>1, <3>2, SubSeqProperties
    <3>4. DOMAIN a = {1} /\ Head(q) = q[1]
      BY <1>2, <2>1, <3>3
    <3> QED
      BY <3>1, <3>3, <3>4 DEF ToSet
  <2> QED
    BY <1>1, <1>3, <2>1, <2>2, <2>3 DEF signalledn, wokenn, signalled, woken
<1>4. CASE ~(c < 0)
  <2>1. q = << >> /\ Len(q) = 0 /\ least(1, Len(q)) = 0
    BY <1>2, <1>4 DEF least
  <2>2. SubSeq(q, 0 + 1, Len(q)) = q /\ SubSeq(q, 1, 0) = << >>
    BY <1>2, <2>1
  <2> QED
    BY <1>1, <1>4, <2>1, <2>2, EmptyQueue DEF signalledn, wokenn, signalled, woken
<1> QED
  BY <1>3, <1>4

LEMMA FreedOne ==
  ASSUME NEW n, NEW j \in Nat, NetSound(n, j + 1)
  PROVE  NetSound(freebuf_in(n), j)
<1>1. IsSem(n.bufs, NetProcs)
  BY DEF NetSound, BufsQueued
<1>2. freebuf_in(n) = freebufs_in(n, 1)
  BY <1>1, SignalOfOne DEF freebuf_in, freebufs_in
<1> QED
  BY <1>2, FreedSound

-----------------------------------------------------------------------------
(* getbuf: a buffer comes into hand, or the process waits for one.         *)
LEMMA GetbufSound ==
  ASSUME NEW n, NEW k \in Nat, NetSound(n, k), NEW p \in NetProcs,
         NEW waits \in NetPoints[p] \cap {"wait_buf", "wait_reply"},
         NEW then \in NetPoints[p] \cap {"hold", "reply"},
         n.at[p] \in {"idle", "hold"}, one(waits) = one(n.at[p]),
         one(then) + two(then) = one(n.at[p]) + 1
  PROVE  NetSound(getbuf_in(n, p, waits, then), k)
<1>1. PICK m, x, b, f : /\ m = getbuf_in(n, p, waits, then) /\ b = waited(n.bufs, p)
                        /\ x = (IF blocks(n.bufs) THEN waits ELSE then) /\ f = n.at[p]
  OBVIOUS
<1>2. /\ n \in NetRecords /\ IsSem(n.bufs, NetProcs) /\ ToSet(n.bufs.squeue) = wanting(n)
      /\ (\A q \in NetProcs : n.at[q] \in NetPoints[q]) /\ x \in NetPoints[p] /\ x \in NetPoint
  BY <1>1, NetKinds DEF NetSound, NetTypeOK, BufsQueued
<1>3. p \notin wanting(n)
  BY DEF wanting
<1>4. /\ IsSem(b, NetProcs)
      /\ blocks(n.bufs) =>
           ToSet(b.squeue) = wanting(n) \cup {p} /\ counted(n.bufs) = 0 /\ counted(b) = 0
      /\ ~blocks(n.bufs) =>
           /\ ToSet(b.squeue) = wanting(n) /\ wanting(n) = {}
           /\ counted(n.bufs) > 0 /\ counted(b) = counted(n.bufs) - 1
  BY <1>1, <1>2, <1>3, SemWaited
<1>5. /\ m.bufs = b /\ m.udptab = n.udptab /\ m.ipoqueue = n.ipoqueue /\ m.iqsem = n.iqsem
      /\ m.slot = n.slot /\ m.mail = n.mail /\ m \in NetRecords
      /\ m.at[p] = x /\ \A q \in NetProcs \ {p} : m.at[q] = n.at[q]
  <2>1. b \in SemEntries(NetProcs)
    BY <1>4 DEF IsSem
  <2>2. m = [n EXCEPT !.bufs = b, !.at[p] = x]
    BY <1>1 DEF getbuf_in
  <2> QED
    BY <1>2, <2>1, <2>2 DEF NetRecords
<1>6. NetTypeOK(m)
  BY <1>2, <1>5 DEF NetTypeOK
<1>7. BufsQueued(m)
  <2>1. wanting(m) = IF blocks(n.bufs) THEN wanting(n) \cup {p} ELSE wanting(n)
    BY <1>1, <1>5 DEF wanting
  <2> QED
    BY <1>4, <1>5, <2>1 DEF BufsQueued
<1>8. PacketsCounted(m)
  <2>1. p # Ipout => m.at[Ipout] = n.at[Ipout]
    BY <1>5, NetKinds
  <2>2. p = Ipout => FALSE
    BY NetKinds
  <2> QED
    BY <1>5, <2>1, <2>2 DEF NetSound, PacketsCounted
<1>9. BufsCounted(m, k)
  <2>1. queued(m) = queued(n) /\ IsFiniteSet(queued(n))
    BY <1>5 DEF queued, NetSound, BufsCounted
  <2>2. PICK c, u, v, h, r, g, q :
          /\ c = counted(n.bufs) /\ u = Cardinality(queued(n)) /\ v = inside(n.ipoqueue)
          /\ h = Cardinality(holding(n)) /\ r = Cardinality(replying(n))
          /\ g = Cardinality(holding(m)) /\ q = Cardinality(replying(m))
    OBVIOUS
  <2>3. /\ c \in Nat /\ u \in Nat /\ v \in Nat /\ h \in Nat /\ r \in Nat /\ g \in Nat /\ q \in Nat
    BY <2>1, <2>2, NetNumbers, NetFinite DEF NetSound
  <2>4. c + u + v + h + r + k = NetBufs
    BY <2>2 DEF NetSound, BufsCounted
  <2>5. g + one(f) = h + one(x) /\ q + two(f) = r + two(x)
    <3>1. m.at[p] = x /\ (\A y \in NetProcs \ {p} : m.at[y] = n.at[y]) /\ f = n.at[p]
      BY <1>1, <1>5
    <3>2. /\ Cardinality(holding(m)) + one(n.at[p]) = Cardinality(holding(n)) + one(x)
          /\ Cardinality(replying(m)) + two(n.at[p]) = Cardinality(replying(n)) + two(x)
      BY <3>1, HoldersMove
    <3> QED
      BY <2>2, <3>1, <3>2
  <2>6. one(f) \in {0, 1} /\ two(f) = 0 /\ f = n.at[p]
    BY <1>1 DEF one, two
  <2>7. PICK d : d = counted(b)
    OBVIOUS
  <2>8. CASE blocks(n.bufs)
    <3>1. one(x) = one(f) /\ two(x) = 0 /\ d = c
      BY <1>1, <1>4, <2>2, <2>7, <2>8 DEF two
    <3>2. d + u + v + g + q + k = NetBufs
      BY <2>3, <2>4, <2>5, <2>6, <3>1
    <3> QED
      BY <1>5, <2>1, <2>2, <2>7, <3>2 DEF BufsCounted
  <2>9. CASE ~blocks(n.bufs)
    <3>1. /\ one(x) + two(x) = one(f) + 1 /\ d = c - 1
          /\ one(x) \in Nat /\ two(x) \in Nat
      BY <1>1, <1>4, <2>2, <2>7, <2>9 DEF one, two
    <3>2. d + u + v + g + q + k = NetBufs
      BY <2>3, <2>4, <2>5, <2>6, <3>1
    <3> QED
      BY <1>5, <2>1, <2>2, <2>7, <3>2 DEF BufsCounted
  <2> QED
    BY <2>8, <2>9
<1>10. ReceiversTold(m)
  <2>1. \A q \in NetUsers : Receiving(n, q) \/ Receiving(m, q) => m.at[q] = n.at[q]
    BY <1>1, <1>5, NetKinds DEF Receiving
  <2> QED
    BY <1>5, <2>1, ToldKept DEF NetSound
<1> QED
  BY <1>1, <1>6, <1>7, <1>8, <1>9, <1>10 DEF NetSound

(* A packet is put in an entry that has none, and one is taken.            *)
LEMMA PutInOrder ==
  ASSUME NEW q, InOrder(q), ~q.iqbuf[q.iqtail]
  PROVE  /\ InOrder(put_at_tail(q)) /\ inside(q) \in Nat
         /\ inside(put_at_tail(q)) = inside(q) + 1
<1>1. PICK o, N, h, t, r, u : /\ o = put_at_tail(q) /\ N = IP_OQSIZ /\ h = q.iqhead /\ t = q.iqtail
                              /\ r = inside(q) /\ u = next_entry(t)
  OBVIOUS
<1>2. /\ N \in Nat /\ N > 0 /\ h \in 0 .. N - 1 /\ t \in 0 .. N - 1 /\ r \in 0 .. N
      /\ IpqEntries = 0 .. N - 1 /\ q.iqbuf \in [0 .. N - 1 -> BOOLEAN]
      /\ t = h + r \/ t + N = h + r
      /\ \A i \in 0 .. N - 1 : q.iqbuf[i] <=> (IF i >= h THEN i - h ELSE i - h + N) < r
  BY <1>1, NetAssumption DEF InOrder, IpQueues, IpqEntries, from_head
<1>3. u = IF t + 1 >= N THEN 0 ELSE t + 1
  BY <1>1 DEF next_entry
<1>4. /\ o.iqhead = h /\ o.iqtail = u /\ o \in IpQueues /\ u \in 0 .. N - 1
      /\ \A i \in 0 .. N - 1 : o.iqbuf[i] <=> q.iqbuf[i] \/ i = t
  <2>1. q \in IpQueues /\ u = next_entry(q.iqtail) /\ t = q.iqtail
    BY <1>1 DEF InOrder
  <2>2. u \in 0 .. N - 1
    BY <1>2, <1>3
  <2>3. PICK f : f = [q.iqbuf EXCEPT ![t] = TRUE]
    OBVIOUS
  <2>4. f \in [0 .. N - 1 -> BOOLEAN] /\ \A i \in 0 .. N - 1 : f[i] <=> q.iqbuf[i] \/ i = t
    BY <1>2, <2>3
  <2>5. o = [[q EXCEPT !.iqbuf = f] EXCEPT !.iqtail = u]
    BY <1>1, <2>1, <2>3 DEF put_at_tail
  <2>6. o = [iqbuf |-> f, iqhead |-> h, iqtail |-> u]
    BY <1>1, <2>1, <2>5 DEF IpQueues
  <2>7. o.iqhead = h /\ o.iqtail = u /\ o.iqbuf = f /\ o \in IpQueues
    BY <1>2, <2>2, <2>4, <2>6 DEF IpQueues
  <2> QED
    BY <2>2, <2>4, <2>7
<1>5. ~q.iqbuf[t]
  BY <1>1
<1>6. r < N
  BY <1>2, <1>5
<1>7. inside(o) = r + 1
  <2>1. untaken(o) = untaken(q) \cup {t} /\ t \notin untaken(q)
    BY <1>2, <1>4, <1>5 DEF untaken
  <2>2. IsFiniteSet(0 .. N - 1)
    BY <1>2, FS_Interval
  <2>3. IsFiniteSet(untaken(q))
    BY <1>2, <2>2, FS_Subset DEF untaken
  <2>4. Cardinality(untaken(q) \cup {t}) = Cardinality(untaken(q)) + 1
    BY <2>1, <2>3, FS_AddElement
  <2> QED
    BY <1>1, <2>1, <2>4 DEF inside
<1>8. \A i \in 0 .. N - 1 : o.iqbuf[i] <=> (IF i >= h THEN i - h ELSE i - h + N) < r + 1
  <2>1. ASSUME NEW i \in 0 .. N - 1
        PROVE  (q.iqbuf[i] \/ i = t) <=> (IF i >= h THEN i - h ELSE i - h + N) < r + 1
    <3>1. q.iqbuf[i] <=> (IF i >= h THEN i - h ELSE i - h + N) < r
      BY <1>2
    <3>2. i = t <=> (IF i >= h THEN i - h ELSE i - h + N) = r
      BY <1>2, <1>6
    <3>3. PICK d : d = IF i >= h THEN i - h ELSE i - h + N
      OBVIOUS
    <3>4. d \in Int /\ r \in Int
      BY <1>2, <3>3
    <3> QED
      BY <3>1, <3>2, <3>3, <3>4
  <2> QED
    BY <1>4, <2>1
<1>9. u = h + (r + 1) \/ u + N = h + (r + 1)
  BY <1>2, <1>3, <1>6
<1>10. inside(o) \in 0 .. N
  BY <1>2, <1>6, <1>7
<1>11. InOrder(o)
  BY <1>1, <1>2, <1>4, <1>7, <1>8, <1>9, <1>10 DEF InOrder, from_head
<1> QED
  BY <1>1, <1>2, <1>7, <1>11

LEMMA TakenInOrder ==
  ASSUME NEW q, InOrder(q), inside(q) > 0
  PROVE  /\ InOrder(taken_at_head(q)) /\ inside(taken_at_head(q)) \in Nat
         /\ inside(q) = inside(taken_at_head(q)) + 1
         /\ q.iqbuf[q.iqhead]
<1>1. PICK o, N, h, t, r, u : /\ o = taken_at_head(q) /\ N = IP_OQSIZ /\ h = q.iqhead /\ t = q.iqtail
                              /\ r = inside(q) /\ u = next_entry(h)
  OBVIOUS
<1>2. /\ N \in Nat /\ N > 0 /\ h \in 0 .. N - 1 /\ t \in 0 .. N - 1 /\ r \in 1 .. N
      /\ IpqEntries = 0 .. N - 1 /\ q.iqbuf \in [0 .. N - 1 -> BOOLEAN]
      /\ t = h + r \/ t + N = h + r
      /\ \A i \in 0 .. N - 1 : q.iqbuf[i] <=> (IF i >= h THEN i - h ELSE i - h + N) < r
  BY <1>1, NetAssumption DEF InOrder, IpQueues, IpqEntries, from_head
<1>3. u = IF h + 1 >= N THEN 0 ELSE h + 1
  BY <1>1 DEF next_entry
<1>4. /\ o.iqhead = u /\ o.iqtail = t /\ o \in IpQueues /\ u \in 0 .. N - 1
      /\ \A i \in 0 .. N - 1 : o.iqbuf[i] <=> q.iqbuf[i] /\ i # h
  <2>1. q \in IpQueues /\ u = next_entry(q.iqhead) /\ h = q.iqhead
    BY <1>1 DEF InOrder
  <2>2. u \in 0 .. N - 1
    BY <1>2, <1>3
  <2>3. PICK f : f = [q.iqbuf EXCEPT ![h] = FALSE]
    OBVIOUS
  <2>4. f \in [0 .. N - 1 -> BOOLEAN] /\ \A i \in 0 .. N - 1 : f[i] <=> q.iqbuf[i] /\ i # h
    BY <1>2, <2>3
  <2>5. o = [[q EXCEPT !.iqbuf = f] EXCEPT !.iqhead = u]
    BY <1>1, <2>1, <2>3 DEF taken_at_head
  <2>6. o = [iqbuf |-> f, iqhead |-> u, iqtail |-> t]
    BY <1>1, <2>1, <2>5 DEF IpQueues
  <2>7. o.iqhead = u /\ o.iqtail = t /\ o.iqbuf = f /\ o \in IpQueues
    BY <1>2, <2>2, <2>4, <2>6 DEF IpQueues
  <2> QED
    BY <2>2, <2>4, <2>7
<1>5. q.iqbuf[h]
  BY <1>2
<1>7. inside(o) = r - 1
  <2>1. untaken(o) = untaken(q) \ {h} /\ h \in untaken(q)
    BY <1>2, <1>4, <1>5 DEF untaken
  <2>2. IsFiniteSet(0 .. N - 1)
    BY <1>2, FS_Interval
  <2>3. IsFiniteSet(untaken(q))
    BY <1>2, <2>2, FS_Subset DEF untaken
  <2>4. Cardinality(untaken(q) \ {h}) = Cardinality(untaken(q)) - 1
    BY <2>1, <2>3, FS_RemoveElement
  <2> QED
    BY <1>1, <2>1, <2>4 DEF inside
<1>8. \A i \in 0 .. N - 1 : o.iqbuf[i] <=> (IF i >= u THEN i - u ELSE i - u + N) < r - 1
  <2>1. ASSUME NEW i \in 0 .. N - 1
        PROVE  (q.iqbuf[i] /\ i # h) <=> (IF i >= u THEN i - u ELSE i - u + N) < r - 1
    <3>1. q.iqbuf[i] <=> (IF i >= h THEN i - h ELSE i - h + N) < r
      BY <1>2
    <3>2. PICK d, e : d = (IF i >= h THEN i - h ELSE i - h + N) /\ e = (IF i >= u THEN i - u ELSE i - u + N)
      OBVIOUS
    <3>3. d \in Int /\ e \in Int /\ r \in Int
      BY <1>2, <1>4, <3>2
    <3>4. IF i = h THEN d = 0 /\ e = N - 1 ELSE d = e + 1
      BY <1>2, <1>3, <3>2
    <3> QED
      BY <1>2, <3>1, <3>2, <3>3, <3>4
  <2> QED
    BY <1>4, <2>1
<1>9. t = u + (r - 1) \/ t + N = u + (r - 1)
  BY <1>2, <1>3
<1>10. inside(o) \in 0 .. N /\ inside(o) \in Nat /\ r = inside(o) + 1
  BY <1>2, <1>7
<1>11. InOrder(o)
  BY <1>1, <1>2, <1>4, <1>7, <1>8, <1>9, <1>10 DEF InOrder, from_head
<1> QED
  BY <1>1, <1>5, <1>10, <1>11

(* ip_enqueue: the packet is queued, and its buffer with it, or freed.     *)
LEMMA EnqueuedSound ==
  ASSUME NEW n, NEW k \in Nat, NetSound(n, k + 1),
         n.iqsem.scount >= IP_OQSIZ \/ ~n.ipoqueue.iqbuf[n.ipoqueue.iqtail]
  PROVE  NetSound(ip_enqueue(n), k)
<1>1. CASE n.iqsem.scount >= IP_OQSIZ
  <2>1. ip_enqueue(n) = freebuf_in(n)
    BY <1>1 DEF ip_enqueue
  <2> QED
    BY <2>1, FreedOne
<1>2. CASE ~(n.iqsem.scount >= IP_OQSIZ)
  <2>1. PICK m, W, b, a, o : /\ m = ip_enqueue(n) /\ W = woken(n.iqsem) /\ b = signalled(n.iqsem)
                             /\ a = let_on_all(n.at, W) /\ o = put_at_tail(n.ipoqueue)
    OBVIOUS
  <2>2. /\ n \in NetRecords /\ IsSem(n.iqsem, {Ipout}) /\ InOrder(n.ipoqueue)
        /\ (\A q \in NetProcs : n.at[q] \in NetPoints[q])
        /\ ToSet(n.iqsem.squeue) = IF n.at[Ipout] = "wait_packet" THEN {Ipout} ELSE {}
    BY DEF NetSound, NetTypeOK, PacketsCounted, NetRecords
  <2>3. /\ IsSem(b, {Ipout}) /\ W \subseteq ToSet(n.iqsem.squeue)
        /\ ToSet(b.squeue) = ToSet(n.iqsem.squeue) \ W
        /\ \/ (\E p \in {Ipout} : W = {p}) /\ counted(n.iqsem) = 0 /\ counted(b) = 0
           \/ W = {} /\ ToSet(n.iqsem.squeue) = {} /\ counted(b) = counted(n.iqsem) + 1
    <3>1. LET sem == n.iqsem
              T == {Ipout}
          IN  /\ IsSem(signalled(sem), T)
              /\ woken(sem) \subseteq ToSet(sem.squeue) /\ woken(sem) \subseteq T
              /\ ToSet(signalled(sem).squeue) = ToSet(sem.squeue) \ woken(sem)
              /\ \/ /\ \E p \in T : woken(sem) = {p}
                    /\ counted(sem) = 0 /\ counted(signalled(sem)) = 0
                 \/ /\ woken(sem) = {} /\ ToSet(sem.squeue) = {}
                    /\ counted(signalled(sem)) = counted(sem) + 1
      BY <2>2, SemSignalled
    <3> QED
      BY <2>1, <3>1
  <2>4. \A p \in NetProcs : a[p] = IF p \in W THEN "send" ELSE n.at[p]
    <3>1. \A p \in W : p = Ipout /\ n.at[p] = "wait_packet"
      BY <2>2, <2>3
    <3>2. \A p \in NetProcs : a[p] = IF p \in W THEN let_on(n.at[p]) ELSE n.at[p]
      BY <2>1 DEF let_on_all
    <3> QED
      BY <3>1, <3>2 DEF let_on
  <2>5. \A p \in NetProcs : a[p] \in NetPoints[p]
    BY <2>2, <2>3, <2>4, NetKinds
  <2>6. a \in [NetProcs -> NetPoint]
    <3>1. \A p \in NetProcs : a[p] \in NetPoint
      BY <2>5, NetKinds
    <3>2. a = [p \in NetProcs |-> a[p]]
      BY <2>1 DEF let_on_all
    <3> QED
      BY <3>1, <3>2
  <2>7. /\ InOrder(o) /\ o \in IpQueues
        /\ inside(o) = inside(n.ipoqueue) + 1 /\ inside(n.ipoqueue) \in Nat
    <3>1. ~n.ipoqueue.iqbuf[n.ipoqueue.iqtail]
      BY <1>2
    <3>2. InOrder(o) /\ inside(o) = inside(n.ipoqueue) + 1 /\ inside(n.ipoqueue) \in Nat
      BY <2>1, <2>2, <3>1, PutInOrder
    <3> QED
      BY <3>2 DEF InOrder
  <2>8. /\ m.bufs = n.bufs /\ m.udptab = n.udptab /\ m.ipoqueue = o /\ m.iqsem = b
        /\ m.slot = n.slot /\ m.mail = n.mail /\ m.at = a /\ m \in NetRecords
    <3>1. b \in SemEntries({Ipout})
      BY <2>3 DEF IsSem
    <3>2. m = [n EXCEPT !.ipoqueue = o, !.iqsem = b, !.at = a]
      BY <1>2, <2>1 DEF ip_enqueue, stored
    <3> QED
      BY <2>2, <2>6, <2>7, <3>1, <3>2 DEF NetRecords
  <2>9. NetTypeOK(m)
    BY <2>5, <2>8 DEF NetTypeOK
  <2>10. /\ \A p \in NetProcs : p # Ipout => m.at[p] = n.at[p]
         /\ \/ W = {Ipout} /\ m.at[Ipout] = "send" /\ n.at[Ipout] = "wait_packet"
            \/ W = {} /\ m.at[Ipout] = n.at[Ipout] /\ n.at[Ipout] # "wait_packet"
    BY <2>2, <2>3, <2>4, <2>8, NetKinds
  <2>11. /\ wanting(m) = wanting(n) /\ holding(m) = holding(n) /\ replying(m) = replying(n)
         /\ queued(m) = queued(n)
    BY <2>8, <2>10, NetKinds DEF wanting, holding, replying, queued
  <2>12. BufsQueued(m)
    BY <2>8, <2>11 DEF NetSound, BufsQueued
  <2>13. PacketsCounted(m)
    <3>1. inside(n.ipoqueue) = counted(n.iqsem) + IF n.at[Ipout] = "send" THEN 1 ELSE 0
      BY DEF NetSound, PacketsCounted
    <3>2. counted(n.iqsem) \in Nat
      BY <2>2, CountedNat
    <3>3. inside(o) = counted(b) + IF m.at[Ipout] = "send" THEN 1 ELSE 0
      <4>1. CASE W = {Ipout}
        BY <2>3, <2>7, <2>10, <3>1, <3>2, <4>1
      <4>2. CASE W = {}
        BY <2>3, <2>7, <2>10, <3>1, <3>2, <4>2
      <4> QED
        BY <2>10, <4>1, <4>2
    <3>4. ToSet(b.squeue) = IF m.at[Ipout] = "wait_packet" THEN {Ipout} ELSE {}
      BY <2>2, <2>3, <2>10
    <3> QED
      BY <2>3, <2>7, <2>8, <3>3, <3>4 DEF PacketsCounted
  <2>14. BufsCounted(m, k)
    <3>1. PICK c, u, v, h, r :
            /\ c = counted(n.bufs) /\ u = Cardinality(queued(n)) /\ v = inside(n.ipoqueue)
            /\ h = Cardinality(holding(n)) /\ r = Cardinality(replying(n))
      OBVIOUS
    <3>2. IsFiniteSet(queued(n)) /\ c + u + v + h + r + (k + 1) = NetBufs
      BY <3>1 DEF NetSound, BufsCounted
    <3>3. c \in Nat /\ u \in Nat /\ v \in Nat /\ h \in Nat /\ r \in Nat
      BY <3>1, <3>2, NetNumbers DEF NetSound
    <3>4. c + u + (v + 1) + h + r + k = NetBufs
      BY <3>2, <3>3
    <3>5. /\ counted(m.bufs) = c /\ Cardinality(queued(m)) = u /\ inside(m.ipoqueue) = v + 1
          /\ Cardinality(holding(m)) = h /\ Cardinality(replying(m)) = r /\ IsFiniteSet(queued(m))
      BY <2>7, <2>8, <2>11, <3>1, <3>2
    <3> QED
      BY <3>4, <3>5 DEF BufsCounted
  <2>15. ReceiversTold(m)
    <3>1. \A q \in NetUsers : Receiving(n, q) \/ Receiving(m, q) => m.at[q] = n.at[q]
      BY <2>10, NetKinds
    <3> QED
      BY <2>8, <3>1, ToldKept DEF NetSound
  <2> QED
    BY <2>1, <2>9, <2>12, <2>13, <2>14, <2>15 DEF NetSound
<1> QED
  BY <1>1, <1>2

-----------------------------------------------------------------------------
(* Nothing changes but an endpoint, and who receives.                      *)
EndpointOnly(n, m, s, e) ==
  /\ m.bufs = n.bufs /\ m.ipoqueue = n.ipoqueue /\ m.iqsem = n.iqsem /\ m \in NetRecords
  /\ m.udptab[s] = e /\ \A t \in UdpSlots \ {s} : m.udptab[t] = n.udptab[t]
  /\ \A p \in NetProcs :
       \/ m.at[p] = n.at[p]
       \/ /\ p \in NetUsers
          /\ m.at[p] \in {"idle", "wait_recv", "ready"} /\ n.at[p] \in {"idle", "wait_recv", "ready"}

LEMMA EndpointSound ==
  ASSUME NEW n, NEW k \in Nat, NEW j \in Nat, NetSound(n, k), NEW m,
         NEW s \in UdpSlots, NEW e \in Endpoints, EndpointOnly(n, m, s, e),
         k + Len(n.udptab[s].udqueue) = j + Len(e.udqueue), ReceiversTold(m)
  PROVE  NetSound(m, j)
<1>1. NetTypeOK(m)
  <2>1. ASSUME NEW p \in NetProcs PROVE m.at[p] \in NetPoints[p]
    <3>1. n.at[p] \in NetPoints[p]
      BY DEF NetSound, NetTypeOK
    <3>2. m.at[p] = n.at[p] \/ (p \in NetUsers /\ m.at[p] \in {"idle", "wait_recv", "ready"})
      BY DEF EndpointOnly
    <3> QED
      BY <3>1, <3>2, NetKinds
  <2> QED
    BY <2>1 DEF EndpointOnly, NetTypeOK
<1>2. wanting(m) = wanting(n) /\ holding(m) = holding(n) /\ replying(m) = replying(n)
  BY DEF EndpointOnly, wanting, holding, replying
<1>3. BufsQueued(m)
  BY <1>2 DEF EndpointOnly, NetSound, BufsQueued
<1>4. PacketsCounted(m)
  <2>1. m.at[Ipout] = n.at[Ipout]
    BY NetKinds DEF EndpointOnly
  <2> QED
    BY <2>1 DEF EndpointOnly, NetSound, PacketsCounted
<1>5. BufsCounted(m, j)
  <2>1. PICK c, u, v, h, r, w, a, b :
          /\ c = counted(n.bufs) /\ u = Cardinality(queued(n)) /\ v = inside(n.ipoqueue)
          /\ h = Cardinality(holding(n)) /\ r = Cardinality(replying(n)) /\ w = Cardinality(queued(m))
          /\ a = Len(n.udptab[s].udqueue) /\ b = Len(e.udqueue)
    OBVIOUS
  <2>2. IsFiniteSet(queued(n)) /\ c + u + v + h + r + k = NetBufs
    BY <2>1 DEF NetSound, BufsCounted
  <2>3. n.udptab \in [UdpSlots -> Endpoints]
    BY DEF NetSound, NetTypeOK, NetRecords
  <2>4. IsFiniteSet(queued(m)) /\ w \in Nat /\ a \in Nat /\ b \in Nat /\ w + a = u + b
    <3>1. m.udptab[s] = e /\ \A t \in UdpSlots \ {s} : m.udptab[t] = n.udptab[t]
      BY DEF EndpointOnly
    <3>2. IsFiniteSet(queued(n))
      BY <2>2
    <3>3. /\ IsFiniteSet(queued(m)) /\ Cardinality(queued(m)) \in Nat /\ Cardinality(queued(n)) \in Nat
          /\ Len(e.udqueue) \in Nat /\ Len(n.udptab[s].udqueue) \in Nat
          /\ Cardinality(queued(m)) + Len(n.udptab[s].udqueue) = Cardinality(queued(n)) + Len(e.udqueue)
      BY <2>3, <3>1, <3>2, QueueSizes
    <3> QED
      BY <2>1, <3>3
  <2>5. c \in Nat /\ u \in Nat /\ v \in Nat /\ h \in Nat /\ r \in Nat
    BY <2>1, <2>2, NetNumbers DEF NetSound
  <2>6. k + a = j + b
    BY <2>1
  <2>7. c + w + v + h + r + j = NetBufs
    BY <2>2, <2>4, <2>5, <2>6
  <2> QED
    BY <1>2, <2>1, <2>4, <2>7 DEF BufsCounted, EndpointOnly
<1> QED
  BY <1>1, <1>3, <1>4, <1>5 DEF NetSound

(* What is said of receivers has to be shown again only of those in P and  *)
(* of the endpoint s.                                                      *)
SameBut(n, m, s, P) ==
  /\ n.slot \in [NetUsers -> UdpSlots]
  /\ \A t \in UdpSlots \ {s} :
       /\ m.udptab[t] = n.udptab[t]
       /\ n.udptab[t].udstate = "UDP_RECV" => n.udptab[t].udpid \notin P
  /\ \A q \in NetUsers \ P : m.at[q] = n.at[q] /\ m.slot[q] = n.slot[q] /\ m.mail[q] = n.mail[q]

LEMMA ToldBut ==
  ASSUME NEW n, NEW m, ReceiversTold(n), NEW s \in UdpSlots, NEW P, SameBut(n, m, s, P),
         WaitedAt(m, s), \A q \in NetUsers : q \in P \/ n.slot[q] = s => WaitsAt(m, q)
  PROVE  ReceiversTold(m)
<1>1. ASSUME NEW t \in UdpSlots \ {s} PROVE WaitedAt(m, t)
  <2>1. WaitedAt(n, t)
    BY DEF ReceiversTold
  <2>2. m.udptab[t] = n.udptab[t] /\ (n.udptab[t].udstate = "UDP_RECV" => n.udptab[t].udpid \notin P)
    BY DEF SameBut
  <2>3. \A q \in NetUsers \ P : m.at[q] = n.at[q] /\ m.slot[q] = n.slot[q] /\ m.mail[q] = n.mail[q]
    BY DEF SameBut
  <2> QED
    BY <2>1, <2>2, <2>3 DEF WaitedAt
<1>2. ASSUME NEW q \in NetUsers \ P, n.slot[q] # s PROVE WaitsAt(m, q)
  <2>1. WaitsAt(n, q)
    BY DEF ReceiversTold
  <2>2. /\ m.udptab[m.slot[q]] = n.udptab[n.slot[q]]
        /\ m.at[q] = n.at[q] /\ m.slot[q] = n.slot[q] /\ m.mail[q] = n.mail[q]
    BY <1>2 DEF SameBut
  <2> QED
    BY <2>1, <2>2 DEF WaitsAt, Receiving
<1> QED
  BY <1>1, <1>2 DEF ReceiversTold

(* Nobody receives at an endpoint whose user does not.                     *)
Quiet(n, s) == \A q \in NetUsers : n.slot[q] = s => ~Receiving(n, q) /\ ~n.mail[q]

LEMMA NobodyAt ==
  ASSUME NEW n, ReceiversTold(n), NEW s, NEW p, n.udptab[s].user = p, ~Receiving(n, p)
  PROVE  Quiet(n, s)
BY DEF Quiet, ReceiversTold, WaitsAt, Receiving

(* An endpoint that has no receiver and is in use, or becomes free.        *)
LEMMA QuietSound ==
  ASSUME NEW n, NEW k \in Nat, NEW j \in Nat, NetSound(n, k), NEW s \in UdpSlots, NEW e \in Endpoints,
         Quiet(n, s),
         e.udstate = "UDP_USED" \/ (e.udstate = "UDP_FREE" /\ e.udqueue = << >>),
         k + Len(n.udptab[s].udqueue) = j + Len(e.udqueue)
  PROVE  NetSound([n EXCEPT !.udptab[s] = e], j)
<1>1. PICK m : m = [n EXCEPT !.udptab[s] = e]
  OBVIOUS
<1>2. n \in NetRecords /\ n.slot \in [NetUsers -> UdpSlots]
  BY DEF NetSound, NetTypeOK, NetRecords
<1>3. /\ m.bufs = n.bufs /\ m.ipoqueue = n.ipoqueue /\ m.iqsem = n.iqsem /\ m.at = n.at
      /\ m.slot = n.slot /\ m.mail = n.mail /\ m \in NetRecords
      /\ m.udptab[s] = e /\ \A t \in UdpSlots \ {s} : m.udptab[t] = n.udptab[t]
  BY <1>1, <1>2 DEF NetRecords
<1>4. WaitedAt(m, s)
  BY <1>3 DEF WaitedAt
<1>5. \A q \in NetUsers : n.slot[q] = s => WaitsAt(m, q)
  BY <1>3 DEF Quiet, WaitsAt, Receiving
<1>6. ReceiversTold(m)
  <2>1. ReceiversTold(n)
    BY DEF NetSound
  <2>2. SameBut(n, m, s, {})
    BY <1>2, <1>3 DEF SameBut
  <2>3. \A q \in NetUsers : q \in {} \/ n.slot[q] = s => WaitsAt(m, q)
    BY <1>5
  <2> QED
    BY <1>4, <2>1, <2>2, <2>3, ToldBut
<1>7. NetSound(m, j)
  <2>1. EndpointOnly(n, m, s, e)
    BY <1>3 DEF EndpointOnly
  <2> QED
    BY <1>6, <2>1, EndpointSound
<1> QED
  BY <1>1, <1>7

(* Lengths that differ as much as the buffers in hand.                     *)
LEMMA Lengths ==
  ASSUME NEW k, NEW j, NEW a, NEW b, NEW q, NEW r, k + a = j + b, a = Len(q), b = Len(r)
  PROVE  k + Len(q) = j + Len(r)
BY Zenon

(* The first packet of an endpoint is taken, and its buffer freed.         *)
LEMMA DequeuedSound ==
  ASSUME NEW n, NEW k \in Nat, NetSound(n, k), NEW s \in UdpSlots,
         n.udptab[s].udstate = "UDP_USED", n.udptab[s].udqueue # << >>, Quiet(n, s)
  PROVE  NetSound(dequeued(n, s), k)
<1>1. PICK e : e = [n.udptab[s] EXCEPT !.udqueue = Tail(@)]
  OBVIOUS
<1>2. n.udptab[s] \in Endpoints /\ n \in NetRecords
  BY DEF NetSound, NetTypeOK, NetRecords
<1>3. PICK q : q = n.udptab[s].udqueue
  OBVIOUS
<1>4. q \in Seq(Remotes) /\ q # << >>
  BY <1>2, <1>3 DEF Endpoints
<1>5. Tail(q) \in Seq(Remotes) /\ Len(q) \in Nat /\ Len(Tail(q)) = Len(q) - 1
  BY <1>4
<1>6. e \in Endpoints /\ e.udstate = "UDP_USED" /\ e.udqueue = Tail(q)
  BY <1>1, <1>2, <1>3, <1>5 DEF Endpoints
<1>7. k + Len(n.udptab[s].udqueue) = (k + 1) + Len(e.udqueue) /\ k + 1 \in Nat
  <2>1. PICK l, r : l = Len(q) /\ r = Len(e.udqueue)
    OBVIOUS
  <2>2. l \in Nat /\ r = l - 1
    BY <1>5, <1>6, <2>1
  <2>3. k + l = (k + 1) + r /\ k + 1 \in Nat
    BY <2>2
  <2>4. l = Len(n.udptab[s].udqueue)
    BY <1>3, <2>1
  <2> QED
    BY <2>1, <2>3, <2>4, Lengths, Zenon
<1>8. NetSound([n EXCEPT !.udptab[s] = e], k + 1)
  BY <1>6, <1>7, QuietSound
<1>9. dequeued(n, s) = freebuf_in([n EXCEPT !.udptab[s] = e])
  BY <1>1, <1>2 DEF dequeued, NetRecords
<1> QED
  BY <1>8, <1>9, FreedOne

-----------------------------------------------------------------------------
(* The first endpoint that takes a packet.                                 *)
LEMMA FirstTaking ==
  ASSUME NEW n, NEW pkt, {s \in UdpSlots : takes(n.udptab[s], pkt)} # {}
  PROVE  LET s == Min({t \in UdpSlots : takes(n.udptab[t], pkt)})
         IN  s \in UdpSlots /\ takes(n.udptab[s], pkt)
<1>1. PICK A : A = {t \in UdpSlots : takes(n.udptab[t], pkt)}
  OBVIOUS
<1>2. A \subseteq Nat /\ A # {}
  BY <1>1 DEF UdpSlots
<1>3. Min(A) \in A
  BY <1>2, MinOfNaturals
<1> QED
  BY <1>1, <1>3

(* A packet for a process that waits, or has waited long enough, but has   *)
(* not run.                                                                *)
LEMMA DeliveredSound ==
  ASSUME NEW n, NEW k \in Nat, NetSound(n, k + 1), NEW s \in UdpSlots, NEW pkt \in Remotes,
         NEW p, p = n.udptab[s].udpid, n.udptab[s].udstate = "UDP_RECV"
  PROVE  NetSound(tells(n, s, p, pkt), k)
<1>1. /\ n \in NetRecords /\ ReceiversTold(n) /\ n.udptab[s] \in Endpoints
      /\ n.slot \in [NetUsers -> UdpSlots]
  BY DEF NetSound, NetTypeOK, NetRecords
<1>2. /\ p \in NetUsers /\ n.at[p] \in {"wait_recv", "ready"} /\ ~n.mail[p] /\ n.slot[p] = s
      /\ n.udptab[s].udqueue = << >>
  BY <1>1 DEF ReceiversTold, WaitedAt
<1>3. PICK o, e : /\ o = Append(n.udptab[s].udqueue, pkt)
                  /\ e = [n.udptab[s] EXCEPT !.udqueue = o, !.udstate = "UDP_USED"]
  OBVIOUS
<1>4. o \in Seq(Remotes) /\ o # << >> /\ Len(o) = 1 /\ Len(n.udptab[s].udqueue) = 0
  BY <1>2, <1>3
<1>5. e \in Endpoints /\ e.udstate = "UDP_USED" /\ e.udqueue = o /\ e.user = n.udptab[s].user
  BY <1>1, <1>3, <1>4 DEF Endpoints
<1>6. PICK m : m = [n EXCEPT !.udptab[s] = e, !.mail[p] = TRUE, !.at[p] = "ready"]
  OBVIOUS
<1>7. /\ m.bufs = n.bufs /\ m.ipoqueue = n.ipoqueue /\ m.iqsem = n.iqsem /\ m.slot = n.slot
      /\ m \in NetRecords
      /\ m.udptab[s] = e /\ \A t \in UdpSlots \ {s} : m.udptab[t] = n.udptab[t]
  <2>1. "ready" \in NetPoint
    BY <1>2, NetKinds
  <2> QED
    BY <1>1, <1>2, <1>5, <1>6, <2>1 DEF NetRecords
<1>8. /\ m.at[p] = "ready" /\ m.mail[p]
      /\ \A q \in NetProcs \ {p} : m.at[q] = n.at[q]
      /\ \A q \in NetUsers \ {p} : m.mail[q] = n.mail[q]
  <2>1. p \in NetProcs /\ n.at \in [NetProcs -> NetPoint] /\ n.mail \in [NetUsers -> BOOLEAN]
    BY <1>1, <1>2, NetKinds DEF NetRecords
  <2>2. m.at = [n.at EXCEPT ![p] = "ready"] /\ m.mail = [n.mail EXCEPT ![p] = TRUE]
    BY <1>1, <1>6 DEF NetRecords
  <2> QED
    BY <1>2, <2>1, <2>2
<1>9. m = tells(n, s, p, pkt)
  <2>1. (IF n.at[p] = "wait_recv" THEN "ready" ELSE n.at[p]) = "ready"
    BY <1>2
  <2> QED
    BY <1>1, <1>3, <1>6, <2>1 DEF NetRecords, tells
<1>10. EndpointOnly(n, m, s, e)
  BY <1>2, <1>7, <1>8 DEF EndpointOnly
<1>11. ReceiversTold(m)
  <2>1. SameBut(n, m, s, {p})
    <3>1. ASSUME NEW t \in UdpSlots \ {s}, n.udptab[t].udstate = "UDP_RECV" PROVE n.udptab[t].udpid # p
      BY <1>1, <1>2, <3>1 DEF ReceiversTold, WaitedAt
    <3> QED
      BY <1>1, <1>7, <1>8, <3>1, NetKinds DEF SameBut
  <2>2. WaitedAt(m, s)
    BY <1>5, <1>7 DEF WaitedAt
  <2>3. n.udptab[s].user = p
    BY <1>1, <1>2 DEF ReceiversTold, WaitsAt, Receiving
  <2>4. WaitsAt(m, p)
    BY <1>2, <1>4, <1>5, <1>7, <1>8, <2>3 DEF WaitsAt
  <2>5. ASSUME NEW q \in NetUsers \ {p}, n.slot[q] = s PROVE WaitsAt(m, q)
    <3>1. ~Receiving(n, q) /\ ~n.mail[q]
      BY <1>1, <2>3, <2>5 DEF ReceiversTold, WaitsAt, Receiving
    <3> QED
      BY <1>7, <1>8, <3>1, NetKinds DEF WaitsAt, Receiving
  <2>6. \A q \in NetUsers : q \in {p} \/ n.slot[q] = s => WaitsAt(m, q)
    BY <2>4, <2>5
  <2> QED
    BY <1>1, <2>1, <2>2, <2>6, ToldBut
<1>12. (k + 1) + Len(n.udptab[s].udqueue) = k + Len(e.udqueue)
  <2>1. Len(e.udqueue) = 1
    BY <1>4, <1>5
  <2>2. (k + 1) + 0 = k + 1
    OBVIOUS
  <2> QED
    BY <1>4, <2>1, <2>2, Zenon
<1>13. NetSound(m, k)
  <2>1. k + 1 \in Nat /\ e \in Endpoints
    BY <1>5
  <2> QED
    BY <1>10, <1>11, <1>12, <2>1, EndpointSound
<1> QED
  BY <1>9, <1>13

(* udp_in: a packet in hand goes to an endpoint, or its buffer is freed.   *)
LEMMA UdpInSound ==
  ASSUME NEW n, NEW k \in Nat, NetSound(n, k + 1), NEW pkt \in Remotes
  PROVE  NetSound(udp_in(n, pkt), k)
<1>1. PICK s, p : s = Min({t \in UdpSlots : takes(n.udptab[t], pkt)}) /\ p = n.udptab[s].udpid
  OBVIOUS
<1>2. CASE {t \in UdpSlots : takes(n.udptab[t], pkt)} = {}
  <2>1. udp_in(n, pkt) = freebuf_in(n)
    BY <1>2 DEF udp_in
  <2> QED
    BY <2>1, FreedOne
<1>3. CASE {t \in UdpSlots : takes(n.udptab[t], pkt)} # {}
  <2>1. s \in UdpSlots /\ takes(n.udptab[s], pkt)
    BY <1>1, <1>3, FirstTaking
  <2>2. CASE n.udptab[s].udstate = "UDP_RECV"
    <3>1. udp_in(n, pkt) = tells(n, s, p, pkt)
      BY <1>1, <1>3, <2>2 DEF udp_in
    <3> QED
      BY <1>1, <2>1, <2>2, <3>1, DeliveredSound
  <2>3. CASE n.udptab[s].udstate # "UDP_RECV"
    <3>1. udp_in(n, pkt) = [n EXCEPT !.udptab[s].udqueue = Append(@, pkt)]
      BY <1>1, <1>3, <2>3 DEF udp_in
    <3>2. /\ n \in NetRecords /\ ReceiversTold(n) /\ n.udptab[s] \in Endpoints
          /\ n.udptab[s].udstate = "UDP_USED"
      <4>1. n \in NetRecords /\ ReceiversTold(n) /\ n.udptab[s] \in Endpoints
        BY <2>1 DEF NetSound, NetTypeOK, NetRecords
      <4>2. n.udptab[s].udstate # "UDP_FREE"
        BY <2>1 DEF takes
      <4> QED
        BY <2>3, <4>1, <4>2 DEF Endpoints
    <3>3. PICK o, e : o = Append(n.udptab[s].udqueue, pkt) /\ e = [n.udptab[s] EXCEPT !.udqueue = o]
      OBVIOUS
    <3>4. n.udptab[s].udqueue \in Seq(Remotes)
      BY <3>2 DEF Endpoints
    <3>5. /\ o \in Seq(Remotes) /\ o # << >> /\ Len(o) = Len(n.udptab[s].udqueue) + 1
          /\ Len(n.udptab[s].udqueue) \in Nat
      BY <3>3, <3>4
    <3>6. e \in Endpoints /\ e.udstate = "UDP_USED" /\ e.udqueue = o /\ e.user = n.udptab[s].user
      BY <3>2, <3>3, <3>5 DEF Endpoints
    <3>7. PICK m : m = [n EXCEPT !.udptab[s] = e]
      OBVIOUS
    <3>8. /\ m.bufs = n.bufs /\ m.ipoqueue = n.ipoqueue /\ m.iqsem = n.iqsem /\ m.at = n.at
          /\ m.slot = n.slot /\ m.mail = n.mail /\ m \in NetRecords
          /\ m.udptab[s] = e /\ \A t \in UdpSlots \ {s} : m.udptab[t] = n.udptab[t]
      BY <2>1, <3>2, <3>6, <3>7 DEF NetRecords
    <3>9. m = udp_in(n, pkt)
      BY <3>1, <3>2, <3>3, <3>7 DEF NetRecords
    <3>10. EndpointOnly(n, m, s, e)
      BY <3>8 DEF EndpointOnly
    <3>11. ReceiversTold(m)
      <4>1. SameBut(n, m, s, {})
        BY <3>2, <3>8 DEF SameBut, NetRecords
      <4>2. WaitedAt(m, s)
        BY <3>6, <3>8 DEF WaitedAt
      <4>3. ASSUME NEW q \in NetUsers, n.slot[q] = s PROVE WaitsAt(m, q)
        <5>1. WaitsAt(n, q)
          BY <3>2 DEF ReceiversTold
        <5> QED
          BY <3>2, <3>5, <3>6, <3>8, <4>3, <5>1 DEF WaitsAt, Receiving
      <4>4. \A q \in NetUsers : q \in {} \/ n.slot[q] = s => WaitsAt(m, q)
        BY <4>3
      <4> QED
        BY <2>1, <3>2, <4>1, <4>2, <4>4, ToldBut
    <3>12. (k + 1) + Len(n.udptab[s].udqueue) = k + Len(e.udqueue)
      <4>1. PICK l, r : l = Len(n.udptab[s].udqueue) /\ r = Len(e.udqueue)
        OBVIOUS
      <4>2. l \in Nat /\ r = l + 1
        BY <3>5, <3>6, <4>1
      <4>3. (k + 1) + l = k + r
        BY <4>2
      <4> QED
        BY <4>1, <4>3, Lengths, Zenon
    <3>13. NetSound(m, k)
      <4>1. k + 1 \in Nat /\ e \in Endpoints
        BY <3>6
      <4> QED
        BY <2>1, <3>10, <3>11, <3>12, <4>1, EndpointSound
    <3> QED
      BY <3>9, <3>13
  <2> QED
    BY <2>2, <2>3
<1> QED
  BY <1>2, <1>3

-----------------------------------------------------------------------------
(* Init.                                                                   *)
LEMMA NetInitial ==
  ASSUME NetInit
  PROVE  NetIInv
<1>1. /\ net.bufs = semcreate(NetBufs) /\ net.iqsem = semcreate(0)
      /\ net.udptab = [s \in UdpSlots |-> FreeEndpoint] 
      /\ net.ipoqueue = [iqbuf |-> [i \in IpqEntries |-> FALSE], iqhead |-> 0, iqtail |-> 0]
      /\ net.at = [p \in NetProcs |-> "idle"] /\ net.slot = [p \in NetUsers |-> 0]
      /\ net.mail = [p \in NetUsers |-> FALSE]
  BY DEF NetInit
<1>2. /\ IsSem(net.bufs, NetProcs) /\ ToSet(net.bufs.squeue) = {} /\ counted(net.bufs) = NetBufs
      /\ IsSem(net.iqsem, {Ipout}) /\ ToSet(net.iqsem.squeue) = {} /\ counted(net.iqsem) = 0
  <2>1. NetBufs \in Nat /\ 0 \in Nat
    BY NetAssumption
  <2>2. IsSem(net.bufs, NetProcs) /\ ToSet(net.bufs.squeue) = {} /\ counted(net.bufs) = NetBufs
    BY <1>1, <2>1, SemCreated
  <2>3. PICK z : z = 0
    OBVIOUS
  <2>4. /\ IsSem(semcreate(z), {Ipout}) /\ ToSet(semcreate(z).squeue) = {}
        /\ counted(semcreate(z)) = z
    <3>1. z \in Nat
      BY <2>3
    <3> QED
      BY <3>1, SemCreated
  <2>5. IsSem(net.iqsem, {Ipout}) /\ ToSet(net.iqsem.squeue) = {} /\ counted(net.iqsem) = 0
    BY <1>1, <2>3, <2>4
  <2> QED
    BY <2>2, <2>5
<1>3. FreeEndpoint \in Endpoints /\ FreeEndpoint.udstate = "UDP_FREE" /\ FreeEndpoint.udqueue = << >>
  BY DEF FreeEndpoint, Endpoints, AnyRemote
<1>4. 0 \in UdpSlots
  BY NetAssumption DEF UdpSlots
<1>5. \A p \in NetProcs : net.at[p] = "idle" /\ net.at[p] \in NetPoints[p] /\ net.at[p] \in NetPoint
  <2>1. ASSUME NEW p \in NetProcs PROVE "idle" \in NetPoints[p] /\ "idle" \in NetPoint
    <3>1. p = Netin \/ p = Ipout \/ p \in NetUsers
      BY DEF NetProcs
    <3> QED
      BY <3>1, NetKinds
  <2> QED
    BY <1>1, <2>1
<1>emptied. InOrder(net.ipoqueue) /\ inside(net.ipoqueue) = 0
  <2>1. PICK q : q = net.ipoqueue
    OBVIOUS
  <2>2. /\ q \in IpQueues /\ q.iqhead = 0 /\ q.iqtail = 0 /\ \A i \in IpqEntries : ~q.iqbuf[i]
    BY <1>1, <2>1, NetAssumption DEF IpQueues, IpqEntries
  <2>3. untaken(q) = {}
    BY <2>2 DEF untaken
  <2>4. inside(q) = 0
    BY <2>3, FS_EmptySet DEF inside
  <2>5. \A i \in IpqEntries : ~(from_head(q, i) < 0)
    BY <2>2, NetAssumption DEF from_head, IpqEntries
  <2>6. 0 \in 0 .. IP_OQSIZ
    BY NetAssumption
  <2>7. InOrder(q)
    BY <2>2, <2>4, <2>5, <2>6 DEF InOrder
  <2> QED
    BY <2>1, <2>4, <2>7
<1>6. NetTypeOK(net)
  <2>1. net.ipoqueue \in IpQueues
    BY <1>emptied DEF InOrder
  <2>2. net.udptab \in [UdpSlots -> Endpoints]
    BY <1>1, <1>3
  <2>3. net.at \in [NetProcs -> NetPoint] /\ net.slot \in [NetUsers -> UdpSlots] /\ net.mail \in [NetUsers -> BOOLEAN]
    BY <1>1, <1>4, <1>5
  <2>4. net.bufs \in SemEntries(NetProcs) /\ net.iqsem \in SemEntries({Ipout})
    BY <1>2 DEF IsSem
  <2>5. net \in NetRecords
    BY <2>1, <2>2, <2>3, <2>4 DEF NetInit, NetRecords
  <2> QED
    BY <1>5, <2>5 DEF NetTypeOK
<1>7. wanting(net) = {} /\ holding(net) = {} /\ replying(net) = {}
  BY <1>5 DEF wanting, holding, replying
<1>8. queued(net) = {}
  BY <1>1, <1>3 DEF queued
<1>9. BufsQueued(net)
  BY <1>2, <1>7 DEF BufsQueued
<1>10. PacketsCounted(net)
  <2>1. inside(net.ipoqueue) = 0
    BY <1>emptied
  <2> QED
    BY <1>2, <1>5, <1>emptied, <2>1, NetKinds DEF PacketsCounted
<1>11. BufsCounted(net, 0)
  <2>1. IsFiniteSet({}) /\ Cardinality({}) = 0
    BY FS_EmptySet
  <2>2. inside(net.ipoqueue) = 0
    BY <1>emptied
  <2> QED
    BY <1>2, <1>7, <1>8, <2>1, <2>2, NetAssumption DEF BufsCounted
<1>12. ReceiversTold(net)
  <2>1. \A p \in NetUsers : ~Receiving(net, p) /\ ~net.mail[p]
    BY <1>1, <1>5, NetKinds DEF Receiving
  <2>2. \A s \in UdpSlots : net.udptab[s].udstate = "UDP_FREE" /\ net.udptab[s].udqueue = << >>
    BY <1>1, <1>3
  <2> QED
    BY <2>1, <2>2 DEF ReceiversTold, WaitedAt, WaitsAt
<1> QED
  BY <1>6, <1>9, <1>10, <1>11, <1>12 DEF NetIInv, NetSound

(* A process that does not receive turns to another endpoint.              *)
LEMMA SlotSet ==
  ASSUME NEW n, NEW k \in Nat, NetSound(n, k), NEW p \in NetUsers, NEW s \in UdpSlots, ~Receiving(n, p)
  PROVE  NetSound([n EXCEPT !.slot[p] = s], k)
<1>1. PICK m : m = [n EXCEPT !.slot[p] = s]
  OBVIOUS
<1>2. n \in NetRecords /\ ReceiversTold(n)
  BY DEF NetSound, NetTypeOK
<1>3. /\ m.bufs = n.bufs /\ m.udptab = n.udptab /\ m.ipoqueue = n.ipoqueue /\ m.iqsem = n.iqsem
      /\ m.at = n.at /\ m.mail = n.mail /\ m \in NetRecords
      /\ \A q \in NetUsers \ {p} : m.slot[q] = n.slot[q]
  BY <1>1, <1>2 DEF NetRecords
<1>4. ~n.mail[p]
  BY <1>2 DEF ReceiversTold, WaitsAt, Receiving
<1>5. ASSUME NEW t \in UdpSlots PROVE WaitedAt(m, t)
  <2>1. WaitedAt(n, t)
    BY <1>2 DEF ReceiversTold
  <2> QED
    BY <1>3, <2>1 DEF WaitedAt, Receiving
<1>6. ASSUME NEW q \in NetUsers PROVE WaitsAt(m, q)
  <2>1. WaitsAt(n, q)
    BY <1>2 DEF ReceiversTold
  <2>2. CASE q = p
    BY <1>3, <1>4, <2>2 DEF WaitsAt, Receiving
  <2>3. CASE q # p
    BY <1>3, <2>1, <2>3 DEF WaitsAt, Receiving
  <2> QED
    BY <2>2, <2>3
<1>7. NetTypeOK(m)
  BY <1>3 DEF NetSound, NetTypeOK
<1>8. BufsQueued(m) /\ PacketsCounted(m)
  <2>1. wanting(m) = wanting(n)
    BY <1>3 DEF wanting
  <2> QED
    BY <1>3, <2>1 DEF NetSound, BufsQueued, PacketsCounted
<1>9. BufsCounted(m, k)
  BY <1>3 DEF NetSound, BufsCounted, queued, holding, replying
<1> QED
  BY <1>1, <1>5, <1>6, <1>7, <1>8, <1>9 DEF NetSound, ReceiversTold

-----------------------------------------------------------------------------
(* A process that was given a buffer, or its time, is idle again, with the *)
(* buffer in hand.                                                         *)
LEMMA IdleAgain ==
  ASSUME NEW n, NetSound(n, 0), NEW p \in NetProcs, n.at[p] \in {"hold", "reply"}
  PROVE  NetSound(idles(n, p), one(n.at[p]) + two(n.at[p])) /\ idles(n, p).at[p] = "idle"
<1>1. PICK m, k : m = idles(n, p) /\ k = one(n.at[p]) + two(n.at[p])
  OBVIOUS
<1>2. n \in NetRecords /\ "idle" \in NetPoints[p] /\ "idle" \in NetPoint
  <2>1. p = Netin \/ p = Ipout \/ p \in NetUsers
    BY DEF NetProcs
  <2>2. "idle" \in NetPoints[p]
    BY <2>1, NetKinds
  <2> QED
    BY <2>2, NetKinds DEF NetSound, NetTypeOK
<1>3. PointOnly(n, m, p, "idle")
  <2>1. PointOnly(n, [n EXCEPT !.at[p] = "idle"], p, "idle")
    BY <1>2, PointSet
  <2> QED
    BY <1>1, <2>1 DEF idles
<1>4. one("idle") = 0 /\ two("idle") = 0 /\ k \in Nat
  BY <1>1 DEF one, two
<1>5. k + one("idle") + two("idle") = 0 + one(n.at[p]) + two(n.at[p])
  BY <1>1, <1>4 DEF one, two
<1>6. {n.at[p], "idle"} \cap {"wait_buf", "wait_reply", "wait_packet", "send", "wait_recv", "ready"} = {}
  OBVIOUS
<1>7. 0 \in Nat
  OBVIOUS
<1>8. NetSound(m, k) /\ m.at[p] = "idle"
  BY <1>2, <1>3, <1>4, <1>5, <1>6, <1>7, PointMoves
<1> QED
  BY <1>1, <1>8

LEMMA BufferInHand ==
  ASSUME NEW n, NetSound(n, 0), NEW p \in NetProcs, n.at[p] = "hold"
  PROVE  NetSound(idles(n, p), 0 + 1)
<1>1. one("hold") + two("hold") = 0 + 1
  BY DEF one, two
<1> QED
  BY <1>1, IdleAgain

(* What netin does.                                                        *)
LEMMA NetinKeeps ==
  ASSUME NetIInv, ~FillIpq,
         netin_getbuf \/ netin_other \/ icmp_echo \/ icmp_reply \/ \E pkt \in Remotes : netin_udp(pkt)
  PROVE  NetIInv'
<1>1. NetSound(net, 0) /\ 0 \in Nat /\ Netin \in NetProcs
  BY NetKinds DEF NetIInv
<1>2. CASE netin_getbuf
  <2>1. net.at[Netin] = "idle" /\ net' = getbuf_in(net, Netin, "wait_buf", "hold")
    BY <1>2 DEF netin_getbuf
  <2>2. /\ "wait_buf" \in NetPoints[Netin] \cap {"wait_buf", "wait_reply"}
        /\ "hold" \in NetPoints[Netin] \cap {"hold", "reply"}
        /\ one("wait_buf") = one("idle") /\ one("hold") + two("hold") = one("idle") + 1
    BY NetKinds DEF one, two
  <2>3. NetSound(getbuf_in(net, Netin, "wait_buf", "hold"), 0)
    BY <1>1, <2>1, <2>2, GetbufSound
  <2> QED
    BY <2>1, <2>3 DEF NetIInv
<1>3. CASE netin_other
  <2>1. net.at[Netin] = "hold" /\ net' = freebuf_in(idles(net, Netin))
    BY <1>3 DEF netin_other
  <2>2. NetSound(net', 0)
    BY <1>1, <2>1, BufferInHand, FreedOne
  <2> QED
    BY <2>2 DEF NetIInv
<1>4. CASE icmp_echo
  <2>1. net.at[Netin] = "hold" /\ net' = getbuf_in(net, Netin, "wait_reply", "reply")
    BY <1>4 DEF icmp_echo
  <2>2. /\ "wait_reply" \in NetPoints[Netin] \cap {"wait_buf", "wait_reply"}
        /\ "reply" \in NetPoints[Netin] \cap {"hold", "reply"}
        /\ one("wait_reply") = one("hold") /\ one("reply") + two("reply") = one("hold") + 1
    BY NetKinds DEF one, two
  <2>3. NetSound(getbuf_in(net, Netin, "wait_reply", "reply"), 0)
    BY <1>1, <2>1, <2>2, GetbufSound
  <2> QED
    BY <2>1, <2>3 DEF NetIInv
<1>5. CASE icmp_reply
  <2>1. /\ net.at[Netin] = "reply" /\ net' = freebuf_in(ip_enqueue(idles(net, Netin)))
        /\ net.iqsem.scount >= IP_OQSIZ \/ ~net.ipoqueue.iqbuf[net.ipoqueue.iqtail]
    BY <1>5 DEF icmp_reply
  <2>2. one("reply") + two("reply") = (0 + 1) + 1 /\ 0 + 1 \in Nat
    BY DEF one, two
  <2>3. NetSound(idles(net, Netin), (0 + 1) + 1)
    <3>1. net.at[Netin] \in {"hold", "reply"}
      BY <2>1
    <3>2. NetSound(idles(net, Netin), one(net.at[Netin]) + two(net.at[Netin]))
      BY <1>1, <3>1, IdleAgain
    <3> QED
      BY <2>1, <2>2, <3>2, Zenon
  <2>4. NetSound(ip_enqueue(idles(net, Netin)), 0 + 1)
    <3>1. idles(net, Netin).iqsem = net.iqsem /\ idles(net, Netin).ipoqueue = net.ipoqueue
      BY <1>1 DEF NetSound, NetTypeOK, NetRecords, idles
    <3> QED
      BY <2>1, <2>2, <2>3, <3>1, EnqueuedSound
  <2>5. NetSound(net', 0)
    BY <1>1, <2>1, <2>4, FreedOne
  <2> QED
    BY <2>5 DEF NetIInv
<1>6. ASSUME NEW pkt \in Remotes, netin_udp(pkt) PROVE NetIInv'
  <2>1. net.at[Netin] = "hold" /\ net' = udp_in(idles(net, Netin), pkt)
    BY <1>6 DEF netin_udp
  <2>2. NetSound(net', 0)
    BY <1>1, <2>1, BufferInHand, UdpInSound
  <2> QED
    BY <2>2 DEF NetIInv
<1> QED
  BY <1>2, <1>3, <1>4, <1>5, <1>6

(* What ipout does.                                                        *)
LEMMA IpoutWaits ==
  ASSUME NetIInv, ipout_wait
  PROVE  NetIInv'
<1>1. PICK n, m, b, x : /\ n = net /\ m = net' /\ b = waited(net.iqsem, Ipout)
                        /\ x = IF blocks(net.iqsem) THEN "wait_packet" ELSE "send"
  OBVIOUS
<1>2. NetSound(n, 0) /\ n.at[Ipout] = "idle"
  BY <1>1 DEF NetIInv, ipout_wait
<1>step. m = [n EXCEPT !.iqsem = b, !.at[Ipout] = x]
  BY <1>1 DEF ipout_wait
<1>3. /\ n \in NetRecords /\ IsSem(n.iqsem, {Ipout}) /\ ToSet(n.iqsem.squeue) = {}
      /\ InOrder(n.ipoqueue) /\ inside(n.ipoqueue) = counted(n.iqsem) + 0
  BY <1>2 DEF NetSound, NetTypeOK, PacketsCounted
<1>4. x \in NetPoints[Ipout] /\ x \in NetPoint
  BY <1>1, NetKinds
<1>5. /\ IsSem(b, {Ipout})
      /\ blocks(n.iqsem) => ToSet(b.squeue) = {} \cup {Ipout} /\ counted(n.iqsem) = 0 /\ counted(b) = 0
      /\ ~blocks(n.iqsem) =>
           /\ ToSet(b.squeue) = {}
           /\ counted(n.iqsem) > 0 /\ counted(b) = counted(n.iqsem) - 1
  <2>1. Ipout \in {Ipout} /\ Ipout \notin ToSet(n.iqsem.squeue)
    BY <1>3
  <2> QED
    BY <1>1, <1>3, <2>1, SemWaited
<1>6. /\ m.bufs = n.bufs /\ m.udptab = n.udptab /\ m.ipoqueue = n.ipoqueue /\ m.iqsem = b
      /\ m.slot = n.slot /\ m.mail = n.mail /\ m \in NetRecords
      /\ m.at[Ipout] = x /\ \A q \in NetProcs \ {Ipout} : m.at[q] = n.at[q]
  <2>1. b \in SemEntries({Ipout})
    BY <1>5 DEF IsSem
  <2> QED
    BY <1>step, <1>3, <1>4, <2>1, NetKinds DEF NetRecords
<1>7. NetTypeOK(m)
  BY <1>2, <1>4, <1>6 DEF NetSound, NetTypeOK
<1>8. wanting(m) = wanting(n) /\ holding(m) = holding(n) /\ replying(m) = replying(n) /\ queued(m) = queued(n)
  BY <1>1, <1>2, <1>6 DEF wanting, holding, replying, queued
<1>9. BufsQueued(m)
  BY <1>2, <1>6, <1>8 DEF NetSound, BufsQueued
<1>10. BufsCounted(m, 0)
  BY <1>2, <1>6, <1>8 DEF NetSound, BufsCounted
<1>11. PacketsCounted(m)
  <2>1. PICK l, c, d : l = inside(n.ipoqueue) /\ c = counted(n.iqsem) /\ d = counted(b)
    OBVIOUS
  <2>2. c \in Nat /\ d \in Nat
    BY <1>3, <1>5, <2>1, CountedNat
  <2>3. CASE blocks(n.iqsem)
    <3>1. x = "wait_packet" /\ l = d + 0
      BY <1>1, <1>3, <1>5, <2>1, <2>2, <2>3
    <3> QED
      BY <1>3, <1>5, <1>6, <2>1, <2>3, <3>1 DEF PacketsCounted
  <2>4. CASE ~blocks(n.iqsem)
    <3>1. x = "send" /\ l = d + 1
      BY <1>1, <1>3, <1>5, <2>1, <2>2, <2>4
    <3> QED
      BY <1>3, <1>5, <1>6, <2>1, <2>4, <3>1 DEF PacketsCounted
  <2> QED
    BY <2>3, <2>4
<1>12. ReceiversTold(m)
  <2>1. \A q \in NetUsers : Receiving(n, q) \/ Receiving(m, q) => m.at[q] = n.at[q]
    BY <1>6, NetKinds DEF Receiving
  <2> QED
    BY <1>2, <1>6, <2>1, ToldKept DEF NetSound
<1> QED
  BY <1>1, <1>7, <1>9, <1>10, <1>11, <1>12 DEF NetIInv, NetSound

LEMMA IpoutTakes ==
  ASSUME NetIInv, ipout_take
  PROVE  NetIInv'
<1>1. PICK n, m, o : n = net /\ m = net' /\ o = taken_at_head(net.ipoqueue)
  OBVIOUS
<1>2. NetSound(n, 0) /\ n.at[Ipout] = "send"
  BY <1>1 DEF NetIInv, ipout_take
<1>step. m = [n EXCEPT !.ipoqueue = o, !.at[Ipout] = "hold"]
  BY <1>1 DEF ipout_take
<1>3. /\ n \in NetRecords /\ IsSem(n.iqsem, {Ipout}) /\ ToSet(n.iqsem.squeue) = {}
      /\ InOrder(n.ipoqueue) /\ inside(n.ipoqueue) = counted(n.iqsem) + 1
  BY <1>2 DEF NetSound, NetTypeOK, PacketsCounted, NetRecords
<1>4. "hold" \in NetPoints[Ipout] /\ "hold" \in NetPoint
  BY NetKinds
<1>5. counted(n.iqsem) \in Nat
  BY <1>3, CountedNat
<1>6. InOrder(o) /\ o \in IpQueues /\ inside(o) = counted(n.iqsem)
  <2>1. inside(n.ipoqueue) > 0
    BY <1>3, <1>5
  <2>2. InOrder(o) /\ inside(o) \in Nat /\ inside(n.ipoqueue) = inside(o) + 1
    BY <1>1, <1>3, <2>1, TakenInOrder
  <2> QED
    BY <1>3, <1>5, <2>2 DEF InOrder
<1>7. /\ m.bufs = n.bufs /\ m.udptab = n.udptab /\ m.ipoqueue = o /\ m.iqsem = n.iqsem
      /\ m.slot = n.slot /\ m.mail = n.mail /\ m \in NetRecords
      /\ m.at[Ipout] = "hold" /\ \A q \in NetProcs \ {Ipout} : m.at[q] = n.at[q]
  BY <1>step, <1>3, <1>4, <1>6, NetKinds DEF NetRecords
<1>8. NetTypeOK(m)
  BY <1>2, <1>4, <1>7 DEF NetSound, NetTypeOK
<1>9. wanting(m) = wanting(n) /\ queued(m) = queued(n)
  BY <1>2, <1>7 DEF wanting, queued
<1>10. BufsQueued(m)
  BY <1>2, <1>7, <1>9 DEF NetSound, BufsQueued
<1>11. PacketsCounted(m)
  <2>1. inside(o) = counted(n.iqsem) + 0
    BY <1>5, <1>6
  <2> QED
    BY <1>3, <1>6, <1>7, <2>1 DEF PacketsCounted
<1>12. BufsCounted(m, 0)
  <2>1. PICK c, u, v, h, r, g, q :
          /\ c = counted(n.bufs) /\ u = Cardinality(queued(n)) /\ v = counted(n.iqsem)
          /\ h = Cardinality(holding(n)) /\ r = Cardinality(replying(n))
          /\ g = Cardinality(holding(m)) /\ q = Cardinality(replying(m))
    OBVIOUS
  <2>2. IsFiniteSet(queued(n)) /\ c + u + (v + 1) + h + r + 0 = NetBufs
    BY <1>2, <1>3, <2>1 DEF NetSound, BufsCounted
  <2>3. c \in Nat /\ u \in Nat /\ h \in Nat /\ r \in Nat /\ v \in Nat /\ g \in Nat /\ q \in Nat
    BY <1>2, <1>5, <2>1, <2>2, NetNumbers, NetFinite DEF NetSound
  <2>4. g + one("send") = h + one("hold") /\ q + two("send") = r + two("hold")
    BY <1>2, <1>7, <2>1, NetKinds, HoldersMove
  <2>5. g = h + 1 /\ q = r
    <3>1. one("send") = 0 /\ one("hold") = 1 /\ two("send") = 0 /\ two("hold") = 0
      BY DEF one, two
    <3> QED
      BY <2>3, <2>4, <3>1
  <2>6. c + u + v + g + q + 0 = NetBufs
    BY <2>2, <2>3, <2>5
  <2>7. /\ counted(m.bufs) = c /\ Cardinality(queued(m)) = u /\ inside(m.ipoqueue) = v
        /\ IsFiniteSet(queued(m))
    BY <1>6, <1>7, <1>9, <2>1, <2>2
  <2> QED
    BY <2>1, <2>6, <2>7 DEF BufsCounted
<1>13. ReceiversTold(m)
  <2>1. \A q \in NetUsers : Receiving(n, q) \/ Receiving(m, q) => m.at[q] = n.at[q]
    BY <1>7, NetKinds DEF Receiving
  <2> QED
    BY <1>2, <1>7, <2>1, ToldKept DEF NetSound
<1> QED
  BY <1>1, <1>8, <1>10, <1>11, <1>12, <1>13 DEF NetIInv, NetSound

LEMMA IpoutSent ==
  ASSUME NetIInv, ipout_sent
  PROVE  NetIInv'
<1>1. net.at[Ipout] = "hold" /\ net' = freebuf_in(idles(net, Ipout))
  BY DEF ipout_sent
<1>2. NetSound(net, 0) /\ 0 \in Nat /\ Ipout \in NetProcs
  BY NetKinds DEF NetIInv
<1>3. NetSound(net', 0)
  BY <1>1, <1>2, BufferInHand, FreedOne
<1> QED
  BY <1>3 DEF NetIInv

-----------------------------------------------------------------------------
(* The users' calls.                                                       *)
LEMMA UserFacts ==
  ASSUME NetIInv, NEW p \in NetUsers
  PROVE  /\ NetSound(net, 0) /\ 0 \in Nat /\ p \in NetProcs /\ p \in Int
         /\ net \in NetRecords /\ ReceiversTold(net)
         /\ net.udptab \in [UdpSlots -> Endpoints] /\ net.slot \in [NetUsers -> UdpSlots]
         /\ net.at[p] \in {"idle", "hold"} => ~Receiving(net, p) /\ ~net.mail[p]
<1>1. NetSound(net, 0) /\ p \in NetProcs /\ p \in Int
  BY NetKinds, NetAssumption DEF NetIInv
<1>2. /\ net \in NetRecords /\ ReceiversTold(net)
      /\ net.udptab \in [UdpSlots -> Endpoints] /\ net.slot \in [NetUsers -> UdpSlots]
  BY <1>1 DEF NetSound, NetTypeOK, NetRecords
<1>3. ASSUME net.at[p] \in {"idle", "hold"} PROVE ~Receiving(net, p) /\ ~net.mail[p]
  BY <1>2, <1>3 DEF ReceiversTold, WaitsAt, Receiving
<1> QED
  BY <1>1, <1>2, <1>3

LEMMA Registers ==
  ASSUME NetIInv, NEW p \in NetUsers, NEW rem \in Remotes \cup {AnyRemote}, udp_register(p, rem)
  PROVE  NetIInv'
<1>e. PICK e : e = [FreeEndpoint EXCEPT !.udstate = "UDP_USED", !.udrem = rem, !.user = p]
  OBVIOUS
<1>1. PICK s \in UdpSlots :
        /\ net.udptab[s].udstate = "UDP_FREE"
        /\ net' = [net EXCEPT !.udptab[s] = e]
  BY <1>e DEF udp_register
<1>2. e \in Endpoints /\ e.udstate = "UDP_USED" /\ e.udqueue = << >>
  <2>1. p \in Int /\ e = [FreeEndpoint EXCEPT !.udstate = "UDP_USED", !.udrem = rem, !.user = p]
    BY <1>e, UserFacts
  <2>2. FreeEndpoint \in Endpoints /\ FreeEndpoint.udqueue = << >>
    BY DEF FreeEndpoint, Endpoints, AnyRemote
  <2> QED
    BY <2>1, <2>2 DEF Endpoints
<1>3. net.udptab[s].udqueue = << >>
  BY <1>1, UserFacts DEF ReceiversTold, WaitedAt
<1>4. Quiet(net, s)
  <2>1. net.udptab[s].udstate = "UDP_FREE" /\ ReceiversTold(net)
    BY <1>1, UserFacts
  <2> QED
    BY <2>1 DEF Quiet, ReceiversTold, WaitsAt, Receiving
<1>5. 0 + Len(net.udptab[s].udqueue) = 0 + Len(e.udqueue)
  BY <1>2, <1>3, Zenon
<1>6. NetSound([net EXCEPT !.udptab[s] = e], 0)
  <2>1. NetSound(net, 0) /\ 0 \in Nat /\ e \in Endpoints
    BY <1>2, UserFacts
  <2>2. e.udstate = "UDP_USED" \/ (e.udstate = "UDP_FREE" /\ e.udqueue = << >>)
    BY <1>2
  <2> QED
    BY <1>4, <1>5, <2>1, <2>2, QuietSound
<1> QED
  BY <1>1, <1>6 DEF NetIInv

(* Nobody receives from the endpoint of a process that does not.           *)
LEMMA UserQuiet ==
  ASSUME NetIInv, ~ShareSlots, NEW p \in NetUsers, NEW s \in UdpSlots,
         net.at[p] = "idle", registered(p, s)
  PROVE  net.udptab[s].user = p /\ Quiet(net, s)
<1>1. net.udptab[s].user = p
  BY DEF registered
<1>2. ReceiversTold(net) /\ ~Receiving(net, p)
  BY UserFacts
<1> QED
  BY <1>1, <1>2, NobodyAt

LEMMA Receives ==
  ASSUME NetIInv, ~ShareSlots, NEW p \in NetUsers, NEW s \in UdpSlots, udp_recv(p, s)
  PROVE  NetIInv'
<1>1. /\ net.at[p] = "idle" /\ registered(p, s) /\ net.udptab[s].udstate = "UDP_USED"
  BY DEF udp_recv
<1>2. net.udptab[s].user = p /\ Quiet(net, s)
  BY <1>1, UserQuiet
<1>3. NetSound(net, 0) /\ 0 \in Nat
  BY UserFacts
<1>4. CASE net.udptab[s].udqueue # << >>
  <2>1. NetSound(dequeued(net, s), 0)
    BY <1>1, <1>2, <1>3, <1>4, DequeuedSound
  <2>2. net' = dequeued(net, s)
    BY <1>4 DEF udp_recv
  <2> QED
    BY <2>1, <2>2 DEF NetIInv
<1>5. CASE net.udptab[s].udqueue = << >>
  <2>1. PICK n, m, e : /\ n = net /\ m = net'
                       /\ e = [net.udptab[s] EXCEPT !.udstate = "UDP_RECV", !.udpid = p]
    OBVIOUS
  <2>2. m = [n EXCEPT !.udptab[s] = e, !.mail[p] = FALSE, !.at[p] = "wait_recv", !.slot[p] = s]
    BY <1>5, <2>1 DEF udp_recv
  <2>3. /\ e \in Endpoints /\ e.udstate = "UDP_RECV" /\ e.udpid = p /\ e.udqueue = << >> /\ e.user = p
    BY <1>2, <1>5, <2>1, UserFacts DEF Endpoints
  <2>4. /\ n \in NetRecords /\ ReceiversTold(n) /\ NetSound(n, 0) /\ n.slot \in [NetUsers -> UdpSlots]
        /\ p \in NetProcs /\ n.at[p] = "idle" /\ Quiet(n, s)
        /\ "wait_recv" \in NetPoint
    BY <1>1, <1>2, <2>1, UserFacts, NetKinds
  <2>5. /\ m.bufs = n.bufs /\ m.ipoqueue = n.ipoqueue /\ m.iqsem = n.iqsem /\ m \in NetRecords
        /\ m.udptab[s] = e /\ \A t \in UdpSlots \ {s} : m.udptab[t] = n.udptab[t]
    BY <2>2, <2>3, <2>4 DEF NetRecords
  <2>6. /\ m.at[p] = "wait_recv" /\ \A q \in NetProcs \ {p} : m.at[q] = n.at[q]
        /\ m.slot[p] = s /\ ~m.mail[p]
        /\ \A q \in NetUsers \ {p} : m.slot[q] = n.slot[q] /\ m.mail[q] = n.mail[q]
    BY <2>2, <2>4 DEF NetRecords
  <2>7. EndpointOnly(n, m, s, e)
    BY <2>4, <2>5, <2>6 DEF EndpointOnly
  <2>8. ReceiversTold(m)
    <3>1. ASSUME NEW t \in UdpSlots, n.udptab[t].udstate = "UDP_RECV" PROVE n.udptab[t].udpid # p
      <4>1. WaitedAt(n, t)
        BY <2>4 DEF ReceiversTold
      <4> QED
        BY <2>4, <3>1, <4>1 DEF WaitedAt
    <3>2. SameBut(n, m, s, {p})
      <4>1. NetUsers \subseteq NetProcs
        BY NetKinds
      <4> QED
        BY <2>4, <2>5, <2>6, <3>1, <4>1 DEF SameBut
    <3>3. WaitedAt(m, s)
      BY <2>3, <2>5, <2>6 DEF WaitedAt
    <3>4. WaitsAt(m, p)
      BY <2>3, <2>5, <2>6 DEF WaitsAt
    <3>5. ASSUME NEW q \in NetUsers \ {p}, n.slot[q] = s PROVE WaitsAt(m, q)
      <4>1. ~Receiving(n, q) /\ ~n.mail[q]
        BY <2>4, <3>5 DEF Quiet
      <4> QED
        BY <2>6, <4>1, NetKinds DEF WaitsAt, Receiving
    <3>6. \A q \in NetUsers : q \in {p} \/ n.slot[q] = s => WaitsAt(m, q)
      BY <3>4, <3>5
    <3> QED
      BY <2>4, <3>2, <3>3, <3>6, ToldBut
  <2>9. 0 + Len(n.udptab[s].udqueue) = 0 + Len(e.udqueue)
    BY <1>5, <2>1, <2>3, Zenon
  <2>10. NetSound(m, 0)
    BY <1>3, <2>3, <2>4, <2>7, <2>8, <2>9, EndpointSound
  <2> QED
    BY <2>1, <2>10 DEF NetIInv
<1> QED
  BY <1>4, <1>5

LEMMA RecvTimesOut ==
  ASSUME NetIInv, NEW p \in NetUsers, recv_timeout(p)
  PROVE  NetIInv'
<1>1. PICK n, m, s, e : n = net /\ m = net' /\ s = net.slot[p] /\ e = net.udptab[s]
  OBVIOUS
<1>2. n.at[p] = "wait_recv" /\ m = [n EXCEPT !.at[p] = "ready"]
  BY <1>1 DEF recv_timeout
<1>3. /\ n \in NetRecords /\ ReceiversTold(n) /\ NetSound(n, 0) /\ p \in NetProcs
      /\ s \in UdpSlots /\ e \in Endpoints /\ "ready" \in NetPoint
  BY <1>1, UserFacts, NetKinds
<1>4. /\ m.bufs = n.bufs /\ m.ipoqueue = n.ipoqueue /\ m.iqsem = n.iqsem /\ m \in NetRecords
      /\ m.udptab = n.udptab /\ m.slot = n.slot /\ m.mail = n.mail
      /\ m.at[p] = "ready" /\ \A q \in NetProcs \ {p} : m.at[q] = n.at[q]
  BY <1>2, <1>3 DEF NetRecords
<1>5. EndpointOnly(n, m, s, e)
  BY <1>1, <1>2, <1>4 DEF EndpointOnly
<1>6. ReceiversTold(m)
  <2>1. ASSUME NEW t \in UdpSlots PROVE WaitedAt(m, t)
    <3>1. WaitedAt(n, t)
      BY <1>3 DEF ReceiversTold
    <3>2. \A q \in NetUsers : n.at[q] \in {"wait_recv", "ready"} => m.at[q] \in {"wait_recv", "ready"}
      BY <1>4, NetKinds
    <3> QED
      BY <1>4, <3>1, <3>2 DEF WaitedAt
  <2>2. ASSUME NEW q \in NetUsers PROVE WaitsAt(m, q)
    <3>1. WaitsAt(n, q)
      BY <1>3 DEF ReceiversTold
    <3>2. (Receiving(m, q) <=> Receiving(n, q)) /\ (n.at[q] = "ready" => m.at[q] = "ready")
      BY <1>2, <1>4, NetKinds DEF Receiving
    <3> QED
      BY <1>4, <3>1, <3>2 DEF WaitsAt
  <2> QED
    BY <2>1, <2>2 DEF ReceiversTold
<1>7. 0 \in Nat /\ 0 + Len(n.udptab[s].udqueue) = 0 + Len(e.udqueue)
  <2>1. 0 \in Nat
    OBVIOUS
  <2> QED
    BY <1>1, <2>1, Zenon
<1>8. NetSound(m, 0)
  BY <1>3, <1>5, <1>6, <1>7, EndpointSound
<1> QED
  BY <1>1, <1>8 DEF NetIInv

(* udp_recv goes on after its wait.                                        *)
LEMMA ReceiveEnds ==
  ASSUME NetIInv, NEW p \in NetUsers, udp_recv_end(p)
  PROVE  NetIInv'
<1>1. PICK n, s, e : n = net /\ s = net.slot[p] /\ e = [net.udptab[s] EXCEPT !.udstate = "UDP_USED"]
  OBVIOUS
<1>m. PICK m : m = [idles(net, p) EXCEPT !.mail[p] = FALSE, !.udptab[net.slot[p]].udstate = "UDP_USED"]
  OBVIOUS
<1>2. /\ net.at[p] = "ready"
      /\ net' = IF net.mail[p] THEN dequeued(m, s) ELSE m
  BY <1>1, <1>m DEF udp_recv_end
<1>3. /\ n \in NetRecords /\ ReceiversTold(n) /\ NetSound(n, 0) /\ p \in NetProcs
      /\ s \in UdpSlots /\ n.udptab[s] \in Endpoints /\ "idle" \in NetPoint /\ n.at[p] = "ready"
      /\ n.slot \in [NetUsers -> UdpSlots]
  BY <1>1, <1>2, UserFacts, NetKinds
<1>4. WaitsAt(n, p) /\ n.udptab[s].user = p
  <2>1. WaitsAt(n, p)
    BY <1>3 DEF ReceiversTold
  <2> QED
    BY <1>1, <1>3, <2>1 DEF WaitsAt, Receiving
<1>5. /\ e \in Endpoints /\ e.udstate = "UDP_USED" /\ e.udqueue = n.udptab[s].udqueue /\ e.user = p
  BY <1>1, <1>3, <1>4 DEF Endpoints
<1>6. m = [n EXCEPT !.at[p] = "idle", !.mail[p] = FALSE, !.udptab[s] = e]
  BY <1>1, <1>m DEF idles
<1>7. /\ m.bufs = n.bufs /\ m.ipoqueue = n.ipoqueue /\ m.iqsem = n.iqsem /\ m \in NetRecords
      /\ m.udptab[s] = e /\ (\A t \in UdpSlots \ {s} : m.udptab[t] = n.udptab[t]) /\ m.slot = n.slot
  BY <1>3, <1>5, <1>6 DEF NetRecords
<1>8. /\ m.at[p] = "idle" /\ \A q \in NetProcs \ {p} : m.at[q] = n.at[q]
      /\ ~m.mail[p] /\ \A q \in NetUsers \ {p} : m.mail[q] = n.mail[q]
  BY <1>3, <1>6 DEF NetRecords
<1>9. EndpointOnly(n, m, s, e)
  BY <1>3, <1>7, <1>8 DEF EndpointOnly
<1>10. ASSUME NEW q \in NetUsers \ {p}, n.slot[q] = s PROVE ~Receiving(n, q) /\ ~n.mail[q]
  <2>1. WaitsAt(n, q)
    BY <1>3 DEF ReceiversTold
  <2> QED
    BY <1>4, <1>10, <2>1 DEF WaitsAt, Receiving
<1>11. ReceiversTold(m)
  <2>1. ASSUME NEW t \in UdpSlots \ {s}, n.udptab[t].udstate = "UDP_RECV" PROVE n.udptab[t].udpid # p
    <3>1. WaitedAt(n, t)
      BY <1>3 DEF ReceiversTold
    <3> QED
      BY <1>1, <2>1, <3>1 DEF WaitedAt
  <2>2. SameBut(n, m, s, {p})
    <3>1. NetUsers \subseteq NetProcs
      BY NetKinds
    <3> QED
      BY <1>3, <1>7, <1>8, <2>1, <3>1 DEF SameBut
  <2>3. WaitedAt(m, s)
    BY <1>5, <1>7 DEF WaitedAt
  <2>4. WaitsAt(m, p)
    BY <1>8 DEF WaitsAt, Receiving
  <2>5. ASSUME NEW q \in NetUsers \ {p}, n.slot[q] = s PROVE WaitsAt(m, q)
    <3>1. ~Receiving(n, q) /\ ~n.mail[q]
      BY <1>10, <2>5
    <3> QED
      BY <1>8, <3>1, NetKinds DEF WaitsAt, Receiving
  <2>6. \A q \in NetUsers : q \in {p} \/ n.slot[q] = s => WaitsAt(m, q)
    BY <2>4, <2>5
  <2> QED
    BY <1>3, <2>2, <2>3, <2>6, ToldBut
<1>12. NetSound(m, 0)
  <2>1. 0 \in Nat
    OBVIOUS
  <2>2. 0 + Len(n.udptab[s].udqueue) = 0 + Len(e.udqueue)
    BY <1>5, Zenon
  <2> QED
    BY <1>3, <1>5, <1>9, <1>11, <2>1, <2>2, EndpointSound
<1>13. ASSUME net.mail[p] PROVE NetSound(dequeued(m, s), 0)
  <2>1. m.udptab[s].udstate = "UDP_USED" /\ m.udptab[s].udqueue # << >>
    <3>1. n.udptab[s].udqueue # << >>
      BY <1>1, <1>4, <1>13 DEF WaitsAt
    <3> QED
      BY <1>5, <1>7, <3>1
  <2>2. Quiet(m, s)
    <3>1. m.udptab[s].user = p /\ ~Receiving(m, p)
      BY <1>5, <1>7, <1>8 DEF Receiving
    <3> QED
      BY <1>11, <3>1, NobodyAt
  <2>3. 0 \in Nat
    OBVIOUS
  <2> QED
    BY <1>3, <1>12, <2>1, <2>2, <2>3, DequeuedSound
<1> QED
  BY <1>2, <1>12, <1>13 DEF NetIInv

LEMMA Releases ==
  ASSUME NetIInv, ~ShareSlots, NEW p \in NetUsers, NEW s \in UdpSlots, udp_release(p, s)
  PROVE  NetIInv'
<1>1. PICK k, m : k = Len(net.udptab[s].udqueue) /\ m = [net EXCEPT !.udptab[s] = FreeEndpoint]
  OBVIOUS
<1>2. net.at[p] = "idle" /\ registered(p, s) /\ net' = freebufs_in(m, k)
  BY <1>1 DEF udp_release
<1>3. NetSound(net, 0) /\ 0 \in Nat /\ net.udptab[s] \in Endpoints
  BY UserFacts
<1>4. k \in Nat
  <2>1. net.udptab[s].udqueue \in Seq(Remotes)
    BY <1>3 DEF Endpoints
  <2> QED
    BY <1>1, <2>1, LenProperties
<1>5. FreeEndpoint \in Endpoints /\ FreeEndpoint.udstate = "UDP_FREE" /\ FreeEndpoint.udqueue = << >>
  BY DEF FreeEndpoint, Endpoints, AnyRemote
<1>6. NetSound(m, 0 + k)
  <2>1. Quiet(net, s)
    BY <1>2, UserQuiet
  <2>2. 0 + k \in Nat /\ 0 + k = (0 + k) + 0
    BY <1>4
  <2>3. Len(FreeEndpoint.udqueue) = 0
    BY <1>5
  <2>4. 0 + Len(net.udptab[s].udqueue) = (0 + k) + Len(FreeEndpoint.udqueue)
    BY <1>1, <2>2, <2>3, Zenon
  <2>5. FreeEndpoint.udstate = "UDP_USED" \/ (FreeEndpoint.udstate = "UDP_FREE" /\ FreeEndpoint.udqueue = << >>)
    BY <1>5
  <2>6. FreeEndpoint \in Endpoints /\ 0 + k \in Nat
    BY <1>5, <2>2
  <2>7. NetSound([net EXCEPT !.udptab[s] = FreeEndpoint], 0 + k)
    BY <1>3, <2>1, <2>4, <2>5, <2>6, QuietSound
  <2> QED
    BY <1>1, <2>7
<1>7. NetSound(freebufs_in(m, k), 0)
  BY <1>3, <1>4, <1>6, FreedSound
<1> QED
  BY <1>2, <1>7 DEF NetIInv

LEMMA Sends ==
  ASSUME NetIInv, NEW p \in NetUsers, NEW s \in UdpSlots, udp_send(p, s)
  PROVE  NetIInv'
<1>1. PICK m : m = [net EXCEPT !.slot[p] = s]
  OBVIOUS
<1>2. net.at[p] = "idle" /\ net' = getbuf_in(m, p, "wait_buf", "hold")
  BY <1>1 DEF udp_send
<1>3. NetSound(net, 0) /\ 0 \in Nat /\ p \in NetProcs /\ ~Receiving(net, p) /\ net \in NetRecords
  BY <1>2, UserFacts
<1>4. NetSound(m, 0) /\ m.at[p] = "idle"
  <2>1. NetSound([net EXCEPT !.slot[p] = s], 0)
    BY <1>3, SlotSet
  <2>2. m.at = net.at
    BY <1>1, <1>3 DEF NetRecords
  <2> QED
    BY <1>1, <1>2, <2>1, <2>2
<1>5. /\ "wait_buf" \in NetPoints[p] \cap {"wait_buf", "wait_reply"}
      /\ "hold" \in NetPoints[p] \cap {"hold", "reply"}
      /\ one("wait_buf") = one("idle") /\ one("hold") + two("hold") = one("idle") + 1
  BY NetKinds DEF one, two
<1>6. NetSound(getbuf_in(m, p, "wait_buf", "hold"), 0)
  BY <1>3, <1>4, <1>5, GetbufSound
<1> QED
  BY <1>2, <1>6 DEF NetIInv

LEMMA PacketLeaves ==
  ASSUME NetIInv, NEW p \in NetUsers, ip_send_out(p) \/ \E pkt \in Remotes : ip_send_local(p, pkt)
  PROVE  NetIInv'
<1>1. net.at[p] = "hold"
  BY DEF ip_send_out, ip_send_local
<1>2. NetSound(net, 0) /\ 0 \in Nat /\ p \in NetProcs
  BY UserFacts
<1>3. NetSound(idles(net, p), 0 + 1)
  BY <1>1, <1>2, BufferInHand
<1>4. CASE ip_send_out(p)
  <2>1. NetSound(net', 0)
    BY <1>2, <1>3, <1>4, FreedOne DEF ip_send_out
  <2> QED
    BY <2>1 DEF NetIInv
<1>5. ASSUME NEW pkt \in Remotes, ip_send_local(p, pkt) PROVE NetIInv'
  <2>1. net' = udp_in(idles(net, p), pkt)
    BY <1>5 DEF ip_send_local
  <2>2. NetSound(net', 0)
    BY <1>2, <1>3, <2>1, UdpInSound
  <2> QED
    BY <2>2 DEF NetIInv
<1> QED
  BY <1>4, <1>5

-----------------------------------------------------------------------------
LEMMA NetStep ==
  ASSUME NetIInv, ~ShareSlots, ~FillIpq, [NetNext]_net
  PROVE  NetIInv'
<1>1. CASE UNCHANGED net
  <2>1. net' = net
    BY <1>1
  <2> QED
    BY <2>1 DEF NetIInv
<1>2. CASE netin_getbuf \/ netin_other \/ icmp_echo \/ icmp_reply \/ \E pkt \in Remotes : netin_udp(pkt)
  BY <1>2, NetinKeeps
<1>3. CASE ipout_wait \/ ipout_take \/ ipout_sent
  BY <1>3, IpoutWaits, IpoutTakes, IpoutSent
<1>4. ASSUME NEW p \in NetUsers, NEW rem \in Remotes \cup {AnyRemote}, udp_register(p, rem) PROVE NetIInv'
  BY <1>4, Registers
<1>5. ASSUME NEW p \in NetUsers, NEW s \in UdpSlots, udp_recv(p, s) \/ udp_release(p, s) \/ udp_send(p, s)
      PROVE  NetIInv'
  BY <1>5, Receives, Releases, Sends
<1>6. ASSUME NEW p \in NetUsers, recv_timeout(p) \/ udp_recv_end(p) PROVE NetIInv'
  BY <1>6, RecvTimesOut, ReceiveEnds
<1>7. ASSUME NEW p \in NetUsers, ip_send_out(p) \/ \E pkt \in Remotes : ip_send_local(p, pkt) PROVE NetIInv'
  BY <1>7, PacketLeaves
<1> QED
  BY <1>1, <1>2, <1>3, <1>4, <1>5, <1>6, <1>7 DEF NetNext

(* What the run checks follows.                                            *)
LEMMA NetAccounts ==
  ASSUME NetIInv
  PROVE  BuffersAccounted
<1>1. /\ IsSem(net.bufs, NetProcs) /\ ToSet(net.bufs.squeue) = wanting(net)
      /\ BufsCounted(net, 0) /\ PacketsCounted(net)
  BY DEF NetIInv, NetSound, BufsQueued
<1>2. wanting(net) # {} => counted(net.bufs) = 0
  <2>1. PICK c, q : c = net.bufs.scount /\ q = net.bufs.squeue
    OBVIOUS
  <2>2. c \in Int /\ q \in Seq(NetProcs) /\ Len(q) = IF c < 0 THEN -c ELSE 0
    BY <1>1, <2>1 DEF IsSem, SemEntries
  <2>3. ToSet(q) # {} => q # << >>
    BY <2>2, NobodyQueued
  <2>4. q # << >> => c < 0
    BY <2>2
  <2>5. q # << >> => counted(net.bufs) = 0
    BY <2>1, <2>2, <2>4 DEF counted
  <2>6. ToSet(q) = wanting(net)
    BY <1>1, <2>1
  <2> QED
    BY <2>3, <2>5, <2>6
<1>3. net.at[Ipout] = "send" => net.ipoqueue.iqbuf[net.ipoqueue.iqhead]
  <2>1. inside(net.ipoqueue) = counted(net.iqsem) + IF net.at[Ipout] = "send" THEN 1 ELSE 0
    BY <1>1 DEF PacketsCounted
  <2>2. counted(net.iqsem) \in Nat
    BY <1>1, CountedNat DEF PacketsCounted
  <2>3. InOrder(net.ipoqueue)
    BY <1>1 DEF PacketsCounted
  <2>4. net.at[Ipout] = "send" => inside(net.ipoqueue) > 0
    BY <2>1, <2>2
  <2> QED
    BY <2>3, <2>4, TakenInOrder
<1>4. counted(net.bufs) + Cardinality(queued(net)) + inside(net.ipoqueue)
        + Cardinality(holding(net)) + Cardinality(replying(net)) = NetBufs
  <2>1. PICK c, u, v, h, r :
          /\ c = counted(net.bufs) /\ u = Cardinality(queued(net)) /\ v = inside(net.ipoqueue)
          /\ h = Cardinality(holding(net)) /\ r = Cardinality(replying(net))
    OBVIOUS
  <2>2. IsFiniteSet(queued(net)) /\ c + u + v + h + r + 0 = NetBufs
    BY <1>1, <2>1 DEF BufsCounted
  <2>3. /\ c \in Nat /\ u \in Nat /\ v \in Nat /\ h \in Nat /\ r \in Nat
    BY <2>1, <2>2, NetNumbers DEF NetIInv, NetSound
  <2>4. c + u + v + h + r = NetBufs
    BY <2>2, <2>3
  <2> QED
    BY <2>1, <2>4
<1>5. wanting(net) = {p \in NetProcs : net.at[p] \in {"wait_buf", "wait_reply"}}
  BY DEF wanting
<1> QED
  BY <1>1, <1>2, <1>3, <1>4, <1>5 DEF BuffersAccounted, inside

LEMMA NetTells ==
  ASSUME NetIInv
  PROVE  ReceiversAreTold
<1>1. (\A s \in UdpSlots : WaitedAt(net, s)) /\ \A p \in NetUsers : WaitsAt(net, p)
  BY DEF NetIInv, NetSound, ReceiversTold
<1>2. ASSUME NEW p \in NetUsers, net.at[p] = "wait_recv" PROVE ~net.mail[p]
  BY <1>1, <1>2 DEF WaitsAt
<1> QED
  BY <1>1, <1>2 DEF ReceiversAreTold, WaitedAt, WaitsAt, Receiving

(* No network buffer is lost or in two places, and a process waits for one *)
(* only when the pool is empty (getbuf, freebuf, udp_in, udp_recv,         *)
(* udp_release, ip_enqueue), when nobody but the process that registered   *)
(* an endpoint receives from it or releases it, and ip_enqueue stores no   *)
(* packet over that of an ipout that was let through and has not read it   *)
(* (~FillIpq: ip.c:453 does not see to it).                                *)
THEOREM SpecBuffersAccounted ==
  ASSUME ~ShareSlots, ~FillIpq
  PROVE  NetSpec => []BuffersAccounted
<1>1. NetInit => NetIInv
  BY NetInitial
<1>2. NetIInv /\ [NetNext]_net => NetIInv'
  BY NetStep
<1>3. NetIInv => BuffersAccounted
  BY NetAccounts
<1> QED
  BY <1>1, <1>2, <1>3, PTL DEF NetSpec

(* An endpoint says that a process waits exactly when it does, and a       *)
(* process with a message finds a packet (udp_recv and udp_in), under the  *)
(* same conditions.                                                        *)
THEOREM SpecReceiversAreTold ==
  ASSUME ~ShareSlots, ~FillIpq
  PROVE  NetSpec => []ReceiversAreTold
<1>1. NetInit => NetIInv
  BY NetInitial
<1>2. NetIInv /\ [NetNext]_net => NetIInv'
  BY NetStep
<1>3. NetIInv => ReceiversAreTold
  BY NetTells
<1> QED
  BY <1>1, <1>2, <1>3, PTL DEF NetSpec

-----------------------------------------------------------------------------
(***************************************************************************)
(* The heap: blocks, and lists of blocks in the order of their addresses   *)
(* of which no two touch.                                                  *)
(***************************************************************************)

MemBlocks == [addr : Nat, mlength : Nat]

(* A block that the list may hold.                                         *)
Whole(b) == b \in MemBlocks /\ b.addr % 8 = 0 /\ b.mlength % 8 = 0 /\ b.mlength > 0

IsFreeList(list) ==
  /\ list \in Seq(MemBlocks)
  /\ \A k \in 1 .. Len(list) : Whole(list[k])
  /\ \A i, j \in 1 .. Len(list) : i < j => after(list[i]) < list[j].addr

FreeOf(list) == UNION {bytes(b) : b \in ToSet(list)}

(* Multiples of eight.                                                     *)
LEMMA EightsAdd ==
  ASSUME NEW a \in Int, NEW b \in Int, a % 8 = 0, b % 8 = 0
  PROVE  (a + b) % 8 = 0 /\ (a - b) % 8 = 0
OBVIOUS

(* What roundmb returns.                                                   *)
LEMMA RoundedUp ==
  ASSUME NEW n \in 1 .. AddressSpace - 8
  PROVE  roundmb(n) \in Nat /\ roundmb(n) % 8 = 0 /\ roundmb(n) >= n /\ roundmb(n) > 0
<1>1. AddressSpace \in Nat
  BY MemoryAssumption
<1>2. PICK up : up = 7 + n /\ up \in 0 .. AddressSpace - 1
  BY <1>1
<1>3. up % AddressSpace = up
  BY <1>1, <1>2
<1>4. roundmb(n) = up - (up % 8)
  BY <1>2, <1>3 DEF roundmb
<1>5. up % 8 \in 0 .. 7 /\ (up - (up % 8)) % 8 = 0
  BY <1>2
<1> QED
  BY <1>2, <1>4, <1>5

(* A block is what it is made of.                                          *)
LEMMA BlockFields ==
  ASSUME NEW a, NEW n
  PROVE  Block(a, n).addr = a /\ Block(a, n).mlength = n /\ after(Block(a, n)) = a + n
BY DEF Block, after

(* Aligned, it is one the list may hold.                                   *)
LEMMA BlockWhole ==
  ASSUME NEW a \in Nat, NEW n \in Nat, a % 8 = 0, n % 8 = 0, n > 0
  PROVE  Whole(Block(a, n))
BY DEF Block, Whole, MemBlocks

(* A block is its two fields.                                              *)
LEMMA BlockAgain ==
  ASSUME NEW b \in MemBlocks
  PROVE  b = Block(b.addr, b.mlength)
BY DEF Block, MemBlocks

(* The bytes of a block.                                                   *)
LEMMA WholeBytes ==
  ASSUME NEW b, Whole(b)
  PROVE  /\ b.addr \in Nat /\ b.mlength \in Nat /\ after(b) \in Nat /\ after(b) = b.addr + b.mlength
         /\ b.addr < after(b)
         /\ \A x : x \in bytes(b) <=> x \in Int /\ b.addr <= x /\ x < after(b)
         /\ b.addr \in bytes(b)
BY DEF Whole, MemBlocks, after, bytes

(* Blocks with no byte in common lie one after the other.                  *)
LEMMA BlocksApart ==
  ASSUME NEW b, NEW c, Whole(b), Whole(c)
  PROVE  bytes(b) \cap bytes(c) = {} <=> (after(b) <= c.addr \/ after(c) <= b.addr)
<1>1. ASSUME after(b) <= c.addr \/ after(c) <= b.addr
      PROVE  bytes(b) \cap bytes(c) = {}
  BY <1>1, WholeBytes
<1>2. ASSUME ~(after(b) <= c.addr \/ after(c) <= b.addr)
      PROVE  bytes(b) \cap bytes(c) # {}
  <2>1. CASE b.addr <= c.addr
    <3>1. c.addr \in bytes(b) /\ c.addr \in bytes(c)
      BY <1>2, <2>1, WholeBytes
    <3> QED
      BY <3>1
  <2>2. CASE c.addr <= b.addr
    <3>1. b.addr \in bytes(b) /\ b.addr \in bytes(c)
      BY <1>2, <2>2, WholeBytes
    <3> QED
      BY <3>1
  <2> QED
    BY <2>1, <2>2, WholeBytes
<1> QED
  BY <1>1, <1>2

(* The bytes of a list are those of its blocks.                            *)
LEMMA FreeAt ==
  ASSUME NEW list, IsFreeList(list)
  PROVE  /\ Len(list) \in Nat /\ DOMAIN list = 1 .. Len(list)
         /\ \A x : x \in FreeOf(list) <=> \E k \in 1 .. Len(list) : x \in bytes(list[k])
<1>1. list \in Seq(MemBlocks)
  BY DEF IsFreeList
<1>2. Len(list) \in Nat /\ DOMAIN list = 1 .. Len(list)
  BY <1>1, LenProperties
<1> QED
  BY <1>2 DEF FreeOf, ToSet

(* The blocks of a list are apart.                                         *)
LEMMA FreeApart ==
  ASSUME NEW list, IsFreeList(list), NEW i \in 1 .. Len(list), NEW j \in 1 .. Len(list), i # j
  PROVE  bytes(list[i]) \cap bytes(list[j]) = {} /\ list[i] # list[j]
<1>1. Len(list) \in Nat
  BY FreeAt
<1>2. Whole(list[i]) /\ Whole(list[j])
  BY DEF IsFreeList
<1>3. after(list[i]) < list[j].addr \/ after(list[j]) < list[i].addr
  <2>1. i < j \/ j < i
    BY <1>1
  <2> QED
    BY <2>1 DEF IsFreeList
<1>4. bytes(list[i]) \cap bytes(list[j]) = {}
  <2>1. list[i].addr \in Nat /\ list[j].addr \in Nat /\ after(list[i]) \in Nat /\ after(list[j]) \in Nat
    BY <1>2, WholeBytes
  <2>2. after(list[i]) <= list[j].addr \/ after(list[j]) <= list[i].addr
    BY <1>3, <2>1
  <2> QED
    BY <1>2, <2>2, BlocksApart
<1>5. list[i].addr \in bytes(list[i])
  BY <1>2, WholeBytes
<1> QED
  BY <1>4, <1>5

-----------------------------------------------------------------------------
(* A sequence of which the elements between p and q are replaced by one.   *)
splice(s, x, p, q) == SubSeq(s, 1, p) \o << x >> \o SubSeq(s, q, Len(s))

(* Where its elements come from.                                           *)
IsSplice(new, s, x, p, q) ==
  /\ \A j \in 1 .. Len(new) :
       \/ j \in 1 .. p /\ new[j] = s[j]
       \/ j = p + 1 /\ new[j] = x
       \/ \E i \in q .. Len(s) : j = p + 2 + (i - q) /\ new[j] = s[i]
  /\ \A i \in 1 .. p : i \in 1 .. Len(new) /\ new[i] = s[i]
  /\ p + 1 \in 1 .. Len(new) /\ new[p + 1] = x
  /\ \A i \in q .. Len(s) : \E j \in 1 .. Len(new) : new[j] = s[i]

(* The elements of a list with x in the place of those from p + 1 to q - 1.*)
LEMMA SpliceElements ==
  ASSUME NEW T, NEW s \in Seq(T), NEW x \in T, NEW p \in 0 .. Len(s), NEW q \in p + 1 .. Len(s) + 1,
         NEW new, new = splice(s, x, p, q)
  PROVE  /\ new \in Seq(T)
         /\ IsSplice(new, s, x, p, q)
<1> DEFINE a == SubSeq(s, 1, p)
           c == SubSeq(s, q, Len(s))
           d == a \o << x >>
<1>1. Len(s) \in Nat /\ \A i \in 1 .. Len(s) : s[i] \in T
  BY ElementOfSeq, LenProperties
<1>2. /\ a \in Seq(T) /\ Len(a) = p
      /\ \A i \in 1 .. p : a[i] = s[i]
  <2>1. \A i \in 1 .. p : s[i] \in T
    BY <1>1
  <2>2. /\ a \in Seq(T) /\ Len(a) = (IF 1 <= p THEN p - 1 + 1 ELSE 0)
        /\ \A i \in 1 .. p - 1 + 1 : a[i] = s[1 + i - 1]
    BY <2>1, <1>1, SubSeqProperties
  <2> QED
    BY <2>2, <1>1
<1>3. /\ c \in Seq(T) /\ Len(c) = Len(s) + 1 - q
      /\ \A i \in 1 .. Len(s) + 1 - q : c[i] = s[q + i - 1]
  <2>1. \A i \in q .. Len(s) : s[i] \in T
    BY <1>1
  <2>2. /\ c \in Seq(T) /\ Len(c) = (IF q <= Len(s) THEN Len(s) - q + 1 ELSE 0)
        /\ \A i \in 1 .. Len(s) - q + 1 : c[i] = s[q + i - 1]
    BY <2>1, <1>1, SubSeqProperties
  <2> QED
    BY <2>2, <1>1
<1>4. << x >> \in Seq(T) /\ Len(<< x >>) = 1 /\ << x >>[1] = x
  OBVIOUS
<1>5. /\ d \in Seq(T) /\ Len(d) = p + 1
      /\ \A j \in 1 .. p + 1 : d[j] = IF j <= p THEN a[j] ELSE << x >>[j - p]
  BY <1>2, <1>4, ConcatProperties
<1>6. /\ new \in Seq(T) /\ Len(new) = p + 1 + (Len(s) + 1 - q)
      /\ \A j \in 1 .. Len(new) : new[j] = IF j <= p + 1 THEN d[j] ELSE c[j - (p + 1)]
  <2>1. /\ d \o c \in Seq(T) /\ Len(d \o c) = Len(d) + Len(c)
        /\ \A j \in 1 .. Len(d) + Len(c) : (d \o c)[j] = IF j <= Len(d) THEN d[j] ELSE c[j - Len(d)]
    <3>1. d \in Seq(T) /\ c \in Seq(T)
      BY <1>3, <1>5
    <3> QED
      BY <3>1, ConcatProperties
  <2>2. new = d \o c
    BY DEF splice
  <2>3. Len(d) = p + 1 /\ Len(c) = Len(s) + 1 - q
    BY <1>3, <1>5
  <2> HIDE DEF a, c, d
  <2> QED
    BY <2>1, <2>2, <2>3
<1> HIDE DEF a, c, d
<1>7. p \in Nat /\ q \in Nat /\ p < q /\ q <= Len(s) + 1
  BY <1>1
<1>8. \A i \in 1 .. p : i \in 1 .. Len(new) /\ new[i] = s[i]
  <2>1. ASSUME NEW i \in 1 .. p
        PROVE  i \in 1 .. Len(new) /\ new[i] = s[i]
    <3>1. i \in 1 .. Len(new) /\ i <= p + 1 /\ i \in 1 .. p + 1 /\ i <= p
      BY <1>1, <1>6, <1>7
    <3>2. new[i] = d[i]
      BY <3>1, <1>6
    <3>3. d[i] = a[i]
      BY <3>1, <1>5
    <3> QED
      BY <3>1, <3>2, <3>3, <1>2
  <2> QED
    BY <2>1
<1>9. p + 1 \in 1 .. Len(new) /\ new[p + 1] = x
  <2>1. p + 1 \in 1 .. Len(new) /\ p + 1 <= p + 1 /\ p + 1 \in 1 .. p + 1 /\ ~(p + 1 <= p) /\ (p + 1) - p = 1
    BY <1>1, <1>6, <1>7
  <2>2. new[p + 1] = d[p + 1]
    BY <2>1, <1>6
  <2>3. d[p + 1] = << x >>[(p + 1) - p]
    BY <2>1, <1>5
  <2> QED
    BY <2>1, <2>2, <2>3, <1>4
<1>10. ASSUME NEW i \in q .. Len(s)
       PROVE  p + 2 + (i - q) \in 1 .. Len(new) /\ new[p + 2 + (i - q)] = s[i]
  <2>1. PICK j : j = p + 2 + (i - q)
    OBVIOUS
  <2>2. PICK l : l = j - (p + 1)
    OBVIOUS
  <2>3. /\ j \in 1 .. Len(new) /\ ~(j <= p + 1) /\ l \in 1 .. Len(s) + 1 - q
        /\ q + l - 1 = i
    BY <2>1, <2>2, <1>1, <1>6, <1>7
  <2>4. new[j] = c[l]
    BY <2>2, <2>3, <1>6
  <2>5. c[l] = s[q + l - 1]
    BY <2>3, <1>3
  <2> QED
    BY <2>1, <2>3, <2>4, <2>5
<1>11. ASSUME NEW j \in 1 .. Len(new)
       PROVE  \/ j \in 1 .. p /\ new[j] = s[j]
              \/ j = p + 1 /\ new[j] = x
              \/ \E i \in q .. Len(s) : j = p + 2 + (i - q) /\ new[j] = s[i]
  <2>1. j \in Nat /\ j >= 1 /\ j <= p + 1 + (Len(s) + 1 - q)
    BY <1>1, <1>6, <1>7
  <2>2. CASE j \in 1 .. p
    BY <2>2, <1>8
  <2>3. CASE j = p + 1
    BY <2>3, <1>9
  <2>4. CASE j > p + 1
    <3>1. PICK i : i = q + (j - p - 2)
      OBVIOUS
    <3>2. i \in q .. Len(s) /\ j = p + 2 + (i - q)
      BY <2>1, <2>4, <3>1, <1>1, <1>7
    <3> QED
      BY <3>2, <1>10
  <2>5. j \in 1 .. p \/ j = p + 1 \/ j > p + 1
    BY <2>1, <1>7
  <2> QED
    BY <2>2, <2>3, <2>4, <2>5
<1> QED
  BY <1>6, <1>8, <1>9, <1>10, <1>11 DEF IsSplice

(* The list with x for the blocks between p and q.                         *)
LEMMA Spliced ==
  ASSUME NEW list, IsFreeList(list), NEW x, Whole(x),
         NEW p \in 0 .. Len(list), NEW q \in p + 1 .. Len(list) + 1,
         \A i \in 1 .. p : after(list[i]) < x.addr,
         \A i \in q .. Len(list) : after(x) < list[i].addr,
         NEW new, new = splice(list, x, p, q)
  PROVE  /\ IsFreeList(new)
         /\ FreeOf(new) = bytes(x) \cup UNION {bytes(list[i]) : i \in (1 .. p) \cup (q .. Len(list))}
<1>1. list \in Seq(MemBlocks) /\ x \in MemBlocks /\ Len(list) \in Nat
  BY FreeAt DEF IsFreeList, Whole
<1>2. /\ new \in Seq(MemBlocks)
      /\ \A j \in 1 .. Len(new) : \/ j \in 1 .. p /\ new[j] = list[j]
                                  \/ j = p + 1 /\ new[j] = x
                                  \/ \E i \in q .. Len(list) : j = p + 2 + (i - q) /\ new[j] = list[i]
      /\ \A i \in 1 .. p : i \in 1 .. Len(new) /\ new[i] = list[i]
      /\ p + 1 \in 1 .. Len(new) /\ new[p + 1] = x
      /\ \A i \in q .. Len(list) : \E j \in 1 .. Len(new) : new[j] = list[i]
  <2>1. /\ list \in Seq(MemBlocks) /\ x \in MemBlocks /\ p \in 0 .. Len(list)
        /\ q \in p + 1 .. Len(list) + 1 /\ new = splice(list, x, p, q)
    BY <1>1
  <2> QED
    <3>1. new \in Seq(MemBlocks) /\ IsSplice(new, list, x, p, q)
      BY <2>1, SpliceElements
    <3> QED
      BY <3>1 DEF IsSplice
<1>3. \A i : i \in 1 .. p \/ i \in q .. Len(list) => i \in 1 .. Len(list)
  BY <1>1
<1>4. \A j \in 1 .. Len(new) : Whole(new[j])
  BY <1>2, <1>3 DEF IsFreeList
<1>5. ASSUME NEW i \in 1 .. Len(new), NEW j \in 1 .. Len(new), i < j
      PROVE  after(new[i]) < new[j].addr
  <2>0. i \in Nat /\ j \in Nat /\ p \in Nat /\ q \in Nat /\ p < q
    BY <1>1, <1>2
  <2>1. CASE j \in 1 .. p /\ new[j] = list[j]
    <3>1. i \in 1 .. p /\ new[i] = list[i]
      BY <2>0, <2>1, <1>2, <1>5
    <3>2. i \in 1 .. Len(list) /\ j \in 1 .. Len(list)
      BY <2>1, <3>1, <1>3
    <3> QED
      BY <2>1, <3>1, <3>2, <1>5 DEF IsFreeList
  <2>2. CASE j = p + 1 /\ new[j] = x
    <3>1. i \in 1 .. p /\ new[i] = list[i]
      BY <2>0, <2>2, <1>2, <1>5
    <3> QED
      BY <2>2, <3>1
  <2>3. ASSUME NEW l \in q .. Len(list), j = p + 2 + (l - q), new[j] = list[l]
        PROVE  after(new[i]) < new[j].addr
    <3>1. l \in 1 .. Len(list)
      BY <1>3
    <3>2. CASE i \in 1 .. p /\ new[i] = list[i]
      <4>1. i \in 1 .. Len(list) /\ i < l
        BY <2>0, <3>2, <1>3
      <4> QED
        BY <2>3, <3>1, <3>2, <4>1 DEF IsFreeList
    <3>3. CASE i = p + 1 /\ new[i] = x
      BY <2>3, <3>3
    <3>4. ASSUME NEW k \in q .. Len(list), i = p + 2 + (k - q), new[i] = list[k]
          PROVE  after(new[i]) < new[j].addr
      <4>1. k \in 1 .. Len(list)
        BY <1>3
      <4>2. k < l
        BY <2>0, <2>3, <3>4, <1>5
      <4> QED
        BY <2>3, <3>1, <3>4, <4>1, <4>2 DEF IsFreeList
    <3> QED
      BY <3>2, <3>3, <3>4, <1>2
  <2> QED
    BY <2>1, <2>2, <2>3, <1>2
<1>6. IsFreeList(new)
  BY <1>2, <1>4, <1>5 DEF IsFreeList
<1>7. ASSUME NEW y
      PROVE  y \in FreeOf(new) <=> \/ y \in bytes(x)
                                   \/ \E i \in 1 .. p : y \in bytes(list[i])
                                   \/ \E i \in q .. Len(list) : y \in bytes(list[i])
  <2>1. y \in FreeOf(new) <=> \E j \in 1 .. Len(new) : y \in bytes(new[j])
    BY <1>6, FreeAt
  <2> QED
    BY <2>1, <1>2, Zenon
<1>8. FreeOf(new) = bytes(x) \cup UNION {bytes(list[i]) : i \in (1 .. p) \cup (q .. Len(list))}
  BY <1>7, Zenon
<1> QED
  BY <1>6, <1>8

(* The list without its block k.                                           *)
LEMMA Unlinked ==
  ASSUME NEW list, IsFreeList(list), NEW k \in 1 .. Len(list)
  PROVE  /\ IsFreeList(RemoveAt(list, k))
         /\ FreeOf(RemoveAt(list, k)) = FreeOf(list) \ bytes(list[k])
<1> DEFINE new == RemoveAt(list, k)
<1>1. list \in Seq(MemBlocks) /\ Len(list) \in Nat
  BY FreeAt DEF IsFreeList
<1> DEFINE a == SubSeq(list, 1, k - 1)
           c == SubSeq(list, k + 1, Len(list))
<1>a. \A i \in 1 .. Len(list) : list[i] \in MemBlocks
  BY <1>1, ElementOfSeq
<1>b. /\ a \in Seq(MemBlocks) /\ Len(a) = k - 1
      /\ \A i \in 1 .. k - 1 : a[i] = list[i]
  <2>1. \A i \in 1 .. k - 1 : list[i] \in MemBlocks
    BY <1>1, <1>a
  <2>2. /\ a \in Seq(MemBlocks) /\ Len(a) = (IF 1 <= k - 1 THEN k - 1 - 1 + 1 ELSE 0)
        /\ \A i \in 1 .. k - 1 - 1 + 1 : a[i] = list[1 + i - 1]
    BY <2>1, <1>1, SubSeqProperties
  <2> QED
    BY <2>2, <1>1
<1>c. /\ c \in Seq(MemBlocks) /\ Len(c) = Len(list) - k
      /\ \A i \in 1 .. Len(list) - k : c[i] = list[k + i]
  <2>1. \A i \in k + 1 .. Len(list) : list[i] \in MemBlocks
    BY <1>1, <1>a
  <2>2. /\ c \in Seq(MemBlocks) /\ Len(c) = (IF k + 1 <= Len(list) THEN Len(list) - (k + 1) + 1 ELSE 0)
        /\ \A i \in 1 .. Len(list) - (k + 1) + 1 : c[i] = list[(k + 1) + i - 1]
    BY <2>1, <1>1, SubSeqProperties
  <2> QED
    BY <2>2, <1>1
<1>d. new = a \o c
  BY DEF RemoveAt
<1> HIDE DEF a, c, new
<1>2. /\ new \in Seq(MemBlocks)
      /\ Len(new) = Len(list) - 1
      /\ \A j \in 1 .. Len(list) - 1 : new[j] = IF j < k THEN list[j] ELSE list[j + 1]
  <2>1. /\ new \in Seq(MemBlocks) /\ Len(new) = Len(a) + Len(c)
        /\ \A j \in 1 .. Len(a) + Len(c) : new[j] = IF j <= Len(a) THEN a[j] ELSE c[j - Len(a)]
    BY <1>b, <1>c, <1>d, ConcatProperties
  <2>2. Len(a) + Len(c) = Len(list) - 1
    BY <1>1, <1>b, <1>c
  <2>3. ASSUME NEW j \in 1 .. Len(list) - 1
        PROVE  new[j] = IF j < k THEN list[j] ELSE list[j + 1]
    <3>1. new[j] = IF j <= k - 1 THEN a[j] ELSE c[j - (k - 1)]
      BY <2>1, <2>2, <1>b
    <3>2. CASE j < k
      <4>1. j <= k - 1 /\ j \in 1 .. k - 1
        BY <3>2, <1>1
      <4> QED
        BY <3>1, <3>2, <4>1, <1>b
    <3>3. CASE j >= k
      <4>1. ~(j <= k - 1) /\ j - (k - 1) \in 1 .. Len(list) - k /\ k + (j - (k - 1)) = j + 1 /\ ~(j < k)
        BY <3>3, <1>1
      <4> QED
        BY <3>1, <4>1, <1>c
    <3> QED
      BY <3>2, <3>3, <1>1
  <2> QED
    BY <2>1, <2>2, <2>3
<1>3. \A j \in 1 .. Len(new) :
        \E i \in 1 .. Len(list) : /\ i # k /\ new[j] = list[i]
                                  /\ i = (IF j < k THEN j ELSE j + 1)
  BY <1>1, <1>2
<1>4. \A j \in 1 .. Len(new) : Whole(new[j])
  BY <1>3 DEF IsFreeList
<1>5. ASSUME NEW i \in 1 .. Len(new), NEW j \in 1 .. Len(new), i < j
      PROVE  after(new[i]) < new[j].addr
  <2>1. PICK m \in 1 .. Len(list) : new[i] = list[m] /\ m = (IF i < k THEN i ELSE i + 1)
    BY <1>3
  <2>2. PICK n \in 1 .. Len(list) : new[j] = list[n] /\ n = (IF j < k THEN j ELSE j + 1)
    BY <1>3
  <2>3. m < n
    BY <2>1, <2>2, <1>1, <1>2, <1>5
  <2> QED
    BY <2>1, <2>2, <2>3 DEF IsFreeList
<1>6. IsFreeList(new)
  BY <1>2, <1>4, <1>5 DEF IsFreeList
<1>7. ASSUME NEW i \in 1 .. Len(list), i # k
      PROVE  \E j \in 1 .. Len(new) : new[j] = list[i]
  <2>1. PICK j : j = IF i < k THEN i ELSE i - 1
    OBVIOUS
  <2>2. j \in 1 .. Len(list) - 1 /\ (IF j < k THEN j ELSE j + 1) = i
    BY <2>1, <1>1, <1>7
  <2>3. new[j] = IF j < k THEN list[j] ELSE list[j + 1]
    BY <2>2, <1>2
  <2>4. new[j] = list[i]
    BY <2>2, <2>3
  <2> QED
    BY <2>2, <2>4, <1>2
<1>8. \A y : y \in FreeOf(new) <=> y \in FreeOf(list) \ bytes(list[k])
  <2>1. ASSUME NEW y, y \in FreeOf(new)
        PROVE  y \in FreeOf(list) \ bytes(list[k])
    <3>1. PICK j \in 1 .. Len(new) : y \in bytes(new[j])
      BY <2>1, <1>6, FreeAt
    <3>2. PICK i \in 1 .. Len(list) : i # k /\ new[j] = list[i]
      BY <1>3
    <3>3. bytes(list[i]) \cap bytes(list[k]) = {}
      BY <3>2, FreeApart
    <3> QED
      BY <3>1, <3>2, <3>3, FreeAt
  <2>2. ASSUME NEW y, y \in FreeOf(list) \ bytes(list[k])
        PROVE  y \in FreeOf(new)
    <3>1. PICK i \in 1 .. Len(list) : y \in bytes(list[i]) /\ i # k
      BY <2>2, FreeAt
    <3> QED
      BY <3>1, <1>6, <1>7, FreeAt
  <2> QED
    BY <2>1, <2>2
<1> QED
  BY <1>6, <1>8 DEF new

LEMMA NatChain ==
  ASSUME NEW a \in Nat, NEW b \in Nat, NEW c \in Nat, NEW d \in Nat, a <= b, b < c, c <= d
  PROVE  a < d
OBVIOUS

(* The list with its block k shortened, or moved up, within itself.        *)
LEMMA Shortened ==
  ASSUME NEW list, IsFreeList(list), NEW k \in 1 .. Len(list), NEW x, Whole(x),
         list[k].addr <= x.addr, after(x) <= after(list[k])
  PROVE  /\ IsFreeList([list EXCEPT ![k] = x])
         /\ FreeOf([list EXCEPT ![k] = x]) = (FreeOf(list) \ bytes(list[k])) \cup bytes(x)
<1> DEFINE new == [list EXCEPT ![k] = x]
<1>1. list \in Seq(MemBlocks) /\ Len(list) \in Nat /\ DOMAIN list = 1 .. Len(list) /\ x \in MemBlocks
  BY FreeAt DEF IsFreeList, Whole
<1>2. /\ new \in Seq(MemBlocks) /\ Len(new) = Len(list)
      /\ \A j \in 1 .. Len(list) : new[j] = IF j = k THEN x ELSE list[j]
  BY <1>1, ExceptSeq
<1> HIDE DEF new
<1>3. \A j \in 1 .. Len(new) : Whole(new[j])
  BY <1>2 DEF IsFreeList
<1>4. ASSUME NEW i \in 1 .. Len(new), NEW j \in 1 .. Len(new), i < j
      PROVE  after(new[i]) < new[j].addr
  <2>1. i \in 1 .. Len(list) /\ j \in 1 .. Len(list)
    BY <1>2
  <2>2. after(list[i]) < list[j].addr
    BY <2>1, <1>4 DEF IsFreeList
  <2>3. Whole(list[i]) /\ Whole(list[j])
    BY <2>1 DEF IsFreeList
  <2>4. /\ list[i].addr \in Nat /\ list[j].addr \in Nat /\ after(list[i]) \in Nat /\ after(list[j]) \in Nat
        /\ x.addr \in Nat /\ after(x) \in Nat
    BY <2>3, WholeBytes
  <2>5. after(new[i]) <= after(list[i]) /\ after(new[i]) \in Nat
    BY <2>1, <2>4, <1>2
  <2>6. list[j].addr <= new[j].addr /\ new[j].addr \in Nat
    BY <2>1, <2>4, <1>2
  <2> QED
    BY <2>2, <2>4, <2>5, <2>6, NatChain, Zenon
<1>5. IsFreeList(new)
  BY <1>2, <1>3, <1>4 DEF IsFreeList
<1>6. \A y : y \in FreeOf(new) <=> y \in (FreeOf(list) \ bytes(list[k])) \cup bytes(x)
  <2>1. ASSUME NEW y, y \in FreeOf(new)
        PROVE  y \in (FreeOf(list) \ bytes(list[k])) \cup bytes(x)
    <3>1. PICK j \in 1 .. Len(list) : y \in bytes(new[j])
      BY <2>1, <1>2, <1>5, FreeAt
    <3>2. CASE j = k
      BY <3>1, <3>2, <1>2
    <3>3. CASE j # k
      <4>1. y \in bytes(list[j])
        BY <3>1, <3>3, <1>2
      <4>2. bytes(list[j]) \cap bytes(list[k]) = {}
        BY <3>3, FreeApart
      <4> QED
        BY <4>1, <4>2, FreeAt
    <3> QED
      BY <3>2, <3>3
  <2>2. ASSUME NEW y, y \in FreeOf(list) \ bytes(list[k])
        PROVE  y \in FreeOf(new)
    <3>1. PICK i \in 1 .. Len(list) : y \in bytes(list[i]) /\ i # k
      BY <2>2, FreeAt
    <3>2. new[i] = list[i]
      BY <3>1, <1>2
    <3> QED
      BY <3>1, <3>2, <1>2, <1>5, FreeAt
  <2>3. bytes(x) \subseteq FreeOf(new)
    <3>1. new[k] = x /\ k \in 1 .. Len(new)
      BY <1>2
    <3> QED
      BY <3>1, <1>5, FreeAt
  <2> QED
    BY <2>1, <2>2, <2>3
<1> QED
  BY <1>5, <1>6 DEF new

(* The low part of a block, and what is left of it.                        *)
LEMMA SplitLow ==
  ASSUME NEW b, Whole(b), NEW n \in Nat, n % 8 = 0, n > 0, n < b.mlength
  PROVE  LET t == Block(b.addr, n)
             x == Block(b.addr + n, b.mlength - n)
         IN  /\ Whole(t) /\ Whole(x)
             /\ b.addr <= x.addr /\ after(x) <= after(b)
             /\ bytes(t) \subseteq bytes(b) /\ bytes(x) = bytes(b) \ bytes(t)
<1> DEFINE t == Block(b.addr, n)
           x == Block(b.addr + n, b.mlength - n)
<1>1. /\ b.addr \in Nat /\ b.mlength \in Nat /\ b.addr % 8 = 0 /\ b.mlength % 8 = 0
      /\ after(b) = b.addr + b.mlength
  BY DEF Whole, MemBlocks, after
<1>2. (b.addr + n) % 8 = 0 /\ (b.mlength - n) % 8 = 0
  <2>1. b.addr \in Int /\ b.mlength \in Int /\ n \in Int /\ b.addr % 8 = 0 /\ b.mlength % 8 = 0
    BY <1>1
  <2> QED
    BY <2>1, EightsAdd, Zenon
<1>3. Whole(t)
  BY <1>1, BlockWhole
<1>4. b.addr + n \in Nat /\ b.mlength - n \in Nat /\ b.mlength - n > 0
  BY <1>1
<1>5. Whole(x)
  BY <1>2, <1>4, BlockWhole
<1>6. t.addr = b.addr /\ after(t) = b.addr + n
  BY BlockFields
<1>7. x.addr = b.addr + n /\ after(x) = after(b)
  <2>1. x.addr = b.addr + n /\ after(x) = (b.addr + n) + (b.mlength - n)
    BY BlockFields
  <2> QED
    BY <2>1, <1>1
<1> HIDE DEF t, x
<1>8. \A y : y \in bytes(t) <=> y \in Int /\ b.addr <= y /\ y < b.addr + n
  BY <1>3, <1>6, WholeBytes
<1>9. \A y : y \in bytes(x) <=> y \in Int /\ b.addr + n <= y /\ y < after(b)
  BY <1>5, <1>7, WholeBytes
<1>10. \A y : y \in bytes(b) <=> y \in Int /\ b.addr <= y /\ y < after(b)
  BY WholeBytes
<1>11. bytes(t) \subseteq bytes(b) /\ bytes(x) = bytes(b) \ bytes(t)
  BY <1>1, <1>8, <1>9, <1>10
<1>12. b.addr <= x.addr /\ after(x) <= after(b)
  BY <1>1, <1>7
<1> QED
  BY <1>3, <1>5, <1>11, <1>12 DEF t, x

(* The top part of a block, and what is left of it.                        *)
LEMMA SplitTop ==
  ASSUME NEW b, Whole(b), NEW n \in Nat, n % 8 = 0, n > 0, n < b.mlength
  PROVE  LET t == Block(after(b) - n, n)
             x == Block(b.addr, b.mlength - n)
         IN  /\ Whole(t) /\ Whole(x)
             /\ b.addr <= x.addr /\ after(x) <= after(b)
             /\ bytes(t) \subseteq bytes(b) /\ bytes(x) = bytes(b) \ bytes(t)
<1> DEFINE t == Block(after(b) - n, n)
           x == Block(b.addr, b.mlength - n)
<1>1. /\ b.addr \in Nat /\ b.mlength \in Nat /\ b.addr % 8 = 0 /\ b.mlength % 8 = 0
      /\ after(b) = b.addr + b.mlength
  BY DEF Whole, MemBlocks, after
<1>2. (b.mlength - n) % 8 = 0
  <2>1. b.addr \in Int /\ b.mlength \in Int /\ n \in Int /\ b.addr % 8 = 0 /\ b.mlength % 8 = 0
    BY <1>1
  <2> QED
    BY <2>1, EightsAdd, Zenon
<1>3. b.mlength - n \in Nat /\ b.mlength - n > 0
  BY <1>1
<1>4. (after(b) - n) % 8 = 0 /\ after(b) - n = b.addr + (b.mlength - n) /\ after(b) - n \in Nat
  <2>1. b.addr \in Int /\ b.mlength - n \in Int /\ b.addr % 8 = 0
    BY <1>1
  <2>2. (b.addr + (b.mlength - n)) % 8 = 0
    BY <2>1, <1>2, EightsAdd, Zenon
  <2>3. after(b) - n = b.addr + (b.mlength - n) /\ after(b) - n \in Nat
    <3>1. PICK a, l : a = b.addr /\ l = b.mlength
      OBVIOUS
    <3>2. a \in Nat /\ l \in Nat /\ after(b) = a + l /\ n < l
      BY <3>1, <1>1
    <3> QED
      BY <3>1, <3>2
  <2> QED
    BY <2>2, <2>3, Zenon
<1>5. Whole(t)
  BY <1>4, BlockWhole
<1>6. Whole(x)
  BY <1>1, <1>2, <1>3, BlockWhole
<1>7. t.addr = after(b) - n /\ after(t) = after(b)
  <2>1. t.addr = after(b) - n /\ after(t) = (after(b) - n) + n
    BY BlockFields
  <2> QED
    BY <2>1, <1>1
<1>8. x.addr = b.addr /\ after(x) = after(b) - n
  <2>1. x.addr = b.addr /\ after(x) = b.addr + (b.mlength - n)
    BY BlockFields
  <2> QED
    BY <2>1, <1>4
<1> HIDE DEF t, x
<1>9. \A y : y \in bytes(t) <=> y \in Int /\ after(b) - n <= y /\ y < after(b)
  BY <1>5, <1>7, WholeBytes
<1>10. \A y : y \in bytes(x) <=> y \in Int /\ b.addr <= y /\ y < after(b) - n
  BY <1>6, <1>8, WholeBytes
<1>11. \A y : y \in bytes(b) <=> y \in Int /\ b.addr <= y /\ y < after(b)
  BY WholeBytes
<1>12. bytes(t) \subseteq bytes(b) /\ bytes(x) = bytes(b) \ bytes(t)
  BY <1>1, <1>3, <1>4, <1>9, <1>10, <1>11
<1>13. b.addr <= x.addr /\ after(x) <= after(b)
  BY <1>1, <1>8
<1> QED
  BY <1>5, <1>6, <1>12, <1>13 DEF t, x

(* Of a block whose length is the one asked for all is taken.              *)
LEMMA SplitNone ==
  ASSUME NEW b, Whole(b)
  PROVE  Block(b.addr, b.mlength) = b /\ Block(after(b) - b.mlength, b.mlength) = b
<1>1. b \in MemBlocks /\ b.addr \in Nat /\ b.mlength \in Nat /\ after(b) = b.addr + b.mlength
  BY DEF Whole, MemBlocks, after
<1>2. after(b) - b.mlength = b.addr
  BY <1>1
<1> QED
  BY <1>1, <1>2, BlockAgain

(* What getmem leaves of the list is all but the block it returns.         *)
LEMMA LowTaken ==
  ASSUME NEW list, IsFreeList(list), NEW k \in 1 .. Len(list),
         NEW n \in Nat, n % 8 = 0, n > 0, n <= list[k].mlength
  PROVE  LET t == Block(list[k].addr, n)
         IN  /\ IsFreeList(without_low(list, k, n)) /\ Whole(t) /\ bytes(t) \subseteq FreeOf(list)
             /\ FreeOf(without_low(list, k, n)) = FreeOf(list) \ bytes(t)
<1> DEFINE b == list[k]
           t == Block(b.addr, n)
           x == Block(b.addr + n, b.mlength - n)
<1>1. Whole(b)
  BY DEF IsFreeList
<1>2. b.mlength \in Nat
  BY <1>1, WholeBytes
<1>3. bytes(b) \subseteq FreeOf(list)
  BY FreeAt
<1>4. CASE b.mlength = n
  <2>1. t = b
    BY <1>1, <1>4, SplitNone
  <2>2. without_low(list, k, n) = RemoveAt(list, k)
    BY <1>4 DEF without_low
  <2>3. IsFreeList(RemoveAt(list, k)) /\ FreeOf(RemoveAt(list, k)) = FreeOf(list) \ bytes(b)
    BY Unlinked
  <2> QED
    BY <2>1, <2>2, <2>3, <1>1, <1>3
<1>5. CASE b.mlength # n
  <2>1. /\ Whole(t) /\ Whole(x) /\ b.addr <= x.addr /\ after(x) <= after(b)
        /\ bytes(t) \subseteq bytes(b) /\ bytes(x) = bytes(b) \ bytes(t)
    <3>1. n < b.mlength
      BY <1>2, <1>5
    <3> QED
      BY <3>1, <1>1, SplitLow
  <2>2. without_low(list, k, n) = [list EXCEPT ![k] = x]
    BY <1>5 DEF without_low
  <2>3. /\ IsFreeList([list EXCEPT ![k] = x])
        /\ FreeOf([list EXCEPT ![k] = x]) = (FreeOf(list) \ bytes(b)) \cup bytes(x)
    BY <2>1, Shortened
  <2> QED
    BY <2>1, <2>2, <2>3, <1>3
<1> QED
  BY <1>4, <1>5

(* So is what getstk leaves.                                               *)
LEMMA TopTaken ==
  ASSUME NEW list, IsFreeList(list), NEW k \in 1 .. Len(list),
         NEW n \in Nat, n % 8 = 0, n > 0, n <= list[k].mlength
  PROVE  LET t == Block(after(list[k]) - n, n)
         IN  /\ IsFreeList(without_top(list, k, n)) /\ Whole(t) /\ bytes(t) \subseteq FreeOf(list)
             /\ FreeOf(without_top(list, k, n)) = FreeOf(list) \ bytes(t)
<1> DEFINE b == list[k]
           t == Block(after(b) - n, n)
           x == Block(b.addr, b.mlength - n)
<1>1. Whole(b)
  BY DEF IsFreeList
<1>2. b.mlength \in Nat
  BY <1>1, WholeBytes
<1>3. bytes(b) \subseteq FreeOf(list)
  BY FreeAt
<1>4. CASE b.mlength = n
  <2>1. t = b
    BY <1>1, <1>4, SplitNone
  <2>2. without_top(list, k, n) = RemoveAt(list, k)
    BY <1>4 DEF without_top
  <2>3. IsFreeList(RemoveAt(list, k)) /\ FreeOf(RemoveAt(list, k)) = FreeOf(list) \ bytes(b)
    BY Unlinked
  <2> QED
    BY <2>1, <2>2, <2>3, <1>1, <1>3
<1>5. CASE b.mlength # n
  <2>1. /\ Whole(t) /\ Whole(x) /\ b.addr <= x.addr /\ after(x) <= after(b)
        /\ bytes(t) \subseteq bytes(b) /\ bytes(x) = bytes(b) \ bytes(t)
    <3>1. n < b.mlength
      BY <1>2, <1>5
    <3> QED
      BY <3>1, <1>1, SplitTop
  <2>2. without_top(list, k, n) = [list EXCEPT ![k] = x]
    BY <1>5 DEF without_top
  <2>3. /\ IsFreeList([list EXCEPT ![k] = x])
        /\ FreeOf([list EXCEPT ![k] = x]) = (FreeOf(list) \ bytes(b)) \cup bytes(x)
    BY <2>1, Shortened
  <2> QED
    BY <2>1, <2>2, <2>3, <1>3
<1> QED
  BY <1>4, <1>5

(* getmem's block and getstk's are blocks that fit.                        *)
LEMMA FirstAndLastFit ==
  ASSUME NEW list, IsFreeList(list), NEW n, fitting(list, n) # {}
  PROVE  Min(fitting(list, n)) \in fitting(list, n) /\ Max(fitting(list, n)) \in fitting(list, n)
<1> DEFINE S == fitting(list, n)
<1>1. Len(list) \in Nat /\ S \subseteq 1 .. Len(list)
  BY FreeAt DEF fitting
<1>2. S \in SUBSET Nat
  BY <1>1
<1>3. Min(S) \in S
  BY <1>2, MinOfNaturals
<1>4. Max(S) \in S
  <2> DEFINE D == {Len(list) - k : k \in S}
  <2>1. D \in SUBSET Nat /\ D # {}
    BY <1>1
  <2>2. PICK d \in D : \A e \in D : d <= e
    BY <2>1, LeastOfNaturals
  <2>3. PICK k \in S : d = Len(list) - k
    BY <2>2
  <2>4. \A j \in S : k >= j
    <3>1. ASSUME NEW j \in S
          PROVE  k >= j
      <4>1. d <= Len(list) - j
        BY <2>2
      <4> QED
        BY <4>1, <2>3, <1>1
    <3> QED
      BY <3>1
  <2> QED
    BY <2>4 DEF Max
<1> QED
  BY <1>3, <1>4

(* The blocks before an address are the first of the list.                 *)
LEMMA BeforeAddress ==
  ASSUME NEW list, IsFreeList(list), NEW a \in Nat
  PROVE  /\ before(list, a) \in 0 .. Len(list)
         /\ \A i \in 1 .. before(list, a) : list[i].addr < a
         /\ \A i \in before(list, a) + 1 .. Len(list) : a <= list[i].addr
<1>0. PICK N : N = Len(list) /\ N \in Nat /\ DOMAIN list = 1 .. N
  BY FreeAt
<1> DEFINE S == {m \in 0 .. N : m = N \/ a <= list[m + 1].addr}
           L == {k \in DOMAIN list : list[k].addr < a}
<1>1. N \in Nat
  BY <1>0
<1>2. \A i \in 1 .. N : list[i].addr \in Nat
  BY <1>0, WholeBytes DEF IsFreeList
<1>3. PICK m \in S : \A l \in S : m <= l
  <2>1. S \in SUBSET Nat /\ N \in S
    BY <1>1
  <2> QED
    BY <2>1, LeastOfNaturals
<1>4. m \in 0 .. N /\ (m = N \/ a <= list[m + 1].addr)
  OBVIOUS
<1>s. \A l \in 0 .. N : l \notin S => l # N /\ ~(a <= list[l + 1].addr)
  OBVIOUS
<1> HIDE DEF S
<1>5. \A i \in 1 .. m : list[i].addr < a
  <2>1. ASSUME NEW i \in 1 .. m
        PROVE  list[i].addr < a
    <3>1. i - 1 \in 0 .. N /\ ~(m <= i - 1) /\ i - 1 # N /\ i - 1 + 1 = i /\ i \in 1 .. N
      BY <1>1, <1>4
    <3>2. i - 1 \notin S
      BY <3>1, <1>3
    <3>3. ~(a <= list[i - 1 + 1].addr)
      BY <3>1, <3>2, <1>s
    <3> QED
      BY <3>1, <3>3, <1>2
  <2> QED
    BY <2>1
<1>6. \A i \in m + 1 .. N : a <= list[i].addr
  <2>1. ASSUME NEW i \in m + 1 .. N
        PROVE  a <= list[i].addr
    <3>1. m # N /\ m + 1 \in 1 .. N /\ i \in 1 .. N /\ (m + 1 = i \/ m + 1 < i)
      BY <1>1, <1>4
    <3>2. a <= list[m + 1].addr
      BY <3>1, <1>4
    <3>3. CASE m + 1 < i
      <4>1. after(list[m + 1]) < list[i].addr
        BY <3>1, <3>3, <1>0 DEF IsFreeList
      <4>2. Whole(list[m + 1])
        BY <3>1, <1>0 DEF IsFreeList
      <4>3. list[m + 1].addr < after(list[m + 1]) /\ list[m + 1].addr \in Nat /\ after(list[m + 1]) \in Nat
        BY <4>2, WholeBytes
      <4>4. list[i].addr \in Nat
        BY <3>1, <1>2
      <4> QED
        BY <3>2, <4>1, <4>3, <4>4
    <3> QED
      BY <3>1, <3>2, <3>3
  <2> QED
    BY <2>1
<1>7. L = 1 .. m
  <2>1. ASSUME NEW i \in 1 .. N
        PROVE  list[i].addr < a <=> i \in 1 .. m
    <3>1. list[i].addr \in Nat
      BY <1>2
    <3>2. i \in 1 .. m \/ i \in m + 1 .. N
      BY <1>1, <1>4
    <3>3. i \in m + 1 .. N => a <= list[i].addr /\ i \notin 1 .. m
      BY <1>1, <1>4, <1>6
    <3> QED
      BY <3>1, <3>2, <3>3, <1>5
  <2>2. 1 .. m \subseteq 1 .. N
    BY <1>1, <1>4
  <2> QED
    BY <2>1, <2>2, <1>0
<1>8. Cardinality(1 .. m) = m
  BY <1>1, <1>4, FS_Interval
<1>9. before(list, a) = m
  BY <1>7, <1>8 DEF before
<1> QED
  BY <1>0, <1>4, <1>5, <1>6, <1>9

(* What does not reach 2^32 is not changed by arithmetic modulo 2^32.      *)
LEMMA EndsBelow ==
  /\ \A a \in Nat : a < AddressSpace => a % AddressSpace = a
  /\ \A b : after(b) \in Nat /\ after(b) < AddressSpace => top(b) = after(b)
<1>1. AddressSpace \in Nat
  BY MemoryAssumption
<1>2. \A a \in Nat : a < AddressSpace => a % AddressSpace = a
  BY <1>1
<1> QED
  BY <1>2 DEF top

(* freemem refuses just the blocks some byte of which is free; others lie  *)
(* between the blocks that are before and those that are not.              *)
LEMMA RefusesFree ==
  ASSUME NEW list, IsFreeList(list), NEW b, Whole(b), after(b) < AddressSpace
  PROVE  /\ overlaps(list, b) <=> bytes(b) \cap FreeOf(list) # {}
         /\ ~overlaps(list, b) =>
              /\ \A i \in 1 .. before(list, b.addr) : after(list[i]) <= b.addr
              /\ \A i \in before(list, b.addr) + 1 .. Len(list) : after(b) <= list[i].addr
<1> DEFINE m == before(list, b.addr)
<1>1. /\ b.addr \in Nat /\ after(b) \in Nat /\ b.addr < after(b)
      /\ b.addr \in bytes(b)
  BY WholeBytes
<1>2. Len(list) \in Nat
  BY FreeAt
<1>3. /\ m \in 0 .. Len(list)
      /\ \A i \in 1 .. m : list[i].addr < b.addr
      /\ \A i \in m + 1 .. Len(list) : b.addr <= list[i].addr
  BY <1>1, BeforeAddress
<1>4. \A i \in 1 .. Len(list) : Whole(list[i])
  BY DEF IsFreeList
<1>5. overlaps(list, b) <=> \/ m > 0 /\ b.addr < after(list[m])
                            \/ m < Len(list) /\ after(b) > list[m + 1].addr
  <2>1. top(b) = after(b)
    BY <1>1, EndsBelow
  <2> QED
    BY <2>1 DEF overlaps
<1> HIDE DEF m
<1>6. ASSUME overlaps(list, b)
      PROVE  bytes(b) \cap FreeOf(list) # {}
  <2>1. CASE m > 0 /\ b.addr < after(list[m])
    <3>1. m \in 1 .. m /\ m \in 1 .. Len(list)
      BY <2>1, <1>2, <1>3
    <3>2. list[m].addr < b.addr /\ Whole(list[m])
      BY <3>1, <1>3, <1>4
    <3>3. b.addr \in bytes(list[m])
      BY <2>1, <3>2, <1>1, WholeBytes
    <3>4. b.addr \in FreeOf(list)
      BY <3>1, <3>3, FreeAt
    <3> QED
      BY <3>4, <1>1
  <2>2. CASE m < Len(list) /\ after(b) > list[m + 1].addr
    <3>1. m + 1 \in m + 1 .. Len(list) /\ m + 1 \in 1 .. Len(list)
      BY <2>2, <1>2, <1>3
    <3>2. b.addr <= list[m + 1].addr /\ Whole(list[m + 1])
      BY <3>1, <1>3, <1>4
    <3>3. list[m + 1].addr \in bytes(list[m + 1]) /\ list[m + 1].addr \in Nat
      BY <3>2, WholeBytes
    <3>4. list[m + 1].addr \in bytes(b)
      BY <2>2, <3>2, <3>3, <1>1, WholeBytes
    <3>5. list[m + 1].addr \in FreeOf(list)
      BY <3>1, <3>3, FreeAt
    <3> QED
      BY <3>4, <3>5
  <2> QED
    BY <2>1, <2>2, <1>5, <1>6
<1>7. ASSUME ~overlaps(list, b), NEW i \in 1 .. m
      PROVE  after(list[i]) <= b.addr
  <2>1. m > 0 /\ i \in 1 .. Len(list) /\ m \in 1 .. Len(list) /\ (i = m \/ i < m)
    BY <1>2, <1>3
  <2>2. after(list[m]) \in Nat /\ after(list[i]) \in Nat /\ list[m].addr \in Nat /\ list[m].addr < after(list[m])
    BY <2>1, <1>4, WholeBytes
  <2>3. after(list[m]) <= b.addr
    BY <2>1, <2>2, <1>1, <1>5, <1>7
  <2>4. i < m => after(list[i]) < list[m].addr
    BY <2>1 DEF IsFreeList
  <2> QED
    BY <2>1, <2>2, <2>3, <2>4, <1>1
<1>8. ASSUME ~overlaps(list, b), NEW i \in m + 1 .. Len(list)
      PROVE  after(b) <= list[i].addr
  <2>1. m < Len(list) /\ i \in 1 .. Len(list) /\ m + 1 \in 1 .. Len(list) /\ (i = m + 1 \/ m + 1 < i)
    BY <1>2, <1>3
  <2>2. /\ after(list[m + 1]) \in Nat /\ list[i].addr \in Nat /\ list[m + 1].addr \in Nat
        /\ list[m + 1].addr < after(list[m + 1])
    BY <2>1, <1>4, WholeBytes
  <2>3. after(b) <= list[m + 1].addr
    BY <2>1, <2>2, <1>1, <1>5, <1>8
  <2>4. m + 1 < i => after(list[m + 1]) < list[i].addr
    BY <2>1 DEF IsFreeList
  <2> QED
    BY <2>1, <2>2, <2>3, <2>4, <1>1
<1>9. ASSUME ~overlaps(list, b)
      PROVE  bytes(b) \cap FreeOf(list) = {}
  <2>1. ASSUME NEW i \in 1 .. Len(list)
        PROVE  bytes(b) \cap bytes(list[i]) = {}
    <3>1. i \in 1 .. m \/ i \in m + 1 .. Len(list)
      BY <1>2, <1>3
    <3>2. after(list[i]) <= b.addr \/ after(b) <= list[i].addr
      BY <3>1, <1>7, <1>8, <1>9
    <3> QED
      BY <3>2, <1>4, BlocksApart
  <2> QED
    BY <2>1, FreeAt
<1> QED
  BY <1>6, <1>7, <1>8, <1>9 DEF m

(* What freemem makes of the list when it does not refuse.                 *)
LEMMA LinkedIn ==
  ASSUME NEW list, IsFreeList(list), NEW b, Whole(b), bytes(b) \cap FreeOf(list) = {},
         after(b) < AddressSpace, \A y \in FreeOf(list) : y + 1 < AddressSpace
  PROVE  IsFreeList(linked(list, b)) /\ FreeOf(linked(list, b)) = FreeOf(list) \cup bytes(b)
<1>0. PICK N : N = Len(list) /\ N \in Nat
  BY FreeAt
<1>1. PICK m : m = before(list, b.addr)
  OBVIOUS
<1>2. /\ b.addr \in Nat /\ b.mlength \in Nat /\ after(b) \in Nat /\ after(b) = b.addr + b.mlength
      /\ b.addr < after(b) /\ b.addr % 8 = 0 /\ b.mlength % 8 = 0
  BY WholeBytes DEF Whole
<1>3. /\ m \in 0 .. N
      /\ \A i \in 1 .. m : list[i].addr < b.addr
      /\ \A i \in m + 1 .. N : b.addr <= list[i].addr
  BY <1>0, <1>1, <1>2, BeforeAddress
<1>4. /\ \A i \in 1 .. m : after(list[i]) <= b.addr
      /\ \A i \in m + 1 .. N : after(b) <= list[i].addr
  <2>1. ~overlaps(list, b)
    BY RefusesFree
  <2> QED
    BY <2>1, <1>0, <1>1, RefusesFree
<1>5. \A i \in 1 .. N : /\ Whole(list[i]) /\ list[i].addr \in Nat /\ list[i].mlength \in Nat
                        /\ after(list[i]) \in Nat /\ after(list[i]) = list[i].addr + list[i].mlength
                        /\ list[i].addr < after(list[i])
                        /\ list[i].addr % 8 = 0 /\ list[i].mlength % 8 = 0
  <2>1. \A i \in 1 .. N : Whole(list[i])
    BY <1>0 DEF IsFreeList
  <2> QED
    BY <2>1, WholeBytes DEF Whole
<1>6. \A i, j \in 1 .. N : i < j => after(list[i]) < list[j].addr
  BY <1>0 DEF IsFreeList
<1>8. PICK p, q, start, end :
        /\ p = (IF m > 0 /\ after(list[m]) = b.addr THEN m - 1 ELSE m)
        /\ q = (IF m < N /\ after(b) = list[m + 1].addr THEN m + 2 ELSE m + 1)
        /\ start = (IF m > 0 /\ after(list[m]) = b.addr THEN list[m].addr ELSE b.addr)
        /\ end = (IF m < N /\ after(b) = list[m + 1].addr THEN after(list[m + 1]) ELSE after(b))
  OBVIOUS
<1>m. m \in Nat /\ m <= N /\ N \in Nat
  BY <1>0, <1>3
<1>l. /\ p # m => m > 0 /\ p = m - 1 /\ start = list[m].addr /\ after(list[m]) = b.addr
      /\ p = m => start = b.addr /\ (m = 0 \/ after(list[m]) # b.addr)
  <2>1. CASE m > 0 /\ after(list[m]) = b.addr
    <3>1. p = m - 1 /\ start = list[m].addr
      BY <2>1, <1>8
    <3>2. p # m
      BY <3>1, <1>m
    <3> QED
      BY <2>1, <3>1, <3>2
  <2>2. CASE ~(m > 0 /\ after(list[m]) = b.addr)
    <3>1. p = m /\ start = b.addr
      BY <2>2, <1>8
    <3>2. ~(m > 0) => m = 0
      BY <1>m
    <3> QED
      BY <2>2, <3>1, <3>2
  <2> QED
    BY <2>1, <2>2
<1>h. /\ q # m + 1 => m < N /\ q = m + 2 /\ end = after(list[m + 1]) /\ after(b) = list[m + 1].addr
      /\ q = m + 1 => end = after(b) /\ (m = N \/ after(b) # list[m + 1].addr)
  <2>1. CASE m < N /\ after(b) = list[m + 1].addr
    <3>1. q = m + 2 /\ end = after(list[m + 1])
      BY <2>1, <1>8
    <3>2. q # m + 1
      BY <3>1, <1>m
    <3> QED
      BY <2>1, <3>1, <3>2
  <2>2. CASE ~(m < N /\ after(b) = list[m + 1].addr)
    <3>1. q = m + 1 /\ end = after(b)
      BY <2>2, <1>8
    <3>2. ~(m < N) => m = N
      BY <1>m
    <3> QED
      BY <2>2, <3>1, <3>2
  <2> QED
    BY <2>1, <2>2
<1>9. PICK x : x = Block(start, end - start)
  OBVIOUS
<1>11. p \in 0 .. N /\ q \in p + 1 .. N + 1 /\ p \in Nat /\ q \in Nat
  <2>1. m \in Nat /\ m <= N /\ N \in Nat
    BY <1>0, <1>3
  <2>2. p # m => m > 0 /\ p = m - 1
    BY <1>l
  <2>3. q # m + 1 => m < N /\ q = m + 2
    BY <1>h
  <2>4. p \in 0 .. m
    BY <2>1, <2>2
  <2>5. q \in m + 1 .. N + 1
    BY <2>1, <2>3
  <2> QED
    BY <2>1, <2>4, <2>5
<1>12. p # m => m \in 1 .. N /\ m \in 1 .. m
  BY <1>0, <1>3, <1>l
<1>13. q # m + 1 => m + 1 \in 1 .. N /\ m + 1 \in m + 1 .. N
  BY <1>0, <1>3, <1>h
<1>14. /\ start \in Nat /\ start <= b.addr /\ start % 8 = 0
       /\ (p # m => after(list[m]) = b.addr) /\ (p = m => start = b.addr)
  BY <1>2, <1>3, <1>5, <1>l, <1>12
<1>15. end \in Nat /\ after(b) <= end /\ end % 8 = 0
       /\ (q # m + 1 => after(b) = list[m + 1].addr) /\ (q = m + 1 => end = after(b))
  <2>1. CASE q # m + 1
    <3>1. end = after(list[m + 1]) /\ after(b) = list[m + 1].addr
      BY <2>1, <1>h
    <3>2. PICK a, l : a = list[m + 1].addr /\ l = list[m + 1].mlength
      OBVIOUS
    <3>3. a \in Int /\ l \in Nat /\ l \in Int /\ a % 8 = 0 /\ l % 8 = 0 /\ after(list[m + 1]) = a + l
      BY <2>1, <3>2, <1>5, <1>13
    <3>4. (a + l) % 8 = 0
      BY <3>3, EightsAdd, Zenon
    <3>5. end = a + l /\ after(b) = a
      BY <3>1, <3>2, <3>3
    <3>6. end % 8 = 0
      BY <3>4, <3>5, Zenon
    <3>7. end \in Nat /\ after(b) <= end
      BY <3>3, <3>5, <1>2
    <3> QED
      BY <2>1, <3>1, <3>6, <3>7
  <2>2. CASE q = m + 1
    <3>1. b.addr \in Int /\ b.mlength \in Int /\ b.addr % 8 = 0 /\ b.mlength % 8 = 0
      BY <1>2
    <3>2. (b.addr + b.mlength) % 8 = 0
      BY <3>1, EightsAdd, Zenon
    <3>3. end = after(b) /\ end = b.addr + b.mlength
      BY <2>2, <1>2, <1>h
    <3>4. end % 8 = 0
      BY <3>2, <3>3, Zenon
    <3> QED
      BY <2>2, <3>3, <3>4, <1>2
  <2> QED
    BY <2>1, <2>2
<1>16. start < end /\ end - start \in Nat /\ end - start > 0 /\ start + (end - start) = end
  BY <1>2, <1>14, <1>15
<1>10. linked(list, b) = splice(list, x, p, q)
  <2>1. top(b) = after(b)
    BY <1>2, EndsBelow
  <2>2. end < AddressSpace
    <3>1. CASE q = m + 1
      BY <3>1, <1>15
    <3>2. CASE q # m + 1
      <4>1. m + 1 \in 1 .. N /\ end = after(list[m + 1])
        BY <3>2, <1>h, <1>13
      <4>2. list[m + 1].addr \in Nat /\ end \in Nat /\ list[m + 1].addr < end
        BY <4>1, <1>5
      <4>3. end - 1 \in bytes(list[m + 1])
        BY <4>1, <4>2 DEF bytes
      <4>4. end - 1 \in FreeOf(list)
        BY <4>1, <4>3, <1>0, FreeAt
      <4>5. (end - 1) + 1 < AddressSpace
        BY <4>4
      <4> QED
        BY <4>2, <4>5
    <3> QED
      BY <3>1, <3>2
  <2>3. (end - start) % AddressSpace = end - start
    <3>1. AddressSpace \in Nat
      BY MemoryAssumption
    <3>2. end - start \in Nat /\ end - start < AddressSpace
      BY <1>14, <1>15, <1>16, <2>2, <3>1
    <3> QED
      BY <3>2, EndsBelow
  <2> QED
    BY <1>0, <1>1, <1>8, <1>9, <2>1, <2>3 DEF linked, splice
<1>17. Whole(x) /\ x.addr = start /\ after(x) = end
  <2>1. start \in Int /\ end \in Int /\ start % 8 = 0 /\ end % 8 = 0
    BY <1>14, <1>15
  <2>2. (end - start) % 8 = 0
    BY <2>1, EightsAdd, Zenon
  <2>3. Whole(Block(start, end - start))
    BY <2>2, <1>14, <1>16, BlockWhole
  <2>4. x.addr = start /\ after(x) = start + (end - start)
    BY <1>9, BlockFields
  <2> QED
    BY <2>3, <2>4, <1>9, <1>16
<1>18. ASSUME NEW i \in 1 .. p
       PROVE  after(list[i]) < x.addr /\ i \in 1 .. m
  <2>1. i \in 1 .. N /\ i \in 1 .. m /\ (p # m => i < m) /\ m \in Nat
    BY <1>0, <1>3, <1>l, <1>11
  <2>2. CASE p # m
    <3>1. after(list[i]) < list[m].addr
      BY <2>1, <2>2, <1>6, <1>12
    <3> QED
      BY <2>1, <2>2, <3>1, <1>l, <1>h, <1>17
  <2>3. CASE p = m
    <3>1. after(list[i]) <= b.addr /\ start = b.addr
      BY <2>1, <2>3, <1>4, <1>14
    <3>2. after(list[i]) # b.addr
      <4>1. CASE i = m
        BY <2>1, <2>3, <4>1, <1>l
      <4>2. CASE i # m
        <5>1. i < m /\ m \in 1 .. N /\ m \in 1 .. m
          BY <2>1, <4>2, <1>0, <1>3
        <5>2. after(list[i]) < list[m].addr /\ list[m].addr < b.addr
          BY <2>1, <5>1, <1>3, <1>6
        <5>3. after(list[i]) \in Nat /\ list[m].addr \in Nat
          BY <2>1, <5>1, <1>5
        <5> QED
          BY <5>2, <5>3, <1>2
      <4> QED
        BY <4>1, <4>2
    <3>3. after(list[i]) \in Nat
      BY <2>1, <1>5
    <3> QED
      BY <2>1, <3>1, <3>2, <3>3, <1>2, <1>17
  <2> QED
    BY <2>2, <2>3
<1>19. ASSUME NEW i \in q .. N
       PROVE  after(x) < list[i].addr /\ i \in m + 1 .. N
  <2>1. i \in 1 .. N /\ i \in m + 1 .. N /\ (q # m + 1 => m + 1 < i) /\ m \in Nat /\ i \in Nat
    BY <1>0, <1>3, <1>h, <1>11
  <2>2. CASE q # m + 1
    <3>1. after(list[m + 1]) < list[i].addr
      BY <2>1, <2>2, <1>6, <1>13
    <3> QED
      BY <2>1, <2>2, <3>1, <1>l, <1>h, <1>17
  <2>3. CASE q = m + 1
    <3>1. after(b) <= list[i].addr /\ end = after(b)
      BY <2>1, <2>3, <1>4, <1>15
    <3>2. after(b) # list[i].addr
      <4>1. CASE i = m + 1
        <5>1. m < N /\ m # N
          BY <2>1, <4>1, <1>m
        <5> QED
          BY <2>3, <4>1, <5>1, <1>h
      <4>2. CASE i # m + 1
        <5>1. m + 1 < i /\ m + 1 \in 1 .. N /\ m + 1 \in m + 1 .. N
          BY <2>1, <4>2, <1>0
        <5>2. after(b) <= list[m + 1].addr /\ after(list[m + 1]) < list[i].addr
          BY <2>1, <5>1, <1>4, <1>6
        <5>3. list[m + 1].addr \in Nat /\ after(list[m + 1]) \in Nat /\ list[m + 1].addr < after(list[m + 1])
          BY <5>1, <1>5
        <5>4. list[i].addr \in Nat
          BY <2>1, <1>5
        <5> QED
          BY <5>2, <5>3, <5>4, <1>2
      <4> QED
        BY <4>1, <4>2
    <3>3. list[i].addr \in Nat
      BY <2>1, <1>5
    <3> QED
      BY <2>1, <3>1, <3>2, <3>3, <1>2, <1>17
  <2> QED
    BY <2>2, <2>3
<1>20. /\ IsFreeList(linked(list, b))
       /\ \A y : y \in FreeOf(linked(list, b)) <=> \/ y \in bytes(x)
                                                   \/ \E i \in 1 .. p : y \in bytes(list[i])
                                                   \/ \E i \in q .. N : y \in bytes(list[i])
  <2>1. /\ p \in 0 .. Len(list) /\ q \in p + 1 .. Len(list) + 1
        /\ \A i \in 1 .. p : after(list[i]) < x.addr
        /\ \A i \in q .. Len(list) : after(x) < list[i].addr
    BY <1>0, <1>11, <1>18, <1>19
  <2>2. PICK new : new = linked(list, b)
    OBVIOUS
  <2>3. /\ IsFreeList(new)
        /\ FreeOf(new) = bytes(x) \cup UNION {bytes(list[i]) : i \in (1 .. p) \cup (q .. Len(list))}
    BY <2>1, <2>2, <1>10, <1>17, Spliced
  <2>4. FreeOf(new) = bytes(x) \cup UNION {bytes(list[i]) : i \in (1 .. p) \cup (q .. N)}
    BY <2>3, <1>0
  <2>5. \A y : y \in FreeOf(new) <=> \/ y \in bytes(x)
                                     \/ \E i \in 1 .. p : y \in bytes(list[i])
                                     \/ \E i \in q .. N : y \in bytes(list[i])
    <3> DEFINE I == 1 .. p
               J == q .. N
               f(i) == bytes(list[i])
               B == bytes(x)
    <3>1. FreeOf(new) = B \cup UNION {f(i) : i \in I \cup J}
      BY <2>4
    <3> HIDE DEF I, J, f, B
    <3>2. \A y : y \in FreeOf(new) <=> \/ y \in B
                                       \/ \E i \in I : y \in f(i)
                                       \/ \E i \in J : y \in f(i)
      BY <3>1, Zenon
    <3> QED
      BY <3>2 DEF I, J, f, B
  <2> QED
    BY <2>2, <2>3, <2>5
<1>21. \A y : y \in bytes(x) <=> \/ y \in bytes(b)
                                 \/ p # m /\ y \in bytes(list[m])
                                 \/ q # m + 1 /\ y \in bytes(list[m + 1])
  <2>1. \A y : y \in bytes(x) <=> y \in Int /\ start <= y /\ y < end
    BY <1>17, WholeBytes
  <2>2. \A y : y \in bytes(b) <=> y \in Int /\ b.addr <= y /\ y < after(b)
    BY WholeBytes
  <2>3. p # m => \A y : y \in bytes(list[m]) <=> y \in Int /\ start <= y /\ y < b.addr
    BY <1>5, <1>l, <1>12, <1>14, WholeBytes
  <2>4. q # m + 1 => \A y : y \in bytes(list[m + 1]) <=> y \in Int /\ after(b) <= y /\ y < end
    BY <1>5, <1>h, <1>13, <1>15, WholeBytes
  <2> QED
    <3>1. ASSUME NEW y
          PROVE  y \in bytes(x) <=> \/ y \in bytes(b)
                                    \/ p # m /\ y \in bytes(list[m])
                                    \/ q # m + 1 /\ y \in bytes(list[m + 1])
      <4>1. CASE y \in Int
        <5>1. y \in bytes(x) <=> start <= y /\ y < end
          BY <2>1, <4>1
        <5>2. y \in bytes(b) <=> b.addr <= y /\ y < after(b)
          BY <2>2, <4>1
        <5>3. p # m /\ y \in bytes(list[m]) <=> start <= y /\ y < b.addr
          <6>1. CASE p # m
            BY <6>1, <2>3, <4>1
          <6>2. CASE p = m
            BY <6>2, <4>1, <1>2, <1>14
          <6> QED
            BY <6>1, <6>2
        <5>4. q # m + 1 /\ y \in bytes(list[m + 1]) <=> after(b) <= y /\ y < end
          <6>1. CASE q # m + 1
            BY <6>1, <2>4, <4>1
          <6>2. CASE q = m + 1
            BY <6>2, <4>1, <1>2, <1>15
          <6> QED
            BY <6>1, <6>2
        <5>5. /\ start \in Int /\ end \in Int /\ b.addr \in Int /\ after(b) \in Int
              /\ start <= b.addr /\ b.addr < after(b) /\ after(b) <= end
          BY <1>2, <1>14, <1>15
        <5>6. start <= y /\ y < end <=> \/ b.addr <= y /\ y < after(b)
                                        \/ start <= y /\ y < b.addr
                                        \/ after(b) <= y /\ y < end
          BY <5>5, <4>1
        <5> QED
          BY <5>1, <5>2, <5>3, <5>4, <5>6
      <4>2. CASE y \notin Int
        BY <2>1, <2>2, <2>3, <2>4, <4>2
      <4> QED
        BY <4>1, <4>2
    <3> QED
      BY <3>1
<1>22. \A y : y \in FreeOf(list) <=> \E i \in 1 .. N : y \in bytes(list[i])
  BY <1>0, FreeAt
<1>23. \A i \in 1 .. N : i \in 1 .. p \/ i \in q .. N \/ (p # m /\ i = m) \/ (q # m + 1 /\ i = m + 1)
  <2>1. ASSUME NEW i \in 1 .. N
        PROVE  i \in 1 .. p \/ i \in q .. N \/ (p # m /\ i = m) \/ (q # m + 1 /\ i = m + 1)
    <3>1. m \in Nat /\ m <= N
      BY <1>0, <1>3
    <3>2. CASE i <= m
      <4>1. p # m => i \in 1 .. p \/ i = m
        BY <3>1, <3>2, <1>0, <1>l
      <4>2. p = m => i \in 1 .. p
        BY <3>1, <3>2, <1>0, <1>l
      <4> QED
        BY <4>1, <4>2
    <3>3. CASE i > m
      <4>1. q # m + 1 => i \in q .. N \/ i = m + 1
        BY <3>1, <3>3, <1>0, <1>h
      <4>2. q = m + 1 => i \in q .. N
        BY <3>1, <3>3, <1>0, <1>h
      <4> QED
        BY <4>1, <4>2
    <3> QED
      BY <3>1, <3>2, <3>3, <1>0
  <2> QED
    BY <2>1
<1>24. (\A i \in 1 .. p : i \in 1 .. N) /\ (\A i \in q .. N : i \in 1 .. N)
  BY <1>0, <1>11
<1>25. \A y : y \in FreeOf(linked(list, b)) <=> y \in FreeOf(list) \cup bytes(b)
  BY <1>12, <1>13, <1>20, <1>21, <1>22, <1>23, <1>24, Zenon
<1> QED
  BY <1>20, <1>25
-----------------------------------------------------------------------------
(***************************************************************************)
(* The heap is whole: the bytes of the free blocks and of the requests in  *)
(* use, each with what roundmb adds to it, are those meminit put there,    *)
(* and no byte is counted twice.                                           *)
(***************************************************************************)

(* What may have been asked for.                                           *)
IsRequest(b) == b \in MemBlocks /\ b.addr % 8 = 0 /\ b.mlength \in 1 .. AddressSpace - 8

granted(b) == Block(b.addr, roundmb(b.mlength))
covers(b) == bytes(granted(b))

MemSound(m) ==
  /\ m = [memlist |-> m.memlist, inuse |-> m.inuse]
  /\ IsFreeList(m.memlist)
  /\ IsFiniteSet(m.inuse)
  /\ \A b \in m.inuse : IsRequest(b)
  /\ \A b, c \in m.inuse : b # c => covers(b) \cap covers(c) = {}
  /\ \A b \in m.inuse : covers(b) \cap FreeOf(m.memlist) = {}
  /\ Heap = FreeOf(m.memlist) \cup UNION {covers(b) : b \in m.inuse}

(* The inductive invariant.                                                *)
MemIInv == MemSound(mem)

(* The block a request is given.                                           *)
LEMMA GrantedWhole ==
  ASSUME NEW b, IsRequest(b)
  PROVE  Whole(granted(b)) /\ granted(b).addr = b.addr /\ b.addr \in covers(b) /\ b.addr \in Nat
<1>1. b.addr \in Nat /\ b.addr % 8 = 0 /\ b.mlength \in 1 .. AddressSpace - 8
  BY DEF IsRequest, MemBlocks
<1>2. roundmb(b.mlength) \in Nat /\ roundmb(b.mlength) % 8 = 0 /\ roundmb(b.mlength) > 0
  BY <1>1, RoundedUp
<1>3. Whole(granted(b))
  BY <1>1, <1>2, BlockWhole DEF granted
<1>4. granted(b).addr = b.addr
  BY BlockFields DEF granted
<1> QED
  BY <1>1, <1>3, <1>4, WholeBytes DEF covers

(* The heap ends before 2^32, and so does what lies in it.                 *)
LEMMA HeapBelow ==
  /\ \A y \in Heap : y + 1 < AddressSpace
  /\ \A b : Whole(b) /\ bytes(b) \subseteq Heap => after(b) < AddressSpace
<1>1. ASSUME NEW y \in Heap PROVE y + 1 < AddressSpace
  <2>1. PICK c \in ToSet(HeapBlocks) : y \in bytes(c)
    BY DEF Heap
  <2>2. c.addr \in Nat /\ c.mlength \in Nat /\ after(c) < AddressSpace
    <3>1. HeapBlocks \in Seq([addr : Nat, mlength : Nat])
      BY MemoryAssumption
    <3>2. \A i \in DOMAIN HeapBlocks : HeapBlocks[i] \in [addr : Nat, mlength : Nat]
      BY <3>1, LenProperties, ElementOfSeq
    <3>3. c \in [addr : Nat, mlength : Nat]
      BY <3>2 DEF ToSet
    <3> QED
      BY <3>3, MemoryAssumption
  <2>3. AddressSpace \in Nat
    BY MemoryAssumption
  <2> QED
    BY <2>1, <2>2, <2>3 DEF bytes, after
<1>2. ASSUME NEW b, Whole(b), bytes(b) \subseteq Heap PROVE after(b) < AddressSpace
  <2>1. b.addr \in Nat /\ after(b) \in Nat /\ b.addr < after(b)
    BY <1>2, WholeBytes
  <2>2. after(b) - 1 \in bytes(b)
    BY <2>1 DEF bytes
  <2>3. (after(b) - 1) + 1 < AddressSpace
    BY <2>2, <1>1, <1>2
  <2> QED
    BY <2>1, <2>3
<1> QED
  BY <1>1, <1>2

(* Free bytes are granted.                                                 *)
LEMMA MemTaken ==
  ASSUME NEW m, MemSound(m), NEW b, IsRequest(b), covers(b) \subseteq FreeOf(m.memlist),
         NEW list, IsFreeList(list), FreeOf(list) = FreeOf(m.memlist) \ covers(b)
  PROVE  MemSound([memlist |-> list, inuse |-> m.inuse \cup {b}]) /\ b \notin m.inuse
<1>1. PICK n : n = [memlist |-> list, inuse |-> m.inuse \cup {b}]
  OBVIOUS
<1>2. n.memlist = list /\ n.inuse = m.inuse \cup {b} /\ n = [memlist |-> n.memlist, inuse |-> n.inuse]
  BY <1>1
<1>3. /\ IsFiniteSet(m.inuse) /\ \A c \in m.inuse : IsRequest(c)
      /\ \A c, d \in m.inuse : c # d => covers(c) \cap covers(d) = {}
      /\ \A c \in m.inuse : covers(c) \cap FreeOf(m.memlist) = {}
      /\ Heap = FreeOf(m.memlist) \cup UNION {covers(c) : c \in m.inuse}
  BY DEF MemSound
<1>4. IsFiniteSet(n.inuse)
  BY <1>2, <1>3, FS_AddElement
<1>5. \A c \in m.inuse : covers(c) \cap covers(b) = {}
  BY <1>3
<1>6. \A c, d \in n.inuse : c # d => covers(c) \cap covers(d) = {}
  BY <1>2, <1>3, <1>5
<1>7. \A c \in n.inuse : covers(c) \cap FreeOf(n.memlist) = {}
  BY <1>2, <1>3
<1>8. Heap = FreeOf(n.memlist) \cup UNION {covers(c) : c \in n.inuse}
  <2>1. UNION {covers(c) : c \in n.inuse} = (UNION {covers(c) : c \in m.inuse}) \cup covers(b)
    BY <1>2
  <2> QED
    BY <2>1, <1>2, <1>3
<1>9. b \notin m.inuse
  <2>1. b.addr \in covers(b)
    BY GrantedWhole
  <2> QED
    BY <2>1, <1>3
<1>10. MemSound(n)
  BY <1>2, <1>3, <1>4, <1>6, <1>7, <1>8 DEF MemSound
<1> QED
  BY <1>1, <1>9, <1>10

(* What was granted is given back.                                         *)
LEMMA MemReturned ==
  ASSUME NEW m, MemSound(m), NEW b \in m.inuse,
         NEW list, IsFreeList(list), FreeOf(list) = FreeOf(m.memlist) \cup covers(b)
  PROVE  MemSound([memlist |-> list, inuse |-> m.inuse \ {b}])
<1>1. PICK n : n = [memlist |-> list, inuse |-> m.inuse \ {b}]
  OBVIOUS
<1>2. n.memlist = list /\ n.inuse = m.inuse \ {b} /\ n = [memlist |-> n.memlist, inuse |-> n.inuse]
  BY <1>1
<1>3. /\ IsFiniteSet(m.inuse) /\ \A c \in m.inuse : IsRequest(c)
      /\ \A c, d \in m.inuse : c # d => covers(c) \cap covers(d) = {}
      /\ \A c \in m.inuse : covers(c) \cap FreeOf(m.memlist) = {}
      /\ Heap = FreeOf(m.memlist) \cup UNION {covers(c) : c \in m.inuse}
  BY DEF MemSound
<1>4. IsFiniteSet(n.inuse)
  BY <1>2, <1>3, FS_RemoveElement
<1>5. \A c \in n.inuse : covers(c) \cap FreeOf(n.memlist) = {}
  BY <1>2, <1>3
<1>6. Heap = FreeOf(n.memlist) \cup UNION {covers(c) : c \in n.inuse}
  <2>1. UNION {covers(c) : c \in m.inuse} = (UNION {covers(c) : c \in n.inuse}) \cup covers(b)
    BY <1>2
  <2> QED
    BY <2>1, <1>2, <1>3
<1>7. MemSound(n)
  BY <1>2, <1>3, <1>4, <1>5, <1>6 DEF MemSound
<1> QED
  BY <1>1, <1>7

(* The list is another with the same bytes.                                *)
LEMMA MemSame ==
  ASSUME NEW m, MemSound(m), NEW list, IsFreeList(list), FreeOf(list) = FreeOf(m.memlist)
  PROVE  MemSound([memlist |-> list, inuse |-> m.inuse])
<1>1. PICK n : n = [memlist |-> list, inuse |-> m.inuse]
  OBVIOUS
<1>2. n.memlist = list /\ n.inuse = m.inuse /\ n = [memlist |-> n.memlist, inuse |-> n.inuse]
  BY <1>1
<1>3. MemSound(n)
  BY <1>2 DEF MemSound
<1> QED
  BY <1>1, <1>3

(* freemem of memory that is not free.                                     *)
LEMMA FreedJoins ==
  ASSUME NEW list, IsFreeList(list), NEW b, IsRequest(b), covers(b) \cap FreeOf(list) = {},
         covers(b) \subseteq Heap, FreeOf(list) \subseteq Heap
  PROVE  /\ IsFreeList(freed(list, b.addr, b.mlength))
         /\ FreeOf(freed(list, b.addr, b.mlength)) = FreeOf(list) \cup covers(b)
<1>1. Whole(granted(b))
  BY GrantedWhole
<1>2. bytes(granted(b)) \cap FreeOf(list) = {}
  BY DEF covers
<1>below. after(granted(b)) < AddressSpace /\ \A y \in FreeOf(list) : y + 1 < AddressSpace
  BY <1>1, HeapBelow DEF covers
<1>3. ~overlaps(list, granted(b))
  BY <1>1, <1>2, <1>below, RefusesFree
<1>4. b.mlength # 0
  BY DEF IsRequest
<1>5. freed(list, b.addr, b.mlength) = linked(list, granted(b))
  BY <1>3, <1>4 DEF freed, granted
<1> QED
  BY <1>1, <1>2, <1>5, <1>below, LinkedIn DEF covers

(* freemem of memory some byte of which is free.                           *)
LEMMA FreedRefuses ==
  ASSUME NEW list, IsFreeList(list), NEW b, IsRequest(b), covers(b) \cap FreeOf(list) # {},
         after(granted(b)) < AddressSpace
  PROVE  freed(list, b.addr, b.mlength) = list
<1>1. Whole(granted(b))
  BY GrantedWhole
<1>2. overlaps(list, granted(b))
  BY <1>1, RefusesFree DEF covers
<1> QED
  BY <1>2 DEF freed, granted

(* getmem's request, and what is left.                                     *)
LEMMA GetsLow ==
  ASSUME NEW list, IsFreeList(list), NEW nbytes \in 1 .. AddressSpace - 8, NEW n, n = roundmb(nbytes),
         fitting(list, n) # {}, NEW k, k = Min(fitting(list, n)),
         NEW b, b = Block(list[k].addr, nbytes)
  PROVE  /\ IsRequest(b) /\ covers(b) \subseteq FreeOf(list)
         /\ IsFreeList(without_low(list, k, n))
         /\ FreeOf(without_low(list, k, n)) = FreeOf(list) \ covers(b)
<1>1. n \in Nat /\ n % 8 = 0 /\ n > 0
  BY RoundedUp
<1>2. k \in 1 .. Len(list) /\ n <= list[k].mlength
  <2>1. k \in fitting(list, n)
    BY FirstAndLastFit
  <2>2. k \in 1 .. Len(list) /\ list[k].mlength >= n
    BY <2>1, FreeAt DEF fitting
  <2>3. list[k].mlength \in Nat
    BY <2>2 DEF IsFreeList, Whole, MemBlocks
  <2> QED
    BY <2>2, <2>3, <1>1
<1>3. list[k].addr \in Nat /\ list[k].addr % 8 = 0
  BY <1>2 DEF IsFreeList, Whole, MemBlocks
<1>4. b.addr = list[k].addr /\ b.mlength = nbytes
  BY BlockFields
<1>5. IsRequest(b)
  <2>1. b \in MemBlocks
    BY <1>3 DEF Block, MemBlocks
  <2> QED
    BY <2>1, <1>3, <1>4 DEF IsRequest
<1>6. granted(b) = Block(list[k].addr, n)
  BY <1>4 DEF granted
<1> QED
  BY <1>1, <1>2, <1>5, <1>6, LowTaken DEF covers

(* getstk's request, and what is left.                                     *)
LEMMA GetsTop ==
  ASSUME NEW list, IsFreeList(list), NEW nbytes \in 1 .. AddressSpace - 8, NEW n, n = roundmb(nbytes),
         fitting(list, n) # {}, NEW k, k = Max(fitting(list, n)),
         NEW b, b = Block(after(list[k]) - n, nbytes)
  PROVE  /\ IsRequest(b) /\ covers(b) \subseteq FreeOf(list)
         /\ IsFreeList(without_top(list, k, n))
         /\ FreeOf(without_top(list, k, n)) = FreeOf(list) \ covers(b)
<1>1. n \in Nat /\ n % 8 = 0 /\ n > 0
  BY RoundedUp
<1>2. k \in 1 .. Len(list) /\ n <= list[k].mlength
  <2>1. k \in fitting(list, n)
    BY FirstAndLastFit
  <2>2. k \in 1 .. Len(list) /\ list[k].mlength >= n
    BY <2>1, FreeAt DEF fitting
  <2>3. list[k].mlength \in Nat
    BY <2>2 DEF IsFreeList, Whole, MemBlocks
  <2> QED
    BY <2>2, <2>3, <1>1
<1>3. /\ IsFreeList(without_top(list, k, n)) /\ Whole(Block(after(list[k]) - n, n))
      /\ bytes(Block(after(list[k]) - n, n)) \subseteq FreeOf(list)
      /\ FreeOf(without_top(list, k, n)) = FreeOf(list) \ bytes(Block(after(list[k]) - n, n))
  BY <1>1, <1>2, TopTaken
<1>4. after(list[k]) - n \in Nat /\ (after(list[k]) - n) % 8 = 0
  BY <1>3 DEF Whole, MemBlocks, Block
<1>5. b.addr = after(list[k]) - n /\ b.mlength = nbytes
  BY BlockFields
<1>6. IsRequest(b)
  <2>1. b \in MemBlocks
    BY <1>4 DEF Block, MemBlocks
  <2> QED
    BY <2>1, <1>4, <1>5 DEF IsRequest
<1>7. granted(b) = Block(after(list[k]) - n, n)
  BY <1>5 DEF granted
<1> QED
  BY <1>3, <1>6, <1>7 DEF covers

(* The heap as meminit leaves it.                                          *)
LEMMA MemInitSound == MemInit => MemIInv
<1> SUFFICES ASSUME MemInit PROVE MemSound(mem)
  BY DEF MemIInv
<1>1. mem = [memlist |-> HeapBlocks, inuse |-> {}] /\ mem.memlist = HeapBlocks /\ mem.inuse = {}
  BY DEF MemInit
<1>2. HeapBlocks \in Seq(MemBlocks)
  BY MemoryAssumption DEF MemBlocks
<1>3. DOMAIN HeapBlocks = 1 .. Len(HeapBlocks) /\ \A k \in 1 .. Len(HeapBlocks) : HeapBlocks[k] \in MemBlocks
  BY <1>2, LenProperties, ElementOfSeq
<1>4. \A k \in 1 .. Len(HeapBlocks) : Whole(HeapBlocks[k])
  <2>1. \A k \in 1 .. Len(HeapBlocks) : HeapBlocks[k] \in ToSet(HeapBlocks)
    BY <1>3 DEF ToSet
  <2> QED
    BY <2>1, <1>3, MemoryAssumption DEF Whole
<1>5. IsFreeList(HeapBlocks)
  BY <1>2, <1>3, <1>4, MemoryAssumption DEF IsFreeList
<1>6. Heap = FreeOf(HeapBlocks)
  BY DEF Heap, FreeOf
<1>7. IsFiniteSet({})
  BY FS_EmptySet
<1> QED
  BY <1>1, <1>5, <1>6, <1>7 DEF MemSound

(* getmem, getstk and freemem keep it.                                     *)
LEMMA GetmemSound ==
  ASSUME MemIInv, ~WrapSizes, NEW nbytes \in Sizes, getmem(nbytes) \/ getstk(nbytes)
  PROVE  MemIInv' /\ mem.inuse \subseteq mem'.inuse
<1>1. nbytes \in 1 .. AddressSpace - 8 /\ IsFreeList(mem.memlist) /\ MemSound(mem)
  <2>1. nbytes # 0
    BY DEF getmem, getstk
  <2> QED
    BY <2>1, MemoryAssumption DEF MemIInv, MemSound, Sizes
<1>2. PICK n : n = roundmb(nbytes)
  OBVIOUS
<1>3. fitting(mem.memlist, n) # {}
  BY <1>2 DEF getmem, getstk
<1>4. CASE getmem(nbytes)
  <2>1. PICK k, b : k = Min(fitting(mem.memlist, n)) /\ b = Block(mem.memlist[k].addr, nbytes)
    OBVIOUS
  <2>2. mem' = [memlist |-> without_low(mem.memlist, k, n), inuse |-> mem.inuse \cup {b}]
    BY <2>1, <1>2, <1>4 DEF getmem
  <2>3. /\ IsRequest(b) /\ covers(b) \subseteq FreeOf(mem.memlist)
        /\ IsFreeList(without_low(mem.memlist, k, n))
        /\ FreeOf(without_low(mem.memlist, k, n)) = FreeOf(mem.memlist) \ covers(b)
    BY <2>1, <1>1, <1>2, <1>3, GetsLow
  <2>4. MemSound(mem')
    BY <2>2, <2>3, <1>1, MemTaken
  <2> QED
    BY <2>2, <2>4 DEF MemIInv
<1>5. CASE getstk(nbytes)
  <2>1. PICK k, b : k = Max(fitting(mem.memlist, n)) /\ b = Block(after(mem.memlist[k]) - n, nbytes)
    OBVIOUS
  <2>2. mem' = [memlist |-> without_top(mem.memlist, k, n), inuse |-> mem.inuse \cup {b}]
    BY <2>1, <1>2, <1>5 DEF getstk
  <2>3. /\ IsRequest(b) /\ covers(b) \subseteq FreeOf(mem.memlist)
        /\ IsFreeList(without_top(mem.memlist, k, n))
        /\ FreeOf(without_top(mem.memlist, k, n)) = FreeOf(mem.memlist) \ covers(b)
    BY <2>1, <1>1, <1>2, <1>3, GetsTop
  <2>4. MemSound(mem')
    BY <2>2, <2>3, <1>1, MemTaken
  <2> QED
    BY <2>2, <2>4 DEF MemIInv
<1> QED
  BY <1>4, <1>5

(* freemem keeps the heap whole, and frees nothing but b.                  *)
LEMMA FreememSound ==
  ASSUME MemIInv, ~WrapSizes, NEW b \in Freeable, freemem(b)
  PROVE  MemIInv' /\ mem.inuse \ {b} \subseteq mem'.inuse
<1>1. IsFreeList(mem.memlist) /\ MemSound(mem) /\ mem = [memlist |-> mem.memlist, inuse |-> mem.inuse]
  BY DEF MemIInv, MemSound
<1>2. mem' = [memlist |-> freed(mem.memlist, b.addr, b.mlength), inuse |-> mem.inuse \ {b}]
  BY DEF freemem
<1>3. CASE b \in mem.inuse
  <2>1. /\ IsRequest(b) /\ covers(b) \cap FreeOf(mem.memlist) = {}
        /\ covers(b) \subseteq Heap /\ FreeOf(mem.memlist) \subseteq Heap
    BY <1>1, <1>3 DEF MemSound
  <2>2. /\ IsFreeList(freed(mem.memlist, b.addr, b.mlength))
        /\ FreeOf(freed(mem.memlist, b.addr, b.mlength)) = FreeOf(mem.memlist) \cup covers(b)
    BY <2>1, <1>1, FreedJoins
  <2>3. MemSound(mem')
    BY <2>2, <1>1, <1>2, <1>3, MemReturned
  <2> QED
    BY <2>3, <1>2 DEF MemIInv
<1>4. CASE b \notin mem.inuse
  <2>1. PICK a \in HeapUnits, n \in Sizes \ {0} : b = Block(a, n)
    BY <1>4 DEF Freeable
  <2>2. bytes(granted(b)) \cap FreeOf(mem.memlist) # {} /\ after(granted(b)) < AddressSpace
    BY <1>4 DEF Freeable, FreeBytes, FreeOf, granted
  <2>3. a \in Nat /\ a % 8 = 0
    <3>1. a \in Heap /\ a % 8 = 0
      BY DEF HeapUnits
    <3>2. PICK c \in ToSet(HeapBlocks) : a \in bytes(c)
      BY <3>1 DEF Heap
    <3>3. c.addr \in Nat
      <4>1. HeapBlocks \in Seq([addr : Nat, mlength : Nat])
        BY MemoryAssumption
      <4>2. \A i \in DOMAIN HeapBlocks : HeapBlocks[i] \in [addr : Nat, mlength : Nat]
        BY <4>1, LenProperties, ElementOfSeq
      <4> QED
        BY <3>2, <4>2 DEF ToSet
    <3> QED
      BY <3>1, <3>2, <3>3 DEF bytes
  <2>4. n \in 1 .. AddressSpace - 8
    BY MemoryAssumption DEF Sizes
  <2>5. IsRequest(b)
    BY <2>1, <2>3, <2>4 DEF IsRequest, Block, MemBlocks
  <2>6. freed(mem.memlist, b.addr, b.mlength) = mem.memlist
    BY <2>2, <2>5, <1>1, FreedRefuses DEF covers
  <2>7. mem' = mem
    BY <2>6, <1>1, <1>2, <1>4
  <2> QED
    BY <2>7, <1>1 DEF MemIInv
<1> QED
  BY <1>3, <1>4

(* A block of a heap that is whole, free or granted: what it is, and that  *)
(* no two of them have a byte in common.                                   *)
LEMMA OwnedBlocks ==
  ASSUME MemIInv
  PROVE  LET G == {granted(b) : b \in mem.inuse}
             L == ToSet(mem.memlist)
         IN  /\ \A b \in G \cup L : Whole(b) /\ bytes(b) \subseteq Heap
             /\ \A b, c \in G \cup L : b # c => bytes(b) \cap bytes(c) = {}
             /\ G \cap L = {}
             /\ Heap = UNION {bytes(b) : b \in G \cup L}
<1> DEFINE G == {granted(b) : b \in mem.inuse}
           L == ToSet(mem.memlist)
<1>1. /\ IsFreeList(mem.memlist) /\ \A b \in mem.inuse : IsRequest(b)
      /\ \A b, c \in mem.inuse : b # c => covers(b) \cap covers(c) = {}
      /\ \A b \in mem.inuse : covers(b) \cap FreeOf(mem.memlist) = {}
      /\ Heap = FreeOf(mem.memlist) \cup UNION {covers(b) : b \in mem.inuse}
  BY DEF MemIInv, MemSound
<1>2. \A b \in L : \E k \in 1 .. Len(mem.memlist) : b = mem.memlist[k]
  BY <1>1, FreeAt DEF ToSet
<1>3. \A b \in G \cup L : Whole(b)
  <2>1. \A b \in L : Whole(b)
    BY <1>1, <1>2 DEF IsFreeList
  <2>2. \A b \in G : Whole(b)
    BY <1>1, GrantedWhole
  <2> QED
    BY <2>1, <2>2
<1>4. \A b \in G \cup L : b.addr \in bytes(b)
  BY <1>3, WholeBytes
<1>5. \A b \in L : bytes(b) \subseteq FreeOf(mem.memlist)
  BY DEF FreeOf
<1>6. ASSUME NEW b \in L, NEW c \in L, b # c
      PROVE  bytes(b) \cap bytes(c) = {}
  <2>1. PICK i \in 1 .. Len(mem.memlist), j \in 1 .. Len(mem.memlist) : b = mem.memlist[i] /\ c = mem.memlist[j]
    BY <1>2
  <2>2. i # j
    BY <2>1, <1>6
  <2> QED
    BY <2>1, <2>2, <1>1, FreeApart
<1>7. ASSUME NEW b \in G, NEW c \in G, b # c
      PROVE  bytes(b) \cap bytes(c) = {}
  <2>1. PICK d \in mem.inuse, e \in mem.inuse : b = granted(d) /\ c = granted(e)
    OBVIOUS
  <2>2. d # e
    BY <2>1, <1>7
  <2> QED
    BY <2>1, <2>2, <1>1 DEF covers
<1>8. \A b \in G, c \in L : bytes(b) \cap bytes(c) = {} /\ bytes(c) \cap bytes(b) = {}
  BY <1>1, <1>5 DEF covers
<1>9. G \cap L = {}
  BY <1>4, <1>8
<1>10. Heap = UNION {bytes(b) : b \in G \cup L}
  <2>1. FreeOf(mem.memlist) = UNION {bytes(b) : b \in L}
    BY DEF FreeOf
  <2>2. UNION {covers(b) : b \in mem.inuse} = UNION {bytes(b) : b \in G}
    BY DEF covers
  <2> QED
    BY <2>1, <2>2, <1>1
<1>11. \A b \in G \cup L : bytes(b) \subseteq Heap
  BY <1>10
<1>12. \A b, c \in G \cup L : b # c => bytes(b) \cap bytes(c) = {}
  BY <1>6, <1>7, <1>8
<1> QED
  BY <1>3, <1>9, <1>10, <1>11, <1>12

(* As many blocks are granted as requests are in use.                      *)
LEMMA GrantedCount ==
  ASSUME MemIInv
  PROVE  LET G == {granted(b) : b \in mem.inuse}
         IN  IsFiniteSet(G) /\ Cardinality(G) = Cardinality(mem.inuse)
<1> DEFINE G == {granted(b) : b \in mem.inuse}
           f == [b \in mem.inuse |-> granted(b)]
<1>1. /\ IsFiniteSet(mem.inuse) /\ \A b \in mem.inuse : IsRequest(b)
      /\ \A b, c \in mem.inuse : b # c => covers(b) \cap covers(c) = {}
  BY DEF MemIInv, MemSound
<1>2. \A b, c \in mem.inuse : b # c => granted(b) # granted(c)
  <2>1. \A b \in mem.inuse : b.addr \in covers(b)
    BY <1>1, GrantedWhole
  <2> QED
    BY <2>1, <1>1 DEF covers
<1>3. f \in Bijection(mem.inuse, G)
  BY <1>2 DEF Bijection, Injection, Surjection, IsInjective
<1> QED
  BY <1>1, <1>3, FS_Bijection DEF ExistsBijection

(* The invariant says that the heap is whole.                              *)
LEMMA WholeHeap ==
  ASSUME MemIInv
  PROVE  HeapIsWhole
<1>1. PICK G, L : G = {granted(b) : b \in mem.inuse} /\ L = ToSet(mem.memlist)
  OBVIOUS
<1>2. /\ \A b \in G \cup L : Whole(b) /\ bytes(b) \subseteq Heap
      /\ \A b, c \in G \cup L : b # c => bytes(b) \cap bytes(c) = {}
      /\ G \cap L = {}
      /\ Heap = UNION {bytes(b) : b \in G \cup L}
  BY <1>1, OwnedBlocks
<1>3. IsFiniteSet(G) /\ Cardinality(G) = Cardinality(mem.inuse)
  BY <1>1, GrantedCount
<1>4. IsFreeList(mem.memlist)
  BY DEF MemIInv, MemSound
<1>5. IsFiniteSet(L) /\ Cardinality(L) = Len(mem.memlist)
  <2>1. mem.memlist \in Seq(MemBlocks)
    BY <1>4 DEF IsFreeList
  <2>2. IsInjective(mem.memlist)
    BY <1>4, FreeApart, FreeAt DEF IsInjective
  <2> QED
    BY <2>1, <2>2, <1>1, QueuedCardinality
<1>6. Cardinality(G \cup L) = Cardinality(G) + Len(mem.memlist)
  <2>1. Cardinality(G \cup L) = Cardinality(G) + Cardinality(L) - Cardinality(G \cap L)
    BY <1>3, <1>5, FS_Union
  <2>2. Cardinality(G \cap L) = 0
    BY <1>2, FS_EmptySet
  <2>3. Cardinality(G) \in Nat /\ Len(mem.memlist) \in Nat
    BY <1>3, <1>4, FreeAt, FS_CardinalityType
  <2> QED
    BY <2>1, <2>2, <2>3, <1>5
<1>7. ASSUME NEW b \in G \cup L
      PROVE  b.mlength % 8 = 0 /\ b.addr \in HeapUnits /\ after(b) - 8 \in HeapUnits
  <2>1. /\ b.addr \in Nat /\ b.mlength \in Nat /\ b.addr % 8 = 0 /\ b.mlength % 8 = 0 /\ b.mlength > 0
        /\ after(b) = b.addr + b.mlength
    BY <1>2, WholeBytes DEF Whole
  <2>2. b.addr \in bytes(b) /\ bytes(b) \subseteq Heap
    BY <1>2, WholeBytes
  <2>3. b.addr \in HeapUnits
    BY <2>1, <2>2 DEF HeapUnits
  <2>4. PICK a, l, t : a = b.addr /\ l = b.mlength /\ t = (a + l) - 8
    OBVIOUS
  <2>5. a \in Nat /\ l \in Nat /\ a % 8 = 0 /\ l % 8 = 0 /\ l > 0
    BY <2>1, <2>4
  <2>6. l >= 8
    BY <2>5
  <2>7. (a + l) % 8 = 0 /\ 8 % 8 = 0 /\ a + l \in Int
    <3>1. a \in Int /\ l \in Int
      BY <2>5
    <3> QED
      BY <3>1, <2>5, EightsAdd
  <2>8. t % 8 = 0
    BY <2>4, <2>7, EightsAdd
  <2>9. t \in Int /\ a <= t /\ t < a + l
    BY <2>4, <2>5, <2>6
  <2>10. t \in bytes(b) /\ t = after(b) - 8
    <3>1. t = after(b) - 8 /\ after(b) = a + l /\ b.addr = a
      BY <2>1, <2>4
    <3>2. Whole(b)
      BY <1>2
    <3> QED
      BY <3>1, <3>2, <2>9, WholeBytes
  <2>11. t \in HeapUnits
    BY <2>2, <2>8, <2>10 DEF HeapUnits
  <2> QED
    BY <2>1, <2>3, <2>10, <2>11
<1>8. \A a \in HeapUnits : \E b \in G \cup L : a \in bytes(b)
  BY <1>2 DEF HeapUnits
<1>9. \A b, c \in G \cup L : b = c \/ after(b) <= c.addr \/ after(c) <= b.addr
  BY <1>2, BlocksApart
<1>10. \A k \in 1 .. Len(mem.memlist) - 1 : after(mem.memlist[k]) < mem.memlist[k + 1].addr
  <2>1. Len(mem.memlist) \in Nat
    BY <1>4, FreeAt
  <2>2. ASSUME NEW k \in 1 .. Len(mem.memlist) - 1
        PROVE  after(mem.memlist[k]) < mem.memlist[k + 1].addr
    <3>1. k \in 1 .. Len(mem.memlist) /\ k + 1 \in 1 .. Len(mem.memlist) /\ k < k + 1
      BY <2>1
    <3> QED
      BY <3>1, <1>4 DEF IsFreeList
  <2> QED
    BY <2>2
<1>11. {Block(b.addr, roundmb(b.mlength)) : b \in mem.inuse} = G
  BY <1>1 DEF granted
<1> QED
  BY <1>1, <1>3, <1>6, <1>7, <1>8, <1>9, <1>10, <1>11 DEF HeapIsWhole

(* Every unit of the heap is free or in one granted request, never both    *)
(* and never in two, and what is free and lies together is one block, for  *)
(* heaps of every layout and all sequences of requests and releases, also  *)
(* of what was released before, as long as no size is rounded up to 2^32   *)
(* and no released block ends there (~WrapSizes).                          *)
THEOREM MemSpecHeapIsWhole ==
  ASSUME ~WrapSizes
  PROVE  MemSpec => []HeapIsWhole
<1>1. MemInit => MemIInv
  BY MemInitSound
<1>2. MemIInv /\ [MemNext]_mem => MemIInv'
  <2> SUFFICES ASSUME MemIInv, [MemNext]_mem PROVE MemIInv'
    OBVIOUS
  <2>1. CASE UNCHANGED mem
    BY <2>1 DEF MemIInv
  <2>2. ASSUME NEW n \in Sizes, getmem(n) \/ getstk(n)
        PROVE  MemIInv'
    BY <2>2, GetmemSound
  <2>3. ASSUME NEW b \in Freeable, freemem(b)
        PROVE  MemIInv'
    BY <2>3, FreememSound
  <2> QED
    BY <2>1, <2>2, <2>3 DEF MemNext
<1>3. MemIInv => HeapIsWhole
  BY WholeHeap
<1> QED
  BY <1>1, <1>2, <1>3, PTL DEF MemSpec

-----------------------------------------------------------------------------
(***************************************************************************)
(* Buffer pools: who is where in getbuf, and who has which buffer.         *)
(***************************************************************************)

PoolCalls   == [at : {"idle", "wait", "unlink"}, id : Nat]
HeldBuffers == [buf : Nat, id : Nat]
PoolEntries == [bpsize : Nat, bpsem : SemEntries(PoolUsers), list : Seq(Nat), memory : MemBlocks]

PoolRecords == [buftab : Seq(PoolEntries), sems : Nat,
                call : [PoolUsers -> PoolCalls], held : [PoolUsers -> SUBSET HeldBuffers]]

(* Those that wait for a buffer of pool i, those that signal let through,  *)
(* and the buffers of it that processes have.                              *)
queued_at(P, i)   == {p \in PoolUsers : P.call[p].at = "wait" /\ P.call[p].id = i}
promised_at(P, i) == {p \in PoolUsers : P.call[p].at = "unlink" /\ P.call[p].id = i}
held_of(P, i)     == {b \in UNION {P.held[p] : p \in PoolUsers} : b.id = i}
taken(P, i)       == {b.buf : b \in held_of(P, i)}

(* What names a pool names one that was made, and a buffer has one holder. *)
PoolTyped(P) ==
  /\ P \in PoolRecords
  /\ \A p \in PoolUsers : P.call[p].at # "idle" => P.call[p].id \in DOMAIN P.buftab
  /\ \A p \in PoolUsers : \A b \in P.held[p] : b.id \in DOMAIN P.buftab
  /\ \A p, q \in PoolUsers : p # q => P.held[p] \cap P.held[q] = {}

(* The addresses of n buffers of w bytes, one after the other.             *)
cells(a, n, w) == {a + k * w : k \in 0 .. n - 1}

(* The buffers divide the memory of their pool.                            *)
Divides(B, e) ==
  \E n \in Nat \ {0} : /\ e.memory.mlength = n * (e.bpsize + IdBytes)
                       /\ B = cells(e.memory.addr, n, e.bpsize + IdBytes)

PoolSound(P, i) ==
  /\ IsSem(P.buftab[i].bpsem, PoolUsers)
  /\ ToSet(P.buftab[i].bpsem.squeue) = queued_at(P, i)
  /\ IsInjective(P.buftab[i].list)
  /\ ToSet(P.buftab[i].list) \cap taken(P, i) = {}
  /\ Divides(ToSet(P.buftab[i].list) \cup taken(P, i), P.buftab[i])
  /\ Len(P.buftab[i].list) = counted(P.buftab[i].bpsem) + Cardinality(promised_at(P, i))

PoolState(P) == PoolTyped(P) /\ \A i \in DOMAIN P.buftab : PoolSound(P, i)

MemoryOf(P) == {P.buftab[i].memory : i \in DOMAIN P.buftab}

(* The inductive invariant.                                                *)
PoolIInv == MemSound(mem) /\ PoolState(pool) /\ MemoryOf(pool) \subseteq mem.inuse

(* What is typed, of an entry and of a process.                            *)
LEMMA PoolFields ==
  ASSUME NEW P, PoolTyped(P)
  PROVE  /\ P = [buftab |-> P.buftab, sems |-> P.sems, call |-> P.call, held |-> P.held]
         /\ P.buftab \in Seq(PoolEntries) /\ DOMAIN P.buftab = 1 .. Len(P.buftab) /\ Len(P.buftab) \in Nat
         /\ P.sems \in Nat /\ P.call \in [PoolUsers -> PoolCalls] /\ P.held \in [PoolUsers -> SUBSET HeldBuffers]
         /\ \A i \in DOMAIN P.buftab : P.buftab[i] \in PoolEntries /\ i \in Nat
BY DEF PoolTyped, PoolRecords

(* A process has one point in getbuf.                                      *)
CallBegun(P, Q, p, i) ==
  /\ queued_at(Q, i) = queued_at(P, i) \cup {p} /\ p \notin queued_at(P, i)
  /\ \A j : j # i => queued_at(Q, j) = queued_at(P, j)
  /\ \A j : promised_at(Q, j) = promised_at(P, j)

LEMMA CallWaits ==
  ASSUME NEW P, NEW Q, NEW p \in PoolUsers, NEW i,
         P.call \in [PoolUsers -> PoolCalls], P.call[p].at = "idle",
         Q.call = [P.call EXCEPT ![p] = [at |-> "wait", id |-> i]]
  PROVE  CallBegun(P, Q, p, i)
BY DEF CallBegun, queued_at, promised_at

CallEnded(P, Q, p) ==
  \A j : /\ queued_at(Q, j) = queued_at(P, j) \ {p}
         /\ promised_at(Q, j) = promised_at(P, j) \ {p}
         /\ p \notin queued_at(P, j) => queued_at(Q, j) = queued_at(P, j)
         /\ p \notin promised_at(P, j) => promised_at(Q, j) = promised_at(P, j)

(* A process leaves getbuf.                                                *)
LEMMA CallEnds ==
  ASSUME NEW P, NEW Q, NEW p \in PoolUsers,
         P.call \in [PoolUsers -> PoolCalls], Q.call = [P.call EXCEPT ![p] = NoPoolCall]
  PROVE  CallEnded(P, Q, p)
<1> SUFFICES ASSUME NEW j
             PROVE  /\ queued_at(Q, j) = queued_at(P, j) \ {p}
                    /\ promised_at(Q, j) = promised_at(P, j) \ {p}
  <2>1. \A S : p \notin S => S \ {p} = S
    OBVIOUS
  <2> QED
    BY <2>1 DEF CallEnded
<1> QED
  BY DEF queued_at, promised_at, NoPoolCall

(* A pool that is left alone.                                              *)
LEMMA OtherPool ==
  ASSUME NEW P, NEW Q, NEW j, PoolSound(P, j), Q.buftab[j] = P.buftab[j],
         queued_at(Q, j) = queued_at(P, j), promised_at(Q, j) = promised_at(P, j), taken(Q, j) = taken(P, j)
  PROVE  PoolSound(Q, j)
BY DEF PoolSound

(* A buffer is taken.                                                      *)
BufferJoins(P, Q, i, x) ==
  /\ taken(Q, i) = taken(P, i) \cup {x}
  /\ \A j : j # i => taken(Q, j) = taken(P, j)
  /\ \A r, q \in PoolUsers : r # q => Q.held[r] \cap Q.held[q] = {}

(* A process has one buffer more.                                          *)
LEMMA HeldJoins ==
  ASSUME NEW P, NEW Q, NEW p \in PoolUsers, NEW x, NEW i, PoolTyped(P), x \notin taken(P, i),
         Q.held = [P.held EXCEPT ![p] = @ \cup {[buf |-> x, id |-> i]}]
  PROVE  BufferJoins(P, Q, i, x)
<1>1. PICK b : b = [buf |-> x, id |-> i]
  OBVIOUS
<1>2. b.buf = x /\ b.id = i
  BY <1>1
<1>3. /\ P.held \in [PoolUsers -> SUBSET HeldBuffers] /\ Q.held[p] = P.held[p] \cup {b}
      /\ \A q \in PoolUsers : q # p => Q.held[q] = P.held[q]
  BY <1>1 DEF PoolTyped, PoolRecords
<1>4. UNION {Q.held[q] : q \in PoolUsers} = (UNION {P.held[q] : q \in PoolUsers}) \cup {b}
  BY <1>3
<1>5. held_of(Q, i) = held_of(P, i) \cup {b}
  BY <1>2, <1>4 DEF held_of
<1>6. \A j : j # i => held_of(Q, j) = held_of(P, j)
  BY <1>2, <1>4 DEF held_of
<1>7. taken(Q, i) = taken(P, i) \cup {x}
  BY <1>2, <1>5 DEF taken
<1>8. \A j : j # i => taken(Q, j) = taken(P, j)
  BY <1>6 DEF taken
<1>9. \A q \in PoolUsers : b \notin P.held[q]
  <2> SUFFICES ASSUME NEW q \in PoolUsers, b \in P.held[q] PROVE FALSE
    OBVIOUS
  <2>1. b \in held_of(P, i)
    BY <1>2 DEF held_of
  <2> QED
    BY <1>2, <2>1 DEF taken
<1>10. \A r, q \in PoolUsers : r # q => P.held[r] \cap P.held[q] = {}
  BY DEF PoolTyped
<1>11. \A r, q \in PoolUsers : r # q => Q.held[r] \cap Q.held[q] = {}
  BY <1>3, <1>9, <1>10
<1> QED
  BY <1>7, <1>8, <1>11 DEF BufferJoins

(* A buffer is given back.                                                 *)
BufferLeaves(P, Q, b) ==
  /\ b.buf \in taken(P, b.id) /\ taken(Q, b.id) = taken(P, b.id) \ {b.buf}
  /\ \A j : j # b.id => taken(Q, j) = taken(P, j)
  /\ \A r, q \in PoolUsers : r # q => Q.held[r] \cap Q.held[q] = {}

LEMMA HeldLeaves ==
  ASSUME NEW P, NEW Q, NEW p \in PoolUsers, PoolTyped(P), NEW b \in P.held[p],
         Q.held = [P.held EXCEPT ![p] = @ \ {b}]
  PROVE  BufferLeaves(P, Q, b)
<1>1. /\ P.held \in [PoolUsers -> SUBSET HeldBuffers] /\ Q.held[p] = P.held[p] \ {b}
      /\ \A q \in PoolUsers : q # p => Q.held[q] = P.held[q]
  BY DEF PoolTyped, PoolRecords
<1>2. \A r, q \in PoolUsers : r # q => P.held[r] \cap P.held[q] = {}
  BY DEF PoolTyped
<1>3. \A q \in PoolUsers : q # p => b \notin P.held[q]
  BY <1>2
<1>4. UNION {Q.held[q] : q \in PoolUsers} = (UNION {P.held[q] : q \in PoolUsers}) \ {b}
  BY <1>1, <1>3
<1>5. b \in held_of(P, b.id) /\ held_of(Q, b.id) = held_of(P, b.id) \ {b}
  BY <1>4 DEF held_of
<1>6. \A j : j # b.id => held_of(Q, j) = held_of(P, j)
  BY <1>4 DEF held_of
<1>7. \A c \in held_of(P, b.id) : c.buf = b.buf => c = b
  <2> SUFFICES ASSUME NEW c \in held_of(P, b.id), c.buf = b.buf PROVE c = b
    OBVIOUS
  <2>1. c \in HeldBuffers /\ b \in HeldBuffers /\ c.id = b.id
    BY <1>1 DEF held_of
  <2> QED
    BY <2>1 DEF HeldBuffers
<1>8. taken(Q, b.id) = taken(P, b.id) \ {b.buf}
  BY <1>5, <1>7 DEF taken
<1>9. \A j : j # b.id => taken(Q, j) = taken(P, j)
  BY <1>6 DEF taken
<1>10. \A r, q \in PoolUsers : r # q => Q.held[r] \cap Q.held[q] = {}
  BY <1>1, <1>2
<1> QED
  BY <1>5, <1>8, <1>9, <1>10 DEF taken, BufferLeaves

(* What is put at the head of a list.                                      *)
LEMMA PrependJoins ==
  ASSUME NEW T, NEW q \in Seq(T), IsInjective(q), NEW x \in T, x \notin ToSet(q)
  PROVE  /\ << x >> \o q \in Seq(T) /\ IsInjective(<< x >> \o q)
         /\ ToSet(<< x >> \o q) = ToSet(q) \cup {x} /\ Len(<< x >> \o q) = Len(q) + 1
<1>1. PICK n : n = Len(q) /\ n \in Nat
  OBVIOUS
<1> DEFINE r == << x >> \o q
<1>2. r \in Seq(T) /\ Len(r) = n + 1 /\ r[1] = x /\ \A k \in 1 .. n : r[k + 1] = q[k]
  BY <1>1
<1>3. DOMAIN r = 1 .. n + 1 /\ DOMAIN q = 1 .. n
  BY <1>1, <1>2
<1>4. \A k \in 2 .. n + 1 : k - 1 \in 1 .. n /\ r[k] = q[k - 1]
  <2> SUFFICES ASSUME NEW k \in 2 .. n + 1 PROVE k - 1 \in 1 .. n /\ r[k] = q[k - 1]
    OBVIOUS
  <2>1. k - 1 \in 1 .. n /\ (k - 1) + 1 = k
    BY <1>1
  <2> QED
    BY <1>2, <2>1
<1>5. ToSet(r) = ToSet(q) \cup {x}
  <2>1. \A y : y \in ToSet(q) <=> \E k \in 1 .. n : y = q[k]
    BY <1>3 DEF ToSet
  <2>2. \A y : y \in ToSet(r) <=> \E k \in 1 .. n + 1 : y = r[k]
    BY <1>3 DEF ToSet
  <2>3. \A k \in 1 .. n : k + 1 \in 1 .. n + 1
    BY <1>1
  <2>4. 1 \in 1 .. n + 1 /\ \A k \in 1 .. n + 1 : k = 1 \/ k \in 2 .. n + 1
    BY <1>1
  <2> QED
    BY <1>2, <1>4, <2>1, <2>2, <2>3, <2>4
<1>6. \A i, j \in 1 .. n : q[i] = q[j] => i = j
  BY <1>3 DEF IsInjective
<1>7. \A i \in 1 .. n : q[i] # x
  BY <1>3 DEF ToSet
<1>8. \A i, j \in 1 .. n + 1 : r[i] = r[j] => i = j
  <2> SUFFICES ASSUME NEW i \in 1 .. n + 1, NEW j \in 1 .. n + 1, r[i] = r[j] PROVE i = j
    OBVIOUS
  <2>1. (i = 1 \/ i \in 2 .. n + 1) /\ (j = 1 \/ j \in 2 .. n + 1)
    BY <1>1
  <2>2. CASE i = 1 /\ j = 1
    BY <2>2
  <2>3. CASE i = 1 /\ j \in 2 .. n + 1
    BY <2>3, <1>2, <1>4, <1>7
  <2>4. CASE j = 1 /\ i \in 2 .. n + 1
    BY <2>4, <1>2, <1>4, <1>7
  <2>5. CASE i \in 2 .. n + 1 /\ j \in 2 .. n + 1
    <3>1. i - 1 = j - 1
      BY <2>5, <1>4, <1>6
    <3> QED
      BY <3>1
  <2> QED
    BY <2>1, <2>2, <2>3, <2>4, <2>5
<1> QED
  BY <1>1, <1>2, <1>3, <1>5, <1>8 DEF IsInjective

(* Buffers of one width, apart: n of them, and together n times as wide.   *)
LEMMA CellsApart ==
  ASSUME NEW w \in Nat \ {0}, NEW j \in Nat, NEW k \in Nat, j < k
  PROVE  j * w + w <= k * w
<1>1. PICK d \in Nat : k = j + 1 + d
  <2>1. k - j - 1 \in Nat /\ k = j + 1 + (k - j - 1)
    OBVIOUS
  <2> QED
    BY <2>1
<1>2. k * w = j * w + w + d * w
  BY <1>1
<1>3. d * w \in Nat /\ j * w \in Nat
  OBVIOUS
<1> QED
  BY <1>2, <1>3

(* There are as many cells as places.                                      *)
LEMMA CellsCounted ==
  ASSUME NEW a \in Nat, NEW n \in Nat, NEW w \in Nat \ {0}
  PROVE  IsFiniteSet(cells(a, n, w)) /\ Cardinality(cells(a, n, w)) = n /\ cells(a, n, w) \subseteq Nat
<1> DEFINE f == [k \in 0 .. n - 1 |-> a + k * w]
<1>1. \A k \in 0 .. n - 1 : k \in Nat /\ k * w \in Nat
  OBVIOUS
<1>2. ASSUME NEW j \in 0 .. n - 1, NEW k \in 0 .. n - 1, a + j * w = a + k * w PROVE j = k
  <2>1. j \in Nat /\ k \in Nat /\ j * w \in Nat /\ k * w \in Nat
    OBVIOUS
  <2>2. j * w = k * w
    BY <1>2, <2>1
  <2>3. ~(j < k)
    <3> SUFFICES ASSUME j < k PROVE FALSE
      OBVIOUS
    <3>1. j * w + w <= k * w
      BY <2>1, CellsApart
    <3> QED
      BY <2>1, <2>2, <3>1
  <2>4. ~(k < j)
    <3> SUFFICES ASSUME k < j PROVE FALSE
      OBVIOUS
    <3>1. k * w + w <= j * w
      BY <2>1, CellsApart
    <3> QED
      BY <2>1, <2>2, <3>1
  <2> QED
    BY <2>1, <2>3, <2>4
<1>3. f \in Bijection(0 .. n - 1, cells(a, n, w))
  BY <1>2 DEF Bijection, Injection, Surjection, IsInjective, cells
<1>4. ExistsBijection(0 .. n - 1, cells(a, n, w))
  BY <1>3 DEF ExistsBijection
<1>5. IsFiniteSet(0 .. n - 1) /\ Cardinality(0 .. n - 1) = n
  <2>1. n - 1 \in Int /\ (0 > n - 1 <=> n = 0) /\ (n - 1) - 0 + 1 = n
    OBVIOUS
  <2> QED
    BY <2>1, FS_Interval
<1>6. IsFiniteSet(cells(a, n, w)) /\ Cardinality(cells(a, n, w)) = n
  BY <1>4, <1>5, FS_Bijection
<1>7. cells(a, n, w) \subseteq Nat
  BY <1>1 DEF cells
<1> QED
  BY <1>6, <1>7

(* Every byte is in the room of a buffer.                                  *)
LEMMA CellsCover ==
  ASSUME NEW a \in Nat, NEW n \in Nat \ {0}, NEW w \in Nat \ {0}
  PROVE  UNION {x .. x + w - 1 : x \in cells(a, n, w)} = a .. a + n * w - 1
<1>1. ASSUME NEW k \in 0 .. n - 1, NEW y \in a + k * w .. a + k * w + w - 1
      PROVE  y \in a .. a + n * w - 1
  <2>1. k \in Nat /\ n \in Nat /\ k < n /\ k * w \in Nat /\ n * w \in Nat
    OBVIOUS
  <2>2. k * w + w <= n * w
    BY <2>1, CellsApart
  <2> QED
    BY <2>1, <2>2
<1>2. ASSUME NEW y \in a .. a + n * w - 1
      PROVE  \E k \in 0 .. n - 1 : y \in a + k * w .. a + k * w + w - 1
  <2> DEFINE S == {k \in Nat : y < a + (k * w + w)}
  <2>1. n - 1 \in Nat /\ (n - 1) * w + w = n * w
    OBVIOUS
  <2>2. n * w \in Nat /\ y < a + n * w
    OBVIOUS
  <2>3. n - 1 \in S
    BY <2>1, <2>2
  <2>4. PICK m \in S : \A j \in S : m <= j
    <3>1. S \in SUBSET Nat /\ S # {}
      BY <2>3
    <3> HIDE DEF S
    <3> QED
      BY <3>1, LeastOfNaturals
  <2>5. m \in Nat /\ m <= n - 1 /\ y < a + (m * w + w) /\ m * w \in Nat
    BY <2>3, <2>4
  <2>6. a + m * w <= y
    <3>1. CASE m = 0
      BY <3>1
    <3>2. CASE m # 0
      <4>1. m - 1 \in Nat /\ (m - 1) * w + w = m * w
        BY <2>5, <3>2
      <4>2. m - 1 \notin S
        BY <2>4, <2>5, <4>1
      <4>3. ~(y < a + m * w)
        BY <4>1, <4>2
      <4> QED
        BY <4>3, <2>5
    <3> QED
      BY <3>1, <3>2
  <2>7. m \in 0 .. n - 1 /\ y \in a + m * w .. a + m * w + w - 1
    BY <2>5, <2>6
  <2> QED
    BY <2>7
<1> QED
  BY <1>1, <1>2 DEF cells

(* As many buffers of a pool are held as there are addresses of them.      *)
LEMMA TakenCounted ==
  ASSUME NEW P, PoolTyped(P), NEW i, IsFiniteSet(taken(P, i))
  PROVE  IsFiniteSet(held_of(P, i)) /\ Cardinality(held_of(P, i)) = Cardinality(taken(P, i))
<1> DEFINE f == [x \in taken(P, i) |-> [buf |-> x, id |-> i]]
<1>1. \A b \in held_of(P, i) : b = [buf |-> b.buf, id |-> i]
  BY DEF held_of, PoolTyped, PoolRecords, HeldBuffers
<1>2. \A x \in taken(P, i) : f[x] \in held_of(P, i) /\ f[x].buf = x
  BY <1>1 DEF taken
<1>3. \A b \in held_of(P, i) : b.buf \in taken(P, i) /\ f[b.buf] = b
  BY <1>1 DEF taken
<1>4. f \in Bijection(taken(P, i), held_of(P, i))
  <2>1. f \in [taken(P, i) -> held_of(P, i)]
    BY <1>2
  <2>2. \A x, y \in taken(P, i) : f[x] = f[y] => x = y
    BY <1>2
  <2>3. \A b \in held_of(P, i) : \E x \in taken(P, i) : f[x] = b
    BY <1>3
  <2> HIDE DEF f
  <2> QED
    BY <2>1, <2>2, <2>3 DEF Bijection, Injection, Surjection, IsInjective
<1>5. ExistsBijection(taken(P, i), held_of(P, i))
  BY <1>4 DEF ExistsBijection
<1> QED
  BY <1>5, FS_Bijection

(* What the invariant says of a pool.                                      *)
Conserves(P, i) ==
  LET e == P.buftab[i]
      B == ToSet(e.list) \cup taken(P, i)
  IN  /\ Cardinality(B) = Len(e.list) + Cardinality(held_of(P, i))
      /\ Cardinality(B) * (e.bpsize + IdBytes) = e.memory.mlength
      /\ UNION {x .. x + IdBytes + e.bpsize - 1 : x \in B} = bytes(e.memory)
      /\ Len(e.list) - Cardinality(promised_at(P, i)) = counted(e.bpsem)

(* By the invariant no buffer of a pool is lost.                           *)
LEMMA PoolConserved ==
  ASSUME NEW P, PoolState(P), NEW i \in DOMAIN P.buftab
  PROVE  Conserves(P, i)
<1>1. PoolSound(P, i) /\ PoolTyped(P)
  BY DEF PoolState
<1>2. PICK e : e = P.buftab[i]
  OBVIOUS
<1>3. e \in PoolEntries
  BY <1>1, <1>2, PoolFields
<1>4. PICK w, a, l : w = e.bpsize + IdBytes /\ a = e.memory.addr /\ l = e.memory.mlength
  OBVIOUS
<1>5. e.bpsize \in Nat /\ e.memory \in MemBlocks /\ e.list \in Seq(Nat)
  BY <1>3 DEF PoolEntries
<1>6. w \in Nat \ {0} /\ a \in Nat /\ l \in Nat
  BY <1>4, <1>5 DEF IdBytes, MemBlocks
<1>b. PICK B : B = ToSet(e.list) \cup taken(P, i)
  OBVIOUS
<1>7. PICK n \in Nat \ {0} : l = n * w /\ B = cells(a, n, w)
  BY <1>1, <1>2, <1>4, <1>b DEF PoolSound, Divides
<1>8. IsFiniteSet(B) /\ Cardinality(B) = n /\ B \subseteq Nat
  <2>1. n \in Nat
    OBVIOUS
  <2>2. IsFiniteSet(cells(a, n, w)) /\ Cardinality(cells(a, n, w)) = n /\ cells(a, n, w) \subseteq Nat
    BY <2>1, <1>6, CellsCounted
  <2> QED
    BY <2>2, <1>7
<1>9. IsFiniteSet(taken(P, i))
  BY <1>8, <1>b, FS_Subset
<1>10. Cardinality(held_of(P, i)) = Cardinality(taken(P, i))
  BY <1>1, <1>9, TakenCounted
<1>11. IsFiniteSet(ToSet(e.list)) /\ Cardinality(ToSet(e.list)) = Len(e.list)
  BY <1>1, <1>2, <1>5, QueuedCardinality DEF PoolSound
<1>12. Cardinality(ToSet(e.list) \cap taken(P, i)) = 0
  <2>1. ToSet(e.list) \cap taken(P, i) = {}
    BY <1>1, <1>2 DEF PoolSound
  <2> QED
    BY <2>1, FS_EmptySet
<1>13. Cardinality(B) = Len(e.list) + Cardinality(held_of(P, i))
  <2>1. PICK A, C : A = ToSet(e.list) /\ C = taken(P, i)
    OBVIOUS
  <2>2. IsFiniteSet(A) /\ IsFiniteSet(C) /\ Cardinality(A \cap C) = 0
    BY <2>1, <1>9, <1>11, <1>12
  <2>3. Cardinality(A \cup C) = Cardinality(A) + Cardinality(C)
    BY <2>2, DisjointSize
  <2> QED
    BY <2>1, <2>3, <1>10, <1>11, <1>b
<1>14. Cardinality(B) * (e.bpsize + IdBytes) = e.memory.mlength
  BY <1>4, <1>7, <1>8
<1>15. UNION {x .. x + w - 1 : x \in B} = a .. a + n * w - 1
  BY <1>6, <1>7, CellsCover
<1>16. bytes(e.memory) = a .. a + n * w - 1
  <2>1. after(e.memory) = a + l /\ e.memory.addr = a
    BY <1>4, Zenon DEF after
  <2>2. bytes(e.memory) = e.memory.addr .. after(e.memory) - 1
    BY Zenon DEF bytes
  <2>3. l = n * w
    BY <1>7
  <2>4. PICK m : m = n * w
    OBVIOUS
  <2>5. bytes(e.memory) = a .. a + m - 1
    BY <2>1, <2>2, <2>3, <2>4, <1>6
  <2> QED
    BY <2>4, <2>5
<1>17. \A x \in B : x + IdBytes + e.bpsize - 1 = x + w - 1
  <2>1. \A x \in B : x \in Nat
    BY <1>8
  <2>2. w = e.bpsize + 4 /\ e.bpsize \in Nat
    BY <1>4, <1>5 DEF IdBytes
  <2> SUFFICES ASSUME NEW x \in B PROVE x + IdBytes + e.bpsize - 1 = x + w - 1
    OBVIOUS
  <2>3. x \in Nat
    BY <2>1
  <2> QED
    BY <2>2, <2>3 DEF IdBytes
<1>18. UNION {x .. x + IdBytes + e.bpsize - 1 : x \in B} = bytes(e.memory)
  BY <1>15, <1>16, <1>17
<1>19. Len(e.list) = counted(e.bpsem) + Cardinality(promised_at(P, i))
  BY <1>1, <1>2 DEF PoolSound
<1>20. counted(e.bpsem) \in Nat /\ Cardinality(promised_at(P, i)) \in Nat
  <2>1. IsSem(e.bpsem, PoolUsers)
    BY <1>1, <1>2 DEF PoolSound
  <2>2. IsFiniteSet(promised_at(P, i))
    <3>1. promised_at(P, i) \subseteq PoolUsers
      BY DEF promised_at
    <3> QED
      BY <3>1, PoolAssumption, FS_Subset
  <2> QED
    BY <2>1, <2>2, CountedNat, FS_CardinalityType
<1>21. Len(e.list) - Cardinality(promised_at(P, i)) = counted(e.bpsem)
  BY <1>19, <1>20
<1> QED
  BY <1>2, <1>b, <1>13, <1>14, <1>18, <1>21 DEF Conserves

PoolConserves(i) ==
  LET entry    == pool.buftab[i]
      held     == {b \in UNION {pool.held[p] : p \in PoolUsers} : b.id = i}
      promised == {p \in PoolUsers : pool_at(p, "unlink") /\ pool.call[p].id = i}
      buffers  == ToSet(entry.list) \cup {b.buf : b \in held}
      room(b)  == b .. b + IdBytes + entry.bpsize - 1
  IN  /\ Cardinality(buffers) = Len(entry.list) + Cardinality(held)
      /\ Cardinality(buffers) * (entry.bpsize + IdBytes) = entry.memory.mlength
      /\ UNION {room(b) : b \in buffers} = bytes(entry.memory)
      /\ entry.memory \in mem.inuse
      /\ Len(entry.list) - Cardinality(promised)
           = (IF entry.bpsem.scount > 0 THEN entry.bpsem.scount ELSE 0)

(* And so of all pools.                                                    *)
LEMMA PoolsConserved ==
  ASSUME PoolIInv
  PROVE  BuffersConserved
<1>1. PoolState(pool) /\ MemoryOf(pool) \subseteq mem.inuse
  BY DEF PoolIInv
<1>2. ASSUME NEW i \in Pools
      PROVE  PoolConserves(i)
  <2>1. i \in DOMAIN pool.buftab
    BY DEF Pools
  <2>2. PICK e, h, t, r : /\ e = pool.buftab[i] /\ h = held_of(pool, i) /\ t = taken(pool, i)
                          /\ r = promised_at(pool, i)
    OBVIOUS
  <2>3. /\ Cardinality(ToSet(e.list) \cup t) = Len(e.list) + Cardinality(h)
        /\ Cardinality(ToSet(e.list) \cup t) * (e.bpsize + IdBytes) = e.memory.mlength
        /\ UNION {x .. x + IdBytes + e.bpsize - 1 : x \in ToSet(e.list) \cup t} = bytes(e.memory)
        /\ Len(e.list) - Cardinality(r) = counted(e.bpsem)
    <3>1. Conserves(pool, i)
      BY <1>1, <2>1, PoolConserved
    <3> QED
      BY <2>2, <3>1 DEF Conserves
  <2>4. e.memory \in mem.inuse
    BY <1>1, <2>1, <2>2 DEF MemoryOf
  <2>5. h = {b \in UNION {pool.held[p] : p \in PoolUsers} : b.id = i}
    BY <2>2 DEF held_of
  <2>6. t = {b.buf : b \in h}
    BY <2>2 DEF taken
  <2>7. r = {p \in PoolUsers : pool_at(p, "unlink") /\ pool.call[p].id = i}
    BY <2>2 DEF promised_at, pool_at
  <2>8. counted(e.bpsem) = IF e.bpsem.scount > 0 THEN e.bpsem.scount ELSE 0
    BY DEF counted
  <2>9. e.bpsem = pool.buftab[i].bpsem
    BY <2>2
  <2> DEFINE entry    == pool.buftab[i]
             held     == {b \in UNION {pool.held[p] : p \in PoolUsers} : b.id = i}
             promised == {p \in PoolUsers : pool_at(p, "unlink") /\ pool.call[p].id = i}
             buffers  == ToSet(entry.list) \cup {b.buf : b \in held}
             room(b)  == b .. b + IdBytes + entry.bpsize - 1
  <2>10. entry = e /\ held = h /\ promised = r
    BY <2>2, <2>5, <2>7
  <2>11. buffers = ToSet(e.list) \cup t
    BY <2>6, <2>10
  <2>12. /\ Cardinality(buffers) = Len(entry.list) + Cardinality(held)
         /\ Cardinality(buffers) * (entry.bpsize + IdBytes) = entry.memory.mlength
         /\ Len(entry.list) - Cardinality(promised) = counted(entry.bpsem)
    BY <2>3, <2>10, <2>11, Zenon
  <2>13. UNION {room(b) : b \in buffers} = bytes(entry.memory)
    <3>1. \A b : room(b) = b .. b + IdBytes + e.bpsize - 1
      BY <2>10
    <3> HIDE DEF room, buffers, entry
    <3> QED
      BY <3>1, <2>3, <2>10, <2>11
  <2>14. entry.memory \in mem.inuse /\ counted(entry.bpsem) = IF entry.bpsem.scount > 0 THEN entry.bpsem.scount ELSE 0
    BY <2>4, <2>8, <2>10
  <2> QED
    BY <2>12, <2>13, <2>14, Zenon DEF PoolConserves
<1> QED
  BY <1>2 DEF BuffersConserved, PoolConserves

-----------------------------------------------------------------------------
(***************************************************************************)
(* The steps of the pools.                                                 *)
(***************************************************************************)

(* A pool's semaphore and list are set, and who is where, and has what.    *)
PoolSet(P, i, sem, list, call, held) ==
  [buftab |-> [P.buftab EXCEPT ![i] = [bpsize |-> P.buftab[i].bpsize, bpsem |-> sem,
                                       list |-> list, memory |-> P.buftab[i].memory]],
   sems |-> P.sems, call |-> call, held |-> held]

(* What names a pool names one of D.                                       *)
NamesPools(P, D) ==
  \A p \in PoolUsers : /\ P.call[p].at # "idle" => P.call[p].id \in D
                       /\ \A b \in P.held[p] : b.id \in D

(* Of the pools but i nothing changes.                                     *)
OthersSame(P, Q, i) ==
  \A j : j # i => /\ queued_at(Q, j) = queued_at(P, j) /\ promised_at(Q, j) = promised_at(P, j)
                  /\ taken(Q, j) = taken(P, j)

(* The two fields that are given.                                          *)
LEMMA PoolSetFields ==
  ASSUME NEW P, NEW i, NEW sem, NEW list, NEW call, NEW held, NEW Q, Q = PoolSet(P, i, sem, list, call, held)
  PROVE  Q.call = call /\ Q.held = held
BY DEF PoolSet

(* What keeps the invariant, of a step at pool i.                          *)
KeepsPool(P, i, Q, sem, list, call, held) ==
  /\ Q = PoolSet(P, i, sem, list, call, held)
  /\ list \in Seq(Nat) /\ call \in [PoolUsers -> PoolCalls] /\ held \in [PoolUsers -> SUBSET HeldBuffers]
  /\ NamesPools(Q, DOMAIN P.buftab) /\ \A r, q \in PoolUsers : r # q => held[r] \cap held[q] = {}
  /\ OthersSame(P, Q, i)
  /\ IsSem(sem, PoolUsers) /\ ToSet(sem.squeue) = queued_at(Q, i)
  /\ IsInjective(list) /\ ToSet(list) \cap taken(Q, i) = {}
  /\ ToSet(list) \cup taken(Q, i) = ToSet(P.buftab[i].list) \cup taken(P, i)
  /\ Len(list) = counted(sem) + Cardinality(promised_at(Q, i))

(* Such a step keeps the invariant, also of the pools it does not name.    *)
LEMMA PoolMoves ==
  ASSUME NEW P, PoolState(P), NEW i \in DOMAIN P.buftab, NEW Q, NEW sem, NEW list, NEW call, NEW held,
         KeepsPool(P, i, Q, sem, list, call, held)
  PROVE  PoolState(Q) /\ MemoryOf(Q) = MemoryOf(P)
<1>0. /\ Q = PoolSet(P, i, sem, list, call, held)
      /\ list \in Seq(Nat) /\ call \in [PoolUsers -> PoolCalls] /\ held \in [PoolUsers -> SUBSET HeldBuffers]
      /\ NamesPools(Q, DOMAIN P.buftab) /\ \A r, q \in PoolUsers : r # q => held[r] \cap held[q] = {}
      /\ OthersSame(P, Q, i)
  BY DEF KeepsPool
<1>k. /\ IsSem(sem, PoolUsers) /\ ToSet(sem.squeue) = queued_at(Q, i)
      /\ IsInjective(list) /\ ToSet(list) \cap taken(Q, i) = {}
      /\ ToSet(list) \cup taken(Q, i) = ToSet(P.buftab[i].list) \cup taken(P, i)
      /\ Len(list) = counted(sem) + Cardinality(promised_at(Q, i))
  BY DEF KeepsPool
<1>1. PoolTyped(P) /\ \A j \in DOMAIN P.buftab : PoolSound(P, j)
  BY DEF PoolState
<1>2. PICK e : e = [bpsize |-> P.buftab[i].bpsize, bpsem |-> sem, list |-> list, memory |-> P.buftab[i].memory]
  OBVIOUS
<1>3. /\ Q.buftab = [P.buftab EXCEPT ![i] = e] /\ Q.sems = P.sems /\ Q.call = call /\ Q.held = held
      /\ Q = [buftab |-> Q.buftab, sems |-> Q.sems, call |-> Q.call, held |-> Q.held]
  BY <1>0, <1>2 DEF PoolSet
<1>4. e.bpsize = P.buftab[i].bpsize /\ e.bpsem = sem /\ e.list = list /\ e.memory = P.buftab[i].memory
  BY <1>2
<1>5. /\ P.buftab \in Seq(PoolEntries) /\ DOMAIN P.buftab = 1 .. Len(P.buftab) /\ P.sems \in Nat
      /\ \A j \in DOMAIN P.buftab : P.buftab[j] \in PoolEntries
  BY <1>1, PoolFields
<1>6. e \in PoolEntries
  <2>1. P.buftab[i].bpsize \in Nat /\ P.buftab[i].memory \in MemBlocks /\ sem \in SemEntries(PoolUsers)
    BY <1>5, <1>k DEF PoolEntries, IsSem
  <2> QED
    BY <1>0, <1>2, <2>1 DEF PoolEntries
<1>7. /\ Q.buftab \in Seq(PoolEntries) /\ DOMAIN Q.buftab = DOMAIN P.buftab
      /\ Q.buftab[i] = e /\ \A j \in DOMAIN P.buftab : j # i => Q.buftab[j] = P.buftab[j]
  BY <1>3, <1>5, <1>6
<1>8. Q \in PoolRecords
  BY <1>0, <1>3, <1>5, <1>7 DEF PoolRecords
<1>9. PoolTyped(Q)
  BY <1>0, <1>3, <1>7, <1>8 DEF PoolTyped, NamesPools
<1>10. ASSUME NEW j \in DOMAIN Q.buftab PROVE PoolSound(Q, j)
  <2>1. CASE j = i
    <3>1. Divides(ToSet(P.buftab[i].list) \cup taken(P, i), P.buftab[i])
      BY <1>1 DEF PoolSound
    <3>2. Divides(ToSet(list) \cup taken(Q, i), e)
      BY <3>1, <1>4, <1>k DEF Divides
    <3> QED
      BY <2>1, <3>2, <1>4, <1>7, <1>k DEF PoolSound
  <2>2. CASE j # i
    BY <2>2, <1>0, <1>1, <1>7, OtherPool DEF OthersSame
  <2> QED
    BY <2>1, <2>2
<1>11. MemoryOf(Q) = MemoryOf(P)
  <2>1. \A j \in DOMAIN P.buftab : Q.buftab[j].memory = P.buftab[j].memory
    BY <1>4, <1>7
  <2>2. DOMAIN Q.buftab = DOMAIN P.buftab
    BY <1>7
  <2> QED
    BY <2>1, <2>2 DEF MemoryOf
<1> QED
  BY <1>9, <1>10, <1>11 DEF PoolState

(* getbuf of a pool with no buffer to count.                               *)
LEMMA WaitsForBuffer ==
  ASSUME NEW P, PoolState(P), NEW p \in PoolUsers, NEW i \in DOMAIN P.buftab, P.call[p].at = "idle",
         blocks(P.buftab[i].bpsem), NEW Q,
         Q = PoolSet(P, i, waited(P.buftab[i].bpsem, p), P.buftab[i].list,
                     [P.call EXCEPT ![p] = [at |-> "wait", id |-> i]], P.held)
  PROVE  PoolState(Q) /\ MemoryOf(Q) = MemoryOf(P)
<1>1. PoolTyped(P) /\ PoolSound(P, i)
  BY DEF PoolState
<1>2. PICK s, d, l, c, k : /\ s = P.buftab[i].bpsem /\ d = waited(s, p) /\ l = P.buftab[i].list
                           /\ k = [at |-> "wait", id |-> i] /\ c = [P.call EXCEPT ![p] = k]
  OBVIOUS
<1>3. /\ P = [buftab |-> P.buftab, sems |-> P.sems, call |-> P.call, held |-> P.held]
      /\ P.buftab[i] \in PoolEntries /\ i \in Nat
      /\ P.call \in [PoolUsers -> PoolCalls] /\ P.held \in [PoolUsers -> SUBSET HeldBuffers]
  BY <1>1, PoolFields
<1>4. Q = PoolSet(P, i, d, l, c, P.held)
  BY <1>2
<1>5. Q.call = c /\ Q.held = P.held
  BY <1>4, PoolSetFields
<1>6. k \in PoolCalls /\ c \in [PoolUsers -> PoolCalls] /\ k.at = "wait" /\ k.id = i
  BY <1>2, <1>3 DEF PoolCalls
<1>7. P.call \in [PoolUsers -> PoolCalls] /\ Q.call = [P.call EXCEPT ![p] = [at |-> "wait", id |-> i]]
  BY <1>2, <1>3, <1>5
<1>8. /\ queued_at(Q, i) = queued_at(P, i) \cup {p} /\ p \notin queued_at(P, i)
      /\ \A j : j # i => queued_at(Q, j) = queued_at(P, j)
      /\ \A j : promised_at(Q, j) = promised_at(P, j)
  <2>1. P.call[p].at = "idle"
    OBVIOUS
  <2>2. CallBegun(P, Q, p, i)
    BY <2>1, <1>7, CallWaits, Zenon
  <2> QED
    BY <2>2 DEF CallBegun
<1>9. \A j : taken(Q, j) = taken(P, j)
  BY <1>5 DEF taken, held_of
<1>10. OthersSame(P, Q, i)
  BY <1>8, <1>9 DEF OthersSame
<1>11. queued_at(Q, i) = queued_at(P, i) \cup {p} /\ promised_at(Q, i) = promised_at(P, i)
  BY <1>8
<1>12. /\ IsSem(s, PoolUsers) /\ ToSet(s.squeue) = queued_at(P, i) /\ blocks(s)
       /\ IsInjective(l) /\ ToSet(l) \cap taken(P, i) = {}
       /\ Len(l) = counted(s) + Cardinality(promised_at(P, i))
  BY <1>1, <1>2 DEF PoolSound
<1>13. IsSem(d, PoolUsers) /\ ToSet(d.squeue) = ToSet(s.squeue) \cup {p} /\ counted(d) = counted(s)
  BY <1>2, <1>8, <1>12, SemWaited
<1>14. NamesPools(Q, DOMAIN P.buftab)
  <2>1. NamesPools(P, DOMAIN P.buftab)
    BY <1>1 DEF PoolTyped, NamesPools
  <2> QED
    BY <2>1, <1>2, <1>3, <1>5, <1>6 DEF NamesPools
<1>15. \A r, q \in PoolUsers : r # q => P.held[r] \cap P.held[q] = {}
  BY <1>1 DEF PoolTyped
<1>16. l \in Seq(Nat)
  BY <1>2, <1>3 DEF PoolEntries
<1>17. ToSet(l) \cup taken(Q, i) = ToSet(P.buftab[i].list) \cup taken(P, i)
  BY <1>2, <1>9
<1>18. ToSet(d.squeue) = queued_at(Q, i) /\ ToSet(l) \cap taken(Q, i) = {}
  BY <1>9, <1>11, <1>12, <1>13
<1>19. Len(l) = counted(d) + Cardinality(promised_at(Q, i))
  BY <1>11, <1>12, <1>13
<1>20. KeepsPool(P, i, Q, d, l, c, P.held)
  BY <1>3, <1>4, <1>6, <1>10, <1>12, <1>13, <1>14, <1>15, <1>16, <1>17, <1>18, <1>19, Zenon DEF KeepsPool
<1> QED
  BY <1>20, PoolMoves

(* The first buffer of the list is given to p, which the semaphore counted *)
(* or let through.                                                         *)
LEMMA TakesBuffer ==
  ASSUME NEW P, PoolState(P), NEW p \in PoolUsers, NEW i \in DOMAIN P.buftab, NEW sem, NEW Q,
         P.buftab[i].list # << >>,
         Q = PoolSet(P, i, sem, Tail(P.buftab[i].list), [P.call EXCEPT ![p] = NoPoolCall],
                     [P.held EXCEPT ![p] = @ \cup {[buf |-> Head(P.buftab[i].list), id |-> i]}]),
         IsSem(sem, PoolUsers), ToSet(sem.squeue) = queued_at(P, i),
         P.call[p].at # "wait", P.call[p].at = "unlink" => P.call[p].id = i,
         Len(P.buftab[i].list) - 1 = counted(sem) + Cardinality(promised_at(P, i) \ {p})
  PROVE  PoolState(Q) /\ MemoryOf(Q) = MemoryOf(P)
<1>a. PICK list, x : list = P.buftab[i].list /\ x = Head(list)
  OBVIOUS
<1>b. PICK call, held : /\ call = [P.call EXCEPT ![p] = NoPoolCall]
                        /\ held = [P.held EXCEPT ![p] = @ \cup {[buf |-> x, id |-> i]}]
  OBVIOUS
<1>c. Q = PoolSet(P, i, sem, Tail(list), call, held) /\ list # << >>
  BY <1>a, <1>b
<1>d. Len(list) - 1 = counted(sem) + Cardinality(promised_at(P, i) \ {p})
  BY <1>a
<1>1. PoolTyped(P) /\ PoolSound(P, i)
  BY DEF PoolState
<1>2. /\ P.buftab[i] \in PoolEntries /\ i \in Nat
      /\ P.call \in [PoolUsers -> PoolCalls] /\ P.held \in [PoolUsers -> SUBSET HeldBuffers]
  BY <1>1, PoolFields
<1>3. list \in Seq(Nat) /\ IsInjective(list) /\ ToSet(list) \cap taken(P, i) = {}
  <2>1. list \in Seq(Nat)
    BY <1>2, <1>a DEF PoolEntries
  <2>2. IsInjective(list) /\ ToSet(list) \cap taken(P, i) = {}
    BY <1>1, <1>a DEF PoolSound
  <2> QED
    BY <2>1, <2>2
<1>4. PICK t, n : t = Tail(list) /\ n = Len(list)
  OBVIOUS
<1>5. /\ x \in ToSet(list) /\ x \in Nat
      /\ t \in Seq(Nat) /\ IsInjective(t) /\ ToSet(t) = ToSet(list) \ {x}
  BY <1>3, <1>4, <1>a, <1>c, TailLeaves
<1>6. Len(t) = n - 1
  BY <1>3, <1>4, <1>c
<1>7. Q.call = call /\ Q.held = held
  BY <1>c, PoolSetFields
<1>8. \A j : /\ queued_at(Q, j) = queued_at(P, j) \ {p}
             /\ promised_at(Q, j) = promised_at(P, j) \ {p}
             /\ p \notin queued_at(P, j) => queued_at(Q, j) = queued_at(P, j)
             /\ p \notin promised_at(P, j) => promised_at(Q, j) = promised_at(P, j)
  <2>1. P.call \in [PoolUsers -> PoolCalls] /\ Q.call = [P.call EXCEPT ![p] = NoPoolCall]
    BY <1>2, <1>7, <1>b
  <2>2. CallEnded(P, Q, p)
    BY <2>1, CallEnds
  <2> QED
    BY <2>2 DEF CallEnded
<1>9. x \notin taken(P, i)
  BY <1>3, <1>5
<1>10. /\ taken(Q, i) = taken(P, i) \cup {x}
       /\ \A j : j # i => taken(Q, j) = taken(P, j)
       /\ \A r, q \in PoolUsers : r # q => held[r] \cap held[q] = {}
  <2>1. Q.held = [P.held EXCEPT ![p] = @ \cup {[buf |-> x, id |-> i]}]
    BY <1>7, <1>b
  <2>2. /\ taken(Q, i) = taken(P, i) \cup {x}
        /\ \A j : j # i => taken(Q, j) = taken(P, j)
        /\ \A r, q \in PoolUsers : r # q => Q.held[r] \cap Q.held[q] = {}
    <3>1. PoolTyped(P) /\ x \notin taken(P, i)
      BY <1>1, <1>9
    <3>2. BufferJoins(P, Q, i, x)
      BY <3>1, <2>1, HeldJoins
    <3> QED
      BY <3>2 DEF BufferJoins
  <2> QED
    BY <1>7, <2>2
<1>11. \A j : p \notin queued_at(P, j) /\ (j # i => p \notin promised_at(P, j))
  BY DEF queued_at, promised_at
<1>12. OthersSame(P, Q, i)
  BY <1>8, <1>10, <1>11 DEF OthersSame
<1>13. queued_at(Q, i) = queued_at(P, i) /\ promised_at(Q, i) = promised_at(P, i) \ {p}
  BY <1>8, <1>11
<1>14. call \in [PoolUsers -> PoolCalls]
  <2>1. NoPoolCall \in PoolCalls
    BY DEF NoPoolCall, PoolCalls
  <2> QED
    BY <1>2, <1>b, <2>1
<1>15. held \in [PoolUsers -> SUBSET HeldBuffers]
  <2>1. [buf |-> x, id |-> i] \in HeldBuffers
    BY <1>2, <1>5 DEF HeldBuffers
  <2> QED
    BY <1>2, <1>b, <2>1
<1>16. NamesPools(Q, DOMAIN P.buftab)
  <2>1. NamesPools(P, DOMAIN P.buftab)
    BY <1>1 DEF PoolTyped, NamesPools
  <2>2. NoPoolCall.at = "idle" /\ [buf |-> x, id |-> i].id = i
    BY DEF NoPoolCall
  <2> SUFFICES ASSUME NEW q \in PoolUsers
               PROVE  /\ Q.call[q].at # "idle" => Q.call[q].id \in DOMAIN P.buftab
                      /\ \A b \in Q.held[q] : b.id \in DOMAIN P.buftab
    BY DEF NamesPools
  <2>3. Q.call[q] = IF q = p THEN NoPoolCall ELSE P.call[q]
    BY <1>2, <1>7, <1>b
  <2>4. Q.held[q] = IF q = p THEN P.held[p] \cup {[buf |-> x, id |-> i]} ELSE P.held[q]
    BY <1>2, <1>7, <1>b
  <2> QED
    BY <2>1, <2>2, <2>3, <2>4 DEF NamesPools
<1>17. ToSet(t) \cup taken(Q, i) = ToSet(P.buftab[i].list) \cup taken(P, i)
  BY <1>5, <1>10, <1>a
<1>18. ToSet(sem.squeue) = queued_at(Q, i) /\ ToSet(t) \cap taken(Q, i) = {}
  BY <1>3, <1>5, <1>10, <1>13
<1>19. Len(t) = counted(sem) + Cardinality(promised_at(Q, i))
  BY <1>4, <1>6, <1>13, <1>d
<1>20. Q = PoolSet(P, i, sem, t, call, held)
  BY <1>4, <1>c
<1>21. KeepsPool(P, i, Q, sem, t, call, held)
  BY <1>5, <1>10, <1>12, <1>14, <1>15, <1>16, <1>17, <1>18, <1>19, <1>20, Zenon DEF KeepsPool
<1> QED
  BY <1>21, PoolMoves

(* kill of a process that waits for a buffer.                              *)
LEMMA KillsGetbuf ==
  ASSUME NEW P, PoolState(P), NEW p \in PoolUsers, NEW i \in DOMAIN P.buftab,
         P.call[p].at = "wait", P.call[p].id = i, NEW Q,
         Q = PoolSet(P, i, killed(P.buftab[i].bpsem, p), P.buftab[i].list,
                     [P.call EXCEPT ![p] = NoPoolCall], P.held)
  PROVE  PoolState(Q) /\ MemoryOf(Q) = MemoryOf(P)
<1>1. PoolTyped(P) /\ PoolSound(P, i)
  BY DEF PoolState
<1>2. /\ P.buftab[i] \in PoolEntries /\ i \in Nat
      /\ P.call \in [PoolUsers -> PoolCalls] /\ P.held \in [PoolUsers -> SUBSET HeldBuffers]
  BY <1>1, PoolFields
<1>3. PICK sem, l, d, call : /\ sem = P.buftab[i].bpsem /\ l = P.buftab[i].list /\ d = killed(sem, p)
                             /\ call = [P.call EXCEPT ![p] = NoPoolCall]
  OBVIOUS
<1>4. /\ IsSem(sem, PoolUsers) /\ ToSet(sem.squeue) = queued_at(P, i)
      /\ IsInjective(l) /\ ToSet(l) \cap taken(P, i) = {}
      /\ Len(l) = counted(sem) + Cardinality(promised_at(P, i))
  BY <1>1, <1>3 DEF PoolSound
<1>5. p \in queued_at(P, i) /\ \A j : p \notin promised_at(P, j) /\ (j # i => p \notin queued_at(P, j))
  BY DEF queued_at, promised_at
<1>6. IsSem(d, PoolUsers) /\ ToSet(d.squeue) = ToSet(sem.squeue) \ {p} /\ counted(d) = counted(sem)
  <2>1. p \in ToSet(sem.squeue)
    BY <1>4, <1>5
  <2>2. IsSem(sem, PoolUsers)
    BY <1>4
  <2>3. /\ IsSem(killed(sem, p), PoolUsers) /\ ToSet(killed(sem, p).squeue) = ToSet(sem.squeue) \ {p}
        /\ counted(sem) = 0 /\ counted(killed(sem, p)) = 0
    BY <2>1, <2>2, SemKilled
  <2> QED
    BY <2>3, <1>3
<1>s. Q = PoolSet(P, i, d, l, call, P.held)
  BY <1>3
<1>7. Q.call = call /\ Q.held = P.held
  BY <1>s, PoolSetFields
<1>8. \A j : /\ queued_at(Q, j) = queued_at(P, j) \ {p}
             /\ promised_at(Q, j) = promised_at(P, j) \ {p}
             /\ p \notin queued_at(P, j) => queued_at(Q, j) = queued_at(P, j)
             /\ p \notin promised_at(P, j) => promised_at(Q, j) = promised_at(P, j)
  <2>1. P.call \in [PoolUsers -> PoolCalls] /\ Q.call = [P.call EXCEPT ![p] = NoPoolCall]
    BY <1>2, <1>3, <1>7
  <2>2. CallEnded(P, Q, p)
    BY <2>1, CallEnds
  <2> QED
    BY <2>2 DEF CallEnded
<1>9. \A j : taken(Q, j) = taken(P, j)
  BY <1>7 DEF taken, held_of
<1>10. OthersSame(P, Q, i)
  BY <1>5, <1>8, <1>9 DEF OthersSame
<1>11. queued_at(Q, i) = queued_at(P, i) \ {p} /\ promised_at(Q, i) = promised_at(P, i)
  BY <1>5, <1>8
<1>12. call \in [PoolUsers -> PoolCalls] /\ \A q \in PoolUsers : call[q] = IF q = p THEN NoPoolCall ELSE P.call[q]
  <2>1. NoPoolCall \in PoolCalls
    BY DEF NoPoolCall, PoolCalls
  <2> QED
    BY <1>2, <1>3, <2>1
<1>13. NamesPools(Q, DOMAIN P.buftab)
  <2>1. NamesPools(P, DOMAIN P.buftab)
    BY <1>1 DEF PoolTyped, NamesPools
  <2>2. NoPoolCall.at = "idle"
    BY DEF NoPoolCall
  <2> QED
    BY <2>1, <2>2, <1>7, <1>12 DEF NamesPools
<1>14. \A r, q \in PoolUsers : r # q => P.held[r] \cap P.held[q] = {}
  BY <1>1 DEF PoolTyped
<1>15. l \in Seq(Nat)
  BY <1>2, <1>3 DEF PoolEntries
<1>16. ToSet(l) \cup taken(Q, i) = ToSet(P.buftab[i].list) \cup taken(P, i)
  BY <1>3, <1>9
<1>17. ToSet(d.squeue) = queued_at(Q, i) /\ ToSet(l) \cap taken(Q, i) = {}
  BY <1>4, <1>6, <1>9, <1>11
<1>18. Len(l) = counted(d) + Cardinality(promised_at(Q, i))
  BY <1>4, <1>6, <1>11
<1>20. KeepsPool(P, i, Q, d, l, call, P.held)
  BY <1>2, <1>4, <1>6, <1>10, <1>12, <1>13, <1>14, <1>15, <1>16, <1>17, <1>18, <1>s, Zenon DEF KeepsPool
<1> QED
  BY <1>1, <1>20, PoolMoves

(* Those that a signal lets through.                                       *)
CallsWoken(P, Q, i, W) ==
  /\ Q.call \in [PoolUsers -> PoolCalls]
  /\ queued_at(Q, i) = queued_at(P, i) \ W /\ promised_at(Q, i) = promised_at(P, i) \cup W
  /\ \A j : j # i => queued_at(Q, j) = queued_at(P, j) /\ promised_at(Q, j) = promised_at(P, j)
  /\ \A q \in PoolUsers : Q.call[q].id = P.call[q].id /\ (P.call[q].at = "idle" <=> Q.call[q].at = "idle")

(* Those who are let through go on, and keep the pool they named.          *)
LEMMA CallsWake ==
  ASSUME NEW P, NEW Q, NEW i, NEW W, P.call \in [PoolUsers -> PoolCalls], W \subseteq queued_at(P, i),
         Q.call = [q \in PoolUsers |-> IF q \in W THEN [P.call[q] EXCEPT !.at = "unlink"] ELSE P.call[q]]
  PROVE  CallsWoken(P, Q, i, W)
<1>1. ASSUME NEW q \in PoolUsers
      PROVE  /\ Q.call[q] \in PoolCalls /\ Q.call[q].id = P.call[q].id
             /\ q \in W => P.call[q].at = "wait" /\ P.call[q].id = i /\ Q.call[q].at = "unlink"
             /\ q \notin W => Q.call[q].at = P.call[q].at
  <2>1. P.call[q] \in PoolCalls
    OBVIOUS
  <2>2. CASE q \in W
    <3>1. Q.call[q] = [P.call[q] EXCEPT !.at = "unlink"]
      BY <2>2
    <3>2. P.call[q].at = "wait" /\ P.call[q].id = i
      BY <2>2 DEF queued_at
    <3> QED
      BY <2>1, <2>2, <3>1, <3>2 DEF PoolCalls
  <2>3. CASE q \notin W
    BY <2>1, <2>3
  <2> QED
    BY <2>2, <2>3
<1>2. Q.call \in [PoolUsers -> PoolCalls]
  <2>1. PICK c : c = Q.call
    OBVIOUS
  <2>2. c = [q \in PoolUsers |-> c[q]]
    BY <2>1
  <2>3. \A q \in PoolUsers : c[q] \in PoolCalls
    BY <2>1, <1>1
  <2> QED
    BY <2>1, <2>2, <2>3
<1>3. /\ queued_at(Q, i) = queued_at(P, i) \ W /\ promised_at(Q, i) = promised_at(P, i) \cup W
  BY <1>1 DEF queued_at, promised_at
<1>4. \A j : j # i => queued_at(Q, j) = queued_at(P, j) /\ promised_at(Q, j) = promised_at(P, j)
  BY <1>1 DEF queued_at, promised_at
<1>5. \A q \in PoolUsers : Q.call[q].id = P.call[q].id /\ (P.call[q].at = "idle" <=> Q.call[q].at = "idle")
  BY <1>1
<1> QED
  BY <1>2, <1>3, <1>4, <1>5 DEF CallsWoken

(* freebuf: one that waits is promised the buffer, or it is counted.       *)
LEMMA FreesBuffer ==
  ASSUME NEW P, PoolState(P), NEW p \in PoolUsers, NEW b \in P.held[p], NEW i \in DOMAIN P.buftab, b.id = i, NEW Q,
         Q = PoolSet(P, i, signalled(P.buftab[i].bpsem), << b.buf >> \o P.buftab[i].list,
                     [q \in PoolUsers |-> IF q \in woken(P.buftab[i].bpsem)
                                          THEN [P.call[q] EXCEPT !.at = "unlink"] ELSE P.call[q]],
                     [P.held EXCEPT ![p] = @ \ {b}])
  PROVE  PoolState(Q) /\ MemoryOf(Q) = MemoryOf(P)
<1>1. PoolTyped(P) /\ PoolSound(P, i)
  BY DEF PoolState
<1>2. /\ P.buftab[i] \in PoolEntries /\ i \in Nat
      /\ P.call \in [PoolUsers -> PoolCalls] /\ P.held \in [PoolUsers -> SUBSET HeldBuffers]
  BY <1>1, PoolFields
<1>3. PICK sem, l, d, W, x : /\ sem = P.buftab[i].bpsem /\ l = P.buftab[i].list /\ d = signalled(sem)
                             /\ W = woken(sem) /\ x = b.buf
  OBVIOUS
<1>4. PICK r, call, held : /\ r = << x >> \o l
                           /\ call = [q \in PoolUsers |-> IF q \in W THEN [P.call[q] EXCEPT !.at = "unlink"]
                                                          ELSE P.call[q]]
                           /\ held = [P.held EXCEPT ![p] = @ \ {b}]
  OBVIOUS
<1>5. Q = PoolSet(P, i, d, r, call, held)
  BY <1>3, <1>4
<1>6. Q.call = call /\ Q.held = held
  BY <1>5, PoolSetFields
<1>7. /\ IsSem(sem, PoolUsers) /\ ToSet(sem.squeue) = queued_at(P, i)
      /\ IsInjective(l) /\ ToSet(l) \cap taken(P, i) = {}
      /\ Len(l) = counted(sem) + Cardinality(promised_at(P, i))
  BY <1>1, <1>3 DEF PoolSound
<1>8. /\ IsSem(d, PoolUsers) /\ W \subseteq ToSet(sem.squeue) /\ ToSet(d.squeue) = ToSet(sem.squeue) \ W
      /\ \/ (\E q \in PoolUsers : W = {q}) /\ counted(sem) = 0 /\ counted(d) = 0
         \/ W = {} /\ counted(d) = counted(sem) + 1
  <2>1. /\ IsSem(signalled(sem), PoolUsers)
        /\ woken(sem) \subseteq ToSet(sem.squeue) /\ woken(sem) \subseteq PoolUsers
        /\ ToSet(signalled(sem).squeue) = ToSet(sem.squeue) \ woken(sem)
        /\ \/ /\ \E q \in PoolUsers : woken(sem) = {q}
              /\ counted(sem) = 0 /\ counted(signalled(sem)) = 0
           \/ /\ woken(sem) = {} /\ ToSet(sem.squeue) = {}
              /\ counted(signalled(sem)) = counted(sem) + 1
    BY <1>7, SemSignalled
  <2> QED
    BY <2>1, <1>3
<1>9. CallsWoken(P, Q, i, W)
  <2>1. W \subseteq queued_at(P, i)
    BY <1>7, <1>8
  <2>2. Q.call = [q \in PoolUsers |-> IF q \in W THEN [P.call[q] EXCEPT !.at = "unlink"] ELSE P.call[q]]
    BY <1>4, <1>6
  <2> QED
    BY <1>2, <2>1, <2>2, CallsWake
<1>10. /\ call \in [PoolUsers -> PoolCalls]
       /\ queued_at(Q, i) = queued_at(P, i) \ W /\ promised_at(Q, i) = promised_at(P, i) \cup W
       /\ \A j : j # i => queued_at(Q, j) = queued_at(P, j) /\ promised_at(Q, j) = promised_at(P, j)
       /\ \A q \in PoolUsers : Q.call[q].id = P.call[q].id /\ (P.call[q].at = "idle" <=> Q.call[q].at = "idle")
  BY <1>6, <1>9 DEF CallsWoken
<1>11. /\ x \in taken(P, i) /\ taken(Q, i) = taken(P, i) \ {x}
       /\ \A j : j # i => taken(Q, j) = taken(P, j)
       /\ \A s, q \in PoolUsers : s # q => held[s] \cap held[q] = {}
  <2>1. Q.held = [P.held EXCEPT ![p] = @ \ {b}]
    BY <1>4, <1>6
  <2>2. BufferLeaves(P, Q, b)
    BY <1>1, <2>1, HeldLeaves
  <2> QED
    BY <2>2, <1>3, <1>6 DEF BufferLeaves
<1>12. OthersSame(P, Q, i)
  BY <1>10, <1>11 DEF OthersSame
<1>13. held \in [PoolUsers -> SUBSET HeldBuffers] /\ \A q \in PoolUsers : held[q] \subseteq P.held[q]
  BY <1>2, <1>4
<1>14. NamesPools(Q, DOMAIN P.buftab)
  <2>1. NamesPools(P, DOMAIN P.buftab)
    BY <1>1 DEF PoolTyped, NamesPools
  <2> QED
    BY <2>1, <1>6, <1>10, <1>13 DEF NamesPools
<1>15. /\ r \in Seq(Nat) /\ IsInjective(r)
       /\ ToSet(r) = ToSet(l) \cup {x} /\ Len(r) = Len(l) + 1
  <2>1. l \in Seq(Nat)
    BY <1>2, <1>3 DEF PoolEntries
  <2>2. x \in Nat
    <3>1. b \in HeldBuffers
      BY <1>2
    <3> QED
      BY <3>1, <1>3 DEF HeldBuffers
  <2>3. x \notin ToSet(l)
    BY <1>7, <1>11
  <2> QED
    BY <2>1, <2>2, <2>3, <1>4, <1>7, PrependJoins
<1>16. ToSet(r) \cup taken(Q, i) = ToSet(P.buftab[i].list) \cup taken(P, i)
  BY <1>3, <1>11, <1>15
<1>17. ToSet(d.squeue) = queued_at(Q, i) /\ ToSet(r) \cap taken(Q, i) = {}
  BY <1>7, <1>8, <1>10, <1>11, <1>15
<1>18. Len(r) = counted(d) + Cardinality(promised_at(Q, i))
  <2>1. IsFiniteSet(promised_at(P, i))
    <3>1. promised_at(P, i) \subseteq PoolUsers
      BY DEF promised_at
    <3> QED
      BY <3>1, PoolAssumption, FS_Subset
  <2>2. PICK n : n = Cardinality(promised_at(P, i)) /\ n \in Nat
    BY <2>1, FS_CardinalityType
  <2>3. CASE W = {} /\ counted(d) = counted(sem) + 1
    <3>1. promised_at(Q, i) = promised_at(P, i)
      BY <2>3, <1>10
    <3>2. counted(sem) \in Nat
      BY <1>7, CountedNat
    <3> QED
      BY <2>2, <2>3, <3>1, <3>2, <1>7, <1>15
  <2>4. CASE (\E q \in PoolUsers : W = {q}) /\ counted(sem) = 0 /\ counted(d) = 0
    <3>1. PICK q \in PoolUsers : W = {q}
      BY <2>4
    <3>2. q \notin promised_at(P, i)
      BY <3>1, <1>7, <1>8 DEF queued_at, promised_at
    <3>3. Cardinality(promised_at(P, i) \cup {q}) = n + 1
      BY <2>1, <2>2, <3>2, FS_AddElement
    <3>4. promised_at(Q, i) = promised_at(P, i) \cup {q}
      BY <3>1, <1>10
    <3>5. Len(l) = n /\ Len(r) = n + 1
      BY <2>2, <2>4, <1>7, <1>15
    <3>6. Cardinality(promised_at(Q, i)) = n + 1
      BY <3>3, <3>4
    <3>7. counted(d) = 0
      BY <2>4
    <3> QED
      BY <2>2, <3>5, <3>6, <3>7
  <2> QED
    BY <2>3, <2>4, <1>8
<1>19. KeepsPool(P, i, Q, d, r, call, held)
  BY <1>5, <1>8, <1>10, <1>11, <1>12, <1>13, <1>14, <1>15, <1>16, <1>17, <1>18, Zenon DEF KeepsPool
<1> QED
  BY <1>19, PoolMoves

(* The buffers of a new pool, as they are linked.                          *)
LEMMA LayoutCells ==
  ASSUME NEW a \in Nat, NEW n \in Nat, NEW size \in Nat
  PROVE  /\ layout(a, size, n) \in Seq(Nat) /\ Len(layout(a, size, n)) = n
         /\ IsInjective(layout(a, size, n))
         /\ ToSet(layout(a, size, n)) = cells(a, n, size + IdBytes)
<1>1. PICK w, l : w = size + IdBytes /\ l = layout(a, size, n)
  OBVIOUS
<1>2. w \in Nat \ {0}
  BY <1>1 DEF IdBytes
<1>3. l = [k \in 1 .. n |-> a + (k - 1) * w]
  BY <1>1 DEF layout
<1>4. \A k \in 1 .. n : k - 1 \in Nat /\ k - 1 \in 0 .. n - 1 /\ (k - 1) * w \in Nat
  BY <1>2
<1>5. l \in Seq(Nat) /\ Len(l) = n /\ DOMAIN l = 1 .. n
  BY <1>3, <1>4
<1>6. ASSUME NEW j \in 1 .. n, NEW k \in 1 .. n, l[j] = l[k] PROVE j = k
  <2>1. PICK c, d : c = j - 1 /\ d = k - 1
    OBVIOUS
  <2>2. c \in Nat /\ d \in Nat /\ c * w \in Nat /\ d * w \in Nat
    BY <2>1, <1>2, <1>4
  <2>3. a + c * w = a + d * w
    BY <2>1, <1>3, <1>6
  <2>4. c * w = d * w
    BY <2>2, <2>3
  <2>5. ~(c < d)
    <3> SUFFICES ASSUME c < d PROVE FALSE
      OBVIOUS
    <3>1. c * w + w <= d * w
      BY <2>2, <1>2, CellsApart
    <3> QED
      BY <2>2, <2>4, <3>1, <1>2
  <2>6. ~(d < c)
    <3> SUFFICES ASSUME d < c PROVE FALSE
      OBVIOUS
    <3>1. d * w + w <= c * w
      BY <2>2, <1>2, CellsApart
    <3> QED
      BY <2>2, <2>4, <3>1, <1>2
  <2> QED
    BY <2>1, <2>2, <2>5, <2>6
<1>7. IsInjective(l)
  BY <1>5, <1>6 DEF IsInjective
<1>8. ToSet(l) = cells(a, n, w)
  <2>1. ToSet(l) = {a + (k - 1) * w : k \in 1 .. n}
    BY <1>3, <1>5 DEF ToSet
  <2>2. ASSUME NEW k \in 0 .. n - 1 PROVE k + 1 \in 1 .. n /\ (k + 1) - 1 = k
    OBVIOUS
  <2>3. {a + (k - 1) * w : k \in 1 .. n} = {a + k * w : k \in 0 .. n - 1}
    <3>1. \A k \in 1 .. n : a + (k - 1) * w \in {a + j * w : j \in 0 .. n - 1}
      BY <1>4
    <3>2. ASSUME NEW k \in 0 .. n - 1 PROVE a + k * w \in {a + (j - 1) * w : j \in 1 .. n}
      <4>1. a + ((k + 1) - 1) * w = a + k * w
        BY <2>2
      <4> QED
        BY <2>2, <4>1
    <3> QED
      BY <3>1, <3>2
  <2> QED
    BY <2>1, <2>3 DEF cells
<1> QED
  BY <1>1, <1>5, <1>7, <1>8

(* A pool of n buffers is added.                                           *)
(* The entry mkbufpool adds to the table, and the table with it.           *)
EntryMade(m, n, size) ==
  [bpsize |-> size, bpsem |-> semcreate(n), list |-> layout(m.addr, size, n), memory |-> m]

PoolAdds(P, e) ==
  [buftab |-> Append(P.buftab, e), sems |-> P.sems - 1, call |-> P.call, held |-> P.held]

HoldsPool(m, n, size) == m \in MemBlocks /\ m.mlength = n * (size + IdBytes)

PoolMade(P, Q, m) == PoolState(Q) /\ MemoryOf(Q) \subseteq MemoryOf(P) \cup {m}

(* A new pool has all its buffers on the list, and nobody has one yet.     *)
LEMMA MakesPool ==
  ASSUME NEW P, PoolState(P), NEW n \in Nat \ {0}, NEW size \in Nat, NEW m,
         HoldsPool(m, n, size), P.sems # 0
  PROVE  PoolMade(P, PoolAdds(P, EntryMade(m, n, size)), m)
<1>e. PICK e : e = EntryMade(m, n, size)
  OBVIOUS
<1>Q. PICK Q : Q = PoolAdds(P, e)
  OBVIOUS
<1>m. m \in MemBlocks /\ m.mlength = n * (size + IdBytes)
  BY DEF HoldsPool
<1>1. PoolTyped(P) /\ \A j \in DOMAIN P.buftab : PoolSound(P, j)
  BY DEF PoolState
<1>2. PICK N : N = Len(P.buftab) /\ N \in Nat
  BY <1>1, PoolFields
<1>3. /\ P.buftab \in Seq(PoolEntries) /\ DOMAIN P.buftab = 1 .. N /\ P.sems \in Nat
      /\ P.call \in [PoolUsers -> PoolCalls] /\ P.held \in [PoolUsers -> SUBSET HeldBuffers]
      /\ \A j \in DOMAIN P.buftab : P.buftab[j] \in PoolEntries
  BY <1>1, <1>2, PoolFields
<1>4. m.addr \in Nat /\ size \in Nat /\ n \in Nat
  BY <1>m DEF MemBlocks
<1>5. /\ layout(m.addr, size, n) \in Seq(Nat) /\ Len(layout(m.addr, size, n)) = n
      /\ IsInjective(layout(m.addr, size, n))
      /\ ToSet(layout(m.addr, size, n)) = cells(m.addr, n, size + IdBytes)
  BY <1>4, LayoutCells
<1>6. IsSem(semcreate(n), PoolUsers) /\ ToSet(semcreate(n).squeue) = {} /\ counted(semcreate(n)) = n
  BY <1>4, SemCreated
<1>7. /\ e.bpsize = size /\ e.bpsem = semcreate(n) /\ e.list = layout(m.addr, size, n) /\ e.memory = m
      /\ e \in PoolEntries
  <2>0. e = [bpsize |-> size, bpsem |-> semcreate(n), list |-> layout(m.addr, size, n), memory |-> m]
    BY <1>e DEF EntryMade
  <2>1. semcreate(n) \in SemEntries(PoolUsers)
    BY <1>6 DEF IsSem
  <2> QED
    BY <2>0, <2>1, <1>4, <1>5, <1>m DEF PoolEntries
<1>8. /\ Q.buftab = Append(P.buftab, e) /\ Q.sems = P.sems - 1 /\ Q.call = P.call /\ Q.held = P.held
      /\ Q = [buftab |-> Q.buftab, sems |-> Q.sems, call |-> Q.call, held |-> Q.held]
  BY <1>Q DEF PoolAdds
<1>9. /\ Q.buftab \in Seq(PoolEntries) /\ DOMAIN Q.buftab = 1 .. N + 1
      /\ Q.buftab[N + 1] = e /\ \A j \in 1 .. N : Q.buftab[j] = P.buftab[j]
  BY <1>2, <1>3, <1>7, <1>8
<1>10. \A j \in 1 .. N + 1 : j \in 1 .. N \/ j = N + 1
  BY <1>2
<1>11. Q \in PoolRecords
  <2>1. Q.sems \in Nat
    BY <1>3, <1>8
  <2> QED
    BY <2>1, <1>3, <1>8, <1>9 DEF PoolRecords
<1>12. PoolTyped(Q)
  <2>1. \A j \in DOMAIN P.buftab : j \in DOMAIN Q.buftab
    BY <1>2, <1>3, <1>9
  <2> QED
    BY <2>1, <1>1, <1>8, <1>11 DEF PoolTyped
<1>13. \A j : queued_at(Q, j) = queued_at(P, j) /\ promised_at(Q, j) = promised_at(P, j) /\ taken(Q, j) = taken(P, j)
  BY <1>8 DEF queued_at, promised_at, taken, held_of
<1>14. N + 1 \notin DOMAIN P.buftab
  BY <1>2, <1>3
<1>15. queued_at(P, N + 1) = {} /\ promised_at(P, N + 1) = {} /\ taken(P, N + 1) = {}
  <2>1. queued_at(P, N + 1) = {} /\ promised_at(P, N + 1) = {}
    BY <1>1, <1>14 DEF PoolTyped, queued_at, promised_at
  <2>2. held_of(P, N + 1) = {}
    BY <1>1, <1>14 DEF PoolTyped, held_of
  <2> QED
    BY <2>1, <2>2 DEF taken
<1>16. PoolSound(Q, N + 1)
  <2>1. Cardinality(promised_at(Q, N + 1)) = 0
    BY <1>13, <1>15, FS_EmptySet
  <2>2. Divides(ToSet(e.list) \cup taken(Q, N + 1), e)
    <3>1. ToSet(e.list) \cup taken(Q, N + 1) = cells(m.addr, n, size + IdBytes)
      BY <1>5, <1>7, <1>13, <1>15
    <3> QED
      BY <3>1, <1>7, <1>m DEF Divides
  <2>3. Len(e.list) = counted(e.bpsem) + Cardinality(promised_at(Q, N + 1))
    BY <2>1, <1>4, <1>5, <1>6, <1>7
  <2>4. ToSet(e.bpsem.squeue) = queued_at(Q, N + 1) /\ ToSet(e.list) \cap taken(Q, N + 1) = {}
    BY <1>6, <1>7, <1>13, <1>15
  <2>5. IsSem(e.bpsem, PoolUsers) /\ IsInjective(e.list)
    BY <1>5, <1>6, <1>7
  <2> QED
    BY <2>2, <2>3, <2>4, <2>5, <1>9 DEF PoolSound
<1>17. ASSUME NEW j \in 1 .. N PROVE PoolSound(Q, j)
  <2>1. PoolSound(P, j) /\ Q.buftab[j] = P.buftab[j]
    BY <1>1, <1>3, <1>9
  <2>2. queued_at(Q, j) = queued_at(P, j) /\ promised_at(Q, j) = promised_at(P, j) /\ taken(Q, j) = taken(P, j)
    BY <1>13
  <2> QED
    BY <2>1, <2>2, OtherPool
<1>18. PoolState(Q)
  BY <1>9, <1>10, <1>12, <1>16, <1>17 DEF PoolState
<1>19. MemoryOf(Q) \subseteq MemoryOf(P) \cup {m}
  <2> SUFFICES ASSUME NEW j \in DOMAIN Q.buftab PROVE Q.buftab[j].memory \in MemoryOf(P) \cup {m}
    BY DEF MemoryOf
  <2>1. CASE j = N + 1
    BY <2>1, <1>7, <1>9
  <2>2. CASE j \in 1 .. N
    BY <2>2, <1>3, <1>9 DEF MemoryOf
  <2> QED
    BY <2>1, <2>2, <1>9, <1>10
<1> QED
  BY <1>18, <1>19, <1>e, <1>Q DEF PoolMade

(* The record of the pools after each call.                                *)
LEMMA EntryParts ==
  ASSUME NEW P, PoolTyped(P), NEW i \in DOMAIN P.buftab, NEW sem, NEW l
  PROVE  /\ [P.buftab[i] EXCEPT !.bpsem = sem]
              = [bpsize |-> P.buftab[i].bpsize, bpsem |-> sem, list |-> P.buftab[i].list, memory |-> P.buftab[i].memory]
         /\ [P.buftab[i] EXCEPT !.list = l]
              = [bpsize |-> P.buftab[i].bpsize, bpsem |-> P.buftab[i].bpsem, list |-> l, memory |-> P.buftab[i].memory]
<1>1. P.buftab[i] \in PoolEntries
  BY PoolFields
<1>2. P.buftab[i] = [bpsize |-> P.buftab[i].bpsize, bpsem |-> P.buftab[i].bpsem,
                     list |-> P.buftab[i].list, memory |-> P.buftab[i].memory]
  BY <1>1 DEF PoolEntries
<1> QED
  BY <1>2

(* The semaphore of pool i, and the call of p.                             *)
LEMMA SemAndCall ==
  ASSUME NEW P, PoolTyped(P), NEW i \in DOMAIN P.buftab, NEW p, NEW sem, NEW k, NEW Q,
         Q = [P EXCEPT !.buftab[i].bpsem = sem, !.call[p] = k]
  PROVE  Q = PoolSet(P, i, sem, P.buftab[i].list, [P.call EXCEPT ![p] = k], P.held)
<1>1. P = [buftab |-> P.buftab, sems |-> P.sems, call |-> P.call, held |-> P.held]
  BY PoolFields
<1>2. PICK e, b, c, R : /\ e = [P.buftab[i] EXCEPT !.bpsem = sem] /\ b = [P.buftab EXCEPT ![i] = e]
                        /\ c = [P.call EXCEPT ![p] = k] /\ R = [P EXCEPT !.buftab = b]
  OBVIOUS
<1>3. e = [bpsize |-> P.buftab[i].bpsize, bpsem |-> sem, list |-> P.buftab[i].list, memory |-> P.buftab[i].memory]
  <2>1. P.buftab[i] \in PoolEntries
    BY PoolFields
  <2>2. P.buftab[i] = [bpsize |-> P.buftab[i].bpsize, bpsem |-> P.buftab[i].bpsem,
                       list |-> P.buftab[i].list, memory |-> P.buftab[i].memory]
    BY <2>1 DEF PoolEntries
  <2> QED
    BY <1>2, <2>2
<1>4. R = [buftab |-> b, sems |-> P.sems, call |-> P.call, held |-> P.held]
  BY <1>1, <1>2
<1>5. R.call = P.call /\ [R EXCEPT !.call = c] = [buftab |-> b, sems |-> P.sems, call |-> c, held |-> P.held]
  BY <1>4
<1>6. Q = [R EXCEPT !.call = [R.call EXCEPT ![p] = k]]
  BY <1>2
<1>7. Q = [buftab |-> b, sems |-> P.sems, call |-> c, held |-> P.held]
  BY <1>2, <1>5, <1>6
<1> QED
  BY <1>2, <1>3, <1>7 DEF PoolSet

(* What getbuf does with the list.                                         *)
LEMMA UnlinkedParts ==
  ASSUME PoolTyped(pool), NEW p \in PoolUsers, NEW i \in DOMAIN pool.buftab, NEW sem
  PROVE  unlinked(p, i, sem)
           = PoolSet(pool, i, sem, Tail(pool.buftab[i].list), [pool.call EXCEPT ![p] = NoPoolCall],
                     [pool.held EXCEPT ![p] = @ \cup {[buf |-> Head(pool.buftab[i].list), id |-> i]}])
<1>1. pool = [buftab |-> pool.buftab, sems |-> pool.sems, call |-> pool.call, held |-> pool.held]
  BY PoolFields
<1>2. DOMAIN pool.buftab = 1 .. Len(pool.buftab) /\ pool.buftab \in Seq(PoolEntries)
  BY PoolFields
<1>3. PICK e, b, R : /\ e = [pool.buftab[i] EXCEPT !.bpsem = sem] /\ b = [pool.buftab EXCEPT ![i] = e]
                     /\ R = [pool EXCEPT !.buftab = b]
  OBVIOUS
<1>4. PICK l, t, x : l = pool.buftab[i].list /\ t = Tail(l) /\ x = [buf |-> Head(l), id |-> i]
  OBVIOUS
<1>5. e = [bpsize |-> pool.buftab[i].bpsize, bpsem |-> sem, list |-> l, memory |-> pool.buftab[i].memory]
  <2>1. [pool.buftab[i] EXCEPT !.bpsem = sem]
          = [bpsize |-> pool.buftab[i].bpsize, bpsem |-> sem, list |-> pool.buftab[i].list,
             memory |-> pool.buftab[i].memory]
    BY EntryParts, Zenon
  <2> QED
    BY <2>1, <1>3, <1>4
<1>6. PICK f, c, h, a : /\ f = [e EXCEPT !.list = t] /\ c = [pool.call EXCEPT ![p] = NoPoolCall]
                        /\ h = [pool.held EXCEPT ![p] = @ \cup {x}] /\ a = [pool.buftab EXCEPT ![i] = f]
  OBVIOUS
<1>7. f = [bpsize |-> pool.buftab[i].bpsize, bpsem |-> sem, list |-> t, memory |-> pool.buftab[i].memory]
  BY <1>5, <1>6
<1>8. b[i] = e /\ [b EXCEPT ![i] = f] = a
  BY <1>2, <1>3, <1>6
<1>9. R = [buftab |-> b, sems |-> pool.sems, call |-> pool.call, held |-> pool.held]
  BY <1>1, <1>3
<1>10. R.buftab = b /\ R.buftab[i] = e
  BY <1>8, <1>9
<1>11. PICK S : S = [R EXCEPT !.buftab[i].list = Tail(pool.buftab[i].list)]
  OBVIOUS
<1>12. S = [R EXCEPT !.buftab = [R.buftab EXCEPT ![i] = [R.buftab[i] EXCEPT !.list = t]]]
  BY <1>4, <1>11
<1>14. S = [R EXCEPT !.buftab = a]
  BY <1>6, <1>8, <1>10, <1>12
<1>15. S = [buftab |-> a, sems |-> pool.sems, call |-> pool.call, held |-> pool.held]
  BY <1>9, <1>14
<1>16. S.held = pool.held /\ S.call = pool.call
  BY <1>15
<1>17. PICK U : U = [S EXCEPT !.held[p] = pool.held[p] \cup {[buf |-> Head(pool.buftab[i].list), id |-> i]}]
  OBVIOUS
<1>18. unlinked(p, i, sem) = [U EXCEPT !.call[p] = NoPoolCall]
  BY <1>3, <1>11, <1>17, Zenon DEF unlinked
<1>19. U = [S EXCEPT !.held = [S.held EXCEPT ![p] = pool.held[p] \cup {x}]]
  BY <1>4, <1>17
<1>20. h = [pool.held EXCEPT ![p] = pool.held[p] \cup {x}]
  BY <1>6
<1>21. U = [S EXCEPT !.held = h]
  BY <1>16, <1>19, <1>20
<1>22. U = [buftab |-> a, sems |-> pool.sems, call |-> pool.call, held |-> h] /\ U.call = pool.call
  BY <1>15, <1>21
<1>24. unlinked(p, i, sem) = [U EXCEPT !.call = c]
  BY <1>6, <1>18, <1>22
<1>23. unlinked(p, i, sem) = [buftab |-> a, sems |-> pool.sems, call |-> c, held |-> h]
  BY <1>22, <1>24
<1> QED
  BY <1>4, <1>6, <1>7, <1>23 DEF PoolSet

(* The record after freebuf, whether or not it lets somebody through.      *)
LEMMA FreedParts ==
  ASSUME PoolTyped(pool), NEW p \in PoolUsers, NEW b \in pool.held[p], b.id \in DOMAIN pool.buftab, freebuf(p, b)
  PROVE  pool' = PoolSet(pool, b.id, signalled(pool.buftab[b.id].bpsem), << b.buf >> \o pool.buftab[b.id].list,
                         [q \in PoolUsers |-> IF q \in woken(pool.buftab[b.id].bpsem)
                                              THEN [pool.call[q] EXCEPT !.at = "unlink"] ELSE pool.call[q]],
                         [pool.held EXCEPT ![p] = @ \ {b}])
<1>1. pool = [buftab |-> pool.buftab, sems |-> pool.sems, call |-> pool.call, held |-> pool.held]
  BY PoolFields
<1>2. DOMAIN pool.buftab = 1 .. Len(pool.buftab) /\ pool.buftab \in Seq(PoolEntries)
  BY PoolFields
<1>3. PICK i, l, d : i = b.id /\ l = << b.buf >> \o pool.buftab[i].list /\ d = signalled(pool.buftab[i].bpsem)
  OBVIOUS
<1>4. i \in DOMAIN pool.buftab
  BY <1>3
<1>5. PICK e, B, R : /\ e = [pool.buftab[i] EXCEPT !.list = l] /\ B = [pool.buftab EXCEPT ![i] = e]
                     /\ R = [pool EXCEPT !.buftab = B]
  OBVIOUS
<1>6. e = [bpsize |-> pool.buftab[i].bpsize, bpsem |-> pool.buftab[i].bpsem, list |-> l,
           memory |-> pool.buftab[i].memory]
  <2>1. [pool.buftab[i] EXCEPT !.list = l]
          = [bpsize |-> pool.buftab[i].bpsize, bpsem |-> pool.buftab[i].bpsem, list |-> l,
             memory |-> pool.buftab[i].memory]
    BY <1>4, EntryParts, Zenon
  <2> QED
    BY <2>1, <1>5
<1>7. PICK c : c = [q \in PoolUsers |-> IF q \in woken(pool.buftab[b.id].bpsem)
                                        THEN [pool.call[q] EXCEPT !.at = "unlink"] ELSE pool.call[q]]
  OBVIOUS
<1>8. PICK f, h, a : /\ f = [e EXCEPT !.bpsem = d] /\ h = [pool.held EXCEPT ![p] = @ \ {b}]
                     /\ a = [pool.buftab EXCEPT ![i] = f]
  OBVIOUS
<1>9. f = [bpsize |-> pool.buftab[i].bpsize, bpsem |-> d, list |-> l, memory |-> pool.buftab[i].memory]
  BY <1>6, <1>8
<1>10. B[i] = e /\ [B EXCEPT ![i] = f] = a
  BY <1>2, <1>4, <1>5, <1>8
<1>11. R = [buftab |-> B, sems |-> pool.sems, call |-> pool.call, held |-> pool.held]
  BY <1>1, <1>5
<1>12. R.buftab = B /\ R.buftab[i] = e
  BY <1>10, <1>11
<1>13. PICK S : S = [R EXCEPT !.buftab[i].bpsem = d]
  OBVIOUS
<1>14. S = [R EXCEPT !.buftab = [R.buftab EXCEPT ![i] = [R.buftab[i] EXCEPT !.bpsem = d]]]
  BY <1>13
<1>15. S = [R EXCEPT !.buftab = a]
  BY <1>8, <1>10, <1>12, <1>14
<1>16. S = [buftab |-> a, sems |-> pool.sems, call |-> pool.call, held |-> pool.held]
  BY <1>11, <1>15
<1>17. S.held = pool.held /\ S.call = pool.call
  BY <1>16
<1>18. PICK U : U = [S EXCEPT !.held[p] = pool.held[p] \ {b}]
  OBVIOUS
<1>19. pool' = [U EXCEPT !.call = c]
  BY <1>3, <1>5, <1>7, <1>13, <1>18, Zenon DEF freebuf
<1>20. U = [S EXCEPT !.held = [S.held EXCEPT ![p] = pool.held[p] \ {b}]]
  BY <1>18
<1>21. h = [pool.held EXCEPT ![p] = pool.held[p] \ {b}]
  BY <1>8
<1>22. U = [S EXCEPT !.held = h]
  BY <1>17, <1>20, <1>21
<1>23. U = [buftab |-> a, sems |-> pool.sems, call |-> pool.call, held |-> h]
  BY <1>16, <1>22
<1>24. pool' = [buftab |-> a, sems |-> pool.sems, call |-> c, held |-> h]
  BY <1>19, <1>23
<1>25. pool' = PoolSet(pool, i, d, l, c, h)
  BY <1>8, <1>9, <1>24 DEF PoolSet
<1> QED
  BY <1>3, <1>7, <1>8, <1>25, Zenon

(* The calls on a pool keep the invariant.                                 *)
LEMMA GetbufKeeps ==
  ASSUME PoolState(pool), NEW p \in PoolUsers, NEW i \in Pools, getbuf(p, i)
  PROVE  PoolState(pool') /\ MemoryOf(pool') = MemoryOf(pool)
<1>1. PoolTyped(pool) /\ PoolSound(pool, i) /\ i \in DOMAIN pool.buftab /\ pool.call[p].at = "idle"
  BY DEF PoolState, Pools, getbuf, pool_at
<1>2. PICK sem, l : sem = pool.buftab[i].bpsem /\ l = pool.buftab[i].list
  OBVIOUS
<1>3. /\ IsSem(sem, PoolUsers) /\ ToSet(sem.squeue) = queued_at(pool, i)
      /\ Len(l) = counted(sem) + Cardinality(promised_at(pool, i))
  BY <1>1, <1>2 DEF PoolSound
<1>4. CASE blocks(sem)
  <2>0. PICK d, k : d = waited(sem, p) /\ k = [at |-> "wait", id |-> i]
    OBVIOUS
  <2>1. pool' = [pool EXCEPT !.buftab[i].bpsem = d, !.call[p] = k]
    BY <1>2, <1>4, <2>0 DEF getbuf
  <2>2. pool' = PoolSet(pool, i, d, pool.buftab[i].list, [pool.call EXCEPT ![p] = k], pool.held)
    BY <2>1, <1>1, SemAndCall
  <2>3. pool' = PoolSet(pool, i, waited(pool.buftab[i].bpsem, p), pool.buftab[i].list,
                        [pool.call EXCEPT ![p] = [at |-> "wait", id |-> i]], pool.held)
    BY <2>0, <2>2, <1>2, Zenon
  <2>4. blocks(pool.buftab[i].bpsem) /\ i \in DOMAIN pool.buftab /\ pool.call[p].at = "idle"
    BY <1>1, <1>2, <1>4
  <2> QED
    BY <2>3, <2>4, WaitsForBuffer
<1>5. CASE ~blocks(sem)
  <2>1. pool' = unlinked(p, i, waited(sem, p))
    BY <1>2, <1>5 DEF getbuf
  <2>2. p \notin queued_at(pool, i) /\ p \notin promised_at(pool, i)
    BY <1>1 DEF queued_at, promised_at
  <2>3. PICK d : d = waited(sem, p)
    OBVIOUS
  <2>4. /\ IsSem(d, PoolUsers) /\ ToSet(d.squeue) = queued_at(pool, i)
        /\ counted(sem) > 0 /\ counted(d) = counted(sem) - 1
    <3>1. IsSem(sem, PoolUsers) /\ p \notin ToSet(sem.squeue)
      BY <2>2, <1>3
    <3> QED
      BY <3>1, <2>3, <1>3, <1>5, SemWaited
  <2>5. PICK n : n = Cardinality(promised_at(pool, i)) /\ n \in Nat
    <3>1. promised_at(pool, i) \subseteq PoolUsers
      BY DEF promised_at
    <3>2. IsFiniteSet(promised_at(pool, i))
      BY <3>1, PoolAssumption, FS_Subset
    <3> QED
      BY <3>2, FS_CardinalityType
  <2>6. promised_at(pool, i) \ {p} = promised_at(pool, i)
    BY <2>2
  <2>7. counted(sem) \in Nat
    BY <1>3, CountedNat
  <2>8. Len(l) - 1 = counted(d) + Cardinality(promised_at(pool, i) \ {p}) /\ Len(l) > 0
    <3>1. Cardinality(promised_at(pool, i) \ {p}) = n /\ Len(l) = counted(sem) + n
      BY <2>5, <2>6, <1>3
    <3> QED
      BY <2>4, <2>5, <2>7, <3>1
  <2>9. l # << >>
    BY <2>8
  <2>11. unlinked(p, i, d)
           = PoolSet(pool, i, d, Tail(pool.buftab[i].list), [pool.call EXCEPT ![p] = NoPoolCall],
                     [pool.held EXCEPT ![p] = @ \cup {[buf |-> Head(pool.buftab[i].list), id |-> i]}])
    BY <1>1, UnlinkedParts
  <2>12. pool' = PoolSet(pool, i, d, Tail(pool.buftab[i].list), [pool.call EXCEPT ![p] = NoPoolCall],
                     [pool.held EXCEPT ![p] = @ \cup {[buf |-> Head(pool.buftab[i].list), id |-> i]}])
    BY <2>1, <2>3, <2>11, Zenon
  <2>13. pool.call[p].at # "wait" /\ (pool.call[p].at = "unlink" => pool.call[p].id = i)
    BY <1>1
  <2> QED
    <3>1. /\ pool.buftab[i].list # << >> /\ i \in DOMAIN pool.buftab
          /\ Len(pool.buftab[i].list) - 1 = counted(d) + Cardinality(promised_at(pool, i) \ {p})
      BY <2>8, <2>9, <1>1, <1>2
    <3>2. IsSem(d, PoolUsers) /\ ToSet(d.squeue) = queued_at(pool, i)
      BY <2>4
    <3> QED
      BY <3>1, <3>2, <2>12, <2>13, TakesBuffer
<1> QED
  BY <1>4, <1>5

LEMMA GetbufEnds ==
  ASSUME PoolState(pool), NEW p \in PoolUsers, getbuf_after_wait(p)
  PROVE  PoolState(pool') /\ MemoryOf(pool') = MemoryOf(pool)
<1>1. PICK i : i = pool.call[p].id
  OBVIOUS
<1>2. PoolTyped(pool) /\ pool.call[p].at = "unlink"
  BY DEF PoolState, getbuf_after_wait, pool_at
<1>3. i \in DOMAIN pool.buftab /\ PoolSound(pool, i)
  BY <1>1, <1>2 DEF PoolTyped, PoolState
<1>4. PICK sem, l : sem = pool.buftab[i].bpsem /\ l = pool.buftab[i].list
  OBVIOUS
<1>5. /\ IsSem(sem, PoolUsers) /\ ToSet(sem.squeue) = queued_at(pool, i)
      /\ Len(l) = counted(sem) + Cardinality(promised_at(pool, i))
  BY <1>3, <1>4 DEF PoolSound
<1>6. p \in promised_at(pool, i)
  BY <1>1, <1>2 DEF promised_at
<1>7. PICK n, m : n = Cardinality(promised_at(pool, i)) /\ m = Cardinality(promised_at(pool, i) \ {p})
  OBVIOUS
<1>8. n \in Nat /\ m \in Nat /\ m = n - 1
  <2>1. promised_at(pool, i) \subseteq PoolUsers
    BY DEF promised_at
  <2>2. IsFiniteSet(promised_at(pool, i))
    BY <2>1, PoolAssumption, FS_Subset
  <2>3. IsFiniteSet(promised_at(pool, i) \ {p}) /\ m = n - 1
    BY <2>2, <1>6, <1>7, FS_RemoveElement
  <2> QED
    BY <2>2, <2>3, <1>7, FS_CardinalityType
<1>9. counted(sem) \in Nat
  BY <1>5, CountedNat
<1>10. Len(l) - 1 = counted(sem) + Cardinality(promised_at(pool, i) \ {p}) /\ Len(l) > 0
  BY <1>5, <1>7, <1>8, <1>9
<1>11. l # << >>
  BY <1>10
<1>13. unlinked(p, i, sem)
         = PoolSet(pool, i, sem, Tail(pool.buftab[i].list), [pool.call EXCEPT ![p] = NoPoolCall],
                   [pool.held EXCEPT ![p] = @ \cup {[buf |-> Head(pool.buftab[i].list), id |-> i]}])
  BY <1>2, <1>3, UnlinkedParts
<1>14. pool' = unlinked(p, i, sem)
  BY <1>1, <1>4 DEF getbuf_after_wait
<1>15. pool' = PoolSet(pool, i, sem, Tail(pool.buftab[i].list), [pool.call EXCEPT ![p] = NoPoolCall],
                   [pool.held EXCEPT ![p] = @ \cup {[buf |-> Head(pool.buftab[i].list), id |-> i]}])
  BY <1>13, <1>14, Zenon
<1>16. pool.call[p].at # "wait" /\ (pool.call[p].at = "unlink" => pool.call[p].id = i)
  BY <1>1, <1>2
<1> QED
  <2>1. /\ pool.buftab[i].list # << >> /\ i \in DOMAIN pool.buftab
        /\ Len(pool.buftab[i].list) - 1 = counted(sem) + Cardinality(promised_at(pool, i) \ {p})
    BY <1>3, <1>4, <1>10, <1>11
  <2>2. IsSem(sem, PoolUsers) /\ ToSet(sem.squeue) = queued_at(pool, i)
    BY <1>5
  <2> QED
    BY <2>1, <2>2, <1>15, <1>16, TakesBuffer

LEMMA FreebufKeeps ==
  ASSUME PoolState(pool), NEW p \in PoolUsers, NEW b \in pool.held[p], freebuf(p, b)
  PROVE  PoolState(pool') /\ MemoryOf(pool') = MemoryOf(pool)
<1>1. PoolTyped(pool) /\ b.id \in DOMAIN pool.buftab
  BY DEF PoolState, PoolTyped
<1>2. pool' = PoolSet(pool, b.id, signalled(pool.buftab[b.id].bpsem), << b.buf >> \o pool.buftab[b.id].list,
                      [q \in PoolUsers |-> IF q \in woken(pool.buftab[b.id].bpsem)
                                           THEN [pool.call[q] EXCEPT !.at = "unlink"] ELSE pool.call[q]],
                      [pool.held EXCEPT ![p] = @ \ {b}])
  BY <1>1, FreedParts
<1> QED
  BY <1>1, <1>2, FreesBuffer

LEMMA KillKeeps ==
  ASSUME PoolState(pool), NEW p \in PoolUsers, kill_getbuf(p)
  PROVE  PoolState(pool') /\ MemoryOf(pool') = MemoryOf(pool)
<1>1. PICK i : i = pool.call[p].id
  OBVIOUS
<1>2. PoolTyped(pool) /\ pool.call[p].at = "wait"
  BY DEF PoolState, kill_getbuf, pool_at
<1>3. i \in DOMAIN pool.buftab
  BY <1>1, <1>2 DEF PoolTyped
<1>d. PICK d : d = killed(pool.buftab[i].bpsem, p)
  OBVIOUS
<1>4. pool' = [pool EXCEPT !.buftab[i].bpsem = d, !.call[p] = NoPoolCall]
  BY <1>1, <1>d DEF kill_getbuf
<1>5. pool' = PoolSet(pool, i, d, pool.buftab[i].list, [pool.call EXCEPT ![p] = NoPoolCall], pool.held)
  BY <1>2, <1>3, <1>4, SemAndCall
<1>6. pool' = PoolSet(pool, i, killed(pool.buftab[i].bpsem, p), pool.buftab[i].list,
                      [pool.call EXCEPT ![p] = NoPoolCall], pool.held)
  BY <1>5, <1>d, Zenon
<1> QED
  <2>1. PoolState(pool) /\ pool.call[p].at = "wait" /\ pool.call[p].id = i
    BY <1>1, <1>2
  <2> QED
    BY <2>1, <1>3, <1>6, KillsGetbuf

(* What mkbufpool asks getmem for.                                         *)
LEMMA PoolRequest ==
  ASSUME NEW s \in PoolShapes
  PROVE  /\ s[2] \in Nat \ {0} /\ round4(s[1]) \in Nat
         /\ s[2] * (round4(s[1]) + IdBytes) \in 1 .. AddressSpace - 8
<1>1. s[1] \in Nat /\ s[2] \in Nat \ {0} /\ s[2] * (round4(s[1]) + IdBytes) <= AddressSpace - 8
  BY PoolAssumption
<1>2. round4(s[1]) \in Nat
  BY <1>1 DEF round4
<1>3. PICK w, n : w = round4(s[1]) + IdBytes /\ n = s[2]
  OBVIOUS
<1>4. w \in Nat \ {0} /\ n \in Nat \ {0}
  BY <1>1, <1>2, <1>3 DEF IdBytes
<1>5. n * w \in Nat \ {0}
  <2>1. PICK m \in Nat : n = m + 1
    <3>1. n - 1 \in Nat /\ n = (n - 1) + 1
      BY <1>4
    <3> QED
      BY <3>1
  <2>2. n * w = m * w + w /\ m * w \in Nat
    BY <2>1, <1>4
  <2> QED
    BY <2>2, <1>4
<1>6. AddressSpace \in Nat
  BY MemoryAssumption
<1>7. n * w <= AddressSpace - 8
  BY <1>1, <1>3
<1>8. n * w \in 1 .. AddressSpace - 8
  BY <1>5, <1>6, <1>7
<1> QED
  BY <1>1, <1>2, <1>3, <1>8

LEMMA MkbufpoolKeeps ==
  ASSUME PoolIInv, NEW s \in PoolShapes, mkbufpool(s[1], s[2])
  PROVE  PoolIInv'
<1>1. MemSound(mem) /\ PoolState(pool) /\ MemoryOf(pool) \subseteq mem.inuse
  BY DEF PoolIInv
<1>2. PICK size, request, n : /\ size = round4(s[1]) /\ request = s[2] * (size + IdBytes) /\ n = roundmb(request)
  OBVIOUS
<1>3. s[2] \in Nat \ {0} /\ size \in Nat /\ request \in 1 .. AddressSpace - 8
  BY <1>2, PoolRequest
<1>4. PICK k : k = Min(fitting(mem.memlist, n))
  OBVIOUS
<1>5. PICK base, rest : base = mem.memlist[k].addr /\ rest = without_low(mem.memlist, k, n)
  OBVIOUS
<1>6. PICK b : b = Block(base, request)
  OBVIOUS
<1>7. fitting(mem.memlist, n) # {}
  BY <1>2 DEF mkbufpool
<1>8. IsFreeList(mem.memlist) /\ mem = [memlist |-> mem.memlist, inuse |-> mem.inuse]
  BY <1>1 DEF MemSound
<1>9. /\ IsRequest(b) /\ covers(b) \subseteq FreeOf(mem.memlist)
      /\ IsFreeList(rest) /\ FreeOf(rest) = FreeOf(mem.memlist) \ covers(b)
  BY <1>2, <1>3, <1>4, <1>5, <1>6, <1>7, <1>8, GetsLow
<1>10. CASE pool.sems = 0
  <2>1. mem' = [mem EXCEPT !.memlist = freed(rest, base, request)] /\ pool' = pool
    BY <1>2, <1>4, <1>5, <1>10 DEF mkbufpool
  <2>2. PICK list : list = freed(rest, base, request)
    OBVIOUS
  <2>3. list = freed(rest, b.addr, b.mlength)
    BY <2>2, <1>6, BlockFields
  <2>4. covers(b) \cap FreeOf(rest) = {} /\ covers(b) \subseteq Heap /\ FreeOf(rest) \subseteq Heap
    BY <1>1, <1>9 DEF MemSound
  <2>5. IsFreeList(list) /\ FreeOf(list) = FreeOf(rest) \cup covers(b)
    BY <2>3, <2>4, <1>9, FreedJoins
  <2>6. FreeOf(list) = FreeOf(mem.memlist)
    BY <2>5, <1>9
  <2>7. mem' = [memlist |-> list, inuse |-> mem.inuse]
    BY <2>1, <2>2, <1>8
  <2>8. MemSound(mem') /\ mem'.inuse = mem.inuse
    BY <2>5, <2>6, <2>7, <1>1, MemSame
  <2> QED
    BY <2>1, <2>8, <1>1 DEF PoolIInv
<1>11. CASE pool.sems # 0
  <2>1. PICK e : e = [bpsize |-> size, bpsem |-> semcreate(s[2]), list |-> layout(base, size, s[2]), memory |-> b]
    OBVIOUS
  <2>2. /\ mem' = [memlist |-> rest, inuse |-> mem.inuse \cup {b}]
        /\ pool' = [pool EXCEPT !.sems = @ - 1, !.buftab = Append(@, e)]
    BY <2>1, <1>2, <1>4, <1>5, <1>6, <1>11 DEF mkbufpool
  <2>3. MemSound(mem')
    BY <2>2, <1>1, <1>9, MemTaken
  <2>4. pool = [buftab |-> pool.buftab, sems |-> pool.sems, call |-> pool.call, held |-> pool.held]
    BY <1>1, PoolFields DEF PoolState
  <2>5. pool' = [buftab |-> Append(pool.buftab, e), sems |-> pool.sems - 1, call |-> pool.call, held |-> pool.held]
    BY <2>2, <2>4
  <2>6. b \in MemBlocks /\ b.mlength = s[2] * (size + IdBytes) /\ b.addr = base
    <3>1. b.mlength = request /\ b.addr = base
      BY <1>6, BlockFields
    <3> QED
      BY <3>1, <1>2, <1>9 DEF IsRequest
  <2>7. pool' = PoolAdds(pool, EntryMade(b, s[2], size))
    BY <2>1, <2>5, <2>6 DEF PoolAdds, EntryMade
  <2>8. PoolState(pool') /\ MemoryOf(pool') \subseteq MemoryOf(pool) \cup {b}
    <3>1. HoldsPool(b, s[2], size)
      BY <2>6 DEF HoldsPool
    <3>2. PoolMade(pool, PoolAdds(pool, EntryMade(b, s[2], size)), b)
      BY <3>1, <1>1, <1>3, <1>11, MakesPool
    <3> QED
      BY <3>2, <2>7 DEF PoolMade
  <2>9. MemoryOf(pool') \subseteq mem'.inuse
    BY <2>2, <2>8, <1>1
  <2> QED
    BY <2>3, <2>8, <2>9 DEF PoolIInv
<1> QED
  BY <1>10, <1>11

(* No pools, and the heap as meminit leaves it.                            *)
LEMMA PoolInitial ==
  ASSUME MemInit, PoolInit
  PROVE  PoolIInv
<1>1. MemSound(mem)
  BY MemInitSound DEF MemIInv
<1>2. /\ pool.buftab = << >> /\ pool.sems = PoolSems
      /\ pool.call = [p \in PoolUsers |-> NoPoolCall] /\ pool.held = [p \in PoolUsers |-> {}]
      /\ pool = [buftab |-> pool.buftab, sems |-> pool.sems, call |-> pool.call, held |-> pool.held]
  BY DEF PoolInit
<1>3. NoPoolCall \in PoolCalls /\ NoPoolCall.at = "idle"
  BY DEF NoPoolCall, PoolCalls
<1>4. pool \in PoolRecords
  <2>1. pool.buftab \in Seq(PoolEntries)
    BY <1>2
  <2>2. pool.sems \in Nat
    BY <1>2, PoolAssumption
  <2>3. pool.call \in [PoolUsers -> PoolCalls] /\ pool.held \in [PoolUsers -> SUBSET HeldBuffers]
    BY <1>2, <1>3
  <2>4. pool = [buftab |-> pool.buftab, sems |-> pool.sems, call |-> pool.call, held |-> pool.held]
    BY <1>2
  <2> QED
    BY <2>1, <2>2, <2>3, <2>4 DEF PoolRecords
<1>5. PoolTyped(pool)
  BY <1>2, <1>3, <1>4 DEF PoolTyped
<1>6. DOMAIN pool.buftab = {}
  BY <1>2
<1>7. PoolState(pool)
  BY <1>5, <1>6 DEF PoolState
<1>8. MemoryOf(pool) = {}
  BY <1>6 DEF MemoryOf
<1> QED
  BY <1>1, <1>7, <1>8 DEF PoolIInv

(* The pools and the other users of the heap keep each other whole.        *)
LEMMA PoolNextKeeps ==
  ASSUME PoolIInv, ~WrapSizes, PoolNext
  PROVE  PoolIInv'
<1>1. MemSound(mem) /\ PoolState(pool) /\ MemoryOf(pool) \subseteq mem.inuse
  BY DEF PoolIInv
<1>2. ASSUME PoolState(pool') /\ MemoryOf(pool') = MemoryOf(pool), UNCHANGED mem
      PROVE  PoolIInv'
  BY <1>1, <1>2 DEF PoolIInv
<1>3. ASSUME NEW s \in PoolShapes, mkbufpool(s[1], s[2])
      PROVE  PoolIInv'
  BY <1>3, MkbufpoolKeeps
<1>4. ASSUME NEW p \in PoolUsers, NEW i \in Pools, getbuf(p, i)
      PROVE  PoolIInv'
  <2>1. UNCHANGED mem
    BY <1>4 DEF getbuf
  <2> QED
    BY <2>1, <1>1, <1>2, <1>4, GetbufKeeps
<1>5. ASSUME NEW p \in PoolUsers, getbuf_after_wait(p)
      PROVE  PoolIInv'
  <2>1. UNCHANGED mem
    BY <1>5 DEF getbuf_after_wait
  <2> QED
    BY <2>1, <1>1, <1>2, <1>5, GetbufEnds
<1>6. ASSUME NEW p \in PoolUsers, NEW b \in pool.held[p], freebuf(p, b)
      PROVE  PoolIInv'
  <2>1. UNCHANGED mem
    BY <1>6 DEF freebuf
  <2> QED
    BY <2>1, <1>1, <1>2, <1>6, FreebufKeeps
<1>7. ASSUME NEW p \in PoolUsers, kill_getbuf(p)
      PROVE  PoolIInv'
  <2>1. UNCHANGED mem
    BY <1>7 DEF kill_getbuf
  <2> QED
    BY <2>1, <1>1, <1>2, <1>7, KillKeeps
<1>8. ASSUME NEW n \in Sizes, getmem(n) \/ getstk(n), UNCHANGED pool
      PROVE  PoolIInv'
  <2>1. MemIInv
    BY <1>1 DEF MemIInv
  <2>2. MemIInv' /\ mem.inuse \subseteq mem'.inuse
    BY <2>1, <1>8, GetmemSound
  <2>3. MemSound(mem')
    BY <2>2 DEF MemIInv
  <2> QED
    BY <2>2, <2>3, <1>1, <1>8 DEF PoolIInv
<1>9. ASSUME NEW b \in Freeable \ PoolMemory, freemem(b), UNCHANGED pool
      PROVE  PoolIInv'
  <2>1. MemIInv
    BY <1>1 DEF MemIInv
  <2>2. MemIInv' /\ mem.inuse \ {b} \subseteq mem'.inuse
    BY <2>1, <1>9, FreememSound
  <2>3. MemSound(mem')
    BY <2>2 DEF MemIInv
  <2>4. b \notin MemoryOf(pool)
    BY DEF PoolMemory, Pools, MemoryOf
  <2>5. MemoryOf(pool) \subseteq mem'.inuse
    BY <2>2, <2>4, <1>1
  <2> QED
    BY <2>3, <2>5, <1>1, <1>9 DEF PoolIInv
<1> QED
  BY <1>3, <1>4, <1>5, <1>6, <1>7, <1>8, <1>9 DEF PoolNext

(* The inductive invariant of the pools and their heap.                    *)
LEMMA PoolStep ==
  ASSUME PoolIInv, ~WrapSizes, [PoolNext]_<<mem, pool>>
  PROVE  PoolIInv'
<1>1. ASSUME UNCHANGED <<mem, pool>> PROVE PoolIInv'
  BY <1>1 DEF PoolIInv
<1> QED
  BY <1>1, PoolNextKeeps

(* Every buffer of every pool is on its list or with one process, has room *)
(* of its own in memory that getmem gave the pool, and the semaphore       *)
(* counts the buffers nobody was promised: for any number of processes and *)
(* pools, of whatever sizes, whoever of those let through runs when, also  *)
(* when one that waits is killed, beside users of the heap who neither ask *)
(* for nor release what reaches 2^32 (~WrapSizes).                         *)
THEOREM SpecBuffersConserved ==
  ASSUME ~WrapSizes
  PROVE  PoolSpec => []BuffersConserved
<1>1. MemInit /\ PoolInit => PoolIInv
  BY PoolInitial
<1>2. PoolIInv /\ [PoolNext]_<<mem, pool>> => PoolIInv'
  BY PoolStep
<1>3. PoolIInv => BuffersConserved
  BY PoolsConserved
<1> QED
  BY <1>1, <1>2, <1>3, PTL DEF PoolSpec

(* The heap stays whole, whatever the pools and the other users of the     *)
(* heap ask for and give back below 2^32 (~WrapSizes), also when mkbufpool *)
(* gets no semaphore and returns the memory.                               *)
THEOREM SpecHeapIsWhole ==
  ASSUME ~WrapSizes
  PROVE  PoolSpec => []HeapIsWhole
<1>1. MemInit /\ PoolInit => PoolIInv
  BY PoolInitial
<1>2. PoolIInv /\ [PoolNext]_<<mem, pool>> => PoolIInv'
  BY PoolStep
<1>3. PoolIInv => HeapIsWhole
  BY WholeHeap DEF PoolIInv, MemIInv
<1> QED
  BY <1>1, <1>2, <1>3, PTL DEF PoolSpec

=============================================================================
