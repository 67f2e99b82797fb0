-------------------------------- MODULE XinuEth --------------------------------
(***************************************************************************)
(* The Ethernet driver (device/eth): the rings of descriptors that the NIC *)
(* fills and sends, and the driver empties and fills.  The NIC owns the    *)
(* descriptors from its head to its tail, and none when these are equal.   *)
(* The fields of the record eth:                                           *)
(*   rdh, rdt, rxdone        head and tail of the receive ring, and the    *)
(*                           descriptors whose status is not 0             *)
(*   rxHead, rxTail, isem    where the driver reads and where it counts    *)
(*   tdh, tdt, txdone, txHead, osem   the same of the transmit ring        *)
(*   rxt0, txdw              causes of the interrupt that is pending       *)
(*   at                      what each process does next                   *)
(* Bound: FillTx.  A definition named for a slip is the mutant of the one  *)
(* after it.                                                               *)
(***************************************************************************)
EXTENDS XinuSemUse, FiniteSets, FiniteSetsExt

CONSTANTS EthReaders, EthWriters,            \* process IDs of those that read, and write
          E1000_RX_RING_SIZE, E1000_TX_RING_SIZE,
          E1000_RING_BOUNDARY,               \* descriptors are given back so many at a time
          FillTx                             \* bound: whether the transmit ring, which the NIC
                                             \* takes for empty when it is full, may be filled

ASSUME EthAssumption ==
  /\ EthReaders \subseteq Nat /\ EthWriters \subseteq Nat /\ EthReaders \cap EthWriters = {}
  /\ IsFiniteSet(EthReaders) /\ IsFiniteSet(EthWriters)
  /\ E1000_TX_RING_SIZE \in Nat \ {0, 1} /\ E1000_RING_BOUNDARY \in Nat \ {0}
  /\ E1000_RX_RING_SIZE = 2 * E1000_RING_BOUNDARY
  /\ FillTx \in BOOLEAN

VARIABLE eth

EthUsers == EthReaders \cup EthWriters
rx_next(i, n) == (i + n) % E1000_RX_RING_SIZE
tx_next(i, n) == (i + n) % E1000_TX_RING_SIZE

EthInit ==
  eth = [rdh |-> 0, rdt |-> E1000_RX_RING_SIZE - E1000_RING_BOUNDARY, rxdone |-> {},
         rxHead |-> 0, rxTail |-> 0, isem |-> semcreate(0),
         tdh |-> 0, tdt |-> 0, txdone |-> {}, txHead |-> 0, osem |-> semcreate(E1000_TX_RING_SIZE),
         rxt0 |-> FALSE, txdw |-> FALSE,
         at |-> [p \in EthUsers |-> "idle"]]

-----------------------------------------------------------------------------
(* The NIC: a packet that arrives when it owns no descriptor is lost.      *)
nic_receive ==
  /\ eth.rdh # eth.rdt
  /\ eth' = [eth EXCEPT !.rxdone = @ \cup {eth.rdh}, !.rdh = rx_next(@, 1), !.rxt0 = TRUE]

nic_transmit ==
  /\ eth.tdh # eth.tdt
  /\ eth' = [eth EXCEPT !.txdone = @ \cup {eth.tdh}, !.tdh = tx_next(@, 1), !.txdw = TRUE]

done_from_but_the_last(done, i, size) ==
  Max({n \in 0 .. size - 1 : \A k \in 0 .. n - 1 : (i + k) % size \in done})

(* How many descriptors from i on, at most the whole ring of that size,    *)
(* the NIC is done with.                                                   *)
done_from(done, i, size) ==
  Max({n \in 0 .. size : \A k \in 0 .. n - 1 : (i + k) % size \in done})

released_by(at, sem, n) == [p \in EthUsers |-> IF p \in wokenn(sem, n) THEN "go_on" ELSE at[p]]

(* ethhandler: what has arrived is counted, what was sent is reclaimed.    *)
ethhandler ==
  LET rx == IF eth.rxt0 THEN done_from(eth.rxdone, eth.rxTail, E1000_RX_RING_SIZE) ELSE 0
      tx == IF eth.txdw THEN done_from(eth.txdone, eth.txHead, E1000_TX_RING_SIZE) ELSE 0
  IN  /\ eth.rxt0 \/ eth.txdw
      /\ eth' = [eth EXCEPT
           !.rxTail = rx_next(@, rx), !.isem = signalledn(@, rx),
           !.txHead = tx_next(@, tx), !.osem = signalledn(@, tx),
           !.txdone = @ \ {tx_next(eth.txHead, k) : k \in 0 .. tx - 1},
           !.at = released_by(released_by(@, eth.isem, rx), eth.osem, tx),
           !.rxt0 = FALSE, !.txdw = FALSE]

-----------------------------------------------------------------------------
eth_wait(p, sem) == [eth EXCEPT ![sem] = waited(@, p), !.at[p] = "wait"]

ethread_wait(p) ==
  /\ eth.at[p] = "idle" /\ blocks(eth.isem)
  /\ eth' = eth_wait(p, "isem")

(* Whether reading the descriptor gives others to the NIC.                 *)
given_back(head) == head % E1000_RING_BOUNDARY = 0

(* The packet at the head is read, and its descriptor cleared.             *)
ethread(p) ==
  /\ eth.at[p] = "go_on" \/ (eth.at[p] = "idle" /\ ~blocks(eth.isem))
  /\ eth' = [eth EXCEPT !.isem = IF eth.at[p] = "idle" THEN waited(@, p) ELSE @,
                        !.rxdone = @ \ {eth.rxHead},
                        !.rdt = IF given_back(eth.rxHead) THEN rx_next(@, E1000_RING_BOUNDARY) ELSE @,
                        !.rxHead = rx_next(@, 1), !.at[p] = "idle"]

ethwrite_wait(p) ==
  /\ eth.at[p] = "idle" /\ blocks(eth.osem)
  /\ eth' = eth_wait(p, "osem")

(* The driver's own txTail is where TDT is.                                *)
ethwrite(p) ==
  /\ eth.at[p] = "go_on" \/ (eth.at[p] = "idle" /\ ~blocks(eth.osem))
  /\ FillTx \/ tx_next(eth.tdt, 1) # eth.tdh
  /\ eth' = [eth EXCEPT !.osem = IF eth.at[p] = "idle" THEN waited(@, p) ELSE @,
                        !.txdone = @ \ {eth.tdt}, !.tdt = tx_next(@, 1), !.at[p] = "idle"]

EthNext ==
  \/ nic_receive \/ nic_transmit \/ ethhandler
  \/ \E p \in EthReaders : ethread_wait(p) \/ ethread(p)
  \/ \E p \in EthWriters : ethwrite_wait(p) \/ ethwrite(p)

EthSpec == EthInit /\ [][EthNext]_eth
-----------------------------------------------------------------------------
eth_let_go_on(users) == Cardinality({p \in users : eth.at[p] = "go_on"})

(* Driver and NIC agree on who has which descriptor: the NIC never has one *)
(* whose packet is still to be read, and what it is done with are the      *)
(* descriptors at the heads of the driver; a process that isem lets        *)
(* through finds a packet at the head, one that osem lets through a        *)
(* descriptor that neither the NIC nor the reclaiming has still to do      *)
(* with; and whatever the NIC is done with is counted, or an interrupt is  *)
(* pending that will count it.                                             *)
RingsAgree ==
  LET readable == counted(eth.isem) + eth_let_go_on(EthReaders)
      writable == counted(eth.osem) + eth_let_go_on(EthWriters)
      tx_owned == (eth.tdt - eth.tdh + E1000_TX_RING_SIZE) % E1000_TX_RING_SIZE
      rx_owned == (eth.rdt - eth.rdh + E1000_RX_RING_SIZE) % E1000_RX_RING_SIZE
  IN  /\ \A k \in 0 .. rx_owned - 1 : rx_next(eth.rdh, k) \notin eth.rxdone
      /\ done_from(eth.rxdone, eth.rxHead, E1000_RX_RING_SIZE) = Cardinality(eth.rxdone)
      /\ done_from(eth.txdone, eth.txHead, E1000_TX_RING_SIZE) = Cardinality(eth.txdone)
      /\ readable <= Cardinality(eth.rxdone)
      /\ ~eth.rxt0 => readable = Cardinality(eth.rxdone)
      /\ writable + Cardinality(eth.txdone) + tx_owned = E1000_TX_RING_SIZE
      /\ ~eth.txdw => eth.txdone = {}
=============================================================================
