---------------------------- MODULE XinuServices ------------------------------
(***************************************************************************)
(* The locks, the services and the drivers built on the kernel, each with  *)
(* the processes and the hardware that use it.  They share no state: one   *)
(* of them runs, the others stay as they were initialised.                 *)
(***************************************************************************)
EXTENDS XinuSpinLock, XinuActiveLock, XinuPiLock, XinuPort, XinuPool,
        XinuTty, XinuEth, XinuArp, XinuNet

VARIABLE running

services == <<spin, active, pi, port, mem, pool, tty, eth, arp, net, running>>

ServicesInit ==
  /\ running \in {"spin", "active", "pi", "port", "pool", "tty", "eth", "arp", "net"}
  /\ SpinInit /\ ActiveInit /\ PiInit /\ PortInit /\ MemInit /\ PoolInit
  /\ TtyInit /\ EthInit /\ ArpInit /\ NetInit

ServicesNext ==
  /\ UNCHANGED running
  /\ \/ running = "spin"   /\ SpinNext
        /\ UNCHANGED <<active, pi, port, mem, pool, tty, eth, arp, net>>
     \/ running = "active" /\ ActiveNext
        /\ UNCHANGED <<spin, pi, port, mem, pool, tty, eth, arp, net>>
     \/ running = "pi"     /\ PiNext
        /\ UNCHANGED <<spin, active, port, mem, pool, tty, eth, arp, net>>
     \/ running = "port"   /\ PortNext
        /\ UNCHANGED <<spin, active, pi, mem, pool, tty, eth, arp, net>>
     \/ running = "pool"   /\ PoolNext
        /\ UNCHANGED <<spin, active, pi, port, tty, eth, arp, net>>
     \/ running = "tty"    /\ TtyNext
        /\ UNCHANGED <<spin, active, pi, port, mem, pool, eth, arp, net>>
     \/ running = "eth"    /\ EthNext
        /\ UNCHANGED <<spin, active, pi, port, mem, pool, tty, arp, net>>
     \/ running = "arp"    /\ ArpNext
        /\ UNCHANGED <<spin, active, pi, port, mem, pool, tty, eth, net>>
     \/ running = "net"    /\ NetNext
        /\ UNCHANGED <<spin, active, pi, port, mem, pool, tty, eth, arp>>

ServicesSpec == ServicesInit /\ [][ServicesNext]_services
=============================================================================
