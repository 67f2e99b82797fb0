----------------------------- MODULE XinuSpinLock -----------------------------
(***************************************************************************)
(* The spin lock (system/spinlock.c): a flag taken with test_and_set, an   *)
(* xchg (testandset.S), and the name of its owner.  The routines run with  *)
(* interrupts on and never block, so that a time slice may end between any *)
(* two accesses: any process may make the next step.  The fields of the    *)
(* record spin are those of the lock, and what each process does next.     *)
(* A definition named for a slip is the mutant of the one after it.        *)
(***************************************************************************)
EXTENDS Integers

CONSTANT Spinners  \* process IDs of the processes that use the lock

ASSUME SpinAssumption == Spinners \subseteq Nat

SL_AVAILABLE == -1

VARIABLE spin

spin_at(p, point) == spin.at[p] = point

SpinInit ==
  spin = [flag |-> 0, owner |-> SL_AVAILABLE, at |-> [p \in Spinners |-> "idle"]]

sl_lock(p) ==
  /\ spin_at(p, "idle")
  /\ spin' = [spin EXCEPT !.at[p] = "test_and_set"]

(* While the flag is 1 the exchange leaves it so, and is tried again.      *)
sl_test_and_set(p) ==
  /\ spin_at(p, "test_and_set") /\ spin.flag = 0
  /\ spin' = [spin EXCEPT !.flag = 1, !.at[p] = "set_owner"]

sl_set_owner(p) ==
  /\ spin_at(p, "set_owner")
  /\ spin' = [spin EXCEPT !.owner = p, !.at[p] = "held"]

sl_unlock_unchecked(p) ==
  /\ spin.at[p] \in {"held", "idle"}
  /\ spin' = [spin EXCEPT !.at[p] = "clear_flag"]

(* Also called by processes that do not hold the lock: they get SYSERR.    *)
sl_unlock(p) ==
  /\ spin.at[p] \in {"held", "idle"}
  /\ spin' = IF spin.owner = p THEN [spin EXCEPT !.at[p] = "clear_flag"] ELSE spin

sl_clear_flag(p) ==
  /\ spin_at(p, "clear_flag")
  /\ spin' = [spin EXCEPT !.flag = 0, !.at[p] = "clear_owner"]

(* By now the lock may be another's, whose name this erases: unlock will   *)
(* then refuse that process, and the flag stays set.                       *)
sl_clear_owner(p) ==
  /\ spin_at(p, "clear_owner")
  /\ spin' = [spin EXCEPT !.owner = SL_AVAILABLE, !.at[p] = "idle"]

SpinNext ==
  \E p \in Spinners :
    \/ sl_lock(p) \/ sl_test_and_set(p) \/ sl_set_owner(p)
    \/ sl_unlock(p) \/ sl_clear_flag(p) \/ sl_clear_owner(p)

SpinSpec == SpinInit /\ [][SpinNext]_spin
-----------------------------------------------------------------------------
(* Between the exchange and the clearing of the flag.                      *)
has_lock(p) == spin.at[p] \in {"set_owner", "held", "clear_flag"}

(* At most one process has the lock, and then the flag is set, whoever     *)
(* calls sl_unlock when; and the lock never carries the name of a process  *)
(* that sl_unlock would let clear another's flag: one that waits for the   *)
(* lock or has none.  (It may have no name while it is held.)              *)
SpinExclusion ==
  /\ \A p, q \in Spinners : has_lock(p) /\ has_lock(q) => p = q
  /\ spin.flag = 1 <=> \E p \in Spinners : has_lock(p)
  /\ \A p \in Spinners : spin.at[p] \in {"idle", "test_and_set"} => spin.owner # p
  /\ \A p \in Spinners : spin_at(p, "held") => spin.owner \in {p, SL_AVAILABLE}
=============================================================================
