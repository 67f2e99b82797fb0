----------------------------- MODULE XinuClasses ------------------------------
(***************************************************************************)
(* What the two changed schedulers share (MLFQ and Lottery: create.c,      *)
(* ready.c): system processes, made by create with a priority, are on the  *)
(* ready list with the null process and run before the user processes,     *)
(* made by create_user_process (user_process is TRUE).                     *)
(***************************************************************************)
EXTENDS XinuQueue

CONSTANT SysPrio  \* priorities of the system processes, by process ID

ASSUME ClassesAssumption ==
  DOMAIN SysPrio \subseteq Nat \ {0} /\ SysPrio \in [DOMAIN SysPrio -> Nat \ {0}]

Null   == 0
System == DOMAIN SysPrio \cup {Null}

(* prprio, and the key on the ready list, of a system process.             *)
Priority(p)  == IF p = Null THEN 0 ELSE SysPrio[p]

insert_system(readylist, p) ==
  insert(readylist, [q \in System |-> Priority(q)], p, Priority(p))

(* At the start one system process runs and the others are suspended.      *)
start_state(users, p) ==
  [q \in System \cup users |-> CASE q = p -> "CURR" [] q = Null -> "READY" [] OTHER -> "SUSP"]
=============================================================================
