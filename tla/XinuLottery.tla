----------------------------- MODULE XinuLottery ------------------------------
(***************************************************************************)
(* The lottery scheduler (Scheduler Modifications/Lottery: resched.c,      *)
(* ready.c, insert.c, create.c).  When no system process is ready, resched *)
(* draws a ticket, rand() % total, and runs the user process that holds    *)
(* it.  The scheduler's globals are the fields of the record lottery:      *)
(*   prstate, tickets   of the process table (the keys on the list of user *)
(*                      processes are their tickets: set_tickets writes    *)
(*                      both, wherever the process is)                     *)
(*   readylist, users   the ready list and userprocesslist                 *)
(*   currpid, preempt   the running process, ticks left of its slice       *)
(* As the draw is random, the operators that reschedule give the set of    *)
(* records that may follow.                                                *)
(* A definition named for a slip is the mutant of the one after it.        *)
(***************************************************************************)
EXTENDS XinuClasses

CONSTANTS LotteryUsers,     \* process IDs of user processes
          Tickets,          \* numbers of tickets given to set_tickets
          LOTTERY_QUANTUM   \* QUANTUM

(* Bound: no ticket total overflows.                                       *)
ASSUME LotteryAssumption ==
  /\ LotteryUsers \subseteq Nat \ System
  /\ Tickets \subseteq Nat /\ LOTTERY_QUANTUM \in Nat \ {0}

VARIABLE lottery

LotteryProcs == System \cup LotteryUsers

-----------------------------------------------------------------------------
(* By tickets, and by process ID among equals, as far as the list is in    *)
(* order: set_tickets does not move a process that is on it.               *)
insert_to_user_place(users, tickets, p) ==
  LET above == Min({i \in DOMAIN users : tickets[users[i]] <= tickets[p]} \cup {Len(users) + 1})
  IN  Min({i \in above .. Len(users) :
             tickets[users[i]] # tickets[p] \/ p <= users[i]} \cup {Len(users) + 1})

insert_to_user(users, tickets, p) ==
  InsertAt(users, insert_to_user_place(users, tickets, p), p)

lottery_make_ready(m, p) ==
  IF p \in System
  THEN [m EXCEPT !.prstate[p] = "READY", !.readylist = insert_system(@, p)]
  ELSE [m EXCEPT !.prstate[p] = "READY", !.users = insert_to_user(@, m.tickets, p)]

(* counter(users, tickets)[i] is search_counter at the i-th process.       *)
search_counter(users, tickets) ==
  LET counter[i \in 0 .. Len(users)] ==
        IF i = 0 THEN 0 ELSE counter[i-1] + tickets[users[i]]
  IN  counter

total_tickets(users, tickets) == search_counter(users, tickets)[Len(users)]

winner_one_early(users, tickets, w) ==
  Min({i \in DOMAIN users : search_counter(users, tickets)[i] >= w})

(* The place of the first process whose counter is above the drawn ticket. *)
winner(users, tickets, w) ==
  Min({i \in DOMAIN users : search_counter(users, tickets)[i] > w})

run(m, p) ==
  [m EXCEPT !.currpid = p, !.prstate[p] = "CURR", !.preempt = LOTTERY_QUANTUM]

run_system(m) == run([m EXCEPT !.readylist = Tail(@)], Head(m.readylist))
run_user(m, i) == run([m EXCEPT !.users = RemoveAt(@, i)], m.users[i])

draw_the_only_one_first(m) ==
  CASE Head(m.readylist) # Null \/ m.users = << >> -> {run_system(m)}
    [] Head(m.readylist) = Null /\ Len(m.users) = 1 -> {run_user(m, 1)}
    [] Head(m.readylist) = Null /\ Len(m.users) > 1 ->
         IF m.tickets[Head(m.users)] = 0 THEN {run_system(m)}
         ELSE {run_user(m, winner(m.users, m.tickets, w)) :
                 w \in 0 .. total_tickets(m.users, m.tickets) - 1}

(* With no system process ready: the null process if there is no user      *)
(* process or the first has no ticket, the only one without a draw.        *)
draw(m) ==
  CASE \/ Head(m.readylist) # Null
       \/ m.users = << >>
       \/ m.tickets[Head(m.users)] = 0 -> {run_system(m)}
    [] Head(m.readylist) = Null /\ Len(m.users) = 1 /\ m.tickets[Head(m.users)] # 0 ->
         {run_user(m, 1)}
    [] OTHER -> {run_user(m, winner(m.users, m.tickets, w)) :
                   w \in 0 .. total_tickets(m.users, m.tickets) - 1}

lottery_resched(m) ==
  draw(IF m.prstate[m.currpid] = "CURR" THEN lottery_make_ready(m, m.currpid) ELSE m)

-----------------------------------------------------------------------------
LotteryInit ==
  \E p \in DOMAIN SysPrio :
    lottery = [prstate   |-> start_state(LotteryUsers, p),
               tickets   |-> [q \in LotteryUsers |-> 0],
               readylist |-> <<Null>>,
               users     |-> << >>,
               currpid   |-> p,
               preempt   |-> LOTTERY_QUANTUM]

(* The null process makes no calls.                                        *)
lottery_Running == lottery.currpid
lottery_InCall  == lottery_Running # Null

lottery_resume(p) ==
  /\ lottery_InCall /\ lottery.prstate[p] = "SUSP"
  /\ lottery' \in lottery_resched(lottery_make_ready(lottery, p))

lottery_suspend_still_linked(p) ==
  /\ lottery_InCall /\ lottery.prstate[p] = "READY" /\ p # Null
  /\ lottery' = [lottery EXCEPT !.prstate[p] = "SUSP"]

lottery_suspend(p) ==
  /\ lottery_InCall /\ lottery.prstate[p] = "READY" /\ p # Null
  /\ lottery' = [lottery EXCEPT !.prstate[p]  = "SUSP",
                                !.readylist = IF p \in System THEN getitem(@, p) ELSE @,
                                !.users     = IF p \in System THEN @ ELSE getitem(@, p)]

lottery_suspend_self ==
  /\ lottery_InCall
  /\ lottery' \in lottery_resched([lottery EXCEPT !.prstate[lottery_Running] = "SUSP"])

lottery_yield == lottery_InCall /\ lottery' \in lottery_resched(lottery)

(* set_tickets does not reschedule, and a queued process keeps its place.  *)
set_tickets(p, n) ==
  /\ lottery_InCall
  /\ lottery' = [lottery EXCEPT !.tickets[p] = n]

lottery_clock ==
  IF lottery.preempt = 1 THEN lottery' \in lottery_resched(lottery)
  ELSE lottery' = [lottery EXCEPT !.preempt = @ - 1]

LotteryNext ==
  \/ \E p \in LotteryProcs : lottery_resume(p) \/ lottery_suspend(p)
  \/ lottery_suspend_self \/ lottery_yield \/ lottery_clock
  \/ \E p \in LotteryUsers, n \in Tickets : set_tickets(p, n)

LotterySpec == LotteryInit /\ [][LotteryNext]_lottery
-----------------------------------------------------------------------------
(* Every process of the list that a draw is made from, in whatever order   *)
(* set_tickets has left it, wins with as many draws as it has tickets.     *)
LotteryIsFair ==
  LET users == lottery.users
      total == total_tickets(users, lottery.tickets)
  IN  total > 0 =>
        \A i \in DOMAIN users :
          Cardinality({w \in 0 .. total - 1 : winner(users, lottery.tickets, w) = i})
            = lottery.tickets[users[i]]

(* A user process gets the CPU only with a ticket, and only when no system *)
(* process wants it.                                                       *)
OnlyWinnersRun ==
  [][lottery'.currpid \in LotteryUsers /\ lottery'.currpid # lottery.currpid =>
       /\ lottery'.tickets[lottery'.currpid] > 0
       /\ lottery'.readylist = <<Null>>]_lottery

(* A process is on the one list its state and kind name, once, also after  *)
(* a winner was taken out of the middle of the list.                       *)
ListsMatchStates ==
  /\ IsInjective(lottery.readylist) /\ IsInjective(lottery.users)
  /\ ToSet(lottery.readylist) = {p \in System : lottery.prstate[p] = "READY"}
  /\ ToSet(lottery.users) = {p \in LotteryUsers : lottery.prstate[p] = "READY"}
  /\ {p \in LotteryProcs : lottery.prstate[p] = "CURR"} = {lottery_Running}
=============================================================================
