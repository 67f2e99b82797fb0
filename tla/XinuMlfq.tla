------------------------------- MODULE XinuMlfq ------------------------------
(***************************************************************************)
(* The multi-level feedback queue scheduler (MLFQ/3 Queues and 5 Queues:   *)
(* resched.c, ready.c, clkhandler.c, create.c).  System processes and the  *)
(* null process are on the ready list by priority and run first.  User     *)
(* processes are on LEVELS queues: one that has run for the allotment of   *)
(* its level moves down a level when it is next queued, and a boost, every *)
(* PRIORITY_BOOST_PERIOD ticks, moves those queued to the top.             *)
(*                                                                         *)
(* The scheduler's globals are the fields of the record mlfq:              *)
(*   prstate, level, queue_time  of the process table (prprio is 10 times  *)
(*                        the level); queue_time is not counted for system *)
(*                        processes and on the last level, where nothing   *)
(*                        reads it                                         *)
(*   queue                queue[0] is the ready list, queue[l] level l     *)
(*   sleepq, qkey         the delta list                                   *)
(*   currpid, preempt     the running process, ticks left of its slice     *)
(*   boost_timer, boost_flag                                               *)
(*   in_clock             processes the clock handler's wakeup has taken   *)
(*                        the CPU from: they go on after wakeup            *)
(* A definition named for a slip is the mutant of the one after it.        *)
(***************************************************************************)
EXTENDS XinuClasses

CONSTANTS MlfqUsers,             \* process IDs of user processes
          LEVELS,                \* 3 or 5 in the source
          TIME_ALLOTMENT,        \* ticks a process has on the first level
          PRIORITY_BOOST_PERIOD, \* ticks from boost to boost
          MLFQ_QUANTUM,          \* QUANTUM
          SleepTimes             \* delays given to sleepms

ASSUME MlfqAssumption ==
  /\ MlfqUsers \subseteq Nat \ System
  /\ {LEVELS, TIME_ALLOTMENT, PRIORITY_BOOST_PERIOD, MLFQ_QUANTUM} \subseteq Nat \ {0}
  /\ SleepTimes \subseteq Nat \ {0}

VARIABLE mlfq

Levels    == 1 .. LEVELS
MlfqProcs == System \cup MlfqUsers

Allotment(l) == IF l = 1 THEN TIME_ALLOTMENT ELSE 2 * TIME_ALLOTMENT

(* The slice doubles from level to level.                                  *)
TimeSlice(l) ==
  LET slice[i \in 0 .. LEVELS] == IF i < 2 THEN MLFQ_QUANTUM ELSE 2 * slice[i-1]
  IN  slice[l]

-----------------------------------------------------------------------------
(* Where a user process is queued: by ready and by resched, one level down *)
(* when the allotment of its level is used up.                             *)
level_never_down(m, p) == m.level[p]

level_to_queue(m, p) ==
  IF m.level[p] < LEVELS /\ m.queue_time[p] >= Allotment(m.level[p])
  THEN m.level[p] + 1 ELSE m.level[p]

mlfq_put_system(m, p) ==
  [m EXCEPT !.prstate[p] = "READY",
            !.queue[0]   = insert_system(@, p)]

mlfq_put_user(m, p, l) ==
  [m EXCEPT !.prstate[p]    = "READY",
            !.queue[l]      = Append(@, p),
            !.level[p]      = l,
            !.queue_time[p] = IF l = m.level[p] THEN @ ELSE 0]

mlfq_make_ready(m, p) ==
  IF p \in System THEN mlfq_put_system(m, p) ELSE mlfq_put_user(m, p, level_to_queue(m, p))

(* Move the queues of levels 2 .. last to the end of the first, in order.  *)
move_up(m, last) ==
  LET moved == UNION {ToSet(m.queue[l]) : l \in 2 .. last}
  IN  [m EXCEPT
        !.queue = [l \in 0 .. LEVELS |->
                     CASE l = 1 -> FlattenSeq([i \in 1 .. last |-> m.queue[i]])
                       [] l \in 2 .. last -> << >>
                       [] OTHER -> m.queue[l]],
        !.level      = [p \in MlfqUsers |-> IF p \in moved THEN 1 ELSE @[p]],
        !.queue_time = [p \in MlfqUsers |-> IF p \in moved THEN 0 ELSE @[p]],
        !.boost_flag = FALSE]

boost_keeps_levels(m) == [move_up(m, LEVELS) EXCEPT !.level = m.level]
boost_all_but_last(m) == move_up(m, LEVELS - 1)

(* Every queue is moved up.  Who sleeps or is suspended is not boosted.    *)
boost_priority(m) == move_up(m, LEVELS)

queue_levels_first(m) ==
  LET used == {l \in Levels : m.queue[l] # << >>}
  IN  IF used = {} THEN 0 ELSE Min(used)

(* System processes first (the null process has key 0), then the levels.   *)
queue_to_run(m) ==
  LET used == {l \in Levels : m.queue[l] # << >>}
  IN  IF Head(m.queue[0]) # Null \/ used = {} THEN 0 ELSE Min(used)

mlfq_dispatch(m) ==
  LET l == queue_to_run(m)
  IN  [m EXCEPT !.currpid  = Head(m.queue[l]),
                !.queue[l] = Tail(@),
                !.prstate[Head(m.queue[l])] = "CURR",
                !.preempt  = TimeSlice(l)]

(* The running process is always queued again, if it stays eligible.       *)
mlfq_resched(m) ==
  LET q == IF m.prstate[m.currpid] = "CURR" THEN mlfq_make_ready(m, m.currpid) ELSE m
  IN  mlfq_dispatch(IF q.boost_flag THEN boost_priority(q) ELSE q)

mlfq_ready(m, p) == mlfq_resched(mlfq_make_ready(m, p))

mlfq_block(m, st) == mlfq_resched([m EXCEPT !.prstate[m.currpid] = st])

-----------------------------------------------------------------------------
MlfqInit ==
  \E p \in DOMAIN SysPrio :
    mlfq = [prstate     |-> start_state(MlfqUsers, p),
            level       |-> [q \in MlfqUsers |-> 1],
            queue_time  |-> [q \in MlfqUsers |-> 0],
            queue       |-> [l \in 0 .. LEVELS |-> IF l = 0 THEN <<Null>> ELSE << >>],
            sleepq      |-> << >>,
            qkey        |-> [q \in MlfqProcs |-> 0],
            currpid     |-> p,
            preempt     |-> MLFQ_QUANTUM,
            boost_timer |-> PRIORITY_BOOST_PERIOD,
            boost_flag  |-> FALSE,
            in_clock    |-> {}]

mlfq_Running == mlfq.currpid
mlfq_InCall  == mlfq_Running # Null /\ mlfq_Running \notin mlfq.in_clock

mlfq_resume(p) ==
  /\ mlfq_InCall /\ mlfq.prstate[p] = "SUSP"
  /\ mlfq' = mlfq_ready(mlfq, p)

mlfq_suspend(p) ==
  /\ mlfq_InCall /\ mlfq.prstate[p] = "READY" /\ p # Null
  /\ mlfq' = [mlfq EXCEPT !.prstate[p] = "SUSP",
                          !.queue[IF p \in System THEN 0 ELSE mlfq.level[p]] = getitem(@, p)]

mlfq_suspend_self == mlfq_InCall /\ mlfq' = mlfq_block(mlfq, "SUSP")

mlfq_yield == mlfq_InCall /\ mlfq' = mlfq_resched(mlfq)

mlfq_sleepms(d) ==
  /\ mlfq_InCall
  /\ mlfq' = mlfq_block([mlfq EXCEPT !.sleepq = insertd(@, mlfq.qkey, mlfq_Running, d),
                                !.qkey   = insertd_key(mlfq.sleepq, @, mlfq_Running, d)],
                   "SLEEP")

-----------------------------------------------------------------------------
(* A tick: charge the running process, count down to the boost.            *)
mlfq_charge(m) ==
  [m EXCEPT !.queue_time  = [p \in MlfqUsers |-> IF p = m.currpid /\ m.level[p] < LEVELS
                                             THEN @[p] + 1 ELSE @[p]],
            !.boost_timer = IF @ = 1 THEN PRIORITY_BOOST_PERIOD ELSE @ - 1,
            !.boost_flag  = @ \/ m.boost_timer = 1]

(* The processes whose delay this tick ends: the first, which has one tick *)
(* left, and those that wait no longer than it.                            *)
mlfq_due(m) ==
  LET n == Cardinality({i \in DOMAIN m.sleepq : delta_sum(m.sleepq, m.qkey)[i] = 1})
  IN  SubSeq(m.sleepq, 1, n)

(* wakeup defers rescheduling until all of them are ready.                 *)
mlfq_wakeup(m) ==
  LET due  == mlfq_due(m)
      left == [m EXCEPT !.sleepq = SubSeq(@, Len(due) + 1, Len(@)), !.in_clock = @ \cup {m.currpid}]
      awake[i \in 0 .. Len(due)] == IF i = 0 THEN left ELSE mlfq_make_ready(awake[i-1], due[i])
  IN  mlfq_resched(awake[Len(due)])

mlfq_tick_sleepq(m) ==
  IF m.sleepq = << >> THEN m ELSE [m EXCEPT !.qkey[Head(m.sleepq)] = @ - 1]

mlfq_end_of_tick(m) ==
  IF m.preempt = 1 THEN mlfq_resched([m EXCEPT !.preempt = MLFQ_QUANTUM])
                   ELSE [m EXCEPT !.preempt = @ - 1]

mlfq_clock ==
  /\ mlfq_Running \notin mlfq.in_clock
  /\ mlfq' = LET m == mlfq_charge(mlfq)
             IN  IF mlfq_due(m) # << >> THEN mlfq_wakeup(m) ELSE mlfq_end_of_tick(mlfq_tick_sleepq(m))

(* What wakeup interrupted goes on when its process runs again, and then   *)
(* counts down the slice that process has just got.                        *)
mlfq_clock_after_wakeup ==
  /\ mlfq_Running \in mlfq.in_clock
  /\ mlfq' = mlfq_end_of_tick([mlfq EXCEPT !.in_clock = @ \ {mlfq_Running}])

MlfqNext ==
  \/ \E p \in MlfqProcs : mlfq_resume(p) \/ mlfq_suspend(p)
  \/ mlfq_suspend_self \/ mlfq_yield
  \/ \E d \in SleepTimes : mlfq_sleepms(d)
  \/ mlfq_clock \/ mlfq_clock_after_wakeup

(* The clock goes on.  One of the two is possible in every state, so that   *)
(* this is their weak fairness.                                            *)
MlfqFairness == []<><<mlfq_clock \/ mlfq_clock_after_wakeup>>_mlfq

MlfqSpec == MlfqInit /\ [][MlfqNext]_mlfq /\ MlfqFairness
-----------------------------------------------------------------------------
(* A process is on the one queue its state and level name, once, and on no *)
(* other: the boost, a suspend and a demotion move it with its level.      *)
LevelsMatchQueues ==
  /\ \A l \in 0 .. LEVELS : IsInjective(mlfq.queue[l])
  /\ \A p \in MlfqProcs : \A l \in 0 .. LEVELS :
       p \in ToSet(mlfq.queue[l]) <=>
         /\ mlfq.prstate[p] = "READY"
         /\ l = IF p \in System THEN 0 ELSE mlfq.level[p]
  /\ {p \in MlfqProcs : mlfq.prstate[p] = "CURR"} = {mlfq_Running}

(* No process waits for the CPU that resched ranks above the running one:  *)
(* a system process, or a user process of a higher level.                  *)
HighestLevelRuns ==
  \A p \in MlfqProcs : mlfq.prstate[p] = "READY" =>
    \/ p \in System /\ mlfq_Running \in System /\ Priority(p) <= Priority(mlfq_Running)
    \/ p \in MlfqUsers /\ mlfq_Running \in System /\ mlfq_Running # Null
    \/ p \in MlfqUsers /\ mlfq_Running \in MlfqUsers /\ mlfq.level[p] >= mlfq.level[mlfq_Running]
    \/ p = Null

(* However a process gives up the CPU before its slice ends, it gets no    *)
(* more of a level than the allotment and the slice in which it ends.      *)
NoOverstay ==
  \A p \in MlfqUsers :
    mlfq.queue_time[p] < Allotment(mlfq.level[p]) + TimeSlice(mlfq.level[p])

(* A user process that is ready gets the CPU, whatever level it has sunk   *)
(* to and however the others sleep, wake and yield: if the system          *)
(* processes give up the CPU now and then and nobody suspends it.          *)
SystemIsIdle == mlfq.queue[0] = << >> \/ mlfq_Running \in MlfqUsers
MlfqNoStarvation ==
  []<>SystemIsIdle =>
    \A p \in MlfqUsers : mlfq.prstate[p] = "READY" ~> mlfq.prstate[p] # "READY"
=============================================================================
