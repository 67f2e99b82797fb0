----------------------------- MODULE XinuCascade ------------------------------
(***************************************************************************)
(* fork and cascading termination (Process Management Enhancements:        *)
(* fork.c, kill.c, create.c) on the kernel's scheduler.  kill of a user    *)
(* process first kills the children it finds by prparent, by recursion.    *)
(* It runs with interrupts off, but the message each victim leaves with    *)
(* its parent may ready a process that takes the CPU, before the children  *)
(* are looked for.                                                         *)
(*                                                                         *)
(* The globals are the fields of the record cascade:                       *)
(*   sch         the scheduler's record of XinuSched                       *)
(*   prparent, prhasmsg, user_process   of the process table               *)
(*   prcount, nextpid                                                      *)
(*   receiving   who waits in receive, or has yet to take the message      *)
(*   kills       for each process the calls of kill it is in, innermost    *)
(*               last: the victim, its next child to look at, and, of the  *)
(*               outermost, who was doomed when it began (history)         *)
(* main never ends: it waits for messages and makes processes.  So the     *)
(* count stays above one, and kill does not stop the processor.            *)
(* The bounds leave out what breaks the properties below: two kills that   *)
(* count one victim, or whose killer is a victim (KillCases); a victim     *)
(* that runs on when its child tells it of its death (Receivers); and the  *)
(* children of system processes, which kill does not look for, so that a   *)
(* shell that exits leaves its own to an ID that is used again             *)
(* (SystemForks; Shells, of startup's ID).  The parent main gives some of  *)
(* its processes by hand is left out.                                      *)
(* A definition named for a slip is the mutant of the one after it.        *)
(***************************************************************************)
EXTENDS XinuSched

CONSTANTS INITPRIO,     \* the priority of main
          CreatePrios,  \* the priorities that create is asked for
          Shells,       \* process IDs that only go to system processes
          Receivers,    \* bound: the processes that wait for messages
          SystemForks,  \* bound: whether system processes but main make processes
          KillCases     \* bound: the kills made of those whom another concerns

ASSUME CascadeAssumption ==
  /\ Receivers \subseteq Pids \ {NULLPROC} /\ Shells \subseteq Pids /\ NPROC > 2
  /\ INITPRIO \in Nat \ {0} /\ CreatePrios \subseteq Nat \ {0} /\ SystemForks \in BOOLEAN
  /\ KillCases \subseteq {"counted", "killer", "ancestor"}

VARIABLE cascade

Root      == 2   \* the process ID of main, made by startup, process 1
Children  == Pids \ {NULLPROC}

tree_Running == cascade.sch.currpid
IsLive(p)    == cascade.sch.prstate[p] # "FREE"
InKill(p)    == cascade.kills[p] # << >>

(* Who dies with p: what p's children are is asked of user processes only. *)
doomed_in(k, p) ==
  LET more(S) == S \cup {c \in Children : k.sch.prstate[c] # "FREE" /\ k.prparent[c] \in S
                                          /\ k.user_process[k.prparent[c]]}
      round[n \in 0 .. NPROC] == IF n = 0 THEN {p} ELSE more(round[n-1])
  IN  round[NPROC]

Doomed(p) == doomed_in(cascade, p)

CascadeInit ==
  cascade =
    [sch |-> [prstate   |-> [p \in Pids |-> CASE p = NULLPROC -> "READY"
                                              [] p = Root -> "CURR" [] OTHER -> "FREE"],
              prprio    |-> [p \in Pids |-> IF p = Root THEN INITPRIO ELSE 0],
              readylist |-> <<NULLPROC>>,
              sleepq    |-> << >>,
              qkey      |-> [p \in Pids |-> 0],
              currpid   |-> Root,
              preempt   |-> QUANTUM,
              ndefers   |-> 0,
              attempt   |-> FALSE],
     prparent     |-> [p \in Pids |-> IF p = Root THEN 1 ELSE NULLPROC],
     prhasmsg     |-> [p \in Pids |-> p = NULLPROC],
     user_process |-> [p \in Pids |-> FALSE],
     prcount      |-> 2,
     nextpid      |-> (Root + 1) % NPROC,
     receiving    |-> {},
     kills        |-> [p \in Pids |-> << >>]]

(* The running process is in user code.                                    *)
tree_call ==
  tree_Running # NULLPROC /\ ~InKill(tree_Running) /\ tree_Running \notin cascade.receiving

-----------------------------------------------------------------------------
newpid(k) ==
  LET i == Min({j \in 0 .. NPROC - 1 : k.sch.prstate[(k.nextpid + j) % NPROC] = "FREE"})
  IN  (k.nextpid + i) % NPROC

(* A new process is in no kill, and not the one that was doomed.           *)
forget(kills, p) ==
  [q \in Pids |->
     IF q = p \/ kills[q] = << >> THEN << >> ELSE [kills[q] EXCEPT ![1].doomed = @ \ {p}]]

(* The new entry of the process table.                                     *)
new_process(k, p, prio) ==
  [k EXCEPT !.sch.prstate[p]  = "SUSP",
            !.sch.prprio[p]   = prio,
            !.prparent[p]     = k.sch.currpid,
            !.prhasmsg[p]     = FALSE,
            !.user_process[p] = p \notin Shells,
            !.prcount         = @ + 1,
            !.nextpid         = (p + 1) % NPROC,
            !.receiving       = @ \ {p},
            !.kills           = forget(@, p)]

can_make(p) ==
  /\ tree_call
  /\ SystemForks \/ tree_Running = Root \/ cascade.user_process[tree_Running]
  /\ \E q \in Pids : ~IsLive(q)
  /\ p = newpid(cascade)

(* create makes a system process; who makes a user process sets its        *)
(* user_process at once, as main does.  Bound: main creates, all fork.     *)
tree_create(p, prio) ==
  /\ can_make(p) /\ tree_Running = Root
  /\ cascade' = new_process(cascade, p, prio)

(* The child is put on the ready list, but fork does not reschedule.       *)
forked(k, p) == [k EXCEPT !.sch = make_ready(k.sch, p)]

fork(p) ==
  /\ can_make(p) /\ p \notin Shells
  /\ cascade' = forked(new_process(cascade, p, cascade.sch.prprio[tree_Running]), p)

tree_resume(p) ==
  /\ tree_call /\ cascade.sch.prstate[p] = "SUSP"
  /\ cascade' = [cascade EXCEPT !.sch = ready(@, p)]

(* yield, or the end of a time slice; the null process only loops.         *)
tree_yield == tree_call /\ cascade' = [cascade EXCEPT !.sch = resched(@)]

null_loop == tree_Running = NULLPROC /\ UNCHANGED cascade

tree_receive ==
  /\ tree_call /\ tree_Running \in Receivers
  /\ cascade' = IF cascade.prhasmsg[tree_Running]
                THEN [cascade EXCEPT !.prhasmsg[tree_Running] = FALSE]
                ELSE [cascade EXCEPT !.sch = block(@, "RECV"), !.receiving = @ \cup {tree_Running}]

tree_received ==
  /\ tree_Running \in cascade.receiving
  /\ cascade' = [cascade EXCEPT !.prhasmsg[tree_Running] = FALSE, !.receiving = @ \ {tree_Running}]

-----------------------------------------------------------------------------
(* send of the victim's ID to its parent, unless that is free or has a     *)
(* message already.  A parent that waits for one is made ready.            *)
tell_parent(k, p) ==
  LET q == k.prparent[p]
      t == [k EXCEPT !.prhasmsg[q] = TRUE]
  IN  CASE k.sch.prstate[q] = "FREE" \/ k.prhasmsg[q] -> k
        [] k.sch.prstate[q] = "RECV" /\ ~k.prhasmsg[q] -> [t EXCEPT !.sch = ready(@, q)]
        [] OTHER -> t

enter_kill_of_child_uncounted(k, p, doomed) ==
  tell_parent([k EXCEPT !.prcount = IF k.kills[k.sch.currpid] = << >> THEN @ - 1 ELSE @,
                        !.kills[k.sch.currpid] =
                          Append(@, [pid |-> p, i |-> 1, doomed |-> doomed])], p)

(* Enter kill of p: count down and tell the parent.                        *)
enter_kill(k, p, doomed) ==
  tell_parent([k EXCEPT !.prcount = @ - 1,
                        !.kills[k.sch.currpid] =
                          Append(@, [pid |-> p, i |-> 1, doomed |-> doomed])], p)

(* Who is in a call of kill, and whom one has counted down.                *)
InKills == {p \in Children : IsLive(p) /\ InKill(p)}
Counted == UNION {{cascade.kills[p][i].pid : i \in DOMAIN cascade.kills[p]} : p \in InKills}

(* Nobody kills main.  Bounds, where the code has no guard: nor a process  *)
(* that is itself in kill ("killer"), nor one that a call under way has    *)
(* counted down ("counted"), nor his own ancestor ("ancestor").            *)
tree_kill(p) ==
  /\ tree_call /\ IsLive(p) /\ p # Root
  /\ "killer"   \in KillCases \/ Doomed(p) \cap InKills = {}
  /\ "counted"  \in KillCases \/ Doomed(p) \cap Counted = {}
  /\ "ancestor" \in KillCases \/ (tree_Running \in Doomed(p) => p = tree_Running)
  /\ cascade' = enter_kill(cascade, p, Doomed(p))

-----------------------------------------------------------------------------
tree_Depth == Len(cascade.kills[tree_Running])
Frame      == cascade.kills[tree_Running][tree_Depth]

children_left_but_last ==
  {c \in Frame.i .. NPROC - 2 : cascade.prparent[c] = Frame.pid /\ IsLive(c)}

(* The children kill still has to look for.  A free entry keeps its        *)
(* prparent, but kill of it does nothing.                                  *)
children_left ==
  {c \in Frame.i .. NPROC - 1 : cascade.prparent[c] = Frame.pid /\ IsLive(c)}

kill_child_skips_next ==
  /\ InKill(tree_Running)
  /\ cascade.user_process[Frame.pid] /\ children_left # {}
  /\ LET c == Min(children_left)
     IN  cascade' = enter_kill([cascade EXCEPT !.kills[tree_Running][tree_Depth].i = c + 2], c, {})

kill_child ==
  /\ InKill(tree_Running)
  /\ cascade.user_process[Frame.pid] /\ children_left # {}
  /\ LET c == Min(children_left)
     IN  cascade' = enter_kill([cascade EXCEPT !.kills[tree_Running][tree_Depth].i = c + 1], c, {})

(* No child is left: leave the queue, or, by suicide, the CPU.             *)
kill_by_state(S, p) ==
  CASE S.prstate[p] = "CURR"  -> block(S, "FREE")
    [] S.prstate[p] = "READY" -> [S EXCEPT !.readylist = getitem(@, p), !.prstate[p] = "FREE"]
    [] OTHER                  -> [S EXCEPT !.prstate[p] = "FREE"]

kill_end ==
  /\ InKill(tree_Running)
  /\ cascade.user_process[Frame.pid] => children_left = {}
  /\ cascade' = [cascade EXCEPT !.kills[tree_Running] = Front(@),
                                !.sch = kill_by_state(@, Frame.pid)]

CascadeNext ==
  \/ null_loop \/ tree_yield \/ tree_receive \/ tree_received
  \/ \E p \in Children :
       (\E prio \in CreatePrios : tree_create(p, prio)) \/ fork(p) \/ tree_resume(p) \/ tree_kill(p)
  \/ kill_child \/ kill_end

CascadeSpec == CascadeInit /\ [][CascadeNext]_cascade
-----------------------------------------------------------------------------
ancestors(p) ==
  LET up[n \in 0 .. NPROC] == IF n = 0 THEN p ELSE cascade.prparent[up[n-1]]
  IN  {up[n] : n \in 1 .. NPROC}

(* While no kill is under way every process comes down from main, by live  *)
(* processes: no orphan is left whose parent's entry a new process may     *)
(* take, and the recursion of kill, which follows prparent, ends.          *)
FamilyIntact ==
  InKills = {} =>
    \A p \in Children \ {Root} : IsLive(p) =>
      /\ Root \in ancestors(p)
      /\ IsLive(cascade.prparent[p])

(* When the outermost kill returns, all that were to die with its victim   *)
(* are dead, though others may have run in the middle of it.               *)
CascadeKillsAll ==
  [][\A p \in Children :
       Len(cascade.kills[p]) = 1 /\ cascade'.kills[p] = << >> =>
         \A d \in cascade.kills[p][1].doomed : cascade'.sch.prstate[d] = "FREE"]_cascade

(* prcount is the number of processes, without those that kill has counted *)
(* down and not yet freed.                                                 *)
CascadeCounts ==
  cascade.prcount =
    Cardinality({p \in Pids : IsLive(p)})
      - Cardinality(Counted)
=============================================================================
