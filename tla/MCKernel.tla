------------------------------- MODULE MCKernel ------------------------------
(* Instances of XinuKernel for TLC: one set of calls per group of routines. *)
EXTENDS XinuKernel

SemCalls   == {"create", "resume", "kill", "semcreate", "wait", "signal",
               "signaln", "semdelete", "semreset", "yield"}
MsgCalls   == {"create", "resume", "kill", "send", "receive", "recvtime",
               "recvclr", "sleepms", "clock"}
LiveCalls  == {"create", "getstk fails", "resume", "suspend", "chprio", "yield",
               "sleepms", "recvtime", "clock"}

(* Smaller sets, for the runs that show a disagreement.                    *)
HangCalls  == {"create", "resume", "sleepms", "send", "clock"}
KillCalls  == {"create", "resume", "kill", "receive"}
PrioCalls  == {"create", "resume", "chprio", "yield"}

(***************************************************************************)
(* The part of the state that later steps read.  What it leaves out is     *)
(* overwritten before it is read again: the fields of a free process table *)
(* entry that create sets, the keys of processes on no queue, prsem of a   *)
(* process that waits on no semaphore, the count of a free semaphore, and  *)
(* Defer.attempt when rescheduling is not deferred.  As a VIEW it makes    *)
(* TLC keep one of the states that differ only there.                      *)
(***************************************************************************)
Used == {p \in Pids : prstate[p] # "FREE"}
live ==
  <<[p \in Used |-> <<prstate[p], sch.prprio[p], prparent[p], pc[p]>>],
    [p \in ToSet(sch.readylist) \cup ToSet(sch.sleepq) |-> sch.qkey[p]],
    [p \in {q \in Used : prstate[q] = "WAIT"} |-> prsem[p]],
    sch.readylist, sch.sleepq, currpid, sch.preempt, sch.ndefers,
    sch.ndefers > 0 /\ sch.attempt, prhasmsg, pids, sstate, squeue, nextsem,
    [s \in {t \in Sems : sstate[t] = "USED" \/ Here.at = "semdelete"} |-> scount[s]],
    halted>>
=============================================================================
