# Xinu, verified

A TLA+ development of the kernels in this repository: models of the process
manager, of the schedulers and locks the repository adds, and of the services
and drivers above them, that TLC checks on small instances, and proofs that
TLAPS checks for every size of the tables.

The repository holds five near-copies of Xinu for x86. Each adds something to
the same kernel:

| tree | adds |
|---|---|
| `Xinu OS Synchronization Extensions` (SE) | spin lock, sleeping lock, active lock with deadlock detection, priority inheritance lock; a `send` that waits for the parent |
| `Xinu OS Process Management Enhancements/xinu-vbox` (PM) | `fork`, cascading termination |
| `Xinu OS Scheduler Modifications/Lottery/xinu-vbox` (LOT) | lottery scheduler for user processes |
| `.../MLFQ/3 Queues/xinu-vbox`, `.../MLFQ/5 Queues/xinu-vbox` (ML3, ML5) | multi-level feedback queues |

The common kernel and the services are modelled from SE, whose files the map
names; what a tree adds is modelled from that tree (MLFQ from ML3, with the
number of queues a parameter).

## 1. The system

One CPU. A system call disables interrupts, changes tables and restores the
mask; the clock handler runs with interrupts off. `resched` is the only place
where another process gets the CPU. It is called in the middle of calls, so a
call may be cut in two: its rest runs when its process is dispatched again,
still with interrupts off, on tables that others have changed since.

| component | state | operations | called by, calls | what makes it correct |
|---|---|---|---|---|
| queues | `queuetab`: links and keys, one entry per process | insert, insertd, enqueue, dequeue, getfirst, getitem | everything | a process is on one queue; FIFO among equals; delta keys |
| scheduler | `readylist`, `currpid`, `preempt`, `Defer`, `prstate`, `prprio` | ready, resched, resched_cntl | every call that blocks or readies | the highest priority runs; someone always runs; equals take turns |
| clock, delays | `sleepq` | clkhandler, wakeup, sleepms, unsleep | interrupt; recvtime, kill, send | nobody wakes early, everybody wakes |
| semaphores | `semtab` | semcreate, wait, signal, signaln, semdelete, semreset | ports, buffer pools, drivers | a negative count is the number waiting; waiters are served in order |
| messages | `prmsg`, `prhasmsg` | send, receive, recvtime, recvclr | kill, net, drivers | receive returns only with a message |
| processes | `proctab`, `prcount`, `nextpid` | create, kill, suspend, resume, chprio, yield, xdone | all | an entry is freed off every queue; `prcount` is right |
| spin, sleeping, active, PI locks (SE) | `lock_t` ... with flag, guard, owner, queue; `prTopark`, `prLockWaitOn`, `prOldPrio` | lock, unlock, trylock, park, unpark, detect_deadlock | user code, with interrupts **on**; calls enqueue, ready, resched | one holder; no lost wakeup; the queue stays a queue |
| fork, cascade (PM) | `prparent`, `user_process` | fork, kill | user code | all descendants die, nobody else does |
| lottery (LOT) | `userprocesslist`, tickets in `qkey` | resched, ready, set_tickets | as scheduler | every ticket holder may run; system processes first |
| MLFQ (ML3, ML5) | three or five queues, `queue_time`, `boost_flag` | resched, clkhandler, boost_priority | as scheduler | allotments are charged; boost ends starvation |
| ports | `porttab`, `ptfree`, two semaphores each | ptsend, ptrecv, ptreset, ptdelete | user code; semaphores | no message lost or doubled; a reset port does not disturb the new one |
| buffer pools | free lists, a semaphore each | getbuf, freebuf | net, drivers | count = free buffers |
| memory | `memlist` | getmem, freemem, getstk | create, kill | blocks disjoint, coalesced; nothing lost |
| tty (SE) | input and output ring, cursor, a semaphore each, echo queue | ttygetc, ttyputc, the UART's handler | processes; interrupt | what is read is what was typed, edited; output does not stall |
| ethernet (SE) | two descriptor rings, two semaphores | ethread, ethwrite, the NIC's handler | netin, ipout, interrupt | a count is the descriptors that are ready; the NIC and the driver never own the same one |
| ARP (SE) | `arpcache` | arp_resolve, arp_in | ip_send; netin; recvtime, send | an answer is the asked host's address; nothing stays pending |
| UDP, IP output, netin (SE) | `udptab`, `ipqueue`, the network buffer pool | udp_register, udp_recv, udp_send, udp_release, udp_in, ip_enqueue, ipout, netin | processes; getbuf, freebuf, recvtime, send | no buffer lost; who waits for a packet is told of it |
| remote disk (SE) | `rdstab`: request list, cache, free nodes, `rd_comsem` | rdsread, rdswrite, rdsprocess, rdscomm | processes, the communication process; udp_send, udp_recv, suspend, resume | a read gives what was last written; every request is served |
| local files (SE) | `Lf_data`: directory, free lists; `lfltab`: an index and a data block in memory per open file | lfsopen, lflputc, lflgetc, lflseek, lflcontrol, lflclose | processes; the RAM disk | a file is a sequence of characters; no block is lost or in two files |
| remote files, names, shell, library, other devices | | | clients of the kernel | stock code this repository does not change |

What is hard here: calls that are cut in two (`kill` gives the CPU to the
parent before its victim is off its queue, `send` loops on `resched`), a
queue entry that is shared by every list a process may be on, process IDs that
are reused while others still know the old process, rescheduling that is
deferred over a loop, relative keys, stale keys after `chprio`, and time; locks
whose routines may be preempted anywhere; names of owners that lag behind the
lock; a wait in `getbuf`, `ptrecv`, `udp_recv` or `arp_resolve` after which the
port, endpoint or entry is another's; rings that device, handler and process
each move along; blocks that are in a cache, on a list, under way or on a disk
in different versions. The list with the lines is `hazards` in `PROJECT.json`.

## 2. The modules

    XinuQueue            queues and delta lists, pure operators
      XinuSched          the scheduler: a record and operators on it
        XinuKernel       the state machine: one action per call, loop step, handler
          MCKernel       instances for TLC
          XinuLock       the sleeping lock, used by the kernel's processes
            MCLock       instances for TLC
          XinuCascade    fork and cascading termination, on XinuSched
    QueueLock            what a first-come-first-served lock promises
    XinuClasses          system and user processes
      XinuMlfq           the feedback queues
      XinuLottery        the lottery
    XinuVariants         XinuMlfq, XinuLottery or XinuCascade: what a machine boots
      MCVariants         instances for TLC
    XinuSpinLock, XinuActiveLock, XinuPiLock
    XinuSemUse           semaphores as the services use them
      XinuPort, XinuTty, XinuEth, XinuNet
    XinuMemory           the heap
      XinuPool           buffer pools on it
    XinuArp              address resolution
    XinuServices         all of these side by side
      MCServices         instances for TLC
    XinuRds              the remote disk
    FileStore            what a file system promises
      XinuLfs            the local file system
    XinuStorage          XinuRds or XinuLfs
      MCStorage          instances for TLC
    XinuQueueProofs      lemmas on the queue operators
      XinuSchedProofs    lemmas on the scheduler operators
        XinuKernelProofs types, queues, counts, messages, priorities
        XinuLockProofs   the sleeping lock on the kernel
      XinuSyncProofs     spin lock, active lock, priority inheritance lock
      XinuVariantProofs  the lottery, the feedback queues, the cascade
      XinuServiceProofs  address resolution, ports, network buffers,
                         the heap and the buffer pools
        XinuDeviceProofs the tty and Ethernet drivers

**XinuQueue.** A queue is the sequence of its process IDs from head to tail,
the keys are one function on process IDs (`queuetab[pid].qkey`). `insert` keeps
descending order and puts a newcomer behind its equals. `insertd` and
`unsleep_key` keep the delta list, where the key of an entry is what it waits
beyond the entry before it. That the linked code and the sequence operators
agree is not shown.

**XinuSched.** The scheduler's globals are the fields of one record `S`, and
`ready`, `resched`, `unsleep`, `resched_cntl` are operators from `S` to `S`, so
a handler that calls two of them composes them as the code does:
`send` to a process in timed receive is `ready(unsleep(sch, q), q)`. `preempt`
is unsigned in the code; `end_of_tick` decrements it only where the code's
`<= 0` test can be right, and TypeOK says that it never is zero between ticks.

**XinuKernel.** `sch` is the record; the other fields of `proctab`, `semtab`
and the counters are variables. `pc[p]` is `User` or a frame naming the call
that process `p` is inside and what the rest of it needs. A system call is an
action of the running process in user code (`syscall`); where the code calls
`resched` with more to do after it, the action leaves a frame, and another
action runs the rest when the process is dispatched again (`inside`). Loops
over `ready` (signaln, semdelete, semreset, wakeup) and over `resched` (send)
are one step per iteration. Error returns that change nothing are not
actions. `create` that finds no memory is: it has moved `nextpid`.
`clkhandler` is enabled only in user code, because every call runs with
interrupts off to its end or to a switch.

A call whose second half has nothing to do (wait, sleepms, yield, suspend)
needs no frame. `receive` and `recvtime` do: they take the message.

`Init` is the state when `main` first runs: `startup`, its parent, has exited
and left its exit message with the null process, which never reads it. The
processes that `net_init` and device drivers start are not there.

**XinuLock.** `system/lock.c` on the same state: the fields of one `lock_t`
and `prTopark` are added, and `at[p]` names what process `p` does next inside
`lock` or `unlock`. These routines run with interrupts on, so each access to
shared state is a step of its own, and XinuKernel's `clkhandler` may come
between any two; what the lock calls (`sleepms` for the guard, `ready` in
`unpark`, `resched` in `park`) are XinuKernel's action and XinuSched's
operators. Between calls to the lock processes make the kernel's calls.

Two things a process could do are bounded. It is not preempted while it is on
the lock's queue and has not parked (`PreemptEnqueued = FALSE`), because the
queues are broken after that, as lock_window shows. And it does not call
`unlock` without having the lock while `owner` is still its name: after a
hand-over that is so until the next holder runs, and `unlock` would not refuse
it. `kill` is left out (`LockAssumption`): of a process that waits for a lock
it would count up the semaphore before the first in the table.

**QueueLock** is the abstract lock: a holder and a queue of those who wait; a
process may take the lock only when nobody has it, and a release with waiters
hands it to the first. The refinement maps `holder` to the process that `Has`
the lock, which in a hand-over is neither what `flag` nor what `owner` says,
and `waiting` to `lqueue`.

**XinuMlfq, XinuLottery.** Each replaces XinuSched by the scheduler of its
tree, again a record and operators on it, with the calls that meet it: resume,
suspend, yield, and for MLFQ sleepms and the whole clock handler, with the
charge to the allotment, the boost and `wakeup`, whose loop loses the CPU when
the process it wakes is better. `resched` of the lottery draws `rand() % total`: its operators
give the set of the records that may follow, one for each ticket. MLFQ's slice
and allotment of a level are the code's formulas on LEVELS.

**XinuCascade.** PM's `create`, `fork` and `kill` on XinuSched's operators: the
recursion of `kill` is a stack of frames per process (`kills`), because the
`send` to the parent in it may switch; the processes that were doomed when the
outermost call began are kept as history. `create` is asked for one of the
priorities `CreatePrios`, `fork` hands on the caller's. main waits for messages
and makes processes; it does not exit and nobody kills it. The code goes wrong
in more ways than the model goes: what the bounds Receivers, SystemForks,
Shells and KillCases leave out is in the table of section 3.

**XinuVariants** starts with one of the three and stays with it. They share no
state; one run checks all three, each with its own properties.

**XinuSpinLock, XinuActiveLock, XinuPiLock.** One step per access to the lock,
any process may make the next one: the schedulers of the trees permit each of these
orders with time slices, and the properties do not depend on priorities. The
active lock is shown to implement QueueLock, though its guard is spun for, the
name of the owner lags behind, and a holder that was handed the lock cannot unlock it
(`al_unlock` refuses: the name is not its own).
`holds` and `reported` are history.

**XinuSemUse** is a semaphore as its users see it: count and queue, the effect
of `wait`, `signal` and a kill of a waiter. That XinuKernel's calls have this
effect is what CountsMatchQueues says of them, model-checked and proved there.
**XinuPort, XinuPool, XinuTty, XinuEth, XinuNet** are the code between two
waits, step by step, on such semaphores: a call that may block is an action up
to the wait, and one from it. Where a call readies a process in the middle and
goes on (`_ptclear`), its rest is an action of its own. **XinuMemory** is the
free list with the code's arithmetic modulo 2^32, sizes that make it wrap being bounded (`WrapSizes`). **XinuArp** has the sender's loop of
requests and timeouts, and `arp_in` for any packet of any host at any time: the
network loses, doubles, delays and reorders. XinuServices runs one of them, as
XinuVariants does.

**XinuRds.** The nodes of the request list are modelled with their links
(`rd_next`, `rd_prev`, head, tail, free list), because the code walks it both
ways and `rdqunlink` leaves links behind; queues elsewhere are sequences. A
call is one step up to its suspension, and a message of the communication
process's exchange one step to send, one to receive. The server is external:
it does what a message says and answers, at any time, and messages and answers
may be lost. Priorities are abstracted to what `rdisksys.h` says: processes run
only while the communication process waits (`users_run`). `want` and `last`
are history.

**XinuLfs.** An operation on an open file is a step, since it has the file's
mutex and, where it changes shared blocks, the directory's; but `lfsopen` looks
for a device before it has the mutex, and `lflclose` flushes without it: these
are two steps each. What the parts of an operation do (`lfflush`, `lfiballoc`,
`lfdballoc`, `lfsetup`, `lftruncate`) are operators from state to state. The
loops over index blocks are RECURSIVE operators: nothing is proved of this
module.

**FileStore** is the promise: each file a sequence of characters, each open
device a position in one. The refinement maps a file to the characters found by
its index blocks, in memory where an open device has them and on the disk
otherwise, up to `ld_size`.

**Slips.** Some definitions are preceded by the same definition with a
plausible slip, named for it (`keeps_cpu_though_blocked`). Nothing uses them.
`mutants` in `PROJECT.json` says which property fails when the slip takes the
definition's place: each property of each passing run can be broken by a
mistake in the code it is about.

## 3. The runs

The first six run `MCKernel`, those of the lock `MCLock`. These give `Calls` its
values: a run has the calls of one group of routines, with the creation,
resumption and (not for the lock) killing of processes in each.
The null process is 0, startup was 1, main is 2. `NPROC = 4` leaves main two
entries for children and grandchildren (one of them startup's old entry, so
that the ID of a parent is reused); `NPROC = 3` leaves one.

| run | calls | bounds | properties |
|---|---|---|---|
| kernel_sem | semaphores, kill | 4 processes, 1 semaphore, 2 priorities, counts 0 and 2, no clock | QueuesMatchStates, CountsMatchQueues, HighestPriorityRuns |
| kernel_msg | send, receive, recvtime, recvclr, sleepms, kill, clock | 4 processes, delays 0..2, 1 priority, QUANTUM 1 | TypeOK, ReceiveHasMessage, SleepersOnTime |
| kernel_live | sleepms, recvtime, suspend, chprio, yield, create (also without memory), clock | 3 processes, 2 priorities, QUANTUM 2, fairness, deadlock checked | SleepersWake, RoundRobin |
| kernel_hang | send, sleepms, clock | violation | SleepersWake |
| kernel_prcount | kill, receive | violation | PrcountIsLive |
| kernel_chprio | chprio, yield | violation | DispatchesHighest |
| lock | lock, unlock (also by a process without the lock), sleepms for the guard, semcreate, wait, signal, clock | 4 processes (three use the lock), 1 semaphore, 2 priorities, QUANTUM 1 | MutualExclusion, HolderIsOwner, OneQueuePerProcess, ImplementsQueueLock |
| lock_live | lock, unlock by the holder, sleepms, clock | 4 processes, 1 priority, QUANTUM 1, fairness | WaitersServed |
| lock_window | the same, with preemption while queued | violation | OneQueuePerProcess |
| variants | MLFQ: resume, suspend, yield, sleepms, clock; lottery: resume, suspend, yield, set_tickets, clock; cascade: create, fork, kill, receive, resume, yield | below | LevelsMatchQueues, HighestLevelRuns, NoOverstay, NoLevelStarves; LotteryIsFair, OnlyWinnersRun, ListsMatchStates; FamilyIntact, CascadeKillsAll, CascadeCounts |
| services | each lock, service and driver | below | SpinExclusion, ActiveIsQueueLock, DeadlocksReported, PiExclusion, PiInherits, PortCountsHold, NoMessageOutlivesReset, HeapIsWhole, BuffersConserved, RingsHoldTheText, NoOutputStalls, RingsAgree, ResolutionsHold, BuffersAccounted, ReceiversAreTold |
| storage | remote disk: rdsread, rdswrite; files: open, put, get, seek, truncate, close | below | RemoteDiskHolds, LfsIsFileStore |

Why these bounds are enough to meet the hazards: in the lock runs QUANTUM 1
lets the clock end a slice at every program point, and three lockers are a
holder, a waiter and a third that comes during the hand-over or finds the
guard taken; they have both equal and unequal priorities, so that `unpark` does
and does not give the CPU away with the guard taken. In the kernel runs two waiters on one semaphore
while a third process deletes, resets or kills is the least that tells an order
and a count apart; three delays with two sleepers give equal, adjacent and
nested deltas and an overdue head; two priorities with three processes have
both equals and unequals; an ID is reused as soon as a child is killed. One
semaphore is enough for everything but `newsem`'s rotation, which the proof
covers. `MaxCount` stops `signal` from counting for ever and is the only bound
in a guard besides `Calls`.

**Bounds of variants.** MLFQ: one system process and two users, three levels,
allotment and quantum 1, boost every 4 ticks: both users sink to the last level
and one is boosted while the other sleeps or runs. Lottery: three
users with 0, 1 or 3 tickets each, so that a list has holders of none, of one
and of several, in every order. Cascade: six entries for main, a shell and three
users, so that a victim has two children or a child and a grandchild; main has
priority 1 and creates at 1 and 2, so that main, told in the middle of a kill,
does and does not get the CPU from the killer; main alone receives. The run has the VIEW `WhatIsRead`, which leaves out what a free entry
still holds, the key of a process on no list, and messages nobody waits for.

**Bounds of services.** Three processes per lock (spinner, holder, waiter) and
two locks, the least that makes a circle; three priorities. Two ports of two
places with two nodes in all, three processes, three generations of a port.
A heap of two blocks in an address space of 128 bytes, and requests for 0, 1, 24 and 96 of them; pools of one and of two
buffers. tty rings of 3 and 2. Rings of 4 and 3 descriptors, given back by two.
Two ARP entries for three hosts, two users, two tries. Four network buffers,
two endpoints, queues of one packet, an output queue of two, two users. Each is the smallest at which
the ring wraps, the table fills and two processes want the last of it.
`MaxSeq` is the one counter cap; SYMMETRY is over names that are only
compared. XinuServices may stop (a driver with nothing to do, a spinning
circle), so deadlock is not checked there: most services block for good when
nobody sends.

**Bounds of storage.** Two processes, three blocks, one cache buffer and two
writes: a write may wait behind a write, a read behind a write of the same
block or of another, and a cached block be replaced. A message is sent twice
at most, so that one loss is survived and two are not, in three exchanges. Two
files on two devices, three data blocks of one character, two index blocks of
two data blocks, two to a sector: a file of three characters needs both index
blocks and all data blocks, so that either kind runs out, and a file grows into
what another gave back. Seeks are to 0, from which gets go on; two characters
per data block hold as well, in a longer run. The sets of names share model
values, since one TLC run has one SYMMETRY: the disk and the files never run in the
same behaviour.

Some constants bound what the code is exposed to, because it is broken there;
TLC finds the property named violated when the bound is lifted, and cfg
values make that one edit:

| constant | code | violated without the bound |
|---|---|---|
| PreemptEnqueued | lock.c:49, and the same place of the other sleeping locks | OneQueuePerProcess (run lock_window) |
| PreemptTry | active_lock.c:115: `al_trylock` exchanges 0 for the guard and so never takes it, and takes it from whoever has it | ActiveIsQueueLock |
| PreemptUnlock | pi_lock.c:112: `pi_unlock` frees the guard before it works on the lock | PiExclusion |
| Nested | pi_lock.c:105: of several locks held, what one lent is taken back with another | PiInherits |
| Unhandled "overrun" | ttyhandle_in.c:126 and 158: newline and end of file do not test for room, end of file does not wrap | RingsHoldTheText |
| Unhandled "oversend" | ttyhandle_out.c:57: a writer that waits counts as a character to send | RingsHoldTheText |
| Unhandled "silent_start" | ttyhandle_in.c:71: output that was held may be resumed without a kick | NoOutputStalls |
| FillTx | 82545EMInit.c:71: the semaphore admits as many packets as the transmit ring has descriptors, and a full ring looks empty to the card | RingsAgree |
| EvictFresh | arp.c:148: an entry may be evicted after it was resolved and before its process runs | ResolutionsHold |
| FillIpq | ip.c:453: the semaphore is asked whether the output queue is full, and no longer counts the packet of an ipout that was let through (ip.c:370) and has not taken it; the one more that is stored is stored over a packet nobody took | BuffersAccounted |
| WrapSizes | getmem.c:20: the last seven sizes below 2^32 round to 0, and the block handed out stays on the list; freemem.c:44: the end of a block is taken modulo 2^32, and a block that seems to end before it starts is put on the list | HeapIsWhole |
| ShareSlots | udp.c:190: an endpoint that is released while another process waits on it | ReceiversAreTold |
| TakeEarlier | rdscomm.c:96: a reply to an earlier message of the same type is taken for the answer | RemoteDiskHolds |
| OpenTogether | lfsopen.c:55-89: two processes find the same free device, or open one file, before either has the mutex | LfsIsFileStore |
| Receivers | PM kill.c:30: a victim whose child is killed before it may be waiting for messages, runs when it is told, and starts a kill of its own that is cut off when it is freed | CascadeCounts |
| CreatePrios >= INITPRIO | PM kill.c:30: a killer of a lower priority than main's does not come next when main lets go of the CPU; its victim runs, kills in turn and is freed in the middle of that | CascadeCounts |
| KillCases "counted" | PM kill.c:19-25: a process that a call of kill under way has counted down is alive still, is killed again and counted down again | CascadeCounts |
| KillCases "killer" | PM kill.c:19-25: a process that lost the CPU in its own call of kill is killed; its victim stays counted down and alive | CascadeCounts |
| KillCases "ancestor" | PM kill.c:33-36: a process kills its ancestor, reaches itself among the children and leaves the CPU for good; the ancestor stays counted down and alive | CascadeCounts |
| SystemForks | PM kill.c:33: children are looked for only when the victim is a user process, so that those of a shell that exits (main.c:112-117) keep a parent's ID that is used again | FamilyIntact |
| 1 in Shells | PM initialize.c: main's parent is startup's ID, which is given to another process; when that is a user process, main is its child and dies with it | FamilyIntact |
| CloseApart | lflclose.c:29: the index block's sector is read, changed and written back without the directory's mutex | LfsIsFileStore |

`CHECK_DEADLOCK FALSE` stands in kernel runs whose system may stop: after `xdone`,
when every process waits for a semaphore or a message, or (without a clock in
`Calls`) when only the null process is left. In kernel_live and the lock runs deadlock
is checked.

kernel_sem and kernel_msg use the VIEW `live` (lock its extension
`lock_live`), which leaves out of a state what is overwritten before it is read (the comment at its definition
lists the parts); without it the same states come several times over.

**Properties.** `QueuesMatchStates`: a process is on the queue its state names
and on no other; kill, suspend, unsleep unlink without looking.
`CountsMatchQueues`: a negative count is the length of the queue, also between
the steps of a release loop and after waiting processes are killed.
`HighestPriorityRuns`: outside a deferral no ready process outranks the running
one (in runs without `chprio`, see below). `ReceiveHasMessage`: a process that
comes back from the wait in `receive` finds a message. `SleepersOnTime`: what a
sleeper has left changes by ticks only. `SleepersWake`, `RoundRobin`: liveness.
`MutualExclusion`: one process has the lock, counting one that was handed it
and has not run yet, and no step loses the flag or leaves it set.
`HolderIsOwner`: `unlock` will accept the holder. `OneQueuePerProcess`: a
process on the lock's queue is there once and on no other: ready list, delta
list, semaphore's queue. `ImplementsQueueLock`: hand-over is first come, first
served, without overtaking. `WaitersServed`: every process that asks for the
lock gets it.

variants. `LevelsMatchQueues`, `ListsMatchStates`: QueuesMatchStates of the
other schedulers. `HighestLevelRuns`: no ready process that `resched` ranks
above the running one. `NoOverstay`: nobody has more of a level than its
allotment and the slice in which it ends, however it gives up the CPU.
`NoLevelStarves`: a ready process leaves the queue, at whatever level, by the
boost. `LotteryIsFair`: of all draws each process wins as many as it has
tickets. `OnlyWinnersRun`: a switch to a user process is to one with tickets,
with no system process ready. `FamilyIntact`: every live process comes down
from main by live processes (no reused parent ID). `CascadeKillsAll`: when the
outermost kill returns, all that were doomed when it began are dead.
`CascadeCounts`: prcount is right but for the victims of the calls under way.

services. `SpinExclusion`, `PiExclusion`: one holder, the flag says so; nobody
waits for a free lock. `ActiveIsQueueLock`: refinement of QueueLock.
`DeadlocksReported`: each process of a circle has been reported, whoever closed
it. `PiInherits`: a holder at work runs no lower than its waiters were created with,
also one that was handed the lock. `PortCountsHold`: semaphores, messages, and nodes of
a port agree. `NoMessageOutlivesReset`: no message of an older generation in a
port. `HeapIsWhole`: free blocks and granted requests partition the heap, in order,
merged. `BuffersConserved`: each buffer of a pool is on its list or with one
process, with its pool's ID. `RingsHoldTheText`: the rings hold what was typed,
as edited, and written; the counts agree. `NoOutputStalls`: while there is output and it is not
held, an interrupt will come for it. `RingsAgree`: card, semaphores and driver
agree who owns each descriptor. `ResolutionsHold`: an answered resolution is
the asked host's, and a pending entry has a process that waits. `BuffersAccounted`: network
buffers are in the pool, in one queue or with one process, at any error path. `ReceiversAreTold`:
an endpoint says RECV just when its process waits and has no message; a process
with a message finds a packet.

storage. `RemoteDiskHolds`: a call that returns has in its buffer what was last
written to the block before it was made, wherever that was then (ReadsAreCurrent); a
suspended process has one request on the list and there is a signal for each
(RequestsKept); and the look back from the tail does not end at a request that
has been served (ServedFromList). `LfsIsFileStore`: refinement of FileStore,
and each block of the disk is on its free list or in one file, once
(BlocksConserved).

**Fairness.** `WF(RestOfCall)`: a call that has the CPU with interrupts off
goes on. `SF(clkhandler)`: the interrupt controller keeps a clock interrupt
that comes while interrupts are off, so it is taken when user code runs again
and again, though not continuously enabled. Nothing is assumed of user code:
a process may compute for ever.

`MlfqFairness` says that the clock handler, or its rest after `wakeup`, runs
again and again. One of the two is possible in every state, so that this is weak
fairness of their disjunction: the interrupt comes. NoLevelStarves
has a premise on the system processes, which run before all user processes by
design.

In lock_live each process is assumed besides (`SF` per process) to go on within
`lock` and `unlock`, and to give the lock back, if it gets the CPU again and
again: a time slice is longer than a statement. WaitersServed has a premise,
`GuardIsFair`: a process that asks for the guard for ever does so because the
guard stays taken, not because it finds it taken each time it looks while
others come and go. The code does not ensure that; `test_and_set` with a
`sleepms` between the tries may lose for ever, and without the premise TLC
shows it. That is a limit of the guard ("bounded wait guards" in the
repository's README), not of the queue. A guard that somebody never gives back
is not excused by the premise: the mutant of the run is an unlock that leaves
it taken. The window between enqueue and park is closed in this run as well.
The run has one priority: with two, a process of the higher one that computes
for ever keeps the CPU from the lower ones.

**Disagreements found** (`findings`). `chprio` does not move a process within
the ready list, so `resched` dispatches by stale keys. The waiting `send` hangs
the machine when the sender outranks every ready process and its parent is not
among them. `kill` counts a process out before it frees its entry and lets the
parent run in between, so that two kills of one process count twice. `lock`
puts the running process on the lock's queue with interrupts on; if its time
slice ends before it parks, `resched` puts it on the ready list through the
same `queuetab` entry, and it is on two lists at once.

**Other faults met while modelling**, which no run states as a finding; the
models follow the code, or a bound named in the module excludes them:

- active_lock.c:66: after a park `al_lock` does not become the owner, and its
  own `al_unlock` is refused. active_lock.c:216: the search does not end,
  interrupts off, on a circle of owners that does not lead back to its start.
- spinlock.c:51-52: the late clear of `owner` may wipe out the next holder's name,
  whose `sl_unlock` is then refused.
- pi_lock.c:67: the priority of a process that waits is lent to whom the lock
  names as owner, who may have handed it over before; the new holder learns of
  it only from the highest priority noted in the lock.
- PM fork.c:46 copies the result of a comparison where it means the name.
- LOT resched.c:73 looks only at the first process of the list for tickets, and
  create.c:241 (`set_tickets`) changes tickets without moving the process: the
  null process runs although others hold tickets. The same line overwrites the
  delay of a process that sleeps.
- ML3 clkhandler.c:23 says it boosts all user processes; those that are
  blocked keep their level.
- ptrecv.c, ptclear.c: a receiver killed after it was woken takes its count
  along and strands a message; one killed in `_ptclear` leaves the port in
  limbo. ptcreate.c:19 accepts a count of 0, and nothing checks its semcreate.
  ptsend.c:36 stops the machine for want of nodes.
- getbuf.c: killed after it was woken, a process leaves its buffer uncounted.
  freemem.c:19 lets a
  block at `maxheap` through.
- ttyhandle_in.c:25: a reader that was let through and has not run is not
  counted; :258 the echo queue is not bounded.
- ip.c:161-172: `ip_send` returns without restoring interrupts on two paths.
- arp.c:133: any message is taken for an answer, and the entry stays pending.
- net.c:35: the pool is sized without senders and replies; icmp.c:283: netin
  waits for a reply's buffer, and so for itself. icmp.c:96 does not test for room, :211
  and :349 wrap at another bound than the queue's.
- rdsprocess.c:138-144: a loop that does not advance, unless the next request
  is a write of the same block or there is none. rdsqfcns.c:29: the new head of the list keeps a
  `rd_prev` to a node that is free; rdsread's look back follows it and, when the
  node is used again, goes round for ever (a step of the model each).
- rdscontrol.c:63-69: a sync request that finds others on the list is not linked
  behind them: it is lost, and may take later ones with it.
- lflputc.c, lflgetc.c: `lfmode` is stored at open and never looked at, so that
  a file opened for reading may be written.

## 4. The proofs

Every theorem is for all values of the constants that the module's ASSUME
admits (TLC evaluates these in the runs) and, where it has a hypothesis, for
those where the code is not exposed to the fault that the table of section 3
names. The theorems with the property each states are listed in `PROJECT.json`.

| module | theorems | hypothesis |
|---|---|---|
| XinuKernelProofs | SpecIInv, SpecTypeOK, SpecQueuesMatchStates, SpecCountsMatchQueues, SpecReceiveHasMessage | |
| | SpecHighestPriorityRuns | no `chprio` |
| XinuLockProofs | SpecMutualExclusion, SpecHolderIsOwner, SpecOneQueuePerProcess, LockImplementsQueueLock, LockKeepsKernel | ~PreemptEnqueued |
| XinuSyncProofs | SpinLockExcludes | |
| | ActiveImplementsQueueLock | ~PreemptTry |
| | SpecPiExclusion | ~PreemptUnlock |
| | SpecPiInherits | ~PreemptUnlock, ~Nested |
| XinuVariantProofs | SpecListsMatchStates, SpecOnlyWinnersRun, SpecLotteryIsFair, SpecLevelsMatchQueues, SpecHighestLevelRuns, SpecNoOverstay | |
| | SpecFamilyIntact, SpecCascadeCounts, SpecCascadeKillsAll | Receivers \subseteq {main}, CreatePrios >= INITPRIO, KillCases = {}, ~SystemForks, 1 \in Shells |
| XinuServiceProofs | SpecResolutionsHold | ~EvictFresh |
| | SpecPortCountsHold, SpecNoMessageOutlivesReset | |
| | SpecBuffersAccounted, SpecReceiversAreTold | ~ShareSlots, ~FillIpq |
| | MemSpecHeapIsWhole, SpecHeapIsWhole, SpecBuffersConserved | ~WrapSizes |
| XinuDeviceProofs | SpecRingsHoldTheText | overrun, oversend not in Unhandled |
| | SpecNoOutputStalls | nor silent_start |
| | SpecRingsAgree | ~FillTx |

### The kernel

`SpecTypeOK`, `SpecQueuesMatchStates` and `SpecCountsMatchQueues` hold for every NPROC above 2, every QUANTUM, NSEM, Prios, Delays, Counts and Calls; the
assumptions are `SchedAssumption` and `KernelAssumption`, evaluated by TLC in
every run.

No one of these three is inductive. The strengthening is

    IInv == TypeOK /\ RunningOK /\ SemQueuesOK /\ FramesOK

- `RunningOK`: the scheduler record is coherent: ready list and delta list are
  injective and hold just the processes in their states, one process is CURR
  and is `currpid`, and the null process is CURR or READY, so that a switch
  always finds somebody.
- `SemQueuesOK`: the same for the semaphore queues and `prsem`.
- `FramesOK`: what a suspended call may rely on: the process or semaphore in
  its frame exists (and is not the null process, for `kill`), only the running
  process is in a release loop or in `wakeup`, and rescheduling is deferred
  just while it is in one.

The argument has three layers. XinuQueueProofs: `insert`, `insertd`, `getitem`,
`Tail` and `Append` add or remove just the one process they name and keep a
queue injective. XinuSchedProofs: each scheduler operator takes a coherent
record to a coherent one (`ReadyOK`, `BlockOK`, `DelayOK`, `UnsleepParks` ...),
through the notion of a record in which one process is `Parked`, on no queue,
between two operators of one handler. XinuKernelProofs: one lemma per action.

CountsMatchQueues is inductive over IInv. Outside semreset and semdelete all
semaphores are `Settled`; inside, all but the one in the frame. A release loop
keeps the CPU (`LoopKeepsCPU`, from FramesOK), so the exception stays with its
own semaphore until the loop's last step repairs it; a kill takes a process
off the queue `prsem` names, which by SemQueuesOK is the one it is on.

IInv was first checked by TLC as an invariant of the passing kernel workloads.
`IsSched` gives the keys only the type "a function on the process IDs": that
they are natural numbers, and that a delta list's sums are what they should be,
would be proved by induction on the list.

ReceiveHasMessage (`SpecReceiveHasMessage`) is inductive over
IInv. A step gives new states only to some processes and decides whose turn it
is (`Turns`), so a process comes out of RECV only if the step readies it: by a
message, or by a kill that ends its call. A message that has come is taken
only by the process itself, out of the wait.

HighestPriorityRuns (`SpecHighestPriorityRuns`) is proved
for workloads without `chprio`, which changes the priority of a ready process
and leaves its key; the run kernel_chprio shows what comes of that. The
invariant beside IInv is `Ranked`: the ready list descends by priority, its
keys are the priorities, and rescheduling that is deferred either has been
asked for or is not needed. The first holds because `insert` looks for the
place by key (`InsertDescends`), the last because `resched` does not switch
while it is deferred but notes that it should have.

### The sleeping lock

The lock's program and the kernel's calls interleave on one ready list, so that
the invariant has two halves,

    LockIInv == LockTypeOK /\ GuardExcludes /\ MutualExclusion /\ FlagKnown
                /\ OwnerKnown /\ QueueKnown /\ NullStaysOut
                /\ WaitersWait /\ NobodyKills /\ Kernel!IInv

The lock's half says what a test found still holds where it is used: of the
flag between a test and the step that relies on it (FlagKnown), of the name of
the owner (OwnerKnown), of the queue and `prTopark` (QueueKnown), because one
process at a time is behind the guard (GuardExcludes).

The kernel's half is XinuKernel's own invariant, of another state. A process
parked in `lock` is in PR_WAIT but on no semaphore's queue, so that IInv is
false of the state as it stands. `AsKernel` is the scheduler's record with
those processes in SUSP; to the kernel a process that parks suspends itself and
one that is unparked is resumed. `Kernel` is an INSTANCE of XinuKernel with
that record, `LockKeepsKernel` says `LockSpec => Kernel!Spec`, and each step of
the lock preserves IInv because a step of the kernel does (`Kernel!NextIInv`):
XinuKernelProofs' lemmas are used and not proved again. It rests on one fact
for each operator of XinuSched: it does the same whether a process that is on
none of its lists is in WAIT or in SUSP. The lock never kills (LockAssumption),
and a lock that does could not be seen so: `kill` treats the two states
differently, and wrongly.

On ~PreemptEnqueued rests that a process in `lqueue` which runs is not on the
ready list; lock_window shows that it is needed. `LockImplementsQueueLock`
follows by cases: Acquire where the flag is set, Wait at `enqueue`, Release where
it is cleared, HandOver at `dequeue`, and no other step changes the holder or
the queue.

### The other locks

`SpinLockExcludes`: the inductive invariant is

    SpinIInv == SpinTypeOK /\ SpinExclusion /\ OwnerIsPast

where `OwnerIsPast` says that `owner` names a process that has the lock or has
not finished giving it up. It is needed because `sl_unlock` clears the name
after the flag: without it a process could be let through `sl_unlock` by
a name that is no more true. `sl_unlock`'s test is the only thing that keeps a
process from clearing another's flag.

`ActiveImplementsQueueLock`: `ActiveSpec => ActiveIsQueueLock`
for any number of processes and locks, on the assumption ~PreemptTry: al_trylock
does not respect the guard, so that with others running in its middle the
refinement is false. The invariant `ActiveIInv` says that a process between its test
and its act works alone on its lock (AloneOnLocks), behind the guard or in
al_trylock, so that what it tested still holds (TestsHold); and of each lock that
its flag says whether one process has it, that a clear one has no queue, and that
those on the queue are parked there (LockKept). One lemma, StepKeeps, serves every
action: a step of a few processes with one lock, on which no one else works. A
step then is one of Acquire, Wait, Release, HandOver, or changes nothing
QueueLock is about (ActiveStepMaps). The owner's name plays no part in it.

`SpecPiExclusion` has the active lock's invariant. `SpecPiInherits` adds
`PiLent`: the highest priority noted in a lock (`highest`) is at least that of
each process on its queue, and a process that has the lock runs at that or
more. Its first form compared the present priorities of holder and waiter and
was refuted, with four processes: pi_lock.c:67 lends to the process that the
lock names as owner, which may have handed the lock over and wait for another
by then. The waiter of the second lock has then a priority its holder never
hears of. What the code does promise, and the theorem says, is about the
priorities the waiters were created with.

### The changed schedulers

Lottery. The lists agree with the states as in the kernel. LotteryIsFair is a
statement on all lists: the counter of the search, the sum of the tickets up to a
place, is non-decreasing, a number below the total falls between two of its
values, and just one place has it as winner, for as many numbers as it has
tickets. The induction this takes is over a place in a list and is done by a
least counterexample (`LeastOfNaturals`), since the induction theorems of
the library cannot be instantiated. OnlyWinnersRun is an action property:
in each step the process that gets the CPU is the winner of some number below a
total above zero.

MLFQ. `MlfqLinked` is what every record keeps that appears inside a call, also
while nobody has the CPU: each queue injective and holding just the ready
processes of its level, the list of the system processes in the order of their
priorities, and the time each process has had of its level. `MlfqSettled` adds,
of a record between calls, that somebody runs and no one on a queue outranks
him. `resched` takes the first to the second. `wakeup` takes a number of
processes from the delta list; that the record is Linked after each of them is
again by a least counterexample.

### Fork and cascading termination

    CascadeIInv == \E r \in [Pids -> Nat] : Sound(cascade, r)
    Sound(k, r) == IsCascade(k) /\ Fifo(k.sch) /\ MainReceives(k) /\ TreeSound(k, r)
                   /\ KillsSound(k, r) /\ KillersWait(k) /\ CountRight(k)

The rank r stands for the depth of a process in the tree: every process but main
has a live parent of a lower rank (TreeSound), so that the tree has no circle
and every chain of parents ends at main. That it does so within NPROC steps
(`ancestors`) is the pigeonhole principle. A new process gets its parent's rank
plus one; no other rank changes. FramesSound says of the calls of kill within
each other that each victim is deeper than the one before and doomed with the
first, and that the children passed over are dead. `doomed_in` computes in NPROC
rounds who dies with a process; the proofs use that this is the least set closed
under "child of a user process in it" (DoomedIsClosed, DoomedIsLeast), again with
the pigeonhole.

The core is what happens when kill loses the CPU. Only main waits for messages,
so that it does so just when a child of main dies and main waits. The ready list
is in the order of the priorities, first come, first served among equals, and
main has the lowest but the null process's (Fifo). So the killer has main's
priority too and comes after main, with nobody of that priority between them
(InGap). KillersWait says that it does so till it runs, whatever main does
meanwhile, and whoever of a higher priority main lets run; that its call has not begun to
look for children; and that neither it nor its victim is doomed by another call.
Others of a higher priority do not lose the CPU in kill, since main does not
outrank them. So no victim runs before its killer does, and whoever kills in the
middle kills others. prcount is then off by just the victims of the calls under
way (CountRight), each of which is counted down once.

All the hypotheses are needed, and TLC shows it: the table of section 3 has what
each run finds. With Receivers 2, 3 and 4, for instance, process 4 kills 5 and
loses the CPU, by the message to 3, to the victim 5 itself; 5 kills 3, loses the
CPU to main in the middle of it and is freed when 4 goes on: its call of kill
never ends, and prcount stays wrong. None of them is enforced by the code: the
theorems say when cascading termination works, and it is a narrow case.

### Address resolution

    ArpIInv == ArpTypeOK /\ OneEntry /\ PendingAsked /\ AskerPending
               /\ AnswerFound /\ ResolvedTrue /\ AnswersTrue

An entry is pending for the process it names, which is asking; a process that
asks and has no message has its entry pending; one with a message finds the
address it asked for resolved. AnswerFound is what EvictFresh breaks: between
`arp_in` and the next step of the process nothing but the message protects
the entry.

### Ports

    PortIInv == PortTypeOK /\ (\A i \in Ports : PortSound(i)) /\ NodesCounted

PortSound has, for one port: the queues of both semaphores are the processes
that say they wait there (PortQueues); a call holds a sequence number no later
than the port's, the present one if it waits for a port in use, and an earlier
one if the port is not in use (CallsDated); nobody waits to send to a port in
limbo (NobodyOutside); one process clears it, and leaves it as `ptcreate` does
(ClearedByOne); places and messages are counted, taken or promised
(PlacesCounted, MessagesCounted), and messages have the present number
(MessagesDated). It is the date that makes the promises countable: `_ptclear`
lets everybody go, and none of them is among the promised once the number has
changed. ClearedByOne is what lets the port come back with its counts right:
`_ptclear` runs with interrupts off but for its two calls of `semreset` or `semdelete`, which
may give the CPU away, and then the port is in limbo, where `ptsend`, `ptrecv` and
a second clearing refuse it. A port that a step does not name keeps its part of
the invariant (LeftAloneSound), so that each action is about one port. Semaphores
are `IsSem`: an injective queue, as long as the count is below zero; SemWaited,
SemSignalled and SemKilled say what the operators of XinuSemUse do to them. The nodes
are counted as a set of places, `nodes_used`, since a sum over ports would
take an induction. That the users of ports are finitely many is assumed (NPROC).

### Network buffers

    NetIInv == NetSound(net, 0)
    NetSound(n, k) == NetTypeOK(n) /\ BufsQueued(n) /\ PacketsCounted(n)
                      /\ BufsCounted(n, k) /\ ReceiversTold(n)

An action here is a chain of changes of the record net: netin lets go of a packet,
`udp_in` gives it to an endpoint or frees it, `freebuf` lets a process go on. The
invariant is therefore said of a record in which k buffers are in hand, held by
no process and in no queue, and each operator has a lemma that says what it does
to k: BufferInHand 0 to 1, UdpInSound, EnqueuedSound and FreedOne one less,
QuietSound (an endpoint with its packets is released) as many more as were
queued. ReceiversTold has for every endpoint who waits at it (WaitedAt) and for every
process where it waits (WaitsAt): a process in `udp_recv` is the one that
registered its endpoint, and without a message it is the one the endpoint
names. PacketsCounted has for the output queue that its entries between head and
tail are those of packets ipout has not taken, and that these are the semaphore's
count and the one of an ipout that was let through; there is room for one more just if
FillIpq is excluded. ReceiversTold fails as soon as another process may receive from the endpoint,
which the code does not prevent (ShareSlots): two waiters, one name.

### The heap and the pools

    MemIInv == MemSound(mem)
    PoolIInv == MemSound(mem) /\ PoolState(pool) /\ MemoryOf(pool) \subseteq mem.inuse

HeapIsWhole says of each unit of the heap where it is. The invariant says it in
bytes: the list's blocks are aligned, in the order of their addresses, and no two
touch (IsFreeList); the bytes of the free blocks and those that the granted
requests cover, rounded up to eight, are together the heap's, and disjoint, as
are any two requests. Each operator has a lemma that says what list comes out and
which bytes are in it: with a block taken away, shortened at either end, put in, or joined
to the block below, above or both. RefusesFree: freemem of memory that is free,
or partly so, fails, so that a second release changes nothing. MemoryAssumption
says what meminit gives: it rounds with roundmb and truncmb, and leaves the
hole between 640 KB and 1 MB between its two blocks. Without WrapSizes no end of
a block is at 2^32 or beyond, so that what the code computes is what is meant.

The pools use the heap beside others, and PoolIInv keeps of the heap what they
need: the memory of each pool is still a granted request. PoolState says of
each pool that its semaphore's queue is those who wait in getbuf; that the buffers
on the list are different, and different from those that processes have; that
together they are the cells into which mkbufpool divided the memory (Divides);
and that the list is as long as what the semaphore counts and has promised:
getbuf takes from the list when it runs again, not when freebuf counts. Each step
changes one pool (PoolSet), and KeepsPool says what is enough of that change to
keep the invariant, of all pools: WaitsForBuffer, TakesBuffer, FreesBuffer and
KillsGetbuf each give it. BuffersConserved follows by counting cells. That the
processes are finitely many (NPROC), and that numbufs * bufsiz does not wrap
(mkbufpool bounds them by BP_MAXN and BP_MAXB), is assumed.

### The tty driver

    TtyIInv == TtyTypeOK /\ InputIInv /\ OutputIInv

Each half says that a ring holds its text (IsRing: the cells from the head on are
the text, the tail is where it ends, modulo the size) and that a semaphore counts
it less what was promised to processes that were let through and have not run
(InputCounted, OutputCounted). The promises make it inductive: `ttygetc` finds
a character, and `ttyputc` a cell, when it runs at last, though others have run
since the signal. RingStored, RingTaken, RingSent and RingCut say what the four
kinds of steps do to a ring of any size, and are stated of no particular ring;
QueueSignalled says of `signaln` that what it does not count it promises. The
hypotheses are the faults of section 3: with "overrun" a character is
stored in a cell that was promised, with "oversend" `ttyhandle_out` sends cells
that writers were promised and have not filled. That readers and writers are finitely
many is assumed (NPROC).

### The Ethernet driver

    EthIInv == EthTyped(eth) /\ RxSound(eth) /\ TxSound(eth)

RxSound says how the receive ring is divided: from the driver's head on there are
r packets that the handler has counted, then u that it has not, then o descriptors
that the NIC owns, and the descriptors whose status is set are just the first
r + u. The four indices follow from these lengths, and each step changes the lengths:
the NIC takes one from o to u, the handler adds u to r, `ethread` takes one from r,
and gives a half of the ring back to o when its head has passed one. That o
never reaches r, from behind, needs one more conjunct, which no run had asked for:
the tail given to the NIC is always the start of the half in which the head is not.
TxSound is the same of the transmit ring with two lengths. What the semaphores count
and have promised to processes that were let through and have not run is r, and
what the transmit ring has left (RxKnown, TxKnown). RingSum, RingDistance,
ArcGrows and ArcShrinks are arithmetic modulo the size, for every size. With
FillTx the ring may be full, its head is then its tail, and the lengths no more follow from
the indices. That readers and writers are finitely many is assumed (NPROC).

### Model-checked only

- Liveness (SleepersWake, RoundRobin, WaitersServed, NoLevelStarves): the
  prover has no ENABLED, and no fairness.
- SleepersOnTime and the keys of the delta list: what `insertd` and `unsleep`
  do to sums over the list is an induction over data. `IsSched` gives the
  keys only the type "a function on the process IDs".
- DeadlocksReported: who is reached along chains of owners, by recursive
  functions over the processes.
- RemoteDiskHolds walks linked nodes; LfsIsFileStore is in a module with
  RECURSIVE operators, of which nothing can be proved here.

## 5. Not modelled, and why

- **Queue table**: that the links of `queuetab` implement the sequences of
  XinuQueue (stock code, and an induction over the list for TLAPS), and the
  allocation of its entries at boot.
- **Devices**: raw and cbreak modes and control calls of the tty; start-up and
  control of the ethernet card; opening, closing, deleting and syncing a remote
  disk; the SD card, a driver for registers; the RAM disk, which copies;
  loopback, the device switch (a table generated at configuration).
- **Network**: ICMP endpoints (ping), DHCP, DNS, TFTP, time: clients of
  UDP in straight lines; address and number formatting.
- **File systems**: remote files, a protocol with a server that is not in the
  repository, one request at a time; the namespace, prefix matching on strings.
  Of local files `lflread` and `lflwrite`, loops over the modelled calls; modes.
  The order of the writes to the disk, should the machine stop between two:
  the code does not try to recover.
- **Shell**, C library, console output, dates, reports: stock
  sequential code which the repository does not change.
- **Boot, processor and interrupt set-up**: assembly and tables.
- **Generated code**: y.tab.c and lex.yy.c of the configuration parser.
- Message words, stacks, names and descriptors in the kernel: no property
  reads them. Copying the stack in `fork` is left out for the same reason.

The five trees hold nearly the same files, so that each modelled file stands
for up to five; the map names one of them. Together with the generated parsers,
drivers and library these copies are most of the 150,000 lines, and the
share of lines mapped stays small though the parts the repository adds or
changes are modelled nearly whole.

Left to do: XinuSemUse as an abstraction of
XinuKernel, shown by INSTANCE rather than by CountsMatchQueues.
