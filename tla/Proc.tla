-------------------------------- MODULE Proc --------------------------------
(***************************************************************************)
(* Processes on processors: the scheduler, the switch between kernel       *)
(* threads with ptable.lock held across it, sleep and wakeup, the timer    *)
(* interrupt, and fork, exit, wait, kill and the sleep system call.        *)
(*                                                                         *)
(* A thread (a process or the scheduler of a processor) has a stack of     *)
(* labels: the first is where it is, the others where it returns to.  A    *)
(* process in user mode has the empty stack.  A step is the code between   *)
(* two points where another processor or an interrupt can tell the         *)
(* difference: a critical section that does not switch is one step.  A     *)
(* processor that spins for a lock is one whose step is not enabled.       *)
(***************************************************************************)
EXTENDS Integers, Sequences, FiniteSetsExt

CONSTANTS
  NCPU, NPROC,
  Programs,    \* the system calls that the program in each slot makes
  Naps,        \* arguments of the sleep system call, in ticks
  KillTargets  \* slots that kill may be called for; nobody kills initproc

ASSUME ProcAssumption ==
  /\ NCPU \in Nat \ {0} /\ NPROC \in Nat \ {0}
  /\ Programs \in [1 .. NPROC -> SUBSET {"fork", "wait", "exit", "kill", "sleep"}]
  /\ "exit" \notin Programs[1]
  /\ Naps \subseteq Nat \ {0} /\ KillTargets \subseteq 2 .. NPROC

CPUs     == 1 .. NCPU
Procs    == 1 .. NPROC
NULL     == 0
initproc == 1
Bsp      == 1               \* the processor whose timer counts ticks
Sched(c) == -c              \* the scheduler thread of processor c
Ticks    == NPROC + 1       \* the channel &ticks; the channel of wait is the process

VARIABLES
  \* struct proc
  state, chan, parent, killed,
  named,     \* pid # 0; pids are never given twice
  stack,     \* of every thread
  saved,     \* the local intena of sched
  np,        \* the local np of fork
  left,      \* ticks the sleep call still has to wait for: n - (ticks - ticks0), or 0
  \* processors and locks
  cpu, ptlock, tickslock

vars == <<state, chan, parent, killed, named, stack, saved, np, left, cpu, ptlock, tickslock>>
table == <<state, chan, parent, killed, named>>
local == <<saved, np, left>>

\* userinit has made initproc runnable; every processor enters scheduler().
Init ==
  /\ state  = [p \in Procs |-> IF p = initproc THEN "RUNNABLE" ELSE "UNUSED"]
  /\ chan   = [p \in Procs |-> NULL]
  /\ parent = [p \in Procs |-> NULL]
  /\ killed = [p \in Procs |-> FALSE]
  /\ named  = [p \in Procs |-> p = initproc]
  /\ stack  = [t \in Procs \cup {Sched(c) : c \in CPUs} |->
                 IF t = initproc THEN <<"forkret">> ELSE IF t \in Procs THEN <<>> ELSE <<"loop">>]
  /\ saved  = [p \in Procs |-> FALSE]
  /\ np     = [p \in Procs |-> NULL]
  /\ left   = [p \in Procs |-> 0]
  /\ cpu    = [c \in CPUs |-> [on |-> Sched(c), proc |-> NULL, ncli |-> 0, intena |-> FALSE,
                               iflag |-> FALSE, cursor |-> 0]]
  /\ ptlock = NULL /\ tickslock = NULL

-----------------------------------------------------------------------------
\* pushcli and popcli on the record of a processor.
pushcli(r) == [r EXCEPT !.intena = IF r.ncli = 0 THEN r.iflag ELSE r.intena,
                        !.ncli = r.ncli + 1, !.iflag = FALSE]
popcli(r)  == [r EXCEPT !.ncli = r.ncli - 1,
                        !.iflag = r.iflag \/ (r.ncli = 1 /\ r.intena)]

\* Processor c executes a thread whose stack starts with label l.
At(c, l) == stack[cpu[c].on] # <<>> /\ Head(stack[cpu[c].on]) = l

Rest(t)        == Tail(stack[t])
Goto(t, l)     == stack' = [stack EXCEPT ![t] = <<l>> \o Rest(t)]
Return(t)      == stack' = [stack EXCEPT ![t] = Rest(t)]
EnterSched(t, back) == stack' = [stack EXCEPT ![t] = <<"sched", back>> \o Rest(t)]

\* acquire and release, with what they do to interrupts.
AcquirePt(c) == ptlock = NULL /\ ptlock' = c /\ cpu' = [cpu EXCEPT ![c] = pushcli(cpu[c])]
ReleasePt(c) == ptlock' = NULL /\ cpu' = [cpu EXCEPT ![c] = popcli(cpu[c])]
AcquireTicks(c) == tickslock = NULL /\ tickslock' = c /\ cpu' = [cpu EXCEPT ![c] = pushcli(cpu[c])]
ReleaseTicks(c) == tickslock' = NULL /\ cpu' = [cpu EXCEPT ![c] = popcli(cpu[c])]

\* wakeup1, as an update of the states.
wakeup1(s, ch) ==
  [p \in Procs |-> IF s[p] = "SLEEPING" /\ chan[p] = ch THEN "RUNNABLE" ELSE s[p]]

-----------------------------------------------------------------------------
\* The loop of scheduler(): sti, acquire ...
loop(c) ==
  /\ At(c, "loop")
  /\ cpu' = [cpu EXCEPT ![c].iflag = TRUE]
  /\ Goto(Sched(c), "acquire")
  /\ UNCHANGED <<table, local, ptlock, tickslock>>

acquire(c) ==
  /\ At(c, "acquire")
  /\ ptlock = NULL /\ ptlock' = c
  /\ cpu' = [cpu EXCEPT ![c] = [pushcli(cpu[c]) EXCEPT !.cursor = 0]]
  /\ Goto(Sched(c), "scan")
  /\ UNCHANGED <<table, local, tickslock>>

\* ... and the scan of the table: switch to the next runnable process, which goes on
\* with ptable.lock held, or release the lock at the end of the table.
scan(c) ==
  LET R == {p \in Procs : p > cpu[c].cursor /\ state[p] = "RUNNABLE"}
  IN  /\ At(c, "scan")
      /\ \/ /\ R # {}
            /\ cpu' = [cpu EXCEPT ![c].on = Min(R), ![c].proc = Min(R), ![c].cursor = Min(R)]
            /\ state' = [state EXCEPT ![Min(R)] = "RUNNING"]
            /\ UNCHANGED <<stack, ptlock>>
         \/ /\ R = {}
            /\ ptlock' = NULL
            /\ cpu' = [cpu EXCEPT ![c] = [popcli(cpu[c]) EXCEPT !.proc = NULL]]
            /\ Goto(Sched(c), "loop")
            /\ UNCHANGED state
      /\ UNCHANGED <<chan, parent, killed, named, local, tickslock>>

\* sched: keep intena and switch to the processor's scheduler, which is in its scan.
sched(c) ==
  LET p == cpu[c].on
  IN  /\ At(c, "sched")
      /\ saved' = [saved EXCEPT ![p] = cpu[c].intena]
      /\ cpu' = [cpu EXCEPT ![c].on = Sched(c)]
      /\ Goto(p, "swtch")
      /\ UNCHANGED <<table, np, left, ptlock, tickslock>>

\* sched after the switch back, perhaps on another processor; the fault leaves intena
\* as the processor had it.
IntenaLost(c) ==
  /\ At(c, "swtch")
  /\ Return(cpu[c].on)
  /\ UNCHANGED <<table, local, cpu, ptlock, tickslock>>

swtch(c) ==
  /\ At(c, "swtch")
  /\ cpu' = [cpu EXCEPT ![c].intena = saved[cpu[c].on]]
  /\ Return(cpu[c].on)
  /\ UNCHANGED <<table, local, ptlock, tickslock>>

\* A new process: give back the scheduler's lock and return to user mode.
forkret(c) ==
  /\ At(c, "forkret")
  /\ ptlock' = NULL
  /\ cpu' = [cpu EXCEPT ![c] = [popcli(cpu[c]) EXCEPT !.iflag = TRUE]]
  /\ Return(cpu[c].on)
  /\ UNCHANGED <<table, local, tickslock>>

-----------------------------------------------------------------------------
\* A timer interrupt: the gate turns interrupts off and trap goes on above whatever
\* the processor was doing.
Timer(c) ==
  LET t == cpu[c].on
  IN  /\ cpu[c].iflag
      /\ cpu' = [cpu EXCEPT ![c].iflag = FALSE]
      /\ stack' = [stack EXCEPT ![t] = <<IF c = Bsp THEN "timer" ELSE "ticked">> \o stack[t]]
      /\ UNCHANGED <<table, local, ptlock, tickslock>>

\* ticks++ under tickslock ...
timer(c) ==
  /\ At(c, "timer")
  /\ AcquireTicks(c)
  /\ left' = [p \in Procs |-> IF left[p] > 0 THEN left[p] - 1 ELSE 0]
  /\ Goto(cpu[c].on, "wake")
  /\ UNCHANGED <<table, saved, np, ptlock>>

\* ... and wakeup(&ticks), before tickslock is released.
wake(c) ==
  /\ At(c, "wake") /\ ptlock = NULL
  /\ state' = wakeup1(state, Ticks)
  /\ ReleaseTicks(c)
  /\ Goto(cpu[c].on, "ticked")
  /\ UNCHANGED <<chan, parent, killed, named, local, ptlock>>

\* iret: back to where the interrupt came, with interrupts on.
Iret(c) == Return(cpu[c].on) /\ cpu' = [cpu EXCEPT ![c].iflag = TRUE]

\* The end of trap: exit if killed in user mode, else yield (the acquire and the change
\* of state) if a process was interrupted.
InUser(p) == Len(stack[p]) = 1

\* The fault: yield does not take ptable.lock.
YieldUnlocked(c) ==
  LET p == cpu[c].proc
  IN  /\ At(c, "ticked")
      /\ IF p = NULL THEN Iret(c) /\ UNCHANGED state
         ELSE /\ cpu' = [cpu EXCEPT ![c] = pushcli(cpu[c])]
              /\ state' = [state EXCEPT ![p] = "RUNNABLE"]
              /\ EnterSched(p, "yielded")
      /\ UNCHANGED <<chan, parent, killed, named, local, ptlock, tickslock>>

ticked(c) ==
  LET p == cpu[c].proc
  IN  /\ At(c, "ticked")
      /\ \/ /\ p = NULL \/ (p # NULL /\ ~(killed[p] /\ InUser(p)) /\ state[p] # "RUNNING")
            /\ Iret(c)
            /\ UNCHANGED <<state, ptlock>>
         \/ /\ p # NULL /\ killed[p] /\ InUser(p)
            /\ Goto(p, "exit")
            /\ UNCHANGED <<state, cpu, ptlock>>
         \/ /\ p # NULL /\ ~(killed[p] /\ InUser(p)) /\ state[p] = "RUNNING"
            /\ AcquirePt(c)
            /\ state' = [state EXCEPT ![p] = "RUNNABLE"]
            /\ EnterSched(p, "yielded")
      /\ UNCHANGED <<chan, parent, killed, named, local, tickslock>>

yielded(c) ==
  /\ At(c, "yielded")
  /\ ReleasePt(c)
  /\ Goto(cpu[c].on, "iret")
  /\ UNCHANGED <<table, local, tickslock>>

iret(c) ==
  LET p == cpu[c].on
  IN  /\ At(c, "iret")
      /\ IF killed[p] /\ InUser(p) THEN Goto(p, "exit") /\ UNCHANGED cpu ELSE Iret(c)
      /\ UNCHANGED <<table, local, ptlock, tickslock>>

\* A fault in user mode: the process is killed and exits.
fault(c) ==
  LET p == cpu[c].on
  IN  /\ p \in Procs \ {initproc} /\ stack[p] = <<>>
      /\ killed' = [killed EXCEPT ![p] = TRUE]
      /\ stack' = [stack EXCEPT ![p] = <<"exit">>]
      /\ cpu' = [cpu EXCEPT ![c].iflag = FALSE]
      /\ UNCHANGED <<state, chan, parent, named, local, ptlock, tickslock>>

\* A system call, through a gate that leaves interrupts on.

syscall(c) ==
  LET p == cpu[c].on
  IN  /\ p \in Procs /\ stack[p] = <<>>
      /\ \/ killed[p] /\ stack' = [stack EXCEPT ![p] = <<"exit">>]
         \/ /\ ~killed[p]
            /\ \E call \in Programs[p] : stack' = [stack EXCEPT ![p] = <<call, "sysret">>]
      /\ UNCHANGED <<table, local, cpu, ptlock, tickslock>>

sysret(c) ==
  LET p == cpu[c].on
  IN  /\ At(c, "sysret")
      /\ IF killed[p] THEN Goto(p, "exit") /\ UNCHANGED cpu ELSE Iret(c)
      /\ UNCHANGED <<table, local, ptlock, tickslock>>

-----------------------------------------------------------------------------
\* allocproc: the first free slot.  Its killed flag stays as it is.
fork(c) ==
  LET p == cpu[c].on
      U == {q \in Procs : state[q] = "UNUSED"}
  IN  /\ At(c, "fork") /\ ptlock = NULL
      /\ \/ U = {} /\ Return(p) /\ UNCHANGED <<state, named, np>>
         \/ /\ U # {}
            /\ state' = [state EXCEPT ![Min(U)] = "EMBRYO"]
            /\ named' = [named EXCEPT ![Min(U)] = TRUE]
            /\ np' = [np EXCEPT ![p] = Min(U)]
            /\ Goto(p, "copy")
      /\ UNCHANGED <<chan, parent, killed, saved, left, cpu, ptlock, tickslock>>

\* No memory for the stack or the copy: the slot is given back, pid and all, without
\* ptable.lock.  Otherwise the child gets its parent.
copy(c) ==
  LET p == cpu[c].on
  IN  /\ At(c, "copy")
      /\ \/ /\ state' = [state EXCEPT ![np[p]] = "UNUSED"]
            /\ np' = [np EXCEPT ![p] = NULL]
            /\ Return(p)
            /\ UNCHANGED parent
         \/ /\ parent' = [parent EXCEPT ![np[p]] = p]
            /\ Goto(p, "publish")
            /\ UNCHANGED <<state, np>>
      /\ UNCHANGED <<chan, killed, named, saved, left, cpu, ptlock, tickslock>>

publish(c) ==
  LET p == cpu[c].on
  IN  /\ At(c, "publish") /\ ptlock = NULL
      /\ state' = [state EXCEPT ![np[p]] = "RUNNABLE"]
      /\ stack' = [stack EXCEPT ![p] = Rest(p), ![np[p]] = <<"forkret">>]
      /\ np' = [np EXCEPT ![p] = NULL]
      /\ UNCHANGED <<chan, parent, killed, named, saved, left, cpu, ptlock, tickslock>>

\* The children of p after its exit.
PassedToInit(p) == [q \in Procs |-> IF parent[q] = p THEN initproc ELSE parent[q]]

\* Who an exit wakes: the parent, and initproc if it inherits a zombie.  The fault
\* forgets the parent.
HeirOnly(p) ==
  IF \E q \in Procs : parent[q] = p /\ state[q] = "ZOMBIE" THEN wakeup1(state, initproc) ELSE state
WakeParents(p) ==
  LET s == wakeup1(state, parent[p])
  IN  IF \E q \in Procs : parent[q] = p /\ state[q] = "ZOMBIE" THEN wakeup1(s, initproc) ELSE s

\* exit, its files closed.
exit(c) ==
  LET p == cpu[c].on
  IN  /\ At(c, "exit")
      /\ AcquirePt(c)
      /\ parent' = PassedToInit(p)
      /\ state' = [WakeParents(p) EXCEPT ![p] = "ZOMBIE"]
      /\ EnterSched(p, "zombie exit")
      /\ UNCHANGED <<chan, killed, named, local, tickslock>>

wait(c) ==
  /\ At(c, "wait")
  /\ AcquirePt(c)
  /\ Goto(cpu[c].on, "scan children")
  /\ UNCHANGED <<table, local, tickslock>>

\* One turn of the loop of wait, ptable.lock held: reap the first zombie, give up, or
\* sleep on the own slot and come back here.
Reap(p, z) ==
  /\ state'  = [state EXCEPT ![z] = "UNUSED"]
  /\ named'  = [named EXCEPT ![z] = FALSE]
  /\ parent' = [parent EXCEPT ![z] = NULL]
  /\ killed' = [killed EXCEPT ![z] = FALSE]
  /\ stack'  = [stack EXCEPT ![p] = Rest(p), ![z] = <<>>]

waitloop(c) ==
  LET p    == cpu[c].on
      kids == {q \in Procs : parent[q] = p}
      Z    == {q \in kids : state[q] = "ZOMBIE"}
  IN  /\ At(c, "scan children")
      /\ \/ /\ Z # {}
            /\ Reap(p, Min(Z))
            /\ chan' = [chan EXCEPT ![p] = NULL]
            /\ ReleasePt(c)
         \/ /\ Z = {} /\ (kids = {} \/ killed[p])
            /\ Return(p)
            /\ chan' = [chan EXCEPT ![p] = NULL]
            /\ ReleasePt(c)
            /\ UNCHANGED <<state, named, parent, killed>>
         \/ /\ Z = {} /\ kids # {} /\ ~killed[p]
            /\ chan' = [chan EXCEPT ![p] = p]
            /\ state' = [state EXCEPT ![p] = "SLEEPING"]
            /\ EnterSched(p, "scan children")
            /\ UNCHANGED <<named, parent, killed, cpu, ptlock>>
      /\ UNCHANGED <<local, tickslock>>

\* kill of the slot that the pid names: a process, a slot fork gave back with its pid,
\* or, for pid 0, the first slot that has none.  For a pid that names none it returns -1.
Addressed == {q \in Procs : named[q] \/ \A r \in Procs : r < q => named[r]}

kill(c) ==
  /\ At(c, "kill") /\ ptlock = NULL
  /\ \/ \E q \in Addressed \cap KillTargets :
          /\ killed' = [killed EXCEPT ![q] = TRUE]
          /\ state' = [state EXCEPT ![q] = IF state[q] = "SLEEPING" THEN "RUNNABLE" ELSE state[q]]
     \/ UNCHANGED <<killed, state>>
  /\ Return(cpu[c].on)
  /\ UNCHANGED <<chan, parent, named, local, cpu, ptlock, tickslock>>

\* sys_sleep.
sleep(c) ==
  /\ At(c, "sleep")
  /\ AcquireTicks(c)
  /\ \E n \in Naps : left' = [left EXCEPT ![cpu[c].on] = n]
  /\ Goto(cpu[c].on, "check")
  /\ UNCHANGED <<table, saved, np, ptlock>>

\* The condition of its loop, tickslock held.
check(c) ==
  LET p == cpu[c].on
  IN  /\ At(c, "check")
      /\ \/ /\ left[p] = 0 \/ killed[p]
            /\ left' = [left EXCEPT ![p] = 0]
            /\ ReleaseTicks(c)
            /\ Return(p)
         \/ /\ left[p] > 0 /\ ~killed[p]
            /\ Goto(p, "go to sleep")
            /\ UNCHANGED <<left, cpu, tickslock>>
      /\ UNCHANGED <<table, saved, np, ptlock>>

\* sleep(&ticks, &tickslock): ptable.lock is taken before tickslock is released.
gosleep(c) ==
  LET p == cpu[c].on
  IN  /\ At(c, "go to sleep")
      /\ ptlock = NULL /\ ptlock' = c
      /\ tickslock' = NULL
      /\ cpu' = [cpu EXCEPT ![c] = popcli(pushcli(cpu[c]))]
      /\ chan' = [chan EXCEPT ![p] = Ticks]
      /\ state' = [state EXCEPT ![p] = "SLEEPING"]
      /\ EnterSched(p, "slept")
      /\ UNCHANGED <<parent, killed, named, local>>

slept(c) ==
  /\ At(c, "slept")
  /\ chan' = [chan EXCEPT ![cpu[c].on] = NULL]
  /\ ReleasePt(c)
  /\ Goto(cpu[c].on, "lock again")
  /\ UNCHANGED <<state, parent, killed, named, local, tickslock>>

relock(c) ==
  /\ At(c, "lock again")
  /\ AcquireTicks(c)
  /\ Goto(cpu[c].on, "check")
  /\ UNCHANGED <<table, local, ptlock>>

Next ==
  \E c \in CPUs :
    \/ loop(c) \/ acquire(c) \/ scan(c) \/ sched(c) \/ swtch(c) \/ forkret(c)
    \/ Timer(c) \/ timer(c) \/ wake(c) \/ ticked(c) \/ yielded(c) \/ iret(c)
    \/ fault(c) \/ syscall(c) \/ sysret(c)
    \/ fork(c) \/ copy(c) \/ publish(c) \/ exit(c) \/ wait(c) \/ waitloop(c) \/ kill(c)
    \/ sleep(c) \/ check(c) \/ gosleep(c) \/ slept(c) \/ relock(c)

Spec == Init /\ [][Next]_vars

-----------------------------------------------------------------------------
States == {"UNUSED", "EMBRYO", "SLEEPING", "RUNNABLE", "RUNNING", "ZOMBIE"}
Labels == {"loop", "acquire", "scan", "sched", "swtch", "forkret", "timer", "wake", "ticked",
           "yielded", "iret", "sysret", "fork", "copy", "publish", "exit", "zombie exit", "wait",
           "scan children", "kill", "sleep", "check", "go to sleep", "slept", "lock again"}

\* Every variable has its type.
TypeOK ==
  /\ state \in [Procs -> States] /\ chan \in [Procs -> 0 .. Ticks]
  /\ parent \in [Procs -> 0 .. NPROC] /\ np \in [Procs -> 0 .. NPROC]
  /\ killed \in [Procs -> BOOLEAN] /\ named \in [Procs -> BOOLEAN] /\ saved \in [Procs -> BOOLEAN]
  /\ left \in [Procs -> Nat]
  /\ stack \in [Procs \cup {Sched(c) : c \in CPUs} -> Seq(Labels)]
  /\ cpu \in [CPUs -> [on : (-NCPU) .. NPROC, proc : 0 .. NPROC, ncli : Nat,
                       intena : BOOLEAN, iflag : BOOLEAN, cursor : 0 .. NPROC]]
  /\ ptlock \in 0 .. NCPU /\ tickslock \in 0 .. NCPU

\* The kernel stack of a process is used by one processor at a time: a process is never
\* run by two processors, and one that is off the processors is not half switched out
\* when another processor can pick it up.  RUNNING means being on a processor.
StackExclusive ==
  /\ TypeOK
  /\ \A c, d \in CPUs : cpu[c].on = cpu[d].on => c = d
  /\ ptlock = NULL => \A p \in Procs : state[p] = "RUNNING" <=> \E c \in CPUs : cpu[c].on = p
  /\ \A c \in CPUs : cpu[c].on \in Procs => cpu[c].proc = cpu[c].on

\* None of the tests that panic in sched, acquire, release, popcli and exit is ever met:
\* a processor that switches holds ptable.lock and nothing else, with interrupts off; a
\* lock is released by its holder, on whatever processor the thread is by then, and not
\* acquired twice, by an interrupt handler for one; no zombie runs again, and initproc
\* does not exit.
NoPanic ==
  \A c \in CPUs :
    /\ cpu[c].ncli = (IF ptlock = c THEN 1 ELSE 0) + (IF tickslock = c THEN 1 ELSE 0)
    /\ cpu[c].iflag => cpu[c].ncli = 0
    /\ At(c, "sched") => ptlock = c /\ cpu[c].ncli = 1 /\ state[cpu[c].on] # "RUNNING"
    /\ \A l \in {"scan", "forkret", "yielded", "scan children", "slept"} : At(c, l) => ptlock = c
    /\ \A l \in {"wake", "check", "go to sleep"} : At(c, l) => tickslock = c /\ ptlock # c
    /\ \A l \in {"acquire", "fork", "publish", "wait", "exit", "kill", "ticked", "timer", "sleep",
                 "lock again"} : At(c, l) => cpu[c].ncli = 0
    /\ ~At(c, "zombie exit") /\ ~(cpu[c].on = initproc /\ At(c, "exit"))

\* Whenever ptable.lock is free, every process but initproc has a parent that has not exited.
ParentAlive ==
  ptlock = NULL =>
    \A p \in Procs \ {initproc} : state[p] \notin {"UNUSED", "EMBRYO"} =>
      parent[p] # NULL /\ state[parent[p]] \in {"SLEEPING", "RUNNABLE", "RUNNING"}

\* No wakeup is lost.  Whenever ptable.lock is free, a process that sleeps in wait has no
\* zombie child and has not been killed; whenever tickslock is free, one that sleeps for
\* the clock still has ticks to wait for.  And somebody can always wait for a process, through
\* any sequence of forks and exits.
NoLostWakeup ==
  /\ ParentAlive
  /\ ptlock = NULL => \A p \in Procs : state[p] = "SLEEPING" /\ chan[p] = p =>
                        ~killed[p] /\ \A q \in Procs : ~(parent[q] = p /\ state[q] = "ZOMBIE")
  /\ tickslock = NULL => \A p \in Procs : state[p] = "SLEEPING" /\ chan[p] = Ticks => left[p] > 0

\* A thread finds interrupts as it left them, after it slept or was preempted and whatever
\* ran on the processor in between: on in a system call outside critical sections, off with a
\* lock held, so that no panic of the locks or of sched is met.
InterruptsRestored ==
  /\ NoPanic
  /\ \A c \in CPUs :
       /\ cpu[c].on \in Procs /\ stack[cpu[c].on] = <<>> => cpu[c].iflag
       /\ \A l \in {"fork", "copy", "publish", "wait", "kill", "sleep", "lock again", "sysret"} :
            At(c, l) => cpu[c].iflag
=============================================================================
