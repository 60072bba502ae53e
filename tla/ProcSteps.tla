----------------------------- MODULE ProcSteps ------------------------------
(***************************************************************************)
(* What the steps of Proc preserve of stacks, processors and locks, for    *)
(* any number of processors and processes.  The inductive invariant of     *)
(* Proc is defined here; ProcProofs has the other half of its proof.       *)
(***************************************************************************)
EXTENDS Proc, NaturalsInduction, WellFoundedInduction, TLAPS

Threads == Procs \cup {Sched(c) : c \in CPUs}
Cpu == [on : (-NCPU) .. NPROC, proc : 0 .. NPROC, ncli : Nat,
        intena : BOOLEAN, iflag : BOOLEAN, cursor : 0 .. NPROC]

\* The first label of a stack; a process in user mode has none.
Top(s) == IF s = <<>> THEN "user" ELSE Head(s)

\* The labels where a processor holds ptable.lock and where it holds tickslock; the system
\* calls that an interrupt can stop; the handler of the interrupt; the labels of calls.
PtHeld    == {"scan", "sched", "swtch", "forkret", "yielded", "scan children", "slept"}
TicksHeld == {"wake", "check", "go to sleep"}
OpenCalls == {"fork", "copy", "publish", "wait", "kill", "sleep", "lock again"}
Handlers  == {"timer", "wake", "ticked", "yielded", "iret"}
Calls     == OpenCalls \cup {"scan children", "check", "go to sleep", "slept"}
Switches  == {"sched", "swtch"}

\* What process p can have on its stack when it is interrupted ...
Open(p, s) ==
  /\ Top(s) \in {"user", "sysret", "exit"} \cup OpenCalls
  /\ Top(s) = "exit" => p # initproc
  /\ Top(s) = "sysret" => Tail(s) = <<>>
  /\ Top(s) \in OpenCalls => Tail(s) = <<"sysret">>

\* ... and below the labels of sched ...
Away(p, s) ==
  /\ Top(s) \in {"yielded", "scan children", "slept", "zombie exit"}
  /\ Top(s) = "zombie exit" => p # initproc
  /\ Top(s) = "yielded" => Open(p, Tail(s))
  /\ Top(s) \in {"scan children", "slept"} => Tail(s) = <<"sysret">>

\* ... and at any time.
Fits(p, s) ==
  /\ Top(s) \in {"user", "sysret", "exit", "forkret"} \cup Calls \cup Handlers \cup Switches
  /\ Top(s) = "exit" => p # initproc
  /\ Top(s) \in {"sysret", "forkret"} => Tail(s) = <<>>
  /\ Top(s) \in Calls => Tail(s) = <<"sysret">>
  /\ Top(s) \in Handlers => Open(p, Tail(s))
  /\ Top(s) \in Switches => Away(p, Tail(s))

\* The stack of a scheduler.
SchedFits(s) ==
  \/ Top(s) \in {"loop", "acquire", "scan"} /\ Tail(s) = <<>>
  \/ Top(s) \in {"timer", "wake", "ticked"} /\ Tail(s) \in {<<"loop">>, <<"acquire">>}

\* Where a thread goes on when it is switched to, and what it was doing when it was
\* interrupted.
Resume(s) == IF Top(s) \in Switches THEN Top(Tail(s)) ELSE Top(s)
Doing(s)  == IF Top(s) \in Handlers THEN Top(Tail(s))
             ELSE IF Top(s) \in Switches /\ Top(Tail(s)) = "yielded" THEN Top(Tail(Tail(s)))
             ELSE Top(s)

Cur(c) == stack[cpu[c].on]
OnCpu(p) == \E c \in CPUs : cpu[c].on = p

\* The label tells whether interrupts are on and whether they are to be on once the locks are
\* released.
On  == {"scan children", "slept", "check", "go to sleep"}
Off == {"wake", "yielded"}
Flags(r, t, u) ==
  /\ r.ncli = IF t \in PtHeld \cup TicksHeld THEN 1 ELSE 0
  /\ r.iflag => t \in {"user", "sysret", "exit", "loop", "acquire"} \cup OpenCalls
  /\ t \in {"user", "sysret"} \cup OpenCalls => r.iflag
  /\ t # "swtch" => (u \in On => r.intena) /\ (u \in Off => ~r.intena)
Ints(r, s) == Flags(r, Top(s), Resume(s))

\* The thread on a processor, and the scheduler below it.
Placed(c) ==
  /\ cpu[c].on \in Procs \cup {Sched(c)}
  /\ cpu[c].on \in Procs => cpu[c].proc = cpu[c].on /\ stack[Sched(c)] = <<"scan">>
  /\ cpu[c].on \notin Procs /\ Top(Cur(c)) # "scan" => cpu[c].proc = NULL
  /\ SchedFits(stack[Sched(c)])

\* The holder of a lock is the processor at a label where it is held.
Locks(c) ==
  /\ ptlock = c <=> Top(Cur(c)) \in PtHeld
  /\ tickslock = c <=> Top(Cur(c)) \in TicksHeld

CpuInv == \A c \in CPUs : Placed(c) /\ Locks(c) /\ Ints(cpu[c], Cur(c))
Single == \A c, d \in CPUs : cpu[c].on = cpu[d].on => c = d

\* The state of a process that a processor runs with stack s ...
StateOn(st, s) ==
  /\ Top(s) # "sched" => st = "RUNNING" /\ Resume(s) # "zombie exit"
  /\ Top(s) = "sched" => /\ Resume(s) = "yielded" => st = "RUNNABLE"
                         /\ Resume(s) \in {"scan children", "slept"} => st = "SLEEPING"
                         /\ Resume(s) = "zombie exit" => st = "ZOMBIE"

\* ... and of one that no processor runs.
StateOff(st, s) ==
  \/ st \in {"UNUSED", "EMBRYO"} /\ s = <<>>
  \/ st = "RUNNABLE" /\ Top(s) \in {"swtch", "forkret"} /\ Resume(s) # "zombie exit"
  \/ st = "SLEEPING" /\ Top(s) = "swtch" /\ Resume(s) \in {"scan children", "slept"}
  \/ st = "ZOMBIE" /\ Top(s) = "swtch" /\ Resume(s) = "zombie exit"

\* sched keeps intena as the thread has to find it.
Keeps(p) ==
  Top(stack[p]) = "swtch" =>
    (Resume(stack[p]) \in On => saved[p]) /\ (Resume(stack[p]) \in Off => ~saved[p])

ProcRight(p) ==
  /\ Fits(p, stack[p]) /\ Keeps(p)
  /\ IF OnCpu(p) THEN StateOn(state[p], stack[p]) ELSE StateOff(state[p], stack[p])
ProcInv == \A p \in Procs : ProcRight(p)

-----------------------------------------------------------------------------
\* A process in fork has a slot of its own, and every process a parent that can wait for it.
Alive == {"SLEEPING", "RUNNABLE", "RUNNING"}
Forking(p) == Doing(stack[p]) \in {"copy", "publish"}
ForkInv ==
  /\ \A p \in Procs : Forking(p) =>
       /\ np[p] \in Procs /\ state[np[p]] = "EMBRYO"
       /\ Doing(stack[p]) = "publish" => parent[np[p]] = p
  /\ \A p, q \in Procs : Forking(p) /\ Forking(q) /\ np[p] = np[q] => p = q

ParentInv ==
  /\ state[initproc] \in Alive /\ parent[initproc] = NULL /\ ~killed[initproc]
  /\ \A q \in Procs : /\ parent[q] # q
                      /\ q # initproc /\ state[q] \notin {"UNUSED", "EMBRYO"} =>
                           parent[q] \in Procs /\ state[parent[q]] \in Alive

\* Who sleeps has something to wait for, or the one who will wake it holds tickslock.
SleepInv ==
  /\ \A p \in Procs : state[p] = "SLEEPING" /\ chan[p] = p =>
       ~killed[p] /\ \A q \in Procs : ~(parent[q] = p /\ state[q] = "ZOMBIE")
  /\ \A p \in Procs : state[p] = "SLEEPING" /\ chan[p] = Ticks =>
       left[p] > 0 \/ \E c \in CPUs : Top(Cur(c)) = "wake"
  /\ \A c \in CPUs : Top(Cur(c)) = "go to sleep" => left[cpu[c].on] > 0

RunInv == TypeOK /\ CpuInv /\ Single /\ ProcInv
WakeInv == ForkInv /\ ParentInv /\ SleepInv
IInv == RunInv /\ WakeInv

-----------------------------------------------------------------------------
\* Stacks.
LEMMA Push ==
  ASSUME NEW l \in Labels, NEW s \in Seq(Labels)
  PROVE  /\ <<l>> \o s \in Seq(Labels) /\ <<l>> \o s # <<>>
         /\ Head(<<l>> \o s) = l /\ Tail(<<l>> \o s) = s /\ Top(<<l>> \o s) = l
<1>1. <<l>> \o s \in Seq(Labels) /\ <<l>> \o s # <<>> /\ Head(<<l>> \o s) = l
  OBVIOUS
<1>2. Tail(<<l>> \o s) = s
  OBVIOUS
<1> QED
  BY <1>1, <1>2 DEF Top

IsPush2(t, l, m, s) == t \in Seq(Labels) /\ Top(t) = l /\ Top(Tail(t)) = m /\ Tail(Tail(t)) = s
LEMMA Push2 ==
  ASSUME NEW l \in Labels, NEW m \in Labels, NEW s \in Seq(Labels)
  PROVE  IsPush2(<<l, m>> \o s, l, m, s)
<1>1. <<l, m>> \o s \in Seq(Labels) /\ <<l, m>> \o s # <<>> /\ Head(<<l, m>> \o s) = l
  OBVIOUS
<1>2. Tail(<<l, m>> \o s) = <<m>> \o s
  OBVIOUS
<1> QED
  BY <1>1, <1>2, Push DEF Top, IsPush2

LEMMA Pop ==
  ASSUME NEW s \in Seq(Labels), s # <<>>
  PROVE  Tail(s) \in Seq(Labels) /\ Head(s) \in Labels
  OBVIOUS

LEMMA TopIs ==
  ASSUME NEW s \in Seq(Labels)
  PROVE  /\ Top(s) = "user" <=> s = <<>>
         /\ \A l \in Labels : (s # <<>> /\ Head(s) = l) <=> Top(s) = l
<1>1. s # <<>> => Head(s) \in Labels
  BY Pop
<1>2. "user" \notin Labels
  BY DEF Labels
<1> QED
  BY Zenon, <1>1, <1>2 DEF Top

LEMMA Singles ==
  ASSUME NEW l \in Labels
  PROVE  <<l>> \in Seq(Labels) /\ <<l>> # <<>> /\ Top(<<l>>) = l /\ Tail(<<l>>) = <<>>
<1>1. <<l>> \in Seq(Labels) /\ <<l>> # <<>> /\ Head(<<l>>) = l /\ Tail(<<l>>) = <<>>
  OBVIOUS
<1> QED
  BY Zenon, <1>1 DEF Top

LEMMA EmptyLen == Len(<<>>) = 0
  OBVIOUS

LEMMA Alone ==
  ASSUME NEW s \in Seq(Labels), s # <<>>, Tail(s) = <<>>
  PROVE  s = <<Top(s)>>
<1>1. s = <<Head(s)>>
  <2>1. Len(Tail(s)) = Len(s) - 1 /\ Len(s) \in Nat
    OBVIOUS
  <2>2. Len(Tail(s)) = 0
    BY Zenon, EmptyLen
  <2>3. Len(s) = 1
    BY <2>1, <2>2
  <2> QED
    BY <2>3
<1> QED
  BY Zenon, <1>1 DEF Top

LEMMA Pairs ==
  ASSUME NEW l \in Labels, NEW m \in Labels
  PROVE  <<l, m>> \in Seq(Labels) /\ Top(<<l, m>>) = l /\ Tail(<<l, m>>) = <<m>>
<1>1. <<l, m>> \in Seq(Labels) /\ <<l, m>> # <<>> /\ Head(<<l, m>>) = l /\ Tail(<<l, m>>) = <<m>>
  OBVIOUS
<1> QED
  BY Zenon, <1>1 DEF Top

\* Processors and threads.
LEMMA Apart ==
  /\ NULL \notin Procs /\ NULL \notin CPUs /\ initproc \in Procs /\ Bsp \in CPUs
  /\ Ticks \notin Procs /\ NULL # Ticks
  /\ \A c \in CPUs : Sched(c) \notin Procs /\ Sched(c) \in Threads
  /\ \A c, d \in CPUs : Sched(c) = Sched(d) => c = d
  BY ProcAssumption DEF NULL, Procs, CPUs, initproc, Bsp, Ticks, Sched, Threads

LEMMA PushIs ==
  ASSUME NEW r \in Cpu, r.ncli = 0
  PROVE  /\ pushcli(r) \in Cpu /\ pushcli(r).on = r.on /\ pushcli(r).proc = r.proc /\ pushcli(r).ncli = 1
         /\ ~pushcli(r).iflag /\ pushcli(r).intena = r.iflag
<1>1. 0 + 1 = 1 /\ 1 \in Nat
  OBVIOUS
<1>2. pushcli(r) = [r EXCEPT !.intena = r.iflag, !.ncli = 1, !.iflag = FALSE]
  BY Zenon, <1>1 DEF pushcli
<1> QED
  BY Zenon, <1>1, <1>2 DEF Cpu

LEMMA PopIs ==
  ASSUME NEW r \in Cpu, r.ncli = 1
  PROVE  /\ popcli(r) \in Cpu /\ popcli(r).on = r.on /\ popcli(r).proc = r.proc /\ popcli(r).ncli = 0
         /\ popcli(r).iflag <=> r.iflag \/ r.intena
         /\ popcli(r).intena = r.intena
<1>1. 1 - 1 = 0 /\ 0 \in Nat
  OBVIOUS
<1>2. popcli(r) = [r EXCEPT !.ncli = 0, !.iflag = r.iflag \/ r.intena]
  BY Zenon, <1>1 DEF popcli
<1>3. (r.iflag \/ r.intena) \in BOOLEAN
  BY Zenon
<1> QED
  BY Zenon, <1>1, <1>2, <1>3 DEF Cpu

LEMMA PushPop ==
  ASSUME NEW r \in Cpu, r.ncli = 1
  PROVE  LET k == popcli(pushcli(r))
         IN  /\ k \in Cpu /\ k.on = r.on /\ k.proc = r.proc /\ k.ncli = 1
             /\ ~k.iflag /\ k.intena = r.intena
<1>1. 1 # 0 /\ (1 + 1) - 1 = 1 /\ 1 + 1 # 1 /\ 1 \in Nat /\ 1 + 1 \in Nat
  OBVIOUS
<1> DEFINE m == [r EXCEPT !.intena = r.intena, !.ncli = 1 + 1, !.iflag = FALSE]
<1>2. pushcli(r) = m
  BY Zenon, <1>1 DEF pushcli
<1>3. m.ncli = 1 + 1 /\ m.on = r.on /\ m.proc = r.proc /\ m.cursor = r.cursor /\ ~m.iflag /\ m.intena = r.intena
  BY Zenon DEF Cpu
<1>4. popcli(m) = [m EXCEPT !.ncli = 1, !.iflag = FALSE]
  BY Zenon, <1>1, <1>3 DEF popcli
<1>5. m \in Cpu
  BY Zenon, <1>1 DEF Cpu
<1> HIDE DEF m
<1>6. /\ popcli(m) \in Cpu /\ popcli(m).on = m.on /\ popcli(m).proc = m.proc /\ popcli(m).ncli = 1
      /\ ~popcli(m).iflag /\ popcli(m).intena = m.intena
  BY Zenon, <1>1, <1>4, <1>5 DEF Cpu
<1> QED
  BY Zenon, <1>2, <1>3, <1>6

LEMMA Least ==
  ASSUME NEW S \in SUBSET Procs, S # {}
  PROVE  Min(S) \in S
<1> DEFINE R == OpToRel(<, Nat)
<1>1. \A x, y \in Nat : <<x, y>> \in R <=> x < y
  BY Zenon DEF OpToRel
<1>0. S \in SUBSET Nat
  BY ProcAssumption DEF Procs
<1>2. \E x \in S : \A y \in S : ~ (<<y, x>> \in R)
  BY Zenon, <1>0, NatLessThanWellFounded, WFMin
<1> HIDE DEF R
<1>3. PICK x \in S : \A y \in S : ~ (<<y, x>> \in R)
  BY Zenon, <1>2
<1>4. x \in Nat /\ \A y \in S : y \in Nat
  BY Zenon, <1>0
<1>5. \A y \in S : ~(y < x)
  BY Zenon, <1>1, <1>3, <1>4
<1>6. \A y \in S : x =< y
  BY <1>4, <1>5
<1> QED
  BY Zenon, <1>6 DEF Min

-----------------------------------------------------------------------------
\* What a processor is doing.
LEMMA Here ==
  ASSUME RunInv, NEW c \in CPUs
  PROVE  /\ cpu[c] \in Cpu /\ cpu[c].on \in Threads /\ Cur(c) \in Seq(Labels)
         /\ \A l \in Labels : At(c, l) <=> Top(Cur(c)) = l
         /\ Top(Cur(c)) # "user" => Tail(Cur(c)) \in Seq(Labels) /\ Cur(c) # <<>>
<1>1. cpu[c] \in Cpu /\ cpu[c].on \in Procs \cup {Sched(c)}
  BY Zenon DEF RunInv, TypeOK, Cpu, CpuInv, Placed
<1>2. cpu[c].on \in Threads
  BY Zenon, <1>1 DEF Threads
<1>3. Cur(c) \in Seq(Labels)
  BY Zenon, <1>2 DEF RunInv, TypeOK, Threads, Cur
<1>4. \A l \in Labels : At(c, l) <=> Top(Cur(c)) = l
  BY Zenon, <1>3, TopIs DEF At, Cur
<1>5. Top(Cur(c)) # "user" => Tail(Cur(c)) \in Seq(Labels) /\ Cur(c) # <<>>
  BY Zenon, <1>3, Pop DEF Top
<1> QED
  BY Zenon, <1>1, <1>2, <1>3, <1>4, <1>5

LEMMA InSched ==
  ASSUME RunInv, NEW c \in CPUs, Top(Cur(c)) \in {"loop", "acquire", "scan"}
  PROVE  /\ cpu[c].on = Sched(c) /\ cpu[c].on \notin Procs /\ Tail(Cur(c)) = <<>>
         /\ Top(Cur(c)) # "scan" => cpu[c].proc = NULL
<1>1. cpu[c].on \notin Procs
  <2>1. \A p \in Procs : Fits(p, stack[p])
    BY Zenon DEF RunInv, ProcInv, ProcRight
  <2> QED
    BY Zenon, <2>1 DEF Fits, Cur, Calls, OpenCalls, Handlers, Switches
<1>2. cpu[c].on = Sched(c) /\ SchedFits(Cur(c)) /\ (Top(Cur(c)) # "scan" => cpu[c].proc = NULL)
  BY Zenon, <1>1 DEF RunInv, CpuInv, Placed, Cur
<1> QED
  BY Zenon, <1>1, <1>2 DEF SchedFits

LEMMA InProcess ==
  ASSUME RunInv, NEW c \in CPUs,
         Top(Cur(c)) \notin {"loop", "acquire", "scan", "timer", "wake", "ticked"} \/ cpu[c].on \in Procs
  PROVE  /\ cpu[c].on \in Procs /\ cpu[c].proc = cpu[c].on /\ Fits(cpu[c].on, Cur(c))
         /\ StateOn(state[cpu[c].on], Cur(c))
<1>1. cpu[c].on \in Procs
  <2>1. SchedFits(stack[Sched(c)]) /\ cpu[c].on \in Procs \cup {Sched(c)}
    BY Zenon DEF RunInv, CpuInv, Placed
  <2> QED
    BY Zenon, <2>1 DEF SchedFits, Cur
<1> QED
  BY Zenon, <1>1 DEF RunInv, CpuInv, Placed, ProcInv, ProcRight, OnCpu, Cur

LEMMA Ready ==
  ASSUME RunInv, NEW c \in CPUs
  PROVE  /\ (ptlock = c <=> Top(Cur(c)) \in PtHeld) /\ (tickslock = c <=> Top(Cur(c)) \in TicksHeld)
         /\ Ints(cpu[c], Cur(c))
  BY Zenon DEF RunInv, CpuInv, Locks

-----------------------------------------------------------------------------
\* A step that leaves processor c on its thread, whose stack becomes s; r is what becomes of
\* the processor.
Moves(c, r, s) ==
  /\ cpu' = [cpu EXCEPT ![c] = r] /\ r.on = cpu[c].on /\ stack'[cpu[c].on] = s
  /\ \A d \in CPUs : Sched(d) # cpu[c].on => stack'[Sched(d)] = stack[Sched(d)]

\* Locks go from nobody to c and back.
LockMoves(c) ==
  /\ ptlock' = ptlock \/ (ptlock \in {NULL, c} /\ ptlock' \in {NULL, c})
  /\ tickslock' = tickslock \/ (tickslock \in {NULL, c} /\ tickslock' \in {NULL, c})

\* A process on no processor is as it has to be after the step.
OffRight(q) == ~OnCpu(q) /\ Fits(q, stack'[q]) /\ Keeps(q)' /\ StateOff(state'[q], stack'[q])

\* The other processes.
Others(c) ==
  \A q \in Procs : q # cpu[c].on =>
    \/ stack'[q] = stack[q] /\ state'[q] = state[q] /\ saved'[q] = saved[q]
    \/ OffRight(q)

LEMMA OnStep ==
  ASSUME RunInv, NEW c \in CPUs, NEW r, NEW s, Moves(c, r, s), LockMoves(c), Others(c), Ints(r, s),
         ptlock' = c <=> Top(s) \in PtHeld, tickslock' = c <=> Top(s) \in TicksHeld,
         cpu[c].on \in Procs =>
           r.proc = cpu[c].on /\ Fits(cpu[c].on, s) /\ Top(s) # "swtch" /\ StateOn(state'[cpu[c].on], s),
         cpu[c].on \notin Procs => SchedFits(s) /\ (Top(s) # "scan" => r.proc = NULL)
  PROVE  CpuInv' /\ Single' /\ ProcInv'
<1>1. cpu'[c] = r /\ (\A d \in CPUs : d # c => cpu'[d] = cpu[d]) /\ \A d \in CPUs : cpu'[d].on = cpu[d].on
  BY Zenon DEF Moves, RunInv, TypeOK
<1>2. Single'
  <2>1. SUFFICES ASSUME NEW d \in CPUs, NEW e \in CPUs, cpu'[d].on = cpu'[e].on PROVE d = e
    BY Zenon DEF Single
  <2> QED
    BY Zenon, <1>1, <2>1 DEF RunInv, Single
<1>3. ASSUME NEW d \in CPUs, d # c
      PROVE  stack'[cpu[d].on] = stack[cpu[d].on] /\ stack'[Sched(d)] = stack[Sched(d)]
  <2>1. cpu[d].on # cpu[c].on /\ cpu[d].on \in Procs \cup {Sched(d)} /\ cpu[c].on \in Procs \cup {Sched(c)}
    BY Zenon, <1>3 DEF RunInv, Single, CpuInv, Placed
  <2>2. Sched(d) # cpu[c].on
    BY Zenon, <1>3, <2>1, Apart
  <2>3. cpu[d].on \in Procs => stack'[cpu[d].on] = stack[cpu[d].on]
    BY Zenon, <2>1 DEF Others, OffRight, OnCpu
  <2> QED
    BY Zenon, <2>1, <2>2, <2>3 DEF Moves
<1>4. ASSUME NEW d \in CPUs, d # c
      PROVE  (ptlock' = d <=> ptlock = d) /\ (tickslock' = d <=> tickslock = d)
  BY Zenon, <1>4, Apart DEF LockMoves
<1>5. ASSUME NEW d \in CPUs, d # c
      PROVE  Placed(d)' /\ Locks(d)' /\ Ints(cpu[d], Cur(d))'
  <2>1. Placed(d) /\ Locks(d) /\ Ints(cpu[d], Cur(d))
    BY Zenon DEF RunInv, CpuInv
  <2>2. cpu'[d] = cpu[d] /\ Cur(d)' = Cur(d)
    BY Zenon, <1>1, <1>3, <1>5 DEF Cur
  <2>3. Placed(d)'
    BY Zenon, <1>3, <1>5, <2>1, <2>2 DEF Placed
  <2>4. Locks(d)'
    BY Zenon, <1>4, <1>5, <2>1, <2>2 DEF Locks
  <2> QED
    BY Zenon, <2>1, <2>2, <2>3, <2>4
<1>6. Placed(c)' /\ Locks(c)' /\ Ints(cpu[c], Cur(c))'
  <2>1. cpu'[c] = r /\ Cur(c)' = s /\ r.on = cpu[c].on
    BY Zenon, <1>1 DEF Cur, Moves
  <2>2. cpu[c].on \in Procs \cup {Sched(c)} /\ SchedFits(stack[Sched(c)])
        /\ (cpu[c].on \in Procs => stack[Sched(c)] = <<"scan">>)
    BY Zenon DEF RunInv, CpuInv, Placed
  <2>3. cpu[c].on \in Procs => stack'[Sched(c)] = stack[Sched(c)]
    BY Zenon, Apart DEF Moves
  <2>4. cpu[c].on \notin Procs => stack'[Sched(c)] = s
    BY Zenon, <2>2 DEF Moves
  <2>5. Placed(c)'
    BY Zenon, <2>1, <2>2, <2>3, <2>4 DEF Placed
  <2> QED
    BY Zenon, <2>1, <2>5 DEF Locks
<1>7. CpuInv'
  BY Zenon, <1>5, <1>6 DEF CpuInv
<1>8. ASSUME NEW q \in Procs PROVE ProcRight(q)'
  <2>1. ProcRight(q) /\ (OnCpu(q)' <=> OnCpu(q))
    BY Zenon, <1>1 DEF RunInv, ProcInv, OnCpu
  <2>2. CASE q = cpu[c].on
    <3>1. OnCpu(q) /\ stack'[q] = s
      BY Zenon, <2>2 DEF OnCpu, Moves
    <3> QED
      BY Zenon, <2>1, <2>2, <3>1 DEF ProcRight, Keeps
  <2>3. CASE q # cpu[c].on /\ OffRight(q)
    BY Zenon, <2>1, <2>3 DEF ProcRight, OffRight
  <2>4. CASE q # cpu[c].on /\ ~OffRight(q)
    <3>1. stack'[q] = stack[q] /\ state'[q] = state[q] /\ saved'[q] = saved[q]
      BY Zenon, <2>4 DEF Others
    <3> QED
      BY Zenon, <2>1, <3>1 DEF ProcRight, Keeps
  <2> QED
    BY Zenon, <2>2, <2>3, <2>4
<1> QED
  BY Zenon, <1>2, <1>7, <1>8 DEF ProcInv

\* The step changes the stack of the thread that c is on, and no other.
Own(c, r, s) ==
  /\ r \in Cpu /\ r.on = cpu[c].on /\ cpu' = [cpu EXCEPT ![c] = r]
  /\ s \in Seq(Labels) /\ stack' = [stack EXCEPT ![cpu[c].on] = s]

\* It changes the states of other processes only by waking them, with ptable.lock free.
Wakes(c) ==
  \A q \in Procs : q # cpu[c].on =>
    /\ saved'[q] = saved[q]
    /\ state'[q] = state[q] \/ (state[q] = "SLEEPING" /\ state'[q] = "RUNNABLE" /\ ptlock = NULL)

Held(c, s) ==
  LockMoves(c) /\ (ptlock' = c <=> Top(s) \in PtHeld) /\ (tickslock' = c <=> Top(s) \in TicksHeld)

OwnRight(c, r, s) ==
  /\ Ints(r, s)
  /\ cpu[c].on \in Procs =>
       r.proc = cpu[c].on /\ Fits(cpu[c].on, s) /\ Top(s) # "swtch" /\ StateOn(state'[cpu[c].on], s)
  /\ cpu[c].on \notin Procs => SchedFits(s) /\ (Top(s) # "scan" => r.proc = NULL)

Machine == CpuInv /\ Single /\ ProcInv /\ cpu \in [CPUs -> Cpu] /\ stack \in [Threads -> Seq(Labels)]

LEMMA AsleepOff ==
  ASSUME RunInv, ptlock = NULL, NEW q \in Procs, state[q] = "SLEEPING"
  PROVE  ~OnCpu(q) /\ StateOff(state[q], stack[q])
<1>1. SUFFICES ASSUME NEW c \in CPUs, cpu[c].on = q PROVE FALSE
  BY Zenon DEF OnCpu, RunInv, ProcInv, ProcRight
<1>2. StateOn(state[q], Cur(c))
  BY Zenon, <1>1, InProcess
<1>3. Top(Cur(c)) = "sched"
  BY Zenon, <1>2 DEF StateOn
<1> QED
  BY Zenon, <1>3, Ready, Apart DEF PtHeld

LEMMA Lands ==
  ASSUME RunInv, NEW c \in CPUs, NEW r, NEW s, Own(c, r, s), Wakes(c), Held(c, s), OwnRight(c, r, s)
  PROVE  Machine'
<1>1. cpu \in [CPUs -> Cpu] /\ stack \in [Threads -> Seq(Labels)] /\ cpu[c].on \in Threads
  BY Zenon, Here DEF RunInv, TypeOK, Cpu, Threads
<1>2. cpu' \in [CPUs -> Cpu] /\ stack' \in [Threads -> Seq(Labels)]
  BY Zenon, <1>1 DEF Own
<1>3. stack'[cpu[c].on] = s /\ \A t \in Threads : t # cpu[c].on => stack'[t] = stack[t]
  BY Zenon, <1>1 DEF Own
<1>4. Moves(c, r, s)
  BY Zenon, <1>3, Apart DEF Own, Moves
<1>5. Others(c)
  <2>1. SUFFICES ASSUME NEW q \in Procs, q # cpu[c].on
                 PROVE  (stack'[q] = stack[q] /\ state'[q] = state[q] /\ saved'[q] = saved[q]) \/ OffRight(q)
    BY Zenon DEF Others
  <2>2. stack'[q] = stack[q] /\ saved'[q] = saved[q]
    BY Zenon, <1>3, <2>1 DEF Wakes, Threads
  <2>3. CASE state[q] = "SLEEPING" /\ state'[q] = "RUNNABLE" /\ ptlock = NULL
    <3>1. ~OnCpu(q) /\ StateOff(state[q], stack[q]) /\ Fits(q, stack[q]) /\ Keeps(q)
      BY Zenon, <2>3, AsleepOff DEF RunInv, ProcInv, ProcRight
    <3>2. StateOff(state'[q], stack[q])
      BY Zenon, <2>3, <3>1 DEF StateOff
    <3> QED
      BY Zenon, <2>2, <3>1, <3>2 DEF OffRight, Keeps
  <2> QED
    BY Zenon, <2>1, <2>2, <2>3 DEF Wakes
<1>6. CpuInv' /\ Single' /\ ProcInv'
  BY Zenon, <1>4, <1>5, OnStep DEF Held, OwnRight
<1> QED
  BY Zenon, <1>2, <1>6 DEF Machine

-----------------------------------------------------------------------------
\* The steps, one by one.
LEMMA FlagIs ==
  ASSUME NEW r \in Cpu, NEW b \in BOOLEAN
  PROVE  LET k == [r EXCEPT !.iflag = b]
         IN  /\ k \in Cpu /\ k.on = r.on /\ k.proc = r.proc /\ k.ncli = r.ncli
             /\ k.iflag = b /\ k.intena = r.intena
  BY Zenon DEF Cpu

LEMMA Going ==
  ASSUME RunInv, NEW c \in CPUs, Top(Cur(c)) # "user", NEW l \in Labels
  PROVE  /\ <<l>> \o Tail(Cur(c)) \in Seq(Labels)
         /\ Top(<<l>> \o Tail(Cur(c))) = l /\ Tail(<<l>> \o Tail(Cur(c))) = Tail(Cur(c))
  BY Zenon, Here, Push

\* The thread goes on at another label.
LEMMA GoesRight ==
  ASSUME RunInv, NEW c \in CPUs, NEW r, NEW l \in Labels, l \notin Switches,
         Top(Cur(c)) \notin Switches \cup {"user", "loop", "acquire", "scan"},
         r.proc = cpu[c].proc, Flags(r, l, l), cpu[c].on \in Procs => state'[cpu[c].on] = state[cpu[c].on],
         \/ l \in Calls /\ Top(Cur(c)) \in Calls
         \/ l \in Handlers /\ Top(Cur(c)) \in Handlers /\ (l \in {"timer", "wake", "ticked"} \/ cpu[c].on \in Procs)
         \/ l = "exit" /\ cpu[c].on \in Procs \ {initproc}
  PROVE  /\ <<l>> \o Tail(Cur(c)) \in Seq(Labels) /\ Top(<<l>> \o Tail(Cur(c))) = l
         /\ OwnRight(c, r, <<l>> \o Tail(Cur(c)))
<1> DEFINE s == <<l>> \o Tail(Cur(c))
<1>1. s \in Seq(Labels) /\ Top(s) = l /\ Tail(s) = Tail(Cur(c))
  BY Zenon, Going
<1> HIDE DEF s
<1>2. Ints(r, s)
  BY Zenon, <1>1 DEF Ints, Resume
<1>3. ASSUME cpu[c].on \in Procs
      PROVE  r.proc = cpu[c].on /\ Fits(cpu[c].on, s) /\ Top(s) # "swtch" /\ StateOn(state'[cpu[c].on], s)
  <2>1. cpu[c].proc = cpu[c].on /\ Fits(cpu[c].on, Cur(c)) /\ StateOn(state[cpu[c].on], Cur(c))
    BY Zenon, <1>3, InProcess
  <2>2. Fits(cpu[c].on, s)
    BY Zenon, <1>1, <2>1 DEF Fits, Calls, OpenCalls, Handlers, Switches
  <2>3. state'[cpu[c].on] = "RUNNING"
    BY Zenon, <1>3, <2>1 DEF StateOn, Switches
  <2>4. StateOn(state'[cpu[c].on], s) /\ Top(s) # "swtch"
    BY Zenon, <1>1, <2>3 DEF StateOn, Resume, Switches, Calls, OpenCalls, Handlers
  <2> QED
    BY Zenon, <2>1, <2>2, <2>4
<1>4. ASSUME cpu[c].on \notin Procs
      PROVE  SchedFits(s) /\ (Top(s) # "scan" => r.proc = NULL)
  <2>1. SchedFits(Cur(c)) /\ cpu[c].proc = NULL
    BY Zenon, <1>4 DEF RunInv, CpuInv, Placed, Cur
  <2>2. Top(Cur(c)) \in {"timer", "wake", "ticked"}
    BY Zenon, <2>1 DEF SchedFits
  <2>3. l \in {"timer", "wake", "ticked"}
    BY Zenon, <1>4, <2>2 DEF Calls, OpenCalls
  <2> QED
    BY Zenon, <1>1, <2>1, <2>2, <2>3 DEF SchedFits
<1> QED
  BY Zenon, <1>1, <1>2, <1>3, <1>4 DEF OwnRight, s

LEMMA GoesTo ==
  ASSUME RunInv, NEW c \in CPUs, NEW r \in Cpu, NEW l \in Labels, l \notin Switches,
         Top(Cur(c)) \notin Switches \cup {"user", "loop", "acquire", "scan"},
         r.on = cpu[c].on, r.proc = cpu[c].proc, Flags(r, l, l),
         cpu[c].on \in Procs => state'[cpu[c].on] = state[cpu[c].on],
         \/ l \in Calls /\ Top(Cur(c)) \in Calls
         \/ l \in Handlers /\ Top(Cur(c)) \in Handlers /\ (l \in {"timer", "wake", "ticked"} \/ cpu[c].on \in Procs)
         \/ l = "exit" /\ cpu[c].on \in Procs \ {initproc},
         cpu' = [cpu EXCEPT ![c] = r], Goto(cpu[c].on, l), Wakes(c), LockMoves(c),
         ptlock' = c <=> l \in PtHeld, tickslock' = c <=> l \in TicksHeld
  PROVE  Machine'
<1> DEFINE s == <<l>> \o Tail(Cur(c))
<1>1. s \in Seq(Labels) /\ Top(s) = l /\ OwnRight(c, r, s)
  BY Zenon, GoesRight
<1>2. stack' = [stack EXCEPT ![cpu[c].on] = s]
  BY Zenon DEF Goto, Rest, Cur
<1> HIDE DEF s
<1>3. Own(c, r, s)
  BY Zenon, <1>1, <1>2 DEF Own
<1>4. Held(c, s)
  BY Zenon, <1>1 DEF Held
<1> QED
  BY Zenon, <1>1, <1>3, <1>4, Lands

\* The thread returns to the label below.
LEMMA ReturnsRight ==
  ASSUME RunInv, NEW c \in CPUs, NEW r, Top(Cur(c)) \in {"sysret", "forkret", "ticked", "iret"} \cup Calls,
         r.proc = cpu[c].proc, r.ncli = 0, r.iflag, cpu[c].on \in Procs => state'[cpu[c].on] = state[cpu[c].on]
  PROVE  /\ Tail(Cur(c)) \in Seq(Labels) /\ Top(Tail(Cur(c))) \notin PtHeld \cup TicksHeld
         /\ OwnRight(c, r, Tail(Cur(c)))
<1> DEFINE s == Tail(Cur(c))
<1>1. s \in Seq(Labels)
  BY Zenon, Here DEF Calls, OpenCalls
<1>2. Top(<<>>) = "user" /\ Top(<<"sysret">>) = "sysret" /\ Tail(<<"sysret">>) = <<>>
      /\ Top(<<"loop">>) = "loop" /\ Tail(<<"loop">>) = <<>> /\ Top(<<"acquire">>) = "acquire" /\ Tail(<<"acquire">>) = <<>>
  <2>1. "sysret" \in Labels /\ "loop" \in Labels /\ "acquire" \in Labels
    BY Zenon DEF Labels
  <2> QED
    BY Zenon, <2>1, Singles DEF Top
<1> HIDE DEF s
<1>3. ASSUME cpu[c].on \in Procs
      PROVE  r.proc = cpu[c].on /\ Open(cpu[c].on, s) /\ StateOn(state'[cpu[c].on], s)
  <2>1. cpu[c].proc = cpu[c].on /\ Fits(cpu[c].on, Cur(c)) /\ StateOn(state[cpu[c].on], Cur(c))
    BY Zenon, <1>3, InProcess
  <2>2. Open(cpu[c].on, s)
    BY Zenon, <1>2, <2>1 DEF Fits, Open, Handlers, OpenCalls, s
  <2>3. state'[cpu[c].on] = "RUNNING"
    BY Zenon, <1>3, <2>1 DEF StateOn, Calls, OpenCalls
  <2>4. StateOn(state'[cpu[c].on], s)
    BY Zenon, <2>2, <2>3 DEF StateOn, Resume, Switches, OpenCalls, Open
  <2> QED
    BY Zenon, <2>1, <2>2, <2>4
<1>4. ASSUME cpu[c].on \notin Procs
      PROVE  SchedFits(s) /\ Top(s) \in {"loop", "acquire"} /\ r.proc = NULL
  <2>1. SchedFits(Cur(c)) /\ Top(Cur(c)) # "scan" /\ cpu[c].proc = NULL
    BY Zenon, <1>4 DEF RunInv, CpuInv, Placed, Cur, Calls, OpenCalls
  <2> QED
    BY Zenon, <1>2, <2>1 DEF SchedFits, s, Calls, OpenCalls
<1>5. Top(s) \in {"user", "sysret", "exit", "loop", "acquire"} \cup OpenCalls
  BY Zenon, <1>3, <1>4 DEF Open
<1>6. Ints(r, s) /\ Top(s) \notin PtHeld \cup TicksHeld
  BY Zenon, <1>5 DEF Ints, Flags, Resume, PtHeld, TicksHeld, OpenCalls, On, Off, Switches
<1>7. cpu[c].on \in Procs => Fits(cpu[c].on, s) /\ Top(s) # "swtch"
  BY Zenon, <1>3 DEF Open, Fits, Calls, OpenCalls, Handlers, Switches
<1> QED
  BY Zenon, <1>1, <1>3, <1>4, <1>6, <1>7 DEF OwnRight, s

LEMMA Returns ==
  ASSUME RunInv, NEW c \in CPUs, NEW r \in Cpu, Top(Cur(c)) \in {"sysret", "forkret", "ticked", "iret"} \cup Calls,
         r.on = cpu[c].on, r.proc = cpu[c].proc, r.ncli = 0, r.iflag,
         cpu[c].on \in Procs => state'[cpu[c].on] = state[cpu[c].on],
         cpu' = [cpu EXCEPT ![c] = r], Return(cpu[c].on), Wakes(c), LockMoves(c), ptlock' # c, tickslock' # c
  PROVE  Machine'
<1> DEFINE s == Tail(Cur(c))
<1>1. s \in Seq(Labels) /\ Top(s) \notin PtHeld \cup TicksHeld /\ OwnRight(c, r, s)
  BY Zenon, ReturnsRight
<1>2. stack' = [stack EXCEPT ![cpu[c].on] = s]
  BY Zenon DEF Return, Rest, Cur
<1> HIDE DEF s
<1>3. Own(c, r, s) /\ Held(c, s)
  BY Zenon, <1>1, <1>2 DEF Own, Held
<1> QED
  BY Zenon, <1>1, <1>3, Lands

\* The process calls sched and will go on at label back.
LEMMA Entering ==
  ASSUME RunInv, NEW c \in CPUs, Top(Cur(c)) # "user", NEW back \in Labels
  PROVE  IsPush2(<<"sched", back>> \o Tail(Cur(c)), "sched", back, Tail(Cur(c)))
<1>1. "sched" \in Labels
  BY Zenon DEF Labels
<1>2. Tail(Cur(c)) \in Seq(Labels)
  BY Zenon, Here
<1> QED
  BY Zenon, <1>1, <1>2, Push2

LEMMA Enters ==
  ASSUME RunInv, NEW c \in CPUs, NEW r \in Cpu, NEW back \in {"yielded", "scan children", "slept", "zombie exit"},
         cpu[c].on \in Procs, Top(Cur(c)) # "user", r.on = cpu[c].on, r.proc = cpu[c].on, r.ncli = 1, ~r.iflag,
         back \in On => r.intena, back \in Off => ~r.intena,
         back = "yielded" => Top(Cur(c)) \in Handlers /\ state'[cpu[c].on] = "RUNNABLE",
         back \in {"scan children", "slept"} => Top(Cur(c)) \in Calls /\ state'[cpu[c].on] = "SLEEPING",
         back = "zombie exit" => cpu[c].on # initproc /\ state'[cpu[c].on] = "ZOMBIE",
         cpu' = [cpu EXCEPT ![c] = r], EnterSched(cpu[c].on, back), Wakes(c), LockMoves(c),
         ptlock' = c, tickslock' # c
  PROVE  Machine'
<1> DEFINE s == <<"sched", back>> \o Tail(Cur(c))
<1>1. s \in Seq(Labels) /\ Top(s) = "sched" /\ Top(Tail(s)) = back /\ Tail(Tail(s)) = Tail(Cur(c))
  <2>1. back \in Labels
    BY Zenon DEF Labels
  <2> QED
    BY Zenon, <2>1, Entering DEF IsPush2
<1>2. stack' = [stack EXCEPT ![cpu[c].on] = s]
  BY Zenon DEF EnterSched, Rest, Cur
<1> HIDE DEF s
<1>3. Own(c, r, s)
  BY Zenon, <1>1, <1>2 DEF Own
<1>4. Held(c, s)
  BY Zenon, <1>1 DEF Held, PtHeld, TicksHeld
<1>5. Resume(s) = back
  BY Zenon, <1>1 DEF Resume, Switches
<1>6. Ints(r, s)
  BY Zenon, <1>1, <1>5 DEF Ints, Flags, PtHeld, OpenCalls
<1>7. Fits(cpu[c].on, s)
  <2>1. Fits(cpu[c].on, Cur(c))
    BY Zenon, InProcess
  <2>2. Away(cpu[c].on, Tail(s))
    BY Zenon, <1>1, <2>1 DEF Fits, Away
  <2> QED
    BY Zenon, <1>1, <2>2 DEF Fits, Calls, OpenCalls, Handlers, Switches
<1>8. StateOn(state'[cpu[c].on], s)
  BY Zenon, <1>1, <1>5 DEF StateOn
<1>9. OwnRight(c, r, s)
  BY Zenon, <1>1, <1>6, <1>7, <1>8 DEF OwnRight
<1> QED
  BY Zenon, <1>3, <1>4, <1>9, Lands

LEMMA LoopRight ==
  ASSUME RunInv, NEW c \in CPUs, loop(c)
  PROVE  Machine'
<1> DEFINE r == [cpu[c] EXCEPT !.iflag = TRUE]
           s == <<"acquire">> \o Tail(Cur(c))
<1>1. Top(Cur(c)) = "loop" /\ cpu[c] \in Cpu
  BY Zenon, Here DEF loop, Labels
<1>2. cpu[c].on = Sched(c) /\ cpu[c].on \notin Procs /\ Tail(Cur(c)) = <<>> /\ cpu[c].proc = NULL
  BY Zenon, <1>1, InSched
<1>3. s \in Seq(Labels) /\ Top(s) = "acquire" /\ Tail(s) = <<>>
  <2>1. "acquire" \in Labels /\ Top(Cur(c)) # "user"
    BY Zenon, <1>1 DEF Labels
  <2> QED
    BY Zenon, <1>2, <2>1, Going
<1>4. r \in Cpu /\ r.on = cpu[c].on /\ r.proc = NULL /\ r.ncli = cpu[c].ncli /\ r.iflag
  BY Zenon, <1>1, <1>2, FlagIs
<1>5. cpu' = [cpu EXCEPT ![c] = r] /\ stack' = [stack EXCEPT ![cpu[c].on] = s]
  BY Zenon, <1>2 DEF loop, Goto, Rest, Cur
<1> HIDE DEF r, s
<1>6. Own(c, r, s) /\ Wakes(c)
  BY Zenon, <1>3, <1>4, <1>5 DEF Own, Wakes, loop, table, local
<1>7. Held(c, s)
  BY Zenon, <1>1, <1>3, Ready DEF Held, LockMoves, PtHeld, TicksHeld, loop
<1>8. OwnRight(c, r, s)
  BY Zenon, <1>1, <1>2, <1>3, <1>4, Ready
     DEF OwnRight, Ints, Flags, Resume, SchedFits, PtHeld, TicksHeld, OpenCalls, On, Off, Switches
<1> QED
  BY Zenon, <1>6, <1>7, <1>8, Lands

LEMMA AcquireRight ==
  ASSUME RunInv, NEW c \in CPUs, acquire(c)
  PROVE  Machine'
<1> DEFINE r == [pushcli(cpu[c]) EXCEPT !.cursor = 0]
           s == <<"scan">> \o Tail(Cur(c))
<1>1. Top(Cur(c)) = "acquire" /\ cpu[c] \in Cpu
  BY Zenon, Here DEF acquire, Labels
<1>2. cpu[c].on = Sched(c) /\ cpu[c].on \notin Procs /\ Tail(Cur(c)) = <<>>
  BY Zenon, <1>1, InSched
<1>3. s \in Seq(Labels) /\ Top(s) = "scan" /\ Tail(s) = <<>>
  <2>1. "scan" \in Labels /\ Top(Cur(c)) # "user"
    BY Zenon, <1>1 DEF Labels
  <2> QED
    BY Zenon, <1>2, <2>1, Going
<1>4. cpu[c].ncli = 0
  BY Zenon, <1>1, Ready DEF Ints, Flags, PtHeld, TicksHeld
<1>5. r \in Cpu /\ r.on = cpu[c].on /\ r.ncli = 1 /\ ~r.iflag
  <2>1. /\ pushcli(cpu[c]) \in Cpu /\ pushcli(cpu[c]).on = cpu[c].on /\ pushcli(cpu[c]).ncli = 1
        /\ ~pushcli(cpu[c]).iflag /\ 0 \in 0 .. NPROC
    BY <1>1, <1>4, PushIs, ProcAssumption
  <2> QED
    BY Zenon, <2>1 DEF Cpu
<1>6. cpu' = [cpu EXCEPT ![c] = r] /\ stack' = [stack EXCEPT ![cpu[c].on] = s]
  BY Zenon, <1>2 DEF acquire, Goto, Rest, Cur
<1> HIDE DEF r, s
<1>7. Own(c, r, s) /\ Wakes(c)
  BY Zenon, <1>3, <1>5, <1>6 DEF Own, Wakes, acquire, table, local
<1>8. Held(c, s)
  BY Zenon, <1>1, <1>3, Ready DEF Held, LockMoves, PtHeld, TicksHeld, acquire
<1>9. OwnRight(c, r, s)
  BY Zenon, <1>2, <1>3, <1>5
     DEF OwnRight, Ints, Flags, Resume, SchedFits, PtHeld, TicksHeld, OpenCalls, On, Off, Switches
<1> QED
  BY Zenon, <1>7, <1>8, <1>9, Lands

LEMMA ScanEndRight ==
  ASSUME RunInv, NEW c \in CPUs, scan(c), cpu'[c].on = cpu[c].on, cpu'[c].proc = NULL
  PROVE  Machine'
<1> DEFINE r == [popcli(cpu[c]) EXCEPT !.proc = NULL]
           s == <<"loop">> \o Tail(Cur(c))
<1>1. Top(Cur(c)) = "scan" /\ cpu[c] \in Cpu
  BY Zenon, Here DEF scan, Labels
<1>2. cpu[c].on = Sched(c) /\ cpu[c].on \notin Procs /\ Tail(Cur(c)) = <<>>
  BY Zenon, <1>1, InSched
<1>3. s \in Seq(Labels) /\ Top(s) = "loop" /\ Tail(s) = <<>>
  <2>1. "loop" \in Labels /\ Top(Cur(c)) # "user"
    BY Zenon, <1>1 DEF Labels
  <2> QED
    BY Zenon, <1>2, <2>1, Going
<1>4. cpu[c].ncli = 1
  BY Zenon, <1>1, Ready DEF Ints, Flags, PtHeld, TicksHeld
<1>5. r \in Cpu /\ r.on = cpu[c].on /\ r.ncli = 0 /\ r.proc = NULL
  <2>1. popcli(cpu[c]) \in Cpu /\ popcli(cpu[c]).on = cpu[c].on /\ popcli(cpu[c]).ncli = 0 /\ NULL \in 0 .. NPROC
    BY <1>1, <1>4, PopIs, ProcAssumption DEF NULL
  <2> QED
    BY Zenon, <2>1 DEF Cpu
<1>6. /\ cpu' = [cpu EXCEPT ![c] = r] /\ stack' = [stack EXCEPT ![cpu[c].on] = s]
      /\ ptlock' = NULL /\ UNCHANGED <<state, saved, tickslock>>
  <2> DEFINE R == {p \in Procs : p > cpu[c].cursor /\ state[p] = "RUNNABLE"}
  <2>1. CASE R # {} /\ cpu' = [cpu EXCEPT ![c].on = Min(R), ![c].proc = Min(R), ![c].cursor = Min(R)]
    <3>1. Min(R) \in Procs
      BY Zenon, <2>1, Least
    <3>2. cpu'[c].on = Min(R)
      BY Zenon, <1>1, <2>1 DEF RunInv, TypeOK, Cpu
    <3> QED
      BY Zenon, <1>2, <3>1, <3>2
  <2>2. CASE /\ ptlock' = NULL /\ cpu' = [cpu EXCEPT ![c] = r]
             /\ Goto(Sched(c), "loop") /\ UNCHANGED state
    BY Zenon, <1>2, <2>2 DEF scan, Goto, Rest, Cur, local
  <2> QED
    BY Zenon, <2>1, <2>2 DEF scan
<1> HIDE DEF r, s
<1>7. Own(c, r, s) /\ Wakes(c)
  BY Zenon, <1>3, <1>5, <1>6 DEF Own, Wakes
<1>8. Held(c, s)
  BY Zenon, <1>1, <1>3, <1>6, Ready, Apart DEF Held, LockMoves, PtHeld, TicksHeld
<1>9. OwnRight(c, r, s)
  BY Zenon, <1>2, <1>3, <1>5
     DEF OwnRight, Ints, Flags, Resume, SchedFits, PtHeld, TicksHeld, OpenCalls, On, Off, Switches
<1> QED
  BY Zenon, <1>7, <1>8, <1>9, Lands

\* The interrupt: its handler goes on top of what can be interrupted.
LEMMA TimerRight ==
  ASSUME RunInv, NEW c \in CPUs, Timer(c)
  PROVE  Machine'
<1> DEFINE r == [cpu[c] EXCEPT !.iflag = FALSE]
           l == IF c = Bsp THEN "timer" ELSE "ticked"
           s == <<l>> \o Cur(c)
<1>1. cpu[c] \in Cpu /\ Cur(c) \in Seq(Labels) /\ l \in Labels /\ l \in {"timer", "ticked"}
  BY Zenon, Here DEF Labels
<1>2. s \in Seq(Labels) /\ Top(s) = l /\ Tail(s) = Cur(c)
  BY Zenon, <1>1, Push
<1>3. Top(Cur(c)) \in {"user", "sysret", "exit", "loop", "acquire"} \cup OpenCalls /\ cpu[c].ncli = 0
  BY Zenon, Ready DEF Timer, Ints, Flags, PtHeld, TicksHeld, OpenCalls
<1>4. r \in Cpu /\ r.on = cpu[c].on /\ r.proc = cpu[c].proc /\ r.ncli = 0 /\ ~r.iflag
  BY Zenon, <1>1, <1>3, FlagIs
<1>5. cpu' = [cpu EXCEPT ![c] = r] /\ stack' = [stack EXCEPT ![cpu[c].on] = s]
  BY Zenon DEF Timer, Cur
<1> HIDE DEF r, s, l
<1>6. Own(c, r, s) /\ Wakes(c)
  BY Zenon, <1>2, <1>4, <1>5 DEF Own, Wakes, Timer, table, local
<1>7. Held(c, s)
  BY Zenon, <1>1, <1>2, <1>3, Ready DEF Held, LockMoves, PtHeld, TicksHeld, OpenCalls, Timer
<1>8. Ints(r, s)
  BY Zenon, <1>1, <1>2, <1>4 DEF Ints, Flags, Resume, PtHeld, TicksHeld, OpenCalls, On, Off, Switches
<1>9. ASSUME cpu[c].on \in Procs
      PROVE  r.proc = cpu[c].on /\ Fits(cpu[c].on, s) /\ Top(s) # "swtch" /\ StateOn(state'[cpu[c].on], s)
  <2>1. cpu[c].proc = cpu[c].on /\ Fits(cpu[c].on, Cur(c)) /\ StateOn(state[cpu[c].on], Cur(c))
    BY Zenon, <1>9, InProcess
  <2>2. Open(cpu[c].on, Cur(c))
    BY Zenon, <1>3, <2>1 DEF Fits, Open, Calls, OpenCalls, Handlers, Switches
  <2>3. Fits(cpu[c].on, s)
    BY Zenon, <1>1, <1>2, <2>2 DEF Fits, Calls, OpenCalls, Handlers, Switches
  <2>4. state'[cpu[c].on] = "RUNNING"
    BY Zenon, <1>3, <2>1 DEF StateOn, OpenCalls, Timer, table
  <2> QED
    BY Zenon, <1>1, <1>2, <1>4, <2>1, <2>3, <2>4 DEF StateOn, Resume, Switches
<1>10. ASSUME cpu[c].on \notin Procs
       PROVE  SchedFits(s) /\ r.proc = NULL
  <2>1. SchedFits(Cur(c)) /\ cpu[c].on \notin Procs /\ (Top(Cur(c)) # "scan" => cpu[c].proc = NULL)
    BY Zenon, <1>10 DEF RunInv, CpuInv, Placed, Cur
  <2>2. Top(Cur(c)) \in {"loop", "acquire"} /\ Tail(Cur(c)) = <<>>
    BY Zenon, <1>3, <2>1 DEF SchedFits, OpenCalls
  <2>3. Cur(c) \in {<<"loop">>, <<"acquire">>}
    BY Zenon, <1>1, <2>2, Alone, TopIs DEF Labels
  <2> QED
    BY Zenon, <1>1, <1>2, <1>4, <2>1, <2>2, <2>3 DEF SchedFits
<1> QED
  BY Zenon, <1>6, <1>7, <1>8, <1>9, <1>10, Lands DEF OwnRight

LEMMA TickRight ==
  ASSUME RunInv, NEW c \in CPUs, timer(c) \/ wake(c)
  PROVE  Machine'
<1>1. cpu[c] \in Cpu /\ (timer(c) => Top(Cur(c)) = "timer") /\ (wake(c) => Top(Cur(c)) = "wake")
  BY Zenon, Here DEF timer, wake, Labels
<1>2. CASE timer(c) /\ Top(Cur(c)) = "timer"
  <2>1. cpu[c].ncli = 0 /\ ~cpu[c].iflag /\ ptlock # c
    BY Zenon, <1>2, Ready DEF Ints, Flags, PtHeld, TicksHeld, OpenCalls
  <2> DEFINE r == pushcli(cpu[c])
  <2>2. r \in Cpu /\ r.on = cpu[c].on /\ r.proc = cpu[c].proc /\ r.ncli = 1 /\ ~r.iflag /\ ~r.intena
    BY Zenon, <1>1, <2>1, PushIs
  <2>3. cpu' = [cpu EXCEPT ![c] = r] /\ Goto(cpu[c].on, "wake") /\ tickslock = NULL /\ tickslock' = c
        /\ UNCHANGED <<state, saved, ptlock>>
    BY Zenon, <1>2 DEF timer, AcquireTicks, table
  <2> HIDE DEF r
  <2>4. Flags(r, "wake", "wake")
    BY Zenon, <2>2 DEF Flags, PtHeld, TicksHeld, OpenCalls, On, Off
  <2>5. "wake" \in Labels /\ "wake" \notin Switches /\ "wake" \in Handlers /\ "timer" \in Handlers
        /\ "wake" \notin PtHeld /\ "wake" \in TicksHeld
    BY Zenon DEF Labels, Switches, Handlers, PtHeld, TicksHeld
  <2>6. Wakes(c) /\ LockMoves(c)
    BY Zenon, <2>3 DEF Wakes, LockMoves
  <2>7. Top(Cur(c)) \notin Switches \cup {"user", "loop", "acquire", "scan"}
    BY Zenon, <1>2 DEF Switches
  <2> QED
    BY Zenon, <1>2, <2>1, <2>2, <2>3, <2>4, <2>5, <2>6, <2>7, GoesTo
<1>3. CASE wake(c) /\ Top(Cur(c)) = "wake"
  <2>1. cpu[c].ncli = 1 /\ ~cpu[c].iflag /\ ~cpu[c].intena /\ tickslock = c
    BY Zenon, <1>3, Ready DEF Ints, Flags, PtHeld, TicksHeld, OpenCalls, Resume, Switches, On, Off
  <2> DEFINE r == popcli(cpu[c])
  <2>2. r \in Cpu /\ r.on = cpu[c].on /\ r.proc = cpu[c].proc /\ r.ncli = 0 /\ ~r.iflag
    BY Zenon, <1>1, <2>1, PopIs
  <2>3. cpu' = [cpu EXCEPT ![c] = r] /\ Goto(cpu[c].on, "ticked") /\ tickslock' = NULL
        /\ state' = wakeup1(state, Ticks) /\ ptlock = NULL /\ UNCHANGED <<saved, ptlock>>
    BY Zenon, <1>3 DEF wake, ReleaseTicks, local
  <2> HIDE DEF r
  <2>4. Flags(r, "ticked", "ticked")
    BY Zenon, <2>2 DEF Flags, PtHeld, TicksHeld, OpenCalls, On, Off
  <2>5. "ticked" \in Labels /\ "ticked" \notin Switches /\ "ticked" \in Handlers /\ "wake" \in Handlers
        /\ "ticked" \notin PtHeld /\ "ticked" \notin TicksHeld
    BY Zenon DEF Labels, Switches, Handlers, PtHeld, TicksHeld
  <2>6. Wakes(c) /\ LockMoves(c)
    BY Zenon, <2>1, <2>3 DEF Wakes, LockMoves, wakeup1
  <2>7. Top(Cur(c)) \notin Switches \cup {"user", "loop", "acquire", "scan"}
    BY Zenon, <1>3 DEF Switches
  <2>8. cpu[c].on \in Procs => state'[cpu[c].on] = state[cpu[c].on]
    <3>1. cpu[c].on \in Procs => state[cpu[c].on] = "RUNNING"
      BY Zenon, <1>3, InProcess DEF StateOn
    <3> QED
      BY Zenon, <2>3, <3>1 DEF wakeup1
  <2> QED
    BY Zenon, <1>3, <2>2, <2>3, <2>4, <2>5, <2>6, <2>7, <2>8, Apart, GoesTo
<1> QED
  BY Zenon, <1>1, <1>2, <1>3

\* The end of trap.
LEMMA TickedRight ==
  ASSUME RunInv, ~killed[initproc], NEW c \in CPUs, ticked(c)
  PROVE  Machine'
<1>1. cpu[c] \in Cpu /\ Top(Cur(c)) = "ticked"
  BY Zenon, Here DEF ticked, Labels
<1>2. cpu[c].ncli = 0 /\ ~cpu[c].iflag /\ ptlock # c /\ tickslock # c
  BY Zenon, <1>1, Ready DEF Ints, Flags, PtHeld, TicksHeld, OpenCalls
<1>3. cpu[c].proc # NULL => cpu[c].on \in Procs /\ cpu[c].proc = cpu[c].on
  BY Zenon, <1>1, InProcess DEF RunInv, CpuInv, Placed
<1>4. Top(Cur(c)) \notin Switches \cup {"user", "loop", "acquire", "scan"}
  BY Zenon, <1>1 DEF Switches
<1>5. UNCHANGED <<saved, killed, tickslock>>
  BY Zenon DEF ticked, local
<1>6. CASE Iret(c) /\ UNCHANGED <<state, ptlock>>
  <2> DEFINE r == [cpu[c] EXCEPT !.iflag = TRUE]
  <2>1. r \in Cpu /\ r.on = cpu[c].on /\ r.proc = cpu[c].proc /\ r.ncli = 0 /\ r.iflag
    BY Zenon, <1>1, <1>2, FlagIs
  <2>2. cpu' = [cpu EXCEPT ![c] = r] /\ Return(cpu[c].on)
    BY Zenon, <1>6 DEF Iret
  <2> HIDE DEF r
  <2>3. Wakes(c) /\ LockMoves(c)
    BY Zenon, <1>5, <1>6 DEF Wakes, LockMoves
  <2> QED
    BY Zenon, <1>1, <1>2, <1>5, <1>6, <2>1, <2>2, <2>3, Returns
<1>7. CASE /\ cpu[c].proc # NULL /\ killed[cpu[c].proc]
           /\ Goto(cpu[c].proc, "exit") /\ UNCHANGED <<state, cpu, ptlock>>
  <2>1. cpu' = [cpu EXCEPT ![c] = cpu[c]]
    BY Zenon, <1>7 DEF RunInv, TypeOK
  <2>2. Flags(cpu[c], "exit", "exit")
    BY Zenon, <1>2 DEF Flags, PtHeld, TicksHeld, OpenCalls, On, Off
  <2>3. "exit" \in Labels /\ "exit" \notin Switches /\ "exit" \notin PtHeld /\ "exit" \notin TicksHeld
    BY Zenon DEF Labels, Switches, PtHeld, TicksHeld
  <2>4. Wakes(c) /\ LockMoves(c)
    BY Zenon, <1>5, <1>7 DEF Wakes, LockMoves
  <2>5. cpu[c].on \in Procs \ {initproc} /\ Goto(cpu[c].on, "exit")
    BY Zenon, <1>3, <1>7
  <2> QED
    BY Zenon, <1>1, <1>2, <1>4, <1>5, <1>7, <2>1, <2>2, <2>3, <2>4, <2>5, GoesTo
<1>8. CASE /\ cpu[c].proc # NULL /\ AcquirePt(c) /\ state' = [state EXCEPT ![cpu[c].proc] = "RUNNABLE"]
           /\ EnterSched(cpu[c].proc, "yielded")
  <2> DEFINE r == pushcli(cpu[c])
  <2>1. r \in Cpu /\ r.on = cpu[c].on /\ r.proc = cpu[c].proc /\ r.ncli = 1 /\ ~r.iflag /\ ~r.intena
    BY Zenon, <1>1, <1>2, PushIs
  <2>2. cpu' = [cpu EXCEPT ![c] = r] /\ EnterSched(cpu[c].on, "yielded") /\ ptlock = NULL /\ ptlock' = c
    BY Zenon, <1>3, <1>8 DEF AcquirePt
  <2> HIDE DEF r
  <2>3. state'[cpu[c].on] = "RUNNABLE" /\ \A q \in Procs : q # cpu[c].on => state'[q] = state[q]
    BY Zenon, <1>3, <1>8 DEF RunInv, TypeOK
  <2>4. Wakes(c) /\ LockMoves(c)
    BY Zenon, <1>5, <2>2, <2>3 DEF Wakes, LockMoves
  <2>5. "yielded" \notin On /\ "ticked" \in Handlers
    BY Zenon DEF On, Handlers
  <2> QED
    BY Zenon, <1>1, <1>2, <1>3, <1>5, <1>8, <2>1, <2>2, <2>3, <2>4, <2>5, Enters
<1> QED
  BY Zenon, <1>6, <1>7, <1>8 DEF ticked

LEMMA YieldedRight ==
  ASSUME RunInv, NEW c \in CPUs, yielded(c)
  PROVE  Machine'
<1>1. cpu[c] \in Cpu /\ Top(Cur(c)) = "yielded"
  BY Zenon, Here DEF yielded, Labels
<1>2. cpu[c].ncli = 1 /\ ~cpu[c].iflag /\ ~cpu[c].intena /\ ptlock = c /\ tickslock # c
  BY Zenon, <1>1, Ready DEF Ints, Flags, Resume, Switches, PtHeld, TicksHeld, OpenCalls, On, Off
<1> DEFINE r == popcli(cpu[c])
<1>3. r \in Cpu /\ r.on = cpu[c].on /\ r.proc = cpu[c].proc /\ r.ncli = 0 /\ ~r.iflag
  BY Zenon, <1>1, <1>2, PopIs
<1>4. /\ cpu' = [cpu EXCEPT ![c] = r] /\ Goto(cpu[c].on, "iret") /\ ptlock' = NULL
      /\ UNCHANGED <<state, saved, tickslock>>
  BY Zenon DEF yielded, ReleasePt, table, local
<1> HIDE DEF r
<1>5. Flags(r, "iret", "iret")
  BY Zenon, <1>3 DEF Flags, PtHeld, TicksHeld, OpenCalls, On, Off
<1>6. "iret" \in Labels /\ "iret" \notin Switches \cup PtHeld \cup TicksHeld /\ "iret" \in Handlers /\ "yielded" \in Handlers
  BY Zenon DEF Labels, Switches, PtHeld, TicksHeld, Handlers
<1>7. Wakes(c) /\ LockMoves(c) /\ ptlock' # c
  BY Zenon, <1>2, <1>4, Apart DEF Wakes, LockMoves
<1>8. Top(Cur(c)) \notin Switches \cup {"user", "loop", "acquire", "scan"} /\ cpu[c].on \in Procs
  BY Zenon, <1>1, InProcess DEF Switches
<1> QED
  BY Zenon, <1>1, <1>2, <1>3, <1>4, <1>5, <1>6, <1>7, <1>8, GoesTo

\* The way back to user mode or to what was interrupted: return, or exit if killed.
LEMMA LeaveRight ==
  ASSUME RunInv, ~killed[initproc], NEW c \in CPUs, iret(c) \/ sysret(c)
  PROVE  Machine'
<1>1. cpu[c] \in Cpu /\ Top(Cur(c)) \in {"iret", "sysret"}
  BY Zenon, Here DEF iret, sysret, Labels
<1>2. cpu[c].ncli = 0 /\ ptlock # c /\ tickslock # c /\ cpu[c].on \in Procs
  BY Zenon, <1>1, Ready, InProcess DEF Ints, Flags, PtHeld, TicksHeld, OpenCalls
<1>3. UNCHANGED <<state, saved, ptlock, tickslock>>
  BY Zenon DEF iret, sysret, table, local
<1>4. Wakes(c) /\ LockMoves(c)
  BY Zenon, <1>3 DEF Wakes, LockMoves
<1>5. CASE Iret(c)
  <2> DEFINE r == [cpu[c] EXCEPT !.iflag = TRUE]
  <2>1. r \in Cpu /\ r.on = cpu[c].on /\ r.proc = cpu[c].proc /\ r.ncli = 0 /\ r.iflag
    BY Zenon, <1>1, <1>2, FlagIs
  <2>2. cpu' = [cpu EXCEPT ![c] = r] /\ Return(cpu[c].on)
    BY Zenon, <1>5 DEF Iret
  <2> HIDE DEF r
  <2> QED
    BY Zenon, <1>1, <1>2, <1>3, <1>4, <2>1, <2>2, Returns
<1>6. CASE killed[cpu[c].on] /\ Goto(cpu[c].on, "exit") /\ UNCHANGED cpu
  <2>1. cpu' = [cpu EXCEPT ![c] = cpu[c]]
    BY Zenon, <1>6 DEF RunInv, TypeOK
  <2>2. Flags(cpu[c], "exit", "exit")
    BY Zenon, <1>2 DEF Flags, PtHeld, TicksHeld, OpenCalls, On, Off
  <2>3. "exit" \in Labels /\ "exit" \notin Switches \cup PtHeld \cup TicksHeld
    BY Zenon DEF Labels, Switches, PtHeld, TicksHeld
  <2>4. cpu[c].on \in Procs \ {initproc} /\ Top(Cur(c)) \notin Switches \cup {"user", "loop", "acquire", "scan"}
    BY Zenon, <1>1, <1>2, <1>6 DEF Switches
  <2> QED
    BY Zenon, <1>1, <1>2, <1>3, <1>4, <1>6, <2>1, <2>2, <2>3, <2>4, GoesTo
<1> QED
  BY Zenon, <1>5, <1>6 DEF iret, sysret

\* sched after the switch back.
LEMMA SwtchRight ==
  ASSUME RunInv, NEW c \in CPUs, swtch(c)
  PROVE  Machine'
<1> DEFINE p == cpu[c].on
           r == [cpu[c] EXCEPT !.intena = saved[p]]
           s == Tail(Cur(c))
<1>1. cpu[c] \in Cpu /\ Top(Cur(c)) = "swtch"
  BY Zenon, Here DEF swtch, Labels
<1>2. p \in Procs /\ cpu[c].proc = p /\ Fits(p, Cur(c)) /\ StateOn(state[p], Cur(c))
  BY Zenon, <1>1, InProcess
<1>3. cpu[c].ncli = 1 /\ ~cpu[c].iflag /\ ptlock = c /\ tickslock # c
  BY Zenon, <1>1, Ready DEF Ints, Flags, PtHeld, TicksHeld, OpenCalls
<1>4. r \in Cpu /\ r.on = p /\ r.proc = p /\ r.ncli = 1 /\ ~r.iflag /\ r.intena = saved[p]
  <2>1. saved[p] \in BOOLEAN
    BY Zenon, <1>2 DEF RunInv, TypeOK
  <2> QED
    BY Zenon, <1>1, <1>2, <1>3, <2>1 DEF Cpu
<1>5. cpu' = [cpu EXCEPT ![c] = r] /\ stack' = [stack EXCEPT ![cpu[c].on] = s]
      /\ UNCHANGED <<state, saved, ptlock, tickslock>>
  BY Zenon DEF swtch, Return, Rest, Cur, table, local
<1>6. s \in Seq(Labels) /\ Away(p, s)
  BY Zenon, <1>1, <1>2, Here DEF Fits, Switches
<1>7. Resume(Cur(c)) = Top(s) /\ Top(s) # "zombie exit" /\ state[p] = "RUNNING"
      /\ (Top(s) \in On => saved[p]) /\ (Top(s) \in Off => ~saved[p])
  <2>1. Keeps(p) /\ Cur(c) = stack[p]
    BY Zenon, <1>2 DEF RunInv, ProcInv, ProcRight, Cur
  <2>2. Resume(Cur(c)) = Top(s)
    BY Zenon, <1>1 DEF Resume, Switches
  <2> QED
    BY Zenon, <1>1, <1>2, <2>1, <2>2 DEF Keeps, StateOn
<1> HIDE DEF r, s, p
<1>8. Top(s) \in {"yielded", "scan children", "slept"} /\ Resume(s) = Top(s)
  BY Zenon, <1>6, <1>7 DEF Away, Resume, Switches
<1>9. Own(c, r, s) /\ Wakes(c) /\ Held(c, s)
  <2>1. Own(c, r, s) /\ Wakes(c) /\ LockMoves(c)
    BY Zenon, <1>4, <1>5, <1>6 DEF Own, Wakes, LockMoves, p
  <2> QED
    BY Zenon, <1>3, <1>5, <1>8, <2>1 DEF Held, PtHeld, TicksHeld
<1>10. Ints(r, s)
  BY Zenon, <1>4, <1>7, <1>8 DEF Ints, Flags, PtHeld, TicksHeld, OpenCalls
<1>11. Fits(p, s) /\ StateOn(state'[p], s)
  BY Zenon, <1>5, <1>6, <1>7, <1>8 DEF Away, Fits, StateOn, Calls, OpenCalls, Handlers, Switches
<1>12. OwnRight(c, r, s)
  BY Zenon, <1>2, <1>4, <1>8, <1>10, <1>11 DEF OwnRight, p
<1> QED
  BY Zenon, <1>9, <1>12, Lands

LEMMA ForkretRight ==
  ASSUME RunInv, NEW c \in CPUs, forkret(c)
  PROVE  Machine'
<1>1. cpu[c] \in Cpu /\ Top(Cur(c)) = "forkret"
  BY Zenon, Here DEF forkret, Labels
<1>2. cpu[c].ncli = 1 /\ ptlock = c /\ tickslock # c
  BY Zenon, <1>1, Ready DEF Ints, Flags, PtHeld, TicksHeld
<1> DEFINE r == [popcli(cpu[c]) EXCEPT !.iflag = TRUE]
<1>3. r \in Cpu /\ r.on = cpu[c].on /\ r.proc = cpu[c].proc /\ r.ncli = 0 /\ r.iflag
  <2>1. popcli(cpu[c]) \in Cpu /\ popcli(cpu[c]).on = cpu[c].on /\ popcli(cpu[c]).proc = cpu[c].proc
        /\ popcli(cpu[c]).ncli = 0
    BY Zenon, <1>1, <1>2, PopIs
  <2> QED
    BY Zenon, <2>1, FlagIs
<1>4. cpu' = [cpu EXCEPT ![c] = r] /\ Return(cpu[c].on) /\ ptlock' = NULL /\ UNCHANGED <<state, saved, tickslock>>
  BY Zenon DEF forkret, table, local
<1> HIDE DEF r
<1>5. Wakes(c) /\ LockMoves(c) /\ ptlock' # c
  BY Zenon, <1>2, <1>4, Apart DEF Wakes, LockMoves
<1> QED
  BY Zenon, <1>1, <1>2, <1>3, <1>4, <1>5, Returns

\* The ways from user mode into the kernel.
LEMMA TrapRight ==
  ASSUME RunInv, ~killed[initproc], NEW c \in CPUs, fault(c) \/ syscall(c)
  PROVE  Machine'
<1> DEFINE p == cpu[c].on
<1>1. cpu[c] \in Cpu /\ p \in Procs /\ stack[p] = <<>> /\ Top(Cur(c)) = "user"
  BY Zenon, Here DEF fault, syscall, Top, Cur
<1>2. cpu[c].proc = p /\ state[p] = "RUNNING" /\ cpu[c].ncli = 0 /\ cpu[c].iflag /\ ptlock # c /\ tickslock # c
  BY Zenon, <1>1, InProcess, Ready DEF StateOn, Ints, Flags, PtHeld, TicksHeld
<1>3. UNCHANGED <<state, saved, ptlock, tickslock>>
  BY Zenon DEF fault, syscall, table, local
<1>4. Wakes(c) /\ LockMoves(c)
  BY Zenon, <1>3 DEF Wakes, LockMoves
<1>5. ASSUME NEW r, NEW s, r \in Cpu, r.on = p, r.proc = p, r.ncli = 0,
             cpu' = [cpu EXCEPT ![c] = r], stack' = [stack EXCEPT ![p] = s], s \in Seq(Labels),
             \/ Top(s) = "exit" /\ p # initproc
             \/ Top(s) \in OpenCalls \cup {"exit"} /\ Tail(s) = <<"sysret">> /\ r.iflag /\ (Top(s) = "exit" => p # initproc)
      PROVE  Machine'
  <2>1. Top(s) \in OpenCalls \cup {"exit"} /\ Resume(s) = Top(s)
    BY Zenon, <1>5 DEF Resume, OpenCalls, Switches
  <2>2. Own(c, r, s) /\ Held(c, s)
    BY Zenon, <1>2, <1>3, <1>4, <1>5, <2>1 DEF Own, Held, PtHeld, TicksHeld, OpenCalls
  <2>3. Ints(r, s)
    BY Zenon, <1>5, <2>1 DEF Ints, Flags, PtHeld, TicksHeld, OpenCalls, On, Off
  <2>4. Fits(p, s)
    BY Zenon, <1>5, <2>1 DEF Fits, Calls, OpenCalls, Handlers, Switches
  <2>5. StateOn(state'[p], s) /\ Top(s) # "swtch"
    BY Zenon, <1>2, <1>3, <2>1 DEF StateOn, OpenCalls
  <2> QED
    BY Zenon, <1>1, <1>4, <1>5, <2>2, <2>3, <2>4, <2>5, Lands DEF OwnRight
<1>6. "exit" \in Labels /\ "sysret" \in Labels
  BY Zenon DEF Labels
<1>7. <<"exit">> \in Seq(Labels) /\ Top(<<"exit">>) = "exit"
  BY Zenon, <1>6, Singles
<1>8. cpu' = cpu => cpu' = [cpu EXCEPT ![c] = cpu[c]]
  BY Zenon DEF RunInv, TypeOK
<1> HIDE DEF p
<1>9. CASE fault(c)
  <2> DEFINE r == [cpu[c] EXCEPT !.iflag = FALSE]
  <2>1. r \in Cpu /\ r.on = p /\ r.proc = p /\ r.ncli = 0
    BY Zenon, <1>1, <1>2, FlagIs DEF p
  <2>2. cpu' = [cpu EXCEPT ![c] = r] /\ stack' = [stack EXCEPT ![p] = <<"exit">>] /\ p # initproc
    BY Zenon, <1>9 DEF fault, p
  <2> HIDE DEF r
  <2> QED
    BY Zenon, <1>5, <1>7, <2>1, <2>2
<1>10. CASE UNCHANGED cpu /\ killed[p] /\ stack' = [stack EXCEPT ![p] = <<"exit">>]
  BY Zenon, <1>1, <1>2, <1>5, <1>7, <1>8, <1>10 DEF p
<1>11. ASSUME UNCHANGED cpu, NEW call \in Programs[p], stack' = [stack EXCEPT ![p] = <<call, "sysret">>]
       PROVE  Machine'
  <2>1. call \in {"fork", "wait", "exit", "kill", "sleep"} /\ (call = "exit" => p # initproc)
    BY <1>1, ProcAssumption DEF Procs, initproc, p
  <2>2. call \in Labels /\ call \in OpenCalls \cup {"exit"}
    BY Zenon, <2>1 DEF Labels, OpenCalls
  <2>3. <<call, "sysret">> \in Seq(Labels) /\ Top(<<call, "sysret">>) = call /\ Tail(<<call, "sysret">>) = <<"sysret">>
    BY Zenon, <1>6, <2>2, Pairs
  <2> DEFINE s == <<call, "sysret">>
  <2>4. s \in Seq(Labels) /\ Top(s) = call /\ Tail(s) = <<"sysret">> /\ stack' = [stack EXCEPT ![p] = s]
    BY Zenon, <1>11, <2>3
  <2> HIDE DEF s
  <2>5. cpu[c].on = p /\ cpu' = [cpu EXCEPT ![c] = cpu[c]]
    BY Zenon, <1>8, <1>11 DEF p
  <2> QED
    BY Zenon, <1>1, <1>2, <1>5, <2>1, <2>2, <2>4, <2>5
<1> QED
  BY Zenon, <1>9, <1>10, <1>11 DEF syscall, p

\* sched: the processor goes back to its scheduler, in its scan.
LEMMA SchedRight ==
  ASSUME RunInv, NEW c \in CPUs, sched(c)
  PROVE  Machine'
<1> DEFINE p == cpu[c].on
           r == [cpu[c] EXCEPT !.on = Sched(c)]
           s == <<"swtch">> \o Tail(Cur(c))
<1>1. cpu[c] \in Cpu /\ Top(Cur(c)) = "sched" /\ Cur(c) = stack[p]
  BY Zenon, Here DEF sched, Labels, Cur
<1>2. p \in Procs /\ Fits(p, Cur(c)) /\ StateOn(state[p], Cur(c)) /\ stack[Sched(c)] = <<"scan">>
  BY Zenon, <1>1, InProcess DEF RunInv, CpuInv, Placed
<1>3. cpu[c].ncli = 1 /\ ~cpu[c].iflag /\ ptlock = c /\ tickslock # c
      /\ (Resume(Cur(c)) \in On => cpu[c].intena) /\ (Resume(Cur(c)) \in Off => ~cpu[c].intena)
  BY Zenon, <1>1, Ready DEF Ints, Flags, PtHeld, TicksHeld, OpenCalls
<1>4. r \in Cpu /\ r.on = Sched(c) /\ r.ncli = 1 /\ ~r.iflag
  <2>1. Sched(c) \in (-NCPU) .. NPROC
    BY ProcAssumption DEF Sched, CPUs
  <2> QED
    BY Zenon, <1>1, <1>3, <2>1 DEF Cpu
<1>5. s \in Seq(Labels) /\ Top(s) = "swtch" /\ Tail(s) = Tail(Cur(c))
  <2>1. "swtch" \in Labels /\ Top(Cur(c)) # "user"
    BY Zenon, <1>1 DEF Labels
  <2> QED
    BY Zenon, <2>1, Going
<1>6. /\ cpu' = [cpu EXCEPT ![c] = r] /\ stack' = [stack EXCEPT ![p] = s]
      /\ saved' = [saved EXCEPT ![p] = cpu[c].intena] /\ UNCHANGED <<state, ptlock, tickslock>>
  BY Zenon DEF sched, Goto, Rest, Cur, table
<1> HIDE DEF r, s, p
<1>7. cpu \in [CPUs -> Cpu] /\ stack \in [Threads -> Seq(Labels)] /\ saved \in [Procs -> BOOLEAN] /\ p \in Threads
  BY Zenon, <1>2 DEF RunInv, TypeOK, Cpu, Threads
<1>8. /\ cpu' \in [CPUs -> Cpu] /\ stack' \in [Threads -> Seq(Labels)]
      /\ cpu'[c] = r /\ \A d \in CPUs : d # c => cpu'[d] = cpu[d]
  BY Zenon, <1>4, <1>5, <1>6, <1>7
<1>9. stack'[p] = s /\ (\A t \in Threads : t # p => stack'[t] = stack[t]) /\ saved'[p] = cpu[c].intena
      /\ \A q \in Procs : q # p => saved'[q] = saved[q]
  BY Zenon, <1>2, <1>6, <1>7
<1>10. \A d \in CPUs : stack'[Sched(d)] = stack[Sched(d)]
  BY Zenon, <1>2, <1>9, Apart
<1>11. \A d \in CPUs : d # c => cpu[d].on # p /\ cpu[d].on \in Procs \cup {Sched(d)}
  BY Zenon DEF RunInv, Single, CpuInv, Placed, p
<1>12. Single'
  <2>1. SUFFICES ASSUME NEW d \in CPUs, NEW e \in CPUs, cpu'[d].on = cpu'[e].on, d # e PROVE FALSE
    BY Zenon DEF Single
  <2>2. \A k \in CPUs : k # c => cpu[k].on # Sched(c)
    BY Zenon, <1>11, Apart
  <2> QED
    BY Zenon, <1>4, <1>8, <2>1, <2>2 DEF RunInv, Single
<1>13. ASSUME NEW d \in CPUs, d # c PROVE Placed(d)' /\ Locks(d)' /\ Ints(cpu[d], Cur(d))'
  <2>1. Placed(d) /\ Locks(d) /\ Ints(cpu[d], Cur(d)) /\ cpu'[d] = cpu[d]
    BY Zenon, <1>8, <1>13 DEF RunInv, CpuInv
  <2>2. Cur(d)' = Cur(d)
    BY Zenon, <1>9, <1>10, <1>11, <1>13, <2>1 DEF Cur, Threads
  <2> QED
    BY Zenon, <1>6, <1>10, <2>1, <2>2 DEF Placed, Locks
<1>14. Placed(c)' /\ Locks(c)' /\ Ints(cpu[c], Cur(c))'
  <2>1. cpu'[c].on = Sched(c) /\ Cur(c)' = <<"scan">> /\ stack'[Sched(c)] = <<"scan">> /\ Sched(c) \notin Procs
    BY Zenon, <1>2, <1>4, <1>8, <1>10, Apart DEF Cur
  <2>2. Top(<<"scan">>) = "scan" /\ Tail(<<"scan">>) = <<>> /\ Resume(<<"scan">>) = "scan"
    <3>1. "scan" \in Labels
      BY Zenon DEF Labels
    <3> QED
      BY Zenon, <3>1, Singles DEF Resume, Switches
  <2>3. Placed(c)'
    BY Zenon, <2>1, <2>2 DEF Placed, SchedFits
  <2>4. Locks(c)'
    BY Zenon, <1>3, <1>6, <2>1, <2>2 DEF Locks, PtHeld, TicksHeld
  <2>5. Ints(r, <<"scan">>)
    BY Zenon, <1>4, <2>2 DEF Ints, Flags, PtHeld, TicksHeld, OpenCalls, On, Off
  <2> QED
    BY Zenon, <1>8, <2>1, <2>3, <2>4, <2>5
<1>15. CpuInv'
  BY Zenon, <1>13, <1>14 DEF CpuInv
<1>16. ASSUME NEW q \in Procs, q # p PROVE ProcRight(q)'
  <2>1. ProcRight(q) /\ stack'[q] = stack[q] /\ state'[q] = state[q] /\ saved'[q] = saved[q]
    BY Zenon, <1>6, <1>9, <1>16 DEF RunInv, ProcInv, Threads
  <2>2. OnCpu(q)' <=> OnCpu(q)
    BY Zenon, <1>4, <1>8, <1>16, Apart DEF OnCpu, p
  <2> QED
    BY Zenon, <2>1, <2>2 DEF ProcRight, Keeps
<1>17. ASSUME NEW q \in Procs, q = p PROVE ProcRight(q)'
  <2>1. ~OnCpu(q)'
    BY Zenon, <1>2, <1>4, <1>8, <1>11, <1>17, Apart DEF OnCpu
  <2>2. Resume(s) = Top(Tail(Cur(c))) /\ Resume(Cur(c)) = Resume(s) /\ Away(p, Tail(s))
    BY Zenon, <1>1, <1>2, <1>5 DEF Resume, Switches, Fits
  <2>3. Fits(p, s)
    BY Zenon, <1>5, <2>2 DEF Fits, Calls, OpenCalls, Handlers, Switches
  <2>4. Keeps(q)'
    BY Zenon, <1>3, <1>9, <1>17, <2>2 DEF Keeps
  <2>5. StateOff(state'[p], s)
    BY Zenon, <1>1, <1>2, <1>5, <1>6, <2>2 DEF StateOff, StateOn, Away
  <2> QED
    BY Zenon, <1>9, <1>17, <2>1, <2>3, <2>4, <2>5 DEF ProcRight
<1> QED
  BY Zenon, <1>8, <1>12, <1>15, <1>16, <1>17 DEF Machine, ProcInv

\* The scheduler switches to a runnable process: no other processor runs it.
LEMMA PickRight ==
  ASSUME RunInv, NEW c \in CPUs, NEW p \in Procs, Top(Cur(c)) = "scan", state[p] = "RUNNABLE",
         cpu' = [cpu EXCEPT ![c].on = p, ![c].proc = p, ![c].cursor = p],
         state' = [state EXCEPT ![p] = "RUNNING"], UNCHANGED <<stack, saved, ptlock, tickslock>>
  PROVE  Machine'
<1> DEFINE r == [cpu[c] EXCEPT !.on = p, !.proc = p, !.cursor = p]
<1>1. cpu[c] \in Cpu /\ cpu[c].on = Sched(c) /\ Tail(Cur(c)) = <<>> /\ Cur(c) # <<>> /\ Cur(c) \in Seq(Labels)
  BY Zenon, Here, InSched
<1>2. cpu[c].ncli = 1 /\ ~cpu[c].iflag /\ ptlock = c /\ tickslock # c
  BY Zenon, Ready DEF Ints, Flags, PtHeld, TicksHeld, OpenCalls
<1>3. stack[Sched(c)] = <<"scan">> /\ Sched(c) \notin Procs
  BY Zenon, <1>1, Alone, Apart DEF Cur
<1>4. r \in Cpu /\ r.on = p /\ r.proc = p /\ r.ncli = 1 /\ ~r.iflag
  <2>1. p \in (-NCPU) .. NPROC /\ p \in 0 .. NPROC
    BY ProcAssumption DEF Procs
  <2> QED
    BY Zenon, <1>1, <1>2, <2>1 DEF Cpu
<1>5. cpu' = [cpu EXCEPT ![c] = r]
  BY Zenon
<1> HIDE DEF r
<1>6. cpu \in [CPUs -> Cpu] /\ stack \in [Threads -> Seq(Labels)] /\ state \in [Procs -> States]
  BY Zenon DEF RunInv, TypeOK, Cpu, Threads
<1>7. /\ cpu' \in [CPUs -> Cpu] /\ stack' \in [Threads -> Seq(Labels)]
      /\ cpu'[c] = r /\ \A d \in CPUs : d # c => cpu'[d] = cpu[d]
  BY Zenon, <1>4, <1>5, <1>6
<1>8. state'[p] = "RUNNING" /\ \A q \in Procs : q # p => state'[q] = state[q]
  BY Zenon, <1>6
<1>9. ~OnCpu(p)
  <2>1. SUFFICES ASSUME NEW d \in CPUs, cpu[d].on = p PROVE FALSE
    BY Zenon DEF OnCpu
  <2>2. StateOn(state[p], Cur(d))
    BY Zenon, <2>1, InProcess
  <2>3. Top(Cur(d)) = "sched"
    BY Zenon, <2>2 DEF StateOn
  <2>4. ptlock = d
    BY Zenon, <2>3, Ready DEF PtHeld
  <2> QED
    BY Zenon, <1>1, <1>2, <1>3, <2>1, <2>4
<1>10. /\ Fits(p, stack[p]) /\ Keeps(p) /\ StateOff(state[p], stack[p])
       /\ Top(stack[p]) \in {"swtch", "forkret"} /\ Resume(stack[p]) # "zombie exit"
  BY Zenon, <1>9 DEF RunInv, ProcInv, ProcRight, StateOff
<1>11. Single'
  <2>1. SUFFICES ASSUME NEW d \in CPUs, NEW e \in CPUs, cpu'[d].on = cpu'[e].on, d # e PROVE FALSE
    BY Zenon DEF Single
  <2>2. \A k \in CPUs : cpu[k].on # p
    BY Zenon, <1>9 DEF OnCpu
  <2>3. d # c /\ e # c
    BY Zenon, <1>4, <1>7, <2>1, <2>2
  <2> QED
    BY Zenon, <1>7, <2>1, <2>3 DEF RunInv, Single
<1>12. ASSUME NEW d \in CPUs, d # c PROVE Placed(d)' /\ Locks(d)' /\ Ints(cpu[d], Cur(d))'
  BY Zenon, <1>7, <1>12 DEF RunInv, CpuInv, Placed, Locks, Cur
<1>13. Placed(c)' /\ Locks(c)' /\ Ints(cpu[c], Cur(c))'
  <2>1. cpu'[c] = r /\ Cur(c)' = stack[p]
    BY Zenon, <1>4, <1>7 DEF Cur
  <2>2. Placed(c)'
    BY Zenon, <1>3, <1>4, <2>1 DEF Placed, RunInv, CpuInv
  <2>3. Locks(c)'
    BY Zenon, <1>2, <1>10, <2>1 DEF Locks, PtHeld, TicksHeld
  <2>4. Ints(r, stack[p])
    BY Zenon, <1>4, <1>10 DEF Ints, Flags, Resume, PtHeld, TicksHeld, OpenCalls, On, Off, Switches
  <2> QED
    BY Zenon, <2>1, <2>2, <2>3, <2>4
<1>14. CpuInv'
  BY Zenon, <1>12, <1>13 DEF CpuInv
<1>15. ASSUME NEW q \in Procs, q # p PROVE ProcRight(q)'
  <2>1. OnCpu(q)' <=> OnCpu(q)
    BY Zenon, <1>1, <1>3, <1>4, <1>7, <1>15 DEF OnCpu
  <2> QED
    BY Zenon, <1>8, <1>15, <2>1 DEF RunInv, ProcInv, ProcRight, Keeps
<1>16. ProcRight(p)'
  <2>1. OnCpu(p)'
    BY Zenon, <1>4, <1>7 DEF OnCpu
  <2>2. StateOn(state'[p], stack[p])
    BY Zenon, <1>8, <1>10 DEF StateOn
  <2> QED
    BY Zenon, <1>10, <2>1, <2>2 DEF ProcRight, Keeps
<1> QED
  BY Zenon, <1>7, <1>11, <1>14, <1>15, <1>16 DEF Machine, ProcInv

LEMMA ScanRight ==
  ASSUME RunInv, NEW c \in CPUs, scan(c)
  PROVE  Machine'
<1> DEFINE R == {p \in Procs : p > cpu[c].cursor /\ state[p] = "RUNNABLE"}
<1>1. Top(Cur(c)) = "scan" /\ cpu[c] \in Cpu
  BY Zenon, Here DEF scan, Labels
<1>2. CASE /\ R # {} /\ cpu' = [cpu EXCEPT ![c].on = Min(R), ![c].proc = Min(R), ![c].cursor = Min(R)]
           /\ state' = [state EXCEPT ![Min(R)] = "RUNNING"] /\ UNCHANGED <<stack, ptlock>>
  <2>1. PICK p : p = Min(R)
    BY Zenon
  <2>2. p \in R
    BY Zenon, <1>2, <2>1, Least
  <2> QED
    BY Zenon, <1>1, <1>2, <2>1, <2>2, PickRight DEF scan, local
<1>3. CASE cpu' = [cpu EXCEPT ![c] = [popcli(cpu[c]) EXCEPT !.proc = NULL]]
  <2>1. cpu[c].ncli = 1
    BY Zenon, <1>1, Ready DEF Ints, Flags, PtHeld
  <2>2. popcli(cpu[c]) \in Cpu /\ popcli(cpu[c]).on = cpu[c].on
    BY Zenon, <1>1, <2>1, PopIs
  <2>3. cpu'[c].on = cpu[c].on /\ cpu'[c].proc = NULL
    BY Zenon, <1>3, <2>2 DEF RunInv, TypeOK, Cpu
  <2> QED
    BY Zenon, <2>3, ScanEndRight
<1> QED
  BY Zenon, <1>2, <1>3 DEF scan

\* A step that also changes slot q, whose process no processor runs.
Slot(c, s, q, w) ==
  /\ cpu[c].on \in Procs /\ q # cpu[c].on /\ ~OnCpu(q)
  /\ stack' \in [Threads -> Seq(Labels)] /\ stack'[cpu[c].on] = s /\ stack'[q] = w
  /\ \A t \in Threads : t # cpu[c].on /\ t # q => stack'[t] = stack[t]
  /\ \A t \in Procs : t # q => state'[t] = state[t]
  /\ StateOff(state'[q], w) /\ Fits(q, w) /\ Top(w) # "swtch" /\ saved' = saved

LEMMA SlotStep ==
  ASSUME RunInv, NEW c \in CPUs, NEW r \in Cpu, r.on = cpu[c].on, cpu' = [cpu EXCEPT ![c] = r],
         NEW s, NEW q \in Procs, NEW w, Slot(c, s, q, w), Held(c, s), OwnRight(c, r, s)
  PROVE  Machine'
<1>1. cpu' \in [CPUs -> Cpu]
  BY Zenon DEF RunInv, TypeOK, Cpu
<1>2. Moves(c, r, s)
  BY Zenon, Apart DEF Moves, Slot
<1>3. Others(c)
  <2>1. SUFFICES ASSUME NEW t \in Procs, t # cpu[c].on
                 PROVE  (stack'[t] = stack[t] /\ state'[t] = state[t] /\ saved'[t] = saved[t]) \/ OffRight(t)
    BY Zenon DEF Others
  <2>2. CASE t = q
    BY Zenon, <2>2 DEF Slot, OffRight, Keeps
  <2>3. CASE t # q
    BY Zenon, <2>1, <2>3 DEF Slot, Threads
  <2> QED
    BY Zenon, <2>2, <2>3
<1>4. CpuInv' /\ Single' /\ ProcInv'
  BY Zenon, <1>2, <1>3, OnStep DEF Held, OwnRight
<1> QED
  BY Zenon, <1>1, <1>4 DEF Machine, Slot

\* A slot that fork has found or given back is nobody's, and so is a zombie's when the
\* processor holds ptable.lock.
LEMMA EmptySlot ==
  ASSUME RunInv, NEW q \in Procs, state[q] \in {"UNUSED", "EMBRYO"}
  PROVE  ~OnCpu(q) /\ stack[q] = <<>>
<1>1. ASSUME NEW c \in CPUs, cpu[c].on = q PROVE FALSE
  <2>1. StateOn(state[q], Cur(c)) /\ Fits(q, Cur(c))
    BY Zenon, <1>1, InProcess
  <2>2. Top(Cur(c)) = "sched"
    BY Zenon, <2>1 DEF StateOn
  <2>3. Resume(Cur(c)) \in {"yielded", "scan children", "slept", "zombie exit"}
    BY Zenon, <2>1, <2>2 DEF Resume, Fits, Away, Switches
  <2> QED
    BY Zenon, <2>1, <2>2, <2>3 DEF StateOn
<1>2. ~OnCpu(q)
  BY Zenon, <1>1 DEF OnCpu
<1> QED
  BY Zenon, <1>2 DEF RunInv, ProcInv, ProcRight, StateOff

LEMMA ZombieSlot ==
  ASSUME RunInv, NEW c \in CPUs, Top(Cur(c)) = "scan children", NEW q \in Procs, state[q] = "ZOMBIE"
  PROVE  ~OnCpu(q)
<1>1. SUFFICES ASSUME NEW d \in CPUs, cpu[d].on = q PROVE FALSE
  BY Zenon DEF OnCpu
<1>2. StateOn(state[q], Cur(d))
  BY Zenon, <1>1, InProcess
<1>3. Top(Cur(d)) = "sched"
  BY Zenon, <1>2 DEF StateOn
<1>4. ptlock = d /\ ptlock = c
  BY Zenon, <1>3, Ready DEF PtHeld
<1> QED
  BY Zenon, <1>3, <1>4

LEMMA EmptyFits ==
  ASSUME NEW q
  PROVE  /\ Fits(q, <<>>) /\ Fits(q, <<"forkret">>) /\ Top(<<>>) = "user" /\ Top(<<"forkret">>) = "forkret"
         /\ <<>> \in Seq(Labels) /\ <<"forkret">> \in Seq(Labels) /\ Resume(<<"forkret">>) = "forkret"
<1>1. Top(<<>>) = "user"
  BY Zenon DEF Top
<1>2. "forkret" \in Labels
  BY Zenon DEF Labels
<1>3. <<"forkret">> \in Seq(Labels) /\ Top(<<"forkret">>) = "forkret" /\ Tail(<<"forkret">>) = <<>>
  BY Zenon, <1>2, Singles
<1>4. <<>> \in Seq(Labels)
  OBVIOUS
<1>5. Fits(q, <<>>)
  BY Zenon, <1>1 DEF Fits, Calls, OpenCalls, Handlers, Switches
<1>6. Fits(q, <<"forkret">>)
  BY Zenon, <1>3 DEF Fits, Calls, OpenCalls, Handlers, Switches
<1> QED
  BY Zenon, <1>1, <1>3, <1>4, <1>5, <1>6 DEF Resume, Switches

\* A system call takes a lock and goes on at l, or releases one and goes on or returns.
LEMMA TakesRight ==
  ASSUME RunInv, NEW c \in CPUs, wait(c) \/ sleep(c) \/ relock(c)
  PROVE  Machine'
<1> DEFINE l == IF wait(c) THEN "scan children" ELSE "check"
           r == pushcli(cpu[c])
<1>1. cpu[c] \in Cpu /\ Top(Cur(c)) \in {"wait", "sleep", "lock again"}
  BY Zenon, Here DEF wait, sleep, relock, Labels
<1>2. cpu[c].ncli = 0 /\ cpu[c].iflag /\ ptlock # c /\ tickslock # c
  BY Zenon, <1>1, Ready DEF Ints, Flags, PtHeld, TicksHeld, OpenCalls
<1>3. r \in Cpu /\ r.on = cpu[c].on /\ r.proc = cpu[c].proc /\ r.ncli = 1 /\ ~r.iflag /\ r.intena
  BY Zenon, <1>1, <1>2, PushIs
<1>4. /\ cpu' = [cpu EXCEPT ![c] = r] /\ Goto(cpu[c].on, l) /\ UNCHANGED <<state, saved>>
      /\ l = "scan children" => ptlock = NULL /\ ptlock' = c /\ tickslock' = tickslock
      /\ l = "check" => tickslock = NULL /\ tickslock' = c /\ ptlock' = ptlock
  <2>1. CASE wait(c)
    BY Zenon, <2>1 DEF wait, AcquirePt, table, local
  <2>2. CASE ~wait(c) /\ sleep(c)
    BY Zenon, <2>2 DEF sleep, AcquireTicks, table
  <2>3. CASE ~wait(c) /\ relock(c)
    BY Zenon, <2>3 DEF relock, AcquireTicks, table, local
  <2> QED
    BY Zenon, <2>1, <2>2, <2>3
<1>5. l \in {"scan children", "check"}
  BY Zenon
<1> HIDE DEF r, l
<1>6. Flags(r, l, l) /\ (ptlock' = c <=> l \in PtHeld) /\ (tickslock' = c <=> l \in TicksHeld)
  BY Zenon, <1>2, <1>3, <1>4, <1>5 DEF Flags, PtHeld, TicksHeld, OpenCalls, On, Off
<1>7. l \in Labels /\ l \notin Switches /\ l \in Calls /\ Top(Cur(c)) \in Calls
      /\ Top(Cur(c)) \notin Switches \cup {"user", "loop", "acquire", "scan"}
  BY Zenon, <1>1, <1>5 DEF Labels, Switches, Calls, OpenCalls
<1>8. Wakes(c) /\ LockMoves(c)
  BY Zenon, <1>4, <1>5 DEF Wakes, LockMoves
<1> QED
  BY Zenon, <1>3, <1>4, <1>6, <1>7, <1>8, GoesTo

LEMMA CheckRight ==
  ASSUME RunInv, NEW c \in CPUs, check(c)
  PROVE  Machine'
<1>1. cpu[c] \in Cpu /\ Top(Cur(c)) = "check"
  BY Zenon, Here DEF check, Labels
<1>2. cpu[c].ncli = 1 /\ ~cpu[c].iflag /\ cpu[c].intena /\ ptlock # c /\ tickslock = c
  BY Zenon, <1>1, Ready DEF Ints, Flags, Resume, Switches, PtHeld, TicksHeld, OpenCalls, On, Off
<1>3. UNCHANGED <<state, saved, ptlock>>
  BY Zenon DEF check, table
<1>4. CASE ReleaseTicks(c) /\ Return(cpu[c].on)
  <2> DEFINE r == popcli(cpu[c])
  <2>1. r \in Cpu /\ r.on = cpu[c].on /\ r.proc = cpu[c].proc /\ r.ncli = 0 /\ r.iflag
    BY Zenon, <1>1, <1>2, PopIs
  <2>2. cpu' = [cpu EXCEPT ![c] = r] /\ tickslock' = NULL
    BY Zenon, <1>4 DEF ReleaseTicks
  <2> HIDE DEF r
  <2>3. Wakes(c) /\ LockMoves(c) /\ tickslock' # c /\ ptlock' # c /\ "check" \in Calls
    BY Zenon, <1>2, <1>3, <2>2, Apart DEF Wakes, LockMoves, Calls
  <2> QED
    BY Zenon, <1>1, <1>3, <1>4, <2>1, <2>2, <2>3, Returns
<1>5. CASE Goto(cpu[c].on, "go to sleep") /\ UNCHANGED <<cpu, tickslock>>
  <2>1. cpu' = [cpu EXCEPT ![c] = cpu[c]]
    BY Zenon, <1>5 DEF RunInv, TypeOK
  <2>2. Flags(cpu[c], "go to sleep", "go to sleep")
    BY Zenon, <1>2 DEF Flags, PtHeld, TicksHeld, OpenCalls, On, Off
  <2>3. /\ "go to sleep" \in Labels /\ "go to sleep" \notin Switches \cup PtHeld
        /\ "go to sleep" \in TicksHeld \cap Calls /\ "check" \in Calls
    BY Zenon DEF Labels, Switches, PtHeld, TicksHeld, Calls
  <2>4. Wakes(c) /\ LockMoves(c) /\ Top(Cur(c)) \notin Switches \cup {"user", "loop", "acquire", "scan"}
    BY Zenon, <1>1, <1>3, <1>5 DEF Wakes, LockMoves, Switches
  <2> QED
    BY Zenon, <1>1, <1>2, <1>3, <1>5, <2>1, <2>2, <2>3, <2>4, GoesTo
<1> QED
  BY Zenon, <1>4, <1>5 DEF check

LEMMA SleptRight ==
  ASSUME RunInv, NEW c \in CPUs, slept(c)
  PROVE  Machine'
<1>1. cpu[c] \in Cpu /\ Top(Cur(c)) = "slept"
  BY Zenon, Here DEF slept, Labels
<1>2. cpu[c].ncli = 1 /\ ~cpu[c].iflag /\ cpu[c].intena /\ ptlock = c /\ tickslock # c
  BY Zenon, <1>1, Ready DEF Ints, Flags, Resume, Switches, PtHeld, TicksHeld, OpenCalls, On, Off
<1> DEFINE r == popcli(cpu[c])
<1>3. r \in Cpu /\ r.on = cpu[c].on /\ r.proc = cpu[c].proc /\ r.ncli = 0 /\ r.iflag
  BY Zenon, <1>1, <1>2, PopIs
<1>4. /\ cpu' = [cpu EXCEPT ![c] = r] /\ Goto(cpu[c].on, "lock again") /\ ptlock' = NULL
      /\ UNCHANGED <<state, saved, tickslock>>
  BY Zenon DEF slept, ReleasePt, local
<1> HIDE DEF r
<1>5. Flags(r, "lock again", "lock again")
  BY Zenon, <1>3 DEF Flags, PtHeld, TicksHeld, OpenCalls, On, Off
<1>6. /\ "lock again" \in Labels /\ "lock again" \notin Switches \cup PtHeld \cup TicksHeld
      /\ "lock again" \in Calls /\ "slept" \in Calls
  BY Zenon DEF Labels, Switches, PtHeld, TicksHeld, Calls, OpenCalls
<1>7. Wakes(c) /\ LockMoves(c) /\ ptlock' # c /\ Top(Cur(c)) \notin Switches \cup {"user", "loop", "acquire", "scan"}
  BY Zenon, <1>1, <1>2, <1>4, Apart DEF Wakes, LockMoves, Switches
<1> QED
  BY Zenon, <1>1, <1>2, <1>3, <1>4, <1>5, <1>6, <1>7, GoesTo

LEMMA GosleepRight ==
  ASSUME RunInv, NEW c \in CPUs, gosleep(c)
  PROVE  Machine'
<1>1. cpu[c] \in Cpu /\ Top(Cur(c)) = "go to sleep"
  BY Zenon, Here DEF gosleep, Labels
<1>2. cpu[c].ncli = 1 /\ cpu[c].intena /\ cpu[c].on \in Procs /\ cpu[c].proc = cpu[c].on /\ tickslock = c
  BY Zenon, <1>1, Ready, InProcess DEF Ints, Flags, Resume, Switches, PtHeld, TicksHeld, On
<1> DEFINE r == popcli(pushcli(cpu[c]))
<1>3. r \in Cpu /\ r.on = cpu[c].on /\ r.proc = cpu[c].on /\ r.ncli = 1 /\ ~r.iflag /\ r.intena
  BY Zenon, <1>1, <1>2, PushPop
<1>4. /\ cpu' = [cpu EXCEPT ![c] = r] /\ EnterSched(cpu[c].on, "slept") /\ ptlock = NULL /\ ptlock' = c
      /\ tickslock' = NULL /\ state' = [state EXCEPT ![cpu[c].on] = "SLEEPING"] /\ UNCHANGED saved
  BY Zenon DEF gosleep, local
<1> HIDE DEF r
<1>5. state'[cpu[c].on] = "SLEEPING" /\ \A q \in Procs : q # cpu[c].on => state'[q] = state[q]
  BY Zenon, <1>2, <1>4 DEF RunInv, TypeOK
<1>6. Wakes(c) /\ LockMoves(c) /\ tickslock' # c
  BY Zenon, <1>2, <1>4, <1>5, Apart DEF Wakes, LockMoves
<1>7. "slept" \notin Off /\ "go to sleep" \in Calls
  BY Zenon DEF Off, Calls
<1> QED
  BY Zenon, <1>1, <1>2, <1>3, <1>4, <1>5, <1>6, <1>7, Enters

\* kill and exit wake processes, with ptable.lock free before.
LEMMA KillRight ==
  ASSUME RunInv, NEW c \in CPUs, kill(c)
  PROVE  Machine'
<1>1. cpu[c] \in Cpu /\ Top(Cur(c)) = "kill"
  BY Zenon, Here DEF kill, Labels
<1>2. cpu[c].ncli = 0 /\ cpu[c].iflag /\ ptlock # c /\ tickslock # c /\ cpu[c].on \in Procs /\ state[cpu[c].on] = "RUNNING"
  BY Zenon, <1>1, Ready, InProcess DEF Ints, Flags, PtHeld, TicksHeld, OpenCalls, StateOn
<1>3. \/ \E q \in Procs : state' = [state EXCEPT ![q] = IF state[q] = "SLEEPING" THEN "RUNNABLE" ELSE state[q]]
      \/ state' = state
  BY Zenon DEF kill, Addressed
<1>4. Return(cpu[c].on) /\ UNCHANGED <<cpu, saved, ptlock, tickslock>> /\ ptlock = NULL
  BY Zenon DEF kill, local
<1>5. cpu' = [cpu EXCEPT ![c] = cpu[c]]
  BY Zenon, <1>4 DEF RunInv, TypeOK
<1>6. \A t \in Procs : state'[t] = state[t] \/ (state[t] = "SLEEPING" /\ state'[t] = "RUNNABLE")
  BY Zenon, <1>3 DEF RunInv, TypeOK
<1>7. Wakes(c) /\ LockMoves(c) /\ "kill" \in Calls /\ state'[cpu[c].on] = state[cpu[c].on]
  BY Zenon, <1>2, <1>4, <1>6 DEF Wakes, LockMoves, Calls, OpenCalls
<1> QED
  BY Zenon, <1>1, <1>2, <1>4, <1>5, <1>7, Returns

LEMMA WakesParents ==
  ASSUME RunInv, NEW p \in Procs, NEW q \in Procs
  PROVE  \/ WakeParents(p)[q] = state[q]
         \/ state[q] = "SLEEPING" /\ WakeParents(p)[q] = "RUNNABLE"
  BY Zenon DEF WakeParents, wakeup1

LEMMA ParentsTyped ==
  ASSUME RunInv, NEW p \in Procs
  PROVE  WakeParents(p) \in [Procs -> States]
<1>1. \A s \in [Procs -> States] : \A ch : wakeup1(s, ch) \in [Procs -> States]
  BY Zenon DEF wakeup1, States
<1> QED
  BY Zenon, <1>1 DEF WakeParents, RunInv, TypeOK

LEMMA ExitRight ==
  ASSUME RunInv, NEW c \in CPUs, exit(c)
  PROVE  Machine'
<1>1. cpu[c] \in Cpu /\ Top(Cur(c)) = "exit"
  BY Zenon, Here DEF exit, Labels
<1>2. cpu[c].ncli = 0 /\ ptlock # c /\ tickslock # c
  BY Zenon, <1>1, Ready DEF Ints, Flags, PtHeld, TicksHeld, OpenCalls
<1>3. cpu[c].on \in Procs /\ cpu[c].proc = cpu[c].on /\ cpu[c].on # initproc
  BY Zenon, <1>1, InProcess DEF Fits
<1> DEFINE r == pushcli(cpu[c])
<1>4. r \in Cpu /\ r.on = cpu[c].on /\ r.proc = cpu[c].on /\ r.ncli = 1 /\ ~r.iflag
  BY Zenon, <1>1, <1>2, <1>3, PushIs
<1>5. /\ cpu' = [cpu EXCEPT ![c] = r] /\ EnterSched(cpu[c].on, "zombie exit") /\ ptlock = NULL /\ ptlock' = c
      /\ state' = [WakeParents(cpu[c].on) EXCEPT ![cpu[c].on] = "ZOMBIE"] /\ UNCHANGED <<saved, tickslock>>
  BY Zenon DEF exit, AcquirePt, local
<1> HIDE DEF r
<1>6. /\ state'[cpu[c].on] = "ZOMBIE"
      /\ \A q \in Procs : q # cpu[c].on => state'[q] = WakeParents(cpu[c].on)[q]
  BY Zenon, <1>3, <1>5, ParentsTyped
<1>7. Wakes(c) /\ LockMoves(c)
  <2>1. \A q \in Procs : q # cpu[c].on => state'[q] = state[q] \/ (state[q] = "SLEEPING" /\ state'[q] = "RUNNABLE")
    BY Zenon, <1>3, <1>6, WakesParents
  <2> QED
    BY Zenon, <1>5, <2>1 DEF Wakes, LockMoves
<1>8. "zombie exit" \notin On \cup Off
  BY Zenon DEF On, Off
<1> QED
  BY Zenon, <1>1, <1>2, <1>3, <1>4, <1>5, <1>6, <1>7, <1>8, Enters

\* The steps of fork.
LEMMA ForkRight ==
  ASSUME RunInv, NEW c \in CPUs, fork(c)
  PROVE  Machine'
<1> DEFINE p == cpu[c].on
           U == {q \in Procs : state[q] = "UNUSED"}
<1>1. cpu[c] \in Cpu /\ Top(Cur(c)) = "fork"
  BY Zenon, Here DEF fork, Labels
<1>2. cpu[c].ncli = 0 /\ cpu[c].iflag /\ ptlock # c /\ tickslock # c /\ p \in Procs /\ state[p] = "RUNNING" /\ cpu[c].proc = p
  BY Zenon, <1>1, Ready, InProcess DEF Ints, Flags, PtHeld, TicksHeld, OpenCalls, StateOn
<1>3. UNCHANGED <<cpu, saved, ptlock, tickslock>>
  BY Zenon DEF fork
<1>4. cpu' = [cpu EXCEPT ![c] = cpu[c]] /\ LockMoves(c)
  BY Zenon, <1>3 DEF RunInv, TypeOK, LockMoves
<1>5. CASE Return(p) /\ UNCHANGED state
  <2>1. Wakes(c) /\ "fork" \in Calls
    BY Zenon, <1>3, <1>5 DEF Wakes, Calls, OpenCalls
  <2> QED
    BY Zenon, <1>1, <1>2, <1>3, <1>4, <1>5, <2>1, Returns
<1>6. CASE U # {} /\ state' = [state EXCEPT ![Min(U)] = "EMBRYO"] /\ Goto(p, "copy")
  <2> DEFINE q == Min(U)
             s == <<"copy">> \o Tail(Cur(c))
  <2>1. q \in Procs /\ state[q] = "UNUSED"
    BY Zenon, <1>6, Least
  <2> HIDE DEF q, U
  <2>2. ~OnCpu(q) /\ stack[q] = <<>> /\ q # p
    BY Zenon, <1>2, <2>1, EmptySlot
  <2>3. state'[q] = "EMBRYO" /\ \A t \in Procs : t # q => state'[t] = state[t]
    BY Zenon, <1>6, <2>1 DEF RunInv, TypeOK, q
  <2>4. Flags(cpu[c], "copy", "copy")
    BY Zenon, <1>2 DEF Flags, PtHeld, TicksHeld, OpenCalls, On, Off
  <2>5. "copy" \in Labels /\ "copy" \notin Switches \cup PtHeld \cup TicksHeld /\ "copy" \in Calls /\ "fork" \in Calls
    BY Zenon DEF Labels, Switches, PtHeld, TicksHeld, Calls, OpenCalls
  <2>6. Top(Cur(c)) \notin Switches \cup {"user", "loop", "acquire", "scan"} /\ state'[p] = state[p]
    BY Zenon, <1>1, <1>2, <2>2, <2>3 DEF Switches
  <2>7. s \in Seq(Labels) /\ Top(s) = "copy" /\ OwnRight(c, cpu[c], s)
    BY Zenon, <1>1, <1>2, <2>4, <2>5, <2>6, GoesRight
  <2>8. stack' = [stack EXCEPT ![p] = s]
    BY Zenon, <1>6 DEF Goto, Rest, Cur
  <2> HIDE DEF s
  <2>9. /\ stack' \in [Threads -> Seq(Labels)] /\ stack'[p] = s /\ stack'[q] = <<>>
        /\ \A t \in Threads : t # p => stack'[t] = stack[t]
    <3>1. stack \in [Threads -> Seq(Labels)] /\ p \in Threads /\ q \in Threads
      BY Zenon, <1>2, <2>1 DEF RunInv, TypeOK, Threads
    <3> QED
      BY Zenon, <2>2, <2>7, <2>8, <3>1
  <2>10. Slot(c, s, q, <<>>)
    BY Zenon, <1>2, <1>3, <2>2, <2>3, <2>9, EmptyFits DEF Slot, StateOff
  <2>11. Held(c, s)
    BY Zenon, <1>2, <1>3, <1>4, <2>5, <2>7 DEF Held
  <2> QED
    BY Zenon, <1>1, <1>4, <2>1, <2>7, <2>10, <2>11, SlotStep
<1> QED
  BY Zenon, <1>5, <1>6 DEF fork

\* What fork finds in the slot it took.
LEMMA Taken ==
  ASSUME RunInv, ForkInv, NEW c \in CPUs, Top(Cur(c)) \in {"copy", "publish"}
  PROVE  /\ cpu[c].on \in Procs /\ np[cpu[c].on] \in Procs /\ state[np[cpu[c].on]] = "EMBRYO"
         /\ np[cpu[c].on] # cpu[c].on /\ ~OnCpu(np[cpu[c].on]) /\ stack[np[cpu[c].on]] = <<>>
         /\ state[cpu[c].on] = "RUNNING"
<1>1. cpu[c].on \in Procs /\ state[cpu[c].on] = "RUNNING"
  BY Zenon, InProcess DEF StateOn
<1>2. Doing(stack[cpu[c].on]) \in {"copy", "publish"}
  BY Zenon DEF Doing, Cur, Handlers, Switches
<1>3. np[cpu[c].on] \in Procs /\ state[np[cpu[c].on]] = "EMBRYO"
  BY Zenon, <1>1, <1>2 DEF ForkInv, Forking
<1> QED
  BY Zenon, <1>1, <1>3, EmptySlot

LEMMA CopyRight ==
  ASSUME RunInv, ForkInv, NEW c \in CPUs, copy(c)
  PROVE  Machine'
<1> DEFINE p == cpu[c].on
           q == np[p]
<1>1. cpu[c] \in Cpu /\ Top(Cur(c)) = "copy"
  BY Zenon, Here DEF copy, Labels
<1>2. cpu[c].ncli = 0 /\ cpu[c].iflag /\ ptlock # c /\ tickslock # c /\ p \in Procs /\ state[p] = "RUNNING" /\ cpu[c].proc = p
  BY Zenon, <1>1, Ready, InProcess DEF Ints, Flags, PtHeld, TicksHeld, OpenCalls, StateOn
<1>3. UNCHANGED <<cpu, saved, ptlock, tickslock>>
  BY Zenon DEF copy
<1>4. cpu' = [cpu EXCEPT ![c] = cpu[c]] /\ LockMoves(c) /\ "copy" \in Calls
  BY Zenon, <1>3 DEF RunInv, TypeOK, LockMoves, Calls, OpenCalls
<1>5. q \in Procs /\ q # p /\ ~OnCpu(q) /\ stack[q] = <<>>
  BY Zenon, <1>1, Taken
<1> HIDE DEF q
<1>6. CASE Goto(p, "publish") /\ UNCHANGED state
  <2>1. Wakes(c)
    BY Zenon, <1>3, <1>6 DEF Wakes
  <2>2. Flags(cpu[c], "publish", "publish")
    BY Zenon, <1>2 DEF Flags, PtHeld, TicksHeld, OpenCalls, On, Off
  <2>3. "publish" \in Labels /\ "publish" \notin Switches \cup PtHeld \cup TicksHeld /\ "publish" \in Calls
    BY Zenon DEF Labels, Switches, PtHeld, TicksHeld, Calls, OpenCalls
  <2>4. Top(Cur(c)) \notin Switches \cup {"user", "loop", "acquire", "scan"}
    BY Zenon, <1>1 DEF Switches
  <2> QED
    BY Zenon, <1>1, <1>2, <1>3, <1>4, <1>6, <2>1, <2>2, <2>3, <2>4, GoesTo
<1>7. CASE Return(p) /\ state' = [state EXCEPT ![q] = "UNUSED"]
  <2> DEFINE s == Tail(Cur(c))
  <2>1. state'[q] = "UNUSED" /\ \A t \in Procs : t # q => state'[t] = state[t]
    BY Zenon, <1>5, <1>7 DEF RunInv, TypeOK
  <2>2. s \in Seq(Labels) /\ Top(s) \notin PtHeld \cup TicksHeld /\ OwnRight(c, cpu[c], s)
    BY Zenon, <1>1, <1>2, <1>4, <1>5, <2>1, ReturnsRight
  <2>3. stack' = [stack EXCEPT ![p] = s]
    BY Zenon, <1>7 DEF Return, Rest, Cur
  <2> HIDE DEF s
  <2>4. /\ stack' \in [Threads -> Seq(Labels)] /\ stack'[p] = s /\ stack'[q] = <<>>
        /\ \A t \in Threads : t # p => stack'[t] = stack[t]
    <3>1. stack \in [Threads -> Seq(Labels)] /\ p \in Threads /\ q \in Threads
      BY Zenon, <1>2, <1>5 DEF RunInv, TypeOK, Threads
    <3> QED
      BY Zenon, <1>5, <2>2, <2>3, <3>1
  <2>5. Slot(c, s, q, <<>>)
    BY Zenon, <1>2, <1>3, <1>5, <2>1, <2>4, EmptyFits DEF Slot, StateOff
  <2>6. Held(c, s)
    BY Zenon, <1>2, <1>3, <1>4, <2>2 DEF Held
  <2> QED
    BY Zenon, <1>1, <1>4, <1>5, <2>2, <2>5, <2>6, SlotStep
<1> QED
  BY Zenon, <1>6, <1>7 DEF copy, q

\* The step returns and leaves stack w in slot q.
LEMMA ReturnSlot ==
  ASSUME RunInv, NEW c \in CPUs, NEW r \in Cpu, NEW q \in Procs, NEW w \in Seq(Labels), cpu[c].on \in Procs,
         Top(Cur(c)) \in Calls, q # cpu[c].on, ~OnCpu(q), r.on = cpu[c].on, r.proc = cpu[c].proc, r.ncli = 0, r.iflag,
         cpu' = [cpu EXCEPT ![c] = r], stack' = [stack EXCEPT ![cpu[c].on] = Rest(cpu[c].on), ![q] = w],
         \A t \in Procs : t # q => state'[t] = state[t], UNCHANGED saved, LockMoves(c), ptlock' # c, tickslock' # c,
         StateOff(state'[q], w), Fits(q, w), Top(w) # "swtch"
  PROVE  Machine'
<1> DEFINE p == cpu[c].on
           s == Tail(Cur(c))
<1>1. state'[p] = state[p]
  BY Zenon
<1>2. s \in Seq(Labels) /\ Top(s) \notin PtHeld \cup TicksHeld /\ OwnRight(c, r, s)
  BY Zenon, <1>1, ReturnsRight
<1>3. stack' = [stack EXCEPT ![p] = s, ![q] = w]
  BY Zenon DEF Rest, Cur
<1> HIDE DEF s
<1>4. /\ stack' \in [Threads -> Seq(Labels)] /\ stack'[p] = s /\ stack'[q] = w
      /\ \A t \in Threads : t # p /\ t # q => stack'[t] = stack[t]
  <2>1. stack \in [Threads -> Seq(Labels)] /\ p \in Threads /\ q \in Threads
    BY Zenon DEF RunInv, TypeOK, Threads
  <2> DEFINE f == [stack EXCEPT ![p] = s]
  <2>3. f \in [Threads -> Seq(Labels)] /\ f[p] = s /\ \A t \in Threads : t # p => f[t] = stack[t]
    BY Zenon, <1>2, <2>1
  <2>4. stack' = [f EXCEPT ![q] = w]
    BY Zenon, <1>3
  <2> HIDE DEF f
  <2>5. stack' \in [Threads -> Seq(Labels)] /\ stack'[q] = w /\ \A t \in Threads : t # q => stack'[t] = f[t]
    BY Zenon, <2>1, <2>3, <2>4
  <2> QED
    BY Zenon, <2>1, <2>3, <2>5
<1>5. Slot(c, s, q, w) /\ Held(c, s)
  BY Zenon, <1>2, <1>4 DEF Slot, Held
<1> QED
  BY Zenon, <1>2, <1>5, SlotStep

LEMMA PublishRight ==
  ASSUME RunInv, ForkInv, NEW c \in CPUs, publish(c)
  PROVE  Machine'
<1> DEFINE p == cpu[c].on
           q == np[p]
<1>1. cpu[c] \in Cpu /\ Top(Cur(c)) = "publish"
  BY Zenon, Here DEF publish, Labels
<1>2. cpu[c].ncli = 0 /\ cpu[c].iflag /\ ptlock # c /\ tickslock # c
  BY Zenon, <1>1, Ready DEF Ints, Flags, PtHeld, TicksHeld, OpenCalls
<1>3. UNCHANGED <<cpu, saved, ptlock, tickslock>> /\ state' = [state EXCEPT ![q] = "RUNNABLE"]
      /\ stack' = [stack EXCEPT ![p] = Rest(p), ![q] = <<"forkret">>]
  BY Zenon DEF publish
<1>4. cpu' = [cpu EXCEPT ![c] = cpu[c]] /\ LockMoves(c) /\ "publish" \in Calls
  BY Zenon, <1>3 DEF RunInv, TypeOK, LockMoves, Calls, OpenCalls
<1>5. q \in Procs /\ q # p /\ ~OnCpu(q) /\ p \in Procs
  BY Zenon, <1>1, Taken
<1> HIDE DEF q
<1>6. state'[q] = "RUNNABLE" /\ \A t \in Procs : t # q => state'[t] = state[t]
  BY Zenon, <1>3, <1>5 DEF RunInv, TypeOK
<1>7. StateOff(state'[q], <<"forkret">>) /\ Fits(q, <<"forkret">>) /\ Top(<<"forkret">>) # "swtch" /\ <<"forkret">> \in Seq(Labels)
  BY Zenon, <1>6, EmptyFits DEF StateOff
<1> QED
  BY Zenon, <1>1, <1>2, <1>3, <1>4, <1>5, <1>6, <1>7, ReturnSlot

LEMMA WaitloopRight ==
  ASSUME RunInv, NEW c \in CPUs, waitloop(c), \A q \in Procs : parent[q] # q
  PROVE  Machine'
<1> DEFINE p == cpu[c].on
           kids == {q \in Procs : parent[q] = p}
           Z == {q \in kids : state[q] = "ZOMBIE"}
           z == Min(Z)
           r == popcli(cpu[c])
<1>1. cpu[c] \in Cpu /\ Top(Cur(c)) = "scan children" /\ "scan children" \in Calls /\ "scan children" \notin Off
  BY Zenon, Here DEF waitloop, Labels, Calls, Off
<1>2. /\ cpu[c].ncli = 1 /\ ~cpu[c].iflag /\ cpu[c].intena /\ ptlock = c /\ tickslock # c
      /\ p \in Procs /\ cpu[c].proc = p
  BY Zenon, <1>1, Ready, InProcess DEF Ints, Flags, Resume, Switches, PtHeld, TicksHeld, OpenCalls, On, Off
<1>3. UNCHANGED <<saved, tickslock>>
  BY Zenon DEF waitloop, local
<1>4. r \in Cpu /\ r.on = cpu[c].on /\ r.proc = cpu[c].proc /\ r.ncli = 0 /\ r.iflag
  BY Zenon, <1>1, <1>2, PopIs
<1>5. ReleasePt(c) => cpu' = [cpu EXCEPT ![c] = r] /\ LockMoves(c) /\ ptlock' # c
  BY Zenon, <1>2, <1>3, Apart DEF ReleasePt, LockMoves
<1> HIDE DEF r
<1>6. CASE Z # {} /\ Reap(p, z) /\ ReleasePt(c)
  <2>1. z \in Procs /\ parent[z] = p /\ state[z] = "ZOMBIE"
    <3>1. Z \in SUBSET Procs
      BY Zenon
    <3> QED
      BY Zenon, <1>6, <3>1, Least
  <2> HIDE DEF z, Z, kids
  <2>2. z # p /\ ~OnCpu(z)
    BY Zenon, <1>1, <1>2, <2>1, ZombieSlot
  <2>3. state'[z] = "UNUSED" /\ \A t \in Procs : t # z => state'[t] = state[t]
    BY Zenon, <1>6, <2>1 DEF Reap, RunInv, TypeOK
  <2>4. StateOff(state'[z], <<>>) /\ Fits(z, <<>>) /\ Top(<<>>) # "swtch" /\ <<>> \in Seq(Labels)
    BY Zenon, <2>3, EmptyFits DEF StateOff
  <2>5. stack' = [stack EXCEPT ![p] = Rest(p), ![z] = <<>>]
    BY Zenon, <1>6 DEF Reap
  <2> QED
    BY Zenon, <1>1, <1>2, <1>3, <1>4, <1>5, <1>6, <2>1, <2>2, <2>3, <2>4, <2>5, ReturnSlot
<1>7. CASE Return(p) /\ ReleasePt(c) /\ UNCHANGED state
  <2>1. Wakes(c)
    BY Zenon, <1>3, <1>7 DEF Wakes
  <2> QED
    BY Zenon, <1>1, <1>2, <1>3, <1>4, <1>5, <1>7, <2>1, Returns
<1>8. CASE state' = [state EXCEPT ![p] = "SLEEPING"] /\ EnterSched(p, "scan children") /\ UNCHANGED <<cpu, ptlock>>
  <2>1. state'[p] = "SLEEPING" /\ \A q \in Procs : q # p => state'[q] = state[q]
    BY Zenon, <1>2, <1>8 DEF RunInv, TypeOK
  <2>2. Wakes(c) /\ LockMoves(c)
    BY Zenon, <1>3, <1>8, <2>1 DEF Wakes, LockMoves
  <2>3. cpu' = [cpu EXCEPT ![c] = cpu[c]]
    BY Zenon, <1>8 DEF RunInv, TypeOK
  <2> QED
    BY Zenon, <1>1, <1>2, <1>3, <1>8, <2>1, <2>2, <2>3, Enters
<1> QED
  BY Zenon, <1>6, <1>7, <1>8 DEF waitloop
=============================================================================
