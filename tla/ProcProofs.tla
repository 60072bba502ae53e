----------------------------- MODULE ProcProofs -----------------------------
(***************************************************************************)
(* Proofs about Proc for any number of processors and processes: a kernel  *)
(* stack is used by one processor at a time, interrupts and locks are as   *)
(* each thread left them, and no wakeup is lost.                           *)
(***************************************************************************)
EXTENDS ProcSteps, TLAPS

-----------------------------------------------------------------------------
\* What fork, exit, wait and sleep count on.  A step of processor c leaves the other
\* processors where they are, ...
Elsewhere(c) ==
  /\ \A d \in CPUs : d # c => cpu'[d] = cpu[d]
  /\ \A t \in Threads : t # cpu[c].on =>
       stack'[t] = stack[t] \/ (t \in Procs /\ ~OnCpu(t) /\ Doing(stack'[t]) \notin {"copy", "publish"})

\* ... does not bring its own process into fork, ...
Stays(c) ==
  cpu[c].on \in Procs /\ Doing(stack'[cpu[c].on]) \in {"copy", "publish"} =>
    Doing(stack'[cpu[c].on]) = Doing(stack[cpu[c].on])

\* ... is not the end of a tick and does not decide to sleep, ...
Calm(c) == Top(Cur(c)) # "wake" /\ Top(Cur(c)') # "go to sleep"

\* ... ends, starts and frees no process, ...
Lives ==
  \A q \in Procs : state'[q] = state[q] \/ (state[q] \in Alive /\ state'[q] \in Alive)

\* ... and puts nobody to sleep.
Undisturbed(c) ==
  /\ UNCHANGED <<parent, np>> /\ killed'[initproc] = killed[initproc]
  /\ \A q \in Procs :
       /\ q # cpu[c].on => left'[q] = left[q]
       /\ state'[q] = "SLEEPING" =>
            state[q] = "SLEEPING" /\ chan'[q] = chan[q] /\ killed'[q] = killed[q] /\ left'[q] = left[q]

LEMMA OthersStay ==
  ASSUME RunInv, NEW c \in CPUs, Elsewhere(c), NEW d \in CPUs, d # c
  PROVE  cpu'[d].on = cpu[d].on /\ Cur(d)' = Cur(d)
<1>1. cpu'[d].on = cpu[d].on /\ cpu[d].on \in Threads /\ cpu[d].on # cpu[c].on
  BY Zenon, Here DEF Elsewhere, RunInv, Single
<1>2. OnCpu(cpu[d].on)
  BY Zenon DEF OnCpu
<1> QED
  BY Zenon, <1>1, <1>2 DEF Elsewhere, Cur

LEMMA ForkKeeps ==
  ASSUME ForkInv, NEW c \in CPUs, Elsewhere(c), Stays(c), \A q \in Procs : state[q] = "EMBRYO" => state'[q] = "EMBRYO",
         \A p \in Procs : Forking(p)' => np'[p] = np[p] /\ (parent[np[p]] = p => parent'[np[p]] = p)
  PROVE  ForkInv'
<1>1. ASSUME NEW p \in Procs, Forking(p)'
      PROVE  Forking(p) /\ (Doing(stack'[p]) = "publish" => Doing(stack[p]) = "publish")
  <2>1. Doing(stack'[p]) \in {"copy", "publish"} /\ p \in Threads
    BY Zenon, <1>1 DEF Forking, Threads
  <2>2. Doing(stack'[p]) = Doing(stack[p])
    <3>1. CASE p = cpu[c].on
      BY Zenon, <2>1, <3>1 DEF Stays
    <3>2. CASE p # cpu[c].on
      BY Zenon, <2>1, <3>2 DEF Elsewhere
    <3> QED
      BY Zenon, <3>1, <3>2
  <2> QED
    BY Zenon, <2>1, <2>2 DEF Forking
<1>2. ASSUME NEW p \in Procs, Forking(p)'
      PROVE  /\ np'[p] \in Procs /\ state'[np'[p]] = "EMBRYO"
             /\ Doing(stack'[p]) = "publish" => parent'[np'[p]] = p
  <2>1. Forking(p) /\ np'[p] = np[p] /\ np[p] \in Procs /\ state[np[p]] = "EMBRYO"
    BY Zenon, <1>1, <1>2 DEF ForkInv
  <2>2. state'[np[p]] = "EMBRYO"
    BY Zenon, <2>1
  <2>3. Doing(stack'[p]) = "publish" => parent'[np[p]] = p
    BY Zenon, <1>1, <1>2, <2>1 DEF ForkInv
  <2> QED
    BY Zenon, <2>1, <2>2, <2>3
<1>3. ASSUME NEW p \in Procs, NEW q \in Procs, Forking(p)', Forking(q)', np'[p] = np'[q]
      PROVE  p = q
  BY Zenon, <1>1, <1>3 DEF ForkInv
<1> QED
  BY Zenon, <1>2, <1>3 DEF ForkInv

LEMMA Embryos ==
  ASSUME Lives, NEW q \in Procs, state[q] = "EMBRYO"
  PROVE  state'[q] = "EMBRYO"
  BY Zenon DEF Lives, Alive

LEMMA ParentKeeps ==
  ASSUME ParentInv, Lives, UNCHANGED parent, killed'[initproc] = killed[initproc]
  PROVE  ParentInv'
<1>1. state'[initproc] \in Alive /\ parent'[initproc] = NULL /\ ~killed'[initproc]
  BY Zenon, Apart DEF ParentInv, Lives
<1>2. ASSUME NEW q \in Procs
      PROVE  /\ parent'[q] # q
             /\ q # initproc /\ state'[q] \notin {"UNUSED", "EMBRYO"} =>
                  parent'[q] \in Procs /\ state'[parent'[q]] \in Alive
  <2>1. state'[q] \notin {"UNUSED", "EMBRYO"} => state[q] \notin {"UNUSED", "EMBRYO"}
    BY Zenon DEF Lives, Alive
  <2> QED
    BY Zenon, <2>1 DEF ParentInv, Lives
<1> QED
  BY Zenon, <1>1, <1>2 DEF ParentInv

\* The three parts of SleepInv.
WaitInv ==
  \A p \in Procs : state[p] = "SLEEPING" /\ chan[p] = p =>
    ~killed[p] /\ \A q \in Procs : ~(parent[q] = p /\ state[q] = "ZOMBIE")
TickInv ==
  \A p \in Procs : state[p] = "SLEEPING" /\ chan[p] = Ticks =>
    left[p] > 0 \/ \E c \in CPUs : Top(Cur(c)) = "wake"
NapInv == \A c \in CPUs : Top(Cur(c)) = "go to sleep" => left[cpu[c].on] > 0

LEMMA WaitKeeps ==
  ASSUME WaitInv,
         \A p \in Procs : state'[p] = "SLEEPING" /\ chan'[p] = p =>
           state[p] = "SLEEPING" /\ chan[p] = p /\ killed'[p] = killed[p],
         \A q \in Procs : state'[q] = "ZOMBIE" => state[q] = "ZOMBIE" /\ parent'[q] = parent[q]
  PROVE  WaitInv'
<1>1. SUFFICES ASSUME NEW p \in Procs, state'[p] = "SLEEPING", chan'[p] = p
               PROVE  ~killed'[p] /\ \A q \in Procs : ~(parent'[q] = p /\ state'[q] = "ZOMBIE")
  BY Zenon DEF WaitInv
<1>2. ~killed[p] /\ killed'[p] = killed[p] /\ \A q \in Procs : ~(parent[q] = p /\ state[q] = "ZOMBIE")
  BY Zenon, <1>1 DEF WaitInv
<1> QED
  BY Zenon, <1>2

LEMMA TickKeeps ==
  ASSUME RunInv, TickInv, NEW c \in CPUs, Elsewhere(c), Top(Cur(c)) # "wake",
         \A p \in Procs : state'[p] = "SLEEPING" /\ chan'[p] = Ticks =>
           left'[p] > 0 \/ (state[p] = "SLEEPING" /\ chan[p] = Ticks /\ left'[p] = left[p])
  PROVE  TickInv'
<1>1. SUFFICES ASSUME NEW p \in Procs, state'[p] = "SLEEPING", chan'[p] = Ticks, ~(left'[p] > 0)
               PROVE  \E d \in CPUs : Top(Cur(d)') = "wake"
  BY Zenon DEF TickInv
<1>2. PICK d \in CPUs : Top(Cur(d)) = "wake"
  BY Zenon, <1>1 DEF TickInv
<1>3. Cur(d)' = Cur(d)
  BY Zenon, <1>2, OthersStay
<1> QED
  BY Zenon, <1>2, <1>3

LEMMA NapKeeps ==
  ASSUME RunInv, NapInv, NEW c \in CPUs, Elsewhere(c), Top(Cur(c)') # "go to sleep",
         \A p \in Procs : p # cpu[c].on => left'[p] = left[p]
  PROVE  NapInv'
<1>1. SUFFICES ASSUME NEW d \in CPUs, Top(Cur(d)') = "go to sleep" PROVE left'[cpu'[d].on] > 0
  BY Zenon DEF NapInv
<1>2. d # c
  BY Zenon, <1>1
<1>3. cpu'[d].on = cpu[d].on /\ Cur(d)' = Cur(d)
  BY Zenon, <1>2, OthersStay
<1>4. cpu[d].on \in Procs /\ cpu[d].on # cpu[c].on
  BY Zenon, <1>1, <1>2, <1>3, InProcess DEF RunInv, Single
<1> QED
  BY Zenon, <1>1, <1>3, <1>4 DEF NapInv

LEMMA Sleepers == SleepInv <=> WaitInv /\ TickInv /\ NapInv
  BY Zenon DEF SleepInv, WaitInv, TickInv, NapInv

LEMMA PlainStep ==
  ASSUME IInv, NEW c \in CPUs, Elsewhere(c), Stays(c), Calm(c), Lives, Undisturbed(c)
  PROVE  WakeInv'
<1>1. ForkInv'
  BY Zenon, ForkKeeps, Embryos DEF IInv, WakeInv, Undisturbed
<1>2. ParentInv'
  BY Zenon, ParentKeeps DEF IInv, WakeInv, Undisturbed
<1>3. WaitInv /\ TickInv /\ NapInv
  BY Zenon, Sleepers DEF IInv, WakeInv
<1>4. \A q \in Procs : state'[q] = "ZOMBIE" => state[q] = "ZOMBIE"
  BY Zenon DEF Lives, Alive
<1>5. WaitInv'
  BY Zenon, <1>3, <1>4, WaitKeeps DEF Undisturbed
<1>6. TickInv' /\ NapInv'
  BY Zenon, <1>3, TickKeeps, NapKeeps DEF Calm, IInv, Undisturbed
<1>7. SleepInv'
  BY Zenon, <1>5, <1>6 DEF SleepInv, WaitInv, TickInv, NapInv
<1> QED
  BY Zenon, <1>1, <1>2, <1>7 DEF WakeInv

-----------------------------------------------------------------------------
\* The ways a stack changes.
LEMMA OwnElsewhere ==
  ASSUME RunInv, NEW c \in CPUs, NEW s, stack' = [stack EXCEPT ![cpu[c].on] = s],
         \A d \in CPUs : d # c => cpu'[d] = cpu[d]
  PROVE  Elsewhere(c) /\ stack'[cpu[c].on] = s
<1>1. stack \in [Threads -> Seq(Labels)] /\ cpu[c].on \in Threads
  BY Zenon, Here DEF RunInv, TypeOK, Threads
<1> QED
  BY Zenon, <1>1 DEF Elsewhere

LEMMA GotoKeeps ==
  ASSUME RunInv, NEW c \in CPUs, NEW l \in Labels \ (Switches \cup {"copy", "publish"}), Goto(cpu[c].on, l),
         Top(Cur(c)) # "user", l \in Handlers => Top(Cur(c)) \in Handlers,
         \A d \in CPUs : d # c => cpu'[d] = cpu[d]
  PROVE  Elsewhere(c) /\ Stays(c) /\ Top(stack'[cpu[c].on]) = l
<1> DEFINE s == <<l>> \o Tail(Cur(c))
<1>1. Top(s) = l /\ Tail(s) = Tail(Cur(c))
  BY Zenon, Going
<1>2. stack' = [stack EXCEPT ![cpu[c].on] = s]
  BY Zenon DEF Goto, Rest, Cur
<1> HIDE DEF s
<1>3. Elsewhere(c) /\ stack'[cpu[c].on] = s
  BY Zenon, <1>2, OwnElsewhere
<1>4. CASE l \in Handlers
  BY Zenon, <1>1, <1>3, <1>4 DEF Stays, Doing, Cur
<1>5. CASE l \notin Handlers
  BY Zenon, <1>1, <1>3, <1>5 DEF Stays, Doing
<1> QED
  BY Zenon, <1>1, <1>3, <1>4, <1>5

LEMMA Interrupted ==
  ASSUME NEW p, NEW s, Open(p, s)
  PROVE  Doing(s) = Top(s) /\ Top(s) \notin {"wake", "go to sleep"}
  BY Zenon DEF Open, Doing, OpenCalls, Handlers, Switches

LEMMA ReturnKeeps ==
  ASSUME RunInv, NEW c \in CPUs, Return(cpu[c].on), Top(Cur(c)) \notin {"user", "exit", "sched"}, cpu[c].on \in Procs,
         \A d \in CPUs : d # c => cpu'[d] = cpu[d]
  PROVE  Elsewhere(c) /\ Stays(c) /\ Top(stack'[cpu[c].on]) # "go to sleep"
<1> DEFINE s == Tail(Cur(c))
           p == cpu[c].on
<1>1. stack' = [stack EXCEPT ![p] = s]
  BY Zenon DEF Return, Rest, Cur
<1>2. Elsewhere(c) /\ stack'[p] = s
  BY Zenon, <1>1, OwnElsewhere
<1>3. Fits(p, Cur(c))
  BY Zenon, InProcess
<1> HIDE DEF s
<1>4. CASE Top(Cur(c)) \in Handlers
  <2>1. Doing(s) = Top(s) /\ Top(s) # "go to sleep"
    BY Zenon, <1>3, <1>4, Interrupted DEF Fits, s
  <2> QED
    BY Zenon, <1>2, <1>4, <2>1 DEF Stays, Doing, Cur, s
<1>5. CASE Top(Cur(c)) = "swtch"
  <2>1. Away(p, s)
    BY Zenon, <1>3, <1>5 DEF Fits, Switches, s
  <2>2. CASE Top(s) = "yielded"
    BY Zenon, <1>2, <1>5, <2>2 DEF Stays, Doing, Cur, s, Handlers, Switches
  <2>3. CASE Top(s) # "yielded"
    <3>1. Doing(s) = Top(s) /\ Top(s) \notin {"copy", "publish", "go to sleep"}
      BY Zenon, <2>1, <2>3 DEF Away, Doing, Handlers, Switches
    <3> QED
      BY Zenon, <1>2, <3>1 DEF Stays
  <2> QED
    BY Zenon, <1>2, <2>2, <2>3
<1>6. CASE s \in {<<>>, <<"sysret">>}
  <2>1. Top(s) \in {"user", "sysret"}
    <3>1. "sysret" \in Labels
      BY Zenon DEF Labels
    <3> QED
      BY Zenon, <1>6, <3>1, Singles DEF Top
  <2>2. Doing(s) \in {"user", "sysret"}
    BY Zenon, <2>1 DEF Doing, Handlers, Switches
  <2> QED
    BY Zenon, <1>2, <2>1, <2>2 DEF Stays
<1> QED
  BY Zenon, <1>3, <1>4, <1>5, <1>6 DEF Fits, Switches, s

LEMMA EnterKeeps ==
  ASSUME RunInv, NEW c \in CPUs, NEW back \in Labels, EnterSched(cpu[c].on, back), Top(Cur(c)) # "user",
         back = "yielded" => Top(Cur(c)) \in Handlers, \A d \in CPUs : d # c => cpu'[d] = cpu[d]
  PROVE  Elsewhere(c) /\ Stays(c) /\ Top(stack'[cpu[c].on]) = "sched"
<1> DEFINE s == <<"sched", back>> \o Tail(Cur(c))
<1>1. Top(s) = "sched" /\ Top(Tail(s)) = back /\ Tail(Tail(s)) = Tail(Cur(c))
  BY Zenon, Entering DEF IsPush2
<1>2. stack' = [stack EXCEPT ![cpu[c].on] = s]
  BY Zenon DEF EnterSched, Rest, Cur
<1> HIDE DEF s
<1>3. Elsewhere(c) /\ stack'[cpu[c].on] = s
  BY Zenon, <1>2, OwnElsewhere
<1>4. CASE back = "yielded"
  BY Zenon, <1>1, <1>3, <1>4 DEF Stays, Doing, Cur, Handlers, Switches
<1>5. CASE back # "yielded"
  BY Zenon, <1>1, <1>3, <1>5 DEF Stays, Doing, Handlers, Switches
<1> QED
  BY Zenon, <1>1, <1>3, <1>4, <1>5

\* The step leaves every processor on its thread.
SameThread(c) == cpu'[c].on = cpu[c].on /\ \A d \in CPUs : d # c => cpu'[d] = cpu[d]

LEMMA OnStays ==
  ASSUME RunInv, NEW c \in CPUs,
         \/ UNCHANGED cpu
         \/ AcquirePt(c) \/ ReleasePt(c) \/ AcquireTicks(c) \/ ReleaseTicks(c) \/ Iret(c)
         \/ cpu' = [cpu EXCEPT ![c].iflag = TRUE]
         \/ cpu' = [cpu EXCEPT ![c].iflag = FALSE]
         \/ cpu' = [cpu EXCEPT ![c].intena = saved[cpu[c].on]]
         \/ cpu' = [cpu EXCEPT ![c] = [pushcli(cpu[c]) EXCEPT !.cursor = 0]]
         \/ cpu' = [cpu EXCEPT ![c] = [popcli(cpu[c]) EXCEPT !.proc = NULL]]
         \/ cpu' = [cpu EXCEPT ![c] = [popcli(cpu[c]) EXCEPT !.iflag = TRUE]]
         \/ cpu' = [cpu EXCEPT ![c] = popcli(pushcli(cpu[c]))]
  PROVE  SameThread(c)
<1>1. cpu[c] \in Cpu /\ DOMAIN cpu = CPUs
  BY Zenon, Here DEF RunInv, TypeOK
<1>2. DOMAIN cpu[c] = {"on", "proc", "ncli", "intena", "iflag", "cursor"}
  BY <1>1 DEF Cpu
<1>3. /\ DOMAIN pushcli(cpu[c]) = DOMAIN cpu[c] /\ pushcli(cpu[c]).on = cpu[c].on
      /\ DOMAIN popcli(cpu[c]) = DOMAIN cpu[c] /\ popcli(cpu[c]).on = cpu[c].on
  BY Zenon, <1>2 DEF pushcli, popcli
<1>4. popcli(pushcli(cpu[c])).on = cpu[c].on
  BY Zenon, <1>2, <1>3 DEF popcli
<1>5. ASSUME NEW r, cpu' = [cpu EXCEPT ![c] = r], r.on = cpu[c].on
      PROVE  SameThread(c)
  BY Zenon, <1>1, <1>5 DEF SameThread
<1>6. ASSUME UNCHANGED cpu PROVE SameThread(c)
  BY Zenon, <1>6 DEF SameThread
<1>7. ASSUME NEW b PROVE [cpu[c] EXCEPT !.iflag = b].on = cpu[c].on /\ [cpu[c] EXCEPT !.intena = b].on = cpu[c].on
  BY Zenon, <1>2
<1>8. /\ [pushcli(cpu[c]) EXCEPT !.cursor = 0].on = cpu[c].on
      /\ [popcli(cpu[c]) EXCEPT !.proc = NULL].on = cpu[c].on
      /\ [popcli(cpu[c]) EXCEPT !.iflag = TRUE].on = cpu[c].on
  BY Zenon, <1>2, <1>3
<1>9. CASE AcquirePt(c) \/ ReleasePt(c) \/ AcquireTicks(c) \/ ReleaseTicks(c)
  <2>1. cpu' = [cpu EXCEPT ![c] = pushcli(cpu[c])] \/ cpu' = [cpu EXCEPT ![c] = popcli(cpu[c])]
    BY Zenon, <1>9 DEF AcquirePt, ReleasePt, AcquireTicks, ReleaseTicks
  <2> QED
    BY Zenon, <1>3, <1>5, <2>1
<1>10. CASE Iret(c) \/ cpu' = [cpu EXCEPT ![c].iflag = TRUE] \/ cpu' = [cpu EXCEPT ![c].iflag = FALSE]
  BY Zenon, <1>5, <1>7, <1>10 DEF Iret
<1>11. CASE cpu' = [cpu EXCEPT ![c].intena = saved[cpu[c].on]]
  BY Zenon, <1>5, <1>7, <1>11
<1>12. CASE \/ cpu' = [cpu EXCEPT ![c] = [pushcli(cpu[c]) EXCEPT !.cursor = 0]]
            \/ cpu' = [cpu EXCEPT ![c] = [popcli(cpu[c]) EXCEPT !.proc = NULL]]
            \/ cpu' = [cpu EXCEPT ![c] = [popcli(cpu[c]) EXCEPT !.iflag = TRUE]]
            \/ cpu' = [cpu EXCEPT ![c] = popcli(pushcli(cpu[c]))]
  BY Zenon, <1>4, <1>5, <1>8, <1>12
<1> QED
  BY Zenon, <1>6, <1>9, <1>10, <1>11, <1>12

LEMMA Frame ==
  ASSUME UNCHANGED <<table, np, left>>, NEW c
  PROVE  Lives /\ Undisturbed(c)
  BY Zenon DEF table, Lives, Undisturbed

\* The scheduler's own steps.
LEMMA SchedulerWake ==
  ASSUME IInv, NEW c \in CPUs, loop(c) \/ acquire(c) \/ scan(c)
  PROVE  WakeInv'
<1>1. RunInv /\ Top(Cur(c)) \in {"loop", "acquire", "scan"}
  BY Zenon, Here DEF IInv, loop, acquire, scan, Labels
<1>2. cpu[c].on = Sched(c) /\ cpu[c].on \notin Procs
  BY Zenon, <1>1, InSched
<1>3. Stays(c)
  BY Zenon, <1>2 DEF Stays
<1>4. ASSUME NEW l \in {"loop", "acquire", "scan"}, Goto(Sched(c), l), SameThread(c), UNCHANGED <<table, np, left>>
      PROVE  WakeInv'
  <2>1. l \in Labels \ (Switches \cup {"copy", "publish"}) /\ l \notin Handlers /\ Top(Cur(c)) # "user"
    BY Zenon, <1>1 DEF Labels, Switches, Handlers
  <2>2. Elsewhere(c) /\ Top(stack'[cpu[c].on]) = l
    BY Zenon, <1>1, <1>2, <1>4, <2>1, GotoKeeps DEF SameThread
  <2>3. Calm(c)
    BY Zenon, <1>1, <1>4, <2>2 DEF Calm, Cur, SameThread
  <2> QED
    BY Zenon, <1>3, <1>4, <2>2, <2>3, Frame, PlainStep
<1>5. CASE loop(c)
  <2>1. SameThread(c)
    BY Zenon, <1>1, <1>5, OnStays DEF loop
  <2> QED
    BY Zenon, <1>4, <1>5, <2>1 DEF loop, local
<1>6. CASE acquire(c)
  <2>1. SameThread(c)
    BY Zenon, <1>1, <1>6, OnStays DEF acquire
  <2> QED
    BY Zenon, <1>4, <1>6, <2>1 DEF acquire, local
<1> DEFINE R == {p \in Procs : p > cpu[c].cursor /\ state[p] = "RUNNABLE"}
           q == Min(R)
<1>7. CASE scan(c) /\ R = {}
  <2>1. cpu' = [cpu EXCEPT ![c] = [popcli(cpu[c]) EXCEPT !.proc = NULL]] /\ Goto(Sched(c), "loop")
        /\ UNCHANGED <<table, np, left>>
    BY Zenon, <1>7 DEF scan, table, local
  <2>2. SameThread(c)
    BY Zenon, <1>1, <2>1, OnStays
  <2> QED
    BY Zenon, <1>4, <2>1, <2>2
<1>8. CASE scan(c) /\ R # {}
  <2>1. /\ cpu' = [cpu EXCEPT ![c].on = q, ![c].proc = q, ![c].cursor = q] /\ state' = [state EXCEPT ![q] = "RUNNING"]
        /\ UNCHANGED <<stack, chan, parent, killed, np, left>>
    BY Zenon, <1>8 DEF scan, local
  <2>2. q \in Procs /\ state[q] = "RUNNABLE"
    BY Zenon, <1>8, Least
  <2> HIDE DEF R, q
  <2>3. state'[q] = "RUNNING" /\ \A t \in Procs : t # q => state'[t] = state[t]
    BY Zenon, <1>1, <2>1, <2>2 DEF RunInv, TypeOK
  <2>4. Lives /\ Undisturbed(c)
    BY Zenon, <2>1, <2>2, <2>3 DEF Lives, Alive, Undisturbed
  <2>5. Elsewhere(c) /\ cpu'[c].on = q
    <3>1. cpu[c] \in Cpu /\ DOMAIN cpu = CPUs
      BY Zenon, <1>1, Here DEF RunInv, TypeOK
    <3> QED
      BY Zenon, <2>1, <3>1 DEF Elsewhere, Cpu
  <2>6. Top(stack[q]) # "go to sleep"
    <3>1. ProcRight(q)
      BY Zenon, <1>1, <2>2 DEF RunInv, ProcInv
    <3> QED
      BY Zenon, <2>2, <3>1 DEF ProcRight, StateOn, StateOff
  <2>7. Calm(c)
    BY Zenon, <1>1, <2>1, <2>5, <2>6 DEF Calm, Cur
  <2> QED
    BY Zenon, <1>3, <2>4, <2>5, <2>7, PlainStep
<1> QED
  BY Zenon, <1>5, <1>6, <1>7, <1>8

\* The switches.
LEMMA SchedWake ==
  ASSUME IInv, NEW c \in CPUs, sched(c)
  PROVE  WakeInv'
<1> DEFINE p == cpu[c].on
           s == <<"swtch">> \o Tail(Cur(c))
<1>1. RunInv /\ Top(Cur(c)) = "sched"
  BY Zenon, Here DEF IInv, sched, Labels
<1>2. p \in Procs /\ stack[Sched(c)] = <<"scan">> /\ Sched(c) # p /\ Sched(c) \in Threads
  BY Zenon, <1>1, InProcess, Apart DEF RunInv, CpuInv, Placed
<1>3. Top(s) = "swtch" /\ Tail(s) = Tail(Cur(c))
  <2>1. "swtch" \in Labels /\ Top(Cur(c)) # "user"
    BY Zenon, <1>1 DEF Labels
  <2> QED
    BY Zenon, <1>1, <2>1, Going
<1>4. stack' = [stack EXCEPT ![p] = s] /\ cpu' = [cpu EXCEPT ![c].on = Sched(c)] /\ UNCHANGED <<table, np, left>>
  BY Zenon DEF sched, Goto, Rest, Cur
<1> HIDE DEF s
<1>5. cpu'[c].on = Sched(c) /\ \A d \in CPUs : d # c => cpu'[d] = cpu[d]
  <2>1. cpu[c] \in Cpu /\ DOMAIN cpu = CPUs
    BY Zenon, <1>1, Here DEF RunInv, TypeOK
  <2> QED
    BY Zenon, <1>4, <2>1 DEF Cpu
<1>6. Elsewhere(c) /\ stack'[p] = s
  BY Zenon, <1>1, <1>4, <1>5, OwnElsewhere
<1>7. Stays(c)
  BY Zenon, <1>1, <1>3, <1>6 DEF Stays, Doing, Cur, Handlers, Switches
<1>8. Calm(c)
  <2>1. stack'[Sched(c)] = <<"scan">>
    BY Zenon, <1>1, <1>2, <1>4 DEF RunInv, TypeOK, Threads
  <2>2. Top(<<"scan">>) = "scan"
    BY Zenon, Singles DEF Labels
  <2> QED
    BY Zenon, <1>1, <1>5, <2>1, <2>2 DEF Calm, Cur
<1> QED
  BY Zenon, <1>4, <1>6, <1>7, <1>8, Frame, PlainStep

LEMMA BackWake ==
  ASSUME IInv, NEW c \in CPUs, swtch(c) \/ forkret(c)
  PROVE  WakeInv'
<1>1. RunInv /\ Top(Cur(c)) \in {"swtch", "forkret"}
  BY Zenon, Here DEF IInv, swtch, forkret, Labels
<1>2. cpu[c].on \in Procs
  BY Zenon, <1>1, InProcess
<1>3. SameThread(c) /\ Return(cpu[c].on) /\ UNCHANGED <<table, np, left>>
  BY Zenon, <1>1, OnStays DEF swtch, forkret, local
<1>4. Elsewhere(c) /\ Stays(c) /\ Top(stack'[cpu[c].on]) # "go to sleep"
  BY Zenon, <1>1, <1>2, <1>3, ReturnKeeps DEF SameThread
<1>5. Calm(c)
  BY Zenon, <1>1, <1>3, <1>4 DEF Calm, Cur, SameThread
<1> QED
  BY Zenon, <1>3, <1>4, <1>5, Frame, PlainStep

\* A thread goes on at another label, or returns, and the table stays as it is.
LEMMA GotoWake ==
  ASSUME IInv, NEW c \in CPUs, NEW l \in {"yielded", "iret", "exit", "scan children", "check"},
         Top(Cur(c)) \notin {"user", "wake"}, l \in Handlers => Top(Cur(c)) \in Handlers,
         Goto(cpu[c].on, l), SameThread(c), UNCHANGED <<table, np, left>>
  PROVE  WakeInv'
<1>1. RunInv /\ l \in Labels \ (Switches \cup {"copy", "publish"})
  BY Zenon DEF IInv, Labels, Switches
<1>2. Elsewhere(c) /\ Stays(c) /\ Top(stack'[cpu[c].on]) = l
  BY Zenon, <1>1, GotoKeeps DEF SameThread
<1>3. Calm(c)
  BY Zenon, <1>2 DEF Calm, Cur, SameThread
<1> QED
  BY Zenon, <1>2, <1>3, Frame, PlainStep

LEMMA ReturnWake ==
  ASSUME IInv, NEW c \in CPUs, Top(Cur(c)) \in {"ticked", "iret", "sysret"}, Iret(c), UNCHANGED <<table, np, left>>
  PROVE  WakeInv'
<1>1. RunInv /\ SameThread(c) /\ Return(cpu[c].on)
  BY Zenon, OnStays DEF IInv, Iret
<1>2. CASE cpu[c].on \in Procs
  <2>1. Elsewhere(c) /\ Stays(c) /\ Top(stack'[cpu[c].on]) # "go to sleep"
    BY Zenon, <1>1, <1>2, ReturnKeeps DEF SameThread
  <2>2. Calm(c)
    BY Zenon, <1>1, <2>1 DEF Calm, Cur, SameThread
  <2> QED
    BY Zenon, <2>1, <2>2, Frame, PlainStep
<1>3. CASE cpu[c].on \notin Procs
  <2>1. stack' = [stack EXCEPT ![cpu[c].on] = Tail(Cur(c))]
    BY Zenon, <1>1 DEF Return, Rest, Cur
  <2>2. Elsewhere(c) /\ stack'[cpu[c].on] = Tail(Cur(c)) /\ Stays(c)
    BY Zenon, <1>1, <1>3, <2>1, OwnElsewhere DEF SameThread, Stays
  <2>3. Tail(Cur(c)) \in {<<"loop">>, <<"acquire">>}
    BY Zenon, <1>1, <1>3 DEF RunInv, CpuInv, Placed, SchedFits, Cur
  <2>4. Top(<<"loop">>) = "loop" /\ Top(<<"acquire">>) = "acquire"
    BY Zenon, Singles DEF Labels
  <2>5. Calm(c)
    BY Zenon, <1>1, <2>2, <2>3, <2>4 DEF Calm, Cur, SameThread
  <2> QED
    BY Zenon, <2>2, <2>5, Frame, PlainStep
<1> QED
  BY Zenon, <1>2, <1>3

LEMMA LeaveWake ==
  ASSUME IInv, NEW c \in CPUs, yielded(c) \/ iret(c) \/ sysret(c) \/ wait(c) \/ relock(c)
  PROVE  WakeInv'
<1>1. RunInv
  BY Zenon DEF IInv
<1>2. UNCHANGED <<table, np, left>>
  BY Zenon DEF yielded, iret, sysret, wait, relock, local
<1>3. CASE yielded(c)
  <2>1. Top(Cur(c)) = "yielded" /\ SameThread(c) /\ Goto(cpu[c].on, "iret")
    BY Zenon, <1>1, <1>3, Here, OnStays DEF yielded, Labels
  <2>2. "yielded" \in Handlers
    BY Zenon DEF Handlers
  <2> QED
    BY Zenon, <1>2, <2>1, <2>2, GotoWake
<1>4. CASE iret(c) \/ sysret(c)
  <2>1. Top(Cur(c)) \in {"iret", "sysret"}
    BY Zenon, <1>1, <1>4, Here DEF iret, sysret, Labels
  <2>2. CASE Iret(c)
    BY Zenon, <1>2, <2>1, <2>2, ReturnWake
  <2>3. CASE Goto(cpu[c].on, "exit") /\ UNCHANGED cpu
    <3>1. SameThread(c) /\ "exit" \notin Handlers
      BY Zenon, <1>1, <2>3, OnStays DEF Handlers
    <3> QED
      BY Zenon, <1>2, <2>1, <2>3, <3>1, GotoWake
  <2> QED
    BY Zenon, <1>4, <2>2, <2>3 DEF iret, sysret
<1>5. CASE wait(c)
  <2>1. Top(Cur(c)) = "wait" /\ SameThread(c) /\ Goto(cpu[c].on, "scan children")
    BY Zenon, <1>1, <1>5, Here, OnStays DEF wait, Labels
  <2>2. "scan children" \notin Handlers
    BY Zenon DEF Handlers
  <2> QED
    BY Zenon, <1>2, <2>1, <2>2, GotoWake
<1>6. CASE relock(c)
  <2>1. Top(Cur(c)) = "lock again" /\ SameThread(c) /\ Goto(cpu[c].on, "check")
    BY Zenon, <1>1, <1>6, Here, OnStays DEF relock, Labels
  <2>2. "check" \notin Handlers
    BY Zenon DEF Handlers
  <2> QED
    BY Zenon, <1>2, <2>1, <2>2, GotoWake
<1> QED
  BY Zenon, <1>3, <1>4, <1>5, <1>6

\* The ways into the kernel.
LEMMA EntryWake ==
  ASSUME IInv, NEW c \in CPUs, Timer(c) \/ fault(c) \/ syscall(c)
  PROVE  WakeInv'
<1> DEFINE p == cpu[c].on
<1>1. RunInv /\ Cur(c) \in Seq(Labels)
  BY Zenon, Here DEF IInv
<1>2. SameThread(c)
  BY Zenon, <1>1, OnStays DEF Timer, fault, syscall
<1>3. ASSUME NEW s, stack' = [stack EXCEPT ![p] = s], Top(s) # "go to sleep", Top(Cur(c)) # "wake",
             Doing(s) = Doing(Cur(c)) \/ Doing(s) \notin {"copy", "publish"}
      PROVE  Elsewhere(c) /\ Stays(c) /\ Calm(c)
  <2>1. Elsewhere(c) /\ stack'[p] = s
    BY Zenon, <1>1, <1>2, <1>3, OwnElsewhere DEF SameThread
  <2> QED
    BY Zenon, <1>2, <1>3, <2>1 DEF Stays, Calm, Cur, SameThread
<1>4. CASE Timer(c)
  <2> DEFINE l == IF c = Bsp THEN "timer" ELSE "ticked"
             s == <<l>> \o Cur(c)
  <2>1. l \in Labels /\ l \in {"timer", "ticked"}
    BY Zenon DEF Labels
  <2>2. Top(s) = l /\ Tail(s) = Cur(c)
    BY Zenon, <1>1, <2>1, Push
  <2>3. Top(Cur(c)) \in {"user", "sysret", "exit", "loop", "acquire"} \cup OpenCalls
    BY Zenon, <1>1, <1>4, Ready DEF Timer, Ints, Flags
  <2>4. stack' = [stack EXCEPT ![p] = s] /\ UNCHANGED <<table, np, left>>
    BY Zenon, <1>4 DEF Timer, Cur, local
  <2> HIDE DEF s, l
  <2>5. Doing(s) = Doing(Cur(c)) /\ Top(s) # "go to sleep" /\ Top(Cur(c)) # "wake"
    BY Zenon, <2>1, <2>2, <2>3 DEF Doing, Handlers, Switches, OpenCalls
  <2> QED
    BY Zenon, <1>3, <2>4, <2>5, Frame, PlainStep
<1>5. CASE fault(c) \/ syscall(c)
  <2>1. p \in Procs /\ stack[p] = <<>> /\ Top(Cur(c)) = "user"
    BY Zenon, <1>5 DEF fault, syscall, Top, Cur
  <2>2. state[p] = "RUNNING"
    BY Zenon, <1>1, <2>1, InProcess DEF StateOn
  <2>3. PICK s : /\ stack' = [stack EXCEPT ![p] = s]
                 /\ Top(s) \in {"exit"} \cup {"fork", "wait", "exit", "kill", "sleep"}
    <3>1. CASE stack' = [stack EXCEPT ![p] = <<"exit">>]
      BY Zenon, <3>1, Singles DEF Labels
    <3>2. CASE syscall(c) /\ stack' # [stack EXCEPT ![p] = <<"exit">>]
      <4>1. PICK call \in Programs[p] : stack' = [stack EXCEPT ![p] = <<call, "sysret">>]
        BY Zenon, <3>2 DEF syscall
      <4>2. call \in {"fork", "wait", "exit", "kill", "sleep"}
        BY Zenon, <2>1, ProcAssumption DEF Procs
      <4>3. call \in Labels /\ "sysret" \in Labels
        BY Zenon, <4>2 DEF Labels
      <4>4. Top(<<call, "sysret">>) = call
        BY Zenon, <4>3, Pairs
      <4> QED
        BY Zenon, <4>1, <4>2, <4>4
    <3> QED
      BY Zenon, <1>5, <3>1, <3>2 DEF fault
  <2>4. Doing(s) \notin {"copy", "publish"} /\ Top(s) # "go to sleep"
    BY Zenon, <2>3 DEF Doing, Handlers, Switches
  <2>5. Elsewhere(c) /\ Stays(c) /\ Calm(c)
    BY Zenon, <1>3, <2>1, <2>3, <2>4
  <2>6. CASE syscall(c)
    <3>1. UNCHANGED <<table, np, left>>
      BY Zenon, <2>6 DEF syscall, local
    <3> QED
      BY Zenon, <2>5, <3>1, Frame, PlainStep
  <2>7. CASE fault(c)
    <3>1. /\ p # initproc /\ killed' = [killed EXCEPT ![p] = TRUE]
          /\ UNCHANGED <<state, chan, parent, np, left>> /\ DOMAIN killed = Procs
      BY Zenon, <1>1, <2>7 DEF fault, local, RunInv, TypeOK
    <3>2. \A q \in Procs : q # p => killed'[q] = killed[q]
      BY Zenon, <3>1
    <3>3. Lives /\ Undisturbed(c)
      BY Zenon, <2>2, <3>1, <3>2, Apart DEF Lives, Undisturbed
    <3> QED
      BY Zenon, <2>5, <3>3, PlainStep
  <2> QED
    BY Zenon, <1>5, <2>6, <2>7
<1> QED
  BY Zenon, <1>4, <1>5

LEMMA TickedWake ==
  ASSUME IInv, NEW c \in CPUs, ticked(c)
  PROVE  WakeInv'
<1>1. RunInv /\ Top(Cur(c)) = "ticked" /\ "ticked" \in Handlers
  BY Zenon, Here DEF IInv, ticked, Labels, Handlers
<1>2. cpu[c].proc # NULL => cpu[c].on \in Procs /\ cpu[c].proc = cpu[c].on
  BY Zenon, <1>1, InProcess DEF RunInv, CpuInv, Placed
<1>3. UNCHANGED <<chan, parent, killed, named, np, left>>
  BY Zenon DEF ticked, local
<1>4. CASE Iret(c) /\ UNCHANGED state
  BY Zenon, <1>1, <1>3, <1>4, ReturnWake DEF table
<1>5. CASE cpu[c].proc # NULL /\ Goto(cpu[c].proc, "exit") /\ UNCHANGED <<state, cpu>>
  <2>1. SameThread(c) /\ Goto(cpu[c].on, "exit") /\ "exit" \notin Handlers /\ UNCHANGED <<table, np, left>>
    BY Zenon, <1>1, <1>2, <1>3, <1>5, OnStays DEF Handlers, table
  <2> QED
    BY Zenon, <1>1, <2>1, GotoWake
<1>6. CASE /\ cpu[c].proc # NULL /\ AcquirePt(c) /\ state[cpu[c].proc] = "RUNNING"
           /\ state' = [state EXCEPT ![cpu[c].proc] = "RUNNABLE"] /\ EnterSched(cpu[c].proc, "yielded")
  <2>1. SameThread(c) /\ EnterSched(cpu[c].on, "yielded") /\ "yielded" \in Labels
    BY Zenon, <1>1, <1>2, <1>6, OnStays DEF Labels
  <2>2. Elsewhere(c) /\ Stays(c) /\ Top(stack'[cpu[c].on]) = "sched"
    BY Zenon, <1>1, <2>1, EnterKeeps DEF SameThread
  <2>3. Calm(c)
    BY Zenon, <1>1, <2>1, <2>2 DEF Calm, Cur, SameThread
  <2>4. state'[cpu[c].on] = "RUNNABLE" /\ \A q \in Procs : q # cpu[c].on => state'[q] = state[q]
    BY Zenon, <1>1, <1>2, <1>6 DEF RunInv, TypeOK
  <2>5. Lives /\ Undisturbed(c)
    BY Zenon, <1>2, <1>3, <1>6, <2>4 DEF Lives, Alive, Undisturbed
  <2> QED
    BY Zenon, <2>2, <2>3, <2>5, PlainStep
<1> QED
  BY Zenon, <1>4, <1>5, <1>6 DEF ticked

\* The tick: it counts down the sleepers' times, and the processor is at "wake"; then it
\* wakes every sleeper.
LEMMA TimerWake ==
  ASSUME IInv, NEW c \in CPUs, timer(c)
  PROVE  WakeInv'
<1>1. RunInv /\ Top(Cur(c)) = "timer" /\ "timer" \in Handlers
  BY Zenon, Here DEF IInv, timer, Labels, Handlers
<1>2. SameThread(c) /\ Goto(cpu[c].on, "wake") /\ "wake" \in Labels \ (Switches \cup {"copy", "publish"})
  BY Zenon, <1>1, OnStays DEF timer, Labels, Switches
<1>3. Elsewhere(c) /\ Stays(c) /\ Top(stack'[cpu[c].on]) = "wake"
  BY Zenon, <1>1, <1>2, GotoKeeps DEF SameThread
<1>4. UNCHANGED <<state, chan, parent, killed, np>>
  BY Zenon DEF timer, table
<1>5. Lives
  BY Zenon, <1>4 DEF Lives
<1>6. ForkInv' /\ ParentInv'
  BY Zenon, <1>3, <1>4, <1>5, ForkKeeps, Embryos, ParentKeeps DEF IInv, WakeInv
<1>7. WaitInv'
  BY Zenon, <1>4, Sleepers, WaitKeeps DEF IInv, WakeInv
<1>8. Top(Cur(c)') = "wake"
  BY Zenon, <1>2, <1>3 DEF Cur, SameThread
<1>9. TickInv'
  BY Zenon, <1>8 DEF TickInv
<1>10. NapInv'
  <2>1. SUFFICES ASSUME NEW d \in CPUs, Top(Cur(d)') = "go to sleep" PROVE FALSE
    BY Zenon DEF NapInv
  <2>2. d # c
    BY Zenon, <1>8, <2>1
  <2>3. Top(Cur(d)) = "go to sleep"
    BY Zenon, <1>1, <1>3, <2>1, <2>2, OthersStay
  <2>4. tickslock = d
    BY Zenon, <1>1, <2>3, Ready DEF TicksHeld
  <2> QED
    BY Zenon, <2>4, Apart DEF timer, AcquireTicks
<1> QED
  BY Zenon, <1>6, <1>7, <1>9, <1>10 DEF WakeInv, SleepInv, WaitInv, TickInv, NapInv

LEMMA WakeWake ==
  ASSUME IInv, NEW c \in CPUs, wake(c)
  PROVE  WakeInv'
<1>1. RunInv /\ Top(Cur(c)) = "wake" /\ "wake" \in Handlers
  BY Zenon, Here DEF IInv, wake, Labels, Handlers
<1>2. SameThread(c) /\ Goto(cpu[c].on, "ticked") /\ "ticked" \in Labels \ (Switches \cup {"copy", "publish"})
  BY Zenon, <1>1, OnStays DEF wake, Labels, Switches
<1>3. Elsewhere(c) /\ Stays(c) /\ Top(stack'[cpu[c].on]) = "ticked"
  BY Zenon, <1>1, <1>2, GotoKeeps DEF SameThread
<1>4. state' = wakeup1(state, Ticks) /\ UNCHANGED <<chan, parent, killed, np, left>>
  BY Zenon DEF wake, local
<1>5. \A q \in Procs : state'[q] = state[q] \/ (state[q] = "SLEEPING" /\ state'[q] = "RUNNABLE")
  BY Zenon, <1>4 DEF wakeup1
<1>6. \A q \in Procs : ~(state'[q] = "SLEEPING" /\ chan'[q] = Ticks)
  BY Zenon, <1>4 DEF wakeup1
<1>7. Lives
  BY Zenon, <1>5 DEF Lives, Alive
<1>8. ForkInv' /\ ParentInv'
  BY Zenon, <1>3, <1>4, <1>7, ForkKeeps, Embryos, ParentKeeps DEF IInv, WakeInv
<1>9. WaitInv'
  <2>1. \A q \in Procs : (state'[q] = "SLEEPING" => state[q] = "SLEEPING") /\ (state'[q] = "ZOMBIE" => state[q] = "ZOMBIE")
    BY Zenon, <1>5
  <2> QED
    BY Zenon, <1>4, <2>1, Sleepers, WaitKeeps DEF IInv, WakeInv
<1>10. TickInv'
  BY Zenon, <1>6 DEF TickInv
<1>11. NapInv'
  <2>1. Top(Cur(c)') # "go to sleep"
    BY Zenon, <1>2, <1>3 DEF Cur, SameThread
  <2> QED
    BY Zenon, <1>1, <1>3, <1>4, <2>1, Sleepers, NapKeeps DEF IInv, WakeInv
<1> QED
  BY Zenon, <1>8, <1>9, <1>10, <1>11 DEF WakeInv, SleepInv, WaitInv, TickInv, NapInv

LEMMA KillWake ==
  ASSUME IInv, NEW c \in CPUs, kill(c)
  PROVE  WakeInv'
<1>1. RunInv /\ Top(Cur(c)) = "kill"
  BY Zenon, Here DEF IInv, kill, Labels
<1>2. cpu[c].on \in Procs
  BY Zenon, <1>1, InProcess
<1>3. SameThread(c) /\ Return(cpu[c].on) /\ UNCHANGED <<chan, parent, np, left>>
  BY Zenon, <1>1, OnStays DEF kill, local
<1>4. Elsewhere(c) /\ Stays(c) /\ Top(stack'[cpu[c].on]) # "go to sleep"
  BY Zenon, <1>1, <1>2, <1>3, ReturnKeeps DEF SameThread
<1>5. Calm(c)
  BY Zenon, <1>1, <1>3, <1>4 DEF Calm, Cur, SameThread
<1>6. ASSUME NEW q \in Addressed \cap KillTargets,
             killed' = [killed EXCEPT ![q] = TRUE],
             state' = [state EXCEPT ![q] = IF state[q] = "SLEEPING" THEN "RUNNABLE" ELSE state[q]]
      PROVE  Lives /\ Undisturbed(c)
  <2>1. q \in 2 .. NPROC
    BY Zenon, <1>6, ProcAssumption
  <2>2. q \in Procs /\ q # initproc
    BY <2>1, ProcAssumption DEF Procs, initproc
  <2>3. /\ state'[q] = (IF state[q] = "SLEEPING" THEN "RUNNABLE" ELSE state[q])
        /\ \A t \in Procs : t # q => state'[t] = state[t] /\ killed'[t] = killed[t]
    BY Zenon, <1>1, <1>6, <2>2 DEF RunInv, TypeOK
  <2>4. Lives
    BY Zenon, <2>3 DEF Lives, Alive
  <2> QED
    BY Zenon, <1>3, <2>2, <2>3, <2>4, Apart DEF Undisturbed
<1>7. ASSUME UNCHANGED <<killed, state>> PROVE Lives /\ Undisturbed(c)
  BY Zenon, <1>3, <1>7 DEF Lives, Undisturbed
<1>8. Lives /\ Undisturbed(c)
  BY Zenon, <1>6, <1>7 DEF kill
<1> QED
  BY Zenon, <1>4, <1>5, <1>8, PlainStep

\* The sleep system call outside of the sleep itself.
LEMMA NapWake ==
  ASSUME IInv, NEW c \in CPUs, sleep(c) \/ check(c) \/ slept(c)
  PROVE  WakeInv'
<1> DEFINE p == cpu[c].on
<1>1. RunInv /\ Top(Cur(c)) \in {"sleep", "check", "slept"} /\ UNCHANGED <<state, parent, killed, np>>
  BY Zenon, Here DEF IInv, sleep, check, slept, Labels, table, local
<1>2. p \in Procs /\ state[p] = "RUNNING"
  BY Zenon, <1>1, InProcess DEF StateOn
<1>3. SameThread(c)
  BY Zenon, <1>1, OnStays DEF sleep, check, slept
<1>4. \A q \in Procs : q # p => left'[q] = left[q] /\ chan'[q] = chan[q]
  <2>1. UNCHANGED chan \/ chan' = [chan EXCEPT ![p] = NULL]
    BY Zenon DEF sleep, check, slept, table
  <2>2. UNCHANGED left \/ \E n : left' = [left EXCEPT ![p] = n]
    BY Zenon DEF sleep, check, slept, local
  <2> QED
    BY Zenon, <1>1, <2>1, <2>2 DEF RunInv, TypeOK
<1>5. Lives /\ Undisturbed(c)
  BY Zenon, <1>1, <1>2, <1>4 DEF Lives, Undisturbed
<1>6. ASSUME NEW l \in {"check", "lock again"}, Goto(p, l) PROVE WakeInv'
  <2>1. l \in Labels \ (Switches \cup {"copy", "publish"}) /\ l \notin Handlers /\ Top(Cur(c)) # "user"
    BY Zenon, <1>1 DEF Labels, Switches, Handlers
  <2>2. Elsewhere(c) /\ Stays(c) /\ Top(stack'[p]) = l
    BY Zenon, <1>1, <1>3, <1>6, <2>1, GotoKeeps DEF SameThread
  <2>3. Calm(c)
    BY Zenon, <1>1, <1>3, <2>2 DEF Calm, Cur, SameThread
  <2> QED
    BY Zenon, <1>5, <2>2, <2>3, PlainStep
<1>7. CASE Return(p)
  <2>1. Elsewhere(c) /\ Stays(c) /\ Top(stack'[p]) # "go to sleep"
    BY Zenon, <1>1, <1>2, <1>3, <1>7, ReturnKeeps DEF SameThread
  <2>2. Calm(c)
    BY Zenon, <1>1, <1>3, <2>1 DEF Calm, Cur, SameThread
  <2> QED
    BY Zenon, <1>5, <2>1, <2>2, PlainStep
<1>8. CASE left[p] > 0 /\ Goto(p, "go to sleep") /\ UNCHANGED left
  <2>1. "go to sleep" \in Labels \ (Switches \cup {"copy", "publish"}) /\ "go to sleep" \notin Handlers
    BY Zenon DEF Labels, Switches, Handlers
  <2>2. Elsewhere(c) /\ Stays(c) /\ Top(Cur(c)) # "wake"
    BY Zenon, <1>1, <1>3, <1>8, <2>1, GotoKeeps DEF SameThread
  <2>3. ForkInv' /\ ParentInv'
    BY Zenon, <1>1, <1>5, <2>2, ForkKeeps, Embryos, ParentKeeps DEF IInv, WakeInv
  <2>4. WaitInv' /\ TickInv'
    BY Zenon, <1>1, <1>5, <2>2, Sleepers, WaitKeeps, TickKeeps DEF IInv, WakeInv, Undisturbed
  <2>5. NapInv'
    <3>1. SUFFICES ASSUME NEW d \in CPUs, Top(Cur(d)') = "go to sleep" PROVE left'[cpu'[d].on] > 0
      BY Zenon DEF NapInv
    <3>2. CASE d = c
      BY Zenon, <1>3, <1>8, <3>2 DEF SameThread
    <3>3. CASE d # c
      <4>1. cpu'[d].on = cpu[d].on /\ Cur(d)' = Cur(d)
        BY Zenon, <1>1, <2>2, <3>3, OthersStay
      <4> QED
        BY Zenon, <1>8, <3>1, <4>1, Sleepers DEF NapInv, IInv, WakeInv
    <3> QED
      BY Zenon, <3>2, <3>3
  <2> QED
    BY Zenon, <2>3, <2>4, <2>5 DEF WakeInv, SleepInv, WaitInv, TickInv, NapInv
<1> QED
  BY Zenon, <1>6, <1>7, <1>8 DEF sleep, check, slept

LEMMA GosleepWake ==
  ASSUME IInv, NEW c \in CPUs, gosleep(c)
  PROVE  WakeInv'
<1> DEFINE p == cpu[c].on
<1>1. RunInv /\ Top(Cur(c)) = "go to sleep" /\ ForkInv /\ ParentInv /\ WaitInv /\ TickInv /\ NapInv
  BY Zenon, Here, Sleepers DEF IInv, WakeInv, gosleep, Labels
<1>2. p \in Procs /\ state[p] = "RUNNING" /\ left[p] > 0
  BY Zenon, <1>1, InProcess DEF StateOn, NapInv
<1>3. /\ SameThread(c) /\ EnterSched(p, "slept") /\ "slept" \in Labels /\ UNCHANGED <<parent, killed, np, left>>
      /\ chan' = [chan EXCEPT ![p] = Ticks] /\ state' = [state EXCEPT ![p] = "SLEEPING"]
  BY Zenon, <1>1, OnStays DEF gosleep, Labels, local
<1>4. Elsewhere(c) /\ Stays(c) /\ Top(stack'[p]) = "sched"
  BY Zenon, <1>1, <1>3, EnterKeeps DEF SameThread
<1>5. Top(Cur(c)) # "wake" /\ Top(Cur(c)') # "go to sleep"
  BY Zenon, <1>1, <1>3, <1>4 DEF Cur, SameThread
<1>6. /\ state'[p] = "SLEEPING" /\ chan'[p] = Ticks
      /\ \A q \in Procs : q # p => state'[q] = state[q] /\ chan'[q] = chan[q]
  BY Zenon, <1>1, <1>2, <1>3 DEF RunInv, TypeOK
<1>7. Lives
  BY Zenon, <1>2, <1>6 DEF Lives, Alive
<1>8. ForkInv' /\ ParentInv'
  BY Zenon, <1>1, <1>3, <1>4, <1>7, ForkKeeps, Embryos, ParentKeeps
<1>9. WaitInv'
  <2>1. p # Ticks
    BY Zenon, <1>2, Apart
  <2> QED
    BY Zenon, <1>1, <1>3, <1>6, <2>1, WaitKeeps
<1>10. TickInv' /\ NapInv'
  BY Zenon, <1>1, <1>2, <1>3, <1>4, <1>5, <1>6, TickKeeps, NapKeeps
<1> QED
  BY Zenon, <1>8, <1>9, <1>10 DEF WakeInv, SleepInv, WaitInv, TickInv, NapInv

\* The loop of wait.
LEMMA ReapWake ==
  ASSUME IInv, NEW c \in CPUs, Top(Cur(c)) = "scan children", NEW z \in Procs,
         parent[z] = cpu[c].on, state[z] = "ZOMBIE", Reap(cpu[c].on, z),
         chan' = [chan EXCEPT ![cpu[c].on] = NULL], ReleasePt(c), UNCHANGED <<np, left>>
  PROVE  WakeInv'
<1> DEFINE p == cpu[c].on
<1>1. RunInv /\ ForkInv /\ ParentInv /\ WaitInv /\ TickInv /\ NapInv
  BY Zenon, Sleepers DEF IInv, WakeInv
<1>2. p \in Procs /\ state[p] = "RUNNING" /\ p # z /\ ~OnCpu(z) /\ Fits(p, Cur(c))
  BY Zenon, <1>1, InProcess, ZombieSlot DEF StateOn
<1>3. /\ state'[z] = "UNUSED" /\ parent'[z] = NULL /\ killed'[z] = FALSE
      /\ \A q \in Procs : q # z => state'[q] = state[q] /\ parent'[q] = parent[q] /\ killed'[q] = killed[q]
      /\ \A q \in Procs : q # p => chan'[q] = chan[q]
  BY Zenon, <1>1, <1>2 DEF Reap, RunInv, TypeOK
<1>4. SameThread(c)
  BY Zenon, <1>1, OnStays
<1> DEFINE f == [stack EXCEPT ![p] = Rest(p)]
<1>5. stack' = [f EXCEPT ![z] = <<>>]
  BY Zenon DEF Reap
<1>6. /\ DOMAIN f = Threads /\ f[p] = Rest(p) /\ \A t \in Threads : t # p => f[t] = stack[t]
      /\ p \in Threads /\ z \in Threads
  BY Zenon, <1>1, <1>2 DEF RunInv, TypeOK, Threads
<1> HIDE DEF f
<1>7. stack'[z] = <<>> /\ \A t \in Threads : t # z => stack'[t] = f[t]
  BY Zenon, <1>5, <1>6
<1>8. stack'[p] = <<"sysret">> /\ stack'[z] = <<>> /\ \A t \in Threads : t # p /\ t # z => stack'[t] = stack[t]
  <2>1. Rest(p) = <<"sysret">>
    BY Zenon, <1>2 DEF Fits, Rest, Cur, Calls
  <2> QED
    BY Zenon, <1>2, <1>6, <1>7, <2>1
<1>9. Top(<<>>) = "user" /\ Top(<<"sysret">>) = "sysret" /\ Doing(<<>>) = "user" /\ Doing(<<"sysret">>) = "sysret"
  <2>1. Top(<<>>) = "user" /\ Top(<<"sysret">>) = "sysret"
    BY Zenon, EmptyFits, Singles DEF Labels
  <2> QED
    BY Zenon, <2>1 DEF Doing, Handlers, Switches
<1>10. Elsewhere(c) /\ Stays(c)
  BY Zenon, <1>2, <1>4, <1>8, <1>9 DEF Elsewhere, Stays, SameThread
<1>11. Top(Cur(c)) # "wake" /\ Top(Cur(c)') # "go to sleep"
  BY Zenon, <1>4, <1>8, <1>9 DEF Cur, SameThread
<1>12. ForkInv'
  <2>1. \A q \in Procs : state[q] = "EMBRYO" => q # z
    BY Zenon
  <2>2. ASSUME NEW q \in Procs, Forking(q)'
        PROVE  np'[q] = np[q] /\ (parent[np[q]] = q => parent'[np[q]] = q)
    <3>1. Forking(q)
      <4>1. q # p /\ q # z
        BY Zenon, <1>8, <1>9, <2>2 DEF Forking
      <4> QED
        BY Zenon, <1>8, <2>2, <4>1 DEF Forking, Threads
    <3>2. np[q] \in Procs /\ np[q] # z
      BY Zenon, <1>1, <2>1, <3>1 DEF ForkInv
    <3> QED
      BY Zenon, <1>3, <3>2
  <2> QED
    BY Zenon, <1>1, <1>3, <1>10, <2>1, <2>2, ForkKeeps
<1>13. ParentInv'
  <2>1. z # initproc /\ NULL # z
    BY Zenon, <1>1, Apart DEF ParentInv, Alive
  <2>2. state'[initproc] \in Alive /\ parent'[initproc] = NULL /\ ~killed'[initproc]
    BY Zenon, <1>1, <1>3, <2>1, Apart DEF ParentInv
  <2>3. ASSUME NEW q \in Procs
        PROVE  /\ parent'[q] # q
               /\ q # initproc /\ state'[q] \notin {"UNUSED", "EMBRYO"} =>
                    parent'[q] \in Procs /\ state'[parent'[q]] \in Alive
    <3>1. CASE q = z
      BY Zenon, <1>3, <2>1, <3>1
    <3>2. CASE q # z
      <4>1. q # initproc /\ state'[q] \notin {"UNUSED", "EMBRYO"} => parent[q] \in Procs /\ state[parent[q]] \in Alive
        BY Zenon, <1>1, <1>3, <3>2 DEF ParentInv
      <4>2. state[z] \notin Alive
        BY Zenon DEF Alive
      <4>3. parent'[q] = parent[q] /\ parent[q] # q
        BY Zenon, <1>1, <1>3, <3>2 DEF ParentInv
      <4>4. parent[q] \in Procs /\ state[parent[q]] \in Alive => state'[parent[q]] = state[parent[q]]
        BY Zenon, <1>3, <4>2
      <4> QED
        BY Zenon, <4>1, <4>3, <4>4
    <3> QED
      BY Zenon, <3>1, <3>2
  <2> QED
    BY Zenon, <2>2, <2>3 DEF ParentInv
<1>14. ASSUME NEW q \in Procs, state'[q] = "SLEEPING"
       PROVE  q # p /\ q # z
  BY Zenon, <1>2, <1>3, <1>14
<1>15. WaitInv'
  <2>1. \A q \in Procs : state'[q] = "SLEEPING" /\ chan'[q] = q =>
          state[q] = "SLEEPING" /\ chan[q] = q /\ killed'[q] = killed[q]
    BY Zenon, <1>3, <1>14
  <2>2. \A q \in Procs : state'[q] = "ZOMBIE" => state[q] = "ZOMBIE" /\ parent'[q] = parent[q]
    BY Zenon, <1>3
  <2> QED
    BY Zenon, <1>1, <2>1, <2>2, WaitKeeps
<1>16. TickInv' /\ NapInv'
  <2>1. \A q \in Procs : state'[q] = "SLEEPING" /\ chan'[q] = Ticks =>
          state[q] = "SLEEPING" /\ chan[q] = Ticks /\ left'[q] = left[q]
    BY Zenon, <1>3, <1>14
  <2> QED
    BY Zenon, <1>1, <1>10, <1>11, <2>1, TickKeeps, NapKeeps
<1> QED
  BY Zenon, <1>12, <1>13, <1>15, <1>16 DEF WakeInv, SleepInv, WaitInv, TickInv, NapInv

LEMMA WaitloopWake ==
  ASSUME IInv, NEW c \in CPUs, waitloop(c)
  PROVE  WakeInv'
<1> DEFINE p == cpu[c].on
           kids == {q \in Procs : parent[q] = p}
           Z == {q \in kids : state[q] = "ZOMBIE"}
<1>1. RunInv /\ Top(Cur(c)) = "scan children" /\ ForkInv /\ ParentInv /\ WaitInv /\ TickInv /\ NapInv
  BY Zenon, Here, Sleepers DEF IInv, WakeInv, waitloop, Labels
<1>2. p \in Procs /\ state[p] = "RUNNING" /\ UNCHANGED <<np, left>>
  BY Zenon, <1>1, InProcess DEF StateOn, waitloop, local
<1>3. CASE Z # {} /\ Reap(p, Min(Z)) /\ chan' = [chan EXCEPT ![p] = NULL] /\ ReleasePt(c)
  <2>1. Z \in SUBSET Procs
    BY Zenon
  <2>2. Min(Z) \in Z
    BY Zenon, <1>3, <2>1, Least
  <2> QED
    BY Zenon, <1>1, <1>2, <1>3, <2>2, ReapWake
<1>4. CASE /\ Return(p) /\ chan' = [chan EXCEPT ![p] = NULL] /\ ReleasePt(c)
           /\ UNCHANGED <<state, named, parent, killed>>
  <2>1. SameThread(c) /\ \A q \in Procs : q # p => chan'[q] = chan[q]
    BY Zenon, <1>1, <1>4, OnStays DEF RunInv, TypeOK
  <2>2. Elsewhere(c) /\ Stays(c) /\ Top(stack'[p]) # "go to sleep"
    BY Zenon, <1>1, <1>2, <1>4, <2>1, ReturnKeeps DEF SameThread
  <2>3. Calm(c)
    BY Zenon, <1>1, <2>1, <2>2 DEF Calm, Cur, SameThread
  <2>4. Lives /\ Undisturbed(c)
    BY Zenon, <1>2, <1>4, <2>1 DEF Lives, Undisturbed
  <2> QED
    BY Zenon, <2>2, <2>3, <2>4, PlainStep
<1>5. CASE /\ Z = {} /\ ~killed[p] /\ chan' = [chan EXCEPT ![p] = p] /\ state' = [state EXCEPT ![p] = "SLEEPING"]
           /\ EnterSched(p, "scan children") /\ UNCHANGED <<named, parent, killed, cpu, ptlock>>
  <2>1. SameThread(c) /\ "scan children" \in Labels
    BY Zenon, <1>1, <1>5, OnStays DEF Labels
  <2>2. Elsewhere(c) /\ Stays(c) /\ Top(stack'[p]) = "sched"
    BY Zenon, <1>1, <1>5, <2>1, EnterKeeps DEF SameThread
  <2>3. Top(Cur(c)) # "wake" /\ Top(Cur(c)') # "go to sleep"
    BY Zenon, <1>1, <2>1, <2>2 DEF Cur, SameThread
  <2>4. /\ state'[p] = "SLEEPING" /\ chan'[p] = p
        /\ \A q \in Procs : q # p => state'[q] = state[q] /\ chan'[q] = chan[q]
    BY Zenon, <1>1, <1>2, <1>5 DEF RunInv, TypeOK
  <2>5. Lives
    BY Zenon, <1>2, <2>4 DEF Lives, Alive
  <2>6. ForkInv' /\ ParentInv'
    BY Zenon, <1>1, <1>2, <1>5, <2>2, <2>5, ForkKeeps, Embryos, ParentKeeps
  <2>7. WaitInv'
    <3>1. SUFFICES ASSUME NEW q \in Procs, state'[q] = "SLEEPING", chan'[q] = q
                   PROVE  ~killed'[q] /\ \A t \in Procs : ~(parent'[t] = q /\ state'[t] = "ZOMBIE")
      BY Zenon DEF WaitInv
    <3>2. \A t \in Procs : state'[t] = "ZOMBIE" => state[t] = "ZOMBIE"
      BY Zenon, <2>4
    <3>3. CASE q = p
      <4>1. \A t \in Procs : ~(parent[t] = p /\ state[t] = "ZOMBIE")
        BY Zenon, <1>5
      <4> QED
        BY Zenon, <1>5, <3>2, <3>3, <4>1
    <3>4. CASE q # p
      BY Zenon, <1>1, <1>5, <2>4, <3>1, <3>2, <3>4 DEF WaitInv
    <3> QED
      BY Zenon, <3>3, <3>4
  <2>8. TickInv' /\ NapInv'
    <3>1. p # Ticks
      BY Zenon, <1>2, Apart
    <3> QED
      BY Zenon, <1>1, <1>2, <2>2, <2>3, <2>4, <3>1, TickKeeps, NapKeeps
  <2> QED
    BY Zenon, <2>6, <2>7, <2>8 DEF WakeInv, SleepInv, WaitInv, TickInv, NapInv
<1> QED
  BY Zenon, <1>3, <1>4, <1>5 DEF waitloop

\* exit: the children go to initproc, and the parent is woken.
LEMMA ExitWakes ==
  ASSUME RunInv, NEW p \in Procs, NEW q \in Procs, state[q] = "SLEEPING", WakeParents(p)[q] = "SLEEPING"
  PROVE  /\ chan[q] # parent[p]
         /\ (\E t \in Procs : parent[t] = p /\ state[t] = "ZOMBIE") => chan[q] # initproc
<1> DEFINE s == wakeup1(state, parent[p])
<1>1. s[q] = IF chan[q] = parent[p] THEN "RUNNABLE" ELSE "SLEEPING"
  BY Zenon DEF wakeup1
<1>2. wakeup1(s, initproc)[q] = IF s[q] = "SLEEPING" /\ chan[q] = initproc THEN "RUNNABLE" ELSE s[q]
  BY Zenon DEF wakeup1
<1>3. WakeParents(p) = IF \E t \in Procs : parent[t] = p /\ state[t] = "ZOMBIE" THEN wakeup1(s, initproc) ELSE s
  BY Zenon DEF WakeParents
<1> HIDE DEF s
<1> QED
  BY Zenon, <1>1, <1>2, <1>3

LEMMA ExitWake ==
  ASSUME IInv, NEW c \in CPUs, exit(c)
  PROVE  WakeInv'
<1> DEFINE p == cpu[c].on
<1>1. RunInv /\ Top(Cur(c)) = "exit" /\ ForkInv /\ ParentInv /\ WaitInv /\ TickInv /\ NapInv
  BY Zenon, Here, Sleepers DEF IInv, WakeInv, exit, Labels
<1>2. p \in Procs /\ p # initproc /\ state[p] = "RUNNING"
  BY Zenon, <1>1, InProcess DEF Fits, StateOn
<1>3. /\ SameThread(c) /\ EnterSched(p, "zombie exit") /\ "zombie exit" \in Labels /\ UNCHANGED <<chan, killed, np, left>>
      /\ parent' = PassedToInit(p) /\ state' = [WakeParents(p) EXCEPT ![p] = "ZOMBIE"]
  BY Zenon, <1>1, OnStays DEF exit, Labels, local
<1>4. Elsewhere(c) /\ Stays(c) /\ Top(stack'[p]) = "sched"
  BY Zenon, <1>1, <1>3, EnterKeeps DEF SameThread
<1>5. Top(Cur(c)) # "wake" /\ Top(Cur(c)') # "go to sleep"
  BY Zenon, <1>1, <1>3, <1>4 DEF Cur, SameThread
<1>6. state'[p] = "ZOMBIE" /\ \A q \in Procs : q # p => state'[q] = WakeParents(p)[q]
  BY Zenon, <1>1, <1>2, <1>3, ParentsTyped
<1>7. \A q \in Procs : q # p => state'[q] = state[q] \/ (state[q] = "SLEEPING" /\ state'[q] = "RUNNABLE")
  BY Zenon, <1>1, <1>2, <1>6, WakesParents
<1>8. \A q \in Procs : parent'[q] = IF parent[q] = p THEN initproc ELSE parent[q]
  BY Zenon, <1>3 DEF PassedToInit
<1>9. ForkInv'
  <2>1. \A q \in Procs : state[q] = "EMBRYO" => state'[q] = "EMBRYO"
    BY Zenon, <1>2, <1>7
  <2>2. ASSUME NEW q \in Procs, Forking(q)'
        PROVE  np'[q] = np[q] /\ (parent[np[q]] = q => parent'[np[q]] = q)
    <3>1. q # p
      <4>1. Doing(stack[p]) = "exit"
        BY Zenon, <1>1 DEF Doing, Cur, Handlers, Switches
      <4> QED
        BY Zenon, <1>2, <1>4, <2>2, <4>1 DEF Stays, Forking
    <3>2. Forking(q)
      BY Zenon, <1>4, <2>2, <3>1 DEF Elsewhere, Forking, Threads
    <3>3. np[q] \in Procs
      BY Zenon, <1>1, <3>2 DEF ForkInv
    <3> QED
      BY Zenon, <1>3, <1>8, <3>1, <3>3
  <2> QED
    BY Zenon, <1>1, <1>4, <2>1, <2>2, ForkKeeps
<1>10. \A q \in Procs : q # p /\ state[q] \in Alive => state'[q] \in Alive
  BY Zenon, <1>7 DEF Alive
<1>11. ParentInv'
  <2>1. state'[initproc] \in Alive /\ parent'[initproc] = NULL /\ ~killed'[initproc]
    BY Zenon, <1>1, <1>2, <1>3, <1>8, <1>10, Apart DEF ParentInv
  <2>2. ASSUME NEW q \in Procs
        PROVE  /\ parent'[q] # q
               /\ q # initproc /\ state'[q] \notin {"UNUSED", "EMBRYO"} =>
                    parent'[q] \in Procs /\ state'[parent'[q]] \in Alive
    <3>1. CASE parent[q] = p
      <4>1. parent'[q] = initproc /\ q # initproc
        BY Zenon, <1>1, <1>2, <1>8, <3>1, Apart DEF ParentInv
      <4> QED
        BY Zenon, <2>1, <4>1, Apart
    <3>2. CASE parent[q] # p
      <4>1. parent'[q] = parent[q] /\ parent[q] # q
        BY Zenon, <1>1, <1>8, <3>2 DEF ParentInv
      <4>2. state'[q] \notin {"UNUSED", "EMBRYO"} => state[q] \notin {"UNUSED", "EMBRYO"}
        BY Zenon, <1>2, <1>7
      <4>3. q # initproc /\ state'[q] \notin {"UNUSED", "EMBRYO"} => parent[q] \in Procs /\ state[parent[q]] \in Alive
        BY Zenon, <1>1, <4>2 DEF ParentInv
      <4> QED
        BY Zenon, <1>10, <3>2, <4>1, <4>3
    <3> QED
      BY Zenon, <3>1, <3>2
  <2> QED
    BY Zenon, <2>1, <2>2 DEF ParentInv
<1>12. ASSUME NEW q \in Procs, state'[q] = "SLEEPING"
       PROVE  q # p /\ state[q] = "SLEEPING" /\ WakeParents(p)[q] = "SLEEPING"
  BY Zenon, <1>6, <1>7, <1>12
<1>13. WaitInv'
  <2>1. SUFFICES ASSUME NEW q \in Procs, state'[q] = "SLEEPING", chan'[q] = q
                 PROVE  ~killed'[q] /\ \A t \in Procs : ~(parent'[t] = q /\ state'[t] = "ZOMBIE")
    BY Zenon DEF WaitInv
  <2>2. /\ state[q] = "SLEEPING" /\ chan[q] = q /\ q # p /\ q # parent[p]
        /\ (\E t \in Procs : parent[t] = p /\ state[t] = "ZOMBIE") => q # initproc
    BY Zenon, <1>1, <1>2, <1>3, <1>12, <2>1, ExitWakes
  <2>3. ~killed[q] /\ \A t \in Procs : ~(parent[t] = q /\ state[t] = "ZOMBIE")
    BY Zenon, <1>1, <2>2 DEF WaitInv
  <2>4. ASSUME NEW t \in Procs, parent'[t] = q, state'[t] = "ZOMBIE" PROVE FALSE
    <3>1. CASE t = p
      BY Zenon, <1>1, <1>2, <1>8, <2>2, <2>4, <3>1 DEF ParentInv
    <3>2. CASE t # p
      <4>1. state[t] = "ZOMBIE"
        BY Zenon, <1>7, <2>4, <3>2
      <4> QED
        BY Zenon, <1>8, <2>2, <2>3, <2>4, <4>1
    <3> QED
      BY Zenon, <3>1, <3>2
  <2> QED
    BY Zenon, <1>3, <2>3, <2>4
<1>14. TickInv' /\ NapInv'
  BY Zenon, <1>1, <1>3, <1>4, <1>5, <1>12, TickKeeps, NapKeeps
<1> QED
  BY Zenon, <1>9, <1>11, <1>13, <1>14 DEF WakeInv, SleepInv, WaitInv, TickInv, NapInv

\* The steps of fork change slot q alone, which is no other process's.
LEMMA ForkStep ==
  ASSUME IInv, NEW c \in CPUs, cpu[c].on \in Procs, Elsewhere(c), Calm(c), UNCHANGED <<chan, killed, left>>,
         NEW q \in Procs, q # cpu[c].on, state[q] \in {"UNUSED", "EMBRYO"}, state'[q] \in {"UNUSED", "EMBRYO", "RUNNABLE"},
         \A t \in Procs : t # q => state'[t] = state[t] /\ parent'[t] = parent[t],
         \A t \in Procs : t # cpu[c].on => np'[t] = np[t] /\ (Forking(t) => np[t] # q),
         Doing(stack'[cpu[c].on]) \in {"copy", "publish"} =>
           /\ np'[cpu[c].on] = q /\ state'[q] = "EMBRYO"
           /\ Doing(stack'[cpu[c].on]) = "publish" => parent'[q] = cpu[c].on,
         parent'[q] # q, state'[q] = "RUNNABLE" => parent'[q] = cpu[c].on /\ state[cpu[c].on] \in Alive
  PROVE  WakeInv'
<1> DEFINE p == cpu[c].on
<1>1. RunInv /\ ForkInv /\ ParentInv /\ WaitInv /\ TickInv /\ NapInv
  BY Zenon, Sleepers DEF IInv, WakeInv
<1>2. ASSUME NEW t \in Procs, t # p, Forking(t)'
      PROVE  /\ Forking(t) /\ np'[t] = np[t] /\ np[t] \in Procs /\ np[t] # q /\ state'[np[t]] = "EMBRYO"
             /\ Doing(stack'[t]) = "publish" => parent'[np[t]] = t
  <2>1. Forking(t) /\ Doing(stack'[t]) = Doing(stack[t])
    BY Zenon, <1>2 DEF Elsewhere, Forking, Threads
  <2>2. np[t] \in Procs /\ state[np[t]] = "EMBRYO" /\ (Doing(stack[t]) = "publish" => parent[np[t]] = t)
    BY Zenon, <1>1, <2>1 DEF ForkInv
  <2>3. np'[t] = np[t] /\ np[t] # q
    BY Zenon, <1>2, <2>1
  <2> QED
    BY Zenon, <2>1, <2>2, <2>3
<1>3. ForkInv'
  <2>1. ASSUME NEW t \in Procs, Forking(t)'
        PROVE  /\ np'[t] \in Procs /\ state'[np'[t]] = "EMBRYO"
               /\ Doing(stack'[t]) = "publish" => parent'[np'[t]] = t
    <3>1. CASE t = p
      BY Zenon, <2>1, <3>1 DEF Forking
    <3>2. CASE t # p
      BY Zenon, <1>2, <2>1, <3>2
    <3> QED
      BY Zenon, <3>1, <3>2
  <2>2. ASSUME NEW t \in Procs, NEW u \in Procs, Forking(t)', Forking(u)', np'[t] = np'[u]
        PROVE  t = u
    <3>1. CASE t # p /\ u # p
      BY Zenon, <1>1, <1>2, <2>2, <3>1 DEF ForkInv
    <3>2. CASE t = p /\ u # p
      <4>1. np'[t] = q /\ np'[u] # q
        BY Zenon, <1>2, <2>2, <3>2 DEF Forking
      <4> QED
        BY Zenon, <2>2, <4>1
    <3>3. CASE t # p /\ u = p
      <4>1. np'[u] = q /\ np'[t] # q
        BY Zenon, <1>2, <2>2, <3>3 DEF Forking
      <4> QED
        BY Zenon, <2>2, <4>1
    <3> QED
      BY Zenon, <3>1, <3>2, <3>3
  <2> QED
    BY Zenon, <2>1, <2>2 DEF ForkInv
<1>4. state[q] \notin Alive
  BY Zenon DEF Alive
<1>5. ParentInv'
  <2>1. q # initproc
    BY Zenon, <1>1, <1>4 DEF ParentInv
  <2>2. state'[initproc] \in Alive /\ parent'[initproc] = NULL /\ ~killed'[initproc]
    BY Zenon, <1>1, <2>1, Apart DEF ParentInv
  <2>3. ASSUME NEW t \in Procs
        PROVE  /\ parent'[t] # t
               /\ t # initproc /\ state'[t] \notin {"UNUSED", "EMBRYO"} =>
                    parent'[t] \in Procs /\ state'[parent'[t]] \in Alive
    <3>1. CASE t = q
      BY Zenon, <3>1
    <3>2. CASE t # q
      <4>1. state'[t] = state[t] /\ parent'[t] = parent[t] /\ parent[t] # t
        BY Zenon, <1>1, <3>2 DEF ParentInv
      <4>2. t # initproc /\ state'[t] \notin {"UNUSED", "EMBRYO"} => parent[t] \in Procs /\ state[parent[t]] \in Alive
        BY Zenon, <1>1, <4>1 DEF ParentInv
      <4>3. parent[t] \in Procs /\ state[parent[t]] \in Alive => state'[parent[t]] = state[parent[t]]
        BY Zenon, <1>4
      <4> QED
        BY Zenon, <4>1, <4>2, <4>3
    <3> QED
      BY Zenon, <3>1, <3>2
  <2> QED
    BY Zenon, <2>2, <2>3 DEF ParentInv
<1>6. \A t \in Procs : state'[t] \in {"SLEEPING", "ZOMBIE"} => t # q /\ state'[t] = state[t] /\ parent'[t] = parent[t]
  BY Zenon
<1>7. WaitInv'
  BY Zenon, <1>1, <1>6, WaitKeeps
<1>8. TickInv' /\ NapInv'
  BY Zenon, <1>1, <1>6, TickKeeps, NapKeeps DEF Calm
<1> QED
  BY Zenon, <1>3, <1>5, <1>7, <1>8 DEF WakeInv, SleepInv, WaitInv, TickInv, NapInv

\* The process goes on at label l of fork, or returns from it.
LEMMA ForkMoves ==
  ASSUME RunInv, NEW c \in CPUs, Top(Cur(c)) \in {"fork", "copy", "publish"}, UNCHANGED cpu,
         NEW l \in {"copy", "publish", "sysret"}, l = "sysret" => Return(cpu[c].on), l # "sysret" => Goto(cpu[c].on, l)
  PROVE  Elsewhere(c) /\ Calm(c) /\ Doing(stack'[cpu[c].on]) = l
<1> DEFINE p == cpu[c].on
<1>1. SameThread(c) /\ p \in Procs
  BY Zenon, OnStays, InProcess
<1>2. PICK s : stack' = [stack EXCEPT ![p] = s] /\ Top(s) = l
  <2>1. CASE l = "sysret"
    <3>1. Tail(Cur(c)) = <<"sysret">>
      BY Zenon, InProcess DEF Fits, Calls, OpenCalls
    <3>2. Top(<<"sysret">>) = "sysret"
      BY Zenon, Singles DEF Labels
    <3> QED
      BY Zenon, <2>1, <3>1, <3>2 DEF Return, Rest, Cur
  <2>2. CASE l # "sysret"
    <3>1. l \in Labels
      BY Zenon DEF Labels
    <3>2. Top(<<l>> \o Tail(Cur(c))) = l
      BY Zenon, <3>1, Going
    <3> QED
      BY Zenon, <2>2, <3>2 DEF Goto, Rest, Cur
  <2> QED
    BY Zenon, <2>1, <2>2
<1>3. Elsewhere(c) /\ stack'[p] = s
  BY Zenon, <1>1, <1>2, OwnElsewhere DEF SameThread
<1>4. Doing(s) = l
  BY Zenon, <1>2 DEF Doing, Handlers, Switches
<1>5. Calm(c)
  BY Zenon, <1>1, <1>2, <1>3 DEF Calm, Cur, SameThread
<1> QED
  BY Zenon, <1>3, <1>4, <1>5

LEMMA ForkWake ==
  ASSUME IInv, NEW c \in CPUs, fork(c)
  PROVE  WakeInv'
<1> DEFINE p == cpu[c].on
           U == {q \in Procs : state[q] = "UNUSED"}
<1>1. RunInv /\ Top(Cur(c)) = "fork" /\ ForkInv
  BY Zenon, Here DEF IInv, WakeInv, fork, Labels
<1>2. p \in Procs /\ state[p] = "RUNNING" /\ UNCHANGED <<cpu, chan, parent, killed, left>>
  BY Zenon, <1>1, InProcess DEF StateOn, fork
<1>3. CASE Return(p) /\ UNCHANGED <<state, np>>
  <2>1. Elsewhere(c) /\ Calm(c) /\ Doing(stack'[p]) = "sysret"
    BY Zenon, <1>1, <1>2, <1>3, ForkMoves
  <2>2. Stays(c) /\ Lives /\ Undisturbed(c)
    BY Zenon, <1>2, <1>3, <2>1 DEF Stays, Lives, Undisturbed
  <2> QED
    BY Zenon, <2>1, <2>2, PlainStep
<1>4. CASE U # {} /\ state' = [state EXCEPT ![Min(U)] = "EMBRYO"] /\ np' = [np EXCEPT ![p] = Min(U)] /\ Goto(p, "copy")
  <2> DEFINE q == Min(U)
  <2>1. q \in Procs /\ state[q] = "UNUSED"
    BY Zenon, <1>4, Least
  <2> HIDE DEF q, U
  <2>2. Elsewhere(c) /\ Calm(c) /\ Doing(stack'[p]) = "copy"
    BY Zenon, <1>1, <1>2, <1>4, ForkMoves
  <2>3. /\ state'[q] = "EMBRYO" /\ \A t \in Procs : t # q => state'[t] = state[t]
        /\ np'[p] = q /\ \A t \in Procs : t # p => np'[t] = np[t]
    BY Zenon, <1>1, <1>2, <1>4, <2>1 DEF RunInv, TypeOK, q
  <2>4. \A t \in Procs : Forking(t) => np[t] # q
    BY Zenon, <1>1, <2>1 DEF ForkInv
  <2>5. parent'[q] # q /\ q # p
    BY Zenon, <1>2, <2>1 DEF IInv, WakeInv, ParentInv
  <2> QED
    BY Zenon, <1>2, <2>1, <2>2, <2>3, <2>4, <2>5, ForkStep
<1> QED
  BY Zenon, <1>3, <1>4 DEF fork

LEMMA CopyWake ==
  ASSUME IInv, NEW c \in CPUs, copy(c)
  PROVE  WakeInv'
<1> DEFINE p == cpu[c].on
           q == np[p]
<1>1. RunInv /\ Top(Cur(c)) = "copy" /\ ForkInv
  BY Zenon, Here DEF IInv, WakeInv, copy, Labels
<1>2. p \in Procs /\ q \in Procs /\ state[q] = "EMBRYO" /\ q # p
  BY Zenon, <1>1, Taken
<1>3. UNCHANGED <<cpu, chan, killed, left>> /\ Forking(p)
  BY Zenon, <1>1 DEF copy, Forking, Doing, Cur, Handlers, Switches
<1>4. \A t \in Procs : t # p /\ Forking(t) => np[t] # q
  BY Zenon, <1>1, <1>2, <1>3 DEF ForkInv
<1>5. parent[q] # q
  BY Zenon, <1>2 DEF IInv, WakeInv, ParentInv
<1> HIDE DEF q
<1>6. CASE state' = [state EXCEPT ![q] = "UNUSED"] /\ np' = [np EXCEPT ![p] = NULL] /\ Return(p) /\ UNCHANGED parent
  <2>1. Elsewhere(c) /\ Calm(c) /\ Doing(stack'[p]) = "sysret"
    BY Zenon, <1>1, <1>3, <1>6, ForkMoves
  <2>2. /\ state'[q] = "UNUSED" /\ \A t \in Procs : t # q => state'[t] = state[t]
        /\ \A t \in Procs : t # p => np'[t] = np[t]
    BY Zenon, <1>1, <1>2, <1>6 DEF RunInv, TypeOK
  <2> QED
    BY Zenon, <1>2, <1>3, <1>4, <1>5, <1>6, <2>1, <2>2, ForkStep
<1>7. CASE parent' = [parent EXCEPT ![q] = p] /\ Goto(p, "publish") /\ UNCHANGED <<state, np>>
  <2>1. Elsewhere(c) /\ Calm(c) /\ Doing(stack'[p]) = "publish"
    BY Zenon, <1>1, <1>3, <1>7, ForkMoves
  <2>2. parent'[q] = p /\ \A t \in Procs : t # q => parent'[t] = parent[t]
    BY Zenon, <1>1, <1>2, <1>7 DEF RunInv, TypeOK
  <2>3. np'[p] = q
    BY Zenon, <1>7 DEF q
  <2>4. state'[q] = "EMBRYO" /\ parent'[q] # q /\ \A t \in Procs : state'[t] = state[t] /\ np'[t] = np[t]
    BY Zenon, <1>2, <1>7, <2>2
  <2> QED
    BY Zenon, <1>2, <1>3, <1>4, <2>1, <2>2, <2>3, <2>4, ForkStep
<1> QED
  BY Zenon, <1>6, <1>7 DEF copy, q

LEMMA PublishWake ==
  ASSUME IInv, NEW c \in CPUs, publish(c)
  PROVE  WakeInv'
<1> DEFINE p == cpu[c].on
           q == np[p]
           f == [stack EXCEPT ![p] = Rest(p)]
<1>1. RunInv /\ Top(Cur(c)) = "publish" /\ ForkInv
  BY Zenon, Here DEF IInv, WakeInv, publish, Labels
<1>2. p \in Procs /\ q \in Procs /\ state[q] = "EMBRYO" /\ q # p /\ ~OnCpu(q) /\ state[p] = "RUNNING" /\ Fits(p, Cur(c))
  BY Zenon, <1>1, Taken, InProcess
<1>3. UNCHANGED <<cpu, chan, parent, killed, left>> /\ Forking(p) /\ parent[q] = p
  <2>1. Doing(stack[p]) = "publish"
    BY Zenon, <1>1 DEF Doing, Cur, Handlers, Switches
  <2> QED
    BY Zenon, <1>1, <1>2, <2>1 DEF publish, Forking, ForkInv
<1>4. \A t \in Procs : t # p /\ Forking(t) => np[t] # q
  BY Zenon, <1>1, <1>2, <1>3 DEF ForkInv
<1>5. stack' = [f EXCEPT ![q] = <<"forkret">>] /\ state' = [state EXCEPT ![q] = "RUNNABLE"] /\ np' = [np EXCEPT ![p] = NULL]
  BY Zenon DEF publish
<1> HIDE DEF q
<1>6. /\ DOMAIN f = Threads /\ f[p] = Rest(p) /\ \A t \in Threads : t # p => f[t] = stack[t]
      /\ p \in Threads /\ q \in Threads
  BY Zenon, <1>1, <1>2 DEF RunInv, TypeOK, Threads
<1> HIDE DEF f
<1>7. stack'[q] = <<"forkret">> /\ \A t \in Threads : t # q => stack'[t] = f[t]
  BY Zenon, <1>5, <1>6
<1>8. stack'[p] = <<"sysret">> /\ \A t \in Threads : t # p /\ t # q => stack'[t] = stack[t]
  <2>1. Rest(p) = <<"sysret">>
    BY Zenon, <1>1, <1>2 DEF Fits, Rest, Cur, Calls, OpenCalls
  <2> QED
    BY Zenon, <1>2, <1>6, <1>7, <2>1
<1>9. Top(<<"sysret">>) = "sysret" /\ Doing(<<"forkret">>) = "forkret" /\ Doing(<<"sysret">>) = "sysret"
  <2>1. Top(<<"forkret">>) = "forkret" /\ Top(<<"sysret">>) = "sysret"
    BY Zenon, Singles DEF Labels
  <2> QED
    BY Zenon, <2>1 DEF Doing, Handlers, Switches
<1>10. Elsewhere(c)
  BY Zenon, <1>2, <1>3, <1>7, <1>8, <1>9 DEF Elsewhere
<1>11. Calm(c) /\ Doing(stack'[p]) = "sysret"
  BY Zenon, <1>1, <1>3, <1>8, <1>9 DEF Calm, Cur
<1>12. /\ state'[q] = "RUNNABLE" /\ \A t \in Procs : t # q => state'[t] = state[t]
       /\ \A t \in Procs : t # p => np'[t] = np[t]
  BY Zenon, <1>1, <1>2, <1>5 DEF RunInv, TypeOK
<1> QED
  BY Zenon, <1>2, <1>3, <1>4, <1>10, <1>11, <1>12, ForkStep DEF Alive

-----------------------------------------------------------------------------
\* Types, the machine's apart.
LEMMA Ranges ==
  /\ NULL \in 0 .. NPROC /\ NULL \in 0 .. Ticks /\ Ticks \in 0 .. Ticks /\ NULL \in 0 .. NCPU
  /\ \A p \in Procs : p \in 0 .. NPROC /\ p \in 0 .. Ticks
  /\ \A c \in CPUs : c \in 0 .. NCPU
  /\ \A n \in Naps : n \in Nat
  /\ \A n \in Nat : (IF n > 0 THEN n - 1 ELSE 0) \in Nat
  /\ 0 \in Nat
  BY ProcAssumption DEF NULL, Ticks, Procs, CPUs

Tables ==
  /\ state \in [Procs -> States] /\ chan \in [Procs -> 0 .. Ticks]
  /\ parent \in [Procs -> 0 .. NPROC] /\ np \in [Procs -> 0 .. NPROC]
  /\ killed \in [Procs -> BOOLEAN] /\ named \in [Procs -> BOOLEAN] /\ saved \in [Procs -> BOOLEAN]
  /\ left \in [Procs -> Nat]
LockTypes == ptlock \in 0 .. NCPU /\ tickslock \in 0 .. NCPU

LEMMA TypeIs == TypeOK <=> Tables /\ LockTypes /\ cpu \in [CPUs -> Cpu] /\ stack \in [Threads -> Seq(Labels)]
  BY Zenon DEF TypeOK, Tables, LockTypes, Cpu, Threads

LEMMA LocksTyped ==
  ASSUME LockTypes, NEW c \in CPUs, ptlock' \in {NULL, c, ptlock}, tickslock' \in {NULL, c, tickslock}
  PROVE  LockTypes'
  BY Zenon, Ranges DEF LockTypes

\* Steps that leave the table and the locals alone.
LEMMA FrameTyped ==
  ASSUME Tables, UNCHANGED <<table, local>>
  PROVE  Tables'
  BY Zenon DEF Tables, table, local

LEMMA StatesTyped ==
  ASSUME Tables, state' \in [Procs -> States], UNCHANGED <<chan, parent, killed, named, local>>
  PROVE  Tables'
  BY Zenon DEF Tables, local

LEMMA WokenTyped ==
  ASSUME NEW s \in [Procs -> States], NEW ch
  PROVE  wakeup1(s, ch) \in [Procs -> States]
  BY Zenon DEF wakeup1, States

\* The steps of the processors and of the interrupt.
LEMMA CoreTyped ==
  ASSUME RunInv, NEW c \in CPUs,
         \/ loop(c) \/ acquire(c) \/ scan(c) \/ sched(c) \/ swtch(c) \/ forkret(c)
         \/ Timer(c) \/ timer(c) \/ wake(c) \/ ticked(c) \/ yielded(c) \/ iret(c)
         \/ fault(c) \/ syscall(c) \/ sysret(c)
  PROVE  Tables' /\ LockTypes'
<1>1. Tables /\ LockTypes /\ cpu[c] \in Cpu
  BY Zenon, TypeIs, Here DEF RunInv
<1>2. CASE loop(c) \/ acquire(c) \/ swtch(c) \/ forkret(c) \/ Timer(c)
  <2>1. Tables'
    BY Zenon, <1>1, <1>2, FrameTyped DEF loop, acquire, swtch, forkret, Timer
  <2>2. LockTypes'
    BY Zenon, <1>1, <1>2, LocksTyped DEF loop, acquire, swtch, forkret, Timer
  <2> QED
    BY Zenon, <2>1, <2>2
<1>3. CASE yielded(c) \/ iret(c) \/ syscall(c) \/ sysret(c)
  <2>1. Tables'
    BY Zenon, <1>1, <1>3, FrameTyped DEF yielded, iret, syscall, sysret
  <2>2. LockTypes'
    BY Zenon, <1>1, <1>3, LocksTyped DEF yielded, iret, syscall, sysret, ReleasePt
  <2> QED
    BY Zenon, <2>1, <2>2
<1>4. CASE scan(c)
  <2>1. state' \in [Procs -> States]
    <3> DEFINE R == {p \in Procs : p > cpu[c].cursor /\ state[p] = "RUNNABLE"}
    <3>1. state' = state \/ state' = [state EXCEPT ![Min(R)] = "RUNNING"]
      BY Zenon, <1>4 DEF scan
    <3> HIDE DEF R
    <3>2. "RUNNING" \in States
      BY Zenon DEF States
    <3> QED
      BY Zenon, <1>1, <3>1, <3>2 DEF Tables
  <2>2. LockTypes'
    BY Zenon, <1>1, <1>4, LocksTyped DEF scan
  <2> QED
    BY Zenon, <1>1, <1>4, <2>1, <2>2, StatesTyped DEF scan
<1>5. CASE sched(c)
  <2>1. cpu[c].intena \in BOOLEAN
    BY Zenon, <1>1 DEF Cpu
  <2>2. saved' \in [Procs -> BOOLEAN]
    BY Zenon, <1>1, <1>5, <2>1 DEF sched, Tables
  <2>3. Tables'
    BY Zenon, <1>1, <1>5, <2>2 DEF sched, Tables, table
  <2>4. LockTypes'
    BY Zenon, <1>1, <1>5, LocksTyped DEF sched
  <2> QED
    BY Zenon, <2>3, <2>4
<1>6. CASE timer(c)
  <2>1. left' \in [Procs -> Nat]
    BY Zenon, <1>1, <1>6, Ranges DEF timer, Tables
  <2>2. Tables'
    BY Zenon, <1>1, <1>6, <2>1 DEF timer, Tables, table
  <2>3. LockTypes'
    BY Zenon, <1>1, <1>6, LocksTyped DEF timer, AcquireTicks
  <2> QED
    BY Zenon, <2>2, <2>3
<1>7. CASE wake(c)
  <2>1. state' \in [Procs -> States]
    BY Zenon, <1>1, <1>7, WokenTyped DEF wake, Tables
  <2>2. LockTypes'
    BY Zenon, <1>1, <1>7, LocksTyped DEF wake, ReleaseTicks
  <2> QED
    BY Zenon, <1>1, <1>7, <2>1, <2>2, StatesTyped DEF wake
<1>8. CASE ticked(c)
  <2>1. state' = state \/ state' = [state EXCEPT ![cpu[c].proc] = "RUNNABLE"]
    BY Zenon, <1>8 DEF ticked
  <2>2. state' \in [Procs -> States]
    <3>1. "RUNNABLE" \in States
      BY Zenon DEF States
    <3> QED
      BY Zenon, <1>1, <2>1, <3>1 DEF Tables
  <2>3. LockTypes'
    BY Zenon, <1>1, <1>8, LocksTyped DEF ticked, AcquirePt
  <2> QED
    BY Zenon, <1>1, <1>8, <2>2, <2>3, StatesTyped DEF ticked
<1>9. CASE fault(c)
  <2>1. killed' \in [Procs -> BOOLEAN]
    BY Zenon, <1>1, <1>9 DEF fault, Tables
  <2>2. Tables'
    BY Zenon, <1>1, <1>9, <2>1 DEF fault, Tables, local
  <2>3. LockTypes'
    BY Zenon, <1>1, <1>9, LocksTyped DEF fault
  <2> QED
    BY Zenon, <2>2, <2>3
<1> QED
  BY Zenon, <1>2, <1>3, <1>4, <1>5, <1>6, <1>7, <1>8, <1>9

\* The steps of the system calls.
LEMMA CallsTyped ==
  ASSUME IInv, NEW c \in CPUs,
         \/ fork(c) \/ copy(c) \/ publish(c) \/ exit(c) \/ wait(c) \/ waitloop(c) \/ kill(c)
         \/ sleep(c) \/ check(c) \/ gosleep(c) \/ slept(c) \/ relock(c)
  PROVE  Tables' /\ LockTypes'
<1>1. RunInv /\ ForkInv
  BY Zenon DEF IInv, WakeInv
<1>2. Tables /\ LockTypes
  BY Zenon, <1>1, TypeIs DEF RunInv
<1>3. \A w \in {"EMBRYO", "UNUSED", "RUNNABLE", "SLEEPING", "ZOMBIE"} : w \in States
  BY Zenon DEF States
<1>4. \A q : \A w \in States : [state EXCEPT ![q] = w] \in [Procs -> States]
  BY Zenon, <1>2 DEF Tables
<1>5. CASE wait(c) \/ relock(c)
  <2>1. Tables'
    BY Zenon, <1>2, <1>5, FrameTyped DEF wait, relock
  <2>2. LockTypes'
    BY Zenon, <1>2, <1>5, LocksTyped DEF wait, relock, AcquirePt, AcquireTicks
  <2> QED
    BY Zenon, <2>1, <2>2
<1>6. CASE fork(c)
  <2> DEFINE U == {q \in Procs : state[q] = "UNUSED"}
             m == Min(U)
  <2>0. U \in SUBSET Procs
    BY Zenon
  <2>1. U # {} => m \in Procs
    BY Zenon, <2>0, Least
  <2>2. \/ UNCHANGED <<state, named, np>>
        \/ /\ U # {} /\ state' = [state EXCEPT ![m] = "EMBRYO"] /\ named' = [named EXCEPT ![m] = TRUE]
           /\ np' = [np EXCEPT ![cpu[c].on] = m]
    BY Zenon, <1>6 DEF fork
  <2> HIDE DEF U, m
  <2>3. state' \in [Procs -> States]
    BY Zenon, <1>2, <1>3, <1>4, <2>2 DEF Tables
  <2>4. named' \in [Procs -> BOOLEAN]
    BY Zenon, <1>2, <2>2 DEF Tables
  <2>5. np' \in [Procs -> 0 .. NPROC]
    BY Zenon, <1>2, <2>1, <2>2, Ranges DEF Tables
  <2>6. Tables'
    BY Zenon, <1>2, <1>6, <2>3, <2>4, <2>5 DEF fork, Tables
  <2>7. LockTypes'
    BY Zenon, <1>2, <1>6, LocksTyped DEF fork
  <2> QED
    BY Zenon, <2>6, <2>7
<1>7. CASE copy(c) \/ publish(c)
  <2>1. Top(Cur(c)) \in {"copy", "publish"}
    BY Zenon, <1>1, <1>7, Here DEF copy, publish, Labels
  <2>2. cpu[c].on \in Procs
    BY Zenon, <1>1, <2>1, Taken
  <2>3. state' = state \/ \E q : \E w \in States : state' = [state EXCEPT ![q] = w]
    BY Zenon, <1>3, <1>7 DEF copy, publish
  <2>4. state' \in [Procs -> States]
    BY Zenon, <1>2, <1>4, <2>3 DEF Tables
  <2>5. np' = np \/ np' = [np EXCEPT ![cpu[c].on] = NULL]
    BY Zenon, <1>7 DEF copy, publish
  <2>6. np' \in [Procs -> 0 .. NPROC]
    BY Zenon, <1>2, <2>5, Ranges DEF Tables
  <2>7. parent' = parent \/ parent' = [parent EXCEPT ![np[cpu[c].on]] = cpu[c].on]
    BY Zenon, <1>7 DEF copy, publish
  <2>8. parent' \in [Procs -> 0 .. NPROC]
    BY Zenon, <1>2, <2>2, <2>7, Ranges DEF Tables
  <2>9. UNCHANGED <<chan, killed, named, saved, left, ptlock, tickslock>>
    BY Zenon, <1>7 DEF copy, publish
  <2> QED
    BY Zenon, <1>2, <2>4, <2>6, <2>8, <2>9 DEF Tables, LockTypes
<1>8. CASE exit(c)
  <2>1. Top(Cur(c)) = "exit"
    BY Zenon, <1>1, <1>8, Here DEF exit, Labels
  <2>2. cpu[c].on \in Procs
    BY Zenon, <1>1, <2>1, InProcess
  <2>3. WakeParents(cpu[c].on) \in [Procs -> States]
    BY Zenon, <1>1, <2>2, ParentsTyped
  <2>4. state' = [WakeParents(cpu[c].on) EXCEPT ![cpu[c].on] = "ZOMBIE"]
    BY Zenon, <1>8 DEF exit
  <2>5. state' \in [Procs -> States]
    BY Zenon, <1>3, <2>3, <2>4
  <2>6. initproc \in 0 .. NPROC
    BY ProcAssumption DEF initproc
  <2>7. parent' \in [Procs -> 0 .. NPROC]
    BY Zenon, <1>2, <1>8, <2>6 DEF exit, PassedToInit, Tables
  <2>8. LockTypes'
    BY Zenon, <1>2, <1>8, LocksTyped DEF exit, AcquirePt
  <2> QED
    BY Zenon, <1>2, <1>8, <2>5, <2>7, <2>8 DEF exit, Tables, local
<1>9. CASE waitloop(c)
  <2>1. Top(Cur(c)) = "scan children"
    BY Zenon, <1>1, <1>9, Here DEF waitloop, Labels
  <2>2. cpu[c].on \in Procs
    BY Zenon, <1>1, <2>1, InProcess
  <2>3. state' = state \/ \E q : \E w \in States : state' = [state EXCEPT ![q] = w]
    BY Zenon, <1>3, <1>9 DEF waitloop, Reap
  <2>4. state' \in [Procs -> States]
    BY Zenon, <1>2, <1>4, <2>3 DEF Tables
  <2>5. PICK v \in 0 .. Ticks : chan' = [chan EXCEPT ![cpu[c].on] = v]
    BY Zenon, <1>9, <2>2, Ranges DEF waitloop
  <2>6. chan' \in [Procs -> 0 .. Ticks]
    BY Zenon, <1>2, <2>5 DEF Tables
  <2>7. \/ UNCHANGED <<named, parent, killed>>
        \/ \E z : /\ named' = [named EXCEPT ![z] = FALSE] /\ parent' = [parent EXCEPT ![z] = NULL]
                  /\ killed' = [killed EXCEPT ![z] = FALSE]
    BY Zenon, <1>9 DEF waitloop, Reap
  <2>8. named' \in [Procs -> BOOLEAN] /\ killed' \in [Procs -> BOOLEAN]
    BY Zenon, <1>2, <2>7 DEF Tables
  <2>9. parent' \in [Procs -> 0 .. NPROC]
    BY Zenon, <1>2, <2>7, Ranges DEF Tables
  <2>10. UNCHANGED <<np, saved, left, tickslock>> /\ ptlock' \in {NULL, ptlock}
    BY Zenon, <1>9 DEF waitloop, local, ReleasePt
  <2>11. LockTypes'
    BY Zenon, <1>2, <2>10, LocksTyped
  <2> QED
    BY Zenon, <1>2, <2>4, <2>6, <2>8, <2>9, <2>10, <2>11 DEF Tables
<1>10. CASE kill(c)
  <2>1. ASSUME NEW q \in Procs, killed' = [killed EXCEPT ![q] = TRUE],
               state' = [state EXCEPT ![q] = IF state[q] = "SLEEPING" THEN "RUNNABLE" ELSE state[q]]
        PROVE  state' \in [Procs -> States] /\ killed' \in [Procs -> BOOLEAN]
    <3>1. state[q] \in States
      BY Zenon, <1>2 DEF Tables
    <3>2. state' \in [Procs -> States]
      BY Zenon, <1>3, <1>4, <2>1, <3>1
    <3> QED
      BY Zenon, <1>2, <2>1, <3>2 DEF Tables
  <2>2. state' \in [Procs -> States] /\ killed' \in [Procs -> BOOLEAN]
    BY Zenon, <1>2, <1>10, <2>1 DEF kill, Addressed, Tables
  <2>3. UNCHANGED <<chan, parent, named, np, saved, left, ptlock, tickslock>>
    BY Zenon, <1>10 DEF kill, local
  <2> QED
    BY Zenon, <1>2, <2>2, <2>3 DEF Tables, LockTypes
<1>11. CASE sleep(c) \/ check(c)
  <2>1. left' = left \/ \E n \in Nat : left' = [left EXCEPT ![cpu[c].on] = n]
    BY Zenon, <1>11, Ranges DEF sleep, check
  <2>2. left' \in [Procs -> Nat]
    BY Zenon, <1>2, <2>1 DEF Tables
  <2>3. Tables'
    BY Zenon, <1>2, <1>11, <2>2 DEF sleep, check, table, Tables
  <2>4. LockTypes'
    BY Zenon, <1>2, <1>11, LocksTyped DEF sleep, check, AcquireTicks, ReleaseTicks
  <2> QED
    BY Zenon, <2>3, <2>4
<1>12. CASE gosleep(c) \/ slept(c)
  <2>1. PICK v \in 0 .. Ticks : chan' = [chan EXCEPT ![cpu[c].on] = v]
    BY Zenon, <1>12, Ranges DEF gosleep, slept
  <2>2. chan' \in [Procs -> 0 .. Ticks]
    BY Zenon, <1>2, <2>1 DEF Tables
  <2>3. state' = state \/ state' = [state EXCEPT ![cpu[c].on] = "SLEEPING"]
    BY Zenon, <1>12 DEF gosleep, slept
  <2>4. state' \in [Procs -> States]
    BY Zenon, <1>2, <1>3, <1>4, <2>3 DEF Tables
  <2>5. UNCHANGED <<parent, killed, named, local>>
    BY Zenon, <1>12 DEF gosleep, slept
  <2>6. LockTypes'
    BY Zenon, <1>2, <1>12, LocksTyped DEF gosleep, slept, ReleasePt
  <2> QED
    BY Zenon, <1>2, <2>2, <2>4, <2>5, <2>6 DEF Tables, local
<1> QED
  BY Zenon, <1>5, <1>6, <1>7, <1>8, <1>9, <1>10, <1>11, <1>12

-----------------------------------------------------------------------------
\* Every step keeps the inductive invariant.
LEMMA CoreStep ==
  ASSUME IInv, NEW c \in CPUs,
         \/ loop(c) \/ acquire(c) \/ scan(c) \/ sched(c) \/ swtch(c) \/ forkret(c)
         \/ Timer(c) \/ timer(c) \/ wake(c) \/ ticked(c) \/ yielded(c) \/ iret(c)
         \/ fault(c) \/ syscall(c) \/ sysret(c)
  PROVE  Machine' /\ WakeInv'
<1>1. RunInv /\ ~killed[initproc]
  BY Zenon DEF IInv, WakeInv, ParentInv
<1>2. CASE loop(c) \/ acquire(c) \/ scan(c)
  BY Zenon, <1>1, <1>2, LoopRight, AcquireRight, ScanRight, SchedulerWake
<1>3. CASE sched(c)
  BY Zenon, <1>1, <1>3, SchedRight, SchedWake
<1>4. CASE swtch(c) \/ forkret(c)
  BY Zenon, <1>1, <1>4, SwtchRight, ForkretRight, BackWake
<1>5. CASE Timer(c)
  BY Zenon, <1>1, <1>5, TimerRight, EntryWake
<1>6. CASE timer(c)
  BY Zenon, <1>1, <1>6, TickRight, TimerWake
<1>7. CASE wake(c)
  BY Zenon, <1>1, <1>7, TickRight, WakeWake
<1>8. CASE ticked(c)
  BY Zenon, <1>1, <1>8, TickedRight, TickedWake
<1>9. CASE yielded(c)
  BY Zenon, <1>1, <1>9, YieldedRight, LeaveWake
<1>10. CASE iret(c) \/ sysret(c)
  BY Zenon, <1>1, <1>10, LeaveRight, LeaveWake
<1>11. CASE fault(c) \/ syscall(c)
  BY Zenon, <1>1, <1>11, TrapRight, EntryWake
<1> QED
  BY Zenon, <1>2, <1>3, <1>4, <1>5, <1>6, <1>7, <1>8, <1>9, <1>10, <1>11

LEMMA CallStep ==
  ASSUME IInv, NEW c \in CPUs,
         \/ fork(c) \/ copy(c) \/ publish(c) \/ exit(c) \/ wait(c) \/ waitloop(c) \/ kill(c)
         \/ sleep(c) \/ check(c) \/ gosleep(c) \/ slept(c) \/ relock(c)
  PROVE  Machine' /\ WakeInv'
<1>1. RunInv /\ ForkInv /\ \A q \in Procs : parent[q] # q
  BY Zenon DEF IInv, WakeInv, ParentInv
<1>2. CASE fork(c)
  BY Zenon, <1>1, <1>2, ForkRight, ForkWake
<1>3. CASE copy(c)
  BY Zenon, <1>1, <1>3, CopyRight, CopyWake
<1>4. CASE publish(c)
  BY Zenon, <1>1, <1>4, PublishRight, PublishWake
<1>5. CASE exit(c)
  BY Zenon, <1>1, <1>5, ExitRight, ExitWake
<1>6. CASE wait(c) \/ relock(c)
  BY Zenon, <1>1, <1>6, TakesRight, LeaveWake
<1>7. CASE waitloop(c)
  BY Zenon, <1>1, <1>7, WaitloopRight, WaitloopWake
<1>8. CASE kill(c)
  BY Zenon, <1>1, <1>8, KillRight, KillWake
<1>9. CASE sleep(c)
  BY Zenon, <1>1, <1>9, TakesRight, NapWake
<1>10. CASE check(c)
  BY Zenon, <1>1, <1>10, CheckRight, NapWake
<1>11. CASE gosleep(c)
  BY Zenon, <1>1, <1>11, GosleepRight, GosleepWake
<1>12. CASE slept(c)
  BY Zenon, <1>1, <1>12, SleptRight, NapWake
<1> QED
  BY Zenon, <1>2, <1>3, <1>4, <1>5, <1>6, <1>7, <1>8, <1>9, <1>10, <1>11, <1>12

LEMMA Gathered ==
  ASSUME Machine', WakeInv', Tables', LockTypes'
  PROVE  IInv'
<1>1. TypeOK'
  BY Zenon DEF Machine, Tables, LockTypes, TypeOK, Cpu, Threads
<1> QED
  BY Zenon, <1>1 DEF Machine, IInv, RunInv

LEMMA Stuttering ==
  ASSUME IInv, UNCHANGED vars
  PROVE  IInv'
<1>1. RunInv'
  BY Zenon DEF vars, IInv, RunInv, TypeOK, CpuInv, Single, ProcInv, ProcRight, Placed, Locks, Ints, Cur,
               Keeps, OnCpu
<1>2. WakeInv'
  BY Zenon DEF vars, IInv, WakeInv, ForkInv, Forking, ParentInv, SleepInv, Cur
<1> QED
  BY Zenon, <1>1, <1>2 DEF IInv

LEMMA Step == IInv /\ [Next]_vars => IInv'
<1> SUFFICES ASSUME IInv, [Next]_vars PROVE IInv'
  OBVIOUS
<1>1. CASE UNCHANGED vars
  BY Zenon, <1>1, Stuttering
<1>2. ASSUME NEW c \in CPUs,
             \/ loop(c) \/ acquire(c) \/ scan(c) \/ sched(c) \/ swtch(c) \/ forkret(c)
             \/ Timer(c) \/ timer(c) \/ wake(c) \/ ticked(c) \/ yielded(c) \/ iret(c)
             \/ fault(c) \/ syscall(c) \/ sysret(c)
      PROVE  IInv'
  <2>1. RunInv
    BY Zenon DEF IInv
  <2> QED
    BY Zenon, <1>2, <2>1, CoreTyped, CoreStep, Gathered
<1>3. ASSUME NEW c \in CPUs,
             \/ fork(c) \/ copy(c) \/ publish(c) \/ exit(c) \/ wait(c) \/ waitloop(c) \/ kill(c)
             \/ sleep(c) \/ check(c) \/ gosleep(c) \/ slept(c) \/ relock(c)
      PROVE  IInv'
  BY Zenon, <1>3, CallsTyped, CallStep, Gathered
<1> QED
  BY Zenon, <1>1, <1>2, <1>3 DEF Next

LEMMA InitStacks ==
  ASSUME Init
  PROVE  /\ stack \in [Threads -> Seq(Labels)] /\ initproc \in Procs
         /\ stack[initproc] = <<"forkret">> /\ Top(stack[initproc]) = "forkret" /\ Tail(stack[initproc]) = <<>>
         /\ \A p \in Procs : p # initproc => stack[p] = <<>> /\ Top(stack[p]) = "user"
         /\ \A c \in CPUs : /\ stack[Sched(c)] = <<"loop">> /\ Top(stack[Sched(c)]) = "loop"
                            /\ Tail(stack[Sched(c)]) = <<>> /\ Sched(c) \notin Procs
<1>1. initproc \in Procs /\ \A c \in CPUs : Sched(c) \notin Procs /\ Sched(c) # initproc
  BY ProcAssumption DEF Procs, CPUs, Sched, initproc
<1>2. "forkret" \in Labels /\ "loop" \in Labels /\ <<>> \in Seq(Labels)
  BY DEF Labels
<1>3. <<"forkret">> \in Seq(Labels) /\ <<"loop">> \in Seq(Labels)
  BY Zenon, <1>2, Singles
<1>4. stack = [t \in Threads |->
                IF t = initproc THEN <<"forkret">> ELSE IF t \in Procs THEN <<>> ELSE <<"loop">>]
  BY Zenon DEF Init, Threads
<1>5. stack \in [Threads -> Seq(Labels)]
  BY Zenon, <1>2, <1>3, <1>4
<1>6. \A p \in Procs : p \in Threads /\ stack[p] = IF p = initproc THEN <<"forkret">> ELSE <<>>
  BY Zenon, <1>4 DEF Threads
<1>7. \A c \in CPUs : stack[Sched(c)] = <<"loop">>
  BY Zenon, <1>1, <1>4 DEF Threads
<1>8. Top(<<>>) = "user"
  BY Zenon DEF Top
<1> QED
  BY Zenon, <1>1, <1>2, <1>5, <1>6, <1>7, <1>8, Singles

LEMMA InitTypes ==
  ASSUME Init
  PROVE  Tables /\ LockTypes /\ cpu \in [CPUs -> Cpu]
<1>1. \A c \in CPUs : Sched(c) \in (-NCPU) .. NPROC
  BY ProcAssumption DEF CPUs, Sched
<1>2. 0 \in 0 .. NPROC /\ 0 \in Nat /\ NULL \in 0 .. NPROC
  BY ProcAssumption DEF NULL
<1>3. cpu \in [CPUs -> Cpu]
  BY Zenon, <1>1, <1>2 DEF Init, Cpu
<1>4. state \in [Procs -> States]
  BY Zenon DEF Init, States
<1>5. Tables
  BY Zenon, <1>4, Ranges DEF Init, Tables
<1>6. LockTypes
  BY Zenon, Ranges DEF Init, LockTypes
<1> QED
  BY Zenon, <1>3, <1>5, <1>6

LEMMA InitCpus ==
  ASSUME Init
  PROVE  CpuInv /\ Single /\ \A p \in Procs : ~OnCpu(p)
<1>1. \A c \in CPUs : /\ cpu[c].on = Sched(c) /\ cpu[c].proc = NULL /\ cpu[c].ncli = 0
                      /\ ~cpu[c].intena /\ ~cpu[c].iflag
  BY Zenon DEF Init
<1>2. \A c \in CPUs : ptlock # c /\ tickslock # c
  BY ProcAssumption DEF Init, CPUs, NULL
<1>3. \A c \in CPUs : Placed(c)
  BY Zenon, <1>1, InitStacks DEF Placed, Cur, SchedFits
<1>4. \A c \in CPUs : Locks(c)
  BY Zenon, <1>1, <1>2, InitStacks DEF Locks, Cur, PtHeld, TicksHeld
<1>5. \A c \in CPUs : Ints(cpu[c], Cur(c))
  <2>1. ASSUME NEW c \in CPUs PROVE Top(Cur(c)) = "loop" /\ Resume(Cur(c)) = "loop"
    BY Zenon, <1>1, InitStacks DEF Cur, Resume, Switches
  <2> QED
    BY Zenon, <1>1, <2>1 DEF Ints, Flags, PtHeld, TicksHeld, On, Off, OpenCalls
<1>6. \A c, d \in CPUs : Sched(c) = Sched(d) => c = d
  BY ProcAssumption DEF CPUs, Sched
<1>7. Single
  <2> SUFFICES ASSUME NEW c \in CPUs, NEW d \in CPUs, cpu[c].on = cpu[d].on PROVE c = d
    BY Zenon DEF Single
  <2>1. cpu[c].on = Sched(c) /\ cpu[d].on = Sched(d)
    BY Zenon, <1>1
  <2> QED
    BY Zenon, <1>6, <2>1
<1>8. \A p \in Procs : ~OnCpu(p)
  BY Zenon, <1>1, InitStacks DEF OnCpu
<1> QED
  BY Zenon, <1>3, <1>4, <1>5, <1>7, <1>8 DEF CpuInv

LEMMA InitProcs ==
  ASSUME Init
  PROVE  ProcInv /\ WakeInv
<1>1. \A p \in Procs : state[p] = IF p = initproc THEN "RUNNABLE" ELSE "UNUSED"
  BY Zenon DEF Init
<1>2. \A p \in Procs : /\ p = initproc => Top(stack[p]) = "forkret" /\ Tail(stack[p]) = <<>>
                       /\ p # initproc => Top(stack[p]) = "user" /\ stack[p] = <<>>
  BY Zenon, InitStacks
<1>3. ASSUME NEW p \in Procs PROVE Fits(p, stack[p]) /\ Keeps(p)
  BY Zenon, <1>2 DEF Fits, Keeps, Calls, OpenCalls, Handlers, Switches
<1>4. ASSUME NEW p \in Procs PROVE StateOff(state[p], stack[p])
  <2>1. CASE p = initproc
    <3>1. Resume(stack[p]) = "forkret"
      BY Zenon, <1>2, <2>1 DEF Resume, Switches
    <3> QED
      BY Zenon, <1>1, <1>2, <2>1, <3>1 DEF StateOff
  <2>2. CASE p # initproc
    BY Zenon, <1>1, <1>2, <2>2 DEF StateOff
  <2> QED
    BY Zenon, <2>1, <2>2
<1>5. ProcInv
  BY Zenon, <1>3, <1>4, InitCpus DEF ProcInv, ProcRight
<1>6. ForkInv
  <2>1. \A p \in Procs : ~Forking(p)
    BY Zenon, <1>2 DEF Forking, Doing, Handlers, Switches
  <2> QED
    BY Zenon, <2>1 DEF ForkInv
<1>7. ParentInv
  <2>1. initproc \in Procs /\ \A q \in Procs : q # NULL
    BY ProcAssumption DEF Procs, initproc, NULL
  <2>2. \A q \in Procs : parent[q] = NULL /\ killed[q] = FALSE
    BY Zenon DEF Init
  <2> QED
    BY Zenon, <1>1, <2>1, <2>2 DEF ParentInv, Alive
<1>8. SleepInv
  <2>1. \A c \in CPUs : Top(Cur(c)) = "loop"
    BY Zenon, InitStacks DEF Init, Cur
  <2> QED
    BY Zenon, <1>1, <2>1 DEF SleepInv
<1> QED
  BY Zenon, <1>5, <1>6, <1>7, <1>8 DEF WakeInv

LEMMA Start == Init => IInv
<1> SUFFICES ASSUME Init PROVE IInv
  OBVIOUS
<1>1. TypeOK
  BY Zenon, InitTypes, InitStacks, TypeIs
<1> QED
  BY Zenon, <1>1, InitCpus, InitProcs DEF IInv, RunInv

-----------------------------------------------------------------------------
\* What the invariant says about the promises of Proc.
LEMMA Exclusive == IInv => StackExclusive
<1> SUFFICES ASSUME RunInv PROVE StackExclusive
  BY Zenon DEF IInv
<1>1. ASSUME ptlock = NULL, NEW p \in Procs
      PROVE  state[p] = "RUNNING" <=> \E c \in CPUs : cpu[c].on = p
  <2>1. ASSUME NEW c \in CPUs, cpu[c].on = p PROVE state[p] = "RUNNING"
    <3>1. ptlock # c
      BY Zenon, <1>1, Apart
    <3>2. Top(Cur(c)) # "sched"
      BY Zenon, <3>1, Ready DEF PtHeld
    <3>3. StateOn(state[p], Cur(c))
      BY Zenon, <2>1, InProcess
    <3> QED
      BY Zenon, <3>2, <3>3 DEF StateOn
  <2>2. ASSUME ~OnCpu(p) PROVE state[p] # "RUNNING"
    BY Zenon, <2>2 DEF RunInv, ProcInv, ProcRight, StateOff
  <2> QED
    BY Zenon, <2>1, <2>2 DEF OnCpu
<1>2. \A c \in CPUs : cpu[c].on \in Procs => cpu[c].proc = cpu[c].on
  BY Zenon, InProcess
<1> QED
  BY Zenon, <1>1, <1>2 DEF StackExclusive, RunInv, Single

LEMMA LockCount ==
  ASSUME RunInv, NEW c \in CPUs
  PROVE  /\ cpu[c].ncli = (IF ptlock = c THEN 1 ELSE 0) + (IF tickslock = c THEN 1 ELSE 0)
         /\ cpu[c].iflag => cpu[c].ncli = 0
<1> DEFINE t == Top(Cur(c))
<1>1. /\ ptlock = c <=> t \in PtHeld
      /\ tickslock = c <=> t \in TicksHeld
      /\ cpu[c].ncli = IF t \in PtHeld \cup TicksHeld THEN 1 ELSE 0
      /\ cpu[c].iflag => t \in {"user", "sysret", "exit", "loop", "acquire"} \cup OpenCalls
  BY Zenon, Ready DEF Ints, Flags
<1>2. t \in PtHeld => t \notin TicksHeld
  BY Zenon DEF PtHeld, TicksHeld
<1>3. t \in {"user", "sysret", "exit", "loop", "acquire"} \cup OpenCalls => t \notin PtHeld \cup TicksHeld
  BY Zenon DEF PtHeld, TicksHeld, OpenCalls
<1> HIDE DEF t
<1>4. 1 + 0 = 1 /\ 0 + 1 = 1 /\ 0 + 0 = 0
  OBVIOUS
<1> QED
  BY Zenon, <1>1, <1>2, <1>3, <1>4

LEMMA Sound ==
  ASSUME RunInv, NEW c \in CPUs
  PROVE  /\ At(c, "sched") => ptlock = c /\ cpu[c].ncli = 1 /\ state[cpu[c].on] # "RUNNING"
         /\ \A l \in {"scan", "forkret", "yielded", "scan children", "slept"} : At(c, l) => ptlock = c
         /\ \A l \in {"wake", "check", "go to sleep"} : At(c, l) => tickslock = c /\ ptlock # c
         /\ \A l \in {"acquire", "fork", "publish", "wait", "exit", "kill", "ticked", "timer", "sleep",
                      "lock again"} : At(c, l) => cpu[c].ncli = 0
         /\ ~At(c, "zombie exit") /\ ~(cpu[c].on = initproc /\ At(c, "exit"))
<1>1. /\ ptlock = c <=> Top(Cur(c)) \in PtHeld
      /\ tickslock = c <=> Top(Cur(c)) \in TicksHeld
      /\ cpu[c].ncli = IF Top(Cur(c)) \in PtHeld \cup TicksHeld THEN 1 ELSE 0
  BY Zenon, Ready DEF Ints, Flags
<1>2. At(c, "sched") => ptlock = c /\ cpu[c].ncli = 1 /\ state[cpu[c].on] # "RUNNING"
  <2> SUFFICES ASSUME At(c, "sched") PROVE ptlock = c /\ cpu[c].ncli = 1 /\ state[cpu[c].on] # "RUNNING"
    OBVIOUS
  <2>1. Top(Cur(c)) = "sched"
    BY Zenon, Here DEF Labels
  <2>2. Fits(cpu[c].on, Cur(c)) /\ StateOn(state[cpu[c].on], Cur(c))
    BY Zenon, <2>1, InProcess
  <2>3. Resume(Cur(c)) \in {"yielded", "scan children", "slept", "zombie exit"}
    BY Zenon, <2>1, <2>2 DEF Fits, Away, Resume, Switches
  <2>4. state[cpu[c].on] # "RUNNING"
    BY Zenon, <2>1, <2>2, <2>3 DEF StateOn
  <2> QED
    BY Zenon, <1>1, <2>1, <2>4 DEF PtHeld
<1>3. ASSUME NEW l \in {"scan", "forkret", "yielded", "scan children", "slept"}, At(c, l) PROVE ptlock = c
  <2>1. l \in Labels /\ l \in PtHeld
    BY Zenon DEF Labels, PtHeld
  <2> QED
    BY Zenon, <1>1, <1>3, <2>1, Here
<1>4. ASSUME NEW l \in {"wake", "check", "go to sleep"}, At(c, l) PROVE tickslock = c /\ ptlock # c
  <2>1. l \in Labels /\ l \in TicksHeld /\ l \notin PtHeld
    BY Zenon DEF Labels, TicksHeld, PtHeld
  <2> QED
    BY Zenon, <1>1, <1>4, <2>1, Here
<1>5. ASSUME NEW l \in {"acquire", "fork", "publish", "wait", "exit", "kill", "ticked", "timer", "sleep",
                        "lock again"}, At(c, l)
      PROVE  cpu[c].ncli = 0
  <2>1. l \in Labels /\ l \notin PtHeld \cup TicksHeld
    BY Zenon DEF Labels, TicksHeld, PtHeld
  <2> QED
    BY Zenon, <1>1, <1>5, <2>1, Here
<1>6. ~At(c, "zombie exit")
  <2> SUFFICES ASSUME At(c, "zombie exit") PROVE FALSE
    OBVIOUS
  <2>1. Top(Cur(c)) = "zombie exit"
    BY Zenon, Here DEF Labels
  <2>2. Fits(cpu[c].on, Cur(c))
    BY Zenon, <2>1, InProcess
  <2> QED
    BY Zenon, <2>1, <2>2 DEF Fits, Calls, OpenCalls, Handlers, Switches
<1>7. ~(cpu[c].on = initproc /\ At(c, "exit"))
  <2> SUFFICES ASSUME cpu[c].on = initproc, At(c, "exit") PROVE FALSE
    OBVIOUS
  <2>1. Top(Cur(c)) = "exit"
    BY Zenon, Here DEF Labels
  <2>2. Fits(cpu[c].on, Cur(c))
    BY Zenon, <2>1, InProcess
  <2> QED
    BY Zenon, <2>1, <2>2 DEF Fits
<1> QED
  BY Zenon, <1>2, <1>3, <1>4, <1>5, <1>6, <1>7

LEMMA Restored == IInv => InterruptsRestored
<1> SUFFICES ASSUME RunInv PROVE InterruptsRestored
  BY Zenon DEF IInv
<1>1. NoPanic
  BY Zenon, LockCount, Sound DEF NoPanic
<1>2. ASSUME NEW c \in CPUs, cpu[c].on \in Procs, stack[cpu[c].on] = <<>> PROVE cpu[c].iflag
  <2>1. Top(Cur(c)) = "user"
    BY Zenon, <1>2 DEF Top, Cur
  <2> QED
    BY Zenon, <2>1, Ready DEF Ints, Flags
<1>3. ASSUME NEW c \in CPUs,
             NEW l \in {"fork", "copy", "publish", "wait", "kill", "sleep", "lock again", "sysret"}, At(c, l)
      PROVE  cpu[c].iflag
  <2>1. l \in Labels /\ l \in {"user", "sysret"} \cup OpenCalls
    BY Zenon DEF Labels, OpenCalls
  <2>2. Top(Cur(c)) = l
    BY Zenon, <1>3, <2>1, Here
  <2> QED
    BY Zenon, <2>1, <2>2, Ready DEF Ints, Flags
<1> QED
  BY Zenon, <1>1, <1>2, <1>3 DEF InterruptsRestored

LEMMA Awake == IInv => NoLostWakeup
<1> SUFFICES ASSUME RunInv, ParentInv, SleepInv PROVE NoLostWakeup
  BY Zenon DEF IInv, WakeInv
<1>1. ParentAlive
  <2>1. \A q \in Procs : q # NULL
    BY Zenon, Apart
  <2> QED
    BY Zenon, <2>1 DEF ParentAlive, ParentInv, Alive
<1>2. ASSUME tickslock = NULL, NEW p \in Procs, state[p] = "SLEEPING", chan[p] = Ticks PROVE left[p] > 0
  <2>1. \A c \in CPUs : tickslock # c
    BY Zenon, <1>2, Apart
  <2>2. \A c \in CPUs : Top(Cur(c)) # "wake"
    BY Zenon, <2>1, Ready DEF TicksHeld
  <2> QED
    BY Zenon, <1>2, <2>2 DEF SleepInv
<1> QED
  BY Zenon, <1>1, <1>2 DEF NoLostWakeup, SleepInv

\* swtch under ptable.lock: on any number of processors and with any programs, no kernel stack
\* is used by two processors, and a process is RUNNING exactly when a processor has it.
THEOREM Stacks == Spec => []StackExclusive
BY Start, Step, Exclusive, PTL DEF Spec

\* pushcli, popcli and the intena that sched keeps across swtch: a thread finds interrupts as it
\* left them on whatever processor it goes on, and no test of sched, acquire, release, popcli or
\* exit that panics is ever met.
THEOREM Interrupts == Spec => []InterruptsRestored
BY Start, Step, Restored, PTL DEF Spec

\* sleep, wakeup, exit, wait and kill: no process sleeps in wait with a zombie child, or after
\* it was killed, or for a clock that has passed, and every process has a parent that can wait
\* for it.
THEOREM Wakeups == Spec => []NoLostWakeup
BY Start, Step, Awake, PTL DEF Spec
=============================================================================
