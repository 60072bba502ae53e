------------------------------- MODULE MCProc -------------------------------
(***************************************************************************)
(* Instances of Proc for TLC.                                              *)
(***************************************************************************)
EXTENDS Proc
OneTick == {1}

\* initproc forks and waits; its child forks and waits; the grandchild, which initproc
\* inherits when its parent exits, sleeps and kills.
Family == <<{"fork", "wait"}, {"fork", "wait", "exit"}, {"sleep", "kill", "exit"}>>

\* The view leaves out what is overwritten before it is read: intena outside pushcli and
\* popcli, the local of sched outside sched, the cursor outside the scan.
Live ==
  << table, stack, np, left, ptlock, tickslock,
     [p \in Procs |-> stack[p] # <<>> /\ Head(stack[p]) = "swtch" /\ saved[p]],
     [c \in CPUs |->
        [cpu[c] EXCEPT !.intena = @ /\ cpu[c].ncli > 0,
                       !.cursor = IF Head(stack[Sched(c)]) = "scan" THEN @ ELSE 0]] >>
=============================================================================
