---------------------------- MODULE AtomicDisk ----------------------------
(***************************************************************************)
(* What the log promises the file system: a crash leaves the disk as it    *)
(* was at some instant when no file system call was in progress, so that a *)
(* call's writes survive all together or not at all.                       *)
(***************************************************************************)
CONSTANTS Blocks, Values, Zero, Calls

VARIABLES
  current,   \* the contents of the blocks as file system calls see them
  stable,    \* the contents a crash would leave
  active     \* the calls in progress

dvars == <<current, stable, active>>

DInit ==
  /\ current = [b \in Blocks |-> Zero]
  /\ stable = current
  /\ active = {}

Begin == \E c \in Calls \ active : active' = active \cup {c} /\ UNCHANGED <<current, stable>>
End   == \E c \in active : active' = active \ {c} /\ UNCHANGED <<current, stable>>

Write ==
  /\ active # {}
  /\ \E b \in Blocks, x \in Values : current' = [current EXCEPT ![b] = x]
  /\ UNCHANGED <<stable, active>>

Commit == active = {} /\ stable' = current /\ UNCHANGED <<current, active>>

Crash == current' = stable /\ active' = {} /\ UNCHANGED stable

DNext == Begin \/ End \/ Write \/ Commit \/ Crash

DSpec == DInit /\ [][DNext]_dvars
=============================================================================
