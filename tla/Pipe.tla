-------------------------------- MODULE Pipe --------------------------------
(***************************************************************************)
(* Pipes: processes that read and write a circular buffer under the pipe's *)
(* spin lock and sleep when it is empty or full, and the reference counts  *)
(* of the two struct files through which they hold the pipe.               *)
(*                                                                         *)
(* sleep gives up the pipe's lock and marks the process asleep in one step *)
(* (module Proc); killed is not protected by the pipe's lock.              *)
(***************************************************************************)
EXTENDS Integers, Sequences, FiniteSets

CONSTANTS
  Procs, Maker,   \* processes, and the one that makes the pipe
  PIPESIZE,
  UINT,           \* nread and nwrite are unsigned and wrap at UINT
  Bytes,
  Counts,         \* byte counts of reads and writes
  Victims         \* processes that may be killed

None == "none"
Ends == {"r", "w"}

ASSUME PipeAssumption ==
  /\ PIPESIZE \in Nat \ {0} /\ UINT \in Nat /\ UINT > PIPESIZE /\ UINT % PIPESIZE = 0
  /\ IsFiniteSet(Procs) /\ None \notin Procs /\ Maker \in Procs /\ Victims \subseteq Procs
  /\ Bytes # {} /\ Counts \subseteq Nat

VARIABLES
  ref,                  \* ref of the struct file of each end
  open,                 \* the ends each process has descriptors for
  data, nread, nwrite, readopen, writeopen,
  lock,                 \* the process that holds p->lock
  freed,                \* the page of the pipe is not allocated
  pc, back,             \* where a process is, and where fileclose returns to
  end,                  \* the end fileclose is about to close
  todo,                 \* bytes a read or write has still to transfer
  got,                  \* bytes the read in progress has transferred
  killed,
  cut                   \* history: a killed writer left since the readers were last woken

pipe  == <<data, nread, nwrite, readopen, writeopen, freed>>
files == <<ref, open>>
call  == <<back, end, todo, got>>
vars  == <<files, pipe, lock, pc, call, killed, cut>>

\* Nobody has a pipe yet; the process that will make one runs.
Init ==
  /\ ref = [e \in Ends |-> 0]
  /\ open = [p \in Procs |-> {}]
  /\ data \in [0 .. (PIPESIZE - 1) -> {CHOOSE b \in Bytes : TRUE}]
  /\ nread = 0 /\ nwrite = 0 /\ readopen = FALSE /\ writeopen = FALSE
  /\ lock = None /\ freed = TRUE
  /\ pc = [p \in Procs |-> IF p = Maker THEN "user" ELSE "unused"]
  /\ back = [p \in Procs |-> "user"] /\ end = [p \in Procs |-> "r"]
  /\ todo = [p \in Procs |-> 0] /\ got = [p \in Procs |-> <<>>]
  /\ killed = [p \in Procs |-> FALSE] /\ cut = FALSE

Goto(p, l) == pc' = [pc EXCEPT ![p] = l]

\* Unsigned arithmetic.
uint(x) == x % UINT
Full  == nwrite = uint(nread + PIPESIZE)
Empty == nread = nwrite

\* wakeup(&p->nread), wakeup(&p->nwrite): the sleepers go for the lock and test again.
Wake(q, asleep, again) == [p \in Procs |-> IF q[p] = asleep THEN again ELSE q[p]]
NoReaderWoken(q) == q
WakeReaders(q) == Wake(q, "asleep reading", "read")
WakeWriters(q) == Wake(q, "asleep writing", "write")

-----------------------------------------------------------------------------
\* One reference for each of the two struct files.
filealloc == [e \in Ends |-> 1]

\* A fresh page for the pipe, open at both ends.
pipealloc ==
  /\ freed
  /\ ref' = filealloc
  /\ freed' = FALSE /\ readopen' = TRUE /\ writeopen' = TRUE
  /\ nread' = 0 /\ nwrite' = 0 /\ cut' = FALSE
  /\ UNCHANGED data

\* pipe(), one pipe at a time.  When there is no struct file, page or descriptor, what
\* was taken is given back, and nothing changes.
sys_pipe(p) ==
  /\ pc[p] = "user" /\ ~killed[p] /\ p = Maker
  /\ pipealloc
  /\ open' = [open EXCEPT ![p] = Ends]
  /\ UNCHANGED <<lock, pc, call, killed>>

\* What filedup adds for a child; the fault: the child shares its parent's references.
NotDuplicated(p) == ref
filedup(p) == [e \in Ends |-> ref[e] + (IF e \in open[p] THEN 1 ELSE 0)]

fork(p) ==
  /\ pc[p] = "user" /\ ~killed[p]
  /\ \E c \in Procs :
       /\ pc[c] = "unused"
       /\ open' = [open EXCEPT ![c] = open[p]]
       /\ ref' = filedup(p)
       /\ Goto(c, "user")
  /\ UNCHANGED <<pipe, lock, call, killed, cut>>

\* fileclose under ftable.lock; the last reference goes on to pipeclose.
fileclose(p, e, l) ==
  /\ e \in open[p]
  /\ open' = [open EXCEPT ![p] = @ \ {e}]
  /\ ref' = [ref EXCEPT ![e] = @ - 1]
  /\ IF ref[e] > 1
       THEN UNCHANGED <<pc, back, end>>
       ELSE /\ Goto(p, "pipeclose")
            /\ back' = [back EXCEPT ![p] = l]
            /\ end' = [end EXCEPT ![p] = e]
  /\ UNCHANGED <<pipe, lock, todo, got, killed, cut>>

close(p) == pc[p] = "user" /\ ~killed[p] /\ \E e \in Ends : fileclose(p, e, "user")

\* exit, by its own call or because the process was killed: close everything.
exit(p) ==
  /\ pc[p] = "user"
  /\ Goto(p, "exit")
  /\ UNCHANGED <<files, pipe, lock, call, killed, cut>>

closeall(p) ==
  /\ pc[p] = "exit"
  /\ \/ \E e \in Ends : fileclose(p, e, "exit")
     \/ /\ open[p] = {}
        /\ Goto(p, IF p = Maker THEN "user" ELSE "unused")
        /\ killed' = [killed EXCEPT ![p] = FALSE]
        /\ UNCHANGED <<files, pipe, lock, call, cut>>

pipeclose(p) ==
  /\ pc[p] = "pipeclose" /\ lock = None
  /\ \/ /\ end[p] = "w"
        /\ writeopen' = FALSE /\ UNCHANGED readopen
        /\ pc' = WakeReaders([pc EXCEPT ![p] = back[p]])
        /\ freed' = ~readopen
     \/ /\ end[p] = "r"
        /\ readopen' = FALSE /\ UNCHANGED writeopen
        /\ pc' = WakeWriters([pc EXCEPT ![p] = back[p]])
        /\ freed' = ~writeopen
  /\ UNCHANGED <<files, data, nread, nwrite, lock, call, killed, cut>>

-----------------------------------------------------------------------------
\* A write of n bytes: for the lock, now and after every sleep.
Write(p) ==
  /\ pc[p] = "user" /\ ~killed[p] /\ "w" \in open[p]
  /\ \E n \in Counts : todo' = [todo EXCEPT ![p] = n]
  /\ Goto(p, "write")
  /\ UNCHANGED <<files, pipe, lock, back, end, got, killed, cut>>

pipewrite(p) ==
  /\ pc[p] = "write" /\ lock = None
  /\ lock' = p
  /\ Goto(p, "writing")
  /\ UNCHANGED <<files, pipe, call, killed, cut>>

\* The pipe is full: give up, or wake the readers and sleep.
full(p) ==
  /\ pc[p] = "writing" /\ todo[p] > 0 /\ Full
  /\ \/ /\ ~readopen \/ killed[p]
        /\ lock' = None
        /\ todo' = [todo EXCEPT ![p] = 0]
        /\ Goto(p, "user")
        /\ cut' = (cut \/ killed[p])
     \/ /\ readopen /\ ~killed[p]
        /\ pc' = WakeReaders([pc EXCEPT ![p] = "sleep writing"])
        /\ cut' = FALSE
        /\ UNCHANGED <<lock, todo>>
  /\ UNCHANGED <<files, pipe, back, end, got, killed>>

\* One byte; the fault increments nwrite before it is used.
PreIncrement(p) ==
  /\ pc[p] = "writing" /\ todo[p] > 0 /\ ~Full
  /\ \E b \in Bytes : data' = [data EXCEPT ![(nwrite + 1) % PIPESIZE] = b]
  /\ nwrite' = uint(nwrite + 1)
  /\ todo' = [todo EXCEPT ![p] = @ - 1]
  /\ UNCHANGED <<files, nread, readopen, writeopen, freed, lock, pc, back, end, got, killed, cut>>

put(p) ==
  /\ pc[p] = "writing" /\ todo[p] > 0 /\ ~Full
  /\ \E b \in Bytes : data' = [data EXCEPT ![nwrite % PIPESIZE] = b]
  /\ nwrite' = uint(nwrite + 1)
  /\ todo' = [todo EXCEPT ![p] = @ - 1]
  /\ UNCHANGED <<files, nread, readopen, writeopen, freed, lock, pc, back, end, got, killed, cut>>

written(p) ==
  /\ pc[p] = "writing" /\ todo[p] = 0
  /\ pc' = WakeReaders([pc EXCEPT ![p] = "user"])
  /\ lock' = None /\ cut' = FALSE
  /\ UNCHANGED <<files, pipe, call, killed>>

\* sleep(chan, &p->lock), for readers and writers.
sleep(p) ==
  /\ \/ pc[p] = "sleep writing" /\ Goto(p, "asleep writing")
     \/ pc[p] = "sleep reading" /\ Goto(p, "asleep reading")
  /\ lock' = None
  /\ UNCHANGED <<files, pipe, call, killed, cut>>

-----------------------------------------------------------------------------
\* A read of n bytes.
Read(p) ==
  /\ pc[p] = "user" /\ ~killed[p] /\ "r" \in open[p]
  /\ \E n \in Counts : todo' = [todo EXCEPT ![p] = n]
  /\ Goto(p, "read")
  /\ UNCHANGED <<files, pipe, lock, back, end, got, killed, cut>>

piperead(p) ==
  /\ pc[p] = "read" /\ lock = None
  /\ lock' = p
  /\ Goto(p, "empty?")
  /\ UNCHANGED <<files, pipe, call, killed, cut>>

\* The loop at the head of piperead.  The fault: a killed reader leaves the loop and not
\* the function.
KilledBreaks(p) ==
  /\ pc[p] = "empty?"
  /\ Goto(p, IF Empty /\ writeopen /\ ~killed[p] THEN "sleep reading" ELSE "copying")
  /\ UNCHANGED <<files, pipe, lock, call, killed, cut>>

empty(p) ==
  /\ pc[p] = "empty?"
  /\ \/ /\ Empty /\ writeopen /\ killed[p]
        /\ Goto(p, "user")
        /\ lock' = None
        /\ todo' = [todo EXCEPT ![p] = 0]
     \/ /\ Empty /\ writeopen /\ ~killed[p]
        /\ Goto(p, "sleep reading")
        /\ UNCHANGED <<lock, todo>>
     \/ /\ ~Empty \/ ~writeopen
        /\ Goto(p, "copying")
        /\ UNCHANGED <<lock, todo>>
  /\ UNCHANGED <<files, pipe, back, end, got, killed, cut>>

get(p) ==
  /\ pc[p] = "copying" /\ todo[p] > 0 /\ ~Empty
  /\ got' = [got EXCEPT ![p] = Append(@, data[nread % PIPESIZE])]
  /\ nread' = uint(nread + 1)
  /\ todo' = [todo EXCEPT ![p] = @ - 1]
  /\ UNCHANGED <<files, data, nwrite, readopen, writeopen, freed, lock, pc, back, end, killed, cut>>

done(p) ==
  /\ pc[p] = "copying" /\ (todo[p] = 0 \/ Empty)
  /\ pc' = WakeWriters([pc EXCEPT ![p] = "user"])
  /\ lock' = None
  /\ got' = [got EXCEPT ![p] = <<>>]
  /\ todo' = [todo EXCEPT ![p] = 0]
  /\ UNCHANGED <<files, pipe, back, end, killed, cut>>

\* kill: the flag, and out of any sleep.
kill(p) ==
  /\ p \in Victims /\ pc[p] # "unused"
  /\ killed' = [killed EXCEPT ![p] = TRUE]
  /\ Goto(p, CASE pc[p] = "asleep writing" -> "write"
               [] pc[p] = "asleep reading" -> "read"
               [] OTHER -> pc[p])
  /\ UNCHANGED <<files, pipe, lock, call, cut>>

\* A step of process p in the kernel.
Kernel(p) ==
  \/ closeall(p) \/ pipeclose(p)
  \/ pipewrite(p) \/ full(p) \/ put(p) \/ written(p) \/ sleep(p)
  \/ piperead(p) \/ empty(p) \/ get(p) \/ done(p)

User(p) == sys_pipe(p) \/ fork(p) \/ close(p) \/ exit(p) \/ Write(p) \/ Read(p)

Next == \E p \in Procs : Kernel(p) \/ User(p) \/ kill(p)

Spec == Init /\ [][Next]_vars

-----------------------------------------------------------------------------
Labels == {"unused", "user", "exit", "pipeclose",
           "write", "writing", "sleep writing", "asleep writing",
           "read", "empty?", "copying", "sleep reading", "asleep reading"}

\* Every variable has its type; the wrapping counters are at most PIPESIZE apart.
TypeOK ==
  /\ ref \in [Ends -> Nat] /\ open \in [Procs -> SUBSET Ends]
  /\ data \in [0 .. (PIPESIZE - 1) -> Bytes]
  /\ nread \in 0 .. (UINT - 1) /\ nwrite \in 0 .. (UINT - 1)
  /\ uint(nwrite - nread) <= PIPESIZE
  /\ readopen \in BOOLEAN /\ writeopen \in BOOLEAN /\ freed \in BOOLEAN
  /\ lock \in Procs \cup {None}
  /\ pc \in [Procs -> Labels]
  /\ back \in [Procs -> {"user", "exit"}] /\ end \in [Procs -> Ends]
  /\ todo \in [Procs -> Nat] /\ got \in [Procs -> Seq(Bytes)]
  /\ killed \in [Procs -> BOOLEAN] /\ cut \in BOOLEAN

\* The circular buffer with its wrapping counters is a queue of bytes.
Stream == INSTANCE ByteStream WITH
  Capacity <- PIPESIZE, Readers <- Procs,
  queue <- [i \in 1 .. uint(nwrite - nread) |-> data[(nread + i - 1) % PIPESIZE]]

\* Readers get the bytes in the order written, none lost and none twice, when several
\* processes read and write in pieces, sleeping in between.
IsByteStream == Stream!SSpec

\* As long as a process has a descriptor of an end, the pipe is allocated and that end is
\* open, through any forks, closes and exits; and once the pipe is freed nobody is inside
\* piperead, pipewrite or pipeclose.
HeldIsOpen ==
  /\ TypeOK
  /\ \A p \in Procs : /\ "r" \in open[p] => readopen /\ ~freed
                      /\ "w" \in open[p] => writeopen /\ ~freed
  /\ freed => \A p \in Procs : pc[p] \in {"unused", "user", "exit"}

\* No wakeup is lost: whenever the lock is free, a sleeping writer's pipe is full with its
\* read end open, and a sleeping reader's pipe is empty with its write end open.  The one
\* exception is the code's: a writer that was killed and finds the pipe full returns
\* without waking the readers, who sleep on with bytes to read until the next wakeup.
NoLostWakeup ==
  lock = None =>
    \A p \in Procs : /\ pc[p] = "asleep reading" => writeopen /\ (Empty \/ cut)
                     /\ pc[p] = "asleep writing" => readopen /\ Full

\* A read that returns no bytes says end of file: the write end is closed for good.  A
\* reader that is woken and finds that another one took the bytes sleeps again.
EndOfFile ==
  [][\A p \in Procs :
       pc[p] = "copying" /\ pc'[p] = "user" /\ got[p] = <<>> /\ todo[p] > 0
         => ~writeopen]_vars
=============================================================================
