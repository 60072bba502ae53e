------------------------------- MODULE Inode -------------------------------
(***************************************************************************)
(* Inodes: the inode cache with its reference counts, the link counts and  *)
(* types on the disk, and the system calls open, link, unlink, close and   *)
(* read on the files of one directory.                                     *)
(*                                                                         *)
(* An action is a critical section of icache.lock, or a stretch of code    *)
(* under a sleep lock that touches nothing another process can see; the    *)
(* process waits while the lock is taken (module Disk has the waiting).    *)
(***************************************************************************)
EXTENDS Integers, FiniteSets, FiniteSetsExt

CONSTANTS
  Procs,
  Names,        \* file names in the directory
  NINODES,      \* inodes 1 .. NINODES on the disk
  NINODE        \* slots 1 .. NINODE of the inode cache

None  == 0
Inums == 1 .. NINODES
Slots == 1 .. NINODE
Nobody == "nobody"

ASSUME InodeAssumption ==
  /\ NINODES \in Nat \ {0} /\ NINODE \in Nat \ {0}
  /\ IsFiniteSet(Procs) /\ Nobody \notin Procs
  /\ IsFiniteSet(Names) /\ Names # {}

VARIABLES
  dinode,       \* the disk: type (0 is free) and nlink of each inode
  dir,          \* the inode each name of the directory refers to
  dirlock,      \* the process that has the directory's inode locked
  icache,       \* per slot: inum, ref, valid, type, nlink
  lock,         \* per slot: the process that has the inode locked
  file,         \* the slot of each process's open file
  pc, name, ip, \* the system call a process is in, its path, and its inode's slot
  put, back,    \* the argument of iput, and where it returns to
  raced,        \* history: inodes without links of which two references went at once
  panicked

call == <<name, ip, put, back>>
vars == <<dinode, dir, dirlock, icache, lock, file, pc, call, raced, panicked>>

T_FILE == 2

\* An empty directory.
Init ==
  /\ dinode = [i \in Inums |-> [type |-> 0, nlink |-> 0]]
  /\ dir = [n \in Names |-> None] /\ dirlock = Nobody
  /\ icache = [s \in Slots |-> [inum |-> None, ref |-> 0, valid |-> FALSE, type |-> 0, nlink |-> 0]]
  /\ lock = [s \in Slots |-> Nobody]
  /\ file = [p \in Procs |-> None]
  /\ pc = [p \in Procs |-> "user"] /\ name = [p \in Procs |-> CHOOSE n \in Names : TRUE]
  /\ ip = [p \in Procs |-> None]
  /\ put = [p \in Procs |-> None] /\ back = [p \in Procs |-> "user"]
  /\ raced = {} /\ panicked = "no"

Goto(p, l) == pc' = [pc EXCEPT ![p] = l]
Panic(why) == panicked' = why /\ UNCHANGED <<dinode, dir, dirlock, icache, lock, file, pc, call, raced>>

-----------------------------------------------------------------------------
\* iget: the slot that has inode i, or else the first free one.  The fault: an inode
\* that is cached is not looked for.
NoHits(i) == {}
Hits(i) == {s \in Slots : icache[s].inum = i /\ icache[s].ref > 0}
Free == {s \in Slots : icache[s].ref = 0}
Slot(i) == Min(IF Hits(i) # {} THEN Hits(i) ELSE Free)
iget(i) ==
  LET s == Slot(i)
  IN  [icache EXCEPT ![s] = IF Hits(i) # {} THEN [icache[s] EXCEPT !.ref = icache[s].ref + 1]
                            ELSE [icache[s] EXCEPT !.inum = i, !.ref = 1, !.valid = FALSE]]
CanGet(i) == Hits(i) # {} \/ Free # {}

\* What ilock leaves in slot s: the inode as it is on the disk.
Locked(s) ==
  IF icache[s].valid THEN icache[s]
  ELSE [icache[s] EXCEPT !.valid = TRUE, !.type = dinode[icache[s].inum].type,
                         !.nlink = dinode[icache[s].inum].nlink]

\* ilock of slot s, with its two panics; what to do with the lock held is up to the caller.
ilock(s, body) ==
  /\ lock[s] = Nobody
  /\ IF icache[s].ref < 1 THEN Panic("ilock")
     ELSE IF ~icache[s].valid /\ Locked(s).type = 0 THEN Panic("ilock: no type")
     ELSE body

\* Change nlink in the slot and, by iupdate, on the disk.  The fault: no iupdate.
OnlyInCache(s, n) ==
  /\ icache' = [icache EXCEPT ![s] = [Locked(s) EXCEPT !.nlink = n]]
  /\ UNCHANGED dinode
SetLinks(s, n) ==
  /\ icache' = [icache EXCEPT ![s] = [Locked(s) EXCEPT !.nlink = n]]
  /\ dinode' = [dinode EXCEPT ![icache[s].inum] = [type |-> Locked(s).type, nlink |-> n]]

Put(p, s, l) ==
  /\ put' = [put EXCEPT ![p] = s]
  /\ back' = [back EXCEPT ![p] = l]
  /\ Goto(p, "iput")

-----------------------------------------------------------------------------
\* namei: look the name up under the directory's lock and get its inode.
namei(p, n, l) ==
  /\ dirlock = Nobody /\ dir[n] # None
  /\ IF ~CanGet(dir[n]) THEN Panic("iget: no inodes")
     ELSE /\ icache' = iget(dir[n])
          /\ ip' = [ip EXCEPT ![p] = Slot(dir[n])]
          /\ Goto(p, l)
          /\ UNCHANGED <<dinode, dir, dirlock, lock, file, put, back, raced, panicked>>

\* open of a file that exists, also with O_CREATE.
Open(p) ==
  /\ pc[p] = "user" /\ file[p] = None
  /\ \E n \in Names : namei(p, n, "open") /\ UNCHANGED name

\* The rest of sys_open, with or without a free struct file and descriptor.
sys_open(p) ==
  /\ pc[p] = "open"
  /\ ilock(ip[p],
       /\ icache' = [icache EXCEPT ![ip[p]] = Locked(ip[p])]
       /\ \/ file' = [file EXCEPT ![p] = ip[p]] /\ Goto(p, "user") /\ UNCHANGED <<put, back>>
          \/ Put(p, ip[p], "user") /\ UNCHANGED file
       /\ UNCHANGED <<dinode, dir, dirlock, lock, name, ip, raced, panicked>>)

\* open, link or unlink of a name that is not there.
Missing(p) ==
  /\ pc[p] = "user" /\ dirlock = Nobody
  /\ \E n \in Names : dir[n] = None
  /\ UNCHANGED vars

\* create, with the directory locked from here to its end.
create(p) ==
  /\ pc[p] = "user" /\ file[p] = None
  /\ \E n \in Names : dir[n] = None /\ name' = [name EXCEPT ![p] = n]
  /\ dirlock = Nobody /\ dirlock' = p
  /\ ip' = [ip EXCEPT ![p] = 1]
  /\ Goto(p, "ialloc")
  /\ UNCHANGED <<dinode, dir, icache, lock, file, put, back, raced, panicked>>

\* One turn of ialloc's scan of the inodes; ip is the number it has come to.  It panics at the
\* end of the disk, also when an inode behind it has been freed meanwhile.
ialloc(p) ==
  /\ pc[p] = "ialloc"
  /\ LET i == ip[p]
     IN  IF i \notin Inums THEN Panic("ialloc: no inodes")
         ELSE /\ IF dinode[i].type = 0
                 THEN /\ dinode' = [dinode EXCEPT ![i] = [type |-> T_FILE, nlink |-> 0]]
                      /\ Goto(p, "ialloced")
                      /\ UNCHANGED ip
                 ELSE ip' = [ip EXCEPT ![p] = i + 1] /\ UNCHANGED <<dinode, pc>>
              /\ UNCHANGED <<dir, dirlock, icache, lock, file, name, put, back, raced, panicked>>

\* ialloc's iget.
ialloced(p) ==
  /\ pc[p] = "ialloced"
  /\ IF ~CanGet(ip[p]) THEN Panic("iget: no inodes")
     ELSE /\ icache' = iget(ip[p])
          /\ ip' = [ip EXCEPT ![p] = Slot(ip[p])]
          /\ Goto(p, "created")
          /\ UNCHANGED <<dinode, dir, dirlock, lock, file, name, put, back, raced, panicked>>

\* The rest of create, and of sys_open.
created(p) ==
  /\ pc[p] = "created"
  /\ ilock(ip[p],
       /\ SetLinks(ip[p], 1)
       /\ dir' = [dir EXCEPT ![name[p]] = icache[ip[p]].inum]
       /\ dirlock' = Nobody
       /\ \/ file' = [file EXCEPT ![p] = ip[p]] /\ Goto(p, "user") /\ UNCHANGED <<put, back>>
          \/ Put(p, ip[p], "user") /\ UNCHANGED file
       /\ UNCHANGED <<lock, name, ip, raced, panicked>>)

-----------------------------------------------------------------------------
\* link(old, new): the link is counted before it is made.
Link(p) ==
  /\ pc[p] = "user"
  /\ \E old, new \in Names : namei(p, old, "link") /\ name' = [name EXCEPT ![p] = new]

sys_link(p) ==
  /\ pc[p] = "link"
  /\ ilock(ip[p],
       /\ SetLinks(ip[p], Locked(ip[p]).nlink + 1)
       /\ Goto(p, "dirlink")
       /\ UNCHANGED <<dir, dirlock, lock, file, call, raced, panicked>>)

\* dirlink, under the directory's lock.  A name that is taken is looked up and its inode
\* put back with the lock held.
dirlink(p) ==
  /\ pc[p] = "dirlink" /\ dirlock = Nobody
  /\ LET i == dir[name[p]]
     IN  IF i # None /\ ~CanGet(i) THEN Panic("iget: no inodes")
         ELSE /\ IF i = None
                 THEN /\ dir' = [dir EXCEPT ![name[p]] = icache[ip[p]].inum]
                      /\ Put(p, ip[p], "user")
                      /\ UNCHANGED <<dirlock, icache>>
                 ELSE /\ dirlock' = p
                      /\ icache' = iget(i)
                      /\ Put(p, Slot(i), "taken")
                      /\ UNCHANGED dir
              /\ UNCHANGED <<dinode, lock, file, name, ip, raced, panicked>>

\* The label bad of sys_link.
taken(p) ==
  /\ pc[p] = "taken"
  /\ dirlock' = Nobody
  /\ Goto(p, "bad")
  /\ UNCHANGED <<dinode, dir, icache, lock, file, call, raced, panicked>>

bad(p) ==
  /\ pc[p] = "bad"
  /\ ilock(ip[p],
       /\ SetLinks(ip[p], Locked(ip[p]).nlink - 1)
       /\ Put(p, ip[p], "user")
       /\ UNCHANGED <<dir, dirlock, lock, file, name, ip, raced, panicked>>)

-----------------------------------------------------------------------------
\* unlink: look the name up and keep the directory locked.
Unlink(p) ==
  /\ pc[p] = "user" /\ dirlock = Nobody
  /\ \E n \in Names :
       /\ dir[n] # None
       /\ IF ~CanGet(dir[n]) THEN Panic("iget: no inodes")
          ELSE /\ icache' = iget(dir[n])
               /\ ip' = [ip EXCEPT ![p] = Slot(dir[n])]
               /\ name' = [name EXCEPT ![p] = n]
               /\ dirlock' = p
               /\ Goto(p, "unlink")
               /\ UNCHANGED <<dinode, dir, lock, file, put, back, raced, panicked>>

\* Erase the entry, with the inode locked, and unlock the directory.
sys_unlink(p) ==
  /\ pc[p] = "unlink"
  /\ ilock(ip[p],
       IF Locked(ip[p]).nlink < 1 THEN Panic("unlink: nlink < 1")
       ELSE /\ icache' = [icache EXCEPT ![ip[p]] = Locked(ip[p])]
            /\ lock' = [lock EXCEPT ![ip[p]] = p]
            /\ dir' = [dir EXCEPT ![name[p]] = None]
            /\ dirlock' = Nobody
            /\ Goto(p, "unlinked")
            /\ UNCHANGED <<dinode, file, call, raced, panicked>>)

unlinked(p) ==
  /\ pc[p] = "unlinked"
  /\ SetLinks(ip[p], icache[ip[p]].nlink - 1)
  /\ lock' = [lock EXCEPT ![ip[p]] = Nobody]
  /\ Put(p, ip[p], "user")
  /\ UNCHANGED <<dir, dirlock, file, name, ip, raced, panicked>>

-----------------------------------------------------------------------------
\* read, or anything else that locks an open file.
fileread(p) ==
  /\ pc[p] = "user" /\ file[p] # None
  /\ ilock(file[p],
       /\ icache' = [icache EXCEPT ![file[p]] = Locked(file[p])]
       /\ UNCHANGED <<dinode, dir, dirlock, lock, file, pc, call, raced, panicked>>)

\* The last close of the file.
fileclose(p) ==
  /\ pc[p] = "user" /\ file[p] # None
  /\ file' = [file EXCEPT ![p] = None]
  /\ Put(p, file[p], "user")
  /\ UNCHANGED <<dinode, dir, dirlock, icache, lock, name, ip, raced, panicked>>

-----------------------------------------------------------------------------
\* iput: lock the inode and see whether this is the last reference.  The fault:
\* the count is expected to be 0 already.
FreesNever(s) == icache[s].valid /\ icache[s].nlink = 0 /\ icache[s].ref = 0
Last(s) == icache[s].valid /\ icache[s].nlink = 0 /\ icache[s].ref = 1

Unlinked(s) == icache[s].valid /\ icache[s].nlink = 0
iput(p) ==
  /\ pc[p] = "iput" /\ lock[put[p]] = Nobody
  /\ \/ Last(put[p]) /\ lock' = [lock EXCEPT ![put[p]] = p] /\ Goto(p, "itrunc")
     \/ ~Last(put[p]) /\ Goto(p, "drop") /\ UNCHANGED lock
  /\ raced' = IF Unlinked(put[p]) /\ \E q \in Procs : pc[q] = "drop" /\ put[q] = put[p]
              THEN raced \cup {icache[put[p]].inum} ELSE raced
  /\ UNCHANGED <<dinode, dir, dirlock, icache, file, call, panicked>>

\* itrunc, and the free type put on the disk.
itrunc(p) ==
  /\ pc[p] = "itrunc"
  /\ icache' = [icache EXCEPT ![put[p]].type = 0]
  /\ dinode' = [dinode EXCEPT ![icache[put[p]].inum].type = 0]
  /\ raced' = raced \ {icache[put[p]].inum}
  /\ Goto(p, "freed")
  /\ UNCHANGED <<dir, dirlock, lock, file, call, panicked>>

\* The cached copy is good for nothing from now on.  The fault: it stays valid.
StaysValid(p) ==
  /\ pc[p] = "freed"
  /\ lock' = [lock EXCEPT ![put[p]] = Nobody]
  /\ Goto(p, "drop")
  /\ UNCHANGED <<dinode, dir, dirlock, icache, file, call, raced, panicked>>
freed(p) ==
  /\ pc[p] = "freed"
  /\ icache' = [icache EXCEPT ![put[p]].valid = FALSE]
  /\ lock' = [lock EXCEPT ![put[p]] = Nobody]
  /\ Goto(p, "drop")
  /\ UNCHANGED <<dinode, dir, dirlock, file, call, raced, panicked>>

\* The reference goes in a critical section of its own.
drop(p) ==
  /\ pc[p] = "drop"
  /\ icache' = [icache EXCEPT ![put[p]].ref = @ - 1]
  /\ Goto(p, back[p])
  /\ UNCHANGED <<dinode, dir, dirlock, lock, file, call, raced, panicked>>

-----------------------------------------------------------------------------
Step(p) ==
  \/ Open(p) \/ sys_open(p) \/ Missing(p)
  \/ create(p) \/ ialloc(p) \/ ialloced(p) \/ created(p)
  \/ Link(p) \/ sys_link(p) \/ dirlink(p) \/ taken(p) \/ bad(p)
  \/ Unlink(p) \/ sys_unlink(p) \/ unlinked(p)
  \/ fileread(p) \/ fileclose(p)
  \/ iput(p) \/ itrunc(p) \/ freed(p) \/ drop(p)

\* After a panic the kernel spins.  The iput of the directory itself, which never frees
\* it but takes its lock and may wait for ever, is module Tree's.
Next ==
  \/ panicked = "no" /\ \E p \in Procs : Step(p)
  \/ panicked # "no" /\ UNCHANGED vars
Spec == Init /\ [][Next]_vars

-----------------------------------------------------------------------------
\* Every variable has its type.
TypeOK ==
  /\ dinode \in [Inums -> [type : {0, T_FILE}, nlink : Nat]]
  /\ dir \in [Names -> Inums \cup {None}]
  /\ dirlock \in Procs \cup {Nobody}
  /\ icache \in [Slots -> [inum : Inums \cup {None}, ref : Nat, valid : BOOLEAN,
                           type : {0, T_FILE}, nlink : Nat]]
  /\ lock \in [Slots -> Procs \cup {Nobody}]
  /\ file \in [Procs -> Slots \cup {None}]
  /\ raced \subseteq Inums /\ name \in [Procs -> Names]
  /\ put \in [Procs -> Slots \cup {None}]

\* The states of a process in which ip is a reference of its own, put being another or
\* the same one.
HasIp == {"open", "created", "link", "dirlink", "taken", "bad", "unlink", "unlinked"}
Putting == {"iput", "itrunc", "freed", "drop"}
KeepsIp(p) == pc[p] \in HasIp \/ (pc[p] \in Putting /\ back[p] = "taken")

\* The references the processes have to slot s: as open files, in the variable ip of a
\* system call, and as the argument of iput.
Opens(s) == {p \in Procs : file[p] = s}
Walks(s) == {p \in Procs : KeepsIp(p) /\ ip[p] = s}
Puts(s)  == {p \in Procs : pc[p] \in Putting /\ put[p] = s}
Refs(s)  == Cardinality(Opens(s)) + Cardinality(Walks(s)) + Cardinality(Puts(s))

\* ref counts exactly the pointers of the processes to the slot, and an inode has at most
\* one slot in use, whatever calls of iget and iput run at once (fs.c:238-272).
RefsCounted ==
  /\ TypeOK
  /\ \A s \in Slots : icache[s].ref = Refs(s)
  /\ \A s, t \in Slots :
       icache[s].ref > 0 /\ icache[t].ref > 0 /\ icache[s].inum = icache[t].inum => s = t

\* The entries of the directory for inode i, and the links that are counted and not made
\* or unmade and still counted.
Entries(i) == {n \in Names : dir[n] = i}
Pending(i) ==
  {p \in Procs : /\ \/ pc[p] \in {"dirlink", "taken", "bad", "unlinked"}
                    \/ pc[p] \in Putting /\ back[p] = "taken"
                 /\ icache[ip[p]].inum = i}

\* A name always refers to an allocated inode, and an allocated inode's link count on the
\* disk is the number of its names, but for the calls of link and unlink under way: link
\* counts first and enters the name later, unlink erases the name first (sysfile.c:140-151,
\* 219-229).
LinksCounted ==
  \A i \in Inums :
    /\ dinode[i].type = 0 => Entries(i) = {} /\ Pending(i) = {}
    /\ dinode[i].type # 0 => dinode[i].nlink = Cardinality(Entries(i)) + Cardinality(Pending(i))

\* The cache is write-through (fs.c:216-219): the copy in a slot that is valid is what the
\* disk has, also when the inode has been freed and allocated again meanwhile.
WriteThrough ==
  \A s \in Slots :
    icache[s].ref > 0 /\ icache[s].valid /\ lock[s] = Nobody =>
      dinode[icache[s].inum] = [type |-> icache[s].type, nlink |-> icache[s].nlink]

\* The panics of a cache and of a disk that are full.
Full == {"iget: no inodes", "ialloc: no inodes"}

\* iput frees an inode without links when its last reference goes and not before (fs.c:327-328,
\* 339-346): the inode of an open file stays allocated after its last name is gone, and no
\* inode is allocated with neither a link nor a reference.  There is one exception in the
\* code: it looks at ref and decrements it in two critical sections, and of two calls that
\* drop the last two references at once each takes the other for the one that will free
\* (fs.c:337-351).  No process meets an inode that was freed under it: of the panics only those of a
\* full cache and a full disk are reached, not ilock's of a free or unreferenced inode nor
\* unlink's of an inode without links (fs.c:294, 310, sysfile.c:212).
FreedAtLast ==
  /\ panicked \in {"no"} \cup Full
  /\ \A p \in Procs : file[p] # None => dinode[icache[file[p]].inum].type # 0
  /\ \A i \in Inums \ raced :
       dinode[i].type # 0 /\ dinode[i].nlink = 0 =>
         \/ \E s \in Slots : icache[s].ref > 0 /\ icache[s].inum = i
         \/ \E p \in Procs : pc[p] = "ialloced" /\ ip[p] = i
=============================================================================
