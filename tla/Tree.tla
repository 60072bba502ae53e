-------------------------------- MODULE Tree --------------------------------
(***************************************************************************)
(* The directory tree: path lookup with its locks, and the system calls    *)
(* open with O_CREATE, mkdir, link, unlink and chdir.                      *)
(*                                                                         *)
(* An action is a stretch of code from one wait for an inode's lock to the *)
(* next.  A reference to an inode is a pointer of a process to it; that    *)
(* the cache counts them right is module Inode's.                          *)
(***************************************************************************)
EXTENDS Integers, Sequences, FiniteSets, FiniteSetsExt

CONSTANTS
  Procs,
  Names,        \* names of files and directories
  NINODES,      \* inodes 1 .. NINODES
  Calls         \* the system calls made: [op, path, new], new being the second path of link

ROOTINO == 1
T_DIR   == 1
T_FILE  == 2
None    == 0
Nobody  == "nobody"
Inums   == 1 .. NINODES
ROOT    == "/"
DOT     == "."
DOTDOT  == ".."
Fields  == {"cwd", "walk", "dp", "obj", "x"}

ASSUME TreeAssumption ==
  NINODES \in Nat \ {0} /\ Names \cap {ROOT, DOT, DOTDOT} = {}

VARIABLES
  node,         \* type (0 is free) and nlink of each inode
  ent,          \* the entries of each directory but "."
  lock,         \* per inode: the process that has it locked
  ptr,          \* per process: its current directory, and the pointers of its call: the inode
                \* namex has come to, the parent, the inode the call is about, one to put back
  pc, call,
  path, name,   \* the rest of the path, and the element namex has taken off it last
  todo, back,   \* the pointers iput is to be called for, and where it returns to
  late,         \* history: inodes that were given a name in a directory that had been removed
  panicked

local == <<pc, call, path, name, todo, back>>
vars  == <<node, ent, lock, ptr, local, late, panicked>>

NoEntries == [e \in Names \cup {DOTDOT} |-> None]

\* The disk mkfs makes, with the root directory only, and every process in it.
Init ==
  /\ node = [i \in Inums |-> IF i = ROOTINO THEN [type |-> T_DIR, nlink |-> 1] ELSE [type |-> 0, nlink |-> 0]]
  /\ ent = [i \in Inums |-> IF i = ROOTINO THEN [NoEntries EXCEPT ![DOTDOT] = ROOTINO] ELSE NoEntries]
  /\ lock = [i \in Inums |-> Nobody]
  /\ ptr = [p \in Procs |-> [f \in Fields |-> IF f = "cwd" THEN ROOTINO ELSE None]]
  /\ pc = [p \in Procs |-> "user"] /\ call = [p \in Procs |-> CHOOSE c \in Calls : TRUE]
  /\ path = [p \in Procs |-> <<>>] /\ name = [p \in Procs |-> DOT]
  /\ todo = [p \in Procs |-> <<>>] /\ back = [p \in Procs |-> "user"]
  /\ late = {} /\ panicked = "no"

Goto(p, l) == pc' = [pc EXCEPT ![p] = l]
Panic(why) == panicked' = why /\ UNCHANGED <<node, ent, lock, ptr, local, late>>

\* dirlookup.
Find(i, e) == IF e = DOT THEN i ELSE ent[i][e]

\* iput each of the fields fs, then go on at l.
Put(p, fs, l) ==
  /\ todo' = [todo EXCEPT ![p] = fs]
  /\ back' = [back EXCEPT ![p] = l]
  /\ Goto(p, "iput")

\* Set field f of p to i, and the same with a second field.
Set(p, f, i) == ptr' = [ptr EXCEPT ![p][f] = i]
Move(p, f, g, i) == ptr' = [ptr EXCEPT ![p][f] = i, ![p][g] = ptr[p][f]]

\* ilock of field f with its panic; what to do with the lock held is up to the caller.
ilock(p, f, body) ==
  /\ lock[ptr[p][f]] = Nobody
  /\ IF node[ptr[p][f]].type = 0 THEN Panic("ilock: no type") ELSE body

-----------------------------------------------------------------------------
\* namex starts at the root or the current directory.
Start(p, s) ==
  LET absolute == s # <<>> /\ s[1] = ROOT
  IN  /\ Set(p, "walk", IF absolute THEN ROOTINO ELSE ptr[p]["cwd"])
      /\ path' = [path EXCEPT ![p] = IF absolute THEN Tail(s) ELSE s]
      /\ name' = [name EXCEPT ![p] = DOT]
      /\ Goto(p, "namex")

\* A system call.
Call(p) ==
  /\ pc[p] = "user"
  /\ \E c \in Calls : call' = [call EXCEPT ![p] = c] /\ Start(p, c.path)
  /\ UNCHANGED <<node, ent, lock, todo, back, late, panicked>>

\* The second path of link, and the paths of create and unlink, are looked up to the parent.
Second(p) == call[p].op = "link" /\ ptr[p]["obj"] # None
Parent(p) == call[p].op \in {"create", "mkdir", "unlink"} \/ Second(p)
Then(p) == IF Second(p) THEN "dirlink" ELSE IF call[p].op = "mkdir" THEN "create" ELSE call[p].op
Fail(p) == IF Second(p) THEN "bad" ELSE "user"

\* A path without an element.
namexEnd(p) ==
  /\ pc[p] = "namex" /\ path[p] = <<>>
  /\ IF Parent(p) THEN Put(p, <<"walk">>, Fail(p)) /\ UNCHANGED ptr
     ELSE Move(p, "walk", "obj", None) /\ Goto(p, Then(p)) /\ UNCHANGED <<todo, back>>
  /\ UNCHANGED <<node, ent, lock, call, path, name, late, panicked>>

\* The path is the sequence of its elements.
skipelem(p) == Head(path[p])

\* One element of the path, with what namex returns if it is the last.
namex(p) ==
  /\ pc[p] = "namex" /\ path[p] # <<>>
  /\ ilock(p, "walk",
       LET i == ptr[p]["walk"]
           e == skipelem(p)
       IN  /\ name' = [name EXCEPT ![p] = e]
           /\ path' = [path EXCEPT ![p] = Tail(@)]
           /\ IF node[i].type # T_DIR THEN Put(p, <<"walk">>, Fail(p)) /\ UNCHANGED ptr
              ELSE IF Parent(p) /\ Len(path[p]) = 1
              THEN Move(p, "walk", "dp", None) /\ Goto(p, Then(p)) /\ UNCHANGED <<todo, back>>
              ELSE IF Find(i, e) = None THEN Put(p, <<"walk">>, Fail(p)) /\ UNCHANGED ptr
              ELSE IF Len(path[p]) = 1
              THEN Set(p, "obj", Find(i, e)) /\ Put(p, <<"walk">>, Then(p))
              ELSE Move(p, "walk", "x", Find(i, e)) /\ Put(p, <<"x">>, "namex")
           /\ UNCHANGED <<node, ent, lock, call, late, panicked>>)

-----------------------------------------------------------------------------
\* The pointers to inode i.
Refs(i) == {x \in Procs \X Fields : ptr[x[1]][x[2]] = i}

\* p's field f is the only pointer to its inode.
Last(p, f) == Refs(ptr[p][f]) = {<<p, f>>}

\* iput: the last pointer to an inode without links frees it, and with a directory go the
\* names in it.
iput(p) ==
  /\ pc[p] = "iput"
  /\ LET f == todo[p][1]
         i == ptr[p][f]
     IN  /\ lock[i] = Nobody
         /\ IF node[i].type # 0 /\ node[i].nlink = 0 /\ Last(p, f)
            THEN /\ node' = [node EXCEPT ![i].type = 0]
                 /\ ent' = [ent EXCEPT ![i] = NoEntries]
                 /\ late' = late \ {i}
            ELSE UNCHANGED <<node, ent, late>>
  /\ Goto(p, "drop")
  /\ UNCHANGED <<lock, ptr, call, path, name, todo, back, panicked>>

\* The pointer goes in a critical section of its own.
drop(p) ==
  /\ pc[p] = "drop"
  /\ Set(p, todo[p][1], None)
  /\ todo' = [todo EXCEPT ![p] = Tail(@)]
  /\ Goto(p, IF Len(todo[p]) = 1 THEN back[p] ELSE "iput")
  /\ UNCHANGED <<node, ent, lock, call, path, name, back, late, panicked>>

-----------------------------------------------------------------------------
\* What create writes for a new inode j in directory d.
Make(p, d, j, t) ==
  /\ node' = [node EXCEPT ![j] = [type |-> t, nlink |-> 1],
                          ![d].nlink = IF t = T_DIR THEN @ + 1 ELSE @]
  /\ ent' = [ent EXCEPT ![d][name[p]] = j, ![j][DOTDOT] = IF t = T_DIR THEN d ELSE None]

\* The entries for inode i.
Entries(i) == {x \in Inums \X Names : ent[x[1]][x[2]] = i}

\* History: inode i is entered in directory d.
Enter(d, i) == late' = IF d # ROOTINO /\ Entries(d) = {} THEN late \cup {i} ELSE late

\* create, under the parent's lock, with the panic of ialloc on a full disk.  The new inode is
\* locked when the parent is put.
create(p) ==
  /\ pc[p] = "create"
  /\ ilock(p, "dp",
       LET d == ptr[p]["dp"]
           i == Find(d, name[p])
           free == {k \in Inums : node[k].type = 0}
       IN  \/ i = None /\ free = {} /\ Panic("ialloc: no inodes")
           \/ /\ \/ /\ i # None
                    /\ Set(p, "obj", i)
                    /\ Put(p, <<"dp">>, "exists")
                    /\ UNCHANGED <<node, ent, lock, late>>
                 \/ /\ i = None /\ free # {}
                    /\ Make(p, d, Min(free), IF call[p].op = "mkdir" THEN T_DIR ELSE T_FILE)
                    /\ lock' = [lock EXCEPT ![Min(free)] = p]
                    /\ Set(p, "obj", Min(free))
                    /\ Enter(d, Min(free))
                    /\ Put(p, <<"dp">>, "created")
              /\ UNCHANGED <<call, path, name, panicked>>)

exists(p) ==
  /\ pc[p] = "exists"
  /\ ilock(p, "obj",
       /\ Put(p, <<"obj">>, "user")
       /\ UNCHANGED <<node, ent, lock, ptr, call, path, name, late, panicked>>)

\* The rest of mkdir, or of open and close.
created(p) ==
  /\ pc[p] = "created"
  /\ lock' = [lock EXCEPT ![ptr[p]["obj"]] = Nobody]
  /\ Put(p, <<"obj">>, "user")
  /\ UNCHANGED <<node, ent, ptr, call, path, name, late, panicked>>

-----------------------------------------------------------------------------
\* "." and ".." stay.  The fault: they do not.
AnyName(e) == TRUE
Removable(e) == e \notin {DOT, DOTDOT}

\* unlink, with the parent locked from here on.
unlink(p) ==
  /\ pc[p] = "unlink"
  /\ ilock(p, "dp",
       LET d == ptr[p]["dp"]
           i == IF Removable(name[p]) THEN Find(d, name[p]) ELSE None
       IN  /\ IF i = None THEN Put(p, <<"dp">>, "user") /\ UNCHANGED <<lock, ptr>>
              ELSE /\ lock' = [lock EXCEPT ![d] = p]
                   /\ Set(p, "obj", i)
                   /\ Goto(p, "erase")
                   /\ UNCHANGED <<todo, back>>
           /\ UNCHANGED <<node, ent, call, path, name, late, panicked>>)

\* The fault: any directory is taken for empty.
AnyEmpty(i) == TRUE
isdirempty(i) == \A e \in Names : ent[i][e] = None

\* The inode locked as well: erase the entry.  It is still locked when the parent is put.
erase(p) ==
  /\ pc[p] = "erase"
  /\ ilock(p, "obj",
       LET d == ptr[p]["dp"]
           i == ptr[p]["obj"]
       IN  IF node[i].nlink < 1 THEN Panic("unlink: nlink < 1")
           ELSE /\ IF node[i].type = T_DIR /\ ~isdirempty(i)
                   THEN Put(p, <<"obj">>, "bad_unlink") /\ UNCHANGED <<node, ent, lock>>
                   ELSE /\ ent' = [ent EXCEPT ![d][name[p]] = None]
                        /\ node' = [node EXCEPT ![d].nlink = IF node[i].type = T_DIR THEN @ - 1 ELSE @]
                        /\ lock' = [lock EXCEPT ![d] = Nobody, ![i] = p]
                        /\ Put(p, <<"dp">>, "unlinked")
                /\ UNCHANGED <<ptr, call, path, name, late, panicked>>)

unlinked(p) ==
  /\ pc[p] = "unlinked"
  /\ node' = [node EXCEPT ![ptr[p]["obj"]].nlink = @ - 1]
  /\ lock' = [lock EXCEPT ![ptr[p]["obj"]] = Nobody]
  /\ Put(p, <<"obj">>, "user")
  /\ UNCHANGED <<ent, ptr, call, path, name, late, panicked>>

\* The label bad of sys_unlink, and the end of a dirlink that failed.
unlockparent(p) ==
  /\ pc[p] \in {"bad_unlink", "taken"}
  /\ lock' = [lock EXCEPT ![ptr[p]["dp"]] = Nobody]
  /\ Put(p, <<"dp">>, IF pc[p] = "taken" THEN "bad" ELSE "user")
  /\ UNCHANGED <<node, ent, ptr, call, path, name, late, panicked>>

-----------------------------------------------------------------------------
\* The fault: a directory may be linked as well.
AnyType(i) == TRUE
Linkable(i) == node[i].type # T_DIR

\* link: the link is counted before it is made.
link(p) ==
  /\ pc[p] = "link"
  /\ ilock(p, "obj",
       LET i == ptr[p]["obj"]
       IN  /\ IF ~Linkable(i)
              THEN Put(p, <<"obj">>, "user") /\ UNCHANGED <<node, ptr, path, name>>
              ELSE /\ node' = [node EXCEPT ![i].nlink = @ + 1]
                   /\ Start(p, call[p].new)
                   /\ UNCHANGED <<todo, back>>
           /\ UNCHANGED <<ent, lock, call, late, panicked>>)

\* dirlink: a name that is taken is put back with the parent locked.
dirlink(p) ==
  /\ pc[p] = "dirlink"
  /\ ilock(p, "dp",
       LET d == ptr[p]["dp"]
           i == Find(d, name[p])
       IN  /\ IF i = None
              THEN /\ ent' = [ent EXCEPT ![d][name[p]] = ptr[p]["obj"]]
                   /\ Enter(d, ptr[p]["obj"])
                   /\ Put(p, <<"dp", "obj">>, "user")
                   /\ UNCHANGED <<lock, ptr>>
              ELSE /\ lock' = [lock EXCEPT ![d] = p]
                   /\ Set(p, "x", i)
                   /\ Put(p, <<"x">>, "taken")
                   /\ UNCHANGED <<ent, late>>
           /\ UNCHANGED <<node, call, path, name, panicked>>)

bad(p) ==
  /\ pc[p] = "bad"
  /\ ilock(p, "obj",
       /\ node' = [node EXCEPT ![ptr[p]["obj"]].nlink = @ - 1]
       /\ Put(p, <<"obj">>, "user")
       /\ UNCHANGED <<ent, lock, ptr, call, path, name, late, panicked>>)

-----------------------------------------------------------------------------
chdir(p) ==
  /\ pc[p] = "chdir"
  /\ ilock(p, "obj",
       /\ IF node[ptr[p]["obj"]].type = T_DIR THEN Put(p, <<"cwd">>, "moved")
          ELSE Put(p, <<"obj">>, "user")
       /\ UNCHANGED <<node, ent, lock, ptr, call, path, name, late, panicked>>)

moved(p) ==
  /\ pc[p] = "moved"
  /\ Move(p, "obj", "cwd", None)
  /\ Goto(p, "user")
  /\ UNCHANGED <<node, ent, lock, call, path, name, todo, back, late, panicked>>

Step(p) ==
  \/ Call(p) \/ namexEnd(p) \/ namex(p) \/ iput(p) \/ drop(p)
  \/ create(p) \/ exists(p) \/ created(p)
  \/ unlink(p) \/ erase(p) \/ unlinked(p) \/ unlockparent(p)
  \/ link(p) \/ dirlink(p) \/ bad(p)
  \/ chdir(p) \/ moved(p)

\* After a panic nothing runs.
Next == panicked = "no" /\ \E p \in Procs : Step(p)
Spec == Init /\ [][Next]_vars

-----------------------------------------------------------------------------
\* Every variable has its type.
TypeOK ==
  /\ node \in [Inums -> [type : {0, T_DIR, T_FILE}, nlink : Nat]]
  /\ ent \in [Inums -> [Names \cup {DOTDOT} -> Inums \cup {None}]]
  /\ lock \in [Inums -> Procs \cup {Nobody}]
  /\ ptr \in [Procs -> [Fields -> Inums \cup {None}]]
  /\ late \subseteq Inums

Allocated(i) == node[i].type # 0
IsDir(i) == node[i].type = T_DIR

\* The subdirectories that are entered in directory i, and the links to an inode that are
\* counted and not made, or unmade and still counted.
Subdirs(i) == {e \in Names : ent[i][e] # None /\ IsDir(ent[i][e])}
At(p) == IF pc[p] \in {"iput", "drop"} THEN back[p] ELSE pc[p]
Pending(i) ==
  {p \in Procs : /\ ptr[p]["obj"] = i
                 /\ \/ At(p) = "unlinked" \/ At(p) \in {"dirlink", "taken", "bad"}
                    \/ At(p) = "namex" /\ Second(p)}

\* The link count of an allocated inode is the number of its names and, of a directory, of its
\* subdirectories, but for the calls of link and unlink under way: no name goes with a directory
\* that is freed.  There is one exception in the code: create and link do not look whether the
\* parent has been removed since the path was looked up, or is a removed current directory, and
\* a name they make there may go with the parent and stays counted (sysfile.c:149-152, 250-283).
LinksCounted ==
  /\ TypeOK
  /\ \A i \in Inums \ late :
       Allocated(i) =>
         node[i].nlink = Cardinality(Entries(i)) + Cardinality(Subdirs(i)) + Cardinality(Pending(i))
                         + (IF i = ROOTINO THEN 1 ELSE 0)

\* The inode whose lock a process is about to take.
Wants(p) ==
  CASE pc[p] = "namex" /\ path[p] # <<>> -> ptr[p]["walk"]
    [] pc[p] \in {"create", "unlink", "dirlink"} -> ptr[p]["dp"]
    [] pc[p] \in {"exists", "erase", "link", "bad", "chdir"} -> ptr[p]["obj"]
    [] pc[p] = "iput" -> ptr[p][todo[p][1]]
    [] OTHER -> None

\* An inode a process has a pointer to is allocated, with one exception in the code: ".." of a
\* directory that has been removed may name an inode that is free by now, or was given to
\* another file, since unlink takes back the link that ".." stands for while the directory is
\* still in use (sysfile.c:222-225); ilock panics when that process goes on.  Besides that panic
\* only ialloc's of a full disk is reached.
InUseAllocated ==
  /\ \A p \in Procs, f \in Fields :
       ptr[p][f] # None /\ ~Allocated(ptr[p][f]) =>
         \/ pc[p] = "drop" /\ f = todo[p][1]
         \/ f \in {"walk", "obj"} /\ name[p] = DOTDOT
  /\ panicked \in {"no", "ialloc: no inodes", "ilock: no type"}
  /\ panicked = "ilock: no type" =>
       \E p \in Procs : /\ pc[p] # "iput" /\ Wants(p) # None /\ ~Allocated(Wants(p))
                        /\ name[p] = DOTDOT

\* The entries of a directory name allocated inodes, a directory has one name at most, and as
\* long as it has it its ".." is the directory the name is in, whatever calls run at once; and
\* the inodes the calls work on are not freed under them.
TreeShape ==
  /\ \A d \in Inums, e \in Names : ent[d][e] # None => Allocated(d) /\ Allocated(ent[d][e])
  /\ \A i \in Inums : IsDir(i) =>
       \A x, y \in Entries(i) : x = y /\ ent[i][DOTDOT] = x[1]
  /\ InUseAllocated

\* Every process of S waits for a lock another one, or itself, has.
Deadlocked(S) == \A p \in S : Wants(p) # None /\ lock[Wants(p)] \in S

\* p puts the parent of the inode it has just made or is about to remove, which it has locked.
PutsParent(p) == pc[p] = "iput" /\ todo[p][1] = "dp" /\ lock[ptr[p]["obj"]] = p

\* p, in link to a name "." or "..", puts the inode of that name with the directory locked.
PutsUpward(p) == pc[p] = "iput" /\ back[p] = "taken" /\ name[p] \in {DOT, DOTDOT}

\* The order in which namex, unlink, link and create take locks, one inode at a time or the
\* parent before the child, never makes processes wait for each other or for themselves
\* (fs.c:146-150), with two exceptions in the code, both of iput, which takes the lock of its
\* inode as well (fs.c:335): create and unlink put the parent with the child locked
\* (sysfile.c:225, 280), and dirlink puts what it finds with the directory locked (fs.c:559-560).
\* Every deadlock has one of them; that unlink and dirlink put a child with the parent locked
\* is no cause of its own.
LocksOrdered ==
  \A S \in SUBSET Procs \ {{}} :
    Deadlocked(S) => \E p \in S : PutsParent(p) \/ PutsUpward(p)
=============================================================================
