------------------------------- MODULE Files -------------------------------
(***************************************************************************)
(* The contents of files: the block bitmap, the direct and indirect block  *)
(* addresses of an inode, and the system calls read and write on them,     *)
(* with write split into transactions; and the freeing of a file's blocks. *)
(*                                                                         *)
(* An action is a stretch of code under an inode's lock that touches       *)
(* nothing another process can see, or the buffer of one bitmap block.     *)
(* The log is what module AtomicDisk promises: a crash leaves the disk as  *)
(* it was at the last commit, when no call was inside a transaction.  The  *)
(* model crashes only then, since a crash at any later time leads to the   *)
(* same state.  How inodes are counted and named is module Inode's.        *)
(***************************************************************************)
EXTENDS Integers, Sequences, FiniteSets, FiniteSetsExt

CONSTANTS
  Procs,
  NINODES,
  NBLOCKS,      \* data blocks 1 .. NBLOCKS
  BSIZE,        \* numbers in a block, be they bytes or addresses
  NDIRECT, NINDIRECT,
  BPB,          \* bits in a block of the bitmap
  MAXOPBLOCKS,  \* blocks the log keeps room for in a transaction
  Sizes,        \* sizes of a read or a write
  Marks         \* offsets at which no two processes write the same byte

MAXFILE   == NDIRECT + NINDIRECT
Inums     == 1 .. NINODES
Blocks    == 1 .. NBLOCKS
None      == 0
Nobody    == "nobody"

ASSUME FilesAssumption ==
  /\ {NINODES, NBLOCKS, BSIZE, NDIRECT, NINDIRECT, BPB} \subseteq Nat \ {0}
  /\ NINDIRECT <= BSIZE
  /\ MAXOPBLOCKS \in Nat /\ MAXOPBLOCKS >= 6
  /\ Sizes \subseteq Nat

\* Bytes of a write that go into one transaction.  The fault: no slop for a write that starts in
\* the middle of a block.
NoSlop == ((MAXOPBLOCKS - 1 - 1) \div 2) * BSIZE
max == ((MAXOPBLOCKS - 1 - 1 - 2) \div 2) * BSIZE

VARIABLES
  used,         \* the bitmap: the blocks marked in use
  block,        \* the contents of the blocks
  dinode,       \* the inodes on the disk
  inode,        \* the copies of them in memory
  lock,         \* per inode: the process that has it locked
  file, off,    \* per process: the inode and the offset of its open file
  pc, ip,       \* per process: where it is, and the inode it is at work on
  n, n1, tot,   \* its write: bytes to go, size and progress of the transaction
  wrote,        \* the blocks it has logged in this transaction
  content,      \* history: what each file should contain
  orphan,       \* history: inodes without a name that were open at a crash
  panicked

disk == <<used, block, dinode>>
call == <<pc, ip, n, n1, tot, wrote>>
hist == <<content, orphan>>
vars == <<disk, inode, lock, file, off, call, hist, panicked>>

Zero  == [k \in 0 .. BSIZE - 1 |-> 0]
Empty == [type |-> 0, nlink |-> 0, size |-> 0, addrs |-> [k \in 0 .. NDIRECT |-> 0]]

Init ==
  /\ used = {} /\ block = [b \in Blocks |-> Zero]
  /\ dinode = [i \in Inums |-> Empty] /\ inode = dinode
  /\ lock = [i \in Inums |-> Nobody]
  /\ file = [p \in Procs |-> None] /\ off = [p \in Procs |-> 0]
  /\ pc = [p \in Procs |-> "user"] /\ ip = [p \in Procs |-> None]
  /\ n = [p \in Procs |-> 0] /\ n1 = n /\ tot = n
  /\ wrote = [p \in Procs |-> {}]
  /\ content = [i \in Inums |-> <<>>] /\ orphan = {} /\ panicked = "no"

Goto(p, l) == pc' = [pc EXCEPT ![p] = l]
Panic(why) == panicked' = why /\ UNCHANGED <<disk, inode, lock, file, off, call, hist>>

\* The blocks that log_write names.
DataBlock(b)  == <<"data", b>>
BBLOCK(b)     == <<"bitmap", b \div BPB>>
IBLOCK        == <<"inode", 0>>
log_write(p, bs) == wrote' = [wrote EXCEPT ![p] = @ \cup bs]

-----------------------------------------------------------------------------
\* Address of block bn of inode i, or 0.
Lookup(i, bn) ==
  IF bn < NDIRECT THEN i.addrs[bn]
  ELSE IF i.addrs[NDIRECT] = 0 THEN 0
  ELSE block[i.addrs[NDIRECT]][bn - NDIRECT]

\* The bytes of inode i.
Bytes(i) ==
  [k \in 1 .. i.size |-> block[Lookup(i, (k - 1) \div BSIZE)][(k - 1) % BSIZE]]

\* The byte process p writes at offset o.
Byte(p, o) == IF o \in Marks THEN p ELSE o + 1

\* s with the bytes of a write of k bytes at offset o put over it.
Overlay(s, p, o, k) ==
  [x \in 1 .. Max({Len(s), o + k}) |->
     IF x \in o + 1 .. o + k THEN Byte(p, x - 1) ELSE s[x]]

-----------------------------------------------------------------------------
\* write of k bytes: filewrite.
Write(p) ==
  /\ pc[p] = "user" /\ file[p] # None
  /\ \E k \in Sizes : n' = [n EXCEPT ![p] = k]
  /\ ip' = [ip EXCEPT ![p] = file[p]]
  /\ Goto(p, "write")
  /\ UNCHANGED <<disk, inode, lock, file, off, n1, tot, wrote, hist, panicked>>

\* begin_op, ilock, and the checks of writei.
writei(p) ==
  /\ pc[p] = "write" /\ lock[ip[p]] = Nobody
  /\ LET k == Min({n[p], max})
     IN  IF n[p] = 0 \/ off[p] > inode[ip[p]].size \/ off[p] + k > MAXFILE * BSIZE
         THEN Goto(p, "user") /\ UNCHANGED <<lock, n1, tot>>
         ELSE /\ lock' = [lock EXCEPT ![ip[p]] = p]
              /\ n1' = [n1 EXCEPT ![p] = k]
              /\ tot' = [tot EXCEPT ![p] = 0]
              /\ Goto(p, "bmap")
  /\ UNCHANGED <<disk, inode, file, off, ip, n, wrote, hist, panicked>>

bn(p) == (off[p] + tot[p]) \div BSIZE

\* The fault: a block that is allocated keeps what was in it.
NotZeroed(b) == block
bzero(b) == [block EXCEPT ![b] = Zero]

\* Where bmap puts the address b of a new block: in the inode, or in the indirect block.
Place(p, b) ==
  LET i == ip[p]
      a == inode[i].addrs[NDIRECT]
  IN  IF bn(p) < NDIRECT \/ a = 0
      THEN /\ inode' = [inode EXCEPT ![i].addrs[Min({bn(p), NDIRECT})] = b]
           /\ block' = bzero(b)
           /\ log_write(p, {BBLOCK(b), DataBlock(b)})
      ELSE /\ block' = [bzero(b) EXCEPT ![a][bn(p) - NDIRECT] = b]
           /\ log_write(p, {BBLOCK(b), DataBlock(b), DataBlock(a)})
           /\ UNCHANGED inode

\* The first free block.
balloc == Min(Blocks \ used)

\* One balloc of bmap: for the block itself or for the indirect block before it.
bmap(p) ==
  /\ pc[p] = "bmap" /\ Lookup(inode[ip[p]], bn(p)) = 0
  /\ IF Blocks \subseteq used THEN Panic("balloc: out of blocks")
     ELSE /\ used' = used \cup {balloc}
          /\ Place(p, balloc)
          /\ UNCHANGED <<dinode, lock, file, off, pc, ip, n, n1, tot, hist, panicked>>

\* One turn of writei's loop, with the block mapped.
copy(p) ==
  /\ pc[p] = "bmap" /\ Lookup(inode[ip[p]], bn(p)) # 0
  /\ LET b == Lookup(inode[ip[p]], bn(p))
         o == off[p] + tot[p]
         m == Min({n1[p] - tot[p], BSIZE - (o % BSIZE)})
     IN  /\ block' = [block EXCEPT ![b] =
                        [k \in 0 .. BSIZE - 1 |->
                           IF k \in (o % BSIZE) .. (o % BSIZE) + m - 1
                           THEN Byte(p, o - (o % BSIZE) + k) ELSE @[k]]]
         /\ log_write(p, {DataBlock(b)})
         /\ tot' = [tot EXCEPT ![p] = @ + m]
         /\ Goto(p, IF tot[p] + m = n1[p] THEN "iupdate" ELSE "bmap")
  /\ UNCHANGED <<used, dinode, inode, lock, file, off, ip, n, n1, hist, panicked>>

\* The end of writei and of the transaction.  The inode goes to the disk if the file has
\* grown.  The fault: the offset looked at is that of the start.
StartsBeyond(p) == off[p] > inode[ip[p]].size
Grown(p) == off[p] + n1[p] > inode[ip[p]].size
iupdate(p) ==
  /\ pc[p] = "iupdate"
  /\ LET i == ip[p]
         grown == [inode[i] EXCEPT !.size = off[p] + n1[p]]
     IN  /\ IF Grown(p)
            THEN /\ inode' = [inode EXCEPT ![i] = grown]
                 /\ dinode' = [dinode EXCEPT ![i] = grown]
                 /\ log_write(p, {IBLOCK})
            ELSE UNCHANGED <<inode, dinode, wrote>>
         /\ content' = [content EXCEPT ![i] = Overlay(@, p, off[p], n1[p])]
         /\ lock' = [lock EXCEPT ![i] = Nobody]
  /\ off' = [off EXCEPT ![p] = @ + n1[p]]
  /\ Goto(p, "end")
  /\ UNCHANGED <<used, block, file, ip, n, n1, tot, orphan, panicked>>

\* end_op, and the next turn of filewrite's loop.
end_op(p) ==
  /\ pc[p] = "end"
  /\ n' = [n EXCEPT ![p] = @ - n1[p]]
  /\ wrote' = [wrote EXCEPT ![p] = {}]
  /\ Goto(p, IF n[p] = n1[p] THEN "user" ELSE "write")
  /\ UNCHANGED <<disk, inode, lock, file, off, ip, n1, tot, hist, panicked>>

-----------------------------------------------------------------------------
\* The bytes a read of k bytes at offset o of inode i gets.
readi(i, o, k) == Min({k, i.size - o})

\* read: readi under the inode's lock.  A block that is not there would be allocated, and
\* logged outside of a transaction.
fileread(p) ==
  /\ pc[p] = "user" /\ file[p] # None /\ lock[file[p]] = Nobody
  /\ \E k \in Sizes :
       LET i == inode[file[p]]
           m == readi(i, off[p], k)
       IN  IF \E o \in off[p] .. off[p] + m - 1 : Lookup(i, o \div BSIZE) = 0
           THEN Panic("log_write outside of trans")
           ELSE /\ off' = [off EXCEPT ![p] = @ + m]
                /\ UNCHANGED <<disk, inode, lock, file, call, hist, panicked>>

-----------------------------------------------------------------------------
Refs(i) == {p \in Procs : file[p] = i}

\* open, of a file with a name or of a new one.
Open(p) ==
  /\ pc[p] = "user" /\ file[p] = None
  /\ \E i \in Inums :
       /\ lock[i] = Nobody
       /\ \/ dinode[i].nlink > 0 /\ UNCHANGED <<dinode, inode>>
          \/ /\ dinode[i].type = 0
             /\ dinode' = [dinode EXCEPT ![i] = [Empty EXCEPT !.type = 2, !.nlink = 1]]
             /\ inode' = [inode EXCEPT ![i] = dinode'[i]]
       /\ file' = [file EXCEPT ![p] = i]
  /\ off' = [off EXCEPT ![p] = 0]
  /\ UNCHANGED <<used, block, lock, call, hist, panicked>>

\* iput by p of an inode with link count l to which process p has the last reference.
Drop(p, i, l) ==
  IF Refs(i) \subseteq {p} /\ l = 0
  THEN /\ lock' = [lock EXCEPT ![i] = p]
       /\ ip' = [ip EXCEPT ![p] = i]
       /\ tot' = [tot EXCEPT ![p] = 0]
       /\ Goto(p, "itrunc")
  ELSE UNCHANGED <<lock, ip, tot, pc>>

\* close.
Close(p) ==
  /\ pc[p] = "user" /\ file[p] # None /\ lock[file[p]] = Nobody
  /\ file' = [file EXCEPT ![p] = None]
  /\ Drop(p, file[p], inode[file[p]].nlink)
  /\ UNCHANGED <<disk, inode, off, n, n1, wrote, hist, panicked>>

\* unlink of the file's only name, by a process that does not have it open.
Unlink(p) ==
  /\ pc[p] = "user" /\ file[p] = None
  /\ \E i \in Inums :
       /\ dinode[i].nlink > 0 /\ lock[i] = Nobody
       /\ dinode' = [dinode EXCEPT ![i].nlink = 0]
       /\ inode' = [inode EXCEPT ![i].nlink = 0]
       /\ Drop(p, i, 0)
  /\ UNCHANGED <<used, block, file, off, n, n1, wrote, hist, panicked>>

\* The addresses that itrunc frees, in its order: direct, indirect, and the indirect block.
Held(i) ==
  [k \in 0 .. MAXFILE |-> IF k = MAXFILE THEN i.addrs[NDIRECT] ELSE Lookup(i, k)]

\* The bitmap without block b.
bfree(b) == used \ {b}

\* One turn of itrunc's loops; tot is its counter.  The entries of the indirect block stay.
itrunc(p) ==
  /\ pc[p] = "itrunc" /\ tot[p] <= MAXFILE
  /\ LET k == tot[p]
         b == Held(inode[ip[p]])[k]
     IN  IF b # 0 /\ b \notin used THEN Panic("freeing free block")
         ELSE /\ used' = bfree(b)
              /\ inode' = IF k \in NDIRECT .. MAXFILE - 1 THEN inode
                          ELSE [inode EXCEPT ![ip[p]].addrs[Min({k, NDIRECT})] = 0]
              /\ tot' = [tot EXCEPT ![p] = @ + 1]
              /\ UNCHANGED <<block, dinode, lock, file, off, pc, ip, n, n1, wrote, hist, panicked>>

\* The end of itrunc, and the free inode put on the disk.
itrunced(p) ==
  /\ pc[p] = "itrunc" /\ tot[p] > MAXFILE
  /\ dinode' = [dinode EXCEPT ![ip[p]] = Empty]
  /\ inode' = [inode EXCEPT ![ip[p]] = Empty]
  /\ content' = [content EXCEPT ![ip[p]] = <<>>]
  /\ lock' = [lock EXCEPT ![ip[p]] = Nobody]
  /\ Goto(p, "user")
  /\ UNCHANGED <<used, block, file, off, ip, n, n1, tot, wrote, orphan, panicked>>

-----------------------------------------------------------------------------
\* No process is inside a transaction.
Committed == \A p \in Procs : pc[p] \in {"user", "write"}

\* A crash, and the recovery: what was in memory is gone.
Crash ==
  /\ Committed
  /\ file' = [p \in Procs |-> None] /\ off' = [p \in Procs |-> 0]
  /\ pc' = [p \in Procs |-> "user"]
  /\ inode' = dinode
  /\ orphan' = orphan \cup {i \in Inums : dinode[i].type # 0 /\ dinode[i].nlink = 0}
  /\ UNCHANGED <<disk, lock, ip, n, n1, tot, wrote, content, panicked>>

Step(p) ==
  \/ Write(p) \/ writei(p) \/ bmap(p) \/ copy(p) \/ iupdate(p) \/ end_op(p)
  \/ fileread(p)
  \/ Open(p) \/ Close(p) \/ Unlink(p) \/ itrunc(p) \/ itrunced(p)

Next == panicked = "no" /\ (Crash \/ \E p \in Procs : Step(p))
Spec == Init /\ [][Next]_vars

-----------------------------------------------------------------------------
\* Every variable has its type.
TypeOK ==
  /\ used \subseteq Blocks
  /\ \A i \in Inums : {inode[i], dinode[i]} \subseteq
       [type : {0, 2}, nlink : {0, 1}, size : 0 .. MAXFILE * BSIZE, addrs : [0 .. NDIRECT -> 0 .. NBLOCKS]]
  /\ lock \in [Inums -> Procs \cup {Nobody}]
  /\ file \in [Procs -> Inums \cup {None}]
  /\ \A p \in Procs : off[p] \in Nat /\ tot[p] \in Nat /\ n1[p] <= max

\* The places in which the inodes of f hold a block, less those itrunc has gone through.
Freed(i, k) == \E p \in Procs : pc[p] = "itrunc" /\ ip[p] = i /\ k < tot[p]
Places(f) == {x \in Inums \X (0 .. MAXFILE) : f[x[1]][x[2]] # 0 /\ ~Freed(x[1], x[2])}
Map(f) == [i \in Inums |-> Held(f[i])]

\* No block has two places, in one file or in two; and when no transaction is under way, which
\* is what a crash goes back to, the bitmap marks exactly the blocks the inodes on the disk
\* hold, every block below a file's size is there, and an inode without a name is one a process
\* has open or one that was open at a crash: nothing frees that one any more (fs.c:55-95,
\* 332-346, 370-435).
BlocksAccounted ==
  LET memory == Map(inode)
      stored == Map(dinode)
  IN  /\ TypeOK
      /\ Cardinality({memory[x[1]][x[2]] : x \in Places(memory)}) = Cardinality(Places(memory))
      /\ Committed =>
           /\ used = {stored[x[1]][x[2]] : x \in Places(stored)}
           /\ \A i \in Inums :
                /\ \A k \in 0 .. dinode[i].size - 1 : Lookup(dinode[i], k \div BSIZE) # 0
                /\ dinode[i].type # 0 /\ dinode[i].nlink = 0 => Refs(i) # {} \/ i \in orphan

\* A file contains what was written to it, byte for byte: the blocks of the inode that a read
\* goes through, and after a crash those of the inode on the disk, show every write at its
\* offset, whatever was in the blocks before (fs.c:453-511, file.c:133-153).
ReadsBack ==
  \A i \in Inums :
    /\ lock[i] = Nobody => Bytes(inode[i]) = content[i]
    /\ Committed => Bytes(dinode[i]) = content[i]

\* A transaction of filewrite logs no more blocks than the log keeps room for, also when every
\* block it allocates has a bitmap block of its own and the write starts in the middle of a
\* block: the size filewrite splits at is the largest one (file.c:127-133).
WithinReservation ==
  \A p \in Procs : pc[p] # "itrunc" => Cardinality(wrote[p]) <= MAXOPBLOCKS
=============================================================================
