----------------------------- MODULE BlockStore -----------------------------
(***************************************************************************)
(* What the buffer cache and the disk driver promise the file system: each *)
(* block has one content, which one process at a time sees and changes.    *)
(***************************************************************************)
CONSTANTS Blocks, Users, Contents, Nobody

VARIABLES
  content,   \* what each block holds
  owner      \* the process between bread and brelse of each block

BInit == owner = [n \in Blocks |-> Nobody] /\ content \in [Blocks -> Contents]

Take(p, n) ==
  /\ owner[n] = Nobody
  /\ owner' = [owner EXCEPT ![n] = p]
  /\ UNCHANGED content

Change(p, n, v) ==
  /\ owner[n] = p
  /\ content' = [content EXCEPT ![n] = v]
  /\ UNCHANGED owner

Give(p, n) ==
  /\ owner[n] = p
  /\ owner' = [owner EXCEPT ![n] = Nobody]
  /\ UNCHANGED content

BNext == \E p \in Users, n \in Blocks :
           Take(p, n) \/ Give(p, n) \/ \E v \in Contents : Change(p, n, v)

BSpec == BInit /\ [][BNext]_<<content, owner>>
=============================================================================
