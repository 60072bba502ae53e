----------------------------- MODULE ByteStream -----------------------------
(***************************************************************************)
(* What a pipe promises: a bounded queue of bytes.  Bytes come out in the  *)
(* order in which they went in, none lost and none twice, whoever writes   *)
(* and reads.                                                              *)
(***************************************************************************)
EXTENDS Naturals, Sequences

CONSTANTS Capacity, Bytes, Readers

VARIABLES
  queue,   \* bytes written and not yet read
  got      \* what the read in progress of each reader has

SInit == queue = <<>> /\ got = [p \in Readers |-> <<>>]

SWrite ==
  /\ Len(queue) < Capacity
  /\ \E b \in Bytes : queue' = Append(queue, b)
  /\ UNCHANGED got

SRead(p) ==
  /\ queue # <<>>
  /\ got' = [got EXCEPT ![p] = Append(@, Head(queue))]
  /\ queue' = Tail(queue)

\* A read returns what it has got.
SReturn(p) == got' = [got EXCEPT ![p] = <<>>] /\ UNCHANGED queue

\* Nobody has the pipe any more, and another one is made.
SReset == queue' = <<>> /\ UNCHANGED got

SNext == SWrite \/ SReset \/ \E p \in Readers : SRead(p) \/ SReturn(p)

SSpec == SInit /\ [][SNext]_<<queue, got>>
=============================================================================
