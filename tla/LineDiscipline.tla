--------------------------- MODULE LineDiscipline ---------------------------
(***************************************************************************)
(* What the console's input promises its readers: a line being edited, a   *)
(* queue of the bytes that can no longer be edited, and reads that take    *)
(* from the queue in order, at most to the end of a line.                  *)
(***************************************************************************)
EXTENDS Naturals, Sequences, SequencesExt

CONSTANTS
  Procs,
  Chars,        \* what can be typed into a line
  NL, EOF,      \* newline and ^D, two of Chars
  CAP           \* bytes the console can hold

VARIABLES
  line,         \* the line being edited
  ready,        \* the bytes that are there to be read
  got           \* what each process's current or last read has got

vars == <<line, ready, got>>

Init == line = <<>> /\ ready = <<>> /\ got = [p \in Procs |-> <<>>]

\* A character is added if there is room; the end of a line, or of the room, makes the
\* line ready.
Type(c) ==
  /\ Len(ready) + Len(line) < CAP
  /\ LET ends == c \in {NL, EOF} \/ Len(ready) + Len(line) + 1 = CAP
     IN  /\ ready' = IF ends THEN ready \o Append(line, c) ELSE ready
         /\ line' = IF ends THEN <<>> ELSE Append(line, c)
  /\ UNCHANGED got

Erase == line # <<>> /\ line' = Front(line) /\ UNCHANGED <<ready, got>>
Kill == line' = <<>> /\ UNCHANGED <<ready, got>>

Start(p) == got' = [got EXCEPT ![p] = <<>>] /\ UNCHANGED <<line, ready>>

\* A read gets the next k bytes: never ^D, and nothing after the end of a line.
Deliver(p, k) ==
  /\ \A i \in 1 .. k : ready[i] # EOF /\ (ready[i] = NL => i = k)
  /\ ~Contains(got[p], NL)
  /\ got' = [got EXCEPT ![p] = @ \o SubSeq(ready, 1, k)]
  /\ ready' = SubSeq(ready, k + 1, Len(ready))
  /\ UNCHANGED line

\* ^D goes to a read that gets nothing else.
EndOfFile(p) ==
  /\ ready # <<>> /\ Head(ready) = EOF /\ got[p] = <<>>
  /\ ready' = Tail(ready)
  /\ UNCHANGED <<line, got>>

Next ==
  \/ \E c \in Chars : Type(c)
  \/ Erase \/ Kill
  \/ \E p \in Procs :
       \/ Start(p) \/ EndOfFile(p)
       \/ \E k \in 1 .. Len(ready) : Deliver(p, k)

Spec == Init /\ [][Next]_vars
=============================================================================
