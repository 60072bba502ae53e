------------------------------ MODULE Console ------------------------------
(***************************************************************************)
(* The console: the input buffer between the interrupt handlers of the     *)
(* keyboard and the serial port and the processes that read, and the       *)
(* cursor of the screen that echo and writes move.                         *)
(*                                                                         *)
(* An action is a critical section of cons.lock, or the part of one up to  *)
(* where another lock is taken: consoleread looks at killed and then goes  *)
(* to sleep, and a kill may come between (state "dozing", lock held).  The *)
(* console's inode is unlocked for the whole of a read or a write          *)
(* (console.c:241, 278), so it has no part here.                           *)
(***************************************************************************)
EXTENDS Integers, Sequences, FiniteSetsExt, SequencesExt

CONSTANTS
  Procs,
  Data,         \* characters without a meaning of their own
  INPUT_BUF,    \* size of the input buffer
  UINT,         \* the indices count modulo this
  MAXREAD,      \* largest size of a read
  Outputs,      \* what the processes write
  COLS, ROWS    \* the screen

NL    == "nl"
EOF   == "^D"
CR    == "cr"
ERASE == "^H"
KILL  == "^U"
BACKSPACE == "backspace"
Chars == Data \cup {NL, EOF}
Keys  == Chars \cup {CR, ERASE, KILL}

\* 128 divides 2^32.
ASSUME ConsoleAssumption ==
  /\ INPUT_BUF \in Nat \ {0} /\ UINT > INPUT_BUF /\ UINT % INPUT_BUF = 0
  /\ COLS \in Nat \ {0} /\ ROWS \in Nat \ {0, 1} /\ MAXREAD \in Nat

VARIABLES
  buf, r, w, e, \* input: the ring, and its read, write and edit index
  pc,           \* per process: "user", "reading", "dozing", "asleep"
  target,       \* the size of its read
  got,          \* what its read has got
  killed,
  missed,       \* history: the kill came between the look at killed and the sleep
  pos,          \* the cursor
  panicked

input  == <<buf, r, w, e>>
reader == <<pc, target, got, killed, missed>>
screen == <<pos, panicked>>
vars   == <<input, reader, screen>>

\* The cursor is where the boot loader left it.
Init ==
  /\ buf = [i \in 0 .. INPUT_BUF - 1 |-> NL] /\ r = 0 /\ w = 0 /\ e = 0
  /\ pc = [p \in Procs |-> "user"] /\ target = [p \in Procs |-> 0]
  /\ got = [p \in Procs |-> <<>>]
  /\ killed = [p \in Procs |-> FALSE] /\ missed = [p \in Procs |-> FALSE]
  /\ pos \in 0 .. ROWS * COLS - 1 /\ panicked = "no"

Add(i, k) == (i + k) % UINT
Minus(i, j) == (i - j) % UINT

\* The characters from index i up to index j.
Span(i, j) == [k \in 1 .. Minus(j, i) |-> buf[Add(i, k - 1) % INPUT_BUF]]

Unlocked == \A p \in Procs : pc[p] # "dozing"

-----------------------------------------------------------------------------
\* cgaputc: where the cursor goes before the screen scrolls, and after.
Moved(i, c) ==
  CASE c = NL -> i + COLS - (i % COLS)
    [] c = BACKSPACE -> IF i > 0 THEN i - 1 ELSE i
    [] OTHER -> i + 1
Scroll(i) == IF i \div COLS >= ROWS - 1 THEN i - COLS ELSE i

\* The check for a cursor outside the screen.  The fault: the cell after the last one is
\* taken for outside.
TooStrict(i) == i < 0 \/ i >= ROWS * COLS
Outside(i) == i < 0 \/ i > ROWS * COLS

\* The cells that scrolling clears, from the cursor to the end of the last row but one.
Cleared(i) == (ROWS - 1) * COLS - i

\* consputc of each character of s in turn; -1 is a panic, or a memset of negative size.
cgaputc(i, c) ==
  LET m == Moved(i, c)
  IN  IF i < 0 \/ Outside(m) \/ (Scroll(m) # m /\ Cleared(Scroll(m)) < 0) THEN -1
      ELSE Scroll(m)
consputc(s) ==
  LET after == FoldLeft(cgaputc, pos, s)
  IN  IF after < 0 THEN panicked' = "pos under/overflow" /\ UNCHANGED pos
      ELSE pos' = after /\ UNCHANGED panicked

-----------------------------------------------------------------------------
\* wakeup(&input.r).
Woken == [p \in Procs |-> IF pc[p] = "asleep" THEN "reading" ELSE pc[p]]

\* ^U: back to the start of the line or the last newline, whichever comes first.
killline ==
  LET line == Span(w, e)
      left == Max({0} \cup {i \in DOMAIN line : line[i] = NL})
  IN  /\ e' = Add(w, left)
      /\ consputc([i \in 1 .. Len(line) - left |-> BACKSPACE])
      /\ UNCHANGED <<buf, r, w, reader>>

\* ^H and DEL.
backspace ==
  /\ e # w
  /\ e' = Add(e, -1)
  /\ consputc(<<BACKSPACE>>)
  /\ UNCHANGED <<buf, r, w, reader>>

\* The line is made ready at its end, which is index i, or when the buffer is full.  The
\* fault: no wakeup for a full buffer.
FullUnnoticed(c, i) ==
  /\ w' = IF c \in {NL, EOF} \/ i = Add(r, INPUT_BUF) THEN i ELSE w
  /\ pc' = IF c \in {NL, EOF} THEN Woken ELSE pc
Ready(c, i) ==
  IF c \in {NL, EOF} \/ i = Add(r, INPUT_BUF) THEN w' = i /\ pc' = Woken
  ELSE UNCHANGED <<w, pc>>

\* Any other character.
insert(c) ==
  /\ Minus(e, r) < INPUT_BUF
  /\ buf' = [buf EXCEPT ![e % INPUT_BUF] = c]
  /\ e' = Add(e, 1)
  /\ Ready(c, Add(e, 1))
  /\ consputc(<<c>>)
  /\ UNCHANGED <<r, target, got, killed, missed>>

\* consoleintr, for one character.  A character for which there is no room changes nothing.
consoleintr(c) ==
  /\ Unlocked
  /\ CASE c = KILL  -> killline
       [] c = ERASE -> backspace
       [] c = CR    -> insert(NL)
       [] OTHER     -> insert(c)

-----------------------------------------------------------------------------
Read(p) ==
  /\ pc[p] = "user"
  /\ \E n \in 0 .. MAXREAD : target' = [target EXCEPT ![p] = n]
  /\ got' = [got EXCEPT ![p] = <<>>]
  /\ pc' = [pc EXCEPT ![p] = "reading"]
  /\ UNCHANGED <<input, killed, missed, screen>>

\* A process that was killed exits on its return, and another one takes its place.
Return(p) ==
  /\ pc' = [pc EXCEPT ![p] = "user"]
  /\ killed' = [killed EXCEPT ![p] = FALSE]
  /\ missed' = [missed EXCEPT ![p] = FALSE]

\* ^D is given back if the read has got something.  The fault: it is not.
KeepsEOF(p, s, m) == m
Consumed(p, s, m) ==
  IF m > 0 /\ s[m] = EOF /\ (m > 1 \/ got[p] # <<>>) THEN m - 1 ELSE m

\* The loop of consoleread, from taking cons.lock to the end of the read or the next sleep.
\* It looks at m characters: up to a newline, a ^D, the size of the read or the last ready one.
consoleread(p) ==
  /\ pc[p] = "reading" /\ Unlocked
  /\ LET s    == Span(r, w)
         n    == target[p] - Len(got[p])
         m    == Min({n, Len(s)} \cup {i \in DOMAIN s : s[i] \in {NL, EOF}})
         eof  == m > 0 /\ s[m] = EOF
         data == SubSeq(s, 1, IF eof THEN m - 1 ELSE m)
     IN  /\ r' = Add(r, Consumed(p, s, m))
         /\ got' = [got EXCEPT ![p] = @ \o data]
         /\ IF m = n \/ eof \/ (m > 0 /\ s[m] = NL) \/ killed[p] THEN Return(p)
            ELSE pc' = [pc EXCEPT ![p] = "dozing"] /\ UNCHANGED <<killed, missed>>
  /\ UNCHANGED <<buf, w, e, target, screen>>

sleep(p) ==
  /\ pc[p] = "dozing"
  /\ pc' = [pc EXCEPT ![p] = "asleep"]
  /\ UNCHANGED <<input, target, got, killed, missed, screen>>

\* kill wakes the process if it is asleep.
kill(p) ==
  /\ pc[p] # "user" /\ ~killed[p]
  /\ killed' = [killed EXCEPT ![p] = TRUE]
  /\ missed' = [missed EXCEPT ![p] = pc[p] = "dozing"]
  /\ pc' = [pc EXCEPT ![p] = IF @ = "asleep" THEN "reading" ELSE @]
  /\ UNCHANGED <<input, target, got, screen>>

consolewrite(p) ==
  /\ pc[p] = "user" /\ Unlocked
  /\ \E s \in Outputs : consputc(s)
  /\ UNCHANGED <<input, reader>>

Next ==
  /\ panicked = "no"
  /\ \/ \E c \in Keys : consoleintr(c)
     \/ \E p \in Procs :
          \/ Read(p) \/ consoleread(p) \/ sleep(p) \/ kill(p) \/ consolewrite(p)

Spec == Init /\ [][Next]_vars

-----------------------------------------------------------------------------
\* Every variable has its type.
TypeOK ==
  /\ buf \in [0 .. INPUT_BUF - 1 -> Chars]
  /\ {r, w, e} \subseteq 0 .. UINT - 1
  /\ pc \in [Procs -> {"user", "reading", "dozing", "asleep"}]
  /\ target \in [Procs -> 0 .. MAXREAD]
  /\ \A p \in Procs : got[p] \in Seq(Data \cup {NL}) /\ Len(got[p]) <= target[p]
  /\ killed \in [Procs -> BOOLEAN] /\ missed \in [Procs -> BOOLEAN]
  /\ pos \in Nat

\* A process sleeps only while there is nothing to read, although ^D may go back into the
\* buffer and a line without an end may fill it (console.c:217-225, 254-260); and a process
\* that was killed does not sleep, unless the kill came after the look at killed and before
\* the sleep (console.c:246-251), when it sleeps on until something is typed.
NoLostWakeup ==
  /\ TypeOK
  /\ \A p \in Procs : pc[p] = "asleep" => r = w /\ (killed[p] => missed[p])

\* Wherever the boot loader left the cursor, it stays on the screen: every cell that cgaputc
\* writes or clears is one of the screen, and the check for a cursor outside it never fails,
\* though a newline in the last row takes the cursor to its very limit (console.c:142-162).
CursorOnScreen == panicked = "no" /\ pos \in 0 .. ROWS * COLS - 1

\* The ring and its three indices, which wrap around, are the line and the queue of module
\* LineDiscipline: nothing typed is lost, repeated or reordered, what has been made ready
\* cannot be edited, and no read goes past the end of a line or takes ^D for a byte.
Discipline == INSTANCE LineDiscipline WITH
  line <- Span(w, e), ready <- Span(r, w), CAP <- INPUT_BUF
IsLineDiscipline == Discipline!Spec
=============================================================================
