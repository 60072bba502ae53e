--------------------------- MODULE PageAllocator ---------------------------
(***************************************************************************)
(* What kalloc and kfree promise their callers: each call takes effect at  *)
(* one instant, a page is handed out only while it is free, to one caller, *)
(* and kalloc returns 0 only at an instant when no page is free.           *)
(***************************************************************************)
CONSTANTS Pages, Clients, NULL, None

VARIABLES
  free,    \* the pages that can be allocated
  held,    \* the pages the clients hold
  ret      \* what the current call of kalloc of each client will return

avars == <<free, held, ret>>

AInit ==
  /\ free = {}
  /\ held = Pages
  /\ ret = [c \in Clients |-> None]

Alloc(c) ==
  /\ ret[c] = None
  /\ \E f \in free :
       /\ free' = free \ {f}
       /\ held' = held \cup {f}
       /\ ret' = [ret EXCEPT ![c] = f]

AllocFails(c) ==
  /\ ret[c] = None /\ free = {}
  /\ ret' = [ret EXCEPT ![c] = NULL]
  /\ UNCHANGED <<free, held>>

Return(c) ==
  /\ ret[c] # None
  /\ ret' = [ret EXCEPT ![c] = None]
  /\ UNCHANGED <<free, held>>

Free ==
  /\ \E f \in held :
       /\ held' = held \ {f}
       /\ free' = free \cup {f}
  /\ UNCHANGED ret

ANext == Free \/ \E c \in Clients : Alloc(c) \/ AllocFails(c) \/ Return(c)

ASpec == AInit /\ [][ANext]_avars
=============================================================================
