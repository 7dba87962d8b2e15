------------------------------ MODULE ChipLock ------------------------------
(***************************************************************************)
(* What the semaphore dm9000lock promises the threads that share the chip: *)
(* one owner at a time, and the chip goes from hand to hand in the order   *)
(* in which the threads asked for it.  Nobody overtakes: the chip is taken *)
(* only when nobody waits.  It can be lost, once and for ever.  Net        *)
(* implements this.                                                        *)
(***************************************************************************)
EXTENDS Sequences

CONSTANTS
  Threads,   \* the threads that share the chip
  Receiver,  \* the one of them that may go away with it
  Nobody     \* no thread

VARIABLES
  owner,  \* the thread that has the chip, or Nobody
  line,   \* the threads that wait for it, the first to get it first
  lost    \* its owner went away and left it taken

lvars == <<owner, line, lost>>

Init ==
  /\ owner = Nobody
  /\ line = <<>>
  /\ lost = FALSE

Acquire(t) ==
  /\ owner = Nobody /\ line = <<>> /\ ~lost
  /\ owner' = t
  /\ UNCHANGED <<line, lost>>

Enqueue(t) ==
  /\ owner # Nobody \/ lost
  /\ t # owner
  /\ \A i \in DOMAIN line : line[i] # t
  /\ line' = Append(line, t)
  /\ UNCHANGED <<owner, lost>>

Release(t) ==
  /\ owner = t
  /\ \/ /\ line = <<>>
        /\ owner' = Nobody
        /\ UNCHANGED line
     \/ /\ line # <<>>
        /\ owner' = Head(line)
        /\ line' = Tail(line)
  /\ UNCHANGED lost

Lose ==
  /\ owner = Receiver
  /\ owner' = Nobody
  /\ lost' = TRUE
  /\ UNCHANGED line

Next ==
  \/ \E t \in Threads : Acquire(t) \/ Enqueue(t) \/ Release(t)
  \/ Lose

Spec == Init /\ [][Next]_lvars
=============================================================================
