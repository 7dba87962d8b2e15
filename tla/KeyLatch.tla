------------------------------ MODULE KeyLatch ------------------------------
(***************************************************************************)
(* What a thread does that waits for the keys of a remote: it notices a    *)
(* code, waits until that code is over, and then obeys it, once, if it is  *)
(* one that it knows.  No code is noticed before the last one was obeyed,  *)
(* and a code is never exchanged for another one meanwhile.  IRDA_thread   *)
(* of Remote implements it, whatever Remote_Scan finds.                    *)
(***************************************************************************)
EXTENDS Naturals

CONSTANTS Codes,   \* what may be noticed
          NoCode,  \* nothing is noticed
          Known    \* the codes that the thread knows

VARIABLES code,    \* the code noticed, or NoCode
          phase,   \* "up", "down" (it waits for the end), "over" (it may obey)
          obeyed   \* how many codes it has obeyed

kvars == <<code, phase, obeyed>>

Init == code = NoCode /\ phase = "up" /\ obeyed = 0

Down(c) ==
  /\ phase = "up" /\ phase' = "down"
  /\ c # NoCode
  /\ code' = c
  /\ UNCHANGED obeyed

Over ==
  /\ phase = "down" /\ phase' = "over"
  /\ UNCHANGED <<code, obeyed>>

Obey ==
  /\ phase = "over" /\ phase' = "up"
  /\ code' = NoCode
  /\ obeyed' = IF code \in Known THEN obeyed + 1 ELSE obeyed

Next == (\E c \in Codes : Down(c)) \/ Over \/ Obey

Spec == Init /\ [][Next]_kvars
=============================================================================
