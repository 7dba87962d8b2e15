---------------------------- MODULE Usart2_proofs ---------------------------
(***************************************************************************)
(* Proofs about the reception of bytes, for every length of the buffer.    *)
(* The invariant adds to the properties what each phase of TIM5_IRQHandler *)
(* knows: the timer still runs while the handler does, and the state word  *)
(* is the flag until a byte hits the handler.                              *)
(***************************************************************************)
EXTENDS Usart2, TLAPS

Handler ==
  /\ tim5_isr # "out" => tim5
  /\ tim5_isr = "flagged" => USART_RX2_STA = DONE
  /\ tim5_isr = "hit" => USART_RX2_STA = 0
  /\ tim5_isr = "out" /\ USART_RX2_STA = DONE => ~tim5

IInv == TypeOK /\ PartialTimed /\ Handler

USE LengthAssumption DEF Index

\* The index bits never leave the buffer, also when they read 0 under the flag.
LEMMA PlaceInBounds == TypeOK => Place \in Index
  BY DEF TypeOK, Place

\* The invariant holds at the start.
LEMMA InitIInv == Init => IInv
<1> SUFFICES ASSUME Init PROVE IInv
  OBVIOUS
<1>1. TypeOK
  <2>1. USART_RX2_STA \in Index
    BY DEF Init
  <2>2. USART_RX2_BUF \in [Index -> Frames \cup {NUL}]
    BY DEF Init
  <2> QED BY <2>1, <2>2 DEF Init, TypeOK
<1>2. PartialTimed
  BY DEF Init, PartialTimed
<1>3. Handler
  BY DEF Init, Handler
<1> QED BY <1>1, <1>2, <1>3 DEF IInv

\* Every handler and every thread keeps it.
LEMMA NextIInv == IInv /\ [Next]_vars => IInv'
<1> SUFFICES ASSUME IInv, [Next]_vars PROVE IInv'
  OBVIOUS
<1> USE DEF IInv, TypeOK, PartialTimed, Handler
<1>1. CASE \E f \in Frames : USART2_IRQHandler(f)
  <2> PICK f \in Frames : USART2_IRQHandler(f)
    BY <1>1
  <2>1. Place \in Index
    BY PlaceInBounds
  <2>2. USART_RX2_BUF' \in [Index -> Frames \cup {NUL}]
    BY <2>1 DEF USART2_IRQHandler
  <2>3. USART_RX2_STA' \in Index /\ (USART_RX2_STA = DONE => USART_RX2_STA' = 0)
    BY DEF USART2_IRQHandler, NextSta
  <2> QED BY <2>2, <2>3 DEF USART2_IRQHandler
<1>2. CASE TIM5_Flag
  <2>1. TypeOK' /\ PartialTimed'
    BY <1>2 DEF TIM5_Flag
  <2>2. Handler'
    BY <1>2 DEF TIM5_Flag
  <2> QED BY <2>1, <2>2
<1>3. CASE TIM5_Stop
  <2>1. USART_RX2_STA \in {0, DONE}
    BY <1>3 DEF TIM5_Stop
  <2>2. TypeOK'
    BY <1>3 DEF TIM5_Stop
  <2>3. PartialTimed'
    BY <1>3, <2>1 DEF TIM5_Stop
  <2>4. Handler'
    BY <1>3 DEF TIM5_Stop
  <2> QED BY <2>2, <2>3, <2>4
<1>4. CASE ClearSta
  <2>1. USART_RX2_STA' = 0 /\ 0 \in Index /\ 0 # DONE
    BY <1>4 DEF ClearSta
  <2>2. TypeOK'
    BY <1>4, <2>1 DEF ClearSta
  <2>3. PartialTimed'
    BY <2>1
  <2>4. Handler'
    BY <1>4, <2>1 DEF ClearSta
  <2> QED BY <2>2, <2>3, <2>4
<1>5. CASE ClearBuf
  <2>1. USART_RX2_BUF' \in [Index -> Frames \cup {NUL}]
    BY <1>5 DEF ClearBuf
  <2> QED BY <1>5, <2>1 DEF ClearBuf
<1>6. CASE UNCHANGED vars
  BY <1>6 DEF vars
<1> QED BY <1>1, <1>2, <1>3, <1>4, <1>5, <1>6 DEF Next

\* The invariant holds of every interleaving of bytes, timer and threads.
THEOREM UsartInvariant == Spec => []IInv
  BY InitIInv, NextIInv, PTL DEF Spec

\* USART_RX2_STA is an index or the flag, never both (usart.c 288-291).
THEOREM UsartTypeOK == Spec => []TypeOK
<1>1. IInv => TypeOK
  BY DEF IInv
<1> QED BY <1>1, UsartInvariant, PTL

\* No byte is stored outside USART_RX2_BUF (usart.c 288).
THEOREM UsartStoreInBounds == Spec => []StoreInBounds
<1>1. IInv => StoreInBounds
  BY PlaceInBounds DEF IInv, StoreInBounds
<1> QED BY <1>1, UsartInvariant, PTL

\* A partly received frame has its timer running (usart.c 281).
THEOREM UsartPartialTimed == Spec => []PartialTimed
<1>1. IInv => PartialTimed
  BY DEF IInv
<1> QED BY <1>1, UsartInvariant, PTL

-----------------------------------------------------------------------------
(* Refinement: the buffer and the two handlers implement the channel.      *)

\* Storing one byte adds at most its frame to the text and removes at most
\* what stood there.
LEMMA StoreText ==
  ASSUME TypeOK, NEW f \in Frames, USART2_IRQHandler(f)
  PROVE  \E keep \in SUBSET Text : Text' = keep \cup {f}
<1>1. Place \in Index
  BY PlaceInBounds
<1>2. f # NUL
  BY NulAssumption
<1>3. Text' \ {f} \subseteq Text
  BY <1>1 DEF Text, TypeOK, USART2_IRQHandler
<1>4. f \in Text'
  BY <1>1, <1>2 DEF Text, TypeOK, USART2_IRQHandler
<1>5. Text' = (Text' \ {f}) \cup {f}
  BY <1>4
<1> QED BY <1>3, <1>5

\* The empty buffer with a stopped timer is the idle channel.
LEMMA InitChannel == Init => Channel!Init
  BY DEF Init, Channel!Init, Rx, Text

\* Every step of the handlers and of the threads is a step of the channel or
\* leaves it alone.
LEMMA NextChannel == IInv /\ [Next]_vars => [Channel!Next]_(Channel!cvars)
<1> SUFFICES ASSUME IInv, [Next]_vars PROVE Channel!Next \/ UNCHANGED <<Rx, Text>>
  BY DEF Channel!cvars
<1> USE DEF IInv, Handler
<1>1. CASE \E f \in Frames : USART2_IRQHandler(f)
  <2> PICK f \in Frames : USART2_IRQHandler(f)
    BY <1>1
  <2>1. USART_RX2_STA' # DONE
    BY DEF USART2_IRQHandler, NextSta, TypeOK
  <2>2. Rx' \in IF Rx = "complete" THEN {"receiving", "idle"} ELSE {"receiving"}
    BY <2>1 DEF USART2_IRQHandler, Rx, TypeOK
  <2>3. \E keep \in SUBSET Text : Text' \in {keep, keep \cup {f}}
    BY StoreText
  <2> QED BY <2>2, <2>3 DEF Channel!Next, Channel!Byte
<1>2. CASE TIM5_Flag
  BY <1>2 DEF TIM5_Flag, Rx, Text, Channel!Next, Channel!Silence
<1>3. CASE TIM5_Stop
  BY <1>3 DEF TIM5_Stop, Rx, Text, TypeOK
<1>4. CASE ClearSta
  <2>1. Text' = Text
    BY <1>4 DEF ClearSta, Text
  <2>2. Rx' = IF Rx = "complete" THEN "idle" ELSE Rx
    BY <1>4 DEF ClearSta, Rx, TypeOK
  <2> QED BY <2>1, <2>2 DEF Channel!Next, Channel!Consume
<1>5. CASE ClearBuf
  <2>1. Text' = {}
    BY <1>5 DEF ClearBuf, Text
  <2>2. Rx' = Rx
    BY <1>5 DEF ClearBuf, Rx
  <2> QED BY <2>1, <2>2 DEF Channel!Next, Channel!Clear
<1>6. CASE UNCHANGED vars
  BY <1>6 DEF vars, Rx, Text
<1> QED BY <1>1, <1>2, <1>3, <1>4, <1>5, <1>6 DEF Next

\* USART2_IRQHandler and TIM5_IRQHandler implement the frame channel that the
\* model of the GSM threads is built on, for a buffer of any length.
THEOREM UsartRefinesChannel == Spec => RefinesChannel
<1>1. Spec => Channel!Spec
  BY InitChannel, NextChannel, UsartInvariant, PTL DEF Spec, Channel!Spec
<1> QED BY <1>1 DEF RefinesChannel
=============================================================================
