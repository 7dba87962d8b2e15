---------------------------- MODULE Remote_proofs ---------------------------
(***************************************************************************)
(* Proofs about Remote, for every width of a byte, every set of keys, every *)
(* length of the silence, and any number of presses, repeats and pulses    *)
(* missed.                                                                 *)
(***************************************************************************)
EXTENDS Remote, SequenceTheorems, TLAPS

Widths == {LEADER, REPEAT, Width(0), Width(1)}

-----------------------------------------------------------------------------
(* Bytes, the shift register and the frame.                                *)

LEMMA FunctionIsSeq ==
  ASSUME NEW n \in Nat, NEW S, NEW f \in [1 .. n -> S]
  PROVE  f \in Seq(S) /\ Len(f) = n
OBVIOUS

LEMMA ShiftType ==
  ASSUME TypeOK, NEW b \in {0, 1}
  PROVE  Shift(b) \in [1 .. 4 * B -> {0, 1}]
<1>1. 4 * B \in Nat /\ 4 * B > 0
  BY WidthAssumption
<1>2. RmtRec \in Seq({0, 1}) /\ Len(RmtRec) = 4 * B
  BY <1>1, FunctionIsSeq DEF TypeOK
<1>3. RmtRec # <<>>
  BY <1>1, <1>2
<1>4. Tail(RmtRec) \in Seq({0, 1}) /\ Len(Tail(RmtRec)) = 4 * B - 1
  BY <1>2, <1>3, HeadTailProperties
<1>5. Shift(b) \in Seq({0, 1}) /\ Len(Shift(b)) = (4 * B - 1) + 1
  BY <1>4, AppendProperties DEF Shift
<1>6. Len(Shift(b)) = 4 * B
  BY <1>1, <1>5
<1> QED
  BY <1>5, <1>6, LenProperties

LEMMA ByteOfType ==
  ASSUME TypeOK, NEW n \in 0 .. 3
  PROVE  ByteOf(n) \in Byte
<1>1. \A i \in 1 .. B : n * B + i \in 1 .. 4 * B
  BY WidthAssumption
<1>2. \A i \in 1 .. B : RmtRec[n * B + i] \in {0, 1}
  BY <1>1 DEF TypeOK
<1> QED
  BY <1>2 DEF ByteOf, Byte

LEMMA ZeroType == ZERO \in Byte
BY DEF ZERO, Byte

LEMMA ComplementType ==
  ASSUME NEW b \in Byte
  PROVE  Complement(b) \in Byte
BY DEF Byte, Complement

LEMMA FrameType ==
  ASSUME NEW k \in Byte
  PROVE  Frame(k) \in Seq(Widths) /\ Len(Frame(k)) = 4 * B + 1
<1> DEFINE a == ZERO \o Complement(ZERO)
           bits == a \o k \o Complement(k)
           ws == [i \in 1 .. 4 * B |-> Width(bits[i])]
<1>1. B \in Nat /\ 4 * B \in Nat
  BY WidthAssumption
<1>2. \A b \in Byte : b \in Seq({0, 1}) /\ Len(b) = B
  <2> TAKE b \in Byte
  <2>1. b \in [1 .. B -> {0, 1}]
    BY DEF Byte
  <2> QED
    BY <1>1, <2>1, FunctionIsSeq
<1>3. a \in Seq({0, 1}) /\ Len(a) = B + B
  <2>1. Complement(ZERO) \in Byte /\ ZERO \in Byte
    BY ZeroType, ComplementType
  <2>2. /\ ZERO \in Seq({0, 1}) /\ Len(ZERO) = B
        /\ Complement(ZERO) \in Seq({0, 1}) /\ Len(Complement(ZERO)) = B
    BY <1>2, <2>1
  <2> QED
    BY <2>2, ConcatProperties
<1> HIDE DEF a
<1>4. a \o k \in Seq({0, 1}) /\ Len(a \o k) = B + B + B
  BY <1>2, <1>3, ConcatProperties
<1>5. bits \in Seq({0, 1}) /\ Len(bits) = B + B + B + B
  BY <1>2, <1>4, ComplementType, ConcatProperties
<1>6. \A i \in 1 .. 4 * B : bits[i] \in {0, 1}
  <2>1. Len(bits) = 4 * B
    BY <1>1, <1>5
  <2> QED
    BY <1>5, <2>1, ElementOfSeq
<1> HIDE DEF bits
<1>7. \A i \in 1 .. 4 * B : Width(bits[i]) \in Widths
  BY <1>6 DEF Widths
<1>8. ws \in [1 .. 4 * B -> Widths]
  BY <1>7
<1> HIDE DEF ws
<1>9. ws \in Seq(Widths) /\ Len(ws) = 4 * B
  BY <1>1, <1>8, FunctionIsSeq
<1>10. <<LEADER>> \in Seq(Widths) /\ Len(<<LEADER>>) = 1
  BY DEF Widths
<1>11. <<LEADER>> \o ws \in Seq(Widths) /\ Len(<<LEADER>> \o ws) = 1 + 4 * B
  BY <1>9, <1>10, ConcatProperties
<1>12. Frame(k) = <<LEADER>> \o ws
  BY DEF Frame, ws, bits, a
<1> QED
  BY <1>1, <1>11, <1>12

-----------------------------------------------------------------------------
(* The callbacks of TIM4.                                                  *)

ReceiverOK == RmtSta \in Stas /\ RmtRec \in [1 .. 4 * B -> {0, 1}]

LEMMA PeriodType ==
  ASSUME TypeOK, PeriodElapsed
  PROVE  ReceiverOK'
<1>1. RmtSta \in Stas /\ RmtRec' = RmtRec /\ RmtRec \in [1 .. 4 * B -> {0, 1}]
  BY DEF TypeOK, PeriodElapsed
<1>2. Silence \in Nat
  BY SilenceAssumption
<1>3. CASE ~RmtSta.leader
  BY <1>1, <1>3 DEF PeriodElapsed, ReceiverOK
<1>4. CASE RmtSta.leader /\ RmtSta.ticks < Silence
  <2>1. RmtSta' = [RmtSta EXCEPT !.rising = FALSE, !.ticks = @ + 1,
                                 !.full = @ \/ RmtSta.ticks = 0]
    BY <1>4 DEF PeriodElapsed
  <2>2. RmtSta.ticks + 1 \in 0 .. Silence
    BY <1>1, <1>2, <1>4 DEF Stas
  <2>3. (RmtSta.full \/ RmtSta.ticks = 0) \in BOOLEAN
    BY Zenon
  <2> QED
    BY <1>1, <2>1, <2>2, <2>3 DEF Stas, ReceiverOK
<1>5. CASE RmtSta.leader /\ ~(RmtSta.ticks < Silence)
  <2>1. RmtSta' = [RmtSta EXCEPT !.rising = FALSE, !.leader = FALSE, !.ticks = 0]
    BY <1>5 DEF PeriodElapsed
  <2>2. 0 \in 0 .. Silence
    BY <1>2
  <2> QED
    BY <1>1, <2>1, <2>2 DEF Stas, ReceiverOK
<1> QED
  BY <1>3, <1>4, <1>5

LEMMA FallingType ==
  ASSUME TypeOK, NEW Dval, Falling(Dval)
  PROVE  ReceiverOK'
<1> DEFINE bits  == RmtSta.rising /\ RmtSta.leader
           start == RmtSta.rising /\ ~RmtSta.leader
           leader == start /\ IsLeader(Dval)
           l == RmtSta.leader \/ leader
           t == IF bits /\ IsRepeat(Dval) THEN 0 ELSE RmtSta.ticks
<1>1. RmtSta \in Stas /\ RmtRec \in [1 .. 4 * B -> {0, 1}]
  BY DEF TypeOK
<1>2. l \in BOOLEAN
  <2> HIDE DEF leader
  <2> QED
    BY Zenon
<1>3. t \in 0 .. Silence
  BY <1>1, SilenceAssumption DEF Stas
<1>4. RmtSta' = [RmtSta EXCEPT !.rising = FALSE, !.leader = l, !.ticks = t]
  BY Zenon DEF Falling
<1> HIDE DEF l, t
<1>5. RmtSta' \in Stas
  BY <1>1, <1>2, <1>3, <1>4 DEF Stas
<1>6. RmtRec' \in {RmtRec, Shift(0), Shift(1)}
  BY DEF Falling
<1>7. RmtRec' \in [1 .. 4 * B -> {0, 1}]
  BY <1>1, <1>6, ShiftType
<1> QED
  BY <1>5, <1>7 DEF ReceiverOK

LEMMA RisingType ==
  ASSUME TypeOK, Rising
  PROVE  ReceiverOK'
BY DEF TypeOK, Rising, Stas, ReceiverOK

-----------------------------------------------------------------------------
(* The invariant: the line, the thread and the histories.                  *)

LineOK ==
  /\ line \in {"idle", "burst", "late", "high", "low", "tail"}
  /\ pulses \in Seq(Widths) /\ Len(pulses) <= 4 * B + 1

ThreadOK ==
  /\ loaded \in Stas
  /\ pc \in {"rest", "look", "id", "id_complement", "key", "key_complement",
             "check", "load", "store", "act"}
  /\ irda_value \in Byte /\ sta \in Byte /\ t1 \in Byte
  /\ waiting \in BOOLEAN

HistoryOK ==
  /\ presses \in 0 .. MaxPresses /\ events \in 0 .. MaxEvents
  /\ pressed \subseteq Buttons
  /\ ghosts \in Nat /\ acted \in Nat

\* TypeOK is not inductive: that a pulse has a width when it ends needs that no
\* pulse begins once the frame is over.
Pending == line = "high" => pulses # <<>>

LEMMA TypeParts == TypeOK <=> ReceiverOK /\ LineOK /\ ThreadOK /\ HistoryOK
BY DEF TypeOK, ReceiverOK, LineOK, ThreadOK, HistoryOK, Widths

LEMMA TypePartsNext == TypeOK' <=> ReceiverOK' /\ LineOK' /\ ThreadOK' /\ HistoryOK'
BY DEF TypeOK, ReceiverOK, LineOK, ThreadOK, HistoryOK, Widths

LEMMA ClearedType == Cleared \in Stas
BY SilenceAssumption DEF Cleared, Stas

LEMMA InitType == Init => TypeOK
<1> SUFFICES ASSUME Init PROVE TypeOK
  OBVIOUS
<1>1. ReceiverOK
  BY ClearedType DEF Init, ReceiverOK
<1>2. LineOK
  BY WidthAssumption DEF Init, LineOK
<1>3. ThreadOK
  BY ClearedType, ZeroType DEF Init, ThreadOK
<1>4. HistoryOK
  BY BoundsAssumption DEF Init, HistoryOK
<1> QED
  BY <1>1, <1>2, <1>3, <1>4, TypeParts

LEMMA TailType ==
  ASSUME LineOK, pulses # <<>>
  PROVE  Tail(pulses) \in Seq(Widths) /\ Len(Tail(pulses)) <= 4 * B + 1
<1>1. Len(pulses) \in Nat /\ Len(pulses) <= 4 * B + 1 /\ 4 * B + 1 \in Nat
  BY WidthAssumption, LenProperties DEF LineOK
<1>2. Tail(pulses) \in Seq(Widths) /\ Len(Tail(pulses)) = Len(pulses) - 1
  BY HeadTailProperties DEF LineOK
<1> QED
  BY <1>1, <1>2

LEMMA BeginType ==
  ASSUME TypeOK, NEW ps \in Seq(Widths), Len(ps) <= 4 * B + 1, Begin(ps)
  PROVE  ReceiverOK' /\ LineOK' /\ ThreadOK' /\ ghosts' \in Nat /\ acted' \in Nat
<1>1. ReceiverOK'
  BY FallingType DEF Begin
<1>2. LineOK'
  BY DEF Begin, LineOK
<1>3. ThreadOK'
  BY TypeParts DEF Begin, ThreadOK, thread
<1>4. ghosts' \in Nat /\ acted' \in Nat
  BY DEF Begin, TypeOK
<1> QED
  BY <1>1, <1>2, <1>3, <1>4

LEMMA InfraredType ==
  ASSUME TypeOK, Pending, Infrared
  PROVE  TypeOK'
<1> USE TypeParts
<1>1. ASSUME NEW k \in Buttons, Press(k) PROVE TypeOK'
  <2>1. k \in Byte
    BY KeysAssumption
  <2>2. Frame(k) \in Seq(Widths) /\ Len(Frame(k)) <= 4 * B + 1
    BY <2>1, FrameType, WidthAssumption
  <2>3. ReceiverOK' /\ LineOK' /\ ThreadOK' /\ ghosts' \in Nat /\ acted' \in Nat
    BY <1>1, <2>2, BeginType DEF Press
  <2>4. /\ presses' \in 0 .. MaxPresses /\ events' \in 0 .. MaxEvents
        /\ pressed' \subseteq Buttons
    BY <1>1, BoundsAssumption DEF Press, HistoryOK
  <2> QED
    BY <2>3, <2>4, TypePartsNext DEF HistoryOK
<1>2. CASE Repeat
  <2>1. <<REPEAT>> \in Seq(Widths) /\ Len(<<REPEAT>>) <= 4 * B + 1
    BY WidthAssumption DEF Widths
  <2>2. ReceiverOK' /\ LineOK' /\ ThreadOK' /\ ghosts' \in Nat /\ acted' \in Nat
    BY <1>2, <2>1, BeginType DEF Repeat
  <2>3. /\ presses' \in 0 .. MaxPresses /\ events' \in 0 .. MaxEvents
        /\ pressed' \subseteq Buttons
    BY <1>2, BoundsAssumption DEF Repeat, HistoryOK
  <2> QED
    BY <2>2, <2>3, TypePartsNext DEF HistoryOK
<1>3. CASE Overflow
  <2>1. ReceiverOK'
    BY <1>3, PeriodType DEF Overflow
  <2>2. LineOK' /\ ThreadOK' /\ HistoryOK'
    BY <1>3 DEF Overflow, LineOK, ThreadOK, HistoryOK, thread, history
  <2> QED
    BY <2>1, <2>2, TypePartsNext
<1>4. CASE Rise
  <2>1. ReceiverOK'
    BY <1>4, RisingType DEF Rise
  <2>2. LineOK' /\ ThreadOK' /\ HistoryOK'
    BY <1>4 DEF Rise, LineOK, ThreadOK, HistoryOK, thread, history
  <2> QED
    BY <2>1, <2>2, TypePartsNext
<1>5. CASE Fall
  <2>1. ReceiverOK'
    BY <1>5, FallingType DEF Fall
  <2>2. LineOK'
    BY <1>5, TailType DEF Fall, LineOK, Pending
  <2>3. ThreadOK' /\ HistoryOK'
    BY <1>5 DEF Fall, ThreadOK, HistoryOK, thread, history
  <2> QED
    BY <2>1, <2>2, <2>3, TypePartsNext
<1>6. CASE Lose
  <2>1. LineOK'
    BY <1>6, TailType DEF Lose, LineOK
  <2>2. ReceiverOK' /\ ThreadOK'
    BY <1>6 DEF Lose, ReceiverOK, ThreadOK, receiver, thread
  <2>3. HistoryOK'
    BY <1>6, BoundsAssumption DEF Lose, HistoryOK
  <2> QED
    BY <2>1, <2>2, <2>3, TypePartsNext
<1> QED
  BY <1>1, <1>2, <1>3, <1>4, <1>5, <1>6 DEF Infrared

LEMMA ReturnType ==
  ASSUME ThreadOK, NEW v \in Byte, Return(v)
  PROVE  /\ irda_value' \in Byte /\ waiting' \in BOOLEAN /\ sta' \in Byte
         /\ pc' \in {"look", "act", "rest"}
<1>1. waiting' \in BOOLEAN
  BY Zenon DEF Return
<1>2. irda_value' \in Byte /\ sta' \in Byte
  BY ZeroType DEF Return, ThreadOK
<1>3. pc' \in {"look", "act", "rest"}
  BY DEF Return
<1> QED
  BY <1>1, <1>2, <1>3

LEMMA ScanType ==
  ASSUME TypeOK, Remote_Scan
  PROVE  TypeOK'
<1>1. ThreadOK /\ ReceiverOK /\ LineOK /\ HistoryOK
  BY TypeParts
<1>2. LineOK' /\ HistoryOK' /\ RmtRec' = RmtRec
  BY <1>1 DEF Remote_Scan, LineOK, HistoryOK, sender, history
<1>3. CASE Wake
  BY <1>1, <1>2, <1>3, TypePartsNext DEF Wake, ThreadOK, ReceiverOK, returned
<1>4. CASE Look
  <2>1. CASE RmtSta.full
    BY <1>1, <1>2, <1>4, <2>1, TypePartsNext DEF Look, ThreadOK, ReceiverOK, returned
  <2>2. CASE ~RmtSta.full
    <3>1. Return(ZERO)
      BY <1>4, <2>2 DEF Look
    <3> QED
      BY <1>1, <1>2, <1>4, <3>1, ReturnType, ZeroType, TypePartsNext
         DEF Look, ThreadOK, ReceiverOK
  <2> QED
    BY <2>1, <2>2
<1>5. CASE ReadByte
  <2>1. t1' \in Byte
    BY <1>5, ByteOfType DEF ReadByte
  <2> QED
    BY <1>1, <1>2, <1>5, <2>1, TypePartsNext DEF ReadByte, ThreadOK, ReceiverOK, returned
<1>6. CASE CompareId
  BY <1>1, <1>2, <1>6, ZeroType, TypePartsNext DEF CompareId, ThreadOK, ReceiverOK, returned
<1>7. CASE CompareKey
  BY <1>1, <1>2, <1>7, ZeroType, TypePartsNext DEF CompareKey, ThreadOK, ReceiverOK
<1>8. CASE Check
  <2>1. CASE sta = ZERO \/ ~RmtSta.leader
    BY <1>1, <1>2, <1>8, <2>1, TypePartsNext DEF Check, ThreadOK, ReceiverOK, returned
  <2>2. CASE ~(sta = ZERO \/ ~RmtSta.leader)
    <3>1. Return(sta) /\ sta \in Byte
      BY <1>1, <1>8, <2>2 DEF Check, ThreadOK
    <3> QED
      BY <1>1, <1>2, <1>8, <3>1, ReturnType, TypePartsNext DEF Check, ThreadOK, ReceiverOK
  <2> QED
    BY <2>1, <2>2
<1>9. CASE Load
  BY <1>1, <1>2, <1>9, TypePartsNext DEF Load, ThreadOK, ReceiverOK, returned
<1>10. CASE Store
  <2>1. RmtSta' \in Stas
    BY <1>1, <1>10 DEF Store, ThreadOK, Stas
  <2>2. Return(sta) /\ sta \in Byte
    BY <1>1, <1>10 DEF Store, ThreadOK
  <2> QED
    BY <1>1, <1>2, <1>10, <2>1, <2>2, ReturnType, ClearedType, TypePartsNext
       DEF Store, ThreadOK, ReceiverOK
<1> QED
  BY <1>3, <1>4, <1>5, <1>6, <1>7, <1>8, <1>9, <1>10 DEF Remote_Scan

LEMMA NextType == TypeOK /\ Pending /\ [Next]_vars => TypeOK'
<1> SUFFICES ASSUME TypeOK, Pending, [Next]_vars PROVE TypeOK'
  OBVIOUS
<1>1. CASE Act
  BY <1>1, ZeroType DEF Act, TypeOK, receiver, sender
<1>2. CASE UNCHANGED vars
  BY <1>2 DEF TypeOK, vars, receiver, sender, thread, history
<1> QED
  BY <1>1, <1>2, InfraredType, ScanType DEF Next, IRDA_thread

LEMMA NextPending == Pending /\ [Next]_vars => Pending'
<1> SUFFICES ASSUME Pending, [Next]_vars PROVE Pending'
  OBVIOUS
<1>1. CASE Infrared
  BY <1>1 DEF Pending, Infrared, Press, Repeat, Begin, Overflow, Rise, Fall, Lose
<1>2. CASE IRDA_thread \/ UNCHANGED vars
  BY <1>2 DEF Pending, IRDA_thread, Remote_Scan, Act, sender, vars
<1> QED
  BY <1>1, <1>2 DEF Next

-----------------------------------------------------------------------------
(* Theorems.                                                               *)

\* The shift register, RmtSta and the bytes that Remote_Scan makes of them stay
\* in their ranges, whatever is pressed, missed or stored over, and no pulse is
\* taken from a frame that is over (remote.c 56-170).
THEOREM TypeCorrect == Spec => []TypeOK
<1>1. Init => TypeOK /\ Pending
  BY InitType DEF Init, Pending
<1> QED
  BY <1>1, NextType, NextPending, PTL DEF Spec

-----------------------------------------------------------------------------
(* IRDA_thread is a latch for codes.                                       *)

\* While it waits it has a code, when it acts it waits no more, and otherwise
\* it has none.
PhaseInv ==
  /\ waiting => irda_value # ZERO /\ pc # "act"
  /\ ~waiting /\ pc # "act" => irda_value = ZERO

LEMMA InitPhase == Init => PhaseInv
BY DEF Init, PhaseInv

\* What becomes of the code when Remote_Scan returns v.
LEMMA ReturnLatches ==
  ASSUME TypeOK, PhaseInv, pc # "act", NEW v \in Byte, Return(v), acted' = acted
  PROVE  PhaseInv' /\ [Latch!Next]_(Latch!kvars)
<1>1. waiting' <=> v # ZERO /\ (waiting => v = irda_value)
  BY Zenon DEF Return
<1>2. irda_value' = IF waiting THEN irda_value ELSE v
  BY DEF Return
<1>3. /\ waiting' => pc' = "look"
      /\ ~waiting' => pc' = IF waiting THEN "act" ELSE "rest"
  BY DEF Return
<1>4. CASE waiting /\ waiting'
  <2>1. irda_value' = irda_value /\ pc' = "look"
    BY <1>2, <1>3, <1>4
  <2> QED
    BY <1>4, <2>1 DEF PhaseInv, Phase, Latch!kvars
<1>5. CASE waiting /\ ~waiting'
  <2>1. irda_value' = irda_value /\ pc' = "act"
    BY <1>2, <1>3, <1>5
  <2> QED
    BY <1>5, <2>1 DEF PhaseInv, Phase, Latch!Next, Latch!Over
<1>6. CASE ~waiting /\ waiting'
  <2>1. irda_value' = v /\ v # ZERO /\ pc' = "look"
    BY <1>1, <1>2, <1>3, <1>6
  <2>2. Latch!Down(v)
    BY <1>6, <2>1 DEF Phase, Latch!Down
  <2> QED
    BY <1>6, <2>1, <2>2 DEF PhaseInv, Latch!Next
<1>7. CASE ~waiting /\ ~waiting'
  <2>1. v = ZERO /\ irda_value' = v /\ pc' = "rest"
    BY <1>1, <1>2, <1>3, <1>7
  <2> QED
    BY <1>7, <2>1 DEF PhaseInv, Phase, Latch!kvars
<1> QED
  BY <1>4, <1>5, <1>6, <1>7

\* The steps that leave the code alone.
LEMMA SamePhase ==
  ASSUME PhaseInv, pc # "act", pc' # "act", UNCHANGED <<irda_value, waiting, acted>>
  PROVE  PhaseInv' /\ [Latch!Next]_(Latch!kvars)
BY DEF PhaseInv, Phase, Latch!kvars

LEMMA StepLatches ==
  ASSUME TypeOK, PhaseInv, [Next]_vars
  PROVE  PhaseInv' /\ [Latch!Next]_(Latch!kvars)
<1>1. CASE Remote_Scan
  <2>1. acted' = acted
    BY <1>1 DEF Remote_Scan, history
  <2>2. CASE Wake \/ ReadByte \/ CompareId \/ CompareKey \/ Load
    <3>1. pc # "act" /\ pc' # "act" /\ UNCHANGED <<irda_value, waiting>>
      BY <2>2 DEF Wake, ReadByte, CompareId, CompareKey, Load, returned
    <3> QED
      BY <2>1, <3>1, SamePhase
  <2>3. CASE Look
    <3>1. CASE RmtSta.full
      <4>1. pc # "act" /\ pc' # "act" /\ UNCHANGED <<irda_value, waiting>>
        BY <2>3, <3>1 DEF Look, returned
      <4> QED
        BY <2>1, <4>1, SamePhase
    <3>2. CASE ~RmtSta.full
      <4>1. pc # "act" /\ Return(ZERO)
        BY <2>3, <3>2 DEF Look
      <4> QED
        BY <2>1, <4>1, ZeroType, ReturnLatches
    <3> QED
      BY <3>1, <3>2
  <2>4. CASE Check
    <3>1. CASE sta = ZERO \/ ~RmtSta.leader
      <4>1. pc # "act" /\ pc' # "act" /\ UNCHANGED <<irda_value, waiting>>
        BY <2>4, <3>1 DEF Check, returned
      <4> QED
        BY <2>1, <4>1, SamePhase
    <3>2. CASE ~(sta = ZERO \/ ~RmtSta.leader)
      <4>1. pc # "act" /\ Return(sta) /\ sta \in Byte
        BY <2>4, <3>2 DEF Check, TypeOK
      <4> QED
        BY <2>1, <4>1, ReturnLatches
    <3> QED
      BY <3>1, <3>2
  <2>5. CASE Store
    <3>1. pc # "act" /\ Return(sta) /\ sta \in Byte
      BY <2>5 DEF Store, TypeOK
    <3> QED
      BY <2>1, <3>1, ReturnLatches
  <2> QED
    BY <1>1, <2>2, <2>3, <2>4, <2>5 DEF Remote_Scan
<1>2. CASE Act
  <2>1. /\ pc = "act" /\ pc' = "rest" /\ waiting' = waiting /\ irda_value' = ZERO
        /\ acted' = IF irda_value \in Keys THEN acted + 1 ELSE acted
    BY <1>2 DEF Act
  <2>2. ~waiting
    BY <2>1 DEF PhaseInv
  <2> QED
    BY <2>1, <2>2 DEF PhaseInv, Phase, Latch!Next, Latch!Obey
<1>3. CASE Infrared \/ UNCHANGED vars
  <2>1. UNCHANGED <<pc, irda_value, waiting, acted>>
    BY <1>3 DEF Infrared, Press, Repeat, Begin, Overflow, Rise, Fall, Lose, thread, history, vars
  <2> QED
    BY <2>1 DEF PhaseInv, Phase, Latch!kvars
<1> QED
  BY <1>1, <1>2, <1>3 DEF Next, IRDA_thread

\* Whatever Remote_Scan returns, IRDA_thread obeys a code once, and only after
\* Remote_Scan has ceased to return it, for bytes of any width and any number of
\* presses, repeats and pulses missed (main.c 414).
THEOREM RemoteRefinesLatch == Spec => RefinesLatch
<1>1. Init => Latch!Init
  BY DEF Init, Phase, Latch!Init
<1>2. TypeOK /\ PhaseInv /\ [Next]_vars => PhaseInv' /\ [Latch!Next]_(Latch!kvars)
  BY StepLatches
<1> QED
  BY <1>1, <1>2, InitPhase, TypeCorrect, PTL DEF Spec, RefinesLatch, Latch!Spec
=============================================================================
