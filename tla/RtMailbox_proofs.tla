-------------------------- MODULE RtMailbox_proofs --------------------------
(***************************************************************************)
(* Proofs about RtMailbox for every number of threads, every set of mails  *)
(* and every size of the ring.  NoLostWakeup is not inductive by itself:   *)
(* that a resume adds one to the number of woken threads needs the lists   *)
(* to hold only sleeping threads (WaitersOK), and that the ring is a queue *)
(* needs the two offsets to stay entry apart (RingOK).                     *)
(***************************************************************************)
EXTENDS RtMailbox, SequenceTheorems, FiniteSetTheorems, TLAPS

Distinct(list) ==
  \A i, j \in 1 .. Len(list) : list[i] = list[j] => i = j

WaitersOK ==
  /\ \A i \in 1 .. Len(suspend_thread) :
       /\ call[suspend_thread[i]].op = "recv"
       /\ suspend_thread[i] \notin woken
  /\ \A i \in 1 .. Len(suspend_sender_thread) :
       /\ call[suspend_sender_thread[i]].op = "send"
       /\ suspend_sender_thread[i] \notin woken
  /\ Distinct(suspend_thread)
  /\ Distinct(suspend_sender_thread)
  /\ \A t \in woken : call[t].op # "none"
  /\ \A t \in Threads : call[t].op = "send" => call[t].mail \in Mails

RingOK == in_offset = IF out_offset + entry >= Size
                      THEN out_offset + entry - Size
                      ELSE out_offset + entry

IInv == TypeOK /\ WaitersOK /\ RingOK /\ NoLostWakeup

-----------------------------------------------------------------------------
(* Facts about the lists.                                                  *)

\* What cutting one thread out of a list of suspended threads leaves.
LEMMA CutProperties ==
  ASSUME NEW S, NEW list \in Seq(S), NEW i \in 1 .. Len(list)
  PROVE  /\ Cut(list, i) \in Seq(S)
         /\ Len(Cut(list, i)) = Len(list) - 1
         /\ \A j \in 1 .. Len(list) - 1 :
              Cut(list, i)[j] = IF j < i THEN list[j] ELSE list[j + 1]
<1> DEFINE a == SubSeq(list, 1, i - 1)
           b == SubSeq(list, i + 1, Len(list))
<1>1. Len(list) \in Nat
  BY LenProperties
<1>2. /\ a \in Seq(S)
      /\ Len(a) = i - 1
      /\ \A j \in 1 .. i - 1 : a[j] = list[j]
  <2>1. \A j \in 1 .. i - 1 : list[j] \in S
    BY <1>1, ElementOfSeq
  <2> QED
    BY <1>1, <2>1, SubSeqProperties
<1>3. /\ b \in Seq(S)
      /\ Len(b) = Len(list) - i
      /\ \A j \in 1 .. Len(list) - i : b[j] = list[i + j]
  <2>1. \A j \in i + 1 .. Len(list) : list[j] \in S
    BY <1>1, ElementOfSeq
  <2> QED
    BY <1>1, <2>1, SubSeqProperties
<1>c. Cut(list, i) = a \o b
  BY DEF Cut
<1> HIDE DEF a, b
<1>4. /\ a \o b \in Seq(S)
      /\ Len(a \o b) = Len(a) + Len(b)
      /\ \A j \in 1 .. Len(a) + Len(b) :
           (a \o b)[j] = IF j <= Len(a) THEN a[j] ELSE b[j - Len(a)]
  BY <1>2, <1>3, ConcatProperties
<1>5. ASSUME NEW j \in 1 .. Len(list) - 1
      PROVE  (a \o b)[j] = IF j < i THEN list[j] ELSE list[j + 1]
  <2>1. CASE j < i
    BY <1>1, <1>2, <1>3, <1>4, <2>1
  <2>2. CASE j >= i
    <3>1. (a \o b)[j] = b[j - (i - 1)]
      BY <1>1, <1>2, <1>3, <1>4, <2>2
    <3>2. j - (i - 1) \in 1 .. Len(list) - i
      BY <1>1, <2>2
    <3>3. b[j - (i - 1)] = list[i + (j - (i - 1))]
      BY <1>3, <3>2
    <3>4. i + (j - (i - 1)) = j + 1
      BY <1>1, <2>2
    <3>5. (a \o b)[j] = list[j + 1]
      BY <3>1, <3>3, <3>4, Zenon
    <3> QED
      BY <1>1, <2>2, <3>5
  <2>3. j < i \/ j >= i
    BY <1>1
  <2> QED
    BY <2>1, <2>2, <2>3
<1> QED
  BY <1>c, <1>1, <1>2, <1>3, <1>4, <1>5

\* Taking the head off a list, with Rest for the empty list.
LEMMA RestProperties ==
  ASSUME NEW S, NEW list \in Seq(S)
  PROVE  /\ Rest(list) \in Seq(S)
         /\ list = <<>> => Rest(list) = <<>>
         /\ list # <<>> =>
              /\ Len(list) \in Nat \ {0}
              /\ Head(list) = list[1]
              /\ Head(list) \in S
              /\ Len(Rest(list)) = Len(list) - 1
              /\ \A i \in 1 .. Len(list) - 1 : Rest(list)[i] = list[i + 1]
BY HeadTailProperties, EmptySeq, LenProperties DEF Rest

-----------------------------------------------------------------------------
(* Each piece of a call preserves the invariant.                           *)

\* Sets of woken threads are finite, so they can be counted.
LEMMA WokenFinite ==
  ASSUME TypeOK
  PROVE  /\ IsFiniteSet(WokenReceivers) /\ IsFiniteSet(WokenSenders)
         /\ Cardinality(WokenReceivers) \in Nat
         /\ Cardinality(WokenSenders) \in Nat
BY ThreadsAssumption, FS_Subset, FS_CardinalityType
   DEF TypeOK, WokenReceivers, WokenSenders

\* A caller of the send side: it is in no call, or a woken sender.
Sender(t)   == call[t] = NoCall \/ (t \in woken /\ call[t].op = "send")
Receiver(t) == call[t] = NoCall \/ (t \in woken /\ call[t].op = "recv")

\* Storing a mail and resuming a receiver preserves the invariant.
LEMMA PutMailInv ==
  ASSUME IInv, NEW t \in Threads, NEW m \in Mails, Sender(t), PutMail(t, m)
  PROVE  IInv'
<1> USE SizeAssumption
<1>t. TypeOK
  BY DEF IInv
<1>w. WaitersOK
  BY DEF IInv
<1>l. suspend_thread \in Seq(Threads)
  BY <1>t DEF TypeOK
<1>r. /\ Rest(suspend_thread) \in Seq(Threads)
      /\ suspend_thread = <<>> => Rest(suspend_thread) = <<>>
      /\ suspend_thread # <<>> =>
              /\ Len(suspend_thread) \in Nat \ {0}
              /\ Head(suspend_thread) = suspend_thread[1]
              /\ Head(suspend_thread) \in Threads
              /\ Len(Rest(suspend_thread)) = Len(suspend_thread) - 1
              /\ \A i \in 1 .. Len(suspend_thread) - 1 :
                    Rest(suspend_thread)[i] = suspend_thread[i + 1]
  BY <1>l, RestProperties
<1>1. TypeOK'
  <2>1. /\ msg_pool' \in [Slots -> Mails \cup {NoMail}]
        /\ entry' \in 0 .. Size
        /\ in_offset' \in Slots
        /\ out_offset' \in Slots
    BY <1>t DEF TypeOK, PutMail, Slots, Advance
  <2>2. /\ suspend_thread' \in Seq(Threads)
        /\ suspend_sender_thread' \in Seq(Threads)
        /\ woken' \subseteq Threads
    BY <1>t, <1>r DEF TypeOK, PutMail, Resume
  <2>3. call' \in [Threads -> Calls] /\ inbox' \in [Threads -> Mails \cup {NoMail}]
    BY <1>t DEF TypeOK, PutMail, Return, Calls, NoCall, Timeouts
  <2> QED
    BY <2>1, <2>2, <2>3 DEF TypeOK
<1>2. RingOK'
  BY <1>t DEF IInv, RingOK, TypeOK, PutMail, Advance, Slots
<1>3. WaitersOK'
  <2>0. /\ call' = [call EXCEPT ![t] = NoCall]
        /\ woken' = Resume(suspend_thread, t)
        /\ suspend_thread' = Rest(suspend_thread)
        /\ suspend_sender_thread' = suspend_sender_thread
        /\ call \in [Threads -> Calls]
        /\ suspend_sender_thread \in Seq(Threads)
    BY <1>t DEF PutMail, Return, TypeOK
  <2>1. \A i \in 1 .. Len(suspend_thread) : suspend_thread[i] # t
    BY <1>w DEF WaitersOK, Sender, NoCall
  <2>2. \A i \in 1 .. Len(suspend_sender_thread) : suspend_sender_thread[i] # t
    BY <1>w DEF WaitersOK, Sender, NoCall
  <2>3. ASSUME NEW i \in 1 .. Len(suspend_thread')
        PROVE  /\ call'[suspend_thread'[i]].op = "recv"
               /\ suspend_thread'[i] \notin woken'
    <3>1. suspend_thread # <<>>
      BY <1>r, <2>0, EmptySeq
    <3>2. i + 1 \in 1 .. Len(suspend_thread) /\ suspend_thread'[i] = suspend_thread[i + 1]
      BY <1>r, <2>0, <3>1
    <3>3. suspend_thread[i + 1] \in Threads /\ suspend_thread[i + 1] # Head(suspend_thread)
      BY <1>l, <1>r, <1>w, <3>1, <3>2, ElementOfSeq DEF WaitersOK, Distinct
    <3> QED
      BY <1>w, <2>0, <2>1, <3>1, <3>2, <3>3 DEF WaitersOK, Resume
  <2>4. ASSUME NEW i \in 1 .. Len(suspend_sender_thread')
        PROVE  /\ call'[suspend_sender_thread'[i]].op = "send"
               /\ suspend_sender_thread'[i] \notin woken'
    <3>1. /\ suspend_sender_thread[i] \in Threads
          /\ call[suspend_sender_thread[i]].op = "send"
          /\ suspend_sender_thread[i] \notin woken
      BY <1>w, <2>0, ElementOfSeq DEF WaitersOK
    <3>2. suspend_thread # <<>> => call[Head(suspend_thread)].op = "recv"
      BY <1>r, <1>w DEF WaitersOK
    <3> QED
      BY <2>0, <2>2, <3>1, <3>2 DEF Resume
  <2>5. Distinct(suspend_thread')
    <3>1. CASE suspend_thread = <<>>
      BY <1>r, <2>0, <3>1, EmptySeq DEF Distinct
    <3>2. CASE suspend_thread # <<>>
      BY <1>r, <1>w, <2>0, <3>2 DEF WaitersOK, Distinct
    <3> QED
      BY <3>1, <3>2
  <2>6. \A u \in woken' : call'[u].op # "none"
    <3>1. suspend_thread # <<>> => /\ call[Head(suspend_thread)].op = "recv"
                                  /\ Head(suspend_thread) # t
      BY <1>r, <1>w, <2>1 DEF WaitersOK
    <3>2. woken \subseteq Threads
      BY <1>t DEF TypeOK
    <3> QED
      BY <1>w, <1>r, <2>0, <3>1, <3>2 DEF WaitersOK, Resume
  <2>7. \A u \in Threads : call'[u].op = "send" => call'[u].mail \in Mails
    BY <1>w, <2>0 DEF WaitersOK, NoCall
  <2> QED
    BY <1>w, <2>0, <2>3, <2>4, <2>5, <2>6, <2>7 DEF WaitersOK
<1>4. NoLostWakeup'
  <2>1. /\ entry \in Nat /\ Size \in Nat /\ entry' = entry + 1
        /\ suspend_thread' = Rest(suspend_thread)
        /\ suspend_sender_thread' = suspend_sender_thread
        /\ call' = [call EXCEPT ![t] = NoCall]
        /\ woken' = Resume(suspend_thread, t)
        /\ call \in [Threads -> Calls] /\ woken \subseteq Threads
    BY <1>t DEF TypeOK, PutMail, Return
  <2>2. suspend_thread # <<>> =>
          /\ WokenReceivers' = WokenReceivers \cup {Head(suspend_thread)}
          /\ Head(suspend_thread) \notin WokenReceivers
    BY <1>r, <1>w, <2>1 DEF WaitersOK, WokenReceivers, Resume, Sender, NoCall
  <2>3. WokenSenders' = WokenSenders \ {t}
    BY <1>r, <1>w, <2>1 DEF WaitersOK, WokenSenders, Resume, Sender, NoCall
  <2>4. suspend_thread # <<>> =>
          Cardinality(WokenReceivers') = Cardinality(WokenReceivers) + 1
    BY <1>t, <2>2, WokenFinite, FS_AddElement
  <2>5. Cardinality(WokenSenders') >= Cardinality(WokenSenders) - 1
    <3>1. IsFiniteSet(WokenSenders) /\ Cardinality(WokenSenders) \in Nat
      BY <1>t, WokenFinite
    <3>2. Cardinality(WokenSenders \ {t}) = IF t \in WokenSenders
                                            THEN Cardinality(WokenSenders) - 1
                                            ELSE Cardinality(WokenSenders)
      BY <3>1, FS_RemoveElement
    <3> QED
      BY <2>3, <3>1, <3>2
  <2>6. /\ Cardinality(WokenReceivers) \in Nat /\ Cardinality(WokenSenders) \in Nat
        /\ Cardinality(WokenReceivers') \in Nat /\ Cardinality(WokenSenders') \in Nat
    BY <1>t, <1>1, WokenFinite, ThreadsAssumption, FS_Subset, FS_CardinalityType
       DEF TypeOK, WokenReceivers, WokenSenders
  <2>7. /\ suspend_thread # <<>> => entry <= Cardinality(WokenReceivers)
        /\ suspend_sender_thread # <<>> => Size - entry <= Cardinality(WokenSenders)
    BY DEF IInv, NoLostWakeup
  <2>8. suspend_thread' # <<>> => entry' <= Cardinality(WokenReceivers')
    BY <1>r, <2>1, <2>4, <2>6, <2>7
  <2>9. suspend_sender_thread' # <<>> => Size - entry' <= Cardinality(WokenSenders')
    BY <2>1, <2>5, <2>6, <2>7
  <2> QED
    BY <2>8, <2>9 DEF NoLostWakeup
<1> QED
  BY <1>1, <1>2, <1>3, <1>4 DEF IInv
\* Handing out a mail and resuming a sender preserves the invariant.
LEMMA GetMailInv ==
  ASSUME IInv, NEW t \in Threads, Receiver(t), GetMail(t)
  PROVE  IInv'
<1> USE SizeAssumption
<1>t. TypeOK
  BY DEF IInv
<1>w. WaitersOK
  BY DEF IInv
<1>l. suspend_sender_thread \in Seq(Threads)
  BY <1>t DEF TypeOK
<1>r. /\ Rest(suspend_sender_thread) \in Seq(Threads)
      /\ suspend_sender_thread = <<>> => Rest(suspend_sender_thread) = <<>>
      /\ suspend_sender_thread # <<>> =>
              /\ Len(suspend_sender_thread) \in Nat \ {0}
              /\ Head(suspend_sender_thread) = suspend_sender_thread[1]
              /\ Head(suspend_sender_thread) \in Threads
              /\ Len(Rest(suspend_sender_thread)) = Len(suspend_sender_thread) - 1
              /\ \A i \in 1 .. Len(suspend_sender_thread) - 1 :
                    Rest(suspend_sender_thread)[i] = suspend_sender_thread[i + 1]
  BY <1>l, RestProperties
<1>1. TypeOK'
  <2>1. /\ msg_pool' \in [Slots -> Mails \cup {NoMail}]
        /\ entry' \in 0 .. Size
        /\ in_offset' \in Slots
        /\ out_offset' \in Slots
    BY <1>t DEF TypeOK, GetMail, Slots, Advance
  <2>2. /\ suspend_sender_thread' \in Seq(Threads)
        /\ suspend_thread' \in Seq(Threads)
        /\ woken' \subseteq Threads
    BY <1>t, <1>r DEF TypeOK, GetMail, Resume
  <2>3. call' \in [Threads -> Calls] /\ inbox' \in [Threads -> Mails \cup {NoMail}]
    BY <1>t DEF TypeOK, GetMail, Return, Calls, NoCall, Timeouts
  <2> QED
    BY <2>1, <2>2, <2>3 DEF TypeOK
<1>2. RingOK'
  BY <1>t DEF IInv, RingOK, TypeOK, GetMail, Advance, Slots
<1>3. WaitersOK'
  <2>0. /\ call' = [call EXCEPT ![t] = NoCall]
        /\ woken' = Resume(suspend_sender_thread, t)
        /\ suspend_sender_thread' = Rest(suspend_sender_thread)
        /\ suspend_thread' = suspend_thread
        /\ call \in [Threads -> Calls]
        /\ suspend_thread \in Seq(Threads)
    BY <1>t DEF GetMail, Return, TypeOK
  <2>1. \A i \in 1 .. Len(suspend_sender_thread) : suspend_sender_thread[i] # t
    BY <1>w DEF WaitersOK, Receiver, NoCall
  <2>2. \A i \in 1 .. Len(suspend_thread) : suspend_thread[i] # t
    BY <1>w DEF WaitersOK, Receiver, NoCall
  <2>3. ASSUME NEW i \in 1 .. Len(suspend_sender_thread')
        PROVE  /\ call'[suspend_sender_thread'[i]].op = "send"
               /\ suspend_sender_thread'[i] \notin woken'
    <3>1. suspend_sender_thread # <<>>
      BY <1>r, <2>0, EmptySeq
    <3>2. i + 1 \in 1 .. Len(suspend_sender_thread) /\ suspend_sender_thread'[i] = suspend_sender_thread[i + 1]
      BY <1>r, <2>0, <3>1
    <3>3. suspend_sender_thread[i + 1] \in Threads /\ suspend_sender_thread[i + 1] # Head(suspend_sender_thread)
      BY <1>l, <1>r, <1>w, <3>1, <3>2, ElementOfSeq DEF WaitersOK, Distinct
    <3> QED
      BY <1>w, <2>0, <2>1, <3>1, <3>2, <3>3 DEF WaitersOK, Resume
  <2>4. ASSUME NEW i \in 1 .. Len(suspend_thread')
        PROVE  /\ call'[suspend_thread'[i]].op = "recv"
               /\ suspend_thread'[i] \notin woken'
    <3>1. /\ suspend_thread[i] \in Threads
          /\ call[suspend_thread[i]].op = "recv"
          /\ suspend_thread[i] \notin woken
      BY <1>w, <2>0, ElementOfSeq DEF WaitersOK
    <3>2. suspend_sender_thread # <<>> => call[Head(suspend_sender_thread)].op = "send"
      BY <1>r, <1>w DEF WaitersOK
    <3> QED
      BY <2>0, <2>2, <3>1, <3>2 DEF Resume
  <2>5. Distinct(suspend_sender_thread')
    <3>1. CASE suspend_sender_thread = <<>>
      BY <1>r, <2>0, <3>1, EmptySeq DEF Distinct
    <3>2. CASE suspend_sender_thread # <<>>
      BY <1>r, <1>w, <2>0, <3>2 DEF WaitersOK, Distinct
    <3> QED
      BY <3>1, <3>2
  <2>6. \A u \in woken' : call'[u].op # "none"
    <3>1. suspend_sender_thread # <<>> => /\ call[Head(suspend_sender_thread)].op = "send"
                                  /\ Head(suspend_sender_thread) # t
      BY <1>r, <1>w, <2>1 DEF WaitersOK
    <3>2. woken \subseteq Threads
      BY <1>t DEF TypeOK
    <3> QED
      BY <1>w, <1>r, <2>0, <3>1, <3>2 DEF WaitersOK, Resume
  <2>7. \A u \in Threads : call'[u].op = "send" => call'[u].mail \in Mails
    BY <1>w, <2>0 DEF WaitersOK, NoCall
  <2> QED
    BY <1>w, <2>0, <2>3, <2>4, <2>5, <2>6, <2>7 DEF WaitersOK
<1>4. NoLostWakeup'
  <2>1. /\ entry \in Nat /\ Size \in Nat /\ entry' = entry - 1
        /\ suspend_sender_thread' = Rest(suspend_sender_thread)
        /\ suspend_thread' = suspend_thread
        /\ call' = [call EXCEPT ![t] = NoCall]
        /\ woken' = Resume(suspend_sender_thread, t)
        /\ call \in [Threads -> Calls] /\ woken \subseteq Threads
    BY <1>t DEF TypeOK, GetMail, Return
  <2>2. suspend_sender_thread # <<>> =>
          /\ WokenSenders' = WokenSenders \cup {Head(suspend_sender_thread)}
          /\ Head(suspend_sender_thread) \notin WokenSenders
    BY <1>r, <1>w, <2>1 DEF WaitersOK, WokenSenders, Resume, Receiver, NoCall
  <2>3. WokenReceivers' = WokenReceivers \ {t}
    BY <1>r, <1>w, <2>1 DEF WaitersOK, WokenReceivers, Resume, Receiver, NoCall
  <2>4. suspend_sender_thread # <<>> =>
          Cardinality(WokenSenders') = Cardinality(WokenSenders) + 1
    BY <1>t, <2>2, WokenFinite, FS_AddElement
  <2>5. Cardinality(WokenReceivers') >= Cardinality(WokenReceivers) - 1
    <3>1. IsFiniteSet(WokenReceivers) /\ Cardinality(WokenReceivers) \in Nat
      BY <1>t, WokenFinite
    <3>2. Cardinality(WokenReceivers \ {t}) = IF t \in WokenReceivers
                                            THEN Cardinality(WokenReceivers) - 1
                                            ELSE Cardinality(WokenReceivers)
      BY <3>1, FS_RemoveElement
    <3> QED
      BY <2>3, <3>1, <3>2
  <2>6. /\ Cardinality(WokenSenders) \in Nat /\ Cardinality(WokenReceivers) \in Nat
        /\ Cardinality(WokenSenders') \in Nat /\ Cardinality(WokenReceivers') \in Nat
    BY <1>t, <1>1, WokenFinite, ThreadsAssumption, FS_Subset, FS_CardinalityType
       DEF TypeOK, WokenSenders, WokenReceivers
  <2>7. /\ suspend_sender_thread # <<>> => Size - entry <= Cardinality(WokenSenders)
        /\ suspend_thread # <<>> => entry <= Cardinality(WokenReceivers)
    BY DEF IInv, NoLostWakeup
  <2>8. suspend_sender_thread' # <<>> => Size - entry' <= Cardinality(WokenSenders')
    BY <1>r, <2>1, <2>4, <2>6, <2>7
  <2>9. suspend_thread' # <<>> => entry' <= Cardinality(WokenReceivers')
    BY <2>1, <2>5, <2>6, <2>7
  <2> QED
    BY <2>8, <2>9 DEF NoLostWakeup
<1> QED
  BY <1>1, <1>2, <1>3, <1>4 DEF IInv
\* A caller that gives up leaves the mailbox as it was; the test it made shows
\* that there was no mail, or no slot, for it to strand.
LEMMA GiveUpInv ==
  ASSUME IInv, NEW t \in Threads, GiveUp(t),
         (Sender(t) /\ entry = Size) \/ (Receiver(t) /\ entry = 0)
  PROVE  IInv'
<1> USE SizeAssumption
<1>1. /\ call' = [call EXCEPT ![t] = NoCall]
      /\ woken' = woken \ {t}
      /\ UNCHANGED <<msg_pool, entry, in_offset, out_offset>>
      /\ UNCHANGED <<suspend_thread, suspend_sender_thread, inbox>>
      /\ TypeOK /\ WaitersOK /\ RingOK /\ NoLostWakeup
  BY DEF GiveUp, Return, ring, IInv
<1>2. TypeOK'
  BY <1>1 DEF TypeOK, Calls, NoCall, Timeouts
<1>3. RingOK'
  BY <1>1 DEF RingOK
<1>4. WaitersOK'
  <2>1. \A i \in 1 .. Len(suspend_thread) :
          suspend_thread[i] # t /\ suspend_thread[i] \in Threads
    BY <1>1, ElementOfSeq DEF WaitersOK, Sender, Receiver, NoCall, TypeOK
  <2>2. \A i \in 1 .. Len(suspend_sender_thread) :
          suspend_sender_thread[i] # t /\ suspend_sender_thread[i] \in Threads
    BY <1>1, ElementOfSeq DEF WaitersOK, Sender, Receiver, NoCall, TypeOK
  <2> QED
    BY <1>1, <2>1, <2>2 DEF WaitersOK, TypeOK, NoCall, Distinct
<1>5. NoLostWakeup'
  <2>1. /\ Cardinality(WokenReceivers') \in Nat
        /\ Cardinality(WokenSenders') \in Nat
    BY <1>2, ThreadsAssumption, FS_Subset, FS_CardinalityType
       DEF TypeOK, WokenReceivers, WokenSenders
  <2>2. CASE Sender(t) /\ entry = Size
    <3>1. WokenReceivers' = WokenReceivers
      BY <1>1, <2>2 DEF WokenReceivers, Sender, NoCall, WaitersOK, TypeOK
    <3> QED
      BY <1>1, <2>1, <2>2, <3>1 DEF NoLostWakeup, TypeOK
  <2>3. CASE Receiver(t) /\ entry = 0
    <3>1. WokenSenders' = WokenSenders
      BY <1>1, <2>3 DEF WokenSenders, Receiver, NoCall, WaitersOK, TypeOK
    <3> QED
      BY <1>1, <2>1, <2>3, <3>1 DEF NoLostWakeup, TypeOK
  <2> QED
    BY <2>2, <2>3
<1> QED
  BY <1>2, <1>3, <1>4, <1>5 DEF IInv

\* A sender goes to sleep only on a full ring.
LEMMA SuspendSenderInv ==
  ASSUME IInv, NEW t \in Threads, NEW c \in Calls, c.op = "send", c.mail \in Mails,
         Sender(t), entry = Size, SuspendSender(t, c)
  PROVE  IInv'
<1> USE SizeAssumption
<1>1. /\ suspend_sender_thread' = Append(suspend_sender_thread, t)
      /\ woken' = woken \ {t}
      /\ call' = [call EXCEPT ![t] = c]
      /\ UNCHANGED <<msg_pool, entry, in_offset, out_offset, suspend_thread, inbox>>
      /\ TypeOK /\ WaitersOK /\ RingOK /\ NoLostWakeup
  BY DEF SuspendSender, ring, IInv
<1>a. /\ suspend_sender_thread \in Seq(Threads)
      /\ suspend_sender_thread' \in Seq(Threads)
      /\ Len(suspend_sender_thread) \in Nat
      /\ Len(suspend_sender_thread') = Len(suspend_sender_thread) + 1
      /\ \A i \in 1 .. Len(suspend_sender_thread) :
           suspend_sender_thread'[i] = suspend_sender_thread[i]
      /\ suspend_sender_thread'[Len(suspend_sender_thread) + 1] = t
  BY <1>1, AppendProperties, LenProperties DEF TypeOK
<1>2. TypeOK'
  BY <1>1, <1>a DEF TypeOK
<1>3. RingOK'
  BY <1>1 DEF RingOK
<1>4. WaitersOK'
  <2>1. \A i \in 1 .. Len(suspend_thread) :
          suspend_thread[i] # t /\ suspend_thread[i] \in Threads
    BY <1>1, ElementOfSeq DEF WaitersOK, Sender, NoCall, TypeOK
  <2>2. \A i \in 1 .. Len(suspend_sender_thread) :
          suspend_sender_thread[i] # t /\ suspend_sender_thread[i] \in Threads
    BY <1>1, ElementOfSeq DEF WaitersOK, Sender, NoCall, TypeOK
  <2>3. Distinct(suspend_sender_thread)'
    BY <1>1, <1>a, <2>2 DEF WaitersOK, Distinct
  <2>4. \A i \in 1 .. Len(suspend_sender_thread') :
          /\ call'[suspend_sender_thread'[i]].op = "send"
          /\ suspend_sender_thread'[i] \notin woken'
    BY <1>1, <1>a, <2>2 DEF WaitersOK, TypeOK
  <2>5. \A u \in woken' : call'[u].op # "none"
    BY <1>1 DEF WaitersOK, TypeOK
  <2>6. \A u \in Threads : call'[u].op = "send" => call'[u].mail \in Mails
    BY <1>1 DEF WaitersOK, TypeOK
  <2>7. \A i \in 1 .. Len(suspend_thread') :
          /\ call'[suspend_thread'[i]].op = "recv"
          /\ suspend_thread'[i] \notin woken'
    BY <1>1, <2>1 DEF WaitersOK, TypeOK
  <2> QED
    BY <1>1, <2>3, <2>4, <2>5, <2>6, <2>7 DEF WaitersOK, Distinct
<1>5. NoLostWakeup'
  <2>1. Cardinality(WokenSenders') \in Nat
    BY <1>2, ThreadsAssumption, FS_Subset, FS_CardinalityType
       DEF TypeOK, WokenSenders
  <2>2. WokenReceivers' = WokenReceivers
    BY <1>1 DEF WokenReceivers, Sender, NoCall, WaitersOK, TypeOK
  <2> QED
    BY <1>1, <2>1, <2>2 DEF NoLostWakeup, TypeOK
<1> QED
  BY <1>2, <1>3, <1>4, <1>5 DEF IInv

\* A receiver goes to sleep only on an empty ring.
LEMMA SuspendReceiverInv ==
  ASSUME IInv, NEW t \in Threads, NEW c \in Calls, c.op = "recv",
         Receiver(t), entry = 0, SuspendReceiver(t, c)
  PROVE  IInv'
<1> USE SizeAssumption
<1>1. /\ suspend_thread' = Append(suspend_thread, t)
      /\ woken' = woken \ {t}
      /\ call' = [call EXCEPT ![t] = c]
      /\ UNCHANGED <<msg_pool, entry, in_offset, out_offset, suspend_sender_thread, inbox>>
      /\ TypeOK /\ WaitersOK /\ RingOK /\ NoLostWakeup
  BY DEF SuspendReceiver, ring, IInv
<1>a. /\ suspend_thread \in Seq(Threads)
      /\ suspend_thread' \in Seq(Threads)
      /\ Len(suspend_thread) \in Nat
      /\ Len(suspend_thread') = Len(suspend_thread) + 1
      /\ \A i \in 1 .. Len(suspend_thread) :
           suspend_thread'[i] = suspend_thread[i]
      /\ suspend_thread'[Len(suspend_thread) + 1] = t
  BY <1>1, AppendProperties, LenProperties DEF TypeOK
<1>2. TypeOK'
  BY <1>1, <1>a DEF TypeOK
<1>3. RingOK'
  BY <1>1 DEF RingOK
<1>4. WaitersOK'
  <2>1. \A i \in 1 .. Len(suspend_sender_thread) :
          suspend_sender_thread[i] # t /\ suspend_sender_thread[i] \in Threads
    BY <1>1, ElementOfSeq DEF WaitersOK, Receiver, NoCall, TypeOK
  <2>2. \A i \in 1 .. Len(suspend_thread) :
          suspend_thread[i] # t /\ suspend_thread[i] \in Threads
    BY <1>1, ElementOfSeq DEF WaitersOK, Receiver, NoCall, TypeOK
  <2>3. Distinct(suspend_thread)'
    BY <1>1, <1>a, <2>2 DEF WaitersOK, Distinct
  <2>4. \A i \in 1 .. Len(suspend_thread') :
          /\ call'[suspend_thread'[i]].op = "recv"
          /\ suspend_thread'[i] \notin woken'
    BY <1>1, <1>a, <2>2 DEF WaitersOK, TypeOK
  <2>5. \A u \in woken' : call'[u].op # "none"
    BY <1>1 DEF WaitersOK, TypeOK
  <2>6. \A u \in Threads : call'[u].op = "send" => call'[u].mail \in Mails
    BY <1>1 DEF WaitersOK, TypeOK
  <2>7. \A i \in 1 .. Len(suspend_sender_thread') :
          /\ call'[suspend_sender_thread'[i]].op = "send"
          /\ suspend_sender_thread'[i] \notin woken'
    BY <1>1, <2>1 DEF WaitersOK, TypeOK
  <2> QED
    BY <1>1, <2>3, <2>4, <2>5, <2>6, <2>7 DEF WaitersOK, Distinct
<1>5. NoLostWakeup'
  <2>1. Cardinality(WokenReceivers') \in Nat
    BY <1>2, ThreadsAssumption, FS_Subset, FS_CardinalityType
       DEF TypeOK, WokenReceivers
  <2>2. WokenSenders' = WokenSenders
    BY <1>1 DEF WokenSenders, Receiver, NoCall, WaitersOK, TypeOK
  <2> QED
    BY <1>1, <2>1, <2>2 DEF NoLostWakeup, TypeOK
<1> QED
  BY <1>2, <1>3, <1>4, <1>5 DEF IInv

\* Cutting a thread out of a list keeps it a list of distinct threads, none of
\* them the one cut out.
LEMMA CutDistinct ==
  ASSUME NEW S, NEW list \in Seq(S), Distinct(list), NEW i \in 1 .. Len(list)
  PROVE  /\ Cut(list, i) \in Seq(S)
         /\ Distinct(Cut(list, i))
         /\ \A j \in 1 .. Len(Cut(list, i)) :
              /\ Cut(list, i)[j] # list[i]
              /\ \E k \in 1 .. Len(list) : Cut(list, i)[j] = list[k]
         /\ list # <<>>
<1> DEFINE rest == Cut(list, i)
<1>1. /\ rest \in Seq(S)
      /\ Len(rest) = Len(list) - 1
      /\ \A j \in 1 .. Len(list) - 1 :
           rest[j] = IF j < i THEN list[j] ELSE list[j + 1]
  BY CutProperties
<1>2. Len(list) \in Nat
  BY LenProperties
<1> HIDE DEF rest
<1>3. Distinct(rest)
  BY <1>1, <1>2 DEF Distinct
<1>4. ASSUME NEW j \in 1 .. Len(rest)
      PROVE  rest[j] # list[i] /\ \E k \in 1 .. Len(list) : rest[j] = list[k]
  BY <1>1, <1>2 DEF Distinct
<1>5. list # <<>>
  BY <1>2, EmptySeq
<1> QED
  BY <1>1, <1>3, <1>4, <1>5 DEF rest

\* A timeout takes a sleeping thread off its list and wakes nobody.
LEMMA TimeoutInv ==
  ASSUME IInv, NEW t \in Threads, rt_thread_timeout(t)
  PROVE  IInv'
<1> USE SizeAssumption
<1>1. /\ call' = [call EXCEPT ![t] = NoCall]
      /\ UNCHANGED <<msg_pool, entry, in_offset, out_offset, woken, inbox>>
      /\ TypeOK /\ WaitersOK /\ RingOK /\ NoLostWakeup
  BY DEF rt_thread_timeout, Return, ring, IInv
<1>2. t \notin woken
  BY <1>1, LenProperties DEF rt_thread_timeout, WaitersOK, TypeOK
<1>3. WokenReceivers' = WokenReceivers /\ WokenSenders' = WokenSenders
  BY <1>1, <1>2 DEF WokenReceivers, WokenSenders, TypeOK
<1>4. RingOK'
  BY <1>1 DEF RingOK
<1>5. CASE \E i \in DOMAIN suspend_thread :
             /\ suspend_thread[i] = t
             /\ suspend_thread' = Cut(suspend_thread, i)
             /\ UNCHANGED suspend_sender_thread
  <2>1. PICK i \in 1 .. Len(suspend_thread) :
             /\ suspend_thread[i] = t
             /\ suspend_thread' = Cut(suspend_thread, i)
             /\ UNCHANGED suspend_sender_thread
    BY <1>1, <1>5, LenProperties DEF TypeOK
  <2>2. /\ suspend_thread' \in Seq(Threads)
        /\ Distinct(suspend_thread')
        /\ \A j \in 1 .. Len(suspend_thread') :
             /\ suspend_thread'[j] # t
             /\ \E k \in 1 .. Len(suspend_thread) : suspend_thread'[j] = suspend_thread[k]
        /\ suspend_thread # <<>>
    BY <1>1, <2>1, CutDistinct DEF TypeOK, WaitersOK
  <2>3. TypeOK'
    BY <1>1, <2>1, <2>2 DEF TypeOK, Calls, NoCall, Timeouts
  <2>4. \A j \in 1 .. Len(suspend_sender_thread) :
          suspend_sender_thread[j] # t /\ suspend_sender_thread[j] \in Threads
    BY <1>1, <2>1, ElementOfSeq DEF WaitersOK, TypeOK
  <2>5. \A j \in 1 .. Len(suspend_thread') : suspend_thread'[j] \in Threads
    BY <2>2, ElementOfSeq
  <2>6. WaitersOK'
    <3>1. \A j \in 1 .. Len(suspend_thread') :
            /\ call'[suspend_thread'[j]].op = "recv"
            /\ suspend_thread'[j] \notin woken'
      BY <1>1, <2>2, <2>5 DEF WaitersOK, TypeOK
    <3>2. \A j \in 1 .. Len(suspend_sender_thread') :
            /\ call'[suspend_sender_thread'[j]].op = "send"
            /\ suspend_sender_thread'[j] \notin woken'
      BY <1>1, <2>1, <2>4 DEF WaitersOK, TypeOK
    <3>3. /\ \A u \in woken' : call'[u].op # "none"
          /\ \A u \in Threads : call'[u].op = "send" => call'[u].mail \in Mails
      BY <1>1, <1>2 DEF WaitersOK, TypeOK, NoCall
    <3> QED
      BY <1>1, <2>1, <2>2, <3>1, <3>2, <3>3 DEF WaitersOK
  <2>7. NoLostWakeup'
    BY <1>1, <1>3, <2>1, <2>2 DEF NoLostWakeup
  <2> QED
    BY <1>4, <2>3, <2>6, <2>7 DEF IInv
<1>6. CASE \E i \in DOMAIN suspend_sender_thread :
             /\ suspend_sender_thread[i] = t
             /\ suspend_sender_thread' = Cut(suspend_sender_thread, i)
             /\ UNCHANGED suspend_thread
  <2>1. PICK i \in 1 .. Len(suspend_sender_thread) :
             /\ suspend_sender_thread[i] = t
             /\ suspend_sender_thread' = Cut(suspend_sender_thread, i)
             /\ UNCHANGED suspend_thread
    BY <1>1, <1>6, LenProperties DEF TypeOK
  <2>2. /\ suspend_sender_thread' \in Seq(Threads)
        /\ Distinct(suspend_sender_thread')
        /\ \A j \in 1 .. Len(suspend_sender_thread') :
             /\ suspend_sender_thread'[j] # t
             /\ \E k \in 1 .. Len(suspend_sender_thread) :
                  suspend_sender_thread'[j] = suspend_sender_thread[k]
        /\ suspend_sender_thread # <<>>
    BY <1>1, <2>1, CutDistinct DEF TypeOK, WaitersOK
  <2>3. TypeOK'
    BY <1>1, <2>1, <2>2 DEF TypeOK, Calls, NoCall, Timeouts
  <2>4. \A j \in 1 .. Len(suspend_thread) :
          suspend_thread[j] # t /\ suspend_thread[j] \in Threads
    BY <1>1, <2>1, ElementOfSeq DEF WaitersOK, TypeOK
  <2>5. \A j \in 1 .. Len(suspend_sender_thread') : suspend_sender_thread'[j] \in Threads
    BY <2>2, ElementOfSeq
  <2>6. WaitersOK'
    <3>1. \A j \in 1 .. Len(suspend_sender_thread') :
            /\ call'[suspend_sender_thread'[j]].op = "send"
            /\ suspend_sender_thread'[j] \notin woken'
      BY <1>1, <2>2, <2>5 DEF WaitersOK, TypeOK
    <3>2. \A j \in 1 .. Len(suspend_thread') :
            /\ call'[suspend_thread'[j]].op = "recv"
            /\ suspend_thread'[j] \notin woken'
      BY <1>1, <2>1, <2>4 DEF WaitersOK, TypeOK
    <3>3. /\ \A u \in woken' : call'[u].op # "none"
          /\ \A u \in Threads : call'[u].op = "send" => call'[u].mail \in Mails
      BY <1>1, <1>2 DEF WaitersOK, TypeOK, NoCall
    <3> QED
      BY <1>1, <2>1, <2>2, <3>1, <3>2, <3>3 DEF WaitersOK
  <2>7. NoLostWakeup'
    BY <1>1, <1>3, <2>1, <2>2 DEF NoLostWakeup
  <2> QED
    BY <1>4, <2>3, <2>6, <2>7 DEF IInv
<1> QED
  BY <1>5, <1>6 DEF rt_thread_timeout

-----------------------------------------------------------------------------
(* The invariant.                                                          *)

\* What is left of a timeout is still a call of the same thread.
LEMMA RemainingProperties ==
  ASSUME NEW c \in Calls, NEW d \in Remaining(c)
  PROVE  d \in Calls /\ d.op = c.op /\ d.mail = c.mail
BY DEF Remaining, Calls, Timeouts

\* One pass of the send loop, whoever makes it.
LEMMA SendPassInv ==
  ASSUME IInv, NEW t \in Threads, NEW c \in Calls, c.op = "send", c.mail \in Mails,
         Sender(t), SendPass(t, c)
  PROVE  IInv'
<1>1. CASE PutMail(t, c.mail)
  BY <1>1, PutMailInv
<1>2. CASE entry = Size /\ GiveUp(t)
  BY <1>2, GiveUpInv
<1>3. CASE entry = Size /\ SuspendSender(t, c)
  BY <1>3, SuspendSenderInv
<1> QED
  BY <1>1, <1>2, <1>3 DEF SendPass

\* One pass of the receive loop, whoever makes it.
LEMMA RecvPassInv ==
  ASSUME IInv, NEW t \in Threads, NEW c \in Calls, c.op = "recv",
         Receiver(t), RecvPass(t, c)
  PROVE  IInv'
<1>1. CASE GetMail(t)
  BY <1>1, GetMailInv
<1>2. CASE entry = 0 /\ GiveUp(t)
  BY <1>2, GiveUpInv
<1>3. CASE entry = 0 /\ SuspendReceiver(t, c)
  BY <1>3, SuspendReceiverInv
<1> QED
  BY <1>1, <1>2, <1>3 DEF RecvPass

\* A mailbox fresh from rt_mb_init has the invariant.
LEMMA InitInv == Init => IInv
<1> SUFFICES ASSUME Init PROVE IInv
  OBVIOUS
<1> USE SizeAssumption
<1>1. TypeOK
  BY EmptySeq DEF Init, rt_mb_init, TypeOK, Slots, Calls, NoCall, Timeouts
<1>2. WaitersOK /\ RingOK /\ NoLostWakeup
  BY EmptySeq DEF Init, rt_mb_init, WaitersOK, RingOK, NoLostWakeup, Distinct, NoCall, Slots
<1> QED
  BY <1>1, <1>2 DEF IInv

\* Every call, every wake-up and every timeout keeps it.
LEMMA StepInv == IInv /\ [Next]_vars => IInv'
<1> SUFFICES ASSUME IInv, [Next]_vars PROVE IInv'
  OBVIOUS
<1>c. /\ call \in [Threads -> Calls]
      /\ \A u \in Threads : call[u].op = "send" => call[u].mail \in Mails
  BY DEF IInv, TypeOK, WaitersOK
<1>1. ASSUME NEW t \in Threads, NEW m \in Mails, NEW w \in Timeouts,
             rt_mb_send_wait(t, m, w)
      PROVE  IInv'
  <2>1. [op |-> "send", timeout |-> w, mail |-> m] \in Calls
    BY DEF Calls
  <2> QED
    BY <1>1, <2>1, SendPassInv DEF rt_mb_send_wait, Sender
<1>2. ASSUME NEW t \in Threads, NEW w \in Timeouts, rt_mb_recv(t, w)
      PROVE  IInv'
  <2>1. [op |-> "recv", timeout |-> w, mail |-> NoMail] \in Calls
    BY DEF Calls
  <2> QED
    BY <1>2, <2>1, RecvPassInv DEF rt_mb_recv, Receiver
<1>3. ASSUME NEW t \in Threads, SenderRuns(t)
      PROVE  IInv'
  <2>1. PICK c \in Remaining(call[t]) : SendPass(t, c)
    BY <1>3 DEF SenderRuns
  <2>2. c \in Calls /\ c.op = "send" /\ c.mail \in Mails
    BY <1>c, <1>3, RemainingProperties DEF SenderRuns
  <2> QED
    BY <1>3, <2>1, <2>2, SendPassInv DEF SenderRuns, Sender
<1>4. ASSUME NEW t \in Threads, ReceiverRuns(t)
      PROVE  IInv'
  <2>1. PICK c \in Remaining(call[t]) : RecvPass(t, c)
    BY <1>4 DEF ReceiverRuns
  <2>2. c \in Calls /\ c.op = "recv"
    BY <1>c, <1>4, RemainingProperties DEF ReceiverRuns
  <2> QED
    BY <1>4, <2>1, <2>2, RecvPassInv DEF ReceiverRuns, Receiver
<1>5. ASSUME NEW t \in Threads, rt_thread_timeout(t)
      PROVE  IInv'
  BY <1>5, TimeoutInv
<1>6. CASE UNCHANGED vars
  BY <1>6 DEF vars, ring, IInv, TypeOK, WaitersOK, RingOK, NoLostWakeup, WokenReceivers,
     WokenSenders, Distinct
<1> QED
  BY <1>1, <1>2, <1>3, <1>4, <1>5, <1>6 DEF Next, Step

\* The inductive invariant holds in every reachable state.
THEOREM MailboxInvariant == Spec => []IInv
BY InitInv, StepInv, PTL DEF Spec

\* The offsets stay in the pool and entry within its size, for any Size.
THEOREM MailboxTypeOK == Spec => []TypeOK
<1>1. IInv => TypeOK
  BY DEF IInv
<1> QED
  BY <1>1, MailboxInvariant, PTL

\* No thread sleeps on a mail, or on a free slot, that nobody was woken for:
\* rt_mb_send_wait and rt_mb_recv resume one thread per mail and per slot.
THEOREM MailboxNoLostWakeup == Spec => []NoLostWakeup
<1>1. IInv => NoLostWakeup
  BY DEF IInv
<1> QED
  BY <1>1, MailboxInvariant, PTL

-----------------------------------------------------------------------------
(* The ring implements the queue.                                          *)

Words == Mails \cup {NoMail}

\* The ring read from out_offset on is a sequence of entry words.
LEMMA ContentsType ==
  ASSUME TypeOK
  PROVE  /\ Contents \in Seq(Words)
         /\ Len(Contents) = entry
         /\ \A i \in 1 .. entry : Slot(i) \in Slots /\ Contents[i] = msg_pool[Slot(i)]
<1> USE SizeAssumption
<1>1. entry \in Nat /\ out_offset \in 0 .. Size - 1 /\ entry <= Size
  BY DEF TypeOK, Slots
<1>2. \A i \in 1 .. entry : Slot(i) \in Slots
  BY <1>1 DEF Slot, Slots
<1>3. Contents \in [1 .. entry -> Words]
  BY <1>2 DEF Contents, TypeOK, Words
<1>4. Contents \in Seq(Words)
  BY <1>1, <1>3, SeqDef
<1>5. Len(Contents) = entry
  BY <1>1, <1>3, <1>4, LenProperties
<1> QED
  BY <1>2, <1>4, <1>5 DEF Contents

\* A mail stored at in_offset comes last.
LEMMA PutMailRefines ==
  ASSUME IInv, TypeOK', NEW t \in Threads, NEW m \in Mails, PutMail(t, m)
  PROVE  Fifo!Send(m)
<1> USE SizeAssumption
<1>1. /\ TypeOK /\ RingOK
      /\ entry \in Nat /\ entry # Size /\ entry <= Size /\ entry' = entry + 1
      /\ out_offset \in 0 .. Size - 1 /\ out_offset' = out_offset
      /\ in_offset \in Slots
      /\ msg_pool \in [Slots -> Words]
      /\ msg_pool' = [msg_pool EXCEPT ![in_offset] = m]
  BY DEF IInv, TypeOK, PutMail, Slots, Words
<1>2. /\ Contents \in Seq(Words)
      /\ Len(Contents) = entry
      /\ \A i \in 1 .. entry : Slot(i) \in Slots /\ Contents[i] = msg_pool[Slot(i)]
  BY <1>1, ContentsType
<1>3. /\ Contents' \in Seq(Words)
      /\ Len(Contents') = entry + 1
      /\ \A i \in 1 .. entry + 1 : Contents'[i] = msg_pool'[Slot(i)]
  <2>1. \A i \in 1 .. entry + 1 : Slot(i) \in Slots /\ Slot(i)' = Slot(i)
    BY <1>1 DEF Slot, Slots
  <2>2. Contents' = [i \in 1 .. entry + 1 |-> msg_pool'[Slot(i)]]
    BY <1>1, <2>1 DEF Contents
  <2>3. Contents' \in [1 .. entry + 1 -> Words]
    BY <1>1, <2>1, <2>2 DEF Words
  <2>4. Contents' \in Seq(Words)
    BY <1>1, <2>3, SeqDef
  <2> QED
    BY <1>1, <2>2, <2>3, <2>4, LenProperties
<1>4. Slot(entry + 1) = in_offset /\ \A i \in 1 .. entry : Slot(i) # in_offset
  BY <1>1 DEF RingOK, Slot
<1>5. /\ Append(Contents, m) \in Seq(Words)
      /\ Len(Append(Contents, m)) = entry + 1
      /\ \A i \in 1 .. entry : Append(Contents, m)[i] = Contents[i]
      /\ Append(Contents, m)[entry + 1] = m
  BY <1>2, AppendProperties DEF Words
<1>6. \A i \in 1 .. entry + 1 : Contents'[i] = Append(Contents, m)[i]
  <2>1. ASSUME NEW i \in 1 .. entry
        PROVE  Contents'[i] = Append(Contents, m)[i]
    BY <1>1, <1>2, <1>3, <1>4, <1>5
  <2>2. Contents'[entry + 1] = Append(Contents, m)[entry + 1]
    BY <1>1, <1>3, <1>4, <1>5
  <2>3. \A i \in 1 .. entry + 1 : i \in 1 .. entry \/ i = entry + 1
    BY <1>1
  <2> QED
    BY <2>1, <2>2, <2>3, Zenon
<1>7. Contents' = Append(Contents, m)
  BY <1>3, <1>5, <1>6, SeqEqual
<1>8. Len(Contents) < Size /\ inbox' = inbox
  BY <1>1, <1>2 DEF PutMail
<1> QED
  BY <1>7, <1>8 DEF Fifo!Send

\* The mail at out_offset is the oldest, and leaves the others in order.
LEMMA GetMailRefines ==
  ASSUME IInv, TypeOK', NEW t \in Threads, GetMail(t)
  PROVE  Fifo!Recv(t)
<1> USE SizeAssumption
<1>1. /\ TypeOK
      /\ entry \in Nat \ {0} /\ entry <= Size /\ entry' = entry - 1
      /\ out_offset \in 0 .. Size - 1 /\ out_offset' = Advance(out_offset)
      /\ msg_pool \in [Slots -> Words] /\ msg_pool' = msg_pool
      /\ inbox' = [inbox EXCEPT ![t] = msg_pool[out_offset]]
  BY DEF IInv, TypeOK, GetMail, Slots, Words
<1>2. /\ Contents \in Seq(Words)
      /\ Len(Contents) = entry
      /\ \A i \in 1 .. entry : Slot(i) \in Slots /\ Contents[i] = msg_pool[Slot(i)]
  BY <1>1, ContentsType
<1>3. \A i \in 1 .. entry - 1 : Slot(i)' = Slot(i + 1) /\ i + 1 \in 1 .. entry
  BY <1>1 DEF Slot, Advance
<1>4. /\ Contents' \in Seq(Words)
      /\ Len(Contents') = entry - 1
      /\ \A i \in 1 .. entry - 1 : Contents'[i] = Contents[i + 1]
  <2>2. Contents' = [i \in 1 .. entry - 1 |-> Contents[i + 1]]
    BY <1>1, <1>2, <1>3 DEF Contents
  <2>3. Contents' \in [1 .. entry - 1 -> Words]
    BY <1>1, <1>2, <1>3, <2>2, ElementOfSeq
  <2>4. Contents' \in Seq(Words) /\ entry - 1 \in Nat
    BY <1>1, <2>3, SeqDef
  <2> QED
    BY <1>1, <2>2, <2>3, <2>4, LenProperties
<1>5. Contents # <<>>
  BY <1>1, <1>2, EmptySeq
<1>6. /\ Tail(Contents) \in Seq(Words)
      /\ Len(Tail(Contents)) = entry - 1
      /\ \A i \in 1 .. entry - 1 : Tail(Contents)[i] = Contents[i + 1]
  BY <1>1, <1>2, <1>5, HeadTailProperties
<1>7. Contents' = Tail(Contents)
  BY <1>1, <1>4, <1>6, SeqEqual
<1>8. Head(Contents) = msg_pool[out_offset]
  <2>1. Slot(1) = out_offset
    BY <1>1 DEF Slot
  <2>2. Head(Contents) = Contents[1]
    BY <1>2, <1>5
  <2> QED
    BY <1>1, <1>2, <2>1, <2>2
<1> QED
  BY <1>1, <1>5, <1>7, <1>8 DEF Fifo!Recv

\* Every behaviour of the ring is a behaviour of the bounded queue: mails come
\* out of a mailbox once each and in the order they went in.
THEOREM MailboxRefinesFifo == Spec => RefinesFifo
<1>1. Init => Fifo!Init
  <2> SUFFICES ASSUME Init PROVE Fifo!Init
    OBVIOUS
  <2>1. TypeOK /\ entry = 0
    BY InitInv DEF IInv, Init, rt_mb_init
  <2>2. Contents \in Seq(Words) /\ Len(Contents) = 0
    BY <2>1, ContentsType
  <2>3. Contents = <<>>
    BY <2>2, EmptySeq
  <2> QED
    BY <2>3 DEF Init, Fifo!Init
<1>2. IInv /\ IInv' /\ [Next]_vars => [Fifo!Next]_(Fifo!fvars)
  <2> SUFFICES ASSUME IInv, IInv', [Next]_vars
               PROVE  [Fifo!Next]_(Fifo!fvars)
    OBVIOUS
  <2>t. TypeOK'
    BY DEF IInv
  <2>0. ASSUME UNCHANGED ring, UNCHANGED inbox
        PROVE  UNCHANGED Fifo!fvars
    BY <2>0 DEF Fifo!fvars, ring, Contents, Slot
  <2>1. ASSUME NEW t \in Threads, NEW c, c.mail \in Mails, SendPass(t, c)
        PROVE  [Fifo!Next]_(Fifo!fvars)
    <3>1. CASE PutMail(t, c.mail)
      BY <2>t, <2>1, <3>1, PutMailRefines DEF Fifo!Next
    <3>2. CASE GiveUp(t) \/ SuspendSender(t, c)
      BY <2>0, <3>2 DEF GiveUp, SuspendSender
    <3> QED
      BY <2>1, <3>1, <3>2 DEF SendPass
  <2>2. ASSUME NEW t \in Threads, NEW c, RecvPass(t, c)
        PROVE  [Fifo!Next]_(Fifo!fvars)
    <3>1. CASE GetMail(t)
      BY <2>t, <2>2, <3>1, GetMailRefines DEF Fifo!Next
    <3>2. CASE GiveUp(t) \/ SuspendReceiver(t, c)
      BY <2>0, <3>2 DEF GiveUp, SuspendReceiver
    <3> QED
      BY <2>2, <3>1, <3>2 DEF RecvPass
  <2>3. ASSUME NEW t \in Threads, NEW m \in Mails, NEW w \in Timeouts,
               rt_mb_send_wait(t, m, w)
        PROVE  [Fifo!Next]_(Fifo!fvars)
    BY <2>1, <2>3 DEF rt_mb_send_wait
  <2>4. ASSUME NEW t \in Threads, NEW w \in Timeouts, rt_mb_recv(t, w)
        PROVE  [Fifo!Next]_(Fifo!fvars)
    BY <2>2, <2>4 DEF rt_mb_recv
  <2>5. ASSUME NEW t \in Threads, SenderRuns(t)
        PROVE  [Fifo!Next]_(Fifo!fvars)
    <3>1. PICK c \in Remaining(call[t]) : SendPass(t, c)
      BY <2>5 DEF SenderRuns
    <3>2. c.mail \in Mails
      BY <2>5, RemainingProperties DEF IInv, TypeOK, WaitersOK, SenderRuns
    <3> QED
      BY <2>1, <3>1, <3>2
  <2>6. ASSUME NEW t \in Threads, ReceiverRuns(t)
        PROVE  [Fifo!Next]_(Fifo!fvars)
    BY <2>2, <2>6 DEF ReceiverRuns
  <2>7. ASSUME NEW t \in Threads, rt_thread_timeout(t)
        PROVE  [Fifo!Next]_(Fifo!fvars)
    BY <2>0, <2>7 DEF rt_thread_timeout
  <2>8. CASE UNCHANGED vars
    BY <2>0, <2>8 DEF vars
  <2> QED
    BY <2>3, <2>4, <2>5, <2>6, <2>7, <2>8 DEF Next, Step
<1>3. Spec => Fifo!Spec
  BY <1>1, <1>2, MailboxInvariant, PTL DEF Spec, Fifo!Spec
<1> QED
  BY <1>3 DEF RefinesFifo
=============================================================================
