----------------------------- MODULE Gsm_proofs -----------------------------
(***************************************************************************)
(* Proofs about the GSM threads, for any SIM, mailbox, heap and modem.     *)
(*                                                                         *)
(* None of the safety properties is inductive by itself.  Who may run      *)
(* depends on the lock and on who is ready, so the invariant says          *)
(* where the other threads are while one holds the dialogue (Turns), that  *)
(* naps lists the threads that rest (Resting), and in which order they     *)
(* rest when a token is waiting (Token).                                   *)
(***************************************************************************)
EXTENDS Gsm, SequenceTheorems, TLAPS

\* Before the threads are started nothing of theirs has moved.
Started ==
  /\ pc["main"] # "dead" =>
       /\ pc["poll"] = "off" /\ pc["read"] = "off" /\ pc["send"] = "off"
       /\ pc["security"] = "off"
  /\ pc["main"] = "dead" =>
       pc["poll"] # "off" /\ pc["read"] # "off" /\ pc["send"] # "off"

\* The scheduler is locked exactly while GSM_SendSMS runs, and then the
\* reader holds no dialogue.
Turns ==
  /\ lock = "send" <=> pc["send"] \in SendOwns
  /\ lock = "send" => pc["read"] \in {"top", "sem", "nap", "dead"}

Resting ==
  /\ naps \in {<<>>, <<"poll">>, <<"read">>, <<"poll", "read">>, <<"read", "poll">>}
  /\ pc["poll"] = "nap" <=> naps \in {<<"poll">>, <<"poll", "read">>, <<"read", "poll">>}
  /\ pc["read"] = "nap" <=> naps \in {<<"read">>, <<"poll", "read">>, <<"read", "poll">>}

\* A token that waits is for a reader that rests or has just woken; the one
\* who released it does not look at the flag again before the reader wakes.
Token ==
  pc["read"] # "dead" /\ sem # 0 =>
    /\ sem = 1
    /\ pc["read"] \in {"nap", "top"}
    /\ pc["read"] = "nap" =>
         pc["poll"] \in {"rest", "nap"} /\ naps # <<"poll", "read">>

Control == PlacesOK /\ sem \in Nat /\ Started /\ Turns /\ Resting /\ Token

USE BoundsAssumption

-----------------------------------------------------------------------------
(* Control: which thread is where.                                         *)

\* GSM_thread runs only while the reader is not ready and nothing is locked.
LEMMA PollTurn ==
  ASSUME PlacesOK, CanRun("poll")
  PROVE  lock = "none" /\ pc["read"] \in Suspended /\ pc["main"] \in Suspended
  BY DEF PlacesOK, CanRun, Ready, Priority, Threads

\* GSM_send_thread runs only while nothing else is locked, and outside of
\* GSM_SendSMS only while the threads before it are suspended.
LEMMA SendTurn ==
  ASSUME PlacesOK, CanRun("send")
  PROVE  lock = "none" => pc["read"] \in Suspended /\ pc["poll"] \in Suspended
                           /\ pc["main"] \in Suspended
  BY DEF PlacesOK, CanRun, Ready, Priority, Threads

\* Appending to a sequence of one gives the sequence of two.
LEMMA AppendToOne ==
  ASSUME NEW S, NEW a \in S, NEW b \in S
  PROVE  Append(<<a>>, b) = <<a, b>>
<1>1. <<a>> \in Seq(S) /\ <<a, b>> \in Seq(S) /\ Len(<<a, b>>) = 2
  OBVIOUS
<1>2. Len(Append(<<a>>, b)) = 2 /\ Append(<<a>>, b)[1] = a /\ Append(<<a>>, b)[2] = b
  BY <1>1
<1>3. Append(<<a>>, b) \in Seq(S)
  BY <1>1
<1>4. \A i \in 1 .. 2 : Append(<<a>>, b)[i] = <<a, b>>[i]
  BY <1>2
<1> QED BY <1>1, <1>2, <1>3, <1>4, SeqEqual

\* What naps becomes when a thread falls asleep, and when one wakes.
LEMMA NapSequences ==
  /\ Append(<<>>, "poll") = <<"poll">>
  /\ Append(<<>>, "read") = <<"read">>
  /\ Append(<<"read">>, "poll") = <<"read", "poll">>
  /\ Append(<<"poll">>, "read") = <<"poll", "read">>
  /\ Head(<<"poll">>) = "poll" /\ Tail(<<"poll">>) = <<>>
  /\ Head(<<"read">>) = "read" /\ Tail(<<"read">>) = <<>>
  /\ Head(<<"poll", "read">>) = "poll" /\ Tail(<<"poll", "read">>) = <<"read">>
  /\ Head(<<"read", "poll">>) = "read" /\ Tail(<<"read", "poll">>) = <<"poll">>
<1>1. Append(<<>>, "poll") = <<"poll">> /\ Append(<<>>, "read") = <<"read">>
  OBVIOUS
<1> DEFINE Nappers == {"poll", "read"}
<1>2. "poll" \in Nappers /\ "read" \in Nappers
  OBVIOUS
<1> HIDE DEF Nappers
<1>3. Append(<<"read">>, "poll") = <<"read", "poll">>
      /\ Append(<<"poll">>, "read") = <<"poll", "read">>
  BY <1>2, AppendToOne
<1>4. Head(<<"poll">>) = "poll" /\ Head(<<"read">>) = "read"
      /\ Head(<<"poll", "read">>) = "poll" /\ Head(<<"read", "poll">>) = "read"
  OBVIOUS
<1>5. Tail(<<"poll">>) = <<>> /\ Tail(<<"read">>) = <<>>
  OBVIOUS
<1>6. Tail(<<"poll", "read">>) = <<"read">> /\ Tail(<<"read", "poll">>) = <<"poll">>
  OBVIOUS
<1> QED BY <1>1, <1>3, <1>4, <1>5, <1>6

\* GSM_read_thread runs only while the scheduler is not locked.
LEMMA ReadTurn ==
  ASSUME PlacesOK, Turns, CanRun("read")
  PROVE  lock = "none"
  BY DEF PlacesOK, Turns, CanRun

\* A step of GSM_thread keeps the control invariant: it releases the semaphore
\* only while the reader is suspended, so a second token needs a reader asleep.
LEMMA PollControl ==
  ASSUME Control, GSM_thread
  PROVE  Control'
<1> USE DEF Places, MainPlaces, PollPlaces, ReadPlaces, ReadOwns, ReadWaits, SendPlaces,
            SendOwns, Suspended, Threads
<1>1. lock = "none" /\ pc["read"] \in Suspended /\ pc["main"] \in Suspended
  BY PollTurn DEF Control, GSM_thread
<1>2. CASE PollLooks
  <2> USE <1>1, <1>2 DEF Control, GSM_thread, PollLooks, Flagged, Goto
  <2>1. PlacesOK' BY DEF PlacesOK
  <2>2. Started' BY DEF PlacesOK, Started
  <2>3. Turns' BY DEF PlacesOK, Turns
  <2>4. Resting' BY DEF PlacesOK, Resting
  <2>5. Token' /\ sem' \in Nat BY DEF PlacesOK, Resting, Token
  <2> QED BY <2>1, <2>2, <2>3, <2>4, <2>5
<1>3. CASE PollClears
  <2> USE <1>1, <1>3 DEF Control, GSM_thread, PollClears, Goto
  <2>1. PlacesOK' BY DEF PlacesOK
  <2>2. Started' BY DEF PlacesOK, Started
  <2>3. Turns' BY DEF PlacesOK, Turns
  <2>4. Resting' BY DEF PlacesOK, Resting
  <2>5. Token' /\ sem' \in Nat BY DEF PlacesOK, Resting, Token
  <2> QED BY <2>1, <2>2, <2>3, <2>4, <2>5
<1>4. CASE PollReleases
  <2> USE <1>1, <1>4 DEF Control, GSM_thread, PollReleases, rt_sem_release, Goto
  <2>1. PlacesOK' BY DEF PlacesOK
  <2>2. Started' BY DEF PlacesOK, Started
  <2>3. Turns' BY DEF PlacesOK, Turns
  <2>4. Resting' BY DEF PlacesOK, Resting
  <2>5. Token' /\ sem' \in Nat BY DEF PlacesOK, Started, Resting, Token
  <2> QED BY <2>1, <2>2, <2>3, <2>4, <2>5
<1>5. CASE PollRests
  <2> USE <1>1, <1>5 DEF Control, GSM_thread, PollRests, Nap, Goto
  <2>1. PlacesOK' BY DEF PlacesOK
  <2>2. Started' BY DEF PlacesOK, Started
  <2>3. Turns' BY DEF PlacesOK, Turns
  <2>0. \/ naps = <<>> /\ naps' = <<"poll">> /\ pc["read"] # "nap"
        \/ naps = <<"read">> /\ naps' = <<"read", "poll">> /\ pc["read"] = "nap"
    BY NapSequences DEF PlacesOK, Resting
  <2>4. Resting' BY <2>0 DEF PlacesOK, Resting
  <2>5. Token' /\ sem' \in Nat BY <2>0 DEF PlacesOK, Resting, Token
  <2> QED BY <2>1, <2>2, <2>3, <2>4, <2>5
<1> QED BY <1>2, <1>3, <1>4, <1>5 DEF GSM_thread

\* A step of GSM_read_thread keeps the control invariant: it takes the token
\* before it rests.
LEMMA ReadControl ==
  ASSUME Control, GSM_read_thread
  PROVE  Control'
<1> USE DEF Places, MainPlaces, PollPlaces, ReadPlaces, ReadOwns, ReadWaits, SendPlaces,
            SendOwns, Suspended, Threads, Goto
<1>1. lock = "none" /\ lock' = "none" /\ pc["read"] \notin Suspended
  BY ReadTurn DEF Control, GSM_read_thread, CanRun, Ready
<1>2. CASE ReadTakes
  <2> USE <1>1, <1>2 DEF Control, GSM_read_thread, ReadTakes
  <2>1. PlacesOK' BY DEF PlacesOK
  <2>2. Started' BY DEF PlacesOK, Started
  <2>3. Turns' BY DEF PlacesOK, Turns
  <2>4. Resting' BY DEF PlacesOK, Resting
  <2>5. Token' /\ sem' \in Nat BY DEF PlacesOK, Started, Resting, Token
  <2> QED BY <2>1, <2>2, <2>3, <2>4, <2>5
<1>3. CASE ReadAllocates
  <2> USE <1>1, <1>3 DEF Control, GSM_read_thread, ReadAllocates
  <2>1. PlacesOK' BY DEF PlacesOK
  <2>2. Started' BY DEF PlacesOK, Started
  <2>3. Turns' BY DEF PlacesOK, Turns
  <2>4. Resting' BY DEF PlacesOK, Resting
  <2>5. Token' /\ sem' \in Nat BY DEF PlacesOK, Started, Resting, Token
  <2> QED BY <2>1, <2>2, <2>3, <2>4, <2>5
<1>4. CASE ReadFindsNothing
  <2> USE <1>1, <1>4 DEF Control, GSM_read_thread, ReadFindsNothing
  <2>1. PlacesOK' BY DEF PlacesOK
  <2>2. Started' BY DEF PlacesOK, Started
  <2>3. Turns' BY DEF PlacesOK, Turns
  <2>4. Resting' BY DEF PlacesOK, Resting
  <2>5. Token' /\ sem' \in Nat BY DEF PlacesOK, Started, Resting, Token
  <2> QED BY <2>1, <2>2, <2>3, <2>4, <2>5
<1>5. CASE ReadDeleted
  <2> USE <1>1, <1>5 DEF Control, GSM_read_thread, ReadDeleted
  <2>1. PlacesOK' BY DEF PlacesOK
  <2>2. Started' BY DEF PlacesOK, Started
  <2>3. Turns' BY DEF PlacesOK, Turns
  <2>4. Resting' BY DEF PlacesOK, Resting
  <2>5. Token' /\ sem' \in Nat BY DEF PlacesOK, Started, Resting, Token
  <2> QED BY <2>1, <2>2, <2>3, <2>4, <2>5
<1>6. CASE ReadAsksAgain
  <2> USE <1>1, <1>6 DEF Control, GSM_read_thread, ReadAsksAgain
  <2>1. PlacesOK' BY DEF PlacesOK
  <2>2. Started' BY DEF PlacesOK, Started
  <2>3. Turns' BY DEF PlacesOK, Turns
  <2>4. Resting' BY DEF PlacesOK, Resting
  <2>5. Token' /\ sem' \in Nat BY DEF PlacesOK, Started, Resting, Token
  <2> QED BY <2>1, <2>2, <2>3, <2>4, <2>5
<1>7. CASE ReadAnswered
  <2> USE <1>1, <1>7 DEF Control, GSM_read_thread, ReadAnswered
  <2>1. PlacesOK' BY DEF PlacesOK
  <2>2. Started' BY DEF PlacesOK, Started
  <2>3. Turns' BY DEF PlacesOK, Turns
  <2>4. Resting' BY DEF PlacesOK, Resting
  <2>5. Token' /\ sem' \in Nat BY DEF PlacesOK, Started, Resting, Token
  <2> QED BY <2>1, <2>2, <2>3, <2>4, <2>5
<1>8. CASE ReadTimesOut
  <2> USE <1>1, <1>8 DEF Control, GSM_read_thread, ReadTimesOut
  <2>1. PlacesOK' BY DEF PlacesOK
  <2>2. Started' BY DEF PlacesOK, Started
  <2>3. Turns' BY DEF PlacesOK, Turns
  <2>4. Resting' BY DEF PlacesOK, Resting
  <2>5. Token' /\ sem' \in Nat BY DEF PlacesOK, Started, Resting, Token
  <2> QED BY <2>1, <2>2, <2>3, <2>4, <2>5
<1>9. CASE ReadDecides
  <2>0. /\ pc["read"] = "decide"
        /\ \/ pc' = [pc EXCEPT !["read"] = "finish"]
           \/ pc' = [pc EXCEPT !["read"] = "finish",
                               !["send"] = IF @ = "mail" THEN "top" ELSE @]
        /\ UNCHANGED <<lock, naps, sem>>
    BY <1>9 DEF GSM_read_thread, ReadDecides, rt_mb_send, Goto
  <2> USE <1>1, <2>0 DEF Control
  <2>1. PlacesOK' BY DEF PlacesOK
  <2>2. Started' BY DEF PlacesOK, Started
  <2>3. Turns' BY DEF PlacesOK, Turns
  <2>4. Resting' BY DEF PlacesOK, Resting
  <2>5. Token' /\ sem' \in Nat BY DEF PlacesOK, Started, Resting, Token
  <2> QED BY <2>1, <2>2, <2>3, <2>4, <2>5
<1>10. CASE ReadFinishes
  <2> USE <1>1, <1>10 DEF Control, GSM_read_thread, ReadFinishes, Nap
  <2>1. PlacesOK' BY DEF PlacesOK
  <2>2. Started' BY DEF PlacesOK, Started
  <2>3. Turns' BY DEF PlacesOK, Turns
  <2>0. \/ naps = <<>> /\ naps' = <<"read">> /\ pc["poll"] # "nap"
        \/ naps = <<"poll">> /\ naps' = <<"poll", "read">> /\ pc["poll"] = "nap"
    BY NapSequences DEF PlacesOK, Resting
  <2>4. Resting' BY <2>0 DEF PlacesOK, Resting
  <2>5. Token' /\ sem' \in Nat BY DEF PlacesOK, Token
  <2> QED BY <2>1, <2>2, <2>3, <2>4, <2>5
<1>11. CASE \E i \in Sms : ReadFinds(i)
  <2> PICK i \in Sms : ReadFinds(i) BY <1>11
  <2> USE <1>1 DEF Control, GSM_read_thread, ReadFinds
  <2>1. PlacesOK' BY DEF PlacesOK
  <2>2. Started' BY DEF PlacesOK, Started
  <2>3. Turns' BY DEF PlacesOK, Turns
  <2>4. Resting' BY DEF PlacesOK, Resting
  <2>5. Token' /\ sem' \in Nat BY DEF PlacesOK, Started, Resting, Token
  <2> QED BY <2>1, <2>2, <2>3, <2>4, <2>5
<1> QED BY <1>2, <1>3, <1>4, <1>5, <1>6, <1>7, <1>8, <1>9, <1>10, <1>11 DEF GSM_read_thread

\* A step of GSM_send_thread keeps the control invariant: it waits for the modem
\* only with the scheduler locked.
LEMMA SendControl ==
  ASSUME Control, GSM_send_thread
  PROVE  Control'
<1> USE DEF Places, MainPlaces, PollPlaces, ReadPlaces, ReadOwns, ReadWaits, SendPlaces,
            SendOwns, Suspended, Threads, Goto
<1>1. lock = "none" => pc["read"] \in Suspended /\ pc["poll"] \in Suspended
                       /\ pc["main"] \in Suspended
  BY SendTurn DEF Control, GSM_send_thread
<1>2. /\ sem \in Nat /\ PlacesOK /\ Started /\ Turns /\ Resting /\ Token
      /\ sem' = sem /\ naps' = naps
  BY DEF Control, GSM_send_thread
<1>3. CASE SendTakes
  <2> USE <1>1, <1>2, <1>3 DEF Control, SendTakes
  <2>1. PlacesOK' BY DEF PlacesOK
  <2>2. Started' BY DEF PlacesOK, Started
  <2>3. Turns' BY DEF PlacesOK, Turns
  <2>4. Resting' BY DEF PlacesOK, Resting
  <2>5. Token' /\ sem' \in Nat BY DEF PlacesOK, Started, Resting, Token
  <2> QED BY <2>1, <2>2, <2>3, <2>4, <2>5
<1>4. CASE SendBegins
  <2> USE <1>1, <1>2, <1>4 DEF Control, SendBegins, SendReturns
  <2>1. PlacesOK' BY DEF PlacesOK
  <2>2. Started' BY DEF PlacesOK, Started
  <2>3. Turns' BY DEF PlacesOK, Started, Turns
  <2>4. Resting' BY DEF PlacesOK, Resting
  <2>5. Token' /\ sem' \in Nat BY DEF PlacesOK, Started, Resting, Token
  <2> QED BY <2>1, <2>2, <2>3, <2>4, <2>5
<1>5. CASE SendAnswered
  <2> USE <1>1, <1>2, <1>5 DEF Control, SendAnswered
  <2>1. PlacesOK' BY DEF PlacesOK
  <2>2. Started' BY DEF PlacesOK, Started
  <2>3. Turns' BY DEF PlacesOK, Turns
  <2>4. Resting' BY DEF PlacesOK, Resting
  <2>5. Token' /\ sem' \in Nat BY DEF PlacesOK, Started, Resting, Token
  <2> QED BY <2>1, <2>2, <2>3, <2>4, <2>5
<1>6. CASE SendUnavailable
  <2> USE <1>1, <1>2, <1>6 DEF Control, SendUnavailable, SendReturns
  <2>1. PlacesOK' BY DEF PlacesOK
  <2>2. Started' BY DEF PlacesOK, Started
  <2>3. Turns' BY DEF PlacesOK, Turns
  <2>4. Resting' BY DEF PlacesOK, Resting
  <2>5. Token' /\ sem' \in Nat BY DEF PlacesOK, Started, Resting, Token
  <2> QED BY <2>1, <2>2, <2>3, <2>4, <2>5
<1>7. CASE SendContinues
  <2> USE <1>1, <1>2, <1>7 DEF Control, SendContinues
  <2>1. PlacesOK' BY DEF PlacesOK
  <2>2. Started' BY DEF PlacesOK, Started
  <2>3. Turns' BY DEF PlacesOK, Turns
  <2>4. Resting' BY DEF PlacesOK, Resting
  <2>5. Token' /\ sem' \in Nat BY DEF PlacesOK, Started, Resting, Token
  <2> QED BY <2>1, <2>2, <2>3, <2>4, <2>5
<1>8. CASE SendEnds
  <2> USE <1>1, <1>2, <1>8 DEF Control, SendEnds, SendReturns
  <2>1. PlacesOK' BY DEF PlacesOK
  <2>2. Started' BY DEF PlacesOK, Started
  <2>3. Turns' BY DEF PlacesOK, Turns
  <2>4. Resting' BY DEF PlacesOK, Resting
  <2>5. Token' /\ sem' \in Nat BY DEF PlacesOK, Started, Resting, Token
  <2> QED BY <2>1, <2>2, <2>3, <2>4, <2>5
<1>9. CASE SendTimesOut
  <2> USE <1>1, <1>2, <1>9 DEF Control, SendTimesOut, SendReturns
  <2>1. PlacesOK' BY DEF PlacesOK
  <2>2. Started' BY DEF PlacesOK, Started
  <2>3. Turns' BY DEF PlacesOK, Turns
  <2>4. Resting' BY DEF PlacesOK, Resting
  <2>5. Token' /\ sem' \in Nat BY DEF PlacesOK, Started, Resting, Token
  <2> QED BY <2>1, <2>2, <2>3, <2>4, <2>5
<1> QED BY <1>3, <1>4, <1>5, <1>6, <1>7, <1>8, <1>9 DEF GSM_send_thread

\* main keeps the control invariant, alone until it starts the other threads.
LEMMA MainControl ==
  ASSUME Control, main
  PROVE  Control'
<1> USE DEF Places, MainPlaces, PollPlaces, ReadPlaces, ReadOwns, ReadWaits, SendPlaces,
            SendOwns, Suspended, Threads, Goto
<1>1. /\ pc["main"] # "dead" /\ lock' = lock /\ sem' = sem /\ naps' = naps
      /\ PlacesOK /\ Started /\ Turns /\ Resting /\ Token /\ sem \in Nat
  BY DEF Control, main, ipc, CanRun, Ready
<1>2. CASE MainBegins
  <2> USE <1>1, <1>2 DEF Control, MainBegins
  <2>1. PlacesOK' BY DEF PlacesOK
  <2>2. Started' BY DEF PlacesOK, Started
  <2>3. Turns' BY DEF PlacesOK, Turns
  <2>4. Resting' BY DEF PlacesOK, Resting
  <2>5. Token' /\ sem' \in Nat BY DEF PlacesOK, Started, Resting, Token
  <2> QED BY <2>1, <2>2, <2>3, <2>4, <2>5
<1>3. CASE MainAnswered
  <2> USE <1>1, <1>3 DEF Control, MainAnswered, StartThreads
  <2>1. PlacesOK' BY DEF PlacesOK
  <2>2. Started' BY DEF PlacesOK, Started
  <2>3. Turns' BY DEF PlacesOK, Started, Turns
  <2>4. Resting' BY DEF PlacesOK, Started, Resting
  <2>5. Token' /\ sem' \in Nat BY DEF PlacesOK, Started, Resting, Token
  <2> QED BY <2>1, <2>2, <2>3, <2>4, <2>5
<1>4. CASE MainTimesOut
  <2> USE <1>1, <1>4 DEF Control, MainTimesOut, StartThreads
  <2>1. PlacesOK' BY DEF PlacesOK
  <2>2. Started' BY DEF PlacesOK, Started
  <2>3. Turns' BY DEF PlacesOK, Started, Turns
  <2>4. Resting' BY DEF PlacesOK, Started, Resting
  <2>5. Token' /\ sem' \in Nat BY DEF PlacesOK, Started, Resting, Token
  <2> QED BY <2>1, <2>2, <2>3, <2>4, <2>5
<1> QED BY <1>2, <1>3, <1>4 DEF main

\* The end of a sleep keeps the control invariant.
LEMMA WakeControl ==
  ASSUME Control, WakeNap \/ WakeSend
  PROVE  Control'
<1> USE DEF Places, MainPlaces, PollPlaces, ReadPlaces, ReadOwns, ReadWaits, SendPlaces,
            SendOwns, Suspended, Threads, Goto
<1>1. CASE WakeNap
  <2> USE <1>1 DEF Control, WakeNap
  <2>0. \/ naps = <<"poll">> /\ Head(naps) = "poll" /\ naps' = <<>>
        \/ naps = <<"read">> /\ Head(naps) = "read" /\ naps' = <<>>
        \/ naps = <<"poll", "read">> /\ Head(naps) = "poll" /\ naps' = <<"read">>
        \/ naps = <<"read", "poll">> /\ Head(naps) = "read" /\ naps' = <<"poll">>
    BY NapSequences DEF Resting
  <2>1. PlacesOK' BY <2>0 DEF PlacesOK
  <2>2. Started' BY <2>0 DEF PlacesOK, Started, Resting
  <2>3. Turns' BY <2>0 DEF PlacesOK, Turns
  <2>4. Resting'
    <3>1. CASE naps = <<"poll">> BY <2>0, <3>1 DEF PlacesOK, Resting
    <3>2. CASE naps = <<"read">> BY <2>0, <3>2 DEF PlacesOK, Resting
    <3>3. CASE naps = <<"poll", "read">> BY <2>0, <3>3 DEF PlacesOK, Resting
    <3>4. CASE naps = <<"read", "poll">> BY <2>0, <3>4 DEF PlacesOK, Resting
    <3> QED BY <2>0, <3>1, <3>2, <3>3, <3>4
  <2>5. Token' /\ sem' \in Nat BY <2>0 DEF PlacesOK, Started, Resting, Token
  <2> QED BY <2>1, <2>2, <2>3, <2>4, <2>5
<1>2. CASE WakeSend
  <2> USE <1>2 DEF Control, WakeSend, ipc
  <2>1. PlacesOK' BY DEF PlacesOK
  <2>2. Started' BY DEF PlacesOK, Started
  <2>3. Turns' BY DEF PlacesOK, Turns
  <2>4. Resting' BY DEF PlacesOK, Resting
  <2>5. Token' /\ sem' \in Nat BY DEF PlacesOK, Started, Resting, Token
  <2> QED BY <2>1, <2>2, <2>3, <2>4, <2>5
<1> QED BY <1>1, <1>2

\* The modem and the line move no thread.
LEMMA ModemControl ==
  ASSUME Control,
         ModemSends \/ LineSilent \/ \E i \in Sms : ModemStores(i)
  PROVE  Control'
<1>1. UNCHANGED <<pc, ipc>>
  BY DEF ModemSends, LineSilent, ModemStores
<1> QED BY <1>1 DEF ipc, Control, PlacesOK, Started, Turns, Resting, Token

\* An alarm keeps the control invariant: it wakes the sender at most.
LEMMA SecurityControl ==
  ASSUME Control, security_thread
  PROVE  Control'
<1> USE DEF Places, MainPlaces, PollPlaces, ReadPlaces, ReadOwns, ReadWaits, SendPlaces,
            SendOwns, Suspended, Threads, Goto
<1>1. PICK m \in Alarms : rt_mb_send("security", m, "top")
  BY DEF security_thread
<1>2. pc["security"] = "top" /\ lock' = lock /\ sem' = sem /\ naps' = naps
  BY DEF Control, PlacesOK, security_thread, CanRun, Ready
<1> USE <1>1, <1>2 DEF Control, rt_mb_send
<1>3. PlacesOK' BY DEF PlacesOK
<1>4. Started' BY DEF PlacesOK, Started
<1>5. Turns' BY DEF PlacesOK, Turns
<1>6. Resting' BY DEF PlacesOK, Resting
<1>7. Token' /\ sem' \in Nat BY DEF PlacesOK, Started, Resting, Token
<1> QED BY <1>3, <1>4, <1>5, <1>6, <1>7

-----------------------------------------------------------------------------
(* The heap.                                                               *)

\* rt_malloc hands out a block that is free.
LEMMA FirstFitIsFree ==
  ASSUME CanAllocate
  PROVE  FirstFit \in Blocks \ alloc
  BY DEF CanAllocate, FirstFit

\* GSM_read_thread frees its own block only.
LEMMA ReadHeap ==
  ASSUME Control, HeapOwned, GSM_read_thread
  PROVE  HeapOwned'
<1> USE DEF HeapOwned, ReadOwns, ReadWaits, SendOwns, Goto, Threads
<1>1. /\ pc["send"] \notin SendOwns /\ pc'["send"] \notin SendOwns
      /\ pc \in [Threads -> Places]
  <2>1. lock = "none" /\ lock' = "none"
    BY ReadTurn DEF Control, GSM_read_thread
  <2>2. Control'
    BY ReadControl
  <2> QED BY <2>1, <2>2 DEF Control, Turns, PlacesOK
<1>2. CASE ReadAllocates
  BY <1>1, <1>2, FirstFitIsFree DEF ReadAllocates
<1>3. CASE ReadFinishes
  BY <1>1, <1>3 DEF ReadFinishes, Nap
<1>4. CASE ReadTimesOut
  BY <1>1, <1>4 DEF ReadTimesOut
<1>5. CASE ReadTakes \/ ReadFindsNothing \/ ReadDeleted \/ ReadAsksAgain \/ ReadAnswered
  BY <1>1, <1>5 DEF ReadTakes, ReadFindsNothing, ReadDeleted, ReadAsksAgain, ReadAnswered
<1>6. CASE \E i \in Sms : ReadFinds(i)
  BY <1>1, <1>6 DEF ReadFinds
<1>7. CASE ReadDecides
  BY <1>1, <1>7 DEF ReadDecides, rt_mb_send
<1> QED BY <1>2, <1>3, <1>4, <1>5, <1>6, <1>7 DEF GSM_read_thread

\* GSM_SendSMS frees its own block only, though prt_backup outlives it.
LEMMA SendHeap ==
  ASSUME Control, HeapOwned, GSM_send_thread
  PROVE  HeapOwned'
<1> USE DEF HeapOwned, ReadOwns, ReadWaits, SendOwns, Goto, Threads, SendReturns
<1>1. /\ pc["send"] \in SendOwns \cup {"got"} => pc["read"] \notin ReadOwns
      /\ pc \in [Threads -> Places]
      /\ point' = point
  BY SendTurn DEF Control, Turns, PlacesOK, SendPlaces, Suspended, GSM_send_thread
<1>2. CASE SendBegins
  BY <1>1, <1>2, FirstFitIsFree DEF SendBegins
<1>3. CASE SendEnds
  BY <1>1, <1>3 DEF SendEnds
<1>4. CASE SendTimesOut
  BY <1>1, <1>4 DEF SendTimesOut
<1>5. CASE SendTakes \/ SendAnswered \/ SendUnavailable \/ SendContinues
  BY <1>1, <1>5 DEF SendTakes, SendAnswered, SendUnavailable, SendContinues
<1> QED BY <1>2, <1>3, <1>4, <1>5 DEF GSM_send_thread

\* The other steps leave the heap alone, and no owner gets or loses its place.
LEMMA OtherHeap ==
  ASSUME Control, HeapOwned, UNCHANGED heap,
         \/ pc'["read"] = pc["read"] \/ pc'["read"] \notin ReadOwns,
         \/ pc'["send"] = pc["send"] \/ pc'["send"] \notin SendOwns
  PROVE  HeapOwned'
  BY DEF HeapOwned, heap

-----------------------------------------------------------------------------
(* Data: the rest of the type invariant.                                   *)

BufferOK ==
  /\ Chan!ChannelTypeOK
  /\ first \in Sms \cup {0}
  /\ air \in Seq(Frames)
  /\ sim \subseteq Sms
  /\ pending \subseteq Sms
  /\ asked \in Sms \cup {0}
  /\ pc["read"] \in {"cmgr1", "cmgr2"} => asked \in Sms

MailOK ==
  /\ sem \in 0 .. SemRange - 1
  /\ queue \in Seq(Mails) /\ Len(queue) <= MailSize
  /\ val \in Mails \cup {"none"}
  /\ step \in Nat
  /\ alloc \subseteq Blocks
  /\ point \in Blocks \cup {NULL}
  /\ prt_backup \in Blocks \cup {NULL}

\* What the modem answers is one of the frames.
LEMMA AnswersAreFrames ==
  /\ \A c : Answer(c) \in Frames
  /\ \A i \in Sms : SMS(i) \in Frames /\ CMTI(i) \in Frames
  BY DEF Answer, Frames

\* A frame that announces a message names a place of the SIM.
LEMMA FrameKinds ==
  ASSUME NEW f \in Frames, f.kind = "cmti"
  PROVE  f.n \in Sms
<1>1. f # OK /\ f # PROMPT
  <2>1. OK.kind = "OK" /\ PROMPT.kind = "> "
    BY DEF OK, PROMPT, Frame
  <2> QED BY <2>1
<1>2. \A i \in Sms : f # SMS(i)
  <2>1. \A i \in Sms : SMS(i).kind = "sms"
    BY DEF SMS, Frame
  <2> QED BY <2>1
<1>3. PICK i \in Sms : f = CMTI(i)
  BY <1>1, <1>2 DEF Frames
<1> QED BY <1>3 DEF CMTI, Frame

\* usart2_senddata adds an answer or nothing.
LEMMA SenddataType ==
  ASSUME NEW a \in Frames, air \in Seq(Frames), usart2_senddata(a)
  PROVE  air' \in Seq(Frames)
  BY DEF usart2_senddata

\* Whatever a thread does to the channel keeps its type.
LEMMA ChannelType ==
  ASSUME BufferOK, Chan!Consume \/ rx' = rx, Clear \/ UNCHANGED buffer
  PROVE  Chan!ChannelTypeOK' /\ first' \in Sms \cup {0}
  BY DEF BufferOK, Chan!ChannelTypeOK, Chan!Consume, Chan!Clear, Clear, buffer

\* GSM_read_thread keeps the types of the buffer and the modem's state.
LEMMA ReadBuffer ==
  ASSUME BufferOK, PlacesOK, GSM_read_thread
  PROVE  BufferOK'
<1> USE DEF PlacesOK, Goto, Threads
<1>1. sim' = sim
  BY DEF GSM_read_thread
<1>2. CASE \E i \in Sms : ReadFinds(i)
  <2> PICK i \in Sms : ReadFinds(i)
    BY <1>2
  <2>1. air' \in Seq(Frames)
    BY AnswersAreFrames, SenddataType DEF ReadFinds, BufferOK
  <2>2. Chan!ChannelTypeOK' /\ first' \in Sms \cup {0}
    BY ChannelType DEF ReadFinds, chan
  <2> QED BY <1>1, <2>1, <2>2 DEF BufferOK, ReadFinds
<1>3. CASE ReadAsksAgain
  <2>1. asked \in Sms
    BY <1>3 DEF ReadAsksAgain, BufferOK
  <2> QED
    BY <1>1, <1>3, <2>1, AnswersAreFrames, SenddataType, ChannelType DEF BufferOK, ReadAsksAgain
<1>4. CASE ReadDeleted \/ ReadAnswered
  BY <1>1, <1>4, ChannelType DEF BufferOK, ReadDeleted, ReadAnswered
<1>5. CASE ReadTakes \/ ReadAllocates \/ ReadFindsNothing \/ ReadTimesOut \/ ReadDecides
  BY <1>1, <1>5, ChannelType DEF BufferOK, ReadTakes, ReadAllocates, ReadFindsNothing,
                             ReadTimesOut, ReadDecides, rt_mb_send, chan
<1>6. CASE ReadFinishes
  BY <1>1, <1>6, ChannelType DEF BufferOK, ReadFinishes, Nap
<1> QED BY <1>2, <1>3, <1>4, <1>5, <1>6 DEF GSM_read_thread

\* GSM_send_thread keeps the types of the buffer and the modem's state.
LEMMA SendBuffer ==
  ASSUME BufferOK, PlacesOK, GSM_send_thread
  PROVE  BufferOK'
<1> USE DEF PlacesOK, Goto, Threads, SendReturns
<1>1. sim' = sim /\ pending' = pending /\ asked' = asked
  BY DEF GSM_send_thread
<1>2. CASE SendTakes \/ SendUnavailable \/ SendTimesOut
  BY <1>1, <1>2, ChannelType DEF BufferOK, SendTakes, SendUnavailable, SendTimesOut, chan
<1>3. CASE SendBegins
  <2>1. air' \in Seq(Frames)
    BY <1>3, AnswersAreFrames, SenddataType DEF SendBegins, BufferOK
  <2> QED BY <1>1, <1>3, <2>1, ChannelType DEF BufferOK, SendBegins, chan
<1>4. CASE SendAnswered
  BY <1>1, <1>4, ChannelType DEF BufferOK, SendAnswered
<1>5. CASE SendContinues
  <2>1. air' \in Seq(Frames)
    BY <1>5, AnswersAreFrames, SenddataType DEF SendContinues, BufferOK
  <2> QED BY <1>1, <1>5, <2>1, ChannelType DEF BufferOK, SendContinues
<1>6. CASE SendEnds
  <2>1. air' \in Seq(Frames)
    BY <1>6, AnswersAreFrames, SenddataType DEF SendEnds, BufferOK
  <2> QED BY <1>1, <1>6, <2>1, ChannelType DEF BufferOK, SendEnds
<1> QED BY <1>2, <1>3, <1>4, <1>5, <1>6 DEF GSM_send_thread

\* main keeps the types of the buffer and the modem's state.
LEMMA MainBuffer ==
  ASSUME BufferOK, PlacesOK, main
  PROVE  BufferOK'
<1> USE DEF PlacesOK, Goto, Threads, StartThreads
<1>1. sim' = sim /\ asked' = asked
  BY DEF main
<1>2. CASE MainBegins
  <2>1. air' \in Seq(Frames)
    BY <1>2, AnswersAreFrames, SenddataType DEF MainBegins, BufferOK
  <2> QED BY <1>1, <1>2, <2>1, ChannelType DEF BufferOK, MainBegins, chan
<1>3. CASE MainAnswered
  <2>1. air' \in Seq(Frames)
    BY <1>3, AnswersAreFrames, SenddataType DEF MainAnswered, BufferOK
  <2> QED BY <1>1, <1>3, <2>1, ChannelType DEF BufferOK, MainAnswered
<1>4. CASE MainTimesOut
  BY <1>1, <1>4, ChannelType DEF BufferOK, MainTimesOut, chan
<1> QED BY <1>2, <1>3, <1>4 DEF main

\* GSM_thread keeps the types of the buffer and the modem's state.
LEMMA PollBuffer ==
  ASSUME BufferOK, PlacesOK, GSM_thread
  PROVE  BufferOK'
<1> USE DEF PlacesOK, Goto, Threads, GSM_thread, BufferOK
<1>1. CASE PollClears
  BY <1>1, ChannelType DEF PollClears, locals
<1>2. CASE PollLooks \/ PollRests
  BY <1>2, ChannelType DEF PollLooks, PollRests, Nap, chan, locals
<1>3. CASE PollReleases
  BY <1>3, ChannelType DEF PollReleases, rt_sem_release, chan, locals
<1> QED BY <1>1, <1>2, <1>3

\* The modem and the line keep the types of the buffer and the modem's state.
LEMMA ModemBuffer ==
  ASSUME BufferOK, PlacesOK,
         ModemSends \/ LineSilent \/ \E i \in Sms : ModemStores(i)
  PROVE  BufferOK'
<1>1. CASE ModemSends
  <2>1. Head(air) \in Frames /\ Tail(air) \in Seq(Frames)
    BY <1>1 DEF ModemSends, BufferOK
  <2>2. Chan!ChannelTypeOK'
    BY <1>1, <2>1 DEF ModemSends, BufferOK, Chan!ChannelTypeOK, Chan!Byte
  <2>3. Head(air).kind = "cmti" => Head(air).n \in Sms
    BY <2>1, FrameKinds
  <2>4. first' \in Sms \cup {0}
    BY <1>1, <2>3 DEF ModemSends, BufferOK
  <2> QED BY <1>1, <2>1, <2>2, <2>4 DEF ModemSends, BufferOK, locals
<1>2. CASE LineSilent
  BY <1>2 DEF LineSilent, BufferOK, Chan!Silence, Chan!ChannelTypeOK, locals
<1>3. CASE \E i \in Sms : ModemStores(i)
  <2> PICK i \in Sms : ModemStores(i)
    BY <1>3
  <2>1. air' \in Seq(Frames)
    BY AnswersAreFrames DEF ModemStores, BufferOK
  <2>2. sim' \subseteq Sms
    BY DEF ModemStores, BufferOK
  <2> QED BY <2>1, <2>2, ChannelType DEF ModemStores, BufferOK, locals, chan
<1> QED BY <1>1, <1>2, <1>3

\* rt_mb_send never overfills the mailbox.
LEMMA PutType ==
  ASSUME MailOK, NEW t, NEW m \in Mails, NEW l, rt_mb_send(t, m, l)
  PROVE  queue' \in Seq(Mails) /\ Len(queue') <= MailSize
  BY DEF MailOK, rt_mb_send

\* GSM_read_thread keeps the types of the mailbox, semaphore and heap.
LEMMA ReadMail ==
  ASSUME MailOK, GSM_read_thread
  PROVE  MailOK'
<1>1. val' = val /\ step' = step /\ prt_backup' = prt_backup
  BY DEF GSM_read_thread
<1>2. CASE ReadTakes
  BY <1>1, <1>2 DEF MailOK, ReadTakes
<1>3. CASE ReadAllocates
  BY <1>1, <1>3, FirstFitIsFree DEF MailOK, ReadAllocates
<1>4. CASE ReadFindsNothing \/ ReadDeleted \/ ReadAsksAgain \/ ReadAnswered
  BY <1>1, <1>4 DEF MailOK, ReadFindsNothing, ReadDeleted, ReadAsksAgain, ReadAnswered
<1>5. CASE \E i \in Sms : ReadFinds(i)
  BY <1>1, <1>5 DEF MailOK, ReadFinds
<1>6. CASE ReadTimesOut \/ ReadFinishes
  BY <1>1, <1>6 DEF MailOK, ReadTimesOut, ReadFinishes, rt_free, Nap
<1>7. CASE ReadDecides
  <2>1. \E m \in Mails : rt_mb_send("read", m, "finish")
    BY <1>7 DEF ReadDecides, Reply, Bodies, Mails
  <2>2. queue' \in Seq(Mails) /\ Len(queue') <= MailSize
    BY <2>1, PutType
  <2> QED BY <1>1, <1>7, <2>2 DEF MailOK, ReadDecides
<1> QED BY <1>2, <1>3, <1>4, <1>5, <1>6, <1>7 DEF GSM_read_thread

\* GSM_send_thread keeps the types of the mailbox, semaphore and heap.
LEMMA SendMail ==
  ASSUME MailOK, GSM_send_thread
  PROVE  MailOK'
<1>1. sem' = sem /\ point' = point
  BY DEF GSM_send_thread
<1>2. CASE SendTakes
  <2>1. queue # <<>> => /\ Head(queue) \in Mails
                        /\ Tail(queue) \in Seq(Mails)
                        /\ Len(Tail(queue)) <= MailSize
    BY DEF MailOK
  <2> QED BY <1>1, <1>2, <2>1 DEF MailOK, SendTakes
<1>3. CASE SendBegins
  BY <1>1, <1>3, FirstFitIsFree DEF MailOK, SendBegins, SendReturns
<1>4. CASE SendAnswered \/ SendUnavailable
  BY <1>1, <1>4 DEF MailOK, SendAnswered, SendUnavailable, SendReturns
<1>5. CASE SendContinues
  <2>1. UNCHANGED <<queue, val, alloc, prt_backup>> /\ step' = step + 1
    BY <1>5 DEF SendContinues
  <2> QED BY <1>1, <2>1 DEF MailOK
<1>6. CASE SendEnds \/ SendTimesOut
  <2>1. /\ queue' = queue /\ val' = "none" /\ step' = 0 /\ alloc' \subseteq alloc
        /\ prt_backup' \in {prt_backup, NULL}
    BY <1>6 DEF SendEnds, SendTimesOut, SendReturns, rt_free
  <2> QED BY <1>1, <2>1 DEF MailOK
<1> QED BY <1>2, <1>3, <1>4, <1>5, <1>6 DEF GSM_send_thread

\* The other threads keep the types of the mailbox, semaphore and heap.
LEMMA OtherMail ==
  ASSUME MailOK, main \/ GSM_thread \/ security_thread
  PROVE  MailOK'
<1>1. CASE main
  BY <1>1 DEF MailOK, main, MainBegins, MainAnswered, MainTimesOut, StartThreads, ipc, heap
<1>2. CASE GSM_thread
  BY <1>2 DEF MailOK, GSM_thread, PollLooks, PollClears, PollReleases, PollRests, Nap,
              rt_sem_release, locals, heap
<1>3. CASE security_thread
  <2>1. PICK m \in Alarms : rt_mb_send("security", m, "top")
    BY <1>3 DEF security_thread
  <2>2. queue' \in Seq(Mails) /\ Len(queue') <= MailSize
    BY <2>1, AlarmsAssumption, PutType DEF Mails
  <2> QED BY <1>3, <2>2 DEF MailOK, security_thread, locals, heap
<1> QED BY <1>1, <1>2, <1>3

-----------------------------------------------------------------------------
(* The inductive invariant and what follows from it.                       *)

IInv == Control /\ HeapOwned /\ BufferOK /\ MailOK

\* The invariant holds when main starts.
LEMMA InitIInv == Init => IInv
<1> SUFFICES ASSUME Init PROVE IInv
  OBVIOUS
<1> USE DEF Init
<1>1. Control
  BY DEF Control, PlacesOK, Started, Turns, Resting, Token, Threads, Places, MainPlaces,
         PollPlaces, ReadPlaces, ReadOwns, ReadWaits, SendPlaces, SendOwns
<1>2. HeapOwned
  BY DEF HeapOwned, ReadOwns, ReadWaits, SendOwns, Threads
<1>3. BufferOK
  BY DEF BufferOK, Chan!Init, Chan!ChannelTypeOK, Threads
<1>4. MailOK
  BY DEF MailOK
<1> QED BY <1>1, <1>2, <1>3, <1>4 DEF IInv

\* Every step of the threads, the modem and the timers keeps it.
LEMMA NextIInv == IInv /\ [Next]_vars => IInv'
<1> SUFFICES ASSUME IInv, [Next]_vars PROVE IInv'
  OBVIOUS
<1>0. Control /\ HeapOwned /\ BufferOK /\ MailOK /\ PlacesOK
  BY DEF IInv, Control
<1>1. CASE GSM_read_thread
  BY <1>0, <1>1, ReadControl, ReadHeap, ReadBuffer, ReadMail DEF IInv
<1>2. CASE GSM_send_thread
  BY <1>0, <1>2, SendControl, SendHeap, SendBuffer, SendMail DEF IInv
<1>3. CASE GSM_thread
  <2>1. HeapOwned'
    BY <1>0, <1>3, OtherHeap DEF GSM_thread, PollLooks, PollClears, PollReleases, PollRests,
       Nap, Goto, rt_sem_release, PlacesOK, Threads, ReadOwns, ReadWaits
  <2> QED BY <1>0, <1>3, <2>1, PollControl, PollBuffer, OtherMail DEF IInv
<1>4. CASE main
  <2>1. HeapOwned'
    BY <1>0, <1>4, OtherHeap DEF main, MainBegins, MainAnswered, MainTimesOut, StartThreads,
       Goto, PlacesOK, Threads, ReadOwns, ReadWaits, SendOwns
  <2> QED BY <1>0, <1>4, <2>1, MainControl, MainBuffer, OtherMail DEF IInv
<1>5. CASE security_thread
  <2>1. PICK m \in Alarms : rt_mb_send("security", m, "top")
    BY <1>5 DEF security_thread
  <2>2. /\ pc'["read"] = pc["read"]
        /\ pc'["send"] = pc["send"] \/ pc'["send"] = "top"
    BY <1>0, <2>1 DEF rt_mb_send, Goto, PlacesOK, Threads
  <2>3. HeapOwned'
    BY <1>0, <1>5, <2>2, OtherHeap DEF security_thread, SendOwns
  <2>4. BufferOK'
    BY <1>0, <1>5, <2>2, ChannelType DEF BufferOK, security_thread, chan, locals
  <2> QED BY <1>0, <1>5, <2>3, <2>4, SecurityControl, OtherMail DEF IInv
<1>6. CASE WakeNap \/ WakeSend
  <2>1. /\ pc'["read"] = pc["read"] \/ pc'["read"] = "top"
        /\ pc'["send"] = pc["send"] \/ pc'["send"] = "top"
    BY <1>0, <1>6 DEF WakeNap, WakeSend, Goto, PlacesOK, Threads
  <2>2. HeapOwned'
    BY <1>0, <1>6, <2>1, OtherHeap DEF WakeNap, WakeSend, ReadOwns, ReadWaits, SendOwns
  <2>3. BufferOK'
    BY <1>0, <1>6, <2>1, ChannelType DEF BufferOK, WakeNap, WakeSend, chan, locals
  <2>4. MailOK'
    BY <1>0, <1>6 DEF MailOK, WakeNap, WakeSend, ipc, locals, heap
  <2> QED BY <1>0, <1>6, <2>2, <2>3, <2>4, WakeControl DEF IInv
<1>7. CASE ModemSends \/ LineSilent \/ \E i \in Sms : ModemStores(i)
  <2>1. UNCHANGED <<pc, ipc, locals, heap>>
    BY <1>7 DEF ModemSends, LineSilent, ModemStores
  <2>2. HeapOwned'
    BY <1>0, <2>1, OtherHeap
  <2>3. MailOK'
    BY <1>0, <2>1 DEF MailOK, ipc, locals, heap
  <2> QED BY <1>0, <1>7, <2>2, <2>3, ModemControl, ModemBuffer DEF IInv
<1>8. CASE UNCHANGED vars
  BY <1>8 DEF IInv, vars, chan, buffer, ipc, locals, heap, Control, PlacesOK, Started, Turns,
     Resting, Token, HeapOwned, BufferOK, Chan!ChannelTypeOK, MailOK
<1> QED BY <1>1, <1>2, <1>3, <1>4, <1>5, <1>6, <1>7, <1>8 DEF Next

\* The invariant holds of every behaviour of the GSM threads, whatever the
\* modem sends and whenever the timers run out (main.c 182-400).
THEOREM GsmInvariant == Spec => []IInv
  BY InitIInv, NextIInv, PTL DEF Spec

\* Every variable keeps its type, the mailbox its size and the semaphore its
\* 16 bits.
THEOREM GsmTypeOK == Spec => []TypeOK
<1>1. ASSUME IInv PROVE naps \in Seq({"poll", "read"})
  <2> DEFINE Nappers == {"poll", "read"}
  <2>1. "poll" \in Nappers /\ "read" \in Nappers
    OBVIOUS
  <2> HIDE DEF Nappers
  <2>2. /\ <<>> \in Seq(Nappers) /\ <<"poll">> \in Seq(Nappers) /\ <<"read">> \in Seq(Nappers)
        /\ <<"poll", "read">> \in Seq(Nappers) /\ <<"read", "poll">> \in Seq(Nappers)
    BY <2>1
  <2>3. naps \in Seq(Nappers)
    BY <1>1, <2>2 DEF IInv, Control, Resting
  <2> QED BY <2>3 DEF Nappers
<1>2. IInv => TypeOK
  BY <1>1 DEF IInv, Control, BufferOK, MailOK, TypeOK
<1> QED BY <1>2, GsmInvariant, PTL

\* Control settles who may run while a thread waits for the modem.
LEMMA Exclusive == IInv => DialogueExclusive
<1>1. ASSUME IInv, NEW t \in Threads, NEW u \in Threads, Waiting(t), CanRun(u)
      PROVE  u = t
  <2> USE DEF IInv, Control, PlacesOK
  <2>1. CASE t = "main"
    BY <1>1, <2>1 DEF Waiting, ReadWaits, MainPlaces, Started, CanRun, Ready, Suspended, Threads
  <2>2. CASE t = "send"
    BY <1>1, <2>2 DEF Waiting, ReadWaits, SendPlaces, SendOwns, Turns, CanRun, Threads
  <2>3. CASE t = "read"
    <3>1. lock = "none" /\ Ready("read")
      BY <1>1, <2>3 DEF Waiting, ReadWaits, ReadPlaces, ReadOwns, Turns, Ready, Suspended
    <3>2. Priority[u] <= Priority["read"]
      BY <1>1, <3>1 DEF CanRun, Threads
    <3> QED BY <2>3, <3>2 DEF Priority, Threads
  <2>4. CASE t = "poll" \/ t = "security"
    BY <1>1, <2>4 DEF Waiting, ReadWaits, PollPlaces
  <2> QED BY <2>1, <2>2, <2>3, <2>4 DEF Threads
<1> QED BY <1>1 DEF DialogueExclusive

\* While one thread waits for the modem no other GSM thread can run: the
\* answer is not taken by somebody else (main.c 191).
THEOREM GsmDialogueExclusive == Spec => []DialogueExclusive
BY Exclusive, GsmInvariant, PTL

\* No block is freed that is not allocated (main.c 370, bsp_gsm.c 519).
THEOREM GsmHeapOwned == Spec => []HeapOwned
<1>1. IInv => HeapOwned
  BY DEF IInv
<1> QED BY <1>1, GsmInvariant, PTL

\* As long as the reader lives, GSM_sem_read holds at most one token.
THEOREM GsmOneToken == Spec => []OneToken
<1>1. IInv => OneToken
  BY DEF IInv, Control, Token, OneToken
<1> QED BY <1>1, GsmInvariant, PTL

-----------------------------------------------------------------------------
(* What a step may do to the channel, the mailbox and the heap.            *)

\* A step of a thread, a timer or the SIM writes USART_RX2_STA = 0, clears the
\* buffer, does both or neither.
LEMMA ThreadsOnChannel ==
  ASSUME \/ main \/ GSM_thread \/ GSM_read_thread \/ GSM_send_thread \/ security_thread
         \/ WakeNap \/ WakeSend \/ UNCHANGED vars
         \/ \E i \in Sms : ModemStores(i)
  PROVE  (Chan!Consume \/ rx' = rx) /\ (Clear \/ UNCHANGED buffer)
<1>1. CASE main
  BY <1>1 DEF main, MainBegins, MainAnswered, MainTimesOut, chan
<1>2. CASE GSM_thread
  BY <1>2 DEF GSM_thread, PollLooks, PollClears, PollReleases, PollRests, chan
<1>3. CASE GSM_read_thread
  <2>1. CASE \E i \in Sms : ReadFinds(i)
    BY <2>1 DEF ReadFinds, chan
  <2>2. CASE ReadTakes \/ ReadAllocates \/ ReadFindsNothing \/ ReadTimesOut \/ ReadDecides
    BY <2>2 DEF ReadTakes, ReadAllocates, ReadFindsNothing, ReadTimesOut, ReadDecides, chan
  <2>3. CASE ReadDeleted \/ ReadAsksAgain \/ ReadAnswered \/ ReadFinishes
    BY <2>3 DEF ReadDeleted, ReadAsksAgain, ReadAnswered, ReadFinishes
  <2> QED BY <1>3, <2>1, <2>2, <2>3 DEF GSM_read_thread
<1>4. CASE GSM_send_thread
  <2>1. CASE SendTakes \/ SendBegins \/ SendUnavailable \/ SendTimesOut
    BY <2>1 DEF SendTakes, SendBegins, SendUnavailable, SendTimesOut, chan
  <2>2. CASE SendAnswered \/ SendContinues \/ SendEnds
    BY <2>2 DEF SendAnswered, SendContinues, SendEnds
  <2> QED BY <1>4, <2>1, <2>2 DEF GSM_send_thread
<1>5. CASE security_thread \/ WakeNap \/ WakeSend \/ UNCHANGED vars
           \/ \E i \in Sms : ModemStores(i)
  BY <1>5 DEF security_thread, WakeNap, WakeSend, ModemStores, vars, chan
<1> QED BY <1>1, <1>2, <1>3, <1>4, <1>5

\* The GSM threads use the receive channel as FrameChannel allows it, whatever
\* they do with what they find there (main.c 394, bsp_gsm.c 256): what the
\* channel implements is all they rely on.
THEOREM GsmUsesChannel == Spec => UsesChannel
<1>1. Init => Chan!Init
  BY DEF Init
<1>2. IInv /\ [Next]_vars => [Chan!Next \/ (Chan!Consume /\ Chan!Clear)]_<<rx, text>>
  <2> SUFFICES ASSUME IInv, [Next]_vars
               PROVE  [Chan!Next \/ (Chan!Consume /\ Chan!Clear)]_<<rx, text>>
    OBVIOUS
  <2>1. CASE ModemSends
    <3>1. Head(air) \in Frames
      BY <2>1 DEF ModemSends, IInv, BufferOK
    <3> QED BY <2>1, <3>1 DEF ModemSends, Chan!Next
  <2>2. CASE LineSilent
    BY <2>2 DEF LineSilent, Chan!Next
  <2>3. CASE ~ModemSends /\ ~LineSilent
    <3>1. (Chan!Consume \/ rx' = rx) /\ (Clear \/ UNCHANGED buffer)
      BY <2>3, ThreadsOnChannel DEF Next
    <3>2. Chan!Clear \/ text' = text
      BY <3>1 DEF Clear, buffer
    <3> QED BY <3>1, <3>2 DEF Chan!Next
  <2> QED BY <2>1, <2>2, <2>3
<1> QED BY <1>1, <1>2, GsmInvariant, PTL DEF Spec, UsesChannel

\* The flag goes down only in these steps.
LEMMA FlagGoesDown ==
  ASSUME [Next]_vars, Flagged, ~Flagged'
  PROVE  \/ ModemSends
         \/ CanRun("main") /\ MainAnswered
         \/ CanRun("poll") /\ pc["poll"] = "clear"
         \/ /\ CanRun("read")
            /\ \/ \E i \in Sms : ReadFinds(i)
               \/ ReadDeleted \/ ReadAsksAgain \/ ReadAnswered
         \/ CanRun("send") /\ SendAnswered
<1> USE DEF Flagged
<1>1. CASE main
  BY <1>1 DEF main, MainBegins, MainTimesOut, chan
<1>2. CASE GSM_thread
  BY <1>2 DEF GSM_thread, PollLooks, PollClears, PollReleases, PollRests, chan
<1>3. CASE GSM_read_thread
  <2>1. CASE \/ ReadTakes \/ ReadAllocates \/ ReadFindsNothing \/ ReadTimesOut \/ ReadDecides
             \/ ReadFinishes
    BY <2>1 DEF ReadTakes, ReadAllocates, ReadFindsNothing, ReadTimesOut, ReadDecides,
       ReadFinishes, chan
  <2>2. CASE ~ReadTakes /\ ~ReadAllocates /\ ~ReadFindsNothing /\ ~ReadTimesOut
             /\ ~ReadDecides /\ ~ReadFinishes
    <3>1. CanRun("read")
      BY <1>3 DEF GSM_read_thread
    <3>2. \/ \E i \in Sms : ReadFinds(i)
          \/ ReadDeleted \/ ReadAsksAgain \/ ReadAnswered
      BY <1>3, <2>2 DEF GSM_read_thread
    <3> QED BY <3>1, <3>2
  <2> QED BY <2>1, <2>2
<1>4. CASE GSM_send_thread
  BY <1>4 DEF GSM_send_thread, SendTakes, SendBegins, SendUnavailable, SendContinues, SendEnds,
     SendTimesOut, chan
<1>5. CASE LineSilent
  BY <1>5 DEF LineSilent, Chan!Silence
<1>6. CASE \/ security_thread \/ WakeNap \/ WakeSend \/ UNCHANGED vars
           \/ \E i \in Sms : ModemStores(i)
  BY <1>6 DEF security_thread, WakeNap, WakeSend, ModemStores, vars, chan
<1> QED BY <1>1, <1>2, <1>3, <1>4, <1>5, <1>6 DEF Next

\* An answer that has arrived is not taken from the thread that waits for it,
\* for any set of messages, heap and mailbox (main.c 191).
THEOREM GsmAnswerNotTaken == Spec => AnswerNotTaken
<1> DEFINE Kept ==
      \A t \in Threads :
        Waiting(t) /\ Flagged /\ ~Flagged' =>
          \/ pc'[t] # pc[t] \/ step' # step
          \/ air # <<>> /\ air' = Tail(air)
<1>1. IInv /\ [Next]_vars => [Kept]_vars
  <2> SUFFICES ASSUME IInv, [Next]_vars, NEW t \in Threads, Waiting(t), Flagged, ~Flagged'
               PROVE  \/ pc'[t] # pc[t] \/ step' # step
                      \/ air # <<>> /\ air' = Tail(air)
    OBVIOUS
  <2>1. \A u \in Threads : CanRun(u) => u = t
    BY Exclusive DEF DialogueExclusive
  <2>2. PlacesOK /\ step \in Nat
    BY DEF IInv, Control, MailOK
  <2>3. CASE ModemSends
    BY <2>3 DEF ModemSends
  <2>4. CASE CanRun("main") /\ MainAnswered
    BY <2>1, <2>2, <2>4 DEF MainAnswered, StartThreads, PlacesOK, Threads
  <2>5. CASE CanRun("poll") /\ pc["poll"] = "clear"
    BY <2>1, <2>5 DEF Waiting, ReadWaits, Threads
  <2>6. CASE CanRun("read") /\ \E i \in Sms : ReadFinds(i)
    BY <2>1, <2>6 DEF ReadFinds, Waiting, ReadWaits, Threads
  <2>7. CASE CanRun("read") /\ (ReadDeleted \/ ReadAsksAgain \/ ReadAnswered)
    BY <2>1, <2>2, <2>7 DEF ReadDeleted, ReadAsksAgain, ReadAnswered, Goto, PlacesOK, Threads
  <2>8. CASE CanRun("send") /\ SendAnswered
    BY <2>1, <2>2, <2>8 DEF SendAnswered, Goto, PlacesOK, Threads
  <2> QED BY <2>3, <2>4, <2>5, <2>6, <2>7, <2>8, FlagGoesDown
<1>2. Spec => [][Kept]_vars
  BY <1>1, GsmInvariant, PTL DEF Spec
<1> QED BY <1>2 DEF AnswerNotTaken

\* Outside of GSM_SendSMS GSM_send_thread holds no mail.
HandsFree == pc["send"] \notin {"got", "await", "answered"} => val = "none"

LEMMA HandsFreeInit == Init => HandsFree
BY DEF Init, HandsFree

LEMMA HandsFreeNext == IInv /\ HandsFree /\ [Next]_vars => HandsFree'
<1> SUFFICES ASSUME IInv, HandsFree, [Next]_vars PROVE HandsFree'
  OBVIOUS
<1> USE DEF HandsFree, Goto, Threads
<1>1. PlacesOK /\ Started
  BY DEF IInv, Control
<1>2. CASE main
  <2>1. pc["main"] # "dead" /\ val' = val
    BY <1>2 DEF main, CanRun, Ready, Suspended
  <2>2. pc["send"] = "off"
    BY <1>1, <2>1 DEF Started
  <2> QED BY <2>1, <2>2
<1>3. CASE GSM_thread
  BY <1>1, <1>3 DEF PlacesOK, GSM_thread, PollLooks, PollClears, PollReleases, PollRests, Nap,
     rt_sem_release, locals
<1>4. CASE GSM_read_thread
  <2>1. val' = val
    BY <1>4 DEF GSM_read_thread
  <2>2. pc'["send"] = pc["send"] \/ (pc["send"] = "mail" /\ pc'["send"] = "top")
    <3>1. CASE ReadDecides
      BY <1>1, <3>1 DEF PlacesOK, ReadDecides, rt_mb_send
    <3>2. CASE \E i \in Sms : ReadFinds(i)
      BY <1>1, <3>2 DEF PlacesOK, ReadFinds
    <3>3. CASE \/ ReadTakes \/ ReadAllocates \/ ReadFindsNothing \/ ReadDeleted
               \/ ReadAsksAgain \/ ReadAnswered \/ ReadTimesOut \/ ReadFinishes
      BY <1>1, <3>3 DEF PlacesOK, ReadTakes, ReadAllocates, ReadFindsNothing, ReadDeleted,
         ReadAsksAgain, ReadAnswered, ReadTimesOut, ReadFinishes, Nap
    <3> QED BY <1>4, <3>1, <3>2, <3>3 DEF GSM_read_thread
  <2> QED BY <2>1, <2>2
<1>5. CASE GSM_send_thread
  <2>1. CASE SendTakes
    BY <1>1, <2>1 DEF PlacesOK, SendTakes
  <2>2. CASE SendBegins \/ SendUnavailable \/ SendEnds \/ SendTimesOut
    BY <1>1, <2>2 DEF PlacesOK, SendBegins, SendUnavailable, SendEnds, SendTimesOut, SendReturns
  <2>3. CASE SendAnswered \/ SendContinues
    BY <1>1, <2>3 DEF PlacesOK, SendAnswered, SendContinues
  <2> QED BY <1>5, <2>1, <2>2, <2>3 DEF GSM_send_thread
<1>6. CASE security_thread
  BY <1>1, <1>6 DEF PlacesOK, security_thread, rt_mb_send, locals
<1>7. CASE WakeNap
  <2>1. Head(naps) \in {"poll", "read"} /\ val' = val
    BY <1>7 DEF WakeNap, IInv, Control, Resting, locals
  <2> QED BY <1>1, <1>7, <2>1 DEF PlacesOK, WakeNap
<1>8. CASE WakeSend
  BY <1>1, <1>8 DEF PlacesOK, WakeSend, locals
<1>9. CASE \/ ModemSends \/ LineSilent \/ UNCHANGED vars
           \/ \E i \in Sms : ModemStores(i)
  BY <1>9 DEF ModemSends, LineSilent, ModemStores, vars, locals
<1> QED BY <1>2, <1>3, <1>4, <1>5, <1>6, <1>7, <1>8, <1>9 DEF Next

LEMMA HandsFreeAlways == Spec => []HandsFree
BY HandsFreeInit, HandsFreeNext, GsmInvariant, PTL DEF Spec

\* What a step may do to the mailbox and to the mail in hand.
MailStep ==
  \/ \E m \in Mails : Len(queue) < MailSize /\ queue' = Append(queue, m) /\ val' = val
  \/ queue # <<>> /\ queue' = Tail(queue) /\ val = "none" /\ val' = Head(queue)
  \/ queue' = queue /\ val' = "none"

LEMMA PutInOrder ==
  ASSUME NEW t, NEW m \in Mails, NEW l, rt_mb_send(t, m, l), val' = val
  PROVE  [MailStep]_<<queue, val>>
BY DEF rt_mb_send, MailStep

\* Mails are sent in the order in which GSM_mq_send accepted them, each of them
\* once and one after the other (main.c 188).
THEOREM GsmMailsInOrder == Spec => MailsInOrder
<1>1. HandsFree /\ [Next]_vars => [MailStep]_<<queue, val>>
  <2> SUFFICES ASSUME HandsFree, [Next]_vars PROVE [MailStep]_<<queue, val>>
    OBVIOUS
  <2>1. CASE GSM_send_thread
    <3>1. CASE SendTakes
      BY <3>1 DEF SendTakes, HandsFree, MailStep
    <3>2. CASE SendBegins \/ SendAnswered \/ SendUnavailable \/ SendContinues
               \/ SendEnds \/ SendTimesOut
      BY <3>2 DEF SendBegins, SendAnswered, SendUnavailable, SendContinues, SendEnds,
         SendTimesOut, SendReturns, MailStep
    <3> QED BY <2>1, <3>1, <3>2 DEF GSM_send_thread
  <2>2. CASE GSM_read_thread
    <3>1. val' = val
      BY <2>2 DEF GSM_read_thread
    <3>2. CASE ReadDecides
      <4>1. \E m \in Mails : rt_mb_send("read", m, "finish")
        BY <3>2 DEF ReadDecides, Reply, Bodies, Mails
      <4> QED BY <3>1, <4>1, PutInOrder
    <3>3. CASE \/ ReadTakes \/ ReadAllocates \/ ReadFindsNothing \/ ReadDeleted
               \/ ReadAsksAgain \/ ReadAnswered \/ ReadTimesOut \/ ReadFinishes
               \/ \E i \in Sms : ReadFinds(i)
      <4>1. queue' = queue
        BY <3>3 DEF ReadTakes, ReadAllocates, ReadFindsNothing, ReadDeleted, ReadAsksAgain,
           ReadAnswered, ReadTimesOut, ReadFinishes, ReadFinds
      <4> QED BY <3>1, <4>1
    <3> QED BY <2>2, <3>2, <3>3 DEF GSM_read_thread
  <2>3. CASE security_thread
    <3>1. PICK m \in Alarms : rt_mb_send("security", m, "top")
      BY <2>3 DEF security_thread
    <3>2. m \in Mails /\ val' = val
      BY <2>3, AlarmsAssumption DEF Mails, security_thread, locals
    <3> QED BY <3>1, <3>2, PutInOrder
  <2>4. CASE \/ main \/ GSM_thread \/ WakeNap \/ WakeSend \/ ModemSends \/ LineSilent
             \/ UNCHANGED vars \/ \E i \in Sms : ModemStores(i)
    BY <2>4 DEF main, GSM_thread, WakeNap, WakeSend, ModemSends, LineSilent, ModemStores,
       vars, ipc, locals
  <2> QED BY <2>1, <2>2, <2>3, <2>4 DEF Next
<1>2. Spec => [][MailStep]_<<queue, val>>
  BY <1>1, HandsFreeAlways, PTL DEF Spec
<1> QED BY <1>2 DEF MailsInOrder, MailStep

\* A block is taken out of use only by the thread that obtained it, at the end
\* of its pass or of its message, although both keep pointers to blocks they
\* have given back (main.c 250, 370; bsp_gsm.c 148, 519).
THEOREM GsmFreedByOwner == Spec => FreedByOwner
<1> DEFINE ByOwner ==
      \A b \in alloc \ alloc' :
        \/ b = point /\ pc["read"] \in ReadOwns /\ pc'["read"] \notin ReadOwns
        \/ b = prt_backup /\ pc["send"] \in SendOwns /\ pc'["send"] \notin SendOwns
<1>1. IInv /\ [Next]_vars => [ByOwner]_vars
  <2> SUFFICES ASSUME IInv, [Next]_vars, NEW b \in alloc, b \notin alloc'
               PROVE  \/ b = point /\ pc["read"] \in ReadOwns /\ pc'["read"] \notin ReadOwns
                      \/ b = prt_backup /\ pc["send"] \in SendOwns /\ pc'["send"] \notin SendOwns
    OBVIOUS
  <2> USE DEF Goto, Threads, ReadOwns, ReadWaits, SendOwns
  <2>1. pc \in [Threads -> Places]
    BY DEF IInv, Control, PlacesOK
  <2>2. CASE GSM_read_thread
    <3>1. CASE ReadTimesOut \/ ReadFinishes
      BY <2>1, <3>1 DEF ReadTimesOut, ReadFinishes, Nap, rt_free
    <3>2. CASE \/ ReadTakes \/ ReadAllocates \/ ReadFindsNothing \/ ReadDeleted
               \/ ReadAsksAgain \/ ReadAnswered \/ ReadDecides
               \/ \E i \in Sms : ReadFinds(i)
      BY <3>2 DEF ReadTakes, ReadAllocates, ReadFindsNothing, ReadDeleted, ReadAsksAgain,
         ReadAnswered, ReadDecides, ReadFinds
    <3> QED BY <2>2, <3>1, <3>2 DEF GSM_read_thread
  <2>3. CASE GSM_send_thread
    <3>1. CASE SendEnds \/ SendTimesOut
      BY <2>1, <3>1 DEF SendEnds, SendTimesOut, SendReturns, rt_free
    <3>2. CASE SendTakes \/ SendBegins \/ SendAnswered \/ SendUnavailable \/ SendContinues
      BY <3>2 DEF SendTakes, SendBegins, SendAnswered, SendUnavailable, SendContinues
    <3> QED BY <2>3, <3>1, <3>2 DEF GSM_send_thread
  <2>4. CASE ~GSM_read_thread /\ ~GSM_send_thread
    BY <2>4 DEF Next, main, GSM_thread, security_thread, WakeNap, WakeSend, ModemSends,
       LineSilent, ModemStores, vars, heap
  <2> QED BY <2>2, <2>3, <2>4
<1>2. Spec => [][ByOwner]_vars
  BY <1>1, GsmInvariant, PTL DEF Spec
<1> QED BY <1>2 DEF FreedByOwner
=============================================================================
