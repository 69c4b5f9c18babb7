------------------------- MODULE ModemManagerProofs -------------------------
(***************************************************************************)
(* What an application of ModemStatusManager can rely on for any number of *)
(* operations, events and calls.                                           *)
(***************************************************************************)
EXTENDS ModemManager, TLAPS

(* After disconnect no listener is set and the looper is between messages, so  *)
(* the next dispatch finds no one to call.                                     *)
Silent == msmOff => msmListener = 0 /\ msmMain = MsmIdle /\ ~msmCall

(* Nothing is disconnected at first.                                           *)
LEMMA SilentAtStart == MsmInit => Silent
  BY DEF MsmInit, Silent

(* Only a new subscription sets a listener, and it ends the silence; a         *)
(* dispatch in progress is what keeps disconnect from promising it.            *)
LEMMA SilentIsKept == Silent /\ [MsmNext]_msmVars => Silent'
<1> SUFFICES ASSUME Silent, [MsmNext]_msmVars PROVE Silent'
  OBVIOUS
<1> USE DEF Silent
<1>0. MsmIdle.at = "idle"
  BY DEF MsmIdle
<1>1. CASE UNCHANGED msmVars
  BY <1>1 DEF msmVars
<1>2. CASE MsmNext
  <2>1. msmCall' = (msmMain.at = "call" /\ msmMain' = MsmIdle)
    BY <1>2 DEF MsmNext
  <2>2. CASE MsmSubscribe
    BY <2>2 DEF MsmSubscribe
  <2>3. ASSUME NEW op \in {"connect", "disconnect"}, MsmSync(op) PROVE Silent'
    BY <1>0, <2>1, <2>3 DEF MsmSync
  <2>4. ASSUME NEW op, MsmAsync(op) PROVE Silent'
    BY <1>0, <2>1, <2>4 DEF MsmAsync
  <2>5. CASE MsmBegin
    BY <1>0, <2>1, <2>5 DEF MsmBegin
  <2>6. CASE MsmRun
    BY <1>0, <2>1, <2>6 DEF MsmRun
  <2>7. CASE MsmFinally
    BY <1>0, <2>1, <2>7 DEF MsmFinally
  <2>8. CASE MsmPost
    BY <1>0, <2>1, <2>8 DEF MsmPost
  <2>9. CASE MsmEvent
    BY <1>0, <2>1, <2>9 DEF MsmEvent
  <2>10. CASE MsmHandle
    BY <1>0, <2>1, <2>10 DEF MsmHandle
  <2>11. CASE MsmLock
    BY <1>0, <2>1, <2>11 DEF MsmLock
  <2>12. CASE MsmDispatch
    BY <1>0, <2>1, <2>12 DEF MsmDispatch
  <2>13. CASE MsmFeedback
    BY <1>0, <2>1, <2>13 DEF MsmFeedback
  <2>14. CASE MsmResult
    BY <1>0, <2>1, <2>14 DEF MsmResult
  <2> QED
    BY <1>2, <2>2, <2>3, <2>4, <2>5, <2>6, <2>7, <2>8, <2>9, <2>10, <2>11, <2>12, <2>13, <2>14
    DEF MsmNext, MsmApplication, MsmExecutor, MsmLooper
<1> QED
  BY <1>1, <1>2

(* Once disconnect returned with no dispatch under way, no event still queued  *)
(* reaches a listener (ModemStatusManager.java, disconnect and handleMessage). *)
THEOREM DisconnectSilences == MsmSpec => []DisconnectedHearsNothing
<1>1. Silent => DisconnectedHearsNothing
  BY DEF Silent, DisconnectedHearsNothing
<1> QED
  BY <1>1, SilentAtStart, SilentIsKept, PTL DEF MsmSpec

-----------------------------------------------------------------------------
(***************************************************************************)
(* Acknowledgements.                                                       *)
(***************************************************************************)
Op == {"connect", "disconnect", "modem"}
EventMsg == [what : {"event"}, kind : MsmStatuses \cup MsmNotifications, n : Nat]
FeedbackMsg == [what : {"feedback"}, agreed : BOOLEAN, msg : EventMsg]
ResultMsg == [what : {"result"}, id : Nat]
Msg == EventMsg \cup FeedbackMsg \cup ResultMsg

Task == [op : Op, id : Nat]
Ack == [n : Nat, agreed : BOOLEAN]
Used == [tasks : Nat, events : Nat, calls : Nat]

\* The types of both threads, their queues and the answers.
Types ==
  /\ msmQueue \in Seq(Msg)
  /\ msmMain = MsmIdle \/ msmMain \in [at : {"lock", "call"}, msg : EventMsg]
  /\ msmTasks \in Seq(Task)
  /\ msmBack \in [at : {"free", "run", "finally", "post"}, op : Op \cup {"none"}, id : Nat]
  /\ msmAcks \in Seq(Ack)
  /\ msmUsed \in Used

(* What the handlers do with the queues keeps these types.                     *)
LEMMA TypesAreKept == Types /\ [MsmNext]_msmVars => Types'
<1> SUFFICES ASSUME Types, [MsmNext]_msmVars PROVE Types'
  OBVIOUS
<1> USE DEF Types
<1>1. CASE UNCHANGED msmVars
  BY <1>1 DEF msmVars
<1>0. /\ [msmUsed EXCEPT !.calls = @ + 1] \in Used /\ [msmUsed EXCEPT !.tasks = @ + 1] \in Used
      /\ [msmUsed EXCEPT !.events = @ + 1] \in Used
  <2>1. msmUsed \in Used
    OBVIOUS
  <2> QED
    BY ONLY <2>1 DEF Used
<1>2. CASE MsmSubscribe
  BY <1>0, <1>2 DEF MsmSubscribe
<1>3. ASSUME NEW op \in {"connect", "disconnect"}, MsmSync(op) PROVE Types'
  BY <1>0, <1>3 DEF MsmSync
<1>4. ASSUME NEW op \in Op, MsmAsync(op) PROVE Types'
  <2>1. msmUsed' \in Used /\ msmTasks' = Append(msmTasks, [op |-> op, id |-> msmUsed'.tasks])
    BY <1>0, <1>4 DEF MsmAsync
  <2>2. [op |-> op, id |-> msmUsed'.tasks] \in Task
    BY <2>1 DEF Task, Used
  <2>3. msmTasks' \in Seq(Task)
    BY <2>1, <2>2
  <2> QED
    BY <1>4, <2>1, <2>3 DEF MsmAsync
<1>5. CASE MsmBegin
  <2>1. Head(msmTasks) \in Task /\ Tail(msmTasks) \in Seq(Task)
    BY <1>5 DEF MsmBegin
  <2> QED
    BY <1>5, <2>1 DEF MsmBegin, Task
<1>6. CASE MsmRun
  BY <1>6 DEF MsmRun
<1>7. CASE MsmFinally
  BY <1>7 DEF MsmFinally
<1>8. CASE MsmPost
  <2>1. [what |-> "result", id |-> msmBack.id] \in Msg
    BY DEF Msg, ResultMsg
  <2> QED
    BY <1>8, <2>1 DEF MsmPost, MsmFree
<1>9. CASE MsmEvent
  <2>1. PICK kind \in MsmStatuses \cup MsmNotifications :
          msmQueue' = Append(msmQueue, [what |-> "event", kind |-> kind, n |-> msmUsed'.events])
    BY <1>9 DEF MsmEvent
  <2>2. msmUsed' \in Used
    BY <1>0, <1>9 DEF MsmEvent
  <2>3. [what |-> "event", kind |-> kind, n |-> msmUsed'.events] \in Msg
    BY <2>2 DEF Msg, EventMsg, Used
  <2>4. msmQueue' \in Seq(Msg)
    BY <2>1, <2>3
  <2> QED
    BY <1>9, <2>2, <2>4 DEF MsmEvent
<1>10. CASE MsmHandle
  <2>1. Head(msmQueue) \in Msg /\ Tail(msmQueue) \in Seq(Msg) /\ Head(msmQueue).what = "event"
    BY <1>10 DEF MsmHandle
  <2>2. Head(msmQueue) \in EventMsg
    BY <2>1 DEF Msg, EventMsg, FeedbackMsg, ResultMsg
  <2> QED
    BY <1>10, <2>1, <2>2 DEF MsmHandle
<1>11. CASE MsmLock
  <2>1. msmMain \in [at : {"lock", "call"}, msg : EventMsg]
    BY <1>11 DEF MsmLock, MsmIdle
  <2> QED
    BY <1>11, <2>1 DEF MsmLock
<1>12. CASE MsmDispatch
  <2>1. msmMain \in [at : {"lock", "call"}, msg : EventMsg]
    BY <1>12 DEF MsmDispatch, MsmIdle
  <2>2. \A agreed \in BOOLEAN :
          [what |-> "feedback", agreed |-> agreed, msg |-> msmMain.msg] \in Msg
    BY <2>1 DEF Msg, FeedbackMsg
  <2>3. \A agreed \in BOOLEAN :
          Append(msmQueue, [what |-> "feedback", agreed |-> agreed, msg |-> msmMain.msg]) \in Seq(Msg)
    BY <2>2
  <2>4. msmMain' = MsmIdle \/ msmMain' = msmMain
    BY <1>12 DEF MsmDispatch
  <2>5. msmQueue' \in Seq(Msg)
    BY <1>12, <2>3 DEF MsmDispatch
  <2> QED
    BY <1>12, <2>1, <2>4, <2>5 DEF MsmDispatch
<1>13. CASE MsmFeedback
  <2>1. Head(msmQueue) \in Msg /\ Tail(msmQueue) \in Seq(Msg) /\ Head(msmQueue).what = "feedback"
    BY <1>13 DEF MsmFeedback
  <2>2. Head(msmQueue) \in FeedbackMsg
    BY <2>1 DEF Msg, EventMsg, FeedbackMsg, ResultMsg
  <2>3. [n |-> Head(msmQueue).msg.n, agreed |-> Head(msmQueue).agreed] \in Ack
    BY <2>2 DEF FeedbackMsg, EventMsg, Ack
  <2>4. msmAcks' \in Seq(Ack)
    BY <1>13, <2>3 DEF MsmFeedback
  <2> QED
    BY <1>13, <2>1, <2>4 DEF MsmFeedback
<1>14. CASE MsmResult
  <2>1. Tail(msmQueue) \in Seq(Msg)
    BY <1>14 DEF MsmResult
  <2> QED
    BY <1>14, <2>1 DEF MsmResult
<1> QED
  BY <1>1, <1>2, <1>3, <1>4, <1>5, <1>6, <1>7, <1>8, <1>9, <1>10, <1>11, <1>12, <1>13, <1>14
  DEF MsmNext, MsmApplication, MsmExecutor, MsmLooper, Op

\* The number of the event a message is about.
Num(m) == IF m.what = "feedback" THEN m.msg.n ELSE m.n
Busy == msmMain # MsmIdle

\* Events are handled in the order they came: those answered come before those
\* whose verdict is queued, then the one being dispatched, then those queued.
Order ==
  LET q == msmQueue IN
  /\ AcksAreGiven
  /\ \A k \in 1..Len(msmAcks) : msmAcks[k].n <= msmUsed.events
  /\ \A i \in 1..Len(q) : q[i].what \in {"feedback", "event"} =>
       /\ Num(q[i]) <= msmUsed.events
       /\ q[i].what = "feedback" => Num(q[i]) \in msmGiven
       /\ \A k \in 1..Len(msmAcks) : msmAcks[k].n < Num(q[i])
       /\ \A j \in 1..Len(q) :
            \/ q[j].what = q[i].what /\ i < j
            \/ q[i].what = "feedback" /\ q[j].what = "event"
            => Num(q[i]) < Num(q[j])
  /\ Busy =>
       /\ msmMain.msg.n <= msmUsed.events
       /\ \A k \in 1..Len(msmAcks) : msmAcks[k].n < msmMain.msg.n
       /\ \A i \in 1..Len(q) : /\ q[i].what = "feedback" => Num(q[i]) < msmMain.msg.n
                               /\ q[i].what = "event" => msmMain.msg.n < Num(q[i])

(* Messages about events carry a number.                                       *)
LEMMA NumType == ASSUME NEW m \in Msg, m.what # "result" PROVE Num(m) \in Nat
  BY DEF Msg, EventMsg, FeedbackMsg, ResultMsg, Num

(* Taking the oldest message from the queue keeps the order of the others.     *)
LEMMA TakeKeepsOrder ==
  ASSUME Types, Order, msmQueue # <<>>, msmQueue' = Tail(msmQueue),
         UNCHANGED <<msmAcks, msmGiven, msmUsed, msmMain>>
  PROVE  Order'
<1>1. /\ Len(Tail(msmQueue)) \in Nat /\ Len(msmQueue) \in Nat
      /\ \A i \in 1..Len(Tail(msmQueue)) :
           i \in Nat /\ i + 1 \in 1..Len(msmQueue) /\ Tail(msmQueue)[i] = msmQueue[i + 1]
  BY DEF Types
<1>2. AcksAreGiven' /\ \A k \in 1..Len(msmAcks') : msmAcks'[k].n <= msmUsed'.events
  BY DEF Order, AcksAreGiven
<1>3. ASSUME NEW i \in 1..Len(msmQueue'), msmQueue'[i].what \in {"feedback", "event"}
      PROVE  /\ Num(msmQueue'[i]) <= msmUsed'.events
             /\ msmQueue'[i].what = "feedback" => Num(msmQueue'[i]) \in msmGiven'
             /\ \A k \in 1..Len(msmAcks') : msmAcks'[k].n < Num(msmQueue'[i])
             /\ \A j \in 1..Len(msmQueue') :
                  \/ msmQueue'[j].what = msmQueue'[i].what /\ i < j
                  \/ msmQueue'[i].what = "feedback" /\ msmQueue'[j].what = "event"
                  => Num(msmQueue'[i]) < Num(msmQueue'[j])
  <2>1. i \in Nat /\ i + 1 \in 1..Len(msmQueue) /\ msmQueue'[i] = msmQueue[i + 1]
    BY <1>1
  <2>2. /\ Num(msmQueue[i + 1]) <= msmUsed.events
        /\ msmQueue[i + 1].what = "feedback" => Num(msmQueue[i + 1]) \in msmGiven
        /\ \A k \in 1..Len(msmAcks) : msmAcks[k].n < Num(msmQueue[i + 1])
    BY <1>3, <2>1 DEF Order
  <2>3. ASSUME NEW j \in 1..Len(msmQueue'),
               \/ msmQueue'[j].what = msmQueue'[i].what /\ i < j
               \/ msmQueue'[i].what = "feedback" /\ msmQueue'[j].what = "event"
        PROVE  Num(msmQueue'[i]) < Num(msmQueue'[j])
    <3>1. j \in Nat /\ j + 1 \in 1..Len(msmQueue) /\ msmQueue'[j] = msmQueue[j + 1]
      BY <1>1
    <3>2. i < j => i + 1 < j + 1
      BY <2>1, <3>1
    <3> QED
      BY <1>3, <2>1, <2>3, <3>1, <3>2 DEF Order
  <2> QED
    BY <2>1, <2>2, <2>3
<1>4. Busy' =>
        /\ msmMain'.msg.n <= msmUsed'.events
        /\ \A k \in 1..Len(msmAcks') : msmAcks'[k].n < msmMain'.msg.n
        /\ \A i \in 1..Len(msmQueue') :
             /\ msmQueue'[i].what = "feedback" => Num(msmQueue'[i]) < msmMain'.msg.n
             /\ msmQueue'[i].what = "event" => msmMain'.msg.n < Num(msmQueue'[i])
  BY <1>1 DEF Order, Busy
<1> QED
  BY <1>2, <1>3, <1>4 DEF Order, Num

(* What Append does, position by position.                                     *)
LEMMA AppendFacts ==
  ASSUME NEW S, NEW s \in Seq(S), NEW e \in S
  PROVE  /\ Len(Append(s, e)) = Len(s) + 1 /\ Len(s) \in Nat
         /\ \A i \in 1..Len(s) + 1 : /\ i \in 1..Len(s) => Append(s, e)[i] = s[i]
                                     /\ i \notin 1..Len(s) => i = Len(s) + 1 /\ Append(s, e)[i] = e
  OBVIOUS

(* Every step of the looper, the executor and the monitor keeps the order.     *)
LEMMA OrderIsKept == Types /\ Order /\ [MsmNext]_msmVars => Order'
<1> SUFFICES ASSUME Types, Order, [MsmNext]_msmVars PROVE Order'
  OBVIOUS
<1>0. ASSUME UNCHANGED <<msmQueue, msmAcks, msmGiven, msmMain>>, msmUsed'.events = msmUsed.events
      PROVE  Order'
  BY <1>0 DEF Order, AcksAreGiven, Busy, Num
<1>a. msmUsed.events \in Nat
  BY DEF Types, Used
<1>1. CASE UNCHANGED msmVars
  BY <1>0, <1>1 DEF msmVars
<1>2. CASE MsmSubscribe
  BY <1>0, <1>2 DEF MsmSubscribe, Types, Used
<1>3. ASSUME NEW op \in {"connect", "disconnect"}, MsmSync(op) PROVE Order'
  BY <1>0, <1>3 DEF MsmSync, Types, Used
<1>4. ASSUME NEW op \in Op, MsmAsync(op) PROVE Order'
  BY <1>0, <1>4 DEF MsmAsync, Types, Used
<1>5. CASE MsmBegin
  BY <1>0, <1>5 DEF MsmBegin
<1>6. CASE MsmRun
  BY <1>0, <1>6 DEF MsmRun
<1>7. CASE MsmFinally
  BY <1>0, <1>7 DEF MsmFinally
<1>8. CASE MsmPost
  <2> DEFINE r == [what |-> "result", id |-> msmBack.id]
  <2>1. msmQueue' = Append(msmQueue, r) /\ UNCHANGED <<msmAcks, msmGiven, msmUsed, msmMain>>
    BY <1>8 DEF MsmPost
  <2>2. r \in Msg /\ r.what = "result"
    BY DEF Types, Msg, ResultMsg
  <2> HIDE DEF r
  <2>3. /\ Len(msmQueue') = Len(msmQueue) + 1 /\ Len(msmQueue) \in Nat
        /\ \A i \in 1..Len(msmQueue) + 1 :
             /\ i \in 1..Len(msmQueue) => msmQueue'[i] = msmQueue[i]
             /\ i \notin 1..Len(msmQueue) => i = Len(msmQueue) + 1 /\ msmQueue'[i] = r
    BY <2>1, <2>2, AppendFacts DEF Types
  <2> QED
    BY <2>1, <2>2, <2>3 DEF Order, AcksAreGiven, Busy, Num
<1>9. CASE MsmEvent
  <2>1. PICK kind \in MsmStatuses \cup MsmNotifications :
          msmQueue' = Append(msmQueue, [what |-> "event", kind |-> kind, n |-> msmUsed'.events])
    BY <1>9 DEF MsmEvent
  <2> DEFINE e == [what |-> "event", kind |-> kind, n |-> msmUsed'.events]
  <2>2. msmUsed'.events = msmUsed.events + 1 /\ UNCHANGED <<msmAcks, msmGiven, msmMain>>
    BY <1>9 DEF MsmEvent, Types, Used
  <2>3. e \in Msg /\ e.what = "event" /\ Num(e) = msmUsed.events + 1
    BY <1>a, <2>2 DEF Msg, EventMsg, Num
  <2> HIDE DEF e
  <2>4. /\ Len(msmQueue') = Len(msmQueue) + 1 /\ Len(msmQueue) \in Nat
        /\ \A i \in 1..Len(msmQueue) + 1 :
             /\ i \in 1..Len(msmQueue) => msmQueue'[i] = msmQueue[i]
             /\ i \notin 1..Len(msmQueue) => i = Len(msmQueue) + 1 /\ msmQueue'[i] = e
    BY <2>1, <2>3, AppendFacts DEF Types, e
  <2>5. \A i \in 1..Len(msmQueue) : msmQueue[i].what # "result" => Num(msmQueue[i]) \in Nat
    BY NumType DEF Types
  <2>6. \A k \in 1..Len(msmAcks) : msmAcks[k].n \in Nat
    <3>1. \A k \in 1..Len(msmAcks) : msmAcks[k] \in Ack
      BY DEF Types
    <3> QED
      BY <3>1 DEF Ack
  <2>7. Busy => msmMain.msg.n \in Nat
    BY DEF Busy, Types, EventMsg
  <2>8. AcksAreGiven' /\ \A k \in 1..Len(msmAcks') : msmAcks'[k].n <= msmUsed'.events
    BY <1>a, <2>2, <2>6 DEF Order, AcksAreGiven
  <2>9. ASSUME NEW i \in 1..Len(msmQueue'), msmQueue'[i].what \in {"feedback", "event"}
        PROVE  /\ Num(msmQueue'[i]) <= msmUsed'.events
               /\ msmQueue'[i].what = "feedback" => Num(msmQueue'[i]) \in msmGiven'
               /\ \A k \in 1..Len(msmAcks') : msmAcks'[k].n < Num(msmQueue'[i])
               /\ \A j \in 1..Len(msmQueue') :
                    \/ msmQueue'[j].what = msmQueue'[i].what /\ i < j
                    \/ msmQueue'[i].what = "feedback" /\ msmQueue'[j].what = "event"
                    => Num(msmQueue'[i]) < Num(msmQueue'[j])
    <3>1. CASE i \in 1..Len(msmQueue)
      <4>1. msmQueue'[i] = msmQueue[i] /\ Num(msmQueue[i]) \in Nat
        BY <2>4, <2>5, <2>9, <3>1
      <4>2. Num(msmQueue[i]) <= msmUsed.events
        BY <2>9, <3>1, <4>1 DEF Order
      <4>3. /\ msmQueue[i].what = "feedback" => Num(msmQueue[i]) \in msmGiven
            /\ \A k \in 1..Len(msmAcks) : msmAcks[k].n < Num(msmQueue[i])
        BY <2>9, <3>1, <4>1 DEF Order
      <4>4. ASSUME NEW j \in 1..Len(msmQueue'),
                   \/ msmQueue'[j].what = msmQueue'[i].what /\ i < j
                   \/ msmQueue'[i].what = "feedback" /\ msmQueue'[j].what = "event"
            PROVE  Num(msmQueue'[i]) < Num(msmQueue'[j])
        <5>1. CASE j \in 1..Len(msmQueue)
          BY <2>4, <2>9, <3>1, <4>1, <4>4, <5>1 DEF Order
        <5>2. CASE j \notin 1..Len(msmQueue)
          <6>1. Num(msmQueue'[j]) = msmUsed.events + 1
            BY <2>3, <2>4, <5>2
          <6> QED
            BY <1>a, <4>1, <4>2, <6>1
        <5> QED
          BY <5>1, <5>2
      <4> QED
        BY <1>a, <2>2, <4>1, <4>2, <4>3, <4>4
    <3>2. CASE i \notin 1..Len(msmQueue)
      BY <1>a, <2>2, <2>3, <2>4, <2>6, <3>2 DEF Order
    <3> QED
      BY <3>1, <3>2
  <2>10. Busy' =>
          /\ msmMain'.msg.n <= msmUsed'.events
          /\ \A k \in 1..Len(msmAcks') : msmAcks'[k].n < msmMain'.msg.n
          /\ \A i \in 1..Len(msmQueue') :
               /\ msmQueue'[i].what = "feedback" => Num(msmQueue'[i]) < msmMain'.msg.n
               /\ msmQueue'[i].what = "event" => msmMain'.msg.n < Num(msmQueue'[i])
    BY <1>a, <2>2, <2>3, <2>4, <2>7 DEF Order, Busy
  <2> QED
    BY <2>8, <2>9, <2>10 DEF Order, Num
<1>10. CASE MsmHandle
  <2>1. /\ msmQueue # <<>> /\ msmQueue' = Tail(msmQueue) /\ Head(msmQueue).what = "event"
        /\ UNCHANGED <<msmAcks, msmGiven, msmUsed>> /\ msmMain = MsmIdle
        /\ msmMain' = MsmIdle \/ msmMain' = [at |-> "lock", msg |-> Head(msmQueue)]
    BY <1>10 DEF MsmHandle
  <2>2. CASE msmMain' = MsmIdle
    BY <2>1, <2>2, TakeKeepsOrder
  <2>3. CASE msmMain' = [at |-> "lock", msg |-> Head(msmQueue)]
    <3>1. Len(msmQueue) \in Nat /\ 1 \in 1..Len(msmQueue) /\ Head(msmQueue) = msmQueue[1]
      BY <2>1 DEF Types
    <3>2. /\ Len(Tail(msmQueue)) \in Nat
          /\ \A i \in 1..Len(Tail(msmQueue)) :
               /\ i \in Nat /\ i + 1 \in 1..Len(msmQueue) /\ 1 < i + 1
               /\ Tail(msmQueue)[i] = msmQueue[i + 1]
      BY <2>1 DEF Types
    <3>3. msmMain'.msg = msmQueue[1] /\ msmQueue[1].what = "event" /\ Num(msmQueue[1]) = msmQueue[1].n
      BY <2>1, <2>3, <3>1 DEF Num
    <3> QED
      BY <2>1, <3>1, <3>2, <3>3 DEF Order, AcksAreGiven, Busy
  <2> QED
    BY <2>1, <2>2, <2>3
<1>11. CASE MsmLock
  <2>1. msmMain'.msg = msmMain.msg /\ Busy /\ UNCHANGED <<msmQueue, msmAcks, msmGiven, msmUsed>>
    BY <1>11 DEF MsmLock, Busy, MsmIdle, Types
  <2> QED
    BY <2>1 DEF Order, AcksAreGiven, Num
<1>12. CASE MsmDispatch
  <2>1. /\ Busy /\ msmMain.msg \in EventMsg /\ UNCHANGED <<msmAcks, msmUsed>>
    BY <1>12 DEF MsmDispatch, Types, Busy, MsmIdle
  <2>2. CASE msmListener = 0
    BY <1>0, <1>12, <2>1, <2>2 DEF MsmDispatch
  <2>3. CASE msmListener # 0 /\ msmMain.msg.kind \notin MsmNotifications
    <3>1. UNCHANGED <<msmQueue, msmGiven>> /\ msmMain' = MsmIdle
      BY <1>12, <2>3 DEF MsmDispatch
    <3> QED
      BY <2>1, <3>1 DEF Order, AcksAreGiven, Busy, Num
  <2>4. CASE msmListener # 0 /\ msmMain.msg.kind \in MsmNotifications
    <3>1. PICK agreed \in BOOLEAN :
            msmQueue' = Append(msmQueue, [what |-> "feedback", agreed |-> agreed, msg |-> msmMain.msg])
      BY <1>12, <2>4 DEF MsmDispatch
    <3> DEFINE f == [what |-> "feedback", agreed |-> agreed, msg |-> msmMain.msg]
    <3>2. msmMain' = MsmIdle /\ msmGiven' = msmGiven \cup {msmMain.msg.n}
      BY <1>12, <2>4 DEF MsmDispatch
    <3>3. f \in Msg /\ f.what = "feedback" /\ Num(f) = msmMain.msg.n /\ Num(f) \in Nat
      BY <2>1 DEF Msg, FeedbackMsg, EventMsg, Num
    <3> HIDE DEF f
    <3>4. /\ Len(msmQueue') = Len(msmQueue) + 1 /\ Len(msmQueue) \in Nat
          /\ \A i \in 1..Len(msmQueue) + 1 :
               /\ i \in 1..Len(msmQueue) => msmQueue'[i] = msmQueue[i]
               /\ i \notin 1..Len(msmQueue) => i = Len(msmQueue) + 1 /\ msmQueue'[i] = f
      BY <3>1, <3>3, AppendFacts DEF Types, f
    <3> QED
      BY <2>1, <3>2, <3>3, <3>4 DEF Order, AcksAreGiven, Busy
  <2> QED
    BY <2>2, <2>3, <2>4
<1>13. CASE MsmFeedback
  <2>1. /\ msmQueue # <<>> /\ msmQueue' = Tail(msmQueue) /\ Head(msmQueue).what = "feedback"
        /\ UNCHANGED <<msmGiven, msmUsed, msmMain>> /\ msmMain = MsmIdle
    BY <1>13 DEF MsmFeedback
  <2>2. CASE msmAcks' = msmAcks
    BY <2>1, <2>2, TakeKeepsOrder
  <2>3. CASE /\ Head(msmQueue).agreed
             /\ msmAcks' = Append(msmAcks, [n |-> Head(msmQueue).msg.n, agreed |-> Head(msmQueue).agreed])
    <3> DEFINE a == [n |-> Head(msmQueue).msg.n, agreed |-> Head(msmQueue).agreed]
    <3>1. Len(msmQueue) \in Nat /\ 1 \in 1..Len(msmQueue) /\ Head(msmQueue) = msmQueue[1]
      BY <2>1 DEF Types
    <3>2. /\ Len(Tail(msmQueue)) \in Nat
          /\ \A i \in 1..Len(Tail(msmQueue)) :
               /\ i \in Nat /\ i + 1 \in 1..Len(msmQueue) /\ 1 < i + 1
               /\ Tail(msmQueue)[i] = msmQueue[i + 1]
      BY <2>1 DEF Types
    <3>3. msmQueue[1] \in FeedbackMsg
      BY <2>1, <3>1 DEF Types, Msg, EventMsg, FeedbackMsg, ResultMsg
    <3>4. a \in Ack /\ a.n = Num(msmQueue[1]) /\ a.agreed = TRUE
      BY <2>1, <2>3, <3>1, <3>3 DEF Ack, FeedbackMsg, EventMsg, Num
    <3> HIDE DEF a
    <3>5. /\ Len(msmAcks') = Len(msmAcks) + 1 /\ Len(msmAcks) \in Nat
          /\ \A k \in 1..Len(msmAcks) + 1 :
               /\ k \in 1..Len(msmAcks) => msmAcks'[k] = msmAcks[k]
               /\ k \notin 1..Len(msmAcks) => k = Len(msmAcks) + 1 /\ msmAcks'[k] = a
          /\ DOMAIN msmAcks = 1..Len(msmAcks) /\ DOMAIN msmAcks' = 1..Len(msmAcks) + 1
      <4>1. msmAcks' = Append(msmAcks, a) /\ msmAcks \in Seq(Ack) /\ a \in Ack
        BY <2>3, <3>4 DEF a, Types
      <4> QED
        BY <4>1, AppendFacts
    <3>6. AcksAreGiven'
      BY <2>1, <3>1, <3>4, <3>5 DEF Order, AcksAreGiven
    <3>7. msmQueue[1].what = "feedback"
      BY <2>1, <3>1
    <3>8. \A k \in 1..Len(msmAcks') : msmAcks'[k].n <= msmUsed'.events
      BY <2>1, <3>1, <3>4, <3>5, <3>7 DEF Order
    <3>9. ASSUME NEW i \in 1..Len(msmQueue'), msmQueue'[i].what \in {"feedback", "event"}
          PROVE  /\ Num(msmQueue'[i]) <= msmUsed'.events
                 /\ msmQueue'[i].what = "feedback" => Num(msmQueue'[i]) \in msmGiven'
                 /\ \A k \in 1..Len(msmAcks') : msmAcks'[k].n < Num(msmQueue'[i])
                 /\ \A j \in 1..Len(msmQueue') :
                      \/ msmQueue'[j].what = msmQueue'[i].what /\ i < j
                      \/ msmQueue'[i].what = "feedback" /\ msmQueue'[j].what = "event"
                      => Num(msmQueue'[i]) < Num(msmQueue'[j])
      <4>1. i \in Nat /\ i + 1 \in 1..Len(msmQueue) /\ 1 < i + 1 /\ msmQueue'[i] = msmQueue[i + 1]
        BY <2>1, <3>2
      <4>2. Num(msmQueue[1]) < Num(msmQueue[i + 1])
        BY <3>1, <3>7, <3>9, <4>1 DEF Order
      <4>3. \A k \in 1..Len(msmAcks') : msmAcks'[k].n < Num(msmQueue'[i])
        BY <3>4, <3>5, <3>9, <4>1, <4>2 DEF Order
      <4> QED
        BY <2>1, <3>2, <3>9, <4>1, <4>3 DEF Order
    <3> QED
      BY <2>1, <3>6, <3>8, <3>9 DEF Order, Busy, Num
  <2> QED
    BY <1>13, <2>2, <2>3 DEF MsmFeedback, MsmReplies
<1>14. CASE MsmResult
  BY <1>14, TakeKeepsOrder DEF MsmResult
<1> QED
  BY <1>1, <1>2, <1>3, <1>4, <1>5, <1>6, <1>7, <1>8, <1>9, <1>10, <1>11, <1>12, <1>13, <1>14
  DEF MsmNext, MsmApplication, MsmExecutor, MsmLooper, Op

(* A notification is answered to the modem service once at most, in order,     *)
(* after a listener was given it and agreed (handleMessage and                 *)
(* replyToNotification, through the looper's queue).                           *)
THEOREM AcksFollowTheListener == MsmSpec => []AcksAreGiven
<1>1. MsmInit => Types /\ Order
  BY DEF MsmInit, Types, Order, AcksAreGiven, Busy, MsmFree, Used
<1>2. Order => AcksAreGiven
  BY DEF Order
<1> QED
  BY <1>1, <1>2, TypesAreKept, OrderIsKept, PTL DEF MsmSpec

-----------------------------------------------------------------------------
(***************************************************************************)
(* Results.                                                                *)
(***************************************************************************)

\* The results in a queue are those above low and up to high, in order.
Waiting(q, low, high) ==
  /\ \A i \in 1..Len(q) : q[i].what = "result" =>
       /\ q[i].id > low /\ q[i].id <= high
       /\ \A j \in 1..Len(q) : q[j].what = "result" /\ i < j => q[i].id < q[j].id
  /\ \A k \in (low + 1)..high : \E i \in 1..Len(q) : q[i].what = "result" /\ q[i].id = k

\* A message that is not a result leaves them.
LEMMA WaitingOther ==
  ASSUME NEW S, NEW q \in Seq(S), NEW m \in S, m.what # "result",
         NEW low \in Nat, NEW high \in Nat, Waiting(q, low, high)
  PROVE  Waiting(Append(q, m), low, high)
<1>1. /\ Len(Append(q, m)) = Len(q) + 1 /\ Len(q) \in Nat
      /\ \A i \in 1..Len(q) + 1 : /\ i \in 1..Len(q) => Append(q, m)[i] = q[i]
                                  /\ i \notin 1..Len(q) => i = Len(q) + 1 /\ Append(q, m)[i] = m
  BY AppendFacts
<1> DEFINE p == Append(q, m)
<1>2. /\ Len(p) = Len(q) + 1 /\ Len(q) \in Nat
      /\ \A i \in 1..Len(q) : i \in 1..Len(p) /\ p[i] = q[i]
      /\ p[Len(q) + 1] = m
  BY <1>1
<1> HIDE DEF p
<1>3. \A i \in 1..Len(p) : p[i].what = "result" => i \in 1..Len(q) /\ p[i] = q[i]
  BY <1>2
<1>4. \A i \in 1..Len(p) : p[i].what = "result" =>
        /\ p[i].id > low /\ p[i].id <= high
        /\ \A j \in 1..Len(p) : p[j].what = "result" /\ i < j => p[i].id < p[j].id
  BY <1>3 DEF Waiting
<1>5. \A k \in (low + 1)..high : \E i \in 1..Len(p) : p[i].what = "result" /\ p[i].id = k
  BY <1>2 DEF Waiting
<1> QED BY <1>4, <1>5 DEF Waiting, p

\* The next result is the last of them.
LEMMA WaitingNext ==
  ASSUME NEW S, NEW q \in Seq(S), NEW m \in S, m.what = "result",
         NEW low \in Nat, NEW high \in Nat, low <= high, Waiting(q, low, high), m.id = high + 1,
         \A e \in S : e.what = "result" => e.id \in Nat
  PROVE  Waiting(Append(q, m), low, high + 1)
<1>1. /\ Len(Append(q, m)) = Len(q) + 1 /\ Len(q) \in Nat
      /\ \A i \in 1..Len(q) + 1 : /\ i \in 1..Len(q) => Append(q, m)[i] = q[i]
                                  /\ i \notin 1..Len(q) => i = Len(q) + 1 /\ Append(q, m)[i] = m
  BY AppendFacts
<1>2. \A i \in 1..Len(q) : q[i].what = "result" => q[i].id \in Nat
  OBVIOUS
<1> DEFINE p == Append(q, m)
<1>3. /\ Len(p) = Len(q) + 1 /\ Len(q) \in Nat
      /\ \A i \in 1..Len(q) : p[i] = q[i]
      /\ p[Len(q) + 1] = m
  BY <1>1
<1> HIDE DEF p
<1>4. ASSUME NEW i \in 1..Len(p), p[i].what = "result"
      PROVE  /\ p[i].id > low /\ p[i].id <= high + 1
             /\ \A j \in 1..Len(p) : p[j].what = "result" /\ i < j => p[i].id < p[j].id
  <2>1. CASE i \in 1..Len(q)
    <3>1. p[i] = q[i] /\ q[i].id > low /\ q[i].id <= high /\ q[i].id \in Nat
      BY <1>2, <1>3, <1>4, <2>1 DEF Waiting
    <3>2. ASSUME NEW j \in 1..Len(p), p[j].what = "result", i < j PROVE q[i].id < p[j].id
      <4>1. CASE j \in 1..Len(q)
        BY <1>3, <1>4, <2>1, <3>1, <3>2, <4>1 DEF Waiting
      <4>2. CASE j = Len(q) + 1
        BY <1>3, <3>1, <4>2
      <4> QED BY <1>3, <4>1, <4>2
    <3> QED BY <3>1, <3>2
  <2>2. CASE i = Len(q) + 1
    BY <1>3, <2>2
  <2> QED BY <1>3, <2>1, <2>2
<1>5. ASSUME NEW k \in (low + 1)..(high + 1)
      PROVE  \E i \in 1..Len(p) : p[i].what = "result" /\ p[i].id = k
  <2>1. CASE k \in (low + 1)..high
    <3>1. PICK i \in 1..Len(q) : q[i].what = "result" /\ q[i].id = k
      BY <2>1 DEF Waiting
    <3>2. i \in 1..Len(p) /\ p[i] = q[i]
      BY <1>3
    <3> QED BY <3>1, <3>2
  <2>2. CASE k = high + 1
    <3>1. Len(q) + 1 \in 1..Len(p)
      BY <1>3
    <3> QED BY <1>3, <2>2, <3>1
  <2> QED BY <2>1, <2>2
<1>6. Waiting(p, low, high + 1)
  BY <1>4, <1>5 DEF Waiting
<1> QED BY <1>6 DEF p

\* The oldest message is not a result.
LEMMA WaitingTail ==
  ASSUME NEW S, NEW q \in Seq(S), q # <<>>, Head(q).what # "result",
         NEW low \in Nat, NEW high \in Nat, Waiting(q, low, high)
  PROVE  Waiting(Tail(q), low, high)
<1>1. /\ Len(Tail(q)) \in Nat /\ Len(q) \in Nat /\ q[1].what # "result"
      /\ \A i \in 1..Len(Tail(q)) :
           i \in Nat /\ i + 1 \in 1..Len(q) /\ Tail(q)[i] = q[i + 1]
  OBVIOUS
<1>2. \A i \in 1..Len(q) : i # 1 => i - 1 \in 1..Len(Tail(q)) /\ i \in Nat /\ Tail(q)[i - 1] = q[i]
  OBVIOUS
<1> DEFINE p == Tail(q)
<1> HIDE DEF p
<1>3. ASSUME NEW k \in (low + 1)..high
      PROVE  \E i \in 1..Len(p) : p[i].what = "result" /\ p[i].id = k
  <2>1. PICK i \in 1..Len(q) : q[i].what = "result" /\ q[i].id = k
    BY DEF Waiting
  <2> QED BY <1>1, <1>2, <2>1 DEF p
<1>4. ASSUME NEW i \in 1..Len(p), p[i].what = "result"
      PROVE  /\ p[i].id > low /\ p[i].id <= high
             /\ \A j \in 1..Len(p) : p[j].what = "result" /\ i < j => p[i].id < p[j].id
  BY <1>1, <1>4 DEF Waiting, p
<1> QED BY <1>3, <1>4 DEF Waiting, p

\* The oldest message is a result: it is the lowest of them.
LEMMA WaitingTold ==
  ASSUME NEW S, NEW q \in Seq(S), q # <<>>, Head(q).what = "result",
         NEW low \in Nat, NEW high \in Nat, Waiting(q, low, high),
         \A e \in S : e.what = "result" => e.id \in Nat
  PROVE  /\ Head(q).id = low + 1 /\ low + 1 <= high
         /\ Waiting(Tail(q), low + 1, high)
<1>1. /\ Len(Tail(q)) \in Nat /\ Len(q) \in Nat /\ Head(q) = q[1] /\ 1 \in 1..Len(q)
      /\ \A i \in 1..Len(Tail(q)) :
           i \in Nat /\ i + 1 \in 1..Len(q) /\ 1 < i + 1 /\ Tail(q)[i] = q[i + 1]
  OBVIOUS
<1>2. \A i \in 1..Len(q) : i # 1 => i - 1 \in 1..Len(Tail(q)) /\ 1 < i /\ i \in Nat /\ Tail(q)[i - 1] = q[i]
  OBVIOUS
<1>3. \A i \in 1..Len(q) : q[i].what = "result" => q[i].id \in Nat
  OBVIOUS
<1>4. q[1].id > low /\ q[1].id <= high /\ low + 1 \in (low + 1)..high
  BY <1>1, <1>3 DEF Waiting
<1>5. q[1].id = low + 1
  <2>1. PICK i \in 1..Len(q) : q[i].what = "result" /\ q[i].id = low + 1
    BY <1>4 DEF Waiting
  <2>2. CASE i = 1
    BY <2>1, <2>2
  <2>3. CASE i # 1
    <3>1. q[1].id < q[i].id
      BY <1>1, <1>2, <2>1, <2>3 DEF Waiting
    <3> QED BY <1>1, <1>3, <1>4, <2>1, <3>1
  <2> QED BY <2>2, <2>3
<1> DEFINE p == Tail(q)
<1>6. ASSUME NEW i \in 1..Len(p), p[i].what = "result"
      PROVE  /\ p[i].id > low + 1 /\ p[i].id <= high
             /\ \A j \in 1..Len(p) : p[j].what = "result" /\ i < j => p[i].id < p[j].id
  <2>1. /\ i \in Nat /\ i + 1 \in 1..Len(q) /\ 1 < i + 1 /\ p[i] = q[i + 1]
        /\ q[1].what = "result" /\ q[i + 1].what = "result"
    BY <1>1, <1>6
  <2>2. q[1].id < q[i + 1].id /\ q[i + 1].id <= high /\ q[i + 1].id \in Nat
    BY <1>1, <1>3, <2>1 DEF Waiting
  <2>3. q[i + 1].id > low + 1
    BY <1>5, <2>2
  <2>4. ASSUME NEW j \in 1..Len(p), p[j].what = "result", i < j PROVE q[i + 1].id < p[j].id
    <3>1. j + 1 \in 1..Len(q) /\ p[j] = q[j + 1] /\ i + 1 < j + 1
      BY <1>1, <2>1, <2>4
    <3> QED BY <2>1, <2>4, <3>1 DEF Waiting
  <2> QED BY <2>1, <2>2, <2>3, <2>4
<1>7. ASSUME NEW k \in (low + 2)..high
      PROVE  \E i \in 1..Len(p) : p[i].what = "result" /\ p[i].id = k
  <2> HIDE DEF p
  <2>1. k \in (low + 1)..high /\ k # low + 1
    OBVIOUS
  <2>2. PICK i \in 1..Len(q) : q[i].what = "result" /\ q[i].id = k
    BY <2>1 DEF Waiting
  <2>3. i # 1
    BY <1>5, <2>1, <2>2
  <2> QED BY <1>2, <2>2, <2>3 DEF p
<1>8. (low + 1) + 1 = low + 2
  OBVIOUS
<1> HIDE DEF p
<1>9. Waiting(p, low + 1, high)
  BY <1>6, <1>7, <1>8 DEF Waiting
<1> QED BY <1>1, <1>4, <1>5, <1>9 DEF p

\* The operations begun, and those whose result was posted.
Begun == msmUsed.tasks - Len(msmTasks)
Posted == IF msmBack = MsmFree THEN Begun ELSE Begun - 1

\* The operations are begun in the order asked for, and their results are told
\* in the order they were posted.
Results ==
  /\ msmBack = MsmFree \/ (msmBack.at # "free" /\ msmBack.id = Begun)
  /\ Begun \in Nat /\ Posted \in Nat
  /\ \A i \in 1..Len(msmTasks) : msmTasks[i].id = Begun + i
  /\ msmTold \in Seq(Nat) /\ \A i \in 1..Len(msmTold) : msmTold[i] = i
  /\ Len(msmTold) <= Posted
  /\ Waiting(msmQueue, Len(msmTold), Posted)

(* Results carry a number.                                                     *)
LEMMA ResultNumber == \A m \in Msg : m.what = "result" => m.id \in Nat
  BY DEF Msg, EventMsg, FeedbackMsg, ResultMsg

(* Steps that post and tell no result keep the account.                        *)
LEMMA ResultsAside ==
  ASSUME Types, Results, UNCHANGED <<msmTasks, msmBack, msmTold>>, msmUsed'.tasks = msmUsed.tasks,
         \/ msmQueue' = msmQueue
         \/ \E m \in Msg : m.what # "result" /\ msmQueue' = Append(msmQueue, m)
         \/ msmQueue # <<>> /\ Head(msmQueue).what # "result" /\ msmQueue' = Tail(msmQueue)
  PROVE  Results'
<1>1. Begun' = Begun /\ Posted' = Posted
  BY DEF Begun, Posted
<1>2. Len(msmTold) \in Nat /\ Posted \in Nat /\ msmQueue \in Seq(Msg) /\ Waiting(msmQueue, Len(msmTold), Posted)
  BY DEF Results, Types
<1>3. Waiting(msmQueue', Len(msmTold), Posted)
  <2>1. CASE msmQueue' = msmQueue
    BY <1>2, <2>1
  <2>2. ASSUME NEW m \in Msg, m.what # "result", msmQueue' = Append(msmQueue, m)
        PROVE  Waiting(msmQueue', Len(msmTold), Posted)
    BY <1>2, <2>2, WaitingOther
  <2>3. CASE msmQueue # <<>> /\ Head(msmQueue).what # "result" /\ msmQueue' = Tail(msmQueue)
    BY <1>2, <2>3, WaitingTail
  <2> QED BY <2>1, <2>2, <2>3
<1>4. Waiting(msmQueue', Len(msmTold'), Posted')
  BY <1>1, <1>3
<1>5. (Waiting(msmQueue, Len(msmTold), Posted))'
  BY <1>4 DEF Waiting
<1> QED BY <1>1, <1>5 DEF Results

(* An operation that is asked for gets the next number.                        *)
LEMMA ResultsAsked ==
  ASSUME Types, Results, NEW op \in Op, MsmAsync(op)
  PROVE  Results'
<1>1. /\ msmUsed'.tasks = msmUsed.tasks + 1 /\ msmUsed.tasks \in Nat
      /\ msmTasks' = Append(msmTasks, [op |-> op, id |-> msmUsed.tasks + 1])
      /\ UNCHANGED <<msmBack, msmTold, msmQueue>>
  BY DEF MsmAsync, Types, Used
<1>2. [op |-> op, id |-> msmUsed.tasks + 1] \in Task /\ msmTasks \in Seq(Task)
  BY <1>1 DEF Task, Types
<1> DEFINE t == [op |-> op, id |-> msmUsed.tasks + 1]
<1>3. t.id = msmUsed.tasks + 1
  OBVIOUS
<1> HIDE DEF t
<1>4. /\ Len(msmTasks') = Len(msmTasks) + 1 /\ Len(msmTasks) \in Nat
      /\ \A i \in 1..Len(msmTasks) + 1 :
           /\ i \in 1..Len(msmTasks) => msmTasks'[i] = msmTasks[i]
           /\ i \notin 1..Len(msmTasks) => i = Len(msmTasks) + 1 /\ msmTasks'[i] = t
  BY <1>1, <1>2, AppendFacts DEF t
<1>5. Begun' = Begun /\ Posted' = Posted /\ Begun = msmUsed.tasks - Len(msmTasks)
  BY <1>1, <1>4 DEF Begun, Posted
<1>6. ASSUME NEW i \in 1..Len(msmTasks') PROVE msmTasks'[i].id = Begun' + i
  <2>1. CASE i \in 1..Len(msmTasks)
    <3>1. msmTasks'[i] = msmTasks[i] /\ msmTasks[i].id = Begun + i
      BY <1>4, <2>1 DEF Results
    <3> QED BY <1>5, <3>1
  <2>2. CASE i = Len(msmTasks) + 1
    <3>1. msmTasks'[i] = t
      BY <1>4, <2>2
    <3>2. msmUsed.tasks + 1 = (msmUsed.tasks - Len(msmTasks)) + (Len(msmTasks) + 1)
      BY ONLY <1>1, <1>4
    <3> QED BY <1>3, <1>5, <2>2, <3>1, <3>2
  <2> QED BY <1>4, <2>1, <2>2
<1>7. (Waiting(msmQueue, Len(msmTold), Posted))'
  BY <1>1, <1>5 DEF Results, Waiting
<1> QED BY <1>1, <1>5, <1>6, <1>7 DEF Results

(* The executor begins the operation with the lowest number.                   *)
LEMMA ResultsBegun ==
  ASSUME Types, Results, MsmBegin
  PROVE  Results'
<1>1. /\ msmBack = MsmFree /\ msmTasks # <<>> /\ msmTasks' = Tail(msmTasks)
      /\ msmBack'.at = "run" /\ msmBack'.id = Head(msmTasks).id /\ UNCHANGED <<msmQueue, msmTold, msmUsed>>
  BY DEF MsmBegin
<1>2. /\ Len(msmTasks') = Len(msmTasks) - 1 /\ Len(msmTasks) \in Nat /\ Len(msmTasks) >= 1
      /\ Head(msmTasks) = msmTasks[1]
      /\ \A i \in 1..Len(msmTasks') : i \in Nat /\ i + 1 \in 1..Len(msmTasks) /\ msmTasks'[i] = msmTasks[i + 1]
  BY <1>1 DEF Types
<1>3. msmUsed.tasks \in Nat
  BY DEF Types, Used
<1>4. Begun' = Begun + 1 /\ Begun \in Nat
  BY <1>1, <1>2, <1>3 DEF Begun, Results
<1>5. msmBack'.id = Begun' /\ msmBack' # MsmFree
  BY <1>1, <1>2, <1>4 DEF Results, MsmFree
<1>6. Posted' = Posted
  BY <1>1, <1>4, <1>5 DEF Posted
<1>7. ASSUME NEW i \in 1..Len(msmTasks') PROVE msmTasks'[i].id = Begun' + i
  <2>1. i \in Nat /\ msmTasks'[i] = msmTasks[i + 1] /\ msmTasks[i + 1].id = Begun + (i + 1)
    BY <1>2 DEF Results
  <2>2. Begun + (i + 1) = (Begun + 1) + i
    BY ONLY <1>4, <2>1
  <2> QED BY <1>4, <2>1, <2>2
<1>8. (Waiting(msmQueue, Len(msmTold), Posted))'
  BY <1>1, <1>6 DEF Results, Waiting
<1> QED BY <1>1, <1>4, <1>5, <1>6, <1>7, <1>8 DEF Results

(* The executor's place in an operation does not matter to the account.        *)
LEMMA ResultsRun ==
  ASSUME Types, Results, MsmRun \/ MsmFinally
  PROVE  Results'
<1>1. /\ msmBack.at \in {"run", "finally"} /\ msmBack'.at \in {"finally", "post"} /\ msmBack'.id = msmBack.id
      /\ UNCHANGED <<msmQueue, msmTold, msmUsed, msmTasks>>
  BY DEF MsmRun, MsmFinally, Types
<1>2. msmBack # MsmFree /\ msmBack' # MsmFree
  BY <1>1 DEF MsmFree
<1>3. Begun' = Begun /\ Posted' = Posted
  BY <1>1, <1>2 DEF Begun, Posted
<1>4. (Waiting(msmQueue, Len(msmTold), Posted))'
  BY <1>1, <1>3 DEF Results, Waiting
<1> QED BY <1>1, <1>2, <1>3, <1>4 DEF Results

(* The result of the operation that ran comes after those posted before.       *)
LEMMA ResultsPosted ==
  ASSUME Types, Results, MsmPost
  PROVE  Results'
<1> DEFINE r == [what |-> "result", id |-> msmBack.id]
<1>1. /\ msmBack.at = "post" /\ msmBack' = MsmFree /\ msmQueue' = Append(msmQueue, r)
      /\ UNCHANGED <<msmTold, msmUsed, msmTasks>>
  BY DEF MsmPost
<1>2. msmBack # MsmFree /\ msmBack.id = Begun
  BY <1>1 DEF MsmFree, Results
<1>3. /\ Begun' = Begun /\ Begun \in Nat /\ Posted \in Nat /\ Posted' = Posted + 1 /\ Posted' = Begun
  BY <1>1, <1>2 DEF Begun, Posted, Results
<1>4. r \in Msg /\ r.what = "result" /\ r.id = Posted + 1
  BY <1>2, <1>3 DEF Msg, ResultMsg
<1> HIDE DEF r
<1>5. Len(msmTold) \in Nat /\ Len(msmTold) <= Posted /\ msmQueue \in Seq(Msg) /\ Waiting(msmQueue, Len(msmTold), Posted)
  BY DEF Results, Types
<1>6. Waiting(msmQueue', Len(msmTold), Posted + 1)
  BY <1>1, <1>3, <1>4, <1>5, ResultNumber, WaitingNext
<1>7. (Waiting(msmQueue, Len(msmTold), Posted))'
  BY <1>1, <1>3, <1>6 DEF Waiting
<1>8. Len(msmTold') <= Posted'
  BY <1>1, <1>3, <1>5
<1> QED BY <1>1, <1>3, <1>7, <1>8 DEF Results

(* A listener is told the result of the first operation not yet told.          *)
LEMMA ResultsTold ==
  ASSUME Types, Results, MsmResult
  PROVE  Results'
<1>1. /\ msmQueue # <<>> /\ Head(msmQueue).what = "result" /\ msmQueue' = Tail(msmQueue)
      /\ msmTold' = Append(msmTold, Head(msmQueue).id) /\ UNCHANGED <<msmUsed, msmTasks, msmBack>>
  BY DEF MsmResult
<1>2. Len(msmTold) \in Nat /\ msmTold \in Seq(Nat) /\ Posted \in Nat /\ msmQueue \in Seq(Msg)
      /\ Waiting(msmQueue, Len(msmTold), Posted)
  BY DEF Results, Types
<1>3. /\ Head(msmQueue).id = Len(msmTold) + 1 /\ Len(msmTold) + 1 <= Posted
      /\ Waiting(Tail(msmQueue), Len(msmTold) + 1, Posted)
  BY <1>1, <1>2, ResultNumber, WaitingTold
<1>4. Begun' = Begun /\ Posted' = Posted
  BY <1>1 DEF Begun, Posted
<1>5. msmTold' = Append(msmTold, Len(msmTold) + 1)
  BY <1>1, <1>3
<1>6. /\ msmTold' \in Seq(Nat) /\ Len(msmTold') = Len(msmTold) + 1
      /\ \A i \in 1..Len(msmTold') : msmTold'[i] = i
  <2>1. /\ Len(msmTold') = Len(msmTold) + 1
        /\ \A i \in 1..Len(msmTold) + 1 :
             /\ i \in 1..Len(msmTold) => msmTold'[i] = msmTold[i]
             /\ i \notin 1..Len(msmTold) => i = Len(msmTold) + 1 /\ msmTold'[i] = Len(msmTold) + 1
    BY <1>2, <1>5, AppendFacts
  <2>2. msmTold' \in Seq(Nat)
    BY <1>2, <1>5
  <2> QED BY <2>1, <2>2 DEF Results
<1>7. (Waiting(msmQueue, Len(msmTold), Posted))'
  BY <1>1, <1>3, <1>4, <1>6 DEF Waiting
<1> QED BY <1>1, <1>3, <1>4, <1>6, <1>7 DEF Results

(* Every step keeps the account of results.                                    *)
LEMMA ResultsAreKept == Types /\ Results /\ [MsmNext]_msmVars => Results'
<1> SUFFICES ASSUME Types, Results, [MsmNext]_msmVars PROVE Results'
  OBVIOUS
<1>1. CASE UNCHANGED msmVars
  BY <1>1, ResultsAside DEF msmVars
<1>2. CASE MsmSubscribe
  BY <1>2, ResultsAside DEF MsmSubscribe, Types, Used
<1>3. ASSUME NEW op \in {"connect", "disconnect"}, MsmSync(op) PROVE Results'
  BY <1>3, ResultsAside DEF MsmSync, Types, Used
<1>4. CASE MsmEvent
  <2>1. PICK kind \in MsmStatuses \cup MsmNotifications :
          msmQueue' = Append(msmQueue, [what |-> "event", kind |-> kind, n |-> msmUsed'.events])
    BY <1>4 DEF MsmEvent
  <2> DEFINE e == [what |-> "event", kind |-> kind, n |-> msmUsed'.events]
  <2>2. msmUsed'.tasks = msmUsed.tasks /\ msmUsed'.events \in Nat
    BY <1>4 DEF MsmEvent, Types, Used
  <2>3. e \in Msg /\ e.what # "result"
    BY <2>2 DEF Msg, EventMsg
  <2> HIDE DEF e
  <2> QED BY <1>4, <2>1, <2>2, <2>3, ResultsAside DEF MsmEvent, e
<1>5. CASE MsmHandle \/ MsmFeedback
  BY <1>5, ResultsAside DEF MsmHandle, MsmFeedback
<1>6. CASE MsmLock
  BY <1>6, ResultsAside DEF MsmLock
<1>7. CASE MsmDispatch
  <2>1. msmMain.msg \in EventMsg
    BY <1>7 DEF MsmDispatch, Types, MsmIdle
  <2>2. \A agreed \in BOOLEAN :
          /\ [what |-> "feedback", agreed |-> agreed, msg |-> msmMain.msg] \in Msg
          /\ [what |-> "feedback", agreed |-> agreed, msg |-> msmMain.msg].what # "result"
    BY <2>1 DEF Msg, FeedbackMsg
  <2>3. \/ msmQueue' = msmQueue
        \/ \E m \in Msg : m.what # "result" /\ msmQueue' = Append(msmQueue, m)
    BY <1>7, <2>2 DEF MsmDispatch
  <2> QED BY <1>7, <2>3, ResultsAside DEF MsmDispatch
<1> QED
  BY <1>1, <1>2, <1>3, <1>4, <1>5, <1>6, <1>7, ResultsAsked, ResultsBegun, ResultsRun, ResultsPosted, ResultsTold
  DEF MsmNext, MsmApplication, MsmExecutor, MsmLooper, Op

\* The listener field holds the number of a call.
Listening == msmListener \in 0..MaxMsmCalls /\ msmConn \in BOOLEAN

(* Every step keeps it.                                                        *)
LEMMA ListeningIsKept == Types /\ Listening /\ [MsmNext]_msmVars => Listening'
<1> SUFFICES ASSUME Types, Listening, [MsmNext]_msmVars PROVE Listening'
  OBVIOUS
<1>1. CASE MsmSubscribe
  <2>1. msmUsed.calls \in Nat /\ msmUsed.calls < MaxMsmCalls /\ msmListener' = msmUsed.calls + 1
    BY <1>1 DEF MsmSubscribe, Types, Used
  <2> QED BY <1>1, <2>1, MsmAssumption DEF MsmSubscribe, Listening, MsmAssumption
<1>2. ASSUME NEW op \in {"connect", "disconnect"}, MsmSync(op) PROVE Listening'
  BY <1>2, MsmAssumption DEF MsmSync, Listening, MsmAssumption
<1>3. ASSUME NEW op \in Op, MsmAsync(op) PROVE Listening'
  BY <1>3 DEF MsmAsync, Listening
<1>4. CASE MsmExecutor
  <2>1. CASE MsmBegin \/ MsmPost
    BY <2>1 DEF MsmBegin, MsmPost, Listening
  <2>2. CASE MsmRun
    BY <2>2 DEF MsmRun, Listening
  <2>3. CASE MsmFinally
    BY <2>3, MsmAssumption DEF MsmFinally, Listening, MsmAssumption
  <2> QED BY <1>4, <2>1, <2>2, <2>3 DEF MsmExecutor
<1>5. CASE MsmEvent \/ MsmLooper \/ UNCHANGED msmVars
  BY <1>5 DEF MsmEvent, MsmLooper, MsmHandle, MsmLock, MsmDispatch, MsmFeedback, MsmResult, msmVars, Listening
<1> QED BY <1>1, <1>2, <1>3, <1>4, <1>5 DEF MsmNext, MsmApplication, Op

(* Asynchronous operations are answered once each in the order asked for, and  *)
(* notifications acknowledged once at most after the listener agreed           *)
(* (AsyncOperationTask, handleMessage and replyToNotification).                *)
THEOREM ResultsReachListeners == MsmSpec => []ListenersGetTheirResults
<1>0. MsmInit => Types /\ Order
  BY DEF MsmInit, Types, Order, AcksAreGiven, Busy, MsmFree, Used
<1>1. MsmInit => Listening
  <2>1. 0 \in 0..MaxMsmCalls
    BY MsmAssumption DEF MsmAssumption
  <2>2. MsmInit => msmListener = 0 /\ msmConn = FALSE
    BY DEF MsmInit
  <2> QED BY <2>1, <2>2 DEF Listening
<1>2. MsmInit => Results
  BY DEF MsmInit, Results, Begun, Posted, Waiting
<1>3. Types /\ Order /\ Listening /\ Results => ListenersGetTheirResults
  <2> SUFFICES ASSUME Types, Order, Listening, Results PROVE ListenersGetTheirResults
    OBVIOUS
  <2>1. msmTold = [i \in 1..Len(msmTold) |-> i]
    BY DEF Results
  <2>2. \A i \in DOMAIN msmQueue : msmQueue[i].what \in {"event", "feedback", "result"}
    BY DEF Types, Msg, EventMsg, FeedbackMsg, ResultMsg
  <2>3. msmMain.at \in {"idle", "lock", "call"} /\ msmBack.at \in {"free", "run", "finally", "post"}
    BY DEF Types, MsmIdle
  <2>4. Len(msmTold) <= msmUsed.tasks
    <3>1. /\ Len(msmTold) \in Nat /\ Len(msmTasks) \in Nat /\ msmUsed.tasks \in Nat
          /\ Posted <= Begun /\ Posted \in Nat /\ Begun \in Nat /\ Len(msmTold) <= Posted
      BY DEF Results, Types, Used, Posted
    <3> QED BY <3>1 DEF Begun
  <2> QED BY <2>1, <2>2, <2>3, <2>4
          DEF ListenersGetTheirResults, MsmTypeOK, ResultsComeInOrder, Order, Listening
<1> QED
  BY <1>0, <1>1, <1>2, <1>3, TypesAreKept, OrderIsKept, ListeningIsKept, ResultsAreKept, PTL DEF MsmSpec
=============================================================================
