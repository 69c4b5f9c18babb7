-------------------------- MODULE MmgrClientProofs --------------------------
(***************************************************************************)
(* Type correctness of the modem manager client and the absence of lost    *)
(* acknowledgements, for any number of requests, connections and events.   *)
(***************************************************************************)
EXTENDS MmgrClient, TLAPS

USE DEF socketVars, ackVars, statusVars, streamVars, requestHistory,
        eventHistory

\* What is in flight and what a batch holds stays well typed when a request is
\* sent, and when none is.
LEMMA StreamsGrow ==
  ASSUME sent \in Nat, sent' \in {sent, sent + 1}
  PROVE  /\ sent' \in Nat
         /\ 0 .. sent \subseteq 0 .. sent' /\ 1 .. sent \subseteq 1 .. sent'
         /\ Seq(Responses) \subseteq Seq(Responses')
         /\ Seq(1 .. sent) \subseteq Seq(1 .. sent')
         /\ ReaderStates \subseteq ReaderStates'
<1>1. /\ sent' \in Nat
      /\ 0 .. sent \subseteq 0 .. sent' /\ 1 .. sent \subseteq 1 .. sent'
  OBVIOUS
<1>2. Responses \subseteq Responses'
  BY <1>1 DEF Responses
<1>3. /\ Seq(Responses) \subseteq Seq(Responses')
      /\ Seq(1 .. sent) \subseteq Seq(1 .. sent')
  BY <1>1, <1>2
<1>4. ReaderStates \subseteq ReaderStates'
  BY <1>3 DEF ReaderStates
<1> QED
  BY <1>1, <1>3, <1>4

\* A program counter set in a caller state is a caller state.
LEMMA CallerGoes ==
  ASSUME NEW c \in CallerStates,
         NEW at \in {"idle", "send", "wait", "sleep", "woken", "sleep_status",
                     "woken_status", "stop", "close", "join"}
  PROVE  /\ [c EXCEPT !.at = at] \in CallerStates
         /\ \A op \in {"none", "name", "events", "modem", "status"} :
              [op |-> op, at |-> at] \in CallerStates
         /\ Idle \in CallerStates
BY DEF CallerStates, Idle

\* A reader that holds nothing is well typed wherever it is.
LEMMA ReaderEmpty ==
  ASSUME NEW at \in {"dead", "start", "read", "handle", "compare", "write",
                     "post", "close"}
  PROVE  [Dead EXCEPT !.at = at] \in ReaderStates /\ Dead \in ReaderStates
<1>1. <<>> \in Seq(Responses)
  OBVIOUS
<1> QED
  BY <1>1 DEF Dead, ReaderStates

\* Type correctness of the caller's steps, which leave the reader alone.
LEMMA TypeCaller ==
  ASSUME TypeOK, CallerBegins \/ CallerContinues
  PROVE  TypeOK'
<1> USE DEF TypeOK
<1>0. sent' = sent => ReaderStates' = ReaderStates /\ Responses' = Responses
  BY DEF ReaderStates, Responses
<1>1. CASE Start
  <2>1. reader' \in ReaderStates' /\ caller' \in CallerStates
    BY <1>0, <1>1, CallerGoes, ReaderEmpty DEF Start
  <2>2. <<>> \in Seq(Responses) /\ <<>> \in Seq(1 .. sent)
        /\ <<>> \in Seq(Events) /\ <<>> \in Seq(Statuses \cup Notifications)
    OBVIOUS
  <2> QED
    BY <1>0, <1>1, <2>1, <2>2 DEF Start
<1>2. CASE StartFails
  BY <1>0, <1>2 DEF StartFails, CleanUp
<1>3. CASE RequestModem
  BY <1>0, <1>3, CallerGoes DEF RequestModem
<1>4. CASE Stop
  BY <1>0, <1>4, CallerGoes DEF Stop
<1>5. ASSUME NEW status \in Statuses, WaitForStatus(status)
      PROVE  TypeOK'
  BY <1>0, <1>5, CallerGoes DEF WaitForStatus
<1>6. CASE SendRequest
  <2>1. sent' \in {sent, sent + 1} /\ caller' \in CallerStates
    BY <1>6, CallerGoes DEF SendRequest
  <2>2. toService' \in Seq(1 .. sent')
    <3>1. toService \in Seq(1 .. sent')
      BY <2>1, StreamsGrow
    <3>2. CASE sent' = sent + 1
      <4>1. toService' = Append(toService, sent') /\ sent' \in 1 .. sent'
        BY <1>6, <3>2 DEF SendRequest
      <4> HIDE DEF TypeOK
      <4> QED
        BY <3>1, <4>1
    <3>3. CASE sent' = sent
      BY <1>6, <3>1, <3>3 DEF SendRequest
    <3> QED
      BY <2>1, <3>2, <3>3
  <2> QED
    BY <1>6, <2>1, <2>2, StreamsGrow DEF SendRequest
<1>7. ASSUME AckResult(TRUE) \/ AckResult(FALSE) \/ AckResult(~nackSignaled),
             ackSignaled' \in BOOLEAN, nackSignaled' \in BOOLEAN
      PROVE  TypeOK'
  <2>1. caller' \in CallerStates
    BY <1>7, CallerGoes DEF AckResult
  <2>2. reported' \subseteq 0 .. sent
    BY <1>7 DEF AckResult
  <2> QED
    BY <1>0, <1>7, <2>1, <2>2 DEF AckResult
<1>8. CASE WaitForAck \/ AckAwaited \/ AckTimeout
  BY <1>7, <1>8 DEF WaitForAck, AckAwaited, AckTimeout
<1>9. CASE AwaitAck
  BY <1>0, <1>9, CallerGoes DEF AwaitAck
<1>10. CASE StatusAwaited
  BY <1>0, <1>10, CallerGoes DEF StatusAwaited
<1>11. CASE StatusTimeout
  BY <1>0, <1>11, CallerGoes DEF StatusTimeout
<1>12. CASE StopCloses
  BY <1>0, <1>12, CallerGoes DEF StopCloses, CleanUp
<1>13. CASE StopJoins
  BY <1>0, <1>13, CallerGoes DEF StopJoins
<1> QED
  BY <1>1, <1>2, <1>3, <1>4, <1>5, <1>6, <1>8, <1>9, <1>10, <1>11, <1>12,
     <1>13 DEF CallerBegins, CallerContinues

\* What one turn of handleResponse's loop works on and leaves.
LEMMA HeadOfBatch ==
  ASSUME TypeOK, reader.batch # <<>>
  PROVE  /\ Head(reader.batch) \in Responses
         /\ Tail(reader.batch) \in Seq(Responses)
         /\ Noted(Head(reader.batch).kind) \in ReaderStates
<1>1. reader.batch \in Seq(Responses)
  BY DEF TypeOK, ReaderStates
<1>2. Head(reader.batch) \in Responses /\ Tail(reader.batch) \in Seq(Responses)
  BY <1>1
<1>3. reader \in ReaderStates
  BY DEF TypeOK
<1> QED
  BY <1>2, <1>3 DEF Noted, ReaderStates

\* Type correctness of the reader's steps.
LEMMA TypeReader ==
  ASSUME TypeOK, ReaderRuns
  PROVE  TypeOK'
<1> USE DEF TypeOK
<1>0. sent' = sent
  BY DEF ReaderRuns, ReaderStarts, ReadResponses, ReadEnds, ReadFails,
         ReaderCloses, HandleAnswer, HandleEvent, PublishStatus, WriteStatus,
         CompareStatus, SignalStatus, PostEvents
<1>1. ReaderStates' = ReaderStates /\ Responses' = Responses
  BY <1>0 DEF ReaderStates, Responses
<1>2. ASSUME NEW at \in {"dead", "start", "read", "handle", "compare", "write",
                         "post", "close"}
      PROVE  /\ [reader EXCEPT !.at = at] \in ReaderStates
             /\ [reader EXCEPT !.match = FALSE] \in ReaderStates
             /\ [reader EXCEPT !.at = at, !.match = reader.status = waitedStatus]
                  \in ReaderStates
             /\ reader.status \in Statuses \cup {"NONE"}
             /\ reader.notification \in Notifications \cup {"NONE"}
  BY DEF ReaderStates
<1>3. CASE ReaderStarts
  BY <1>0, <1>1, <1>2, <1>3, ReaderEmpty DEF ReaderStarts, Crash
<1>4. CASE ReadResponses
  <2>1. PICK n \in 1 .. Len(toClient) :
          /\ reader' = [Dead EXCEPT !.at = "handle",
                                    !.batch = SubSeq(toClient, 1, n)]
          /\ toClient' = SubSeq(toClient, n + 1, Len(toClient))
    BY <1>4 DEF ReadResponses
  <2>2. /\ SubSeq(toClient, 1, n) \in Seq(Responses)
        /\ SubSeq(toClient, n + 1, Len(toClient)) \in Seq(Responses)
    OBVIOUS
  <2>3. reader' \in ReaderStates
    BY <2>1, <2>2 DEF Dead, ReaderStates
  <2> QED
    BY <1>0, <1>1, <1>4, <2>1, <2>2, <2>3 DEF ReadResponses
<1>5. CASE ReadEnds
  BY <1>0, <1>1, <1>5, ReaderEmpty DEF ReadEnds
<1>6. CASE ReadFails
  BY <1>0, <1>1, <1>2, <1>6 DEF ReadFails
<1>7. CASE ReaderCloses
  BY <1>0, <1>1, <1>7, ReaderEmpty DEF ReaderCloses, CleanUp, Crash
<1>8. CASE HandleAnswer
  <2>1. Head(reader.batch).of \in 0 .. sent
    BY <1>8, HeadOfBatch DEF HandleAnswer, Responses
  <2>2. caller' \in CallerStates
    BY <1>8, CallerGoes DEF HandleAnswer, Woken
  <2> QED
    BY <1>0, <1>1, <1>8, <2>1, <2>2, HeadOfBatch
    DEF HandleAnswer, SignalAck, SignalNack
<1>9. CASE HandleEvent
  BY <1>0, <1>1, <1>9, HeadOfBatch DEF HandleEvent
<1>10. CASE PublishStatus
  BY <1>0, <1>1, <1>2, <1>10 DEF PublishStatus, WriteStatus, CompareStatus
<1>11. CASE SignalStatus
  BY <1>0, <1>1, <1>2, <1>11, CallerGoes DEF SignalStatus
<1>12. CASE PostEvents
  <2>0. /\ reader.status \in Statuses \cup {"NONE"}
        /\ reader.notification \in Notifications \cup {"NONE"}
    BY <1>2
  <2>1. /\ Unless(reader.status) \in Seq(Statuses \cup Notifications)
        /\ Unless(reader.notification) \in Seq(Statuses \cup Notifications)
    <3>1. \A k \in Statuses \cup Notifications :
            <<k>> \in Seq(Statuses \cup Notifications)
      OBVIOUS
    <3>2. <<>> \in Seq(Statuses \cup Notifications)
      OBVIOUS
    <3> QED
      BY <2>0, <3>1, <3>2 DEF Unless
  <2>2. posted' \in Seq(Statuses \cup Notifications)
    <3> DEFINE Msgs == Statuses \cup Notifications
               first == Unless(reader.status)
               second == Unless(reader.notification)
    <3>1. posted' = posted \o first \o second /\ posted \in Seq(Msgs)
          /\ first \in Seq(Msgs) /\ second \in Seq(Msgs)
      BY <1>12, <2>1 DEF PostEvents
    <3> HIDE DEF Msgs, first, second, TypeOK
    <3>2. posted' \in Seq(Msgs)
      BY <3>1
    <3> QED
      BY <3>2 DEF Msgs
  <2> QED
    BY <1>0, <1>1, <1>12, <2>2, ReaderEmpty DEF PostEvents
<1> QED
  BY <1>3, <1>4, <1>5, <1>6, <1>7, <1>8, <1>9, <1>10, <1>11, <1>12
  DEF ReaderRuns

\* Type correctness of the service's steps.
LEMMA TypeService ==
  ASSUME TypeOK, ServiceRuns
  PROVE  TypeOK'
<1> USE DEF TypeOK
<1>0. sent' = sent
  BY DEF ServiceRuns, Answer, Announce, HangUp
<1>1. ReaderStates' = ReaderStates /\ Responses' = Responses
  BY <1>0 DEF ReaderStates, Responses
<1>2. ASSUME NEW kind \in Answers, Answer(kind)
      PROVE  TypeOK'
  <2>1. Head(toService) \in 1 .. sent /\ Tail(toService) \in Seq(1 .. sent)
    BY <1>2 DEF Answer
  <2>2. [kind |-> kind, of |-> Head(toService)] \in Responses
    BY <2>1 DEF Responses
  <2>3. toClient' \in Seq(Responses)
    BY <1>2, <2>2 DEF Answer
  <2> QED
    BY <1>0, <1>1, <1>2, <2>1, <2>3 DEF Answer
<1>3. ASSUME NEW event \in Events, Announce(event)
      PROVE  TypeOK'
  <2>1. [kind |-> event, of |-> 0] \in Responses
    BY DEF Responses
  <2>2. toClient' \in Seq(Responses) /\ announced' \in Seq(Events)
    BY <1>3, <2>1 DEF Announce
  <2> QED
    BY <1>0, <1>1, <1>3, <2>2 DEF Announce
<1>4. CASE HangUp
  BY <1>0, <1>1, <1>4 DEF HangUp
<1> QED
  BY <1>2, <1>3, <1>4 DEF ServiceRuns

\* While the caller is between its request and its wait, an ACK that was handled
\* is remembered: this is what makes NoSleepOnHandledAck inductive.
AckIsRemembered == caller.at = "wait" /\ sent \in handled => ackSignaled

AckInv == TypeOK /\ NoSleepOnHandledAck /\ AckIsRemembered

\* A new client has sent nothing and waits for nothing.
LEMMA AckInit == Init => AckInv
<1> SUFFICES ASSUME Init PROVE AckInv
  OBVIOUS
<1>1. <<>> \in Seq(Responses) /\ <<>> \in Seq(1 .. sent)
      /\ <<>> \in Seq(Events) /\ <<>> \in Seq(Statuses \cup Notifications)
  OBVIOUS
<1>2. caller \in CallerStates /\ reader \in ReaderStates
  BY ReaderEmpty DEF Init, CallerStates, Idle
<1>3. TypeOK
  BY <1>1, <1>2 DEF Init, TypeOK
<1> QED
  BY <1>3 DEF Init, AckInv, NoSleepOnHandledAck, AckIsRemembered, Idle

\* The acknowledgement invariant is inductive.
LEMMA AckStep == AckInv /\ [Next]_vars => AckInv'
<1> SUFFICES ASSUME AckInv, [Next]_vars PROVE AckInv'
  OBVIOUS
<1> USE DEF AckInv
<1>0. caller \in CallerStates /\ handled \subseteq 0 .. sent /\ sent \in Nat
  BY DEF TypeOK
<1>1. CASE CallerBegins \/ CallerContinues
  <2>1. TypeOK'
    BY <1>1, TypeCaller
  <2>2. CASE SendRequest
    <3>1. handled' = handled /\ caller'.at # "sleep"
      BY <1>0, <2>2 DEF SendRequest, Idle, CallerStates
    <3>2. caller'.at = "wait" => sent' \notin handled
      BY <1>0, <2>2 DEF SendRequest, Idle
    <3> QED
      BY <2>1, <3>1, <3>2 DEF NoSleepOnHandledAck, AckIsRemembered
  <2>3. CASE AwaitAck
    BY <1>0, <2>1, <2>3
    DEF AwaitAck, NoSleepOnHandledAck, AckIsRemembered, CallerStates
  <2>4. CASE ~SendRequest /\ ~AwaitAck
    <3>1. caller'.at \notin {"wait", "sleep"}
      BY <1>0, <1>1, <2>4
      DEF CallerBegins, CallerContinues, Start, StartFails, RequestModem, Stop,
          WaitForStatus, WaitForAck, AckAwaited, AckTimeout, AckResult,
          StatusAwaited, StatusTimeout, StopCloses, StopJoins, Idle,
          CallerStates
    <3> QED
      BY <2>1, <3>1 DEF NoSleepOnHandledAck, AckIsRemembered
  <2> QED
    BY <2>2, <2>3, <2>4
<1>2. CASE ReaderRuns
  <2>1. TypeOK'
    BY <1>2, TypeReader
  <2>2. CASE HandleAnswer
    <3>1. caller' = Woken /\ caller'.at # "sleep" /\ sent' = sent
      BY <1>0, <2>2 DEF HandleAnswer, Woken, CallerStates
    <3>2. caller'.at = "wait" => caller.at = "wait"
      BY <1>0, <3>1 DEF Woken, CallerStates
    <3>3. ackSignaled' \/ (handled' = handled /\ ackSignaled' = ackSignaled)
      BY <2>2 DEF HandleAnswer, SignalAck, SignalNack
    <3> QED
      BY <2>1, <3>1, <3>2, <3>3 DEF NoSleepOnHandledAck, AckIsRemembered
  <2>3. CASE ~HandleAnswer
    <3>1. UNCHANGED <<sent, handled, ackSignaled>>
      BY <1>2, <2>3
      DEF ReaderRuns, ReaderStarts, ReadResponses, ReadEnds, ReadFails,
          ReaderCloses, HandleEvent, PublishStatus, WriteStatus, CompareStatus,
          SignalStatus, PostEvents
    <3>2. caller'.at \in {"wait", "sleep"} => caller'.at = caller.at
      BY <1>0, <1>2, <2>3
      DEF ReaderRuns, ReaderStarts, ReadResponses, ReadEnds, ReadFails,
          ReaderCloses, HandleEvent, PublishStatus, WriteStatus, CompareStatus,
          SignalStatus, PostEvents, CallerStates
    <3> QED
      BY <2>1, <3>1, <3>2 DEF NoSleepOnHandledAck, AckIsRemembered
  <2> QED
    BY <2>2, <2>3
<1>3. CASE ServiceRuns
  <2>1. TypeOK'
    BY <1>3, TypeService
  <2>2. UNCHANGED <<caller, sent, handled, ackSignaled>>
    BY <1>3 DEF ServiceRuns, Answer, Announce, HangUp
  <2> QED
    BY <2>1, <2>2 DEF NoSleepOnHandledAck, AckIsRemembered
<1>4. CASE UNCHANGED vars
  BY <1>4 DEF vars, TypeOK, NoSleepOnHandledAck, AckIsRemembered, ReaderStates,
              Responses
<1> QED
  BY <1>1, <1>2, <1>3, <1>4 DEF Next

\* The client's fields, its two threads and the streams keep their types.
THEOREM TypeCorrect == Spec => []TypeOK
<1>1. Spec => []AckInv
  BY AckInit, AckStep, PTL DEF Spec
<1> QED
  BY <1>1, PTL DEF AckInv

\* waitForAck loses no acknowledgement: with any number of requests,
\* reconnections, late answers and events, the caller never sleeps on an ACK
\* the reader has handled.
THEOREM NoAckIsLost == Spec => []NoSleepOnHandledAck
<1>1. Spec => []AckInv
  BY AckInit, AckStep, PTL DEF Spec
<1> QED
  BY <1>1, PTL DEF AckInv

-----------------------------------------------------------------------------
(* The last events of a connection.                                        *)

\* What the reader has not handled yet.
Pending == reader.batch \o toClient

\* The event is the last of some kinds among what is pending, else it is the
\* one handleResponse holds, else the last one posted before.
Flows(event, kinds, pending, held, past) ==
  \/ /\ event \in kinds
     /\ \E i \in DOMAIN pending :
          /\ pending[i].kind = event
          /\ \A j \in DOMAIN pending : j > i => pending[j].kind \notin kinds
  \/ /\ \A i \in DOMAIN pending : pending[i].kind \notin kinds
     /\ IF held = "NONE" THEN IsLatest(event, kinds, past) ELSE event = held

\* Between the service and the handler the last event is never lost.
EventInv(kinds, held) ==
  \E event \in kinds \cup {"NONE"} :
    IsLatest(event, kinds, announced) /\ Flows(event, kinds, Pending, held, posted)

\* handleResponse holds something only while it runs.
Between ==
  /\ reader.at \in {"dead", "start", "read", "close"} =>
       /\ reader.batch = <<>>
       /\ reader.status = "NONE" /\ reader.notification = "NONE"
  /\ reader.at \in {"compare", "write", "post"} => reader.batch = <<>>

LatestInv ==
  /\ TypeOK /\ Between
  /\ EventInv(Statuses, reader.status) /\ EventInv(Notifications, reader.notification)

\* An event sent last is the latest; one of another kind changes nothing.
LEMMA AppendLatest ==
  ASSUME NEW S, NEW events \in Seq(S), NEW e \in S, NEW kinds, "NONE" \notin kinds, NEW v
  PROVE  /\ e \in kinds => IsLatest(e, kinds, Append(events, e))
         /\ e \notin kinds /\ IsLatest(v, kinds, events)
              => IsLatest(v, kinds, Append(events, e))
<1> DEFINE t == Append(events, e)
<1>1. /\ DOMAIN t = 1 .. Len(events) + 1 /\ t[Len(events) + 1] = e
      /\ \A i \in 1 .. Len(events) : t[i] = events[i]
      /\ DOMAIN events = 1 .. Len(events) /\ Len(events) \in Nat
  OBVIOUS
<1> HIDE DEF t
<1>2. e \in kinds => IsLatest(e, kinds, t)
  BY <1>1 DEF IsLatest
<1>3. ASSUME e \notin kinds, IsLatest(v, kinds, events) PROVE IsLatest(v, kinds, t)
  BY <1>1, <1>3 DEF IsLatest
<1> QED BY <1>2, <1>3 DEF t

\* A response that arrives is the last one pending.
LEMMA AppendFlows ==
  ASSUME NEW S, NEW pending \in Seq(S), NEW r \in S, NEW kinds, NEW v, NEW held, NEW past
  PROVE  /\ r.kind \in kinds => Flows(r.kind, kinds, Append(pending, r), held, past)
         /\ r.kind \notin kinds /\ Flows(v, kinds, pending, held, past)
              => Flows(v, kinds, Append(pending, r), held, past)
<1> DEFINE t == Append(pending, r)
<1>1. /\ DOMAIN t = 1 .. Len(pending) + 1 /\ t[Len(pending) + 1] = r
      /\ \A i \in 1 .. Len(pending) : t[i] = pending[i]
      /\ DOMAIN pending = 1 .. Len(pending) /\ Len(pending) \in Nat
  OBVIOUS
<1> HIDE DEF t
<1>2. r.kind \in kinds => Flows(r.kind, kinds, t, held, past)
  BY <1>1 DEF Flows
<1>3. ASSUME r.kind \notin kinds, Flows(v, kinds, pending, held, past)
      PROVE  Flows(v, kinds, t, held, past)
  BY <1>1, <1>3 DEF Flows
<1> QED BY <1>2, <1>3 DEF t

\* A response that is handled is held, if it is of these kinds.
LEMMA TailFlows ==
  ASSUME NEW S, NEW pending \in Seq(S), pending # <<>>, NEW kinds, "NONE" \notin kinds,
         NEW v, NEW held, NEW past, Flows(v, kinds, pending, held, past)
  PROVE  Flows(v, kinds, Tail(pending),
               IF Head(pending).kind \in kinds THEN Head(pending).kind ELSE held, past)
<1> DEFINE t == Tail(pending)
           now == IF Head(pending).kind \in kinds THEN Head(pending).kind ELSE held
<1>1. /\ DOMAIN t = 1 .. Len(pending) - 1 /\ Head(pending) = pending[1]
      /\ \A i \in 1 .. Len(pending) - 1 : t[i] = pending[i + 1]
      /\ DOMAIN pending = 1 .. Len(pending) /\ Len(pending) \in Nat /\ Len(pending) > 0
  OBVIOUS
<1> HIDE DEF t
<1>2. ASSUME v \in kinds, NEW i \in DOMAIN pending, pending[i].kind = v,
             \A j \in DOMAIN pending : j > i => pending[j].kind \notin kinds
      PROVE  Flows(v, kinds, t, now, past)
  <2>1. CASE i = 1
    <3>1. now = v
      BY <1>1, <1>2, <2>1
    <3>2. \A j \in DOMAIN t : t[j].kind \notin kinds
      BY <1>1, <1>2, <2>1
    <3> HIDE DEF now
    <3> QED BY <1>2, <3>1, <3>2 DEF Flows
  <2>2. CASE i # 1
    <3>1. i - 1 \in DOMAIN t /\ t[i - 1].kind = v
      BY <1>1, <1>2, <2>2
    <3>2. \A j \in DOMAIN t : j > i - 1 => t[j].kind \notin kinds
      BY <1>1, <1>2
    <3> QED BY <1>2, <3>1, <3>2 DEF Flows
  <2> QED BY <2>1, <2>2
<1>3. ASSUME \A i \in DOMAIN pending : pending[i].kind \notin kinds,
             IF held = "NONE" THEN IsLatest(v, kinds, past) ELSE v = held
      PROVE  Flows(v, kinds, t, now, past)
  <2>1. now = held
    BY <1>1, <1>3
  <2>2. \A j \in DOMAIN t : t[j].kind \notin kinds
    BY <1>1, <1>3
  <2> HIDE DEF now
  <2> QED BY <1>3, <2>1, <2>2 DEF Flows
<1> QED BY <1>2, <1>3 DEF Flows, t

\* What is held is posted; an event of another kind may follow or come first.
LEMMA PostedFlows ==
  ASSUME NEW S, NEW past \in Seq(S), "NONE" \notin S,
         NEW first \in S \cup {"NONE"}, NEW second \in S \cup {"NONE"}, NEW pending,
         NEW kinds, "NONE" \notin kinds, NEW held, NEW v,
         \/ held = first /\ second \notin kinds
         \/ held = second /\ first \notin kinds,
         held \in kinds \cup {"NONE"},
         Flows(v, kinds, pending, held, past)
  PROVE  Flows(v, kinds, pending, "NONE", past \o Unless(first) \o Unless(second))
<1>1. ASSUME NEW s \in Seq(S), NEW e \in S \cup {"NONE"}, NEW u
      PROVE  /\ s \o Unless(e) \in Seq(S)
             /\ e \in kinds => IsLatest(e, kinds, s \o Unless(e))
             /\ e \notin kinds /\ IsLatest(u, kinds, s) => IsLatest(u, kinds, s \o Unless(e))
  <2>1. CASE e = "NONE"
    <3>1. s \o Unless(e) = s
      BY <2>1 DEF Unless
    <3> QED BY <2>1, <3>1
  <2>2. CASE e # "NONE"
    <3>1. e \in S /\ s \o Unless(e) = Append(s, e) /\ Append(s, e) \in Seq(S)
      BY <2>2 DEF Unless
    <3>2. /\ e \in kinds => IsLatest(e, kinds, Append(s, e))
          /\ e \notin kinds /\ IsLatest(u, kinds, s) => IsLatest(u, kinds, Append(s, e))
      BY <3>1, AppendLatest
    <3> QED BY <3>1, <3>2
  <2> QED BY <2>1, <2>2
<1> DEFINE one == past \o Unless(first)
           two == one \o Unless(second)
<1>2. /\ one \in Seq(S)
      /\ first \in kinds => IsLatest(first, kinds, one)
      /\ first \notin kinds /\ IsLatest(v, kinds, past) => IsLatest(v, kinds, one)
  BY <1>1
<1> HIDE DEF one
<1>3. /\ second \in kinds => IsLatest(second, kinds, two)
      /\ second \notin kinds /\ IsLatest(v, kinds, one) => IsLatest(v, kinds, two)
  BY <1>1, <1>2
<1> HIDE DEF two
<1>7. ASSUME IF held = "NONE" THEN IsLatest(v, kinds, past) ELSE v = held
      PROVE  IsLatest(v, kinds, two)
  BY <1>2, <1>3, <1>7
<1>8. Flows(v, kinds, pending, "NONE", two)
  BY <1>7 DEF Flows
<1> QED BY <1>8 DEF two, one

\* Two sequences with the same elements are the same.
LEMMA SameSequence ==
  ASSUME NEW S, NEW s \in Seq(S), NEW t \in Seq(S), Len(s) = Len(t),
         \A i \in 1 .. Len(s) : s[i] = t[i]
  PROVE  s = t
OBVIOUS

\* A response that arrives comes after what is pending.
LEMMA PendingArrives ==
  ASSUME NEW S, NEW s \in Seq(S), NEW t \in Seq(S), NEW r \in S
  PROVE  s \o Append(t, r) = Append(s \o t, r)
<1> DEFINE a == s \o Append(t, r)
           b == Append(s \o t, r)
<1>1. s \o t \in Seq(S) /\ Append(t, r) \in Seq(S)
  OBVIOUS
<1>2. a \in Seq(S) /\ b \in Seq(S) /\ Len(a) = Len(b)
  BY <1>1
<1>3. \A i \in 1 .. Len(a) : a[i] = b[i]
  BY <1>1
<1> HIDE DEF a, b
<1>4. a = b
  BY <1>2, <1>3, SameSequence
<1> QED BY <1>4 DEF a, b

\* A response that is handled is the first of what is pending.
LEMMA PendingHandled ==
  ASSUME NEW S, NEW s \in Seq(S), NEW t \in Seq(S), s # <<>>
  PROVE  /\ s \o t \in Seq(S) /\ s \o t # <<>> /\ Head(s \o t) = Head(s)
         /\ Tail(s) \o t = Tail(s \o t)
<1> DEFINE a == Tail(s) \o t
           b == Tail(s \o t)
<1>1. s \o t \in Seq(S) /\ s \o t # <<>> /\ Head(s \o t) = Head(s)
  OBVIOUS
<1>2. a \in Seq(S) /\ b \in Seq(S) /\ Len(a) = Len(b)
  BY <1>1
<1>3. \A i \in 1 .. Len(a) : a[i] = b[i]
  BY <1>1
<1> HIDE DEF a, b
<1>4. a = b
  BY <1>2, <1>3, SameSequence
<1> QED BY <1>1, <1>4 DEF a, b

\* A read divides what is pending.
LEMMA PendingRead ==
  ASSUME NEW S, NEW t \in Seq(S), NEW n \in 1 .. Len(t)
  PROVE  SubSeq(t, 1, n) \o SubSeq(t, n + 1, Len(t)) = t
<1> DEFINE x == SubSeq(t, 1, n)
           y == SubSeq(t, n + 1, Len(t))
<1>1. /\ x \in Seq(S) /\ Len(x) = n /\ \A i \in 1 .. n : x[i] = t[i]
      /\ y \in Seq(S) /\ Len(y) = Len(t) - n /\ \A i \in 1 .. Len(t) - n : y[i] = t[n + i]
  OBVIOUS
<1> HIDE DEF x, y
<1>2. x \o y \in Seq(S) /\ Len(x \o y) = Len(t)
  <2>1. x \o y \in Seq(S) /\ Len(x \o y) = Len(x) + Len(y)
    <3>1. \A u, v \in Seq(S) : u \o v \in Seq(S) /\ Len(u \o v) = Len(u) + Len(v)
      BY ONLY TRUE
    <3> QED BY ONLY <1>1, <3>1, Zenon
  <2>2. n \in Nat /\ Len(t) \in Nat
    OBVIOUS
  <2>3. n + (Len(t) - n) = Len(t)
    BY ONLY <2>2
  <2> QED BY ONLY <1>1, <2>1, <2>3
<1>3. ASSUME NEW i \in 1 .. Len(x \o y) PROVE (x \o y)[i] = t[i]
  <2>1. CASE i <= n
    BY <1>1, <1>2, <2>1
  <2>2. CASE i > n
    <3>1. (x \o y)[i] = y[i - n] /\ i - n \in 1 .. Len(t) - n
      BY <1>1, <1>2, <2>2
    <3>2. y[i - n] = t[n + (i - n)] /\ n + (i - n) = i
      BY <1>1, <3>1
    <3> QED BY <3>1, <3>2
  <2> QED BY <2>1, <2>2
<1>4. x \o y = t
  BY <1>2, <1>3, SameSequence
<1> QED BY <1>4 DEF x, y

\* A new client has nothing to tell.
LEMMA LatestInit == Init => LatestInv
<1> SUFFICES ASSUME Init PROVE LatestInv
  OBVIOUS
<1>1. TypeOK
  BY AckInit DEF AckInv
<1>2. Between
  BY DEF Init, Between, Dead
<1>3. /\ announced = <<>> /\ posted = <<>> /\ Pending = <<>>
      /\ reader.status = "NONE" /\ reader.notification = "NONE"
  BY DEF Init, Dead, Pending
<1>4. ASSUME NEW kinds, "NONE" \notin kinds
      PROVE  IsLatest("NONE", kinds, <<>>) /\ Flows("NONE", kinds, <<>>, "NONE", <<>>)
  BY DEF IsLatest, Flows
<1> QED
  BY <1>1, <1>2, <1>3, <1>4 DEF LatestInv, EventInv, Statuses, Notifications

\* A step that leaves what is announced, pending, held and posted as it is.
LEMMA LatestAside ==
  ASSUME LatestInv, TypeOK', Between', Pending' = Pending,
         UNCHANGED <<announced, posted>>,
         reader'.status = reader.status, reader'.notification = reader.notification
  PROVE  LatestInv'
BY DEF LatestInv, EventInv

\* The steps of the caller leave the events alone, but for a new connection.
LEMMA LatestCaller ==
  ASSUME LatestInv, CallerBegins \/ CallerContinues
  PROVE  LatestInv'
<1>1. TypeOK'
  BY TypeCaller DEF LatestInv
<1>2. CASE Start
  <2>1. /\ announced' = <<>> /\ posted' = <<>> /\ reader' = [Dead EXCEPT !.at = "start"]
        /\ toClient' = <<>>
    BY <1>2 DEF Start
  <2>2. /\ Pending' = <<>> /\ Between'
        /\ reader'.status = "NONE" /\ reader'.notification = "NONE"
    BY <2>1 DEF Pending, Between, Dead
  <2>3. ASSUME NEW kinds, "NONE" \notin kinds
        PROVE  IsLatest("NONE", kinds, <<>>) /\ Flows("NONE", kinds, <<>>, "NONE", <<>>)
    BY DEF IsLatest, Flows
  <2> QED
    BY <1>1, <2>1, <2>2, <2>3 DEF LatestInv, EventInv, Statuses, Notifications
<1>3. CASE ~Start
  <2>1. UNCHANGED <<reader, toClient, announced, posted>>
    BY <1>3 DEF CallerBegins, CallerContinues, StartFails, RequestModem, Stop,
         WaitForStatus, SendRequest, WaitForAck, AwaitAck, AckAwaited, AckTimeout,
         AckResult, StatusAwaited, StatusTimeout, StopCloses, StopJoins
  <2>2. Between' /\ Pending' = Pending
    BY <2>1 DEF LatestInv, Between, Pending
  <2> QED BY <1>1, <2>1, <2>2, LatestAside
<1> QED BY <1>2, <1>3

\* The steps of the service: what it announces is pending.
LEMMA LatestService ==
  ASSUME LatestInv, ServiceRuns
  PROVE  LatestInv'
<1>1. TypeOK /\ TypeOK'
  BY TypeService DEF LatestInv
<1>2. UNCHANGED <<reader, posted>> /\ Between'
  BY DEF ServiceRuns, Answer, Announce, HangUp, LatestInv, Between
<1> DEFINE S == [kind : Answers \cup Events, of : Nat]
<1>3. Pending \in Seq(S) /\ reader.batch \in Seq(S) /\ toClient \in Seq(S)
  <2>1. Responses \subseteq S
    BY <1>1 DEF Responses, TypeOK
  <2>2. reader.batch \in Seq(Responses) /\ toClient \in Seq(Responses)
    BY <1>1 DEF TypeOK, ReaderStates
  <2> HIDE DEF S
  <2> QED BY <2>1, <2>2 DEF Pending
<1>4. ASSUME NEW r \in S, toClient' = Append(toClient, r)
      PROVE  Pending' = Append(Pending, r)
  <2> HIDE DEF S
  <2>1. reader.batch \o Append(toClient, r) = Append(reader.batch \o toClient, r)
    <3>1. \A s, t \in Seq(S) : s \o Append(t, r) = Append(s \o t, r)
      BY PendingArrives
    <3> QED BY ONLY <1>3, <3>1, Zenon
  <2> QED BY <1>2, <1>4, <2>1 DEF Pending
<1>5. ASSUME NEW kind \in Answers, Answer(kind) PROVE LatestInv'
  <2> DEFINE r == [kind |-> kind, of |-> Head(toService)]
  <2>1. r \in S /\ r.kind = kind /\ toClient' = Append(toClient, r) /\ UNCHANGED announced
    <3>1. Head(toService) \in Nat
      BY <1>1, <1>5 DEF Answer, TypeOK
    <3> QED BY <1>5, <3>1 DEF Answer
  <2> HIDE DEF r, S
  <2>2. Pending' = Append(Pending, r)
    BY <1>4, <2>1
  <2>3. kind \notin Statuses /\ kind \notin Notifications
    BY DEF Answers, Statuses, Notifications
  <2>4. \A v, kinds, held : kind \notin kinds /\ Flows(v, kinds, Pending, held, posted)
                              => Flows(v, kinds, Pending', held, posted)
    BY <1>3, <2>1, <2>2, AppendFlows
  <2> QED BY <1>1, <1>2, <2>1, <2>3, <2>4 DEF LatestInv, EventInv
<1>6. ASSUME NEW event \in Events, Announce(event) PROVE LatestInv'
  <2> DEFINE r == [kind |-> event, of |-> 0]
  <2>1. /\ r \in S /\ r.kind = event /\ toClient' = Append(toClient, r)
        /\ announced' = Append(announced, event) /\ announced \in Seq(Events)
    BY <1>1, <1>6 DEF Announce, TypeOK
  <2> HIDE DEF r, S
  <2>2. Pending' = Append(Pending, r)
    BY <1>4, <2>1
  <2>3. ASSUME NEW kinds, "NONE" \notin kinds, NEW held, EventInv(kinds, held)
        PROVE  \E v \in kinds \cup {"NONE"} :
                 IsLatest(v, kinds, announced') /\ Flows(v, kinds, Pending', held, posted)
    <3>1. CASE event \in kinds
      <4>1. IsLatest(event, kinds, announced')
        BY <2>1, <2>3, <3>1, AppendLatest
      <4>2. Flows(event, kinds, Pending', held, posted)
        BY <1>3, <2>1, <2>2, <3>1, AppendFlows
      <4> QED BY <3>1, <4>1, <4>2
    <3>2. CASE event \notin kinds
      <4>1. PICK v \in kinds \cup {"NONE"} :
              IsLatest(v, kinds, announced) /\ Flows(v, kinds, Pending, held, posted)
        BY <2>3 DEF EventInv
      <4>2. IsLatest(v, kinds, announced')
        BY <2>1, <2>3, <3>2, <4>1, AppendLatest
      <4>3. Flows(v, kinds, Pending', held, posted)
        BY <1>3, <2>1, <2>2, <3>2, <4>1, AppendFlows
      <4> QED BY <4>2, <4>3
    <3> QED BY <3>1, <3>2
  <2>4. "NONE" \notin Statuses /\ "NONE" \notin Notifications
    BY DEF Statuses, Notifications
  <2> QED BY <1>1, <1>2, <2>3, <2>4 DEF LatestInv, EventInv
<1>7. CASE HangUp
  BY <1>1, <1>2, <1>7, LatestAside DEF HangUp, Pending
<1> QED BY <1>5, <1>6, <1>7 DEF ServiceRuns

\* The steps of the reader: what it takes from the pending responses it holds,
\* and what it holds it posts.
LEMMA LatestReader ==
  ASSUME LatestInv, ReaderRuns
  PROVE  LatestInv'
<1>1. TypeOK /\ TypeOK' /\ Between
  BY TypeReader DEF LatestInv
<1>2. reader \in ReaderStates /\ reader.batch \in Seq(Responses) /\ toClient \in Seq(Responses)
  BY <1>1 DEF TypeOK, ReaderStates
<1>3. "NONE" \notin Statuses /\ "NONE" \notin Notifications /\ Statuses \cap Notifications = {}
  BY DEF Statuses, Notifications
<1>4. CASE ReaderStarts \/ ReadEnds \/ ReadFails \/ ReaderCloses
  <2>1. UNCHANGED <<toClient, announced, posted>>
    BY <1>4 DEF ReaderStarts, ReadEnds, ReadFails, ReaderCloses, Crash
  <2>2. /\ reader'.batch = <<>> /\ reader.batch = <<>> /\ Between'
        /\ reader'.status = reader.status /\ reader'.notification = reader.notification
    BY <1>1, <1>2, <1>4 DEF ReaderStarts, ReadEnds, ReadFails, ReaderCloses, Crash, Dead, Between, ReaderStates
  <2> QED BY <1>1, <2>1, <2>2, LatestAside DEF Pending
<1>5. CASE ReadResponses
  <2>1. PICK n \in 1 .. Len(toClient) :
          /\ reader' = [Dead EXCEPT !.at = "handle", !.batch = SubSeq(toClient, 1, n)]
          /\ toClient' = SubSeq(toClient, n + 1, Len(toClient))
    BY <1>5 DEF ReadResponses
  <2>2. reader.batch = <<>> /\ reader.status = "NONE" /\ reader.notification = "NONE"
    BY <1>1, <1>5 DEF ReadResponses, Between
  <2>3. /\ reader'.batch = SubSeq(toClient, 1, n) /\ Between'
        /\ reader'.status = "NONE" /\ reader'.notification = "NONE"
    BY <2>1 DEF Dead, Between
  <2>4. Pending = toClient
    BY <1>2, <2>2 DEF Pending
  <2>5. Pending' = toClient
    BY <1>2, <2>1, <2>3, PendingRead DEF Pending
  <2> QED BY <1>1, <1>5, <2>2, <2>3, <2>4, <2>5, LatestAside DEF ReadResponses
<1>6. CASE HandleAnswer \/ HandleEvent
  <2> DEFINE kind == Head(reader.batch).kind
  <2>1. /\ reader.at = "handle" /\ reader.batch # <<>> /\ reader' = Noted(kind)
        /\ UNCHANGED <<toClient, announced, posted>>
    BY <1>6 DEF HandleAnswer, HandleEvent
  <2>2. /\ reader'.at = "handle" /\ reader'.batch = Tail(reader.batch)
        /\ reader'.status = IF kind \in Statuses THEN kind ELSE reader.status
        /\ reader'.notification = IF kind \in Notifications THEN kind ELSE reader.notification
    BY <1>2, <2>1 DEF Noted, ReaderStates
  <2>3. Between'
    BY <2>2 DEF Between
  <2>4. /\ Pending \in Seq(Responses) /\ Pending # <<>> /\ Head(Pending).kind = kind
        /\ Pending' = Tail(Pending)
    <3>1. Head(reader.batch) \in Responses
      BY <1>2, <2>1
    <3> DEFINE b == reader.batch
    <3>2. /\ b \o toClient \in Seq(Responses) /\ b \o toClient # <<>>
          /\ Head(b \o toClient) = Head(b) /\ Tail(b) \o toClient = Tail(b \o toClient)
      BY ONLY <1>2, <2>1, PendingHandled, Zenon
    <3> QED BY <2>1, <2>2, <3>2 DEF Pending
  <2> HIDE DEF kind
  <2>5. ASSUME NEW kinds, "NONE" \notin kinds, NEW held, NEW v, Flows(v, kinds, Pending, held, posted)
        PROVE  Flows(v, kinds, Pending', IF kind \in kinds THEN kind ELSE held, posted)
    BY <2>4, <2>5, TailFlows
  <2>6. EventInv(Statuses, reader.status)'
    BY <1>3, <2>1, <2>2, <2>5 DEF LatestInv, EventInv
  <2>7. EventInv(Notifications, reader.notification)'
    BY <1>3, <2>1, <2>2, <2>5 DEF LatestInv, EventInv
  <2> QED BY <1>1, <2>3, <2>6, <2>7 DEF LatestInv
<1>7. CASE PublishStatus \/ SignalStatus
  <2>1. /\ UNCHANGED <<toClient, announced, posted>> /\ reader'.batch = reader.batch
        /\ reader'.status = reader.status /\ reader'.notification = reader.notification
    BY <1>2, <1>7 DEF PublishStatus, WriteStatus, CompareStatus, SignalStatus, ReaderStates
  <2>2. Between'
    BY <1>1, <1>2, <1>7 DEF PublishStatus, WriteStatus, CompareStatus, SignalStatus, ReaderStates, Between
  <2> QED BY <1>1, <2>1, <2>2, LatestAside DEF Pending
<1>8. CASE PostEvents
  <2>1. /\ reader.batch = <<>> /\ reader'.batch = <<>> /\ UNCHANGED <<toClient, announced>>
        /\ reader'.status = "NONE" /\ reader'.notification = "NONE" /\ Between'
        /\ posted' = posted \o Unless(reader.status) \o Unless(reader.notification)
    BY <1>1, <1>8 DEF PostEvents, Dead, Between
  <2>2. Pending' = Pending
    BY <2>1 DEF Pending
  <2>3. /\ reader.status \in Statuses \cup {"NONE"}
        /\ reader.notification \in Notifications \cup {"NONE"}
    BY <1>2 DEF ReaderStates
  <2> DEFINE S == Statuses \cup Notifications
  <2>4. posted \in Seq(S) /\ "NONE" \notin S
    BY <1>1, <1>3 DEF TypeOK
  <2>5. reader.status \in S \cup {"NONE"} /\ reader.notification \in S \cup {"NONE"}
    BY <2>3
  <2> HIDE DEF S
  <2>6. ASSUME NEW v, Flows(v, Statuses, Pending, reader.status, posted)
        PROVE  Flows(v, Statuses, Pending, "NONE", posted')
    <3>1. reader.notification \notin Statuses
      BY <1>3, <2>3
    <3> QED BY <1>3, <2>1, <2>3, <2>4, <2>5, <2>6, <3>1, PostedFlows
  <2>7. ASSUME NEW v, Flows(v, Notifications, Pending, reader.notification, posted)
        PROVE  Flows(v, Notifications, Pending, "NONE", posted')
    <3>1. reader.status \notin Notifications
      BY <1>3, <2>3
    <3> QED BY <1>3, <2>1, <2>3, <2>4, <2>5, <2>7, <3>1, PostedFlows
  <2>8. EventInv(Statuses, reader.status)' /\ EventInv(Notifications, reader.notification)'
    BY <2>1, <2>2, <2>6, <2>7 DEF LatestInv, EventInv
  <2> QED BY <1>1, <2>1, <2>8 DEF LatestInv
<1> QED BY <1>4, <1>5, <1>6, <1>7, <1>8 DEF ReaderRuns

\* Whatever the service announces on a connection, the handler has been posted
\* the last status and the last notification once everything is handled.
THEOREM LastEventsReachTheHandler == Spec => []LatestEventsArePosted
<1>1. LatestInv /\ [Next]_vars => LatestInv'
  <2>1. ASSUME LatestInv, UNCHANGED vars PROVE LatestInv'
    <3>1. TypeOK'
      BY <2>1 DEF vars, LatestInv, TypeOK, ReaderStates, Responses
    <3>2. Between' /\ Pending' = Pending
      BY <2>1 DEF vars, LatestInv, Between, Pending
    <3> QED BY <2>1, <3>1, <3>2, LatestAside DEF vars
  <2> QED BY <2>1, LatestCaller, LatestReader, LatestService DEF Next
<1>2. LatestInv => LatestEventsArePosted
  <2> SUFFICES ASSUME LatestInv, reader.at = "read", toClient = <<>>
               PROVE  \A kinds \in {Statuses, Notifications} :
                        \E event \in kinds \cup {"NONE"} :
                          IsLatest(event, kinds, posted) /\ IsLatest(event, kinds, announced)
    BY DEF LatestEventsArePosted
  <2>1. Pending = <<>> /\ reader.status = "NONE" /\ reader.notification = "NONE"
    BY DEF LatestInv, Between, Pending
  <2>2. \A v, kinds : Flows(v, kinds, <<>>, "NONE", posted) => IsLatest(v, kinds, posted)
    BY DEF Flows
  <2> QED BY <2>1, <2>2 DEF LatestInv, EventInv
<1> QED BY <1>1, <1>2, LatestInit, PTL DEF Spec
=============================================================================
