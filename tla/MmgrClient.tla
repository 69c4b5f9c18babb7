----------------------------- MODULE MmgrClient -----------------------------
(***************************************************************************)
(* The modem manager client (MmgrClient/.../mmgr/MedfieldMmgrClient.java): *)
(* a caller thread that starts and stops the client, sends requests and    *)
(* waits for their answers, a reader thread that handles what the service  *)
(* sends, and the service at the other end of the socket.  The caller is   *)
(* one thread: the Async operations of ModemStatusManager run one at a     *)
(* time.  What the two threads share without a lock is read and written in *)
(* steps of its own; what they do under ackLock or statusLock is one step. *)
(***************************************************************************)
EXTENDS Naturals, Sequences

CONSTANTS
  MaxRequests,  \* bound on the requests sent
  MaxEvents,    \* bound on the events the service sends on one connection
  Events        \* the statuses and notifications the service sends

Statuses == {"UP", "DOWN", "DEAD"}

Notifications == {"COLD_RESET", "SHUTDOWN", "PLATFORM_REBOOT", "CORE_DUMP"}

Answers == {"ACK", "NACK"}

ASSUME MmgrAssumption ==
  /\ MaxRequests \in Nat
  /\ MaxEvents \in Nat
  /\ Events \subseteq Statuses \cup Notifications

VARIABLES
  caller,         \* the caller's program counter and operation
  reader,         \* the reader thread and its local variables
  crashed,        \* an uncaught exception of the reader ended the process
  clientSocket,   \* is the field set?
  link,           \* is the connection behind it up?
  stopRequested, ackSignaled, nackSignaled, currentStatus, waitedStatus,
  toService,      \* requests on their way, by number
  toClient,       \* responses on their way
  sent,           \* the number of requests sent so far
  acked,          \* history: the requests the service acknowledged
  handled,        \* history: the ones whose ACK the reader handled
  reported,       \* history: the requests reported as successful
  announced,      \* history: the events sent on this connection
  posted,         \* history: the events posted to the handler since it began
  received,       \* history: the statuses the reader ever read
  confirmed       \* history: the statuses waitForStatus answered true for

socketVars == <<clientSocket, link>>
ackVars == <<ackSignaled, nackSignaled>>
statusVars == <<currentStatus, waitedStatus>>
streamVars == <<toService, toClient>>
requestHistory == <<acked, handled, reported>>
eventHistory == <<announced, posted, received, confirmed>>
vars == <<caller, reader, crashed, socketVars, stopRequested, ackVars,
          statusVars, streamVars, sent, requestHistory, eventHistory>>

Idle == [op |-> "none", at |-> "idle"]

Dead == [at |-> "dead", batch |-> <<>>, status |-> "NONE",
         notification |-> "NONE", match |-> FALSE]

-----------------------------------------------------------------------------
(***************************************************************************)
(* The caller.                                                             *)
(***************************************************************************)

CleanUp == clientSocket' = FALSE /\ link' = FALSE

\* start, up to the first request.  A thread that is still alive makes it
\* return at once.
Start ==
  /\ caller = Idle /\ reader.at = "dead"
  /\ sent + 2 <= MaxRequests
  /\ stopRequested' = FALSE
  /\ clientSocket' = TRUE /\ link' = TRUE
  /\ toService' = <<>> /\ toClient' = <<>>
  /\ reader' = [Dead EXCEPT !.at = "start"]
  /\ caller' = [op |-> "name", at |-> "send"]
  /\ announced' = <<>> /\ posted' = <<>>
  /\ UNCHANGED <<crashed, ackVars, statusVars, sent, requestHistory, received,
                 confirmed>>

\* start, when connect fails: no thread runs, so nothing races with cleanUp.
StartFails ==
  /\ caller = Idle /\ reader.at = "dead"
  /\ stopRequested' = FALSE
  /\ CleanUp
  /\ UNCHANGED <<caller, reader, crashed, ackVars, statusVars, streamVars,
                 sent, requestHistory, eventHistory>>

\* useModem, releaseModem, restartModem, recoverModem and shutdownModem.
RequestModem ==
  /\ caller = Idle
  /\ sent < MaxRequests
  /\ caller' = [op |-> "modem", at |-> "send"]
  /\ UNCHANGED <<reader, crashed, socketVars, stopRequested, ackVars,
                 statusVars, streamVars, sent, requestHistory, eventHistory>>

\* sendRequest.  Its exception leaves the operation, start included, which
\* then stops nothing.
SendRequest ==
  /\ caller.at = "send"
  /\ IF clientSocket /\ link
       THEN /\ sent' = sent + 1
            /\ toService' = Append(toService, sent')
            /\ caller' = [caller EXCEPT !.at = "wait"]
       ELSE /\ caller' = Idle
            /\ UNCHANGED <<sent, toService>>
  /\ UNCHANGED <<reader, crashed, socketVars, stopRequested, ackVars,
                 statusVars, toClient, requestHistory, eventHistory>>

\* What the operation does with waitForAck's answer: start registers the name,
\* then the events, and stops the client if either fails.
AckResult(ok) ==
  /\ caller' = IF caller.op = "modem" THEN Idle
               ELSE IF ~ok THEN [caller EXCEPT !.at = "stop"]
               ELSE IF caller.op = "name" THEN [op |-> "events", at |-> "send"]
               ELSE Idle
  /\ reported' = IF ok THEN reported \cup {sent} ELSE reported
  /\ UNCHANGED <<reader, crashed, socketVars, stopRequested, statusVars,
                 streamVars, sent, acked, handled, eventHistory>>

\* An ACK that came first is consumed; a NACK that came first is not seen.
WaitForAck ==
  /\ caller.at = "wait"
  /\ ackSignaled
  /\ ackSignaled' = FALSE /\ nackSignaled' = FALSE
  /\ AckResult(~nackSignaled)

AwaitAck ==
  /\ caller.at = "wait"
  /\ ~ackSignaled
  /\ caller' = [caller EXCEPT !.at = "sleep"]
  /\ UNCHANGED <<reader, crashed, socketVars, stopRequested, ackVars,
                 statusVars, streamVars, sent, requestHistory, eventHistory>>

\* await was signalled: the flags stay as they are.
AckAwaited ==
  /\ caller.at = "woken"
  /\ AckResult(~nackSignaled)
  /\ UNCHANGED ackVars

AckTimeout ==
  /\ caller.at = "sleep"
  /\ AckResult(FALSE)
  /\ UNCHANGED ackVars

WaitForStatus(status) ==
  /\ caller = Idle
  /\ waitedStatus' = status
  /\ IF status = currentStatus
       THEN confirmed' = confirmed \cup {status} /\ UNCHANGED caller
       ELSE caller' = [op |-> "status", at |-> "sleep_status"]
            /\ UNCHANGED confirmed
  /\ UNCHANGED <<reader, crashed, socketVars, stopRequested, ackVars,
                 currentStatus, streamVars, sent, requestHistory, announced,
                 posted, received>>

StatusAwaited ==
  /\ caller.at = "woken_status"
  /\ confirmed' = confirmed \cup {waitedStatus}
  /\ caller' = Idle
  /\ UNCHANGED <<reader, crashed, socketVars, stopRequested, ackVars,
                 statusVars, streamVars, sent, requestHistory, announced,
                 posted, received>>

StatusTimeout ==
  /\ caller.at = "sleep_status"
  /\ caller' = Idle
  /\ UNCHANGED <<reader, crashed, socketVars, stopRequested, ackVars,
                 statusVars, streamVars, sent, requestHistory, eventHistory>>

\* stop, called by the application or by a start that failed: the request and
\* cleanUp's test of the field.
Stop ==
  /\ caller.at \in {"idle", "stop"}
  /\ stopRequested' = TRUE
  /\ caller' = [caller EXCEPT !.at = IF clientSocket THEN "close" ELSE "join"]
  /\ UNCHANGED <<reader, crashed, socketVars, ackVars, statusVars, streamVars,
                 sent, requestHistory, eventHistory>>

\* The rest of cleanUp.  If the reader cleared the field meanwhile, the null
\* pointer exception leaves stop.
StopCloses ==
  /\ caller.at = "close"
  /\ IF clientSocket
       THEN CleanUp /\ caller' = [caller EXCEPT !.at = "join"]
       ELSE caller' = Idle /\ UNCHANGED socketVars
  /\ UNCHANGED <<reader, crashed, stopRequested, ackVars, statusVars,
                 streamVars, sent, requestHistory, eventHistory>>

StopJoins ==
  /\ caller.at = "join"
  /\ reader.at = "dead"
  /\ caller' = Idle
  /\ UNCHANGED <<reader, crashed, socketVars, stopRequested, ackVars,
                 statusVars, streamVars, sent, requestHistory, eventHistory>>

-----------------------------------------------------------------------------
(***************************************************************************)
(* The reader.                                                             *)
(***************************************************************************)

\* An uncaught null pointer exception: Android ends the process.
Crash ==
  /\ crashed' = TRUE
  /\ reader' = Dead
  /\ UNCHANGED socketVars

\* run, up to the loop.
ReaderStarts ==
  /\ reader.at = "start"
  /\ IF clientSocket
       THEN /\ reader' = [reader EXCEPT !.at = "read"]
            /\ UNCHANGED <<crashed, socketVars>>
       ELSE Crash
  /\ UNCHANGED <<caller, stopRequested, ackVars, statusVars, streamVars, sent,
                 requestHistory, eventHistory>>

\* One read returns any number of the responses that have arrived.
ReadResponses ==
  /\ reader.at = "read"
  /\ \E n \in 1 .. Len(toClient) :
       /\ reader' = [Dead EXCEPT !.at = "handle",
                                 !.batch = SubSeq(toClient, 1, n)]
       /\ toClient' = SubSeq(toClient, n + 1, Len(toClient))
  /\ UNCHANGED <<caller, crashed, socketVars, stopRequested, ackVars,
                 statusVars, toService, sent, requestHistory, eventHistory>>

\* read returns no bytes: the thread ends and leaves the socket as it is.
ReadEnds ==
  /\ reader.at = "read"
  /\ ~link /\ toClient = <<>>
  /\ reader' = Dead
  /\ UNCHANGED <<caller, crashed, socketVars, stopRequested, ackVars,
                 statusVars, streamVars, sent, requestHistory, eventHistory>>

\* read throws: an error is posted (the manager ignores it), then cleanUp.
ReadFails ==
  /\ reader.at = "read"
  /\ ~link
  /\ reader' = [reader EXCEPT !.at = IF clientSocket THEN "close" ELSE "dead"]
  /\ UNCHANGED <<caller, crashed, socketVars, stopRequested, ackVars,
                 statusVars, streamVars, sent, requestHistory, eventHistory>>

ReaderCloses ==
  /\ reader.at = "close"
  /\ IF clientSocket
       THEN CleanUp /\ reader' = Dead /\ UNCHANGED crashed
       ELSE Crash
  /\ UNCHANGED <<caller, stopRequested, ackVars, statusVars, streamVars, sent,
                 requestHistory, eventHistory>>

\* Mutant: the ACK is signalled and not remembered.
SignalAck_unlatched == UNCHANGED ackSignaled /\ nackSignaled' = FALSE

\* signalAck and signalNack set their flags and wake the caller if it waits.
SignalAck == ackSignaled' = TRUE /\ nackSignaled' = FALSE

SignalNack == UNCHANGED ackSignaled /\ nackSignaled' = TRUE

Woken == IF caller.at = "sleep" THEN [caller EXCEPT !.at = "woken"] ELSE caller

\* Mutant: the first event of a kind is kept instead of the last.
Noted_first(kind) ==
  [reader EXCEPT
     !.batch = Tail(@),
     !.status = IF kind \in Statuses /\ @ = "NONE" THEN kind ELSE @,
     !.notification = IF kind \in Notifications THEN kind ELSE @]

\* The local variables after one turn of handleResponse's loop.
Noted(kind) ==
  [reader EXCEPT
     !.batch = Tail(@),
     !.status = IF kind \in Statuses THEN kind ELSE @,
     !.notification = IF kind \in Notifications THEN kind ELSE @]

HandleAnswer ==
  /\ reader.at = "handle" /\ reader.batch # <<>>
  /\ LET response == Head(reader.batch)
     IN  /\ response.kind \in Answers
         /\ IF response.kind = "ACK"
              THEN SignalAck /\ handled' = handled \cup {response.of}
              ELSE SignalNack /\ UNCHANGED handled
         /\ reader' = Noted(response.kind)
  /\ caller' = Woken
  /\ UNCHANGED <<crashed, socketVars, stopRequested, statusVars, streamVars,
                 sent, acked, reported, eventHistory>>

HandleEvent ==
  /\ reader.at = "handle" /\ reader.batch # <<>>
  /\ LET kind == Head(reader.batch).kind
     IN  /\ kind \notin Answers
         /\ reader' = Noted(kind)
         /\ received' = received \cup ({kind} \cap Statuses)
  /\ UNCHANGED <<caller, crashed, socketVars, stopRequested, ackVars,
                 statusVars, streamVars, sent, requestHistory, announced,
                 posted, confirmed>>

\* The end of handleResponse sets currentStatus and compares with waitedStatus.
\* Neither field is volatile or locked here, so the write may become visible
\* only after the read; from and to say where the reader is and goes.
WriteStatus(from, to) ==
  /\ reader.at = from /\ reader.batch = <<>>
  /\ currentStatus' = reader.status
  /\ reader' = [reader EXCEPT !.at = to]
  /\ UNCHANGED <<caller, crashed, socketVars, stopRequested, ackVars,
                 waitedStatus, streamVars, sent, requestHistory, eventHistory>>

CompareStatus(from, to) ==
  /\ reader.at = from /\ reader.batch = <<>>
  /\ reader' = [reader EXCEPT !.at = to,
                              !.match = reader.status = waitedStatus]
  /\ UNCHANGED <<caller, crashed, socketVars, stopRequested, ackVars,
                 statusVars, streamVars, sent, requestHistory, eventHistory>>

PublishStatus ==
  \/ WriteStatus("handle", "compare") \/ CompareStatus("compare", "post")
  \/ CompareStatus("handle", "write") \/ WriteStatus("write", "post")

\* signalStatus, when the comparison held.
SignalStatus ==
  /\ reader.at = "post" /\ reader.match
  /\ reader' = [reader EXCEPT !.match = FALSE]
  /\ caller' = IF caller.at = "sleep_status"
                 THEN [caller EXCEPT !.at = "woken_status"]
                 ELSE caller
  /\ UNCHANGED <<crashed, socketVars, stopRequested, ackVars, statusVars,
                 streamVars, sent, requestHistory, eventHistory>>

Unless(kind) == IF kind = "NONE" THEN <<>> ELSE <<kind>>

\* The messages to the handler, then the loop's test of stopRequested.
PostEvents ==
  /\ reader.at = "post" /\ ~reader.match
  /\ posted' = posted \o Unless(reader.status) \o Unless(reader.notification)
  /\ reader' = [Dead EXCEPT !.at = IF stopRequested THEN "dead" ELSE "read"]
  /\ UNCHANGED <<caller, crashed, socketVars, stopRequested, ackVars,
                 statusVars, streamVars, sent, requestHistory, announced,
                 received, confirmed>>

-----------------------------------------------------------------------------
(***************************************************************************)
(* The service: it answers the requests of a connection in order, sooner   *)
(* or later or never, announces events and may close the connection.       *)
(***************************************************************************)

Answer(kind) ==
  /\ link /\ toService # <<>>
  /\ toClient' = Append(toClient, [kind |-> kind, of |-> Head(toService)])
  /\ toService' = Tail(toService)
  /\ acked' = IF kind = "ACK" THEN acked \cup {Head(toService)} ELSE acked
  /\ UNCHANGED <<caller, reader, crashed, socketVars, stopRequested, ackVars,
                 statusVars, sent, handled, reported, eventHistory>>

Announce(event) ==
  /\ link /\ Len(announced) < MaxEvents
  /\ toClient' = Append(toClient, [kind |-> event, of |-> 0])
  /\ announced' = Append(announced, event)
  /\ UNCHANGED <<caller, reader, crashed, socketVars, stopRequested, ackVars,
                 statusVars, toService, sent, requestHistory, posted, received,
                 confirmed>>

HangUp ==
  /\ link
  /\ link' = FALSE
  /\ UNCHANGED <<caller, reader, crashed, clientSocket, stopRequested, ackVars,
                 statusVars, streamVars, sent, requestHistory, eventHistory>>

-----------------------------------------------------------------------------
Init ==
  /\ caller = Idle /\ reader = Dead /\ crashed = FALSE
  /\ clientSocket = FALSE /\ link = FALSE /\ stopRequested = FALSE
  /\ ackSignaled = FALSE /\ nackSignaled = FALSE
  /\ currentStatus = "NONE" /\ waitedStatus = "NONE"
  /\ toService = <<>> /\ toClient = <<>> /\ sent = 0
  /\ acked = {} /\ handled = {} /\ reported = {}
  /\ announced = <<>> /\ posted = <<>> /\ received = {} /\ confirmed = {}

\* The caller decides to begin an operation ...
CallerBegins ==
  \/ Start \/ StartFails \/ RequestModem \/ Stop
  \/ \E status \in Statuses \cap Events : WaitForStatus(status)

\* ... and then runs it to its end.
CallerContinues ==
  \/ SendRequest \/ WaitForAck \/ AwaitAck \/ AckAwaited \/ AckTimeout
  \/ StatusAwaited \/ StatusTimeout \/ StopCloses \/ StopJoins

ReaderRuns ==
  \/ ReaderStarts \/ ReadResponses \/ ReadEnds \/ ReadFails \/ ReaderCloses
  \/ HandleAnswer \/ HandleEvent \/ PublishStatus \/ SignalStatus \/ PostEvents

ServiceRuns ==
  \/ \E kind \in Answers : Answer(kind)
  \/ \E event \in Events : Announce(event)
  \/ HangUp

Next == ~crashed /\ (CallerBegins \/ CallerContinues \/ ReaderRuns \/ ServiceRuns)

Spec == Init /\ [][Next]_vars

\* The threads are scheduled and the timers expire; the service owes nothing.
OperationsFairness ==
  /\ WF_vars(~crashed /\ (CallerContinues \/ (caller.at = "stop" /\ Stop)))
  /\ WF_vars(~crashed /\ ReaderRuns)
FairSpec == Spec /\ OperationsFairness

-----------------------------------------------------------------------------
CallerStates ==
  [op : {"none", "name", "events", "modem", "status"},
   at : {"idle", "send", "wait", "sleep", "woken", "sleep_status",
         "woken_status", "stop", "close", "join"}]

Responses == [kind : Answers \cup Events, of : 0 .. sent]

ReaderStates ==
  [at : {"dead", "start", "read", "handle", "compare", "write", "post",
         "close"},
   batch : Seq(Responses), status : Statuses \cup {"NONE"},
   notification : Notifications \cup {"NONE"}, match : BOOLEAN]

\* The types of the state; in particular only real events are posted to the
\* handler by handleResponse.
TypeOK ==
  /\ caller \in CallerStates
  /\ reader \in ReaderStates
  /\ crashed \in BOOLEAN /\ clientSocket \in BOOLEAN /\ link \in BOOLEAN
  /\ stopRequested \in BOOLEAN
  /\ ackSignaled \in BOOLEAN /\ nackSignaled \in BOOLEAN
  /\ currentStatus \in Statuses \cup {"NONE"}
  /\ waitedStatus \in Statuses \cup {"NONE"}
  /\ sent \in Nat
  /\ toService \in Seq(1 .. sent)
  /\ toClient \in Seq(Responses)
  /\ acked \subseteq 1 .. sent /\ handled \subseteq 0 .. sent
  /\ reported \subseteq 0 .. sent
  /\ announced \in Seq(Events) /\ posted \in Seq(Statuses \cup Notifications)
  /\ received \subseteq Statuses
  /\ confirmed \subseteq Statuses \cup {"NONE"}

\* The caller never sleeps on an ACK that was handled already: one that arrives
\* between the request and waitForAck is caught by ackSignaled, one that
\* arrives later wakes the caller, on whichever connection, and whatever
\* late answers to earlier requests came in between.
NoSleepOnHandledAck == caller.at = "sleep" => sent \notin handled

\* The event is the last of some kinds among events, "NONE" if there is none.
IsLatest(event, kinds, events) ==
  \/ event = "NONE" /\ \A i \in DOMAIN events : events[i] \notin kinds
  \/ /\ event \in kinds
     /\ \E i \in DOMAIN events :
          /\ events[i] = event
          /\ \A j \in DOMAIN events : j > i => events[j] \notin kinds

\* However the responses are cut into reads, once the reader has handled all
\* of them the last status and the last notification of the connection have
\* been posted to the handler, after any earlier ones.
LatestEventsArePosted ==
  reader.at = "read" /\ toClient = <<>> =>
    \A kinds \in {Statuses, Notifications} :
      \E event \in kinds \cup {"NONE"} :
        IsLatest(event, kinds, posted) /\ IsLatest(event, kinds, announced)

\* Every operation returns to its caller, unless the process dies: a wait ends
\* by a signal or by its timeout, and the join in stop ends because cleanUp
\* has shut down the socket the reader reads from.
OperationsReturn == caller # Idle ~> (caller = Idle \/ crashed)

-----------------------------------------------------------------------------
(***************************************************************************)
(* What comments in the sources say, and the code does not keep.           *)
(***************************************************************************)

\* ModemStatusManager.java: a request fails "if the service returned an error
\* or if a communication error occurred"; a success means that the service
\* acknowledged the request.
SuccessMeansAck == reported \subseteq acked

\* ModemStatusManager.java, waitForModemStatus: "True if the status was
\* received".
TrueMeansReceived == confirmed \subseteq received

=============================================================================
