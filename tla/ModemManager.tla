---------------------------- MODULE ModemManager ----------------------------
(***************************************************************************)
(* ModemStatusManager: what an application sees of the modem service.  Its *)
(* looper's thread dispatches the events the monitor posts and answers the *)
(* notifications; an AsyncTask's operation runs on the one thread of the   *)
(* serial executor and its result is told on the looper again.  The field  *)
(* eventListener is shared by both without a lock.                         *)
(***************************************************************************)
EXTENDS Naturals, Sequences

CONSTANTS MaxMsmTasks, MaxMsmEvents, MaxMsmCalls

MsmAssumption == MaxMsmTasks \in Nat /\ MaxMsmEvents \in Nat /\ MaxMsmCalls \in Nat
ASSUME MsmAssumption

MsmStatuses == {"UP"}
MsmNotifications == {"COLD_RESET", "CORE_DUMP"}

VARIABLES
  msmListener,  \* eventListener: 0, or the number of the subscription
  msmQueue,     \* the looper's messages
  msmMain,      \* the dispatch in progress: [at, msg]
  msmTasks,     \* operations waiting for the executor
  msmBack,      \* the executor: [at, op, id]
  msmConn,      \* the monitor is connected
  msmAcks,      \* history: the notifications answered, [n, agreed]
  msmGiven,     \* history: the notifications given to a listener
  msmTold,      \* history: results told, by task
  msmOff,       \* history: disconnected, with no dispatch in progress
  msmCall,      \* history: the last step called a listener
  msmCrashed, msmUsed
msmVars == <<msmListener, msmQueue, msmMain, msmTasks, msmBack, msmConn, msmAcks,
             msmGiven, msmTold, msmOff, msmCall, msmCrashed, msmUsed>>

MsmIdle == [at |-> "idle", msg |-> [what |-> "none"]]
MsmFree == [at |-> "free", op |-> "none", id |-> 0]

MsmInit ==
  /\ msmListener = 0 /\ msmQueue = <<>> /\ msmMain = MsmIdle
  /\ msmTasks = <<>> /\ msmBack = MsmFree /\ msmConn = FALSE
  /\ msmAcks = <<>> /\ msmGiven = {} /\ msmTold = <<>>
  /\ msmOff = FALSE /\ msmCall = FALSE /\ msmCrashed = FALSE
  /\ msmUsed = [tasks |-> 0, events |-> 0, calls |-> 0]
-----------------------------------------------------------------------------
(* The application *)

\* subscribeToEvent sets the field first: on a connection it then throws, with
\* the listener set all the same.
MsmSubscribe ==
  /\ msmUsed.calls < MaxMsmCalls
  /\ msmUsed' = [msmUsed EXCEPT !.calls = @ + 1]
  /\ msmListener' = msmUsed'.calls
  /\ msmOff' = FALSE
  /\ UNCHANGED <<msmQueue, msmMain, msmTasks, msmBack, msmConn, msmAcks,
                 msmGiven, msmTold, msmCrashed>>

\* connect and disconnect made on the looper's own thread, between messages.
MsmSync(op) ==
  /\ msmUsed.calls < MaxMsmCalls /\ msmMain = MsmIdle
  /\ msmUsed' = [msmUsed EXCEPT !.calls = @ + 1]
  /\ msmConn' = (op = "connect")
  /\ msmListener' = IF op = "connect" THEN msmListener ELSE 0
  /\ msmOff' = (msmOff \/ op = "disconnect")
  /\ UNCHANGED <<msmQueue, msmMain, msmTasks, msmBack, msmAcks, msmGiven, msmTold,
                 msmCrashed>>

\* connectAsync, disconnectAsync, and the modem requests.
MsmAsync(op) ==
  /\ msmUsed.tasks < MaxMsmTasks
  /\ msmUsed' = [msmUsed EXCEPT !.tasks = @ + 1]
  /\ msmTasks' = Append(msmTasks, [op |-> op, id |-> msmUsed'.tasks])
  /\ UNCHANGED <<msmListener, msmQueue, msmMain, msmBack, msmConn, msmAcks,
                 msmGiven, msmTold, msmOff, msmCrashed>>
-----------------------------------------------------------------------------
(* The executor's thread *)

\* A faulty variant; no step uses it.
MsmBegin_connected ==
  /\ msmBack = MsmFree /\ msmTasks # <<>>
  /\ msmConn \/ Head(msmTasks).op = "connect"
  /\ msmBack' = [at |-> "run", op |-> Head(msmTasks).op, id |-> Head(msmTasks).id]
  /\ msmTasks' = Tail(msmTasks)
  /\ UNCHANGED <<msmListener, msmQueue, msmMain, msmConn, msmAcks, msmGiven,
                 msmTold, msmOff, msmCrashed, msmUsed>>

MsmBegin ==
  /\ msmBack = MsmFree /\ msmTasks # <<>>
  /\ msmBack' = [at |-> "run", op |-> Head(msmTasks).op, id |-> Head(msmTasks).id]
  /\ msmTasks' = Tail(msmTasks)
  /\ UNCHANGED <<msmListener, msmQueue, msmMain, msmConn, msmAcks, msmGiven,
                 msmTold, msmOff, msmCrashed, msmUsed>>

\* doInBackground: the monitor's operation, which may throw.
MsmRun ==
  /\ msmBack.at = "run"
  /\ \/ /\ msmBack.op = "connect" /\ ~msmConn
        /\ msmConn' = TRUE
     \/ /\ msmBack.op = "disconnect"
        /\ msmConn' = FALSE
     \/ UNCHANGED msmConn /\ msmBack.op # "disconnect"
  /\ msmBack' = [msmBack EXCEPT !.at = IF msmBack.op = "disconnect" THEN "finally" ELSE "post"]
  /\ UNCHANGED <<msmListener, msmQueue, msmMain, msmTasks, msmAcks, msmGiven,
                 msmTold, msmOff, msmCrashed, msmUsed>>

\* A faulty variant; no step uses it.
MsmFinally_kept ==
  /\ msmBack.at = "finally"
  /\ msmOff' = (msmMain = MsmIdle)
  /\ msmBack' = [msmBack EXCEPT !.at = "post"]
  /\ UNCHANGED <<msmListener, msmQueue, msmMain, msmTasks, msmConn, msmAcks, msmGiven,
                 msmTold, msmCrashed, msmUsed>>

\* disconnect, after the monitor stopped: the listener is forgotten.
MsmFinally ==
  /\ msmBack.at = "finally"
  /\ msmListener' = 0
  /\ msmOff' = (msmMain = MsmIdle)
  /\ msmBack' = [msmBack EXCEPT !.at = "post"]
  /\ UNCHANGED <<msmQueue, msmMain, msmTasks, msmConn, msmAcks, msmGiven,
                 msmTold, msmCrashed, msmUsed>>

\* A faulty variant; no step uses it.
MsmPost_front ==
  /\ msmBack.at = "post"
  /\ msmQueue' = <<[what |-> "result", id |-> msmBack.id]>> \o msmQueue
  /\ msmBack' = MsmFree
  /\ UNCHANGED <<msmListener, msmMain, msmTasks, msmConn, msmAcks, msmGiven,
                 msmTold, msmOff, msmCrashed, msmUsed>>

\* The result goes to the looper, thrown or not.
MsmPost ==
  /\ msmBack.at = "post"
  /\ msmQueue' = Append(msmQueue, [what |-> "result", id |-> msmBack.id])
  /\ msmBack' = MsmFree
  /\ UNCHANGED <<msmListener, msmMain, msmTasks, msmConn, msmAcks, msmGiven,
                 msmTold, msmOff, msmCrashed, msmUsed>>
-----------------------------------------------------------------------------
\* The monitor's reader posts what the service sent.
MsmEvent ==
  /\ msmConn /\ msmUsed.events < MaxMsmEvents
  /\ msmUsed' = [msmUsed EXCEPT !.events = @ + 1]
  /\ \E kind \in MsmStatuses \cup MsmNotifications :
       msmQueue' = Append(msmQueue, [what |-> "event", kind |-> kind, n |-> msmUsed'.events])
  /\ UNCHANGED <<msmListener, msmMain, msmTasks, msmBack, msmConn, msmAcks,
                 msmGiven, msmTold, msmOff, msmCrashed>>
-----------------------------------------------------------------------------
(* The looper's thread *)

\* handleMessage up to the first test of eventListener.
MsmHandle ==
  /\ msmMain = MsmIdle /\ msmQueue # <<>> /\ Head(msmQueue).what = "event"
  /\ msmQueue' = Tail(msmQueue)
  /\ msmMain' = IF msmListener = 0 THEN MsmIdle ELSE [at |-> "lock", msg |-> Head(msmQueue)]
  /\ UNCHANGED <<msmListener, msmTasks, msmBack, msmConn, msmAcks, msmGiven,
                 msmTold, msmOff, msmCrashed, msmUsed>>

\* Each further use reads the field again: synchronized, then the call.  A
\* null there ends the process.
MsmLock ==
  /\ msmMain.at = "lock"
  /\ msmCrashed' = (msmListener = 0)
  /\ msmMain' = [msmMain EXCEPT !.at = "call"]
  /\ UNCHANGED <<msmListener, msmQueue, msmTasks, msmBack, msmConn, msmAcks,
                 msmGiven, msmTold, msmOff, msmUsed>>

\* The call.  A notification's arguments come back with the application's
\* verdict and are sent to the monitor as a message.
MsmDispatch ==
  /\ msmMain.at = "call"
  /\ IF msmListener = 0
     THEN msmCrashed' = TRUE /\ UNCHANGED <<msmQueue, msmGiven, msmMain>>
     ELSE /\ msmMain' = MsmIdle
          /\ msmGiven' = IF msmMain.msg.kind \in MsmNotifications
                         THEN msmGiven \cup {msmMain.msg.n} ELSE msmGiven
          /\ \E agreed \in BOOLEAN :
               msmQueue' = IF msmMain.msg.kind \in MsmNotifications
                           THEN Append(msmQueue, [what |-> "feedback", agreed |-> agreed,
                                                  msg |-> msmMain.msg])
                           ELSE msmQueue
          /\ UNCHANGED msmCrashed
  /\ UNCHANGED <<msmListener, msmTasks, msmBack, msmConn, msmAcks, msmTold,
                 msmOff, msmUsed>>

\* handleMessage of the monitor: replyToNotification answers a cold reset (and
\* a shutdown), if the application agreed.
MsmReplies(f) == f.agreed /\ f.msg.kind = "COLD_RESET"

MsmFeedback ==
  LET f == Head(msmQueue)
  IN  /\ msmMain = MsmIdle /\ msmQueue # <<>> /\ f.what = "feedback"
      /\ msmQueue' = Tail(msmQueue)
      /\ msmAcks' = IF MsmReplies(f) /\ msmConn
                    THEN Append(msmAcks, [n |-> f.msg.n, agreed |-> f.agreed])
                    ELSE msmAcks
      /\ UNCHANGED <<msmListener, msmMain, msmTasks, msmBack, msmConn, msmGiven,
                     msmTold, msmOff, msmCrashed, msmUsed>>

\* onPostExecute: the operation's own listener hears of it.
MsmResult ==
  /\ msmMain = MsmIdle /\ msmQueue # <<>> /\ Head(msmQueue).what = "result"
  /\ msmQueue' = Tail(msmQueue)
  /\ msmTold' = Append(msmTold, Head(msmQueue).id)
  /\ UNCHANGED <<msmListener, msmMain, msmTasks, msmBack, msmConn, msmAcks,
                 msmGiven, msmOff, msmCrashed, msmUsed>>

MsmApplication ==
  \/ MsmSubscribe \/ MsmSync("connect") \/ MsmSync("disconnect")
  \/ \E op \in {"connect", "disconnect", "modem"} : MsmAsync(op)
MsmExecutor == MsmBegin \/ MsmRun \/ MsmFinally \/ MsmPost
MsmLooper == MsmHandle \/ MsmLock \/ MsmDispatch \/ MsmFeedback \/ MsmResult
MsmNext ==
  /\ ~msmCrashed
  /\ MsmApplication \/ MsmExecutor \/ MsmEvent \/ MsmLooper
  /\ msmCall' = (msmMain.at = "call" /\ msmMain' = MsmIdle)
\* Both threads run what they are given.
MsmFairness ==
  /\ WF_msmVars(~msmCrashed /\ MsmExecutor /\ msmCall' = FALSE)
  /\ WF_msmVars(/\ ~msmCrashed /\ MsmLooper
                /\ msmCall' = (msmMain.at = "call" /\ msmMain' = MsmIdle))
MsmSpec == MsmInit /\ [][MsmNext]_msmVars /\ MsmFairness
-----------------------------------------------------------------------------
MsmTypeOK ==
  /\ msmListener \in 0..MaxMsmCalls
  /\ msmMain.at \in {"idle", "lock", "call"} /\ msmBack.at \in {"free", "run", "finally", "post"}
  /\ \A i \in DOMAIN msmQueue : msmQueue[i].what \in {"event", "feedback", "result"}
  /\ Len(msmTold) <= msmUsed.tasks /\ msmConn \in BOOLEAN

\* The listeners of asynchronous operations hear their results once each and
\* in the order the operations were asked for (AsyncOperationTask).
ResultsComeInOrder == msmTold = [i \in 1..Len(msmTold) |-> i]

\* Once disconnect returned with no dispatch under way, no queued event reaches
\* a listener until someone subscribes again.
DisconnectedHearsNothing == msmOff => ~msmCall

\* A cold reset is acknowledged to the service once at most, only after a
\* listener was given it, and only if it agreed.
AcksAreGiven ==
  /\ \A i \in DOMAIN msmAcks : msmAcks[i].n \in msmGiven /\ msmAcks[i].agreed
  /\ \A i, j \in DOMAIN msmAcks : i < j => msmAcks[i].n < msmAcks[j].n

(* Listeners of ModemStatusManager hear the results of asynchronous operations *)
(* in the order asked for, and a cold reset is acknowledged once at most,      *)
(* after a listener agreed to it.                                              *)
ListenersGetTheirResults == MsmTypeOK /\ ResultsComeInOrder /\ AcksAreGiven

\* Every asynchronous operation is answered, unless the process dies first.
AsyncGetsAnswered ==
  \A k \in 1..MaxMsmTasks : msmUsed.tasks >= k ~> msmCrashed \/ \E i \in DOMAIN msmTold : msmTold[i] = k

=============================================================================
