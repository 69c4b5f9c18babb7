------------------------------ MODULE GpsAiding ------------------------------
(* GpsLocationProvider.java: the message queue of the provider's thread, the   *)
(* downloads of NTP time and XTRA data that the network state starts, and the  *)
(* SUPL data connection the engine asks for on a thread of its own.            *)
EXTENDS Integers, Sequences, FiniteSets

CONSTANTS MaxGpsRequests,  \* requests of applications and of the engine
          MaxLinkChanges,  \* changes of connectivity
          MaxGpsFaults     \* downloads that fail

ASSUME GpsAidingAssumption == MaxGpsRequests \in Nat /\ MaxLinkChanges \in Nat /\ MaxGpsFaults \in Nat

Kinds == {"ntp", "xtra"}
PENDING_NETWORK == 0
DOWNLOADING == 1
IDLE == 2
AGPS_CLOSED == 0
AGPS_OPENING == 1
AGPS_OPEN == 2

VARIABLES gpsQueue,     \* messages of mHandler: [what, arg, held]
          gpsLink,      \* the connectivity there is
          gpsNet,       \* mNetworkAvailable
          gpsPending,   \* mInjectNtpTimePending, mDownloadXtraDataPending
          gpsTasks,     \* tasks of the thread pool, by kind: at work, done, failed
          gpsDelayed,   \* delayed messages that have not come due, by kind
          gpsSupports,  \* mSupportsXtra
          gpsPeriodic,  \* mPeriodicTimeInjection
          gpsLock,      \* count of mWakeLock
          gpsWanted,    \* kinds whose download was begun or put off and not injected since
          gpsConn,      \* mAGpsDataConnectionState
          gpsApn,       \* mAGpsApn is set
          gpsCall,      \* where the engine's thread is in reportAGpsStatus
          gpsWaits,     \* the engine waits for an answer to its request
          gpsOwed,      \* a SUPL connection is being set up
          gpsRequests, gpsChanges, gpsFaults
gpsConnVars == <<gpsConn, gpsApn, gpsCall, gpsWaits, gpsOwed>>
gpsAidVars == <<gpsQueue, gpsLink, gpsNet, gpsPending, gpsTasks, gpsDelayed, gpsSupports, gpsPeriodic,
                gpsLock, gpsWanted, gpsConnVars, gpsRequests, gpsChanges, gpsFaults>>

Phases == {"work", "ok", "failed"}
Download(kind) == IF kind = "ntp" THEN "INJECT_NTP_TIME" ELSE "DOWNLOAD_XTRA_DATA"
Finished(kind) == IF kind = "ntp" THEN "INJECT_NTP_TIME_FINISHED" ELSE "DOWNLOAD_XTRA_DATA_FINISHED"

GpsAidingTypeOK ==
  /\ \A i \in DOMAIN gpsQueue : gpsQueue[i].held \in BOOLEAN
  /\ gpsLink \in BOOLEAN /\ gpsNet \in BOOLEAN
  /\ gpsPending \in [Kinds -> {PENDING_NETWORK, DOWNLOADING, IDLE}]
  /\ gpsTasks \in [Kinds -> [Phases -> Nat]] /\ gpsDelayed \in [Kinds -> Nat]
  /\ gpsSupports \in BOOLEAN /\ gpsPeriodic \in BOOLEAN /\ gpsLock \in Nat /\ gpsWanted \subseteq Kinds
  /\ gpsConn \in {AGPS_CLOSED, AGPS_OPENING, AGPS_OPEN} /\ gpsApn \in BOOLEAN
  /\ gpsCall \in {"none", "start", "already", "started", "refused"} /\ gpsWaits \in BOOLEAN /\ gpsOwed \in BOOLEAN

\* The provider is made before there is a network.
GpsAidingInit ==
  /\ gpsQueue = <<>> /\ gpsLink = FALSE /\ gpsNet = FALSE
  /\ gpsPending = [k \in Kinds |-> PENDING_NETWORK] /\ gpsTasks = [k \in Kinds |-> [p \in Phases |-> 0]]
  /\ gpsDelayed = [k \in Kinds |-> 0] /\ gpsSupports \in BOOLEAN /\ gpsPeriodic = FALSE
  /\ gpsLock = 0 /\ gpsWanted = {}
  /\ gpsConn = AGPS_CLOSED /\ gpsApn = FALSE /\ gpsCall = "none" /\ gpsWaits = FALSE /\ gpsOwed = FALSE
  /\ gpsRequests = 0 /\ gpsChanges = 0 /\ gpsFaults = 0

\* sendMessage takes the wake lock, which handleMessage releases by arg2.
Msg(what, arg, held) == [what |-> what, arg |-> arg, held |-> held]
sendMessages(queue, lock, msgs) == gpsQueue' = queue \o msgs /\ gpsLock' = lock + Len(msgs)
GpsRequest == gpsRequests < MaxGpsRequests /\ gpsRequests' = gpsRequests + 1
-----------------------------------------------------------------------------
(* Who puts messages into the queue *)

\* Connectivity changes; the broadcast is received on the handler's thread.
LinkChange ==
  /\ gpsChanges < MaxLinkChanges /\ gpsChanges' = gpsChanges + 1
  /\ gpsLink' = ~gpsLink /\ gpsQueue' = Append(gpsQueue, Msg("CONNECTIVITY_CHANGE", <<gpsLink', "other">>, FALSE))
  /\ UNCHANGED <<gpsNet, gpsPending, gpsTasks, gpsDelayed, gpsSupports, gpsPeriodic, gpsLock, gpsWanted,
                 gpsConnVars, gpsRequests, gpsFaults>>

\* External: the SUPL connection asked for comes up, or does not.
SuplChange ==
  /\ gpsOwed /\ gpsOwed' = FALSE
  /\ gpsQueue' = Append(gpsQueue, Msg("CONNECTIVITY_CHANGE", <<gpsLink, "supl">>, FALSE))
  /\ UNCHANGED <<gpsLink, gpsNet, gpsPending, gpsTasks, gpsDelayed, gpsSupports, gpsPeriodic, gpsLock,
                 gpsWanted, gpsConn, gpsApn, gpsCall, gpsWaits, gpsRequests, gpsChanges, gpsFaults>>

\* requestUtcTime and force_time_injection.
requestUtcTime ==
  /\ GpsRequest /\ sendMessages(gpsQueue, gpsLock, <<Msg("INJECT_NTP_TIME", <<>>, TRUE)>>)
  /\ UNCHANGED <<gpsLink, gpsNet, gpsPending, gpsTasks, gpsDelayed, gpsSupports, gpsPeriodic,
                 gpsWanted, gpsConnVars, gpsChanges, gpsFaults>>

\* xtraDownloadRequest; force_xtra_injection looks at mSupportsXtra first.
xtraDownloadRequest ==
  /\ GpsRequest /\ sendMessages(gpsQueue, gpsLock, <<Msg("DOWNLOAD_XTRA_DATA", <<>>, TRUE)>>)
  /\ UNCHANGED <<gpsLink, gpsNet, gpsPending, gpsTasks, gpsDelayed, gpsSupports, gpsPeriodic,
                 gpsWanted, gpsConnVars, gpsChanges, gpsFaults>>

\* The engine tells that it has no time of its own.
setEngineCapabilities ==
  /\ ~gpsPeriodic /\ gpsPeriodic' = TRUE
  /\ sendMessages(gpsQueue, gpsLock, <<Msg("INJECT_NTP_TIME", <<>>, TRUE)>>)
  /\ UNCHANGED <<gpsLink, gpsNet, gpsPending, gpsTasks, gpsDelayed, gpsSupports,
                 gpsWanted, gpsConnVars, gpsRequests, gpsChanges, gpsFaults>>

\* A delayed message comes due; it never held the wake lock.
DelayedMessage(k) ==
  /\ gpsDelayed[k] > 0 /\ gpsDelayed' = [gpsDelayed EXCEPT ![k] = @ - 1]
  /\ gpsQueue' = Append(gpsQueue, Msg(Download(k), <<>>, FALSE))
  /\ UNCHANGED <<gpsLink, gpsNet, gpsPending, gpsTasks, gpsSupports, gpsPeriodic, gpsLock,
                 gpsWanted, gpsConnVars, gpsRequests, gpsChanges, gpsFaults>>
-----------------------------------------------------------------------------
(* The handler *)

\* The wake lock after handleMessage.
Released(msg) == IF msg.held THEN gpsLock - 1 ELSE gpsLock

Next1 == Head(gpsQueue)
Is(what) == gpsQueue # <<>> /\ Next1.what = what
Handled == gpsQueue' = Tail(gpsQueue) /\ gpsLock' = Released(Next1)

\* onReceive posts the new state behind what is already waiting.
onReceive ==
  /\ Is("CONNECTIVITY_CHANGE")
  /\ sendMessages(Tail(gpsQueue), Released(Next1), <<Msg("UPDATE_NETWORK_STATE", Next1.arg, TRUE)>>)
  /\ UNCHANGED <<gpsLink, gpsNet, gpsPending, gpsTasks, gpsDelayed, gpsSupports, gpsPeriodic,
                 gpsWanted, gpsConnVars, gpsRequests, gpsChanges, gpsFaults>>

\* What waited for the network is asked for again.
Retry(k) == IF gpsPending[k] = PENDING_NETWORK THEN <<Msg(Download(k), <<>>, TRUE)>> ELSE <<>>
Retries(up) == IF up THEN Retry("ntp") \o Retry("xtra") ELSE <<>>

handleUpdateNetworkState ==
  /\ Is("UPDATE_NETWORK_STATE")
  /\ LET up == Next1.arg[1] IN
       /\ gpsNet' = up
       /\ IF Next1.arg[2] = "supl" /\ gpsConn = AGPS_OPENING
          THEN /\ gpsApn' = up /\ gpsWaits' = FALSE
               /\ gpsConn' = IF up THEN AGPS_OPEN ELSE AGPS_CLOSED
          ELSE UNCHANGED <<gpsApn, gpsWaits, gpsConn>>
       /\ sendMessages(Tail(gpsQueue), Released(Next1), Retries(up))
  /\ UNCHANGED <<gpsLink, gpsPending, gpsTasks, gpsDelayed, gpsSupports, gpsPeriodic, gpsWanted,
                 gpsCall, gpsOwed, gpsRequests, gpsChanges, gpsFaults>>

\* A faulty variant; no step uses it.
Busy_waiting(kind) == FALSE

Busy(kind) == gpsPending[kind] = DOWNLOADING

\* handleInjectNtpTime and handleDownloadXtraData.  Without XTRA support the
\* message is dropped.
HandleDownload(kind) ==
  /\ Is(Download(kind)) /\ gpsQueue' = Tail(gpsQueue)
  /\ IF Busy(kind) \/ (kind = "xtra" /\ ~gpsSupports)
     THEN gpsLock' = Released(Next1) /\ UNCHANGED <<gpsPending, gpsTasks, gpsWanted>>
     ELSE /\ gpsWanted' = gpsWanted \cup {kind}
          /\ IF gpsNet
             THEN /\ gpsPending' = [gpsPending EXCEPT ![kind] = DOWNLOADING]
                  /\ gpsTasks' = [gpsTasks EXCEPT ![kind]["work"] = @ + 1]
                  /\ gpsLock' = Released(Next1) + 1
             ELSE /\ gpsPending' = [gpsPending EXCEPT ![kind] = PENDING_NETWORK]
                  /\ gpsLock' = Released(Next1) /\ UNCHANGED gpsTasks
  /\ UNCHANGED <<gpsLink, gpsNet, gpsDelayed, gpsSupports, gpsPeriodic, gpsConnVars,
                 gpsRequests, gpsChanges, gpsFaults>>
handleInjectNtpTime == HandleDownload("ntp")
handleDownloadXtraData == HandleDownload("xtra")

HandleFinished ==
  \E k \in Kinds :
    /\ Is(Finished(k)) /\ Handled /\ gpsPending' = [gpsPending EXCEPT ![k] = IDLE]
    /\ UNCHANGED <<gpsLink, gpsNet, gpsTasks, gpsDelayed, gpsSupports, gpsPeriodic, gpsWanted,
                   gpsConnVars, gpsRequests, gpsChanges, gpsFaults>>
-----------------------------------------------------------------------------
(* Tasks of the thread pool *)

Moved(kind, to) == [gpsTasks EXCEPT ![kind]["work"] = @ - 1, ![kind][to] = @ + 1]

\* The download itself, with the injection when there is something to inject.
TaskWork(k) ==
  /\ gpsTasks[k]["work"] > 0
  /\ \/ gpsTasks' = Moved(k, "ok") /\ gpsWanted' = gpsWanted \ {k} /\ UNCHANGED gpsFaults
     \/ /\ gpsFaults < MaxGpsFaults /\ gpsFaults' = gpsFaults + 1
        /\ gpsTasks' = Moved(k, "failed") /\ UNCHANGED gpsWanted
  /\ UNCHANGED <<gpsQueue, gpsLink, gpsNet, gpsPending, gpsDelayed, gpsSupports, gpsPeriodic, gpsLock,
                 gpsConnVars, gpsRequests, gpsChanges>>

\* A faulty variant; no step uses it.
Rearms_never(kind, outcome) == FALSE

\* NTP is asked for again after a day or five minutes, XTRA after a failure.
Rearms(kind, outcome) == IF kind = "ntp" THEN gpsPeriodic ELSE outcome = "failed"

\* The FINISHED message, the delayed one and the release of the task's wake lock.
TaskFinish(k) ==
  \E outcome \in {"ok", "failed"} :
    /\ gpsTasks[k][outcome] > 0
    /\ gpsTasks' = [gpsTasks EXCEPT ![k][outcome] = @ - 1]
    /\ sendMessages(gpsQueue, gpsLock - 1, <<Msg(Finished(k), <<>>, TRUE)>>)
    /\ gpsDelayed' = IF Rearms(k, outcome) THEN [gpsDelayed EXCEPT ![k] = @ + 1] ELSE gpsDelayed
    /\ UNCHANGED <<gpsLink, gpsNet, gpsPending, gpsSupports, gpsPeriodic, gpsWanted, gpsConnVars,
                   gpsRequests, gpsChanges, gpsFaults>>
-----------------------------------------------------------------------------
(* reportAGpsStatus, on the engine's thread *)

gpsElse == <<gpsQueue, gpsLink, gpsNet, gpsPending, gpsTasks, gpsDelayed, gpsSupports, gpsPeriodic, gpsLock,
             gpsWanted, gpsChanges, gpsFaults>>

\* GPS_REQUEST_AGPS_DATA_CONN: the state is OPENING before the connection is asked for.
AgpsRequest == gpsCall' = "start" /\ gpsWaits' = TRUE /\ gpsConn' = AGPS_OPENING
reportAGpsRequest ==
  /\ gpsCall = "none" /\ ~gpsWaits /\ GpsRequest /\ AgpsRequest /\ UNCHANGED <<gpsElse, gpsApn, gpsOwed>>

startUsingNetworkFeature ==
  /\ gpsCall = "start" /\ gpsCall' \in {"already", "started", "refused"}
  /\ gpsOwed' = (gpsOwed \/ gpsCall' = "started")
  /\ UNCHANGED <<gpsElse, gpsConn, gpsApn, gpsWaits, gpsRequests>>

\* What the result means.  "started" leaves the answer to the handler.
reportAGpsResult ==
  /\ gpsCall \in {"already", "started", "refused"} /\ gpsCall' = "none"
  /\ CASE gpsCall = "started" -> UNCHANGED <<gpsConn, gpsWaits>>
       [] gpsCall = "already" /\ gpsApn -> gpsConn' = AGPS_OPEN /\ gpsWaits' = FALSE
       [] OTHER -> gpsConn' = AGPS_CLOSED /\ gpsWaits' = FALSE
  /\ UNCHANGED <<gpsElse, gpsApn, gpsOwed, gpsRequests>>

\* GPS_RELEASE_AGPS_DATA_CONN: answered with closed unless it is closed already.
reportAGpsRelease ==
  /\ gpsCall = "none" /\ gpsConn # AGPS_CLOSED /\ GpsRequest
  /\ gpsConn' = AGPS_CLOSED /\ gpsWaits' = FALSE
  /\ UNCHANGED <<gpsElse, gpsApn, gpsCall, gpsOwed>>

GpsHandle == onReceive \/ handleUpdateNetworkState \/ handleInjectNtpTime \/ handleDownloadXtraData \/ HandleFinished
GpsTask(k) == TaskWork(k) \/ TaskFinish(k)
GpsDownloadNext == LinkChange \/ requestUtcTime \/ xtraDownloadRequest \/ setEngineCapabilities \/ GpsHandle
                   \/ \E k \in Kinds : DelayedMessage(k) \/ GpsTask(k)
GpsConnNext == LinkChange \/ SuplChange \/ onReceive \/ handleUpdateNetworkState
               \/ reportAGpsRequest \/ startUsingNetworkFeature \/ reportAGpsResult \/ reportAGpsRelease
GpsAidingNext == GpsDownloadNext \/ GpsConnNext

\* The looper, the thread pool and the timers go on; a connection attempt ends.
GpsAidingFairness ==
  /\ WF_gpsAidVars(GpsHandle)
  /\ \A k \in Kinds : WF_gpsAidVars(GpsTask(k)) /\ WF_gpsAidVars(DelayedMessage(k))
  /\ WF_gpsAidVars(SuplChange \/ startUsingNetworkFeature \/ reportAGpsResult)
GpsAidingSpec == GpsAidingInit /\ [][GpsAidingNext]_gpsAidVars /\ GpsAidingFairness
-----------------------------------------------------------------------------
(* Properties *)

(* The count of the wake lock is the number of messages sent with sendMessage  *)
(* and not yet handled, and of tasks not yet ended: nothing keeps the device   *)
(* awake for good, and no release comes without its acquire, which throws.     *)
HeldIn(queue) == {i \in DOMAIN queue : queue[i].held}
Running(tasks, k) == tasks[k]["work"] + tasks[k]["ok"] + tasks[k]["failed"]
WakeLockBalances ==
  gpsLock = Cardinality(HeldIn(gpsQueue)) + Running(gpsTasks, "ntp") + Running(gpsTasks, "xtra")

(* At most one download of a kind runs at a time, however the requests, the    *)
(* network events and the delayed retries arrive.                              *)
OneDownloadAtATime == \A k \in Kinds : gpsTasks[k]["work"] <= 1

(* The downloads of aiding data stay balanced: the wake lock counts exactly    *)
(* the messages and tasks still to be handled, and one download of a kind runs *)
(* at a time.                                                                  *)
DownloadsAreBalanced == GpsAidingTypeOK /\ WakeLockBalances /\ OneDownloadAtATime

(* When the network is there for good, what was begun, or put off for want of  *)
(* the network, is injected in the end: a failed or postponed download is      *)
(* always tried again.  NTP is tried again only by a provider that keeps       *)
(* injecting time.                                                             *)
AidingGetsInjected ==
  <>[](gpsLink /\ gpsPeriodic) => /\ "xtra" \in gpsWanted ~> "xtra" \notin gpsWanted
                                  /\ "ntp" \in gpsWanted ~> "ntp" \notin gpsWanted

(* Every request of the engine for a data connection is answered with open,    *)
(* failed or closed, also when the connection comes up while reportAGpsStatus  *)
(* is still asking for it.                                                     *)
AgpsRequestIsAnswered == gpsWaits ~> ~gpsWaits
=============================================================================
