-------------------------- MODULE GpsAidingProofs --------------------------
(***************************************************************************)
(* The downloads of aiding data in the GPS location provider: for any      *)
(* number of requests, link changes and faults the wake lock counts the    *)
(* messages and tasks still to be handled, and one download of a kind runs *)
(* at a time.  The count of held messages is the cardinality of a set of   *)
(* positions of the queue, so the lemmas say how that set moves when the   *)
(* queue gains messages at its end or loses its first.                     *)
(***************************************************************************)
EXTENDS GpsAiding, FiniteSetTheorems, FunctionTheorems, TLAPS

NetMsgs == [what : {"CONNECTIVITY_CHANGE", "UPDATE_NETWORK_STATE"}, arg : BOOLEAN \X {"other", "supl"}, held : BOOLEAN]
DownloadMsgs ==
  [what : {"INJECT_NTP_TIME", "DOWNLOAD_XTRA_DATA", "INJECT_NTP_TIME_FINISHED", "DOWNLOAD_XTRA_DATA_FINISHED"},
   arg : {<<>>}, held : BOOLEAN]
GpsMsgs == NetMsgs \cup DownloadMsgs

(* The FINISHED messages of a kind that wait in the queue.                     *)
Reports(queue, k) == {i \in DOMAIN queue : queue[i].what = Finished(k)}

(* mInjectNtpTimePending and mDownloadXtraDataPending say DOWNLOADING from the *)
(* start of a task to the handling of its FINISHED message, and there is never *)
(* more than one of the two.                                                   *)
OneOfAKind ==
  \A k \in Kinds :
    /\ Running(gpsTasks, k) <= 1
    /\ Running(gpsTasks, k) = 1 => Reports(gpsQueue, k) = {}
    /\ gpsPending[k] # DOWNLOADING => Running(gpsTasks, k) = 0 /\ Reports(gpsQueue, k) = {}
    /\ \A i, j \in Reports(gpsQueue, k) : i = j

AidInv == GpsAidingTypeOK /\ gpsQueue \in Seq(GpsMsgs) /\ WakeLockBalances /\ OneOfAKind

(* A queue is finite, and so are its messages that hold the wake lock.         *)
LEMMA HeldIsFinite ==
  ASSUME NEW q \in Seq(GpsMsgs)
  PROVE  IsFiniteSet(HeldIn(q)) /\ Cardinality(HeldIn(q)) \in Nat
<1>1. Len(q) \in Nat /\ DOMAIN q = 1 .. Len(q)
  OBVIOUS
<1>2. IsFiniteSet(1 .. Len(q))
  BY <1>1, FS_Interval
<1>3. HeldIn(q) \in SUBSET (1 .. Len(q))
  BY <1>1 DEF HeldIn
<1>4. IsFiniteSet(HeldIn(q))
  BY <1>2, <1>3, FS_Subset
<1> QED
  BY <1>4, FS_CardinalityType

(* sendMessage: a message that holds the lock is one more of them, and only a  *)
(* FINISHED message is one more report.                                        *)
LEMMA AidQueueGrows ==
  ASSUME NEW q \in Seq(GpsMsgs), NEW m \in GpsMsgs
  PROVE  /\ Append(q, m) \in Seq(GpsMsgs) /\ q \o <<m>> = Append(q, m)
         /\ m.held => Cardinality(HeldIn(Append(q, m))) = Cardinality(HeldIn(q)) + 1
         /\ ~m.held => Cardinality(HeldIn(Append(q, m))) = Cardinality(HeldIn(q))
         /\ \A k \in Kinds : m.what # Finished(k) => Reports(Append(q, m), k) = Reports(q, k)
         /\ \A k \in Kinds : m.what = Finished(k) => Reports(Append(q, m), k) = Reports(q, k) \cup {Len(q) + 1}
<1> DEFINE r == Append(q, m)
<1>1. /\ r \in Seq(GpsMsgs) /\ q \o <<m>> = r
      /\ DOMAIN r = DOMAIN q \cup {Len(q) + 1} /\ Len(q) + 1 \notin DOMAIN q
      /\ r[Len(q) + 1] = m /\ \A i \in DOMAIN q : r[i] = q[i]
  OBVIOUS
<1> HIDE DEF r
<1>2. m.held => HeldIn(r) = HeldIn(q) \cup {Len(q) + 1}
  BY <1>1 DEF HeldIn
<1>3. ~m.held => HeldIn(r) = HeldIn(q)
  BY <1>1 DEF HeldIn
<1>4. Len(q) + 1 \notin HeldIn(q)
  BY <1>1 DEF HeldIn
<1>5. m.held => Cardinality(HeldIn(r)) = Cardinality(HeldIn(q)) + 1
  BY <1>2, <1>4, HeldIsFinite, FS_AddElement
<1>6. \A k \in Kinds : m.what # Finished(k) => Reports(r, k) = Reports(q, k)
  BY <1>1 DEF Reports
<1>7. \A k \in Kinds : m.what = Finished(k) => Reports(r, k) = Reports(q, k) \cup {Len(q) + 1}
  BY <1>1 DEF Reports
<1> QED
  BY <1>1, <1>3, <1>5, <1>6, <1>7 DEF r

(* handleMessage: the first message leaves, the others move up by one place.   *)
LEMMA AidQueueShrinks ==
  ASSUME NEW q \in Seq(GpsMsgs), q # <<>>
  PROVE  /\ Tail(q) \in Seq(GpsMsgs) /\ Head(q) \in GpsMsgs
         /\ Head(q).held => Cardinality(HeldIn(Tail(q))) = Cardinality(HeldIn(q)) - 1
         /\ ~Head(q).held => Cardinality(HeldIn(Tail(q))) = Cardinality(HeldIn(q))
         /\ \A k \in Kinds : Reports(q, k) = {} => Reports(Tail(q), k) = {}
         /\ \A k \in Kinds : (\A i, j \in Reports(q, k) : i = j) =>
               /\ \A i, j \in Reports(Tail(q), k) : i = j
               /\ Head(q).what = Finished(k) => Reports(Tail(q), k) = {}
         /\ \A k \in Kinds : Head(q).what = Finished(k) => Reports(q, k) # {}
<1> DEFINE r == Tail(q)
<1>1. /\ r \in Seq(GpsMsgs) /\ Head(q) \in GpsMsgs /\ Head(q) = q[1] /\ 1 \in DOMAIN q
      /\ \A i \in DOMAIN r : i \in Nat \ {0} /\ i + 1 \in DOMAIN q /\ r[i] = q[i + 1]
      /\ \A i \in DOMAIN q : i \in Nat \ {0} /\ (i # 1 => i - 1 \in DOMAIN r /\ r[i - 1] = q[i])
  OBVIOUS
<1> HIDE DEF r
<1>2. Cardinality(HeldIn(r)) = Cardinality(HeldIn(q) \ {1})
  <2> DEFINE S == HeldIn(r)
             T == HeldIn(q) \ {1}
             up == [i \in S |-> i + 1]
  <2>1. up \in [S -> T]
    <3> SUFFICES ASSUME NEW i \in S PROVE i + 1 \in T
      OBVIOUS
    <3>1. i \in DOMAIN r /\ r[i].held
      BY DEF HeldIn
    <3>2. i \in Nat \ {0} /\ i + 1 \in DOMAIN q /\ r[i] = q[i + 1]
      BY <1>1, <3>1
    <3>3. i + 1 \in HeldIn(q)
      BY <3>1, <3>2 DEF HeldIn
    <3> QED
      BY <3>2, <3>3
  <2>2. \A a, b \in S : up[a] = up[b] => a = b
    <3>1. \A a \in S : a \in Nat
      BY <1>1 DEF HeldIn
    <3> HIDE DEF S
    <3> QED
      BY <3>1
  <2>3. \A t \in T : \E a \in S : up[a] = t
    <3> SUFFICES ASSUME NEW t \in T PROVE t - 1 \in S /\ up[t - 1] = t
      OBVIOUS
    <3>1. t \in DOMAIN q /\ q[t].held /\ t # 1
      BY DEF HeldIn
    <3>2. t \in Nat \ {0} /\ t - 1 \in DOMAIN r /\ r[t - 1] = q[t]
      BY <1>1, <3>1
    <3>3. t - 1 \in S
      BY <3>1, <3>2 DEF HeldIn
    <3>4. t - 1 + 1 = t
      BY <3>2
    <3> QED
      BY <3>3, <3>4
  <2> HIDE DEF S, T, up
  <2>4. up \in Bijection(S, T)
    BY <2>1, <2>2, <2>3, Fun_IsBij
  <2>5. ExistsBijection(S, T)
    BY <2>4 DEF ExistsBijection
  <2>6. IsFiniteSet(S)
    BY <1>1, HeldIsFinite DEF S
  <2> QED
    BY <2>5, <2>6, FS_Bijection DEF S, T
<1>3. Head(q).held <=> 1 \in HeldIn(q)
  BY <1>1 DEF HeldIn
<1>4. Cardinality(HeldIn(q) \ {1}) = IF 1 \in HeldIn(q) THEN Cardinality(HeldIn(q)) - 1 ELSE Cardinality(HeldIn(q))
  BY HeldIsFinite, FS_RemoveElement
<1>5. ASSUME NEW k \in Kinds
      PROVE  /\ \A i \in Reports(r, k) : i \in Nat \ {0} /\ i + 1 \in Reports(q, k)
             /\ Head(q).what = Finished(k) <=> 1 \in Reports(q, k)
  BY <1>1 DEF Reports
<1>6. \A k \in Kinds : Reports(q, k) = {} => Reports(r, k) = {}
  BY <1>5
<1>7. ASSUME NEW k \in Kinds, \A i, j \in Reports(q, k) : i = j
      PROVE  /\ \A i, j \in Reports(r, k) : i = j
             /\ Head(q).what = Finished(k) => Reports(r, k) = {}
  <2>1. ASSUME NEW i \in Reports(r, k), NEW j \in Reports(r, k) PROVE i = j
    <3>1. i + 1 = j + 1 /\ i \in Nat /\ j \in Nat
      BY <1>5, <1>7
    <3> QED
      BY <3>1
  <2>2. ASSUME NEW i \in Reports(r, k), 1 \in Reports(q, k) PROVE FALSE
    <3>1. i + 1 = 1 /\ i \in Nat \ {0}
      BY <1>5, <1>7, <2>2
    <3> QED
      BY <3>1
  <2> QED
    BY <1>5, <2>1, <2>2
<1>8. \A k \in Kinds : Head(q).what = Finished(k) => Reports(q, k) # {}
  BY <1>5
<1> QED
  BY <1>1, <1>2, <1>3, <1>4, <1>6, <1>7, <1>8 DEF r

(* The message kinds that Download and Finished name are all different.        *)
LEMMA KindsOfMessages ==
  /\ \A k \in Kinds, held \in BOOLEAN : Msg(Download(k), <<>>, held) \in GpsMsgs /\ Msg(Finished(k), <<>>, held) \in GpsMsgs
  /\ \A up \in BOOLEAN, net \in {"other", "supl"}, held \in BOOLEAN :
       /\ Msg("CONNECTIVITY_CHANGE", <<up, net>>, held) \in GpsMsgs
       /\ Msg("UPDATE_NETWORK_STATE", <<up, net>>, held) \in GpsMsgs
  /\ \A j, k \in Kinds : Download(j) # Finished(k)
  /\ \A j, k \in Kinds : j # k => Finished(j) # Finished(k)
  /\ \A k \in Kinds : Finished(k) \notin {"CONNECTIVITY_CHANGE", "UPDATE_NETWORK_STATE"}
  BY DEF Kinds, Msg, Download, Finished, GpsMsgs, NetMsgs, DownloadMsgs

(* handleUpdateNetworkState asks again for what waited: up to two messages that*)
(* hold the wake lock, none of them a report.                                  *)
LEMMA RetriesAreHeld ==
  ASSUME NEW q \in Seq(GpsMsgs), NEW up
  PROVE  /\ q \o Retries(up) \in Seq(GpsMsgs)
         /\ Cardinality(HeldIn(q \o Retries(up))) = Cardinality(HeldIn(q)) + Len(Retries(up))
         /\ \A k \in Kinds : Reports(q \o Retries(up), k) = Reports(q, k)
<1> DEFINE n == Msg(Download("ntp"), <<>>, TRUE)
           x == Msg(Download("xtra"), <<>>, TRUE)
<1>1. /\ n \in GpsMsgs /\ x \in GpsMsgs /\ n.held /\ x.held
      /\ \A k \in Kinds : n.what # Finished(k) /\ x.what # Finished(k)
  BY DEF Kinds, Msg, Download, Finished, GpsMsgs, DownloadMsgs
<1>2. Retries(up) \in {<<>>, <<n>>, <<x>>, <<n>> \o <<x>>}
  <2>1. Retry("ntp") \in {<<>>, <<n>>} /\ Retry("xtra") \in {<<>>, <<x>>}
    BY DEF Retry
  <2> HIDE DEF n, x
  <2>2. <<n>> \o <<>> = <<n>> /\ <<>> \o <<x>> = <<x>> /\ <<>> \o <<>> = <<>>
    BY <1>1
  <2> QED
    BY <2>1, <2>2 DEF Retries
<1> HIDE DEF n, x
<1>3. CASE Retries(up) = <<>>
  <2>1. q \o <<>> = q /\ Len(<<>>) = 0
    OBVIOUS
  <2> QED
    BY <1>3, <2>1, HeldIsFinite
<1>4. ASSUME NEW m \in {n, x}, Retries(up) = <<m>>
      PROVE  /\ q \o Retries(up) \in Seq(GpsMsgs)
             /\ Cardinality(HeldIn(q \o Retries(up))) = Cardinality(HeldIn(q)) + Len(Retries(up))
             /\ \A k \in Kinds : Reports(q \o Retries(up), k) = Reports(q, k)
  <2>1. Len(<<m>>) = 1 /\ m \in GpsMsgs
    BY <1>1
  <2>2. q \o <<m>> = Append(q, m) /\ m.held /\ \A k \in Kinds : m.what # Finished(k)
    BY <1>1, <2>1, AidQueueGrows
  <2>3. /\ Append(q, m) \in Seq(GpsMsgs) /\ Cardinality(HeldIn(Append(q, m))) = Cardinality(HeldIn(q)) + 1
        /\ \A k \in Kinds : Reports(Append(q, m), k) = Reports(q, k)
    BY <2>1, <2>2, AidQueueGrows
  <2>4. q \o Retries(up) = Append(q, m) /\ Len(Retries(up)) = 1
    BY <1>4, <2>1, <2>2
  <2> QED
    BY <2>3, <2>4
<1>5. CASE Retries(up) = <<n>> \o <<x>>
  <2> DEFINE r == Append(q, n)
  <2>1. q \o (<<n>> \o <<x>>) = Append(r, x) /\ Len(<<n>> \o <<x>>) = 2
    BY <1>1
  <2>2. /\ r \in Seq(GpsMsgs) /\ Cardinality(HeldIn(r)) = Cardinality(HeldIn(q)) + 1
        /\ \A k \in Kinds : Reports(r, k) = Reports(q, k)
    BY <1>1, AidQueueGrows
  <2> HIDE DEF r
  <2>3. /\ Append(r, x) \in Seq(GpsMsgs) /\ Cardinality(HeldIn(Append(r, x))) = Cardinality(HeldIn(r)) + 1
        /\ \A k \in Kinds : Reports(Append(r, x), k) = Reports(r, k)
    BY <1>1, <2>2, AidQueueGrows
  <2>4. Cardinality(HeldIn(q)) \in Nat
    BY HeldIsFinite
  <2>5. q \o Retries(up) = Append(r, x) /\ Len(Retries(up)) = 2
    BY <1>5, <2>1
  <2>6. Cardinality(HeldIn(Append(r, x))) = Cardinality(HeldIn(q)) + 2
    BY <2>2, <2>3, <2>4
  <2>7. \A k \in Kinds : Reports(Append(r, x), k) = Reports(q, k)
    BY <2>2, <2>3
  <2> QED
    BY <2>3, <2>5, <2>6, <2>7
<1> QED
  BY <1>2, <1>3, <1>4, <1>5

(* The tasks of a kind are counted.                                            *)
LEMMA RunningIsNat ==
  ASSUME NEW t \in [Kinds -> [Phases -> Nat]], NEW k \in Kinds
  PROVE  Running(t, k) \in Nat /\ \A p \in Phases : t[k][p] \in Nat /\ t[k][p] <= Running(t, k)
<1>1. t[k] \in [Phases -> Nat]
  OBVIOUS
<1>2. t[k]["work"] \in Nat /\ t[k]["ok"] \in Nat /\ t[k]["failed"] \in Nat
  BY <1>1 DEF Phases
<1> QED
  BY <1>2 DEF Running, Phases

(* The lock moves as the messages that hold it do, and as the tasks do.        *)
LEMMA LockMoves ==
  ASSUME NEW l \in Nat, NEW lock \in Nat, NEW h \in Nat, NEW held \in Nat,
         NEW n \in Nat, NEW x \in Nat, NEW ntp \in Nat, NEW xtra \in Nat, NEW t \in Nat, NEW tasks \in Nat,
         l = h + n + x, lock - l = (held - h) + (tasks - t), ntp + xtra = n + x + (tasks - t)
  PROVE  lock = held + ntp + xtra
  OBVIOUS

LEMMA LockArithmetic ==
  ASSUME NEW l \in Nat, NEW lock \in Nat, NEW h \in Nat, NEW held \in Nat, NEW n \in Nat, NEW x \in Nat,
         l = h + n + x, lock - l = held - h
  PROVE  lock = held + n + x
  OBVIOUS

(* A step that moves no task and keeps the flags keeps AidInv when what it     *)
(* does to the lock is what it does to the messages that hold it.              *)
LEMMA QueueStepKeepsAidInv ==
  ASSUME AidInv, GpsAidingTypeOK', gpsQueue' \in Seq(GpsMsgs),
         gpsLock' - gpsLock = Cardinality(HeldIn(gpsQueue')) - Cardinality(HeldIn(gpsQueue)),
         \A k \in Kinds : /\ Reports(gpsQueue, k) = {} => Reports(gpsQueue', k) = {}
                          /\ (\A i, j \in Reports(gpsQueue, k) : i = j) => \A i, j \in Reports(gpsQueue', k) : i = j,
         \A k \in Kinds : Running(gpsTasks', k) = Running(gpsTasks, k),
         \A k \in Kinds : gpsPending'[k] = DOWNLOADING \/ gpsPending[k] # DOWNLOADING
  PROVE  AidInv'
<1>1. \A k \in Kinds : Running(gpsTasks', k) = Running(gpsTasks, k) /\ Running(gpsTasks, k) \in Nat
  BY RunningIsNat DEF AidInv, GpsAidingTypeOK
<1>2. WakeLockBalances'
  <2>1. /\ Cardinality(HeldIn(gpsQueue)) \in Nat /\ Cardinality(HeldIn(gpsQueue')) \in Nat
        /\ gpsLock \in Nat /\ gpsLock' \in Nat /\ "ntp" \in Kinds /\ "xtra" \in Kinds
    BY HeldIsFinite DEF AidInv, GpsAidingTypeOK, Kinds
  <2>2. gpsLock = Cardinality(HeldIn(gpsQueue)) + Running(gpsTasks, "ntp") + Running(gpsTasks, "xtra")
    BY DEF AidInv, WakeLockBalances
  <2>3. gpsLock' = Cardinality(HeldIn(gpsQueue')) + Running(gpsTasks', "ntp") + Running(gpsTasks', "xtra")
    <3>1. /\ Running(gpsTasks', "ntp") = Running(gpsTasks, "ntp") /\ Running(gpsTasks, "ntp") \in Nat
          /\ Running(gpsTasks', "xtra") = Running(gpsTasks, "xtra") /\ Running(gpsTasks, "xtra") \in Nat
      BY <1>1, <2>1
    <3>2. gpsLock' - gpsLock = Cardinality(HeldIn(gpsQueue')) - Cardinality(HeldIn(gpsQueue))
      OBVIOUS
    <3>3. gpsLock' = Cardinality(HeldIn(gpsQueue')) + Running(gpsTasks, "ntp") + Running(gpsTasks, "xtra")
      BY ONLY <2>1, <2>2, <3>1, <3>2, LockArithmetic
    <3> QED
      BY ONLY <3>1, <3>3
  <2>4. HeldIn(gpsQueue)' = HeldIn(gpsQueue')
    BY DEF HeldIn
  <2> QED
    BY <2>3, <2>4 DEF WakeLockBalances
<1>3. OneOfAKind'
  <2> SUFFICES ASSUME NEW k \in Kinds
               PROVE  /\ Running(gpsTasks', k) <= 1
                      /\ Running(gpsTasks', k) = 1 => Reports(gpsQueue', k) = {}
                      /\ gpsPending'[k] # DOWNLOADING => Running(gpsTasks', k) = 0 /\ Reports(gpsQueue', k) = {}
                      /\ \A i, j \in Reports(gpsQueue', k) : i = j
    BY DEF OneOfAKind, Reports
  <2>1. /\ Running(gpsTasks, k) <= 1
        /\ Running(gpsTasks, k) = 1 => Reports(gpsQueue, k) = {}
        /\ gpsPending[k] # DOWNLOADING => Running(gpsTasks, k) = 0 /\ Reports(gpsQueue, k) = {}
        /\ \A i, j \in Reports(gpsQueue, k) : i = j
    BY DEF AidInv, OneOfAKind
  <2> QED
    BY <1>1, <2>1
<1> QED
  BY <1>2, <1>3 DEF AidInv

(* One task of a kind starts or ends; the tasks of the other kind stay.        *)
LEMMA TaskCounts ==
  ASSUME gpsTasks \in [Kinds -> [Phases -> Nat]], NEW c \in Kinds, NEW p \in Phases, NEW d \in {-1, 1},
         d = -1 => gpsTasks[c][p] > 0,
         gpsTasks' = [gpsTasks EXCEPT ![c] = [gpsTasks[c] EXCEPT ![p] = gpsTasks[c][p] + d]]
  PROVE  /\ gpsTasks' \in [Kinds -> [Phases -> Nat]]
         /\ Running(gpsTasks', c) = Running(gpsTasks, c) + d
         /\ \A k \in Kinds \ {c} : Running(gpsTasks', k) = Running(gpsTasks, k)
<1>1. gpsTasks[c] \in [Phases -> Nat] /\ gpsTasks[c][p] + d \in Nat
  OBVIOUS
<1>2. [gpsTasks[c] EXCEPT ![p] = gpsTasks[c][p] + d] \in [Phases -> Nat]
  BY <1>1
<1> DEFINE t == [gpsTasks[c] EXCEPT ![p] = gpsTasks[c][p] + d]
<1>3. t["work"] + t["ok"] + t["failed"] = gpsTasks[c]["work"] + gpsTasks[c]["ok"] + gpsTasks[c]["failed"] + d
  BY <1>1 DEF Phases
<1>4. gpsTasks' = [gpsTasks EXCEPT ![c] = t]
  OBVIOUS
<1>5. t \in [Phases -> Nat]
  BY <1>2
<1> HIDE DEF t
<1>6. gpsTasks'[c] = t /\ gpsTasks' \in [Kinds -> [Phases -> Nat]] /\ \A k \in Kinds \ {c} : gpsTasks'[k] = gpsTasks[k]
  BY <1>4, <1>5
<1> QED
  BY <1>3, <1>6 DEF Running

(* A task at work ends well or badly.                                          *)
LEMMA TaskMoves ==
  ASSUME gpsTasks \in [Kinds -> [Phases -> Nat]], NEW c \in Kinds, NEW to \in {"ok", "failed"},
         gpsTasks[c]["work"] > 0, gpsTasks' = Moved(c, to)
  PROVE  /\ gpsTasks' \in [Kinds -> [Phases -> Nat]]
         /\ \A k \in Kinds : Running(gpsTasks', k) = Running(gpsTasks, k)
<1> DEFINE t == [gpsTasks[c] EXCEPT !["work"] = @ - 1, ![to] = @ + 1]
<1>1. gpsTasks[c] \in [Phases -> Nat] /\ gpsTasks[c]["work"] - 1 \in Nat
  BY DEF Phases
<1>2. gpsTasks' = [gpsTasks EXCEPT ![c] = t]
  BY DEF Moved
<1>3. t \in [Phases -> Nat] /\ t["work"] + t["ok"] + t["failed"] = gpsTasks[c]["work"] + gpsTasks[c]["ok"] + gpsTasks[c]["failed"]
  BY <1>1 DEF Phases
<1> HIDE DEF t
<1>4. gpsTasks'[c] = t /\ \A k \in Kinds \ {c} : gpsTasks'[k] = gpsTasks[k]
  BY <1>2
<1> QED
  BY <1>2, <1>3, <1>4 DEF Running

(* Before the provider has sent anything.                                      *)
LEMMA AidInvAtStart == GpsAidingInit => AidInv
<1> SUFFICES ASSUME GpsAidingInit PROVE AidInv
  OBVIOUS
<1>1. gpsQueue \in Seq(GpsMsgs) /\ HeldIn(gpsQueue) = {} /\ \A k \in Kinds : Reports(gpsQueue, k) = {}
  BY DEF GpsAidingInit, HeldIn, Reports
<1>2. \A k \in Kinds : Running(gpsTasks, k) = 0
  BY DEF GpsAidingInit, Running, Phases
<1>3. GpsAidingTypeOK
  <2>1. /\ gpsPending \in [Kinds -> {PENDING_NETWORK, DOWNLOADING, IDLE}]
        /\ gpsTasks \in [Kinds -> [Phases -> Nat]] /\ gpsDelayed \in [Kinds -> Nat] /\ gpsLock \in Nat
    BY DEF GpsAidingInit
  <2>2. gpsConn \in {AGPS_CLOSED, AGPS_OPENING, AGPS_OPEN}
    BY DEF GpsAidingInit
  <2>3. DOMAIN gpsQueue = {} /\ gpsWanted = {}
    BY DEF GpsAidingInit
  <2>4. /\ gpsLink \in BOOLEAN /\ gpsNet \in BOOLEAN /\ gpsSupports \in BOOLEAN /\ gpsPeriodic \in BOOLEAN
        /\ gpsApn \in BOOLEAN /\ gpsWaits \in BOOLEAN /\ gpsOwed \in BOOLEAN /\ gpsCall = "none"
    BY DEF GpsAidingInit
  <2> QED
    BY <2>1, <2>2, <2>3, <2>4 DEF GpsAidingTypeOK
<1>4. WakeLockBalances
  <2>1. Running(gpsTasks, "ntp") = 0 /\ Running(gpsTasks, "xtra") = 0
    BY <1>2 DEF Kinds
  <2>2. Cardinality(HeldIn(gpsQueue)) = 0 /\ gpsLock = 0
    BY <1>1, FS_EmptySet DEF GpsAidingInit
  <2> QED
    BY <2>1, <2>2 DEF WakeLockBalances
<1>5. OneOfAKind
  BY <1>1, <1>2 DEF OneOfAKind
<1> QED
  BY <1>1, <1>3, <1>4, <1>5 DEF AidInv

(* The types of everything but the queue.                                      *)
AidTypes ==
  /\ gpsLink \in BOOLEAN /\ gpsNet \in BOOLEAN
  /\ gpsPending \in [Kinds -> {PENDING_NETWORK, DOWNLOADING, IDLE}]
  /\ gpsTasks \in [Kinds -> [Phases -> Nat]] /\ gpsDelayed \in [Kinds -> Nat]
  /\ gpsSupports \in BOOLEAN /\ gpsPeriodic \in BOOLEAN /\ gpsLock \in Nat /\ gpsWanted \subseteq Kinds
ConnTypes ==
  /\ gpsConn \in {AGPS_CLOSED, AGPS_OPENING, AGPS_OPEN} /\ gpsApn \in BOOLEAN
  /\ gpsCall \in {"none", "start", "already", "started", "refused"} /\ gpsWaits \in BOOLEAN /\ gpsOwed \in BOOLEAN

(* Steps that leave the SUPL connection alone, and all but a few variables.    *)
LEMMA ConnTypesStay ==
  ASSUME ConnTypes, UNCHANGED gpsConnVars
  PROVE  ConnTypes'
  BY DEF ConnTypes, gpsConnVars

LEMMA AidTypesStay ==
  ASSUME AidTypes,
         gpsLink' = gpsLink \/ gpsLink' \in BOOLEAN, gpsNet' = gpsNet \/ gpsNet' \in BOOLEAN,
         gpsPending' = gpsPending \/ gpsPending' \in [Kinds -> {PENDING_NETWORK, DOWNLOADING, IDLE}],
         gpsTasks' = gpsTasks \/ gpsTasks' \in [Kinds -> [Phases -> Nat]],
         gpsDelayed' = gpsDelayed \/ gpsDelayed' \in [Kinds -> Nat],
         gpsSupports' = gpsSupports, gpsPeriodic' = gpsPeriodic \/ gpsPeriodic' \in BOOLEAN,
         gpsLock' = gpsLock \/ gpsLock' \in Nat, gpsWanted' = gpsWanted \/ gpsWanted' \subseteq Kinds
  PROVE  AidTypes'
  BY Zenon DEF AidTypes

(* A typed queue is all that is missing.                                       *)
LEMMA TypesMakeNext ==
  ASSUME gpsQueue' \in Seq(GpsMsgs), AidTypes', ConnTypes'
  PROVE  GpsAidingTypeOK'
<1>1. ASSUME NEW i \in DOMAIN gpsQueue' PROVE gpsQueue'[i].held \in BOOLEAN
  <2>1. gpsQueue'[i] \in GpsMsgs
    OBVIOUS
  <2> QED
    BY <2>1 DEF GpsMsgs, NetMsgs, DownloadMsgs
<1> QED
  BY <1>1 DEF AidTypes, ConnTypes, GpsAidingTypeOK

(* Messages put into the queue: without the wake lock by a broadcast and by    *)
(* sendEmptyMessageDelayed, with it by sendMessage.                            *)
LEMMA PostKeepsAidInv ==
  ASSUME AidInv, NEW m \in GpsMsgs, gpsQueue' = Append(gpsQueue, m), \A k \in Kinds : m.what # Finished(k),
         gpsLock' = (IF m.held THEN gpsLock + 1 ELSE gpsLock), AidTypes', ConnTypes',
         UNCHANGED <<gpsTasks, gpsPending>>
  PROVE  AidInv'
<1>1. gpsQueue \in Seq(GpsMsgs) /\ gpsLock \in Nat /\ Cardinality(HeldIn(gpsQueue)) \in Nat
  BY HeldIsFinite DEF AidInv, GpsAidingTypeOK
<1>2. gpsQueue' \in Seq(GpsMsgs) /\ \A k \in Kinds : Reports(gpsQueue', k) = Reports(gpsQueue, k)
  BY <1>1, AidQueueGrows
<1>3. gpsLock' - gpsLock = Cardinality(HeldIn(gpsQueue')) - Cardinality(HeldIn(gpsQueue))
  <2>1. CASE m.held
    <3>1. Cardinality(HeldIn(gpsQueue')) = Cardinality(HeldIn(gpsQueue)) + 1
      BY <1>1, <2>1, AidQueueGrows
    <3> QED
      BY <1>1, <2>1, <3>1
  <2>2. CASE ~m.held
    <3>1. Cardinality(HeldIn(gpsQueue')) = Cardinality(HeldIn(gpsQueue))
      BY <1>1, <2>2, AidQueueGrows
    <3> QED
      BY <1>1, <2>2, <3>1
  <2> QED
    BY <2>1, <2>2
<1>4. GpsAidingTypeOK'
  BY <1>2, TypesMakeNext
<1>5. \A k \in Kinds : Running(gpsTasks', k) = Running(gpsTasks, k)
  BY DEF Running
<1> QED
  BY <1>2, <1>3, <1>4, <1>5, QueueStepKeepsAidInv

(* A message was taken out of the queue and its wake lock released.            *)
LEMMA TakenBalances ==
  ASSUME AidInv, gpsQueue # <<>>
  PROVE  /\ Tail(gpsQueue) \in Seq(GpsMsgs) /\ Next1 \in GpsMsgs
         /\ Released(Next1) \in Nat
         /\ Released(Next1) - gpsLock = Cardinality(HeldIn(Tail(gpsQueue))) - Cardinality(HeldIn(gpsQueue))
<1> DEFINE held == Cardinality(HeldIn(gpsQueue))
           left == Cardinality(HeldIn(Tail(gpsQueue)))
<1>1. gpsQueue \in Seq(GpsMsgs) /\ gpsLock \in Nat
  BY DEF AidInv, GpsAidingTypeOK
<1>2. /\ Tail(gpsQueue) \in Seq(GpsMsgs) /\ Next1 \in GpsMsgs
      /\ Next1.held => left = held - 1
      /\ ~Next1.held => left = held
  BY <1>1, AidQueueShrinks DEF Next1
<1>3. held \in Nat /\ left \in Nat
  BY <1>1, <1>2, HeldIsFinite
<1>4. gpsLock >= held
  <2>1. Running(gpsTasks, "ntp") \in Nat /\ Running(gpsTasks, "xtra") \in Nat
    BY RunningIsNat DEF AidInv, GpsAidingTypeOK, Kinds
  <2>2. gpsLock = held + Running(gpsTasks, "ntp") + Running(gpsTasks, "xtra")
    BY DEF AidInv, WakeLockBalances
  <2> HIDE DEF held
  <2> QED
    BY <1>3, <2>1, <2>2
<1> HIDE DEF held, left
<1>5. Released(Next1) \in Nat /\ Released(Next1) - gpsLock = left - held
  BY <1>1, <1>2, <1>3, <1>4 DEF Released
<1> QED
  BY <1>2, <1>5 DEF held, left

(* What that leaves of the reports of one kind.                                *)
LEMMA TakenReports ==
  ASSUME AidInv, gpsQueue # <<>>, NEW k \in Kinds
  PROVE  /\ Reports(gpsQueue, k) = {} => Reports(Tail(gpsQueue), k) = {}
         /\ \A i, j \in Reports(Tail(gpsQueue), k) : i = j
         /\ Next1.what = Finished(k) => Reports(gpsQueue, k) # {} /\ Reports(Tail(gpsQueue), k) = {}
<1>1. gpsQueue \in Seq(GpsMsgs) /\ \A i, j \in Reports(gpsQueue, k) : i = j
  BY DEF AidInv, OneOfAKind
<1> QED
  BY <1>1, AidQueueShrinks DEF Next1

(* The handler of a message that starts no task and reports none.              *)
LEMMA TakeKeepsAidInv ==
  ASSUME AidInv, gpsQueue # <<>>, NEW more \in Nat,
         gpsQueue' \in Seq(GpsMsgs),
         Cardinality(HeldIn(gpsQueue')) = Cardinality(HeldIn(Tail(gpsQueue))) + more,
         gpsLock' = Released(Next1) + more,
         \A k \in Kinds : Reports(gpsQueue', k) = Reports(Tail(gpsQueue), k),
         AidTypes', ConnTypes', UNCHANGED gpsTasks,
         \A k \in Kinds : gpsPending'[k] = DOWNLOADING \/ gpsPending[k] # DOWNLOADING
  PROVE  AidInv'
<1> DEFINE held == Cardinality(HeldIn(gpsQueue))
           left == Cardinality(HeldIn(Tail(gpsQueue)))
<1>1. /\ Released(Next1) \in Nat /\ Released(Next1) - gpsLock = left - held
      /\ Tail(gpsQueue) \in Seq(GpsMsgs)
  BY TakenBalances
<1>2. held \in Nat /\ left \in Nat /\ gpsLock \in Nat
  BY <1>1, HeldIsFinite DEF AidInv, GpsAidingTypeOK
<1>3. gpsLock' - gpsLock = Cardinality(HeldIn(gpsQueue')) - held
  <2> HIDE DEF held, left
  <2>1. Cardinality(HeldIn(gpsQueue')) = left + more
    BY DEF left
  <2>2. gpsLock' = Released(Next1) + more
    OBVIOUS
  <2>3. Released(Next1) \in Nat /\ Released(Next1) - gpsLock = left - held /\ more \in Nat
    BY <1>1
  <2> QED
    BY ONLY <1>2, <2>1, <2>2, <2>3
<1>4. GpsAidingTypeOK'
  BY TypesMakeNext
<1>5. \A k \in Kinds : Running(gpsTasks', k) = Running(gpsTasks, k)
  BY DEF Running
<1>6. \A k \in Kinds : /\ Reports(gpsQueue, k) = {} => Reports(gpsQueue', k) = {}
                       /\ (\A i, j \in Reports(gpsQueue, k) : i = j) => \A i, j \in Reports(gpsQueue', k) : i = j
  <2>1. \A k \in Kinds : /\ Reports(gpsQueue, k) = {} => Reports(Tail(gpsQueue), k) = {}
                         /\ \A i, j \in Reports(Tail(gpsQueue), k) : i = j
    BY TakenReports
  <2>2. \A k \in Kinds : Reports(gpsQueue', k) = Reports(Tail(gpsQueue), k)
    OBVIOUS
  <2> QED
    BY <2>1, <2>2
<1> QED
  BY <1>3, <1>4, <1>5, <1>6, QueueStepKeepsAidInv

(* A step that touches the tasks, the flag or the reports of one kind only.    *)
LEMMA OneKindKeepsAidInv ==
  ASSUME AidInv, NEW c \in Kinds, GpsAidingTypeOK', gpsQueue' \in Seq(GpsMsgs),
         gpsLock' - gpsLock = (Cardinality(HeldIn(gpsQueue')) - Cardinality(HeldIn(gpsQueue))) + (Running(gpsTasks', c) - Running(gpsTasks, c)),
         \A k \in Kinds \ {c} :
            /\ Running(gpsTasks', k) = Running(gpsTasks, k) /\ gpsPending'[k] = gpsPending[k]
            /\ Reports(gpsQueue, k) = {} => Reports(gpsQueue', k) = {}
            /\ \A i, j \in Reports(gpsQueue', k) : i = j,
         Running(gpsTasks', c) <= 1, Running(gpsTasks', c) = 1 => Reports(gpsQueue', c) = {},
         gpsPending'[c] # DOWNLOADING => Running(gpsTasks', c) = 0 /\ Reports(gpsQueue', c) = {},
         \A i, j \in Reports(gpsQueue', c) : i = j
  PROVE  AidInv'
<1>1. \A k \in Kinds : Running(gpsTasks, k) \in Nat /\ Running(gpsTasks', k) \in Nat
  BY RunningIsNat DEF AidInv, GpsAidingTypeOK
<1>2. WakeLockBalances'
  <2>1. /\ Cardinality(HeldIn(gpsQueue)) \in Nat /\ Cardinality(HeldIn(gpsQueue')) \in Nat
        /\ gpsLock \in Nat /\ gpsLock' \in Nat
    BY HeldIsFinite DEF AidInv, GpsAidingTypeOK
  <2>2. gpsLock = Cardinality(HeldIn(gpsQueue)) + Running(gpsTasks, "ntp") + Running(gpsTasks, "xtra")
    BY DEF AidInv, WakeLockBalances
  <2>3. Running(gpsTasks', "ntp") + Running(gpsTasks', "xtra") = Running(gpsTasks, "ntp") + Running(gpsTasks, "xtra") + (Running(gpsTasks', c) - Running(gpsTasks, c))
    <3>1. CASE c = "ntp"
      <4>1. Running(gpsTasks', "xtra") = Running(gpsTasks, "xtra") /\ Running(gpsTasks, "ntp") \in Nat /\ Running(gpsTasks', "ntp") \in Nat /\ Running(gpsTasks, "xtra") \in Nat
        BY <1>1, <3>1 DEF Kinds
      <4>2. Running(gpsTasks, c) = Running(gpsTasks, "ntp") /\ Running(gpsTasks', c) = Running(gpsTasks', "ntp")
        BY <3>1
      <4> QED
        BY ONLY <4>1, <4>2
    <3>2. CASE c = "xtra"
      <4>1. Running(gpsTasks', "ntp") = Running(gpsTasks, "ntp") /\ Running(gpsTasks, "xtra") \in Nat /\ Running(gpsTasks', "xtra") \in Nat /\ Running(gpsTasks, "ntp") \in Nat
        BY <1>1, <3>2 DEF Kinds
      <4>2. Running(gpsTasks, c) = Running(gpsTasks, "xtra") /\ Running(gpsTasks', c) = Running(gpsTasks', "xtra")
        BY <3>2
      <4> QED
        BY ONLY <4>1, <4>2
    <3> QED
      BY <3>1, <3>2 DEF Kinds
  <2>4. /\ Running(gpsTasks, "ntp") \in Nat /\ Running(gpsTasks, "xtra") \in Nat /\ Running(gpsTasks', "ntp") \in Nat /\ Running(gpsTasks', "xtra") \in Nat
        /\ Running(gpsTasks, c) \in Nat /\ Running(gpsTasks', c) \in Nat
    BY <1>1 DEF Kinds
  <2>5. gpsLock' = Cardinality(HeldIn(gpsQueue')) + Running(gpsTasks', "ntp") + Running(gpsTasks', "xtra")
    <3>1. gpsLock' - gpsLock = (Cardinality(HeldIn(gpsQueue')) - Cardinality(HeldIn(gpsQueue)))
                               + (Running(gpsTasks', c) - Running(gpsTasks, c))
      OBVIOUS
    <3> QED
      BY ONLY <2>1, <2>2, <2>3, <2>4, <3>1, LockMoves
  <2>6. HeldIn(gpsQueue)' = HeldIn(gpsQueue')
    BY DEF HeldIn
  <2> QED
    BY <2>5, <2>6 DEF WakeLockBalances
<1>3. OneOfAKind'
  <2> SUFFICES ASSUME NEW k \in Kinds
               PROVE  /\ Running(gpsTasks', k) <= 1
                      /\ Running(gpsTasks', k) = 1 => Reports(gpsQueue', k) = {}
                      /\ gpsPending'[k] # DOWNLOADING => Running(gpsTasks', k) = 0 /\ Reports(gpsQueue', k) = {}
                      /\ \A i, j \in Reports(gpsQueue', k) : i = j
    BY DEF OneOfAKind, Reports
  <2>1. /\ Running(gpsTasks, k) <= 1
        /\ Running(gpsTasks, k) = 1 => Reports(gpsQueue, k) = {}
        /\ gpsPending[k] # DOWNLOADING => Running(gpsTasks, k) = 0 /\ Reports(gpsQueue, k) = {}
    BY DEF AidInv, OneOfAKind
  <2>2. CASE k = c
    BY <2>2
  <2>3. CASE k # c
    BY <2>1, <2>3
  <2> QED
    BY <2>2, <2>3
<1> QED
  BY <1>2, <1>3 DEF AidInv

(* handleInjectNtpTime and handleDownloadXtraData: dropped while a download of *)
(* the kind is on, else a task with a wake lock of its own, or the network is  *)
(* waited for.                                                                 *)
LEMMA DownloadKeepsAidInv ==
  ASSUME AidInv, NEW c \in Kinds, HandleDownload(c)
  PROVE  AidInv'
<1>1. gpsQueue # <<>> /\ gpsQueue' = Tail(gpsQueue)
  BY DEF HandleDownload, Is
<1>2. /\ AidTypes /\ ConnTypes /\ ConnTypes'
      /\ UNCHANGED <<gpsLink, gpsNet, gpsDelayed, gpsSupports, gpsPeriodic>>
  BY DEF AidInv, GpsAidingTypeOK, AidTypes, ConnTypes, HandleDownload, gpsConnVars
<1>3. /\ Tail(gpsQueue) \in Seq(GpsMsgs) /\ Released(Next1) \in Nat
      /\ Released(Next1) - gpsLock = Cardinality(HeldIn(Tail(gpsQueue))) - Cardinality(HeldIn(gpsQueue))
  BY <1>1, TakenBalances
<1>4. Cardinality(HeldIn(Tail(gpsQueue))) \in Nat /\ Cardinality(HeldIn(gpsQueue)) \in Nat /\ gpsLock \in Nat
  BY <1>3, HeldIsFinite DEF AidInv, GpsAidingTypeOK
<1>5. CASE UNCHANGED gpsTasks /\ gpsLock' = Released(Next1)
  <2>1. /\ gpsPending' \in [Kinds -> {PENDING_NETWORK, DOWNLOADING, IDLE}] /\ gpsWanted' \subseteq Kinds
        /\ \A k \in Kinds : gpsPending'[k] = DOWNLOADING \/ gpsPending[k] # DOWNLOADING
    BY <1>2, <1>5 DEF HandleDownload, AidTypes, Busy
  <2>2. AidTypes'
    BY <1>2, <1>3, <1>5, <2>1 DEF AidTypes
  <2>3. gpsLock' = Released(Next1) + 0 /\ Cardinality(HeldIn(gpsQueue')) = Cardinality(HeldIn(Tail(gpsQueue))) + 0
    BY <1>1, <1>3, <1>4, <1>5
  <2> QED
    BY <1>1, <1>2, <1>3, <1>5, <2>1, <2>2, <2>3, TakeKeepsAidInv
<1>6. CASE ~(UNCHANGED gpsTasks /\ gpsLock' = Released(Next1))
  <2>1. /\ gpsPending[c] # DOWNLOADING /\ gpsWanted' = gpsWanted \cup {c}
        /\ gpsPending' = [gpsPending EXCEPT ![c] = DOWNLOADING]
        /\ gpsTasks' = [gpsTasks EXCEPT ![c]["work"] = @ + 1]
        /\ gpsLock' = Released(Next1) + 1
    BY <1>6 DEF HandleDownload, Busy
  <2>8. gpsTasks' = [gpsTasks EXCEPT ![c] = [gpsTasks[c] EXCEPT !["work"] = gpsTasks[c]["work"] + 1]]
    BY <2>1
  <2>2. /\ gpsTasks' \in [Kinds -> [Phases -> Nat]] /\ Running(gpsTasks', c) = Running(gpsTasks, c) + 1
        /\ \A k \in Kinds \ {c} : Running(gpsTasks', k) = Running(gpsTasks, k)
    <3>1. gpsTasks \in [Kinds -> [Phases -> Nat]] /\ "work" \in Phases
      BY <1>2 DEF AidTypes, Phases
    <3>2. 1 \in {-1, 1} /\ 1 # -1
      OBVIOUS
    <3> QED
      BY ONLY <2>8, <3>1, <3>2, TaskCounts
  <2>3. Running(gpsTasks, c) = 0 /\ Reports(gpsQueue, c) = {}
    BY <2>1 DEF AidInv, OneOfAKind
  <2>4. AidTypes'
    BY <1>2, <1>3, <2>1, <2>2 DEF AidTypes
  <2>5. GpsAidingTypeOK' /\ gpsQueue' \in Seq(GpsMsgs)
    BY <1>1, <1>2, <1>3, <2>4, TypesMakeNext
  <2>6. gpsPending'[c] = DOWNLOADING /\ \A k \in Kinds \ {c} : gpsPending'[k] = gpsPending[k]
    BY <1>2, <2>1 DEF AidTypes
  <2>7. /\ Running(gpsTasks', c) = 1 /\ Reports(gpsQueue', c) = {}
        /\ gpsLock' - gpsLock = (Cardinality(HeldIn(gpsQueue')) - Cardinality(HeldIn(gpsQueue))) + (Running(gpsTasks', c) - Running(gpsTasks, c))
    <3>1. Running(gpsTasks', c) = 1
      BY ONLY <2>2, <2>3
    <3>3. Reports(gpsQueue', c) = {}
      BY <1>1, <2>3, TakenReports
    <3>2. gpsLock' - gpsLock = (Cardinality(HeldIn(gpsQueue')) - Cardinality(HeldIn(gpsQueue))) + 1
      BY <1>1, <1>3, <1>4, <2>1
    <3> QED
      BY <2>3, <3>1, <3>2, <3>3
  <2>9. \A k \in Kinds \ {c} :
          /\ Running(gpsTasks', k) = Running(gpsTasks, k) /\ gpsPending'[k] = gpsPending[k]
          /\ Reports(gpsQueue, k) = {} => Reports(gpsQueue', k) = {}
          /\ \A i, j \in Reports(gpsQueue', k) : i = j
    <3> SUFFICES ASSUME NEW k \in Kinds \ {c}
                 PROVE  /\ Running(gpsTasks', k) = Running(gpsTasks, k) /\ gpsPending'[k] = gpsPending[k]
                        /\ Reports(gpsQueue, k) = {} => Reports(gpsQueue', k) = {}
                        /\ \A i, j \in Reports(gpsQueue', k) : i = j
      OBVIOUS
    <3>1. Running(gpsTasks', k) = Running(gpsTasks, k) /\ gpsPending'[k] = gpsPending[k]
      BY <2>2, <2>6
    <3>2. (Reports(gpsQueue, k) = {} => Reports(Tail(gpsQueue), k) = {}) /\ \A i, j \in Reports(Tail(gpsQueue), k) : i = j
      BY <1>1, TakenReports
    <3> QED
      BY <1>1, <3>1, <3>2
  <2>10. /\ Running(gpsTasks', c) <= 1 /\ Reports(gpsQueue', c) = {} /\ gpsPending'[c] = DOWNLOADING
         /\ \A i, j \in Reports(gpsQueue', c) : i = j
    BY <2>6, <2>7
  <2>11. gpsLock' - gpsLock = (Cardinality(HeldIn(gpsQueue')) - Cardinality(HeldIn(gpsQueue)))
                              + (Running(gpsTasks', c) - Running(gpsTasks, c))
    BY <2>7
  <2>12. AidInv /\ c \in Kinds
    OBVIOUS
  <2> QED
    BY ONLY <2>5, <2>9, <2>10, <2>11, <2>12, OneKindKeepsAidInv
<1> QED
  BY <1>5, <1>6

(* The FINISHED message of a task makes room for the next download.            *)
LEMMA FinishedKeepsAidInv ==
  ASSUME AidInv, HandleFinished
  PROVE  AidInv'
<1>1. PICK c \in Kinds :
        /\ Is(Finished(c)) /\ Handled /\ gpsPending' = [gpsPending EXCEPT ![c] = IDLE]
        /\ UNCHANGED <<gpsLink, gpsNet, gpsTasks, gpsDelayed, gpsSupports, gpsPeriodic, gpsWanted, gpsConnVars>>
  BY DEF HandleFinished
<1>2. gpsQueue # <<>> /\ gpsQueue' = Tail(gpsQueue) /\ gpsLock' = Released(Next1) /\ Next1.what = Finished(c)
  BY <1>1 DEF Is, Handled
<1>3. /\ Tail(gpsQueue) \in Seq(GpsMsgs) /\ Released(Next1) \in Nat
      /\ Released(Next1) - gpsLock = Cardinality(HeldIn(Tail(gpsQueue))) - Cardinality(HeldIn(gpsQueue))
      /\ Reports(gpsQueue, c) # {} /\ Reports(Tail(gpsQueue), c) = {}
  <2>2. Reports(gpsQueue, c) # {} /\ Reports(Tail(gpsQueue), c) = {}
    BY <1>2, TakenReports
  <2> QED
    BY <1>2, <2>2, TakenBalances
<1>4. AidTypes' /\ ConnTypes'
  <2>1. AidTypes /\ ConnTypes
    BY DEF AidInv, GpsAidingTypeOK, AidTypes, ConnTypes
  <2>2. gpsPending' \in [Kinds -> {PENDING_NETWORK, DOWNLOADING, IDLE}] /\ gpsLock' \in Nat
    BY <1>1, <1>2, <1>3, <2>1 DEF AidTypes
  <2> QED
    BY <1>1, <2>1, <2>2, ConnTypesStay, AidTypesStay
<1>5. GpsAidingTypeOK' /\ gpsQueue' \in Seq(GpsMsgs)
  BY <1>2, <1>3, <1>4, TypesMakeNext
<1>6. \A k \in Kinds : Running(gpsTasks', k) = Running(gpsTasks, k) /\ Running(gpsTasks, k) \in Nat
  BY <1>1, RunningIsNat DEF AidInv, GpsAidingTypeOK
<1>7. Running(gpsTasks, c) = 0
  <2>1. Running(gpsTasks, c) <= 1 /\ Running(gpsTasks, c) # 1
    BY <1>3 DEF AidInv, OneOfAKind
  <2> QED
    BY <1>6, <2>1
<1>8. \A k \in Kinds \ {c} : gpsPending'[k] = gpsPending[k]
  BY <1>1 DEF AidInv, GpsAidingTypeOK
<1>9. /\ Cardinality(HeldIn(Tail(gpsQueue))) \in Nat /\ Cardinality(HeldIn(gpsQueue)) \in Nat /\ gpsLock \in Nat
  BY <1>3, HeldIsFinite DEF AidInv, GpsAidingTypeOK
<1>10. gpsLock' - gpsLock = (Cardinality(HeldIn(gpsQueue')) - Cardinality(HeldIn(gpsQueue))) + (Running(gpsTasks', c) - Running(gpsTasks, c))
  BY <1>2, <1>3, <1>6, <1>7, <1>9
<1>11. Running(gpsTasks', c) = 0 /\ Reports(gpsQueue', c) = {}
  BY <1>2, <1>3, <1>6, <1>7
<1>12. \A k \in Kinds \ {c} :
         /\ Running(gpsTasks', k) = Running(gpsTasks, k) /\ gpsPending'[k] = gpsPending[k]
         /\ Reports(gpsQueue, k) = {} => Reports(gpsQueue', k) = {}
         /\ \A i, j \in Reports(gpsQueue', k) : i = j
  <2> SUFFICES ASSUME NEW k \in Kinds \ {c}
               PROVE  /\ Running(gpsTasks', k) = Running(gpsTasks, k) /\ gpsPending'[k] = gpsPending[k]
                      /\ Reports(gpsQueue, k) = {} => Reports(gpsQueue', k) = {}
                      /\ \A i, j \in Reports(gpsQueue', k) : i = j
    OBVIOUS
  <2>1. Running(gpsTasks', k) = Running(gpsTasks, k) /\ gpsPending'[k] = gpsPending[k]
    BY <1>6, <1>8
  <2>2. (Reports(gpsQueue, k) = {} => Reports(Tail(gpsQueue), k) = {}) /\ \A i, j \in Reports(Tail(gpsQueue), k) : i = j
    BY <1>2, TakenReports
  <2> QED
    BY <1>2, <2>1, <2>2
<1>13. Running(gpsTasks', c) <= 1 /\ Running(gpsTasks', c) # 1
  BY <1>11
<1> QED
  BY <1>5, <1>10, <1>11, <1>12, <1>13, OneKindKeepsAidInv

(* A task that ends posts its FINISHED message and gives its wake lock back.   *)
LEMMA TaskEndKeepsAidInv ==
  ASSUME AidInv, NEW c \in Kinds, TaskFinish(c)
  PROVE  AidInv'
<1> DEFINE m == Msg(Finished(c), <<>>, TRUE)
<1>1. PICK outcome \in {"ok", "failed"} :
        /\ gpsTasks[c][outcome] > 0
        /\ gpsTasks' = [gpsTasks EXCEPT ![c][outcome] = @ - 1]
        /\ sendMessages(gpsQueue, gpsLock - 1, <<m>>)
        /\ gpsDelayed' = IF Rearms(c, outcome) THEN [gpsDelayed EXCEPT ![c] = @ + 1] ELSE gpsDelayed
        /\ UNCHANGED <<gpsLink, gpsNet, gpsPending, gpsSupports, gpsPeriodic, gpsWanted, gpsConnVars>>
  BY DEF TaskFinish
<1>2. m \in GpsMsgs /\ m.held /\ m.what = Finished(c) /\ Len(<<m>>) = 1
  BY DEF Kinds, Msg, Finished, GpsMsgs, DownloadMsgs
<1>3. \A k \in Kinds \ {c} : Finished(k) # Finished(c)
  BY KindsOfMessages
<1> HIDE DEF m
<1>4. gpsQueue \in Seq(GpsMsgs) /\ gpsLock \in Nat /\ gpsTasks \in [Kinds -> [Phases -> Nat]] /\ gpsDelayed \in [Kinds -> Nat]
  BY DEF AidInv, GpsAidingTypeOK
<1>5. /\ gpsQueue' \in Seq(GpsMsgs) /\ gpsQueue' = Append(gpsQueue, m)
      /\ Cardinality(HeldIn(gpsQueue')) = Cardinality(HeldIn(gpsQueue)) + 1
      /\ \A k \in Kinds \ {c} : Reports(gpsQueue', k) = Reports(gpsQueue, k)
      /\ Reports(gpsQueue', c) = Reports(gpsQueue, c) \cup {Len(gpsQueue) + 1}
  <2>1. gpsQueue' = gpsQueue \o <<m>> /\ gpsQueue \o <<m>> = Append(gpsQueue, m)
    BY <1>1, <1>2, <1>4, AidQueueGrows DEF sendMessages
  <2>2. /\ Append(gpsQueue, m) \in Seq(GpsMsgs)
        /\ Cardinality(HeldIn(Append(gpsQueue, m))) = Cardinality(HeldIn(gpsQueue)) + 1
        /\ \A k \in Kinds : m.what # Finished(k) => Reports(Append(gpsQueue, m), k) = Reports(gpsQueue, k)
        /\ \A k \in Kinds : m.what = Finished(k) => Reports(Append(gpsQueue, m), k) = Reports(gpsQueue, k) \cup {Len(gpsQueue) + 1}
    BY <1>2, <1>4, AidQueueGrows
  <2>3. gpsQueue' = Append(gpsQueue, m)
    BY <2>1
  <2> QED
    BY <1>2, <1>3, <2>2, <2>3
<1>6. gpsLock' = gpsLock
  BY <1>1, <1>2, <1>4 DEF sendMessages
<1>7. /\ gpsTasks' \in [Kinds -> [Phases -> Nat]] /\ Running(gpsTasks', c) = Running(gpsTasks, c) - 1
      /\ \A k \in Kinds \ {c} : Running(gpsTasks', k) = Running(gpsTasks, k)
  <2>1. gpsTasks[c][outcome] + (-1) = gpsTasks[c][outcome] - 1 /\ outcome \in Phases
    BY <1>4 DEF Phases
  <2>2. gpsTasks' = [gpsTasks EXCEPT ![c] = [gpsTasks[c] EXCEPT ![outcome] = gpsTasks[c][outcome] + (-1)]]
    BY <1>1, <2>1
  <2>3. Running(gpsTasks, c) \in Nat
    BY <1>4, RunningIsNat
  <2> QED
    BY <1>1, <1>4, <2>1, <2>2, <2>3, TaskCounts
<1>8. Running(gpsTasks, c) = 1 /\ Reports(gpsQueue, c) = {} /\ gpsPending[c] = DOWNLOADING
  <2>1. Running(gpsTasks, c) > 0 /\ Running(gpsTasks, c) \in Nat
    <3>1. outcome \in Phases
      BY DEF Phases
    <3>2. /\ Running(gpsTasks, c) \in Nat /\ gpsTasks[c][outcome] \in Nat
          /\ gpsTasks[c][outcome] <= Running(gpsTasks, c)
      BY <1>4, <3>1, RunningIsNat
    <3> QED
      BY <1>1, <3>2
  <2> QED
    BY <2>1 DEF AidInv, OneOfAKind
<1>9. AidTypes' /\ ConnTypes'
  <2>1. AidTypes /\ ConnTypes
    BY DEF AidInv, GpsAidingTypeOK, AidTypes, ConnTypes
  <2>2. gpsDelayed' \in [Kinds -> Nat]
    BY <1>1, <1>4
  <2> QED
    BY <1>1, <1>6, <1>7, <2>1, <2>2, ConnTypesStay, AidTypesStay
<1>10. GpsAidingTypeOK'
  BY <1>5, <1>9, TypesMakeNext
<1>11. \A k \in Kinds : \A i, j \in Reports(gpsQueue, k) : i = j
  BY DEF AidInv, OneOfAKind
<1>12. /\ gpsLock' - gpsLock = (Cardinality(HeldIn(gpsQueue')) - Cardinality(HeldIn(gpsQueue))) + (Running(gpsTasks', c) - Running(gpsTasks, c))
       /\ Running(gpsTasks', c) = 0
  <2>1. Cardinality(HeldIn(gpsQueue)) \in Nat
    BY <1>4, HeldIsFinite
  <2> QED
    BY <1>4, <1>5, <1>6, <1>7, <1>8, <2>1
<1>13. \A i, j \in Reports(gpsQueue', c) : i = j
  BY <1>5, <1>8
<1>14. \A k \in Kinds \ {c} :
         /\ Running(gpsTasks', k) = Running(gpsTasks, k) /\ gpsPending'[k] = gpsPending[k]
         /\ Reports(gpsQueue, k) = {} => Reports(gpsQueue', k) = {}
         /\ \A i, j \in Reports(gpsQueue', k) : i = j
  BY <1>1, <1>5, <1>7, <1>11
<1>15. Running(gpsTasks', c) <= 1 /\ Running(gpsTasks', c) # 1 /\ gpsPending'[c] = DOWNLOADING
  BY <1>1, <1>8, <1>12
<1> QED
  BY <1>5, <1>10, <1>12, <1>13, <1>14, <1>15, OneKindKeepsAidInv

(* Every step of the handler, of a task, of a timer and of the engine's thread *)
(* keeps AidInv.                                                               *)
LEMMA AidStep == AidInv /\ [GpsAidingNext]_gpsAidVars => AidInv'
<1> SUFFICES ASSUME AidInv, [GpsAidingNext]_gpsAidVars PROVE AidInv'
  OBVIOUS
<1>1. AidTypes /\ ConnTypes /\ gpsQueue \in Seq(GpsMsgs)
  BY DEF AidInv, GpsAidingTypeOK, AidTypes, ConnTypes
<1>2. CASE UNCHANGED gpsAidVars
  <2>1. AidTypes' /\ ConnTypes' /\ gpsQueue' \in Seq(GpsMsgs)
    BY <1>1, <1>2, ConnTypesStay, AidTypesStay DEF gpsAidVars
  <2>2. GpsAidingTypeOK'
    BY <2>1, TypesMakeNext
  <2>3. UNCHANGED <<gpsQueue, gpsTasks, gpsPending, gpsLock>>
    BY <1>2 DEF gpsAidVars
  <2>4. gpsLock' - gpsLock = Cardinality(HeldIn(gpsQueue')) - Cardinality(HeldIn(gpsQueue))
    BY <1>1, <2>3, HeldIsFinite DEF AidTypes
  <2> QED
    BY <2>1, <2>2, <2>3, <2>4, QueueStepKeepsAidInv
<1>3. CASE LinkChange \/ SuplChange \/ \E k \in Kinds : DelayedMessage(k)
  <2>1. PICK m \in GpsMsgs : gpsQueue' = Append(gpsQueue, m) /\ ~m.held /\ \A k \in Kinds : m.what # Finished(k)
    <3>1. CASE LinkChange
      <4> DEFINE m == Msg("CONNECTIVITY_CHANGE", <<gpsLink', "other">>, FALSE)
      <4>1. gpsQueue' = Append(gpsQueue, m) /\ gpsLink' \in BOOLEAN
        BY <1>1, <3>1 DEF LinkChange, AidTypes
      <4>2. m \in GpsMsgs /\ ~m.held /\ \A k \in Kinds : m.what # Finished(k)
        BY <4>1, KindsOfMessages DEF Msg
      <4> QED
        BY <4>1, <4>2
    <3>2. CASE SuplChange
      <4> DEFINE m == Msg("CONNECTIVITY_CHANGE", <<gpsLink, "supl">>, FALSE)
      <4>1. gpsQueue' = Append(gpsQueue, m) /\ gpsLink \in BOOLEAN
        BY <1>1, <3>2 DEF SuplChange, AidTypes
      <4>2. m \in GpsMsgs /\ ~m.held /\ \A k \in Kinds : m.what # Finished(k)
        BY <4>1, KindsOfMessages DEF Msg
      <4> QED
        BY <4>1, <4>2
    <3>3. ASSUME NEW c \in Kinds, DelayedMessage(c)
          PROVE  \E m \in GpsMsgs : gpsQueue' = Append(gpsQueue, m) /\ ~m.held /\ \A k \in Kinds : m.what # Finished(k)
      <4> DEFINE m == Msg(Download(c), <<>>, FALSE)
      <4>1. gpsQueue' = Append(gpsQueue, m)
        BY <3>3 DEF DelayedMessage
      <4>2. m \in GpsMsgs /\ ~m.held /\ \A k \in Kinds : m.what # Finished(k)
        BY KindsOfMessages DEF Msg
      <4> QED
        BY <4>1, <4>2
    <3> QED
      BY <1>3, <3>1, <3>2, <3>3
  <2>2. gpsLock' = gpsLock /\ UNCHANGED <<gpsTasks, gpsPending>> /\ AidTypes' /\ ConnTypes'
    <3>1. CASE LinkChange
      <4>1. gpsLink' \in BOOLEAN
        BY <3>1 DEF LinkChange
      <4> QED
        BY <1>1, <3>1, <4>1, ConnTypesStay, AidTypesStay DEF LinkChange
    <3>2. CASE SuplChange
      <4>1. ConnTypes'
        BY <1>1, <3>2 DEF SuplChange, ConnTypes
      <4> QED
        BY <1>1, <3>2, <4>1, AidTypesStay DEF SuplChange
    <3>3. ASSUME NEW c \in Kinds, DelayedMessage(c)
          PROVE  gpsLock' = gpsLock /\ UNCHANGED <<gpsTasks, gpsPending>> /\ AidTypes' /\ ConnTypes'
      <4>1. gpsDelayed' \in [Kinds -> Nat]
        BY <1>1, <3>3 DEF DelayedMessage, AidTypes
      <4> QED
        BY <1>1, <3>3, <4>1, ConnTypesStay, AidTypesStay DEF DelayedMessage
    <3> QED
      BY <1>3, <3>1, <3>2, <3>3
  <2> QED
    BY <2>1, <2>2, PostKeepsAidInv
<1>4. CASE requestUtcTime \/ xtraDownloadRequest \/ setEngineCapabilities
  <2>1. PICK c \in Kinds : sendMessages(gpsQueue, gpsLock, <<Msg(Download(c), <<>>, TRUE)>>)
    BY <1>4 DEF requestUtcTime, xtraDownloadRequest, setEngineCapabilities, Download, Kinds
  <2> DEFINE m == Msg(Download(c), <<>>, TRUE)
  <2>2. m \in GpsMsgs /\ m.held /\ (\A k \in Kinds : m.what # Finished(k)) /\ Len(<<m>>) = 1
    BY KindsOfMessages DEF Msg
  <2>3. gpsQueue' = gpsQueue \o <<m>> /\ gpsLock' = gpsLock + 1
    BY <2>1 DEF sendMessages
  <2> HIDE DEF m
  <2>4. gpsQueue' = Append(gpsQueue, m)
    BY <1>1, <2>2, <2>3, AidQueueGrows
  <2>5. UNCHANGED <<gpsTasks, gpsPending>> /\ AidTypes' /\ ConnTypes'
    <3>1. gpsLock' \in Nat
      BY <1>1, <2>3 DEF AidTypes
    <3>2. /\ UNCHANGED <<gpsLink, gpsNet, gpsPending, gpsTasks, gpsDelayed, gpsSupports, gpsWanted, gpsConnVars>>
          /\ gpsPeriodic' \in BOOLEAN
      BY <1>1, <1>4 DEF requestUtcTime, xtraDownloadRequest, setEngineCapabilities, AidTypes
    <3> QED
      BY <1>1, <3>1, <3>2, ConnTypesStay, AidTypesStay
  <2> QED
    BY <2>2, <2>3, <2>4, <2>5, PostKeepsAidInv
<1>5. CASE onReceive \/ handleUpdateNetworkState
  <2>1. gpsQueue # <<>> /\ Next1.what \in {"CONNECTIVITY_CHANGE", "UPDATE_NETWORK_STATE"}
    BY <1>5 DEF onReceive, handleUpdateNetworkState, Is
  <2>2. Tail(gpsQueue) \in Seq(GpsMsgs) /\ Next1 \in GpsMsgs /\ Released(Next1) \in Nat
    BY <2>1, TakenBalances
  <2>3. Next1.arg \in BOOLEAN \X {"other", "supl"}
    BY <2>1, <2>2 DEF GpsMsgs, NetMsgs, DownloadMsgs
  <2>4. CASE onReceive
    <3> DEFINE m == Msg("UPDATE_NETWORK_STATE", Next1.arg, TRUE)
    <3>1. m \in GpsMsgs /\ m.held /\ (\A k \in Kinds : m.what # Finished(k)) /\ Len(<<m>>) = 1
      BY <2>3, KindsOfMessages DEF Msg, GpsMsgs, NetMsgs
    <3>2. gpsQueue' = Tail(gpsQueue) \o <<m>> /\ gpsLock' = Released(Next1) + 1
      BY <2>4 DEF onReceive, sendMessages
    <3> HIDE DEF m
    <3>3. /\ gpsQueue' \in Seq(GpsMsgs) /\ Cardinality(HeldIn(gpsQueue')) = Cardinality(HeldIn(Tail(gpsQueue))) + 1
          /\ \A k \in Kinds : Reports(gpsQueue', k) = Reports(Tail(gpsQueue), k)
      <4>1. Tail(gpsQueue) \o <<m>> = Append(Tail(gpsQueue), m)
        BY <2>2, <3>1, AidQueueGrows
      <4>2. /\ Append(Tail(gpsQueue), m) \in Seq(GpsMsgs)
            /\ Cardinality(HeldIn(Append(Tail(gpsQueue), m))) = Cardinality(HeldIn(Tail(gpsQueue))) + 1
            /\ \A k \in Kinds : Reports(Append(Tail(gpsQueue), m), k) = Reports(Tail(gpsQueue), k)
        BY <2>2, <3>1, AidQueueGrows
      <4> QED
        BY <3>2, <4>1, <4>2
    <3>4. UNCHANGED <<gpsTasks, gpsPending>> /\ AidTypes' /\ ConnTypes'
      <4>1. gpsLock' \in Nat
        BY <2>2, <3>2
      <4> QED
        BY <1>1, <2>4, <4>1, ConnTypesStay, AidTypesStay DEF onReceive
    <3> QED
      BY <2>1, <3>2, <3>3, <3>4, TakeKeepsAidInv
  <2>5. CASE handleUpdateNetworkState
    <3> DEFINE up == Next1.arg[1]
               more == Len(Retries(up))
    <3>1. up \in BOOLEAN
      BY <2>3
    <3>2. gpsQueue' = Tail(gpsQueue) \o Retries(up) /\ gpsLock' = Released(Next1) + more /\ gpsNet' = up
      BY <2>5 DEF handleUpdateNetworkState, sendMessages
    <3>3. more \in Nat
      BY DEF Retries, Retry
    <3>4. /\ gpsQueue' \in Seq(GpsMsgs) /\ Cardinality(HeldIn(gpsQueue')) = Cardinality(HeldIn(Tail(gpsQueue))) + more
          /\ \A k \in Kinds : Reports(gpsQueue', k) = Reports(Tail(gpsQueue), k)
      BY <2>2, <3>2, RetriesAreHeld
    <3>5. ConnTypes'
      BY <1>1, <2>5, <3>1 DEF handleUpdateNetworkState, ConnTypes
    <3>6. UNCHANGED <<gpsLink, gpsPending, gpsTasks, gpsDelayed, gpsSupports, gpsPeriodic, gpsWanted>>
      BY <2>5 DEF handleUpdateNetworkState
    <3> HIDE DEF more, up
    <3>7. AidTypes'
      BY <1>1, <2>2, <3>1, <3>2, <3>3, <3>6 DEF AidTypes
    <3> QED
      BY <2>1, <3>2, <3>3, <3>4, <3>5, <3>6, <3>7, TakeKeepsAidInv
  <2> QED
    BY <1>5, <2>4, <2>5
<1>6. CASE handleInjectNtpTime \/ handleDownloadXtraData
  <2>1. "ntp" \in Kinds /\ "xtra" \in Kinds
    BY DEF Kinds
  <2> QED
    BY <1>6, <2>1, DownloadKeepsAidInv DEF handleInjectNtpTime, handleDownloadXtraData
<1>7. CASE HandleFinished
  BY <1>7, FinishedKeepsAidInv
<1>8. ASSUME NEW c \in Kinds, TaskWork(c) PROVE AidInv'
  <2>1. PICK to \in {"ok", "failed"} : gpsTasks[c]["work"] > 0 /\ gpsTasks' = Moved(c, to)
    BY <1>8 DEF TaskWork
  <2>2. gpsTasks' \in [Kinds -> [Phases -> Nat]] /\ \A k \in Kinds : Running(gpsTasks', k) = Running(gpsTasks, k)
    BY <1>1, <2>1, TaskMoves DEF AidTypes
  <2>3. /\ UNCHANGED <<gpsQueue, gpsLink, gpsNet, gpsPending, gpsDelayed, gpsSupports, gpsPeriodic, gpsLock, gpsConnVars>>
        /\ gpsWanted' \subseteq Kinds
    BY <1>1, <1>8 DEF TaskWork, AidTypes
  <2>4. AidTypes' /\ ConnTypes'
    BY <1>1, <2>2, <2>3, ConnTypesStay, AidTypesStay
  <2>5. GpsAidingTypeOK' /\ gpsQueue' \in Seq(GpsMsgs)
    BY <1>1, <2>3, <2>4, TypesMakeNext
  <2>6. gpsLock' - gpsLock = Cardinality(HeldIn(gpsQueue')) - Cardinality(HeldIn(gpsQueue))
    BY <1>1, <2>3, HeldIsFinite DEF AidTypes
  <2> QED
    BY <2>2, <2>3, <2>5, <2>6, QueueStepKeepsAidInv
<1>9. CASE \E c \in Kinds : TaskFinish(c)
  BY <1>9, TaskEndKeepsAidInv
<1>10. CASE reportAGpsRequest \/ startUsingNetworkFeature \/ reportAGpsResult \/ reportAGpsRelease
  <2>1. UNCHANGED gpsElse
    BY <1>10 DEF reportAGpsRequest, startUsingNetworkFeature, reportAGpsResult, reportAGpsRelease
  <2>2. ConnTypes'
    BY <1>1, <1>10 DEF reportAGpsRequest, AgpsRequest, startUsingNetworkFeature, reportAGpsResult, reportAGpsRelease, ConnTypes
  <2>3. AidTypes' /\ gpsQueue' \in Seq(GpsMsgs)
    BY <1>1, <2>1 DEF gpsElse, AidTypes
  <2>4. GpsAidingTypeOK'
    BY <2>2, <2>3, TypesMakeNext
  <2> QED
    BY <2>1, <2>3, <2>4 DEF gpsElse, AidInv, WakeLockBalances, OneOfAKind, Running, HeldIn, Reports
<1> QED
  BY <1>2, <1>3, <1>4, <1>5, <1>6, <1>7, <1>8, <1>9, <1>10
  DEF GpsAidingNext, GpsDownloadNext, GpsConnNext, GpsHandle, GpsTask

(* The wake lock of GpsLocationProvider counts exactly the messages that hold  *)
(* it and the tasks that run (sendMessage, handleMessage, handleInjectNtpTime, *)
(* handleDownloadXtraData), and one download of a kind runs at a time, for any *)
(* number of requests, network changes and failures.                           *)
THEOREM DownloadsBalance == GpsAidingSpec => []DownloadsAreBalanced
<1>1. AidInv => DownloadsAreBalanced
  <2> SUFFICES ASSUME AidInv PROVE DownloadsAreBalanced
    OBVIOUS
  <2>1. ASSUME NEW k \in Kinds PROVE gpsTasks[k]["work"] <= 1
    <3>1. Running(gpsTasks, k) <= 1 /\ gpsTasks[k] \in [Phases -> Nat]
      BY DEF AidInv, OneOfAKind, GpsAidingTypeOK
    <3> QED
      BY <3>1 DEF Running, Phases
  <2> QED
    BY <2>1 DEF AidInv, DownloadsAreBalanced, OneDownloadAtATime
<1> QED
  BY <1>1, AidInvAtStart, AidStep, PTL DEF GpsAidingSpec
=============================================================================
