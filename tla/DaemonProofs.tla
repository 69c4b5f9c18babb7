---------------------------- MODULE DaemonProofs ----------------------------
(***************************************************************************)
(* Three small components that several threads enter: healthd's board      *)
(* library, which shares the fuel gauge helper between two threads, the    *)
(* client of the modem status daemon, whose reader a caller stops, and the *)
(* engine of the GPS location provider, which its own handler, callbacks   *)
(* and alarms start and stop.                                              *)
(***************************************************************************)
EXTENDS HealthdBoard, StmdClient, GpsNavigation, WellFoundedInduction, TLAPS

(***************************************************************************)
(* healthd: the fuel gauge helper is run by one thread at a time, for any  *)
(* levels and any number of updates, events and failing threads.           *)
(***************************************************************************)

Holders == (IF hbUpdate = "helper" THEN 1 ELSE 0) + (IF hbThread = "helper" THEN 1 ELSE 0)

(* The semaphore and the threads that run the helper add up to its first value *)
(* (healthd_board_init's sem_init with 1).                                     *)
SemBalances ==
  /\ hbSem \in Nat
  /\ hbBoard.semValid => hbSem + Holders = 1

(* healthd_board_init makes the semaphore before any thread can wait on it.    *)
LEMMA BalanceAtStart == HealthdInit => SemBalances
  BY DEF HealthdInit, SemBalances, Holders, FreshSem

(* Every sem_wait is matched by one sem_post of the thread that waited, in     *)
(* execfn and in healthd_process_inotify_evt.                                  *)
LEMMA BalanceIsKept == SemBalances /\ [HealthdNext]_hbVars => SemBalances'
<1> SUFFICES ASSUME SemBalances, [HealthdNext]_hbVars PROVE SemBalances'
  OBVIOUS
<1> USE DEF SemBalances, Holders
<1>1. ASSUME NEW p \in Props, healthd_board_battery_update(p) PROVE SemBalances'
  BY <1>1 DEF healthd_board_battery_update, UpdateReturns, hbWatch
<1>2. CASE ShutdownRequested
  BY <1>2 DEF ShutdownRequested, hbBattery
<1>3. CASE WatchdogModified
  BY <1>3 DEF WatchdogModified, hbBattery
<1>4. CASE execfn
  BY <1>4 DEF execfn, sem_wait, hbWatch
<1>5. CASE UpdateSaved
  BY <1>5 DEF UpdateSaved, sem_post, UpdateReturns, hbWatch
<1>6. CASE InotifyRead
  BY <1>6 DEF InotifyRead, hbBattery
<1>7. CASE healthd_process_inotify_evt
  BY <1>7 DEF healthd_process_inotify_evt, hbBattery
<1>8. CASE InotifyWait
  BY <1>8 DEF InotifyWait, sem_wait, hbBattery
<1>9. CASE InotifySaved
  BY <1>9 DEF InotifySaved, sem_post, hbBattery
<1>10. CASE UNCHANGED hbVars
  BY <1>10 DEF hbVars, hbBattery, hbWatch
<1> QED
  BY <1>1, <1>2, <1>3, <1>4, <1>5, <1>6, <1>7, <1>8, <1>9, <1>10 DEF HealthdNext, HealthdSteps

(* The battery update and the shutdown thread never run the helper at the same *)
(* time when the semaphore could be made (healthd_board_intel.cpp:201, :286).  *)
THEOREM HelperIsExclusive == HealthdSpec => []HelperRunsAlone
<1>1. SemBalances => HelperRunsAlone
  BY DEF SemBalances, Holders, HelperRunsAlone
<1> QED
  BY <1>1, BalanceAtStart, BalanceIsKept, PTL DEF HealthdSpec

-----------------------------------------------------------------------------
(***************************************************************************)
(* MedfieldStmdClient: what the join in stop buys, and the last status.    *)
(***************************************************************************)
StmPlaces == StmCleans \cup {"none", "connect", "stream", "loop", "read", "done"}

\* The readers and the numbers that name them.
StmShape ==
  /\ stmStarts \in 0..MaxStmStarts /\ stmThread = stmStarts
  /\ stmReader \in [StmIds -> [at : StmPlaces, sock : Nat]]
  /\ \A r \in StmIds : r > stmStarts => StmEnded(r)
  /\ stmSock \in Nat
  /\ stmShared \in BOOLEAN /\ stmStop \in BOOLEAN /\ stmAfter \in BOOLEAN

\* Only the reader of the last start runs, and none once stop has returned.
StmOneReader ==
  ~stmShared =>
    /\ \A r \in StmIds : r # stmThread => StmEnded(r)
    /\ stmCaller = "idle" /\ stmStop => \A r \in StmIds : StmEnded(r)

StmInv == StmShape /\ StmOneReader /\ NothingAfterStop

-----------------------------------------------------------------------------
(* The last status of a read *)

\* A set of positions has a last one.
LEMMA StmHasLast ==
  ASSUME NEW n \in Nat, NEW T, T \subseteq 1..n, T # {}
  PROVE  \E j \in T : \A k \in T : k <= j
<1> DEFINE B == {m \in Nat : \A k \in T : k <= m}
<1>1. B \subseteq Nat /\ n \in B
  OBVIOUS
<1>2. PICK m \in B : \A y \in B : ~(<<y, m>> \in OpToRel(<, Nat))
  <2> HIDE DEF B
  <2>1. B # {}
    BY <1>1
  <2> QED BY <1>1, <2>1, WFMin, NatLessThanWellFounded
<1>3. \A y \in B : ~(y < m)
  BY <1>1, <1>2 DEF OpToRel
<1>4. m \in T
  <2> SUFFICES ASSUME m \notin T PROVE FALSE
    OBVIOUS
  <2>1. m \in Nat /\ \A k \in T : k \in Nat /\ k >= 1 /\ k <= m /\ k # m
    OBVIOUS
  <2>2. m >= 1
    <3>1. PICK k \in T : TRUE
      OBVIOUS
    <3> QED BY <2>1, <3>1
  <2>3. m - 1 \in B /\ m - 1 < m
    BY <2>1, <2>2
  <2> QED BY <1>3, <2>3
<1> QED BY <1>4

\* What StmLast finds.
LEMMA StmLastIs ==
  ASSUME NEW words, NEW n \in Nat
  PROVE  \/ /\ StmLast(words, n) = "NONE"
            /\ \A j \in 1..n : words[j] \notin StmStatuses
         \/ \E j \in 1..n :
              /\ StmLast(words, n) = words[j] /\ words[j] \in StmStatuses
              /\ \A k \in 1..n : words[k] \in StmStatuses => k <= j
<1> DEFINE at == {j \in 1..n : words[j] \in StmStatuses}
           last == CHOOSE j \in at : \A k \in at : k <= j
<1>1. CASE at = {}
  BY <1>1 DEF StmLast
<1>2. CASE at # {}
  <2>1. \E j \in at : \A k \in at : k <= j
    <3>1. at \subseteq 1..n
      OBVIOUS
    <3> HIDE DEF at
    <3> QED BY <1>2, <3>1, StmHasLast
  <2>2. last \in at /\ \A k \in at : k <= last
    <3> HIDE DEF at
    <3> QED BY <2>1
  <2>3. StmLast(words, n) = words[last]
    BY <1>2 DEF StmLast
  <2> HIDE DEF last
  <2> QED BY <2>2, <2>3
<1> QED BY <1>1, <1>2

\* The last status handleResponse posts for a read is the last one in it.
LEMMA StmPostsLast ==
  ASSUME NEW b \in StmBatches
  PROVE  StmLast(StmPosts(b), Len(b)) = StmLast(b, Len(b))
<1>1. PICK n \in 1..2 : b \in [1..n -> StmWords]
  BY DEF StmBatches
<1>2. Len(b) = n /\ n \in Nat /\ n >= 1
  BY <1>1
<1>3. \A i \in 1..n : StmPosts(b)[i] = StmLast(b, i)
  BY <1>2 DEF StmPosts
<1>4. "NONE" \notin StmStatuses
  BY DEF StmStatuses
<1>5. CASE \A j \in 1..n : b[j] \notin StmStatuses
  <2>1. \A i \in 1..n : StmLast(b, i) = "NONE"
    <3> SUFFICES ASSUME NEW i \in 1..n PROVE StmLast(b, i) = "NONE"
      OBVIOUS
    <3>1. i \in Nat /\ 1..i \subseteq 1..n
      BY <1>2
    <3> QED BY <1>5, <3>1, StmLastIs
  <2>2. \A i \in 1..n : StmPosts(b)[i] \notin StmStatuses
    BY <1>3, <1>4, <2>1
  <2>3. StmLast(StmPosts(b), n) = "NONE"
    BY <1>2, <2>2, StmLastIs
  <2>4. n \in 1..n
    BY <1>2
  <2> QED BY <1>2, <2>1, <2>3, <2>4
<1>6. CASE \E j \in 1..n : b[j] \in StmStatuses
  <2>1. StmLast(b, n) \in StmStatuses
    BY <1>2, <1>6, StmLastIs
  <2>2. n \in 1..n /\ StmPosts(b)[n] = StmLast(b, n)
    BY <1>2, <1>3
  <2>3. PICK j \in 1..n : /\ StmLast(StmPosts(b), n) = StmPosts(b)[j]
                          /\ \A k \in 1..n : StmPosts(b)[k] \in StmStatuses => k <= j
    BY <1>2, <2>1, <2>2, StmLastIs
  <2>4. j = n
    BY <2>1, <2>2, <2>3
  <2> QED BY <1>2, <2>2, <2>3, <2>4
<1> QED BY <1>5, <1>6

-----------------------------------------------------------------------------
(* The readers and the caller *)

\* The fields before the first start.
LEMMA StmBegins == StmInit => StmInv
<1> SUFFICES ASSUME StmInit PROVE StmInv
  OBVIOUS
<1>1. \A r \in StmIds : stmReader[r] = [at |-> "none", sock |-> 0] /\ StmEnded(r)
  BY DEF StmInit, StmEnded
<1>2. [at |-> "none", sock |-> 0] \in [at : StmPlaces, sock : Nat]
  BY DEF StmPlaces
<1>3. stmReader \in [StmIds -> [at : StmPlaces, sock : Nat]]
  BY <1>2 DEF StmInit
<1>4. stmStarts \in 0..MaxStmStarts /\ stmThread = stmStarts /\ stmSock \in Nat
  BY StmAssumption DEF StmInit, StmAssumption
<1>5. stmShared = FALSE /\ stmStop = FALSE /\ stmAfter = FALSE
  BY DEF StmInit
<1> QED BY <1>1, <1>3, <1>4, <1>5 DEF StmInv, StmShape, StmOneReader, NothingAfterStop

\* What a reader changes: its own place, and the socket field; what it posts it
\* posts from run, so before it has ended.
StmReaderChange(r) ==
  /\ ~StmEnded(r)
  /\ \E at \in StmPlaces, sock \in Nat :
       stmReader' = [stmReader EXCEPT ![r] = [at |-> at, sock |-> sock]]
  /\ stmSock' \in Nat
  /\ UNCHANGED stmAfter \/ StmNoted
  /\ UNCHANGED <<stmThread, stmStop, stmCaller, stmStarts, stmShared>>

\* Such a change is made before stop returned, or by a client started twice.
LEMMA StmReaderKeeps ==
  ASSUME StmInv, NEW r \in StmIds, StmReaderChange(r)
  PROVE  StmInv'
<1>1. StmShape'
  BY DEF StmInv, StmShape, StmReaderChange, StmEnded, StmNoted, StmIds, StmPlaces
<1>2. StmOneReader'
  BY DEF StmInv, StmShape, StmOneReader, StmReaderChange, StmEnded, StmIds
<1>3. NothingAfterStop'
  BY DEF StmInv, StmShape, StmOneReader, NothingAfterStop, StmReaderChange, StmNoted, StmEnded
<1> QED BY <1>1, <1>2, <1>3 DEF StmInv

\* A reader that goes to another place.
LEMMA StmPlaceOf ==
  ASSUME NEW P, NEW x \in [at : P, sock : Nat], NEW a
  PROVE  [x EXCEPT !.at = a] = [at |-> a, sock |-> x.sock] /\ x.sock \in Nat
OBVIOUS

\* Going to a place keeps the reader's socket.
LEMMA StmGoing ==
  ASSUME StmInv, NEW r \in StmIds, NEW at \in StmPlaces, StmGoes(r, at)
  PROVE  \E p \in StmPlaces, sock \in Nat :
           stmReader' = [stmReader EXCEPT ![r] = [at |-> p, sock |-> sock]]
<1>1. stmReader[r] \in [at : StmPlaces, sock : Nat]
  BY DEF StmInv, StmShape
<1>2. [stmReader[r] EXCEPT !.at = at] = [at |-> at, sock |-> stmReader[r].sock] /\ stmReader[r].sock \in Nat
  BY <1>1, StmPlaceOf
<1>3. stmReader' = [stmReader EXCEPT ![r] = [at |-> at, sock |-> stmReader[r].sock]]
  BY <1>2 DEF StmGoes
<1> QED BY <1>2, <1>3

\* The places cleanUp leads to, and the socket field it leaves.
LEMMA StmCleaning ==
  ASSUME StmInv, NEW at \in StmCleans, NEW after \in StmPlaces, StmCleanUp(at)
  PROVE  StmCleanTo(at, after) \in StmPlaces /\ stmSock' \in Nat
BY DEF StmInv, StmShape, StmCleans, StmPlaces, StmCleanTo, StmCleanUp

\* A step of run is such a change.
LEMMA StmRuns ==
  ASSUME StmInv, NEW r \in StmIds, StmReaderSteps(r) \/ (\E b \in StmBatches : StmHandle(r, b))
  PROVE  StmReaderChange(r)
<1> USE DEF StmPlaces, StmEnded
<1>0. stmSock \in Nat
  BY DEF StmInv, StmShape
<1>1. CASE StmConnect(r)
  BY <1>0, <1>1, StmGoing DEF StmConnect, StmReaderChange, StmCleans
<1>2. CASE StmStream(r)
  <2>1. CASE stmReader' = [stmReader EXCEPT ![r] = [at |-> "loop", sock |-> stmSock]]
    BY <1>0, <1>2, <2>1 DEF StmStream, StmReaderChange
  <2>2. CASE StmGoes(r, "cleanTest")
    BY <1>0, <1>2, <2>2, StmGoing DEF StmStream, StmReaderChange, StmCleans
  <2> QED BY <1>2, <2>1, <2>2 DEF StmStream
<1>3. CASE StmLoop(r)
  BY <1>0, <1>3, StmGoing DEF StmLoop, StmReaderChange
<1>4. CASE StmReadEnds(r)
  BY <1>0, <1>4, StmGoing DEF StmReadEnds, StmReaderChange, StmCleans
<1>5. CASE StmReaderCleans(r)
  BY <1>5, StmGoing, StmCleaning DEF StmReaderCleans, StmReaderChange, StmCleans
<1>6. ASSUME NEW b \in StmBatches, StmHandle(r, b) PROVE StmReaderChange(r)
  BY <1>0, <1>6, StmGoing DEF StmHandle, StmReaderChange
<1> QED BY <1>1, <1>2, <1>3, <1>4, <1>5, <1>6 DEF StmReaderSteps

\* start keeps the invariant: without a second start in a row the readers
\* before the new one have ended.
LEMMA StmStartKeeps == ASSUME StmInv, StmStart PROVE StmInv'
<1>1. stmStarts' \in StmIds /\ stmStarts' = stmStarts + 1
  <2>1. stmStarts \in 0..MaxStmStarts /\ stmStarts < MaxStmStarts /\ stmStarts' = stmStarts + 1
    BY DEF StmInv, StmShape, StmStart
  <2> QED BY <2>1, StmAssumption DEF StmAssumption, StmIds
<1>2. \A r \in StmIds : r # stmStarts' => stmReader'[r] = stmReader[r]
  BY <1>1 DEF StmInv, StmShape, StmStart
<1>3. stmReader' \in [StmIds -> [at : StmPlaces, sock : Nat]]
  <2>1. stmReader[stmStarts'] \in [at : StmPlaces, sock : Nat]
    BY <1>1 DEF StmInv, StmShape
  <2>2. stmReader' = [stmReader EXCEPT ![stmStarts'] = [at |-> "connect", sock |-> stmReader[stmStarts'].sock]]
    <3>1. [stmReader[stmStarts'] EXCEPT !.at = "connect"] = [at |-> "connect", sock |-> stmReader[stmStarts'].sock]
      BY <2>1, StmPlaceOf
    <3> QED BY <3>1 DEF StmStart
  <2> QED BY <1>1, <2>1, <2>2 DEF StmInv, StmShape, StmPlaces
<1>4. StmShape'
  <2>1. stmStarts' \in 0..MaxStmStarts /\ stmThread' = stmStarts' /\ stmSock' \in Nat
    BY <1>1, StmAssumption DEF StmStart, StmIds, StmAssumption
  <2>2. ASSUME NEW r \in StmIds, r > stmStarts' PROVE StmEnded(r)'
    <3>1. r # stmStarts' /\ r > stmStarts
      BY <1>1, <2>2 DEF StmInv, StmShape, StmIds
    <3> QED BY <1>2, <3>1 DEF StmInv, StmShape, StmEnded
  <2>3. stmShared' \in BOOLEAN /\ stmStop' \in BOOLEAN /\ stmAfter' \in BOOLEAN
    BY DEF StmInv, StmShape, StmStart
  <2> QED BY <1>3, <2>1, <2>2, <2>3 DEF StmShape
<1>5. StmOneReader'
  <2> SUFFICES ASSUME ~stmShared', NEW r \in StmIds, r # stmThread' PROVE StmEnded(r)'
    BY DEF StmOneReader, StmStart
  <2>1. stmThread = 0 \/ stmStop
    BY DEF StmStart
  <2>2. StmEnded(r)
    BY <2>1, <1>1 DEF StmInv, StmShape, StmOneReader, StmStart, StmIds
  <2> QED BY <1>1, <1>2, <2>2 DEF StmStart, StmEnded
<1>6. NothingAfterStop'
  BY DEF StmInv, StmShape, NothingAfterStop, StmStart
<1> QED BY <1>4, <1>5, <1>6 DEF StmInv

\* Every step keeps the invariant.
LEMMA StmStepKeeps == StmInv /\ [StmNext]_stmVars => StmInv'
<1> SUFFICES ASSUME StmInv, [StmNext]_stmVars PROVE StmInv'
  OBVIOUS
<1>1. CASE StmStart
  BY <1>1, StmStartKeeps
<1>2. CASE StmStopCalled
  BY <1>2 DEF StmStopCalled, StmInv, StmShape, StmOneReader, NothingAfterStop, StmEnded
<1>3. CASE StmStopCleans
  <2>1. stmSock' \in Nat
    BY <1>3, StmCleaning DEF StmStopCleans, StmPlaces
  <2>2. stmCaller' # "idle"
    BY <1>3 DEF StmStopCleans, StmCleans, StmCleanTo
  <2> QED BY <1>3, <2>1, <2>2 DEF StmStopCleans, StmInv, StmShape, StmOneReader, NothingAfterStop, StmEnded
<1>4. CASE StmJoin
  BY <1>4 DEF StmJoin, StmInv, StmShape, StmOneReader, NothingAfterStop, StmEnded
<1>5. CASE StmEof
  BY <1>5 DEF StmEof, StmInv, StmShape, StmOneReader, NothingAfterStop, StmEnded
<1>6. ASSUME NEW r \in StmIds, StmReaderSteps(r) \/ (\E b \in StmBatches : StmHandle(r, b)) PROVE StmInv'
  BY <1>6, StmRuns, StmReaderKeeps
<1>7. CASE UNCHANGED stmVars
  BY <1>7 DEF stmVars, StmInv, StmShape, StmOneReader, NothingAfterStop, StmEnded
<1> QED BY <1>1, <1>2, <1>3, <1>4, <1>5, <1>6, <1>7 DEF StmNext

\* The sockets, the reads and the caller.
StmFields ==
  /\ stmSock \in 0..MaxStmStarts
  /\ stmSocks \in [StmIds -> {"none", "new", "connected", "eof", "closed"}]
  /\ stmReads \in 0..MaxStmReads
  /\ stmCaller \in StmCleans \cup {"idle", "join"}

\* The fields before the first start.
LEMMA StmFieldsBegin == StmInit => StmFields
BY StmAssumption DEF StmInit, StmFields, StmIds, StmAssumption

\* cleanUp leaves the socket field null or as it was, and closes at most the
\* socket it names.
LEMMA StmFieldsCleaned ==
  ASSUME StmFields, NEW at, StmCleanUp(at)
  PROVE  /\ stmSock' \in 0..MaxStmStarts
         /\ stmSocks' \in [StmIds -> {"none", "new", "connected", "eof", "closed"}]
<1>1. stmSock' \in 0..MaxStmStarts
  BY StmAssumption DEF StmFields, StmCleanUp, StmAssumption
<1>2. stmSock # 0 => stmSock \in StmIds
  BY StmAssumption DEF StmFields, StmIds, StmAssumption
<1>3. stmSocks' \in [StmIds -> {"none", "new", "connected", "eof", "closed"}]
  BY <1>2 DEF StmFields, StmCleanUp
<1> QED BY <1>1, <1>3

\* Every step keeps them.
LEMMA StmFieldsKept == StmInv /\ StmFields /\ [StmNext]_stmVars => StmFields'
<1> SUFFICES ASSUME StmInv, StmFields, [StmNext]_stmVars PROVE StmFields'
  OBVIOUS
<1>1. CASE StmStart
  <2>1. stmStarts \in 0..MaxStmStarts /\ stmStarts < MaxStmStarts /\ stmStarts' = stmStarts + 1
    BY <1>1 DEF StmInv, StmShape, StmStart
  <2>2. stmStarts' \in StmIds /\ stmStarts' \in 0..MaxStmStarts
    BY <2>1, StmAssumption DEF StmAssumption, StmIds
  <2> QED BY <1>1, <2>2 DEF StmStart, StmFields
<1>2. CASE StmStopCalled
  BY <1>2 DEF StmStopCalled, StmFields, StmCleans
<1>3. CASE StmStopCleans
  <2>1. stmCaller' \in StmCleans \cup {"idle", "join"}
    BY <1>3 DEF StmStopCleans, StmCleans, StmCleanTo
  <2> QED BY <1>3, <2>1, StmFieldsCleaned DEF StmStopCleans, StmFields
<1>4. CASE StmJoin
  BY <1>4 DEF StmJoin, StmFields
<1>5. CASE StmEof
  BY <1>5 DEF StmEof, StmFields
<1>6. ASSUME NEW r \in StmIds, StmReaderSteps(r) PROVE StmFields'
  <2>1. CASE StmConnect(r)
    <3>1. stmSock # 0 => stmSock \in StmIds
      BY StmAssumption DEF StmFields, StmIds, StmAssumption
    <3> QED BY <2>1, <3>1 DEF StmConnect, StmFields
  <2>2. CASE StmStream(r) \/ StmLoop(r) \/ StmReadEnds(r)
    BY <2>2 DEF StmStream, StmLoop, StmReadEnds, StmFields
  <2>3. CASE StmReaderCleans(r)
    BY <2>3, StmFieldsCleaned DEF StmReaderCleans, StmFields
  <2> QED BY <1>6, <2>1, <2>2, <2>3 DEF StmReaderSteps
<1>7. ASSUME NEW r \in StmIds, NEW b \in StmBatches, StmHandle(r, b) PROVE StmFields'
  <2>1. stmReads < MaxStmReads /\ stmReads' = stmReads + 1 /\ stmReads \in 0..MaxStmReads
    BY <1>7 DEF StmHandle, StmFields
  <2>2. stmReads' \in 0..MaxStmReads
    BY ONLY <2>1, StmAssumption DEF StmAssumption
  <2> QED BY <1>7, <2>2 DEF StmHandle, StmFields
<1>8. CASE UNCHANGED stmVars
  BY <1>8 DEF stmVars, StmFields
<1> QED BY <1>1, <1>2, <1>3, <1>4, <1>5, <1>6, <1>7, <1>8 DEF StmNext

\* What was told stays what was read.
LEMMA StmStatusKept == LastStatusIsPosted /\ [StmNext]_stmVars => LastStatusIsPosted'
<1> SUFFICES ASSUME LastStatusIsPosted, [StmNext]_stmVars PROVE LastStatusIsPosted'
  OBVIOUS
<1>1. CASE StmStart
  BY <1>1 DEF StmStart, LastStatusIsPosted
<1>2. ASSUME UNCHANGED <<stmPosted, stmShared>> PROVE LastStatusIsPosted'
  BY <1>2 DEF LastStatusIsPosted
<1>3. CASE StmStopCalled \/ StmStopCleans \/ StmJoin \/ StmEof \/ UNCHANGED stmVars
  BY <1>2, <1>3 DEF StmStopCalled, StmStopCleans, StmJoin, StmEof, stmVars
<1>4. ASSUME NEW r \in StmIds, StmReaderSteps(r) PROVE LastStatusIsPosted'
  BY <1>2, <1>4 DEF StmReaderSteps, StmConnect, StmStream, StmLoop, StmReadEnds, StmReaderCleans
<1>5. ASSUME NEW r \in StmIds, NEW b \in StmBatches, StmHandle(r, b) PROVE LastStatusIsPosted'
  BY <1>5, StmPostsLast DEF StmHandle, LastStatusIsPosted
<1> QED BY <1>1, <1>3, <1>4, <1>5 DEF StmNext

\* The listener of MedfieldStmdClient gets the last status the daemon sent,
\* however its words fall into reads, and nothing once stop has returned,
\* unless the client was started twice in a row.
THEOREM StmdTellsTheStatus == StmSpec => []StmdStatusIsRight
<1>1. StmInit => LastStatusIsPosted
  BY DEF StmInit, LastStatusIsPosted
<1>2. StmInv /\ StmFields => StmTypeOK
  <2> SUFFICES ASSUME StmInv, StmFields PROVE StmTypeOK
    OBVIOUS
  <2>1. \A r \in StmIds : stmReader[r].at \in StmPlaces
    BY DEF StmInv, StmShape
  <2> QED BY <2>1 DEF StmInv, StmShape, StmFields, StmTypeOK, StmPlaces
<1>3. StmInv => NothingAfterStop
  BY DEF StmInv
<1>4. StmInv /\ StmFields /\ LastStatusIsPosted => StmdStatusIsRight
  BY <1>2, <1>3 DEF StmdStatusIsRight
<1> QED
  BY <1>1, <1>4, StmBegins, StmFieldsBegin, StmStepKeeps, StmFieldsKept, StmStatusKept, PTL DEF StmSpec

(***************************************************************************)
(* The GPS provider: the engine runs for a client, and the address of a    *)
(* SIM goes with the SIM, for any number of requests, alarms and fixes.    *)
(***************************************************************************)

NavMsgs == [what : {"enable", "disable", "request", "power", "wakeup", "timeout"}, request : ClientRequests]

(* A client is charged, asks for fixes, and the battery saver allows them.     *)
Served == navCharged /\ navRequest.report /\ ~navOff

(* While no withdrawal or start crossed anything: whatever can start the engine*)
(* or is its doing (an alarm set or on its way, a fix in progress) stands for  *)
(* a client; the engine runs when mStarted says so, or stopNavigating of a fix *)
(* is half way; a modem that is held serves an engine that runs.               *)
NavCalm ==
  ~navLate =>
    /\ navStarted \/ navEngine \/ navAlarms # {} \/ AlarmOnItsWay \/ navFix # "none" => Served
    /\ navFix \in {"shot_rest", "sleep_rest"} => ~navStarted
    /\ navEngine <=> (navStarted \/ navFix \in {"shot_rest", "sleep_rest"})
    /\ navFailed = 0 /\ navModem => navEngine

(* An engine that schedules fixes by itself is never put to sleep.             *)
NeverSleeps == navSched => ~AlarmOnItsWay /\ navFix \notin {"sleep", "sleep_rest", "alarm"}

NavInv == GpsNavTypeOK /\ navSched \in BOOLEAN /\ navQueue \in Seq(NavMsgs) /\ NavCalm /\ NeverSleeps

(* What the SUPL server rests on while no SIM went away at a bad moment:       *)
(* a SIM that is loaded has at most one task, which finds mUiccHslp empty, and *)
(* an address the engine still has of a SIM that is gone is replaced before    *)
(* handleEnable is done.                                                       *)
SuplInv ==
  /\ SuplTypeOK /\ suplLate \in BOOLEAN
  /\ suplInputs \in 0 .. MaxNavInputs /\ suplTasks <= suplInputs
  /\ suplReady => suplEnabled
  /\ ~suplLate =>
       /\ suplTasks > 0 => suplTasks = 1 /\ ~suplHslp
       /\ suplEnabling => suplHslp
       /\ ~suplSim => suplTasks = 0 /\ ~suplHslp
       /\ suplServer = "uicc" /\ ~suplHslp => suplHost /\ ~suplReady

(* Before anything was asked for.                                              *)
LEMMA NavInvAtStart == GpsNavInit => NavInv
<1> SUFFICES ASSUME GpsNavInit PROVE NavInv
  OBVIOUS
<1>1. navRequest \in ClientRequests /\ navFix \in FixSteps /\ navInterval \in Intervals /\ navFailed \in 0..MaxNavFaults
  BY GpsNavAssumption DEF GpsNavInit, ClientRequests, FixSteps, Intervals
<1>2. navSched \in BOOLEAN /\ navQueue \in Seq(NavMsgs) /\ navAlarms = {}
  BY DEF GpsNavInit
<1>5. GpsNavTypeOK
  BY <1>1, <1>2 DEF GpsNavInit, GpsNavTypeOK
<1>3. ~AlarmOnItsWay
  BY DEF GpsNavInit, AlarmOnItsWay
<1>4. NavCalm /\ NeverSleeps
  BY <1>3 DEF GpsNavInit, NavCalm, NeverSleeps
<1> QED
  BY <1>2, <1>4, <1>5 DEF NavInv

(* A message put at the end of the queue (sendMessage).                        *)
LEMMA NavQueueGrows ==
  ASSUME navQueue \in Seq(NavMsgs), NEW m \in NavMsgs, NavPost(m)
  PROVE  /\ navQueue' \in Seq(NavMsgs)
         /\ AlarmOnItsWay' => AlarmOnItsWay \/ m.what \in Alarms
<1>1. navQueue' \in Seq(NavMsgs)
  BY DEF NavPost
<1>2. AlarmOnItsWay' => AlarmOnItsWay \/ m.what \in Alarms
  <2> SUFFICES ASSUME NEW i \in DOMAIN navQueue', navQueue'[i].what \in Alarms
               PROVE  AlarmOnItsWay \/ m.what \in Alarms
    BY DEF AlarmOnItsWay
  <2>1. i = Len(navQueue) + 1 => navQueue'[i] = m
    BY DEF NavPost
  <2>2. i # Len(navQueue) + 1 => i \in DOMAIN navQueue /\ navQueue'[i] = navQueue[i]
    BY DEF NavPost
  <2> QED
    BY <2>1, <2>2 DEF AlarmOnItsWay
<1> QED
  BY <1>1, <1>2

(* The message that the handler takes from the queue.                          *)
LEMMA NavQueueShrinks ==
  ASSUME navQueue \in Seq(NavMsgs), navQueue # <<>>, NavTail
  PROVE  /\ navQueue' \in Seq(NavMsgs) /\ NavHead \in NavMsgs
         /\ AlarmOnItsWay' => AlarmOnItsWay
         /\ NavHead.what \in Alarms => AlarmOnItsWay
<1>1. navQueue' \in Seq(NavMsgs) /\ NavHead \in NavMsgs
  BY DEF NavTail, NavHead
<1>2. NavHead = navQueue[1] /\ 1 \in DOMAIN navQueue
  BY DEF NavHead
<1>3. AlarmOnItsWay' => AlarmOnItsWay
  <2> SUFFICES ASSUME NEW i \in DOMAIN navQueue', navQueue'[i].what \in Alarms
               PROVE  AlarmOnItsWay
    BY DEF AlarmOnItsWay
  <2>1. i + 1 \in DOMAIN navQueue /\ navQueue'[i] = navQueue[i + 1]
    BY DEF NavTail
  <2> QED
    BY <2>1 DEF AlarmOnItsWay
<1> QED
  BY <1>1, <1>2, <1>3 DEF AlarmOnItsWay

(* A step that leaves the engine, its clients and the engine's thread alone.   *)
LEMMA EngineStays ==
  ASSUME NavInv, UNCHANGED <<navStarted, navEngine, navModem, navFix, navLate, navSched, navCharged, navRequest, navOff>>,
         navAlarms' \subseteq navAlarms, AlarmOnItsWay' => AlarmOnItsWay \/ (navAlarms # {} /\ ~navSched),
         navFailed' = 0 => navFailed = 0
  PROVE  NavCalm' /\ NeverSleeps'
<1>1. NavCalm /\ NeverSleeps /\ (navAlarms' # {} => navAlarms # {}) /\ Served' = Served
  BY DEF NavInv, Served
<1>2. NeverSleeps'
  BY <1>1 DEF NeverSleeps
<1> QED
  BY <1>1, <1>2 DEF NavCalm

(* What a step leaves alone keeps its type.                                    *)
LEMMA NavTypesStay ==
  ASSUME GpsNavTypeOK, navSched \in BOOLEAN, navSched' = navSched,
         navEnabled' = navEnabled \/ navEnabled' \in BOOLEAN, navInit' = navInit \/ navInit' \in BOOLEAN,
         navRequest' = navRequest, navOff' = navOff, navInterval' = navInterval, navCharged' = navCharged,
         navStarted' = navStarted \/ navStarted' \in BOOLEAN, navSingle' = navSingle \/ navSingle' \in BOOLEAN,
         navFixed' = navFixed \/ navFixed' \in BOOLEAN, navEngine' = navEngine \/ navEngine' \in BOOLEAN,
         navModem' = navModem \/ navModem' \in BOOLEAN, navSlept' = navSlept \/ navSlept' \in BOOLEAN,
         navFix' = navFix \/ navFix' \in FixSteps, navLate' = navLate,
         navFailed' = navFailed \/ navFailed' \in 0..MaxNavFaults,
         navAlarms' \subseteq navAlarms \/ (navAlarms' \subseteq Alarms /\ ~navSched)
  PROVE  GpsNavTypeOK' /\ navSched' \in BOOLEAN
<1>1. navAlarms' \subseteq Alarms /\ (navSched' => "wakeup" \notin navAlarms' /\ "timeout" \notin navAlarms')
  BY DEF GpsNavTypeOK
<1>2. navFailed' \in 0..MaxNavFaults
  BY DEF GpsNavTypeOK
<1>3. navRequest' \in ClientRequests /\ navOff' \in BOOLEAN /\ navInterval' \in Intervals /\ navCharged' \in BOOLEAN
  BY DEF GpsNavTypeOK
<1>4. navFix' \in FixSteps /\ navLate' \in BOOLEAN
  BY DEF GpsNavTypeOK
<1>5. navEnabled' \in BOOLEAN /\ navInit' \in BOOLEAN /\ navStarted' \in BOOLEAN /\ navSingle' \in BOOLEAN
  BY DEF GpsNavTypeOK
<1>6. navFixed' \in BOOLEAN /\ navEngine' \in BOOLEAN /\ navModem' \in BOOLEAN /\ navSlept' \in BOOLEAN
  BY DEF GpsNavTypeOK
<1> QED
  BY ONLY <1>1, <1>2, <1>3, <1>4, <1>5, <1>6, navSched \in BOOLEAN, navSched' = navSched DEF GpsNavTypeOK

(* The types of what startNavigating sets.                                     *)
LEMMA StartKeepsTypes ==
  ASSUME GpsNavTypeOK, navSched \in BOOLEAN, NEW single \in BOOLEAN, NEW interval,
         startNavigating(single, interval, navAlarms),
         navRequest' \in ClientRequests, navOff' \in BOOLEAN, navInterval' \in Intervals, navCharged' \in BOOLEAN,
         UNCHANGED <<navEnabled, navInit, navSched, navFix>>
  PROVE  GpsNavTypeOK' /\ navSched' \in BOOLEAN
<1>1. navFailed' \in 0..MaxNavFaults
  BY GpsNavAssumption DEF GpsNavTypeOK, startNavigating
<1>2. navAlarms' \subseteq Alarms /\ (navSched' => "wakeup" \notin navAlarms' /\ "timeout" \notin navAlarms')
  BY DEF GpsNavTypeOK, startNavigating, Alarms
<1>3. /\ navStarted' \in BOOLEAN /\ navEngine' \in BOOLEAN /\ navFixed' \in BOOLEAN /\ navModem' \in BOOLEAN
      /\ navSingle' \in BOOLEAN /\ navSlept' \in BOOLEAN /\ navLate' \in BOOLEAN
  BY DEF GpsNavTypeOK, startNavigating, navEngineVars
<1> QED
  BY <1>1, <1>2, <1>3 DEF GpsNavTypeOK

(* startNavigating keeps NavInv where it starts the engine for a client: after *)
(* a request, or after the wake-up that an earlier request was put to sleep to.*)
LEMMA StartKeepsNavInv ==
  ASSUME NavInv, NEW single \in BOOLEAN, NEW interval, startNavigating(single, interval, navAlarms),
         Served', AlarmOnItsWay' => AlarmOnItsWay, navQueue' \in Seq(NavMsgs),
         navRequest' \in ClientRequests, navOff' \in BOOLEAN, navInterval' \in Intervals, navCharged' \in BOOLEAN,
         UNCHANGED <<navEnabled, navInit, navSched, navFix>>
  PROVE  NavInv'
<1> USE DEF NavInv
<1>1. CASE navStarted
  <2>1. UNCHANGED <<navStarted, navSingle, navFixed, navEngine, navModem, navFailed, navSlept, navLate, navAlarms>>
    BY <1>1 DEF startNavigating, navEngineVars
  <2>2. GpsNavTypeOK' /\ navSched' \in BOOLEAN
    BY StartKeepsTypes
  <2>3. NeverSleeps'
    BY DEF NeverSleeps
  <2>4. NavCalm'
    BY <2>1 DEF NavCalm
  <2> QED
    BY <2>2, <2>3, <2>4
<1>2. CASE ~navStarted
  <2>1. GpsNavTypeOK' /\ navSched' \in BOOLEAN
    BY <1>2, StartKeepsTypes
  <2>2. NeverSleeps'
    BY DEF NeverSleeps
  <2>3. ASSUME ~navLate' PROVE navFix = "none" /\ ~navLate /\ ~navEngine
    BY <1>2, <2>3 DEF startNavigating, NavCalm, GpsNavTypeOK
  <2>4. ASSUME navStarted', navEngine' PROVE NavCalm'
    BY <2>3, <2>4 DEF NavCalm
  <2>5. ASSUME ~(navStarted' /\ navEngine') PROVE NavCalm'
    <3>1. navFailed' = navFailed + 1 /\ UNCHANGED <<navStarted, navEngine>>
      BY <1>2, <2>5 DEF startNavigating
    <3>2. navFailed' # 0
      BY <3>1, GpsNavAssumption DEF GpsNavTypeOK
    <3> QED
      BY <1>2, <2>3, <3>1, <3>2 DEF NavCalm
  <2> QED
    BY <2>1, <2>2, <2>4, <2>5
<1> QED
  BY <1>1, <1>2

(* StopForGood keeps NavInv whatever becomes of the request: nothing that could*)
(* start the engine again is left, or navLate is up.                           *)
LEMMA StopKeepsNavInv ==
  ASSUME NavInv, StopForGood, AlarmOnItsWay' => AlarmOnItsWay, navQueue' \in Seq(NavMsgs),
         navRequest' \in ClientRequests, navOff' \in BOOLEAN, navInit' \in BOOLEAN,
         UNCHANGED <<navEnabled, navInterval, navSched, navFix, navFailed>>
  PROVE  NavInv'
<1> USE DEF NavInv
<1>1. GpsNavTypeOK' /\ navSched' \in BOOLEAN
  BY DEF StopForGood, Withdrawn, stopNavigating, StopRest, navEngineVars, GpsNavTypeOK
<1>2. NavCalm' /\ NeverSleeps'
  BY DEF StopForGood, Withdrawn, stopNavigating, StopRest, navEngineVars, GpsNavTypeOK, NavCalm, NeverSleeps
<1> QED
  BY <1>1, <1>2

(* updateRequirements starts or stops.                                         *)
LEMMA RequirementsKeepNavInv ==
  ASSUME NavInv, NEW request \in ClientRequests, NEW off \in BOOLEAN, updateRequirements(request, off),
         navRequest' = request, navOff' = off, AlarmOnItsWay' => AlarmOnItsWay, navQueue' \in Seq(NavMsgs),
         UNCHANGED <<navEnabled, navInit, navSched, navFix>>
  PROVE  NavInv'
<1>1. /\ request.report \in BOOLEAN /\ request.single \in BOOLEAN /\ request.interval \in Intervals
      /\ navInit \in BOOLEAN
  <2>1. CASE request \in [report : {TRUE}, single : {FALSE}, interval : Intervals]
    BY <2>1 DEF NavInv, GpsNavTypeOK
  <2>2. CASE request = SingleShot
    BY <2>2 DEF SingleShot, Intervals, NavInv, GpsNavTypeOK
  <2>3. CASE request = NoRequest
    BY <2>3 DEF NoRequest, Intervals, NavInv, GpsNavTypeOK
  <2> QED
    BY <2>1, <2>2, <2>3 DEF ClientRequests
<1>2. CASE ~request.report \/ off
  BY <1>1, <1>2, StopKeepsNavInv DEF updateRequirements
<1>3. CASE request.report /\ ~off
  <2>1. /\ navCharged' = TRUE /\ navInterval' = request.interval
        /\ startNavigating(request.single, request.interval, navAlarms)
    BY <1>3 DEF updateRequirements
  <2>2. Served'
    BY <2>1, <1>3 DEF Served
  <2> QED
    BY <1>1, <2>1, <2>2, StartKeepsNavInv
<1> QED
  BY <1>1, <1>2, <1>3

(* Every step of the provider's thread, of an alarm and of the engine's thread *)
(* keeps NavInv.                                                               *)
LEMMA NavStep == NavInv /\ [GpsNavNext]_navVars => NavInv'
<1> SUFFICES ASSUME NavInv, [GpsNavNext]_navVars PROVE NavInv'
  OBVIOUS
<1> USE DEF NavInv
<1>1. CASE UNCHANGED navVars
  <2>1. UNCHANGED <<navQueue, navEnabled, navInit, navRequest, navOff, navStarted, navSingle, navFixed, navEngine, navModem,
                    navInterval, navCharged, navAlarms, navSched, navFix, navSlept, navLate, navFailed>>
    BY <1>1 DEF navVars, navEngineVars
  <2>2. AlarmOnItsWay' = AlarmOnItsWay
    BY <2>1 DEF AlarmOnItsWay
  <2>3. GpsNavTypeOK' /\ navSched' \in BOOLEAN
    BY <2>1, NavTypesStay
  <2> QED
    BY <2>1, <2>2, <2>3, EngineStays
<1>2. CASE enable \/ disable \/ setRequest \/ PowerChange
  <2>1. PICK m \in NavMsgs : NavPost(m) /\ m.what \notin Alarms
    <3>1. NoRequest \in ClientRequests
      BY DEF ClientRequests
    <3>2. \A what \in {"enable", "disable", "request", "power"}, r \in ClientRequests :
            NavMsg(what, r) \in NavMsgs /\ NavMsg(what, r).what \notin Alarms
      BY DEF NavMsgs, NavMsg, Alarms
    <3> QED
      BY <1>2, <3>1, <3>2 DEF enable, disable, setRequest, PowerChange
  <2>2. navQueue' \in Seq(NavMsgs) /\ (AlarmOnItsWay' => AlarmOnItsWay)
    BY <2>1, NavQueueGrows
  <2>3. /\ navEnabled' \in BOOLEAN
        /\ UNCHANGED <<navInit, navRequest, navOff, navStarted, navSingle, navFixed, navEngine, navModem, navInterval,
                       navCharged, navAlarms, navSched, navFix, navSlept, navLate, navFailed>>
    BY <1>2 DEF enable, disable, setRequest, PowerChange, navEngineVars, GpsNavTypeOK
  <2>4. GpsNavTypeOK' /\ navSched' \in BOOLEAN
    BY <2>3, NavTypesStay
  <2> QED
    BY <2>2, <2>3, <2>4, EngineStays
<1>3. CASE AlarmFires
  <2>1. PICK a \in navAlarms : navAlarms' = navAlarms \ {a} /\ NavPost(NavMsg(a, NoRequest))
    BY <1>3 DEF AlarmFires
  <2>2. NavMsg(a, NoRequest) \in NavMsgs
    BY <2>1 DEF NavMsg, NavMsgs, ClientRequests, GpsNavTypeOK, Alarms
  <2>3. navQueue' \in Seq(NavMsgs)
    BY <2>1, <2>2, NavQueueGrows
  <2>4. UNCHANGED <<navEnabled, navInit, navRequest, navOff, navStarted, navSingle, navFixed, navEngine, navModem,
                    navInterval, navCharged, navSched, navFix, navSlept, navLate, navFailed>>
    BY <1>3 DEF AlarmFires, navEngineVars
  <2>5. ~navSched /\ navAlarms # {}
    BY <2>1 DEF GpsNavTypeOK, Alarms
  <2>6. GpsNavTypeOK' /\ navSched' \in BOOLEAN
    BY <2>1, <2>4, NavTypesStay
  <2> QED
    BY <2>1, <2>3, <2>4, <2>5, <2>6, EngineStays
<1>4. CASE NavHandle
  <2>1. navQueue # <<>> /\ NavTail
    BY <1>4 DEF NavHandle, handleEnable, handleDisable, handleSetRequest, updateLowPowerMode, WakeupReceived,
               TimeoutReceived, NavIs
  <2>2. /\ navQueue' \in Seq(NavMsgs) /\ NavHead \in NavMsgs
        /\ AlarmOnItsWay' => AlarmOnItsWay
        /\ NavHead.what \in Alarms => AlarmOnItsWay
    BY <2>1, NavQueueShrinks
  <2>3. CASE handleEnable
    <3>1. /\ UNCHANGED <<navRequest, navOff, navStarted, navSingle, navFixed, navEngine, navModem, navInterval,
                         navCharged, navAlarms, navSched, navFix, navSlept, navLate>>
          /\ navEnabled' \in BOOLEAN /\ navInit' \in BOOLEAN
          /\ navFailed' \in 0..MaxNavFaults /\ (navFailed' = 0 => navFailed = 0)
      <4>1. /\ UNCHANGED <<navRequest, navOff, navStarted, navSingle, navFixed, navEngine, navModem, navInterval,
                           navCharged, navAlarms, navSched, navFix, navSlept, navLate>>
            /\ navEnabled' \in BOOLEAN /\ navInit' \in BOOLEAN
        BY <2>3 DEF handleEnable, navEngineVars, GpsNavTypeOK
      <4>2. navFailed' \in 0..MaxNavFaults /\ (navFailed' = 0 => navFailed = 0)
        BY <2>3, GpsNavAssumption DEF handleEnable, GpsNavTypeOK
      <4> QED
        BY <4>1, <4>2
    <3>2. GpsNavTypeOK' /\ navSched' \in BOOLEAN
      BY <3>1, NavTypesStay
    <3> QED
      BY <2>2, <3>1, <3>2, EngineStays
  <2>4. CASE handleDisable
    BY <2>2, <2>4, StopKeepsNavInv DEF handleDisable, GpsNavTypeOK
  <2>5. CASE handleSetRequest
    <3>1. navRequest' \in ClientRequests /\ navOff \in BOOLEAN
      BY <2>2, <2>5 DEF handleSetRequest, NavMsgs, GpsNavTypeOK
    <3> QED
      BY <2>2, <2>5, <3>1, RequirementsKeepNavInv DEF handleSetRequest
  <2>6. CASE updateLowPowerMode
    <3>1. CASE navOff' = navOff
      <4>1. UNCHANGED <<navEnabled, navInit, navRequest, navOff, navStarted, navSingle, navFixed, navEngine, navModem,
                        navInterval, navCharged, navAlarms, navSched, navFix, navSlept, navLate, navFailed>>
        BY <2>6, <3>1 DEF updateLowPowerMode, navEngineVars
      <4>2. GpsNavTypeOK' /\ navSched' \in BOOLEAN
        BY <4>1, NavTypesStay
      <4> QED
        BY <2>2, <4>1, <4>2, EngineStays
    <3>2. CASE navOff' # navOff
      <4>1. navRequest \in ClientRequests /\ navOff' \in BOOLEAN
        BY <2>6 DEF updateLowPowerMode, GpsNavTypeOK
      <4> QED
        BY <2>2, <2>6, <3>2, <4>1, RequirementsKeepNavInv DEF updateLowPowerMode
    <3> QED
      BY <3>1, <3>2
  <2>7. CASE WakeupReceived
    <3>1. AlarmOnItsWay
      BY <2>2, <2>7 DEF WakeupReceived, NavIs, Alarms
    <3>2. CASE navLate
      <4>1. navLate'
        BY <2>7, <3>2 DEF WakeupReceived, startNavigating
      <4>2. GpsNavTypeOK' /\ navSched' \in BOOLEAN
        BY <2>7, StartKeepsTypes DEF WakeupReceived, GpsNavTypeOK
      <4>3. NeverSleeps'
        BY <2>2, <2>7 DEF WakeupReceived, NeverSleeps
      <4> QED
        BY <2>2, <4>1, <4>2, <4>3 DEF NavCalm
    <3>3. CASE ~navLate
      <4>1. Served'
        BY <2>7, <3>1, <3>3 DEF NavCalm, NeverSleeps, Served, WakeupReceived
      <4>2. /\ navRequest' \in ClientRequests /\ navOff' \in BOOLEAN /\ navInterval' \in Intervals
            /\ navCharged' \in BOOLEAN
        BY <2>7 DEF WakeupReceived, GpsNavTypeOK
      <4> QED
        BY <2>2, <2>7, <4>1, <4>2, StartKeepsNavInv DEF WakeupReceived
    <3> QED
      BY <3>2, <3>3
  <2>8. CASE TimeoutReceived
    <3>1. AlarmOnItsWay
      BY <2>2, <2>8 DEF TimeoutReceived, NavIs, Alarms
    <3>2. GpsNavTypeOK' /\ navSched' \in BOOLEAN
      <4>1. ~navSched /\ navAlarms' = {"wakeup"} /\ UNCHANGED navSched
        BY <2>8, <3>1 DEF NeverSleeps, TimeoutReceived, hibernate, SleepAlarms
      <4>2. navAlarms' \subseteq Alarms
        BY <4>1 DEF Alarms
      <4>3. /\ navStarted' \in BOOLEAN /\ navEngine' \in BOOLEAN /\ navFixed' \in BOOLEAN /\ navModem' \in BOOLEAN
            /\ navSingle' \in BOOLEAN /\ navSlept' \in BOOLEAN
        BY <2>8 DEF TimeoutReceived, hibernate, stopNavigating, StopRest, GpsNavTypeOK, navEngineVars
      <4> QED
        BY <2>8, <4>1, <4>2, <4>3, NavTypesStay DEF TimeoutReceived
    <3>3. NavCalm' /\ NeverSleeps'
      BY <2>2, <2>8, <3>1 DEF TimeoutReceived, hibernate, stopNavigating, StopRest, GpsNavTypeOK, navEngineVars, NavCalm, NeverSleeps, Served
    <3> QED
      BY <2>2, <3>2, <3>3
  <2> QED
    BY <1>4, <2>3, <2>4, <2>5, <2>6, <2>7, <2>8 DEF NavHandle
<1>5. CASE reportLocation \/ FixRest \/ reportSvStatus
  <2>1. /\ UNCHANGED <<navQueue, navEnabled, navInit, navRequest, navOff, navInterval, navCharged, navSched, navLate, navFailed>>
        /\ AlarmOnItsWay' = AlarmOnItsWay /\ Served' = Served
    <3>1. UNCHANGED <<navQueue, navEnabled, navInit, navRequest, navOff, navInterval, navCharged, navSched, navLate, navFailed>>
      BY <1>5 DEF reportLocation, FixRest, FixStop, FixStopRest, FixStatus, FixSleep, reportSvStatus, navNotFix
    <3> QED
      BY <3>1 DEF AlarmOnItsWay, Served
  <2>2. CASE reportLocation
    <3>1. /\ navFix = "none" /\ navFix' \in {"shot", "status"} /\ navEngine
          /\ UNCHANGED <<navStarted, navSingle, navFixed, navEngine, navModem, navAlarms, navSlept>>
      BY <2>2 DEF reportLocation, navEngineVars
    <3>2. GpsNavTypeOK'
      BY <2>1, <3>1, NavTypesStay DEF FixSteps
    <3>3. NavCalm'
      BY <2>1, <3>1 DEF NavCalm
    <3>4. NeverSleeps'
      BY <2>1, <3>1 DEF NeverSleeps
    <3> QED
      BY <2>1, <3>2, <3>3, <3>4
  <2>3. CASE FixStop
    <3>1. /\ navStarted' \in BOOLEAN /\ navSingle' \in BOOLEAN /\ navFix' \in FixSteps
          /\ UNCHANGED <<navFixed, navEngine, navModem, navAlarms, navSlept>>
      BY <2>3 DEF FixStop, GpsNavTypeOK, FixSteps
    <3>2. GpsNavTypeOK'
      BY <2>1, <3>1, NavTypesStay
    <3>3. NavCalm'
      <4>1. CASE navStarted
        <5>1. ~navStarted' /\ navFix # "none" /\ navFix' \in {"shot_rest", "sleep_rest"} /\ navFix \notin {"shot_rest", "sleep_rest"}
          BY <2>3, <4>1 DEF FixStop
        <5> QED
          BY <2>1, <3>1, <4>1, <5>1 DEF NavCalm
      <4>2. CASE ~navStarted
        <5>1. /\ ~navStarted' /\ navFix # "none" /\ navFix' \notin {"shot_rest", "sleep_rest"}
              /\ navFix \notin {"shot_rest", "sleep_rest"}
          BY <2>3, <4>2 DEF FixStop
        <5> QED
          BY <2>1, <3>1, <4>2, <5>1 DEF NavCalm
      <4> QED
        BY <4>1, <4>2
    <3>4. NeverSleeps'
      BY <2>1, <2>3 DEF FixStop, NeverSleeps
    <3> QED
      BY <2>1, <3>2, <3>3, <3>4
  <2>4. CASE FixStopRest
    <3>1. GpsNavTypeOK'
      <4>1. /\ navFixed' \in BOOLEAN /\ navEngine' \in BOOLEAN /\ navModem' \in BOOLEAN /\ navFix' \in FixSteps
            /\ UNCHANGED <<navStarted, navSingle, navAlarms, navSlept>>
        BY <2>4 DEF FixStopRest, StopRest, GpsNavTypeOK, FixSteps
      <4> QED
        BY <2>1, <4>1, NavTypesStay
    <3>2. NavCalm' /\ NeverSleeps'
      BY <2>1, <2>4 DEF FixStopRest, StopRest, NavCalm, NeverSleeps, GpsNavTypeOK
    <3> QED
      BY <2>1, <3>1, <3>2
  <2>5. CASE FixStatus
    <3>1. /\ navFixed' \in BOOLEAN /\ navFix' \in {"sleep", "none"} /\ navAlarms' \subseteq navAlarms
          /\ (navFix' = "sleep" => ~navSched) /\ UNCHANGED <<navStarted, navSingle, navEngine, navModem, navSlept>>
      BY <2>5 DEF FixStatus, MaySleep, GpsNavTypeOK
    <3>2. GpsNavTypeOK'
      BY <2>1, <3>1, NavTypesStay DEF FixSteps
    <3>3. NavCalm'
      <4>1. navFix = "status" /\ navFix' \notin {"shot_rest", "sleep_rest"} /\ (navAlarms' # {} => navAlarms # {})
        BY <2>5, <3>1 DEF FixStatus
      <4> QED
        BY <2>1, <3>1, <4>1 DEF NavCalm
    <3>4. NeverSleeps'
      BY <2>1, <3>1 DEF NeverSleeps
    <3> QED
      BY <2>1, <3>2, <3>3, <3>4
  <2>6. CASE FixSleep
    <3>1. /\ navFix = "alarm" /\ navFix' = "none" /\ navAlarms' = {"wakeup"} /\ navSlept' = TRUE
          /\ UNCHANGED <<navStarted, navSingle, navFixed, navEngine, navModem>>
      BY <2>6 DEF FixSleep, SleepAlarms, navEngineVars
    <3>2. ~navSched /\ navAlarms' \subseteq Alarms
      BY <3>1 DEF NeverSleeps, Alarms
    <3>3. GpsNavTypeOK'
      BY <2>1, <3>1, <3>2, NavTypesStay DEF FixSteps
    <3>4. NavCalm'
      BY <2>1, <3>1 DEF NavCalm
    <3>5. NeverSleeps'
      BY <2>1, <3>2 DEF NeverSleeps
    <3> QED
      BY <2>1, <3>3, <3>4, <3>5
  <2>7. CASE reportSvStatus
    <3>1. GpsNavTypeOK'
      <4>1. /\ navFixed' \in BOOLEAN
            /\ UNCHANGED <<navStarted, navSingle, navEngine, navModem, navAlarms, navSlept, navFix>>
        BY <2>7 DEF reportSvStatus
      <4> QED
        BY <2>1, <4>1, NavTypesStay
    <3>2. NavCalm' /\ NeverSleeps'
      BY <2>1, <2>7 DEF reportSvStatus, NavCalm, NeverSleeps, GpsNavTypeOK
    <3> QED
      BY <2>1, <3>1, <3>2
  <2> QED
    BY <1>5, <2>2, <2>3, <2>4, <2>5, <2>6, <2>7 DEF FixRest
<1> QED
  BY <1>1, <1>2, <1>3, <1>4, <1>5 DEF GpsNavNext

(* Before a SIM was seen.                                                      *)
LEMMA SuplInvAtStart == SuplInit => SuplInv
<1> SUFFICES ASSUME SuplInit PROVE SuplInv
  OBVIOUS
<1>1. suplTasks \in 0..MaxNavInputs /\ suplInputs \in 0..MaxNavInputs /\ suplTasks <= suplInputs
  BY GpsNavAssumption DEF SuplInit
<1>2. SuplTypeOK
  BY <1>1 DEF SuplInit, SuplTypeOK, Servers
<1>3. ~(suplTasks > 0) /\ suplTasks = 0
  BY DEF SuplInit
<1>4. suplLate \in BOOLEAN /\ ~suplReady /\ ~suplEnabling /\ ~suplHslp /\ suplServer # "uicc"
  BY DEF SuplInit
<1> QED
  BY <1>1, <1>2, <1>3, <1>4 DEF SuplInv

(* Every step of a task, of the SIM and of handleEnable keeps SuplInv.         *)
LEMMA SuplStep == SuplInv /\ [SuplNext]_suplVars => SuplInv'
<1> SUFFICES ASSUME SuplInv, [SuplNext]_suplVars PROVE SuplInv'
  OBVIOUS
<1> DEFINE Counts == suplInputs \in 0 .. MaxNavInputs /\ suplTasks \in 0 .. MaxNavInputs /\ suplTasks <= suplInputs
           Flags == /\ suplSim \in BOOLEAN /\ suplHslp \in BOOLEAN /\ suplHost \in BOOLEAN /\ suplServer \in Servers
                    /\ suplEnabled \in BOOLEAN /\ suplReady \in BOOLEAN /\ suplEnabling \in BOOLEAN /\ suplLate \in BOOLEAN
           Calm == /\ suplReady => suplEnabled
                   /\ ~suplLate =>
                        /\ suplTasks > 0 => suplTasks = 1 /\ ~suplHslp
                        /\ suplEnabling => suplHslp
                        /\ ~suplSim => suplTasks = 0 /\ ~suplHslp
                        /\ suplServer = "uicc" /\ ~suplHslp => suplHost /\ ~suplReady
<1>1. Counts /\ Flags /\ Calm
  BY DEF SuplInv, SuplTypeOK
<1>2. Counts' /\ Flags' /\ Calm' => SuplInv'
  BY DEF SuplInv, SuplTypeOK
<1>3. CASE UNCHANGED suplVars
  BY <1>1, <1>2, <1>3 DEF suplVars
<1>4. CASE onSimLoaded
  <2>1. Counts'
    BY <1>1, <1>4, GpsNavAssumption DEF onSimLoaded, SuplInput
  <2>2. Flags'
    BY <1>1, <1>4 DEF onSimLoaded, SuplInput, Servers
  <2>3. Calm'
    <3>1. suplTasks = 0 => suplTasks' = 1
      BY <1>4 DEF onSimLoaded
    <3>2. /\ ~suplSim /\ suplSim'
          /\ UNCHANGED <<suplHslp, suplHost, suplServer, suplEnabled, suplReady, suplEnabling, suplLate>>
      BY <1>4 DEF onSimLoaded
    <3> QED
      BY <1>1, <3>1, <3>2
  <2> QED
    BY <1>2, <2>1, <2>2, <2>3
<1>5. CASE onSimAbsent
  <2>1. Counts'
    BY <1>1, <1>5, GpsNavAssumption DEF onSimAbsent, ConfAgain, SuplInput
  <2>2. Flags'
    BY <1>1, <1>5 DEF onSimAbsent, ConfAgain, SuplInput, Servers
  <2>3. Calm'
    <3>1. /\ ~suplLate' => ~suplLate /\ ~(suplTasks > 0) /\ ~suplEnabling /\ suplHost
          /\ ~suplHslp' /\ UNCHANGED <<suplTasks, suplHost, suplEnabled, suplReady, suplEnabling>>
      BY <1>5 DEF onSimAbsent
    <3>2. ~(suplTasks > 0) => suplTasks = 0
      BY <1>1
    <3>3. ASSUME ~suplLate', suplServer' = "uicc" PROVE suplHost /\ ~suplReady
      <4>1. CASE suplHslp
        BY <1>1, <1>5, <3>1, <3>3, <4>1 DEF onSimAbsent, ConfAgain
      <4>2. CASE ~suplHslp
        BY <1>1, <1>5, <3>1, <3>3, <4>2 DEF onSimAbsent
      <4> QED
        BY <4>1, <4>2
    <3>4. suplReady' => suplEnabled'
      BY <1>1, <3>1
    <3>5. ~suplLate' => suplTasks' = 0 /\ ~(suplTasks' > 0) /\ ~suplEnabling'
      BY <3>1, <3>2
    <3> QED
      BY <3>1, <3>3, <3>4, <3>5
  <2> QED
    BY <1>2, <2>1, <2>2, <2>3
<1>6. CASE GetBootstrapTask
  <2>1. Counts'
    BY <1>1, <1>6, GpsNavAssumption DEF GetBootstrapTask, ConfAgain
  <2>2. Flags'
    BY <1>1, <1>6 DEF GetBootstrapTask, ConfAgain, Servers
  <2>3. Calm'
    <3>1. /\ suplTasks > 0 /\ (suplTasks = 1 => suplTasks' = 0 /\ ~(suplTasks' > 0))
          /\ UNCHANGED <<suplSim, suplHost, suplEnabled, suplReady, suplEnabling, suplLate>>
      BY <1>6 DEF GetBootstrapTask
    <3>2. ASSUME ~suplLate PROVE suplTasks' = 0 /\ ~(suplTasks' > 0) /\ suplSim /\ ~suplHslp /\ ~suplEnabling
      BY <1>1, <3>1, <3>2
    <3>3. ASSUME ~suplLate, suplServer' = "uicc", ~suplHslp' PROVE suplHost /\ ~suplReady
      <4>1. suplServer = "uicc"
        BY <1>6, <3>3 DEF GetBootstrapTask, ConfAgain
      <4> QED
        BY <1>1, <3>2, <3>3, <4>1
    <3>4. suplReady' => suplEnabled'
      BY <1>1, <3>1
    <3> QED
      BY <3>1, <3>2, <3>3, <3>4
  <2> QED
    BY <1>2, <2>1, <2>2, <2>3
<1>7. CASE reloadGpsProperties
  <2>1. Counts'
    BY <1>1, <1>7, GpsNavAssumption DEF reloadGpsProperties, SuplInput
  <2>2. Flags'
    BY <1>1, <1>7 DEF reloadGpsProperties, SuplInput, Servers
  <2>3. Calm'
    <3>1. UNCHANGED <<suplSim, suplTasks, suplHslp, suplEnabled, suplReady, suplEnabling, suplLate>>
      BY <1>7 DEF reloadGpsProperties
    <3>2. suplHost => suplHost'
      BY <1>7 DEF reloadGpsProperties
    <3>3. suplServer' \in {"conf", suplServer}
      BY <1>7 DEF reloadGpsProperties
    <3>4. suplServer' = "uicc" => suplServer = "uicc"
      BY <3>3
    <3> QED
      BY <1>1, <3>1, <3>2, <3>4
  <2> QED
    BY <1>2, <2>1, <2>2, <2>3
<1>8. CASE SuplEnable
  <2>1. Counts'
    BY <1>1, <1>8, GpsNavAssumption DEF SuplEnable, SuplInput
  <2>2. Flags'
    BY <1>1, <1>8 DEF SuplEnable, SuplInput, Servers
  <2>3. Calm'
    BY <1>1, <1>8 DEF SuplEnable, SuplInput
  <2> QED
    BY <1>2, <2>1, <2>2, <2>3
<1>9. CASE SuplDisable
  <2>1. Counts'
    BY <1>1, <1>9, GpsNavAssumption DEF SuplDisable, SuplInput
  <2>2. Flags'
    BY <1>1, <1>9 DEF SuplDisable, SuplInput, Servers
  <2>3. Calm'
    BY <1>1, <1>9 DEF SuplDisable, SuplInput
  <2> QED
    BY <1>2, <2>1, <2>2, <2>3
<1>10. CASE EnableServer
  <2>1. Counts'
    BY <1>1, <1>10, GpsNavAssumption DEF EnableServer
  <2>2. Flags'
    BY <1>1, <1>10 DEF EnableServer, Servers
  <2>3. Calm'
    BY <1>1, <1>10 DEF EnableServer
  <2> QED
    BY <1>2, <2>1, <2>2, <2>3
<1> QED
  BY <1>3, <1>4, <1>5, <1>6, <1>7, <1>8, <1>9, <1>10 DEF SuplNext

(* The engine of GpsLocationProvider runs only for a client that is charged for*)
(* it, a stopped engine has given the modem back and the H-SLP address of a SIM*)
(* goes with the SIM (updateRequirements, hibernate, reportLocation,           *)
(* handleEnable, GetBootstrapTask), with the exceptions the property names.    *)
THEOREM EngineServes ==
  GpsNavInit /\ SuplInit /\ [][GpsNavNext]_navVars /\ [][SuplNext]_suplVars => []EngineServesItsClients
<1>1. NavInv /\ SuplInv => EngineServesItsClients
  <2> SUFFICES ASSUME NavInv, SuplInv PROVE EngineServesItsClients
    OBVIOUS
  <2>1. GpsNavTypeOK /\ SuplTypeOK
    BY DEF NavInv, SuplInv
  <2>2. EngineRunsForAClient
    BY DEF NavInv, NavCalm, EngineRunsForAClient, Served
  <2>3. StoppedReleasesTheModem
    BY DEF NavInv, NavCalm, StoppedReleasesTheModem, GpsNavTypeOK
  <2>4. ServerFollowsTheSim
    BY DEF SuplInv, SuplTypeOK, ServerFollowsTheSim
  <2> QED
    BY <2>1, <2>2, <2>3, <2>4 DEF EngineServesItsClients
<1> QED
  BY <1>1, NavInvAtStart, NavStep, SuplInvAtStart, SuplStep, PTL
=============================================================================
