----------------------------- MODULE StmdClient -----------------------------
(***************************************************************************)
(* MedfieldStmdClient: a reader thread on the socket of the modem status   *)
(* daemon, started and stopped by a caller.  clientSocket and thread are   *)
(* fields that the caller and the readers share without a lock; cleanUp    *)
(* reads clientSocket three times.  The daemon sends words, several to a   *)
(* read, and may close the connection.                                     *)
(***************************************************************************)
EXTENDS Naturals, Sequences

CONSTANTS MaxStmStarts, MaxStmReads

StmAssumption == MaxStmStarts \in Nat /\ MaxStmReads \in Nat
ASSUME StmAssumption

StmIds == 1..MaxStmStarts
StmStatuses == {"DOWN", "UP"}
StmWords == StmStatuses \cup {"COLD_RESET", "OTHER"}
StmBatches == UNION {[1..n -> StmWords] : n \in 1..2}

VARIABLES
  stmSock,     \* clientSocket: 0, or the socket's number
  stmSocks,    \* "new", "connected", "eof" (ended by the daemon) or "closed"
  stmThread,   \* thread: 0, or the number of the last reader
  stmReader,   \* per reader: where it is, and the socket it connects or reads
  stmStop,     \* stopRequested
  stmCaller,   \* the caller: "idle", or where in stop it is
  stmStarts, stmReads,
  stmPosted,   \* history: the last status posted, and the last one read
  stmShared,   \* history: started again without a stop in between
  stmAfter,    \* history: something was posted after a stop had returned
  stmCrashed
stmVars == <<stmSock, stmSocks, stmThread, stmReader, stmStop, stmCaller, stmStarts,
             stmReads, stmPosted, stmShared, stmAfter, stmCrashed>>

StmInit ==
  /\ stmSock = 0 /\ stmSocks = [s \in StmIds |-> "none"] /\ stmThread = 0
  /\ stmReader = [r \in StmIds |-> [at |-> "none", sock |-> 0]]
  /\ stmStop = FALSE /\ stmCaller = "idle" /\ stmStarts = 0 /\ stmReads = 0
  /\ stmPosted = [told |-> "NONE", read |-> "NONE"]
  /\ stmShared = FALSE /\ stmAfter = FALSE /\ stmCrashed = FALSE

StmEnded(r) == stmReader[r].at \in {"none", "done"}
-----------------------------------------------------------------------------
(* cleanUp, by the caller or a reader: the field is tested, then used, then *)
(* set to null.  shutdownInput throws on a socket that is not connected,    *)
(* and then the socket is not closed either.                                *)
StmCleans == {"cleanTest", "cleanClose", "cleanNull"}

StmCleanTo(at, after) ==
  CASE at = "cleanTest" -> IF stmSock = 0 THEN after ELSE "cleanClose"
    [] at = "cleanClose" -> "cleanNull"
    [] OTHER -> after

StmCleanUp(at) ==
  /\ stmCrashed' = (at = "cleanClose" /\ stmSock = 0)
  /\ stmSocks' = IF at = "cleanClose" /\ stmSock # 0 /\ stmSocks[stmSock] \in {"connected", "eof"}
                 THEN [stmSocks EXCEPT ![stmSock] = "closed"] ELSE stmSocks
  /\ stmSock' = IF at = "cleanNull" THEN 0 ELSE stmSock
-----------------------------------------------------------------------------
(* The caller *)

StmStart ==
  /\ stmCaller = "idle" /\ stmStarts < MaxStmStarts
  /\ stmStarts' = stmStarts + 1
  /\ stmStop' = FALSE
  /\ stmSock' = stmStarts' /\ stmThread' = stmStarts'
  /\ stmSocks' = [stmSocks EXCEPT ![stmStarts'] = "new"]
  /\ stmReader' = [stmReader EXCEPT ![stmStarts'].at = "connect"]
  /\ stmShared' = (stmShared \/ (stmThread # 0 /\ ~stmStop))
  /\ stmPosted' = [told |-> "NONE", read |-> "NONE"]
  /\ UNCHANGED <<stmCaller, stmReads, stmAfter, stmCrashed>>

StmStopCalled ==
  /\ stmCaller = "idle" /\ stmThread # 0
  /\ stmStop' = TRUE
  /\ stmCaller' = "cleanTest"
  /\ UNCHANGED <<stmSock, stmSocks, stmThread, stmReader, stmStarts, stmReads,
                 stmPosted, stmShared, stmAfter, stmCrashed>>

StmStopCleans ==
  /\ stmCaller \in StmCleans
  /\ StmCleanUp(stmCaller)
  /\ stmCaller' = StmCleanTo(stmCaller, "join")
  /\ UNCHANGED <<stmThread, stmReader, stmStop, stmStarts, stmReads, stmPosted,
                 stmShared, stmAfter>>

\* A faulty variant; no step uses it.
StmJoin_not ==
  /\ stmCaller = "join"
  /\ stmCaller' = "idle"
  /\ UNCHANGED <<stmSock, stmSocks, stmThread, stmReader, stmStop, stmStarts, stmReads,
                 stmPosted, stmShared, stmAfter, stmCrashed>>

\* thread.join, and stop returns.
StmJoin ==
  /\ stmCaller = "join" /\ StmEnded(stmThread)
  /\ stmCaller' = "idle"
  /\ UNCHANGED <<stmSock, stmSocks, stmThread, stmReader, stmStop, stmStarts, stmReads,
                 stmPosted, stmShared, stmAfter, stmCrashed>>
-----------------------------------------------------------------------------
(* A reader: run *)

\* What a post after stop's return leaves behind.
StmNoted == stmAfter' = (stmAfter \/ (stmCaller = "idle" /\ stmStop))

StmGoes(r, at) == stmReader' = [stmReader EXCEPT ![r].at = at]

\* connect on the field's socket: it may be null, closed, already connected
\* through another reader, or the daemon absent.
StmConnect(r) ==
  /\ stmReader[r].at = "connect"
  /\ \/ /\ stmSock # 0 /\ stmSocks[stmSock] = "new"
        /\ stmSocks' = [stmSocks EXCEPT ![stmSock] = "connected"]
        /\ StmGoes(r, "stream") /\ UNCHANGED stmAfter
     \/ /\ StmNoted /\ StmGoes(r, "cleanTest") /\ UNCHANGED stmSocks
  /\ UNCHANGED <<stmSock, stmThread, stmStop, stmCaller, stmStarts, stmReads,
                 stmPosted, stmShared, stmCrashed>>

\* getInputStream reads the field again.
StmStream(r) ==
  /\ stmReader[r].at = "stream"
  /\ IF stmSock # 0 /\ stmSocks[stmSock] # "closed"
     THEN stmReader' = [stmReader EXCEPT ![r] = [at |-> "loop", sock |-> stmSock]]
          /\ UNCHANGED stmAfter
     ELSE StmNoted /\ StmGoes(r, "cleanTest")
  /\ UNCHANGED <<stmSock, stmSocks, stmThread, stmStop, stmCaller, stmStarts,
                 stmReads, stmPosted, stmShared, stmCrashed>>

\* while (!stopRequested)
StmLoop(r) ==
  /\ stmReader[r].at = "loop"
  /\ StmGoes(r, IF stmStop THEN "done" ELSE "read")
  /\ UNCHANGED <<stmSock, stmSocks, stmThread, stmStop, stmCaller, stmStarts,
                 stmReads, stmPosted, stmShared, stmAfter, stmCrashed>>

\* The last status among the words up to the i-th, or NONE.
StmLast(words, i) ==
  LET at == {j \in 1..i : words[j] \in StmStatuses}
  IN  IF at = {} THEN "NONE" ELSE words[CHOOSE j \in at : \A k \in at : k <= j]

\* handleResponse: the status is kept from word to word, so it is posted with
\* every later word of the same read.
StmPosts(batch) == [i \in 1..Len(batch) |-> StmLast(batch, i)]

\* What the reader has told, or read, once there is another status.
StmNow(before, last) == IF last = "NONE" THEN before ELSE last

StmHandle(r, batch) ==
  /\ stmReader[r].at = "read" /\ stmReads < MaxStmReads
  /\ stmSocks[stmReader[r].sock] = "connected"
  /\ stmReads' = stmReads + 1
  /\ StmGoes(r, "loop") /\ StmNoted
  /\ stmPosted' = [told |-> StmNow(stmPosted.told, StmLast(StmPosts(batch), Len(batch))),
                   read |-> StmNow(stmPosted.read, StmLast(batch, Len(batch)))]
  /\ UNCHANGED <<stmSock, stmSocks, stmThread, stmStop, stmCaller, stmStarts,
                 stmShared, stmCrashed>>

\* The socket is closed under the read, or ended by the daemon: an exception
\* is posted and the reader leaves, or read answers -1 and it goes round.
StmReadEnds(r) ==
  /\ stmReader[r].at = "read"
  /\ \/ /\ stmSocks[stmReader[r].sock] \in {"closed", "eof"}
        /\ StmGoes(r, "loop") /\ UNCHANGED stmAfter
     \/ /\ stmSocks[stmReader[r].sock] = "closed"
        /\ StmNoted /\ StmGoes(r, "cleanTest")
  /\ UNCHANGED <<stmSock, stmSocks, stmThread, stmStop, stmCaller, stmStarts,
                 stmReads, stmPosted, stmShared, stmCrashed>>

StmReaderCleans(r) ==
  /\ stmReader[r].at \in StmCleans
  /\ StmCleanUp(stmReader[r].at)
  /\ StmGoes(r, StmCleanTo(stmReader[r].at, "done"))
  /\ UNCHANGED <<stmThread, stmStop, stmCaller, stmStarts, stmReads, stmPosted,
                 stmShared, stmAfter>>

\* The daemon closes its end.
StmEof ==
  /\ \E s \in StmIds :
       stmSocks[s] = "connected" /\ stmSocks' = [stmSocks EXCEPT ![s] = "eof"]
  /\ UNCHANGED <<stmSock, stmThread, stmReader, stmStop, stmCaller, stmStarts,
                 stmReads, stmPosted, stmShared, stmAfter, stmCrashed>>

StmReaderSteps(r) ==
  ~stmCrashed /\ (StmConnect(r) \/ StmStream(r) \/ StmLoop(r) \/ StmReadEnds(r) \/ StmReaderCleans(r))
StmCallerSteps == ~stmCrashed /\ (StmStopCleans \/ StmJoin)
StmNext ==
  /\ ~stmCrashed
  /\ \/ StmStart \/ StmStopCalled \/ StmEof \/ StmStopCleans \/ StmJoin
     \/ \E r \in StmIds : StmReaderSteps(r) \/ \E b \in StmBatches : StmHandle(r, b)
\* Threads that can run do; the daemon need not send anything.
StmFairness ==
  WF_stmVars(StmCallerSteps) /\ \A r \in StmIds : WF_stmVars(StmReaderSteps(r))
StmSpec == StmInit /\ [][StmNext]_stmVars /\ StmFairness
-----------------------------------------------------------------------------
StmTypeOK ==
  /\ stmSock \in 0..MaxStmStarts /\ stmThread \in 0..MaxStmStarts
  /\ stmReads \in 0..MaxStmReads /\ stmStop \in BOOLEAN
  /\ stmSocks \in [StmIds -> {"none", "new", "connected", "eof", "closed"}]
  /\ \A r \in StmIds : stmReader[r].at \in StmCleans \cup
       {"none", "connect", "stream", "loop", "read", "done"}
  /\ stmCaller \in StmCleans \cup {"idle", "join"}

\* The last status posted is the last one the daemon sent, however the words
\* fell into reads and although a status is posted again with later words.
LastStatusIsPosted == ~stmShared => stmPosted.told = stmPosted.read

\* Nothing is posted once stop has returned.  The exception is a client that
\* was started twice, whose first reader no one joins.
NothingAfterStop == stmAfter => stmShared

(* The listener of the modem status daemon gets the last status the daemon     *)
(* sent, and nothing once stop has returned.                                   *)
StmdStatusIsRight == StmTypeOK /\ LastStatusIsPosted /\ NothingAfterStop

\* stop returns: the reader it joins always leaves, whatever moment of its
\* connecting or reading the stop falls into.  A null socket ends the process;
\* two readers of a client started twice may leave a socket no one closes.
StmdStopReturns == stmCaller # "idle" ~> stmCaller = "idle" \/ stmCrashed \/ stmShared

=============================================================================
