-------------------------- MODULE MdsVideoClients --------------------------
(***************************************************************************)
(* Video players and the composer (libmultidisplay/videoclient/            *)
(* MultiDisplayVideoClient.cpp).  A player's setVideoState is several      *)
(* binder calls, each atomic in the composer; between them the other       *)
(* players run.  A player owns its client object and calls it from one     *)
(* thread.                                                                 *)
(***************************************************************************)
EXTENDS MdsComposer

CONSTANT Clients  \* the players; a player's source info is its name

ASSUME ClientsAssumption == Infos = Clients /\ NoInfo \notin Clients

VARIABLES
  mSessionId,  \* each client's session, or -1
  mState,      \* the state each client last set
  call,        \* the step of setVideoState each client is at
  orphans      \* history: live sessions whose holder was destroyed

clientVars == <<mSessionId, mState, call, orphans>>
allVars == <<vars, clientVars>>

Idle == [pc |-> "idle", state |-> "UNPREPARED"]

\* prepare's early returns: an unprepare without a session, a state set twice,
\* and the two states that clear content skips.
Prepares(c, state, isProtected) ==
  /\ ~(state \in {"UNPREPARING", "UNPREPARED"} /\ mSessionId[c] < 0)
  /\ state # mState[c]
  /\ isProtected \/ state \notin {"PREPARING", "UNPREPARING"}

\* prepare: a client without a session asks the composer for one.  The
\* composer answers an id and remembers nothing.  With AMessage the source
\* info may be missing, so sendsInfo is the caller's choice.
BeginSetVideoState(c, state, isProtected, sendsInfo) ==
  /\ call[c].pc = "idle"
  /\ Prepares(c, state, isProtected)
  /\ mSessionId' = [mSessionId EXCEPT
                      ![c] = IF @ < 0 THEN allocateVideoSessionId ELSE @]
  /\ call' = [call EXCEPT ![c] =
                [pc |-> IF state = "PREPARED" /\ sendsInfo
                          THEN "info" ELSE "update",
                 state |-> state]]
  /\ UNCHANGED <<vars, mState, orphans>>

\* A refused call (no drm device, no session) is not noticed by the client.
SendVideoSourceInfo(c) ==
  /\ call[c].pc = "info"
  /\ IF mDrmInit /\ mSessionId[c] \in Sessions
       THEN UpdateVideoSourceInfo(mSessionId[c], c)
       ELSE UNCHANGED vars
  /\ call' = [call EXCEPT ![c].pc = "update"]
  /\ UNCHANGED <<mSessionId, mState, orphans>>

\* Mutant: the client lets go of its session one state too early.
Closes_early(state) == state \in {"UNPREPARING", "UNPREPARED"}

Closes(state) == state = "UNPREPARED"

\* The last call of setVideoState, the close() after it and the new mState.
SendVideoState(c) ==
  LET state == call[c].state
  IN  /\ call[c].pc = "update"
      /\ IF AcceptsState(mSessionId[c], state)
           THEN UpdateVideoState(mSessionId[c], state)
           ELSE UNCHANGED vars
      /\ mSessionId' = [mSessionId EXCEPT ![c] = IF Closes(state) THEN -1
                                                 ELSE @]
      /\ mState' = [mState EXCEPT ![c] = state]
      /\ call' = [call EXCEPT ![c] = Idle]
      /\ orphans' = orphans \cap liveSessions(mVideos')

\* reset(): every session of every player goes.
Reset(c) ==
  /\ call[c].pc = "idle"
  /\ ResetVideoPlayback
  /\ orphans' = {}
  /\ UNCHANGED <<mSessionId, mState, call>>

\* The destructor only forgets the session; a new client takes its place.
Destroy(c) ==
  /\ call[c].pc = "idle"
  /\ mState[c] # "UNPREPARED" \/ mSessionId[c] >= 0
  /\ mSessionId' = [mSessionId EXCEPT ![c] = -1]
  /\ mState' = [mState EXCEPT ![c] = "UNPREPARED"]
  /\ orphans' = orphans \cup ({mSessionId[c]} \cap liveSessions(mVideos))
  /\ UNCHANGED <<vars, call>>

ClientsInit ==
  /\ Init
  /\ mSessionId = [c \in Clients |-> -1]
  /\ mState = [c \in Clients |-> "UNPREPARED"]
  /\ call = [c \in Clients |-> Idle]
  /\ orphans = {}

ClientsNext ==
  \E c \in Clients :
    \/ \E state \in VideoStates, isProtected, sendsInfo \in BOOLEAN :
         BeginSetVideoState(c, state, isProtected, sendsInfo)
    \/ SendVideoSourceInfo(c)
    \/ SendVideoState(c)
    \/ Reset(c)
    \/ Destroy(c)

ClientsSpec == ClientsInit /\ [][ClientsNext]_allVars

\* The players beside the listeners, the sink and the display's settings.
SystemNext ==
  \/ ClientsNext
  \/ (ListenerOps \/ DisplayOps) /\ UNCHANGED clientVars

SystemSpec == ClientsInit /\ [][SystemNext]_allVars

-----------------------------------------------------------------------------
\* The types of the clients' state; in particular a client holds -1 or an id the
\* composer has, also when allocateVideoSessionId found no free session.
ClientsTypeOK ==
  /\ mSessionId \in [Clients -> Sessions \cup {-1}]
  /\ mState \in [Clients -> VideoStates]
  /\ call \in [Clients -> [pc : {"idle", "info", "update"},
                           state : VideoStates]]
  /\ orphans \subseteq Sessions

\* Every session the composer counts as live is still held by some client, or
\* was left behind by a destroyed one: no interleaving of allocations, resets
\* and state updates loses a session otherwise.
LiveSessionsAreHeld ==
  mDrmInit =>
    \A s \in liveSessions(mVideos) :
      s \in orphans \/ \E c \in Clients : mSessionId[c] = s

\* The source info the composer serves for a session comes from a client that
\* holds the session, although allocation reserves nothing and two clients may
\* hold the same one.
InfoComesFromAHolder ==
  mDrmInit =>
    \A s \in Sessions, c \in Clients :
      mVideos[s].info = c => s \in orphans \/ mSessionId[c] = s

(* The sessions of the service are sound: their state keeps its types, a       *)
(* source info comes from a player that holds the session, and the video       *)
(* driver never believes that no video plays while one does.                   *)
SessionsAreSound ==
  TypeOK /\ ClientsTypeOK /\ InfoComesFromAHolder /\ VideoDriverNeverMissesStart

\* IMultiDisplayVideoControl.h: "Allocate a unique id for video player".
SessionIdsAreUnique ==
  \A c, d \in Clients :
    c # d /\ mSessionId[c] >= 0 => mSessionId[c] # mSessionId[d]

=============================================================================
