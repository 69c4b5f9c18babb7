------------------------------ MODULE MdsLegacy ------------------------------
(***************************************************************************)
(* The multi-display composer of the older boards (libmultidisplay/        *)
(* ctp_legacy): one object that owns the local panel (MIPI), the HDMI      *)
(* output and its content protection (HDCP).  Binder threads call it under *)
(* mLock; a thread of its own switches the panel; the link-checking timer  *)
(* of drm_hdcp.cpp runs on a thread that takes no lock at all; and         *)
(* notifyWidi changes mMode under the other lock, mMipiLock.               *)
(***************************************************************************)
EXTENDS Naturals, FiniteSets

CONSTANTS HdcpTries,      \* HDCP_ENABLE_NUM_OF_TRY
          MaxLegEvents    \* bound on what the outside does

VARIABLES
  leg,        \* the composer's fields, the panel and the audio driver
  legCable,   \* what the connector reports now
  legLock,    \* mLock: its holder inside setHdmiMode_l, what it decided on
  legMipi,    \* the panel thread: mMipiReq and the request it took
  legWidi,    \* notifyWidi between its load and its store of mMode
  legTimer,   \* g_hdcpStatusCheckTimer: the thread of the armed timer
  legWork,    \* drm_hdcp_enable_hdcp_work, per thread that may run it
  legLink,    \* the transmitter encrypts the link
  legIed,     \* display IED, off only while a link authenticates
  legTorn,    \* history: an unlocked store of mMode overwrote another
  legUsed     \* events so far

legVars == <<leg, legCable, legLock, legMipi, legWidi, legTimer, legWork,
             legLink, legIed, legTorn, legUsed>>
hdcpVars == <<legTimer, legWork, legLink, legIed>>

LegBits == {"MIPI", "CONNECTED", "HDMI", "CLONE", "EXT", "WIDI", "PLAYING",
            "HDCP", "OVERLAYOFF"}
\* A DVI sink is treated as an HDMI one: every build defines DVI_SUPPORTED.
Cables == {"none", "hdmi"}
TimerThreads == {"t1", "t2"}
HdcpThreads == TimerThreads \cup {"composer"}
NoLock == [by |-> "none", plug |-> FALSE]
NoWork == [busy |-> FALSE, n |-> 0]
NoWidi == [busy |-> FALSE, copy |-> {}]
\* What a listener that has not been told anything knows.
Untold == {"UNTOLD"}

LegFree == legLock.by = "none"
LegEvent == legUsed < MaxLegEvents /\ legUsed' = legUsed + 1

\* drm_hdcp_enable_hdcp_work: the display IED is switched back on whether the
\* link authenticated or not.
IedAfter(w) == TRUE

\* drm_hdcp_start_link_checking: only when no timer exists.  A thread that
\* still runs the callback of a deleted timer is not the new timer's thread.
StartLinkChecking ==
  IF legTimer # "none" THEN legTimer
  ELSE CHOOSE t \in TimerThreads :
         \/ ~legWork[t].busy /\ (t = "t2" => legWork["t1"].busy)
         \/ \A u \in TimerThreads : legWork[u].busy

\* drm_hdcp_check_link_status on the timer's thread: an unauthenticated link
\* starts the work again.  No lock is taken.
CheckLinkStatus(t) ==
  /\ legTimer = t /\ ~legWork[t].busy
  /\ legWork' = [legWork EXCEPT ![t] = [busy |-> TRUE, n |-> 0]]
  /\ legIed' = FALSE
  /\ UNCHANGED <<leg, legCable, legLock, legMipi, legWidi, legTimer, legLink,
                 legTorn, legUsed>>

\* One round of drm_hdcp_enable_and_check: the outcome of the round, and
\* whether the transmitter was switched on in it.
EnableAndCheck(n, out, link) ==
  \/ out = "yes"   /\ link \in (IF legCable = "none" THEN {legLink} ELSE {TRUE})
  \/ out = "again" /\ link \in {legLink, TRUE} /\ n + 1 < HdcpTries
  \/ out = "no"    /\ link \in {legLink, TRUE} /\ n + 1 = HdcpTries

\* The rounds and the end of the work on a timer's thread.
TimerWork(t) ==
  /\ legWork[t].busy
  /\ \E out \in {"yes", "again", "no"}, link \in BOOLEAN :
       /\ EnableAndCheck(legWork[t].n, out, link)
       /\ legLink' = (link /\ legCable # "none")
       /\ IF out = "again"
          THEN /\ legWork' = [legWork EXCEPT ![t].n = @ + 1]
               /\ UNCHANGED legIed
          ELSE /\ legWork' = [legWork EXCEPT ![t] = NoWork]
               /\ legIed' = IedAfter(t)
  /\ UNCHANGED <<leg, legCable, legLock, legMipi, legWidi, legTimer, legTorn,
                 legUsed>>

\* drm_hdcp_disable_hdcp(connected).
DisableHdcp(connected) ==
  /\ legTimer' = "none"
  /\ legLink' = (legLink /\ ~connected)
  /\ UNCHANGED <<legWork, legIed>>

(***************************************************************************)
(* setHdmiMode_l                                                           *)
(***************************************************************************)
\* broadcastMessage_l(MDS_MODE_CHANGE): every registered listener hears mMode.
Told(r) == [r EXCEPT !.told = IF r.heard THEN r.mode ELSE Untold]

\* drm_mipi_setMode(DRM_MIPI_ON), unless mMode says the panel is on already.
Lit(r) == IF "MIPI" \in r.mode THEN r
          ELSE [r EXCEPT !.panel = TRUE, !.mode = @ \cup {"MIPI"},
                         !.on = TRUE, !.dark = FALSE]

\* A faulty variant; no step uses it.
VideoNoted_set(r) ==
  [r EXCEPT !.mode = IF r.playing THEN @ \cup {"PLAYING"} ELSE @]

\* Common case, update video status.
VideoNoted(r) ==
  [r EXCEPT !.mode = IF r.playing THEN @ \cup {"PLAYING"} ELSE @ \ {"PLAYING"}]

\* Common case, turn on MIPI if necessary.
PanelNoted(r) ==
  LET v == VideoNoted(r)
  IN  IF legCable = "none" \/ ~r.allowed \/ ~r.playing
      THEN Lit([v EXCEPT !.offAllowed = FALSE]) ELSE v

\* A faulty variant; no step uses it.
Unplugged_audio(r) ==
  LET p == PanelNoted(r)
  IN  [Told([p EXCEPT !.mode = @ \ {"CONNECTED", "HDMI", "HDCP", "CLONE",
                                    "EXT", "OVERLAYOFF"}])
       EXCEPT !.status = "none"]

Unplugged(r) ==
  LET p == PanelNoted(r)
  IN  [Told([p EXCEPT !.mode = @ \ {"CONNECTED", "HDMI", "HDCP", "CLONE",
                                    "EXT", "OVERLAYOFF"}])
       EXCEPT !.status = "none", !.audio = FALSE]

\* HDMI is disconnected, for the first time or again.
ModeUnplugged(r) ==
  /\ legCable = "none"
  /\ IF "CONNECTED" \in r.mode
     THEN leg' = Unplugged(r) /\ DisableHdcp(FALSE)
     ELSE /\ leg' = [Told(PanelNoted(r)) EXCEPT !.status = "none"]
          /\ UNCHANGED hdcpVars
  /\ UNCHANGED legLock

\* HDMI is connected and policy keeps it off.
ModeNotAllowed(r) ==
  LET p == PanelNoted(r)
      new == "CONNECTED" \notin r.mode /\ r.status # "hdmi"
      q == [p EXCEPT !.mode = @ \cup {"CONNECTED"},
                     !.audio = @ \/ new,
                     !.status = IF new THEN "hdmi" ELSE @]
  IN  /\ legCable = "hdmi" /\ ~r.allowed
      /\ IF "HDMI" \in r.mode
         THEN leg' = Told([q EXCEPT !.mode = @ \ {"HDCP", "HDMI", "CLONE", "EXT"}])
         ELSE leg' = Told(q)
      /\ IF {"HDMI", "HDCP"} \subseteq r.mode
         THEN DisableHdcp(TRUE) ELSE UNCHANGED hdcpVars
      /\ UNCHANGED legLock

Wanted(r) == IF r.playing THEN "EXT" ELSE "CLONE"

\* HDMI already shows what it should.
ModeAlready(r) ==
  /\ legCable = "hdmi" /\ r.allowed /\ Wanted(r) \in r.mode
  /\ leg' = [Told([PanelNoted(r) EXCEPT !.mode = @ \cup {"CONNECTED"}])
             EXCEPT !.status = "hdmi"]
  /\ UNCHANGED <<legLock, hdcpVars>>

\* HDMI is switched on if it is off, and the audio driver hears of a new plug.
Shown(r, plug) ==
  [r EXCEPT !.offAllowed = @ \/ r.playing, !.audio = @ \/ plug,
            !.power = @ \/ "HDMI" \notin r.mode]

\* The end of setHdmiMode_l.  The overlay comes back only in extended mode.
ModeSet(r, hdcp, plug) ==
  LET m == r.mode \cup (IF hdcp THEN {"HDCP"} ELSE {}) \cup {"HDMI"}
  IN  Told([Shown(r, plug) EXCEPT !.mode =
              IF r.playing THEN (m \cup {"EXT"}) \ {"CLONE", "OVERLAYOFF"}
              ELSE (m \cup {"CLONE", "OVERLAYOFF"}) \ {"EXT"}])

\* The mode changes: the overlay is announced off, HDCP is taken down for the
\* change and brought up again, which may take several rounds under mLock.  A
\* property may switch HDCP off altogether.
ModeChanging(by, r) ==
  LET p == PanelNoted(r)
      q == [p EXCEPT !.mode = (@ \cup {"CONNECTED"}) \ {"HDCP"},
                     !.status = "hdmi"]
      t == (q.mode \ {"CLONE", "EXT"}) \cup {"OVERLAYOFF"}
      plug == "CONNECTED" \notin r.mode
  IN  /\ legCable = "hdmi" /\ r.allowed /\ Wanted(r) \notin r.mode
      /\ legTimer' = IF "HDCP" \in r.mode THEN "none" ELSE legTimer
      /\ legLink' = (legLink /\ "HDCP" \notin r.mode)
      /\ \/ /\ leg' = [q EXCEPT !.told = IF r.heard THEN t ELSE Untold]
            /\ legLock' = [by |-> by, plug |-> plug]
            /\ legIed' = FALSE
            /\ legWork' = [legWork EXCEPT !["composer"] = [busy |-> TRUE, n |-> 0]]
         \/ /\ leg' = ModeSet(q, FALSE, plug)
            /\ UNCHANGED <<legLock, legIed, legWork>>

setHdmiMode_l(by, r) ==
  /\ LegFree
  /\ \/ ModeUnplugged(r)
     \/ ModeNotAllowed(r)
     \/ ModeAlready(r)
     \/ ModeChanging(by, r)
  /\ UNCHANGED <<legCable, legMipi, legWidi, legTorn>>

\* drm_hdcp_enable_hdcp under mLock, and what follows it.
ComposerWork ==
  /\ legWork["composer"].busy
  /\ \E out \in {"yes", "again", "no"}, link \in BOOLEAN :
       /\ EnableAndCheck(legWork["composer"].n, out, link)
       /\ legLink' = (link /\ legCable # "none")
       /\ IF out = "again"
          THEN /\ legWork' = [legWork EXCEPT !["composer"].n = @ + 1]
               /\ UNCHANGED <<leg, legLock, legTimer, legIed>>
          ELSE /\ leg' = ModeSet(leg, out = "yes", legLock.plug)
               /\ legTimer' = StartLinkChecking
               /\ legIed' = IedAfter("composer")
               /\ legWork' = [legWork EXCEPT !["composer"] = NoWork]
               /\ legLock' = NoLock
  /\ UNCHANGED <<legCable, legMipi, legWidi, legTorn, legUsed>>

(***************************************************************************)
(* The entry points                                                        *)
(***************************************************************************)
Ready == leg.boot = "done"

\* updateVideoInfo: the caller's video is (or is no longer) playing.
updateVideoInfo(by, playing) ==
  Ready /\ setHdmiMode_l(by, [leg EXCEPT !.playing = playing])

\* prepareForVideo: one state for all players, mVideoState, which the
\* constructor leaves uninitialised.  Unprepared ends the video.
prepareForVideo(by, s) ==
  /\ Ready /\ LegFree
  /\ \/ /\ leg.vstate = s
        /\ UNCHANGED <<leg, legCable, legLock, legMipi, legWidi, hdcpVars, legTorn>>
     \/ /\ leg.vstate # s /\ s # "UNPREPARED"
        /\ leg' = [leg EXCEPT !.vstate = s]
        /\ UNCHANGED <<legCable, legLock, legMipi, legWidi, hdcpVars, legTorn>>
     \/ /\ leg.vstate # s /\ s = "UNPREPARED"
        /\ setHdmiMode_l(by, [leg EXCEPT !.vstate = s, !.playing = FALSE])

\* notifyHotPlug.
notifyHotPlug(by) == Ready /\ setHdmiMode_l(by, leg)

\* setModePolicy(_l) with an HDMI policy.
setHdmiPolicy(by, allowed) ==
  Ready /\ setHdmiMode_l(by, [leg EXCEPT !.allowed = allowed])

\* setModePolicy(_l) with a MIPI policy: it switches the panel at once.
MipiPolicy(r, off) ==
  Told([r EXCEPT !.offAllowed = off, !.on = ~off,
                 !.panel = IF off THEN (IF "MIPI" \in r.mode THEN FALSE ELSE @)
                           ELSE (IF "MIPI" \in r.mode THEN @ ELSE TRUE),
                 !.dark = off,
                 !.mode = IF off THEN @ \ {"MIPI"} ELSE @ \cup {"MIPI"}])

setMipiPolicy(by, off) ==
  /\ Ready /\ LegFree
  /\ leg' = MipiPolicy(leg, off)
  /\ UNCHANGED <<legCable, legLock, legMipi, legWidi, hdcpVars, legTorn>>

\* setHdmiPowerOff: the HDMI island goes down whatever mMode says.
setHdmiPowerOff ==
  /\ Ready /\ LegFree
  /\ leg' = [leg EXCEPT !.power = FALSE]
  /\ UNCHANGED <<legCable, legLock, legMipi, legWidi, hdcpVars, legTorn>>

\* registerListener and unregisterListener.  A new listener is not told the
\* mode it finds.
registerListener(heard) ==
  /\ Ready /\ LegFree /\ leg.heard # heard
  /\ leg' = [leg EXCEPT !.heard = heard, !.told = Untold]
  /\ UNCHANGED <<legCable, legLock, legMipi, legWidi, hdcpVars, legTorn>>

\* initialize_l: the first mode is set from the constructor, before any
\* caller or listener exists.
Initialize ==
  \/ /\ leg.boot = "hdmi"
     /\ setHdmiMode_l("ctor", [leg EXCEPT !.boot = "mipi"])
     /\ UNCHANGED legUsed
  \/ /\ leg.boot = "mipi" /\ LegFree
     /\ leg' = [MipiPolicy(leg, FALSE) EXCEPT !.boot = "done"]
     /\ UNCHANGED <<legCable, legLock, legMipi, legWidi, hdcpVars, legTorn, legUsed>>

(***************************************************************************)
(* The panel thread and WiDi                                               *)
(***************************************************************************)
notifyMipi(req) ==
  /\ Ready /\ ~legWidi.busy
  /\ legMipi' = [legMipi EXCEPT !.req = req]
  /\ UNCHANGED <<leg, legCable, legLock, legWidi, hdcpVars, legTorn>>

\* threadLoop: take the request.  A wait that ends without one counts as a
\* request to switch off.
MipiTake ==
  /\ Ready /\ ~legWidi.busy /\ legMipi.taken = "no"
  /\ \/ legMipi.req # "no" /\ UNCHANGED legUsed
     \/ legMipi.req = "no" /\ LegEvent
  /\ legMipi' = [req |-> "no", taken |-> IF legMipi.req = "on" THEN "on" ELSE "off"]
  /\ UNCHANGED <<leg, legCable, legLock, legWidi, hdcpVars, legTorn>>

\* setMipiMode_l.  When the policy forbids it the panel stays lit, and mMipiOn
\* says off all the same.
PanelSwitched(on) ==
  LET switched == [leg EXCEPT !.panel = FALSE, !.mode = @ \ {"MIPI"},
                              !.on = FALSE, !.dark = leg.widi]
  IN  IF leg.on = on THEN leg
      ELSE IF on THEN [leg EXCEPT !.panel = TRUE, !.mode = @ \cup {"MIPI"},
                                  !.on = TRUE, !.dark = FALSE]
      ELSE IF leg.widi THEN switched
      ELSE IF "EXT" \notin leg.mode THEN Told(leg)
      ELSE IF leg.offAllowed THEN switched
      ELSE [leg EXCEPT !.on = FALSE]

MipiServe ==
  /\ legMipi.taken # "no" /\ LegFree
  /\ leg' = PanelSwitched(legMipi.taken = "on")
  /\ legMipi' = [legMipi EXCEPT !.taken = "no"]
  /\ UNCHANGED <<legCable, legLock, legWidi, hdcpVars, legTorn, legUsed>>

\* notifyWidi: mWidiVideoExt and the load of mMode, under mMipiLock only.
notifyWidi(on) ==
  /\ Ready /\ ~legWidi.busy
  /\ leg' = [leg EXCEPT !.widi = on]
  /\ legWidi' = [busy |-> TRUE, copy |-> leg.mode]
  /\ UNCHANGED <<legCable, legLock, legMipi, hdcpVars, legTorn>>

\* Its store: over whatever mMode has become, or lost to a store of a thread
\* that holds mLock.
WidiStore ==
  LET stored == IF leg.widi THEN legWidi.copy \cup {"WIDI"}
                ELSE legWidi.copy \ {"WIDI"}
  IN  /\ legWidi.busy
      /\ \/ /\ leg' = [leg EXCEPT !.mode = stored]
            /\ legTorn' = (legTorn \/ leg.mode # legWidi.copy)
         \/ /\ ~LegFree
            /\ legTorn' = TRUE
            /\ UNCHANGED leg
      /\ legWidi' = NoWidi
      /\ UNCHANGED <<legCable, legLock, legMipi, hdcpVars, legUsed>>

=============================================================================
