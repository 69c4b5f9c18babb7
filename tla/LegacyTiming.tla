----------------------------- MODULE LegacyTiming -----------------------------
(***************************************************************************)
(* drm_hdmi.cpp of the legacy composer: the sink's modes as the cached     *)
(* connector lists them, the user's choice, the preferred mode, and the    *)
(* timing the composer hands to the hardware composer for a cloned screen  *)
(* or for a video.  The composer's lock is not taken by the HDCP timer,    *)
(* which reads the connection as well.                                     *)
(***************************************************************************)
EXTENDS Integers, Sequences, SequencesExt

CONSTANTS LtFirst,     \* what the first product may list: sequences of
                       \* [w, h, hz, nice, pref]
          LtSecond,    \* the modes of the second product
          LtRates      \* frame rates a video may have, 0 if unknown

VARIABLES ltBox,       \* the modes of the two products there are
          ltSink,      \* what is on the cable: a product, or one of these
          lt,          \* gDrmCxt
          ltSent,      \* the timing last sent to the hardware composer
          ltList,      \* the product whose modes the settings list, 0 if none
          ltChose,     \* history: the product a mode was chosen for
          ltStale      \* history: and it was chosen from another one's list
ltVars == <<ltBox, ltSink, lt, ltSent, ltList, ltChose, ltStale>>

Products == {1, 2}
LtNoSink == 0
BadEdid == 3     \* product 1, its EDID unreadable
NoVideo == [big |-> FALSE, hz |-> -1]
Videos == [big : BOOLEAN, hz : LtRates]
Zeroed == [w |-> 0, h |-> 0, hz |-> 0, nice |-> FALSE, pref |-> FALSE]
\* An automatic variable nobody wrote.
Garbage == [w |-> -1, h |-> -1, hz |-> -1, nice |-> FALSE, pref |-> FALSE]

LtInit ==
  /\ \E modes \in LtFirst :
       ltBox = [p \in Products |-> IF p = 1 THEN modes ELSE LtSecond]
  /\ ltSink = LtNoSink
  /\ lt = [connected |-> FALSE, cached |-> <<>>, product |-> 0,
           valid |-> FALSE, selected |-> Zeroed, preferred |-> 1]
  /\ ltSent = Zeroed
  /\ ltList = 0 /\ ltChose = 0 /\ ltStale = FALSE
-----------------------------------------------------------------------------
(* Choosing a mode *)

\* The scan ends at the mode the sink marks.
Seen(modes) ==
  LET marked == SelectInSeq(modes, LAMBDA m : m.pref)
  IN  IF marked = 0 THEN modes ELSE SubSeq(modes, 1, marked - 1)

\* The first 60 Hz mode of a size, or the last such in a preferred aspect.
SizedAt(modes, size) ==
  LET first == SelectInSeq(modes, LAMBDA m : m.w = size /\ m.h = size /\ m.hz = 60)
      nice == SelectLastInSeq(modes, LAMBDA m : m.w = size /\ m.h = size /\ m.hz = 60 /\ m.nice)
  IN  IF nice > first THEN nice ELSE first

\* index_max.
Largest(modes) ==
  FoldLeftDomain(LAMBDA kept, i :
    LET m == modes[i] IN
    IF m.hz # 60 THEN kept
    ELSE IF kept = 0 \/ (m.w > modes[kept].w /\ m.h > modes[kept].h) THEN i
    ELSE IF m.w = modes[kept].w /\ m.h = modes[kept].h /\ m.nice THEN i ELSE kept, 0, modes)

PreferredMode(modes) ==
  LET marked == SelectInSeq(modes, LAMBDA m : m.pref)
      inOrder == <<SizedAt(Seen(modes), 3), SizedAt(Seen(modes), 2), Largest(Seen(modes)), 1>>
  IN  IF marked > 0 /\ modes[marked].hz = 60 THEN marked
      ELSE inOrder[SelectInSeq(inOrder, LAMBDA i : i > 0)]

\* drm_hdmi_setTiming: an index beyond the list gives no timing at all.
TimingAt(modes, i) == IF i > Len(modes) THEN Zeroed ELSE modes[i]

\* The loop of drm_hdmi_getTiming over the modes that fit a video: the fastest
\* mode, and the best multiple of the frame rate; an exact rate ends the loop,
\* but only in a preferred aspect.
MatchStep(modes, hz, acc, i) ==
  LET m == modes[i]
      max == IF m.hz > modes[acc.max].hz \/ (m.hz = modes[acc.max].hz /\ m.nice) THEN i ELSE acc.max
      fits == hz # 0 /\ m.hz % hz = 0
  IN  IF acc.done THEN acc
      ELSE IF fits /\ m.hz = hz /\ m.nice THEN [max |-> max, best |-> i, done |-> TRUE]
      ELSE IF fits /\ m.hz # hz /\ (acc.best = 0 \/ m.hz > modes[acc.best].hz)
           THEN [max |-> max, best |-> i, done |-> FALSE]
      ELSE [acc EXCEPT !.max = max]

VideoMode(modes, matched, hz) ==
  LET end == FoldLeft(LAMBDA acc, i : MatchStep(modes, hz, acc, i),
                      [max |-> matched[1], best |-> 0, done |-> FALSE], matched)
  IN  IF end.best # 0 THEN end.best ELSE end.max

\* drm_hdmi_getTiming: the user's mode, the preferred one for a cloned screen,
\* else a 720p or 1080p mode for the video.
getTiming(c, video) ==
  LET size == IF video.big THEN 3 ELSE 2
      matched == SelectSeq([i \in 1..Len(c.cached) |-> i],
                           LAMBDA i : c.cached[i].w = size /\ c.cached[i].h = size)
  IN  IF c.valid THEN c.selected
      ELSE IF video = NoVideo \/ matched = <<>> THEN TimingAt(c.cached, c.preferred)
      ELSE TimingAt(c.cached, VideoMode(c.cached, matched, video.hz))
-----------------------------------------------------------------------------
\* The cable is pulled, or plugged into a sink, perhaps before the last plug
\* was noticed.
LtPlug ==
  /\ ltSink' \in (Products \cup {LtNoSink, BadEdid}) \ {ltSink}
  /\ UNCHANGED <<ltBox, lt, ltSent, ltList, ltChose, ltStale>>

\* A faulty variant; no step uses it.
getConnectionStatus_kept ==
  CASE ltSink = LtNoSink -> [lt EXCEPT !.connected = FALSE, !.cached = <<>>]
    [] ltSink = BadEdid -> [lt EXCEPT !.connected = FALSE, !.cached = ltBox[1]]
    [] OTHER -> [lt EXCEPT !.connected = TRUE, !.cached = ltBox[ltSink],
                           !.product = ltSink,
                           !.preferred = PreferredMode(ltBox[ltSink])]

\* drm_hdmi_getConnectionStatus: the connector is read again; a new product
\* takes the user's choice away.
getConnectionStatus ==
  CASE ltSink = LtNoSink -> [lt EXCEPT !.connected = FALSE, !.cached = <<>>]
    [] ltSink = BadEdid -> [lt EXCEPT !.connected = FALSE, !.cached = ltBox[1]]
    [] OTHER -> [lt EXCEPT !.connected = TRUE, !.cached = ltBox[ltSink],
                           !.product = ltSink,
                           !.valid = @ /\ lt.product = ltSink,
                           !.preferred = PreferredMode(ltBox[ltSink])]

\* setHdmiMode_l: the connection, then the timing of the new mode.
LtSetMode ==
  /\ lt' = getConnectionStatus
  /\ \E video \in Videos \cup {NoVideo} :
       IF lt'.connected
       THEN ltSent' = getTiming(lt', video)
       ELSE UNCHANGED ltSent
  /\ UNCHANGED <<ltBox, ltSink, ltList, ltChose, ltStale>>

\* drm_hdcp_enable_and_check on the timer's thread.
LtLinkCheck ==
  /\ lt' = getConnectionStatus
  /\ UNCHANGED <<ltBox, ltSink, ltSent, ltList, ltChose, ltStale>>

\* drm_hdmi_getModeInfo lists a mode once, whatever the sink's mark.
UniqueModes(modes) ==
  FoldLeft(LAMBDA list, m :
             IF \E i \in DOMAIN list : [list[i] EXCEPT !.pref = m.pref] = m THEN list
             ELSE Append(list, m), <<>>, modes)

\* getHdmiModeInfo for the settings.
LtListed ==
  /\ ltList' = IF lt.connected THEN lt.product ELSE 0
  /\ UNCHANGED <<ltBox, ltSink, lt, ltSent, ltChose, ltStale>>

\* setHdmiModeInfo with a mode of the list.  Without a connection the choice is
\* refused, and the timing that is sent was never set.
LtChoose ==
  /\ ltList # 0
  /\ \E m \in Range(UniqueModes(ltBox[ltList])) :
       /\ lt' = IF lt.connected THEN [lt EXCEPT !.valid = TRUE, !.selected = m] ELSE lt
       /\ ltSent' = IF lt.connected THEN getTiming(lt', NoVideo) ELSE Garbage
  /\ ltChose' = IF lt.connected THEN lt.product ELSE ltChose
  /\ ltStale' = IF lt.connected THEN ltList # lt.product ELSE ltStale
  /\ UNCHANGED <<ltBox, ltSink, ltList>>

LtNext == LtPlug \/ LtSetMode \/ LtLinkCheck \/ LtListed \/ LtChoose
LtSpec == LtInit /\ [][LtNext]_ltVars
-----------------------------------------------------------------------------
LtTypeOK ==
  /\ ltSink \in Products \cup {LtNoSink, BadEdid} /\ ltList \in Products \cup {0}
  /\ ltSent \in Range(ltBox[1]) \cup Range(ltBox[2]) \cup {Zeroed, Garbage}
  /\ lt.cached \in Range(ltBox) \cup {<<>>} /\ lt.preferred >= 1

\* The mode a user chose is only ever used for the product it was chosen for,
\* across plugs, unreadable EDIDs and sinks swapped between two reads of the
\* connector (drm_hdmi_getConnectionStatus, drm_hdmi_setModeInfo).
ChoiceBelongsToItsSink == lt.valid => ltChose = lt.product

\* A chosen mode is one the sink has, and any mode it has can be chosen,
\* although setModeInfo checks nothing.  The exception is a choice from a list
\* made before another sink was plugged.
ChosenModeExists ==
  /\ lt.valid /\ lt.connected /\ ~ltStale => Contains(lt.cached, lt.selected)
  /\ ltList # 0 => \A m \in Range(ltBox[ltList]) : \E n \in Range(UniqueModes(ltBox[ltList])) :
                     [n EXCEPT !.pref = m.pref] = m

\* The preferred index belongs to the modes it is applied to, whoever read the
\* connector last: it names a mode of the sink, and one at 60 Hz if it has one.
PreferredModeExists ==
  lt.connected =>
    /\ lt.preferred <= Len(lt.cached)
    /\ (\E i \in DOMAIN lt.cached : lt.cached[i].hz = 60 /\ (\A j \in 1..i - 1 : ~lt.cached[j].pref))
         => lt.cached[lt.preferred].hz = 60

\* For a video of a known rate the sink is driven at that rate in a preferred
\* aspect if it can be, else at its highest multiple, else as fast as possible
\* (the loop of drm_hdmi_getTiming against what it is to compute).
VideoTimingIsBest ==
  lt.connected /\ ~lt.valid =>
    \A video \in Videos :
      LET size == IF video.big THEN 3 ELSE 2
          fit == {m \in Range(lt.cached) : m.w = size /\ m.h = size}
          exact == {m \in fit : video.hz # 0 /\ m.hz = video.hz /\ m.nice}
          multiple == {m \in fit : video.hz # 0 /\ m.hz % video.hz = 0 /\ m.hz # video.hz}
          best == IF exact # {} THEN exact ELSE IF multiple # {} THEN multiple ELSE fit
          shown == getTiming(lt, video)
      IN  fit # {} => shown \in best /\ \A m \in best : m.hz <= shown.hz

=============================================================================
