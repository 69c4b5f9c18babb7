------------------------------- MODULE MdsHdmi -------------------------------
(* drm_hdmi.cpp: what MDS knows of the external sink (its connection, its      *)
(* timings, the preferred and the selected one), under the hotplug events the  *)
(* composer handles and the queries of DisplaySetting's JNI code.  Every       *)
(* operation runs under the composer's lock and is one step; the two calls     *)
(* that fill the timing arrays are two.                                        *)
EXTENDS Integers, Sequences, SequencesExt

CONSTANTS HdmiModes,      \* modes a sink may list: [w, h, hz60, nice, pref]
          MaxSinkModes,   \* modes of one sink
          MaxPlugs        \* changes of the sink

HdmiAssumption == MaxSinkModes \in Nat \ {0} /\ MaxPlugs \in Nat
ASSUME HdmiAssumption

\* What is on the cable: nothing, or a sink with its EDID and its modes.
NoSink == [kind |-> "none", modes |-> <<>>]
Sinks == {NoSink} \cup [kind : {"hdmi", "dvi", "bad"}, modes : BoundedSeq(HdmiModes, MaxSinkModes) \ {<<>>}]

VARIABLES hdmiSink,       \* the sink on the cable
          hdmiOwed,       \* hotplug events not yet handled
          hdmiLast,       \* the HDMI connector is the last one the driver lists
          hdmiSupported, hdmiConnected, hdmiPreferred, hdmiSelected, hdmiTimings, \* gDrmCxt
          hdmiCached,     \* modes of the cached connector
          hdmiSwapped,    \* another sink was plugged in before its predecessor's removal was handled
          hdmiArrays,     \* length of the arrays MDS_getHdmiTiming is to fill, -1: not asked
          hdmiMoved,      \* a hotplug event was handled since the arrays were made
          hdmiPlugs
hdmiVars == <<hdmiSink, hdmiOwed, hdmiLast, hdmiSupported, hdmiConnected, hdmiPreferred, hdmiSelected, hdmiTimings,
              hdmiCached, hdmiSwapped, hdmiArrays, hdmiMoved, hdmiPlugs>>
hdmiEnv == <<hdmiSink, hdmiOwed, hdmiLast, hdmiSupported, hdmiSwapped, hdmiPlugs>>

HdmiTypeOK ==
  /\ hdmiSink \in Sinks /\ hdmiOwed \in 0..(MaxPlugs + 1) /\ hdmiLast \in BOOLEAN /\ hdmiSupported \in BOOLEAN
  /\ hdmiConnected \in BOOLEAN /\ hdmiPreferred \in 0..MaxSinkModes
  /\ hdmiSelected \in 0..Len(hdmiTimings) /\ Len(hdmiTimings) <= MaxSinkModes
  /\ hdmiArrays \in -1..MaxSinkModes
-----------------------------------------------------------------------------
(* Choosing and listing modes *)

Is1080(mode) == mode.w = 3 /\ mode.h = 3 /\ mode.hz60
Is720(mode) == mode.w = 2 /\ mode.h = 2 /\ mode.hz60

\* The scan stops at the mode the sink marks as preferred.
Marked(modes) == SelectInSeq(modes, LAMBDA m : m.pref)
Scanned(modes) == IF Marked(modes) = 0 THEN modes ELSE SubSeq(modes, 1, Marked(modes) - 1)

\* The first mode that fits, or the last such with a preferred aspect.
LatestOf(modes, fitting) ==
  LET nice == SelectLastInSeq(modes, LAMBDA m : m \in fitting /\ m.nice)
      first == SelectInSeq(modes, LAMBDA m : m \in fitting)
  IN IF nice > first THEN nice ELSE first

\* index_max: a mode larger both ways replaces the one kept, an equal one does if its aspect is preferred.
LargestOf(modes) ==
  FoldLeftDomain(LAMBDA kept, i :
    LET m == modes[i] IN
    IF ~m.hz60 THEN kept
    ELSE IF (kept = 0 \/ (m.w > modes[kept].w /\ m.h > modes[kept].h)) THEN i
    ELSE IF m.w = modes[kept].w /\ m.h = modes[kept].h /\ m.nice THEN i ELSE kept, 0, modes)

drm_select_preferredmode(modes) ==
  LET marked == Marked(modes)
      seen == Scanned(modes)
      i1080 == LatestOf(seen, {m \in ToSet(seen) : Is1080(m)})
      i720 == LatestOf(seen, {m \in ToSet(seen) : Is720(m)})
  IN CASE marked > 0 /\ modes[marked].hz60 -> marked
       [] OTHER -> CASE i1080 > 0 -> i1080 [] i1080 = 0 /\ i720 > 0 -> i720
                     [] OTHER -> IF LargestOf(seen) > 0 THEN LargestOf(seen) ELSE 1

\* Two modes are one timing when they differ in the sink's mark only.
Timing(mode) == [w |-> mode.w, h |-> mode.h, hz60 |-> mode.hz60, nice |-> mode.nice]

\* parseHdmiTimings appends the modes that are not listed yet.
parseHdmiTimings(timings, modes) ==
  FoldLeft(LAMBDA list, mode : IF Contains(list, Timing(mode)) THEN list ELSE Append(list, Timing(mode)),
           timings, modes)

\* getConnector: a connector without modes is passed over, but the last one of
\* the list is returned even so.
drm_init(sink, last) == sink # NoSink \/ last
-----------------------------------------------------------------------------
HdmiInit ==
  /\ hdmiSink \in {NoSink} \cup {s \in Sinks : Len(s.modes) = 1} /\ hdmiOwed = 1 /\ hdmiLast \in BOOLEAN
  /\ hdmiSupported = drm_init(hdmiSink, hdmiLast) /\ hdmiConnected = FALSE
  /\ hdmiPreferred = 0 /\ hdmiSelected = 0 /\ hdmiTimings = <<>> /\ hdmiCached = <<>>
  /\ hdmiSwapped = FALSE /\ hdmiArrays = -1 /\ hdmiMoved = FALSE /\ hdmiPlugs = 0

\* The cable is pulled or plugged; the driver sends an event for it.
Plug ==
  /\ hdmiPlugs < MaxPlugs /\ hdmiPlugs' = hdmiPlugs + 1
  /\ hdmiSink' \in (IF hdmiSink = NoSink THEN Sinks \ {NoSink} ELSE {NoSink})
  /\ hdmiOwed' = hdmiOwed + 1
  /\ hdmiSwapped' = (hdmiSwapped \/ (hdmiSink = NoSink /\ hdmiConnected))
  /\ UNCHANGED <<hdmiLast, hdmiSupported, hdmiConnected, hdmiPreferred, hdmiSelected, hdmiTimings, hdmiCached,
                 hdmiArrays, hdmiMoved>>

\* A faulty variant; no step uses it.
TimingsAfter_kept(connected) == hdmiTimings

\* drm_hdmi_onHdmiDisconnected forgets the timings.
TimingsAfter(connected) == IF connected THEN hdmiTimings ELSE <<>>

SelectedAfter(connected) == IF connected THEN hdmiSelected ELSE 0

\* updateHdmiConnectStatusLocked: drm_hdmi_getConnectionStatus, then
\* drm_hdmi_onHdmiDisconnected when there is no usable sink.
HdmiHotplug ==
  /\ hdmiOwed > 0 /\ hdmiOwed' = hdmiOwed - 1 /\ hdmiMoved' = TRUE
  /\ hdmiConnected' = (hdmiSupported /\ hdmiSink.kind \in {"hdmi", "dvi"})
  /\ hdmiCached' = IF hdmiConnected' THEN hdmiSink.modes ELSE <<>>
  /\ hdmiPreferred' = IF hdmiConnected' THEN drm_select_preferredmode(hdmiSink.modes) ELSE hdmiPreferred
  /\ hdmiTimings' = TimingsAfter(hdmiConnected')
  /\ hdmiSelected' = SelectedAfter(hdmiConnected')
  /\ UNCHANGED <<hdmiSink, hdmiLast, hdmiSupported, hdmiSwapped, hdmiArrays, hdmiPlugs>>

\* The timings are parsed once, from the cached connector when there is one.
Listed ==
  IF ~hdmiSupported \/ ~hdmiConnected THEN <<>>
  ELSE IF hdmiTimings # <<>> THEN hdmiTimings
  ELSE parseHdmiTimings(<<>>, IF hdmiCached # <<>> THEN hdmiCached ELSE hdmiSink.modes)
AfterQuery == hdmiTimings' = IF hdmiConnected THEN Listed ELSE hdmiTimings

\* onReceive(MDS_GET_HDMI_INFO): the arrays are made with the count of now ...
getHdmiInfoCount ==
  /\ hdmiArrays = -1 /\ hdmiConnected /\ AfterQuery /\ hdmiArrays' = Len(Listed) /\ hdmiMoved' = FALSE
  /\ UNCHANGED <<hdmiEnv, hdmiConnected, hdmiPreferred, hdmiSelected, hdmiCached>>
\* ... and MDS_getHdmiTiming fills them with the count of then.
getHdmiTiming ==
  /\ hdmiArrays >= 0 /\ AfterQuery /\ hdmiArrays' = -1
  /\ UNCHANGED <<hdmiEnv, hdmiConnected, hdmiPreferred, hdmiSelected, hdmiCached, hdmiMoved>>

\* setHdmiTiming: drm_hdmi_checkTiming looks the timing up among the listed ones.
setHdmiTiming ==
  /\ hdmiSupported /\ hdmiConnected
  /\ \E t \in {Timing(m) : m \in HdmiModes} :
       hdmiSelected' = LET i == SelectInSeq(hdmiTimings, LAMBDA x : x = t) IN IF i > 0 THEN i ELSE hdmiSelected
  /\ UNCHANGED <<hdmiEnv, hdmiConnected, hdmiPreferred, hdmiTimings, hdmiCached, hdmiArrays, hdmiMoved>>

\* drm_hdmi_get_current_timing; both indices are into the list of timings.
Current == IF hdmiSelected > 0 THEN hdmiSelected ELSE hdmiPreferred
CurrentOk == Current > 0 /\ Current <= Len(hdmiTimings)

HdmiNext == Plug \/ HdmiHotplug \/ getHdmiInfoCount \/ getHdmiTiming \/ setHdmiTiming
HdmiSpec == HdmiInit /\ [][HdmiNext]_hdmiVars
-----------------------------------------------------------------------------
(* Properties *)

(* Once every hotplug event is handled, the timings offered are those of the   *)
(* sink on the cable.  A sink exchanged faster than the events are handled     *)
(* keeps its predecessor's list: both events find a connected sink.            *)
TimingsAreTheSinks ==
  hdmiOwed = 0 /\ ~hdmiSwapped =>
    /\ hdmiConnected = (hdmiSupported /\ hdmiSink.kind \in {"hdmi", "dvi"})
    /\ \A i \in DOMAIN hdmiTimings : \E j \in DOMAIN hdmiSink.modes : hdmiTimings[i] = Timing(hdmiSink.modes[j])

(* The arrays that the broadcast receiver makes have room for what             *)
(* MDS_getHdmiTiming writes, unless a hotplug event was handled between its    *)
(* two calls: the list is parsed once and then kept.                           *)
TimingArraysFit == hdmiArrays >= 0 /\ ~hdmiMoved => Len(Listed) = hdmiArrays

(* drm_select_preferredmode finds the best mode before the one the sink marks: *)
(* 60 Hz if there is one, 1080p before 720p, and "16:9 over 4:3 and            *)
(* progressive over interlaced" (drm_is_preferred_flags) among equals.         *)
PreferredIsBest ==
  hdmiConnected /\ hdmiPreferred > 0 /\ hdmiCached # <<>> =>
    LET modes == hdmiCached
        best == modes[hdmiPreferred]
        marked == Marked(modes)
        Some(Test(_)) == \E i \in DOMAIN Scanned(modes) : Test(modes[i])
    IN IF marked > 0 /\ modes[marked].hz60 THEN hdmiPreferred = marked
       ELSE /\ Some(LAMBDA m : m.hz60) => best.hz60
            /\ Some(Is1080) => Is1080(best)
            /\ ~Some(Is1080) /\ Some(Is720) => Is720(best)
            /\ Some(LAMBDA m : Timing([m EXCEPT !.nice = best.nice]) = Timing(best) /\ m.nice)
               /\ Some(LAMBDA m : m.hz60) => best.nice

(* The timing reported as current is the one the user selected or, until then, *)
(* the preferred mode, for a sink that lists no mode twice: the preferred      *)
(* index counts the sink's modes, the list drops the repeated ones.            *)
CurrentTimingIsShown ==
  hdmiConnected /\ ~hdmiSwapped /\ hdmiOwed = 0 /\ hdmiTimings # <<>>
    /\ Len(hdmiTimings) = Len(hdmiSink.modes) /\ hdmiSelected = 0 =>
    CurrentOk /\ hdmiTimings[Current] = Timing(hdmiSink.modes[hdmiPreferred])
=============================================================================
