--------------------------- MODULE MdsInterfaces ---------------------------
(***************************************************************************)
(* The binder interfaces of the multi-display service, field by field.     *)
(* For every operation of an interface its proxy lists what it writes into *)
(* the request and reads from the reply, and what it answers when the      *)
(* transaction fails; its stub lists the interface token it checks, what it*)
(* reads and what it writes.  The position in Codes is the transaction     *)
(* code.  Both sides are written down separately, as the code does.        *)
(***************************************************************************)
EXTENDS Integers, Sequences

\* What a proxy answers for a failed transaction: its status, 0 (also false,
\* MDS_MODE_NONE and MDS_VIDEO_STATE_UNKNOWN), -1, or what an empty reply reads
\* as, since it does not look at the status.
Failures == {"status", "zero", "minus one", "unchecked"}

Sends(writes, reads, failed) ==
  [writes |-> writes, reads |-> reads, failed |-> failed, checks |-> FALSE]
\* The same for a proxy that looks at its arguments first, and may refuse them.
Checks(sends) == [sends EXCEPT !.checks = TRUE]
Takes(token, reads, writes) == [token |-> token, reads |-> reads, writes |-> writes]
-----------------------------------------------------------------------------
HdmiControlCodes ==
  <<"setHdmiTiming", "getHdmiTimingCount", "getHdmiTimingList", "setHdmiTimingByIndex",
    "getCurrentHdmiTiming", "getCurrentHdmiTimingIndex", "setHdmiScalingType",
    "setHdmiOverscan", "checkHdmiTimingIsFixed">>
BpHdmiControl ==
  [setHdmiTiming |-> Sends(<<"timing">>, <<"int">>, "status"),
   getHdmiTimingCount |-> Sends(<<>>, <<"int">>, "status"),
   getHdmiTimingList |-> Checks(Sends(<<"count">>, <<"timings", "int">>, "status")),
   getCurrentHdmiTiming |-> Checks(Sends(<<>>, <<"timing", "int">>, "status")),
   setHdmiTimingByIndex |-> Sends(<<"int">>, <<"int">>, "status"),
   getCurrentHdmiTimingIndex |-> Sends(<<>>, <<"int">>, "status"),
   setHdmiScalingType |-> Sends(<<"int">>, <<"int">>, "status"),
   setHdmiOverscan |-> Sends(<<"int", "int">>, <<"int">>, "status"),
   checkHdmiTimingIsFixed |-> Sends(<<>>, <<"bool">>, "zero")]
\* The last stub checks the token of another interface.
BnHdmiControl ==
  [setHdmiTiming |-> Takes("HdmiControl", <<"timing">>, <<"int">>),
   getHdmiTimingCount |-> Takes("HdmiControl", <<>>, <<"int">>),
   getHdmiTimingList |-> Takes("HdmiControl", <<"count">>, <<"timings", "int">>),
   getCurrentHdmiTiming |-> Takes("HdmiControl", <<>>, <<"timing", "int">>),
   setHdmiTimingByIndex |-> Takes("HdmiControl", <<"int">>, <<"int">>),
   getCurrentHdmiTimingIndex |-> Takes("HdmiControl", <<>>, <<"int">>),
   setHdmiScalingType |-> Takes("HdmiControl", <<"int">>, <<"int">>),
   setHdmiOverscan |-> Takes("HdmiControl", <<"int", "int">>, <<"int">>),
   checkHdmiTimingIsFixed |-> Takes("InfoProvider", <<>>, <<"bool">>)]
-----------------------------------------------------------------------------
VideoControlCodes ==
  <<"allocateVideoSessionId", "resetVideoPlayback", "updateVideoState", "updateVideoSourceInfo">>
BpVideoControl ==
  [resetVideoPlayback |-> Sends(<<>>, <<"int">>, "status"),
   allocateVideoSessionId |-> Sends(<<>>, <<"int">>, "minus one"),
   updateVideoState |-> Sends(<<"int", "int">>, <<"int">>, "status"),
   updateVideoSourceInfo |-> Sends(<<"int", "info">>, <<"int">>, "status")]
BnVideoControl ==
  [allocateVideoSessionId |-> Takes("VideoControl", <<>>, <<"int">>),
   resetVideoPlayback |-> Takes("VideoControl", <<>>, <<"int">>),
   updateVideoState |-> Takes("VideoControl", <<"int", "int">>, <<"int">>),
   updateVideoSourceInfo |-> Takes("VideoControl", <<"int", "info">>, <<"int">>)]
-----------------------------------------------------------------------------
EventMonitorCodes == <<"updatePhoneCallState", "updateInputState">>
BpEventMonitor ==
  [updatePhoneCallState |-> Sends(<<"bool">>, <<"int">>, "status"),
   updateInputState |-> Sends(<<"bool">>, <<"int">>, "status")]
BnEventMonitor ==
  [updatePhoneCallState |-> Takes("EventMonitor", <<"bool">>, <<"int">>),
   updateInputState |-> Takes("EventMonitor", <<"bool">>, <<"int">>)]

CallbackRegistrarCodes == <<"registerCallback", "unregisterCallback">>
BpCallbackRegistrar ==
  [registerCallback |-> Sends(<<"binder">>, <<"int">>, "status"),
   unregisterCallback |-> Sends(<<"binder">>, <<"int">>, "status")]
BnCallbackRegistrar ==
  [registerCallback |-> Takes("CallbackRegistrar", <<"binder">>, <<"int">>),
   unregisterCallback |-> Takes("CallbackRegistrar", <<"binder">>, <<"int">>)]

SinkRegistrarCodes == <<"registerListener", "unregisterListener">>
BpSinkRegistrar ==
  [registerListener |-> Checks(Sends(<<"binder", "string", "int">>, <<"int">>, "minus one")),
   unregisterListener |-> Checks(Sends(<<"int">>, <<"int">>, "status"))]
BnSinkRegistrar ==
  [registerListener |-> Takes("SinkRegistrar", <<"binder", "string", "int">>, <<"int">>),
   unregisterListener |-> Takes("SinkRegistrar", <<"int">>, <<"int">>)]

\* The answer of the service is not read.
ConnectionObserverCodes == <<"updateHdmiConnectionStatus", "updateWidiConnectionStatus">>
BpConnectionObserver ==
  [updateHdmiConnectionStatus |-> Sends(<<"bool">>, <<>>, "status"),
   updateWidiConnectionStatus |-> Sends(<<"bool">>, <<>>, "status")]
BnConnectionObserver ==
  [updateHdmiConnectionStatus |-> Takes("ConnectionObserver", <<"bool">>, <<"int">>),
   updateWidiConnectionStatus |-> Takes("ConnectionObserver", <<"bool">>, <<"int">>)]
-----------------------------------------------------------------------------
InfoProviderCodes ==
  <<"getVideoState", "getVideoSessionNumber", "getVideoSourceInfo", "getDisplayMode",
    "getDecoderOutputResolution", "getVppState">>
Six == <<"int", "int", "int", "int", "int", "int">>
BpInfoProvider ==
  [getVideoSessionNumber |-> Sends(<<>>, <<"int">>, "zero"),
   getVideoState |-> Sends(<<"int">>, <<"int">>, "zero"),
   getVideoSourceInfo |-> Checks(Sends(<<"int">>, <<"info", "int">>, "status")),
   getDisplayMode |-> Sends(<<"bool">>, <<"int">>, "zero"),
   getDecoderOutputResolution |-> Checks(Sends(<<"int">>, Append(Six, "int"), "status")),
   getVppState |-> Sends(<<>>, <<"int">>, "zero")]
BnInfoProvider ==
  [getVideoState |-> Takes("InfoProvider", <<"int">>, <<"int">>),
   getVideoSessionNumber |-> Takes("InfoProvider", <<>>, <<"int">>),
   getVideoSourceInfo |-> Takes("InfoProvider", <<"int">>, <<"info", "int">>),
   getDisplayMode |-> Takes("InfoProvider", <<"bool">>, <<"int">>),
   getDecoderOutputResolution |-> Takes("InfoProvider", <<"int">>, Append(Six, "int")),
   getVppState |-> Takes("InfoProvider", <<>>, <<"int">>)]

DecoderConfigCodes == <<"setDecoderOutputResolution">>
BpDecoderConfig ==
  [setDecoderOutputResolution |-> Checks(Sends(Append(Six, "int"), <<"int">>, "status"))]
BnDecoderConfig ==
  [setDecoderOutputResolution |-> Takes("DecoderConfig", Append(Six, "int"), <<"int">>)]

VppConfigCodes == <<"setVppState">>
BpVppConfig == [setVppState |-> Sends(<<"int", "bool", "int">>, <<"int">>, "status")]
BnVppConfig == [setVppState |-> Takes("VppConfig", <<"int", "bool", "int">>, <<"int">>)]
-----------------------------------------------------------------------------
(* Called by the service: SurfaceFlinger's callback and the listeners. *)
CallbackCodes ==
  <<"blankSecondaryDisplay", "updateVideoState", "setHdmiTiming", "setHdmiScalingType",
    "setHdmiOverscan", "updateInputState">>
BpCallback ==
  [blankSecondaryDisplay |-> Sends(<<"bool">>, <<"int">>, "status"),
   updateVideoState |-> Sends(<<"int", "int">>, <<"int">>, "status"),
   setHdmiTiming |-> Sends(<<"timing">>, <<"int">>, "status"),
   setHdmiScalingType |-> Sends(<<"int">>, <<"int">>, "status"),
   setHdmiOverscan |-> Sends(<<"int", "int">>, <<"int">>, "status"),
   updateInputState |-> Sends(<<"bool">>, <<"int">>, "status")]
BnCallback ==
  [blankSecondaryDisplay |-> Takes("Callback", <<"bool">>, <<"int">>),
   updateVideoState |-> Takes("Callback", <<"int", "int">>, <<"int">>),
   setHdmiTiming |-> Takes("Callback", <<"timing">>, <<"int">>),
   setHdmiScalingType |-> Takes("Callback", <<"int">>, <<"int">>),
   setHdmiOverscan |-> Takes("Callback", <<"int", "int">>, <<"int">>),
   updateInputState |-> Takes("Callback", <<"bool">>, <<"int">>)]

ListenerCodes == <<"onMdsMessage">>
BpListener == [onMdsMessage |-> Checks(Sends(<<"int", "count", "raw">>, <<"int">>, "status"))]
BnListener == [onMdsMessage |-> Takes("Listener", <<"int", "count", "raw">>, <<"int">>)]
-----------------------------------------------------------------------------
(* The service itself hands out one binder per interface. *)
MDServiceCodes ==
  <<"getHdmiControl", "getVideoControl", "getEventMonitor", "getCallbackRegistrar",
    "getSinkRegistrar", "getInfoProvider", "getConnectionObserver", "getDecoderConfig",
    "getVppConfig">>
MDServiceOps == {MDServiceCodes[i] : i \in DOMAIN MDServiceCodes}
BpMDService == [op \in MDServiceOps |-> Sends(<<>>, <<"binder">>, "unchecked")]
BnMDService == [op \in MDServiceOps |-> Takes("MDService", <<>>, <<"binder">>)]

\* The singleton each getter returns.
Getters ==
  [getHdmiControl |-> "HdmiControl", getVideoControl |-> "VideoControl",
   getEventMonitor |-> "EventMonitor", getCallbackRegistrar |-> "CallbackRegistrar",
   getSinkRegistrar |-> "SinkRegistrar", getInfoProvider |-> "InfoProvider",
   getConnectionObserver |-> "ConnectionObserver", getDecoderConfig |-> "DecoderConfig",
   getVppConfig |-> "VppConfig"]

=============================================================================
