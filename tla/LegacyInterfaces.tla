-------------------------- MODULE LegacyInterfaces --------------------------
(***************************************************************************)
(* The binder interfaces of the CTP build's display service: the composer, *)
(* which its clients call, and the listener, which the composer calls.  No *)
(* proxy of these looks at the status of its transaction.  The proxy of    *)
(* getHdmiModeInfo sends a code of its own when it is given no arrays.     *)
(***************************************************************************)
EXTENDS MdsInterfaces

ComposerCodes ==
  <<"getMode", "setModePolicy", "notifyWidi", "notifyMipi", "notifyHotPlug", "setHdmiPowerOff",
    "prepareForVideo", "getVideoState", "updateVideoInfo", "getHdmiModeInfoCount",
    "getHdmiModeInfo", "setHdmiModeInfo", "registerListener", "unregisterListener",
    "setHdmiScaleType", "setHdmiScaleStep", "getHdmiDeviceChange", "getVideoInfo",
    "getDisplayCapability">>

Asks(writes, reads) == Sends(writes, reads, "unchecked")
BpMultiDisplayComposer ==
  [getMode |-> Asks(<<"bool">>, <<"int">>),
   setModePolicy |-> Asks(<<"int">>, <<"int">>),
   notifyWidi |-> Asks(<<"bool">>, <<"int">>),
   notifyMipi |-> Asks(<<"bool">>, <<"int">>),
   prepareForVideo |-> Asks(<<"int">>, <<"int">>),
   getVideoState |-> Asks(<<>>, <<"int">>),
   updateVideoInfo |-> Asks(<<"info">>, <<"int">>),
   notifyHotPlug |-> Asks(<<>>, <<"int">>),
   setHdmiPowerOff |-> Asks(<<>>, <<"int">>),
   registerListener |-> Checks(Asks(<<"binder", "int", "string", "int">>, <<"int">>)),
   unregisterListener |-> Asks(<<"int">>, <<"int">>),
   setHdmiModeInfo |-> Asks(<<"int", "int", "int", "int", "int">>, <<"int">>),
   getHdmiModeInfoCount |-> Asks(<<>>, <<"int">>),
   getHdmiModeInfo |-> Asks(<<>>, <<"count", "modes">>),
   setHdmiScaleType |-> Asks(<<"int">>, <<"int">>),
   setHdmiScaleStep |-> Asks(<<"int", "int">>, <<"int">>),
   getHdmiDeviceChange |-> Asks(<<>>, <<"int">>),
   getVideoInfo |-> Checks(Asks(<<>>, <<"int", "int", "int", "int", "int">>)),
   getDisplayCapability |-> Asks(<<>>, <<"int">>)]

Serves(reads, writes) == Takes("MultiDisplayComposer", reads, writes)
BnMultiDisplayComposer ==
  [getMode |-> Serves(<<"bool">>, <<"int">>),
   setModePolicy |-> Serves(<<"int">>, <<"int">>),
   notifyMipi |-> Serves(<<"bool">>, <<"int">>),
   notifyWidi |-> Serves(<<"bool">>, <<"int">>),
   prepareForVideo |-> Serves(<<"int">>, <<"int">>),
   getVideoState |-> Serves(<<>>, <<"int">>),
   updateVideoInfo |-> Serves(<<"info">>, <<"int">>),
   notifyHotPlug |-> Serves(<<>>, <<"int">>),
   setHdmiPowerOff |-> Serves(<<>>, <<"int">>),
   registerListener |-> Serves(<<"binder", "int", "string", "int">>, <<"int">>),
   unregisterListener |-> Serves(<<"int">>, <<"int">>),
   setHdmiModeInfo |-> Serves(<<"int", "int", "int", "int", "int">>, <<"int">>),
   getHdmiModeInfo |-> Serves(<<>>, <<"count", "modes">>),
   getHdmiModeInfoCount |-> Serves(<<>>, <<"int">>),
   setHdmiScaleType |-> Serves(<<"int">>, <<"int">>),
   setHdmiScaleStep |-> Serves(<<"int", "int">>, <<"int">>),
   getHdmiDeviceChange |-> Serves(<<>>, <<"int">>),
   getVideoInfo |-> Serves(<<>>, <<"int", "int", "int", "int", "int">>),
   getDisplayCapability |-> Serves(<<>>, <<"int">>)]
-----------------------------------------------------------------------------
ExtendDisplayListenerCodes == <<"onMdsMessage">>
BpExtendDisplayListener ==
  [onMdsMessage |-> Checks(Asks(<<"int", "count", "raw">>, <<"int">>))]
BnExtendDisplayListener ==
  [onMdsMessage |-> Takes("ExtendDisplayListener", <<"int", "count", "raw">>, <<"int">>)]

=============================================================================
