------------------------------ MODULE MdsBinder ------------------------------
(***************************************************************************)
(* Calls through the binder interfaces of the display services.  A client  *)
(* holds a binder to an object of another process: it was handed out by    *)
(* IMDService, found by name, or registered.  A call writes its arguments  *)
(* word by word behind the interface token, the stub on the other side     *)
(* reads words back into arguments, and the answer travels the same way.   *)
(* The other process may die at any point of a call, and come back as a    *)
(* new one that knows nothing of the binders held before.                  *)
(*                                                                         *)
(* A parcel is a sequence of words: an int is one word, a structure, string*)
(* or binder a few that no int equals.  What a reader takes is decided by  *)
(* the types on its own side only.                                         *)
(***************************************************************************)
EXTENDS LegacyInterfaces
LOCAL INSTANCE SequencesExt

CONSTANTS MaxBndStarts,  \* how often the other process comes up
          MaxBndCount    \* longest list or message in a parcel

ASSUME BndAssumption == MaxBndStarts \in Nat \ {0} /\ MaxBndCount \in Nat \ {0}

Bp == [HdmiControl |-> BpHdmiControl, VideoControl |-> BpVideoControl,
       EventMonitor |-> BpEventMonitor, CallbackRegistrar |-> BpCallbackRegistrar,
       SinkRegistrar |-> BpSinkRegistrar, InfoProvider |-> BpInfoProvider,
       ConnectionObserver |-> BpConnectionObserver, DecoderConfig |-> BpDecoderConfig,
       VppConfig |-> BpVppConfig, Callback |-> BpCallback, Listener |-> BpListener,
       MDService |-> BpMDService, MultiDisplayComposer |-> BpMultiDisplayComposer,
       ExtendDisplayListener |-> BpExtendDisplayListener]
Bn == [HdmiControl |-> BnHdmiControl, VideoControl |-> BnVideoControl,
       EventMonitor |-> BnEventMonitor, CallbackRegistrar |-> BnCallbackRegistrar,
       SinkRegistrar |-> BnSinkRegistrar, InfoProvider |-> BnInfoProvider,
       ConnectionObserver |-> BnConnectionObserver, DecoderConfig |-> BnDecoderConfig,
       VppConfig |-> BnVppConfig, Callback |-> BnCallback, Listener |-> BnListener,
       MDService |-> BnMDService, MultiDisplayComposer |-> BnMultiDisplayComposer,
       ExtendDisplayListener |-> BnExtendDisplayListener]
Codes == [HdmiControl |-> HdmiControlCodes, VideoControl |-> VideoControlCodes,
          EventMonitor |-> EventMonitorCodes, CallbackRegistrar |-> CallbackRegistrarCodes,
          SinkRegistrar |-> SinkRegistrarCodes, InfoProvider |-> InfoProviderCodes,
          ConnectionObserver |-> ConnectionObserverCodes, DecoderConfig |-> DecoderConfigCodes,
          VppConfig |-> VppConfigCodes, Callback |-> CallbackCodes, Listener |-> ListenerCodes,
          MDService |-> MDServiceCodes, MultiDisplayComposer |-> ComposerCodes,
          ExtendDisplayListener |-> ExtendDisplayListenerCodes]
Ifaces == DOMAIN Bp \ {"MDService"}
-----------------------------------------------------------------------------
(* Parcels. *)
Width(type, n) ==
  CASE type \in {"int", "bool", "count"} -> 1
    [] type \in {"timing", "string", "binder"} -> 2
    [] type = "info" -> 3
    [] type = "raw" -> n
    [] type = "timings" -> 2 * n
    [] type = "modes" -> 5 * n

WordAt(words, j) == IF j <= Len(words) THEN words[j] ELSE 0

\* Reading past the end gives 0.  A list is as long as the count read before
\* it, or as the caller's n.
Decode(types, words, n) ==
  LET start(m, i) == FoldSeq(LAMBDA t, sum: sum + Width(t, m), 0, SubSeq(types, 1, i - 1))
      counts == {i \in DOMAIN types : types[i] = "count"}
      m == IF counts = {} THEN n ELSE WordAt(words, 1 + start(0, CHOOSE i \in counts : TRUE))
      field(i) == [k \in 1..Width(types[i], m) |-> WordAt(words, start(m, i) + k)]
  IN  [i \in DOMAIN types |->
         IF types[i] = "bool" THEN <<IF field(i)[1] = 1 THEN 1 ELSE 0>> ELSE field(i)]

\* The values of a call: the i-th differs from every other, a count is n and
\* the last of the answer is r.
Values(types, n, b) ==
  [i \in DOMAIN types |->
     CASE types[i] = "count" -> <<n>>
       [] types[i] = "bool" -> <<b>>
       [] OTHER -> [k \in 1..Width(types[i], n) |-> 10 * i + k]]
Results(types, n, r) ==
  [Values(types, n, r) EXCEPT ![Len(types)] =
     IF types[Len(types)] \in {"int", "bool"} THEN <<r>> ELSE @]
-----------------------------------------------------------------------------
VARIABLES bndIface,   \* the interface the client uses
          bndStarts,  \* processes so far; the last one is the current one
          bndUp,      \* it is running
          bndHeld,    \* whose object the client's binder is: 0, no binder
          bndObject,  \* the interface of that object
          bndCall     \* the call in progress

bndVars == <<bndIface, bndStarts, bndUp, bndHeld, bndObject, bndCall>>

OK == 0
DEAD_OBJECT == -32
NO_MEMORY == -12
UNKNOWN_TRANSACTION == -74
PERMISSION_DENIED == -1
BAD_VALUE == -22
MDS_ERROR == -1

\* done: the composer operations the call led to; outs: what they answered;
\* lost: the process died during the call; short: the stub gave up on memory.
NoCall == [at |-> "idle", token |-> "", code |-> 0, op |-> "", n |-> 0, ins |-> <<>>,
         data |-> <<>>, reply |-> <<>>, status |-> OK, done |-> <<>>, outs |-> <<>>,
         lost |-> FALSE, short |-> FALSE, answer |-> <<>>]

BinderInit ==
  /\ bndIface \in Ifaces
  /\ bndStarts = 1 /\ bndUp = TRUE
  /\ bndHeld = 0 /\ bndObject = "" /\ bndCall = NoCall

\* An object registered with, or known by name to, the caller.
BndHand ==
  /\ bndCall.at = "idle" /\ bndUp /\ bndHeld # bndStarts
  /\ bndIface \notin {Getters[op] : op \in MDServiceOps}
  /\ bndHeld' = bndStarts /\ bndObject' = bndIface
  /\ UNCHANGED <<bndIface, bndStarts, bndUp, bndCall>>

\* The name of the getter for an interface.
GetterOf ==
  [HdmiControl |-> "getHdmiControl", VideoControl |-> "getVideoControl",
   EventMonitor |-> "getEventMonitor", CallbackRegistrar |-> "getCallbackRegistrar",
   SinkRegistrar |-> "getSinkRegistrar", InfoProvider |-> "getInfoProvider",
   ConnectionObserver |-> "getConnectionObserver", DecoderConfig |-> "getDecoderConfig",
   VppConfig |-> "getVppConfig"]

CodeOf(iface, op) == CHOOSE i \in DOMAIN Codes[iface] : Codes[iface][i] = op

Sent(iface, op, n, b) ==
  LET ins == Values(Bp[iface][op].writes, n, b)
  IN  [NoCall EXCEPT !.at = "sent", !.token = iface, !.code = CodeOf(iface, op), !.op = op,
                   !.n = n, !.ins = ins, !.data = FlattenSeq(ins)]

\* A transaction to an object of a process that is gone fails at once.
Transact(call, gen) ==
  IF bndUp /\ gen = bndStarts
  THEN bndCall' = call
  ELSE bndCall' = [call EXCEPT !.at = "back", !.status = DEAD_OBJECT, !.lost = TRUE]

\* Ask the service, found by its name, for the interface.
BndGet ==
  /\ bndCall.at = "idle" /\ bndUp /\ bndHeld # bndStarts
  /\ bndIface \in DOMAIN GetterOf
  /\ Transact(Sent("MDService", GetterOf[bndIface], 0, 0), bndStarts)
  /\ UNCHANGED <<bndIface, bndStarts, bndUp, bndHeld, bndObject>>

BndSend(op) ==
  /\ bndCall.at = "idle" /\ bndHeld # 0
  /\ \E n \in 1..MaxBndCount, b \in 0..1 : Transact(Sent(bndIface, op, n, b), bndHeld)
  /\ UNCHANGED <<bndIface, bndStarts, bndUp, bndHeld, bndObject>>

\* Arguments a proxy refuses are not sent.
BndRefuse(op) ==
  /\ bndCall.at = "idle" /\ bndHeld # 0 /\ Bp[bndIface][op].checks
  /\ bndCall' = [NoCall EXCEPT !.at = "done", !.token = bndIface, !.op = op,
                             !.answer = <<<<BAD_VALUE>>>>]
  /\ UNCHANGED <<bndIface, bndStarts, bndUp, bndHeld, bndObject>>
-----------------------------------------------------------------------------
(* The other side. *)
CalledObject == IF bndCall.token = "MDService" THEN "MDService" ELSE bndObject

\* CHECK_INTERFACE
TokenMatches(stub) == stub.token = bndCall.token

\* The objects behind the stubs forward to the composer's operation of the same
\* name; they always have a composer, so their own checks pass.
Forwarded(op, args) == <<[op |-> op, args |-> args]>>
LegacyForwarded(op, args) == <<[op |-> op, args |-> args]>>

\* onTransact: the operation runs and its results are written.
BndServe ==
  /\ bndCall.at = "sent"
  /\ LET codes == Codes[CalledObject]
         op    == codes[bndCall.code]
         stub  == Bn[CalledObject][op]
         args  == Decode(stub.reads, bndCall.data, bndCall.n)
     IN  IF bndCall.code \notin DOMAIN codes
         THEN bndCall' = [bndCall EXCEPT !.at = "back", !.status = UNKNOWN_TRANSACTION]
         ELSE IF ~TokenMatches(stub)
         THEN bndCall' = [bndCall EXCEPT !.at = "back", !.status = PERMISSION_DENIED]
         ELSE \E r \in 0..1 :
                LET outs == Results(stub.writes, bndCall.n, r)
                IN  bndCall' = [bndCall EXCEPT !.at = "back", !.outs = outs,
                                               !.done = IF stub.token = "MultiDisplayComposer"
                                                        THEN LegacyForwarded(op, args)
                                                        ELSE Forwarded(op, args),
                                               !.reply = FlattenSeq(outs)]
  /\ UNCHANGED <<bndIface, bndStarts, bndUp, bndHeld, bndObject>>

\* The stubs that allocate: the list's answers as if it had served.
ShortStatus == [HdmiControl |-> OK, Listener |-> NO_MEMORY, ExtendDisplayListener |-> MDS_ERROR]
BndShort ==
  /\ bndCall.at = "sent" /\ bndCall.op \in {"getHdmiTimingList", "onMdsMessage"}
  /\ bndCall' = [bndCall EXCEPT !.at = "back", !.short = TRUE,
                                !.status = ShortStatus[bndIface]]
  /\ UNCHANGED <<bndIface, bndStarts, bndUp, bndHeld, bndObject>>

BndDie ==
  /\ bndUp
  /\ bndUp' = FALSE
  /\ bndCall' = IF bndCall.at \in {"sent", "back"}
                THEN [bndCall EXCEPT !.at = "back", !.status = DEAD_OBJECT,
                                     !.reply = <<>>, !.lost = TRUE]
                ELSE bndCall
  /\ UNCHANGED <<bndIface, bndStarts, bndHeld, bndObject>>

\* MultiDisplayService::instantiate in a new process.
BndRestart ==
  /\ ~bndUp /\ bndStarts < MaxBndStarts
  /\ bndUp' = TRUE /\ bndStarts' = bndStarts + 1
  /\ UNCHANGED <<bndIface, bndHeld, bndObject, bndCall>>
-----------------------------------------------------------------------------
(* Back in the proxy. *)
FailureValue(failed) ==
  CASE failed = "status" -> bndCall.status
    [] failed = "zero" -> 0
    [] failed = "minus one" -> -1

\* A faulty variant; no step uses it.
Answer_unchecked(proxy) ==
  IF proxy.reads = <<>> THEN <<<<bndCall.status>>>>
  ELSE Decode(proxy.reads, bndCall.reply, bndCall.n)

Answer(proxy) ==
  IF bndCall.status # OK /\ proxy.failed # "unchecked"
  THEN <<<<FailureValue(proxy.failed)>>>>
  ELSE IF proxy.reads = <<>> THEN <<<<bndCall.status>>>>
  ELSE Decode(proxy.reads, bndCall.reply, bndCall.n)

\* A getter's answer becomes the client's binder.
BndReturn ==
  /\ bndCall.at = "back"
  /\ bndCall' = [bndCall EXCEPT !.at = "done", !.answer =
                                Answer(Bp[bndCall.token][bndCall.op])]
  /\ IF bndCall.token = "MDService"
     THEN /\ bndHeld' = IF bndCall.reply = <<>> THEN 0 ELSE bndStarts
          /\ bndObject' = Getters[bndCall.op]
     ELSE UNCHANGED <<bndHeld, bndObject>>
  /\ UNCHANGED <<bndIface, bndStarts, bndUp>>

BndIdle ==
  /\ bndCall.at = "done"
  /\ bndCall' = NoCall
  /\ UNCHANGED <<bndIface, bndStarts, bndUp, bndHeld, bndObject>>

BinderNext ==
  \/ BndHand \/ BndGet \/ BndServe \/ BndShort \/ BndDie \/ BndRestart \/ BndReturn \/ BndIdle
  \/ \E op \in DOMAIN Bp[bndIface] : BndSend(op) \/ BndRefuse(op)
BinderSpec == BinderInit /\ [][BinderNext]_bndVars
-----------------------------------------------------------------------------
BinderTypeOK ==
  /\ bndIface \in Ifaces
  /\ bndStarts \in 1..MaxBndStarts /\ bndUp \in BOOLEAN
  /\ bndHeld \in 0..bndStarts
  /\ bndCall.at \in {"idle", "sent", "back", "done"}

\* An operation that runs is the one the caller asked for, with the caller's
\* arguments: the stub of every interface reads the words of a request as its
\* proxy wrote them, and belongs to the interface the getter was asked for.
ArgumentsArrive ==
  \A i \in DOMAIN bndCall.done :
    bndCall.done[i].op = bndCall.op /\ bndCall.done[i].args = bndCall.ins

\* What a proxy reads from the reply of a transaction that went well is what the
\* operation answered, field by field.  The list stub that runs out of memory
\* answers well without having run.
AnswersAreTheServices ==
  (bndCall.at = "done" /\ bndCall.done # <<>> /\ ~bndCall.lost
     /\ Bp[bndCall.token][bndCall.op].reads # <<>>)
    => bndCall.answer = bndCall.outs

\* The proxies that look at the status never report success, 0 in the last
\* field, for a call that was lost with the process or that did not run.
\* Left out: answers for which 0 is no success, and the list stub out of memory.
SuccessMeansDone ==
  (/\ bndCall.at = "done" /\ ~bndCall.short
   /\ Bp[bndCall.token][bndCall.op].failed = "status"
   /\ bndCall.answer[Len(bndCall.answer)] = <<0>>)
    => bndCall.done # <<>> /\ ~bndCall.lost

\* A call that reaches a living object runs its operation: the object accepts
\* the code and the token the proxy sends.  Left out: checkHdmiTimingIsFixed,
\* whose stub checks the token of InfoProvider and refuses every caller.
LivingObjectsServe ==
  (bndCall.at = "done" /\ bndCall.code # 0 /\ ~bndCall.lost /\ ~bndCall.short
     /\ bndCall.op # "checkHdmiTimingIsFixed")
    => bndCall.done # <<>>

=============================================================================
