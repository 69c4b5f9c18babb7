------------------------------- MODULE MCMmgr -------------------------------
(***************************************************************************)
(* The modem manager client and its parser.  The requests and the events   *)
(* share the socket and the reader, and the parser has no state of its     *)
(* own: each part is explored with the others at rest.                     *)
(***************************************************************************)
EXTENDS MmgrClient, MmgrFrames

VARIABLE part

MCEvents == {"UP", "DOWN", "COLD_RESET"}

\* Requests and their answers, with no event and no wait for one.
AckNext ==
  /\ ~crashed
  /\ \/ Start \/ StartFails \/ Stop \/ RequestModem
     \/ CallerContinues \/ ReaderRuns
     \/ (\E kind \in Answers : Answer(kind)) \/ HangUp

\* Events on one connection after another, without requests to the modem.
EventsNext ==
  /\ ~crashed
  /\ \/ (Start /\ sent = 0) \/ StartFails \/ Stop
     \/ CallerContinues \/ ReaderRuns \/ ServiceRuns

MmgrInit == Init /\ FrInit /\ part \in {"ack", "events", "frames"}
MmgrNext ==
  /\ UNCHANGED part
  /\ \/ part = "ack" /\ AckNext /\ UNCHANGED frVars
     \/ part = "events" /\ EventsNext /\ UNCHANGED frVars
     \/ part = "frames" /\ FrNext /\ UNCHANGED vars
MmgrSpec == MmgrInit /\ [][MmgrNext]_<<vars, frVars, part>>

=============================================================================
