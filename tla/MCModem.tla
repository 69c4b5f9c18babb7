------------------------------ MODULE MCModem ------------------------------
(***************************************************************************)
(* What applications see of the modem services: the operations of the      *)
(* modem manager client, ModemStatusManager above a client, and the client *)
(* of the modem status daemon.  A behaviour exercises one of them.         *)
(***************************************************************************)
EXTENDS MmgrClient, ModemManager, StmdClient

VARIABLE part
modemVars == <<vars, msmVars, stmVars, part>>

ModemInit ==
  Init /\ MsmInit /\ StmInit /\ part \in {"operations", "manager", "stmd"}
ModemNext ==
  /\ UNCHANGED part
  /\ \/ part = "operations" /\ Next /\ UNCHANGED <<msmVars, stmVars>>
     \/ part = "manager" /\ MsmNext /\ UNCHANGED <<vars, stmVars>>
     \/ part = "stmd" /\ StmNext /\ UNCHANGED <<vars, msmVars>>

ModemSpec ==
  /\ ModemInit /\ [][ModemNext]_modemVars
  /\ OperationsFairness /\ MsmFairness /\ StmFairness

-----------------------------------------------------------------------------
(* Properties *)

(* No call blocks its thread for ever: operations of the client return,        *)
(* asynchronous ones are answered, and stop of the status client returns.      *)
ModemCallsEnd == OperationsReturn /\ AsyncGetsAnswered /\ StmdStopReturns
=============================================================================
