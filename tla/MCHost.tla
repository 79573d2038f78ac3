------------------------------- MODULE MCHost -------------------------------
(***************************************************************************)
(* The parts of the two desktop programs that share no state with the      *)
(* transfers, on small instances, in one run: a behaviour is one of one    *)
(* part, and the variables of the others keep their initial values.        *)
(***************************************************************************)
EXTENDS FilePublication, AuditLog, SenderLog, ServerLifecycle, EncodeWorker, RegionSelect

VARIABLE part

hostVars == <<pubVars, auditVars, logVars, serverVars, workerVars, selectVars, part>>

Init ==
  /\ part \in {"publication", "audit", "senderLog", "server", "select", "worker"}
  /\ platform \in IF part = "worker" THEN {"linux", "windows", "other"} ELSE {"other"}
  /\ req \in IF part = "worker" THEN Requests ELSE {[all |-> FALSE, cache |-> 1, fits |-> FALSE]}
  /\ PubInit /\ AuditInit /\ LogInit /\ ServerInit /\ WorkerInit /\ SelectInit

Publication ==
  /\ part = "publication" /\ PubNext
  /\ UNCHANGED <<auditVars, logVars, serverVars, workerVars, selectVars, part>>
Audit ==
  /\ part = "audit" /\ AuditNext
  /\ UNCHANGED <<pubVars, logVars, serverVars, workerVars, selectVars, part>>
DiagnosticsOfSender ==
  /\ part = "senderLog" /\ LogNext
  /\ UNCHANGED <<pubVars, auditVars, serverVars, workerVars, selectVars, part>>
Lifecycle ==
  /\ part = "server" /\ ServerNext
  /\ UNCHANGED <<pubVars, auditVars, logVars, workerVars, selectVars, part>>
Worker ==
  /\ part = "worker" /\ WorkerNext
  /\ UNCHANGED <<pubVars, auditVars, logVars, serverVars, selectVars, part>>
Selection ==
  /\ part = "select" /\ SelectNext
  /\ UNCHANGED <<pubVars, auditVars, logVars, serverVars, workerVars, part>>

Next == Publication \/ Audit \/ DiagnosticsOfSender \/ Lifecycle \/ Worker \/ Selection

Spec == Init /\ [][Next]_hostVars /\ ServerFairness /\ WorkerFairness
=============================================================================
