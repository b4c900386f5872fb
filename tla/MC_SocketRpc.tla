---------------------------- MODULE MC_SocketRpc ----------------------------
(***************************************************************************)
(* Small instances of SocketRpc for TLC.  One registered service "Svc"     *)
(* with one method "M"; the requests a caller can make cover every early   *)
(* return of validateAndExecuteRequest and of validateRequest.             *)
(***************************************************************************)
EXTENDS SocketRpc

MCRegistry == [s \in {"Svc"} |-> {"M"}]

(* A well-formed call, an uninitialized user request, an unknown service,  *)
(* an unknown method, and a body the server's request class rejects.       *)
MCRequests ==
    { [init |-> TRUE,  svc |-> "Svc",   mth |-> "M",     bodyOk |-> TRUE],
      [init |-> FALSE, svc |-> "Svc",   mth |-> "M",     bodyOk |-> TRUE],
      [init |-> TRUE,  svc |-> "Other", mth |-> "M",     bodyOk |-> TRUE],
      [init |-> TRUE,  svc |-> "Svc",   mth |-> "Other", bodyOk |-> TRUE],
      [init |-> TRUE,  svc |-> "Svc",   mth |-> "M",     bodyOk |-> FALSE] }

(* Every way the handler can combine done.run, handleError and raise.      *)
MCHandlerBehaviours == Behaviours

(* Transport faults: all but the early end of the reply stream.            *)
MCFaults == {"UnknownHost", "ConnectError", "SendError", "RecvError"}

(* Every transport fault, the early end of the reply stream included.      *)
MCAllFaults == FaultKinds

(* A transport that never fails, and one whose reply stream may end early. *)
MCNoFaults == {}

MCTruncate == {"Truncate"}
=============================================================================
