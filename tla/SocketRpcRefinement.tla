------------------------- MODULE SocketRpcRefinement -------------------------
(***************************************************************************)
(* SocketRpc implements the safety part of RpcCall under the mapping Call  *)
(* of SocketRpc: every step of a client's _LifeCycle or of a server worker *)
(* is a step of RpcCall or leaves the mapped state alone.                  *)
(*                                                                         *)
(*   CallMethod                          -> Start                          *)
(*   a stage calling handleError         -> FailCall                       *)
(*   tryToRunCallback, not failed        -> Deliver                        *)
(*   tryToRunCallback's early return     -> Return                         *)
(*   any other stage, a worker's handle  -> stutter                        *)
(*                                                                         *)
(* Deliver needs that done receives a parsed response and that the error   *)
(* re-check of tryToRunCallback does not fire: the conjunct Retrieved of   *)
(* IInv.                                                                   *)
(***************************************************************************)
EXTENDS SocketRpcProofs

(* The mapped phase of each call.                                          *)
PBar == [d \in Clients |-> IF stage[d] = "idle" THEN "idle" ELSE "running"]

(* A stage that moves a running call to another running stage keeps the   *)
(* mapped phase.                                                           *)
LEMMA PhaseKept ==
  ASSUME TypeOK, NEW c \in Clients, NEW next, stage[c] # "idle", next # "idle",
         stage' = [stage EXCEPT ![c] = next]
  PROVE  PBar' = PBar
  BY DEF PBar, TypeOK

(* A step that keeps the mapped state is an RpcCall stutter.               *)
LEMMA Stutter ==
  ASSUME PBar' = PBar, UNCHANGED <<ctrl, delivered>>
  PROVE  [Call!ANext]_Call!avars
  BY DEF Call!avars, PBar

(* handleError on a running call that had not failed is FailCall.          *)
LEMMA FailIsFailCall ==
  ASSUME TypeOK, NEW c \in Clients, NEW r \in ErrorReasons,
         stage[c] # "idle", ~ctrl[c].failed, PBar' = PBar,
         Fail(c, r), UNCHANGED delivered
  PROVE  [Call!ANext]_Call!avars
<1>1. Call!FailCall(c)
  BY DEF Call!FailCall, Call!ErrorReasons, ErrorReasons, PBar, Fail
<1>2. QED
  BY <1>1 DEF Call!ANext, Call!Complete

(* A stage of the call's pipeline whose only effect on the mapped state is *)
(* a failure, or nothing.                                                  *)
LEMMA StageStep ==
  ASSUME TypeOK, NEW c \in Clients, NEW next, NEW r \in ErrorReasons,
         stage[c] # "idle", next # "idle", stage' = [stage EXCEPT ![c] = next],
         UNCHANGED delivered,
         \/ UNCHANGED ctrl
         \/ ~ctrl[c].failed /\ Fail(c, r)
  PROVE  [Call!ANext]_Call!avars
<1>1. PBar' = PBar
  BY PhaseKept
<1>2. QED
  BY <1>1, Stutter, FailIsFailCall

(* CallMethod is RpcCall's Start.                                          *)
LEMMA CallMethodStart ==
  ASSUME TypeOK, NEW c \in Clients, CallMethod(c)
  PROVE  [Call!ANext]_Call!avars
<1>1. stage[c] = "idle" /\ stage' = [stage EXCEPT ![c] = "validate"]
  BY DEF CallMethod, Advance
<1>2. PBar' = [PBar EXCEPT ![c] = "running"] /\ PBar[c] = "idle"
  BY <1>1 DEF PBar, TypeOK
<1>3. /\ ctrl' = [ctrl EXCEPT ![c] = [failed |-> FALSE, reason |-> None]]
      /\ delivered' = [delivered EXCEPT ![c] = None]
  BY DEF CallMethod, FreshController
<1>4. Call!Start(c)
  BY <1>2, <1>3 DEF Call!Start, PBar
<1>5. QED
  BY <1>4 DEF Call!ANext

(* tryToRunCallback is Deliver, or Return after a failure.                 *)
LEMMA RunCallbackCompletes ==
  ASSUME IInv, NEW c \in Clients, TryToRunCallback(c)
  PROVE  [Call!ANext]_Call!avars
<1> USE DEF IInv, TypeOK
<1>1. CASE Skip(c, "idle")
  <2>1. Call!Return(c)
    BY <1>1 DEF TryToRunCallback, Skip, Call!Return, PBar
  <2>2. QED
    BY <2>1 DEF Call!ANext, Call!Complete
<1>2. CASE ~ctrl[c].failed
  <2>1. ~rpcResponse[c].error /\ serviceResponse[c] \in PayloadValues
    BY <1>2 DEF TryToRunCallback, ClientInv, Retrieved
  <2>2. /\ UNCHANGED ctrl
        /\ delivered' = [delivered EXCEPT ![c] = serviceResponse[c]]
        /\ stage' = [stage EXCEPT ![c] = "idle"]
    BY <1>2, <2>1 DEF TryToRunCallback, Skip, Advance
  <2>3. Call!Deliver(c)
    BY <1>2, <2>1, <2>2 DEF TryToRunCallback, Call!Deliver, Call!PayloadValues,
                           PayloadValues, PBar
  <2>4. QED
    BY <2>3 DEF Call!ANext, Call!Complete
<1>3. QED
  BY <1>1, <1>2 DEF TryToRunCallback, Skip

(* Every stage but the last, and every transport fault, maps to FailCall   *)
(* or to a stutter.                                                        *)
LEMMA StagesMap ==
  ASSUME IInv, NEW c \in Clients,
         \/ TryToValidateRequest(c) \/ TryToOpenSocket(c) \/ TryToSendRpcRequest(c)
         \/ TryToReceiveReply(c) \/ TryToParseReply(c)
         \/ OpenSocketFails(c) \/ SendRpcMessageFails(c) \/ RecvRpcMessageFails(c)
  PROVE  [Call!ANext]_Call!avars
<1> USE DEF IInv, TypeOK
<1>1. CASE TryToValidateRequest(c)
  <2>1. stage[c] # "idle" /\ stage' = [stage EXCEPT ![c] = "open"] /\ UNCHANGED delivered
    BY <1>1 DEF TryToValidateRequest, Skip, Advance
  <2>2. UNCHANGED ctrl \/ (~ctrl[c].failed /\ Fail(c, "BAD_REQUEST_PROTO"))
    BY <1>1 DEF TryToValidateRequest, Skip
  <2>3. "BAD_REQUEST_PROTO" \in ErrorReasons
    BY ReasonOfType DEF ErrorReasons
  <2>4. QED
    BY <2>1, <2>2, <2>3, StageStep
<1>2. CASE TryToOpenSocket(c)
  <2>1. stage[c] # "idle" /\ stage' = [stage EXCEPT ![c] = "send"] /\ UNCHANGED delivered
    BY <1>2 DEF TryToOpenSocket, Skip, Advance
  <2>2. UNCHANGED ctrl \/ (~ctrl[c].failed /\ Fail(c, "IO_ERROR"))
    BY <1>2 DEF TryToOpenSocket, Skip
  <2>3. "IO_ERROR" \in ErrorReasons
    BY ReasonOfType DEF ErrorReasons
  <2>4. QED
    BY <2>1, <2>2, <2>3, StageStep
<1>3. CASE TryToSendRpcRequest(c)
  <2>1. stage[c] # "idle" /\ stage' = [stage EXCEPT ![c] = "recv"] /\ UNCHANGED delivered
    BY <1>3 DEF TryToSendRpcRequest, Skip, Advance
  <2>2. UNCHANGED ctrl \/ (~ctrl[c].failed /\ Fail(c, "IO_ERROR"))
    BY <1>3 DEF TryToSendRpcRequest, Skip
  <2>3. "IO_ERROR" \in ErrorReasons
    BY ReasonOfType DEF ErrorReasons
  <2>4. QED
    BY <2>1, <2>2, <2>3, StageStep
<1>4. CASE TryToReceiveReply(c)
  <2>1. stage[c] # "idle" /\ stage' = [stage EXCEPT ![c] = "parse"] /\ UNCHANGED delivered
    BY <1>4 DEF TryToReceiveReply, Skip, Advance
  <2>2. UNCHANGED ctrl \/ (~ctrl[c].failed /\ Fail(c, "IO_ERROR"))
    BY <1>4 DEF TryToReceiveReply, Skip
  <2>3. "IO_ERROR" \in ErrorReasons
    BY ReasonOfType DEF ErrorReasons
  <2>4. QED
    BY <2>1, <2>2, <2>3, StageStep
<1>5. CASE TryToParseReply(c)
  <2>1. stage[c] # "idle" /\ stage' = [stage EXCEPT ![c] = "retrieve"] /\ UNCHANGED delivered
    BY <1>5 DEF TryToParseReply, Skip, Advance
  <2>2. UNCHANGED ctrl \/ (~ctrl[c].failed /\ Fail(c, "BAD_RESPONSE_PROTO"))
    BY <1>5 DEF TryToParseReply, Skip
  <2>3. "BAD_RESPONSE_PROTO" \in ErrorReasons
    BY ReasonOfType DEF ErrorReasons
  <2>4. QED
    BY <2>1, <2>2, <2>3, StageStep
<1>6. CASE OpenSocketFails(c)
  <2>1. stage[c] # "idle" /\ stage' = [stage EXCEPT ![c] = "send"] /\ UNCHANGED delivered
    BY <1>6 DEF OpenSocketFails, Advance
  <2>2. PICK r \in {"UNKNOWN_HOST", "IO_ERROR"} : ~ctrl[c].failed /\ Fail(c, r)
    BY <1>6 DEF OpenSocketFails
  <2>3. QED
    BY <2>1, <2>2, StageStep DEF ErrorReasons
<1>7. CASE SendRpcMessageFails(c)
  <2>1. stage[c] # "idle" /\ stage' = [stage EXCEPT ![c] = "recv"] /\ UNCHANGED delivered
    BY <1>7 DEF SendRpcMessageFails, Advance
  <2>2. ~ctrl[c].failed /\ Fail(c, "IO_ERROR")
    BY <1>7 DEF SendRpcMessageFails
  <2>3. QED
    BY <2>1, <2>2, StageStep DEF ErrorReasons
<1>8. CASE RecvRpcMessageFails(c)
  <2>1. stage[c] # "idle" /\ stage' = [stage EXCEPT ![c] = "parse"] /\ UNCHANGED delivered
    BY <1>8 DEF RecvRpcMessageFails, Advance
  <2>2. ~ctrl[c].failed /\ Fail(c, "IO_ERROR")
    BY <1>8 DEF RecvRpcMessageFails
  <2>3. QED
    BY <2>1, <2>2, StageStep DEF ErrorReasons
<1>9. QED
  BY <1>1, <1>2, <1>3, <1>4, <1>5, <1>6, <1>7, <1>8

(* tryToRetrieveServiceResponse fails the call with the reply's reason or *)
(* with BAD_RESPONSE_PROTO, or leaves the mapped state alone.              *)
LEMMA RetrieveMaps ==
  ASSUME IInv, NEW c \in Clients, TryToRetrieveServiceResponse(c)
  PROVE  [Call!ANext]_Call!avars
<1> USE DEF IInv, TypeOK
<1>1. stage[c] # "idle" /\ stage' = [stage EXCEPT ![c] = "runcb"] /\ UNCHANGED delivered
  BY DEF TryToRetrieveServiceResponse, Skip, Advance
<1>2. CASE ctrl[c].failed
  BY <1>1, <1>2, StageStep DEF TryToRetrieveServiceResponse, Skip, ErrorReasons
<1>3. CASE ~ctrl[c].failed
  <2>1. rpcResponse[c] \in ResponseEnvelopes
    BY <1>3 DEF TryToRetrieveServiceResponse, ClientInv, ReplyParsed
  <2>2. ReasonOf(rpcResponse[c]) \in ErrorReasons
    BY <2>1, ReasonOfType
  <2>3. \/ UNCHANGED ctrl
        \/ Fail(c, ReasonOf(rpcResponse[c]))
        \/ Fail(c, "BAD_RESPONSE_PROTO")
    BY <1>3 DEF TryToRetrieveServiceResponse, Skip
  <2>4. QED
    BY <1>1, <1>3, <2>2, <2>3, StageStep DEF ErrorReasons
<1>4. QED
  BY <1>2, <1>3

(* Every step of SocketRpc is a step of RpcCall under the mapping, or      *)
(* leaves the mapped state alone.                                          *)
THEOREM StepRefines == IInv /\ [Next]_vars => [Call!ANext]_Call!avars
<1> SUFFICES ASSUME IInv, [Next]_vars PROVE [Call!ANext]_Call!avars
  OBVIOUS
<1>1. CASE \E c \in Clients : CallMethod(c) \/ LifeCycleStep(c) \/ TransportFault(c)
  BY <1>1, CallMethodStart, StagesMap, RetrieveMaps, RunCallbackCompletes
     DEF LifeCycleStep, TransportFault, IInv
<1>2. CASE (\E k \in Conns : Handle(k)) \/ Finished \/ UNCHANGED vars
  <2>1. UNCHANGED <<stage, ctrl, delivered>>
    <3>1. CASE \E k \in Conns : Handle(k)
      BY <3>1 DEF Handle, clientVars
    <3>2. CASE Finished
      BY <3>2 DEF Finished, vars, clientVars
    <3>3. CASE UNCHANGED vars
      BY <3>3 DEF vars, clientVars
    <3>4. QED
      BY <1>2, <3>1, <3>2, <3>3
  <2>2. PBar' = PBar
    BY <2>1 DEF PBar
  <2>3. QED
    BY <2>1, <2>2, Stutter
<1>3. QED
  BY <1>1, <1>2 DEF Next

(* SocketRpcChannel.CallMethod implements a remote call (spec 4.2): every  *)
(* behaviour of SocketRpc, seen through the mapping, is one of RpcCall's:  *)
(* a call fails at most once, runs done only when not failed, and returns  *)
(* Delivered or Failed.                                                    *)
THEOREM Refinement == Spec => Call!SafeSpec
<1>1. Init => Call!AInit
  BY DEF Init, FreshController, Call!AInit
<1>2. QED
  BY <1>1, InitIInv, NextIInv, StepRefines, PTL DEF Spec, Call!SafeSpec
=============================================================================
