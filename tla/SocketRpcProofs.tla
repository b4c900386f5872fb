--------------------------- MODULE SocketRpcProofs ---------------------------
(***************************************************************************)
(* Proofs about SocketRpc for every value of its constants: type           *)
(* correctness, that no call returns with its socket open, and that the    *)
(* first failure of a call is never overwritten.                           *)
(***************************************************************************)
EXTENDS SocketRpc, TLAPS

(***************************************************************************)
(* TypeOK alone is not inductive: TryToSendRpcRequest reads req[c],        *)
(* TryToParseReply copies byteStream[c] and TryToRetrieveServiceResponse   *)
(* reads the fields of rpcResponse[c], and each is only well-typed because *)
(* an earlier stage of the same call, not having failed, set that field.   *)
(* NoSocketLeak needs the fact that an open socket belongs to a call that  *)
(* is sending or receiving and has not failed yet: every stage that can    *)
(* fail after the socket was opened closes it.                             *)
(***************************************************************************)

(* A running call has a request and is on its own connection.            *)
RequestSet(c) == stage[c] # "idle" => req[c] \in Requests /\ ncalls[c] \in 1..MaxCalls

(* A call about to parse, not failed, has read a byte stream.              *)
BytesRead(c) == stage[c] = "parse" /\ ~ctrl[c].failed => byteStream[c] \in WireBytes

(* A call about to retrieve or run done, not failed, has a parsed reply.   *)
ReplyParsed(c) ==
    stage[c] \in {"retrieve", "runcb"} /\ ~ctrl[c].failed
        => rpcResponse[c] \in ResponseEnvelopes

(* An open socket belongs to a call that is sending or receiving and has  *)
(* not failed.                                                             *)
OpenSocketOwned(c) ==
    sock[c] = "open" => stage[c] \in {"send", "recv"} /\ ~ctrl[c].failed

(* A call about to run done, not failed, has a reply without error and a  *)
(* parsed response: tryToRetrieveServiceResponse failed the call          *)
(* otherwise, so the error re-check of tryToRunCallback never fires.       *)
Retrieved(c) ==
    stage[c] = "runcb" /\ ~ctrl[c].failed
        => ~rpcResponse[c].error /\ serviceResponse[c] \in PayloadValues

(* The per-client conjuncts.                                                *)
ClientInv(c) ==
    RequestSet(c) /\ BytesRead(c) /\ ReplyParsed(c) /\ OpenSocketOwned(c) /\ Retrieved(c)

IInv == TypeOK /\ \A c \in Clients : ClientInv(c)

USE SocketRpcAssumption, WireAssumption

(* The dispatcher answers with one of the protocol's error reasons, or     *)
(* None when the request reaches the handler.                              *)
LEMMA UnroutableType ==
  ASSUME NEW r PROVE Unroutable(r) \in ErrorReasons \cup {None}
  BY DEF Unroutable, ErrorReasons

(* A step that leaves a client's own fields alone keeps its invariant.     *)
LEMMA ClientFrame ==
  ASSUME NEW d, ClientInv(d),
         stage'[d] = stage[d], ncalls'[d] = ncalls[d], req'[d] = req[d],
         ctrl'[d] = ctrl[d], sock'[d] = sock[d], byteStream'[d] = byteStream[d],
         rpcResponse'[d] = rpcResponse[d], serviceResponse'[d] = serviceResponse[d]
  PROVE  ClientInv(d)'
  BY DEF ClientInv, RequestSet, BytesRead, ReplyParsed, OpenSocketOwned, Retrieved

(* Before any call every client is idle and well typed.                    *)
THEOREM InitIInv == Init => IInv
<1> SUFFICES ASSUME Init PROVE IInv
  OBVIOUS
<1>1. TypeOK
  <2>1. ctrl \in [Clients -> Controllers]
    BY DEF Init, FreshController, Controllers
  <2>2. ncalls \in [Clients -> 0..MaxCalls]
    BY DEF Init
  <2>3. stage \in [Clients -> Stages]
    BY DEF Init, Stages
  <2>4. /\ req \in [Clients -> Requests \cup {None}]
        /\ sock \in [Clients -> {"none", "open", "closed"}]
        /\ byteStream \in [Clients -> WireBytes \cup {None}]
        /\ rpcResponse \in [Clients -> ResponseEnvelopes \cup {None}]
        /\ serviceResponse \in [Clients -> PayloadValues \cup {None}]
        /\ delivered \in [Clients -> PayloadValues \cup {None}]
    BY DEF Init
  <2>5. /\ c2s \in [Conns -> RequestEnvelopes \cup {None}]
        /\ s2c \in [Conns -> ResponseEnvelopes \cup {None}]
        /\ srv \in [Conns -> {"none", "accepted", "closed"}]
        /\ handled \in [Conns -> HandlerBehaviours \cup {None}]
    BY DEF Init
  <2>6. QED
    BY <2>1, <2>2, <2>3, <2>4, <2>5 DEF TypeOK
<1>2. \A c \in Clients : ClientInv(c)
  BY DEF Init, ClientInv, RequestSet, BytesRead, ReplyParsed, OpenSocketOwned, Retrieved
<1>3. QED
  BY <1>1, <1>2 DEF IInv

(* CallMethod gives the new call a request and a connection number.        *)
LEMMA CallMethodStep ==
  ASSUME IInv, NEW c \in Clients, CallMethod(c)
  PROVE  IInv'
<1> USE DEF IInv, TypeOK
<1>1. PICK r \in Requests : req' = [req EXCEPT ![c] = r]
  BY DEF CallMethod
<1>2. TypeOK'
  <2>1. /\ stage' \in [Clients -> Stages]
        /\ ncalls' \in [Clients -> 0..MaxCalls]
        /\ req' \in [Clients -> Requests \cup {None}]
    BY <1>1 DEF CallMethod, Advance, Stages
  <2>2. ctrl' \in [Clients -> Controllers]
    BY DEF CallMethod, FreshController, Controllers
  <2>3. /\ sock' \in [Clients -> {"none", "open", "closed"}]
        /\ byteStream' \in [Clients -> WireBytes \cup {None}]
        /\ rpcResponse' \in [Clients -> ResponseEnvelopes \cup {None}]
        /\ serviceResponse' \in [Clients -> PayloadValues \cup {None}]
        /\ delivered' \in [Clients -> PayloadValues \cup {None}]
    BY DEF CallMethod
  <2>4. UNCHANGED netVars
    BY DEF CallMethod
  <2>5. QED
    BY <2>1, <2>2, <2>3, <2>4 DEF netVars
<1>3. ASSUME NEW d \in Clients PROVE ClientInv(d)'
  <2>1. CASE d = c
    BY <1>1, <2>1 DEF CallMethod, Advance, FreshController, ClientInv, RequestSet,
                      BytesRead, ReplyParsed, OpenSocketOwned, Retrieved
  <2>2. CASE d # c
    BY <1>1, <2>2, ClientFrame DEF CallMethod, Advance
  <2>3. QED
    BY <2>1, <2>2
<1>4. QED
  BY <1>2, <1>3

(* handleError records a reason of the protocol's enumeration.           *)
LEMMA FailType ==
  ASSUME ctrl \in [Clients -> Controllers], NEW c \in Clients,
         NEW r \in ErrorReasons, Fail(c, r)
  PROVE  ctrl' \in [Clients -> Controllers] /\ ctrl'[c].failed
  BY DEF Fail, Controllers

(* The early return of a stage whose controller has already failed.       *)
LEMMA SkipStep ==
  ASSUME IInv, NEW c \in Clients, stage[c] # "idle", NEW next \in Stages,
         Skip(c, next)
  PROVE  IInv'
<1> USE DEF IInv, TypeOK
<1>1. TypeOK'
  BY DEF Skip, netVars
<1>2. ASSUME NEW d \in Clients PROVE ClientInv(d)'
  <2>1. CASE d = c
    BY <2>1 DEF Skip, ClientInv, RequestSet, BytesRead, ReplyParsed, OpenSocketOwned, Retrieved
  <2>2. CASE d # c
    BY <2>2, ClientFrame DEF Skip
  <2>3. QED
    BY <2>1, <2>2
<1>3. QED
  BY <1>1, <1>2

(* Validation keeps the request and the connection of the call.            *)
LEMMA ValidateStep ==
  ASSUME IInv, NEW c \in Clients, TryToValidateRequest(c)
  PROVE  IInv'
<1> USE DEF IInv, TypeOK
<1> DEFINE Rest == UNCHANGED <<ncalls, req, sock, byteStream, rpcResponse,
                                serviceResponse, delivered, netVars>>
<1>1. CASE Skip(c, "open")
  BY <1>1, SkipStep DEF TryToValidateRequest, Stages
<1>2. ASSUME ~ctrl[c].failed, stage[c] = "validate", Advance(c, "open"), Rest,
             \/ ctrl' = ctrl
             \/ Fail(c, "BAD_REQUEST_PROTO")
      PROVE  IInv'
  <2>1. ctrl' \in [Clients -> Controllers]
    BY <1>2, FailType DEF ErrorReasons
  <2>2. TypeOK'
    BY <1>2, <2>1 DEF Advance, Stages, netVars
  <2>3. ASSUME NEW d \in Clients PROVE ClientInv(d)'
    <3>1. CASE d = c
      BY <1>2, <3>1 DEF Advance, ClientInv, RequestSet, BytesRead, ReplyParsed,
                        OpenSocketOwned, Retrieved
    <3>2. CASE d # c
      <4>1. ctrl'[d] = ctrl[d]
        BY <1>2, <3>2 DEF Fail
      <4>2. QED
        BY <1>2, <3>2, <4>1, ClientFrame DEF Advance
    <3>3. QED
      BY <3>1, <3>2
  <2>4. QED
    BY <2>2, <2>3
<1>3. QED
  BY <1>1, <1>2 DEF TryToValidateRequest

(* connect opens the socket of a call that has not failed.                 *)
LEMMA OpenStep ==
  ASSUME IInv, NEW c \in Clients, TryToOpenSocket(c)
  PROVE  IInv'
<1> USE DEF IInv, TypeOK
<1>1. CASE Skip(c, "send")
  BY <1>1, SkipStep DEF TryToOpenSocket, Stages
<1>2. CASE ~ctrl[c].failed /\ stage[c] = "open"
           /\ sock' = [sock EXCEPT ![c] = "open"]
           /\ srv' = [srv EXCEPT ![Conn(c)] = "accepted"]
           /\ Advance(c, "send")
           /\ UNCHANGED <<ncalls, req, ctrl, byteStream, rpcResponse,
                          serviceResponse, delivered, c2s, s2c, handled>>
  <2>1. TypeOK'
    BY <1>2 DEF Advance, Stages
  <2>2. ASSUME NEW d \in Clients PROVE ClientInv(d)'
    <3>1. CASE d = c
      BY <1>2, <3>1 DEF Advance, ClientInv, RequestSet, BytesRead, ReplyParsed,
                        OpenSocketOwned, Retrieved
    <3>2. CASE d # c
      BY <1>2, <3>2, ClientFrame DEF Advance
    <3>3. QED
      BY <3>1, <3>2
  <2>3. QED
    BY <2>1, <2>2
<1>3. QED
  BY <1>1, <1>2 DEF TryToOpenSocket

(* A failed connect closes the new socket and fails the call.              *)
LEMMA OpenFailStep ==
  ASSUME IInv, NEW c \in Clients, OpenSocketFails(c)
  PROVE  IInv'
<1> USE DEF IInv, TypeOK
<1>1. PICK f \in Faults \cap {"UnknownHost", "ConnectError"} :
             Fail(c, IF f = "UnknownHost" THEN "UNKNOWN_HOST" ELSE "IO_ERROR")
  BY DEF OpenSocketFails
<1>2. ctrl' \in [Clients -> Controllers] /\ ctrl'[c].failed
  BY <1>1, FailType DEF ErrorReasons
<1>3. TypeOK'
  BY <1>2 DEF OpenSocketFails, Advance, Stages, netVars
<1>4. ASSUME NEW d \in Clients PROVE ClientInv(d)'
  <2>1. CASE d = c
    BY <1>2, <2>1 DEF OpenSocketFails, Advance, ClientInv, RequestSet, BytesRead,
                      ReplyParsed, OpenSocketOwned, Retrieved
  <2>2. CASE d # c
    BY <1>1, <2>2, ClientFrame DEF OpenSocketFails, Advance, Fail
  <2>3. QED
    BY <2>1, <2>2
<1>5. QED
  BY <1>3, <1>4

(* Sending writes a well-formed request on the call's connection.          *)
LEMMA SendStep ==
  ASSUME IInv, NEW c \in Clients, TryToSendRpcRequest(c)
  PROVE  IInv'
<1> USE DEF IInv, TypeOK
<1>1. CASE Skip(c, "recv")
  BY <1>1, SkipStep DEF TryToSendRpcRequest, Stages
<1>2. CASE /\ ~ctrl[c].failed /\ stage[c] = "send"
           /\ c2s' = [c2s EXCEPT ![Conn(c)] = RpcRequest(req[c])]
           /\ Advance(c, "recv")
           /\ UNCHANGED <<ncalls, req, ctrl, sock, byteStream, rpcResponse,
                          serviceResponse, delivered, s2c, srv, handled>>
  <2>1. req[c] \in Requests /\ Conn(c) \in Conns
    BY <1>2 DEF ClientInv, RequestSet, Conn, Conns
  <2>2. RpcRequest(req[c]) \in RequestEnvelopes
    BY <2>1, SocketRpcAssumption DEF RpcRequest, RequestEnvelopes
  <2>3. TypeOK'
    BY <1>2, <2>1, <2>2 DEF Advance, Stages
  <2>4. ASSUME NEW d \in Clients PROVE ClientInv(d)'
    <3>1. CASE d = c
      BY <1>2, <3>1 DEF Advance, ClientInv, RequestSet, BytesRead, ReplyParsed,
                        OpenSocketOwned, Retrieved
    <3>2. CASE d # c
      BY <1>2, <3>2, ClientFrame DEF Advance
    <3>3. QED
      BY <3>1, <3>2
  <2>5. QED
    BY <2>3, <2>4
<1>3. QED
  BY <1>1, <1>2 DEF TryToSendRpcRequest

(* A failed write closes the socket and fails the call.                    *)
LEMMA SendFailStep ==
  ASSUME IInv, NEW c \in Clients, SendRpcMessageFails(c)
  PROVE  IInv'
<1> USE DEF IInv, TypeOK
<1>1. ctrl' \in [Clients -> Controllers] /\ ctrl'[c].failed
  BY FailType DEF SendRpcMessageFails, ErrorReasons
<1>2. c2s' \in [Conns -> RequestEnvelopes \cup {None}]
  <2>1. req[c] \in Requests /\ Conn(c) \in Conns
    BY DEF SendRpcMessageFails, ClientInv, RequestSet, Conn, Conns
  <2>2. {Partial, RpcRequest(req[c])} \subseteq RequestEnvelopes
    BY <2>1, SocketRpcAssumption DEF RpcRequest, RequestEnvelopes
  <2>3. QED
    BY <2>1, <2>2 DEF SendRpcMessageFails
<1>3. TypeOK'
  BY <1>1, <1>2 DEF SendRpcMessageFails, Advance, Stages
<1>4. ASSUME NEW d \in Clients PROVE ClientInv(d)'
  <2>1. CASE d = c
    BY <1>1, <2>1 DEF SendRpcMessageFails, Advance, ClientInv, RequestSet,
                      BytesRead, ReplyParsed, OpenSocketOwned, Retrieved
  <2>2. CASE d # c
    BY <2>2, ClientFrame DEF SendRpcMessageFails, Advance, Fail
  <2>3. QED
    BY <2>1, <2>2
<1>5. QED
  BY <1>3, <1>4

(* Whatever prefix of a reply the reader sees decodes to a Response, or   *)
(* does not decode at all.                                                 *)
LEMMA TruncationsType ==
  ASSUME NEW env \in ResponseEnvelopes
  PROVE  Truncations(env) \subseteq WireBytes
<1>1. env = [payload |-> env.payload, callback |-> env.callback,
             error |-> env.error, reason |-> env.reason]
  BY DEF ResponseEnvelopes
<1>2. [env EXCEPT !.error = FALSE, !.reason = None] \in ResponseEnvelopes
  BY <1>1 DEF ResponseEnvelopes
<1>3. /\ [env EXCEPT !.reason = None] \in ResponseEnvelopes
      /\ [env EXCEPT !.callback = None, !.reason = None] \in ResponseEnvelopes
  BY <1>1 DEF ResponseEnvelopes
<1>4. /\ ZeroBytes \in ResponseEnvelopes
      /\ [payload |-> env.payload, callback |-> None, error |-> FALSE, reason |-> None]
           \in ResponseEnvelopes
  BY DEF ResponseEnvelopes, ZeroBytes
<1>5. QED
  BY <1>2, <1>3, <1>4 DEF Truncations, WireBytes

(* The read leaves bytes in byte_stream and closes the socket.             *)
LEMMA RecvStep ==
  ASSUME IInv, NEW c \in Clients, TryToReceiveReply(c)
  PROVE  IInv'
<1> USE DEF IInv, TypeOK
<1>1. CASE Skip(c, "parse")
  BY <1>1, SkipStep DEF TryToReceiveReply, Stages
<1>2. CASE /\ ~ctrl[c].failed /\ stage[c] = "recv"
           /\ s2c[Conn(c)] # None
           /\ \E b \in {s2c[Conn(c)]} \cup Truncations(s2c[Conn(c)]) :
                 byteStream' = [byteStream EXCEPT ![c] = b]
           /\ sock' = [sock EXCEPT ![c] = "closed"]
           /\ Advance(c, "parse")
           /\ UNCHANGED <<ncalls, req, ctrl, rpcResponse, serviceResponse,
                          delivered, netVars>>
  <2>1. Conn(c) \in Conns
    BY <1>2 DEF ClientInv, RequestSet, Conn, Conns
  <2>2. s2c[Conn(c)] \in ResponseEnvelopes
    BY <1>2, <2>1
  <2>3. PICK b \in WireBytes : byteStream' = [byteStream EXCEPT ![c] = b]
    BY <1>2, <2>2, TruncationsType DEF WireBytes
  <2>4. TypeOK'
    BY <1>2, <2>3 DEF Advance, Stages, netVars
  <2>5. ASSUME NEW d \in Clients PROVE ClientInv(d)'
    <3>1. CASE d = c
      BY <1>2, <2>3, <3>1 DEF Advance, ClientInv, RequestSet, BytesRead,
                              ReplyParsed, OpenSocketOwned, Retrieved
    <3>2. CASE d # c
      BY <1>2, <2>3, <3>2, ClientFrame DEF Advance
    <3>3. QED
      BY <3>1, <3>2
  <2>6. QED
    BY <2>4, <2>5
<1>3. QED
  BY <1>1, <1>2 DEF TryToReceiveReply

(* A failed read closes the socket and fails the call.                     *)
LEMMA RecvFailStep ==
  ASSUME IInv, NEW c \in Clients, RecvRpcMessageFails(c)
  PROVE  IInv'
<1> USE DEF IInv, TypeOK
<1>1. ctrl' \in [Clients -> Controllers] /\ ctrl'[c].failed
  BY FailType DEF RecvRpcMessageFails, ErrorReasons
<1>2. TypeOK'
  BY <1>1 DEF RecvRpcMessageFails, Advance, Stages, netVars
<1>3. ASSUME NEW d \in Clients PROVE ClientInv(d)'
  <2>1. CASE d = c
    BY <1>1, <2>1 DEF RecvRpcMessageFails, Advance, ClientInv, RequestSet,
                      BytesRead, ReplyParsed, OpenSocketOwned, Retrieved
  <2>2. CASE d # c
    BY <2>2, ClientFrame DEF RecvRpcMessageFails, Advance, Fail
  <2>3. QED
    BY <2>1, <2>2
<1>4. QED
  BY <1>2, <1>3

(* Parsing either fails the call or leaves a decoded Response.             *)
LEMMA ParseStep ==
  ASSUME IInv, NEW c \in Clients, TryToParseReply(c)
  PROVE  IInv'
<1> USE DEF IInv, TypeOK
<1> DEFINE Rest == UNCHANGED <<ncalls, req, sock, byteStream, serviceResponse,
                                delivered, netVars>>
<1>1. CASE Skip(c, "retrieve")
  BY <1>1, SkipStep DEF TryToParseReply, Stages
<1>2. ASSUME ~ctrl[c].failed, stage[c] = "parse", Advance(c, "retrieve"), Rest,
             byteStream[c] = Junk, Fail(c, "BAD_RESPONSE_PROTO"),
             UNCHANGED rpcResponse
      PROVE  IInv'
  <2>1. ctrl' \in [Clients -> Controllers] /\ ctrl'[c].failed
    BY <1>2, FailType DEF ErrorReasons
  <2>2. TypeOK'
    BY <1>2, <2>1 DEF Advance, Stages, netVars
  <2>3. ASSUME NEW d \in Clients PROVE ClientInv(d)'
    <3>1. CASE d = c
      BY <1>2, <2>1, <3>1 DEF Advance, ClientInv, RequestSet, BytesRead,
                              ReplyParsed, OpenSocketOwned, Retrieved
    <3>2. CASE d # c
      BY <1>2, <3>2, ClientFrame DEF Advance, Fail
    <3>3. QED
      BY <3>1, <3>2
  <2>4. QED
    BY <2>2, <2>3
<1>3. ASSUME ~ctrl[c].failed, stage[c] = "parse", Advance(c, "retrieve"), Rest,
             byteStream[c] # Junk,
             rpcResponse' = [rpcResponse EXCEPT ![c] = byteStream[c]],
             UNCHANGED ctrl
      PROVE  IInv'
  <2>1. byteStream[c] \in ResponseEnvelopes
    BY <1>3 DEF ClientInv, BytesRead, WireBytes
  <2>2. TypeOK'
    BY <1>3, <2>1 DEF Advance, Stages, netVars
  <2>3. ASSUME NEW d \in Clients PROVE ClientInv(d)'
    <3>1. CASE d = c
      BY <1>3, <2>1, <3>1 DEF Advance, ClientInv, RequestSet, BytesRead,
                              ReplyParsed, OpenSocketOwned, Retrieved
    <3>2. CASE d # c
      BY <1>3, <3>2, ClientFrame DEF Advance
    <3>3. QED
      BY <3>1, <3>2
  <2>4. QED
    BY <2>2, <2>3
<1>4. QED
  BY <1>1, <1>2, <1>3 DEF TryToParseReply

(* The reason a reply's error_reason reads as is one of the enumeration.   *)
LEMMA ReasonOfType ==
  ASSUME NEW env \in ResponseEnvelopes PROVE ReasonOf(env) \in ErrorReasons
  BY DEF ReasonOf, DefaultReason, ResponseEnvelopes, ErrorReasons

(* Parsing the payload yields a user message or the parse failure.         *)
LEMMA ParsePayloadType ==
  ASSUME NEW p, NEW h PROVE ParsePayload(p, h) \in PayloadValues \cup {None}
  BY DEF ParsePayload, PayloadValues

(* Retrieval either fails the call or keeps an error-free reply and a      *)
(* parsed payload.                                                         *)
LEMMA RetrieveStep ==
  ASSUME IInv, NEW c \in Clients, TryToRetrieveServiceResponse(c)
  PROVE  IInv'
<1> USE DEF IInv, TypeOK
<1> DEFINE env == rpcResponse[c]
           parsed == ParsePayload(env.payload, RespHasRequired)
           Rest == UNCHANGED <<ncalls, req, sock, byteStream, rpcResponse,
                               delivered, netVars>>
<1>1. CASE Skip(c, "runcb")
  BY <1>1, SkipStep DEF TryToRetrieveServiceResponse, Stages
<1>2. ASSUME ~ctrl[c].failed, stage[c] = "retrieve", Advance(c, "runcb"), Rest,
             \/ Fail(c, ReasonOf(env)) /\ UNCHANGED serviceResponse
             \/ Fail(c, "BAD_RESPONSE_PROTO") /\ UNCHANGED serviceResponse
             \/ /\ ~env.error
                /\ parsed # None
                /\ serviceResponse' = [serviceResponse EXCEPT ![c] = parsed]
                /\ UNCHANGED ctrl
      PROVE  IInv'
  <2>1. env \in ResponseEnvelopes
    BY <1>2 DEF ClientInv, ReplyParsed
  <2>2. ctrl' \in [Clients -> Controllers]
    <3>1. ReasonOf(env) \in ErrorReasons /\ "BAD_RESPONSE_PROTO" \in ErrorReasons
      BY <2>1, ReasonOfType DEF ErrorReasons
    <3>2. QED
      BY <1>2, <3>1, FailType
  <2>3. serviceResponse' \in [Clients -> PayloadValues \cup {None}]
    BY <1>2, ParsePayloadType
  <2>4. TypeOK'
    BY <1>2, <2>2, <2>3 DEF Advance, Stages, netVars
  <2>5. ASSUME NEW d \in Clients PROVE ClientInv(d)'
    <3>1. CASE d = c
      <4>1. Retrieved(c)'
        <5>1. CASE Fail(c, ReasonOf(env)) \/ Fail(c, "BAD_RESPONSE_PROTO")
          BY <5>1 DEF Retrieved, Fail
        <5>2. CASE ~env.error /\ parsed # None
                   /\ serviceResponse' = [serviceResponse EXCEPT ![c] = parsed]
                   /\ UNCHANGED ctrl
          BY <1>2, <5>2, ParsePayloadType DEF Retrieved
        <5>3. QED
          BY <1>2, <5>1, <5>2
      <4>2. QED
        BY <1>2, <2>1, <3>1, <4>1 DEF Advance, ClientInv, RequestSet, BytesRead,
                                      ReplyParsed, OpenSocketOwned
    <3>2. CASE d # c
      <4>1. ctrl'[d] = ctrl[d]
        BY <1>2, <3>2 DEF Fail
      <4>2. QED
        BY <1>2, <3>2, <4>1, ClientFrame DEF Advance
    <3>3. QED
      BY <3>1, <3>2
  <2>6. QED
    BY <2>4, <2>5
<1>3. QED
  BY <1>1, <1>2 DEF TryToRetrieveServiceResponse

(* Running done returns the call to idle.                                  *)
LEMMA RunCallbackStep ==
  ASSUME IInv, NEW c \in Clients, TryToRunCallback(c)
  PROVE  IInv'
<1> USE DEF IInv, TypeOK
<1> DEFINE Rest == UNCHANGED <<ncalls, req, sock, byteStream, rpcResponse,
                                serviceResponse, netVars>>
<1>1. CASE Skip(c, "idle")
  BY <1>1, SkipStep DEF TryToRunCallback, Stages
<1>2. ASSUME ~ctrl[c].failed, stage[c] = "runcb", Advance(c, "idle"), Rest,
             delivered' = [delivered EXCEPT ![c] = serviceResponse[c]],
             \/ Fail(c, ReasonOf(rpcResponse[c]))
             \/ ctrl' = ctrl
      PROVE  IInv'
  <2>1. rpcResponse[c] \in ResponseEnvelopes
    BY <1>2 DEF ClientInv, ReplyParsed
  <2>2. ctrl' \in [Clients -> Controllers]
    BY <1>2, <2>1, FailType, ReasonOfType
  <2>3. TypeOK'
    BY <1>2, <2>2 DEF Advance, Stages, netVars
  <2>4. ASSUME NEW d \in Clients PROVE ClientInv(d)'
    <3>1. CASE d = c
      BY <1>2, <3>1 DEF Advance, ClientInv, RequestSet, BytesRead,
                        ReplyParsed, OpenSocketOwned, Retrieved
    <3>2. CASE d # c
      <4>1. ctrl'[d] = ctrl[d]
        BY <1>2, <3>2 DEF Fail
      <4>2. QED
        BY <1>2, <3>2, <4>1, ClientFrame DEF Advance
    <3>3. QED
      BY <3>1, <3>2
  <2>5. QED
    BY <2>3, <2>4
<1>3. QED
  BY <1>1, <1>2 DEF TryToRunCallback

(* callMethod's reply is a Response, for every handler behaviour.         *)
LEMMA CallMethodReplyType ==
  ASSUME NEW b \in Behaviours PROVE CallMethodReply(b) \in ResponseEnvelopes
  BY DEF CallMethodReply, Behaviours, ErrorEnvelope, ZeroBytes, ResponseEnvelopes,
         ErrorReasons

(* A worker writes a well-typed reply and touches no client.               *)
LEMMA HandleStep ==
  ASSUME IInv, NEW k \in Conns, Handle(k)
  PROVE  IInv'
<1> USE DEF IInv, TypeOK
<1> DEFINE why == Unroutable(c2s[k])
<1>1. why \in ErrorReasons \cup {None}
  BY UnroutableType
<1>2. /\ s2c' \in [Conns -> ResponseEnvelopes \cup {None}]
      /\ handled' \in [Conns -> HandlerBehaviours \cup {None}]
  <2>1. CASE why # None
    <3>1. ErrorEnvelope(why) \in ResponseEnvelopes
      BY <1>1, <2>1 DEF ErrorEnvelope, ResponseEnvelopes
    <3>2. QED
      BY <2>1, <3>1 DEF Handle
  <2>2. CASE why = None
    BY <2>2, CallMethodReplyType DEF Handle
  <2>3. QED
    BY <2>1, <2>2
<1>3. TypeOK'
  BY <1>2 DEF Handle, clientVars
<1>4. ASSUME NEW d \in Clients PROVE ClientInv(d)'
  BY ClientFrame DEF Handle, clientVars
<1>5. QED
  BY <1>3, <1>4

(* Every step of SocketRpc keeps IInv.                                     *)
THEOREM NextIInv == IInv /\ [Next]_vars => IInv'
<1> SUFFICES ASSUME IInv, [Next]_vars PROVE IInv'
  OBVIOUS
<1>1. CASE \E c \in Clients : CallMethod(c) \/ LifeCycleStep(c) \/ TransportFault(c)
  BY <1>1, CallMethodStep, ValidateStep, OpenStep, OpenFailStep, SendStep,
     SendFailStep, RecvStep, RecvFailStep, ParseStep, RetrieveStep, RunCallbackStep
     DEF LifeCycleStep, TransportFault
<1>2. CASE \E k \in Conns : Handle(k)
  BY <1>2, HandleStep
<1>3. CASE Finished \/ UNCHANGED vars
  <2>1. UNCHANGED vars
    BY <1>3 DEF Finished
  <2>2. TypeOK'
    BY <2>1 DEF vars, clientVars, netVars, IInv, TypeOK
  <2>3. ASSUME NEW d \in Clients PROVE ClientInv(d)'
    BY <2>1, ClientFrame DEF vars, clientVars, IInv
  <2>4. QED
    BY <2>2, <2>3 DEF IInv
<1>4. QED
  BY <1>1, <1>2, <1>3 DEF Next

(* Type correctness: every reachable state of SocketRpc satisfies TypeOK.  *)
THEOREM TypeCorrect == Spec => []TypeOK
<1>1. IInv => TypeOK
  BY DEF IInv
<1>2. QED
  BY <1>1, InitIInv, NextIInv, PTL DEF Spec

(* No call returns to its caller with its socket still open: the failure   *)
(* paths of openSocket, sendRpcMessage and recvRpcMessage all close it.    *)
THEOREM SocketsClosed == Spec => []NoSocketLeak
<1>1. IInv => NoSocketLeak
  BY DEF IInv, ClientInv, OpenSocketOwned, NoSocketLeak
<1>2. QED
  BY <1>1, InitIInv, NextIInv, PTL DEF Spec

=============================================================================
