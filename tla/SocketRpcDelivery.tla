-------------------------- MODULE SocketRpcDelivery --------------------------
(***************************************************************************)
(* Proofs that what a client takes from a reply is what the server's       *)
(* worker wrote: the envelope's error wins over its payload, and done      *)
(* receives only the response a successful handler passed to its           *)
(* callback.  Both need the reply stream to be read whole (no Truncate     *)
(* fault): the run truncated_error shows that end-of-stream framing loses  *)
(* the error otherwise, and the run no_callback that done also receives a  *)
(* default response when the response class has no required fields.      *)
(***************************************************************************)
EXTENDS SocketRpcProofs

(* What a worker wrote is final, and follows from what the handler did:    *)
(* a connection not yet closed has no reply and no handler run; an error   *)
(* reply names a reason; a reply with the handler's payload comes from a   *)
(* handler that called done with it and did not raise, and carries an      *)
(* error exactly when the handler failed its controller.                   *)
ServerInv(k) ==
    /\ srv[k] # "closed" => s2c[k] = None /\ handled[k] = None
    /\ s2c[k] # None /\ s2c[k].error => s2c[k].reason \in ErrorReasons
    /\ s2c[k] # None /\ s2c[k].payload = "Resp" =>
          /\ handled[k] \in HandlerBehaviours
          /\ handled[k].done = "Resp"
          /\ ~handled[k].raise
          /\ s2c[k].error = handled[k].fail

(* The connections of a client's later calls are untouched, and so is the  *)
(* connection of a call that has not connected yet.                        *)
ConnsAhead(c) ==
    /\ \A n \in 1..MaxCalls : n > ncalls[c] => srv[<<c, n>>] = "none"
    /\ stage[c] \in {"validate", "open"} => srv[Conn(c)] = "none"

(* done has not run yet in a call that is still running.                   *)
Undelivered(c) == stage[c] # "idle" => delivered[c] = None

(* The bytes a call read are its own connection's whole reply.             *)
BytesAreReply(c) ==
    stage[c] = "parse" /\ ~ctrl[c].failed =>
        s2c[Conn(c)] # None /\ byteStream[c] = s2c[Conn(c)]

(* A call past the parse stage, not failed, holds a parsed envelope.       *)
ParsedAfterParse(c) ==
    stage[c] \in {"retrieve", "runcb"} /\ ~ctrl[c].failed => rpcResponse[c] # None

(* A parsed envelope is the reply of the call's own connection; once       *)
(* tryToRetrieveServiceResponse has run, an error in it has failed the     *)
(* call with its reason, and done has not run.                             *)
EnvelopeIsReply(c) ==
    rpcResponse[c] # None =>
        /\ stage[c] \in {"retrieve", "runcb", "idle"}
        /\ ncalls[c] \in 1..MaxCalls
        /\ rpcResponse[c] = s2c[Conn(c)]
        /\ stage[c] = "retrieve" => ~ctrl[c].failed
        /\ stage[c] \in {"runcb", "idle"} /\ rpcResponse[c].error =>
              /\ ctrl[c].failed
              /\ ctrl[c].reason = ReasonOf(rpcResponse[c])
              /\ delivered[c] = None

(* The response about to be passed to done is the envelope's payload,      *)
(* parsed as the caller's response class.                                  *)
PayloadIsReply(c) ==
    stage[c] = "runcb" /\ ~ctrl[c].failed =>
        serviceResponse[c] = ParsePayload(rpcResponse[c].payload, RespHasRequired)

(* What done received is that parsed payload, from an envelope without     *)
(* error.                                                                  *)
DeliveredIsReply(c) ==
    delivered[c] # None =>
        /\ rpcResponse[c] # None
        /\ ~rpcResponse[c].error
        /\ delivered[c] = ParsePayload(rpcResponse[c].payload, RespHasRequired)

ClientChain(c) ==
    /\ ConnsAhead(c) /\ Undelivered(c) /\ BytesAreReply(c) /\ ParsedAfterParse(c)
    /\ EnvelopeIsReply(c) /\ PayloadIsReply(c) /\ DeliveredIsReply(c)

Ext == (\A k \in Conns : ServerInv(k)) /\ (\A c \in Clients : ClientChain(c))

DInv == IInv /\ Ext

(* The hypothesis of this module: the Truncate fault is excluded, so a     *)
(* client reads the whole reply its worker wrote.                          *)
WholeReplies == "Truncate" \notin Faults

(* The order of the _LifeCycle stages: the early return of each moves the  *)
(* call on to the next one.                                                *)
Succession ==
    {<<"validate", "open">>, <<"open", "send">>, <<"send", "recv">>,
     <<"recv", "parse">>, <<"parse", "retrieve">>, <<"retrieve", "runcb">>,
     <<"runcb", "idle">>}
-----------------------------------------------------------------------------
USE SocketRpcAssumption, WireAssumption

(* A step that leaves a client's own fields alone, does not touch its      *)
(* fresh connections, and writes no reply it already depends on keeps its  *)
(* chain.                                                                  *)
LEMMA ChainFrame ==
  ASSUME NEW d, ClientChain(d), stage[d] # "idle" => ncalls[d] \in 1..MaxCalls,
         stage'[d] = stage[d], ncalls'[d] = ncalls[d], ctrl'[d] = ctrl[d],
         byteStream'[d] = byteStream[d], rpcResponse'[d] = rpcResponse[d],
         serviceResponse'[d] = serviceResponse[d], delivered'[d] = delivered[d],
         \A n \in 1..MaxCalls : srv[<<d, n>>] = "none" => srv'[<<d, n>>] = "none",
         ncalls[d] \in 1..MaxCalls => s2c'[Conn(d)] = s2c[Conn(d)] \/ s2c[Conn(d)] = None
  PROVE  ClientChain(d)'
<1>1. ConnsAhead(d)'
  BY DEF ClientChain, ConnsAhead, Conn
<1>2. CASE s2c'[Conn(d)] = s2c[Conn(d)] /\ ncalls[d] \in 1..MaxCalls
  BY <1>1, <1>2 DEF ClientChain, Undelivered, BytesAreReply, ParsedAfterParse,
                    EnvelopeIsReply, PayloadIsReply, DeliveredIsReply, Conn
<1>3. CASE s2c[Conn(d)] = None \/ ncalls[d] \notin 1..MaxCalls
  <2>1. rpcResponse[d] = None /\ ~(stage[d] = "parse" /\ ~ctrl[d].failed)
    BY <1>3 DEF ClientChain, BytesAreReply, EnvelopeIsReply
  <2>2. QED
    BY <1>1, <2>1 DEF ClientChain, Undelivered, BytesAreReply, ParsedAfterParse,
                      EnvelopeIsReply, PayloadIsReply, DeliveredIsReply, Conn
<1>4. QED
  BY <1>2, <1>3

(* The fields of the clients other than c are left alone.                  *)
OthersKept(c) ==
    \A d \in Clients \ {c} :
        /\ stage'[d] = stage[d] /\ ncalls'[d] = ncalls[d] /\ ctrl'[d] = ctrl[d]
        /\ byteStream'[d] = byteStream[d] /\ rpcResponse'[d] = rpcResponse[d]
        /\ serviceResponse'[d] = serviceResponse[d] /\ delivered'[d] = delivered[d]

(* A step of client c that keeps its chain, leaves the others' fields and  *)
(* every reply alone, and at most accepts its own connection, keeps Ext.   *)
LEMMA ClientStepExt ==
  ASSUME DInv, NEW c \in Clients, ClientChain(c)', OthersKept(c),
         UNCHANGED <<s2c, handled>>,
         \/ UNCHANGED srv
         \/ stage[c] = "open" /\ srv' = [srv EXCEPT ![Conn(c)] = "accepted"]
  PROVE  Ext'
<1> USE DEF DInv, IInv, TypeOK
<1>1. ASSUME NEW k \in Conns PROVE ServerInv(k)'
  <2>1. CASE UNCHANGED srv
    BY <2>1 DEF Ext, ServerInv
  <2>2. CASE stage[c] = "open" /\ srv' = [srv EXCEPT ![Conn(c)] = "accepted"]
    <3>1. Conn(c) \in Conns /\ srv[Conn(c)] = "none"
      BY <2>2 DEF Ext, ClientChain, ConnsAhead, ClientInv, RequestSet, Conn, Conns
    <3>2. s2c[Conn(c)] = None /\ handled[Conn(c)] = None
      BY <3>1 DEF Ext, ServerInv
    <3>3. QED
      BY <2>2, <3>1, <3>2 DEF Ext, ServerInv
  <2>3. QED
    BY <2>1, <2>2
<1>2. ASSUME NEW d \in Clients PROVE ClientChain(d)'
  <2>1. CASE d = c
    BY <2>1
  <2>2. CASE d # c
    <3>1. \A n \in 1..MaxCalls : srv[<<d, n>>] = "none" => srv'[<<d, n>>] = "none"
      <4>1. CASE UNCHANGED srv
        BY <4>1
      <4>2. CASE stage[c] = "open" /\ srv' = [srv EXCEPT ![Conn(c)] = "accepted"]
        <5>1. \A n \in 1..MaxCalls : <<d, n>> \in Conns /\ <<d, n>> # Conn(c)
          BY <2>2 DEF Conn, Conns
        <5>2. QED
          BY <4>2, <5>1
      <4>3. QED
        BY <4>1, <4>2
    <3>2. QED
      BY <2>2, <3>1, ChainFrame DEF OthersKept, Ext, ClientInv, RequestSet
  <2>3. QED
    BY <2>1, <2>2
<1>3. QED
  BY <1>1, <1>2 DEF Ext

(* The early return of a stage moves the call on with nothing read or      *)
(* delivered: nothing the chain says about the call changes.               *)
LEMMA SkipChain ==
  ASSUME DInv, NEW c \in Clients, NEW next, <<stage[c], next>> \in Succession,
         Skip(c, next)
  PROVE  ClientChain(c)'
<1> USE DEF DInv, IInv, TypeOK
<1>1. ctrl[c].failed /\ stage'[c] = next /\ UNCHANGED <<ncalls, ctrl, byteStream,
        rpcResponse, serviceResponse, delivered, srv, s2c>>
  BY DEF Skip, netVars
<1>2. ConnsAhead(c)'
  BY <1>1 DEF Succession, Ext, ClientChain, ConnsAhead, Conn
<1>3. rpcResponse[c] # None => stage[c] \in {"runcb", "idle"}
  BY <1>1 DEF Succession, Ext, ClientChain, EnvelopeIsReply
<1>4. delivered[c] = None
  BY DEF Succession, Ext, ClientChain, Undelivered
<1>5. QED
  BY <1>1, <1>2, <1>3, <1>4 DEF Succession, Ext, ClientChain, Undelivered, BytesAreReply,
     ParsedAfterParse, EnvelopeIsReply, PayloadIsReply, DeliveredIsReply, Conn

(* CallMethod starts the next call on a connection nobody has touched,   *)
(* with nothing read or delivered.                                        *)
LEMMA CallMethodExt ==
  ASSUME DInv, NEW c \in Clients, CallMethod(c)
  PROVE  Ext'
<1> USE DEF DInv, IInv, TypeOK
<1>1. ncalls[c] \in 0..(MaxCalls - 1) /\ ncalls'[c] = ncalls[c] + 1 /\ stage'[c] = "validate"
      /\ rpcResponse'[c] = None /\ delivered'[c] = None
  <2>1. ncalls[c] \in 0..(MaxCalls - 1)
    BY SocketRpcAssumption DEF CallMethod
  <2>2. ncalls'[c] = ncalls[c] + 1
    BY DEF CallMethod
  <2>3. stage'[c] = "validate" /\ rpcResponse'[c] = None /\ delivered'[c] = None
    BY DEF CallMethod, Advance
  <2>4. QED
    BY <2>1, <2>2, <2>3
<1>2. UNCHANGED netVars
  BY DEF CallMethod
<1>3. ConnsAhead(c)'
  <2>1. \A n \in 1..MaxCalls : n > ncalls[c] => srv[<<c, n>>] = "none"
    BY DEF Ext, ClientChain, ConnsAhead
  <2>2. ncalls'[c] \in 1..MaxCalls /\ ncalls'[c] > ncalls[c]
    BY <1>1, SocketRpcAssumption
  <2>3. srv'[Conn(c)'] = "none"
    BY <1>2, <2>1, <2>2 DEF Conn, netVars
  <2>4. \A n \in 1..MaxCalls : n > ncalls'[c] => srv'[<<c, n>>] = "none"
    BY <1>1, <1>2, <2>1 DEF netVars
  <2>5. QED
    BY <2>3, <2>4 DEF ConnsAhead
<1>4. ClientChain(c)'
  BY <1>1, <1>3 DEF ClientChain, Undelivered, BytesAreReply, ParsedAfterParse,
     EnvelopeIsReply, PayloadIsReply, DeliveredIsReply
<1>5. OthersKept(c)
  BY DEF CallMethod, Advance, OthersKept
<1>6. QED
  BY <1>2, <1>4, <1>5, ClientStepExt DEF netVars

(* A stage before the reply is read touches nothing the chain relates: a   *)
(* step out of validate, open or send, or a failed read, keeps the chain   *)
(* of its call.                                                            *)
LEMMA EarlyChain ==
  ASSUME DInv, NEW c \in Clients,
         stage[c] \in {"validate", "open", "send", "recv"},
         <<stage[c], stage'[c]>> \in Succession,
         stage'[c] = "parse" => ctrl'[c].failed,
         ncalls'[c] = ncalls[c], rpcResponse'[c] = rpcResponse[c],
         serviceResponse'[c] = serviceResponse[c], delivered'[c] = delivered[c],
         \A n \in 1..MaxCalls : n > ncalls[c] => srv'[<<c, n>>] = srv[<<c, n>>],
         stage'[c] = "open" => srv' = srv
  PROVE  ClientChain(c)'
<1> USE DEF DInv
<1>1. rpcResponse[c] = None /\ delivered[c] = None
  BY DEF Ext, ClientChain, EnvelopeIsReply, Undelivered
<1>2. ConnsAhead(c)'
  BY DEF Ext, ClientChain, ConnsAhead, Conn, Succession
<1>3. stage'[c] \in {"open", "send", "recv", "parse"}
  BY DEF Succession
<1>4. QED
  BY <1>1, <1>2, <1>3 DEF ClientChain, Undelivered, BytesAreReply, ParsedAfterParse,
     EnvelopeIsReply, PayloadIsReply, DeliveredIsReply

(* The early-return branch of any stage keeps Ext.                          *)
LEMMA SkipExt ==
  ASSUME DInv, NEW c \in Clients, NEW next, <<stage[c], next>> \in Succession,
         Skip(c, next)
  PROVE  Ext'
<1>1. ClientChain(c)'
  BY SkipChain
<1>2. OthersKept(c)
  BY DEF Skip, OthersKept, DInv, IInv, TypeOK
<1>3. QED
  BY <1>1, <1>2, ClientStepExt DEF Skip, netVars

(* Validating the request reads and writes no reply.                      *)
LEMMA ValidateExt ==
  ASSUME DInv, NEW c \in Clients, TryToValidateRequest(c)
  PROVE  Ext'
<1>1. CASE ctrl[c].failed
  <2>1. stage[c] = "validate" /\ Skip(c, "open")
    BY <1>1 DEF TryToValidateRequest
  <2>2. QED
    BY <2>1, SkipExt DEF Succession
<1>2. CASE ~ctrl[c].failed
  <2>1. stage[c] = "validate" /\ stage' = [stage EXCEPT ![c] = "open"]
    BY <1>2 DEF TryToValidateRequest, Skip, Advance
  <2>2. UNCHANGED <<ncalls, req, sock, byteStream, rpcResponse, serviceResponse,
                    delivered, netVars>>
    BY <1>2 DEF TryToValidateRequest, Skip
  <2>3. ctrl' = ctrl \/ ctrl' = [ctrl EXCEPT ![c] = [failed |-> TRUE, reason |-> "BAD_REQUEST_PROTO"]]
    BY <1>2 DEF TryToValidateRequest, Skip, Fail
  <2>4. ClientChain(c)'
    BY <2>1, <2>2, EarlyChain DEF Succession, netVars, DInv, IInv, TypeOK
  <2>5. OthersKept(c)
    BY <2>1, <2>2, <2>3 DEF OthersKept, DInv, IInv, TypeOK
  <2>6. QED
    BY <2>2, <2>4, <2>5, ClientStepExt DEF netVars
<1>3. QED
  BY <1>1, <1>2

(* Opening the socket makes the worker of this call's connection start,   *)
(* with no reply written yet.                                             *)
LEMMA OpenExt ==
  ASSUME DInv, NEW c \in Clients, TryToOpenSocket(c)
  PROVE  Ext'
<1>1. CASE ctrl[c].failed
  <2>1. stage[c] = "open" /\ Skip(c, "send")
    BY <1>1 DEF TryToOpenSocket
  <2>2. QED
    BY <2>1, SkipExt DEF Succession
<1>2. CASE ~ctrl[c].failed
  <2>1. stage[c] = "open" /\ stage' = [stage EXCEPT ![c] = "send"]
    BY <1>2 DEF TryToOpenSocket, Skip, Advance
  <2>2. /\ srv' = [srv EXCEPT ![Conn(c)] = "accepted"]
        /\ UNCHANGED <<ncalls, req, ctrl, byteStream, rpcResponse, serviceResponse,
                       delivered, c2s, s2c, handled>>
    BY <1>2 DEF TryToOpenSocket, Skip
  <2>3. \A n \in 1..MaxCalls : n > ncalls[c] => srv'[<<c, n>>] = srv[<<c, n>>]
    BY <2>2 DEF Conn, Conns, DInv, IInv, TypeOK
  <2>4. ClientChain(c)'
    BY <2>1, <2>2, <2>3, EarlyChain DEF Succession, DInv, IInv, TypeOK
  <2>5. OthersKept(c)
    BY <2>1, <2>2 DEF OthersKept, DInv, IInv, TypeOK
  <2>6. QED
    BY <2>1, <2>2, <2>4, <2>5, ClientStepExt
<1>3. QED
  BY <1>1, <1>2

(* A failed connect fails the call and reaches no server.                 *)
LEMMA OpenFailExt ==
  ASSUME DInv, NEW c \in Clients, OpenSocketFails(c)
  PROVE  Ext'
<1>1. stage[c] = "open" /\ stage' = [stage EXCEPT ![c] = "send"]
  BY DEF OpenSocketFails, Advance
<1>2. UNCHANGED <<ncalls, req, byteStream, rpcResponse, serviceResponse, delivered, netVars>>
  BY DEF OpenSocketFails
<1>3. \E r : ctrl' = [ctrl EXCEPT ![c] = [failed |-> TRUE, reason |-> r]]
  BY DEF OpenSocketFails, Fail
<1>4. ClientChain(c)'
  BY <1>1, <1>2, EarlyChain DEF Succession, netVars, DInv, IInv, TypeOK
<1>5. OthersKept(c)
  BY <1>1, <1>2, <1>3 DEF OthersKept, DInv, IInv, TypeOK
<1>6. QED
  BY <1>2, <1>4, <1>5, ClientStepExt DEF netVars

(* Sending the request writes only the request side of the connection.    *)
LEMMA SendExt ==
  ASSUME DInv, NEW c \in Clients, TryToSendRpcRequest(c)
  PROVE  Ext'
<1>1. CASE ctrl[c].failed
  <2>1. stage[c] = "send" /\ Skip(c, "recv")
    BY <1>1 DEF TryToSendRpcRequest
  <2>2. QED
    BY <2>1, SkipExt DEF Succession
<1>2. CASE ~ctrl[c].failed
  <2>1. stage[c] = "send" /\ stage' = [stage EXCEPT ![c] = "recv"]
    BY <1>2 DEF TryToSendRpcRequest, Skip, Advance
  <2>2. UNCHANGED <<ncalls, req, ctrl, byteStream, rpcResponse, serviceResponse,
                    delivered, s2c, srv, handled>>
    BY <1>2 DEF TryToSendRpcRequest, Skip
  <2>3. ClientChain(c)'
    BY <2>1, <2>2, EarlyChain DEF Succession, DInv, IInv, TypeOK
  <2>4. OthersKept(c)
    BY <2>1, <2>2 DEF OthersKept, DInv, IInv, TypeOK
  <2>5. QED
    BY <2>2, <2>3, <2>4, ClientStepExt
<1>3. QED
  BY <1>1, <1>2

(* A failed write fails the call and leaves the reply side alone.         *)
LEMMA SendFailExt ==
  ASSUME DInv, NEW c \in Clients, SendRpcMessageFails(c)
  PROVE  Ext'
<1>1. stage[c] = "send" /\ stage' = [stage EXCEPT ![c] = "recv"]
  BY DEF SendRpcMessageFails, Advance
<1>2. UNCHANGED <<ncalls, req, byteStream, rpcResponse, serviceResponse, delivered,
                  s2c, srv, handled>>
  BY DEF SendRpcMessageFails
<1>3. ctrl' = [ctrl EXCEPT ![c] = [failed |-> TRUE, reason |-> "IO_ERROR"]]
  BY DEF SendRpcMessageFails, Fail
<1>4. ClientChain(c)'
  BY <1>1, <1>2, EarlyChain DEF Succession, DInv, IInv, TypeOK
<1>5. OthersKept(c)
  BY <1>1, <1>2, <1>3 DEF OthersKept, DInv, IInv, TypeOK
<1>6. QED
  BY <1>2, <1>4, <1>5, ClientStepExt

(* A failed read fails the call, which then reads nothing further.        *)
LEMMA RecvFailExt ==
  ASSUME DInv, NEW c \in Clients, RecvRpcMessageFails(c)
  PROVE  Ext'
<1>1. stage[c] = "recv" /\ stage' = [stage EXCEPT ![c] = "parse"]
  BY DEF RecvRpcMessageFails, Advance
<1>2. UNCHANGED <<ncalls, req, byteStream, rpcResponse, serviceResponse, delivered, netVars>>
  BY DEF RecvRpcMessageFails
<1>3. ctrl' = [ctrl EXCEPT ![c] = [failed |-> TRUE, reason |-> "IO_ERROR"]]
  BY DEF RecvRpcMessageFails, Fail
<1>4. ClientChain(c)'
  BY <1>1, <1>2, <1>3, EarlyChain DEF Succession, netVars, DInv, IInv, TypeOK
<1>5. OthersKept(c)
  BY <1>1, <1>2, <1>3 DEF OthersKept, DInv, IInv, TypeOK
<1>6. QED
  BY <1>2, <1>4, <1>5, ClientStepExt DEF netVars

(* With whole replies, the read takes the server's reply as it was sent.   *)
LEMMA RecvExt ==
  ASSUME DInv, WholeReplies, NEW c \in Clients, TryToReceiveReply(c)
  PROVE  Ext'
<1>1. CASE ctrl[c].failed
  <2>1. stage[c] = "recv" /\ Skip(c, "parse")
    BY <1>1 DEF TryToReceiveReply
  <2>2. QED
    BY <2>1, SkipExt DEF Succession
<1>2. CASE ~ctrl[c].failed
  <2>1. stage[c] = "recv" /\ stage' = [stage EXCEPT ![c] = "parse"]
    BY <1>2 DEF TryToReceiveReply, Skip, Advance
  <2>2. UNCHANGED <<ncalls, req, ctrl, rpcResponse, serviceResponse, delivered, netVars>>
    BY <1>2 DEF TryToReceiveReply, Skip
  <2>3. s2c[Conn(c)] # None /\ byteStream' = [byteStream EXCEPT ![c] = s2c[Conn(c)]]
    BY <1>2 DEF TryToReceiveReply, Skip, WholeReplies
  <2>4. rpcResponse[c] = None /\ delivered[c] = None
    BY <2>1 DEF DInv, Ext, ClientChain, EnvelopeIsReply, Undelivered
  <2>5. ConnsAhead(c)'
    BY <2>1, <2>2 DEF DInv, IInv, TypeOK, Ext, ClientChain, ConnsAhead, Conn, netVars
  <2>6. BytesAreReply(c)'
    BY <2>1, <2>2, <2>3 DEF DInv, IInv, TypeOK, BytesAreReply, Conn, netVars
  <2>7. ClientChain(c)'
    BY <1>2, <2>1, <2>2, <2>4, <2>5, <2>6 DEF DInv, IInv, TypeOK, ClientChain, Undelivered,
       ParsedAfterParse, EnvelopeIsReply, PayloadIsReply, DeliveredIsReply
  <2>8. OthersKept(c)
    BY <2>1, <2>2, <2>3 DEF OthersKept, DInv, IInv, TypeOK
  <2>9. QED
    BY <2>2, <2>7, <2>8, ClientStepExt DEF netVars
<1>3. QED
  BY <1>1, <1>2

(* The decoded envelope is the bytes read, hence the server's reply.       *)
LEMMA ParseExt ==
  ASSUME DInv, NEW c \in Clients, TryToParseReply(c)
  PROVE  Ext'
<1>1. CASE ctrl[c].failed
  <2>1. stage[c] = "parse" /\ Skip(c, "retrieve")
    BY <1>1 DEF TryToParseReply
  <2>2. QED
    BY <2>1, SkipExt DEF Succession
<1>2. CASE ~ctrl[c].failed
  <2>1. stage[c] = "parse" /\ stage' = [stage EXCEPT ![c] = "retrieve"]
    BY <1>2 DEF TryToParseReply, Skip, Advance
  <2>2. UNCHANGED <<ncalls, req, sock, byteStream, serviceResponse, delivered, netVars>>
    BY <1>2 DEF TryToParseReply, Skip
  <2>3. s2c[Conn(c)] # None /\ byteStream[c] = s2c[Conn(c)]
    BY <1>2, <2>1 DEF DInv, Ext, ClientChain, BytesAreReply
  <2>4. rpcResponse[c] = None /\ delivered[c] = None /\ ncalls[c] \in 1..MaxCalls
    BY <2>1 DEF DInv, IInv, ClientInv, RequestSet, Ext, ClientChain, EnvelopeIsReply, Undelivered
  <2>5. ConnsAhead(c)'
    BY <2>1, <2>2 DEF DInv, IInv, TypeOK, Ext, ClientChain, ConnsAhead, Conn, netVars
  <2>6. CASE byteStream[c] = Junk
    <3>1. ctrl' = [ctrl EXCEPT ![c] = [failed |-> TRUE, reason |-> "BAD_RESPONSE_PROTO"]]
          /\ UNCHANGED rpcResponse
      BY <1>2, <2>6 DEF TryToParseReply, Skip, Fail
    <3>2. ClientChain(c)'
      BY <2>1, <2>2, <2>4, <2>5, <3>1 DEF DInv, IInv, TypeOK, ClientChain, Undelivered,
         BytesAreReply, ParsedAfterParse, EnvelopeIsReply, PayloadIsReply, DeliveredIsReply
    <3>3. OthersKept(c)
      BY <2>1, <2>2, <3>1 DEF OthersKept, DInv, IInv, TypeOK
    <3>4. QED
      BY <2>2, <3>2, <3>3, ClientStepExt DEF netVars
  <2>7. CASE byteStream[c] # Junk
    <3>1. rpcResponse' = [rpcResponse EXCEPT ![c] = byteStream[c]] /\ UNCHANGED ctrl
      BY <1>2, <2>7 DEF TryToParseReply, Skip
    <3>2. rpcResponse'[c] = s2c'[Conn(c)'] /\ rpcResponse'[c] # None
      BY <2>2, <2>3, <3>1 DEF DInv, IInv, TypeOK, Conn, netVars
    <3>3. EnvelopeIsReply(c)'
      BY <1>2, <2>1, <2>2, <2>4, <3>1, <3>2 DEF DInv, IInv, TypeOK, EnvelopeIsReply
    <3>4. ClientChain(c)'
      BY <1>2, <2>1, <2>2, <2>4, <2>5, <3>1, <3>2, <3>3 DEF DInv, IInv, TypeOK, ClientChain,
         Undelivered, BytesAreReply, ParsedAfterParse, PayloadIsReply, DeliveredIsReply
    <3>5. OthersKept(c)
      BY <2>1, <2>2, <3>1 DEF OthersKept, DInv, IInv, TypeOK
    <3>6. QED
      BY <2>2, <3>4, <3>5, ClientStepExt DEF netVars
  <2>8. QED
    BY <2>6, <2>7
<1>3. QED
  BY <1>1, <1>2

(* The reply's error becomes the call's failure, and otherwise the         *)
(* response kept is the reply's payload parsed.                            *)
LEMMA RetrieveExt ==
  ASSUME DInv, NEW c \in Clients, TryToRetrieveServiceResponse(c)
  PROVE  Ext'
<1> DEFINE env == rpcResponse[c]
           parsed == ParsePayload(env.payload, RespHasRequired)
<1>1. CASE ctrl[c].failed
  <2>1. stage[c] = "retrieve" /\ Skip(c, "runcb")
    BY <1>1 DEF TryToRetrieveServiceResponse
  <2>2. QED
    BY <2>1, SkipExt DEF Succession
<1>2. CASE ~ctrl[c].failed
  <2>1. stage[c] = "retrieve" /\ stage' = [stage EXCEPT ![c] = "runcb"]
    BY <1>2 DEF TryToRetrieveServiceResponse, Skip, Advance
  <2>2. UNCHANGED <<ncalls, req, sock, byteStream, rpcResponse, delivered, netVars>>
    BY <1>2 DEF TryToRetrieveServiceResponse, Skip
  <2>3. /\ env # None /\ env \in ResponseEnvelopes /\ env = s2c[Conn(c)]
        /\ ncalls[c] \in 1..MaxCalls /\ delivered[c] = None
    BY <1>2, <2>1 DEF DInv, IInv, ClientInv, ReplyParsed, Ext, ClientChain, ParsedAfterParse,
       EnvelopeIsReply, Undelivered
  <2>4. ConnsAhead(c)'
    BY <2>1, <2>2 DEF DInv, IInv, TypeOK, Ext, ClientChain, ConnsAhead, Conn, netVars
  <2>5. \A r : ctrl' = [ctrl EXCEPT ![c] = [failed |-> TRUE, reason |-> r]] =>
          /\ ctrl'[c].failed /\ ctrl'[c].reason = r
          /\ \A d \in Clients \ {c} : ctrl'[d] = ctrl[d]
    BY DEF DInv, IInv, TypeOK
  <2>6. CASE env.error
    <3>1. ctrl' = [ctrl EXCEPT ![c] = [failed |-> TRUE, reason |-> ReasonOf(env)]]
          /\ UNCHANGED serviceResponse
      BY <1>2, <2>6 DEF TryToRetrieveServiceResponse, Skip, Fail
    <3>2. EnvelopeIsReply(c)'
      BY <2>1, <2>2, <2>3, <2>5, <3>1 DEF DInv, IInv, TypeOK, EnvelopeIsReply, Conn, netVars
    <3>3. ClientChain(c)'
      BY <2>1, <2>2, <2>3, <2>4, <2>5, <3>1, <3>2 DEF DInv, IInv, TypeOK, ClientChain,
         Undelivered, BytesAreReply, ParsedAfterParse, PayloadIsReply, DeliveredIsReply
    <3>4. OthersKept(c)
      BY <2>1, <2>2, <2>5, <3>1 DEF OthersKept, DInv, IInv, TypeOK
    <3>5. QED
      BY <2>2, <3>3, <3>4, ClientStepExt DEF netVars
  <2>7. CASE ~env.error /\ parsed = None
    <3>1. ctrl' = [ctrl EXCEPT ![c] = [failed |-> TRUE, reason |-> "BAD_RESPONSE_PROTO"]]
          /\ UNCHANGED serviceResponse
      BY <1>2, <2>7 DEF TryToRetrieveServiceResponse, Skip, Fail
    <3>2. EnvelopeIsReply(c)'
      BY <2>1, <2>2, <2>3, <2>5, <2>7, <3>1 DEF DInv, IInv, TypeOK, EnvelopeIsReply, Conn, netVars
    <3>3. ClientChain(c)'
      BY <2>1, <2>2, <2>3, <2>4, <2>5, <3>1, <3>2 DEF DInv, IInv, TypeOK, ClientChain,
         Undelivered, BytesAreReply, ParsedAfterParse, PayloadIsReply, DeliveredIsReply
    <3>4. OthersKept(c)
      BY <2>1, <2>2, <2>5, <3>1 DEF OthersKept, DInv, IInv, TypeOK
    <3>5. QED
      BY <2>2, <3>3, <3>4, ClientStepExt DEF netVars
  <2>8. CASE ~env.error /\ parsed # None
    <3>1. serviceResponse' = [serviceResponse EXCEPT ![c] = parsed] /\ UNCHANGED ctrl
      BY <1>2, <2>8 DEF TryToRetrieveServiceResponse, Skip
    <3>2. EnvelopeIsReply(c)'
      BY <1>2, <2>1, <2>2, <2>3, <2>8, <3>1 DEF DInv, IInv, TypeOK, EnvelopeIsReply, Conn, netVars
    <3>3. PayloadIsReply(c)'
      BY <2>1, <2>2, <3>1 DEF DInv, IInv, TypeOK, PayloadIsReply
    <3>4. ClientChain(c)'
      BY <1>2, <2>1, <2>2, <2>3, <2>4, <3>1, <3>2, <3>3 DEF DInv, IInv, TypeOK, ClientChain,
         Undelivered, BytesAreReply, ParsedAfterParse, DeliveredIsReply
    <3>5. OthersKept(c)
      BY <2>1, <2>2, <3>1 DEF OthersKept, DInv, IInv, TypeOK
    <3>6. QED
      BY <2>2, <3>4, <3>5, ClientStepExt DEF netVars
  <2>9. QED
    BY <2>3, <2>6, <2>7, <2>8 DEF ResponseEnvelopes
<1>3. QED
  BY <1>1, <1>2

(* done.run receives the response kept, that is the reply's payload.       *)
LEMMA RunCallbackExt ==
  ASSUME DInv, NEW c \in Clients, TryToRunCallback(c)
  PROVE  Ext'
<1>1. CASE ctrl[c].failed
  <2>1. stage[c] = "runcb" /\ Skip(c, "idle")
    BY <1>1 DEF TryToRunCallback
  <2>2. QED
    BY <2>1, SkipExt DEF Succession
<1>2. CASE ~ctrl[c].failed
  <2>1. stage[c] = "runcb" /\ stage' = [stage EXCEPT ![c] = "idle"]
    BY <1>2 DEF TryToRunCallback, Skip, Advance
  <2>2. UNCHANGED <<ncalls, req, sock, byteStream, rpcResponse, serviceResponse, netVars>>
    BY <1>2 DEF TryToRunCallback, Skip
  <2>3. /\ rpcResponse[c] # None /\ ~rpcResponse[c].error
        /\ rpcResponse[c] = s2c[Conn(c)] /\ ncalls[c] \in 1..MaxCalls
        /\ serviceResponse[c] = ParsePayload(rpcResponse[c].payload, RespHasRequired)
    BY <1>2, <2>1 DEF DInv, IInv, ClientInv, Retrieved, Ext, ClientChain, ParsedAfterParse,
       EnvelopeIsReply, PayloadIsReply
  <2>4. UNCHANGED ctrl /\ delivered' = [delivered EXCEPT ![c] = serviceResponse[c]]
    BY <1>2, <2>3 DEF TryToRunCallback, Skip
  <2>5. ConnsAhead(c)'
    BY <2>1, <2>2 DEF DInv, IInv, TypeOK, Ext, ClientChain, ConnsAhead, Conn, netVars
  <2>6. EnvelopeIsReply(c)' /\ DeliveredIsReply(c)'
    BY <2>1, <2>2, <2>3, <2>4 DEF DInv, IInv, TypeOK, EnvelopeIsReply, DeliveredIsReply,
       Conn, netVars
  <2>7. ClientChain(c)'
    BY <2>1, <2>5, <2>6 DEF DInv, IInv, TypeOK, ClientChain, Undelivered, BytesAreReply,
       ParsedAfterParse, PayloadIsReply
  <2>8. OthersKept(c)
    BY <2>1, <2>2, <2>4 DEF OthersKept, DInv, IInv, TypeOK
  <2>9. QED
    BY <2>2, <2>7, <2>8, ClientStepExt DEF netVars
<1>3. QED
  BY <1>1, <1>2

(* The reply a worker writes carries a reason when it carries an error,    *)
(* and the handler's response only when the handler produced one, did not *)
(* raise, and then carries the error exactly when the handler failed.      *)
LEMMA CallMethodReplyShape ==
  ASSUME NEW b \in Behaviours
  PROVE  /\ CallMethodReply(b).error => CallMethodReply(b).reason \in ErrorReasons
         /\ CallMethodReply(b).payload = "Resp" =>
               b.done = "Resp" /\ ~b.raise /\ CallMethodReply(b).error = b.fail
  BY WireAssumption DEF CallMethodReply, Behaviours, ErrorEnvelope, ZeroBytes, ErrorReasons,
     PayloadValues

(* An error envelope carries the reason and no payload.                    *)
LEMMA ErrorEnvelopeShape ==
  ASSUME NEW why \in ErrorReasons
  PROVE  ErrorEnvelope(why).error /\ ErrorEnvelope(why).reason \in ErrorReasons
         /\ ErrorEnvelope(why).payload # "Resp"
  BY WireAssumption DEF ErrorEnvelope, PayloadValues

(* A worker writes the only reply of its connection, which nobody has      *)
(* read, and touches no client.                                            *)
LEMMA HandleExt ==
  ASSUME DInv, NEW k \in Conns, Handle(k)
  PROVE  Ext'
<1> USE DEF DInv, IInv, TypeOK
<1> DEFINE why == Unroutable(c2s[k])
<1>1. srv[k] = "accepted" /\ srv' = [srv EXCEPT ![k] = "closed"] /\ UNCHANGED clientVars
  BY DEF Handle
<1>2. s2c[k] = None /\ handled[k] = None
  BY <1>1 DEF Ext, ServerInv
<1>3. ServerInv(k)'
  <2>1. CASE why # None
    <3>1. why \in ErrorReasons
      BY <2>1, UnroutableType
    <3>2. s2c'[k] = ErrorEnvelope(why)
      BY <2>1 DEF Handle
    <3>3. QED
      BY <1>1, <3>1, <3>2, ErrorEnvelopeShape DEF ServerInv
  <2>2. CASE why = None
    <3>1. PICK b \in HandlerBehaviours : s2c'[k] = CallMethodReply(b) /\ handled'[k] = b
      BY <2>2 DEF Handle
    <3>2. b \in Behaviours
      BY SocketRpcAssumption
    <3>3. QED
      BY <1>1, <3>1, <3>2, CallMethodReplyShape DEF ServerInv
  <2>3. QED
    BY <2>1, <2>2
<1>4. ASSUME NEW j \in Conns \ {k} PROVE ServerInv(j)'
  <2>1. s2c'[j] = s2c[j] /\ handled'[j] = handled[j] /\ srv'[j] = srv[j]
    BY <1>1 DEF Handle
  <2>2. QED
    BY <2>1 DEF Ext, ServerInv
<1>5. ASSUME NEW d \in Clients PROVE ClientChain(d)'
  <2>1. \A n \in 1..MaxCalls : srv[<<d, n>>] = "none" => srv'[<<d, n>>] = "none"
    BY <1>1 DEF Conns
  <2>2. ncalls[d] \in 1..MaxCalls => s2c'[Conn(d)] = s2c[Conn(d)] \/ s2c[Conn(d)] = None
    <3> SUFFICES ASSUME ncalls[d] \in 1..MaxCalls, Conn(d) # k
                 PROVE  s2c'[Conn(d)] = s2c[Conn(d)]
      BY <1>2
    <3>1. Conn(d) \in Conns \ {k}
      BY DEF Conn, Conns
    <3>2. \A j \in Conns \ {k} : s2c'[j] = s2c[j]
      BY DEF Handle
    <3>3. QED
      BY <3>1, <3>2
  <2>3. QED
    BY <1>1, <2>1, <2>2, ChainFrame DEF Ext, ClientInv, RequestSet, clientVars
<1>6. QED
  BY <1>3, <1>4, <1>5 DEF Ext

(* Before any call, no reply is written, read or delivered.               *)
THEOREM InitDInv == Init => DInv
<1> SUFFICES ASSUME Init PROVE DInv
  OBVIOUS
<1>1. IInv
  BY InitIInv
<1>2. \A k \in Conns : ServerInv(k)
  BY DEF Init, ServerInv
<1>3. \A c \in Clients : ClientChain(c)
  BY DEF Init, ClientChain, ConnsAhead, Conn, Conns, Undelivered, BytesAreReply,
     ParsedAfterParse, EnvelopeIsReply, PayloadIsReply, DeliveredIsReply
<1>4. QED
  BY <1>1, <1>2, <1>3 DEF DInv, Ext

(* With whole replies, every step keeps the delivery chain.               *)
THEOREM NextDInv ==
  ASSUME WholeReplies
  PROVE  DInv /\ [Next]_vars => DInv'
<1> SUFFICES ASSUME DInv, [Next]_vars PROVE DInv'
  OBVIOUS
<1>1. IInv'
  BY NextIInv DEF DInv
<1>2. CASE \E c \in Clients : CallMethod(c) \/ LifeCycleStep(c) \/ TransportFault(c)
  <2>1. PICK c \in Clients : CallMethod(c) \/ LifeCycleStep(c) \/ TransportFault(c)
    BY <1>2
  <2>2. Ext'
    BY <2>1, CallMethodExt, ValidateExt, OpenExt, OpenFailExt, SendExt, SendFailExt,
       RecvExt, RecvFailExt, ParseExt, RetrieveExt, RunCallbackExt
       DEF LifeCycleStep, TransportFault
  <2>3. QED
    BY <1>1, <2>2 DEF DInv
<1>3. CASE \E k \in Conns : Handle(k)
  BY <1>1, <1>3, HandleExt DEF DInv
<1>4. CASE Finished \/ UNCHANGED vars
  <2>1. UNCHANGED vars
    BY <1>4 DEF Finished
  <2>2. \A k \in Conns : ServerInv(k)'
    BY <2>1 DEF vars, netVars, DInv, Ext, ServerInv
  <2>3. \A c \in Clients : ClientChain(c)'
    BY <2>1 DEF vars, clientVars, netVars, DInv, Ext, ClientChain, ConnsAhead, Conn,
       Undelivered, BytesAreReply, ParsedAfterParse, EnvelopeIsReply, PayloadIsReply,
       DeliveredIsReply
  <2>4. QED
    BY <1>1, <2>2, <2>3 DEF DInv, Ext
<1>5. QED
  BY <1>1, <1>2, <1>3, <1>4 DEF Next, DInv

(* When the server's worker answered a call with an error and the client   *)
(* read that answer whole, the call ends failed with the server's          *)
(* error_reason and done is not run: tryToRetrieveServiceResponse checks   *)
(* the error field before the payload (channel.py), against handleError    *)
(* and callMethod in server.py.  Truncated replies are excluded: a reply  *)
(* cut short before its error field parses without one.                    *)
THEOREM ErrorWinsProved ==
  ASSUME WholeReplies
  PROVE  Spec => []EnvelopeErrorWins
<1>1. DInv => EnvelopeErrorWins
  <2> SUFFICES ASSUME DInv, NEW c \in Clients,
                      stage[c] = "idle", ncalls[c] > 0, rpcResponse[c] # None,
                      s2c[Conn(c)] # None, s2c[Conn(c)].error
               PROVE  /\ ctrl[c].failed
                      /\ ctrl[c].reason = s2c[Conn(c)].reason
                      /\ delivered[c] = None
    BY DEF EnvelopeErrorWins
  <2>1. rpcResponse[c] = s2c[Conn(c)] /\ ncalls[c] \in 1..MaxCalls
    BY DEF DInv, Ext, ClientChain, EnvelopeIsReply
  <2>2. /\ ctrl[c].failed /\ delivered[c] = None
        /\ ctrl[c].reason = ReasonOf(s2c[Conn(c)])
    BY <2>1 DEF DInv, Ext, ClientChain, EnvelopeIsReply
  <2>3. s2c[Conn(c)].reason \in ErrorReasons
    BY <2>1 DEF DInv, Ext, ServerInv, Conn, Conns
  <2>4. QED
    BY <2>2, <2>3, WireAssumption DEF ReasonOf
<1>2. QED
  BY <1>1, InitDInv, NextDInv, PTL DEF Spec

(* When the user's response class has required fields and replies are read *)
(* whole, done only ever receives the response the server's handler passed *)
(* to done.run, and only when that handler neither failed nor raised.      *)
(* Without required fields an empty reply parses to the default message    *)
(* (the no_callback run); with truncated replies a failed handler's        *)
(* payload reaches done (the truncated_error run).                         *)
THEOREM DeliveredProved ==
  ASSUME WholeReplies, RespHasRequired
  PROVE  Spec => []DeliveredIsHandlerResponse
<1>1. DInv => DeliveredIsHandlerResponse
  <2> SUFFICES ASSUME DInv, NEW c \in Clients, delivered[c] # None
               PROVE  /\ delivered[c] = "Resp"
                      /\ handled[Conn(c)] # None
                      /\ handled[Conn(c)].done = "Resp"
                      /\ ~handled[Conn(c)].fail
                      /\ ~handled[Conn(c)].raise
    BY DEF DeliveredIsHandlerResponse
  <2>1. /\ rpcResponse[c] # None /\ ~rpcResponse[c].error
        /\ delivered[c] = ParsePayload(rpcResponse[c].payload, TRUE)
    BY DEF DInv, Ext, ClientChain, DeliveredIsReply
  <2>2. rpcResponse[c].payload = "Resp" /\ delivered[c] = "Resp"
    BY <2>1 DEF ParsePayload
  <2>3. rpcResponse[c] = s2c[Conn(c)] /\ Conn(c) \in Conns
    BY <2>1 DEF DInv, Ext, ClientChain, EnvelopeIsReply, Conn, Conns
  <2>4. /\ handled[Conn(c)] \in HandlerBehaviours
        /\ handled[Conn(c)].done = "Resp" /\ ~handled[Conn(c)].raise
        /\ ~handled[Conn(c)].fail
    BY <2>1, <2>2, <2>3 DEF DInv, Ext, ServerInv
  <2>5. QED
    BY <2>2, <2>4, SocketRpcAssumption
<1>2. QED
  BY <1>1, InitDInv, NextDInv, PTL DEF Spec
=============================================================================
