------------------------------ MODULE SocketRpc ------------------------------
(***************************************************************************)
(* One SocketRpcServer and a set of clients, each calling                  *)
(* SocketRpcChannel.CallMethod (channel.py) one call at a time.  A call    *)
(* runs the seven stages of _LifeCycle in order, each a no-op once the    *)
(* controller has failed; every call opens its own TCP connection, which   *)
(* the server hands to a SocketHandler worker thread (server.py) that      *)
(* reads the request to end-of-stream, dispatches it to the registered     *)
(* service and writes the Response before shutting the socket down.       *)
(*                                                                         *)
(* A connection is named by <<client, call number>>.  Its two directions   *)
(* are c2s (what the server will read once the client has half-closed or   *)
(* closed) and s2c (what the client reads once the server has closed;      *)
(* None while the worker has not finished).                                *)
(***************************************************************************)
EXTENDS RpcWire, Naturals

CONSTANTS
    Clients,            \* threads calling CallMethod
    MaxCalls,           \* calls each client makes (bound of the model)
    Registry,           \* serviceMap: service name -> its method names
    Requests,           \* caller requests: [init, svc, mth, bodyOk]
    HandlerBehaviours,  \* what a registered service's method may do
    Faults,             \* transport failures the environment may inject
    RespHasRequired     \* the caller's response class has required fields

(* done: the value the handler passes to done.run ("None": never called,   *)
(* "Uninit": a response missing required fields); fail: it calls          *)
(* controller.handleError; raise: it raises an exception.                  *)
Behaviours == [done : {"None", "Resp", "Uninit"}, fail : BOOLEAN, raise : BOOLEAN]

FaultKinds == {"UnknownHost", "ConnectError", "SendError", "RecvError", "Truncate"}

(* The parameters are well formed; None, the worker that never ran the     *)
(* handler, is not a behaviour of it.                                      *)
ASSUME SocketRpcAssumption ==
    /\ MaxCalls \in Nat \ {0}
    /\ DOMAIN Registry \subseteq Services
    /\ \A s \in DOMAIN Registry : Registry[s] \subseteq Methods
    /\ Requests \subseteq [init : BOOLEAN, svc : Services, mth : Methods, bodyOk : BOOLEAN]
    /\ HandlerBehaviours \subseteq Behaviours
    /\ None \notin Behaviours
    /\ Faults \subseteq FaultKinds
    /\ RespHasRequired \in BOOLEAN

Conns == Clients \X (1..MaxCalls)

Stages == {"idle", "validate", "open", "send", "recv", "parse", "retrieve", "runcb"}

VARIABLES
    stage,            \* client: next _LifeCycle stage ("idle": no call running)
    ncalls,           \* client: calls started so far
    req,              \* client: the request of the current call
    ctrl,             \* client: the call's SocketRpcController
    sock,             \* client: the call's socket ("none", "open", "closed")
    byteStream,       \* client: _LifeCycle.byte_stream
    rpcResponse,      \* client: _LifeCycle.rpcResponse
    serviceResponse,  \* client: _LifeCycle.serviceResponse
    delivered,        \* client: what done.run received in this call, or None
    c2s,              \* connection: request bytes written by the client
    s2c,              \* connection: reply bytes, set when the server closes
    srv,              \* connection: server side ("none", "accepted", "closed")
    handled           \* connection: what the handler did, None if not invoked

clientVars == <<stage, ncalls, req, ctrl, sock, byteStream, rpcResponse,
                serviceResponse, delivered>>
netVars == <<c2s, s2c, srv, handled>>
vars == <<clientVars, netVars>>

Controllers == [failed : BOOLEAN, reason : ErrorReasons \cup {None}]

(* SocketRpcController() as created by channel.newController().            *)
FreshController == [failed |-> FALSE, reason |-> None]

(* The connection of client c's current call.                              *)
Conn(c) == <<c, ncalls[c]>>

TypeOK ==
    /\ stage \in [Clients -> Stages]
    /\ ncalls \in [Clients -> 0..MaxCalls]
    /\ req \in [Clients -> Requests \cup {None}]
    /\ ctrl \in [Clients -> Controllers]
    /\ sock \in [Clients -> {"none", "open", "closed"}]
    /\ byteStream \in [Clients -> WireBytes \cup {None}]
    /\ rpcResponse \in [Clients -> ResponseEnvelopes \cup {None}]
    /\ serviceResponse \in [Clients -> PayloadValues \cup {None}]
    /\ delivered \in [Clients -> PayloadValues \cup {None}]
    /\ c2s \in [Conns -> RequestEnvelopes \cup {None}]
    /\ s2c \in [Conns -> ResponseEnvelopes \cup {None}]
    /\ srv \in [Conns -> {"none", "accepted", "closed"}]
    /\ handled \in [Conns -> HandlerBehaviours \cup {None}]

Init ==
    /\ stage = [c \in Clients |-> "idle"]
    /\ ncalls = [c \in Clients |-> 0]
    /\ req = [c \in Clients |-> None]
    /\ ctrl = [c \in Clients |-> FreshController]
    /\ sock = [c \in Clients |-> "none"]
    /\ byteStream = [c \in Clients |-> None]
    /\ rpcResponse = [c \in Clients |-> None]
    /\ serviceResponse = [c \in Clients |-> None]
    /\ delivered = [c \in Clients |-> None]
    /\ c2s = [k \in Conns |-> None]
    /\ s2c = [k \in Conns |-> None]
    /\ srv = [k \in Conns |-> "none"]
    /\ handled = [k \in Conns |-> None]
-----------------------------------------------------------------------------
(***************************************************************************)
(* Client side: SocketRpcChannel.CallMethod and _LifeCycle.                *)
(***************************************************************************)

(* controller.handleError(reason, message): marks the controller failed.   *)
Fail(c, reason) == ctrl' = [ctrl EXCEPT ![c] = [failed |-> TRUE, reason |-> reason]]

(* The stage guard every tryTo... method starts with: once the controller  *)
(* has failed, the stage returns at once.                                  *)
Skip(c, next) ==
    /\ ctrl[c].failed
    /\ stage' = [stage EXCEPT ![c] = next]
    /\ UNCHANGED <<ncalls, req, ctrl, sock, byteStream, rpcResponse,
                   serviceResponse, delivered, netVars>>

Advance(c, next) == stage' = [stage EXCEPT ![c] = next]

(* A caller invokes the stub: CallMethod with a new controller and a new   *)
(* _LifeCycle (sock, byte_stream, rpcResponse, serviceResponse all None).  *)
CallMethod(c) ==
    /\ stage[c] = "idle"
    /\ ncalls[c] < MaxCalls
    /\ \E r \in Requests : req' = [req EXCEPT ![c] = r]
    /\ ncalls' = [ncalls EXCEPT ![c] = @ + 1]
    /\ ctrl' = [ctrl EXCEPT ![c] = FreshController]
    /\ sock' = [sock EXCEPT ![c] = "none"]
    /\ byteStream' = [byteStream EXCEPT ![c] = None]
    /\ rpcResponse' = [rpcResponse EXCEPT ![c] = None]
    /\ serviceResponse' = [serviceResponse EXCEPT ![c] = None]
    /\ delivered' = [delivered EXCEPT ![c] = None]
    /\ Advance(c, "validate")
    /\ UNCHANGED netVars

(* tryToValidateRequest / validateRequest: the user's request must be      *)
(* initialized.                                                            *)
TryToValidateRequest(c) ==
    /\ stage[c] = "validate"
    /\ \/ Skip(c, "open")
       \/ /\ ~ctrl[c].failed
          /\ IF req[c].init THEN UNCHANGED ctrl ELSE Fail(c, "BAD_REQUEST_PROTO")
          /\ Advance(c, "open")
          /\ UNCHANGED <<ncalls, req, sock, byteStream, rpcResponse,
                         serviceResponse, delivered, netVars>>

(* tryToOpenSocket / openSocket: connect; the server accepts the           *)
(* connection and starts a worker.                                         *)
TryToOpenSocket(c) ==
    /\ stage[c] = "open"
    /\ \/ Skip(c, "send")
       \/ /\ ~ctrl[c].failed
          /\ sock' = [sock EXCEPT ![c] = "open"]
          /\ srv' = [srv EXCEPT ![Conn(c)] = "accepted"]
          /\ Advance(c, "send")
          /\ UNCHANGED <<ncalls, req, ctrl, byteStream, rpcResponse,
                         serviceResponse, delivered, c2s, s2c, handled>>

(* connect raises socket.gaierror (UNKNOWN_HOST) or socket.error           *)
(* (IO_ERROR): openSocket closes the new socket and re-raises.             *)
OpenSocketFails(c) ==
    /\ stage[c] = "open"
    /\ ~ctrl[c].failed
    /\ \E f \in Faults \cap {"UnknownHost", "ConnectError"} :
          Fail(c, IF f = "UnknownHost" THEN "UNKNOWN_HOST" ELSE "IO_ERROR")
    /\ sock' = [sock EXCEPT ![c] = "closed"]
    /\ Advance(c, "send")
    /\ UNCHANGED <<ncalls, req, byteStream, rpcResponse, serviceResponse,
                   delivered, netVars>>

(* tryToSendRpcRequest / createRpcRequest / sendRpcMessage: write the      *)
(* serialized Request, then shutdown(SHUT_WR).                             *)
(* createRpcRequest: the Request envelope of the user's request.          *)
RpcRequest(r) == [svc |-> r.svc, mth |-> r.mth, bodyOk |-> r.bodyOk]

TryToSendRpcRequest(c) ==
    /\ stage[c] = "send"
    /\ \/ Skip(c, "recv")
       \/ /\ ~ctrl[c].failed
          /\ c2s' = [c2s EXCEPT ![Conn(c)] = RpcRequest(req[c])]
          /\ Advance(c, "recv")
          /\ UNCHANGED <<ncalls, req, ctrl, sock, byteStream, rpcResponse,
                         serviceResponse, delivered, s2c, srv, handled>>

(* The write, the flush or the shutdown raises socket.error:              *)
(* sendRpcMessage closes the socket and raises IOError.  The server reads  *)
(* what went out before the close ended the stream: a cut-short request,   *)
(* or the whole request when only the shutdown failed.                     *)
SendRpcMessageFails(c) ==
    /\ stage[c] = "send"
    /\ ~ctrl[c].failed
    /\ "SendError" \in Faults
    /\ \E sent \in {Partial, RpcRequest(req[c])} :
          c2s' = [c2s EXCEPT ![Conn(c)] = sent]
    /\ sock' = [sock EXCEPT ![c] = "closed"]
    /\ Fail(c, "IO_ERROR")
    /\ Advance(c, "recv")
    /\ UNCHANGED <<ncalls, req, byteStream, rpcResponse, serviceResponse,
                   delivered, s2c, srv, handled>>

(* tryToReceiveReply / recvRpcMessage: read to end-of-stream, which comes  *)
(* once the server has closed, then close the socket (finally clause).     *)
(* With the Truncate fault the stream may end early.                       *)
TryToReceiveReply(c) ==
    LET k == Conn(c) IN
    /\ stage[c] = "recv"
    /\ \/ Skip(c, "parse")
       \/ /\ ~ctrl[c].failed
          /\ s2c[k] # None
          /\ \/ byteStream' = [byteStream EXCEPT ![c] = s2c[k]]
             \/ /\ "Truncate" \in Faults
                /\ \E b \in Truncations(s2c[k]) : byteStream' = [byteStream EXCEPT ![c] = b]
          /\ sock' = [sock EXCEPT ![c] = "closed"]
          /\ Advance(c, "parse")
          /\ UNCHANGED <<ncalls, req, ctrl, rpcResponse, serviceResponse,
                         delivered, netVars>>

(* Mutant: the socket is closed only when the read succeeds.               *)
RecvRpcMessageFailsNoClose(c) ==
    /\ stage[c] = "recv"
    /\ ~ctrl[c].failed
    /\ "RecvError" \in Faults
    /\ Fail(c, "IO_ERROR")
    /\ Advance(c, "parse")
    /\ UNCHANGED <<ncalls, req, sock, byteStream, rpcResponse, serviceResponse,
                   delivered, netVars>>

(* The read raises socket.error (connection reset), whether or not the     *)
(* server has answered: the finally clause closes the socket.              *)
RecvRpcMessageFails(c) ==
    /\ stage[c] = "recv"
    /\ ~ctrl[c].failed
    /\ "RecvError" \in Faults
    /\ sock' = [sock EXCEPT ![c] = "closed"]
    /\ Fail(c, "IO_ERROR")
    /\ Advance(c, "parse")
    /\ UNCHANGED <<ncalls, req, byteStream, rpcResponse, serviceResponse,
                   delivered, netVars>>

(* Mutant: parseResponse's except clause swallows the decode error.        *)
TryToParseReplySwallow(c) ==
    /\ stage[c] = "parse"
    /\ \/ Skip(c, "retrieve")
       \/ /\ ~ctrl[c].failed
          /\ rpcResponse' = [rpcResponse EXCEPT ![c] = byteStream[c]]
          /\ Advance(c, "retrieve")
          /\ UNCHANGED <<ncalls, req, ctrl, sock, byteStream, serviceResponse,
                         delivered, netVars>>

(* tryToParseReply / parseResponse(byte_stream, rpc_pb.Response): every    *)
(* Response field is optional, so only undecodable bytes are rejected.     *)
TryToParseReply(c) ==
    /\ stage[c] = "parse"
    /\ \/ Skip(c, "retrieve")
       \/ /\ ~ctrl[c].failed
          /\ IF byteStream[c] = Junk
                THEN Fail(c, "BAD_RESPONSE_PROTO") /\ UNCHANGED rpcResponse
                ELSE rpcResponse' = [rpcResponse EXCEPT ![c] = byteStream[c]]
                     /\ UNCHANGED ctrl
          /\ Advance(c, "retrieve")
          /\ UNCHANGED <<ncalls, req, sock, byteStream, serviceResponse,
                         delivered, netVars>>

(* Mutant: the payload is taken whenever there is one, the error field     *)
(* only when there is none.                                                *)
TryToRetrieveServiceResponsePayloadFirst(c) ==
    LET env == rpcResponse[c]
        parsed == ParsePayload(env.payload, RespHasRequired)
    IN
    /\ stage[c] = "retrieve"
    /\ \/ Skip(c, "runcb")
       \/ /\ ~ctrl[c].failed
          /\ \/ /\ env.payload = None /\ env.error
                /\ Fail(c, ReasonOf(env))
                /\ UNCHANGED serviceResponse
             \/ /\ ~(env.payload = None /\ env.error)
                /\ parsed = None
                /\ Fail(c, "BAD_RESPONSE_PROTO")
                /\ UNCHANGED serviceResponse
             \/ /\ ~(env.payload = None /\ env.error)
                /\ parsed # None
                /\ serviceResponse' = [serviceResponse EXCEPT ![c] = parsed]
                /\ UNCHANGED ctrl
          /\ Advance(c, "runcb")
          /\ UNCHANGED <<ncalls, req, sock, byteStream, rpcResponse, delivered, netVars>>

(* tryToRetrieveServiceResponse: an error field in the reply becomes the   *)
(* controller's failure; otherwise response_proto is parsed as the         *)
(* caller's response class.  The reply's callback field is never read.     *)
TryToRetrieveServiceResponse(c) ==
    LET env == rpcResponse[c]
        parsed == ParsePayload(env.payload, RespHasRequired)
    IN
    /\ stage[c] = "retrieve"
    /\ \/ Skip(c, "runcb")
       \/ /\ ~ctrl[c].failed
          /\ \/ /\ env.error
                /\ Fail(c, ReasonOf(env))
                /\ UNCHANGED serviceResponse
             \/ /\ ~env.error
                /\ parsed = None
                /\ Fail(c, "BAD_RESPONSE_PROTO")
                /\ UNCHANGED serviceResponse
             \/ /\ ~env.error
                /\ parsed # None
                /\ serviceResponse' = [serviceResponse EXCEPT ![c] = parsed]
                /\ UNCHANGED ctrl
          /\ Advance(c, "runcb")
          /\ UNCHANGED <<ncalls, req, sock, byteStream, rpcResponse, delivered, netVars>>

(* tryToRunCallback: re-checks the reply's error (recording it but not     *)
(* returning), then runs done with serviceResponse; CallMethod returns.    *)
TryToRunCallback(c) ==
    /\ stage[c] = "runcb"
    /\ \/ Skip(c, "idle")
       \/ /\ ~ctrl[c].failed
          /\ IF rpcResponse[c].error THEN Fail(c, ReasonOf(rpcResponse[c]))
                                     ELSE UNCHANGED ctrl
          /\ delivered' = [delivered EXCEPT ![c] = serviceResponse[c]]
          /\ Advance(c, "idle")
          /\ UNCHANGED <<ncalls, req, sock, byteStream, rpcResponse,
                         serviceResponse, netVars>>

(* The stages as they run when the transport does not fail.               *)
LifeCycleStep(c) ==
    \/ TryToValidateRequest(c)
    \/ TryToOpenSocket(c)
    \/ TryToSendRpcRequest(c)
    \/ TryToReceiveReply(c)
    \/ TryToParseReply(c)
    \/ TryToRetrieveServiceResponse(c)
    \/ TryToRunCallback(c)

(* Socket operations raising socket.error or socket.gaierror.              *)
TransportFault(c) ==
    \/ OpenSocketFails(c)
    \/ SendRpcMessageFails(c)
    \/ RecvRpcMessageFails(c)
-----------------------------------------------------------------------------
(***************************************************************************)
(* Server side: SocketHandler.handle on its worker thread.                 *)
(***************************************************************************)

(* Mutant: the worker dies on the serialization error without the         *)
(* connection being shut down, so the client never sees end-of-stream.     *)
CallMethodReplyNoClose(b) ==
    IF b.raise THEN ErrorEnvelope("RPC_ERROR")
    ELSE IF b.done = "Uninit" THEN None
    ELSE [payload |-> IF b.done = "Resp" THEN "Resp" ELSE None,
          callback |-> b.done # "None",
          error |-> b.fail,
          reason |-> IF b.fail THEN "RPC_FAILED" ELSE None]

(* Mutant: a controller failed by the handler is reported with the code    *)
(* of an exception raised by the handler.                                  *)
CallMethodReplyWrongReason(b) ==
    IF b.raise THEN ErrorEnvelope("RPC_ERROR")
    ELSE IF b.done = "Uninit" THEN ZeroBytes
    ELSE [payload |-> IF b.done = "Resp" THEN "Resp" ELSE None,
          callback |-> b.done # "None",
          error |-> b.fail,
          reason |-> IF b.fail THEN "RPC_ERROR" ELSE None]

(* callMethod: the Response built from the handler's Callback and          *)
(* controller.  An exception from the handler becomes RPC_ERROR; a         *)
(* response missing required fields makes SerializeToString raise outside  *)
(* any try, so the worker dies and the connection is shut with nothing     *)
(* written; a failed controller adds error and RPC_FAILED.                 *)
CallMethodReply(b) ==
    IF b.raise THEN ErrorEnvelope("RPC_ERROR")
    ELSE IF b.done = "Uninit" THEN ZeroBytes
    ELSE [payload |-> IF b.done = "Resp" THEN "Resp" ELSE None,
          callback |-> b.done # "None",
          error |-> b.fail,
          reason |-> IF b.fail THEN "RPC_FAILED" ELSE None]

(* validateAndExecuteRequest: parseServiceRequest, retrieveService,        *)
(* retrieveMethod, retrieveProtoRequest, each answering with handleError   *)
(* on failure, then callMethod.                                            *)
Unroutable(r) ==
    IF r = Partial THEN "BAD_REQUEST_DATA"
    ELSE IF r.svc \notin DOMAIN Registry THEN "SERVICE_NOT_FOUND"
    ELSE IF r.mth \notin Registry[r.svc] THEN "METHOD_NOT_FOUND"
    ELSE IF ~r.bodyOk THEN "BAD_REQUEST_PROTO"
    ELSE None

(* handle: read the request to end-of-stream, evaluate it, write the       *)
(* serialized Response and shut the socket down (SocketServer shuts it     *)
(* down also when handle raised).                                          *)
Handle(k) ==
    /\ srv[k] = "accepted"
    /\ c2s[k] # None
    /\ LET why == Unroutable(c2s[k]) IN
       IF why # None
          THEN /\ s2c' = [s2c EXCEPT ![k] = ErrorEnvelope(why)]
               /\ UNCHANGED handled
          ELSE \E b \in HandlerBehaviours :
                 /\ s2c' = [s2c EXCEPT ![k] = CallMethodReply(b)]
                 /\ handled' = [handled EXCEPT ![k] = b]
    /\ srv' = [srv EXCEPT ![k] = "closed"]
    /\ UNCHANGED <<clientVars, c2s>>
-----------------------------------------------------------------------------
(* Every client has made its calls and every worker has finished.          *)
Finished ==
    /\ \A c \in Clients : stage[c] = "idle" /\ ncalls[c] = MaxCalls
    /\ \A k \in Conns : srv[k] # "accepted"
    /\ UNCHANGED vars

Next ==
    \/ \E c \in Clients : CallMethod(c) \/ LifeCycleStep(c) \/ TransportFault(c)
    \/ \E k \in Conns : Handle(k)
    \/ Finished

(* Each client thread and each server worker keeps running while it can.   *)
(* Starting a call is the caller's choice, and a transport fault may or    *)
(* may not happen: neither is assumed.                                     *)
Fairness ==
    /\ \A c \in Clients : WF_vars(LifeCycleStep(c))
    /\ \A k \in Conns : WF_vars(Handle(k))

Spec == Init /\ [][Next]_vars /\ Fairness
-----------------------------------------------------------------------------
(***************************************************************************)
(* Properties.                                                             *)
(***************************************************************************)

(* A client's done callback only ever receives the response the server's   *)
(* handler passed to done.run, and only when that handler neither failed   *)
(* nor raised (channel.py tryToRetrieveServiceResponse/tryToRunCallback    *)
(* against server.py callMethod).                                          *)
DeliveredIsHandlerResponse ==
    \A c \in Clients :
        delivered[c] # None =>
            /\ delivered[c] = "Resp"
            /\ handled[Conn(c)] # None
            /\ handled[Conn(c)].done = "Resp"
            /\ ~handled[Conn(c)].fail
            /\ ~handled[Conn(c)].raise

(* When the server answered a call with an error and the client read that  *)
(* answer, the call ends failed with the server's error_reason and done    *)
(* is not run, whatever payload came with it (spec: priority of envelope   *)
(* error over payload).                                                    *)
EnvelopeErrorWins ==
    \A c \in Clients :
        LET k == Conn(c) IN
        (/\ stage[c] = "idle" /\ ncalls[c] > 0
         /\ rpcResponse[c] # None
         /\ s2c[k] # None /\ s2c[k].error)
        => /\ ctrl[c].failed
           /\ ctrl[c].reason = s2c[k].reason
           /\ delivered[c] = None

(* No call returns with its socket still open: every failure path of       *)
(* openSocket, sendRpcMessage and recvRpcMessage closes it.                *)
NoSocketLeak ==
    \A c \in Clients : stage[c] = "idle" => sock[c] # "open"

(* A call that ended failed names the cause of its failure (spec 3 and    *)
(* 4.3: validation, then service, method and request lookup, then the      *)
(* handler).  The reason is set on the client (validateRequest,            *)
(* tryToRetrieveServiceResponse) from a reply built on the server          *)
(* (validateAndExecuteRequest, callMethod), so each reason is traced back  *)
(* to the request the client sent and to what the handler did.  Transport  *)
(* reasons (IO_ERROR, UNKNOWN_HOST) are left out.  A handler's failure is  *)
(* lost only when its response cannot be serialized (run silent_drop).     *)
FailureNamesCause ==
    \A c \in Clients :
        LET r == req[c]
            h == handled[Conn(c)]
            why == ctrl[c].reason
        IN
        (stage[c] = "idle" /\ ncalls[c] > 0 /\ ctrl[c].failed) =>
            /\ why = "BAD_REQUEST_DATA" => c2s[Conn(c)] = Partial
            /\ why = "SERVICE_NOT_FOUND" => r.svc \notin DOMAIN Registry
            /\ why = "METHOD_NOT_FOUND" =>
                  r.svc \in DOMAIN Registry /\ r.mth \notin Registry[r.svc]
            /\ why = "BAD_REQUEST_PROTO" => ~r.init \/ ~r.bodyOk
            /\ why = "RPC_ERROR" => h # None /\ h.raise
            /\ why = "RPC_FAILED" => h # None /\ h.fail /\ ~h.raise
            /\ why = "BAD_RESPONSE_PROTO" =>
                  /\ h # None /\ h.done # "Resp" /\ ~h.raise
                  /\ h.fail => h.done = "Uninit"

(* done is not run when the server's reply says its handler never         *)
(* invoked its callback (channel_test.py testNoCallBack; spec: a reply     *)
(* with invoked=false and no error must not be taken for success).         *)
NoDeliveryWithoutServerCallback ==
    \A c \in Clients :
        delivered[c] # None => s2c[Conn(c)] # None /\ s2c[Conn(c)].callback = TRUE

(* Every connection the server accepted is answered with a Response that   *)
(* carries a result or an error, never closed with nothing written (spec:  *)
(* failures are never uncaught faults crossing the connection boundary).   *)
ServerAnswersEveryRequest ==
    \A k \in Conns : srv[k] = "closed" => s2c[k] # ZeroBytes

(* Every call that starts returns to its caller, and every connection the  *)
(* server accepted is closed by its worker.                                *)
CallsComplete ==
    /\ \A c \in Clients : stage[c] # "idle" ~> stage[c] = "idle"
    /\ \A k \in Conns : srv[k] = "accepted" ~> srv[k] = "closed"

(* The refinement mapping onto RpcCall: a call is running while its        *)
(* _LifeCycle is, its Status is the controller, its result what done.run   *)
(* received.                                                               *)
Call == INSTANCE RpcCall WITH
            phase <- [c \in Clients |-> IF stage[c] = "idle" THEN "idle" ELSE "running"],
            status <- ctrl,
            result <- delivered

(* SocketRpcChannel.CallMethod implements a remote call: each call fails   *)
(* at most once and then returns without running done, or runs done with  *)
(* a response while not failed, and every call returns (spec 4.2).         *)
ImplementsRpcCall == Call!ASpec
=============================================================================
