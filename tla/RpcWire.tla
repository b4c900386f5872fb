------------------------------ MODULE RpcWire ------------------------------
(***************************************************************************)
(* The wire envelope of the socket RPC protocol (rpc.proto, Request and    *)
(* Response) and the error taxonomy of error.py, abstracted to what the    *)
(* call lifecycle and the dispatcher tell apart.                           *)
(*                                                                         *)
(* Bytes on the wire are represented by the message they decode to: a     *)
(* protobuf message with no field set serializes to zero bytes, so the    *)
(* empty stream IS the Response record with every field absent (None).    *)
(* Bytes that do not decode at all are the model value Junk.               *)
(***************************************************************************)
CONSTANTS
    None,       \* Python's None / an absent optional field
    Junk,       \* a byte stream that is not a valid protobuf encoding
    Partial,    \* a request stream cut short by a failed client write
    Services,   \* service names a client may put in a request
    Methods     \* method names a client may put in a request

(* rpc.proto ErrorReason, raised through the classes of error.py.          *)
ErrorReasons ==
    {"BAD_REQUEST_DATA", "BAD_REQUEST_PROTO", "SERVICE_NOT_FOUND",
     "METHOD_NOT_FOUND", "RPC_ERROR", "RPC_FAILED", "INVALID_REQUEST_PROTO",
     "BAD_RESPONSE_PROTO", "UNKNOWN_HOST", "IO_ERROR"}

(* The value an unset error_reason field reads as: the enum's first value. *)
DefaultReason == "BAD_REQUEST_DATA"

(* A serialized user message: the handler's response, or the message with  *)
(* no field set that zero payload bytes parse to.                          *)
PayloadValues == {"Resp", "Default"}

(* None, Junk and Partial are sentinels, none of them a name, a payload or *)
(* a reason.                                                               *)
ASSUME WireAssumption ==
    /\ None \notin Services \cup Methods \cup PayloadValues \cup ErrorReasons
    /\ Junk # None
    /\ Partial \notin {None, Junk}

(* rpc.proto Request: service_name, method_name, request_proto (all        *)
(* required).  bodyOk says whether request_proto parses as the server's    *)
(* request class for that method.                                          *)
RequestEnvelopes ==
    [svc : Services, mth : Methods, bodyOk : BOOLEAN] \cup {Partial}

(* rpc.proto Response: every field optional.                               *)
ResponseEnvelopes ==
    [payload : {None, "Resp"}, callback : {None, TRUE, FALSE},
     error : BOOLEAN, reason : ErrorReasons \cup {None}]

(* The empty stream, and what it decodes to.                               *)
ZeroBytes ==
    [payload |-> None, callback |-> None, error |-> FALSE, reason |-> None]

WireBytes == ResponseEnvelopes \cup {Junk}

(* SocketHandler.handleError: a Response with only error and error_reason. *)
ErrorEnvelope(reason) ==
    [payload |-> None, callback |-> None, error |-> TRUE, reason |-> reason]

(* What a received reply's error_reason reads as on the client.            *)
ReasonOf(env) == IF env.reason = None THEN DefaultReason ELSE env.reason

(* Mutant: parseResponse without its IsInitialized() check.               *)
ParsePayloadNoInitCheck(payload, respHasRequired) ==
    IF payload = "Resp" THEN "Resp" ELSE "Default"

(* Parsing the user's response class out of response_proto: absent        *)
(* bytes parse to the default message, which IsInitialized() rejects iff   *)
(* the class has required fields.  None stands for BadResponseProtoError.  *)
ParsePayload(payload, respHasRequired) ==
    IF payload = "Resp" THEN "Resp"
    ELSE IF respHasRequired THEN None ELSE "Default"

(* The byte streams a reader can see when the stream ends early: the       *)
(* encoding stopped after a whole field, or in the middle of one           *)
(* (undecodable).  The serialization order of the Response fields is fixed *)
(* by rpc.proto, which is generated outside this tree: the prefixes of     *)
(* both candidate orders (payload, callback, error, reason, as the spec    *)
(* lists them, and payload, error, callback, reason) are included.         *)
Truncations(env) ==
    { ZeroBytes,
      [payload |-> env.payload, callback |-> None, error |-> FALSE, reason |-> None],
      [env EXCEPT !.error = FALSE, !.reason = None],
      [env EXCEPT !.callback = None, !.reason = None],
      [env EXCEPT !.reason = None],
      Junk }
=============================================================================
