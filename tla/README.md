# TLA+ verification of protobuf-socket-rpc (Python)

This directory holds the formal models of the socket RPC library in
`src/python/src/main/protobuf/socketrpc/`, the TLC configurations that
model-check them, and TLAPS proofs of their main safety properties.
`PROJECT.json` lists every modelled definition with the source lines it
translates, every run, mutant, finding, hazard and theorem.

## 1. The system

| Part | Source | What it does |
|---|---|---|
| Status | `SocketRpcController` (controller.py, not in the tree; created by `channel.newController`) | `failed` flag, reason, message; set by `handleError`, read by every stage |
| Wire envelope, errors | `rpc_pb2` (generated, not in the tree), `error.py` | `Request{service_name, method_name, request_proto}` (all required), `Response{response_proto, error, callback, error_reason}` (all optional), ten `ErrorReason`s, one exception class per reason |
| Transport | `channel.py` `openSocket`, `sendRpcMessage`, `recvRpcMessage`, `closeSocket` | connect; write the request then `shutdown(SHUT_WR)`; read to end of stream; close (also on every failure path) |
| Client call lifecycle | `channel.py` `CallMethod`, `_LifeCycle` | seven stages in a row (validate, open, send, receive, parse, retrieve, run callback); each returns at once if the controller has failed |
| Server dispatcher | `server.py` `SocketHandler`, `ThreadedTCPServer`, `SocketRpcServer` | one thread per connection: read to end of stream, decode, find service, find method, decode the body, call the handler with a fresh controller and a `Callback`, build the Response, write it, `shutdown(SHUT_RDWR)` |
| Calling façade | `service.py` (`RpcService`, `RpcThread`), not in the tree | callback mode or blocking mode with a timeout, each running the lifecycle on a thread |

They interact through one TCP connection per call. The framing is implicit:
the end of a message is the end of its stream, so the client's half-close ends
the request and the server's shutdown ends the reply. Many clients may run
at once, each call on its own connection and thread. The server runs one
worker per connection, and the workers share only the service registry.

### Hard behaviours of this code

- **Fail-fast.** A failed stage must keep every later stage from doing
  anything, above all from overwriting the reason or running `done`.
- **Error priority.** A failed handler that also called `done` produces a
  reply with both a payload and an error. The client must take the error.
- **Socket cleanup.** Every failure after `connect` must close the socket:
  the `except` branches in `openSocket`, the `except` in `sendRpcMessage`,
  and the `finally` in `recvRpcMessage`.
- **End-of-stream framing.** A reply cut short at a field boundary is itself a
  valid, shorter `Response`.
- **Callback flag.** The server reports whether the handler invoked `done`.
  The client never reads that flag.
- **Serialization.** The server serializes the handler's response at
  `server.py:208`, outside any `try`.
- **Blocking reads.** Neither side sets a socket timeout. Each side blocks in
  `read()` until the other side ends its stream.

## 2. Modules

| Module | Models | Contents |
|---|---|---|
| `RpcWire` | wire envelope, `error.py`, `parseResponse` | `ErrorReasons`, `RequestEnvelopes`, `ResponseEnvelopes`; `ZeroBytes`, the empty stream, which decodes to the Response with no field set; `ErrorEnvelope` (`handleError`); `ParsePayload` (`parseResponse` with its `IsInitialized` check); `ReasonOf` (an unset `error_reason` reads as the first enumerator); `Truncations` (what a reader can see of a reply cut short) |
| `SocketRpc` | transport, client lifecycle, server dispatcher | state and actions below, fairness, the properties |
| `RpcCall` | what one call promises its caller (spec 3, 4.2) | abstract state per client: `phase` (idle/running), `status`, `result`; actions `Start`, `FailCall` (first failure only), `Deliver` (not failed: run the callback, return), `Return` (failed: return without it) |
| `RpcService` | calling façade (`service.py`, spec 4.4 and 5) | one `RpcCall` instance per background task `<<caller, n>>`; callback, blocking and timed calls; wake and timeout |
| `MC_SocketRpc` | — | the small registry, requests and fault sets TLC uses |
| `SocketRpcProofs` | — | the inductive invariant and the TLAPS proofs about `SocketRpc` |
| `SocketRpcRefinement` | — | the TLAPS proof that `SocketRpc` implements `RpcCall` (safety part) |
| `SocketRpcDelivery` | — | the TLAPS proofs that a server error wins over the payload and that `done` only receives the handler's response (`EnvelopeErrorWins`, `DeliveredIsHandlerResponse`) |

**State of `SocketRpc`.**
- Per client `c`, the fields of `_LifeCycle` and of its controller:
  - `stage[c]`: the next stage to run, or `"idle"`;
  - `ncalls[c]`: calls started so far;
  - `req[c]`: the request;
  - `ctrl[c]`: failed flag and reason;
  - `sock[c]`: the socket;
  - `byteStream[c]`, `rpcResponse[c]`, `serviceResponse[c]`;
  - `delivered[c]`: what `done.run` received.
- Per connection `<<c, n>>` (client `c`'s `n`-th call):
  - `c2s`: the request bytes;
  - `s2c`: the reply bytes, set when the worker shuts the connection down;
  - `srv`: the worker state;
  - `handled`: what the handler did.

**Data abstraction.**
- Byte streams are represented by the message they decode to. `Junk` stands
  for bytes that do not decode.
- A user request is `[init, svc, mth, bodyOk]`.
- A handler's behaviour is `[done, fail, raise]`:
  - `done` says whether `done.run` was called, and with an initialized or an
    uninitialized response;
  - `fail` says whether the controller was failed;
  - `raise` says whether an exception was raised.
- The `error` string of a Response is abstracted to "set or not". Messages,
  logging and host names are left out.

**Actions.** Each action is one whole method, with its early return and every
call it makes:
- `CallMethod` starts a call with a fresh controller and a fresh `_LifeCycle`.
- One action per stage: `TryToValidateRequest`, `TryToOpenSocket`,
  `TryToSendRpcRequest`, `TryToReceiveReply`, `TryToParseReply`,
  `TryToRetrieveServiceResponse`, `TryToRunCallback`. Each one's
  `failed()` return is `Skip`.
- Transport faults are separate actions: `OpenSocketFails`,
  `SendRpcMessageFails`, `RecvRpcMessageFails`.
  - `OpenSocketFails` is `createSocket`, a failed `connect` and the
    `closeSocket` in its `except`, in one step: the socket goes from none to
    closed. The socket object exists only inside `openSocket`, so no other
    thread can see it open; what can go wrong is the close being dropped,
    and then the socket is left open and `NoSocketLeak` fails when the call
    returns (checked by hand with that variant).
  - `SendRpcMessageFails` covers a raise from the write, the flush or the
    `shutdown`. The server then reads either a cut-short request
    (`Partial`) or, when only the `shutdown` failed, the whole request; the
    `closeSocket` in the `except` ends the stream in both cases.
  - Every client path that writes the request also ends its stream in the
    same step (the `shutdown`, or the close of the failure path), so the
    value in `c2s` stands for the request together with its end of stream,
    and `Handle`, which reads to end of stream, may run once it is set.
- `Handle(k)` is one worker's whole `handle()`. `Unroutable` covers the four
  early returns of `validateAndExecuteRequest`, and `CallMethodReply` is
  `callMethod`'s Response. If serialization raises, `Handle` sends the empty
  stream, because SocketServer shuts the connection down after an exception
  too.

**Refinement mapping.** `SocketRpc` defines
`Call == INSTANCE RpcCall WITH phase <- ..., status <- ctrl, result <- delivered`.
`phase[c]` is `"idle"` when `stage[c] = "idle"`, and `"running"` at every
other stage. Under this mapping:
- `CallMethod` is `Start`;
- a stage that fails the controller for the first time is `FailCall`;
- `tryToRunCallback` is `Deliver` when the call has not failed, and `Return`
  when it has;
- every other step is a stutter.

The property `ImplementsRpcCall == Call!ASpec` says that every behaviour of
`SocketRpc` is a behaviour of `RpcCall`, including `RpcCall`'s fairness:
every running call completes.

**Calling façade.** `service.py` is not in the tree, so `RpcService` is
written from spec 4.4 and 5 and marked spec-modelled in `PROJECT.json`. Each
call runs on a background task of its own, an `RpcCall` instance indexed by
`<<caller, n>>`; the composition uses the abstraction, proved sound above,
instead of the whole socket model.
- `Invoke(c, m)` is `RpcService.call`. It starts the next task, and in a
  blocking mode (`"blocking"`, `"timed"`) the caller waits on that task.
- `TaskStep(t)` is `RpcThread.run`: one `RpcCall` completion step.
- `Wake(c)` ends the wait when the task has finished. The caller gets the
  response, or `RpcFailed` if the Status failed.
- `Timeout(c)` ends a timed wait on an unfinished task. The task is not
  cancelled, and the caller may call again while it runs.
Tasks and waits are fair (`WF`). The timed wait's clock always runs out, and
a woken thread runs. Making a call is not fair.

**Fairness.** `WF` applies to each client's `LifeCycleStep` and to each
worker's `Handle`. Both are threads that run while they can. Starting a call
is the caller's choice, and a transport fault may or may not happen, so
neither is fair.

## 3. Runs

All runs use one registered service `"Svc"` with one method `"M"`. Requests
and handler behaviours come from small sets. The requests cover each early
return of `validateRequest` and of `validateAndExecuteRequest`, and the
handler behaviours cover all twelve combinations of `done`, `fail` and
`raise`.

| Run | Bounds | Checks | Result |
|---|---|---|---|
| `core` | 2 clients, 1 call each, connect/write/read faults | `DeliveredIsHandlerResponse`, `EnvelopeErrorWins`, `FailureNamesCause`, `NoSocketLeak`, `CallsComplete` (liveness), `ImplementsRpcCall` (refinement) | pass, 80,089 states |
| `facade` | 1 caller, 3 calls, every mode | `BlockingCallsReturn` (liveness) | pass, 576,637 states |
| `faults` | 1 client, 2 calls, every fault, truncation included | `TypeOK` | pass, 10,627 states |
| `no_callback` | response class without required fields, no faults | `NoDeliveryWithoutServerCallback` | violated (finding) |
| `silent_drop` | 1 client, 1 call, no transport faults | `ServerAnswersEveryRequest` | violated (finding) |
| `truncated_error` | 1 client, 1 call, reply stream may end early | `DeliveredIsHandlerResponse` | violated (finding) |

**Why these bounds are enough.**
- Two clients let two calls interleave on the shared dispatcher. The calls
  share no state, so a third client adds nothing new.
- Two calls in a row on one client check that a second call starts clean
  after a first one failed.
- In `facade`, three calls let a caller time out twice and retry while two
  late tasks are still running. Callers share nothing in the façade, so one
  caller is enough; two callers with three calls each is beyond a short run.
- Every branch of every action is reached (TLC coverage), including each
  error reason the server can send.

**Properties.**
- `DeliveredIsHandlerResponse`: `done` only ever receives the response the
  handler passed to its callback, and only when the handler neither failed
  nor raised.
- `EnvelopeErrorWins`: a call whose reply carried an error ends failed with
  that reason, and `done` is not run.
- `NoSocketLeak`: no call returns with its socket open.
- `FailureNamesCause`: a call that returns failed reports a reason that
  names what was wrong with it: `BAD_REQUEST_DATA` only for a request that
  reached the server cut short, `SERVICE_NOT_FOUND` and `METHOD_NOT_FOUND`
  only for a name not registered, `BAD_REQUEST_PROTO` only for a request
  without its required fields, `RPC_ERROR` only for a handler that raised,
  `RPC_FAILED` only for a handler that failed the controller without
  raising, and `BAD_RESPONSE_PROTO` only for a handler that neither raised
  nor passed a valid response to `done`. The last clause admits a handler
  that failed and passed an uninitialized response: its reply is dropped
  (finding 2) and the client sees an empty stream. The property relates the
  client's final status to the request and to the worker's handler run of
  the same connection, across the dispatcher's five ordered steps and
  `callMethod`'s three error paths. The mutant
  `CallMethodReplyWrongReason`, which reports a failed handler as
  `RPC_ERROR`, breaks it.
- `CallsComplete`: every call returns and every accepted connection is
  closed. It holds only because the worker always shuts the connection down,
  an exception included. The mutant `CallMethodReplyNoClose` shows that
  without this, the client blocks in `read()` forever.

- `ImplementsRpcCall`: `SocketRpc` refines `RpcCall`. The mutant
  `TryToRetrieveServiceResponsePayloadFirst` breaks it, because it
  runs `done` in the same step that fails the call.
- `BlockingCallsReturn`: every blocking caller returns. The mutant
  `WakeOnDeliveryOnly` releases the wait only through `done`, which
  `tryToRunCallback` never runs on Failed, so an untimed call that failed
  never returns.

Each property of a passing run has a mutant in `PROJECT.json`: a plausible
bug in the mapped code that TLC catches with that property.

## 4. Findings

1. **Client ignores the callback flag** (`channel.py:264`). A handler that
   never calls `done` is delivered as a successful default response when the
   response class has no required fields. The spec says `invoked=false`
   without an error is not a success. `testNoCallBack` passes only because
   its response type has required fields.
2. **Uncaught serialization error** (`server.py:208`). An uninitialized
   response passed to `done` kills the worker, and the connection is closed
   with no bytes written. This contradicts the spec's "never silently
   dropped".
3. **End-of-stream framing** (`channel.py:142`). A truncated reply is
   accepted as a whole. A handler that failed the controller and also ran
   `done` gets a reply whose payload (field 1) precedes its error (fields 2
   and 4); cut after the payload, it parses without error, and `done`
   receives the response of a failed call. The run shows this with
   `DeliveredIsHandlerResponse`. This is a
   gap in the spec's framing rather than a slip in the code.

## 5. Proofs

### `SocketRpcProofs`

`tlapm SocketRpcProofs.tla` proves, for every value of the constants that
satisfies `WireAssumption` and `SocketRpcAssumption`, two theorems:
- `TypeCorrect`: `Spec => []TypeOK`.
- `SocketsClosed`: `Spec => []NoSocketLeak`.

**Why `TypeOK` needs strengthening.** `TypeOK` is not inductive, because
some stages read fields that an earlier stage of the same call set:
- `TryToSendRpcRequest` reads `req[c]` and `Conn(c)`;
- `TryToParseReply` copies `byteStream[c]`;
- `TryToRetrieveServiceResponse` and `TryToRunCallback` read the fields of
  `rpcResponse[c]`.

The invariant `IInv` adds, per client:
- `RequestSet`: a running call has a request and a connection number in
  `1..MaxCalls`.
- `BytesRead`: a call about to parse, not failed, holds bytes.
- `ReplyParsed`: a call about to retrieve or run `done`, not failed, holds a
  Response.
- `Retrieved`: a call about to run `done`, not failed, holds a Response
  without error and a parsed payload. The refinement proof needs this
  conjunct.
- `OpenSocketOwned`: an open socket belongs to a call that is sending or
  receiving and has not failed. This conjunct gives `NoSocketLeak`. It holds
  because every path that fails after `connect` closes the socket, and the
  receive stage closes it on success too.

**How the proof is laid out.**
- One step lemma per action shows that `IInv` is preserved. Each splits into
  the early-return case (`SkipStep`) and the main path.
- A frame lemma (`ClientFrame`) covers the clients an action does not touch.
- Small lemmas give the type of `Unroutable`, `Truncations`, `ReasonOf`,
  `ParsePayload` and `CallMethodReply`.
- That a call fails at most once and never runs `done` after failing is
  part of `Refinement` below (`RpcCall`'s `FailCall` and `Deliver`).

### `SocketRpcRefinement`

`Refinement`: `Spec => Call!SafeSpec`, the safety part of
`ImplementsRpcCall`. The proof follows the usual layout:
- `Init` maps to `Call!AInit`.
- `StepRefines`: under `IInv`, every `Next` step is a `Call!ANext` step or
  a stutter of the mapped variables. The cases are:
  - `CallMethodStart`;
  - `StagesMap`, where each stage that fails the controller is `FailCall`
    and any other is a stutter, with `StageStep` as the common lemma;
  - `RetrieveMaps`;
  - `RunCallbackCompletes`, where `Retrieved` gives `Deliver` its payload;
  - the server's steps, which are stutters.
- The last step is PTL.

### `SocketRpcDelivery`

This module proves the two end-to-end invariants of the `core` run. Both
relate what a client holds to what the server's worker wrote on the same
connection:
- `ErrorWinsProved`: `ASSUME WholeReplies PROVE Spec => []EnvelopeErrorWins`.
- `DeliveredProved`:
  `ASSUME WholeReplies, RespHasRequired PROVE Spec => []DeliveredIsHandlerResponse`.

**The hypotheses.** `WholeReplies` says that `"Truncate"` is not among the
`Faults`. Both hypotheses are needed, and the violation runs show why:
- `truncated_error`: a reply cut short after its payload loses its error
  field, and a failed handler's payload reaches `done`, so
  `DeliveredIsHandlerResponse` fails; `EnvelopeErrorWins` fails too, when
  the call ends with another reason or with the payload.
- `no_callback`: without required fields, an empty reply reaches `done` as
  the default message.

The theorems state what holds under the other settings of the constants.
Every other parameter is free.

**The inductive invariant** `DInv == IInv /\ Ext`. `Ext` adds one
conjunct per connection and a chain of conjuncts per client.

- `ServerInv(k)`, per connection:
  - Before the worker runs, the connection holds no reply and no handler
    record.
  - An error reply carries a reason.
  - A reply with the handler's payload was written by a handler that
    produced `"Resp"` and did not raise, and the reply's error flag is the
    handler's `fail`.
- `ClientChain(c)`, per client, follows the call's data through the stages:
  - `ConnsAhead`: connections of later calls are untouched, and the current
    call's connection is untouched until the socket opens.
  - `BytesAreReply`: the bytes read are the worker's reply.
  - `ParsedAfterParse`: a call past parsing, not failed, holds an envelope.
  - `EnvelopeIsReply`: that envelope is the reply. Once past retrieval, an
    error in it means the call failed with `ReasonOf` of it and nothing was
    delivered.
  - `PayloadIsReply`: the kept response is `ParsePayload` of the reply's
    payload.
  - `Undelivered` and `DeliveredIsReply`: `delivered` is `None` during a
    call, and is otherwise `ParsePayload` of an error-free reply.

**Why the invariant holds.** A worker writes `s2c[k]` only while `srv[k]` is
`"accepted"`. `ServerInv` makes `s2c[k]` `None` at that point, so no client
has read it yet. Once written, a reply never changes. This stability is what
lets the client chain refer to `s2c[Conn(c)]`.

TLC checked `DInv` as an invariant before it was proved, with
`RespHasRequired` both TRUE and FALSE, on two instances:
- the `core` instance, 80,089 states;
- the `faults` instance without truncation, 6,487 states.

With truncation allowed, TLC finds `DInv` violated.

**How the proof is laid out.**
- One lemma per action proves `Ext'`.
- `ClientStepExt` handles the steps of a client `c`. It reduces such a step
  to `ClientChain(c)'`, with `ChainFrame` for the other clients.
- `SkipExt` covers every early return.
- `EarlyChain` covers the stages before the reply is read.
- `HandleExt` uses `CallMethodReplyShape` and `ErrorEnvelopeShape`.
- `NextDInv` reuses `NextIInv` for the `IInv` part.

**An assumption on the sentinel.** `SocketRpcAssumption` states that the
sentinel `None` is not a handler behaviour. This lets the provers conclude
`handled[Conn(c)] # None`.

### Only model-checked
- Liveness is beyond TLAPS here: `CallsComplete`, `BlockingCallsReturn`,
  and the fairness part of `ImplementsRpcCall`.
- `FailureNamesCause` is checked by TLC on the `core` instance only.
- With truncated replies (`Faults` containing `"Truncate"`), the two
  end-to-end invariants do not hold: the `truncated_error` run shows the
  second failing. So they are proved only without truncation, and nothing
  further is claimed with it.

## 6. Not modelled

- **The real `service.py`.** It is absent from the tree, so `RpcService`
  follows the spec. How the real façade wakes a blocking caller on a
  failed call is unknown. `BlockingCallsReturn` states what it must do.
- **Controller reuse.** `CallMethod` does not reset the controller it is
  given. The façade creates one per call (spec 5), so no run reuses one.
- **Request mutation.** A callback-mode caller can change the request
  between validation and serialization (`channel.py:235`). The model takes
  the request as a value fixed at the call.
- **Registry changes while serving** (`server.py:257`). The spec declares
  this unsupported, and the registry is a constant here.
- **Unbounded worker threads**, messages and logging.
