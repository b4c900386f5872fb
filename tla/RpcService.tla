----------------------------- MODULE RpcService -----------------------------
(***************************************************************************)
(* The calling facade (service.py: RpcService, RpcThread; spec 4.4 and 5). *)
(* service.py is not in the tree, so this module follows the spec.         *)
(*                                                                         *)
(* Each call of a caller runs the client lifecycle on a background task of *)
(* its own.  The lifecycle is represented by RpcCall, the one-call         *)
(* specification that SocketRpc is proved to refine, with one instance of  *)
(* it per task <<caller, n>>.  In callback mode the facade returns at once *)
(* and the user's callback is RpcCall's result.  In blocking mode the      *)
(* caller waits on the task's completion handle, with or without a         *)
(* timeout.  A timeout releases only the caller: the task runs on, and the *)
(* caller may retry while the late task is still running.                  *)
(***************************************************************************)
EXTENDS RpcWire, Naturals

CONSTANTS
    Callers,     \* threads of the program calling the facade
    MaxCalls     \* bound on the calls each caller makes

(* The background tasks: the n-th call of a caller runs on <<caller, n>>.  *)
Tasks == Callers \X (1..MaxCalls)

VARIABLES
    phase, status, result,  \* per task: the lifecycle, as RpcCall sees it
    ncalls,      \* per caller: calls made so far
    mode,        \* per task: "none" (not started), "callback", "blocking", "timed"
    waitingOn,   \* per caller: the task it blocks on, or None
    outcome      \* per task: what the blocking call returned or raised, or None

Call == INSTANCE RpcCall WITH Clients <- Tasks

svcVars == <<ncalls, mode, waitingOn, outcome>>
vars == <<phase, status, result, svcVars>>

Modes == {"callback", "blocking", "timed"}

(* What a blocking call gives its caller: the response, an error carrying  *)
(* the Status message, or the timeout error (spec 4.4).                    *)
Outcomes == PayloadValues \cup {"RpcFailed", "Timeout"}

(* None, the empty completion handle, is none of the outcomes.             *)
ASSUME ServiceAssumption == MaxCalls \in Nat \ {0} /\ None \notin Outcomes

TypeOK ==
    /\ Call!ATypeOK
    /\ ncalls \in [Callers -> 0..MaxCalls]
    /\ mode \in [Tasks -> Modes \cup {"none"}]
    /\ waitingOn \in [Callers -> Tasks \cup {None}]
    /\ outcome \in [Tasks -> Outcomes \cup {None}]

Init ==
    /\ Call!AInit
    /\ ncalls = [c \in Callers |-> 0]
    /\ mode = [t \in Tasks |-> "none"]
    /\ waitingOn = [c \in Callers |-> None]
    /\ outcome = [t \in Tasks |-> None]

(* The task has run the lifecycle to its end (Delivered or Failed).        *)
Finished(t) == mode[t] # "none" /\ phase[t] = "idle"

(* RpcService.call: a new controller, an RpcThread started on the          *)
(* lifecycle; in callback mode the call returns at once, in blocking mode  *)
(* the caller starts waiting on the task's completion handle.              *)
Invoke(c, m) ==
    /\ waitingOn[c] = None
    /\ ncalls[c] < MaxCalls
    /\ LET t == <<c, ncalls[c] + 1>> IN
         /\ Call!Start(t)
         /\ mode' = [mode EXCEPT ![t] = m]
         /\ waitingOn' = [waitingOn EXCEPT ![c] = IF m = "callback" THEN None ELSE t]
    /\ ncalls' = [ncalls EXCEPT ![c] = @ + 1]
    /\ UNCHANGED outcome

(* RpcThread.run: one step of the task's lifecycle, whoever waits for it.  *)
TaskStep(t) ==
    /\ Call!Complete(t)
    /\ UNCHANGED svcVars

(* Mutant: the wait is released only by the completion callback, which    *)
(* the lifecycle never runs on Failed.                                     *)
WakeOnDeliveryOnly(c) ==
    /\ waitingOn[c] # None
    /\ LET t == waitingOn[c] IN
         /\ Finished(t)
         /\ ~status[t].failed
         /\ outcome' = [outcome EXCEPT ![t] = result[t]]
    /\ waitingOn' = [waitingOn EXCEPT ![c] = None]
    /\ UNCHANGED <<phase, status, result, ncalls, mode>>

(* The wait ends because the task finished: the caller gets the response   *)
(* on Delivered and raises the Status message on Failed.                   *)
Wake(c) ==
    /\ waitingOn[c] # None
    /\ LET t == waitingOn[c] IN
         /\ Finished(t)
         /\ outcome' = [outcome EXCEPT ![t] =
                          IF status[t].failed THEN "RpcFailed" ELSE result[t]]
    /\ waitingOn' = [waitingOn EXCEPT ![c] = None]
    /\ UNCHANGED <<phase, status, result, ncalls, mode>>

(* The bounded wait expires before the task finished: the caller raises    *)
(* the timeout error; the task is not cancelled.                           *)
Timeout(c) ==
    /\ waitingOn[c] # None
    /\ LET t == waitingOn[c] IN
         /\ mode[t] = "timed"
         /\ ~Finished(t)
         /\ outcome' = [outcome EXCEPT ![t] = "Timeout"]
    /\ waitingOn' = [waitingOn EXCEPT ![c] = None]
    /\ UNCHANGED <<phase, status, result, ncalls, mode>>

(* Every caller has made its calls, returned, and every task has finished. *)
Done ==
    /\ \A c \in Callers : ncalls[c] = MaxCalls /\ waitingOn[c] = None
    /\ \A t \in Tasks : Finished(t)
    /\ UNCHANGED vars

Next ==
    \/ \E c \in Callers, m \in Modes : Invoke(c, m)
    \/ \E t \in Tasks : TaskStep(t)
    \/ \E c \in Callers : Wake(c) \/ Timeout(c)
    \/ Done

(* Tasks are threads that run while they can, and a waiting caller is      *)
(* woken, by the handle or by the clock; making a call is the program's    *)
(* choice and is not fair.                                                 *)
Spec ==
    /\ Init /\ [][Next]_vars
    /\ \A t \in Tasks : WF_vars(TaskStep(t))
    /\ \A c \in Callers : WF_vars(Wake(c)) /\ WF_vars(Timeout(c))
-----------------------------------------------------------------------------
(* A blocking caller, timed or not, always returns: on Delivered, on       *)
(* Failed, or when its timeout expires (spec 4.4).                         *)
BlockingCallsReturn ==
    \A c \in Callers : waitingOn[c] # None ~> waitingOn[c] = None
=============================================================================
