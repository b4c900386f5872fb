------------------------------ MODULE RpcCall ------------------------------
(***************************************************************************)
(* What one remote call promises its caller, whatever the transport and   *)
(* the server do (spec sections 3 and 4.2): a call starts with a fresh     *)
(* Status, may fail once with some reason, and returns either Delivered,   *)
(* having run the completion callback with a response while not failed,    *)
(* or Failed, without running it.  Nothing about sockets, envelopes or     *)
(* the stages in between.                                                  *)
(***************************************************************************)
EXTENDS RpcWire

CONSTANT Clients

VARIABLES
    phase,    \* per client: "idle" (no call running) or "running"
    status,   \* per client: the call's Status, [failed, reason]
    result    \* per client: what the completion callback received, or None

avars == <<phase, status, result>>

Statuses == [failed : BOOLEAN, reason : ErrorReasons \cup {None}]

ATypeOK ==
    /\ phase \in [Clients -> {"idle", "running"}]
    /\ status \in [Clients -> Statuses]
    /\ result \in [Clients -> PayloadValues \cup {None}]

AInit ==
    /\ phase = [c \in Clients |-> "idle"]
    /\ status = [c \in Clients |-> [failed |-> FALSE, reason |-> None]]
    /\ result = [c \in Clients |-> None]

(* A call starts with a fresh Status and nothing delivered.                *)
Start(c) ==
    /\ phase[c] = "idle"
    /\ phase' = [phase EXCEPT ![c] = "running"]
    /\ status' = [status EXCEPT ![c] = [failed |-> FALSE, reason |-> None]]
    /\ result' = [result EXCEPT ![c] = None]

(* The first failure of a running call: it is never overwritten.           *)
FailCall(c) ==
    /\ phase[c] = "running"
    /\ ~status[c].failed
    /\ \E r \in ErrorReasons :
          status' = [status EXCEPT ![c] = [failed |-> TRUE, reason |-> r]]
    /\ UNCHANGED <<phase, result>>

(* Delivered: a call that has not failed runs its callback and returns.    *)
Deliver(c) ==
    /\ phase[c] = "running"
    /\ ~status[c].failed
    /\ \E v \in PayloadValues : result' = [result EXCEPT ![c] = v]
    /\ phase' = [phase EXCEPT ![c] = "idle"]
    /\ UNCHANGED status

(* Failed: a failed call returns without running its callback.             *)
Return(c) ==
    /\ phase[c] = "running"
    /\ status[c].failed
    /\ phase' = [phase EXCEPT ![c] = "idle"]
    /\ UNCHANGED <<status, result>>

Complete(c) == FailCall(c) \/ Deliver(c) \/ Return(c)

ANext == \E c \in Clients : Start(c) \/ Complete(c)

(* The safety part, which TLAPS can reason about.                          *)
SafeSpec == AInit /\ [][ANext]_avars

(* A running call does not stay running forever.                           *)
ASpec == SafeSpec /\ \A c \in Clients : WF_avars(Complete(c))
=============================================================================
