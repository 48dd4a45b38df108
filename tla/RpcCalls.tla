------------------------------ MODULE RpcCalls ------------------------------
(***************************************************************************)
(* What the gRPC library keeps between ORpcStreamClient and                *)
(* ORpcServiceHandle: the streaming calls, one for each Open of the client,*)
(* and the messages on their way.                                          *)
(***************************************************************************)
EXTENDS Naturals, FiniteSets

CONSTANTS MaxOpens, MaxWrites      \* bound the calls and the writes on each

ASSUME CallsAssumption == MaxOpens \in Nat /\ MaxWrites \in Nat

Sessions == 1 .. MaxOpens

VARIABLES
  call,        \* "none", "calling", "open" (a channel has it) or "ended"
  requests,    \* messages on their way to the server
  responses    \* and to the client

callVars == <<call, requests, responses>>

CallsInit ==
  /\ call = [s \in Sessions |-> "none"]
  /\ requests = [s \in Sessions |-> 0]
  /\ responses = [s \in Sessions |-> 0]

Place(s, from, to) == call[s] = from /\ call' = [call EXCEPT ![s] = to]

(* The network, or the other side, ends a call.                            *)
Break(s) ==
  /\ call[s] \in {"calling", "open"}
  /\ Place(s, call[s], "ended")
  /\ UNCHANGED <<requests, responses>>

CallsTypeOK ==
  /\ call \in [Sessions -> {"none", "calling", "open", "ended"}]
  /\ requests \in [Sessions -> 0 .. MaxWrites]
  /\ responses \in [Sessions -> 0 .. MaxWrites]
=============================================================================
