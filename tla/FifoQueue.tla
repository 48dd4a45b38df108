----------------------------- MODULE FifoQueue -----------------------------
(***************************************************************************)
(* What a queue of many producers and consumers promises: every element is *)
(* received once, and the n-th request receives the n-th element pushed.   *)
(* A queue that was once overrun, that is, used by more than it has room   *)
(* for, keeps the first promise and not the second.  Elements are named by *)
(* the order in which they were pushed.                                    *)
(***************************************************************************)
EXTENDS Naturals

CONSTANT Consumers

VARIABLES
  pushed,       \* how many elements were pushed
  requests,     \* how many elements were asked for
  request,      \* the number of each consumer's request, 0 for none
  received,     \* pairs of a request and the element it received
  overrun

qvars == <<pushed, requests, request, received, overrun>>

Unreceived == (1 .. pushed) \ {r[2] : r \in received}

QInit ==
  /\ pushed = 0 /\ requests = 0
  /\ request = [c \in Consumers |-> 0]
  /\ received = {}
  /\ overrun = FALSE

Enqueue ==
  /\ pushed' = pushed + 1
  /\ overrun' \in {overrun, TRUE}
  /\ UNCHANGED <<requests, request, received>>

Request(c) ==
  /\ request[c] = 0
  /\ requests' = requests + 1
  /\ request' = [request EXCEPT ![c] = requests + 1]
  /\ overrun' \in {overrun, TRUE}
  /\ UNCHANGED <<pushed, received>>

Receive(c) ==
  /\ request[c] # 0
  /\ \E n \in Unreceived : /\ overrun \/ n = request[c]
                           /\ received' = received \cup {<<request[c], n>>}
  /\ request' = [request EXCEPT ![c] = 0]
  /\ UNCHANGED <<pushed, requests, overrun>>

QNext == Enqueue \/ \E c \in Consumers : Request(c) \/ Receive(c)

QSpec == QInit /\ [][QNext]_qvars
=============================================================================
