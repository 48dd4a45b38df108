---------------------------- MODULE HttpService ----------------------------
(***************************************************************************)
(* What one HTTP listener promises its clients, whatever threads and       *)
(* queues it is made of: a request it accepts is settled exactly once, by  *)
(* an answer, or, only once the service is being shut down, by dropping    *)
(* it; and a service that has been shut down holds no request any more.    *)
(***************************************************************************)
CONSTANTS
  Requests,   \* what clients may send
  Answers     \* what a client may be told

VARIABLES
  phase,    \* "open", "closing" (shutdown requested) or "closed"
  status    \* the life of each request

avars == <<phase, status>>

Accepted == {r \in Requests : status[r] = "accepted"}

AInit ==
  /\ phase = "open"
  /\ status = [r \in Requests |-> "new"]

(* A request arrives; it may still arrive while the service shuts down.    *)
Accept(r) ==
  /\ phase # "closed"
  /\ status[r] = "new"
  /\ status' = [status EXCEPT ![r] = "accepted"]
  /\ UNCHANGED phase

Answer(r, a) ==
  /\ status[r] = "accepted"
  /\ status' = [status EXCEPT ![r] = a]
  /\ UNCHANGED phase

Close ==
  /\ phase = "open"
  /\ phase' = "closing"
  /\ UNCHANGED status

(* Shutting down gives up on requests nobody has started to serve.         *)
Drop(R) ==
  /\ phase = "closing"
  /\ status' = [r \in Requests |-> IF r \in R THEN "dropped" ELSE status[r]]
  /\ UNCHANGED phase

Closed ==
  /\ phase = "closing"
  /\ Accepted = {}
  /\ phase' = "closed"
  /\ UNCHANGED status

ANext ==
  \/ \E r \in Requests : Accept(r)
  \/ \E r \in Requests, a \in Answers : Answer(r, a)
  \/ \E R \in SUBSET Accepted : Drop(R)
  \/ Close
  \/ Closed

ASpec == AInit /\ [][ANext]_avars

(* Every accepted request is settled, and a shutdown completes.            *)
Settled == \A r \in Requests :
  (status[r] = "accepted") ~> (status[r] \in Answers \cup {"dropped"})

ShutdownCompletes == (phase = "closing") ~> (phase = "closed")
=============================================================================
