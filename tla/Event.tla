------------------------------- MODULE Event -------------------------------
(***************************************************************************)
(* The event object the comments of common/OEvent.h describe: threads wait *)
(* for a signal; an event with manual reset keeps its signal until Reset   *)
(* and releases every waiting thread, one with automatic reset releases    *)
(* one thread per signal.                                                  *)
(***************************************************************************)
CONSTANT Threads

VARIABLES
  manualReset,   \* how the event was constructed
  signalled,
  waiter         \* "out", "waiting", "released" (by a signal) or "expired"

evars == <<manualReset, signalled, waiter>>

EInit ==
  /\ manualReset \in BOOLEAN
  /\ signalled = FALSE
  /\ waiter = [t \in Threads |-> "out"]

Signal ==
  /\ signalled' = TRUE
  /\ UNCHANGED <<manualReset, waiter>>

Clear ==
  /\ signalled' = FALSE
  /\ UNCHANGED <<manualReset, waiter>>

Await(t) ==
  /\ waiter[t] = "out"
  /\ waiter' = [waiter EXCEPT ![t] = "waiting"]
  /\ UNCHANGED <<manualReset, signalled>>

(* A thread that finds the signal need not have waited for it.             *)
Release(t) ==
  /\ waiter[t] \in {"out", "waiting"} /\ signalled
  /\ waiter' = [waiter EXCEPT ![t] = "released"]
  /\ signalled' = manualReset
  /\ UNCHANGED manualReset

(* Giving up takes no signal from anyone.                                  *)
Expire(t) ==
  /\ waiter[t] = "waiting"
  /\ waiter' = [waiter EXCEPT ![t] = "expired"]
  /\ UNCHANGED <<manualReset, signalled>>

Leave(t) ==
  /\ waiter[t] \in {"released", "expired"}
  /\ waiter' = [waiter EXCEPT ![t] = "out"]
  /\ UNCHANGED <<manualReset, signalled>>

ENext ==
  \/ Signal \/ Clear
  \/ \E t \in Threads : Await(t) \/ Release(t) \/ Expire(t) \/ Leave(t)

ESpec == EInit /\ [][ENext]_evars

(* A signal that stays reaches every thread that waits.                    *)
Reached == \A t \in Threads :
  (waiter[t] = "waiting" /\ signalled) ~> (waiter[t] # "waiting" \/ ~signalled)
=============================================================================
