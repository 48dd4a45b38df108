------------------------------ MODULE OEvent -------------------------------
(***************************************************************************)
(* OEvent of common/OEvent.h and OEvent.cpp, POSIX build: a flag guarded   *)
(* by a mutex and a condition variable.  Every step is one critical        *)
(* section of m_mutex; any thread may call Set and Reset at any time.      *)
(***************************************************************************)
CONSTANT Threads       \* the threads that wait

VARIABLES
  m_manual,    \* the constructor's bManualReset
  m_state,
  wait,        \* where each thread is in WaitImpl
  timed        \* the thread is in WaitImpl(milliseconds)

vars == <<m_manual, m_state, wait, timed>>

(* "sleep": blocked in the condition wait; "woken": unblocked, about to    *)
(* take the mutex; "true" and "false": what WaitImpl returns.              *)
WaitStates == {"out", "sleep", "woken", "true", "false"}

Init ==
  /\ m_manual \in BOOLEAN
  /\ m_state = FALSE
  /\ wait = [t \in Threads |-> "out"]
  /\ timed = [t \in Threads |-> FALSE]

(* Mutant: pthread_cond_signal in place of pthread_cond_broadcast.         *)
SetSignalsOne ==
  /\ m_state' = TRUE
  /\ IF \E t \in Threads : wait[t] = "sleep"
     THEN \E t \in Threads : wait[t] = "sleep" /\ wait' = [wait EXCEPT ![t] = "woken"]
     ELSE UNCHANGED wait
  /\ UNCHANGED <<m_manual, timed>>

SetImpl ==
  /\ m_state' = TRUE
  /\ wait' = [t \in Threads |-> IF wait[t] = "sleep" THEN "woken" ELSE wait[t]]
  /\ UNCHANGED <<m_manual, timed>>

ResetImpl ==
  /\ m_state' = FALSE
  /\ UNCHANGED <<m_manual, wait, timed>>

(* WaitImpl finds m_state set: it clears it if m_manual, and returns true. *)
TakeSignal(t) ==
  /\ m_state
  /\ m_state' = ~m_manual
  /\ wait' = [wait EXCEPT ![t] = "true"]

Sleep(t) ==
  /\ ~m_state
  /\ wait' = [wait EXCEPT ![t] = "sleep"]
  /\ UNCHANGED m_state

WaitImpl(t) ==
  /\ wait[t] = "out"
  /\ \E b \in BOOLEAN : timed' = [timed EXCEPT ![t] = b]
  /\ TakeSignal(t) \/ Sleep(t)
  /\ UNCHANGED m_manual

(* Mutant: the condition is not tested again (if in place of while).       *)
WakeUnchecked(t) ==
  /\ wait[t] = "woken"
  /\ m_state' = (m_state /\ ~m_manual)
  /\ wait' = [wait EXCEPT ![t] = "true"]
  /\ UNCHANGED <<m_manual, timed>>

(* The condition wait returned 0: the loop tests m_state again.            *)
Wake(t) ==
  /\ wait[t] = "woken"
  /\ TakeSignal(t) \/ Sleep(t)
  /\ UNCHANGED <<m_manual, timed>>

(* The condition wait may return without a broadcast.                      *)
SpuriousWakeup(t) ==
  /\ wait[t] = "sleep"
  /\ wait' = [wait EXCEPT ![t] = "woken"]
  /\ UNCHANGED <<m_manual, m_state, timed>>

(* ETIMEDOUT: false is returned without a look at m_state.                 *)
TimeOut(t) ==
  /\ wait[t] = "sleep" /\ timed[t]
  /\ wait' = [wait EXCEPT ![t] = "false"]
  /\ UNCHANGED <<m_manual, m_state, timed>>

Return(t) ==
  /\ wait[t] \in {"true", "false"}
  /\ wait' = [wait EXCEPT ![t] = "out"]
  /\ UNCHANGED <<m_manual, m_state, timed>>

Next ==
  \/ SetImpl \/ ResetImpl
  \/ \E t \in Threads : \/ WaitImpl(t) \/ Wake(t) \/ SpuriousWakeup(t)
                        \/ TimeOut(t) \/ Return(t)

(* A thread that was unblocked eventually gets the mutex.                  *)
SafetySpec == Init /\ [][Next]_vars
Spec == SafetySpec /\ \A t \in Threads : WF_vars(Wake(t))

-----------------------------------------------------------------------------
(* Every variable has its type, and only a timed wait returns false.       *)
TypeOK ==
  /\ m_manual \in BOOLEAN /\ m_state \in BOOLEAN
  /\ wait \in [Threads -> WaitStates] /\ timed \in [Threads -> BOOLEAN]
  /\ \A t \in Threads : wait[t] = "false" => timed[t]

(* No lost wakeup: no thread stays blocked in the condition wait while the *)
(* event is signalled, whatever order Set, Reset, timeouts and spurious    *)
(* wakeups come in.                                                        *)
NoSleeperWhileSet == \A t \in Threads : wait[t] = "sleep" => ~m_state

Waiter(t) == CASE wait[t] \in {"sleep", "woken"} -> "waiting"
               [] wait[t] = "true"  -> "released"
               [] wait[t] = "false" -> "expired"
               [] OTHER -> "out"

Documented == INSTANCE Event WITH
  manualReset <- m_manual, signalled <- m_state,
  waiter <- [t \in Threads |-> Waiter(t)]

Inverted == INSTANCE Event WITH
  manualReset <- ~m_manual, signalled <- m_state,
  waiter <- [t \in Threads |-> Waiter(t)]

(* The comments of OEvent.h: true means manual reset, false automatic.     *)
ImplementsDocumented == Documented!ESpec

(* What the POSIX code does: an event constructed with true resets itself, *)
(* releasing one thread per signal, one constructed with false keeps its   *)
(* signal until Reset; a thread that times out takes no signal.            *)
ImplementsInverted == Inverted!ESpec

(* A signal that nobody takes back or consumes reaches every waiter.       *)
WaitersReached == Inverted!Reached
=============================================================================
