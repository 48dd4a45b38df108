---------------------------- MODULE AtomicQueue ----------------------------
(***************************************************************************)
(* AtomicQueueB2 of common/atomic_queue.h, the queue under the log: push   *)
(* and pop draw a ticket from the counters head_ and tail_ and then wait   *)
(* for the state of the slot the ticket leads to.  A slot does not know    *)
(* its ticket: once tickets lap each other any of them may win the slot.   *)
(* PushBack of FmsLog tests was_size first.                                *)
(***************************************************************************)
EXTENDS Integers, FiniteSets

CONSTANTS
  Producers, Consumers,
  Requested,      \* the constructor's size
  ShuffleBits,    \* SHUFFLE_BITS
  Width,          \* the counters are unsigned numbers of this many bits
  Limit,          \* QUEUE_MAX_SIZE of the log
  Start,          \* tickets drawn, and served, before
  MaxPushes,      \* bounds the pushes
  MaxPops         \* bounds the pops

-----------------------------------------------------------------------------
(* The slots                                                               *)

RoundUpToPowerOf2(n) ==
  CHOOSE p \in {2^k : k \in 0 .. Width} : p >= n /\ (p = 1 \/ p \div 2 < n)

Size ==
  LET least == 2^(2 * ShuffleBits)
      power == RoundUpToPowerOf2(Requested)
  IN  IF power < least THEN least ELSE power

Slots == 0 .. Size - 1
Tickets == 0 .. 2^Width - 1

ASSUME QueueAssumption ==
  /\ Requested \in Nat \ {0} /\ ShuffleBits \in Nat /\ Width \in Nat
  /\ Requested <= 2^(Width - 1) /\ 2 * ShuffleBits < Width
  /\ Limit \in Nat \ {0} /\ Start \in Tickets
  /\ IsFiniteSet(Producers) /\ Producers \cap Consumers = {}

(* What it means to double: the prover takes it from here.                 *)
ASSUME PowerAssumption == \A k \in 0 .. Width - 1 : 2^(k + 1) = 2 * 2^k

(* Mutant: the low bits are overwritten instead of exchanged.              *)
RemapLoses(i) ==
  LET line == 2^ShuffleBits
      low == i % line
      mid == (i \div line) % line
  IN  i - low + mid

(* The low ShuffleBits bits change places with the next ones.              *)
RemapIndex(i) ==
  LET line == 2^ShuffleBits
      low == i % line
      mid == (i \div line) % line
  IN  i - low - mid * line + low * line + mid

SlotOf(ticket) == RemapIndex(ticket % Size)

-----------------------------------------------------------------------------
VARIABLES
  head, tail,      \* head_ and tail_
  state, element,  \* states_ and elements_
  at, ticket,      \* where each thread is in push or pop, and its ticket
  sample,          \* the head was_size read for PushBack
  pushed, popped,  \* history: how many tickets were drawn
  turn,            \* history: which of them each thread drew, or saw drawn
  taken,           \* history: pairs of a pop and the element it returned
  overrun,         \* history: tickets have lapped each other
  disciplined      \* history: used as the log does, so far

vars == <<head, tail, state, element, at, ticket, sample,
          pushed, popped, turn, taken, overrun, disciplined>>
history == <<pushed, popped, turn, taken, overrun, disciplined>>

Threads == Producers \cup Consumers

(* Elements are named by the order of their tickets; 0 is a slot's own.    *)
Init ==
  /\ head = Start /\ tail = Start
  /\ state = [s \in Slots |-> "EMPTY"]
  /\ element = [s \in Slots |-> 0]
  /\ at = [t \in Threads |-> "idle"]
  /\ ticket = [t \in Threads |-> 0]
  /\ sample = [p \in Producers |-> 0]
  /\ pushed = 0 /\ popped = 0
  /\ turn = [t \in Threads |-> 0]
  /\ taken = {}
  /\ overrun = FALSE /\ disciplined = TRUE

Go(t, from, to) == at[t] = from /\ at' = [at EXCEPT ![t] = to]

(* Another push (or pop) still waits for the slot the n-th one leads to.   *)
Laps(n, T) == \E t \in T : at[t] = "ticket" /\ n - turn[t] >= Size

-----------------------------------------------------------------------------
(* push                                                                    *)

(* was_size reads head_ and then tail_; their difference, as an int, is    *)
(* never less than 0.                                                      *)
ReadHead(p) ==
  /\ pushed < MaxPushes
  /\ Go(p, "idle", "size")
  /\ sample' = [sample EXCEPT ![p] = head]
  /\ turn' = [turn EXCEPT ![p] = pushed]
  /\ UNCHANGED <<head, tail, state, element, ticket,
                 pushed, popped, taken, overrun, disciplined>>

WasSize(h) ==
  LET d == (h - tail) % 2^Width IN IF d < 2^(Width - 1) THEN d ELSE 0

(* PushBack refuses the line ...                                           *)
Refuse(p) ==
  /\ WasSize(sample[p]) >= Limit - 1
  /\ Go(p, "size", "idle")
  /\ UNCHANGED <<head, tail, state, element, ticket, sample, history>>

(* Mutant: the limit is tested as if it left no slot free.                 *)
AdmitOneMore(p) ==
  /\ WasSize(sample[p]) < Limit
  /\ Go(p, "size", "admitted")
  /\ UNCHANGED <<head, tail, state, element, ticket, sample, history>>

(* ... or pushes it.                                                       *)
Admit(p) ==
  /\ WasSize(sample[p]) < Limit - 1
  /\ Go(p, "size", "admitted")
  /\ UNCHANGED <<head, tail, state, element, ticket, sample, history>>

DrawHead(p) ==
  /\ head' = (head + 1) % 2^Width
  /\ ticket' = [ticket EXCEPT ![p] = head]
  /\ pushed' = pushed + 1
  /\ turn' = [turn EXCEPT ![p] = pushed + 1]
  /\ overrun' = (overrun \/ Laps(pushed + 1, Producers))
  /\ UNCHANGED <<tail, state, element, sample, popped, taken>>

PushAdmitted(p) ==
  /\ Go(p, "admitted", "ticket")
  /\ DrawHead(p)
  /\ UNCHANGED disciplined

(* A push without a look at the size, which the class allows.              *)
Push(p) ==
  /\ pushed < MaxPushes
  /\ Go(p, "idle", "ticket")
  /\ DrawHead(p)
  /\ disciplined' = FALSE

(* compare_exchange of EMPTY by STORING; until then push spins.            *)
Storing(p) ==
  /\ Go(p, "ticket", "slot")
  /\ state[SlotOf(ticket[p])] = "EMPTY"
  /\ state' = [state EXCEPT ![SlotOf(ticket[p])] = "STORING"]
  /\ UNCHANGED <<head, tail, element, ticket, sample, history>>

(* Mutant: the slot is not handed over.                                    *)
StoredForgotten(p) ==
  /\ Go(p, "slot", "idle")
  /\ element' = [element EXCEPT ![SlotOf(ticket[p])] = turn[p]]
  /\ UNCHANGED <<head, tail, state, ticket, sample, history>>

Stored(p) ==
  /\ Go(p, "slot", "idle")
  /\ element' = [element EXCEPT ![SlotOf(ticket[p])] = turn[p]]
  /\ state' = [state EXCEPT ![SlotOf(ticket[p])] = "STORED"]
  /\ UNCHANGED <<head, tail, ticket, sample, history>>

-----------------------------------------------------------------------------
(* pop                                                                     *)

Pop(c) ==
  /\ popped < MaxPops
  /\ Go(c, "idle", "ticket")
  /\ tail' = (tail + 1) % 2^Width
  /\ ticket' = [ticket EXCEPT ![c] = tail]
  /\ popped' = popped + 1
  /\ turn' = [turn EXCEPT ![c] = popped + 1]
  /\ overrun' = (overrun \/ Laps(popped + 1, Consumers))
  /\ disciplined' = (/\ disciplined /\ popped < pushed
                     /\ \A d \in Consumers : at[d] = "idle")
  /\ UNCHANGED <<head, state, element, sample, pushed, taken>>

(* Mutant: the slot is free before its element was moved out.              *)
LoadingEmpties(c) ==
  /\ Go(c, "ticket", "slot")
  /\ state[SlotOf(ticket[c])] = "STORED"
  /\ state' = [state EXCEPT ![SlotOf(ticket[c])] = "EMPTY"]
  /\ UNCHANGED <<head, tail, element, ticket, sample, history>>

(* compare_exchange of STORED by LOADING; until then pop spins.            *)
Loading(c) ==
  /\ Go(c, "ticket", "slot")
  /\ state[SlotOf(ticket[c])] = "STORED"
  /\ state' = [state EXCEPT ![SlotOf(ticket[c])] = "LOADING"]
  /\ UNCHANGED <<head, tail, element, ticket, sample, history>>

(* The element is moved out, and the slot is empty.                        *)
Loaded(c) ==
  /\ Go(c, "slot", "idle")
  /\ taken' = taken \cup {<<turn[c], element[SlotOf(ticket[c])]>>}
  /\ element' = [element EXCEPT ![SlotOf(ticket[c])] = 0]
  /\ state' = [state EXCEPT ![SlotOf(ticket[c])] = "EMPTY"]
  /\ UNCHANGED <<head, tail, ticket, sample,
                 pushed, popped, turn, overrun, disciplined>>

-----------------------------------------------------------------------------
ProducerNext(p) ==
  \/ ReadHead(p) \/ Refuse(p) \/ Admit(p) \/ PushAdmitted(p) \/ Push(p)
  \/ Storing(p) \/ Stored(p)
ConsumerNext(c) == Pop(c) \/ Loading(c) \/ Loaded(c)

Next ==
  \/ \E p \in Producers : ProducerNext(p)
  \/ \E c \in Consumers : ConsumerNext(c)

SafetySpec == Init /\ [][Next]_vars

(* A thread that has begun goes on.  Weak fairness is all there is: a      *)
(* thread whose rivals keep winning the slot may spin for ever.            *)
Fairness ==
  /\ \A p \in Producers : WF_vars(Storing(p)) /\ WF_vars(Stored(p))
  /\ \A c \in Consumers : WF_vars(Loading(c)) /\ WF_vars(Loaded(c))

Spec == SafetySpec /\ Fairness

-----------------------------------------------------------------------------
(* Every variable has its type; the histories agree with the counters,     *)
(* which wrap around.                                                      *)
TypeOK ==
  /\ head \in Tickets /\ tail \in Tickets
  /\ state \in [Slots -> {"EMPTY", "STORING", "STORED", "LOADING"}]
  /\ element \in [Slots -> 0 .. pushed]
  /\ at \in [Threads -> {"idle", "size", "admitted", "ticket", "slot"}]
  /\ ticket \in [Threads -> Tickets] /\ sample \in [Producers -> Tickets]
  /\ pushed \in Nat /\ popped \in Nat
  /\ turn \in [Threads -> Nat]
  /\ taken \subseteq (1 .. popped) \X (1 .. pushed)
  /\ overrun \in BOOLEAN /\ disciplined \in BOOLEAN
  /\ head = (Start + pushed) % 2^Width
  /\ tail = (Start + popped) % 2^Width

(* The element of a slot is a plain object: only a thread that won the     *)
(* state of the slot touches it, and no two threads win it at once, not    *)
(* even when tickets lap each other.                                       *)
SlotsGuarded ==
  /\ \A p \in Producers : at[p] = "slot" => state[SlotOf(ticket[p])] = "STORING"
  /\ \A c \in Consumers : at[c] = "slot" => state[SlotOf(ticket[c])] = "LOADING"
  /\ \A t, u \in Threads : (at[t] = "slot" /\ at[u] = "slot" /\ t # u)
                             => SlotOf(ticket[t]) # SlotOf(ticket[u])

(* What the log relies on: as long as pushes test was_size first and one   *)
(* thread pops what is there, and the limit leaves a slot for all but one  *)
(* producer, tickets never lap and a push finds its slot empty at once,    *)
(* however old the head was that was_size read.                            *)
LogPushNeverSpins ==
  (disciplined /\ Limit + Cardinality(Producers) <= Size + 1) =>
    /\ ~overrun
    /\ \A p \in Producers : at[p] = "ticket" => state[SlotOf(ticket[p])] = "EMPTY"

(* The log may push and pop without a lock: slots are guarded, and within  *)
(* its limit no push ever waits.                                           *)
QueueSound == TypeOK /\ SlotsGuarded /\ LogPushNeverSpins

Fifo == INSTANCE FifoQueue WITH
  received <- taken, requests <- popped,
  request <- [c \in Consumers |-> IF at[c] = "idle" THEN 0 ELSE turn[c]]

(* The slots with their states implement a queue that loses and repeats    *)
(* nothing and keeps the order of the tickets until it is overrun.         *)
ImplementsFifo == Fifo!QSpec

(* A pop whose element has been pushed ends, unless the queue is overrun.  *)
PopsEnd == \A c \in Consumers :
  (at[c] = "ticket" /\ turn[c] <= pushed) ~> (at[c] = "idle" \/ overrun)
=============================================================================
