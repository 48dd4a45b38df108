---------------------------- MODULE OEventProofs ----------------------------
(***************************************************************************)
(* Proofs about OEvent, for any set of waiting threads.                    *)
(***************************************************************************)
EXTENDS OEvent, TLAPS

LEMMA TypeInv == SafetySpec => []TypeOK
<1>1. Init => TypeOK
  BY DEF Init, TypeOK, WaitStates
<1>2. TypeOK /\ [Next]_vars => TypeOK'
  <2> SUFFICES ASSUME TypeOK, [Next]_vars PROVE TypeOK'
    OBVIOUS
  <2> USE DEF TypeOK, WaitStates
  <2>1. CASE SetImpl BY <2>1 DEF SetImpl
  <2>2. CASE ResetImpl BY <2>2 DEF ResetImpl
  <2>3. ASSUME NEW t \in Threads, WaitImpl(t) PROVE TypeOK'
    BY <2>3 DEF WaitImpl, TakeSignal, Sleep
  <2>4. ASSUME NEW t \in Threads, Wake(t) PROVE TypeOK'
    BY <2>4 DEF Wake, TakeSignal, Sleep
  <2>5. ASSUME NEW t \in Threads, SpuriousWakeup(t) PROVE TypeOK'
    BY <2>5 DEF SpuriousWakeup
  <2>6. ASSUME NEW t \in Threads, TimeOut(t) PROVE TypeOK'
    BY <2>6 DEF TimeOut
  <2>7. ASSUME NEW t \in Threads, Return(t) PROVE TypeOK'
    BY <2>7 DEF Return
  <2>8. CASE UNCHANGED vars BY <2>8 DEF vars
  <2> QED
    BY <2>1, <2>2, <2>3, <2>4, <2>5, <2>6, <2>7, <2>8 DEF Next
<1> QED
  BY <1>1, <1>2, PTL DEF SafetySpec

(* No thread stays blocked while the event is signalled.                   *)
THEOREM NoLostWakeup == SafetySpec => []NoSleeperWhileSet
<1>1. Init => NoSleeperWhileSet
  BY DEF Init, NoSleeperWhileSet
<1>2. TypeOK /\ NoSleeperWhileSet /\ [Next]_vars => NoSleeperWhileSet'
  <2> SUFFICES ASSUME TypeOK, NoSleeperWhileSet, [Next]_vars PROVE NoSleeperWhileSet'
    OBVIOUS
  <2> USE DEF TypeOK, NoSleeperWhileSet
  <2>1. CASE SetImpl BY <2>1 DEF SetImpl
  <2>2. CASE ResetImpl BY <2>2 DEF ResetImpl
  <2>3. ASSUME NEW t \in Threads, WaitImpl(t) PROVE NoSleeperWhileSet'
    BY <2>3 DEF WaitImpl, TakeSignal, Sleep
  <2>4. ASSUME NEW t \in Threads, Wake(t) PROVE NoSleeperWhileSet'
    BY <2>4 DEF Wake, TakeSignal, Sleep
  <2>5. ASSUME NEW t \in Threads, SpuriousWakeup(t) PROVE NoSleeperWhileSet'
    BY <2>5 DEF SpuriousWakeup
  <2>6. ASSUME NEW t \in Threads, TimeOut(t) PROVE NoSleeperWhileSet'
    BY <2>6 DEF TimeOut
  <2>7. ASSUME NEW t \in Threads, Return(t) PROVE NoSleeperWhileSet'
    BY <2>7 DEF Return
  <2>8. CASE UNCHANGED vars BY <2>8 DEF vars
  <2> QED
    BY <2>1, <2>2, <2>3, <2>4, <2>5, <2>6, <2>7, <2>8 DEF Next
<1> QED
  BY <1>1, <1>2, TypeInv, PTL DEF SafetySpec

(* The POSIX event implements the documented one with the meaning of the   *)
(* constructor's argument exchanged.                                       *)
THEOREM Refinement == SafetySpec => ImplementsInverted
<1> DEFINE W == [t \in Threads |-> Waiter(t)]
<1>1. Init => Inverted!EInit
  <2> SUFFICES ASSUME Init PROVE Inverted!EInit
    OBVIOUS
  <2>1. W = [t \in Threads |-> "out"]
    BY DEF Init, Waiter
  <2> QED
    BY <2>1 DEF Init, Inverted!EInit
<1>2. TypeOK /\ [Next]_vars => [Inverted!ENext]_(Inverted!evars)
  <2> SUFFICES ASSUME TypeOK, [Next]_vars
               PROVE  Inverted!ENext \/ UNCHANGED Inverted!evars
    OBVIOUS
  <2>0. ASSUME NEW t \in Threads, NEW a, wait' = [wait EXCEPT ![t] = a]
        PROVE  W' = [W EXCEPT ![t] = CASE a \in {"sleep", "woken"} -> "waiting"
                                       [] a = "true"  -> "released"
                                       [] a = "false" -> "expired"
                                       [] OTHER -> "out"]
    BY <2>0 DEF Waiter, TypeOK
  <2>1. CASE SetImpl
    <3>1. W' = W
      BY <2>1 DEF SetImpl, Waiter, TypeOK
    <3>2. Inverted!Signal
      BY <2>1, <3>1 DEF SetImpl, Inverted!Signal
    <3> QED
      BY <3>2 DEF Inverted!ENext
  <2>2. CASE ResetImpl
    <3>1. Inverted!Clear
      BY <2>2 DEF ResetImpl, Inverted!Clear, Waiter
    <3> QED
      BY <3>1 DEF Inverted!ENext
  <2>3. ASSUME NEW t \in Threads, WaitImpl(t) PROVE Inverted!ENext
    <3>1. CASE TakeSignal(t)
      <4>1. W' = [W EXCEPT ![t] = "released"] /\ W[t] = "out"
        BY <2>0, <2>3, <3>1 DEF WaitImpl, TakeSignal, Waiter
      <4>2. Inverted!Release(t)
        BY <2>3, <3>1, <4>1 DEF WaitImpl, TakeSignal, Inverted!Release
      <4> QED
        BY <4>2 DEF Inverted!ENext
    <3>2. CASE Sleep(t)
      <4>1. W' = [W EXCEPT ![t] = "waiting"] /\ W[t] = "out"
        BY <2>0, <2>3, <3>2 DEF WaitImpl, Sleep, Waiter
      <4>2. Inverted!Await(t)
        BY <2>3, <3>2, <4>1 DEF WaitImpl, Sleep, Inverted!Await
      <4> QED
        BY <4>2 DEF Inverted!ENext
    <3> QED
      BY <2>3, <3>1, <3>2 DEF WaitImpl
  <2>4. ASSUME NEW t \in Threads, Wake(t)
        PROVE  Inverted!ENext \/ UNCHANGED Inverted!evars
    <3>1. CASE TakeSignal(t)
      <4>1. W' = [W EXCEPT ![t] = "released"] /\ W[t] = "waiting"
        BY <2>0, <2>4, <3>1 DEF Wake, TakeSignal, Waiter
      <4>2. Inverted!Release(t)
        BY <2>4, <3>1, <4>1 DEF Wake, TakeSignal, Inverted!Release
      <4> QED
        BY <4>2 DEF Inverted!ENext
    <3>2. CASE Sleep(t)
      <4>1. W' = [W EXCEPT ![t] = "waiting"] /\ W[t] = "waiting"
        BY <2>0, <2>4, <3>2 DEF Wake, Sleep, Waiter
      <4>2. W' = W
        BY <4>1
      <4> QED
        BY <2>4, <3>2, <4>2 DEF Wake, Sleep, Inverted!evars
    <3> QED
      BY <2>4, <3>1, <3>2 DEF Wake
  <2>5. ASSUME NEW t \in Threads, SpuriousWakeup(t) PROVE UNCHANGED Inverted!evars
    <3>1. W' = [W EXCEPT ![t] = "waiting"] /\ W[t] = "waiting"
      BY <2>0, <2>5 DEF SpuriousWakeup, Waiter
    <3>2. W' = W
      BY <3>1
    <3> QED
      BY <2>5, <3>2 DEF SpuriousWakeup, Inverted!evars
  <2>6. ASSUME NEW t \in Threads, TimeOut(t) PROVE Inverted!ENext
    <3>1. W' = [W EXCEPT ![t] = "expired"] /\ W[t] = "waiting"
      BY <2>0, <2>6 DEF TimeOut, Waiter
    <3>2. Inverted!Expire(t)
      BY <2>6, <3>1 DEF TimeOut, Inverted!Expire
    <3> QED
      BY <3>2 DEF Inverted!ENext
  <2>7. ASSUME NEW t \in Threads, Return(t) PROVE Inverted!ENext
    <3>1. W' = [W EXCEPT ![t] = "out"] /\ W[t] \in {"released", "expired"}
      BY <2>0, <2>7 DEF Return, Waiter
    <3>2. Inverted!Leave(t)
      BY <2>7, <3>1 DEF Return, Inverted!Leave
    <3> QED
      BY <3>2 DEF Inverted!ENext
  <2>8. CASE UNCHANGED vars
    BY <2>8 DEF vars, Inverted!evars, Waiter
  <2> QED
    BY <2>1, <2>2, <2>3, <2>4, <2>5, <2>6, <2>7, <2>8 DEF Next
<1> QED
  BY <1>1, <1>2, TypeInv, PTL DEF SafetySpec, ImplementsInverted, Inverted!ESpec
=============================================================================
