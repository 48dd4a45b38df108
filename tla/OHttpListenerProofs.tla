------------------------ MODULE OHttpListenerProofs ------------------------
(***************************************************************************)
(* Proofs about OHttpListener, for every set of requests, every number of  *)
(* processors, both builds and every load limit: nothing is stranded or    *)
(* used after it is freed; each request has one owner, none is left behind *)
(* by Stop, and the listener implements HttpService.                       *)
(***************************************************************************)
EXTENDS OHttpListener, FiniteSetTheorems, TLAPS

(* The steps of the threads, one name each.                                *)
LEMMA NextCases ==
  ASSUME [Next]_vars
  PROVE  \/ StartBegin \/ StartProcessor \/ StartFails
         \/ StartDispatch \/ StartRecvReset \/ StartRecvCreate
         \/ StopBegin \/ StopLoop \/ StopRecv \/ StopClear
         \/ StopProcessor \/ StopProcessorSet \/ DeleteProcessor \/ StopEnd
         \/ ProtectTop \/ ProtectMeasure \/ ProtectReset
         \/ DispatchTop \/ DispatchEnter \/ SetRecvEvent \/ LoopReturn
         \/ NetworkEvent \/ (\E r \in Requests : MessageCallback(r))
         \/ RecvTop \/ RecvPopEmpty \/ RecvPop \/ RecvWait \/ RecvReset
         \/ DispatchSkip \/ DispatchFind \/ DispatchClaim \/ DispatchPush
         \/ DispatchSet \/ DispatchRefuse
         \/ (\E p \in Processors :
               \/ ProcTop(p) \/ ProcPopEmpty(p) \/ ProcPop(p) \/ ProcSetIdle(p)
               \/ ProcWait(p) \/ ProcReset(p) \/ ProcSetBusy(p)
               \/ ProcCount(p) \/ ProcServe(p))
         \/ UNCHANGED vars
  BY Zenon DEF Next, StartSteps, StopSteps, ProtectThread, DispatchThread,
         Clients, RecvThread, ProcThread

LEMMA TypeInit == Init => TypeOK
<1> SUFFICES ASSUME Init PROVE TypeOK
  OBVIOUS
<1> USE ProcessorsAssumption, RequestsAssumption DEF Init, Processors
<1>1. CtlOK
  <2>1. ctl = "init" /\ cursor = 1 /\ isRunning = FALSE
    OBVIOUS
  <2>2. 1 \in 1 .. NumProcessors + 1
    OBVIOUS
  <2> QED
    BY <2>1, <2>2, Zenon DEF CtlOK, CtlStates
<1>2. LoadOK     BY DEF LoadOK, ProtectStates
<1>3. DispOK     BY DEF DispOK, DispStates
<1>4. RecvOK     BY DEF RecvOK, RecvStates
<1>5. RecvChanOK
  <2>1. recvQueue = <<>> /\ recvEvent = FALSE
    OBVIOUS
  <2>2. <<>> \in Seq(Requests)
    OBVIOUS
  <2> QED
    BY <2>1, <2>2, Zenon DEF RecvChanOK
<1>6. ProcOK     BY DEF ProcOK, ProcStates
<1>7. ProcChanOK BY DEF ProcChanOK
<1>8. ReqOK      BY DEF ReqOK
<1> QED
  BY <1>1, <1>2, <1>3, <1>4, <1>5, <1>6, <1>7, <1>8 DEF TypeOK

(* Each part of TypeOK reads one group of variables.                       *)
LEMMA Frames ==
  /\ CtlOK /\ UNCHANGED ctlVars => CtlOK'
  /\ LoadOK /\ UNCHANGED loadVars => LoadOK'
  /\ DispOK /\ UNCHANGED dispVars => DispOK'
  /\ RecvOK /\ UNCHANGED recvVars => RecvOK'
  /\ RecvChanOK /\ UNCHANGED recvChan => RecvChanOK'
  /\ ProcOK /\ UNCHANGED procVars => ProcOK'
  /\ ProcChanOK /\ UNCHANGED procChan => ProcChanOK'
  /\ ReqOK /\ UNCHANGED reqVars => ReqOK'
<1>1. CtlOK /\ UNCHANGED ctlVars => CtlOK'
  BY DEF CtlOK, ctlVars
<1>2. LoadOK /\ UNCHANGED loadVars => LoadOK'
  BY DEF LoadOK, loadVars
<1>3. DispOK /\ UNCHANGED dispVars => DispOK'
  BY DEF DispOK, dispVars
<1>4. RecvOK /\ UNCHANGED recvVars => RecvOK'
  BY DEF RecvOK, recvVars
<1>5. RecvChanOK /\ UNCHANGED recvChan => RecvChanOK'
  BY DEF RecvChanOK, recvChan
<1>6. ProcOK /\ UNCHANGED procVars => ProcOK'
  BY DEF ProcOK, procVars
<1>7. ProcChanOK /\ UNCHANGED procChan => ProcChanOK'
  BY DEF ProcChanOK, procChan
<1>8. ReqOK /\ UNCHANGED reqVars => ReqOK'
  BY DEF ReqOK, reqVars
<1> QED
  BY <1>1, <1>2, <1>3, <1>4, <1>5, <1>6, <1>7, <1>8

LEMMA TypeNext == TypeOK /\ [Next]_vars => TypeOK'
<1> SUFFICES ASSUME TypeOK, [Next]_vars PROVE TypeOK'
  OBVIOUS
<1> USE ProcessorsAssumption, RequestsAssumption, LimitsAssumption DEF Processors
<1>1. CASE StartBegin
  BY <1>1, Frames
     DEF TypeOK, StartBegin, CtlOK, CtlStates, ctlVars, LoadOK, ProtectStates, loadVars, RecvChanOK, recvChan, Goto
<1>2. CASE StartProcessor
  BY <1>2, Frames
     DEF TypeOK, StartProcessor, CtlOK, CtlStates, ctlVars, ProcOK, ProcStates, ProcGoto, procVars, ProcChanOK, procChan, Goto
<1>3. CASE StartFails
  BY <1>3, Frames
     DEF TypeOK, StartFails, CtlOK, CtlStates, ctlVars, Goto
<1>4. CASE StartDispatch
  BY <1>4, Frames
     DEF TypeOK, StartDispatch, CtlOK, CtlStates, ctlVars, DispOK, DispStates, dispVars, Goto
<1>5. CASE StartRecvReset
  BY <1>5, Frames
     DEF TypeOK, StartRecvReset, CtlOK, CtlStates, ctlVars, RecvChanOK, recvChan, Goto
<1>6. CASE StartRecvCreate
  BY <1>6, Frames
     DEF TypeOK, StartRecvCreate, CtlOK, CtlStates, ctlVars, RecvOK, RecvStates, recvVars, Goto
<1>7. CASE StopBegin
  BY <1>7, Frames
     DEF TypeOK, StopBegin, CtlOK, CtlStates, ctlVars, Goto
<1>8. CASE StopLoop
  BY <1>8, Frames
     DEF TypeOK, StopLoop, CtlOK, CtlStates, ctlVars, DispOK, DispStates, dispVars, Goto
<1>9. CASE StopRecv
  BY <1>9, Frames
     DEF TypeOK, StopRecv, CtlOK, CtlStates, ctlVars, RecvChanOK, recvChan, Goto
<1>10. CASE StopClear
  BY <1>10, Frames
     DEF TypeOK, StopClear, CtlOK, CtlStates, ctlVars, RecvChanOK, recvChan, ReqOK, Answers, reqVars, FreeRecords, Goto
<1>11. CASE StopProcessor
  BY <1>11, Frames
     DEF TypeOK, StopProcessor, CtlOK, CtlStates, ctlVars, ProcChanOK, procChan, Goto
<1>12. CASE StopProcessorSet
  BY <1>12, Frames
     DEF TypeOK, StopProcessorSet, CtlOK, CtlStates, ctlVars, ProcChanOK, procChan, Goto
<1>13. CASE DeleteProcessor
  BY <1>13, Frames
     DEF TypeOK, DeleteProcessor, CtlOK, CtlStates, ctlVars, ProcChanOK, procChan, ReqOK, Answers, reqVars, FreeRecords, Goto
<1>14. CASE StopEnd
  BY <1>14, Frames
     DEF TypeOK, StopEnd, CtlOK, CtlStates, ctlVars, Goto
<1>15. CASE ProtectTop
  BY <1>15, Frames
     DEF TypeOK, ProtectTop, LoadOK, ProtectStates, loadVars, Goto
<1>16. CASE ProtectMeasure
  BY <1>16, Frames
     DEF TypeOK, ProtectMeasure, LoadOK, ProtectStates, loadVars, Goto
<1>17. CASE ProtectReset
  BY <1>17, Frames
     DEF TypeOK, ProtectReset, LoadOK, ProtectStates, loadVars, Goto
<1>18. CASE DispatchTop
  BY <1>18, Frames
     DEF TypeOK, DispatchTop, DispOK, DispStates, dispVars, Goto
<1>19. CASE DispatchEnter
  BY <1>19, Frames
     DEF TypeOK, DispatchEnter, DispOK, DispStates, dispVars, Goto
<1>20. CASE SetRecvEvent
  BY <1>20, Frames
     DEF TypeOK, SetRecvEvent, DispOK, DispStates, dispVars, RecvChanOK, recvChan, Goto
<1>21. CASE LoopReturn
  BY <1>21, Frames
     DEF TypeOK, LoopReturn, DispOK, DispStates, dispVars, Goto
<1>22. CASE NetworkEvent
  BY <1>22, Frames
     DEF TypeOK, NetworkEvent, DispOK, DispStates, dispVars, Goto
<1>23. ASSUME NEW r \in Requests, MessageCallback(r) PROVE TypeOK'
  BY <1>23, Frames
     DEF TypeOK, MessageCallback, DispOK, DispStates, dispVars, RecvChanOK, recvChan, ReqOK, Answers, reqVars, Goto
<1>24. CASE RecvTop
  BY <1>24, Frames
     DEF TypeOK, RecvTop, RecvOK, RecvStates, recvVars, Goto
<1>25. CASE RecvPopEmpty
  BY <1>25, Frames
     DEF TypeOK, RecvPopEmpty, RecvOK, RecvStates, recvVars, Goto
<1>26. CASE RecvPop
  BY <1>26, Frames
     DEF TypeOK, RecvPop, RecvOK, RecvStates, recvVars, RecvChanOK, recvChan, Goto
<1>27. CASE RecvWait
  BY <1>27, Frames, BuildAssumption
     DEF TypeOK, RecvWait, RecvOK, RecvStates, recvVars, RecvChanOK, recvChan, AfterWait, Goto
<1>28. CASE RecvReset
  BY <1>28, Frames
     DEF TypeOK, RecvReset, RecvOK, RecvStates, recvVars, RecvChanOK, recvChan, Goto
<1>29. CASE DispatchSkip
  BY <1>29, Frames
     DEF TypeOK, DispatchSkip, RecvOK, RecvStates, recvVars, Goto
<1>30. CASE DispatchFind
  BY <1>30, Frames
     DEF TypeOK, DispatchFind, RecvOK, RecvStates, recvVars, Goto
<1>31. CASE DispatchClaim
  BY <1>31, Frames
     DEF TypeOK, DispatchClaim, RecvOK, RecvStates, recvVars, ProcChanOK, procChan, Goto
<1>32. CASE DispatchPush
  BY <1>32, Frames
     DEF TypeOK, DispatchPush, RecvOK, RecvStates, recvVars, ProcChanOK, procChan, Goto
<1>33. CASE DispatchSet
  BY <1>33, Frames
     DEF TypeOK, DispatchSet, RecvOK, RecvStates, recvVars, ProcChanOK, procChan, Goto
<1>34. CASE DispatchRefuse
  BY <1>34, Frames
     DEF TypeOK, DispatchRefuse, RecvOK, RecvStates, recvVars, ReqOK, Answers, reqVars, Goto
<1>35. ASSUME NEW p \in Processors, ProcTop(p) PROVE TypeOK'
  BY <1>35, Frames
     DEF TypeOK, ProcTop, ProcOK, ProcStates, ProcGoto, procVars, Goto
<1>36. ASSUME NEW p \in Processors, ProcPopEmpty(p) PROVE TypeOK'
  BY <1>36, Frames
     DEF TypeOK, ProcPopEmpty, ProcOK, ProcStates, ProcGoto, procVars, Goto
<1>37. ASSUME NEW p \in Processors, ProcPop(p) PROVE TypeOK'
  BY <1>37, Frames
     DEF TypeOK, ProcPop, ProcOK, ProcStates, ProcGoto, procVars, ProcChanOK, procChan, Goto
<1>38. ASSUME NEW p \in Processors, ProcSetIdle(p) PROVE TypeOK'
  BY <1>38, Frames
     DEF TypeOK, ProcSetIdle, ProcOK, ProcStates, ProcGoto, procVars, ProcChanOK, procChan, Goto
<1>39. ASSUME NEW p \in Processors, ProcWait(p) PROVE TypeOK'
  BY <1>39, Frames, BuildAssumption
     DEF TypeOK, ProcWait, ProcOK, ProcStates, ProcGoto, procVars, ProcChanOK, procChan, AfterWait, Goto
<1>40. ASSUME NEW p \in Processors, ProcReset(p) PROVE TypeOK'
  BY <1>40, Frames
     DEF TypeOK, ProcReset, ProcOK, ProcStates, ProcGoto, procVars, ProcChanOK, procChan, Goto
<1>41. ASSUME NEW p \in Processors, ProcSetBusy(p) PROVE TypeOK'
  BY <1>41, Frames
     DEF TypeOK, ProcSetBusy, ProcOK, ProcStates, ProcGoto, procVars, ProcChanOK, procChan, Goto
<1>42. ASSUME NEW p \in Processors, ProcCount(p) PROVE TypeOK'
  BY <1>42, Frames
     DEF TypeOK, ProcCount, ProcOK, ProcStates, ProcGoto, procVars, LoadOK, ProtectStates, loadVars, Goto
<1>43. ASSUME NEW p \in Processors, ProcServe(p) PROVE TypeOK'
  BY <1>43, Frames
     DEF TypeOK, ProcServe, ProcOK, ProcStates, ProcGoto, procVars, ReqOK, Answers, reqVars, Goto
<1>44. CASE UNCHANGED vars
  BY <1>44, Frames DEF TypeOK, vars
<1> QED
  BY <1>1, <1>2, <1>3, <1>4, <1>5, <1>6, <1>7, <1>8, <1>9, <1>10,
     <1>11, <1>12, <1>13, <1>14, <1>15, <1>16, <1>17, <1>18, <1>19,
     <1>20, <1>21, <1>22, <1>23, <1>24, <1>25, <1>26, <1>27, <1>28,
     <1>29, <1>30, <1>31, <1>32, <1>33, <1>34, <1>35, <1>36, <1>37,
     <1>38, <1>39, <1>40, <1>41, <1>42, <1>43, <1>44, NextCases, Zenon

(* Every variable keeps its type in every behaviour of the listener.       *)
THEOREM TypeCorrect == SafetySpec => []TypeOK
  BY TypeInit, TypeNext, PTL DEF SafetySpec

-----------------------------------------------------------------------------
(* The inductive invariant                                                 *)

Stopping == {"joinProtect", "joinDispatch", "joinRecv",
             "stopProc", "setProc", "joinProc", "stopped"}

(* Once Stop has begun the listener is not running, and a thread that Stop *)
(* has joined stays ended; the receive thread does not exist before Start  *)
(* creates it.                                                             *)
LifeInv ==
  /\ ctl \in Stopping => ~isRunning
  /\ ctl \in {"init", "startProc", "startRecv", "createRecv"} => recv = "none"
  /\ ctl \in Stopping \ {"joinProtect"} => protect = "done"
  /\ ctl \in Stopping \ {"joinProtect", "joinDispatch"} => disp = "done"
  /\ ctl \in {"stopProc", "setProc", "joinProc", "stopped"} => recv = "done"
  /\ ctl = "init" => cursor = 1
  /\ ctl \in {"init", "startProc"} =>
       \A p \in Processors : p >= cursor => proc[p] = "none"
  /\ \A p \in Processors : Deleted(p) => proc[p] = "done"
  /\ ctl = "stopped" => cursor = NumProcessors + 1
  /\ ctl \in {"setProc", "joinProc"} => ~procRun[cursor]

(* The signal of Stop is still there while the thread it is meant for can  *)
(* go to sleep without looking at the run flag again.                      *)
RecvWakeInv ==
  /\ ctl = "joinRecv" /\ recv \in {"pop", "wait"} => recvEvent
  /\ recv = "wait" /\ ~recvEvent => recvQueue = <<>> \/ disp = "set"

ProcWakeInv ==
  \A p \in Processors :
    /\ ctl = "joinProc" /\ cursor = p /\ proc[p] \in {"pop", "idle", "wait"} => procEvent[p]
    /\ proc[p] \in {"idle", "wait"} /\ ~procEvent[p] =>
         procQueue[p] = <<>> \/ (recv = "set" /\ scan = p)

(* The receive thread is bringing a request to p: it has found p idle, or  *)
(* has also marked it occupied and not yet signalled it.                   *)
Chosen(p)  == recv = "claim" /\ scan = p
Coming(p)  == recv \in {"push", "set"} /\ scan = p

(* A stale idle flag and a stale signal do not meet.                       *)
StaleInv ==
  recv # "done" => \A p \in Processors :
    /\ proc[p] \in {"none", "top", "pop", "idle", "busy"} /\ isIdle[p] =>
         ~procEvent[p] /\ ~Coming(p)
    /\ proc[p] = "reset" /\ isIdle[p] => ~Coming(p)
    /\ proc[p] = "wait" /\ isIdle[p] /\ Coming(p) => ~procEvent[p]
    /\ proc[p] \in {"top", "pop", "idle", "busy", "count", "serve"} /\ (Chosen(p) \/ Coming(p)) =>
         ~procEvent[p]
    /\ proc[p] \in {"count", "serve"} => ~isIdle[p]

(* A processor thread holds a request exactly while it serves one.         *)
HandInv ==
  \A p \in Processors :
    procReq[p] = NoRequest <=> proc[p] \notin {"busy", "count", "serve"}

(* What p has, plus what it may still be given before it next finds its    *)
(* queue empty: the request being brought to it, one more if its flag says *)
(* idle, one more if it is about to say so.                                *)
One(b) == IF b THEN 1 ELSE 0
Bound(p)    == recv \in {"claim", "push"} /\ scan = p
Open(p)     == isIdle[p] /\ ~Chosen(p)
Settling(p) == proc[p] = "idle"
Potential(p) == Load(p) + One(Bound(p)) + One(Open(p)) + One(Settling(p))

LoadAt(p) == Load(p) <= 2 /\ (recv # "done" => Potential(p) <= 2)
LoadInv == \A p \in Processors : LoadAt(p)

LEMMA LifeInit == Init => LifeInv
  BY ProcessorsAssumption DEF Init, LifeInv, Stopping, Deleted

LEMMA LifeNext == TypeOK /\ LifeInv /\ [Next]_vars => LifeInv'
<1> SUFFICES ASSUME TypeOK, LifeInv, [Next]_vars PROVE LifeInv'
  OBVIOUS
<1> USE ProcessorsAssumption, RequestsAssumption, BuildAssumption DEF
      Processors, Goto, ProcGoto, ctlVars, loadVars, dispVars, recvVars,
      recvChan, procVars, procChan, reqVars, TypeOK, CtlOK, ProcOK,
      ProcChanOK, LifeInv, Stopping, Deleted, CtlStates
<1>1. CASE StartBegin BY <1>1 DEF StartBegin
<1>2. CASE StartProcessor BY <1>2 DEF StartProcessor
<1>3. CASE StartFails BY <1>3 DEF StartFails
<1>4. CASE StartDispatch BY <1>4 DEF StartDispatch
<1>5. CASE StartRecvReset BY <1>5 DEF StartRecvReset
<1>6. CASE StartRecvCreate BY <1>6 DEF StartRecvCreate
<1>7. CASE StopBegin BY <1>7 DEF StopBegin
<1>8. CASE StopLoop BY <1>8 DEF StopLoop
<1>9. CASE StopRecv BY <1>9 DEF StopRecv
<1>10. CASE StopClear BY <1>10 DEF StopClear
<1>11. CASE StopProcessor BY <1>11 DEF StopProcessor
<1>12. CASE StopProcessorSet BY <1>12 DEF StopProcessorSet
<1>13. CASE DeleteProcessor BY <1>13 DEF DeleteProcessor
<1>14. CASE StopEnd BY <1>14 DEF StopEnd
<1>15. CASE ProtectTop BY <1>15 DEF ProtectTop
<1>16. CASE ProtectMeasure BY <1>16 DEF ProtectMeasure
<1>17. CASE ProtectReset BY <1>17 DEF ProtectReset
<1>18. CASE DispatchTop BY <1>18 DEF DispatchTop
<1>19. CASE DispatchEnter BY <1>19 DEF DispatchEnter
<1>20. CASE SetRecvEvent BY <1>20 DEF SetRecvEvent
<1>21. CASE LoopReturn BY <1>21 DEF LoopReturn
<1>22. CASE NetworkEvent BY <1>22 DEF NetworkEvent
<1>23. ASSUME NEW r \in Requests, MessageCallback(r) PROVE LifeInv'
  BY <1>23 DEF MessageCallback
<1>24. CASE RecvTop BY <1>24 DEF RecvTop
<1>25. CASE RecvPopEmpty BY <1>25 DEF RecvPopEmpty
<1>26. CASE RecvPop BY <1>26 DEF RecvPop
<1>27. CASE RecvWait BY <1>27 DEF RecvWait
<1>28. CASE RecvReset BY <1>28 DEF RecvReset
<1>29. CASE DispatchSkip BY <1>29 DEF DispatchSkip
<1>30. CASE DispatchFind BY <1>30 DEF DispatchFind
<1>31. CASE DispatchClaim BY <1>31 DEF DispatchClaim
<1>32. CASE DispatchPush BY <1>32 DEF DispatchPush
<1>33. CASE DispatchSet BY <1>33 DEF DispatchSet
<1>34. CASE DispatchRefuse BY <1>34 DEF DispatchRefuse
<1>35. ASSUME NEW q \in Processors, ProcTop(q) PROVE LifeInv'
  BY <1>35 DEF ProcTop
<1>36. ASSUME NEW q \in Processors, ProcPopEmpty(q) PROVE LifeInv'
  BY <1>36 DEF ProcPopEmpty
<1>37. ASSUME NEW q \in Processors, ProcPop(q) PROVE LifeInv'
  BY <1>37 DEF ProcPop
<1>38. ASSUME NEW q \in Processors, ProcSetIdle(q) PROVE LifeInv'
  BY <1>38 DEF ProcSetIdle
<1>39. ASSUME NEW q \in Processors, ProcWait(q) PROVE LifeInv'
  BY <1>39 DEF ProcWait
<1>40. ASSUME NEW q \in Processors, ProcReset(q) PROVE LifeInv'
  BY <1>40 DEF ProcReset
<1>41. ASSUME NEW q \in Processors, ProcSetBusy(q) PROVE LifeInv'
  BY <1>41 DEF ProcSetBusy
<1>42. ASSUME NEW q \in Processors, ProcCount(q) PROVE LifeInv'
  BY <1>42 DEF ProcCount
<1>43. ASSUME NEW q \in Processors, ProcServe(q) PROVE LifeInv'
  BY <1>43 DEF ProcServe
<1>44. CASE UNCHANGED vars BY <1>44 DEF vars
<1> QED
  BY <1>1, <1>2, <1>3, <1>4, <1>5, <1>6, <1>7, <1>8, <1>9, <1>10, <1>11,
     <1>12, <1>13, <1>14, <1>15, <1>16, <1>17, <1>18, <1>19, <1>20, <1>21,
     <1>22, <1>23, <1>24, <1>25, <1>26, <1>27, <1>28, <1>29, <1>30, <1>31,
     <1>32, <1>33, <1>34, <1>35, <1>36, <1>37, <1>38, <1>39, <1>40, <1>41,
     <1>42, <1>43, <1>44, NextCases, Zenon

LEMMA WakeInit == Init => RecvWakeInv /\ ProcWakeInv
  BY DEF Init, RecvWakeInv, ProcWakeInv

LEMMA RecvWakeNext == TypeOK /\ LifeInv /\ RecvWakeInv /\ [Next]_vars => RecvWakeInv'
<1> SUFFICES ASSUME TypeOK, LifeInv, RecvWakeInv, [Next]_vars PROVE RecvWakeInv'
  OBVIOUS
<1> USE ProcessorsAssumption, RequestsAssumption, BuildAssumption DEF
      Processors, Goto, ProcGoto, ctlVars, loadVars, dispVars, recvVars,
      recvChan, procVars, procChan, reqVars, TypeOK, CtlOK, RecvOK,
      RecvChanOK, DispOK, LifeInv, RecvWakeInv, Stopping, AfterWait
<1>1. CASE StartBegin BY <1>1 DEF StartBegin
<1>2. CASE StartProcessor BY <1>2 DEF StartProcessor
<1>3. CASE StartFails BY <1>3 DEF StartFails
<1>4. CASE StartDispatch BY <1>4 DEF StartDispatch
<1>5. CASE StartRecvReset BY <1>5 DEF StartRecvReset
<1>6. CASE StartRecvCreate BY <1>6 DEF StartRecvCreate
<1>7. CASE StopBegin BY <1>7 DEF StopBegin
<1>8. CASE StopLoop BY <1>8 DEF StopLoop
<1>9. CASE StopRecv BY <1>9 DEF StopRecv
<1>10. CASE StopClear BY <1>10 DEF StopClear
<1>11. CASE StopProcessor BY <1>11 DEF StopProcessor
<1>12. CASE StopProcessorSet BY <1>12 DEF StopProcessorSet
<1>13. CASE DeleteProcessor BY <1>13 DEF DeleteProcessor
<1>14. CASE StopEnd BY <1>14 DEF StopEnd
<1>15. CASE ProtectTop BY <1>15 DEF ProtectTop
<1>16. CASE ProtectMeasure BY <1>16 DEF ProtectMeasure
<1>17. CASE ProtectReset BY <1>17 DEF ProtectReset
<1>18. CASE DispatchTop BY <1>18 DEF DispatchTop
<1>19. CASE DispatchEnter BY <1>19 DEF DispatchEnter
<1>20. CASE SetRecvEvent BY <1>20 DEF SetRecvEvent
<1>21. CASE LoopReturn BY <1>21 DEF LoopReturn
<1>22. CASE NetworkEvent BY <1>22 DEF NetworkEvent
<1>23. ASSUME NEW r \in Requests, MessageCallback(r) PROVE RecvWakeInv'
  BY <1>23 DEF MessageCallback
<1>24. CASE RecvTop BY <1>24 DEF RecvTop
<1>25. CASE RecvPopEmpty BY <1>25 DEF RecvPopEmpty
<1>26. CASE RecvPop BY <1>26 DEF RecvPop
<1>27. CASE RecvWait BY <1>27 DEF RecvWait
<1>28. CASE RecvReset BY <1>28 DEF RecvReset
<1>29. CASE DispatchSkip BY <1>29 DEF DispatchSkip
<1>30. CASE DispatchFind BY <1>30 DEF DispatchFind
<1>31. CASE DispatchClaim BY <1>31 DEF DispatchClaim
<1>32. CASE DispatchPush BY <1>32 DEF DispatchPush
<1>33. CASE DispatchSet BY <1>33 DEF DispatchSet
<1>34. CASE DispatchRefuse BY <1>34 DEF DispatchRefuse
<1>35. ASSUME NEW q \in Processors, ProcTop(q) PROVE RecvWakeInv'
  BY <1>35 DEF ProcTop
<1>36. ASSUME NEW q \in Processors, ProcPopEmpty(q) PROVE RecvWakeInv'
  BY <1>36 DEF ProcPopEmpty
<1>37. ASSUME NEW q \in Processors, ProcPop(q) PROVE RecvWakeInv'
  BY <1>37 DEF ProcPop
<1>38. ASSUME NEW q \in Processors, ProcSetIdle(q) PROVE RecvWakeInv'
  BY <1>38 DEF ProcSetIdle
<1>39. ASSUME NEW q \in Processors, ProcWait(q) PROVE RecvWakeInv'
  BY <1>39 DEF ProcWait
<1>40. ASSUME NEW q \in Processors, ProcReset(q) PROVE RecvWakeInv'
  BY <1>40 DEF ProcReset
<1>41. ASSUME NEW q \in Processors, ProcSetBusy(q) PROVE RecvWakeInv'
  BY <1>41 DEF ProcSetBusy
<1>42. ASSUME NEW q \in Processors, ProcCount(q) PROVE RecvWakeInv'
  BY <1>42 DEF ProcCount
<1>43. ASSUME NEW q \in Processors, ProcServe(q) PROVE RecvWakeInv'
  BY <1>43 DEF ProcServe
<1>44. CASE UNCHANGED vars BY <1>44 DEF vars
<1> QED
  BY <1>1, <1>2, <1>3, <1>4, <1>5, <1>6, <1>7, <1>8, <1>9, <1>10, <1>11,
     <1>12, <1>13, <1>14, <1>15, <1>16, <1>17, <1>18, <1>19, <1>20, <1>21,
     <1>22, <1>23, <1>24, <1>25, <1>26, <1>27, <1>28, <1>29, <1>30, <1>31,
     <1>32, <1>33, <1>34, <1>35, <1>36, <1>37, <1>38, <1>39, <1>40, <1>41,
     <1>42, <1>43, <1>44, NextCases, Zenon

LEMMA ProcWakeNext == TypeOK /\ LifeInv /\ ProcWakeInv /\ [Next]_vars => ProcWakeInv'
<1> SUFFICES ASSUME TypeOK, LifeInv, ProcWakeInv, [Next]_vars PROVE ProcWakeInv'
  OBVIOUS
<1> USE ProcessorsAssumption, RequestsAssumption, BuildAssumption DEF
      Processors, Goto, ProcGoto, ctlVars, loadVars, dispVars, recvVars,
      recvChan, procVars, procChan, reqVars, TypeOK, CtlOK, RecvOK, ProcOK,
      ProcChanOK, LifeInv, ProcWakeInv, Stopping, AfterWait
<1>1. CASE StartBegin BY <1>1 DEF StartBegin
<1>2. CASE StartProcessor BY <1>2 DEF StartProcessor
<1>3. CASE StartFails BY <1>3 DEF StartFails
<1>4. CASE StartDispatch BY <1>4 DEF StartDispatch
<1>5. CASE StartRecvReset BY <1>5 DEF StartRecvReset
<1>6. CASE StartRecvCreate BY <1>6 DEF StartRecvCreate
<1>7. CASE StopBegin BY <1>7 DEF StopBegin
<1>8. CASE StopLoop BY <1>8 DEF StopLoop
<1>9. CASE StopRecv BY <1>9 DEF StopRecv
<1>10. CASE StopClear BY <1>10 DEF StopClear
<1>11. CASE StopProcessor BY <1>11 DEF StopProcessor
<1>12. CASE StopProcessorSet BY <1>12 DEF StopProcessorSet
<1>13. CASE DeleteProcessor BY <1>13 DEF DeleteProcessor
<1>14. CASE StopEnd BY <1>14 DEF StopEnd
<1>15. CASE ProtectTop BY <1>15 DEF ProtectTop
<1>16. CASE ProtectMeasure BY <1>16 DEF ProtectMeasure
<1>17. CASE ProtectReset BY <1>17 DEF ProtectReset
<1>18. CASE DispatchTop BY <1>18 DEF DispatchTop
<1>19. CASE DispatchEnter BY <1>19 DEF DispatchEnter
<1>20. CASE SetRecvEvent BY <1>20 DEF SetRecvEvent
<1>21. CASE LoopReturn BY <1>21 DEF LoopReturn
<1>22. CASE NetworkEvent BY <1>22 DEF NetworkEvent
<1>23. ASSUME NEW r \in Requests, MessageCallback(r) PROVE ProcWakeInv'
  BY <1>23 DEF MessageCallback
<1>24. CASE RecvTop BY <1>24 DEF RecvTop
<1>25. CASE RecvPopEmpty BY <1>25 DEF RecvPopEmpty
<1>26. CASE RecvPop BY <1>26 DEF RecvPop
<1>27. CASE RecvWait BY <1>27 DEF RecvWait
<1>28. CASE RecvReset BY <1>28 DEF RecvReset
<1>29. CASE DispatchSkip BY <1>29 DEF DispatchSkip
<1>30. CASE DispatchFind BY <1>30 DEF DispatchFind
<1>31. CASE DispatchClaim BY <1>31 DEF DispatchClaim
<1>32. CASE DispatchPush BY <1>32 DEF DispatchPush
<1>33. CASE DispatchSet BY <1>33 DEF DispatchSet
<1>34. CASE DispatchRefuse BY <1>34 DEF DispatchRefuse
<1>35. ASSUME NEW q \in Processors, ProcTop(q) PROVE ProcWakeInv'
  BY <1>35 DEF ProcTop
<1>36. ASSUME NEW q \in Processors, ProcPopEmpty(q) PROVE ProcWakeInv'
  BY <1>36 DEF ProcPopEmpty
<1>37. ASSUME NEW q \in Processors, ProcPop(q) PROVE ProcWakeInv'
  BY <1>37 DEF ProcPop
<1>38. ASSUME NEW q \in Processors, ProcSetIdle(q) PROVE ProcWakeInv'
  BY <1>38 DEF ProcSetIdle
<1>39. ASSUME NEW q \in Processors, ProcWait(q) PROVE ProcWakeInv'
  BY <1>39 DEF ProcWait
<1>40. ASSUME NEW q \in Processors, ProcReset(q) PROVE ProcWakeInv'
  BY <1>40 DEF ProcReset
<1>41. ASSUME NEW q \in Processors, ProcSetBusy(q) PROVE ProcWakeInv'
  BY <1>41 DEF ProcSetBusy
<1>42. ASSUME NEW q \in Processors, ProcCount(q) PROVE ProcWakeInv'
  BY <1>42 DEF ProcCount
<1>43. ASSUME NEW q \in Processors, ProcServe(q) PROVE ProcWakeInv'
  BY <1>43 DEF ProcServe
<1>44. CASE UNCHANGED vars BY <1>44 DEF vars
<1> QED
  BY <1>1, <1>2, <1>3, <1>4, <1>5, <1>6, <1>7, <1>8, <1>9, <1>10, <1>11,
     <1>12, <1>13, <1>14, <1>15, <1>16, <1>17, <1>18, <1>19, <1>20, <1>21,
     <1>22, <1>23, <1>24, <1>25, <1>26, <1>27, <1>28, <1>29, <1>30, <1>31,
     <1>32, <1>33, <1>34, <1>35, <1>36, <1>37, <1>38, <1>39, <1>40, <1>41,
     <1>42, <1>43, <1>44, NextCases, Zenon

LEMMA StaleInit == Init => StaleInv
  BY DEF Init, StaleInv, Coming, Chosen

LEMMA StaleNext == TypeOK /\ LifeInv /\ StaleInv /\ [Next]_vars => StaleInv'
<1> SUFFICES ASSUME TypeOK, LifeInv, StaleInv, [Next]_vars PROVE StaleInv'
  OBVIOUS
<1> USE ProcessorsAssumption, RequestsAssumption, BuildAssumption DEF
      Processors, Goto, ProcGoto, ctlVars, loadVars, dispVars, recvVars,
      recvChan, procVars, procChan, reqVars, TypeOK, CtlOK, RecvOK, ProcOK,
      ProcChanOK, LifeInv, StaleInv, Coming, Chosen, Stopping, AfterWait
<1>1. CASE StartBegin BY <1>1 DEF StartBegin
<1>2. CASE StartProcessor BY <1>2 DEF StartProcessor
<1>3. CASE StartFails BY <1>3 DEF StartFails
<1>4. CASE StartDispatch BY <1>4 DEF StartDispatch
<1>5. CASE StartRecvReset BY <1>5 DEF StartRecvReset
<1>6. CASE StartRecvCreate BY <1>6 DEF StartRecvCreate
<1>7. CASE StopBegin BY <1>7 DEF StopBegin
<1>8. CASE StopLoop BY <1>8 DEF StopLoop
<1>9. CASE StopRecv BY <1>9 DEF StopRecv
<1>10. CASE StopClear BY <1>10 DEF StopClear
<1>11. CASE StopProcessor BY <1>11 DEF StopProcessor
<1>12. CASE StopProcessorSet BY <1>12 DEF StopProcessorSet
<1>13. CASE DeleteProcessor BY <1>13 DEF DeleteProcessor
<1>14. CASE StopEnd BY <1>14 DEF StopEnd
<1>15. CASE ProtectTop BY <1>15 DEF ProtectTop
<1>16. CASE ProtectMeasure BY <1>16 DEF ProtectMeasure
<1>17. CASE ProtectReset BY <1>17 DEF ProtectReset
<1>18. CASE DispatchTop BY <1>18 DEF DispatchTop
<1>19. CASE DispatchEnter BY <1>19 DEF DispatchEnter
<1>20. CASE SetRecvEvent BY <1>20 DEF SetRecvEvent
<1>21. CASE LoopReturn BY <1>21 DEF LoopReturn
<1>22. CASE NetworkEvent BY <1>22 DEF NetworkEvent
<1>23. ASSUME NEW r \in Requests, MessageCallback(r) PROVE StaleInv'
  BY <1>23 DEF MessageCallback
<1>24. CASE RecvTop BY <1>24 DEF RecvTop
<1>25. CASE RecvPopEmpty BY <1>25 DEF RecvPopEmpty
<1>26. CASE RecvPop BY <1>26 DEF RecvPop
<1>27. CASE RecvWait BY <1>27 DEF RecvWait
<1>28. CASE RecvReset BY <1>28 DEF RecvReset
<1>29. CASE DispatchSkip BY <1>29 DEF DispatchSkip
<1>30. CASE DispatchFind BY <1>30 DEF DispatchFind
<1>31. CASE DispatchClaim BY <1>31 DEF DispatchClaim
<1>32. CASE DispatchPush BY <1>32 DEF DispatchPush
<1>33. CASE DispatchSet BY <1>33 DEF DispatchSet
<1>34. CASE DispatchRefuse BY <1>34 DEF DispatchRefuse
<1>35. ASSUME NEW q \in Processors, ProcTop(q) PROVE StaleInv'
  BY <1>35 DEF ProcTop
<1>36. ASSUME NEW q \in Processors, ProcPopEmpty(q) PROVE StaleInv'
  BY <1>36 DEF ProcPopEmpty
<1>37. ASSUME NEW q \in Processors, ProcPop(q) PROVE StaleInv'
  BY <1>37 DEF ProcPop
<1>38. ASSUME NEW q \in Processors, ProcSetIdle(q) PROVE StaleInv'
  BY <1>38 DEF ProcSetIdle
<1>39. ASSUME NEW q \in Processors, ProcWait(q) PROVE StaleInv'
  BY <1>39 DEF ProcWait
<1>40. ASSUME NEW q \in Processors, ProcReset(q) PROVE StaleInv'
  BY <1>40 DEF ProcReset
<1>41. ASSUME NEW q \in Processors, ProcSetBusy(q) PROVE StaleInv'
  BY <1>41 DEF ProcSetBusy
<1>42. ASSUME NEW q \in Processors, ProcCount(q) PROVE StaleInv'
  BY <1>42 DEF ProcCount
<1>43. ASSUME NEW q \in Processors, ProcServe(q) PROVE StaleInv'
  BY <1>43 DEF ProcServe
<1>44. CASE UNCHANGED vars BY <1>44 DEF vars
<1> QED
  BY <1>1, <1>2, <1>3, <1>4, <1>5, <1>6, <1>7, <1>8, <1>9, <1>10, <1>11,
     <1>12, <1>13, <1>14, <1>15, <1>16, <1>17, <1>18, <1>19, <1>20, <1>21,
     <1>22, <1>23, <1>24, <1>25, <1>26, <1>27, <1>28, <1>29, <1>30, <1>31,
     <1>32, <1>33, <1>34, <1>35, <1>36, <1>37, <1>38, <1>39, <1>40, <1>41,
     <1>42, <1>43, <1>44, NextCases, Zenon

LEMMA HandInit == Init => HandInv
  BY DEF Init, HandInv

LEMMA HandNext == TypeOK /\ LifeInv /\ HandInv /\ [Next]_vars => HandInv'
<1> SUFFICES ASSUME TypeOK, LifeInv, HandInv, [Next]_vars PROVE HandInv'
  OBVIOUS
<1> USE ProcessorsAssumption, RequestsAssumption, BuildAssumption DEF
      Processors, Goto, ProcGoto, ctlVars, loadVars, dispVars, recvVars,
      recvChan, procVars, procChan, reqVars, TypeOK, CtlOK, ProcOK,
      ProcChanOK, HandInv
<1>1. CASE StartBegin BY <1>1 DEF StartBegin
<1>2. CASE StartProcessor
  <2>1. proc[cursor] = "none"
    BY <1>2 DEF StartProcessor, LifeInv
  <2> QED
    BY <1>2, <2>1 DEF StartProcessor
<1>3. CASE StartFails BY <1>3 DEF StartFails
<1>4. CASE StartDispatch BY <1>4 DEF StartDispatch
<1>5. CASE StartRecvReset BY <1>5 DEF StartRecvReset
<1>6. CASE StartRecvCreate BY <1>6 DEF StartRecvCreate
<1>7. CASE StopBegin BY <1>7 DEF StopBegin
<1>8. CASE StopLoop BY <1>8 DEF StopLoop
<1>9. CASE StopRecv BY <1>9 DEF StopRecv
<1>10. CASE StopClear BY <1>10 DEF StopClear
<1>11. CASE StopProcessor BY <1>11 DEF StopProcessor
<1>12. CASE StopProcessorSet BY <1>12 DEF StopProcessorSet
<1>13. CASE DeleteProcessor BY <1>13 DEF DeleteProcessor
<1>14. CASE StopEnd BY <1>14 DEF StopEnd
<1>15. CASE ProtectTop BY <1>15 DEF ProtectTop
<1>16. CASE ProtectMeasure BY <1>16 DEF ProtectMeasure
<1>17. CASE ProtectReset BY <1>17 DEF ProtectReset
<1>18. CASE DispatchTop BY <1>18 DEF DispatchTop
<1>19. CASE DispatchEnter BY <1>19 DEF DispatchEnter
<1>20. CASE SetRecvEvent BY <1>20 DEF SetRecvEvent
<1>21. CASE LoopReturn BY <1>21 DEF LoopReturn
<1>22. CASE NetworkEvent BY <1>22 DEF NetworkEvent
<1>23. ASSUME NEW r \in Requests, MessageCallback(r) PROVE HandInv'
  BY <1>23 DEF MessageCallback
<1>24. CASE RecvTop BY <1>24 DEF RecvTop
<1>25. CASE RecvPopEmpty BY <1>25 DEF RecvPopEmpty
<1>26. CASE RecvPop BY <1>26 DEF RecvPop
<1>27. CASE RecvWait BY <1>27 DEF RecvWait
<1>28. CASE RecvReset BY <1>28 DEF RecvReset
<1>29. CASE DispatchSkip BY <1>29 DEF DispatchSkip
<1>30. CASE DispatchFind BY <1>30 DEF DispatchFind
<1>31. CASE DispatchClaim BY <1>31 DEF DispatchClaim
<1>32. CASE DispatchPush BY <1>32 DEF DispatchPush
<1>33. CASE DispatchSet BY <1>33 DEF DispatchSet
<1>34. CASE DispatchRefuse BY <1>34 DEF DispatchRefuse
<1>35. ASSUME NEW q \in Processors, ProcTop(q) PROVE HandInv'
  BY <1>35 DEF ProcTop
<1>36. ASSUME NEW q \in Processors, ProcPopEmpty(q) PROVE HandInv'
  BY <1>36 DEF ProcPopEmpty
<1>37. ASSUME NEW q \in Processors, ProcPop(q) PROVE HandInv'
  <2>1. Head(procQueue[q]) \in Requests
    BY <1>37 DEF ProcPop
  <2> QED
    BY <1>37, <2>1 DEF ProcPop
<1>38. ASSUME NEW q \in Processors, ProcSetIdle(q) PROVE HandInv'
  BY <1>38 DEF ProcSetIdle
<1>39. ASSUME NEW q \in Processors, ProcWait(q) PROVE HandInv'
  BY <1>39 DEF ProcWait
<1>40. ASSUME NEW q \in Processors, ProcReset(q) PROVE HandInv'
  BY <1>40 DEF ProcReset
<1>41. ASSUME NEW q \in Processors, ProcSetBusy(q) PROVE HandInv'
  BY <1>41 DEF ProcSetBusy
<1>42. ASSUME NEW q \in Processors, ProcCount(q) PROVE HandInv'
  BY <1>42 DEF ProcCount
<1>43. ASSUME NEW q \in Processors, ProcServe(q) PROVE HandInv'
  BY <1>43 DEF ProcServe
<1>44. CASE UNCHANGED vars BY <1>44 DEF vars
<1> QED
  BY <1>1, <1>2, <1>3, <1>4, <1>5, <1>6, <1>7, <1>8, <1>9, <1>10, <1>11,
     <1>12, <1>13, <1>14, <1>15, <1>16, <1>17, <1>18, <1>19, <1>20, <1>21,
     <1>22, <1>23, <1>24, <1>25, <1>26, <1>27, <1>28, <1>29, <1>30, <1>31,
     <1>32, <1>33, <1>34, <1>35, <1>36, <1>37, <1>38, <1>39, <1>40, <1>41,
     <1>42, <1>43, <1>44, NextCases, Zenon

(* The lengths that the load adds up.                                      *)
LEMMA Lengths ==
  ASSUME NEW S, NEW q \in Seq(S)
  PROVE  /\ Len(q) \in Nat
         /\ \A x \in S : Len(Append(q, x)) = Len(q) + 1
         /\ q # <<>> => Len(Tail(q)) = Len(q) - 1
         /\ q = <<>> => Len(q) = 0
  OBVIOUS

(* The load is what is queued and what is held; the value of each part     *)
(* before and after a step.                                                *)
Queued(p) == Len(procQueue[p])
Held(p) == One(procReq[p] # NoRequest)

LEMMA LoadParts ==
  ASSUME NEW p \in Processors
  PROVE  /\ Load(p) = Queued(p) + Held(p) /\ Load(p)' = Queued(p)' + Held(p)'
         /\ Held(p) \in {0, 1} /\ Held(p)' \in {0, 1}
<1>1. Held(p) = IF procReq[p] = NoRequest THEN 0 ELSE 1
  BY DEF Held, One
<1>2. Held(p)' = IF procReq'[p] = NoRequest THEN 0 ELSE 1
  BY DEF Held, One
<1>3. Load(p) = Queued(p) + Held(p)
  BY <1>1, Zenon DEF Load, Queued
<1>4. Load(p)' = Queued(p)' + Held(p)'
  BY <1>2, Zenon DEF Load, Queued
<1> QED
  BY <1>1, <1>2, <1>3, <1>4

LEMMA LoadType ==
  ASSUME TypeOK, TypeOK', NEW p \in Processors
  PROVE  /\ Queued(p) \in Nat /\ Queued(p)' \in Nat
         /\ Load(p) \in Nat /\ Load(p)' \in Nat
         /\ Potential(p) \in Nat /\ Potential(p)' \in Nat
<1>1. Queued(p) \in Nat
  BY Lengths, Zenon DEF TypeOK, ProcChanOK, Queued
<1>2. Queued(p)' \in Nat
  BY Lengths, Zenon DEF TypeOK, ProcChanOK, Queued
<1>3. Load(p) \in Nat /\ Load(p)' \in Nat
  BY <1>1, <1>2, LoadParts
<1>4. Potential(p) \in Nat /\ Potential(p)' \in Nat
  BY <1>3 DEF Potential, One
<1> QED
  BY <1>1, <1>2, <1>3, <1>4

LEMMA LoadInit == Init => LoadInv
<1> SUFFICES ASSUME Init, NEW p \in Processors PROVE LoadAt(p)
  BY DEF LoadInv
<1>1. Load(p) = 0
  BY DEF Init, Load
<1>2. ~Bound(p) /\ ~Settling(p)
  BY DEF Init, Bound, Settling
<1> QED
  BY <1>1, <1>2 DEF LoadAt, Potential, One

(* A step that does not touch what LoadInv reads.                          *)
LEMMA LoadFrame ==
  ASSUME LoadInv, UNCHANGED <<recv, scan, proc, procReq, isIdle, procQueue>>
  PROVE  LoadInv'
<1> SUFFICES ASSUME NEW p \in Processors PROVE LoadAt(p)'
  BY DEF LoadInv
<1>1. LoadAt(p)
  BY DEF LoadInv
<1>2. Load(p)' = Load(p)
  BY DEF Load
<1>3. /\ Bound(p)' = Bound(p) /\ Open(p)' = Open(p)
      /\ Settling(p)' = Settling(p)
  BY DEF Bound, Open, Settling, Chosen
<1> QED
  BY <1>1, <1>2, <1>3 DEF LoadAt, Potential

(* A step that gives p nothing more: its load does not grow and none of    *)
(* the ways to more load opens.                                            *)
LEMMA LoadNoMore ==
  ASSUME TypeOK, TypeOK', NEW p \in Processors, LoadAt(p),
         recv' # "done" => recv # "done",
         Load(p)' <= Load(p),
         Bound(p)' => Bound(p), Open(p)' => Open(p), Settling(p)' => Settling(p)
  PROVE  LoadAt(p)'
<1>1. Load(p) \in Nat /\ Load(p)' \in Nat
  BY LoadType
<1>2. /\ One(Bound(p))' <= One(Bound(p)) /\ One(Open(p))' <= One(Open(p))
      /\ One(Settling(p))' <= One(Settling(p))
  BY DEF One
<1>3. Potential(p)' <= Potential(p)
  BY <1>1, <1>2 DEF Potential, One
<1> QED
  BY <1>1, <1>3, LoadType DEF LoadAt

LEMMA LoadNext ==
  TypeOK /\ LifeInv /\ StaleInv /\ HandInv /\ LoadInv /\ [Next]_vars => LoadInv'
<1> SUFFICES ASSUME TypeOK, LifeInv, StaleInv, HandInv, LoadInv, [Next]_vars
             PROVE  LoadInv'
  OBVIOUS
<1>0. TypeOK'
  BY TypeNext
<1> USE DEF Goto, ProcGoto, ctlVars, loadVars, dispVars, recvVars, recvChan,
      procVars, procChan, reqVars
<1>1. CASE StartBegin
  BY <1>1, LoadFrame DEF StartBegin
<1>2. CASE StartProcessor
  <2> SUFFICES ASSUME NEW p \in Processors PROVE LoadAt(p)'
    BY DEF LoadInv
  <2>a. /\ Queued(p) \in Nat /\ Queued(p)' \in Nat
        /\ Load(p) \in Nat /\ Load(p)' \in Nat
        /\ Potential(p) \in Nat /\ Potential(p)' \in Nat
    BY <1>0, LoadType
  <2>1. Load(p)' = Load(p)
    BY <1>2 DEF StartProcessor, TypeOK, RecvOK, ProcOK, ProcChanOK, Load
  <2>2. Bound(p)' => Bound(p)
    BY <1>2 DEF StartProcessor, TypeOK, RecvOK, ProcOK, ProcChanOK, Bound
  <2>3. Open(p)' => Open(p)
    BY <1>2 DEF StartProcessor, TypeOK, RecvOK, ProcOK, ProcChanOK, Open,
       Chosen
  <2>4. Settling(p)' => Settling(p)
    BY <1>2 DEF StartProcessor, TypeOK, RecvOK, ProcOK, ProcChanOK, Settling
  <2>5. recv' # "done" => recv # "done"
    BY <1>2 DEF StartProcessor, TypeOK, RecvOK, ProcOK, ProcChanOK
  <2>6. LoadAt(p)
    BY DEF LoadInv
  <2> QED
    BY <2>1, <2>2, <2>3, <2>4, <2>5, <2>6, <2>a, <1>0, LoadNoMore
<1>3. CASE StartFails
  BY <1>3, LoadFrame DEF StartFails
<1>4. CASE StartDispatch
  BY <1>4, LoadFrame DEF StartDispatch
<1>5. CASE StartRecvReset
  BY <1>5, LoadFrame DEF StartRecvReset
<1>6. CASE StartRecvCreate
  <2> SUFFICES ASSUME NEW p \in Processors PROVE LoadAt(p)'
    BY DEF LoadInv
  <2>a. /\ Queued(p) \in Nat /\ Queued(p)' \in Nat
        /\ Load(p) \in Nat /\ Load(p)' \in Nat
        /\ Potential(p) \in Nat /\ Potential(p)' \in Nat
    BY <1>0, LoadType
  <2>1. Load(p)' = Load(p)
    BY <1>6 DEF StartRecvCreate, TypeOK, RecvOK, ProcOK, ProcChanOK, Load
  <2>2. Bound(p)' => Bound(p)
    BY <1>6 DEF StartRecvCreate, TypeOK, RecvOK, ProcOK, ProcChanOK, Bound
  <2>3. Open(p)' => Open(p)
    BY <1>6 DEF StartRecvCreate, TypeOK, RecvOK, ProcOK, ProcChanOK, Open,
       Chosen, LifeInv
  <2>4. Settling(p)' => Settling(p)
    BY <1>6 DEF StartRecvCreate, TypeOK, RecvOK, ProcOK, ProcChanOK, Settling
  <2>5. recv' # "done" => recv # "done"
    BY <1>6 DEF StartRecvCreate, TypeOK, RecvOK, ProcOK, ProcChanOK, LifeInv
  <2>6. LoadAt(p)
    BY DEF LoadInv
  <2> QED
    BY <2>1, <2>2, <2>3, <2>4, <2>5, <2>6, <2>a, <1>0, LoadNoMore
<1>7. CASE StopBegin
  BY <1>7, LoadFrame DEF StopBegin
<1>8. CASE StopLoop
  BY <1>8, LoadFrame DEF StopLoop
<1>9. CASE StopRecv
  BY <1>9, LoadFrame DEF StopRecv
<1>10. CASE StopClear
  BY <1>10, LoadFrame DEF StopClear
<1>11. CASE StopProcessor
  BY <1>11, LoadFrame DEF StopProcessor
<1>12. CASE StopProcessorSet
  BY <1>12, LoadFrame DEF StopProcessorSet
<1>13. CASE DeleteProcessor
  <2> SUFFICES ASSUME NEW p \in Processors PROVE LoadAt(p)'
    BY DEF LoadInv
  <2>a. /\ Queued(p) \in Nat /\ Queued(p)' \in Nat
        /\ Load(p) \in Nat /\ Load(p)' \in Nat
        /\ Potential(p) \in Nat /\ Potential(p)' \in Nat
    BY <1>0, LoadType
  <2>1. recv' = "done"
    BY <1>13 DEF DeleteProcessor, TypeOK, RecvOK, ProcOK, ProcChanOK, LifeInv
  <2>2. Queued(p)' = Queued(p) \/ Queued(p)' = 0
    <3>1. procQueue'[p] = procQueue[p] \/ procQueue'[p] = <<>>
      BY <1>13 DEF DeleteProcessor, TypeOK, RecvOK, ProcOK, ProcChanOK
    <3> QED
      BY <3>1 DEF Queued
  <2>3. Held(p)' = Held(p)
    BY <1>13 DEF DeleteProcessor, TypeOK, RecvOK, ProcOK, ProcChanOK, Held
  <2>4. Load(p)' <= Load(p)
    BY <2>2, <2>3, LoadParts, <2>a
  <2>5. Load(p) <= 2
    BY DEF LoadInv, LoadAt
  <2> QED
    BY <2>1, <2>4, <2>5, <2>a DEF LoadAt
<1>14. CASE StopEnd
  BY <1>14, LoadFrame DEF StopEnd
<1>15. CASE ProtectTop
  BY <1>15, LoadFrame DEF ProtectTop
<1>16. CASE ProtectMeasure
  BY <1>16, LoadFrame DEF ProtectMeasure
<1>17. CASE ProtectReset
  BY <1>17, LoadFrame DEF ProtectReset
<1>18. CASE DispatchTop
  BY <1>18, LoadFrame DEF DispatchTop
<1>19. CASE DispatchEnter
  BY <1>19, LoadFrame DEF DispatchEnter
<1>20. CASE SetRecvEvent
  BY <1>20, LoadFrame DEF SetRecvEvent
<1>21. CASE LoopReturn
  BY <1>21, LoadFrame DEF LoopReturn
<1>22. CASE NetworkEvent
  BY <1>22, LoadFrame DEF NetworkEvent
<1>23. ASSUME NEW r \in Requests, MessageCallback(r) PROVE LoadInv'
  BY <1>23, LoadFrame DEF MessageCallback
<1>24. CASE RecvTop
  <2> SUFFICES ASSUME NEW p \in Processors PROVE LoadAt(p)'
    BY DEF LoadInv
  <2>a. /\ Queued(p) \in Nat /\ Queued(p)' \in Nat
        /\ Load(p) \in Nat /\ Load(p)' \in Nat
        /\ Potential(p) \in Nat /\ Potential(p)' \in Nat
    BY <1>0, LoadType
  <2>1. Load(p)' = Load(p)
    BY <1>24 DEF RecvTop, TypeOK, RecvOK, ProcOK, ProcChanOK, Load
  <2>2. Bound(p)' => Bound(p)
    BY <1>24 DEF RecvTop, TypeOK, RecvOK, ProcOK, ProcChanOK, Bound
  <2>3. Open(p)' => Open(p)
    BY <1>24 DEF RecvTop, TypeOK, RecvOK, ProcOK, ProcChanOK, Open, Chosen
  <2>4. Settling(p)' => Settling(p)
    BY <1>24 DEF RecvTop, TypeOK, RecvOK, ProcOK, ProcChanOK, Settling
  <2>5. recv' # "done" => recv # "done"
    BY <1>24 DEF RecvTop, TypeOK, RecvOK, ProcOK, ProcChanOK
  <2>6. LoadAt(p)
    BY DEF LoadInv
  <2> QED
    BY <2>1, <2>2, <2>3, <2>4, <2>5, <2>6, <2>a, <1>0, LoadNoMore
<1>25. CASE RecvPopEmpty
  <2> SUFFICES ASSUME NEW p \in Processors PROVE LoadAt(p)'
    BY DEF LoadInv
  <2>a. /\ Queued(p) \in Nat /\ Queued(p)' \in Nat
        /\ Load(p) \in Nat /\ Load(p)' \in Nat
        /\ Potential(p) \in Nat /\ Potential(p)' \in Nat
    BY <1>0, LoadType
  <2>1. Load(p)' = Load(p)
    BY <1>25 DEF RecvPopEmpty, TypeOK, RecvOK, ProcOK, ProcChanOK, Load
  <2>2. Bound(p)' => Bound(p)
    BY <1>25 DEF RecvPopEmpty, TypeOK, RecvOK, ProcOK, ProcChanOK, Bound
  <2>3. Open(p)' => Open(p)
    BY <1>25 DEF RecvPopEmpty, TypeOK, RecvOK, ProcOK, ProcChanOK, Open,
       Chosen
  <2>4. Settling(p)' => Settling(p)
    BY <1>25 DEF RecvPopEmpty, TypeOK, RecvOK, ProcOK, ProcChanOK, Settling
  <2>5. recv' # "done" => recv # "done"
    BY <1>25 DEF RecvPopEmpty, TypeOK, RecvOK, ProcOK, ProcChanOK
  <2>6. LoadAt(p)
    BY DEF LoadInv
  <2> QED
    BY <2>1, <2>2, <2>3, <2>4, <2>5, <2>6, <2>a, <1>0, LoadNoMore
<1>26. CASE RecvPop
  <2> SUFFICES ASSUME NEW p \in Processors PROVE LoadAt(p)'
    BY DEF LoadInv
  <2>a. /\ Queued(p) \in Nat /\ Queued(p)' \in Nat
        /\ Load(p) \in Nat /\ Load(p)' \in Nat
        /\ Potential(p) \in Nat /\ Potential(p)' \in Nat
    BY <1>0, LoadType
  <2>1. Load(p)' = Load(p)
    BY <1>26 DEF RecvPop, TypeOK, RecvOK, ProcOK, ProcChanOK, Load
  <2>2. Bound(p)' => Bound(p)
    BY <1>26 DEF RecvPop, TypeOK, RecvOK, ProcOK, ProcChanOK, Bound
  <2>3. Open(p)' => Open(p)
    BY <1>26 DEF RecvPop, TypeOK, RecvOK, ProcOK, ProcChanOK, Open, Chosen
  <2>4. Settling(p)' => Settling(p)
    BY <1>26 DEF RecvPop, TypeOK, RecvOK, ProcOK, ProcChanOK, Settling
  <2>5. recv' # "done" => recv # "done"
    BY <1>26 DEF RecvPop, TypeOK, RecvOK, ProcOK, ProcChanOK
  <2>6. LoadAt(p)
    BY DEF LoadInv
  <2> QED
    BY <2>1, <2>2, <2>3, <2>4, <2>5, <2>6, <2>a, <1>0, LoadNoMore
<1>27. CASE RecvWait
  <2> SUFFICES ASSUME NEW p \in Processors PROVE LoadAt(p)'
    BY DEF LoadInv
  <2>a. /\ Queued(p) \in Nat /\ Queued(p)' \in Nat
        /\ Load(p) \in Nat /\ Load(p)' \in Nat
        /\ Potential(p) \in Nat /\ Potential(p)' \in Nat
    BY <1>0, LoadType
  <2>1. Load(p)' = Load(p)
    BY <1>27 DEF RecvWait, TypeOK, RecvOK, ProcOK, ProcChanOK, Load
  <2>2. Bound(p)' => Bound(p)
    BY <1>27 DEF RecvWait, TypeOK, RecvOK, ProcOK, ProcChanOK, Bound
  <2>3. Open(p)' => Open(p)
    BY <1>27 DEF RecvWait, TypeOK, RecvOK, ProcOK, ProcChanOK, Open, Chosen
  <2>4. Settling(p)' => Settling(p)
    BY <1>27 DEF RecvWait, TypeOK, RecvOK, ProcOK, ProcChanOK, Settling
  <2>5. recv' # "done" => recv # "done"
    BY <1>27 DEF RecvWait, TypeOK, RecvOK, ProcOK, ProcChanOK
  <2>6. LoadAt(p)
    BY DEF LoadInv
  <2> QED
    BY <2>1, <2>2, <2>3, <2>4, <2>5, <2>6, <2>a, <1>0, LoadNoMore
<1>28. CASE RecvReset
  <2> SUFFICES ASSUME NEW p \in Processors PROVE LoadAt(p)'
    BY DEF LoadInv
  <2>a. /\ Queued(p) \in Nat /\ Queued(p)' \in Nat
        /\ Load(p) \in Nat /\ Load(p)' \in Nat
        /\ Potential(p) \in Nat /\ Potential(p)' \in Nat
    BY <1>0, LoadType
  <2>1. Load(p)' = Load(p)
    BY <1>28 DEF RecvReset, TypeOK, RecvOK, ProcOK, ProcChanOK, Load
  <2>2. Bound(p)' => Bound(p)
    BY <1>28 DEF RecvReset, TypeOK, RecvOK, ProcOK, ProcChanOK, Bound
  <2>3. Open(p)' => Open(p)
    BY <1>28 DEF RecvReset, TypeOK, RecvOK, ProcOK, ProcChanOK, Open, Chosen
  <2>4. Settling(p)' => Settling(p)
    BY <1>28 DEF RecvReset, TypeOK, RecvOK, ProcOK, ProcChanOK, Settling
  <2>5. recv' # "done" => recv # "done"
    BY <1>28 DEF RecvReset, TypeOK, RecvOK, ProcOK, ProcChanOK
  <2>6. LoadAt(p)
    BY DEF LoadInv
  <2> QED
    BY <2>1, <2>2, <2>3, <2>4, <2>5, <2>6, <2>a, <1>0, LoadNoMore
<1>29. CASE DispatchSkip
  <2> SUFFICES ASSUME NEW p \in Processors PROVE LoadAt(p)'
    BY DEF LoadInv
  <2>a. /\ Queued(p) \in Nat /\ Queued(p)' \in Nat
        /\ Load(p) \in Nat /\ Load(p)' \in Nat
        /\ Potential(p) \in Nat /\ Potential(p)' \in Nat
    BY <1>0, LoadType
  <2>1. Load(p)' = Load(p)
    BY <1>29 DEF DispatchSkip, TypeOK, RecvOK, ProcOK, ProcChanOK, Load
  <2>2. Bound(p)' => Bound(p)
    BY <1>29 DEF DispatchSkip, TypeOK, RecvOK, ProcOK, ProcChanOK, Bound
  <2>3. Open(p)' => Open(p)
    BY <1>29 DEF DispatchSkip, TypeOK, RecvOK, ProcOK, ProcChanOK, Open,
       Chosen
  <2>4. Settling(p)' => Settling(p)
    BY <1>29 DEF DispatchSkip, TypeOK, RecvOK, ProcOK, ProcChanOK, Settling
  <2>5. recv' # "done" => recv # "done"
    BY <1>29 DEF DispatchSkip, TypeOK, RecvOK, ProcOK, ProcChanOK
  <2>6. LoadAt(p)
    BY DEF LoadInv
  <2> QED
    BY <2>1, <2>2, <2>3, <2>4, <2>5, <2>6, <2>a, <1>0, LoadNoMore
<1>30. CASE DispatchFind
  <2> SUFFICES ASSUME NEW p \in Processors PROVE LoadAt(p)'
    BY DEF LoadInv
  <2>a. /\ Queued(p) \in Nat /\ Queued(p)' \in Nat
        /\ Load(p) \in Nat /\ Load(p)' \in Nat
        /\ Potential(p) \in Nat /\ Potential(p)' \in Nat
    BY <1>0, LoadType
  <2>1. Load(p)' = Load(p)
    BY <1>30 DEF DispatchFind, TypeOK, RecvOK, ProcOK, ProcChanOK, Load
  <2>2. /\ Bound(p)' => Open(p)
        /\ ~Bound(p)
        /\ Open(p)' => Open(p) /\ ~Bound(p)'
    BY <1>30 DEF DispatchFind, TypeOK, RecvOK, ProcOK, ProcChanOK, Bound,
       Open, Chosen
  <2>3. Settling(p)' = Settling(p)
    BY <1>30 DEF DispatchFind, TypeOK, RecvOK, ProcOK, ProcChanOK, Settling
  <2>4. LoadAt(p) /\ recv # "done"
    BY <1>30 DEF LoadInv, DispatchFind
  <2> QED
    BY <2>1, <2>2, <2>3, <2>4, <2>a DEF LoadAt, Potential, One
<1>31. CASE DispatchClaim
  <2> SUFFICES ASSUME NEW p \in Processors PROVE LoadAt(p)'
    BY DEF LoadInv
  <2>a. /\ Queued(p) \in Nat /\ Queued(p)' \in Nat
        /\ Load(p) \in Nat /\ Load(p)' \in Nat
        /\ Potential(p) \in Nat /\ Potential(p)' \in Nat
    BY <1>0, LoadType
  <2>1. Load(p)' = Load(p)
    BY <1>31 DEF DispatchClaim, TypeOK, RecvOK, ProcOK, ProcChanOK, Load
  <2>2. Bound(p)' => Bound(p)
    BY <1>31 DEF DispatchClaim, TypeOK, RecvOK, ProcOK, ProcChanOK, Bound
  <2>3. Open(p)' => Open(p)
    BY <1>31 DEF DispatchClaim, TypeOK, RecvOK, ProcOK, ProcChanOK, Open,
       Chosen
  <2>4. Settling(p)' => Settling(p)
    BY <1>31 DEF DispatchClaim, TypeOK, RecvOK, ProcOK, ProcChanOK, Settling
  <2>5. recv' # "done" => recv # "done"
    BY <1>31 DEF DispatchClaim, TypeOK, RecvOK, ProcOK, ProcChanOK
  <2>6. LoadAt(p)
    BY DEF LoadInv
  <2> QED
    BY <2>1, <2>2, <2>3, <2>4, <2>5, <2>6, <2>a, <1>0, LoadNoMore
<1>32. CASE DispatchPush
  <2> SUFFICES ASSUME NEW p \in Processors PROVE LoadAt(p)'
    BY DEF LoadInv
  <2>a. /\ Queued(p) \in Nat /\ Queued(p)' \in Nat
        /\ Load(p) \in Nat /\ Load(p)' \in Nat
        /\ Potential(p) \in Nat /\ Potential(p)' \in Nat
    BY <1>0, LoadType
  <2>1. Load(p)' = Load(p) + One(Bound(p))
    <3>0. Held(p)' = Held(p)
      BY <1>32 DEF DispatchPush, TypeOK, RecvOK, ProcOK, ProcChanOK, Held
    <3>1. CASE p = scan
      <4>1. /\ procQueue[p] \in Seq(Requests) /\ recvReq \in Requests
            /\ procQueue'[p] = Append(procQueue[p], recvReq)
        BY <1>32, <3>1 DEF DispatchPush, TypeOK, RecvOK, ProcOK, ProcChanOK
      <4>2. Queued(p)' = Queued(p) + 1
        <5>1. Len(Append(procQueue[p], recvReq)) = Len(procQueue[p]) + 1
          BY <4>1
        <5> QED
          BY <4>1, <5>1, Zenon DEF Queued
      <4>3. One(Bound(p)) = 1
        BY <1>32, <3>1 DEF DispatchPush, TypeOK, RecvOK, ProcOK, ProcChanOK,
           Bound, One
      <4> QED
        BY <3>0, <4>2, <4>3, LoadParts, <2>a
    <3>2. CASE p # scan
      <4>1. Queued(p)' = Queued(p)
        BY <1>32, <3>2 DEF DispatchPush, TypeOK, RecvOK, ProcOK, ProcChanOK,
           Queued
      <4>2. One(Bound(p)) = 0
        BY <1>32, <3>2 DEF DispatchPush, TypeOK, RecvOK, ProcOK, ProcChanOK,
           Bound, One
      <4> QED
        BY <3>0, <4>1, <4>2, LoadParts, <2>a
    <3> QED
      BY <3>1, <3>2
  <2>2. ~Bound(p)' /\ (Open(p)' => Open(p))
    BY <1>32 DEF DispatchPush, TypeOK, RecvOK, ProcOK, ProcChanOK, Bound,
       Open, Chosen
  <2>3. Settling(p)' = Settling(p)
    BY <1>32 DEF DispatchPush, TypeOK, RecvOK, ProcOK, ProcChanOK, Settling
  <2>4. LoadAt(p) /\ recv # "done"
    BY <1>32 DEF LoadInv, DispatchPush
  <2> QED
    BY <2>1, <2>2, <2>3, <2>4, <2>a DEF LoadAt, Potential, One
<1>33. CASE DispatchSet
  <2> SUFFICES ASSUME NEW p \in Processors PROVE LoadAt(p)'
    BY DEF LoadInv
  <2>a. /\ Queued(p) \in Nat /\ Queued(p)' \in Nat
        /\ Load(p) \in Nat /\ Load(p)' \in Nat
        /\ Potential(p) \in Nat /\ Potential(p)' \in Nat
    BY <1>0, LoadType
  <2>1. Load(p)' = Load(p)
    BY <1>33 DEF DispatchSet, TypeOK, RecvOK, ProcOK, ProcChanOK, Load
  <2>2. Bound(p)' => Bound(p)
    BY <1>33 DEF DispatchSet, TypeOK, RecvOK, ProcOK, ProcChanOK, Bound
  <2>3. Open(p)' => Open(p)
    BY <1>33 DEF DispatchSet, TypeOK, RecvOK, ProcOK, ProcChanOK, Open, Chosen
  <2>4. Settling(p)' => Settling(p)
    BY <1>33 DEF DispatchSet, TypeOK, RecvOK, ProcOK, ProcChanOK, Settling
  <2>5. recv' # "done" => recv # "done"
    BY <1>33 DEF DispatchSet, TypeOK, RecvOK, ProcOK, ProcChanOK
  <2>6. LoadAt(p)
    BY DEF LoadInv
  <2> QED
    BY <2>1, <2>2, <2>3, <2>4, <2>5, <2>6, <2>a, <1>0, LoadNoMore
<1>34. CASE DispatchRefuse
  <2> SUFFICES ASSUME NEW p \in Processors PROVE LoadAt(p)'
    BY DEF LoadInv
  <2>a. /\ Queued(p) \in Nat /\ Queued(p)' \in Nat
        /\ Load(p) \in Nat /\ Load(p)' \in Nat
        /\ Potential(p) \in Nat /\ Potential(p)' \in Nat
    BY <1>0, LoadType
  <2>1. Load(p)' = Load(p)
    BY <1>34 DEF DispatchRefuse, TypeOK, RecvOK, ProcOK, ProcChanOK, Load
  <2>2. Bound(p)' => Bound(p)
    BY <1>34 DEF DispatchRefuse, TypeOK, RecvOK, ProcOK, ProcChanOK, Bound
  <2>3. Open(p)' => Open(p)
    BY <1>34 DEF DispatchRefuse, TypeOK, RecvOK, ProcOK, ProcChanOK, Open,
       Chosen
  <2>4. Settling(p)' => Settling(p)
    BY <1>34 DEF DispatchRefuse, TypeOK, RecvOK, ProcOK, ProcChanOK, Settling
  <2>5. recv' # "done" => recv # "done"
    BY <1>34 DEF DispatchRefuse, TypeOK, RecvOK, ProcOK, ProcChanOK
  <2>6. LoadAt(p)
    BY DEF LoadInv
  <2> QED
    BY <2>1, <2>2, <2>3, <2>4, <2>5, <2>6, <2>a, <1>0, LoadNoMore
<1>35. ASSUME NEW q \in Processors, ProcTop(q) PROVE LoadInv'
  <2> SUFFICES ASSUME NEW p \in Processors PROVE LoadAt(p)'
    BY DEF LoadInv
  <2>a. /\ Queued(p) \in Nat /\ Queued(p)' \in Nat
        /\ Load(p) \in Nat /\ Load(p)' \in Nat
        /\ Potential(p) \in Nat /\ Potential(p)' \in Nat
    BY <1>0, LoadType
  <2>1. Load(p)' = Load(p)
    BY <1>35 DEF ProcTop, TypeOK, RecvOK, ProcOK, ProcChanOK, Load
  <2>2. Bound(p)' => Bound(p)
    BY <1>35 DEF ProcTop, TypeOK, RecvOK, ProcOK, ProcChanOK, Bound
  <2>3. Open(p)' => Open(p)
    BY <1>35 DEF ProcTop, TypeOK, RecvOK, ProcOK, ProcChanOK, Open, Chosen
  <2>4. Settling(p)' => Settling(p)
    BY <1>35 DEF ProcTop, TypeOK, RecvOK, ProcOK, ProcChanOK, Settling
  <2>5. recv' # "done" => recv # "done"
    BY <1>35 DEF ProcTop, TypeOK, RecvOK, ProcOK, ProcChanOK
  <2>6. LoadAt(p)
    BY DEF LoadInv
  <2> QED
    BY <2>1, <2>2, <2>3, <2>4, <2>5, <2>6, <2>a, <1>0, LoadNoMore
<1>36. ASSUME NEW q \in Processors, ProcPopEmpty(q) PROVE LoadInv'
  <2> SUFFICES ASSUME NEW p \in Processors PROVE LoadAt(p)'
    BY DEF LoadInv
  <2>a. /\ Queued(p) \in Nat /\ Queued(p)' \in Nat
        /\ Load(p) \in Nat /\ Load(p)' \in Nat
        /\ Potential(p) \in Nat /\ Potential(p)' \in Nat
    BY <1>0, LoadType
  <2>1. Load(p)' = Load(p) /\ Bound(p)' = Bound(p) /\ Open(p)' = Open(p)
    BY <1>36 DEF ProcPopEmpty, TypeOK, RecvOK, ProcOK, ProcChanOK, Load,
       Bound, Open, Chosen
  <2>2. LoadAt(p)
    BY DEF LoadInv
  <2>3. CASE p = q
    <3>0. Queued(p) = 0 /\ Held(p) = 0
      BY <1>36, <2>3 DEF ProcPopEmpty, TypeOK, RecvOK, ProcOK, ProcChanOK,
         Queued, Held, One, HandInv
    <3>1. Load(p) = 0
      BY <3>0, LoadParts
    <3>2. recv' # "done" => ~(Bound(p) /\ Open(p))
      BY <1>36, <2>3 DEF ProcPopEmpty, TypeOK, RecvOK, ProcOK, ProcChanOK,
         Bound, Open, Chosen, Coming, StaleInv
    <3> QED
      BY <2>1, <3>1, <3>2 DEF LoadAt, Potential, One
  <2>4. CASE p # q
    <3>1. Settling(p)' = Settling(p)
      BY <1>36, <2>4 DEF ProcPopEmpty, TypeOK, RecvOK, ProcOK, ProcChanOK,
         Settling
    <3>2. recv' = recv
      BY <1>36 DEF ProcPopEmpty, TypeOK, RecvOK, ProcOK, ProcChanOK
    <3> QED
      BY <2>1, <2>2, <3>1, <3>2 DEF LoadAt, Potential
  <2> QED
    BY <2>3, <2>4
<1>37. ASSUME NEW q \in Processors, ProcPop(q) PROVE LoadInv'
  <2> SUFFICES ASSUME NEW p \in Processors PROVE LoadAt(p)'
    BY DEF LoadInv
  <2>a. /\ Queued(p) \in Nat /\ Queued(p)' \in Nat
        /\ Load(p) \in Nat /\ Load(p)' \in Nat
        /\ Potential(p) \in Nat /\ Potential(p)' \in Nat
    BY <1>0, LoadType
  <2>1. Load(p)' = Load(p)
    <3>1. CASE p = q
      <4>1. procQueue[p] \in Seq(Requests) /\ procQueue[p] # <<>>
        BY <1>37, <3>1 DEF ProcPop, TypeOK, RecvOK, ProcOK, ProcChanOK
      <4>2. procQueue'[p] = Tail(procQueue[p])
        BY <1>37, <3>1 DEF ProcPop, TypeOK, RecvOK, ProcOK, ProcChanOK
      <4>3. Head(procQueue[p]) \in Requests
        BY <4>1
      <4>4. Held(p) = 0 /\ Held(p)' = 1
        BY <1>37, <3>1, <4>3, RequestsAssumption DEF ProcPop, TypeOK, RecvOK,
           ProcOK, ProcChanOK, HandInv, Held, One
      <4>5. Queued(p)' = Queued(p) - 1
        BY <4>1, <4>2, Lengths, Zenon DEF Queued
      <4> QED
        BY <4>4, <4>5, LoadParts, <2>a
    <3>2. CASE p # q
      BY <1>37, <3>2 DEF ProcPop, TypeOK, RecvOK, ProcOK, ProcChanOK, Load
    <3> QED
      BY <3>1, <3>2
  <2>2. Bound(p)' => Bound(p)
    BY <1>37 DEF ProcPop, TypeOK, RecvOK, ProcOK, ProcChanOK, Bound
  <2>3. Open(p)' => Open(p)
    BY <1>37 DEF ProcPop, TypeOK, RecvOK, ProcOK, ProcChanOK, Open, Chosen
  <2>4. Settling(p)' => Settling(p)
    BY <1>37 DEF ProcPop, TypeOK, RecvOK, ProcOK, ProcChanOK, Settling
  <2>5. recv' # "done" => recv # "done"
    BY <1>37 DEF ProcPop, TypeOK, RecvOK, ProcOK, ProcChanOK
  <2>6. LoadAt(p)
    BY DEF LoadInv
  <2> QED
    BY <2>1, <2>2, <2>3, <2>4, <2>5, <2>6, <2>a, <1>0, LoadNoMore
<1>38. ASSUME NEW q \in Processors, ProcSetIdle(q) PROVE LoadInv'
  <2> SUFFICES ASSUME NEW p \in Processors PROVE LoadAt(p)'
    BY DEF LoadInv
  <2>a. /\ Queued(p) \in Nat /\ Queued(p)' \in Nat
        /\ Load(p) \in Nat /\ Load(p)' \in Nat
        /\ Potential(p) \in Nat /\ Potential(p)' \in Nat
    BY <1>0, LoadType
  <2>1. Load(p)' = Load(p) /\ Bound(p)' = Bound(p)
    BY <1>38 DEF ProcSetIdle, TypeOK, RecvOK, ProcOK, ProcChanOK, Load, Bound
  <2>2. LoadAt(p) /\ recv' = recv
    BY <1>38 DEF LoadInv, ProcSetIdle
  <2>3. CASE p = q
    <3>1. Settling(p) /\ ~Settling(p)'
      BY <1>38, <2>3 DEF ProcSetIdle, TypeOK, RecvOK, ProcOK, ProcChanOK,
         Settling
    <3> QED
      BY <2>1, <2>2, <3>1, <2>a DEF LoadAt, Potential, One
  <2>4. CASE p # q
    <3>1. Settling(p)' = Settling(p) /\ Open(p)' = Open(p)
      BY <1>38, <2>4 DEF ProcSetIdle, TypeOK, RecvOK, ProcOK, ProcChanOK,
         Settling, Open, Chosen
    <3> QED
      BY <2>1, <2>2, <3>1 DEF LoadAt, Potential
  <2> QED
    BY <2>3, <2>4
<1>39. ASSUME NEW q \in Processors, ProcWait(q) PROVE LoadInv'
  <2> SUFFICES ASSUME NEW p \in Processors PROVE LoadAt(p)'
    BY DEF LoadInv
  <2>a. /\ Queued(p) \in Nat /\ Queued(p)' \in Nat
        /\ Load(p) \in Nat /\ Load(p)' \in Nat
        /\ Potential(p) \in Nat /\ Potential(p)' \in Nat
    BY <1>0, LoadType
  <2>1. Load(p)' = Load(p)
    BY <1>39 DEF ProcWait, TypeOK, RecvOK, ProcOK, ProcChanOK, Load
  <2>2. Bound(p)' => Bound(p)
    BY <1>39 DEF ProcWait, TypeOK, RecvOK, ProcOK, ProcChanOK, Bound
  <2>3. Open(p)' => Open(p)
    BY <1>39 DEF ProcWait, TypeOK, RecvOK, ProcOK, ProcChanOK, Open, Chosen
  <2>4. Settling(p)' => Settling(p)
    BY <1>39 DEF ProcWait, TypeOK, RecvOK, ProcOK, ProcChanOK, Settling
  <2>5. recv' # "done" => recv # "done"
    BY <1>39 DEF ProcWait, TypeOK, RecvOK, ProcOK, ProcChanOK
  <2>6. LoadAt(p)
    BY DEF LoadInv
  <2> QED
    BY <2>1, <2>2, <2>3, <2>4, <2>5, <2>6, <2>a, <1>0, LoadNoMore
<1>40. ASSUME NEW q \in Processors, ProcReset(q) PROVE LoadInv'
  <2> SUFFICES ASSUME NEW p \in Processors PROVE LoadAt(p)'
    BY DEF LoadInv
  <2>a. /\ Queued(p) \in Nat /\ Queued(p)' \in Nat
        /\ Load(p) \in Nat /\ Load(p)' \in Nat
        /\ Potential(p) \in Nat /\ Potential(p)' \in Nat
    BY <1>0, LoadType
  <2>1. Load(p)' = Load(p)
    BY <1>40 DEF ProcReset, TypeOK, RecvOK, ProcOK, ProcChanOK, Load
  <2>2. Bound(p)' => Bound(p)
    BY <1>40 DEF ProcReset, TypeOK, RecvOK, ProcOK, ProcChanOK, Bound
  <2>3. Open(p)' => Open(p)
    BY <1>40 DEF ProcReset, TypeOK, RecvOK, ProcOK, ProcChanOK, Open, Chosen
  <2>4. Settling(p)' => Settling(p)
    BY <1>40 DEF ProcReset, TypeOK, RecvOK, ProcOK, ProcChanOK, Settling
  <2>5. recv' # "done" => recv # "done"
    BY <1>40 DEF ProcReset, TypeOK, RecvOK, ProcOK, ProcChanOK
  <2>6. LoadAt(p)
    BY DEF LoadInv
  <2> QED
    BY <2>1, <2>2, <2>3, <2>4, <2>5, <2>6, <2>a, <1>0, LoadNoMore
<1>41. ASSUME NEW q \in Processors, ProcSetBusy(q) PROVE LoadInv'
  <2> SUFFICES ASSUME NEW p \in Processors PROVE LoadAt(p)'
    BY DEF LoadInv
  <2>a. /\ Queued(p) \in Nat /\ Queued(p)' \in Nat
        /\ Load(p) \in Nat /\ Load(p)' \in Nat
        /\ Potential(p) \in Nat /\ Potential(p)' \in Nat
    BY <1>0, LoadType
  <2>1. Load(p)' = Load(p)
    BY <1>41 DEF ProcSetBusy, TypeOK, RecvOK, ProcOK, ProcChanOK, Load
  <2>2. Bound(p)' => Bound(p)
    BY <1>41 DEF ProcSetBusy, TypeOK, RecvOK, ProcOK, ProcChanOK, Bound
  <2>3. Open(p)' => Open(p)
    BY <1>41 DEF ProcSetBusy, TypeOK, RecvOK, ProcOK, ProcChanOK, Open, Chosen
  <2>4. Settling(p)' => Settling(p)
    BY <1>41 DEF ProcSetBusy, TypeOK, RecvOK, ProcOK, ProcChanOK, Settling
  <2>5. recv' # "done" => recv # "done"
    BY <1>41 DEF ProcSetBusy, TypeOK, RecvOK, ProcOK, ProcChanOK
  <2>6. LoadAt(p)
    BY DEF LoadInv
  <2> QED
    BY <2>1, <2>2, <2>3, <2>4, <2>5, <2>6, <2>a, <1>0, LoadNoMore
<1>42. ASSUME NEW q \in Processors, ProcCount(q) PROVE LoadInv'
  <2> SUFFICES ASSUME NEW p \in Processors PROVE LoadAt(p)'
    BY DEF LoadInv
  <2>a. /\ Queued(p) \in Nat /\ Queued(p)' \in Nat
        /\ Load(p) \in Nat /\ Load(p)' \in Nat
        /\ Potential(p) \in Nat /\ Potential(p)' \in Nat
    BY <1>0, LoadType
  <2>1. Load(p)' = Load(p)
    BY <1>42 DEF ProcCount, TypeOK, RecvOK, ProcOK, ProcChanOK, Load
  <2>2. Bound(p)' => Bound(p)
    BY <1>42 DEF ProcCount, TypeOK, RecvOK, ProcOK, ProcChanOK, Bound
  <2>3. Open(p)' => Open(p)
    BY <1>42 DEF ProcCount, TypeOK, RecvOK, ProcOK, ProcChanOK, Open, Chosen
  <2>4. Settling(p)' => Settling(p)
    BY <1>42 DEF ProcCount, TypeOK, RecvOK, ProcOK, ProcChanOK, Settling
  <2>5. recv' # "done" => recv # "done"
    BY <1>42 DEF ProcCount, TypeOK, RecvOK, ProcOK, ProcChanOK
  <2>6. LoadAt(p)
    BY DEF LoadInv
  <2> QED
    BY <2>1, <2>2, <2>3, <2>4, <2>5, <2>6, <2>a, <1>0, LoadNoMore
<1>43. ASSUME NEW q \in Processors, ProcServe(q) PROVE LoadInv'
  <2> SUFFICES ASSUME NEW p \in Processors PROVE LoadAt(p)'
    BY DEF LoadInv
  <2>a. /\ Queued(p) \in Nat /\ Queued(p)' \in Nat
        /\ Load(p) \in Nat /\ Load(p)' \in Nat
        /\ Potential(p) \in Nat /\ Potential(p)' \in Nat
    BY <1>0, LoadType
  <2>1. Load(p)' <= Load(p)
    <3>1. Queued(p)' = Queued(p)
      BY <1>43 DEF ProcServe, TypeOK, RecvOK, ProcOK, ProcChanOK, Queued
    <3>2. Held(p)' <= Held(p)
      BY <1>43 DEF ProcServe, TypeOK, RecvOK, ProcOK, ProcChanOK, Held, One
    <3> QED
      BY <3>1, <3>2, LoadParts, <2>a
  <2>2. Bound(p)' => Bound(p)
    BY <1>43 DEF ProcServe, TypeOK, RecvOK, ProcOK, ProcChanOK, Bound
  <2>3. Open(p)' => Open(p)
    BY <1>43 DEF ProcServe, TypeOK, RecvOK, ProcOK, ProcChanOK, Open, Chosen
  <2>4. Settling(p)' => Settling(p)
    BY <1>43 DEF ProcServe, TypeOK, RecvOK, ProcOK, ProcChanOK, Settling
  <2>5. recv' # "done" => recv # "done"
    BY <1>43 DEF ProcServe, TypeOK, RecvOK, ProcOK, ProcChanOK
  <2>6. LoadAt(p)
    BY DEF LoadInv
  <2> QED
    BY <2>1, <2>2, <2>3, <2>4, <2>5, <2>6, <2>a, <1>0, LoadNoMore
<1>44. CASE UNCHANGED vars
  BY <1>44, LoadFrame DEF vars
<1> QED
  BY <1>1, <1>2, <1>3, <1>4, <1>5, <1>6, <1>7, <1>8, <1>9, <1>10, <1>11,
     <1>12, <1>13, <1>14, <1>15, <1>16, <1>17, <1>18, <1>19, <1>20, <1>21,
     <1>22, <1>23, <1>24, <1>25, <1>26, <1>27, <1>28, <1>29, <1>30, <1>31,
     <1>32, <1>33, <1>34, <1>35, <1>36, <1>37, <1>38, <1>39, <1>40, <1>41,
     <1>42, <1>43, <1>44, NextCases, Zenon

-----------------------------------------------------------------------------
(* Theorems                                                                *)

IInv ==
  /\ TypeOK /\ LifeInv /\ RecvWakeInv /\ ProcWakeInv
  /\ StaleInv /\ HandInv /\ LoadInv

LEMMA IInvHolds == SafetySpec => []IInv
<1>1. Init => IInv
  BY TypeInit, LifeInit, WakeInit, StaleInit, HandInit, LoadInit, Zenon DEF IInv
<1>2. IInv /\ [Next]_vars => IInv'
  BY TypeNext, LifeNext, RecvWakeNext, ProcWakeNext, StaleNext, HandNext,
     LoadNext, Zenon DEF IInv
<1> QED
  BY <1>1, <1>2, PTL DEF SafetySpec

(* The receive thread never sleeps on a queued request or on a stop        *)
(* without a signal that is there or about to be set, on either build.     *)
THEOREM RecvNeverStranded == SafetySpec => []RecvNotStranded
<1>1. IInv => RecvNotStranded
  BY DEF IInv, LifeInv, RecvWakeInv, RecvNotStranded
<1> QED
  BY <1>1, IInvHolds, PTL

(* No processor thread sleeps on a queued request or on a stop without a   *)
(* signal that is there or about to be set, on either build.               *)
THEOREM ProcNeverStranded == SafetySpec => []ProcNotStranded
<1>1. IInv => ProcNotStranded
  BY DEF IInv, ProcWakeInv, ProcNotStranded
<1> QED
  BY <1>1, IInvHolds, PTL

(* Stop deletes a processor only after the receive thread and the thread   *)
(* of the processor ended, and the event base after every thread did.      *)
THEOREM NothingUsedAfterFree == SafetySpec => []NoUseAfterFree
<1>1. IInv => NoUseAfterFree
  <2> SUFFICES ASSUME IInv PROVE NoUseAfterFree
    OBVIOUS
  <2>1. \A p \in Processors : Deleted(p) => recv = "done" /\ proc[p] = "done"
    BY DEF IInv, LifeInv, Deleted
  <2>2. ASSUME ctl = "stopped"
        PROVE  /\ protect = "done" /\ disp = "done" /\ recv = "done"
               /\ \A p \in Processors : proc[p] = "done"
    <3>1. protect = "done" /\ disp = "done" /\ recv = "done"
      BY <2>2 DEF IInv, LifeInv, Stopping
    <3>2. \A p \in Processors : Deleted(p)
      BY <2>2, ProcessorsAssumption DEF IInv, LifeInv, Deleted, Processors
    <3> QED
      BY <2>1, <3>1, <3>2
  <2> QED
    BY <2>1, <2>2 DEF NoUseAfterFree
<1> QED
  BY <1>1, IInvHolds, PTL

(* However stale the idle flags are, a request waits behind at most one    *)
(* other at its processor, for any number of processors and requests.      *)
THEOREM WaitsBehindAtMostOne == SafetySpec => []AtMostOneBehind
<1>1. IInv => AtMostOneBehind
  BY DEF IInv, LoadInv, LoadAt, AtMostOneBehind
<1> QED
  BY <1>1, IInvHolds, PTL

-----------------------------------------------------------------------------
(* The requests                                                            *)

In(q, r) == \E i \in DOMAIN q : q[i] = r
NoTwice(q) == \A i, j \in DOMAIN q : q[i] = q[j] => i = j

(* The processor p has r, in its queue or in hand.                         *)
At(p, r) == In(procQueue[p], r) \/ procReq[p] = r

(* A request has one place at most, ...                                    *)
Alone(r) ==
  /\ In(recvQueue, r) => recvReq # r /\ \A p \in Processors : ~At(p, r)
  /\ recvReq = r => \A p \in Processors : ~At(p, r)
  /\ \A p \in Processors : ~(In(procQueue[p], r) /\ procReq[p] = r)
  /\ \A p, q \in Processors : At(p, r) /\ At(q, r) => p = q

(* ... and has one exactly while it waits for its answer.                  *)
Somewhere(r) == In(recvQueue, r) \/ recvReq = r \/ \E p \in Processors : At(p, r)

OwnInv ==
  /\ NoTwice(recvQueue) /\ \A p \in Processors : NoTwice(procQueue[p])
  /\ \A r \in Requests : Alone(r) /\ (Pending(r) <=> Somewhere(r))

(* A request is not answered before it arrives, and its record outlives    *)
(* the answer only if it was refused for want of a processor.              *)
AnswerInv ==
  \A r \in Requests :
    /\ record[r] = "none" => reply[r] = "none"
    /\ record[r] = "live" => reply[r] \in {"none", "exhausted"}

(* The receive thread holds a request exactly while it dispatches it.      *)
RecvHandInv == recvReq = NoRequest <=> recv \notin {"scan", "claim", "push"}

(* Nothing arrives before Start has made the dispatch thread; and what     *)
(* Stop has cleared stays empty.                                           *)
EmptyInv ==
  /\ ctl \in {"init", "startProc"} => disp = "none"
  /\ ctl \in {"init", "stopProc", "setProc", "joinProc", "stopped"} => recvQueue = <<>>
  /\ \A p \in Processors : Deleted(p) => procQueue[p] = <<>>

Kept == OwnInv /\ AnswerInv /\ RecvHandInv /\ EmptyInv

-----------------------------------------------------------------------------
(* Queues                                                                  *)

LEMMA Appended ==
  ASSUME NEW q \in Seq(Requests), NEW x \in Requests
  PROVE  /\ \A r : In(Append(q, x), r) <=> In(q, r) \/ r = x
         /\ NoTwice(q) /\ ~In(q, x) => NoTwice(Append(q, x))
<1>1. /\ Len(q) \in Nat /\ DOMAIN q = 1 .. Len(q) /\ DOMAIN Append(q, x) = 1 .. Len(q) + 1
      /\ \A i \in 1 .. Len(q) : Append(q, x)[i] = q[i]
      /\ Append(q, x)[Len(q) + 1] = x
  OBVIOUS
<1>2. \A i \in 1 .. Len(q) + 1 : i \in 1 .. Len(q) \/ i = Len(q) + 1
  BY <1>1
<1>3. \A i \in 1 .. Len(q) : i \in 1 .. Len(q) + 1
  BY <1>1
<1>4. Len(q) + 1 \in 1 .. Len(q) + 1
  BY <1>1
<1>5. \A r : In(Append(q, x), r) <=> In(q, r) \/ r = x
  BY <1>1, <1>2, <1>3, <1>4, Zenon DEF In
<1>6. NoTwice(q) /\ ~In(q, x) => NoTwice(Append(q, x))
  BY <1>1, <1>2, Zenon DEF In, NoTwice
<1> QED
  BY <1>5, <1>6

LEMMA Popped ==
  ASSUME NEW q \in Seq(Requests), q # <<>>
  PROVE  /\ Head(q) \in Requests /\ In(q, Head(q))
         /\ \A r : In(Tail(q), r) \/ r = Head(q) <=> In(q, r)
         /\ NoTwice(q) => NoTwice(Tail(q)) /\ ~In(Tail(q), Head(q))
<1>1. /\ Len(q) \in Nat \ {0} /\ DOMAIN q = 1 .. Len(q) /\ Head(q) = q[1]
      /\ DOMAIN Tail(q) = 1 .. Len(q) - 1
      /\ \A i \in 1 .. Len(q) - 1 : Tail(q)[i] = q[i + 1]
  OBVIOUS
<1>2. 1 \in 1 .. Len(q) /\ Head(q) \in Requests
  BY <1>1
<1>3. \A i \in 1 .. Len(q) - 1 : i + 1 \in 1 .. Len(q) /\ i + 1 # 1
  BY <1>1
<1>4. \A i \in 1 .. Len(q) : i # 1 => i - 1 \in 1 .. Len(q) - 1 /\ (i - 1) + 1 = i
  BY <1>1
<1>5. ASSUME NEW r PROVE In(Tail(q), r) \/ r = Head(q) <=> In(q, r)
  <2>1. In(Tail(q), r) \/ r = Head(q) => In(q, r)
    BY <1>1, <1>2, <1>3, Zenon DEF In
  <2>2. ASSUME NEW i \in 1 .. Len(q), q[i] = r PROVE In(Tail(q), r) \/ r = Head(q)
    BY <1>1, <1>4, <2>2 DEF In
  <2> QED
    BY <1>1, <2>1, <2>2, Zenon DEF In
<1>6. ASSUME NoTwice(q) PROVE NoTwice(Tail(q)) /\ ~In(Tail(q), Head(q))
  <2>1. ASSUME NEW i \in 1 .. Len(q) - 1, NEW j \in 1 .. Len(q) - 1, Tail(q)[i] = Tail(q)[j] PROVE i = j
    <3>1. q[i + 1] = q[j + 1] /\ i + 1 \in DOMAIN q /\ j + 1 \in DOMAIN q
      BY <1>1, <1>3, <2>1
    <3>2. i + 1 = j + 1
      BY <1>6, <3>1, Zenon DEF NoTwice
    <3> QED
      BY <3>2
  <2>2. ~In(Tail(q), Head(q))
    <3> SUFFICES ASSUME NEW i \in 1 .. Len(q) - 1, Tail(q)[i] = Head(q) PROVE FALSE
      BY <1>1 DEF In
    <3>1. q[i + 1] = q[1] /\ i + 1 \in DOMAIN q /\ 1 \in DOMAIN q
      BY <1>1, <1>2, <1>3
    <3> QED
      BY <1>3, <1>6, <3>1 DEF NoTwice
  <2> QED
    BY <1>1, <2>1, <2>2, Zenon DEF NoTwice
<1> QED
  BY <1>1, <1>2, <1>5, <1>6, Zenon DEF In

-----------------------------------------------------------------------------
(* The invariant                                                           *)

ownVars == <<recvQueue, recvReq, procQueue, procReq, record, reply>>

(* The steps that move a request; none other touches one.                  *)
LEMMA Moves ==
  ASSUME [Next]_vars
  PROVE  \/ StartBegin \/ StopClear \/ DeleteProcessor
         \/ (\E r \in Requests : MessageCallback(r))
         \/ RecvPop \/ DispatchPush \/ DispatchRefuse
         \/ (\E p \in Processors : ProcPop(p) \/ ProcServe(p))
         \/ UNCHANGED ownVars
<1> USE DEF ownVars, recvVars, recvChan, procVars, procChan, reqVars
<1>1. CASE \/ StartProcessor \/ StartFails
           \/ StartDispatch \/ StartRecvReset \/ StartRecvCreate
           \/ StopBegin \/ StopLoop \/ StopRecv
           \/ StopProcessor \/ StopProcessorSet \/ StopEnd
  BY <1>1 DEF StartProcessor, StartFails, StartDispatch, StartRecvReset, StartRecvCreate,
              StopBegin, StopLoop, StopRecv, StopProcessor, StopProcessorSet, StopEnd
<1>2. CASE \/ ProtectTop \/ ProtectMeasure \/ ProtectReset
           \/ DispatchTop \/ DispatchEnter \/ SetRecvEvent \/ LoopReturn \/ NetworkEvent
  BY <1>2 DEF ProtectTop, ProtectMeasure, ProtectReset, DispatchTop, DispatchEnter, SetRecvEvent,
              LoopReturn, NetworkEvent
<1>3. CASE \/ RecvTop \/ RecvPopEmpty \/ RecvWait \/ RecvReset
           \/ DispatchSkip \/ DispatchFind \/ DispatchClaim \/ DispatchSet
  BY <1>3 DEF RecvTop, RecvPopEmpty, RecvWait, RecvReset, DispatchSkip, DispatchFind, DispatchClaim,
              DispatchSet
<1>4. ASSUME NEW p \in Processors,
             \/ ProcTop(p) \/ ProcPopEmpty(p) \/ ProcSetIdle(p)
             \/ ProcWait(p) \/ ProcReset(p) \/ ProcSetBusy(p) \/ ProcCount(p)
      PROVE  UNCHANGED ownVars
  BY <1>4 DEF ProcTop, ProcPopEmpty, ProcSetIdle, ProcWait, ProcReset, ProcSetBusy, ProcCount
<1>5. CASE UNCHANGED vars
  BY <1>5 DEF vars
<1> QED
  BY <1>1, <1>2, <1>3, <1>4, <1>5, NextCases, Zenon

LEMMA OwnInit == Init => Kept
<1> SUFFICES ASSUME Init PROVE Kept
  OBVIOUS
<1>1. \A r : ~In(<<>>, r)
  BY DEF In
<1>2. NoTwice(<<>>)
  BY DEF NoTwice
<1>3. OwnInv
  BY <1>1, <1>2, RequestsAssumption DEF Init, OwnInv, Alone, Somewhere, At, Pending
<1>4. AnswerInv /\ RecvHandInv /\ EmptyInv
  BY ProcessorsAssumption DEF Init, AnswerInv, RecvHandInv, EmptyInv, Deleted
<1> QED
  BY <1>3, <1>4 DEF Kept

LEMMA OwnNext ==
  ASSUME TypeOK, LifeInv, HandInv, Kept, [Next]_vars
  PROVE  OwnInv' /\ AnswerInv'
<1> USE DEF Kept, OwnInv, AnswerInv
<1>0. /\ recvQueue \in Seq(Requests) /\ procQueue \in [Processors -> Seq(Requests)]
      /\ procReq \in [Processors -> Requests \cup {NoRequest}]
      /\ recvReq \in Requests \cup {NoRequest} /\ NoRequest \notin Requests
      /\ record \in [Requests -> {"none", "live", "freed"}]
      /\ reply \in [Requests -> {"none"} \cup Answers]
  BY RequestsAssumption DEF TypeOK, RecvOK, RecvChanOK, ProcOK, ProcChanOK, ReqOK
<1>1. CASE StartBegin
  <2>1. recvQueue = <<>>
    BY <1>1 DEF StartBegin, EmptyInv
  <2>2. UNCHANGED ownVars
    BY <1>1, <2>1 DEF StartBegin, ownVars, recvVars, procVars, procChan, reqVars
  <2> QED
    BY <2>2 DEF ownVars, Alone, Somewhere, At, Pending
<1>2. CASE UNCHANGED ownVars
  BY <1>2 DEF ownVars, Alone, Somewhere, At, Pending
<1>3. CASE StopClear
  <2>1. /\ recvQueue' = <<>> /\ UNCHANGED <<recvReq, procQueue, procReq, reply>>
        /\ \A r \in Requests : record'[r] = IF In(recvQueue, r) THEN "freed" ELSE record[r]
    BY <1>3 DEF StopClear, FreeRecords, recvVars, procVars, procChan, In
  <2>2. NoTwice(<<>>) /\ \A r : ~In(<<>>, r)
    BY DEF NoTwice, In
  <2>3. \A p, r : At(p, r)' <=> At(p, r)
    BY <2>1 DEF At
  <2>4. \A r \in Requests : Pending(r)' <=> Pending(r) /\ ~In(recvQueue, r)
    BY <2>1 DEF Pending
  <2>5. AnswerInv'
    BY <2>1
  <2> QED
    BY <2>1, <2>2, <2>3, <2>4, <2>5 DEF Alone, Somewhere
<1>4. CASE DeleteProcessor
  <2>0. PICK c \in Processors : c = cursor
    BY <1>4 DEF DeleteProcessor, TypeOK, CtlOK
  <2>1. /\ procQueue' = [procQueue EXCEPT ![c] = <<>>]
        /\ UNCHANGED <<recvQueue, recvReq, procReq, reply>>
        /\ \A r \in Requests : record'[r] = IF In(procQueue[c], r) THEN "freed" ELSE record[r]
    BY <1>4, <2>0 DEF DeleteProcessor, FreeRecords, recvVars, recvChan, procVars, In
  <2>2. NoTwice(<<>>) /\ \A r : ~In(<<>>, r)
    BY DEF NoTwice, In
  <2>3. /\ procQueue'[c] = <<>>
        /\ \A p \in Processors : p # c => procQueue'[p] = procQueue[p]
    BY <1>0, <2>0, <2>1
  <2>4. /\ \A p \in Processors : \A r : p # c => (At(p, r)' <=> At(p, r))
        /\ \A r : At(c, r)' <=> procReq[c] = r
    BY <2>1, <2>2, <2>3 DEF At
  <2>5. \A r \in Requests : Pending(r)' <=> Pending(r) /\ ~In(procQueue[c], r)
    BY <2>1 DEF Pending
  <2>6. AnswerInv'
    BY <2>1
  <2>7. \A p \in Processors : NoTwice(procQueue'[p])
    BY <2>2, <2>3
  <2>8. \A p \in Processors : \A r \in Requests : At(p, r)' <=> At(p, r) /\ ~(p = c /\ In(procQueue[c], r))
    BY <2>0, <2>4 DEF At, Alone
  <2>9. ASSUME NEW r \in Requests PROVE Alone(r)' /\ (Pending(r)' <=> Somewhere(r)')
    <3>1. Alone(r) /\ (Pending(r) <=> Somewhere(r))
      OBVIOUS
    <3>2. Alone(r)'
      <4>1. \A p \in Processors : ~(In(procQueue'[p], r) /\ procReq'[p] = r)
        BY <2>1, <2>2, <2>3, <3>1 DEF Alone
      <4> QED
        BY <2>1, <2>8, <3>1, <4>1 DEF Alone
    <3>3. CASE In(procQueue[c], r)
      BY <2>0, <2>1, <2>5, <2>8, <3>1, <3>3 DEF Alone, Somewhere, At
    <3>4. CASE ~In(procQueue[c], r)
      <4>1. \A p \in Processors : At(p, r)' <=> At(p, r)
        BY <2>8, <3>4
      <4>2. Somewhere(r)' <=> Somewhere(r)
        BY <2>1, <4>1 DEF Somewhere
      <4> QED
        BY <2>5, <3>1, <3>2, <3>4, <4>2
    <3> QED
      BY <3>2, <3>3, <3>4
  <2> QED
    BY <2>1, <2>6, <2>7, <2>9
<1>5. ASSUME NEW s \in Requests, MessageCallback(s) PROVE OwnInv' /\ AnswerInv'
  <2>1. /\ recvQueue' = Append(recvQueue, s) /\ UNCHANGED <<recvReq, procQueue, procReq, reply>>
        /\ record' = [record EXCEPT ![s] = "live"] /\ record[s] = "none"
    BY <1>5 DEF MessageCallback, recvVars, procVars, procChan
  <2>2. reply[s] = "none" /\ ~Pending(s)
    BY <2>1 DEF Pending
  <2>3. \A p, r : At(p, r)' <=> At(p, r)
    BY <2>1 DEF At
  <2>4. \A r \in Requests : Pending(r)' <=> Pending(r) \/ r = s
    BY <1>0, <2>1, <2>2 DEF Pending
  <2>5. ~Somewhere(s)
    BY <2>2
  <2>6. NoTwice(recvQueue') /\ \A r : In(recvQueue', r) <=> In(recvQueue, r) \/ r = s
    BY <1>0, <2>1, <2>5, Appended DEF Somewhere
  <2>7. AnswerInv'
    BY <1>0, <2>1, <2>2
  <2> QED
    BY <2>1, <2>3, <2>4, <2>5, <2>6, <2>7 DEF Alone, Somewhere
<1>6. CASE RecvPop
  <2> DEFINE s == Head(recvQueue)
  <2>1. /\ recvQueue # <<>> /\ recvQueue' = Tail(recvQueue) /\ recvReq' = s
        /\ UNCHANGED <<procQueue, procReq, record, reply>>
    BY <1>6 DEF RecvPop, procVars, procChan, reqVars
  <2>2. recvReq = NoRequest
    BY <1>6 DEF RecvPop, RecvHandInv
  <2>3. /\ s \in Requests /\ In(recvQueue, s) /\ NoTwice(recvQueue')
        /\ ~In(recvQueue', s) /\ \A r : In(recvQueue', r) \/ r = s <=> In(recvQueue, r)
    BY <1>0, <2>1, Popped
  <2> HIDE DEF s
  <2>4. (\A p, r : At(p, r)' <=> At(p, r)) /\ \A r : Pending(r)' <=> Pending(r)
    BY <2>1 DEF At, Pending
  <2>5. AnswerInv'
    BY <2>1
  <2> QED
    BY <1>0, <2>1, <2>2, <2>3, <2>4, <2>5 DEF Alone, Somewhere
<1>7. CASE DispatchPush
  <2> DEFINE c == scan
             s == recvReq
  <2>0. c \in Processors /\ s \in Requests
    BY <1>7 DEF DispatchPush, TypeOK, RecvOK
  <2>1. /\ recvReq' = NoRequest /\ procQueue' = [procQueue EXCEPT ![c] = Append(procQueue[c], s)]
        /\ UNCHANGED <<recvQueue, procReq, record, reply>>
    BY <1>7 DEF DispatchPush, recvChan, procVars, reqVars
  <2>2. recvReq = s
    OBVIOUS
  <2> HIDE DEF c, s
  <2>3. /\ procQueue'[c] = Append(procQueue[c], s) /\ procQueue[c] \in Seq(Requests)
        /\ \A p \in Processors : p # c => procQueue'[p] = procQueue[p]
    BY <1>0, <2>0, <2>1
  <2>4. Alone(s) /\ \A p \in Processors : ~At(p, s)
    BY <2>0, <2>2 DEF Alone
  <2>5. NoTwice(procQueue'[c]) /\ \A r : In(procQueue'[c], r) <=> In(procQueue[c], r) \/ r = s
    BY <2>0, <2>3, <2>4, Appended DEF At
  <2>6. \A p \in Processors : \A r \in Requests : At(p, r)' <=> At(p, r) \/ (p = c /\ r = s)
    BY <2>1, <2>3, <2>5 DEF At
  <2>7. AnswerInv' /\ \A r : Pending(r)' <=> Pending(r)
    BY <2>1 DEF Pending
  <2>8. \A p \in Processors : NoTwice(procQueue'[p])
    BY <2>3, <2>5
  <2>9. ASSUME NEW r \in Requests PROVE Alone(r)' /\ (Pending(r)' <=> Somewhere(r)')
    <3>1. Alone(r) /\ (Pending(r) <=> Somewhere(r))
      OBVIOUS
    <3>2. \A p \in Processors : ~(In(procQueue'[p], r) /\ procReq'[p] = r)
      BY <2>1, <2>3, <2>4, <2>5, <3>1 DEF Alone, At
    <3>3. Alone(r)'
      BY <1>0, <2>1, <2>2, <2>4, <2>6, <3>1, <3>2 DEF Alone
    <3>4. Somewhere(r)' <=> Somewhere(r)
      BY <1>0, <2>0, <2>1, <2>2, <2>6 DEF Somewhere
    <3> QED
      BY <2>7, <3>1, <3>3, <3>4
  <2> QED
    BY <2>1, <2>7, <2>8, <2>9
<1>8. CASE DispatchRefuse
  <2> DEFINE s == recvReq
  <2>0. s \in Requests
    BY <1>8 DEF DispatchRefuse, TypeOK, RecvOK
  <2>1. /\ recvReq' = NoRequest /\ reply' = [reply EXCEPT ![s] = "exhausted"]
        /\ UNCHANGED <<recvQueue, procQueue, procReq, record>>
    BY <1>8 DEF DispatchRefuse, recvChan, procVars, procChan
  <2>2. recvReq = s
    OBVIOUS
  <2> HIDE DEF s
  <2>3. Pending(s)
    BY <2>0, <2>2 DEF Somewhere
  <2>4. \A p, r : At(p, r)' <=> At(p, r)
    BY <2>1 DEF At
  <2>5. \A r \in Requests : Pending(r)' <=> Pending(r) /\ r # s
    BY <1>0, <2>0, <2>1 DEF Pending
  <2>6. AnswerInv'
    BY <1>0, <2>0, <2>1, <2>3 DEF Pending
  <2> QED
    BY <1>0, <2>0, <2>1, <2>2, <2>4, <2>5, <2>6 DEF Alone, Somewhere
<1>9. ASSUME NEW c \in Processors, ProcPop(c) PROVE OwnInv' /\ AnswerInv'
  <2> DEFINE s == Head(procQueue[c])
  <2>1. /\ procQueue[c] # <<>> /\ procQueue' = [procQueue EXCEPT ![c] = Tail(procQueue[c])]
        /\ procReq' = [procReq EXCEPT ![c] = s]
        /\ UNCHANGED <<recvQueue, recvReq, record, reply>>
    BY <1>9 DEF ProcPop, recvVars, recvChan, reqVars
  <2>2. procReq[c] = NoRequest
    BY <1>9 DEF ProcPop, HandInv
  <2>3. /\ procQueue'[c] = Tail(procQueue[c]) /\ procReq'[c] = s
        /\ \A p \in Processors : p # c => procQueue'[p] = procQueue[p] /\ procReq'[p] = procReq[p]
    BY <1>0, <2>1
  <2>4. /\ s \in Requests /\ In(procQueue[c], s) /\ NoTwice(procQueue'[c])
        /\ ~In(procQueue'[c], s) /\ \A r : In(procQueue'[c], r) \/ r = s <=> In(procQueue[c], r)
    BY <1>0, <2>1, <2>3, Popped
  <2> HIDE DEF s
  <2>5. \A p \in Processors : \A r \in Requests : At(p, r)' <=> At(p, r)
    BY <1>0, <2>2, <2>3, <2>4 DEF At
  <2>6. AnswerInv' /\ \A r : Pending(r)' <=> Pending(r)
    BY <2>1 DEF Pending
  <2>7. \A p \in Processors : NoTwice(procQueue'[p])
    BY <2>3, <2>4
  <2>8. \A r \in Requests : \A p \in Processors : ~(In(procQueue'[p], r) /\ procReq'[p] = r)
    BY <2>3, <2>4 DEF Alone
  <2> QED
    BY <2>1, <2>5, <2>6, <2>7, <2>8 DEF Alone, Somewhere
<1>10. ASSUME NEW c \in Processors, ProcServe(c) PROVE OwnInv' /\ AnswerInv'
  <2> DEFINE s == procReq[c]
  <2>0. s \in Requests
    BY <1>10 DEF ProcServe, TypeOK, ProcOK
  <2>1. /\ procReq' = [procReq EXCEPT ![c] = NoRequest]
        /\ reply' = [reply EXCEPT ![s] = IF isOverload THEN "overload" ELSE "served"]
        /\ record' = [record EXCEPT ![s] = "freed"]
        /\ UNCHANGED <<recvQueue, recvReq, procQueue>>
    BY <1>10 DEF ProcServe, recvVars, recvChan, procChan
  <2>2. procReq[c] = s /\ At(c, s)
    BY DEF At
  <2> HIDE DEF s
  <2>3. /\ procReq'[c] = NoRequest
        /\ \A p \in Processors : p # c => procReq'[p] = procReq[p]
    BY <1>0, <2>1
  <2>4. \A p \in Processors : \A r \in Requests : At(p, r)' <=> At(p, r) /\ ~(p = c /\ r = s)
    BY <1>0, <2>0, <2>1, <2>2, <2>3 DEF At, Alone
  <2>5. \A r \in Requests : Pending(r)' <=> Pending(r) /\ r # s
    BY <1>0, <2>0, <2>1 DEF Pending
  <2>6. AnswerInv'
    BY <1>0, <2>0, <2>1
  <2>7. \A r \in Requests : \A p \in Processors : ~(In(procQueue'[p], r) /\ procReq'[p] = r)
    BY <1>0, <2>1, <2>3 DEF Alone
  <2>8. ASSUME NEW r \in Requests PROVE Alone(r)' /\ (Pending(r)' <=> Somewhere(r)')
    <3>1. Alone(r) /\ (Pending(r) <=> Somewhere(r))
      OBVIOUS
    <3>2. Alone(r)'
      BY <2>1, <2>4, <2>7, <3>1 DEF Alone
    <3>3. CASE r = s
      BY <2>0, <2>1, <2>2, <2>4, <2>5, <3>1, <3>3 DEF Alone, Somewhere
    <3>4. CASE r # s
      <4>1. \A p \in Processors : At(p, r)' <=> At(p, r)
        BY <2>4, <3>4
      <4>2. Somewhere(r)' <=> Somewhere(r)
        BY <2>1, <4>1 DEF Somewhere
      <4> QED
        BY <2>5, <3>1, <3>2, <3>4, <4>2
    <3> QED
      BY <3>2, <3>3, <3>4
  <2> QED
    BY <2>1, <2>6, <2>8
<1> QED
  BY <1>1, <1>2, <1>3, <1>4, <1>5, <1>6, <1>7, <1>8, <1>9, <1>10, Moves

LEMMA RecvHandNext ==
  ASSUME TypeOK, LifeInv, RecvHandInv, [Next]_vars
  PROVE  RecvHandInv'
<1> USE RequestsAssumption DEF RecvHandInv, TypeOK, RecvOK, Goto, recvVars
<1>1. CASE UNCHANGED <<recv, recvReq>>
  BY <1>1
<1>2. CASE StartRecvCreate \/ RecvTop \/ RecvPopEmpty \/ RecvWait \/ RecvReset
  BY <1>2 DEF StartRecvCreate, RecvTop, RecvPopEmpty, RecvWait, RecvReset, LifeInv
<1>3. CASE RecvPop
  <2>1. Head(recvQueue) \in Requests
    BY <1>3, Popped DEF RecvPop, RecvChanOK
  <2> QED
    BY <1>3, <2>1 DEF RecvPop
<1>4. CASE DispatchSkip \/ DispatchFind \/ DispatchClaim \/ DispatchPush \/ DispatchSet \/ DispatchRefuse
  BY <1>4 DEF DispatchSkip, DispatchFind, DispatchClaim, DispatchPush, DispatchSet, DispatchRefuse
<1>5. \/ UNCHANGED <<recv, recvReq>>
      \/ StartRecvCreate \/ RecvTop \/ RecvPopEmpty \/ RecvPop \/ RecvWait \/ RecvReset
      \/ DispatchSkip \/ DispatchFind \/ DispatchClaim \/ DispatchPush \/ DispatchSet \/ DispatchRefuse
  <2>1. CASE \/ StartBegin \/ StartProcessor \/ StartFails \/ StartDispatch \/ StartRecvReset
             \/ StopBegin \/ StopLoop \/ StopRecv \/ StopClear
             \/ StopProcessor \/ StopProcessorSet \/ DeleteProcessor \/ StopEnd
    BY <2>1 DEF StartBegin, StartProcessor, StartFails, StartDispatch, StartRecvReset, StopBegin,
       StopLoop, StopRecv, StopClear, StopProcessor, StopProcessorSet, DeleteProcessor, StopEnd
  <2>2. CASE \/ ProtectTop \/ ProtectMeasure \/ ProtectReset
             \/ DispatchTop \/ DispatchEnter \/ SetRecvEvent \/ LoopReturn
             \/ NetworkEvent \/ (\E r \in Requests : MessageCallback(r))
    BY <2>2 DEF ProtectTop, ProtectMeasure, ProtectReset, DispatchTop, DispatchEnter, SetRecvEvent,
       LoopReturn, NetworkEvent, MessageCallback
  <2>3. CASE \E p \in Processors :
               \/ ProcTop(p) \/ ProcPopEmpty(p) \/ ProcPop(p) \/ ProcSetIdle(p)
               \/ ProcWait(p) \/ ProcReset(p) \/ ProcSetBusy(p)
               \/ ProcCount(p) \/ ProcServe(p)
    BY <2>3 DEF ProcTop, ProcPopEmpty, ProcPop, ProcSetIdle, ProcWait, ProcReset, ProcSetBusy,
       ProcCount, ProcServe
  <2>4. CASE UNCHANGED vars
    BY <2>4 DEF vars
  <2> QED
    BY <2>1, <2>2, <2>3, <2>4, NextCases, Zenon
<1> QED
  BY <1>1, <1>2, <1>3, <1>4, <1>5

LEMMA EmptyNext ==
  ASSUME TypeOK, LifeInv, EmptyInv, [Next]_vars
  PROVE  EmptyInv'
<1> USE DEF EmptyInv, TypeOK, CtlOK, ProcChanOK, LifeInv, Stopping, Deleted, Goto, Processors
<1> USE DEF ctlVars, dispVars, recvVars, recvChan, procChan
<1>1. CASE StartBegin \/ StartFails \/ StartDispatch \/ StartRecvReset \/ StartRecvCreate
  BY <1>1 DEF StartBegin, StartFails, StartDispatch, StartRecvReset, StartRecvCreate
<1>2. CASE StartProcessor
  BY <1>2 DEF StartProcessor
<1>3. CASE StopBegin \/ StopLoop \/ StopRecv \/ StopProcessor \/ StopProcessorSet \/ StopEnd
  BY <1>3 DEF StopBegin, StopLoop, StopRecv, StopProcessor, StopProcessorSet, StopEnd
<1>4. CASE StopClear
  BY <1>4 DEF StopClear
<1>5. CASE DeleteProcessor
  BY <1>5 DEF DeleteProcessor
<1>6. CASE \/ DispatchTop \/ DispatchEnter \/ SetRecvEvent \/ LoopReturn
           \/ NetworkEvent \/ (\E r \in Requests : MessageCallback(r))
  <2>1. /\ UNCHANGED <<ctl, cursor, procQueue>> /\ disp \notin {"none", "done"}
        /\ ~(\E r \in Requests : MessageCallback(r)) => recvQueue' = recvQueue
    BY <1>6 DEF DispatchTop, DispatchEnter, SetRecvEvent, LoopReturn, NetworkEvent, MessageCallback
  <2>2. ctl \notin {"init", "startProc", "stopProc", "setProc", "joinProc", "stopped"}
    BY <2>1
  <2> QED
    BY <2>1, <2>2
<1>7. CASE RecvPop
  BY <1>7 DEF RecvPop
<1>8. CASE DispatchPush
  BY <1>8 DEF DispatchPush
<1>9. CASE \E p \in Processors : ProcPop(p)
  BY <1>9 DEF ProcPop
<1>10. CASE UNCHANGED <<ctl, cursor, disp, recvQueue, procQueue>>
  BY <1>10
<1>11. CASE \/ ProtectTop \/ ProtectMeasure \/ ProtectReset
            \/ RecvTop \/ RecvPopEmpty \/ RecvWait \/ RecvReset
            \/ DispatchSkip \/ DispatchFind \/ DispatchClaim \/ DispatchSet \/ DispatchRefuse
  <2>1. UNCHANGED <<ctl, cursor, disp, recvQueue, procQueue>>
    BY <1>11 DEF ProtectTop, ProtectMeasure, ProtectReset, RecvTop, RecvPopEmpty, RecvWait, RecvReset,
       DispatchSkip, DispatchFind, DispatchClaim, DispatchSet, DispatchRefuse
  <2> QED
    BY <1>10, <2>1
<1>12. CASE \E p \in Processors :
              \/ ProcTop(p) \/ ProcPopEmpty(p) \/ ProcSetIdle(p) \/ ProcWait(p) \/ ProcReset(p)
              \/ ProcSetBusy(p) \/ ProcCount(p) \/ ProcServe(p)
  <2>1. UNCHANGED <<ctl, cursor, disp, recvQueue, procQueue>>
    BY <1>12 DEF ProcTop, ProcPopEmpty, ProcSetIdle, ProcWait, ProcReset, ProcSetBusy, ProcCount, ProcServe
  <2> QED
    BY <1>10, <2>1
<1>13. CASE UNCHANGED vars
  BY <1>10, <1>13 DEF vars
<1> QED
  BY <1>1, <1>2, <1>3, <1>4, <1>5, <1>6, <1>7, <1>8, <1>9, <1>11, <1>12, <1>13, NextCases, Zenon

LEMMA KeptHolds == SafetySpec => [](IInv /\ Kept)
<1>1. IInv /\ Kept /\ [Next]_vars => Kept'
  BY OwnNext, RecvHandNext, EmptyNext, Zenon DEF IInv, Kept
<1> QED
  BY <1>1, OwnInit, IInvHolds, PTL DEF SafetySpec

-----------------------------------------------------------------------------
(* Theorems                                                                *)

(* The four kinds of places.                                               *)
Waiting(r) == {<<"recvQueue", 0, i>> : i \in {j \in DOMAIN recvQueue : recvQueue[j] = r}}
Dispatched(r) == {<<"recvReq", 0, 0>> : x \in {recvReq} \cap {r}}
Queueing(p, r) == {<<"procQueue", p, i>> : i \in {j \in DOMAIN procQueue[p] : procQueue[p][j] = r}}
Queueings(r) == UNION {Queueing(p, r) : p \in Processors}
Served(r) == {<<"procReq", p, 0>> : p \in {q \in Processors : procReq[q] = r}}

LEMMA PlacesOf ==
  ASSUME NEW r, NEW x
  PROVE  x \in Places(r) <=>
           \/ \E i \in DOMAIN recvQueue : recvQueue[i] = r /\ x = <<"recvQueue", 0, i>>
           \/ recvReq = r /\ x = <<"recvReq", 0, 0>>
           \/ \E p \in Processors : \E i \in DOMAIN procQueue[p] :
                procQueue[p][i] = r /\ x = <<"procQueue", p, i>>
           \/ \E p \in Processors : procReq[p] = r /\ x = <<"procReq", p, 0>>
<1>1. x \in Waiting(r) <=> \E i \in DOMAIN recvQueue : recvQueue[i] = r /\ x = <<"recvQueue", 0, i>>
  BY Zenon DEF Waiting
<1>2. x \in Dispatched(r) <=> recvReq = r /\ x = <<"recvReq", 0, 0>>
  BY Zenon DEF Dispatched
<1>3. \A p : x \in Queueing(p, r) <=>
               \E i \in DOMAIN procQueue[p] : procQueue[p][i] = r /\ x = <<"procQueue", p, i>>
  BY Zenon DEF Queueing
<1>4. x \in Queueings(r) <=> \E p \in Processors : x \in Queueing(p, r)
  BY DEF Queueings
<1>5. x \in Served(r) <=> \E p \in Processors : procReq[p] = r /\ x = <<"procReq", p, 0>>
  BY Zenon DEF Served
<1>6. Places(r) = Waiting(r) \cup Dispatched(r) \cup Served(r) \cup Queueings(r)
  BY Zenon DEF Places, Waiting, Dispatched, Queueing, Queueings, Served
<1>7. x \in Places(r) <=> x \in Waiting(r) \/ x \in Dispatched(r) \/ x \in Queueings(r) \/ x \in Served(r)
  BY <1>6
<1> QED
  BY <1>1, <1>2, <1>3, <1>4, <1>5, <1>7, Zenon

LEMMA OnePlace ==
  ASSUME OwnInv, NEW r \in Requests, Somewhere(r)
  PROVE  \E x : Places(r) = {x}
<1> USE DEF OwnInv
<1>0. Alone(r)
  OBVIOUS
<1>1. ASSUME NEW i \in DOMAIN recvQueue, recvQueue[i] = r PROVE Places(r) = {<<"recvQueue", 0, i>>}
  <2>1. In(recvQueue, r) /\ recvReq # r /\ \A p \in Processors : ~In(procQueue[p], r) /\ procReq[p] # r
    BY <1>0, <1>1 DEF In, Alone, At
  <2>2. \A j \in DOMAIN recvQueue : recvQueue[j] = r => j = i
    BY <1>1 DEF NoTwice
  <2>3. \A q \in Processors : \A j \in DOMAIN procQueue[q] : procQueue[q][j] # r
    BY <2>1, Zenon DEF In
  <2>4. ASSUME NEW x PROVE x \in Places(r) <=> x = <<"recvQueue", 0, i>>
    BY <1>1, <2>1, <2>2, <2>3, PlacesOf
  <2> QED
    BY <2>4, Zenon
<1>2. ASSUME recvReq = r PROVE Places(r) = {<<"recvReq", 0, 0>>}
  <2>1. ~In(recvQueue, r) /\ \A p \in Processors : ~In(procQueue[p], r) /\ procReq[p] # r
    BY <1>0, <1>2 DEF Alone, At
  <2> QED
    BY <1>2, <2>1, PlacesOf, Zenon DEF In
<1>3. ASSUME NEW p \in Processors, NEW i \in DOMAIN procQueue[p], procQueue[p][i] = r
      PROVE  Places(r) = {<<"procQueue", p, i>>}
  <2>1. At(p, r) /\ In(procQueue[p], r)
    BY <1>3 DEF In, At
  <2>2. ~In(recvQueue, r) /\ recvReq # r /\ \A q \in Processors : procReq[q] # r
    BY <1>0, <2>1 DEF Alone, At
  <2>3. \A q \in Processors : In(procQueue[q], r) => q = p
    BY <1>0, <2>1 DEF Alone, At
  <2>4. \A j \in DOMAIN procQueue[p] : procQueue[p][j] = r => j = i
    BY <1>3 DEF NoTwice
  <2>5. \A q \in Processors : \A j \in DOMAIN procQueue[q] : procQueue[q][j] = r => q = p /\ j = i
    BY <2>3, <2>4, Zenon DEF In
  <2>6. \A j \in DOMAIN recvQueue : recvQueue[j] # r
    BY <2>2, Zenon DEF In
  <2>7. ASSUME NEW x PROVE x \in Places(r) <=> x = <<"procQueue", p, i>>
    BY <1>3, <2>2, <2>5, <2>6, PlacesOf
  <2> QED
    BY <2>7, Zenon
<1>4. ASSUME NEW p \in Processors, procReq[p] = r PROVE Places(r) = {<<"procReq", p, 0>>}
  <2>1. At(p, r)
    BY <1>4 DEF At
  <2>2. ~In(recvQueue, r) /\ recvReq # r /\ \A q \in Processors : ~In(procQueue[q], r)
    BY <1>0, <1>4, <2>1 DEF Alone, At
  <2>3. \A q \in Processors : procReq[q] = r => q = p
    BY <1>0, <2>1 DEF Alone, At
  <2> QED
    BY <1>4, <2>2, <2>3, PlacesOf, Zenon DEF In
<1> QED
  BY <1>1, <1>2, <1>3, <1>4, Zenon DEF Somewhere, At, In

(* A request that waits for its answer is in exactly one queue or thread,  *)
(* any other in none, for any number of requests and processors.           *)
THEOREM RequestsHaveOneOwner == SafetySpec => []OneOwner
<1>1. IInv /\ Kept => OneOwner
  <2> SUFFICES ASSUME OwnInv, NEW r \in Requests
               PROVE  Cardinality(Places(r)) = IF Pending(r) THEN 1 ELSE 0
    BY DEF Kept, OneOwner
  <2>1. CASE Somewhere(r)
    BY <2>1, OnePlace, FS_Singleton DEF OwnInv
  <2>2. CASE ~Somewhere(r)
    <3>0. \A x : x \notin Places(r)
      BY <2>2, PlacesOf, Zenon DEF Somewhere, At, In
    <3>1. Places(r) = {}
      BY <3>0, Zenon
    <3> QED
      BY <2>2, <3>1, FS_EmptySet DEF OwnInv
  <2> QED
    BY <2>1, <2>2
<1> QED
  BY <1>1, KeptHolds, PTL

LEMMA NothingLeft ==
  ASSUME IInv, Kept, ctl \in {"stopProc", "stopped"}, cursor \notin Processors
  PROVE  \A r \in Requests : ~Pending(r)
<1>1. recvQueue = <<>> /\ recv = "done"
  BY DEF IInv, LifeInv, Kept, EmptyInv
<1>2. recvReq = NoRequest
  BY <1>1 DEF Kept, RecvHandInv
<1>3. \A p \in Processors : Deleted(p)
  BY ProcessorsAssumption DEF Deleted, IInv, TypeOK, CtlOK, Processors
<1>4. \A p \in Processors : procQueue[p] = <<>> /\ procReq[p] = NoRequest
  BY <1>3 DEF Kept, EmptyInv, IInv, LifeInv, HandInv
<1>5. \A r \in Requests : ~Somewhere(r)
  BY <1>1, <1>2, <1>4, RequestsAssumption DEF Somewhere, At, In
<1> QED
  BY <1>5 DEF Kept, OwnInv

(* Stop leaves no record behind, but those of requests for which no        *)
(* processor was free.                                                     *)
THEOREM OnlyRefusedAreLeaked == SafetySpec => []OnlyRefusedLeak
<1>1. IInv /\ Kept => OnlyRefusedLeak
  <2> SUFFICES ASSUME IInv, Kept, ctl = "stopped", NEW r \in Requests, record[r] = "live"
               PROVE  reply[r] = "exhausted"
    BY DEF OnlyRefusedLeak
  <2>1. cursor \notin Processors
    BY ProcessorsAssumption DEF IInv, LifeInv, Processors
  <2>2. ~Pending(r)
    BY <2>1, NothingLeft
  <2> QED
    BY <2>2 DEF Kept, AnswerInv, Pending
<1> QED
  BY <1>1, KeptHolds, PTL

(* What the service sees of a step that changes records and replies at     *)
(* some requests only.                                                     *)
LEMMA StatusAt ==
  ASSUME NEW r \in Requests, ReqOK
  PROVE  /\ Status(r) = "accepted" <=> Pending(r)
         /\ record[r] = "none" /\ reply[r] = "none" => Status(r) = "new"
         /\ record[r] = "freed" /\ reply[r] = "none" => Status(r) = "dropped"
         /\ reply[r] # "none" => Status(r) = reply[r]
<1>1. /\ reply[r] \in {"none", "served", "overload", "exhausted"}
      /\ record[r] \in {"none", "live", "freed"}
  BY DEF ReqOK, Answers
<1> QED
  BY <1>1 DEF Status, Pending

LEMMA Phases ==
  ASSUME TypeOK, [Next]_vars
  PROVE  \/ Phase' = Phase
         \/ StopBegin /\ Phase = "open" /\ Phase' = "closing"
         \/ StopEnd /\ Phase = "closing" /\ Phase' = "closed"
<1> USE DEF Phase, Goto, ctlVars
<1>1. CASE StartBegin \/ StartProcessor \/ StartFails \/ StartDispatch \/ StartRecvReset \/ StartRecvCreate
  BY <1>1 DEF StartBegin, StartProcessor, StartFails, StartDispatch, StartRecvReset, StartRecvCreate
<1>2. CASE StopBegin
  BY <1>2 DEF StopBegin
<1>3. CASE StopEnd
  BY <1>3 DEF StopEnd
<1>4. CASE StopLoop \/ StopRecv \/ StopClear \/ StopProcessor \/ StopProcessorSet \/ DeleteProcessor
  BY <1>4 DEF StopLoop, StopRecv, StopClear, StopProcessor, StopProcessorSet, DeleteProcessor
<1>5. CASE \/ ProtectTop \/ ProtectMeasure \/ ProtectReset
           \/ DispatchTop \/ DispatchEnter \/ SetRecvEvent \/ LoopReturn
           \/ NetworkEvent \/ (\E r \in Requests : MessageCallback(r))
  BY <1>5 DEF ProtectTop, ProtectMeasure, ProtectReset, DispatchTop, DispatchEnter, SetRecvEvent,
     LoopReturn, NetworkEvent, MessageCallback
<1>6. CASE \/ RecvTop \/ RecvPopEmpty \/ RecvPop \/ RecvWait \/ RecvReset
           \/ DispatchSkip \/ DispatchFind \/ DispatchClaim \/ DispatchPush
           \/ DispatchSet \/ DispatchRefuse
  BY <1>6 DEF RecvTop, RecvPopEmpty, RecvPop, RecvWait, RecvReset, DispatchSkip, DispatchFind,
     DispatchClaim, DispatchPush, DispatchSet, DispatchRefuse
<1>7. CASE \E p \in Processors :
             \/ ProcTop(p) \/ ProcPopEmpty(p) \/ ProcPop(p) \/ ProcSetIdle(p)
             \/ ProcWait(p) \/ ProcReset(p) \/ ProcSetBusy(p) \/ ProcCount(p) \/ ProcServe(p)
  BY <1>7 DEF ProcTop, ProcPopEmpty, ProcPop, ProcSetIdle, ProcWait, ProcReset, ProcSetBusy, ProcCount,
     ProcServe
<1>8. CASE UNCHANGED vars
  BY <1>8 DEF vars
<1> QED
  BY <1>1, <1>2, <1>3, <1>4, <1>5, <1>6, <1>7, <1>8, NextCases, Zenon

(* The listener, for any number of requests and processors, implements the *)
(* service: every step of its threads accepts, answers or drops requests   *)
(* as the service may, or is invisible to the clients.                     *)
THEOREM ListenerImplementsService == SafetySpec => ImplementsService
<1> DEFINE S == [r \in Requests |-> Status(r)]
<1>1. Init => Service!AInit
  BY DEF Init, Service!AInit, Phase, Status
<1>2. IInv /\ Kept /\ [Next]_vars => [Service!ANext]_(Service!avars)
  <2> SUFFICES ASSUME IInv, Kept, [Next]_vars
               PROVE  Service!ANext \/ UNCHANGED Service!avars
    OBVIOUS
  <2>0. TypeOK /\ ReqOK /\ ReqOK' /\ OwnInv /\ TypeOK'
    BY TypeNext DEF IInv, TypeOK, Kept
  <2>1. CASE UNCHANGED <<record, reply>>
    <3>1. S' = S
      BY <2>1 DEF Status
    <3>2. CASE Phase' = Phase
      BY <3>1, <3>2 DEF Service!avars
    <3>3. CASE StopBegin /\ Phase = "open" /\ Phase' = "closing"
      BY <3>1, <3>3 DEF Service!ANext, Service!Close
    <3>4. CASE StopEnd /\ Phase = "closing" /\ Phase' = "closed"
      <4>1. \A r \in Requests : ~Pending(r)
        BY <3>4, NothingLeft DEF StopEnd
      <4>2. Service!Accepted = {}
        BY <4>1, <2>0, StatusAt DEF Service!Accepted
      <4> QED
        BY <3>1, <3>4, <4>2 DEF Service!ANext, Service!Closed
    <3> QED
      BY <2>0, <3>2, <3>3, <3>4, Phases
  <2>2. ASSUME NEW s \in Requests, MessageCallback(s) PROVE Service!ANext
    <3>1. /\ record[s] = "none" /\ record' = [record EXCEPT ![s] = "live"] /\ reply' = reply
          /\ disp \in {"block", "poll"} /\ ctl' = ctl
      BY <2>2 DEF MessageCallback, ctlVars
    <3>2. reply[s] = "none"
      BY <3>1 DEF Kept, AnswerInv
    <3>3. Phase' = Phase /\ Phase # "closed"
      BY <3>1, <2>0 DEF Phase, IInv, LifeInv, Stopping, TypeOK, CtlOK, CtlStates
    <3>4. \A r \in Requests : r # s => Status(r)' = Status(r)
      BY <2>0, <3>1 DEF Status, ReqOK
    <3>5. Status(s) = "new" /\ Status(s)' = "accepted"
      BY <2>0, <3>1, <3>2 DEF Status, ReqOK
    <3>6. S[s] = "new" /\ S' = [S EXCEPT ![s] = "accepted"]
      BY <3>4, <3>5
    <3>7. Service!Accept(s)
      BY <3>3, <3>6 DEF Service!Accept
    <3> QED
      BY <3>7 DEF Service!ANext
  <2>3. ASSUME NEW s \in Requests, NEW a \in Answers, Pending(s), Phase' = Phase,
               reply' = [reply EXCEPT ![s] = a],
               \A r \in Requests : r # s => record'[r] = record[r]
        PROVE  Service!ANext
    <3>1. a # "none"
      BY DEF Answers
    <3>2. \A r \in Requests : r # s => Status(r)' = Status(r)
      BY <2>0, <2>3 DEF Status, ReqOK
    <3>3. Status(s) = "accepted" /\ Status(s)' = a
      <4>1. Status(s) = "accepted"
        BY <2>0, <2>3, StatusAt
      <4>2. reply'[s] = a
        BY <2>0, <2>3 DEF ReqOK
      <4>3. Status(s)' = a
        BY <3>1, <4>2 DEF Status
      <4> QED
        BY <4>1, <4>3
    <3>4. S[s] = "accepted" /\ S' = [S EXCEPT ![s] = a]
      BY <3>2, <3>3
    <3>5. Service!Answer(s, a)
      BY <2>3, <3>4 DEF Service!Answer
    <3> QED
      BY <3>5 DEF Service!ANext
  <2>4. CASE DispatchRefuse
    <3>1. recvReq \in Requests /\ ctl' = ctl /\ record' = record
          /\ reply' = [reply EXCEPT ![recvReq] = "exhausted"]
      BY <2>0, <2>4 DEF DispatchRefuse, TypeOK, RecvOK, ctlVars
    <3>2. Pending(recvReq)
      BY <2>0, <3>1 DEF OwnInv, Somewhere
    <3>3. Phase' = Phase /\ "exhausted" \in Answers
      BY <3>1 DEF Phase, Answers
    <3> QED
      BY <2>3, <3>1, <3>2, <3>3
  <2>5. ASSUME NEW p \in Processors, ProcServe(p) PROVE Service!ANext
    <3> DEFINE s == procReq[p]
               a == IF isOverload THEN "overload" ELSE "served"
    <3>1. /\ s \in Requests /\ ctl' = ctl
          /\ \A r \in Requests : r # s => record'[r] = record[r]
          /\ reply' = [reply EXCEPT ![s] = a]
      BY <2>0, <2>5 DEF ProcServe, TypeOK, ProcOK, ctlVars, ReqOK
    <3>2. Pending(s)
      BY <2>0, <3>1 DEF OwnInv, Somewhere, At
    <3>3. Phase' = Phase /\ a \in Answers
      BY <3>1 DEF Phase, Answers
    <3> HIDE DEF s, a
    <3> QED
      BY <2>3, <3>1, <3>2, <3>3
  <2>6. ASSUME NEW R \in SUBSET Requests, \A r \in R : Pending(r), reply' = reply,
               \A r \in Requests : record'[r] = IF r \in R THEN "freed" ELSE record[r],
               Phase = "closing", Phase' = "closing"
        PROVE  Service!ANext
    <3>1. \A r \in Requests : Status(r)' = IF r \in R THEN "dropped" ELSE Status(r)
      BY <2>0, <2>6 DEF Status, Pending
    <3>2. R \in SUBSET Service!Accepted
      BY <2>0, <2>6, StatusAt DEF Service!Accepted
    <3>3. Service!Drop(R)
      BY <2>6, <3>1 DEF Service!Drop
    <3> QED
      BY <3>2, <3>3 DEF Service!ANext
  <2>7. CASE StopClear
    <3> DEFINE R == {r \in Requests : In(recvQueue, r)}
    <3>1. /\ reply' = reply /\ ctl = "joinRecv" /\ ctl' = "stopProc"
          /\ \A r \in Requests : record'[r] = IF In(recvQueue, r) THEN "freed" ELSE record[r]
      BY <2>7 DEF StopClear, FreeRecords, In
    <3>2. \A r \in R : Pending(r)
      BY <2>0 DEF OwnInv, Somewhere
    <3>3. Phase = "closing" /\ Phase' = "closing"
      BY <3>1 DEF Phase
    <3>4. R \in SUBSET Requests /\ \A r \in Requests : r \in R <=> In(recvQueue, r)
      OBVIOUS
    <3> HIDE DEF R
    <3>5. \A r \in Requests : record'[r] = IF r \in R THEN "freed" ELSE record[r]
      BY <3>1, <3>4
    <3> QED
      BY <2>6, <3>1, <3>2, <3>3, <3>4, <3>5
  <2>8. CASE DeleteProcessor
    <3>0. PICK c \in Processors : c = cursor
      BY <2>0, <2>8 DEF DeleteProcessor, TypeOK, CtlOK
    <3> DEFINE R == {r \in Requests : In(procQueue[c], r)}
    <3>1. /\ reply' = reply /\ ctl = "joinProc" /\ ctl' = "stopProc"
          /\ \A r \in Requests : record'[r] = IF In(procQueue[c], r) THEN "freed" ELSE record[r]
      BY <2>8, <3>0 DEF DeleteProcessor, FreeRecords, In
    <3>2. \A r \in R : Pending(r)
      BY <2>0 DEF OwnInv, Somewhere, At
    <3>3. Phase = "closing" /\ Phase' = "closing"
      BY <3>1 DEF Phase
    <3>4. R \in SUBSET Requests /\ \A r \in Requests : r \in R <=> In(procQueue[c], r)
      OBVIOUS
    <3> HIDE DEF R
    <3>5. \A r \in Requests : record'[r] = IF r \in R THEN "freed" ELSE record[r]
      BY <3>1, <3>4
    <3> QED
      BY <2>6, <3>1, <3>2, <3>3, <3>4, <3>5
  <2>9. CASE StartBegin \/ RecvPop \/ DispatchPush \/ (\E p \in Processors : ProcPop(p)) \/ UNCHANGED ownVars
    BY <2>1, <2>9 DEF StartBegin, RecvPop, DispatchPush, ProcPop, reqVars, ownVars
  <2> QED
    BY <2>2, <2>4, <2>5, <2>7, <2>8, <2>9, Moves
<1> QED
  BY <1>1, <1>2, KeptHolds, PTL DEF SafetySpec, ImplementsService, Service!ASpec
=============================================================================
