--------------------------- MODULE OServerProofs ---------------------------
(***************************************************************************)
(* For any number of services and of callers of BreakLoop: the types, that *)
(* a service is freed only when the threads its Stop reaches have ended,   *)
(* that those it misses are one failed listener's, and that lookups        *)
(* without the lock are safe while no Stop fails.                          *)
(***************************************************************************)
EXTENDS OServer, TLAPS

(* No service runs before Run, none but those being stopped is freed, and  *)
(* main has stopped all the services it has walked past; a walk begins at  *)
(* the first of them.                                                      *)
Quiet ==
  /\ pc \in {"add", "run"} => \A s \in Services : worker[s] = "none"
  /\ pc \in {"stop", "join"} => \A s \in Services : s < at => worker[s] = "none"
  /\ (pc \in {"remove", "unload", "clear", "done"} /\ ~stopFailed) =>
        \A s \in Services : worker[s] = "none"
  /\ freed # {} => pc \in {"remove", "unload", "clear", "done"}

AtStart == pc \in {"wait", "reset", "test", "deinit"} => at = 1

(* While main starts the services, those from the one it is at have no     *)
(* thread and nothing is lost; a Start that fails is the last one.         *)
LostInv ==
  /\ LostAreLast
  /\ pc \in {"add", "run", "start"} => lost = {}
  /\ pc = "start" => \A s \in Services : s >= at => worker[s] = "none"

BaseInv == TypeOK /\ AtStart /\ FreedAreStopped /\ Quiet

IInv == BaseInv /\ LostInv

(* The walk of main over the map stays inside it.                          *)
LEMMA WalkType ==
  ASSUME NEW place, NEW end, at \in Services, Walk(place, end)
  PROVE  at' \in Services
BY ServicesAssumption DEF Walk, Services

(* The end of a walk: the last service is the one it was at.               *)
LEMMA WalkEnd ==
  ASSUME NEW place, NEW end, place # end, at \in Services, Walk(place, end)
  PROVE  /\ pc' = place => at' = at + 1
         /\ pc' = end => at = NumServices /\ at' = 1
         /\ pc' \in {place, end}
BY ServicesAssumption DEF Walk, Services

LEMMA InitInv == Init => IInv
<1> SUFFICES ASSUME Init PROVE IInv
  OBVIOUS
<1>1. 1 \in Services
  BY ServicesAssumption DEF Services
<1>2. TypeOK
  BY <1>1 DEF Init, TypeOK, Places
<1>3. FreedAreStopped /\ Quiet /\ AtStart /\ LostInv
  BY DEF Init, AtStart, FreedAreStopped, Quiet, LostInv, LostAreLast
<1> QED
  BY <1>2, <1>3 DEF IInv, BaseInv

(* main keeps the invariant: one step for each of its actions.             *)
LEMMA MainInv == BaseInv /\ MainNext => BaseInv'
<1> SUFFICES ASSUME BaseInv, MainNext PROVE BaseInv'
  OBVIOUS
<1> USE DEF BaseInv
<1>1. CASE AddService
  <2>1. at' \in Services /\ pc' \in {"add", "run"}
    BY <1>1, WalkType, WalkEnd DEF AddService, TypeOK
  <2> QED
    BY <1>1, <2>1 DEF AddService, TypeOK, AtStart, FreedAreStopped, Quiet, loopVars,
       serviceVars, Services, Places
<1>2. CASE Run
  BY <1>2, ServicesAssumption DEF Run, Go, TypeOK, AtStart, FreedAreStopped, Quiet,
     serviceVars, Services, Places
<1>3. CASE StartService
  <2>1. at' \in Services /\ pc' \in {"start", "wait"} /\ (pc' = "wait" => at' = 1)
    BY <1>3, WalkType, WalkEnd DEF StartService, TypeOK
  <2>2. freed = {}
    BY <1>3 DEF StartService, Quiet
  <2> QED
    BY <1>3, <2>1, <2>2 DEF StartService, TypeOK, AtStart, FreedAreStopped, Quiet, loopVars,
       Services, Places
<1>4. CASE StartFails
  <2>2. freed = {}
    BY <1>4 DEF StartFails, Go, Quiet
  <2>3. at' \in Services /\ pc' = "wait"
    BY <1>4, ServicesAssumption DEF StartFails, Go, Services
  <2>4. worker' \in [Services -> {"none", "idle", "looking", "using"}]
    BY <1>4 DEF StartFails, FailedStart, TypeOK
  <2>5. TypeOK'
    BY <1>4, <2>3, <2>4 DEF StartFails, FailedStart, TypeOK, loopVars, Places
  <2>6. FreedAreStopped' /\ Quiet' /\ AtStart'
    BY <1>4, <2>2, <2>3 DEF StartFails, AtStart, FreedAreStopped, Quiet
  <2> QED
    BY <2>5, <2>6
<1>5. CASE WaitLoopEvent \/ ResetLoopEvent \/ LoopTest
  BY <1>5 DEF WaitLoopEvent, ResetLoopEvent, LoopTest, Go, TypeOK, AtStart, FreedAreStopped,
     Quiet, serviceVars, loopVars, Places
<1>6. CASE Deinit
  <2>0. at = 1
    BY <1>6 DEF Deinit, Go, AtStart
  <2>1. TypeOK'
    BY <1>6 DEF Deinit, Go, TypeOK, serviceVars, Places
  <2>2. FreedAreStopped' /\ Quiet'
    BY <1>6, <2>0 DEF Deinit, Go, TypeOK, AtStart, FreedAreStopped, Quiet, serviceVars, Services
  <2> QED
    BY <1>6, <2>0, <2>1, <2>2 DEF Deinit, Go, AtStart
<1>7. CASE StopService
  BY <1>7 DEF StopService, Go, TypeOK, AtStart, FreedAreStopped, Quiet, loopVars, Places
<1>8. CASE StopJoined
  <2>1. at' \in Services /\ pc' \in {"stop", "remove"}
    BY <1>8, WalkType, WalkEnd DEF StopJoined, TypeOK
  <2>2. \A s \in Services : s <= at => worker[s] = "none"
    BY <1>8 DEF StopJoined, Quiet, TypeOK, Services
  <2>3. /\ pc' = "stop" => at' = at + 1
        /\ pc' = "remove" => at = NumServices
    BY <1>8, WalkEnd DEF StopJoined, TypeOK
  <2>4. freed = {}
    BY <1>8 DEF StopJoined, Quiet
  <2>5. TypeOK'
    BY <1>8, <2>1 DEF StopJoined, TypeOK, serviceVars, loopVars, Places
  <2>6. FreedAreStopped' /\ Quiet'
    BY <1>8, <2>1, <2>2, <2>3, <2>4 DEF StopJoined, TypeOK, AtStart, FreedAreStopped, Quiet,
       serviceVars, Services
  <2>7. AtStart'
    BY <1>8, <2>1 DEF StopJoined, AtStart
  <2> QED
    BY <2>5, <2>6, <2>7
<1>9. CASE StopFails
  <2>0. at' \in Services /\ pc' = "remove" /\ stopFailed' = TRUE
    BY <1>9, ServicesAssumption DEF StopFails, Go, Services
  <2>1. TypeOK' /\ AtStart'
    BY <1>9, <2>0 DEF StopFails, TypeOK, AtStart, serviceVars, loopVars, Places
  <2>2. FreedAreStopped' /\ Quiet'
    BY <1>9, <2>0 DEF StopFails, Go, FreedAreStopped, Quiet, serviceVars
  <2> QED
    BY <2>1, <2>2
<1>10. CASE RemoveService
  BY <1>10 DEF RemoveService, Go, TypeOK, AtStart, FreedAreStopped, Quiet, loopVars, Places
<1>11. CASE ServiceRemoved
  <2>1. at' \in Services /\ pc' \in {"remove", "clear"}
    BY <1>11, WalkType, WalkEnd DEF ServiceRemoved, TypeOK
  <2> QED
    BY <1>11, <2>1 DEF ServiceRemoved, TypeOK, AtStart, FreedAreStopped, Quiet, serviceVars,
       loopVars, Places
<1>12. CASE ClearServices
  BY <1>12 DEF ClearServices, Go, TypeOK, AtStart, FreedAreStopped, Quiet, serviceVars,
     loopVars, Places
<1> QED
  BY <1>1, <1>2, <1>3, <1>4, <1>5, <1>6, <1>7, <1>8, <1>9, <1>10, <1>11, <1>12
     DEF MainNext

(* A thread of a service keeps it: one that has ended stays ended.         *)
LEMMA WorkerInv == ASSUME NEW s \in Services PROVE BaseInv /\ WorkerNext(s) => BaseInv'
<1> SUFFICES ASSUME BaseInv, WorkerNext(s) PROVE BaseInv'
  OBVIOUS
<1> USE DEF BaseInv, mainVars, loopVars
<1>1. ASSUME NEW t \in Services, Lookup(s, t) PROVE BaseInv'
  BY <1>1 DEF Lookup, TypeOK, AtStart, FreedAreStopped, Quiet
<1>2. CASE GetService(s)
  BY <1>2 DEF GetService, TypeOK, AtStart, FreedAreStopped, Quiet
<1>3. CASE Used(s)
  BY <1>3 DEF Used, TypeOK, AtStart, FreedAreStopped, Quiet
<1>4. CASE WorkerEnds(s)
  BY <1>4 DEF WorkerEnds, TypeOK, AtStart, FreedAreStopped, Quiet
<1> QED
  BY <1>1, <1>2, <1>3, <1>4 DEF WorkerNext

(* BreakLoop touches no service.                                           *)
LEMMA BreakerInv == ASSUME NEW b \in Breakers PROVE BaseInv /\ BreakerNext(b) => BaseInv'
BY DEF BaseInv, BreakerNext, BreakStatus, BreakEvent, TypeOK, AtStart, FreedAreStopped, Quiet,
   mainVars, serviceVars

(* Most steps start no service: a thread appears in none that had none,    *)
(* nothing is lost, and main starts no walk over the services to start.    *)
LEMMA LostKept ==
  ASSUME LostInv, UNCHANGED lost,
         \A s \in Services : worker[s] = "none" => worker'[s] = "none",
         pc' \in {"add", "run", "start"} =>
           pc \in {"add", "run", "start"} /\ (pc' = "start" => pc = "start" /\ at' = at)
  PROVE  LostInv'
BY DEF LostInv, LostAreLast

(* No step but a Start that fails loses a listener, and it is the last     *)
(* Start.                                                                  *)
LEMMA LostStep == BaseInv /\ LostInv /\ Next => LostInv'
<1> SUFFICES ASSUME BaseInv, LostInv, Next PROVE LostInv'
  OBVIOUS
<1>0. TypeOK /\ at \in Services /\ \A s \in Services : s \in Nat
  BY DEF BaseInv, TypeOK, Services
<1>1. CASE AddService
  <2>1. pc' \in {"add", "run"}
    BY <1>0, <1>1, WalkEnd DEF AddService
  <2> QED
    BY <1>1, <2>1, LostKept DEF AddService, serviceVars
<1>2. CASE Run
  <2>1. /\ pc' = "start" /\ UNCHANGED <<worker, lost>>
        /\ lost = {} /\ \A s \in Services : worker[s] = "none"
    BY <1>2 DEF Run, Go, serviceVars, LostInv, BaseInv, Quiet
  <2> QED
    BY <2>1 DEF LostInv, LostAreLast
<1>3. CASE StartService
  <2>1. /\ pc' \in {"start", "wait"} /\ (pc' = "start" => at' = at + 1)
        /\ lost = {} /\ lost' = {} /\ \A s \in Services : s >= at => worker[s] = "none"
        /\ worker' = [worker EXCEPT ![at] = "idle"]
    BY <1>0, <1>3, WalkEnd DEF StartService, LostInv
  <2>2. \A s \in Services : s >= at + 1 => worker'[s] = "none"
    BY <1>0, <2>1 DEF TypeOK
  <2> QED
    BY <2>1, <2>2 DEF LostInv, LostAreLast
<1>4. CASE StartFails
  <2>1. /\ pc' = "wait" /\ lost = {} /\ lost' \subseteq {at}
        /\ \A s \in Services : s >= at => worker[s] = "none"
        /\ \A s \in Services \ {at} : worker'[s] = worker[s]
    BY <1>0, <1>4 DEF StartFails, FailedStart, Go, LostInv, TypeOK
  <2>2. \A s \in Services : s > at => worker'[s] = "none"
    BY <1>0, <2>1
  <2> QED
    BY <2>1, <2>2 DEF LostInv, LostAreLast
<1>5. CASE WaitLoopEvent \/ ResetLoopEvent \/ LoopTest \/ Deinit
  BY <1>5, LostKept DEF WaitLoopEvent, ResetLoopEvent, LoopTest, Deinit, Go, serviceVars
<1>6. CASE StopService \/ StopFails \/ RemoveService \/ ClearServices
  BY <1>6, LostKept DEF StopService, StopFails, RemoveService, ClearServices, Go, serviceVars
<1>7. CASE StopJoined \/ ServiceRemoved
  <2>1. pc' \in {"stop", "remove", "clear"} /\ UNCHANGED <<worker, lost>>
    BY <1>7 DEF StopJoined, ServiceRemoved, Walk, serviceVars
  <2> QED
    BY <2>1, LostKept
<1>8. ASSUME NEW s \in Services, WorkerNext(s) PROVE LostInv'
  <2>1. UNCHANGED <<pc, at, lost>>
    BY <1>8 DEF WorkerNext, Lookup, GetService, Used, WorkerEnds, mainVars
  <2>2. \A t \in Services : worker[t] = "none" => worker'[t] = "none"
    BY <1>0, <1>8 DEF WorkerNext, Lookup, GetService, Used, WorkerEnds, TypeOK
  <2> QED
    BY <2>1, <2>2, LostKept
<1>9. ASSUME NEW b \in Breakers, BreakerNext(b) PROVE LostInv'
  BY <1>9, LostKept DEF BreakerNext, BreakStatus, BreakEvent, mainVars, serviceVars
<1> QED
  BY <1>1, <1>2, <1>3, <1>4, <1>5, <1>6, <1>7, <1>8, <1>9 DEF Next, MainNext

(* The invariant holds in every state.                                     *)
THEOREM Inductive == SafetySpec => []IInv
<1>1. IInv /\ [Next]_vars => IInv'
  <2> SUFFICES ASSUME IInv, [Next]_vars PROVE IInv'
    OBVIOUS
  <2>1. CASE UNCHANGED vars
    BY <2>1 DEF IInv, BaseInv, vars, TypeOK, AtStart, FreedAreStopped, Quiet, LostInv,
       LostAreLast
  <2> QED
    BY <2>1, MainInv, WorkerInv, BreakerInv, LostStep DEF IInv, Next
<1> QED
  BY <1>1, InitInv, PTL DEF SafetySpec

(* Types: main never walks past the end of the map.                        *)
THEOREM ServerTypeCorrect == Spec => []TypeOK
<1>1. IInv => TypeOK
  BY DEF IInv, BaseInv
<1> QED
  BY <1>1, Inductive, PTL DEF Spec

(* RemoveAllService frees no service while a thread of a listener in its   *)
(* list runs, even after a Start or a Stop that failed.                    *)
THEOREM FreedServicesAreStopped == Spec => []FreedAreStopped
<1>1. IInv => FreedAreStopped
  BY DEF IInv, BaseInv
<1> QED
  BY <1>1, Inductive, PTL DEF Spec

(* The lock commented out in GetService is not missed while no Stop fails. *)
THEOREM LookupsWithoutLockAreSafe == Spec => []LookupsAreSafe
<1>1. IInv => LookupsAreSafe
  BY DEF IInv, BaseInv, TypeOK, AtStart, FreedAreStopped, Quiet, LookupsAreSafe
<1> QED
  BY <1>1, Inductive, PTL DEF Spec

(* For any number of services: a service outlives the threads of the       *)
(* listeners in its list; the threads that nothing joins are those of one  *)
(* failed listener, of the last service started; and unlocked lookups meet *)
(* no freed service and no changing map unless a Stop failed.              *)
THEOREM ServicesAreSound == Spec => []ServicesSound
<1>1. TypeOK /\ FreedAreStopped /\ LostAreLast /\ LookupsAreSafe => ServicesSound
  BY DEF ServicesSound
<1>2. IInv => LostAreLast
  BY DEF IInv, LostInv
<1>3. Spec => []LostAreLast
  BY <1>2, Inductive, PTL DEF Spec
<1> QED
  BY <1>1, <1>3, ServerTypeCorrect, FreedServicesAreStopped, LookupsWithoutLockAreSafe, PTL
=============================================================================
