------------------------------ MODULE OServer ------------------------------
(***************************************************************************)
(* OServer of core/OServer.cpp and main of fms.cpp: the services are added,*)
(* started, stopped and deleted by the main thread, which sleeps in Loop   *)
(* until some thread calls BreakLoop.  The threads of a service (one here  *)
(* for all of them) may look other services up with GetService, which      *)
(* takes no lock, and use what they find.  A listener whose Start failed   *)
(* is in no list: its threads run on, whatever is stopped and deleted.     *)
(***************************************************************************)
EXTENDS Naturals

CONSTANTS
  NumServices,     \* the services of the map, in the order of their names
  Breakers         \* threads that call BreakLoop, once each

ASSUME ServicesAssumption == NumServices \in Nat \ {0}

Services == 1 .. NumServices

VARIABLES
  pc, at,          \* where main is, and at which service of the map
  isRunning,       \* m_isRunning
  signalled,       \* m_loopEvent
  selfReset,       \* its wait resets it: POSIX, not WIN32
  mapService,      \* m_mapService
  worker, ref,     \* where the thread of each service that its Stop joins is,
                   \* and what it looks up
  lost,            \* services with a listener that is not in their list, whose
                   \* threads nothing joins
  stopping,        \* services whose thread is told to end
  freed,           \* services whose object is deleted
  breaker,         \* where each caller of BreakLoop is
  stopFailed       \* history: the Stop of a service has failed

mainVars == <<pc, at>>
loopVars == <<isRunning, signalled, selfReset>>
serviceVars == <<worker, ref, lost, stopping>>
vars == <<pc, at, isRunning, signalled, selfReset, mapService, worker, ref,
          lost, stopping, freed, breaker, stopFailed>>

Init ==
  /\ pc = "add" /\ at = 1
  /\ isRunning = FALSE /\ signalled = FALSE /\ selfReset \in BOOLEAN
  /\ mapService = {}
  /\ worker = [s \in Services |-> "none"] /\ ref = [s \in Services |-> s]
  /\ lost = {} /\ stopping = {} /\ freed = {}
  /\ breaker = [b \in Breakers |-> "idle"]
  /\ stopFailed = FALSE

Go(from, to) == pc = from /\ pc' = to

(* The walk over the map goes on, or ends.                                 *)
Walk(place, end) ==
  /\ at' = (IF at = NumServices THEN 1 ELSE at + 1)
  /\ pc' = (IF at = NumServices THEN end ELSE place)

(* m_lockService is held over the walks, but not by GetService.            *)
LockService == pc \in {"start", "stop", "join", "remove", "unload", "clear"}

-----------------------------------------------------------------------------
(* main: Init and Run.  Init does not fail: Load answers true for any file *)
(* and an OHttpService has a name of its own.                              *)

AddService ==
  /\ pc = "add"
  /\ mapService' = mapService \cup {at}
  /\ Walk("add", "run")
  /\ UNCHANGED <<loopVars, serviceVars, freed, breaker, stopFailed>>

Run ==
  /\ Go("run", "start")
  /\ isRunning' = TRUE
  /\ UNCHANGED <<at, signalled, selfReset, mapService, serviceVars, freed,
                 breaker, stopFailed>>

StartService ==
  /\ pc = "start"
  /\ worker' = [worker EXCEPT ![at] = "idle"]
  /\ Walk("start", "wait")
  /\ UNCHANGED <<loopVars, mapService, ref, lost, stopping, freed, breaker,
                 stopFailed>>

(* What a Start that fails leaves: nothing, without a socket, or else a    *)
(* listener with threads that it has not put into its list, and those it   *)
(* has, if any.  The lost listener has no dispatch thread: it serves no    *)
(* request, and looks no service up.                                       *)
FailedStart(s) ==
  \/ UNCHANGED <<worker, lost>>
  \/ /\ lost' = lost \cup {s}
     /\ \E w \in {"none", "idle"} : worker' = [worker EXCEPT ![s] = w]

(* A Start that fails ends the walk, and Run; main goes on to Loop.        *)
StartFails ==
  /\ Go("start", "wait")
  /\ FailedStart(at)
  /\ at' = 1
  /\ UNCHANGED <<loopVars, mapService, ref, stopping, freed, breaker, stopFailed>>

-----------------------------------------------------------------------------
(* main: Loop                                                              *)

WaitLoopEvent ==
  /\ Go("wait", "reset")
  /\ signalled
  /\ signalled' = ~selfReset
  /\ UNCHANGED <<at, isRunning, selfReset, mapService, serviceVars, freed,
                 breaker, stopFailed>>

ResetLoopEvent ==
  /\ Go("reset", "test")
  /\ signalled' = FALSE
  /\ UNCHANGED <<at, isRunning, selfReset, mapService, serviceVars, freed,
                 breaker, stopFailed>>

LoopTest ==
  /\ pc = "test"
  /\ pc' = (IF isRunning THEN "wait" ELSE "deinit")
  /\ UNCHANGED <<at, loopVars, mapService, serviceVars, freed, breaker, stopFailed>>

-----------------------------------------------------------------------------
(* main: Deinit                                                            *)

Deinit ==
  /\ Go("deinit", "stop")
  /\ isRunning' = FALSE /\ signalled' = TRUE
  /\ UNCHANGED <<at, selfReset, mapService, serviceVars, freed, breaker, stopFailed>>

(* StopServiceThread calls Stop of the next service, started or not ...    *)
StopService ==
  /\ Go("stop", "join")
  /\ stopping' = stopping \cup {at}
  /\ UNCHANGED <<at, loopVars, mapService, worker, ref, lost, freed, breaker,
                 stopFailed>>

(* Mutant: Stop does not wait for the threads.                             *)
StopUnjoined ==
  /\ pc = "join"
  /\ Walk("stop", "remove")
  /\ UNCHANGED <<loopVars, mapService, serviceVars, freed, breaker, stopFailed>>

(* ... which joins the threads of the listeners in its list.               *)
StopJoined ==
  /\ pc = "join" /\ worker[at] = "none"
  /\ Walk("stop", "remove")
  /\ UNCHANGED <<loopVars, mapService, serviceVars, freed, breaker, stopFailed>>

(* A Stop that fails leaves the services after it running.                 *)
StopFails ==
  /\ Go("stop", "remove")
  /\ at' = 1
  /\ stopFailed' = TRUE
  /\ UNCHANGED <<loopVars, mapService, serviceVars, freed, breaker>>

(* RemoveAllService: the destructor of each service stops it again, ...    *)
RemoveService ==
  /\ Go("remove", "unload")
  /\ stopping' = stopping \cup {at}
  /\ UNCHANGED <<at, loopVars, mapService, worker, ref, lost, freed, breaker,
                 stopFailed>>

(* ... and its memory is freed; the pointers stay in the map ...           *)
ServiceRemoved ==
  /\ pc = "unload" /\ worker[at] = "none"
  /\ freed' = freed \cup {at}
  /\ Walk("remove", "clear")
  /\ UNCHANGED <<loopVars, mapService, serviceVars, breaker, stopFailed>>

(* ... to the end.                                                         *)
ClearServices ==
  /\ Go("clear", "done")
  /\ mapService' = {}
  /\ UNCHANGED <<at, loopVars, serviceVars, freed, breaker, stopFailed>>

-----------------------------------------------------------------------------
(* The threads of a service                                                *)

(* GetService begins to read the map ...                                   *)
Lookup(s, t) ==
  /\ worker[s] = "idle" /\ s \notin stopping
  /\ worker' = [worker EXCEPT ![s] = "looking"]
  /\ ref' = [ref EXCEPT ![s] = t]
  /\ UNCHANGED <<mainVars, loopVars, mapService, lost, stopping, freed, breaker,
                 stopFailed>>

(* Mutant: GetService takes the lock that is commented out in it.          *)
GetServiceLocked(s) ==
  /\ worker[s] = "looking" /\ ~LockService
  /\ worker' = [worker EXCEPT ![s] = IF ref[s] \in mapService THEN "using" ELSE "idle"]
  /\ UNCHANGED <<mainVars, loopVars, mapService, ref, lost, stopping, freed, breaker,
                 stopFailed>>

(* ... and returns the service, or NULL.                                   *)
GetService(s) ==
  /\ worker[s] = "looking"
  /\ worker' = [worker EXCEPT ![s] = IF ref[s] \in mapService THEN "using" ELSE "idle"]
  /\ UNCHANGED <<mainVars, loopVars, mapService, ref, lost, stopping, freed, breaker,
                 stopFailed>>

Used(s) ==
  /\ worker[s] = "using"
  /\ worker' = [worker EXCEPT ![s] = "idle"]
  /\ UNCHANGED <<mainVars, loopVars, mapService, ref, lost, stopping, freed, breaker,
                 stopFailed>>

WorkerEnds(s) ==
  /\ worker[s] = "idle" /\ s \in stopping
  /\ worker' = [worker EXCEPT ![s] = "none"]
  /\ UNCHANGED <<mainVars, loopVars, mapService, ref, lost, stopping, freed, breaker,
                 stopFailed>>

-----------------------------------------------------------------------------
(* BreakLoop, of any thread                                                *)

BreakStatus(b) ==
  /\ breaker[b] = "idle"
  /\ isRunning' = FALSE
  /\ breaker' = [breaker EXCEPT ![b] = "event"]
  /\ UNCHANGED <<mainVars, signalled, selfReset, mapService, serviceVars, freed, stopFailed>>

BreakEvent(b) ==
  /\ breaker[b] = "event"
  /\ signalled' = TRUE
  /\ breaker' = [breaker EXCEPT ![b] = "done"]
  /\ UNCHANGED <<mainVars, isRunning, selfReset, mapService, serviceVars, freed, stopFailed>>

-----------------------------------------------------------------------------
MainNext ==
  \/ AddService \/ Run \/ StartService \/ StartFails
  \/ WaitLoopEvent \/ ResetLoopEvent \/ LoopTest
  \/ Deinit \/ StopService \/ StopJoined \/ StopFails
  \/ RemoveService \/ ServiceRemoved \/ ClearServices
WorkerNext(s) ==
  (\E t \in Services : Lookup(s, t)) \/ GetService(s) \/ Used(s) \/ WorkerEnds(s)
BreakerNext(b) == BreakStatus(b) \/ BreakEvent(b)

Next ==
  \/ MainNext
  \/ \E s \in Services : WorkerNext(s)
  \/ \E b \in Breakers : BreakerNext(b)

SafetySpec == Init /\ [][Next]_vars

(* The threads run; nobody has to look a service up or to call BreakLoop.  *)
Fairness ==
  /\ WF_vars(MainNext)
  /\ \A s \in Services : WF_vars(GetService(s)) /\ WF_vars(Used(s)) /\ WF_vars(WorkerEnds(s))
  /\ \A b \in Breakers : WF_vars(BreakEvent(b))

Spec == SafetySpec /\ Fairness

-----------------------------------------------------------------------------
Places == {"add", "run", "start", "wait", "reset", "test", "deinit", "stop",
           "join", "remove", "unload", "clear", "done"}

(* Every variable has its type.                                            *)
TypeOK ==
  /\ pc \in Places /\ at \in Services
  /\ isRunning \in BOOLEAN /\ signalled \in BOOLEAN /\ selfReset \in BOOLEAN
  /\ mapService \subseteq Services
  /\ worker \in [Services -> {"none", "idle", "looking", "using"}]
  /\ ref \in [Services -> Services]
  /\ lost \subseteq Services /\ stopping \subseteq Services /\ freed \subseteq Services
  /\ breaker \in [Breakers -> {"idle", "event", "done"}]
  /\ stopFailed \in BOOLEAN

(* A service is freed, even after a Start or a Stop that failed, only when *)
(* the threads of the listeners in its list have ended: its destructor     *)
(* stops it again.                                                         *)
FreedAreStopped == \A s \in freed : worker[s] = "none"

(* What no Stop reaches is one listener at most, of the last service that  *)
(* was started: Run ends with it, and none is started again.               *)
LostAreLast ==
  \A s \in lost, t \in Services :
    /\ t \in lost => t = s
    /\ t > s => worker[t] = "none"

(* Not a property of this code: a service outlives its threads.  Those of  *)
(* the listener whose Start failed run on after the service is deleted.    *)
NoThreadOutlives == FreedAreStopped /\ freed \cap lost = {}

(* GetService needs no lock as long as every Stop succeeds: no thread has  *)
(* a freed service in hand, finds one in the map, or reads the map while   *)
(* main adds to it or clears it.                                           *)
LookupsAreSafe ==
  \A s \in Services : worker[s] \in {"looking", "using"} =>
    /\ pc \notin {"add", "run"}
    /\ ~stopFailed => pc # "clear" /\ freed = {}

(* Services outlive the threads of their listeners, but for one listener   *)
(* that failed to start, and the threads' unlocked lookups meet no freed   *)
(* service and no changing map unless a Stop failed.                       *)
ServicesSound == TypeOK /\ FreedAreStopped /\ LostAreLast /\ LookupsAreSafe

(* BreakLoop is never lost once Run has set the status: neither a set      *)
(* event that Loop resets, nor the second of two callers, keeps main from  *)
(* its end.  (Before, Run overwrites the status.)                          *)
BreakEndsProcess == (~isRunning /\ pc \notin {"add", "run"}) ~> (pc = "done")

(* Deinit returns, whatever the threads of the services look up meanwhile  *)
(* and whichever Stop fails.                                               *)
DeinitCompletes == (pc = "deinit") ~> (pc = "done")

(* The process ends once it is told to, with whatever services it has.     *)
ProcessEnds == BreakEndsProcess /\ DeinitCompletes
=============================================================================
