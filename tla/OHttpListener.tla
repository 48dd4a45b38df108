--------------------------- MODULE OHttpListener ---------------------------
(***************************************************************************)
(* One OHttpListener of http/OHttpServer.cpp, from Start to the end of     *)
(* Stop: the thread that calls Start and Stop, the dispatch thread that    *)
(* runs the libevent loop and its request callback, the receive thread     *)
(* that hands requests to idle processors, the processor threads that      *)
(* answer them, and the protect thread that measures the load.             *)
(*                                                                         *)
(* Every step is one access to state that two threads share (a queue, an   *)
(* event, a flag); what a thread does with its own data in between is part *)
(* of that step.  The URL handlers are another component: the reply of a   *)
(* processor is "served" whether a handler answered 200 or none did (404). *)
(***************************************************************************)
EXTENDS Naturals, Sequences, FiniteSets

CONSTANTS
  Requests,            \* the HTTP requests clients may send
  NoRequest,           \* the NULL an XQueue pops when it is empty
  NumProcessors,       \* processors per listener, the argument of Start
  Posix,               \* TRUE for the POSIX build, FALSE for the WIN32 one
  HighConcurrency,     \* requests per second that switch the polling mode on
  Overload             \* requests per second beyond which requests are refused

ASSUME RequestsAssumption == NoRequest \notin Requests
ASSUME ProcessorsAssumption == NumProcessors \in Nat \ {0}
ASSUME BuildAssumption == Posix \in BOOLEAN
ASSUME LimitsAssumption == HighConcurrency \in Nat /\ Overload \in Nat

Processors == 1 .. NumProcessors     \* m_http_processor_list, in order

VARIABLES
  ctl,             \* where the thread that calls Start and Stop is
  cursor,          \* its position in the processor list
  isRunning,       \* m_isRunning of the listener
  protect,         \* where the protect thread is
  reqConcurrencys, \* m_reqConcurrencys
  isHigh,          \* m_isHighConcurrency
  isOverload,      \* m_isOverload
  disp,            \* where the dispatch thread is
  loopBreak,       \* the break flag of the event base
  recv,            \* where the receive thread is
  recvReq,         \* the request it holds
  scan,            \* its position in the processor list
  recvQueue,       \* m_recvQueue
  recvEvent,       \* m_recvEvent is signalled
  proc,            \* where each processor thread is
  procReq,         \* the request it holds
  procRun,         \* m_isRunning of the processor
  isIdle,          \* m_isIdle
  procQueue,       \* m_procQueue
  procEvent,       \* m_procEvent is signalled
  reply,           \* what was sent to the client
  record           \* the malloc'ed HTTPREQUEST of the request

ctlVars  == <<ctl, cursor, isRunning>>
loadVars == <<protect, reqConcurrencys, isHigh, isOverload>>
dispVars == <<disp, loopBreak>>
recvVars == <<recv, recvReq, scan>>
recvChan == <<recvQueue, recvEvent>>
procVars == <<proc, procReq>>
procChan == <<procRun, isIdle, procQueue, procEvent>>
reqVars  == <<reply, record>>
vars == <<ctlVars, loadVars, dispVars, recvVars, recvChan, procVars, procChan, reqVars>>

CtlStates == {"init", "startProc", "startRecv", "createRecv", "up", "failed",
              "joinProtect", "joinDispatch", "joinRecv",
              "stopProc", "setProc", "joinProc", "stopped"}
ProtectStates == {"none", "top", "measure", "reset", "done"}
DispStates == {"none", "top", "enter", "block", "poll", "set", "done"}
RecvStates == {"none", "top", "pop", "wait", "reset",
               "scan", "claim", "push", "set", "done"}
ProcStates == {"none", "top", "pop", "idle", "wait", "reset",
               "busy", "count", "serve", "done"}

(* What a client can be told: a handler's answer (200, or 404 when none    *)
(* did), 501 because of the measured load, 501 for want of a processor.    *)
Answers == {"served", "overload", "exhausted"}

(* What OEvent::Wait leaves of the signal.  m_recvEvent and m_procEvent    *)
(* are constructed with bManualReset = true: the POSIX code consumes the   *)
(* signal, WaitForSingleObject on a manual-reset event does not.           *)
AfterWait == ~Posix

Goto(thread, to) == thread' = to
ProcGoto(p, to) == proc' = [proc EXCEPT ![p] = to]

Init ==
  /\ ctl = "init" /\ cursor = 1 /\ isRunning = FALSE
  /\ protect = "none" /\ reqConcurrencys = 0 /\ isHigh = FALSE /\ isOverload = FALSE
  /\ disp = "none" /\ loopBreak = FALSE
  /\ recv = "none" /\ recvReq = NoRequest /\ scan = 1
  /\ recvQueue = <<>> /\ recvEvent = FALSE
  /\ proc = [p \in Processors |-> "none"]
  /\ procReq = [p \in Processors |-> NoRequest]
  /\ procRun = [p \in Processors |-> FALSE]
  /\ isIdle = [p \in Processors |-> TRUE]
  /\ procQueue = [p \in Processors |-> <<>>]
  /\ procEvent = [p \in Processors |-> FALSE]
  /\ reply = [r \in Requests |-> "none"]
  /\ record = [r \in Requests |-> "none"]

-----------------------------------------------------------------------------
(* OHttpListener::Start                                                    *)

(* Start first calls Stop, which on a listener without threads signals     *)
(* m_recvEvent and clears the empty queue; then the protect thread runs.   *)
StartBegin ==
  /\ ctl = "init"
  /\ ctl' = "startProc" /\ cursor' = 1
  /\ isRunning' = TRUE
  /\ recvEvent' = TRUE /\ recvQueue' = <<>>
  /\ protect' = "top"
  /\ UNCHANGED <<reqConcurrencys, isHigh, isOverload, dispVars, recvVars,
                 procVars, procChan, reqVars>>

(* OHttpProcessor::Start: run flag, event reset, thread.                   *)
StartProcessor ==
  /\ ctl = "startProc" /\ cursor \in Processors
  /\ procRun' = [procRun EXCEPT ![cursor] = TRUE]
  /\ procEvent' = [procEvent EXCEPT ![cursor] = FALSE]
  /\ ProcGoto(cursor, "top")
  /\ cursor' = cursor + 1
  /\ UNCHANGED <<ctl, isRunning, loadVars, dispVars, recvVars, recvChan,
                 procReq, isIdle, procQueue, reqVars>>

(* The event base, the evhttp and the socket may each fail: Start returns  *)
(* an error with its protect and processor threads running, and            *)
(* OHttpServer::Start forgets the listener.                                *)
StartFails ==
  /\ ctl = "startProc" /\ cursor \notin Processors
  /\ Goto(ctl, "failed")
  /\ UNCHANGED <<cursor, isRunning, loadVars, dispVars, recvVars, recvChan,
                 procVars, procChan, reqVars>>

StartDispatch ==
  /\ ctl = "startProc" /\ cursor \notin Processors
  /\ Goto(ctl, "startRecv")
  /\ Goto(disp, "top")
  /\ UNCHANGED <<cursor, isRunning, loadVars, loopBreak, recvVars, recvChan,
                 procVars, procChan, reqVars>>

(* StartRecvThread resets the event although the dispatch thread is        *)
(* already delivering requests, and only then creates the thread.          *)
StartRecvReset ==
  /\ ctl = "startRecv"
  /\ Goto(ctl, "createRecv")
  /\ isRunning' = TRUE
  /\ recvEvent' = FALSE
  /\ UNCHANGED <<cursor, loadVars, dispVars, recvVars, recvQueue,
                 procVars, procChan, reqVars>>

StartRecvCreate ==
  /\ ctl = "createRecv"
  /\ Goto(ctl, "up")
  /\ Goto(recv, "top")
  /\ UNCHANGED <<cursor, isRunning, loadVars, dispVars, recvReq, scan, recvChan,
                 procVars, procChan, reqVars>>

StartSteps ==
  \/ StartProcessor \/ StartFails
  \/ StartDispatch \/ StartRecvReset \/ StartRecvCreate

-----------------------------------------------------------------------------
(* OHttpListener::Stop                                                     *)

StopBegin ==
  /\ ctl = "up"
  /\ Goto(ctl, "joinProtect")
  /\ isRunning' = FALSE
  /\ UNCHANGED <<cursor, loadVars, dispVars, recvVars, recvChan,
                 procVars, procChan, reqVars>>

(* Joins the protect thread, then event_base_loopbreak.                    *)
StopLoop ==
  /\ ctl = "joinProtect" /\ protect = "done"
  /\ Goto(ctl, "joinDispatch")
  /\ loopBreak' = TRUE
  /\ UNCHANGED <<cursor, isRunning, loadVars, disp, recvVars, recvChan,
                 procVars, procChan, reqVars>>

(* Mutant: the receive thread is not woken.                                *)
StopRecvForgetsSet ==
  /\ ctl = "joinDispatch" /\ disp = "done"
  /\ Goto(ctl, "joinRecv")
  /\ isRunning' = FALSE
  /\ UNCHANGED <<cursor, loadVars, dispVars, recvVars, recvChan,
                 procVars, procChan, reqVars>>

(* Joins the dispatch thread, then wakes the receive thread.               *)
StopRecv ==
  /\ ctl = "joinDispatch" /\ disp = "done"
  /\ Goto(ctl, "joinRecv")
  /\ isRunning' = FALSE
  /\ recvEvent' = TRUE
  /\ UNCHANGED <<cursor, loadVars, dispVars, recvVars, recvQueue,
                 procVars, procChan, reqVars>>

(* The records of a queue that is cleared: XQueue::Clear frees them.       *)
FreeRecords(queue) ==
  [r \in Requests |-> IF \E i \in DOMAIN queue : queue[i] = r
                      THEN "freed" ELSE record[r]]

(* Mutant: the receive thread is not joined.                               *)
StopClearsEarly ==
  /\ ctl = "joinRecv"
  /\ ctl' = "stopProc" /\ cursor' = 1
  /\ record' = FreeRecords(recvQueue)
  /\ recvQueue' = <<>>
  /\ UNCHANGED <<isRunning, loadVars, dispVars, recvVars, recvEvent,
                 procVars, procChan, reply>>

(* Mutant: the queue is not cleared.                                       *)
StopKeepsQueue ==
  /\ ctl = "joinRecv" /\ recv = "done"
  /\ ctl' = "stopProc" /\ cursor' = 1
  /\ UNCHANGED <<isRunning, loadVars, dispVars, recvVars, recvChan,
                 procVars, procChan, reqVars>>

(* Joins the receive thread, then clears its queue.                        *)
StopClear ==
  /\ ctl = "joinRecv" /\ recv = "done"
  /\ ctl' = "stopProc" /\ cursor' = 1
  /\ record' = FreeRecords(recvQueue)
  /\ recvQueue' = <<>>
  /\ UNCHANGED <<isRunning, loadVars, dispVars, recvVars, recvEvent,
                 procVars, procChan, reply>>

(* OHttpProcessor::Stop of the processor at the cursor: run flag, event,   *)
(* join; deleting the processor destroys its queue.                        *)
StopProcessor ==
  /\ ctl = "stopProc" /\ cursor \in Processors
  /\ Goto(ctl, "setProc")
  /\ procRun' = [procRun EXCEPT ![cursor] = FALSE]
  /\ UNCHANGED <<cursor, isRunning, loadVars, dispVars, recvVars, recvChan,
                 procVars, isIdle, procQueue, procEvent, reqVars>>

(* Mutant: the processor is not woken.                                     *)
StopProcessorForgetsSet ==
  /\ ctl = "setProc"
  /\ Goto(ctl, "joinProc")
  /\ UNCHANGED <<cursor, isRunning, loadVars, dispVars, recvVars, recvChan,
                 procVars, procChan, reqVars>>

StopProcessorSet ==
  /\ ctl = "setProc"
  /\ Goto(ctl, "joinProc")
  /\ procEvent' = [procEvent EXCEPT ![cursor] = TRUE]
  /\ UNCHANGED <<cursor, isRunning, loadVars, dispVars, recvVars, recvChan,
                 procVars, procRun, isIdle, procQueue, reqVars>>

DeleteProcessor ==
  /\ ctl = "joinProc" /\ proc[cursor] = "done"
  /\ ctl' = "stopProc" /\ cursor' = cursor + 1
  /\ record' = FreeRecords(procQueue[cursor])
  /\ procQueue' = [procQueue EXCEPT ![cursor] = <<>>]
  /\ UNCHANGED <<isRunning, loadVars, dispVars, recvVars, recvChan,
                 procVars, procRun, isIdle, procEvent, reply>>

(* evhttp_free and event_base_free.                                        *)
StopEnd ==
  /\ ctl = "stopProc" /\ cursor \notin Processors
  /\ Goto(ctl, "stopped")
  /\ UNCHANGED <<cursor, isRunning, loadVars, dispVars, recvVars, recvChan,
                 procVars, procChan, reqVars>>

StopSteps ==
  \/ StopLoop \/ StopRecv \/ StopClear
  \/ StopProcessor \/ StopProcessorSet \/ DeleteProcessor \/ StopEnd

-----------------------------------------------------------------------------
(* The protect thread                                                      *)

ProtectTop ==
  /\ protect = "top"
  /\ Goto(protect, IF isRunning THEN "measure" ELSE "done")
  /\ UNCHANGED <<ctlVars, reqConcurrencys, isHigh, isOverload, dispVars, recvVars,
                 recvChan, procVars, procChan, reqVars>>

(* After AutoSleep: reads the counter and sets both flags, which no other  *)
(* thread reads together.                                                  *)
ProtectMeasure ==
  /\ protect = "measure"
  /\ Goto(protect, "reset")
  /\ isHigh' = (reqConcurrencys > HighConcurrency)
  /\ isOverload' = (reqConcurrencys > Overload)
  /\ UNCHANGED <<ctlVars, reqConcurrencys, dispVars, recvVars, recvChan,
                 procVars, procChan, reqVars>>

(* Mutant: the counter is never reset.                                     *)
ProtectForgetsReset ==
  /\ protect = "reset"
  /\ Goto(protect, "top")
  /\ UNCHANGED <<ctlVars, reqConcurrencys, isHigh, isOverload, dispVars, recvVars,
                 recvChan, procVars, procChan, reqVars>>

ProtectReset ==
  /\ protect = "reset"
  /\ Goto(protect, "top")
  /\ reqConcurrencys' = 0
  /\ UNCHANGED <<ctlVars, isHigh, isOverload, dispVars, recvVars, recvChan,
                 procVars, procChan, reqVars>>

ProtectThread == ProtectTop \/ ProtectMeasure \/ ProtectReset

-----------------------------------------------------------------------------
(* The dispatch thread: "block" is inside event_base_loop(EVLOOP_ONCE)     *)
(* with no event handled yet, "poll" inside a call that may return.        *)

DispatchTop ==
  /\ disp = "top"
  /\ Goto(disp, IF isRunning THEN "enter" ELSE "done")
  /\ UNCHANGED <<ctlVars, loadVars, loopBreak, recvVars, recvChan,
                 procVars, procChan, reqVars>>

(* event_base_loop forgets, on entry, a break requested before.            *)
DispatchEnter ==
  /\ disp = "enter"
  /\ Goto(disp, IF Posix /\ ~isHigh THEN "block" ELSE "poll")
  /\ loopBreak' = FALSE
  /\ UNCHANGED <<ctlVars, loadVars, recvVars, recvChan, procVars, procChan, reqVars>>

(* MessageCallback: a complete request is queued ...                       *)
MessageCallback(r) ==
  /\ disp \in {"block", "poll"}
  /\ record[r] = "none"
  /\ Goto(disp, "set")
  /\ record' = [record EXCEPT ![r] = "live"]
  /\ recvQueue' = Append(recvQueue, r)
  /\ UNCHANGED <<ctlVars, loadVars, loopBreak, recvVars, recvEvent,
                 procVars, procChan, reply>>

(* ... and the receive thread signalled.                                   *)
SetRecvEvent ==
  /\ disp = "set"
  /\ Goto(disp, "poll")
  /\ recvEvent' = TRUE
  /\ UNCHANGED <<ctlVars, loadVars, loopBreak, recvVars, recvQueue,
                 procVars, procChan, reqVars>>

(* event_base_loop returns: it polled, handled an event, or was broken.    *)
LoopReturn ==
  /\ \/ disp = "poll"
     \/ disp = "block" /\ loopBreak
  /\ Goto(disp, "top")
  /\ UNCHANGED <<ctlVars, loadVars, loopBreak, recvVars, recvChan,
                 procVars, procChan, reqVars>>

(* A blocked loop also returns after other network events: a connection    *)
(* accepted, closed or timed out.                                          *)
NetworkEvent ==
  /\ disp = "block"
  /\ Goto(disp, "poll")
  /\ UNCHANGED <<ctlVars, loadVars, loopBreak, recvVars, recvChan,
                 procVars, procChan, reqVars>>

DispatchThread == DispatchTop \/ DispatchEnter \/ SetRecvEvent \/ LoopReturn
Clients == NetworkEvent \/ \E r \in Requests : MessageCallback(r)

-----------------------------------------------------------------------------
(* The receive thread                                                      *)

RecvTop ==
  /\ recv = "top"
  /\ Goto(recv, IF isRunning THEN "pop" ELSE "done")
  /\ UNCHANGED <<ctlVars, loadVars, dispVars, recvReq, scan, recvChan,
                 procVars, procChan, reqVars>>

(* Mutant: the event is reset before the wait.                             *)
RecvResetsBeforeWait ==
  /\ recv = "pop" /\ recvQueue = <<>>
  /\ Goto(recv, "wait")
  /\ recvEvent' = FALSE
  /\ UNCHANGED <<ctlVars, loadVars, dispVars, recvReq, scan, recvQueue,
                 procVars, procChan, reqVars>>

RecvPopEmpty ==
  /\ recv = "pop" /\ recvQueue = <<>>
  /\ Goto(recv, "wait")
  /\ UNCHANGED <<ctlVars, loadVars, dispVars, recvReq, scan, recvChan,
                 procVars, procChan, reqVars>>

(* Mutant: the front is read and not popped.                               *)
RecvPeeks ==
  /\ recv = "pop" /\ recvQueue # <<>>
  /\ Goto(recv, "scan")
  /\ recvReq' = Head(recvQueue)
  /\ scan' = 1
  /\ UNCHANGED <<ctlVars, loadVars, dispVars, recvChan, procVars, procChan, reqVars>>

RecvPop ==
  /\ recv = "pop" /\ recvQueue # <<>>
  /\ Goto(recv, "scan")
  /\ recvReq' = Head(recvQueue) /\ recvQueue' = Tail(recvQueue)
  /\ scan' = 1
  /\ UNCHANGED <<ctlVars, loadVars, dispVars, recvEvent, procVars, procChan, reqVars>>

RecvWait ==
  /\ recv = "wait" /\ recvEvent
  /\ Goto(recv, "reset")
  /\ recvEvent' = AfterWait
  /\ UNCHANGED <<ctlVars, loadVars, dispVars, recvReq, scan, recvQueue,
                 procVars, procChan, reqVars>>

RecvReset ==
  /\ recv = "reset"
  /\ Goto(recv, "top")
  /\ recvEvent' = FALSE
  /\ UNCHANGED <<ctlVars, loadVars, dispVars, recvReq, scan, recvQueue,
                 procVars, procChan, reqVars>>

(* Dispatch walks the processor list: skip a busy processor, ...           *)
DispatchSkip ==
  /\ recv = "scan" /\ scan \in Processors /\ ~isIdle[scan]
  /\ scan' = scan + 1
  /\ UNCHANGED <<ctlVars, loadVars, dispVars, recv, recvReq, recvChan,
                 procVars, procChan, reqVars>>

(* ... stop at the first whose flag reads idle, ...                        *)
DispatchFind ==
  /\ recv = "scan" /\ scan \in Processors /\ isIdle[scan]
  /\ Goto(recv, "claim")
  /\ UNCHANGED <<ctlVars, loadVars, dispVars, recvReq, scan, recvChan,
                 procVars, procChan, reqVars>>

(* Mutant: the processor is not marked occupied.                           *)
DispatchForgetsClaim ==
  /\ recv = "claim"
  /\ Goto(recv, "push")
  /\ UNCHANGED <<ctlVars, loadVars, dispVars, recvReq, scan, recvChan,
                 procVars, procChan, reqVars>>

(* ... mark it occupied, ...                                               *)
DispatchClaim ==
  /\ recv = "claim"
  /\ Goto(recv, "push")
  /\ isIdle' = [isIdle EXCEPT ![scan] = FALSE]
  /\ UNCHANGED <<ctlVars, loadVars, dispVars, recvReq, scan, recvChan,
                 procVars, procRun, procQueue, procEvent, reqVars>>

(* ... queue the request at it ...                                         *)
DispatchPush ==
  /\ recv = "push"
  /\ Goto(recv, "set")
  /\ recvReq' = NoRequest
  /\ procQueue' = [procQueue EXCEPT ![scan] = Append(@, recvReq)]
  /\ UNCHANGED <<ctlVars, loadVars, dispVars, scan, recvChan,
                 procVars, procRun, isIdle, procEvent, reqVars>>

(* Mutant: the processor is not signalled.                                 *)
DispatchForgetsSet ==
  /\ recv = "set"
  /\ Goto(recv, "top")
  /\ UNCHANGED <<ctlVars, loadVars, dispVars, recvReq, scan, recvChan,
                 procVars, procChan, reqVars>>

(* Mutant: the result of Dispatch is not tested, every request is refused. *)
DispatchRefusesAnyway ==
  /\ recv = "set"
  /\ Goto(recv, "top")
  /\ procEvent' = [procEvent EXCEPT ![scan] = TRUE]
  /\ reply' = [r \in Requests |->
       IF \E i \in DOMAIN procQueue[scan] : procQueue[scan][i] = r
       THEN "exhausted" ELSE reply[r]]
  /\ UNCHANGED <<ctlVars, loadVars, dispVars, recvReq, scan, recvChan,
                 procVars, procRun, isIdle, procQueue, record>>

(* ... and signal it.                                                      *)
DispatchSet ==
  /\ recv = "set"
  /\ Goto(recv, "top")
  /\ procEvent' = [procEvent EXCEPT ![scan] = TRUE]
  /\ UNCHANGED <<ctlVars, loadVars, dispVars, recvReq, scan, recvChan,
                 procVars, procRun, isIdle, procQueue, reqVars>>

(* No processor read idle: OnRecv answers 501 itself.  The HTTPREQUEST     *)
(* record is not freed on this path.                                       *)
DispatchRefuse ==
  /\ recv = "scan" /\ scan \notin Processors
  /\ Goto(recv, "top")
  /\ reply' = [reply EXCEPT ![recvReq] = "exhausted"]
  /\ recvReq' = NoRequest
  /\ UNCHANGED <<ctlVars, loadVars, dispVars, scan, recvChan,
                 procVars, procChan, record>>

RecvThread ==
  \/ RecvTop \/ RecvPopEmpty \/ RecvPop \/ RecvWait \/ RecvReset
  \/ DispatchSkip \/ DispatchFind \/ DispatchClaim \/ DispatchPush
  \/ DispatchSet \/ DispatchRefuse

-----------------------------------------------------------------------------
(* A processor thread                                                      *)

ProcTop(p) ==
  /\ proc[p] = "top"
  /\ ProcGoto(p, IF procRun[p] THEN "pop" ELSE "done")
  /\ UNCHANGED <<ctlVars, loadVars, dispVars, recvVars, recvChan,
                 procReq, procChan, reqVars>>

ProcPopEmpty(p) ==
  /\ proc[p] = "pop" /\ procQueue[p] = <<>>
  /\ ProcGoto(p, "idle")
  /\ UNCHANGED <<ctlVars, loadVars, dispVars, recvVars, recvChan,
                 procReq, procChan, reqVars>>

ProcPop(p) ==
  /\ proc[p] = "pop" /\ procQueue[p] # <<>>
  /\ ProcGoto(p, "busy")
  /\ procReq' = [procReq EXCEPT ![p] = Head(procQueue[p])]
  /\ procQueue' = [procQueue EXCEPT ![p] = Tail(@)]
  /\ UNCHANGED <<ctlVars, loadVars, dispVars, recvVars, recvChan,
                 procRun, isIdle, procEvent, reqVars>>

(* Mutant: the event is reset before the wait.                             *)
ProcResetsBeforeWait(p) ==
  /\ proc[p] = "idle"
  /\ ProcGoto(p, "wait")
  /\ isIdle' = [isIdle EXCEPT ![p] = TRUE]
  /\ procEvent' = [procEvent EXCEPT ![p] = FALSE]
  /\ UNCHANGED <<ctlVars, loadVars, dispVars, recvVars, recvChan,
                 procReq, procRun, procQueue, reqVars>>

(* SetIdleStatus(true), some time after the queue was seen empty.          *)
ProcSetIdle(p) ==
  /\ proc[p] = "idle"
  /\ ProcGoto(p, "wait")
  /\ isIdle' = [isIdle EXCEPT ![p] = TRUE]
  /\ UNCHANGED <<ctlVars, loadVars, dispVars, recvVars, recvChan,
                 procReq, procRun, procQueue, procEvent, reqVars>>

ProcWait(p) ==
  /\ proc[p] = "wait" /\ procEvent[p]
  /\ ProcGoto(p, "reset")
  /\ procEvent' = [procEvent EXCEPT ![p] = AfterWait]
  /\ UNCHANGED <<ctlVars, loadVars, dispVars, recvVars, recvChan,
                 procReq, procRun, isIdle, procQueue, reqVars>>

ProcReset(p) ==
  /\ proc[p] = "reset"
  /\ ProcGoto(p, "top")
  /\ procEvent' = [procEvent EXCEPT ![p] = FALSE]
  /\ UNCHANGED <<ctlVars, loadVars, dispVars, recvVars, recvChan,
                 procReq, procRun, isIdle, procQueue, reqVars>>

ProcSetBusy(p) ==
  /\ proc[p] = "busy"
  /\ ProcGoto(p, "count")
  /\ isIdle' = [isIdle EXCEPT ![p] = FALSE]
  /\ UNCHANGED <<ctlVars, loadVars, dispVars, recvVars, recvChan,
                 procReq, procRun, procQueue, procEvent, reqVars>>

(* OnProc counts the request ...                                           *)
ProcCount(p) ==
  /\ proc[p] = "count"
  /\ ProcGoto(p, "serve")
  /\ reqConcurrencys' = reqConcurrencys + 1
  /\ UNCHANGED <<ctlVars, protect, isHigh, isOverload, dispVars, recvVars, recvChan,
                 procReq, procChan, reqVars>>

(* ... refuses it under overload or lets a handler serve it, and sends the *)
(* reply; the thread then frees the record.                                *)
ProcServe(p) ==
  /\ proc[p] = "serve"
  /\ ProcGoto(p, "top")
  /\ reply' = [reply EXCEPT ![procReq[p]] = IF isOverload THEN "overload" ELSE "served"]
  /\ record' = [record EXCEPT ![procReq[p]] = "freed"]
  /\ procReq' = [procReq EXCEPT ![p] = NoRequest]
  /\ UNCHANGED <<ctlVars, loadVars, dispVars, recvVars, recvChan, procChan>>

ProcThread(p) ==
  \/ ProcTop(p) \/ ProcPopEmpty(p) \/ ProcPop(p) \/ ProcSetIdle(p)
  \/ ProcWait(p) \/ ProcReset(p) \/ ProcSetBusy(p) \/ ProcCount(p) \/ ProcServe(p)

-----------------------------------------------------------------------------
Next ==
  \/ StartBegin \/ StartSteps \/ StopBegin \/ StopSteps
  \/ ProtectThread \/ DispatchThread \/ Clients \/ RecvThread
  \/ \E p \in Processors : ProcThread(p)

(* Every thread that can run eventually does, and a URL handler returns.   *)
(* Nothing is assumed of the clients, nor that Start or Stop is called.    *)
Fairness ==
  /\ WF_vars(StartSteps) /\ WF_vars(StopSteps)
  /\ WF_vars(ProtectThread) /\ WF_vars(DispatchThread) /\ WF_vars(RecvThread)
  /\ \A p \in Processors : WF_vars(ProcThread(p))

SafetySpec == Init /\ [][Next]_vars
Spec == SafetySpec /\ Fairness

-----------------------------------------------------------------------------
(* Type correctness                                                        *)

CtlOK ==
  /\ ctl \in CtlStates
  /\ cursor \in 1 .. NumProcessors + 1
  /\ ctl \in {"setProc", "joinProc"} => cursor \in Processors
  /\ isRunning \in BOOLEAN

LoadOK ==
  /\ protect \in ProtectStates /\ reqConcurrencys \in Nat
  /\ isHigh \in BOOLEAN /\ isOverload \in BOOLEAN

DispOK == disp \in DispStates /\ loopBreak \in BOOLEAN

RecvOK ==
  /\ recv \in RecvStates
  /\ recvReq \in Requests \cup {NoRequest}
  /\ recv \in {"scan", "claim", "push"} => recvReq \in Requests
  /\ scan \in 1 .. NumProcessors + 1
  /\ recv \in {"claim", "push", "set"} => scan \in Processors

RecvChanOK == recvQueue \in Seq(Requests) /\ recvEvent \in BOOLEAN

ProcOK ==
  /\ proc \in [Processors -> ProcStates]
  /\ procReq \in [Processors -> Requests \cup {NoRequest}]
  /\ \A p \in Processors :
       proc[p] \in {"busy", "count", "serve"} => procReq[p] \in Requests

ProcChanOK ==
  /\ procRun \in [Processors -> BOOLEAN]
  /\ isIdle \in [Processors -> BOOLEAN]
  /\ procQueue \in [Processors -> Seq(Requests)]
  /\ procEvent \in [Processors -> BOOLEAN]

ReqOK ==
  /\ reply \in [Requests -> {"none"} \cup Answers]
  /\ record \in [Requests -> {"none", "live", "freed"}]

(* Every variable has its type, a thread that dispatches or serves has a   *)
(* request in hand, and neither the receive nor the stopping      *)
(* thread ever uses a position beyond the processor list.                  *)
TypeOK ==
  /\ CtlOK /\ LoadOK /\ DispOK /\ RecvOK /\ RecvChanOK
  /\ ProcOK /\ ProcChanOK /\ ReqOK

-----------------------------------------------------------------------------
(* Safety                                                                  *)

Pending(r) == record[r] = "live" /\ reply[r] = "none"

(* The places that hold a pointer to the record of r.                      *)
Places(r) ==
  {<<"recvQueue", 0, i>> : i \in {j \in DOMAIN recvQueue : recvQueue[j] = r}}
  \cup {<<"recvReq", 0, 0>> : x \in {recvReq} \cap {r}}
  \cup {<<"procReq", p, 0>> : p \in {q \in Processors : procReq[q] = r}}
  \cup UNION {{<<"procQueue", p, i>> :
                 i \in {j \in DOMAIN procQueue[p] : procQueue[p][j] = r}} : p \in Processors}

(* A request that was accepted and is neither answered nor freed is in     *)
(* exactly one queue or thread, any other request in none: no request is   *)
(* lost, answered twice, or used after its record was freed, however the   *)
(* dispatch, receive, processor and stopping threads interleave.           *)
OneOwner ==
  \A r \in Requests : Cardinality(Places(r)) = IF Pending(r) THEN 1 ELSE 0

(* The receive thread never sleeps, or goes to sleep, on a request or a    *)
(* stop without a signal that is there or about to be set, although the    *)
(* event is reset after the wait, not before the pop.                      *)
RecvNotStranded ==
  recv = "wait" /\ ~recvEvent =>
    /\ recvQueue = <<>> \/ disp = "set"
    /\ ctl # "joinRecv"

(* The same for a processor thread, which reports itself idle between      *)
(* finding its queue empty and waiting.                                    *)
ProcNotStranded ==
  \A p \in Processors : proc[p] \in {"idle", "wait"} /\ ~procEvent[p] =>
    /\ procQueue[p] = <<>> \/ (recv = "set" /\ scan = p)
    /\ ~(ctl = "joinProc" /\ cursor = p)

Deleted(p) ==
  ctl \in {"stopProc", "setProc", "joinProc", "stopped"} /\ p < cursor

(* Stop frees nothing a thread still uses: a processor is deleted after    *)
(* the receive thread, which walks the list, and its own thread ended; the *)
(* event base and the evhttp after every thread did.                       *)
NoUseAfterFree ==
  /\ \A p \in Processors : Deleted(p) => recv = "done" /\ proc[p] = "done"
  /\ ctl = "stopped" =>
       protect = "done" /\ disp = "done" /\ recv = "done"
         /\ \A p \in Processors : proc[p] = "done"

(* After Stop the only records never freed are those of requests refused   *)
(* for want of an idle processor.                                          *)
OnlyRefusedLeak ==
  ctl = "stopped" =>
    \A r \in Requests : record[r] = "live" => reply[r] = "exhausted"

(* The requests a processor has been given and has not answered.           *)
Load(p) == Len(procQueue[p]) + (IF procReq[p] = NoRequest THEN 0 ELSE 1)

(* A processor is handed a request only when it has none: what the         *)
(* comments of Dispatch and ProcThread call idle and occupied.             *)
DispatchedToIdle == \A p \in Processors : Load(p) <= 1

(* The stale idle flag costs at most one place: a request never waits      *)
(* behind more than one other at a processor.                              *)
AtMostOneBehind == \A p \in Processors : Load(p) <= 2

-----------------------------------------------------------------------------
(* The listener implements the service                                     *)

Phase == CASE ctl \in {"init", "startProc", "startRecv", "createRecv", "up", "failed"} -> "open"
           [] ctl = "stopped" -> "closed"
           [] OTHER -> "closing"

Status(r) ==
  IF reply[r] # "none" THEN reply[r]
  ELSE CASE record[r] = "none"   -> "new"
         [] record[r] = "freed"  -> "dropped"
         [] OTHER                -> "accepted"

Service == INSTANCE HttpService WITH
  phase <- Phase, status <- [r \in Requests |-> Status(r)]

(* Every step of the listener is a step of the service or invisible to it. *)
ImplementsService == Service!ASpec

(* An accepted request is eventually answered or, by Stop, dropped.        *)
EveryRequestSettled == Service!Settled

(* Stop returns.                                                           *)
StopCompletes == Service!ShutdownCompletes

(* An overload is not for ever: with no further load the protect thread    *)
(* clears the flag within its next rounds, unless the listener stops.      *)
OverloadPasses == isOverload ~> (~isOverload \/ ~isRunning)
=============================================================================
