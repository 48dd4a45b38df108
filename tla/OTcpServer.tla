----------------------------- MODULE OTcpServer -----------------------------
(***************************************************************************)
(* OTcpServer of common/OTcpServer.cpp: a dispatch thread runs libevent,   *)
(* keeps the map of connected clients and calls the user's callback; other *)
(* threads send to the clients, whose handles are the addresses of their   *)
(* bufferevents, and set the callback; one thread starts and stops.  Stop  *)
(* neither breaks the loop nor joins the thread: what it frees may be in   *)
(* use, which ends the program (broken).                                   *)
(***************************************************************************)
EXTENDS Naturals

CONSTANTS
  Addresses,       \* where bufferevents are allocated, again and again
  NoAddress,
  Users,           \* threads that call SendMsg and SetMsgCallback
  MaxClients, MaxSets, MaxStarts   \* bounds of the environment

ASSUME BoundsAssumption ==
  /\ NoAddress \notin Addresses /\ "free" \notin Users
  /\ MaxClients \in Nat /\ MaxSets \in Nat /\ MaxStarts \in Nat

VARIABLES
  base,            \* m_base: the number of its Start, or 0 for NULL
  listener,        \* m_listener
  isRunning,       \* m_isRunning
  api,             \* where the thread in Start and Stop is
  starts, stops,   \* how often it called them
  dispatch,        \* where the dispatch thread of each Start is
  loopBase,        \* the base it dispatches
  handle,          \* the bufferevent its callback is about
  function,        \* m_callback as OnMsgCallback read it first
  live,            \* the client of each bufferevent, 0 where there is none
  baseOf,          \* the base it was made with
  clientMap,       \* m_clientMap: the url (here the client), 0 if not there
  clients,         \* how many have connected
  callback, context, sets,   \* m_callback, m_context; calls that set them
  called,          \* history: the pair of the last call back
  mutex,           \* m_mutex: the user that holds it, or "free"
  user, target,    \* where each user is, and the handle it sends to
  known,           \* the handles the callback has been given
  broken           \* freed memory was used

loopVars == <<dispatch, loopBase, handle, function>>
clientVars == <<live, baseOf, clientMap, clients>>
serverVars == <<base, listener, isRunning, api, starts, stops>>
callVars == <<callback, context, sets>>
userVars == <<mutex, user, target>>
vars == <<serverVars, loopVars, clientVars, callVars, called, userVars, known, broken>>

Threads == 1 .. MaxStarts

Init ==
  /\ base = 0 /\ listener = FALSE /\ isRunning = FALSE
  /\ api = "idle" /\ starts = 0 /\ stops = 0
  /\ dispatch = [d \in Threads |-> "none"] /\ loopBase = [d \in Threads |-> 0]
  /\ handle = [d \in Threads |-> NoAddress]
  /\ function = [d \in Threads |-> 0]
  /\ live = [a \in Addresses |-> 0] /\ baseOf = [a \in Addresses |-> 0]
  /\ clientMap = [a \in Addresses |-> 0] /\ clients = 0
  /\ callback = 0 /\ context = 0 /\ sets = 0
  /\ called = <<0, 0>>
  /\ mutex = "free" /\ user = [u \in Users |-> "idle"]
  /\ target = [u \in Users |-> NoAddress]
  /\ known = {} /\ broken = FALSE

-----------------------------------------------------------------------------
(* Start and Stop                                                          *)

(* event_base_new; without a base Start returns false.                     *)
Start ==
  /\ api = "idle" /\ starts < MaxStarts /\ ~listener
  /\ starts' = starts + 1
  /\ \/ base' = starts + 1 /\ api' = "bind"
     \/ base' = 0 /\ api' = "idle"
  /\ UNCHANGED <<listener, isRunning, stops, loopVars, clientVars, callVars,
                 called, userVars, known, broken>>

(* A listener that cannot be bound leaves the base.                        *)
StartListener ==
  /\ api = "bind"
  /\ \/ listener' = TRUE /\ api' = "run"
     \/ listener' = FALSE /\ api' = "idle"
  /\ UNCHANGED <<base, isRunning, starts, stops, loopVars, clientVars, callVars,
                 called, userVars, known, broken>>

(* So does a thread that cannot be created, and the status stays set.      *)
StartDispatchThread ==
  /\ api = "run"
  /\ isRunning' = TRUE /\ api' = "idle"
  /\ \E d \in {"none", "test"} : dispatch' = [dispatch EXCEPT ![starts] = d]
  /\ UNCHANGED <<base, listener, starts, stops, loopBase, handle, function, clientVars,
                 callVars, called, userVars, known, broken>>

StopDispatchThread ==
  /\ api = "idle" /\ base # 0
  /\ isRunning' = FALSE /\ stops' = stops + 1 /\ api' = "stop"
  /\ UNCHANGED <<base, listener, starts, loopVars, clientVars, callVars, called,
                 userVars, known, broken>>

(* After 200 ms, whatever the dispatch thread does.                        *)
StopFree ==
  /\ api = "stop"
  /\ listener' = FALSE /\ base' = 0 /\ api' = "idle"
  /\ broken' = (\E d \in Threads : loopBase[d] = base)
  /\ UNCHANGED <<isRunning, starts, stops, loopVars, clientVars, callVars, called,
                 userVars, known>>

-----------------------------------------------------------------------------
(* DispatchThread and the callbacks of libevent                            *)

DGo(d, from, to) == dispatch[d] = from /\ dispatch' = [dispatch EXCEPT ![d] = to]

Forget(d) == handle' = [handle EXCEPT ![d] = NoAddress]

DispatchTest(d) ==
  /\ dispatch[d] = "test"
  /\ dispatch' = [dispatch EXCEPT ![d] = IF isRunning THEN "enter" ELSE "none"]
  /\ UNCHANGED <<serverVars, loopBase, handle, function, clientVars, callVars, called,
                 userVars, known, broken>>

(* A second loop on a base returns at once.                                *)
Dispatch(d) ==
  /\ dispatch[d] = "enter"
  /\ LET busy == \E e \in Threads : loopBase[e] = base IN
     /\ dispatch' = [dispatch EXCEPT ![d] = IF busy THEN "sleep" ELSE "loop"]
     /\ loopBase' = [loopBase EXCEPT ![d] = IF busy THEN 0 ELSE base]
  /\ broken' = (base = 0)
  /\ UNCHANGED <<serverVars, handle, function, clientVars, callVars, called,
                 userVars, known>>

(* listener_cb: a client connects ...                                      *)
Accept(d, a) ==
  /\ listener /\ loopBase[d] = base /\ clients < MaxClients /\ live[a] = 0
  /\ DGo(d, "loop", "add")
  /\ clients' = clients + 1
  /\ live' = [live EXCEPT ![a] = clients + 1]
  /\ baseOf' = [baseOf EXCEPT ![a] = base]
  /\ handle' = [handle EXCEPT ![d] = a]
  /\ UNCHANGED <<serverVars, loopBase, function, clientMap, callVars, called,
                 userVars, known, broken>>

(* ... and is added to the map.                                            *)
AddClient(d) ==
  /\ DGo(d, "add", "loop")
  /\ mutex = "free"
  /\ clientMap' = [clientMap EXCEPT ![handle[d]] = IF @ = 0 THEN live[handle[d]] ELSE @]
  /\ Forget(d)
  /\ UNCHANGED <<serverVars, loopBase, function, live, baseOf, clients,
                 callVars, called, userVars, known, broken>>

(* Without a bufferevent the loop is broken off; the thread begins another *)
(* after a second.                                                         *)
AcceptFails(d) ==
  /\ listener /\ loopBase[d] = base
  /\ DGo(d, "loop", "sleep")
  /\ loopBase' = [loopBase EXCEPT ![d] = 0]
  /\ UNCHANGED <<serverVars, handle, function, clientVars, callVars, called,
                 userVars, known, broken>>

(* Mutant: the thread ends with its loop.                                  *)
SleptForGood(d) ==
  /\ DGo(d, "sleep", "none")
  /\ UNCHANGED <<serverVars, loopBase, handle, function, clientVars, callVars, called,
                 userVars, known, broken>>

Slept(d) ==
  /\ DGo(d, "sleep", "test")
  /\ UNCHANGED <<serverVars, loopBase, handle, function, clientVars, callVars, called,
                 userVars, known, broken>>

(* server_conn_readcb and OnMsgCallback, which reads m_callback ...        *)
Read(d, a) ==
  /\ live[a] # 0 /\ baseOf[a] = loopBase[d]
  /\ DGo(d, "loop", "read")
  /\ handle' = [handle EXCEPT ![d] = a]
  /\ UNCHANGED <<serverVars, loopBase, function, clientVars, callVars, called,
                 userVars, known, broken>>

OnMsgCallback(d) ==
  /\ dispatch[d] = "read"
  /\ \/ callback = 0 /\ dispatch' = [dispatch EXCEPT ![d] = "loop"] /\ Forget(d)
     \/ callback # 0 /\ dispatch' = [dispatch EXCEPT ![d] = "context"] /\ UNCHANGED handle
  /\ function' = [function EXCEPT ![d] = callback]
  /\ UNCHANGED <<serverVars, loopBase, clientVars, callVars, called,
                 userVars, known, broken>>

(* ... and m_context, and may read m_callback again.                       *)
CallBack(d) ==
  /\ DGo(d, "context", "call")
  /\ \E f \in {function[d], callback} : called' = <<f, context>>
  /\ function' = [function EXCEPT ![d] = 0]
  /\ known' = known \cup {handle[d]}
  /\ UNCHANGED <<serverVars, loopBase, handle, clientVars, callVars,
                 userVars, broken>>

CalledBack(d) ==
  /\ DGo(d, "call", "loop")
  /\ Forget(d)
  /\ UNCHANGED <<serverVars, loopBase, function, clientVars, callVars, called,
                 userVars, known, broken>>

(* server_conn_eventcb: the client is gone; DeleteClient ...               *)
Event(d, a) ==
  /\ live[a] # 0 /\ baseOf[a] = loopBase[d]
  /\ DGo(d, "loop", "delete")
  /\ handle' = [handle EXCEPT ![d] = a]
  /\ UNCHANGED <<serverVars, loopBase, function, clientVars, callVars, called,
                 userVars, known, broken>>

(* Mutant: DeleteClient does not wait for a sender.                        *)
DeleteUnlocked(d) ==
  /\ DGo(d, "delete", "free")
  /\ clientMap' = [clientMap EXCEPT ![handle[d]] = 0]
  /\ UNCHANGED <<serverVars, loopBase, handle, function, live, baseOf, clients,
                 callVars, called, userVars, known, broken>>

DeleteClient(d) ==
  /\ DGo(d, "delete", "free")
  /\ mutex = "free"
  /\ clientMap' = [clientMap EXCEPT ![handle[d]] = 0]
  /\ UNCHANGED <<serverVars, loopBase, handle, function, live, baseOf, clients,
                 callVars, called, userVars, known, broken>>

(* ... and bufferevent_free.                                               *)
FreeClient(d) ==
  /\ DGo(d, "free", "loop")
  /\ live' = [live EXCEPT ![handle[d]] = 0]
  /\ baseOf' = [baseOf EXCEPT ![handle[d]] = 0]
  /\ Forget(d)
  /\ UNCHANGED <<serverVars, loopBase, function, clientMap, clients,
                 callVars, called, userVars, known, broken>>

-----------------------------------------------------------------------------
(* The users                                                               *)

UGo(u, from, to) == user[u] = from /\ user' = [user EXCEPT ![u] = to]

(* SendMsg finds the handle in the map ...                                 *)
SendMsg(u, a) ==
  /\ UGo(u, "idle", "found")
  /\ mutex = "free" /\ a \in known /\ clientMap[a] # 0
  /\ mutex' = u
  /\ target' = [target EXCEPT ![u] = a]
  /\ UNCHANGED <<serverVars, loopVars, clientVars, callVars, called, known, broken>>

(* ... and writes to it, in the same critical section.                     *)
Write(u) ==
  /\ UGo(u, "found", "idle")
  /\ mutex' = "free"
  /\ broken' = (live[target[u]] = 0 \/ baseOf[target[u]] # base)
  /\ target' = [target EXCEPT ![u] = NoAddress]
  /\ UNCHANGED <<serverVars, loopVars, clientVars, callVars, called, known>>

SetMsgCallback(u) ==
  /\ UGo(u, "idle", "set")
  /\ mutex = "free" /\ sets < MaxSets
  /\ mutex' = u
  /\ sets' = sets + 1 /\ context' = sets + 1
  /\ UNCHANGED <<serverVars, loopVars, clientVars, callback, called, target, known, broken>>

MsgCallbackSet(u) ==
  /\ UGo(u, "set", "idle")
  /\ mutex' = "free"
  /\ callback' = sets
  /\ UNCHANGED <<serverVars, loopVars, clientVars, context, sets, called, target, known, broken>>

-----------------------------------------------------------------------------
ApiNext == Start \/ StartListener \/ StartDispatchThread \/ StopDispatchThread \/ StopFree
ThreadStep(d) ==
  \/ DispatchTest(d) \/ Dispatch(d) \/ AddClient(d) \/ Slept(d) \/ OnMsgCallback(d)
  \/ CallBack(d) \/ CalledBack(d) \/ DeleteClient(d) \/ FreeClient(d)
DispatchNext(d) ==
  \/ ThreadStep(d) \/ AcceptFails(d)
  \/ \E a \in Addresses : Accept(d, a) \/ Read(d, a) \/ Event(d, a)
UserNext(u) ==
  \/ Write(u) \/ SetMsgCallback(u) \/ MsgCallbackSet(u)
  \/ \E a \in Addresses : SendMsg(u, a)

Next ==
  /\ ~broken
  /\ \/ ApiNext
     \/ \E d \in Threads : DispatchNext(d)
     \/ \E u \in Users : UserNext(u)

SafetySpec == Init /\ [][Next]_vars

(* Threads go on; the mutex, once often enough free, is had (locks of both *)
(* platforms do not starve a thread for ever).                             *)
Fairness ==
  /\ \A d \in Threads : SF_vars(~broken /\ ThreadStep(d))
  /\ \A u \in Users : WF_vars(~broken /\ (Write(u) \/ MsgCallbackSet(u)))

Spec == SafetySpec /\ Fairness

-----------------------------------------------------------------------------
(* Every variable has its type, and the mutex is held by who is inside.    *)
TypeOK ==
  /\ base \in 0 .. starts /\ listener \in BOOLEAN /\ isRunning \in BOOLEAN
  /\ api \in {"idle", "bind", "run", "stop"} /\ starts \in 0 .. MaxStarts /\ stops \in Nat
  /\ dispatch \in [Threads -> {"none", "test", "enter", "loop", "sleep", "add", "read",
                               "context", "call", "delete", "free"}]
  /\ loopBase \in [Threads -> 0 .. MaxStarts] /\ handle \in [Threads -> Addresses \cup {NoAddress}]
  /\ function \in [Threads -> 0 .. MaxSets]
  /\ clients \in 0 .. MaxClients
  /\ live \in [Addresses -> 0 .. clients] /\ clientMap \in [Addresses -> 0 .. clients]
  /\ baseOf \in [Addresses -> 0 .. MaxStarts]
  /\ sets \in 0 .. MaxSets /\ callback \in 0 .. sets /\ context \in 0 .. sets
  /\ called \in (0 .. MaxSets) \X (0 .. MaxSets)
  /\ user \in [Users -> {"idle", "found", "set"}] /\ target \in [Users -> Addresses \cup {NoAddress}]
  /\ known \subseteq Addresses /\ broken \in BOOLEAN
  /\ \A u \in Users : user[u] # "idle" <=> mutex = u

(* Until Stop is called nothing that was freed is used: no SendMsg writes  *)
(* to a bufferevent that the dispatch thread has freed.                    *)
OnlyStopBreaks == broken => stops > 0

(* An entry of the map is the client that is connected at the address, not *)
(* an earlier one there; and the callback can answer: its client is listed.*)
ListedAreConnected ==
  /\ \A a \in Addresses : clientMap[a] # 0 => clientMap[a] = live[a]
  /\ \A d \in Threads :
       dispatch[d] \in {"read", "context", "call"} => clientMap[handle[d]] # 0

(* OnMsgCallback reads callback and context without the lock, and yet the  *)
(* first callback that is set is never called with another context.        *)
FirstCallbackWhole == sets <= 1 => called[1] = called[2]

(* Users and callbacks meet only clients that are there, and a callback    *)
(* only its own context.                                                   *)
ClientsSound == TypeOK /\ OnlyStopBreaks /\ ListedAreConnected /\ FirstCallbackWhole

(* A loop broken off by a failed accept is entered again, unless Stop is   *)
(* called.                                                                 *)
LoopResumes ==
  \A d \in Threads :
    dispatch[d] = "sleep" ~> (dispatch[d] = "loop" \/ stops > 0)
=============================================================================
