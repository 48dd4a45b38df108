-------------------------- MODULE ORpcStreamClient --------------------------
(***************************************************************************)
(* ORpcStreamClient of grpc/client: one user thread opens, writes to and   *)
(* closes a stream; a loop thread takes the tags of the completion queue   *)
(* and calls the user back.  The user's event callback runs under          *)
(* m_eventMutex, and does not call Close.                                  *)
(***************************************************************************)
EXTENDS RpcCalls

VARIABLES
  api,             \* where the user thread is
  session,         \* how often it called Open
  opened,          \* m_stream_ptr and the rest are there
  isConnect,       \* m_isConnect
  clientRunning,   \* m_isRunning
  loop, tag,       \* where the loop thread is, and the tag it has taken
  cq,              \* m_cq: the tags that are ready, with their ok
  ops,             \* operations the library has not completed
  eventMutex,      \* m_eventMutex is held, by a callback
  event,           \* history: the last event the user was told
  sent, got,       \* history: messages written and received in the session
  late,            \* history: OnConnected has run after Close began
  clientFault      \* the library was misused, which ends the program

userVars == <<api, session, opened>>
loopVars == <<loop, tag>>
libVars == <<cq, ops>>
eventVars == <<eventMutex, event>>
clientVars == <<userVars, isConnect, clientRunning, loopVars, libVars, eventVars,
                sent, got, late, clientFault>>

NoTag == <<"none", FALSE>>
Ops == {"connect", "read", "write", "finish"}

ClientInit ==
  /\ api = "idle" /\ session = 0 /\ opened = FALSE
  /\ isConnect = FALSE /\ clientRunning = FALSE
  /\ loop = "none" /\ tag = NoTag /\ cq = {} /\ ops = {}
  /\ eventMutex = FALSE /\ event = "none"
  /\ sent = 0 /\ got = 0 /\ late = FALSE /\ clientFault = "none"

-----------------------------------------------------------------------------
(* Open, Write and Close                                                   *)

(* The call is started and Finish asked for at once; m_isConnect is left   *)
(* as it is.                                                               *)
Open ==
  /\ api = "idle" /\ ~opened /\ session < MaxOpens
  /\ session' = session + 1 /\ opened' = TRUE
  /\ Place(session + 1, "none", "calling")
  /\ ops' = {"connect", "finish"} /\ cq' = {}
  /\ clientRunning' = TRUE /\ loop' = "test"
  /\ sent' = 0 /\ got' = 0
  /\ UNCHANGED <<api, isConnect, tag, eventVars, late, clientFault, requests, responses>>

(* The library takes one write at a time, and none before the call is up.  *)
Write ==
  /\ api = "idle" /\ opened /\ isConnect /\ sent < MaxWrites
  /\ clientFault' = CASE "connect" \in ops -> "early write"
                      [] "write" \in ops -> "two writes"
                      [] OTHER -> clientFault
  /\ ops' = ops \cup {"write"}
  /\ sent' = sent + 1
  /\ requests' = [requests EXCEPT ![session] = @ + 1]
  /\ UNCHANGED <<userVars, isConnect, clientRunning, loopVars, cq, eventVars, got,
                 late, call, responses>>

CloseStatus ==
  /\ api = "idle" /\ opened /\ ~eventMutex
  /\ isConnect' = FALSE /\ api' = "close"
  /\ UNCHANGED <<session, opened, clientRunning, loopVars, libVars, eventVars,
                 sent, got, late, clientFault, callVars>>

StopLoopThread ==
  /\ api = "close"
  /\ clientRunning' = FALSE /\ api' = "join"
  /\ UNCHANGED <<session, opened, isConnect, loopVars, libVars, eventVars,
                 sent, got, late, clientFault, callVars>>

(* The queue is deleted with what is in it and the call is cancelled.      *)
LoopJoined ==
  /\ api = "join" /\ loop = "none"
  /\ opened' = FALSE /\ cq' = {} /\ ops' = {} /\ api' = "event"
  /\ call' = [call EXCEPT ![session] = "ended"]
  /\ UNCHANGED <<session, isConnect, clientRunning, loopVars, eventVars,
                 sent, got, late, clientFault, requests, responses>>

CloseEvent ==
  /\ api = "event" /\ ~eventMutex
  /\ eventMutex' = TRUE /\ event' = "disconnect" /\ api' = "callback"
  /\ UNCHANGED <<session, opened, isConnect, clientRunning, loopVars, libVars,
                 sent, got, late, clientFault, callVars>>

CloseReturn ==
  /\ api = "callback"
  /\ eventMutex' = FALSE /\ api' = "idle"
  /\ UNCHANGED <<session, opened, isConnect, clientRunning, loopVars, libVars, event,
                 sent, got, late, clientFault, callVars>>

-----------------------------------------------------------------------------
(* The library completes operations                                        *)

Complete(op, ok) ==
  /\ op \in ops
  /\ ops' = ops \ {op} /\ cq' = cq \cup {<<op, ok>>}
  /\ UNCHANGED <<userVars, isConnect, clientRunning, loopVars, eventVars,
                 sent, got, late, clientFault>>

CallUp == call[session] \in {"calling", "open"}

ClientConnects == CallUp /\ Complete("connect", TRUE) /\ UNCHANGED callVars
ClientFails ==
  /\ call[session] # "open"
  /\ Complete("connect", FALSE)
  /\ call' = [call EXCEPT ![session] = "ended"]
  /\ UNCHANGED <<requests, responses>>
ClientFinishes ==
  /\ call[session] = "ended" /\ "connect" \notin ops
  /\ Complete("finish", TRUE) /\ UNCHANGED callVars
ClientReads ==
  /\ responses[session] > 0
  /\ Complete("read", TRUE)
  /\ responses' = [responses EXCEPT ![session] = @ - 1]
  /\ UNCHANGED <<call, requests>>
ClientReadFails == ~CallUp /\ Complete("read", FALSE) /\ UNCHANGED callVars
ClientWritten == Complete("write", CallUp) /\ UNCHANGED callVars

-----------------------------------------------------------------------------
(* LoopThread                                                              *)

LoopTest ==
  /\ loop = "test"
  /\ loop' = IF clientRunning THEN "next" ELSE "none"
  /\ UNCHANGED <<userVars, isConnect, clientRunning, tag, libVars, eventVars,
                 sent, got, late, clientFault, callVars>>

(* The queue keeps the end of a call behind its begin.                     *)
LoopNext ==
  /\ loop = "next"
  /\ \E t \in cq :
       /\ t[1] = "finish" => \A u \in cq : u[1] # "connect"
       /\ tag' = t /\ cq' = cq \ {t}
  /\ loop' = "tag"
  /\ UNCHANGED <<userVars, isConnect, clientRunning, ops, eventVars,
                 sent, got, late, clientFault, callVars>>

(* A wait that ends without a tag begins again, while the client runs.     *)
LoopTimeout ==
  /\ loop = "next" /\ cq = {} /\ ~clientRunning
  /\ loop' = "test"
  /\ UNCHANGED <<userVars, isConnect, clientRunning, tag, libVars, eventVars,
                 sent, got, late, clientFault, callVars>>

(* Read, of which the library takes one at a time.                         *)
AskRead ==
  /\ ops' = ops \cup {"read"}
  /\ clientFault' = IF "read" \in ops THEN "two reads" ELSE clientFault

OnConnected ==
  /\ loop = "tag" /\ tag[1] = "connect" /\ ~eventMutex
  /\ isConnect' = tag[2]
  /\ IF tag[2] THEN AskRead ELSE UNCHANGED <<ops, clientFault>>
  /\ late' = (late \/ (tag[2] /\ api # "idle"))
  /\ loop' = "event"
  /\ UNCHANGED <<userVars, clientRunning, tag, cq, eventVars, sent, got, callVars>>

OnDisconnect ==
  /\ loop = "tag" /\ tag[1] = "finish" /\ ~eventMutex
  /\ isConnect' = FALSE
  /\ loop' = "event"
  /\ UNCHANGED <<userVars, clientRunning, tag, libVars, eventVars, sent, got, late,
                 clientFault, callVars>>

OnEventCallback ==
  /\ loop = "event" /\ ~eventMutex
  /\ eventMutex' = TRUE
  /\ event' = IF tag = <<"connect", TRUE>> THEN "connected" ELSE "disconnect"
  /\ loop' = "callback"
  /\ UNCHANGED <<userVars, isConnect, clientRunning, tag, libVars, sent, got, late,
                 clientFault, callVars>>

EventReturn ==
  /\ loop = "callback"
  /\ eventMutex' = FALSE /\ loop' = "test" /\ tag' = NoTag
  /\ UNCHANGED <<userVars, isConnect, clientRunning, libVars, event, sent, got, late,
                 clientFault, callVars>>

(* Mutant: the next message is asked for before the callback.              *)
OnReadDoneAsksFirst ==
  /\ loop = "tag" /\ tag[1] = "read"
  /\ got' = got + (IF tag[2] THEN 1 ELSE 0)
  /\ ops' = ops \cup {"read"}
  /\ loop' = "read"
  /\ UNCHANGED <<userVars, isConnect, clientRunning, tag, cq, eventVars, sent, late,
                 clientFault, callVars>>

(* OnReadDone: the callback gets m_buffer ...                              *)
OnReadDone ==
  /\ loop = "tag" /\ tag[1] = "read"
  /\ got' = got + (IF tag[2] THEN 1 ELSE 0)
  /\ loop' = "read"
  /\ UNCHANGED <<userVars, isConnect, clientRunning, tag, libVars, eventVars, sent, late,
                 clientFault, callVars>>

(* ... and the next message is asked for.                                  *)
ReadAgain ==
  /\ loop = "read"
  /\ IF isConnect THEN AskRead ELSE UNCHANGED <<ops, clientFault>>
  /\ loop' = "test" /\ tag' = NoTag
  /\ UNCHANGED <<userVars, isConnect, clientRunning, cq, eventVars, sent, got, late,
                 callVars>>

OnWriteDone ==
  /\ loop = "tag" /\ tag[1] = "write"
  /\ loop' = "test" /\ tag' = NoTag
  /\ UNCHANGED <<userVars, isConnect, clientRunning, libVars, eventVars, sent, got,
                 late, clientFault, callVars>>

-----------------------------------------------------------------------------
UserNext == Open \/ Write \/ CloseStatus \/ StopLoopThread \/ LoopJoined
            \/ CloseEvent \/ CloseReturn
ClientLibrary == ClientConnects \/ ClientFails \/ ClientFinishes \/ ClientReads
                 \/ ClientReadFails \/ ClientWritten
LoopStep == LoopTest \/ LoopNext \/ LoopTimeout \/ OnConnected \/ OnDisconnect
            \/ OnEventCallback \/ EventReturn \/ OnReadDone \/ ReadAgain \/ OnWriteDone

ClientNext == clientFault = "none" /\ (UserNext \/ (session > 0 /\ ClientLibrary) \/ LoopStep)

Tags == (Ops \X BOOLEAN) \cup {NoTag}

ClientTypeOK ==
  /\ api \in {"idle", "close", "join", "event", "callback"}
  /\ session \in 0 .. MaxOpens /\ opened \in BOOLEAN
  /\ isConnect \in BOOLEAN /\ clientRunning \in BOOLEAN
  /\ loop \in {"none", "test", "next", "tag", "event", "callback", "read"}
  /\ tag \in Tags /\ cq \subseteq Tags /\ ops \subseteq Ops
  /\ eventMutex \in BOOLEAN /\ (eventMutex <=> api = "callback" \/ loop = "callback")
  /\ event \in {"none", "connected", "disconnect"}
  /\ sent \in 0 .. MaxWrites /\ got \in 0 .. MaxWrites
  /\ late \in BOOLEAN
  /\ clientFault \in {"none", "early write", "two writes", "two reads"}

(* Between callbacks the user was last told what m_isConnect says; and     *)
(* after Close, that there is no connection.  An OnConnected that runs     *)
(* after Close began leaves m_isConnect set into the next session.         *)
EventsTellStatus ==
  /\ (~late /\ api = "idle" /\ loop \in {"none", "test", "next"}) =>
       (isConnect <=> event = "connected")
  /\ (session > 0 /\ ~opened /\ api = "idle") => event = "disconnect" /\ loop = "none"

(* No message is written before the call is up, but for such a left status;*)
(* and a message is read into m_buffer only after the callback for the one *)
(* before has returned.                                                    *)
StreamUsedInTurn ==
  /\ clientFault = "early write" => late
  /\ clientFault # "two reads"
  /\ (loop = "read" \/ tag[1] = "read") =>
       "read" \notin ops /\ \A t \in cq : t[1] # "read"
=============================================================================
