-------------------------- MODULE RpcStreamProofs ---------------------------
(***************************************************************************)
(* Proofs about RpcStream, for any number of calls, writes, requests and   *)
(* channels: what the client's user is told and called back with, and what *)
(* the server keeps of its channels.                                       *)
(***************************************************************************)
EXTENDS RpcStream, FiniteSetTheorems, TLAPS

(* The other side is abstract: nothing of it moves but the count of what   *)
(* the abstract clients sent.                                              *)
SideInv ==
  /\ side \in {"client", "server"}
  /\ side = "client" => ServerInit
  /\ side = "server" =>
       /\ api = "idle" /\ session = 0 /\ opened = FALSE
       /\ isConnect = FALSE /\ clientRunning = FALSE
       /\ loop = "none" /\ tag = NoTag /\ cq = {} /\ ops = {}
       /\ eventMutex = FALSE /\ event = "none"
       /\ got = 0 /\ late = FALSE /\ clientFault = "none"

-----------------------------------------------------------------------------
(* The client                                                              *)

(* The loop thread is there while the stream is, and has a tag only while  *)
(* it deals with it.                                                       *)
LoopInv ==
  /\ ~opened => loop = "none"
  /\ api \in {"close", "join"} => opened
  /\ api \in {"event", "callback"} => ~opened
  /\ (opened \/ api # "idle") => session > 0
  /\ loop \in {"none", "test", "next"} => tag = NoTag
  /\ loop = "read" => tag[1] = "read"
  /\ loop \in {"event", "callback"} => tag[1] \in {"connect", "finish"}

(* What the user was told last, in every state of the loop thread.         *)
EventInv ==
  /\ ~late /\ api # "idle" => ~isConnect
  /\ ~late /\ api = "idle" /\ loop # "event" => (isConnect <=> event = "connected")
  /\ ~late /\ api = "idle" /\ loop = "event" => (isConnect <=> tag = <<"connect", TRUE>>)
  /\ api = "callback" => event = "disconnect"
  /\ session > 0 /\ ~opened /\ api = "idle" => event = "disconnect"
  /\ session = 0 => event = "none"

InCq(op) == \E b \in BOOLEAN : <<op, b>> \in cq

(* An operation is on its way, among the ready ones or in the hands of the *)
(* loop thread, in one of these places only, ...                           *)
Once(op) ==
  /\ op \in ops => ~InCq(op) /\ tag[1] # op
  /\ InCq(op) => tag[1] # op
  /\ ~(<<op, TRUE>> \in cq /\ <<op, FALSE>> \in cq)

(* ... and nothing is read, nor is there a connection, before the call is  *)
(* up.                                                                     *)
Unconnected == "connect" \in ops \/ InCq("connect") \/ (loop = "tag" /\ tag[1] = "connect")

OpsInv ==
  /\ Once("connect") /\ Once("read")
  /\ Unconnected => "read" \notin ops /\ ~InCq("read") /\ tag[1] # "read"
  /\ ~late /\ isConnect => "connect" \notin ops
  /\ clientFault = "early write" => late
  /\ clientFault # "two reads"

(* An answer is counted once on its way from the server to the callback;   *)
(* sessions to come have none.                                             *)
ReadyReads == IF <<"read", TRUE>> \in cq THEN 1 ELSE 0
ReadsInHand == IF loop = "tag" /\ tag = <<"read", TRUE>> THEN 1 ELSE 0

MessageInv ==
  /\ session > 0 =>
       got + ReadyReads + ReadsInHand + requests[session] + responses[session] <= sent
  /\ \A s \in Sessions :
       /\ requests[s] + responses[s] <= MaxWrites
       /\ s > session => call[s] = "none" /\ requests[s] = 0 /\ responses[s] = 0

ClientInv == LoopInv /\ EventInv /\ OpsInv /\ MessageInv

-----------------------------------------------------------------------------
(* The server                                                              *)

Serving == serverApi \in {"running", "check", "loop"}

(* Channels in the list, deleted and still to be made anew add up.         *)
ListInv ==
  /\ channelList \cap freed = {}
  /\ serverApi = "idle" => made = 0 /\ freed = {} /\ serverLoop = "none"
  /\ Serving => /\ Cardinality(channelList) + missing = MaxChannel
                /\ made = MaxChannel + Cardinality(freed) - missing
  /\ serverApi \in {"idle", "loop", "stopped"} => check = "none"
  /\ serverApi = "stopped" => serverLoop = "none"
  /\ check # "walk" => missing = 0
  /\ check = "none" => unchecked = {}
  /\ missing > 0 => freed # {}

Tagged(o, op) == \E b \in BOOLEAN : <<o, op, b>> \in scq
InHand(o, op) == serverTag[1] = o /\ serverTag[2] = op

(* A channel that is not made yet has nothing.                             *)
Fresh(o) ==
  /\ status[o] = "unconnect" /\ client[o] = 0 /\ channelOps[o] = {}
  /\ \A op \in ServerOps : ~Tagged(o, op) /\ ~InHand(o, op)

FreshInv == \A o \in Channels : o > made => Fresh(o)

(* A call is given to one channel, once; so no more channels are deleted   *)
(* than calls were taken.                                                  *)
Matched == {s \in Sessions : call[s] \in {"open", "ended"}}
Served == {o \in Channels : client[o] # 0}

CallInv ==
  /\ \A o \in Served : client[o] \in Matched
  /\ \A o, p \in Served : client[o] = client[p] => o = p
  /\ \A o \in Channels : "connect" \in channelOps[o] => client[o] = 0
  /\ Serving => Cardinality(freed) + Cardinality(Served) <= Cardinality(Matched)

(* Only a call that has ended disconnects its channel.                     *)
Ending(o) == status[o] = "disconnect" \/ Tagged(o, "done") \/ InHand(o, "done")
CallEnded(o) == client[o] # 0 /\ call[client[o]] = "ended"

EndInv == \A o \in Channels : o \notin freed /\ Ending(o) => CallEnded(o)

ServerOnce(o, op) ==
  /\ op \in channelOps[o] => ~Tagged(o, op) /\ ~InHand(o, op)
  /\ Tagged(o, op) => ~InHand(o, op)
  /\ ~(<<o, op, TRUE>> \in scq /\ <<o, op, FALSE>> \in scq)

Waiting(o) == "connect" \in channelOps[o] \/ Tagged(o, "connect") \/ InHand(o, "connect")

(* The loop thread has a tag only while it deals with it.                  *)
TagInv ==
  /\ serverLoop \in {"none", "test", "next"} => serverTag = NoServerTag
  /\ Walking => serverTag[2] = "read"
  /\ serverLoop = "walk" => serverTag[3]

(* A channel reads only after its call came, and one message at a time.    *)
InTurn(o) ==
  /\ ServerOnce(o, "connect") /\ ServerOnce(o, "read")
  /\ "connect" \in channelOps[o] => channelOps[o] = {"connect"}
  /\ Waiting(o) => "read" \notin channelOps[o] /\ ~Tagged(o, "read") /\ ~InHand(o, "read")

ReadInv == TagInv /\ \A o \in Channels : InTurn(o)

SomeEnded == \E s \in Sessions : call[s] = "ended"

FaultInv ==
  /\ freed # {} /\ serverApi # "stopped" => SomeEnded
  /\ serverFault \in {"freed", "list"} => SomeEnded

(* A request becomes one answer at most.                                   *)
AnswerInv == sent <= MaxRequests /\ \A s \in Sessions : AnswersOf(s) <= sent

(* A channel of the list that has no call yet has at most asked for one,   *)
(* and has no tag: what is read and written is of some call.               *)
Idle(o) ==
  /\ channelOps[o] \subseteq {"connect"}
  /\ \A op \in ServerOps : ~Tagged(o, op) /\ ~InHand(o, op)

IdleInv == \A o \in channelList : client[o] = 0 => Idle(o)

ServerInv ==
  /\ ListInv /\ FreshInv /\ CallInv /\ EndInv /\ ReadInv /\ FaultInv /\ AnswerInv
  /\ IdleInv /\ OverlapsAreWrites

IInv ==
  /\ TypeOK /\ SideInv
  /\ side = "client" => ClientInv
  /\ side = "server" => ServerInv

-----------------------------------------------------------------------------
(* Steps of the client                                                     *)

LEMMA TagParts ==
  /\ \A t \in Tags : t = <<t[1], t[2]>> /\ t[2] \in BOOLEAN /\ t[1] \in Ops \cup {"none"}
  /\ NoTag \in Tags /\ NoTag[1] = "none"
<1>1. ASSUME NEW t \in Tags
      PROVE  t = <<t[1], t[2]>> /\ t[2] \in BOOLEAN /\ t[1] \in Ops \cup {"none"}
  <2>1. CASE t \in Ops \X BOOLEAN
    BY <2>1
  <2>2. CASE t = NoTag
    BY <2>2 DEF NoTag
  <2> QED
    BY <2>1, <2>2 DEF Tags
<1>2. NoTag \in Tags /\ NoTag[1] = "none"
  BY DEF Tags, NoTag
<1> QED
  BY <1>1, <1>2

LEMMA SessionFacts ==
  ASSUME TypeOK
  PROVE  /\ MaxOpens \in Nat /\ MaxWrites \in Nat /\ MaxRequests \in 0 .. MaxWrites
         /\ session \in Nat /\ (session > 0 => session \in Sessions)
         /\ (session < MaxOpens => session + 1 \in Sessions)
         /\ \A s \in Sessions : s \in Nat /\ s > 0
<1>1. session \in 0 .. MaxOpens
  BY DEF TypeOK, ClientTypeOK
<1>2. MaxOpens \in Nat /\ MaxWrites \in Nat /\ MaxRequests \in 0 .. MaxWrites
  BY CallsAssumption, RequestsAssumption
<1> QED
  BY <1>1, <1>2 DEF Sessions

LEMMA MessageFacts ==
  ASSUME TypeOK, MessageInv
  PROVE  /\ sent \in Nat /\ got \in Nat /\ MaxWrites \in Nat /\ sent <= MaxWrites
         /\ ReadyReads \in {0, 1} /\ ReadsInHand \in {0, 1}
         /\ requests \in [Sessions -> Nat] /\ responses \in [Sessions -> Nat]
         /\ \A s \in Sessions : requests[s] \in Nat /\ responses[s] \in Nat
<1>1. ReadyReads \in {0, 1} /\ ReadsInHand \in {0, 1}
  BY DEF ReadyReads, ReadsInHand
<1>2. sent \in 0 .. MaxWrites /\ got \in 0 .. MaxWrites /\ MaxWrites \in Nat
  BY CallsAssumption DEF TypeOK, ClientTypeOK
<1>3. requests \in [Sessions -> 0 .. MaxWrites] /\ responses \in [Sessions -> 0 .. MaxWrites]
  BY DEF TypeOK, CallsTypeOK
<1> QED
  BY <1>1, <1>2, <1>3

ReadsSame ==
  /\ <<"read", TRUE>> \in cq' <=> <<"read", TRUE>> \in cq
  /\ \/ loop' = loop /\ tag' = tag
     \/ (loop # "tag" \/ tag[1] # "read") /\ loop' # "tag"

LEMMA SameReads ==
  ReadsSame => ReadyReads' = ReadyReads /\ ReadsInHand' = ReadsInHand
<1> SUFFICES ASSUME ReadsSame PROVE ReadyReads' = ReadyReads /\ ReadsInHand' = ReadsInHand
  OBVIOUS
<1>1. ReadyReads' = ReadyReads
  BY DEF ReadyReads, ReadsSame
<1>2. ASSUME tag = <<"read", TRUE>> PROVE tag[1] = "read"
  BY <1>2
<1> QED
  BY <1>1, <1>2 DEF ReadsInHand, ReadsSame

LEMMA ClientMessages ==
  ASSUME TypeOK, LoopInv, OpsInv, MessageInv,
         \/ ClientNext
         \/ (\E s \in Sessions : Take(s) \/ Answer(s) \/ Break(s)) /\ UNCHANGED clientVars
  PROVE  MessageInv'
<1> USE SessionFacts, MessageFacts
<1> USE DEF MessageInv, userVars, loopVars, libVars, eventVars, callVars, Place
<1>1. CASE Open
  <2>1. session \in Nat /\ session + 1 \in Sessions /\ session' = session + 1 /\ got' = 0 /\ sent' = 0
    BY <1>1 DEF Open
  <2>2. loop' = "test" /\ cq' = {} /\ requests' = requests /\ responses' = responses
    BY <1>1 DEF Open
  <2>3. \A s \in Sessions : s # session + 1 => call'[s] = call[s]
    BY <1>1 DEF Open
  <2>4. requests[session + 1] = 0 /\ responses[session + 1] = 0
    BY <2>1
  <2>5. ReadyReads' = 0 /\ ReadsInHand' = 0
    BY <2>2 DEF ReadyReads, ReadsInHand
  <2> QED
    BY <2>1, <2>2, <2>3, <2>4, <2>5
<1>2. CASE Write
  <2>1. session \in Sessions /\ sent < MaxWrites /\ sent' = sent + 1
    BY <1>2 DEF Write, LoopInv
  <2>2. requests' = [requests EXCEPT ![session] = @ + 1]
    BY <1>2 DEF Write
  <2>3. UNCHANGED <<session, got, cq, loop, tag, call, responses>>
    BY <1>2 DEF Write
  <2>4. ReadyReads' = ReadyReads /\ ReadsInHand' = ReadsInHand
    BY <2>3 DEF ReadyReads, ReadsInHand
  <2> QED
    BY <2>1, <2>2, <2>3, <2>4
<1>3. CASE LoopJoined
  <2>1. session \in Sessions /\ cq' = {} /\ loop = "none"
    BY <1>3 DEF LoopJoined, LoopInv
  <2>2. call' = [call EXCEPT ![session] = "ended"]
    BY <1>3 DEF LoopJoined
  <2>3. UNCHANGED <<session, got, sent, loop, tag, requests, responses>>
    BY <1>3 DEF LoopJoined
  <2>4. ReadyReads' = 0 /\ ReadsInHand' = ReadsInHand
    BY <2>1, <2>3 DEF ReadyReads, ReadsInHand
  <2> QED
    BY <2>1, <2>2, <2>3, <2>4
<1>4. CASE session > 0 /\ ClientFails
  <2>1. session \in Sessions /\ call' = [call EXCEPT ![session] = "ended"]
    BY <1>4 DEF ClientFails
  <2>2. cq' = cq \cup {<<"connect", FALSE>>}
    BY <1>4 DEF ClientFails, Complete
  <2>3. UNCHANGED <<session, got, sent, loop, tag, requests, responses>>
    BY <1>4 DEF ClientFails, Complete
  <2>4. ReadyReads' = ReadyReads /\ ReadsInHand' = ReadsInHand
    BY <2>2, <2>3 DEF ReadyReads, ReadsInHand
  <2> QED
    BY <2>1, <2>3, <2>4
<1>5. CASE session > 0 /\ ClientReads
  <2>1. session \in Sessions /\ responses[session] > 0 /\ <<"read", TRUE>> \notin cq
    BY <1>5 DEF ClientReads, Complete, OpsInv, Once, InCq
  <2>2. cq' = cq \cup {<<"read", TRUE>>}
    BY <1>5 DEF ClientReads, Complete
  <2>3. responses' = [responses EXCEPT ![session] = @ - 1]
    BY <1>5 DEF ClientReads
  <2>4. UNCHANGED <<session, got, sent, loop, tag, call, requests>>
    BY <1>5 DEF ClientReads, Complete
  <2>5. ReadyReads = 0 /\ ReadyReads' = 1 /\ ReadsInHand' = ReadsInHand
    BY <2>1, <2>2, <2>4 DEF ReadyReads, ReadsInHand
  <2> QED
    BY <2>1, <2>3, <2>4, <2>5
<1>6. CASE LoopNext
  <2>1. PICK t \in cq : tag' = t /\ cq' = cq \ {t} /\ loop = "next" /\ loop' = "tag"
    BY <1>6 DEF LoopNext
  <2>2. UNCHANGED <<session, got, sent, call, requests, responses>>
    BY <1>6 DEF LoopNext
  <2>3. CASE t = <<"read", TRUE>>
    <3>1. ReadyReads = 1 /\ ReadsInHand = 0 /\ ReadyReads' = 0 /\ ReadsInHand' = 1
      BY <2>1, <2>3 DEF ReadyReads, ReadsInHand
    <3> QED
      BY <2>2, <3>1
  <2>4. CASE t # <<"read", TRUE>>
    <3>1. ReadyReads' = ReadyReads /\ ReadsInHand = 0 /\ ReadsInHand' = 0
      BY <2>1, <2>4 DEF ReadyReads, ReadsInHand
    <3> QED
      BY <2>2, <3>1
  <2> QED
    BY <2>3, <2>4
<1>7. CASE OnReadDone
  <2>1. loop = "tag" /\ tag[1] = "read" /\ loop' = "read" /\ tag' = tag /\ cq' = cq
    BY <1>7 DEF OnReadDone
  <2>2. got' = got + (IF tag[2] THEN 1 ELSE 0)
    BY <1>7 DEF OnReadDone
  <2>3. UNCHANGED <<session, sent, call, requests, responses>>
    BY <1>7 DEF OnReadDone
  <2>4. tag = <<tag[1], tag[2]>> /\ tag[2] \in BOOLEAN
    BY TagParts DEF TypeOK, ClientTypeOK
  <2>5. ReadyReads' = ReadyReads /\ ReadsInHand' = 0
    BY <2>1 DEF ReadyReads, ReadsInHand
  <2>6. ReadsInHand = IF tag[2] THEN 1 ELSE 0
    <3>1. CASE tag[2]
      BY <2>1, <2>4, <3>1 DEF ReadsInHand
    <3>2. CASE ~tag[2]
      <4>1. ASSUME tag = <<"read", TRUE>> PROVE tag[2]
        BY <4>1
      <4> QED
        BY <3>2, <4>1 DEF ReadsInHand
    <3> QED
      BY <3>1, <3>2
  <2> QED
    BY <2>2, <2>3, <2>5, <2>6
<1>8. ASSUME UNCHANGED <<session, got, sent, call, requests, responses>>, ReadsSame
      PROVE  MessageInv'
  BY <1>8, SameReads
<1>9. CASE CloseStatus \/ StopLoopThread \/ CloseEvent \/ CloseReturn
  <2>1. UNCHANGED <<session, got, sent, call, requests, responses>>
    BY <1>9 DEF CloseStatus, StopLoopThread, CloseEvent, CloseReturn
  <2>2. ReadsSame
    BY <1>9 DEF CloseStatus, StopLoopThread, CloseEvent, CloseReturn, ReadsSame
  <2> QED
    BY <1>8, <2>1, <2>2
<1>10. CASE session > 0 /\ (ClientConnects \/ ClientFinishes)
  <2>1. UNCHANGED <<session, got, sent, call, requests, responses>>
    BY <1>10 DEF ClientConnects, ClientFinishes, Complete
  <2>2. ReadsSame
    BY <1>10 DEF ClientConnects, ClientFinishes, Complete, ReadsSame
  <2> QED
    BY <1>8, <2>1, <2>2
<1>11. CASE session > 0 /\ (ClientReadFails \/ ClientWritten)
  <2>1. UNCHANGED <<session, got, sent, call, requests, responses>>
    BY <1>11 DEF ClientReadFails, ClientWritten, Complete
  <2>2. ReadsSame
    BY <1>11 DEF ClientReadFails, ClientWritten, Complete, ReadsSame
  <2> QED
    BY <1>8, <2>1, <2>2
<1>12. CASE LoopTest \/ LoopTimeout \/ OnConnected \/ OnDisconnect
  <2>1. UNCHANGED <<session, got, sent, call, requests, responses>>
    BY <1>12 DEF LoopTest, LoopTimeout, OnConnected, OnDisconnect
  <2>2. ReadsSame
    BY <1>12 DEF LoopTest, LoopTimeout, OnConnected, OnDisconnect, ReadsSame
  <2> QED
    BY <1>8, <2>1, <2>2
<1>13. CASE OnEventCallback \/ EventReturn \/ ReadAgain \/ OnWriteDone
  <2>1. UNCHANGED <<session, got, sent, call, requests, responses>>
    BY <1>13 DEF OnEventCallback, EventReturn, ReadAgain, OnWriteDone
  <2>2. ReadsSame
    BY <1>13 DEF OnEventCallback, EventReturn, ReadAgain, OnWriteDone, ReadsSame, LoopInv
  <2> QED
    BY <1>8, <2>1, <2>2
<1>14. ASSUME NEW s \in Sessions, Take(s) \/ Answer(s) \/ Break(s), UNCHANGED clientVars
       PROVE  MessageInv'
  <2>1. UNCHANGED <<session, got, sent, cq, loop, tag>>
    BY <1>14 DEF clientVars
  <2>2. ReadyReads' = ReadyReads /\ ReadsInHand' = ReadsInHand
    BY <2>1 DEF ReadyReads, ReadsInHand
  <2>3. CASE Answer(s)
    BY <2>1, <2>2, <2>3 DEF Answer
  <2>4. CASE Take(s) \/ Break(s)
    <3>1. call[s] # "none" /\ \A r \in Sessions : r # s => call'[r] = call[r]
      BY <2>4 DEF Take, Break, TypeOK, CallsTypeOK
    <3>2. UNCHANGED <<requests, responses>>
      BY <2>4 DEF Take, Break
    <3> QED
      BY <2>1, <2>2, <3>1, <3>2
  <2> QED
    BY <1>14, <2>3, <2>4
<1> QED
  BY <1>1, <1>2, <1>3, <1>4, <1>5, <1>6, <1>7, <1>9, <1>10, <1>11, <1>12, <1>13, <1>14
  DEF ClientNext, UserNext, ClientLibrary, LoopStep

LEMMA ClientLoop ==
  ASSUME TypeOK, LoopInv, ClientNext
  PROVE  LoopInv'
<1> USE SessionFacts DEF LoopInv, userVars, loopVars, libVars, eventVars
<1>1. CASE Open
  BY <1>1 DEF Open
<1>2. CASE Write \/ CloseStatus \/ StopLoopThread
  BY <1>2 DEF Write, CloseStatus, StopLoopThread
<1>3. CASE LoopJoined \/ CloseEvent \/ CloseReturn
  BY <1>3 DEF LoopJoined, CloseEvent, CloseReturn
<1>4. ASSUME UNCHANGED <<api, session, opened, loop, tag>> PROVE LoopInv'
  BY <1>4
<1>5. CASE ClientLibrary
  <2>1. UNCHANGED <<api, session, opened, loop, tag>>
    BY <1>5 DEF ClientLibrary, ClientConnects, ClientFails, ClientFinishes, ClientReads,
                ClientReadFails, ClientWritten, Complete
  <2> QED
    BY <1>4, <2>1
<1>6. CASE LoopTest \/ LoopNext \/ LoopTimeout
  BY <1>6 DEF LoopTest, LoopNext, LoopTimeout
<1>7. CASE OnConnected \/ OnDisconnect \/ OnEventCallback
  BY <1>7 DEF OnConnected, OnDisconnect, OnEventCallback
<1>8. CASE EventReturn \/ OnReadDone \/ ReadAgain \/ OnWriteDone
  BY <1>8 DEF EventReturn, OnReadDone, ReadAgain, OnWriteDone
<1> QED
  BY <1>1, <1>2, <1>3, <1>5, <1>6, <1>7, <1>8
  DEF ClientNext, UserNext, LoopStep

LEMMA ConnectTag ==
  ASSUME TypeOK, tag[1] = "connect"
  PROVE  tag[2] \in BOOLEAN /\ (tag = <<"connect", TRUE>> <=> tag[2])
<1>1. tag = <<tag[1], tag[2]>> /\ tag[2] \in BOOLEAN
  BY TagParts DEF TypeOK, ClientTypeOK
<1>2. ASSUME tag = <<"connect", TRUE>> PROVE tag[2]
  BY <1>2
<1>3. ASSUME tag[2] PROVE tag = <<"connect", TRUE>>
  BY <1>1, <1>3
<1> QED
  BY <1>1, <1>2, <1>3

LEMMA ClientEvents ==
  ASSUME TypeOK, LoopInv, EventInv, ClientNext
  PROVE  EventInv'
<1>0. isConnect \in BOOLEAN /\ late \in BOOLEAN
  BY DEF TypeOK, ClientTypeOK
<1> USE <1>0, SessionFacts DEF LoopInv, EventInv, userVars, loopVars, libVars, eventVars
<1>1. CASE Open
  BY <1>1 DEF Open
<1>2. ASSUME UNCHANGED <<api, session, opened, loop, tag, isConnect, event, late>>
      PROVE  EventInv'
  BY <1>2
<1>3. CASE Write \/ ClientLibrary
  <2>1. UNCHANGED <<api, session, opened, loop, tag, isConnect, event, late>>
    BY <1>3 DEF Write, ClientLibrary, ClientConnects, ClientFails, ClientFinishes, ClientReads,
                ClientReadFails, ClientWritten, Complete
  <2> QED
    BY <1>2, <2>1
<1>4. CASE CloseStatus
  BY <1>4 DEF CloseStatus
<1>5. CASE StopLoopThread
  BY <1>5 DEF StopLoopThread
<1>6. CASE LoopJoined
  BY <1>6 DEF LoopJoined
<1>7. CASE CloseEvent
  BY <1>7 DEF CloseEvent
<1>8. CASE CloseReturn
  BY <1>8 DEF CloseReturn
<1>9. CASE LoopTest
  BY <1>9 DEF LoopTest
<1>10. CASE LoopNext
  BY <1>10 DEF LoopNext
<1>11. CASE LoopTimeout
  BY <1>11 DEF LoopTimeout
<1>12. CASE EventReturn
  BY <1>12 DEF EventReturn
<1>13. CASE OnReadDone
  BY <1>13 DEF OnReadDone
<1>14. CASE ReadAgain
  BY <1>14 DEF ReadAgain
<1>15. CASE OnWriteDone
  BY <1>15 DEF OnWriteDone
<1>16. CASE OnEventCallback
  <2>1. CASE tag = <<"connect", TRUE>>
    <3>1. event' = "connected" /\ opened /\ session > 0 /\ loop = "event" /\ loop' = "callback"
      BY <1>16, <2>1 DEF OnEventCallback
    <3> QED
      BY <1>16, <2>1, <3>1 DEF OnEventCallback
  <2>2. CASE tag # <<"connect", TRUE>>
    <3>1. event' = "disconnect" /\ opened /\ session > 0 /\ loop = "event" /\ loop' = "callback"
      BY <1>16, <2>2 DEF OnEventCallback
    <3>2. ~late /\ api = "idle" => ~isConnect
      BY <2>2, <3>1
    <3>3. UNCHANGED <<api, session, opened, isConnect, late>>
      BY <1>16 DEF OnEventCallback
    <3> QED
      BY <3>1, <3>2, <3>3
  <2> QED
    BY <2>1, <2>2
<1>17. CASE OnConnected
  <2>1. tag[2] \in BOOLEAN /\ (tag = <<"connect", TRUE>> <=> tag[2])
    BY <1>17, ConnectTag DEF OnConnected
  <2> QED
    BY <1>17, <2>1 DEF OnConnected
<1>18. CASE OnDisconnect
  <2>1. ASSUME tag = <<"connect", TRUE>> PROVE tag[1] = "connect"
    BY <2>1
  <2> QED
    BY <1>18, <2>1 DEF OnDisconnect
<1> QED
  BY <1>1, <1>3, <1>4, <1>5, <1>6, <1>7, <1>8, <1>9, <1>10, <1>11, <1>12, <1>13, <1>14, <1>15,
     <1>16, <1>17, <1>18 DEF ClientNext, UserNext, LoopStep

(* The places of an operation after a tag came to the queue, or left it.   *)
LEMMA QueueGrows ==
  ASSUME NEW p, NEW ok \in BOOLEAN, cq' = cq \cup {<<p, ok>>}, ~InCq(p), NEW op
  PROVE  /\ InCq(op)' <=> InCq(op) \/ op = p
         /\ ~(<<op, TRUE>> \in cq /\ <<op, FALSE>> \in cq)
              => ~(<<op, TRUE>> \in cq' /\ <<op, FALSE>> \in cq')
<1>1. ASSUME NEW b PROVE <<op, b>> = <<p, ok>> => op = p /\ b = ok
  <2>1. <<op, b>>[1] = op /\ <<op, b>>[2] = b /\ <<p, ok>>[1] = p /\ <<p, ok>>[2] = ok
    OBVIOUS
  <2> QED
    BY <2>1
<1>2. op = p => InCq(op)'
  BY DEF InCq
<1> QED
  BY <1>1, <1>2 DEF InCq

LEMMA QueueShrinks ==
  ASSUME TypeOK, NEW t \in cq, cq' = cq \ {t}, NEW op,
         ~(<<op, TRUE>> \in cq /\ <<op, FALSE>> \in cq)
  PROVE  /\ InCq(op)' <=> InCq(op) /\ op # t[1]
         /\ ~(<<op, TRUE>> \in cq' /\ <<op, FALSE>> \in cq')
         /\ op = t[1] /\ op # "none" => InCq(op)
<1>1. t = <<t[1], t[2]>> /\ (t[2] \in BOOLEAN)
  BY TagParts DEF TypeOK, ClientTypeOK
<1>2. ASSUME NEW b PROVE <<op, b>> = t <=> op = t[1] /\ b = t[2]
  BY <1>1
<1>3. TRUE \in BOOLEAN /\ FALSE \in BOOLEAN
  OBVIOUS
<1>4. CASE op # t[1]
  BY <1>2, <1>4 DEF InCq
<1>5. CASE op = t[1]
  <2>1. ~InCq(op)'
    BY <1>1, <1>2, <1>5 DEF InCq
  <2> QED
    BY <1>1, <1>5, <2>1 DEF InCq
<1> QED
  BY <1>4, <1>5

LEMMA SameQueue ==
  ASSUME cq' = cq, NEW op
  PROVE  InCq(op)' <=> InCq(op)
BY DEF InCq

LEMMA LibraryStep ==
  ASSUME ClientLibrary
  PROVE  \E op \in Ops, ok \in BOOLEAN : Complete(op, ok)
<1>1. CallUp \in BOOLEAN
  BY DEF CallUp
<1> QED
  BY <1>1 DEF ClientLibrary, ClientConnects, ClientFails, ClientFinishes, ClientReads,
              ClientReadFails, ClientWritten, Ops

LEMMA ClientOps ==
  ASSUME TypeOK, LoopInv, EventInv, OpsInv, ClientNext
  PROVE  OpsInv'
<1>0. /\ isConnect \in BOOLEAN /\ late \in BOOLEAN /\ "connect" # "read"
      /\ clientFault = "none"
      /\ ~(<<"connect", TRUE>> \in cq /\ <<"connect", FALSE>> \in cq)
      /\ ~(<<"read", TRUE>> \in cq /\ <<"read", FALSE>> \in cq)
  BY DEF TypeOK, ClientTypeOK, ClientNext, OpsInv, Once
<1> USE <1>0, TagParts DEF OpsInv, Once, Unconnected, userVars, loopVars, libVars, eventVars
<1>1. CASE Open
  <2>1. cq' = {} /\ ops' = {"connect", "finish"} /\ loop' = "test" /\ tag' = tag /\ late' = late
    BY <1>1 DEF Open
  <2>2. tag = NoTag /\ isConnect' = isConnect /\ clientFault' = clientFault
    BY <1>1 DEF Open, LoopInv
  <2>4. ~late => ~isConnect
    <3>1. api = "idle" /\ ~opened /\ loop = "none"
      BY <1>1 DEF Open, LoopInv
    <3>2. event # "connected"
      BY <3>1, SessionFacts DEF EventInv
    <3> QED
      BY <3>1, <3>2 DEF EventInv
  <2>3. ~InCq("connect")' /\ ~InCq("read")'
    BY <2>1 DEF InCq
  <2> QED
    BY <2>1, <2>2, <2>4, <2>3
<1>2. CASE Write
  <2>1. UNCHANGED <<cq, loop, tag, late, isConnect>> /\ ops' = ops \cup {"write"} /\ isConnect
    BY <1>2 DEF Write
  <2>2. /\ clientFault' # "two reads"
        /\ clientFault' = "early write" => "connect" \in ops
    BY <1>2 DEF Write
  <2> QED
    BY <2>1, <2>2, SameQueue
<1>3. CASE LoopJoined
  <2>1. cq' = {} /\ ops' = {}
    BY <1>3 DEF LoopJoined
  <2>2. UNCHANGED <<loop, tag, isConnect, late, clientFault>> /\ loop = "none"
    BY <1>3 DEF LoopJoined
  <2>3. ~InCq("connect")' /\ ~InCq("read")'
    BY <2>1 DEF InCq
  <2> QED
    BY <2>1, <2>2, <2>3
<1>4. ASSUME NEW op, NEW ok \in BOOLEAN, Complete(op, ok)
      PROVE  OpsInv'
  <2>1. op \in ops /\ ops' = ops \ {op} /\ cq' = cq \cup {<<op, ok>>}
    BY <1>4 DEF Complete
  <2>2. UNCHANGED <<loop, tag, isConnect, late, clientFault>>
    BY <1>4 DEF Complete
  <2>3. CASE op \in {"connect", "read"}
    <3>1. ~InCq(op)
      BY <2>1, <2>3
    <3> QED
      BY <2>1, <2>2, <2>3, <3>1, QueueGrows
  <2>4. CASE op \notin {"connect", "read"}
    <3>1. \A p \in {"connect", "read"} : InCq(p)' <=> InCq(p)
      BY <2>1, <2>4 DEF InCq
    <3>2. \A p \in {"connect", "read"}, b \in BOOLEAN : <<p, b>> \in cq' <=> <<p, b>> \in cq
      BY <2>1, <2>4
    <3> QED
      BY <2>1, <2>2, <2>4, <3>1, <3>2
  <2> QED
    BY <2>3, <2>4
<1>5. CASE ClientLibrary
  <2>1. PICK op \in Ops, ok \in BOOLEAN : Complete(op, ok)
    BY <1>5, LibraryStep
  <2> QED
    BY <1>4, <2>1
<1>6. CASE LoopNext
  <2>1. PICK t \in cq : tag' = t /\ cq' = cq \ {t} /\ loop = "next" /\ loop' = "tag"
    BY <1>6 DEF LoopNext
  <2>2. UNCHANGED <<ops, isConnect, late, clientFault>>
    BY <1>6 DEF LoopNext
  <2>3. \A p \in {"connect", "read"} :
          /\ InCq(p)' <=> InCq(p) /\ p # t[1]
          /\ ~(<<p, TRUE>> \in cq' /\ <<p, FALSE>> \in cq')
          /\ p = t[1] => InCq(p)
    BY <2>1, QueueShrinks
  <2> QED
    BY <2>1, <2>2, <2>3
<1>7. CASE OnConnected
  <2>1. loop = "tag" /\ tag[1] = "connect" /\ loop' = "event" /\ tag' = tag /\ cq' = cq
    BY <1>7 DEF OnConnected
  <2>2. ops' \in {ops, ops \cup {"read"}} /\ clientFault' = clientFault /\ isConnect' = tag[2]
    BY <1>7 DEF OnConnected, AskRead
  <2> QED
    BY <2>1, <2>2, SameQueue
<1>8. CASE ReadAgain
  <2>1. loop = "read" /\ tag[1] = "read" /\ loop' = "test" /\ tag' = NoTag /\ cq' = cq
    BY <1>8 DEF ReadAgain, LoopInv
  <2>2. /\ ops' \in {ops, ops \cup {"read"}} /\ clientFault' = clientFault
        /\ isConnect' = isConnect /\ late' = late
    BY <1>8, <2>1 DEF ReadAgain, AskRead
  <2> QED
    BY <2>1, <2>2, SameQueue
<1>9. ASSUME UNCHANGED <<ops, cq, late, clientFault>>, isConnect' => isConnect,
             tag' = tag \/ tag' = NoTag, loop' = loop \/ loop' # "tag"
      PROVE  OpsInv'
  BY <1>9, SameQueue
<1>10. CASE CloseStatus \/ StopLoopThread \/ CloseEvent \/ CloseReturn
  BY <1>9, <1>10 DEF CloseStatus, StopLoopThread, CloseEvent, CloseReturn
<1>11. CASE LoopTest \/ LoopTimeout \/ OnDisconnect \/ OnEventCallback
  BY <1>9, <1>11 DEF LoopTest, LoopTimeout, OnDisconnect, OnEventCallback
<1>12. CASE EventReturn \/ OnReadDone \/ OnWriteDone
  BY <1>9, <1>12 DEF EventReturn, OnReadDone, OnWriteDone
<1> QED
  BY <1>1, <1>2, <1>3, <1>5, <1>6, <1>7, <1>8, <1>10, <1>11, <1>12
  DEF ClientNext, UserNext, LoopStep

(* The types of the client, in three parts.                                *)
StatesOK ==
  /\ api \in {"idle", "close", "join", "event", "callback"}
  /\ opened \in BOOLEAN /\ isConnect \in BOOLEAN /\ clientRunning \in BOOLEAN
  /\ loop \in {"none", "test", "next", "tag", "event", "callback", "read"}
  /\ eventMutex \in BOOLEAN /\ (eventMutex <=> api = "callback" \/ loop = "callback")
  /\ event \in {"none", "connected", "disconnect"}
  /\ late \in BOOLEAN
QueueOK ==
  /\ tag \in Tags /\ cq \subseteq Tags /\ ops \subseteq Ops
  /\ clientFault \in {"none", "early write", "two writes", "two reads"}
CountsOK == session \in 0 .. MaxOpens /\ sent \in 0 .. MaxWrites /\ got \in 0 .. MaxWrites

LEMMA ClientParts == ClientTypeOK <=> StatesOK /\ QueueOK /\ CountsOK
BY Zenon DEF ClientTypeOK, StatesOK, QueueOK, CountsOK

LEMMA StatesStep ==
  ASSUME TypeOK, LoopInv, ClientNext
  PROVE  StatesOK'
<1>0. StatesOK
  BY ClientParts DEF TypeOK
<1> USE <1>0 DEF StatesOK, userVars, loopVars, libVars, eventVars
<1>1. CASE Write \/ ClientLibrary
  <2>1. UNCHANGED <<api, opened, isConnect, clientRunning, loop, eventMutex, event, late>>
    BY <1>1 DEF Write, ClientLibrary, ClientConnects, ClientFails, ClientFinishes, ClientReads,
                ClientReadFails, ClientWritten, Complete
  <2> QED
    BY <2>1
<1>2. CASE OnConnected
  <2>1. tag[2] \in BOOLEAN
    BY <1>2, ConnectTag DEF OnConnected
  <2> QED
    BY <1>2, <2>1 DEF OnConnected
<1>3. CASE Open
  BY <1>3 DEF Open, LoopInv
<1>4. CASE CloseStatus
  BY <1>4 DEF CloseStatus
<1>5. CASE StopLoopThread
  BY <1>5 DEF StopLoopThread
<1>6. CASE LoopJoined
  BY <1>6 DEF LoopJoined, LoopInv
<1>7. CASE CloseEvent
  BY <1>7 DEF CloseEvent, LoopInv
<1>8. CASE CloseReturn
  BY <1>8 DEF CloseReturn, LoopInv
<1>9. CASE LoopTest
  BY <1>9 DEF LoopTest
<1>10. CASE LoopNext
  BY <1>10 DEF LoopNext
<1>11. CASE LoopTimeout
  BY <1>11 DEF LoopTimeout
<1>12. CASE OnDisconnect
  BY <1>12 DEF OnDisconnect
<1>13. CASE OnEventCallback
  BY <1>13 DEF OnEventCallback
<1>14. CASE EventReturn
  BY <1>14 DEF EventReturn, LoopInv
<1>15. CASE OnReadDone
  BY <1>15 DEF OnReadDone
<1>16. CASE ReadAgain
  BY <1>16 DEF ReadAgain
<1>17. CASE OnWriteDone
  BY <1>17 DEF OnWriteDone
<1> QED
  BY <1>1, <1>2, <1>3, <1>4, <1>5, <1>6, <1>7, <1>8, <1>9,
     <1>10, <1>11, <1>12, <1>13, <1>14, <1>15, <1>16, <1>17
  DEF ClientNext, UserNext, LoopStep

LEMMA QueueStep ==
  ASSUME TypeOK, ClientNext
  PROVE  QueueOK'
<1>0. QueueOK /\ NoTag \in Tags /\ {"connect", "read", "write", "finish"} \subseteq Ops
  BY ClientParts, TagParts DEF TypeOK, Ops
<1> USE <1>0 DEF QueueOK, userVars, loopVars, libVars
<1>1. CASE Open
  BY <1>1 DEF Open
<1>2. CASE Write
  <2>1. clientFault' \in {"none", "early write", "two writes", "two reads"}
    BY <1>2 DEF Write
  <2>2. tag' = tag /\ cq' = cq /\ ops' = ops \cup {"write"}
    BY <1>2 DEF Write
  <2> QED
    BY <2>1, <2>2
<1>3. CASE LoopJoined
  BY <1>3 DEF LoopJoined
<1>4. CASE ClientLibrary
  <2>1. PICK op \in Ops, ok \in BOOLEAN : Complete(op, ok)
    BY <1>4, LibraryStep
  <2>2. <<op, ok>> \in Tags
    BY DEF Tags
  <2> QED
    BY <2>1, <2>2 DEF Complete
<1>5. CASE LoopNext
  BY <1>5 DEF LoopNext
<1>6. CASE OnConnected \/ ReadAgain
  BY <1>6 DEF OnConnected, ReadAgain, AskRead
<1>7. CASE CloseStatus \/ StopLoopThread \/ CloseEvent \/ CloseReturn
  BY <1>7 DEF CloseStatus, StopLoopThread, CloseEvent, CloseReturn
<1>8. CASE LoopTest \/ LoopTimeout \/ OnDisconnect \/ OnEventCallback
  BY <1>8 DEF LoopTest, LoopTimeout, OnDisconnect, OnEventCallback
<1>9. CASE EventReturn \/ OnReadDone \/ OnWriteDone
  BY <1>9 DEF EventReturn, OnReadDone, OnWriteDone
<1> QED
  BY <1>1, <1>2, <1>3, <1>4, <1>5, <1>6, <1>7, <1>8, <1>9 DEF ClientNext, UserNext, LoopStep

LEMMA CountsStep ==
  ASSUME TypeOK, LoopInv, MessageInv, ClientNext
  PROVE  CountsOK'
<1>0. CountsOK /\ MaxWrites \in Nat /\ MaxOpens \in Nat
  BY ClientParts, CallsAssumption DEF TypeOK
<1> USE <1>0 DEF CountsOK, userVars
<1>1. CASE Open
  BY <1>1 DEF Open
<1>2. CASE Write
  <2>1. sent < MaxWrites /\ sent' = sent + 1 /\ session' = session /\ got' = got
    BY <1>2 DEF Write
  <2> QED
    BY <2>1
<1>3. CASE OnReadDone
  <2>1. session' = session /\ sent' = sent /\ got' = got + (IF tag[2] THEN 1 ELSE 0)
    BY <1>3 DEF OnReadDone
  <2>2. CASE ~tag[2]
    BY <2>1, <2>2
  <2>3. CASE tag[2]
    <3>1. tag = <<"read", TRUE>> /\ loop = "tag"
      BY <1>3, <2>3, TagParts DEF OnReadDone, TypeOK, ClientTypeOK
    <3>2. ReadsInHand = 1 /\ session \in Sessions
      BY <3>1, SessionFacts DEF ReadsInHand, LoopInv
    <3>3. got + ReadyReads + 1 + requests[session] + responses[session] <= sent
      BY <3>2, SessionFacts DEF MessageInv
    <3>4. requests[session] \in Nat /\ responses[session] \in Nat /\ ReadyReads \in {0, 1}
      BY <3>2, MessageFacts
    <3> QED
      BY <2>1, <2>3, <3>3, <3>4
  <2> QED
    BY <2>2, <2>3
<1>4. CASE CloseStatus \/ StopLoopThread \/ LoopJoined \/ CloseEvent \/ CloseReturn
  BY <1>4 DEF CloseStatus, StopLoopThread, LoopJoined, CloseEvent, CloseReturn
<1>5. CASE ClientLibrary
  BY <1>5, LibraryStep DEF Complete
<1>6. CASE LoopTest \/ LoopNext \/ LoopTimeout \/ OnConnected \/ OnDisconnect
  BY <1>6 DEF LoopTest, LoopNext, LoopTimeout, OnConnected, OnDisconnect
<1>7. CASE OnEventCallback \/ EventReturn \/ ReadAgain \/ OnWriteDone
  BY <1>7 DEF OnEventCallback, EventReturn, ReadAgain, OnWriteDone
<1> QED
  BY <1>1, <1>2, <1>3, <1>4, <1>5, <1>6, <1>7 DEF ClientNext, UserNext, LoopStep

LEMMA ClientCalls ==
  ASSUME TypeOK, LoopInv, OpsInv, MessageInv,
         \/ ClientNext
         \/ (\E s \in Sessions : Take(s) \/ Answer(s) \/ Break(s)) /\ UNCHANGED clientVars
  PROVE  CallsTypeOK'
<1> USE SessionFacts, MessageFacts DEF TypeOK, CallsTypeOK, callVars, Place
<1>1. CASE Open
  BY <1>1 DEF Open
<1>2. CASE Write
  <2>1. session \in Sessions /\ sent < MaxWrites
    BY <1>2 DEF Write, LoopInv
  <2>2. requests[session] + 1 \in 0 .. MaxWrites
    BY <2>1 DEF MessageInv
  <2> QED
    BY <1>2, <2>1, <2>2 DEF Write
<1>3. CASE LoopJoined
  BY <1>3 DEF LoopJoined
<1>4. CASE session > 0 /\ ClientFails
  BY <1>4 DEF ClientFails
<1>5. CASE session > 0 /\ ClientReads
  <2>1. session \in Sessions /\ responses[session] - 1 \in 0 .. MaxWrites
    BY <1>5 DEF ClientReads
  <2> QED
    BY <1>5, <2>1 DEF ClientReads
<1>6. ASSUME UNCHANGED callVars PROVE CallsTypeOK'
  BY <1>6
<1>7. CASE session > 0 /\ (ClientConnects \/ ClientFinishes \/ ClientReadFails \/ ClientWritten)
  BY <1>6, <1>7 DEF ClientConnects, ClientFinishes, ClientReadFails, ClientWritten
<1>8. CASE CloseStatus \/ StopLoopThread \/ CloseEvent \/ CloseReturn
  BY <1>6, <1>8 DEF CloseStatus, StopLoopThread, CloseEvent, CloseReturn
<1>9. CASE LoopStep
  BY <1>6, <1>9 DEF LoopStep, LoopTest, LoopNext, LoopTimeout, OnConnected, OnDisconnect,
     OnEventCallback, EventReturn, OnReadDone, ReadAgain, OnWriteDone
<1>10. ASSUME NEW s \in Sessions, Take(s) \/ Answer(s) \/ Break(s)
       PROVE  CallsTypeOK'
  <2>1. CASE Answer(s)
    <3>1. requests[s] - 1 \in 0 .. MaxWrites /\ responses[s] + 1 \in 0 .. MaxWrites
      BY <2>1 DEF Answer, MessageInv
    <3> QED
      BY <2>1, <3>1 DEF Answer
  <2>2. CASE Take(s) \/ Break(s)
    BY <2>2 DEF Take, Break
  <2> QED
    BY <1>10, <2>1, <2>2
<1> QED
  BY <1>1, <1>2, <1>3, <1>4, <1>5, <1>7, <1>8, <1>9, <1>10
  DEF ClientNext, UserNext, ClientLibrary

-----------------------------------------------------------------------------
(* Steps of the server                                                     *)

LEMMA ServerFacts ==
  ASSUME TypeOK
  PROVE  /\ MaxOpens \in Nat /\ MaxWrites \in Nat /\ MaxRequests \in 0 .. MaxWrites
         /\ MaxChannel \in Nat /\ MaxChannel > 0
         /\ made \in Nat /\ made <= MaxChannel + MaxOpens
         /\ missing \in Nat /\ missing <= MaxChannel
         /\ \A o \in Channels : o \in Nat /\ o > 0 /\ o <= MaxChannel + MaxOpens
         /\ \A s \in Sessions : s \in Nat /\ s > 0 /\ s <= MaxOpens
         /\ channelList \subseteq Channels /\ freed \subseteq Channels
         /\ \A o \in channelList \cup freed : o <= made
         /\ 1 \in Channels
<1>1. MaxOpens \in Nat /\ MaxWrites \in Nat /\ MaxRequests \in 0 .. MaxWrites
      /\ MaxChannel \in Nat /\ MaxChannel > 0
  BY CallsAssumption, RequestsAssumption, ChannelAssumption
<1>2. /\ made \in {0} \cup Channels /\ missing \in 0 .. MaxChannel
      /\ channelList \subseteq 1 .. made /\ freed \subseteq 1 .. made
  BY DEF TypeOK, ServerTypeOK
<1>3. \A o : o \in Channels <=> o \in Nat /\ o > 0 /\ o <= MaxChannel + MaxOpens
  BY <1>1 DEF Channels
<1>4. \A s : s \in Sessions <=> s \in Nat /\ s > 0 /\ s <= MaxOpens
  BY <1>1 DEF Sessions
<1>5. made \in Nat /\ made <= MaxChannel + MaxOpens
  BY <1>1, <1>2, <1>3
<1> QED
  BY <1>1, <1>2, <1>3, <1>4, <1>5

LEMMA ServerTagParts ==
  /\ \A t \in ServerTags : /\ t = <<t[1], t[2], t[3]>> /\ t[3] \in BOOLEAN
                           /\ t[1] \in Channels /\ t[2] \in ServerOps \cup {"none"}
  /\ NoServerTag \in ServerTags /\ NoServerTag[2] = "none" /\ NoServerTag[1] = 1
<1>0. 1 \in Channels
  BY CallsAssumption, ChannelAssumption DEF Channels
<1>1. ASSUME NEW t \in ServerTags
      PROVE  /\ t = <<t[1], t[2], t[3]>> /\ t[3] \in BOOLEAN
             /\ t[1] \in Channels /\ t[2] \in ServerOps \cup {"none"}
  <2>1. CASE t \in Channels \X ServerOps \X BOOLEAN
    BY <2>1
  <2>2. CASE t = NoServerTag
    BY <1>0, <2>2 DEF NoServerTag
  <2> QED
    BY <2>1, <2>2 DEF ServerTags
<1>2. NoServerTag \in ServerTags /\ NoServerTag[2] = "none" /\ NoServerTag[1] = 1
  BY DEF ServerTags, NoServerTag
<1> QED
  BY <1>1, <1>2

LEMMA FiniteSets ==
  ASSUME TypeOK
  PROVE  /\ IsFiniteSet(channelList) /\ IsFiniteSet(freed)
         /\ IsFiniteSet(Served) /\ IsFiniteSet(Matched)
         /\ Cardinality(channelList) \in Nat /\ Cardinality(freed) \in Nat
         /\ Cardinality(Served) \in Nat /\ Cardinality(Matched) \in Nat
         /\ Cardinality(Matched) <= MaxOpens
<1>1. IsFiniteSet(Channels) /\ IsFiniteSet(Sessions) /\ Cardinality(Sessions) = MaxOpens
  <2>1. IsFiniteSet(Sessions) /\ Cardinality(Sessions) = MaxOpens
    BY FS_Interval, ServerFacts DEF Sessions
  <2>2. IsFiniteSet(Channels)
    BY FS_Interval, ServerFacts DEF Channels
  <2> QED
    BY <2>1, <2>2
<1>2. Served \subseteq Channels /\ Matched \subseteq Sessions
  BY DEF Served, Matched
<1>3. channelList \subseteq Channels /\ freed \subseteq Channels
  BY ServerFacts
<1>4. IsFiniteSet(channelList) /\ IsFiniteSet(freed) /\ IsFiniteSet(Served)
  BY <1>1, <1>2, <1>3, FS_Subset
<1>5. IsFiniteSet(Matched) /\ Cardinality(Matched) <= MaxOpens
  BY <1>1, <1>2, FS_Subset
<1> QED
  BY <1>4, <1>5, FS_CardinalityType

(* There is a number left for a channel to be made anew.                   *)
LEMMA MadeFits ==
  ASSUME TypeOK, ListInv, CallInv, Serving, missing > 0
  PROVE  made + 1 \in Channels
<1>1. made = MaxChannel + Cardinality(freed) - missing
  BY DEF ListInv
<1>2. Cardinality(freed) + Cardinality(Served) <= Cardinality(Matched)
  BY DEF CallInv
<1>3. made + 1 \in Nat /\ made + 1 > 0 /\ made + 1 <= MaxChannel + MaxOpens
  BY <1>1, <1>2, FiniteSets, ServerFacts
<1> QED
  BY <1>3, ServerFacts DEF Channels

LEMMA LibraryKeeps ==
  ASSUME ServerLibrary
  PROVE  UNCHANGED <<listVars, status, serverApi, serverRunning, serverLoopVars, checkVars,
                     serverFault>>
BY DEF ServerLibrary, Match, ChannelReads, ChannelReadFails, ChannelDone, ChannelWritten, Ready

LEMMA Readies ==
  ASSUME NEW o \in Channels,
         ChannelReads(o) \/ ChannelReadFails(o) \/ ChannelDone(o) \/ ChannelWritten(o)
  PROVE  \E op \in ServerOps, ok \in BOOLEAN :
           Ready(o, op, ok) /\ op # "connect" /\ client' = client /\ call' = call
<1>1. Gone(o) \in BOOLEAN
  BY DEF Gone
<1> QED
  BY <1>1 DEF ChannelReads, ChannelReadFails, ChannelDone, ChannelWritten, ServerOps, callVars

LEMMA LoopKeeps ==
  ASSUME ServerLoopStep
  PROVE  /\ UNCHANGED <<listVars, client, serverApi, serverRunning, checkVars, callVars>>
         /\ serverLoop # "none"
<1> USE DEF listVars, checkVars, callVars
<1>1. CASE ServerLoopTest \/ ServerLoopTimeout
  BY <1>1 DEF ServerLoopTest, ServerLoopTimeout, channelVars
<1>2. CASE \E t \in scq : TakeTag(t)
  BY <1>2 DEF TakeTag
<1>3. CASE ChannelConnected \/ ChannelReadDone
  BY <1>3 DEF ChannelConnected, ChannelReadDone, Callback, channelVars
<1>4. CASE ChannelWrite \/ ChannelReadAgain
  BY <1>4 DEF ChannelWrite, ChannelReadAgain
<1>5. CASE ChannelWriteDone \/ ChannelDisconnect
  BY <1>5 DEF ChannelWriteDone, ChannelDisconnect, Callback, channelVars
<1> QED
  BY <1>1, <1>2, <1>3, <1>4, <1>5 DEF ServerLoopStep

LEMMA ServerList ==
  ASSUME TypeOK, ListInv, ServerNext
  PROVE  ListInv'
<1> USE ServerFacts, FiniteSets DEF ListInv, Serving, listVars, checkVars, serverLoopVars
<1>1. CASE Start
  <2>1. /\ channelList' = 1 .. MaxChannel /\ made' = MaxChannel /\ freed' = {} /\ missing' = 0
        /\ serverApi' = "running" /\ check' = "test" /\ unchecked' = {}
    BY <1>1 DEF Start
  <2>2. Cardinality(channelList') = MaxChannel /\ Cardinality(freed') = 0
    BY <2>1, FS_Interval, FS_EmptySet
  <2> QED
    BY <2>1, <2>2
<1>2. CASE StopCheckThread \/ CheckJoined
  BY <1>2 DEF StopCheckThread, CheckJoined
<1>3. CASE Stopped
  BY <1>3 DEF Stopped
<1>4. CASE ServerLibrary
  BY <1>4, LibraryKeeps
<1>5. CASE ServerLoopStep
  BY <1>5, LoopKeeps
<1>6. CASE CheckTest
  BY <1>6 DEF CheckTest
<1>7. CASE \E o \in Channels : KeepChannel(o)
  BY <1>7 DEF KeepChannel
<1>8. ASSUME NEW o \in Channels, DeleteChannel(o)
      PROVE  ListInv'
  <2>1. /\ check = "walk" /\ check' = "walk" /\ o \in channelList /\ o \notin freed
        /\ channelList' = channelList \ {o} /\ freed' = freed \cup {o}
        /\ missing' = missing + 1 /\ made' = made
    BY <1>8 DEF DeleteChannel, Forget, TypeOK, ServerTypeOK
  <2>2. UNCHANGED <<serverApi, serverLoop>>
    BY <1>8 DEF DeleteChannel
  <2>3. /\ Cardinality(channelList') = Cardinality(channelList) - 1
        /\ Cardinality(freed') = Cardinality(freed) + 1
    BY <2>1, FS_AddElement, FS_RemoveElement
  <2> QED
    BY <2>1, <2>2, <2>3
<1>9. CASE Refill
  <2>1. /\ check = "walk" /\ check' = "walk" /\ missing > 0 /\ unchecked' = unchecked
        /\ channelList' = channelList \cup {made + 1} /\ freed' = freed
        /\ missing' = missing - 1 /\ made' = made + 1
    BY <1>9 DEF Refill
  <2>2. UNCHANGED <<serverApi, serverLoop>>
    BY <1>9 DEF Refill
  <2>3. made + 1 \notin channelList /\ made + 1 \notin freed
    OBVIOUS
  <2>4. Cardinality(channelList') = Cardinality(channelList) + 1
    BY <2>1, <2>3, FS_AddElement
  <2> QED
    BY <2>1, <2>2, <2>3, <2>4
<1>10. CASE AutoSleep
  BY <1>10 DEF AutoSleep
<1> QED
  BY <1>1, <1>2, <1>3, <1>4, <1>5, <1>6, <1>7, <1>8, <1>9, <1>10
  DEF ServerNext, ServerApi, CheckStep

(* The tags of the queue after one came, or was taken.                     *)
LEMMA TagsGrow ==
  ASSUME NEW o, NEW op, NEW ok \in BOOLEAN, scq' = scq \cup {<<o, op, ok>>}, NEW p, NEW q
  PROVE  /\ Tagged(p, q)' <=> Tagged(p, q) \/ (p = o /\ q = op)
         /\ \A b : <<p, q, b>> \in scq' <=> <<p, q, b>> \in scq \/ (p = o /\ q = op /\ b = ok)
<1>1. ASSUME NEW b
      PROVE  <<p, q, b>> \in scq' <=> <<p, q, b>> \in scq \/ (p = o /\ q = op /\ b = ok)
  <2>1. <<p, q, b>> = <<o, op, ok>> <=> p = o /\ q = op /\ b = ok
    <3>1. /\ <<p, q, b>>[1] = p /\ <<p, q, b>>[2] = q /\ <<p, q, b>>[3] = b
          /\ <<o, op, ok>>[1] = o /\ <<o, op, ok>>[2] = op /\ <<o, op, ok>>[3] = ok
      OBVIOUS
    <3> QED
      BY <3>1
  <2>2. <<p, q, b>> \in scq' <=> <<p, q, b>> \in scq \/ <<p, q, b>> = <<o, op, ok>>
    BY Zenon
  <2> QED
    BY <2>1, <2>2
<1> QED
  BY <1>1 DEF Tagged

LEMMA TagsShrink ==
  ASSUME TypeOK, NEW t \in scq, scq' = scq \ {t}, NEW p, NEW q
  PROVE  /\ t[1] \in Channels /\ t[2] \in ServerOps \cup {"none"} /\ t[3] \in BOOLEAN
         /\ p = t[1] /\ q = t[2] => Tagged(p, q)
         /\ Tagged(p, q)' => Tagged(p, q)
         /\ ~(p = t[1] /\ q = t[2]) => (Tagged(p, q) => Tagged(p, q)')
         /\ \A b : <<p, q, b>> \in scq' <=>
                     <<p, q, b>> \in scq /\ ~(p = t[1] /\ q = t[2] /\ b = t[3])
<1>1. t = <<t[1], t[2], t[3]>> /\ (t[3] \in BOOLEAN) /\ t[1] \in Channels
      /\ t[2] \in ServerOps \cup {"none"}
  BY ServerTagParts DEF TypeOK, ServerTypeOK
<1>2. ASSUME NEW b PROVE <<p, q, b>> = t <=> p = t[1] /\ q = t[2] /\ b = t[3]
  <2>1. <<p, q, b>>[1] = p /\ <<p, q, b>>[2] = q /\ <<p, q, b>>[3] = b
    OBVIOUS
  <2> QED
    BY <1>1, <2>1
<1>3. \A b : <<p, q, b>> \in scq' <=> <<p, q, b>> \in scq /\ ~(p = t[1] /\ q = t[2] /\ b = t[3])
  BY <1>2
<1>4. p = t[1] /\ q = t[2] => <<p, q, t[3]>> \in scq
  BY <1>2
<1> QED
  BY <1>1, <1>3, <1>4 DEF Tagged

LEMMA SameTags ==
  ASSUME scq' = scq, NEW p, NEW q
  PROVE  Tagged(p, q)' <=> Tagged(p, q)
BY DEF Tagged

(* What a step of the loop thread is about.                                *)
LEMMA InHandFacts ==
  ASSUME TypeOK, ReadInv, FreshInv
  PROVE  /\ Channel \in Channels
         /\ Walking => InHand(Channel, "read") /\ Channel <= made
         /\ \A op \in ServerOps : serverTag[2] = op => InHand(Channel, op) /\ Channel <= made
<1>1. Channel \in Channels
  BY ServerTagParts DEF TypeOK, ServerTypeOK, Channel
<1>2. ASSUME NEW op \in ServerOps, serverTag[2] = op
      PROVE  InHand(Channel, op) /\ Channel <= made
  BY <1>1, <1>2, ServerFacts DEF InHand, Channel, FreshInv, Fresh
<1>3. Walking => serverTag[2] = "read"
  BY DEF ReadInv, TagInv
<1> QED
  BY <1>1, <1>2, <1>3 DEF ServerOps

LEMMA NoTagInHand ==
  ASSUME NEW o, NEW op \in ServerOps, serverTag' = NoServerTag
  PROVE  ~InHand(o, op)'
BY ServerTagParts DEF InHand, ServerOps

LEMMA ServerFresh ==
  ASSUME TypeOK, ListInv, FreshInv, ReadInv, ServerNext
  PROVE  FreshInv'
<1>0. status \in [Channels -> {"unconnect", "connected", "disconnect"}]
      /\ client \in [Channels -> {0} \cup Sessions]
      /\ channelOps \in [Channels -> SUBSET ServerOps]
      /\ unchecked \subseteq channelList
  BY DEF TypeOK, ServerTypeOK
<1> SUFFICES ASSUME NEW o \in Channels, o > made'
             PROVE  Fresh(o)'
  BY DEF FreshInv
<1>m. o > made
  <2>1. CASE Start
    BY <2>1, ServerFacts DEF Start, ListInv
  <2>2. CASE Refill
    <3>1. made' = made + 1
      BY <2>2 DEF Refill
    <3> QED
      BY <3>1, ServerFacts
  <2>3. CASE ~Start /\ ~Refill
    <3>1. made' = made
      BY <2>3, LibraryKeeps, LoopKeeps DEF ServerNext, ServerApi, CheckStep, StopCheckThread,
         CheckJoined, Stopped, CheckTest, KeepChannel, DeleteChannel, AutoSleep, listVars
    <3> QED
      BY <3>1
  <2> QED
    BY <2>1, <2>2, <2>3
<1>f. Fresh(o)
  BY <1>m DEF FreshInv
<1> USE <1>f, <1>0, ServerFacts DEF Fresh, channelVars, serverLoopVars, listVars
<1>1. CASE Start
  <2>1. channelOps'[o] = {} /\ UNCHANGED <<status, client, scq, serverTag>>
    BY <1>1 DEF Start
  <2> QED
    BY <2>1, SameTags DEF InHand
<1>2. ASSUME UNCHANGED <<status, client, channelOps, scq, serverTag>>
      PROVE  Fresh(o)'
  BY <1>2, SameTags DEF InHand
<1>3. CASE StopCheckThread \/ CheckJoined
  BY <1>2, <1>3 DEF StopCheckThread, CheckJoined
<1>4. CASE Stopped
  <2>1. channelOps'[o] = {} /\ scq' = {} /\ UNCHANGED <<status, client, serverTag>>
    BY <1>4 DEF Stopped
  <2> QED
    BY <2>1 DEF InHand, Tagged
<1>5. ASSUME NEW p \in Channels, NEW op, NEW ok \in BOOLEAN, Ready(p, op, ok),
             client' = client \/ \E s \in Sessions : client' = [client EXCEPT ![p] = s]
      PROVE  Fresh(o)'
  <2>1. op \in channelOps[p] /\ p # o
    BY <1>5 DEF Ready
  <2>2. /\ channelOps' = [channelOps EXCEPT ![p] = @ \ {op}] /\ scq' = scq \cup {<<p, op, ok>>}
        /\ UNCHANGED <<status, serverTag>>
    BY <1>5 DEF Ready
  <2>3. channelOps'[o] = {} /\ client'[o] = 0
    BY <2>1, <2>2, <1>5
  <2> QED
    <3>1. \A q \in ServerOps : ~Tagged(o, q)'
      BY <2>1, <2>2, TagsGrow
    <3> QED
      BY <2>2, <2>3, <3>1 DEF InHand
<1>6. CASE ServerLibrary
  <2>1. PICK p \in Channels : \/ \E s \in Sessions : Match(p, s)
                              \/ ChannelReads(p) \/ ChannelReadFails(p) \/ ChannelDone(p)
                              \/ ChannelWritten(p)
    BY <1>6 DEF ServerLibrary
  <2>2. Gone(p) \in BOOLEAN
    BY DEF Gone
  <2> QED
    BY <1>5, <2>1, <2>2 DEF Match, ChannelReads, ChannelReadFails, ChannelDone, ChannelWritten
<1>7. ASSUME NEW t \in scq, TakeTag(t)
      PROVE  Fresh(o)'
  <2>1. scq' = scq \ {t} /\ serverTag' = t /\ UNCHANGED <<status, client, channelOps>>
    BY <1>7 DEF TakeTag
  <2> QED
    BY <2>1, TagsShrink DEF InHand
<1>8. ASSUME serverTag' \in {serverTag, NoServerTag}, UNCHANGED <<client, scq>>,
             channelOps'[o] = channelOps[o], status'[o] = status[o]
      PROVE  Fresh(o)'
  BY <1>8, SameTags, NoTagInHand DEF InHand
<1>9. CASE ServerLoopTest \/ ServerLoopTimeout
  BY <1>2, <1>9 DEF ServerLoopTest, ServerLoopTimeout
<1>10. CASE ChannelConnected
  <2>1. Channel # o
    BY <1>m, <1>10, InHandFacts DEF ChannelConnected, Callback, ServerOps
  <2> QED
    <3>1. channelOps'[o] = channelOps[o] /\ status'[o] = status[o]
      BY <1>10, <2>1 DEF ChannelConnected
    <3> QED
      BY <1>8, <1>10, <3>1 DEF ChannelConnected, Callback
<1>11. CASE ChannelReadDone \/ ChannelWriteDone
  <2>1. Channel # o
    BY <1>m, <1>11, InHandFacts DEF ChannelReadDone, ChannelWriteDone, Callback, ServerOps
  <2> QED
    BY <1>8, <1>11, <2>1 DEF ChannelReadDone, ChannelWriteDone, Callback
<1>12. CASE ChannelWrite \/ ChannelReadAgain
  <2>1. Channel # o
    BY <1>m, <1>12, InHandFacts DEF ChannelWrite, ChannelReadAgain, Walking, ServerOps
  <2> QED
    <3>1. channelOps'[o] = channelOps[o] /\ status'[o] = status[o]
      BY <1>12, <2>1 DEF ChannelWrite, ChannelReadAgain
    <3> QED
      BY <1>8, <1>12, <3>1 DEF ChannelWrite, ChannelReadAgain
<1>13. CASE ChannelDisconnect
  <2>1. Channel # o
    BY <1>m, <1>13, InHandFacts DEF ChannelDisconnect, Callback, ServerOps
  <2> QED
    <3>1. channelOps'[o] = channelOps[o] /\ status'[o] = status[o]
      BY <1>13, <2>1 DEF ChannelDisconnect
    <3> QED
      BY <1>8, <1>13, <3>1 DEF ChannelDisconnect, Callback
<1>14. CASE CheckTest \/ AutoSleep \/ (\E p \in Channels : KeepChannel(p))
  BY <1>2, <1>14 DEF CheckTest, AutoSleep, KeepChannel
<1>15. CASE \E p \in Channels : DeleteChannel(p)
  <2>1. PICK p \in Channels : DeleteChannel(p)
    BY <1>15
  <2>2. /\ status' = [status EXCEPT ![p] = "unconnect"] /\ client' = [client EXCEPT ![p] = 0]
        /\ UNCHANGED <<channelOps, scq, serverTag>>
    BY <2>1 DEF DeleteChannel, Forget
  <2>3. status'[o] = "unconnect" /\ client'[o] = 0
    BY <2>2
  <2> QED
    BY <2>2, <2>3, SameTags DEF InHand
<1>16. CASE Refill
  <2>1. made' = made + 1 /\ channelOps' = [channelOps EXCEPT ![made + 1] = {"connect"}]
    BY <1>16 DEF Refill
  <2>2. UNCHANGED <<status, client, scq, serverTag>>
    BY <1>16 DEF Refill
  <2>3. channelOps'[o] = {}
    BY <2>1
  <2> QED
    BY <2>2, <2>3, SameTags DEF InHand
<1> QED
  BY <1>1, <1>3, <1>4, <1>6, <1>7, <1>9, <1>10, <1>11, <1>12, <1>13, <1>14, <1>15, <1>16
  DEF ServerNext, ServerApi, ServerLoopStep, CheckStep

PeerStep ==
  /\ \E s \in Sessions : Call(s) \/ Send(s) \/ (Break(s) /\ UNCHANGED sent)
  /\ UNCHANGED serverVars

(* A call that was taken stays taken, and one that has ended stays so.     *)
LEMMA CallsGoOn ==
  ASSUME TypeOK, ServerNext \/ PeerStep
  PROVE  /\ Matched \subseteq Matched'
         /\ \A s \in Sessions : call[s] = "ended" => call'[s] = "ended"
<1>0. call \in [Sessions -> {"none", "calling", "open", "ended"}]
  BY DEF TypeOK, CallsTypeOK
<1> USE <1>0 DEF Matched, Place, callVars
<1>1. CASE ServerApi
  BY <1>1 DEF ServerApi, Start, StopCheckThread, CheckJoined, Stopped
<1>2. CASE ServerLibrary
  BY <1>2 DEF ServerLibrary, Match, ChannelReads, ChannelReadFails, ChannelDone, ChannelWritten
<1>3. CASE ServerLoopStep
  BY <1>3, LoopKeeps
<1>4. CASE CheckStep
  BY <1>4 DEF CheckStep, CheckTest, Refill, AutoSleep, KeepChannel, DeleteChannel
<1>5. CASE PeerStep
  BY <1>5 DEF PeerStep, Call, Send, Break
<1> QED
  BY <1>1, <1>2, <1>3, <1>4, <1>5 DEF ServerNext

LEMMA ConnectsAsked ==
  ASSUME TypeOK, ReadInv, FreshInv, ServerLoopStep, NEW o \in Channels,
         "connect" \in channelOps'[o]
  PROVE  "connect" \in channelOps[o]
<1>0. channelOps \in [Channels -> SUBSET ServerOps]
  BY DEF TypeOK, ServerTypeOK
<1> USE <1>0, InHandFacts DEF channelVars
<1>1. CASE ServerLoopTest \/ ServerLoopTimeout \/ (\E t \in scq : TakeTag(t))
  BY <1>1 DEF ServerLoopTest, ServerLoopTimeout, TakeTag
<1>2. CASE ChannelConnected
  BY <1>2 DEF ChannelConnected
<1>3. CASE ChannelReadDone \/ ChannelWriteDone \/ ChannelDisconnect
  BY <1>3 DEF ChannelReadDone, ChannelWriteDone, ChannelDisconnect
<1>4. CASE ChannelWrite
  BY <1>4 DEF ChannelWrite
<1>5. CASE ChannelReadAgain
  BY <1>5 DEF ChannelReadAgain
<1> QED
  BY <1>1, <1>2, <1>3, <1>4, <1>5 DEF ServerLoopStep

LEMMA ServerCalls ==
  ASSUME TypeOK, ListInv, FreshInv, CallInv, EndInv, ReadInv, ServerNext \/ PeerStep
  PROVE  CallInv'
<1>0. client \in [Channels -> {0} \cup Sessions]
      /\ channelOps \in [Channels -> SUBSET ServerOps]
      /\ call \in [Sessions -> {"none", "calling", "open", "ended"}]
      /\ unchecked \subseteq channelList /\ MaxChannel \in Nat
  BY ServerFacts DEF TypeOK, ServerTypeOK, CallsTypeOK
<1> USE <1>0, ServerFacts
<1>f. Matched \subseteq Matched' /\ Matched \subseteq Sessions
  BY CallsGoOn DEF Matched
<1>m. IsFiniteSet(Matched') /\ Cardinality(Matched') \in Nat
      /\ Cardinality(Matched) <= Cardinality(Matched')
  <2>1. Matched' \subseteq Sessions /\ IsFiniteSet(Sessions)
    BY FS_Interval DEF Matched, Sessions
  <2>2. IsFiniteSet(Matched')
    BY <2>1, FS_Subset
  <2> QED
    BY <1>f, <2>2, FS_Subset, FS_CardinalityType
<1>c. /\ IsFiniteSet(Served) /\ Cardinality(Served) \in Nat /\ Cardinality(Matched) \in Nat
      /\ IsFiniteSet(freed) /\ Cardinality(freed) \in Nat /\ IsFiniteSet(Matched)
  BY FiniteSets
<1>1. ASSUME client' = client, freed' = freed, Serving' => Serving,
             \A o \in Channels : "connect" \in channelOps'[o] => "connect" \in channelOps[o]
      PROVE  CallInv'
  <2>1. Served' = Served
    BY <1>1 DEF Served
  <2>2. Cardinality(Served') = Cardinality(Served) /\ Cardinality(freed') = Cardinality(freed)
    BY <1>1, <2>1
  <2> QED
    BY <1>1, <1>f, <1>m, <1>c, <2>1, <2>2 DEF CallInv
<1>2. CASE Start
  <2>1. /\ client' = client /\ freed' = freed /\ freed = {} /\ made = 0 /\ call' = call
    BY <1>2 DEF Start, ListInv, callVars
  <2>2. \A o \in Channels : client[o] = 0
    BY <2>1 DEF FreshInv, Fresh
  <2>3. Served' = {} /\ Matched' = Matched
    BY <2>1, <2>2 DEF Served, Matched
  <2>4. Cardinality(Served') = 0 /\ Cardinality(freed') = 0
    BY <2>1, <2>3, FS_EmptySet
  <2> QED
    BY <1>c, <2>1, <2>2, <2>3, <2>4 DEF CallInv
<1>3. CASE StopCheckThread \/ CheckJoined
  BY <1>1, <1>3 DEF StopCheckThread, CheckJoined, listVars, channelVars, Serving
<1>4. CASE Stopped
  <2>1. /\ client' = client /\ channelOps' = [o \in Channels |-> {}] /\ serverApi' = "stopped"
    BY <1>4 DEF Stopped
  <2>2. Served' = Served /\ ~Serving'
    BY <2>1 DEF Served, Serving
  <2> QED
    BY <1>f, <2>1, <2>2 DEF CallInv
<1>5. ASSUME NEW o \in Channels, NEW s \in Sessions, Match(o, s)
      PROVE  CallInv'
  <2>1. /\ call[s] = "calling" /\ call' = [call EXCEPT ![s] = "open"]
        /\ client' = [client EXCEPT ![o] = s]
        /\ "connect" \in channelOps[o] /\ channelOps' = [channelOps EXCEPT ![o] = @ \ {"connect"}]
        /\ freed' = freed /\ serverApi' = serverApi
    BY <1>5 DEF Match, Place, Ready, listVars
  <2>2. client[o] = 0 /\ s \notin Matched
    BY <2>1 DEF CallInv, Matched
  <2>3. Served' = Served \cup {o} /\ o \notin Served
    BY <2>1, <2>2 DEF Served
  <2>4. Matched' = Matched \cup {s}
    BY <2>1 DEF Matched
  <2>5. /\ Cardinality(Served') = Cardinality(Served) + 1
        /\ Cardinality(Matched') = Cardinality(Matched) + 1
    BY <1>c, <2>2, <2>3, <2>4, FS_AddElement
  <2>6. Serving' => Cardinality(freed') + Cardinality(Served') <= Cardinality(Matched')
    BY <1>c, <2>1, <2>5 DEF CallInv, Serving
  <2>7. \A p \in Served' : client'[p] \in Matched'
    BY <2>1, <2>3, <2>4 DEF CallInv, Served
  <2>8. ASSUME NEW p \in Served', NEW q \in Served', client'[p] = client'[q]
        PROVE  p = q
    <3>1. \A r \in Served : client'[r] = client[r] /\ client[r] \in Matched /\ r \in Channels
      BY <2>1, <2>3 DEF CallInv, Served
    <3>2. client'[o] = s
      BY <2>1
    <3> QED
      BY <2>2, <2>3, <2>8, <3>1, <3>2 DEF CallInv
  <2>9. \A p \in Channels : "connect" \in channelOps'[p] => client'[p] = 0
    BY <2>1 DEF CallInv
  <2> QED
    BY <2>6, <2>7, <2>8, <2>9 DEF CallInv
<1>6. CASE \E o \in Channels :
             ChannelReads(o) \/ ChannelReadFails(o) \/ ChannelDone(o) \/ ChannelWritten(o)
  <2>1. PICK o \in Channels, op \in ServerOps, ok \in BOOLEAN : Ready(o, op, ok) /\ client' = client
    BY <1>6, Readies
  <2>2. channelOps' = [channelOps EXCEPT ![o] = @ \ {op}] /\ freed' = freed /\ serverApi' = serverApi
    BY <2>1 DEF Ready, listVars
  <2> QED
    BY <1>1, <2>1, <2>2 DEF Serving
<1>7. CASE ServerLoopStep
  BY <1>1, <1>7, LoopKeeps, ConnectsAsked DEF listVars, Serving
<1>8. CASE CheckTest \/ AutoSleep \/ (\E o \in Channels : KeepChannel(o))
  BY <1>1, <1>8 DEF CheckTest, AutoSleep, KeepChannel, listVars, channelVars, Serving
<1>9. ASSUME NEW o \in Channels, DeleteChannel(o)
      PROVE  CallInv'
  <2>1. /\ status[o] = "disconnect" /\ o \in channelList /\ freed' = freed \cup {o}
        /\ client' = [client EXCEPT ![o] = 0] /\ channelOps' = channelOps
        /\ call' = call /\ serverApi' = serverApi
    BY <1>9 DEF DeleteChannel, Forget, callVars
  <2>2. o \notin freed /\ client[o] # 0
    BY <2>1 DEF ListInv, EndInv, Ending, CallEnded
  <2>3. Served' = Served \ {o} /\ o \in Served /\ Matched' = Matched
    BY <2>1, <2>2 DEF Served, Matched
  <2>4. /\ Cardinality(Served') = Cardinality(Served) - 1
        /\ Cardinality(freed') = Cardinality(freed) + 1
    BY <1>c, <2>1, <2>2, <2>3, FS_AddElement, FS_RemoveElement
  <2>5. Serving' => Cardinality(freed') + Cardinality(Served') <= Cardinality(Matched')
    BY <1>c, <2>1, <2>3, <2>4 DEF CallInv, Serving
  <2>6. \A p \in Served' : p \in Served /\ client'[p] = client[p]
    BY <2>1, <2>3 DEF Served
  <2>7. \A p \in Channels : "connect" \in channelOps'[p] => client'[p] = 0
    BY <2>1 DEF CallInv
  <2> QED
    BY <2>3, <2>5, <2>6, <2>7 DEF CallInv
<1>10. CASE Refill
  <2>1. /\ made' = made + 1 /\ channelOps' = [channelOps EXCEPT ![made + 1] = {"connect"}]
        /\ UNCHANGED <<client, freed, call, serverApi>>
    BY <1>10 DEF Refill, callVars
  <2>2. Served' = Served /\ Matched' = Matched
    BY <2>1 DEF Served, Matched
  <2>3. \A p \in Channels : "connect" \in channelOps'[p] => client[p] = 0
    BY <2>1 DEF CallInv, FreshInv, Fresh
  <2> QED
    BY <2>1, <2>2, <2>3 DEF CallInv, Serving
<1>11. CASE PeerStep
  BY <1>1, <1>11 DEF PeerStep, serverVars, listVars, channelVars, Serving
<1> QED
  BY <1>2, <1>3, <1>4, <1>5, <1>6, <1>7, <1>8, <1>9, <1>10, <1>11
  DEF ServerNext, ServerApi, ServerLibrary, CheckStep

LEMMA ServerEnds ==
  ASSUME TypeOK, ListInv, FreshInv, CallInv, EndInv, ReadInv, ServerNext \/ PeerStep
  PROVE  EndInv'
<1>0. client \in [Channels -> {0} \cup Sessions]
      /\ status \in [Channels -> {"unconnect", "connected", "disconnect"}]
      /\ call \in [Sessions -> {"none", "calling", "open", "ended"}]
      /\ "done" \in ServerOps /\ Channel \in Channels
  BY InHandFacts DEF TypeOK, ServerTypeOK, CallsTypeOK, ServerOps
<1> USE <1>0, ServerFacts DEF listVars, channelVars, serverLoopVars
<1> SUFFICES ASSUME NEW o \in Channels, o \notin freed', Ending(o)'
             PROVE  CallEnded(o)'
  BY DEF EndInv
<1>1. ASSUME client'[o] = client[o], CallEnded(o)
      PROVE  CallEnded(o)'
  BY <1>1, CallsGoOn DEF CallEnded
<1>2. o \notin freed
  <2>1. freed \subseteq freed'
    BY LibraryKeeps, LoopKeeps DEF ServerNext, ServerApi, CheckStep, Start, StopCheckThread,
       CheckJoined, Stopped, CheckTest, KeepChannel, DeleteChannel, Forget, Refill, AutoSleep,
       PeerStep, serverVars
  <2> QED
    BY <2>1
<1>3. ASSUME client'[o] = client[o], Ending(o)
      PROVE  CallEnded(o)'
  BY <1>1, <1>2, <1>3 DEF EndInv
<1>4. ASSUME UNCHANGED <<client, status, scq, serverTag>>
      PROVE  CallEnded(o)'
  BY <1>3, <1>4, SameTags DEF Ending, InHand
<1>5. CASE Start \/ StopCheckThread \/ CheckJoined \/ Refill \/ CheckTest \/ AutoSleep
  BY <1>4, <1>5 DEF Start, StopCheckThread, CheckJoined, Refill, CheckTest, AutoSleep
<1>6. CASE Stopped
  <2>1. scq' = {} /\ UNCHANGED <<client, status, serverTag>>
    BY <1>6 DEF Stopped
  <2> QED
    BY <1>3, <2>1 DEF Ending, InHand, Tagged
<1>7. ASSUME NEW p \in Channels, NEW s \in Sessions, Match(p, s)
      PROVE  CallEnded(o)'
  <2>1. /\ "connect" \in channelOps[p] /\ scq' = scq \cup {<<p, "connect", TRUE>>}
        /\ client' = [client EXCEPT ![p] = s] /\ UNCHANGED <<status, serverTag>>
    BY <1>7 DEF Match, Ready
  <2>2. Tagged(o, "done")' <=> Tagged(o, "done")
    BY <2>1, TagsGrow
  <2>3. Ending(o)
    BY <2>1, <2>2 DEF Ending, InHand
  <2>4. o # p
    BY <1>2, <2>1, <2>3 DEF EndInv, CallEnded, CallInv
  <2> QED
    BY <1>3, <2>1, <2>3, <2>4
<1>8. ASSUME NEW p \in Channels,
             ChannelReads(p) \/ ChannelReadFails(p) \/ ChannelWritten(p)
      PROVE  CallEnded(o)'
  <2>1. PICK op \in {"read", "write"}, ok \in BOOLEAN : Ready(p, op, ok) /\ client' = client
    <3>1. Gone(p) \in BOOLEAN
      BY DEF Gone
    <3> QED
      BY <1>8, <3>1 DEF ChannelReads, ChannelReadFails, ChannelWritten
  <2>2. scq' = scq \cup {<<p, op, ok>>} /\ UNCHANGED <<status, serverTag>>
    BY <2>1 DEF Ready
  <2>3. op # "done" /\ (Tagged(o, "done")' <=> Tagged(o, "done"))
    BY ONLY <2>2, TagsGrow, op \in {"read", "write"}
  <2> QED
    BY <1>3, <2>1, <2>2, <2>3 DEF Ending, InHand
<1>9. ASSUME NEW p \in Channels, ChannelDone(p)
      PROVE  CallEnded(o)'
  <2>1. /\ Gone(p) /\ client' = client /\ scq' = scq \cup {<<p, "done", TRUE>>}
        /\ UNCHANGED <<status, serverTag>>
    BY <1>9 DEF ChannelDone, Ready
  <2>2. Tagged(o, "done")' <=> Tagged(o, "done") \/ o = p
    BY ONLY <2>1, TagsGrow
  <2>3. CASE o = p
    BY <1>1, <1>2, <2>1, <2>3 DEF Gone, CallEnded
  <2>4. CASE o # p
    BY <1>3, <2>1, <2>2, <2>4 DEF Ending, InHand
  <2> QED
    BY <2>3, <2>4
<1>10. ASSUME NEW t \in scq, TakeTag(t)
       PROVE  CallEnded(o)'
  <2>1. scq' = scq \ {t} /\ serverTag' = t /\ UNCHANGED <<client, status>>
    BY <1>10 DEF TakeTag
  <2>2. Ending(o)
    BY <2>1, TagsShrink DEF Ending, InHand
  <2> QED
    BY <1>3, <2>1, <2>2
<1>11. ASSUME UNCHANGED <<client, scq>>, serverTag' \in {serverTag, NoServerTag},
              status'[o] # "disconnect" \/ status'[o] = status[o]
       PROVE  CallEnded(o)'
  <2>1. InHand(o, "done")' => InHand(o, "done")
    BY <1>11, NoTagInHand DEF InHand
  <2> QED
    BY <1>3, <1>11, <2>1, SameTags DEF Ending
<1>12. CASE ServerLoopTest \/ ServerLoopTimeout
  BY <1>4, <1>12 DEF ServerLoopTest, ServerLoopTimeout
<1>13. CASE ChannelConnected
  <2>1. status'[o] # "disconnect" \/ status'[o] = status[o]
    BY <1>13 DEF ChannelConnected
  <2> QED
    BY <1>11, <1>13, <2>1 DEF ChannelConnected, Callback
<1>14. CASE ChannelReadDone \/ ChannelWriteDone
  BY <1>11, <1>14 DEF ChannelReadDone, ChannelWriteDone, Callback
<1>15. CASE ChannelWrite \/ ChannelReadAgain
  BY <1>11, <1>15 DEF ChannelWrite, ChannelReadAgain
<1>16. CASE ChannelDisconnect
  <2>1. /\ client' = client /\ serverTag[2] = "done" /\ status' = [status EXCEPT ![Channel] = "disconnect"]
        /\ serverTag' = NoServerTag /\ scq' = scq
    BY <1>16 DEF ChannelDisconnect, Callback
  <2>2. CASE o = Channel
    <3>1. Ending(o)
      BY <2>1, <2>2, InHandFacts DEF Ending
    <3> QED
      BY <1>3, <2>1, <3>1
  <2>3. CASE o # Channel
    BY <1>11, <2>1, <2>3
  <2> QED
    BY <2>2, <2>3
<1>17. CASE \E p \in Channels : KeepChannel(p)
  BY <1>4, <1>17 DEF KeepChannel
<1>18. CASE \E p \in Channels : DeleteChannel(p)
  <2>1. PICK p \in Channels : DeleteChannel(p)
    BY <1>18
  <2>2. /\ freed' = freed \cup {p} /\ client' = [client EXCEPT ![p] = 0]
        /\ status' = [status EXCEPT ![p] = "unconnect"] /\ UNCHANGED <<scq, serverTag>>
    BY <2>1 DEF DeleteChannel, Forget
  <2>3. o # p /\ client'[o] = client[o] /\ status'[o] = status[o]
    BY <2>2
  <2> QED
    BY <1>3, <2>2, <2>3, SameTags DEF Ending, InHand
<1>19. CASE PeerStep
  BY <1>4, <1>19 DEF PeerStep, serverVars
<1> QED
  BY <1>5, <1>6, <1>7, <1>8, <1>9, <1>10, <1>12, <1>13, <1>14, <1>15, <1>16, <1>17, <1>18, <1>19
  DEF ServerNext, ServerApi, ServerLibrary, ServerLoopStep, CheckStep

LEMMA ServerTagInv ==
  ASSUME TypeOK, ListInv, ReadInv, ServerNext \/ PeerStep
  PROVE  TagInv'
<1> USE DEF ReadInv, TagInv, Walking, serverLoopVars
<1>1. ASSUME UNCHANGED <<serverLoop, serverTag>> PROVE TagInv'
  BY <1>1
<1>2. CASE Start
  BY <1>2 DEF Start, ListInv
<1>3. CASE StopCheckThread \/ CheckJoined \/ Stopped
  BY <1>1, <1>3 DEF StopCheckThread, CheckJoined, Stopped
<1>4. CASE ServerLibrary
  BY <1>1, <1>4, LibraryKeeps
<1>5. CASE ServerLoopTest \/ ServerLoopTimeout \/ (\E t \in scq : TakeTag(t))
  BY <1>5 DEF ServerLoopTest, ServerLoopTimeout, TakeTag
<1>6. CASE ChannelConnected \/ ChannelWriteDone \/ ChannelDisconnect
  BY <1>6 DEF ChannelConnected, ChannelWriteDone, ChannelDisconnect, Callback
<1>7. CASE ChannelReadDone
  <2>1. /\ serverTag' = serverTag /\ serverTag[2] = "read"
        /\ serverLoop' = IF serverTag[3] THEN "walk" ELSE "walked"
    BY <1>7 DEF ChannelReadDone, Callback
  <2> QED
    BY <2>1
<1>8. CASE ChannelWrite \/ ChannelReadAgain
  BY <1>8 DEF ChannelWrite, ChannelReadAgain
<1>9. CASE CheckStep
  BY <1>1, <1>9 DEF CheckStep, CheckTest, KeepChannel, DeleteChannel, Refill, AutoSleep
<1>10. CASE PeerStep
  BY <1>1, <1>10 DEF PeerStep, serverVars
<1> QED
  BY <1>2, <1>3, <1>4, <1>5, <1>6, <1>7, <1>8, <1>9, <1>10
  DEF ServerNext, ServerApi, ServerLoopStep

LEMMA ServerTurns ==
  ASSUME TypeOK, ListInv, FreshInv, ReadInv, ServerNext \/ PeerStep
  PROVE  \A o \in Channels : InTurn(o)'
<1>0. /\ channelOps \in [Channels -> SUBSET ServerOps]
      /\ "read" \in ServerOps /\ "connect" \in ServerOps /\ Channel \in Channels
  BY InHandFacts DEF TypeOK, ServerTypeOK, ServerOps
<1> SUFFICES ASSUME NEW o \in Channels PROVE InTurn(o)'
  OBVIOUS
<1>i. InTurn(o)
  BY DEF ReadInv
<1> USE <1>0, <1>i DEF InTurn, ServerOnce, Waiting, listVars, channelVars, serverLoopVars
<1>1. ASSUME channelOps'[o] = channelOps[o], scq' = scq, serverTag' \in {serverTag, NoServerTag}
      PROVE  InTurn(o)'
  <2>1. \A op \in {"connect", "read"} : /\ InHand(o, op)' => InHand(o, op)
                                        /\ Tagged(o, op)' <=> Tagged(o, op)
    BY <1>1, SameTags, NoTagInHand DEF InHand
  <2> QED
    BY <1>1, <2>1
<1>2. ASSUME Fresh(o), channelOps'[o] \in {{}, {"connect"}}, scq' = scq, serverTag' = serverTag
      PROVE  InTurn(o)'
  <2>1. \A op \in {"connect", "read"} : ~InHand(o, op)' /\ ~Tagged(o, op)'
    BY <1>2, SameTags DEF Fresh, InHand
  <2>2. \A op \in {"connect", "read"}, b \in BOOLEAN : <<o, op, b>> \notin scq'
    BY <2>1 DEF Tagged
  <2> QED
    BY <1>2, <2>1, <2>2
<1>3. CASE Start
  <2>1. Fresh(o)
    BY <1>3, ServerFacts DEF Start, ListInv, FreshInv
  <2>2. channelOps'[o] \in {{}, {"connect"}} /\ scq' = scq /\ serverTag' = serverTag
    BY <1>3 DEF Start
  <2> QED
    BY <1>2, <2>1, <2>2
<1>4. CASE StopCheckThread \/ CheckJoined
  BY <1>1, <1>4 DEF StopCheckThread, CheckJoined
<1>5. CASE Stopped
  <2>1. channelOps'[o] = {} /\ scq' = {} /\ serverTag' = serverTag
    BY <1>5 DEF Stopped
  <2>2. \A op \in {"connect", "read"} : (InHand(o, op)' <=> InHand(o, op)) /\ ~Tagged(o, op)'
    BY <2>1 DEF InHand, Tagged
  <2> QED
    BY <2>1, <2>2
<1>6. ASSUME NEW p \in Channels, NEW op, NEW ok \in BOOLEAN, Ready(p, op, ok)
      PROVE  InTurn(o)'
  <2>1. /\ op \in channelOps[p] /\ channelOps' = [channelOps EXCEPT ![p] = @ \ {op}]
        /\ scq' = scq \cup {<<p, op, ok>>} /\ serverTag' = serverTag
    BY <1>6 DEF Ready
  <2>2. \A q \in {"connect", "read"} :
          /\ Tagged(o, q)' <=> Tagged(o, q) \/ (o = p /\ q = op)
          /\ InHand(o, q)' <=> InHand(o, q)
          /\ \A b : <<o, q, b>> \in scq' <=> <<o, q, b>> \in scq \/ (o = p /\ q = op /\ b = ok)
    BY <2>1, TagsGrow DEF InHand
  <2>3. CASE o # p
    BY <2>1, <2>2, <2>3
  <2>4. CASE o = p
    <3>1. channelOps'[o] = channelOps[o] \ {op} /\ op \in channelOps[o]
      BY <2>1, <2>4
    <3>2. \A q \in {"connect", "read"} : q = op =>
            <<o, q, TRUE>> \notin scq /\ <<o, q, FALSE>> \notin scq
      BY <3>1 DEF Tagged
    <3>3. ASSUME NEW q \in {"connect", "read"}
          PROVE  ~(<<o, q, TRUE>> \in scq' /\ <<o, q, FALSE>> \in scq')
      <4>1. CASE q = op
        <5>1. /\ <<o, q, TRUE>> \in scq' => TRUE = ok
              /\ <<o, q, FALSE>> \in scq' => FALSE = ok
          BY <2>2, <3>2, <4>1
        <5> QED
          BY <5>1
      <4>2. CASE q # op
        <5>1. /\ <<o, q, TRUE>> \in scq' => <<o, q, TRUE>> \in scq
              /\ <<o, q, FALSE>> \in scq' => <<o, q, FALSE>> \in scq
          BY <2>2, <4>2
        <5> QED
          BY <5>1
      <4> QED
        BY <4>1, <4>2
    <3>4. /\ \A q \in {"connect", "read"} : q # op => (Tagged(o, q)' <=> Tagged(o, q))
          /\ \A q \in {"connect", "read"} : q = op => ~InHand(o, q)'
          /\ \A q \in {"connect", "read"} : q # op => (InHand(o, q)' <=> InHand(o, q))
      BY <2>2, <2>4, <3>1
    <3> QED
      BY <3>1, <3>3, <3>4
  <2> QED
    BY <2>3, <2>4
<1>7. CASE ServerLibrary
  <2>1. PICK p \in Channels :
          \/ \E s \in Sessions : Match(p, s)
          \/ ChannelReads(p) \/ ChannelReadFails(p) \/ ChannelDone(p) \/ ChannelWritten(p)
    BY <1>7 DEF ServerLibrary
  <2>2. CASE \E s \in Sessions : Match(p, s)
    <3>1. Ready(p, "connect", TRUE)
      BY <2>2 DEF Match
    <3> QED
      BY <1>6, <3>1
  <2> QED
    BY <1>6, <2>1, <2>2, Readies
<1>8. ASSUME NEW t \in scq, TakeTag(t)
      PROVE  InTurn(o)'
  <2>1. /\ scq' = scq \ {t} /\ serverTag' = t /\ channelOps' = channelOps
        /\ serverTag = NoServerTag
    BY <1>8 DEF TakeTag, ReadInv, TagInv
  <2>2. \A q \in {"connect", "read"} :
          /\ Tagged(o, q)' => Tagged(o, q)
          /\ InHand(o, q)' <=> o = t[1] /\ q = t[2]
          /\ o = t[1] /\ q = t[2] => Tagged(o, q)
          /\ \A b : <<o, q, b>> \in scq' <=>
                      <<o, q, b>> \in scq /\ ~(o = t[1] /\ q = t[2] /\ b = t[3])
    BY <2>1, TagsShrink DEF InHand
  <2>3. t[3] \in BOOLEAN /\ t = <<t[1], t[2], t[3]>>
    BY ServerTagParts DEF TypeOK, ServerTypeOK
  <2>4. ASSUME NEW q \in {"connect", "read"}, o = t[1], q = t[2]
        PROVE  ~Tagged(o, q)'
    <3>1. <<o, q, t[3]>> \in scq
      BY <2>3, <2>4
    <3> QED
      BY <2>2, <2>3, <2>4, <3>1 DEF Tagged
  <2> QED
    BY <2>1, <2>2, <2>4
<1>9. CASE ServerLoopTest \/ ServerLoopTimeout
  BY <1>1, <1>9 DEF ServerLoopTest, ServerLoopTimeout
<1>10. CASE ChannelReadDone \/ ChannelWriteDone \/ ChannelDisconnect
  BY <1>1, <1>10 DEF ChannelReadDone, ChannelWriteDone, ChannelDisconnect, Callback
<1>11. CASE ChannelConnected
  <2>1. /\ serverTag[2] = "connect" /\ serverTag' = NoServerTag /\ scq' = scq
        /\ channelOps' = [channelOps EXCEPT ![Channel] = @ \cup {"read", "done"}]
    BY <1>11 DEF ChannelConnected, Callback
  <2>2. CASE o # Channel
    BY <1>1, <2>1, <2>2
  <2>3. CASE o = Channel
    <3>1. InHand(o, "connect")
      BY <2>1, <2>3, InHandFacts
    <3>2. \A op \in {"connect", "read"} : ~InHand(o, op)' /\ (Tagged(o, op)' <=> Tagged(o, op))
      BY <2>1, SameTags, NoTagInHand
    <3> QED
      BY <2>1, <2>3, <3>1, <3>2
  <2> QED
    BY <2>2, <2>3
<1>12. CASE ChannelWrite
  <2>1. /\ Walking /\ serverTag' = serverTag /\ scq' = scq
        /\ \/ channelOps' = channelOps
           \/ channelOps' = [channelOps EXCEPT ![Channel] = @ \cup {"write"}]
    BY <1>12 DEF ChannelWrite, Walking
  <2>2. CASE o # Channel
    BY <1>1, <2>1, <2>2
  <2>3. CASE o = Channel
    <3>1. InHand(o, "read")
      BY <2>1, <2>3, InHandFacts
    <3>2. "connect" \notin channelOps'[o] /\ ("read" \in channelOps'[o] <=> "read" \in channelOps[o])
      BY <2>1, <2>3, <3>1
    <3>3. \A op \in {"connect", "read"} : /\ InHand(o, op)' <=> InHand(o, op)
                                          /\ Tagged(o, op)' <=> Tagged(o, op)
      BY <2>1, SameTags DEF InHand
    <3> QED
      BY <2>1, <3>1, <3>2, <3>3
  <2> QED
    BY <2>2, <2>3
<1>13. CASE ChannelReadAgain
  <2>1. /\ Walking /\ serverTag' = NoServerTag /\ scq' = scq
        /\ \/ channelOps' = channelOps
           \/ channelOps' = [channelOps EXCEPT ![Channel] = @ \cup {"read"}]
    BY <1>13 DEF ChannelReadAgain, Walking
  <2>2. CASE o # Channel
    BY <1>1, <2>1, <2>2
  <2>3. CASE o = Channel
    <3>1. InHand(o, "read")
      BY <2>1, <2>3, InHandFacts
    <3>2. "connect" \notin channelOps'[o]
      BY <2>1, <2>3, <3>1
    <3>3. \A op \in {"connect", "read"} : ~InHand(o, op)' /\ (Tagged(o, op)' <=> Tagged(o, op))
      BY <2>1, SameTags, NoTagInHand
    <3> QED
      BY <2>1, <3>1, <3>2, <3>3
  <2> QED
    BY <2>2, <2>3
<1>14. CASE CheckTest \/ AutoSleep \/ (\E p \in Channels : KeepChannel(p) \/ DeleteChannel(p))
  BY <1>1, <1>14 DEF CheckTest, AutoSleep, KeepChannel, DeleteChannel
<1>15. CASE Refill
  <2>1. channelOps' = [channelOps EXCEPT ![made + 1] = {"connect"}] /\ scq' = scq /\ serverTag' = serverTag
    BY <1>15 DEF Refill
  <2>2. CASE o # made + 1
    BY <1>1, <2>1, <2>2
  <2>3. CASE o = made + 1
    BY <1>2, <2>1, <2>3, ServerFacts DEF FreshInv
  <2> QED
    BY <2>2, <2>3
<1>16. CASE PeerStep
  BY <1>1, <1>16 DEF PeerStep, serverVars
<1> QED
  BY <1>3, <1>4, <1>5, <1>7, <1>8, <1>9, <1>10, <1>11, <1>12, <1>13, <1>14, <1>15, <1>16
  DEF ServerNext, ServerApi, ServerLoopStep, CheckStep

LEMMA ServerFaults ==
  ASSUME TypeOK, ListInv, FreshInv, EndInv, ReadInv, FaultInv, ServerNext \/ PeerStep
  PROVE  FaultInv'
<1>0. /\ SomeEnded => SomeEnded'
      /\ unchecked \subseteq channelList /\ channelList \cap freed = {}
  BY CallsGoOn DEF SomeEnded, TypeOK, ServerTypeOK, ListInv
<1> USE <1>0 DEF FaultInv, listVars
<1>1. ASSUME UNCHANGED <<freed, serverApi>>, serverFault' = serverFault \/ SomeEnded
      PROVE  FaultInv'
  BY <1>1
<1>2. CASE Start
  BY <1>2 DEF Start, ListInv
<1>3. CASE StopCheckThread \/ CheckJoined \/ Stopped
  BY <1>3 DEF StopCheckThread, CheckJoined, Stopped
<1>4. CASE ServerLibrary
  BY <1>1, <1>4, LibraryKeeps
<1>5. CASE ServerLoopStep
  <2>1. UNCHANGED <<freed, serverApi>> /\ serverApi # "stopped"
    BY <1>5, LoopKeeps DEF ListInv
  <2>2. serverFault' # serverFault => freed # {} \/ serverFault' = "two at once"
    <3>1. CASE ServerLoopTest \/ ServerLoopTimeout \/ (\E t \in scq : TakeTag(t))
      BY <3>1 DEF ServerLoopTest, ServerLoopTimeout, TakeTag
    <3>2. CASE ChannelConnected \/ ChannelReadDone \/ ChannelWrite \/ ChannelReadAgain
      BY <3>2 DEF ChannelConnected, ChannelReadDone, ChannelWrite, ChannelReadAgain, Fault
    <3>3. CASE ChannelWriteDone \/ ChannelDisconnect
      BY <3>3 DEF ChannelWriteDone, ChannelDisconnect, Fault
    <3> QED
      BY <1>5, <3>1, <3>2, <3>3 DEF ServerLoopStep
  <2> QED
    BY <2>1, <2>2
<1>6. CASE CheckTest \/ AutoSleep \/ (\E o \in Channels : KeepChannel(o))
  BY <1>1, <1>6 DEF CheckTest, AutoSleep, KeepChannel
<1>7. CASE \E o \in Channels : DeleteChannel(o)
  <2>1. PICK o \in Channels : DeleteChannel(o)
    BY <1>7
  <2>2. status[o] = "disconnect" /\ o \in unchecked
    BY <2>1 DEF DeleteChannel
  <2>3. CallEnded(o) /\ client[o] \in Sessions
    BY <2>2 DEF EndInv, Ending, CallEnded, TypeOK, ServerTypeOK
  <2>4. SomeEnded
    BY <2>3 DEF CallEnded, SomeEnded
  <2> QED
    BY <2>4
<1>8. CASE Refill
  <2>1. missing > 0 /\ freed # {} /\ serverApi # "stopped"
    BY <1>8 DEF Refill, ListInv
  <2> QED
    BY <1>8, <2>1 DEF Refill
<1>9. CASE PeerStep
  BY <1>1, <1>9 DEF PeerStep, serverVars
<1> QED
  BY <1>2, <1>3, <1>4, <1>5, <1>6, <1>7, <1>8, <1>9 DEF ServerNext, ServerApi, CheckStep

(* The types of the server, in three parts.                                *)
ListOK ==
  /\ made \in {0} \cup Channels
  /\ channelList \subseteq 1 .. made /\ freed \subseteq 1 .. made
  /\ unchecked \subseteq channelList
  /\ missing \in 0 .. MaxChannel
ChannelsOK ==
  /\ status \in [Channels -> {"unconnect", "connected", "disconnect"}]
  /\ client \in [Channels -> {0} \cup Sessions]
  /\ channelOps \in [Channels -> SUBSET ServerOps] /\ scq \subseteq ServerTags
  /\ serverTag \in ServerTags
ThreadsOK ==
  /\ serverApi \in {"idle", "running", "check", "loop", "stopped"}
  /\ serverRunning \in BOOLEAN
  /\ serverLoop \in {"none", "test", "next", "tag", "walk", "walked"}
  /\ check \in {"none", "test", "walk"}
  /\ serverFault \in {"none", "freed", "list", "two at once"}

LEMMA ServerParts == ServerTypeOK <=> ListOK /\ ChannelsOK /\ ThreadsOK
BY Zenon DEF ServerTypeOK, ListOK, ChannelsOK, ThreadsOK

LEMMA ListStep ==
  ASSUME TypeOK, ListInv, CallInv, ServerNext \/ PeerStep
  PROVE  ListOK'
<1>0. ListOK
  BY ServerParts DEF TypeOK
<1> USE <1>0, ServerFacts DEF ListOK, listVars, checkVars
<1>1. ASSUME UNCHANGED <<listVars, missing>>, unchecked' \subseteq unchecked
      PROVE  ListOK'
  BY <1>1
<1>2. CASE Start
  <2>1. /\ channelList' = 1 .. MaxChannel /\ made' = MaxChannel /\ freed' = {} /\ missing' = 0
        /\ unchecked' = {}
    BY <1>2 DEF Start, ListInv
  <2>2. MaxChannel \in Channels
    BY DEF Channels
  <2> QED
    BY <2>1, <2>2
<1>3. CASE StopCheckThread \/ CheckJoined
  BY <1>1, <1>3 DEF StopCheckThread, CheckJoined
<1>4. CASE Stopped
  <2>1. unchecked' = {} /\ channelList' = {} /\ freed' = freed \cup channelList
        /\ UNCHANGED <<made, missing>>
    BY <1>4 DEF Stopped, ListInv
  <2> QED
    BY <2>1
<1>5. CASE ServerLibrary \/ ServerLoopStep
  BY <1>1, <1>5, LibraryKeeps, LoopKeeps
<1>6. CASE CheckTest
  BY <1>6 DEF CheckTest
<1>7. CASE AutoSleep \/ (\E o \in Channels : KeepChannel(o))
  BY <1>1, <1>7 DEF AutoSleep, KeepChannel
<1>8. ASSUME NEW o \in Channels, DeleteChannel(o)
      PROVE  ListOK'
  <2>1. /\ o \in channelList /\ check = "walk"
        /\ channelList' = channelList \ {o} /\ freed' = freed \cup {o} /\ made' = made
        /\ unchecked' = unchecked \ {o} /\ missing' = missing + 1
    BY <1>8 DEF DeleteChannel, Forget
  <2>2. Cardinality(channelList) + missing = MaxChannel
    BY <2>1 DEF ListInv, Serving, TypeOK, ServerTypeOK
  <2>3. Cardinality(channelList) # 0 /\ Cardinality(channelList) \in Nat
    BY <2>1, FiniteSets, FS_EmptySet
  <2>4. missing' \in 0 .. MaxChannel
    BY <2>1, <2>2, <2>3
  <2> QED
    BY <2>1, <2>4
<1>9. CASE Refill
  <2>1. /\ check = "walk" /\ missing > 0 /\ unchecked' = unchecked
        /\ channelList' = channelList \cup {made + 1} /\ freed' = freed
        /\ missing' = missing - 1 /\ made' = made + 1
    BY <1>9 DEF Refill
  <2>2. made + 1 \in Channels
    BY <2>1, MadeFits DEF ListInv, Serving, TypeOK, ServerTypeOK
  <2> QED
    BY <2>1, <2>2
<1>10. CASE PeerStep
  BY <1>1, <1>10 DEF PeerStep, serverVars
<1> QED
  BY <1>2, <1>3, <1>4, <1>5, <1>6, <1>7, <1>8, <1>9, <1>10 DEF ServerNext, ServerApi, CheckStep

LEMMA ChannelsStep ==
  ASSUME TypeOK, ReadInv, FreshInv, ServerNext \/ PeerStep
  PROVE  ChannelsOK'
<1>0. ChannelsOK /\ NoServerTag \in ServerTags
      /\ {"connect", "read", "write", "done"} \subseteq ServerOps
  BY ServerParts, ServerTagParts DEF TypeOK, ServerOps
<1> USE <1>0 DEF ChannelsOK, channelVars, serverLoopVars
<1>1. ASSUME UNCHANGED <<status, client, channelOps, scq>>, serverTag' \in {serverTag, NoServerTag}
      PROVE  ChannelsOK'
  BY <1>1
<1>2. CASE Start
  <2>1. channelOps' \in [Channels -> SUBSET ServerOps]
    BY <1>2 DEF Start
  <2> QED
    BY <1>2, <2>1 DEF Start
<1>3. CASE StopCheckThread \/ CheckJoined
  BY <1>1, <1>3 DEF StopCheckThread, CheckJoined
<1>4. CASE Stopped
  BY <1>4 DEF Stopped
<1>5. ASSUME NEW o \in Channels, NEW op \in ServerOps, NEW ok \in BOOLEAN, Ready(o, op, ok),
             client' \in [Channels -> {0} \cup Sessions]
      PROVE  ChannelsOK'
  <2>1. <<o, op, ok>> \in ServerTags
    BY DEF ServerTags
  <2>2. /\ channelOps' = [channelOps EXCEPT ![o] = @ \ {op}] /\ scq' = scq \cup {<<o, op, ok>>}
        /\ UNCHANGED <<status, serverTag>>
    BY <1>5 DEF Ready
  <2> QED
    BY <1>5, <2>1, <2>2
<1>6. CASE ServerLibrary
  <2>1. PICK o \in Channels :
          \/ \E s \in Sessions : Match(o, s)
          \/ ChannelReads(o) \/ ChannelReadFails(o) \/ ChannelDone(o) \/ ChannelWritten(o)
    BY <1>6 DEF ServerLibrary
  <2>2. CASE \E s \in Sessions : Match(o, s)
    <3>1. Ready(o, "connect", TRUE) /\ client' \in [Channels -> {0} \cup Sessions]
      BY <2>2 DEF Match
    <3> QED
      BY <1>5, <3>1
  <2> QED
    BY <1>5, <2>1, <2>2, Readies
<1>7. CASE \E t \in scq : TakeTag(t)
  BY <1>7 DEF TakeTag
<1>8. CASE ServerLoopTest \/ ServerLoopTimeout \/ ChannelReadDone \/ ChannelWriteDone
  BY <1>1, <1>8 DEF ServerLoopTest, ServerLoopTimeout, ChannelReadDone, ChannelWriteDone, Callback
<1>9. CASE ChannelConnected
  BY <1>9 DEF ChannelConnected, Callback
<1>10. CASE ChannelWrite
  BY <1>10 DEF ChannelWrite
<1>11. CASE ChannelReadAgain
  BY <1>11 DEF ChannelReadAgain
<1>12. CASE ChannelDisconnect
  BY <1>12 DEF ChannelDisconnect, Callback
<1>13. CASE CheckTest \/ AutoSleep \/ (\E o \in Channels : KeepChannel(o))
  BY <1>1, <1>13 DEF CheckTest, AutoSleep, KeepChannel
<1>14. CASE \E o \in Channels : DeleteChannel(o)
  BY <1>14 DEF DeleteChannel, Forget
<1>15. CASE Refill
  BY <1>15 DEF Refill
<1>16. CASE PeerStep
  BY <1>1, <1>16 DEF PeerStep, serverVars
<1> QED
  BY <1>2, <1>3, <1>4, <1>6, <1>7, <1>8, <1>9, <1>10, <1>11, <1>12, <1>13, <1>14, <1>15, <1>16
  DEF ServerNext, ServerApi, ServerLoopStep, CheckStep

LEMMA ThreadsStep ==
  ASSUME TypeOK, ServerNext \/ PeerStep
  PROVE  ThreadsOK'
<1>0. ThreadsOK
  BY ServerParts DEF TypeOK
<1> USE <1>0 DEF ThreadsOK, serverLoopVars, checkVars
<1>1. CASE Start
  BY <1>1 DEF Start
<1>2. CASE StopCheckThread \/ CheckJoined \/ Stopped
  BY <1>2 DEF StopCheckThread, CheckJoined, Stopped
<1>3. CASE ServerLibrary
  BY <1>3, LibraryKeeps
<1>4. CASE ServerLoopTest \/ ServerLoopTimeout \/ (\E t \in scq : TakeTag(t))
  BY <1>4 DEF ServerLoopTest, ServerLoopTimeout, TakeTag
<1>5. CASE ChannelConnected \/ ChannelWriteDone \/ ChannelDisconnect
  BY <1>5 DEF ChannelConnected, ChannelWriteDone, ChannelDisconnect, Callback, Fault
<1>6. CASE ChannelReadDone
  BY <1>6 DEF ChannelReadDone, Callback, Fault
<1>7. CASE ChannelWrite
  BY <1>7 DEF ChannelWrite, Fault
<1>8. CASE ChannelReadAgain
  BY <1>8 DEF ChannelReadAgain, Fault
<1>9. CASE CheckTest
  BY <1>9 DEF CheckTest
<1>10. CASE AutoSleep \/ Refill
  BY <1>10 DEF AutoSleep, Refill
<1>11. CASE \E o \in Channels : KeepChannel(o) \/ DeleteChannel(o)
  BY <1>11 DEF KeepChannel, DeleteChannel
<1>12. CASE PeerStep
  BY <1>12 DEF PeerStep, serverVars
<1> QED
  BY <1>1, <1>2, <1>3, <1>4, <1>5, <1>6, <1>7, <1>8, <1>9, <1>10, <1>11, <1>12
  DEF ServerNext, ServerApi, ServerLoopStep, CheckStep

(* The types of the messages, from the bound that AnswerInv gives.         *)
LEMMA ServerMessages ==
  ASSUME TypeOK, AnswerInv
  PROVE  /\ sent \in Nat /\ sent <= MaxRequests /\ MaxRequests \in Nat /\ MaxRequests <= MaxWrites
         /\ requests \in [Sessions -> 0 .. MaxWrites] /\ responses \in [Sessions -> 0 .. MaxWrites]
         /\ \A s \in Sessions :
              /\ requests[s] \in Nat /\ responses[s] \in Nat
              /\ AnswersOf(s) <= sent /\ requests[s] + responses[s] <= sent
<1>1. /\ sent \in 0 .. MaxWrites /\ requests \in [Sessions -> 0 .. MaxWrites]
      /\ responses \in [Sessions -> 0 .. MaxWrites]
  BY DEF TypeOK, CallsTypeOK, ClientTypeOK
<1>2. \A s \in Sessions : requests[s] \in Nat /\ responses[s] \in Nat
  BY <1>1, ServerFacts
<1>3. ASSUME NEW s \in Sessions
      PROVE  AnswersOf(s) <= sent /\ requests[s] + responses[s] <= sent
  <2>1. AnswersOf(s) <= sent
    BY DEF AnswerInv
  <2> QED
    BY <1>1, <1>2, <2>1, ServerFacts DEF AnswersOf
<1> QED
  BY <1>1, <1>2, <1>3, ServerFacts DEF AnswerInv

LEMMA ServerAnswers ==
  ASSUME TypeOK, ReadInv, FreshInv, CallInv, AnswerInv,
         ServerNext, UNCHANGED sent
  PROVE  AnswerInv'
<1>0. client \in [Channels -> {0} \cup Sessions] /\ channelOps \in [Channels -> SUBSET ServerOps]
      /\ Channel \in Channels
  BY InHandFacts DEF TypeOK, ServerTypeOK
<1> SUFFICES ASSUME NEW s \in Sessions PROVE AnswersOf(s)' <= sent'
  BY DEF AnswerInv
<1>t. /\ sent \in Nat /\ requests[s] \in Nat /\ responses[s] \in Nat
      /\ AnswersOf(s) <= sent /\ s \in Nat /\ s # 0
      /\ requests \in [Sessions -> 0 .. MaxWrites] /\ responses \in [Sessions -> 0 .. MaxWrites]
  BY ServerMessages, ServerFacts
<1> USE <1>0, <1>t DEF listVars, channelVars, serverLoopVars, callVars, Place
<1>g. ASSUME sent' = sent, requests'[s] = requests[s], responses'[s] = responses[s],
             Reading(s)' => Reading(s), Handling(s)' => Handling(s), Writing(s)' => Writing(s)
      PROVE  AnswersOf(s)' <= sent'
  BY <1>g DEF AnswersOf
<1>h. ASSUME client' = client, scq' \subseteq scq,
             \A o \in Channels : "write" \in channelOps'[o] => "write" \in channelOps[o]
      PROVE  (Reading(s)' => Reading(s)) /\ (Writing(s)' => Writing(s))
  BY <1>h DEF Reading, Writing
<1>k. ASSUME client' = client, serverTag' = serverTag, serverLoop' = serverLoop
      PROVE  Handling(s)' => Handling(s)
  BY <1>k DEF Handling
<1>n. ASSUME serverLoop' \notin {"tag", "walk"}
      PROVE  ~Handling(s)'
  BY <1>n DEF Handling
<1>1. CASE Start
  <2>1. \A o \in Channels : "write" \notin channelOps'[o]
    BY <1>1 DEF Start
  <2>2. client' = client /\ scq' = scq /\ serverLoop' = "test" /\ UNCHANGED <<requests, responses>>
    BY <1>1 DEF Start
  <2> QED
    BY <1>g, <1>h, <1>n, <2>1, <2>2
<1>2. CASE StopCheckThread \/ CheckJoined
  BY <1>2, <1>g, <1>h, <1>k DEF StopCheckThread, CheckJoined
<1>3. CASE Stopped
  <2>1. /\ scq' = {} /\ channelOps' = [o \in Channels |-> {}] /\ client' = client
        /\ UNCHANGED <<requests, responses, serverTag, serverLoop>>
    BY <1>3 DEF Stopped
  <2> QED
    BY <1>g, <1>h, <1>k, <2>1
<1>4. ASSUME NEW o \in Channels, NEW r \in Sessions, Match(o, r)
      PROVE  AnswersOf(s)' <= sent'
  <2>1. /\ channelOps' = [channelOps EXCEPT ![o] = @ \ {"connect"}] /\ "connect" \in channelOps[o]
        /\ scq' = scq \cup {<<o, "connect", TRUE>>} /\ client' = [client EXCEPT ![o] = r]
        /\ UNCHANGED <<requests, responses, serverTag, serverLoop>>
    BY <1>4 DEF Match, Ready
  <2>2. /\ ~Tagged(o, "read") /\ ~InHand(o, "read") /\ channelOps'[o] = {}
    BY <2>1 DEF ReadInv, InTurn, Waiting
  <2>3. \A p \in Channels : <<p, "read", TRUE>> \in scq' => <<p, "read", TRUE>> \in scq /\ p # o
    BY <2>1, <2>2, TagsGrow DEF Tagged
  <2>4. \A p \in Channels : p # o => client'[p] = client[p] /\ channelOps'[p] = channelOps[p]
    BY <2>1
  <2>5. Reading(s)' => Reading(s)
    BY <2>3, <2>4 DEF Reading
  <2>6. Handling(s)' => Handling(s)
    BY <2>1, <2>2, <2>4 DEF Handling, InHand
  <2>7. Writing(s)' => Writing(s)
    BY <2>2, <2>4 DEF Writing
  <2> QED
    BY <1>g, <2>1, <2>5, <2>6, <2>7
<1>5. ASSUME NEW o \in Channels, ChannelReads(o)
      PROVE  AnswersOf(s)' <= sent'
  <2>1. /\ "read" \in channelOps[o] /\ channelOps' = [channelOps EXCEPT ![o] = @ \ {"read"}]
        /\ scq' = scq \cup {<<o, "read", TRUE>>} /\ client[o] # 0 /\ requests[client[o]] > 0
        /\ requests' = [requests EXCEPT ![client[o]] = @ - 1]
        /\ UNCHANGED <<client, responses, serverTag, serverLoop>>
    BY <1>5 DEF ChannelReads, Ready
  <2>2. Handling(s)' => Handling(s)
    BY <1>k, <2>1
  <2>3. Writing(s)' => Writing(s)
    BY <2>1 DEF Writing
  <2>4. \A p \in Channels : <<p, "read", TRUE>> \in scq' => <<p, "read", TRUE>> \in scq \/ p = o
    BY <2>1, TagsGrow
  <2>5. CASE client[o] = s
    <3>1. ~Reading(s)
      <4>1. <<o, "read", TRUE>> \notin scq
        BY <2>1 DEF ReadInv, InTurn, ServerOnce, Tagged
      <4>2. \A p \in Channels : client[p] = s => p = o
        BY <2>1, <2>5 DEF CallInv, Served
      <4> QED
        BY <4>1, <4>2 DEF Reading
    <3>2. requests'[s] = requests[s] - 1
      BY <2>1, <2>5
    <3> QED
      BY <2>1, <2>2, <2>3, <3>1, <3>2 DEF AnswersOf
  <2>6. CASE client[o] # s
    <3>1. requests'[s] = requests[s]
      BY <2>1, <2>6
    <3>2. Reading(s)' => Reading(s)
      BY <2>1, <2>4, <2>6 DEF Reading
    <3> QED
      BY <1>g, <2>1, <2>2, <2>3, <3>1, <3>2
  <2> QED
    BY <2>5, <2>6
<1>6. ASSUME NEW o \in Channels, ChannelReadFails(o) \/ ChannelDone(o)
      PROVE  AnswersOf(s)' <= sent'
  <2>1. PICK op \in {"read", "done"}, ok \in BOOLEAN : Ready(o, op, ok) /\ (op = "read" => ok = FALSE)
    BY <1>6 DEF ChannelReadFails, ChannelDone
  <2>2. /\ channelOps' = [channelOps EXCEPT ![o] = @ \ {op}] /\ scq' = scq \cup {<<o, op, ok>>}
        /\ UNCHANGED <<client, requests, responses, serverTag, serverLoop>>
    BY <1>6, <2>1 DEF Ready, ChannelReadFails, ChannelDone
  <2>3. \A p \in Channels : <<p, "read", TRUE>> \in scq' => <<p, "read", TRUE>> \in scq
    BY <2>1, <2>2, TagsGrow
  <2>4. Reading(s)' => Reading(s)
    BY <2>2, <2>3 DEF Reading
  <2>5. Handling(s)' => Handling(s)
    BY <1>k, <2>2
  <2>6. Writing(s)' => Writing(s)
    BY <2>2 DEF Writing
  <2> QED
    BY <1>g, <2>2, <2>4, <2>5, <2>6
<1>7. ASSUME NEW o \in Channels, ChannelWritten(o)
      PROVE  AnswersOf(s)' <= sent'
  <2>1. /\ "write" \in channelOps[o] /\ channelOps' = [channelOps EXCEPT ![o] = @ \ {"write"}]
        /\ scq' = scq \cup {<<o, "write", ~Gone(o)>>}
        /\ responses' \in {responses, [responses EXCEPT ![client[o]] = @ + 1]}
        /\ UNCHANGED <<client, requests, serverTag, serverLoop>>
    BY <1>7 DEF ChannelWritten, Ready
  <2>2. \A p \in Channels : <<p, "read", TRUE>> \in scq' => <<p, "read", TRUE>> \in scq
    BY <2>1, TagsGrow
  <2>3. Reading(s)' => Reading(s)
    BY <2>1, <2>2 DEF Reading
  <2>4. Handling(s)' => Handling(s)
    BY <1>k, <2>1
  <2>5. Writing(s)' => Writing(s)
    BY <2>1 DEF Writing
  <2>6. CASE client[o] = s
    <3>1. Writing(s)
      BY <2>1, <2>6 DEF Writing
    <3>2. ~Writing(s)'
      <4>1. \A p \in Channels : client[p] = s => p = o
        BY <2>6 DEF CallInv, Served
      <4> QED
        BY <2>1, <4>1 DEF Writing
    <3>3. responses'[s] = responses[s] \/ responses'[s] = responses[s] + 1
      BY <2>1, <2>6
    <3> QED
      BY <2>1, <2>3, <2>4, <3>1, <3>2, <3>3 DEF AnswersOf
  <2>7. CASE client[o] # s
    <3>1. responses'[s] = responses[s]
      BY <2>1, <2>7
    <3> QED
      BY <1>g, <2>1, <2>3, <2>4, <2>5, <3>1
  <2> QED
    BY <2>6, <2>7
<1>8. ASSUME NEW t \in scq, TakeTag(t)
      PROVE  AnswersOf(s)' <= sent'
  <2>1. /\ serverLoop = "next" /\ serverLoop' = "tag" /\ serverTag' = t /\ scq' = scq \ {t}
        /\ UNCHANGED <<client, channelOps, requests, responses>>
    BY <1>8 DEF TakeTag
  <2>2. ~Handling(s)
    BY <2>1 DEF Handling
  <2>3. (Reading(s)' => Reading(s)) /\ (Writing(s)' => Writing(s))
    BY <1>h, <2>1
  <2>4. CASE Handling(s)'
    <3>1. PICK o \in Channels : client[o] = s /\ t = <<o, "read", TRUE>>
      BY <2>1, <2>4 DEF Handling
    <3>2. Reading(s)
      BY <3>1 DEF Reading
    <3>3. ~Reading(s)'
      <4>1. \A p \in Channels : client[p] = s => p = o
        BY <3>1 DEF CallInv, Served
      <4> QED
        BY <2>1, <3>1, <4>1 DEF Reading
    <3> QED
      BY <2>1, <2>2, <2>3, <2>4, <3>2, <3>3 DEF AnswersOf
  <2>5. CASE ~Handling(s)'
    BY <1>g, <2>1, <2>3, <2>5
  <2> QED
    BY <2>4, <2>5
<1>9. CASE ServerLoopTest \/ ServerLoopTimeout
  <2>1. serverLoop' \in {"test", "next", "none"}
        /\ UNCHANGED <<client, channelOps, scq, requests, responses>>
    BY <1>9 DEF ServerLoopTest, ServerLoopTimeout
  <2> QED
    BY <1>g, <1>h, <1>n, <2>1
<1>10. CASE ChannelConnected \/ ChannelReadAgain
  <2>1. /\ serverLoop' = "test" /\ UNCHANGED <<client, scq, requests, responses>>
        /\ \A o \in Channels : channelOps'[o] \subseteq channelOps[o] \cup {"read", "done"}
    BY <1>10 DEF ChannelConnected, ChannelReadAgain, Callback
  <2> QED
    BY <1>g, <1>h, <1>n, <2>1
<1>11. CASE ChannelWriteDone \/ ChannelDisconnect
  <2>1. serverLoop' = "test" /\ UNCHANGED <<client, channelOps, scq, requests, responses>>
    BY <1>11 DEF ChannelWriteDone, ChannelDisconnect, Callback
  <2> QED
    BY <1>g, <1>h, <1>n, <2>1
<1>12. CASE ChannelReadDone
  <2>1. /\ serverLoop = "tag" /\ serverTag' = serverTag
        /\ UNCHANGED <<client, channelOps, scq, requests, responses>>
    BY <1>12 DEF ChannelReadDone, Callback
  <2>2. Handling(s)' => Handling(s)
    BY <2>1 DEF Handling
  <2> QED
    BY <1>g, <1>h, <2>1, <2>2
<1>13. CASE ChannelWrite
  <2>1. /\ serverLoop = "walk" /\ serverLoop' = "walked" /\ serverTag' = serverTag
        /\ channelOps' \in {channelOps, [channelOps EXCEPT ![Channel] = @ \cup {"write"}]}
        /\ UNCHANGED <<client, scq, requests, responses>>
    BY <1>13 DEF ChannelWrite
  <2>2. serverTag = <<Channel, "read", TRUE>>
    BY <2>1, ServerTagParts DEF ReadInv, TagInv, Walking, Channel, TypeOK, ServerTypeOK
  <2>3. ~Handling(s)'
    BY <1>n, <2>1
  <2>4. Reading(s)' => Reading(s)
    BY <2>1 DEF Reading
  <2>5. CASE client[Channel] = s
    <3>1. Handling(s)
      BY <2>1, <2>2, <2>5 DEF Handling
    <3> QED
      BY <2>1, <2>3, <2>4, <3>1 DEF AnswersOf
  <2>6. CASE client[Channel] # s
    <3>1. Writing(s)' => Writing(s)
      BY <2>1, <2>6 DEF Writing
    <3> QED
      BY <1>g, <2>1, <2>3, <2>4, <3>1
  <2> QED
    BY <2>5, <2>6
<1>14. CASE CheckTest \/ AutoSleep \/ (\E o \in Channels : KeepChannel(o))
  BY <1>14, <1>g, <1>h, <1>k DEF CheckTest, AutoSleep, KeepChannel
<1>15. CASE \E o \in Channels : DeleteChannel(o)
  <2>1. PICK o \in Channels : client' = [client EXCEPT ![o] = 0]
                               /\ UNCHANGED <<channelOps, scq, serverTag, serverLoop, requests, responses>>
    BY <1>15 DEF DeleteChannel, Forget
  <2>2. \A p \in Channels : client'[p] = s => client[p] = s
    BY <2>1
  <2>3. (Reading(s)' => Reading(s)) /\ (Writing(s)' => Writing(s)) /\ (Handling(s)' => Handling(s))
    BY <2>1, <2>2 DEF Reading, Writing, Handling
  <2> QED
    BY <1>g, <2>1, <2>3
<1>16. CASE Refill
  <2>1. /\ channelOps' = [channelOps EXCEPT ![made + 1] = {"connect"}]
        /\ UNCHANGED <<client, scq, serverTag, serverLoop, requests, responses>>
    BY <1>16 DEF Refill
  <2>2. \A o \in Channels : "write" \in channelOps'[o] => "write" \in channelOps[o]
    BY <2>1
  <2> QED
    BY <1>g, <1>h, <1>k, <2>1, <2>2
<1> QED
  BY <1>1, <1>2, <1>3, <1>4, <1>5, <1>6, <1>7, <1>8, <1>9, <1>10, <1>11, <1>12, <1>13, <1>14,
     <1>15, <1>16 DEF ServerNext, ServerApi, ServerLibrary, ServerLoopStep, CheckStep

LEMMA PeerAnswers ==
  ASSUME TypeOK, AnswerInv, PeerStep
  PROVE  AnswerInv' /\ CallsTypeOK' /\ sent' \in 0 .. MaxWrites
<1>0. /\ call \in [Sessions -> {"none", "calling", "open", "ended"}]
      /\ requests \in [Sessions -> 0 .. MaxWrites] /\ responses \in [Sessions -> 0 .. MaxWrites]
      /\ MaxWrites \in Nat
  BY ServerFacts DEF TypeOK, CallsTypeOK
<1> USE <1>0
<1>1. PICK s \in Sessions : Call(s) \/ Send(s) \/ (Break(s) /\ UNCHANGED sent)
  BY DEF PeerStep
<1>2. \A r \in Sessions : (Reading(r)' <=> Reading(r)) /\ (Handling(r)' <=> Handling(r))
                          /\ (Writing(r)' <=> Writing(r))
  BY DEF PeerStep, serverVars, channelVars, serverLoopVars, Reading, Handling, Writing
<1>3. CASE Call(s) \/ (Break(s) /\ UNCHANGED sent)
  <2>1. UNCHANGED <<requests, responses, sent>>
    BY <1>3 DEF Call, Break
  <2>2. \A r \in Sessions : AnswersOf(r)' <= sent'
    BY <1>2, <2>1 DEF AnswersOf, AnswerInv
  <2>3. call' \in [Sessions -> {"none", "calling", "open", "ended"}]
    BY <1>3 DEF Call, Break, Place
  <2> QED
    BY <2>1, <2>2, <2>3, ServerMessages DEF AnswerInv, CallsTypeOK
<1>4. CASE Send(s)
  <2>1. /\ sent < MaxRequests /\ sent' = sent + 1 /\ requests' = [requests EXCEPT ![s] = @ + 1]
        /\ UNCHANGED <<call, responses>>
    BY <1>4 DEF Send
  <2>2. ASSUME NEW r \in Sessions PROVE AnswersOf(r)' <= sent'
    <3>1. requests'[r] \in {requests[r], requests[r] + 1}
      BY <2>1
    <3> QED
      BY <1>2, <2>1, <3>1, ServerMessages DEF AnswersOf
  <2>3. requests[s] + 1 \in 0 .. MaxWrites
    BY <2>1, ServerMessages
  <2> QED
    BY <2>1, <2>2, <2>3, ServerMessages DEF AnswerInv, CallsTypeOK
<1> QED
  BY <1>1, <1>3, <1>4

(* A channel without a call stays idle until the library gives it one.     *)
LEMMA ServerIdle ==
  ASSUME TypeOK, ListInv, FreshInv, CallInv, ReadInv, IdleInv, ServerNext
  PROVE  IdleInv'
<1>0. /\ client \in [Channels -> {0} \cup Sessions]
      /\ channelOps \in [Channels -> SUBSET ServerOps] /\ channelList \subseteq Channels
  BY ServerFacts DEF TypeOK, ServerTypeOK
<1> SUFFICES ASSUME NEW o \in channelList', client'[o] = 0
             PROVE  Idle(o)'
  BY DEF IdleInv
<1> USE <1>0 DEF Idle, IdleInv, listVars, channelVars, serverLoopVars
<1>1. CASE Start
  <2>1. /\ o \in Channels /\ o > made /\ channelOps'[o] = {"connect"}
        /\ UNCHANGED <<scq, serverTag>>
    BY <1>1, ServerFacts DEF Start, ListInv, Channels
  <2>2. Fresh(o)
    BY <2>1 DEF FreshInv
  <2> QED
    BY <2>1, <2>2, SameTags DEF Fresh, InHand
<1>2. ASSUME o \in channelList, client'[o] = client[o], channelOps'[o] = channelOps[o],
             scq' = scq, serverTag' \in {serverTag, NoServerTag}
      PROVE  Idle(o)'
  BY <1>2, SameTags, NoTagInHand DEF InHand
<1>3. CASE StopCheckThread \/ CheckJoined
  BY <1>2, <1>3 DEF StopCheckThread, CheckJoined
<1>4. CASE Stopped
  BY <1>4 DEF Stopped
<1>5. ASSUME NEW p \in Channels, NEW op \in ServerOps, NEW ok \in BOOLEAN, Ready(p, op, ok),
             \/ client' = client /\ op # "connect"
             \/ \E s \in Sessions : client' = [client EXCEPT ![p] = s]
      PROVE  Idle(o)'
  <2>1. /\ op \in channelOps[p] /\ channelOps' = [channelOps EXCEPT ![p] = @ \ {op}]
        /\ scq' = scq \cup {<<p, op, ok>>} /\ UNCHANGED <<channelList, serverTag>>
    BY <1>5 DEF Ready
  <2>2. p # o
    BY <1>5, <2>1, ServerFacts
  <2>3. o \in channelList /\ client[o] = 0 /\ channelOps'[o] = channelOps[o]
    BY <1>5, <2>1, <2>2
  <2>4. \A q \in ServerOps : ~Tagged(o, q)'
    BY <2>1, <2>2, <2>3, TagsGrow
  <2> QED
    BY <2>1, <2>3, <2>4 DEF InHand
<1>6. CASE ServerLibrary
  <2>1. PICK p \in Channels : \/ \E s \in Sessions : Match(p, s)
                              \/ ChannelReads(p) \/ ChannelReadFails(p) \/ ChannelDone(p)
                              \/ ChannelWritten(p)
    BY <1>6 DEF ServerLibrary
  <2>2. CASE \E s \in Sessions : Match(p, s)
    BY <1>5, <2>2 DEF Match, ServerOps
  <2>3. CASE ~\E s \in Sessions : Match(p, s)
    BY <1>5, <2>1, <2>3, Readies
  <2> QED
    BY <2>2, <2>3
<1>7. ASSUME NEW t \in scq, TakeTag(t)
      PROVE  Idle(o)'
  <2>1. scq' = scq \ {t} /\ serverTag' = t /\ UNCHANGED <<channelList, client, channelOps>>
    BY <1>7 DEF TakeTag
  <2> QED
    BY <2>1, TagsShrink DEF InHand
<1>8. CASE ServerLoopTest \/ ServerLoopTimeout
  BY <1>2, <1>8 DEF ServerLoopTest, ServerLoopTimeout
<1>9. ASSUME ChannelConnected \/ ChannelReadDone \/ ChannelWriteDone \/ ChannelDisconnect
             \/ ChannelWrite \/ ChannelReadAgain
      PROVE  Idle(o)'
  <2>1. UNCHANGED <<channelList, client>>
    BY <1>9, LoopKeeps DEF ServerLoopStep
  <2>2. \E op \in ServerOps : InHand(Channel, op)
    BY <1>9, InHandFacts DEF ChannelConnected, ChannelReadDone, ChannelWriteDone,
       ChannelDisconnect, ChannelWrite, ChannelReadAgain, Callback, Walking, ServerOps
  <2>3. Channel # o
    BY <2>1, <2>2
  <2>4. channelOps'[o] = channelOps[o]
    BY <1>9, <2>3 DEF ChannelConnected, ChannelReadDone, ChannelWriteDone, ChannelDisconnect,
       ChannelWrite, ChannelReadAgain
  <2>5. scq' = scq /\ serverTag' \in {serverTag, NoServerTag}
    BY <1>9 DEF ChannelConnected, ChannelReadDone, ChannelWriteDone, ChannelDisconnect,
       ChannelWrite, ChannelReadAgain, Callback
  <2> QED
    BY <1>2, <2>1, <2>4, <2>5
<1>10. CASE CheckTest \/ AutoSleep \/ (\E p \in Channels : KeepChannel(p))
  BY <1>2, <1>10 DEF CheckTest, AutoSleep, KeepChannel
<1>11. CASE \E p \in Channels : DeleteChannel(p)
  <2>1. PICK p \in Channels : DeleteChannel(p)
    BY <1>11
  <2>2. /\ channelList' = channelList \ {p} /\ client' = [client EXCEPT ![p] = 0]
        /\ UNCHANGED <<channelOps, scq, serverTag>>
    BY <2>1 DEF DeleteChannel, Forget
  <2> QED
    BY <1>2, <2>2
<1>12. CASE Refill
  <2>1. /\ channelList' = channelList \cup {made + 1} /\ missing > 0 /\ check = "walk"
        /\ channelOps' = [channelOps EXCEPT ![made + 1] = {"connect"}]
        /\ UNCHANGED <<client, scq, serverTag>>
    BY <1>12 DEF Refill
  <2>2. CASE o = made + 1
    <3>1. Serving
      BY <2>1 DEF ListInv, Serving, TypeOK, ServerTypeOK
    <3>2. Fresh(o)
      BY <2>1, <2>2, <3>1, MadeFits, ServerFacts DEF FreshInv
    <3> QED
      BY <2>1, <2>2, <3>1, <3>2, MadeFits, SameTags DEF Fresh, InHand
  <2>3. CASE o # made + 1
    BY <1>2, <2>1, <2>3
  <2> QED
    BY <2>2, <2>3
<1> QED
  BY <1>1, <1>3, <1>4, <1>6, <1>7, <1>8, <1>9, <1>10, <1>11, <1>12
  DEF ServerNext, ServerApi, ServerLoopStep, CheckStep

LEMMA TwoAnswers ==
  ASSUME TypeOK, AnswerInv, NEW s \in Sessions, Handling(s), Writing(s)
  PROVE  sent > 1
<1> DEFINE n == requests[s] + responses[s] + (IF Reading(s) THEN 1 ELSE 0)
<1>1. AnswersOf(s) = n + 1 + 1
  BY DEF AnswersOf
<1>2. requests[s] \in Nat /\ responses[s] \in Nat /\ sent \in Nat /\ AnswersOf(s) <= sent
  BY ServerMessages
<1>3. n \in Nat
  BY <1>2
<1> HIDE DEF n
<1> QED
  BY <1>1, <1>2, <1>3

(* Reads do not meet, by ReadInv; when a Write meets the one before, its   *)
(* call has two answers on the way, so two requests were sent.             *)
LEMMA ServerOverlaps ==
  ASSUME TypeOK, ListInv, FreshInv, ReadInv, AnswerInv, IdleInv, ServerNext, UNCHANGED sent
  PROVE  OverlapsAreWrites'
<1>0. channelOps \in [Channels -> SUBSET ServerOps] /\ Channel \in Channels
      /\ "none" \notin ServerOps /\ serverFault = "none"
  BY InHandFacts DEF TypeOK, ServerTypeOK, ServerOps, ServerNext
<1> SUFFICES ASSUME serverFault' = "two at once"
             PROVE  serverLoop' = "walked" /\ sent > 1
  BY DEF OverlapsAreWrites
<1> USE <1>0
<1>1. CASE ServerApi
  BY <1>1 DEF ServerApi, Start, StopCheckThread, CheckJoined, Stopped
<1>2. CASE ServerLibrary
  BY <1>2, LibraryKeeps
<1>3. CASE ServerLoopTest \/ ServerLoopTimeout \/ (\E t \in scq : TakeTag(t))
  BY <1>3 DEF ServerLoopTest, ServerLoopTimeout, TakeTag
<1>4. CASE ChannelConnected
  <2>1. "read" \in channelOps[Channel] /\ serverTag[2] = "connect"
    BY <1>4 DEF ChannelConnected, Callback, Fault
  <2>2. InHand(Channel, "connect")
    BY <2>1, InHandFacts DEF ServerOps
  <2> QED
    BY <2>1, <2>2 DEF ReadInv, InTurn, Waiting
<1>5. CASE ChannelReadDone \/ ChannelWriteDone \/ ChannelDisconnect
  BY <1>5 DEF ChannelReadDone, ChannelWriteDone, ChannelDisconnect, Fault
<1>6. CASE ChannelReadAgain
  <2>1. "read" \in channelOps[Channel] /\ serverLoop = "walked"
    BY <1>6 DEF ChannelReadAgain, Fault
  <2>2. InHand(Channel, "read")
    BY <2>1, InHandFacts DEF Walking
  <2> QED
    BY <2>1, <2>2 DEF ReadInv, InTurn, ServerOnce
<1>7. CASE ChannelWrite
  <2>1. /\ serverLoop = "walk" /\ serverLoop' = "walked"
        /\ Channel \in channelList /\ "write" \in channelOps[Channel]
    BY <1>7 DEF ChannelWrite, Fault
  <2>2. InHand(Channel, "read") /\ serverTag = <<Channel, "read", TRUE>>
    BY <2>1, InHandFacts, ServerTagParts DEF ReadInv, TagInv, Walking, Channel, TypeOK,
       ServerTypeOK
  <2>3. client[Channel] \in Sessions
    BY <2>1, <2>2 DEF IdleInv, Idle, TypeOK, ServerTypeOK, ServerOps
  <2>4. PICK s \in Sessions : client[Channel] = s
    BY <2>3
  <2>5. Handling(s) /\ Writing(s)
    BY <2>1, <2>2, <2>4 DEF Handling, Writing
  <2>6. sent > 1
    BY <2>5, TwoAnswers
  <2> QED
    BY <2>1, <2>6
<1>8. CASE CheckStep
  BY <1>8 DEF CheckStep, CheckTest, KeepChannel, DeleteChannel, Refill, AutoSleep
<1> QED
  BY <1>1, <1>2, <1>3, <1>4, <1>5, <1>6, <1>7, <1>8 DEF ServerNext, ServerLoopStep

LEMMA ServerCallTypes ==
  ASSUME TypeOK, AnswerInv, AnswerInv', sent' = sent, ServerNext
  PROVE  CallsTypeOK'
<1>0. /\ call \in [Sessions -> {"none", "calling", "open", "ended"}]
      /\ requests \in [Sessions -> 0 .. MaxWrites] /\ responses \in [Sessions -> 0 .. MaxWrites]
      /\ client \in [Channels -> {0} \cup Sessions] /\ MaxWrites \in Nat
  BY ServerFacts DEF TypeOK, CallsTypeOK, ServerTypeOK
<1> USE <1>0 DEF CallsTypeOK, callVars
<1>1. ASSUME UNCHANGED callVars PROVE CallsTypeOK'
  BY <1>1
<1>2. CASE ServerApi
  BY <1>2 DEF ServerApi, Start, StopCheckThread, CheckJoined, Stopped
<1>3. ASSUME NEW o \in Channels, NEW s \in Sessions, Match(o, s)
      PROVE  CallsTypeOK'
  BY <1>3 DEF Match, Place
<1>4. ASSUME NEW o \in Channels, ChannelReads(o)
      PROVE  CallsTypeOK'
  <2>1. /\ client[o] \in Sessions /\ requests[client[o]] > 0
        /\ requests' = [requests EXCEPT ![client[o]] = @ - 1] /\ UNCHANGED <<call, responses>>
    BY <1>4 DEF ChannelReads
  <2>2. requests[client[o]] - 1 \in 0 .. MaxWrites
    BY <2>1
  <2> QED
    BY <2>1, <2>2
<1>5. CASE \E o \in Channels : ChannelReadFails(o) \/ ChannelDone(o)
  BY <1>1, <1>5 DEF ChannelReadFails, ChannelDone
<1>6. ASSUME NEW o \in Channels, ChannelWritten(o)
      PROVE  CallsTypeOK'
  <2>1. /\ UNCHANGED <<client, call, requests>>
        /\ responses' \in {responses, [responses EXCEPT ![client[o]] = @ + 1]}
    BY <1>6 DEF ChannelWritten
  <2>2. responses' \in [Sessions -> Nat]
    BY <2>1
  <2>3. ASSUME NEW s \in Sessions PROVE responses'[s] \in 0 .. MaxWrites
    <3>1. AnswersOf(s)' <= sent' /\ sent' \in Nat /\ sent' <= MaxWrites
      BY ServerMessages, ServerFacts DEF AnswerInv
    <3>2. requests'[s] \in Nat /\ responses'[s] \in Nat
      BY <2>1, <2>2
    <3> QED
      BY <3>1, <3>2 DEF AnswersOf
  <2> QED
    BY <2>1, <2>2, <2>3
<1>7. CASE ServerLoopStep
  BY <1>1, <1>7, LoopKeeps
<1>8. CASE CheckStep
  BY <1>1, <1>8 DEF CheckStep, CheckTest, KeepChannel, DeleteChannel, Refill, AutoSleep
<1> QED
  BY <1>2, <1>3, <1>4, <1>5, <1>6, <1>7, <1>8 DEF ServerNext, ServerLibrary

-----------------------------------------------------------------------------
(* Both sides                                                              *)

LEMMA InitInv == Init => IInv
<1> SUFFICES ASSUME Init PROVE IInv
  OBVIOUS
<1> USE CallsAssumption, RequestsAssumption, ChannelAssumption
<1>1. CallsInit /\ ClientInit /\ ServerInit /\ side \in {"client", "server"}
  BY DEF Init
<1>2. CallsTypeOK
  BY <1>1 DEF CallsInit, CallsTypeOK
<1>3. NoTag \in Tags /\ NoServerTag \in ServerTags
  BY DEF Tags, ServerTags
<1>4. ClientTypeOK
  <2>1. StatesOK /\ QueueOK /\ CountsOK
    <3>1. StatesOK
      BY <1>1 DEF ClientInit, StatesOK
    <3>2. QueueOK
      BY <1>1, <1>3 DEF ClientInit, QueueOK
    <3>3. CountsOK
      BY <1>1 DEF ClientInit, CountsOK
    <3> QED
      BY <3>1, <3>2, <3>3
  <2> QED
    BY <2>1, ClientParts
<1>5. ServerTypeOK
  <2>1. ListOK /\ ChannelsOK /\ ThreadsOK
    <3>1. ListOK
      BY <1>1 DEF ServerInit, ListOK
    <3>2. ChannelsOK
      BY <1>1, <1>3 DEF ServerInit, ChannelsOK
    <3>3. ThreadsOK
      BY <1>1 DEF ServerInit, ThreadsOK
    <3> QED
      BY <3>1, <3>2, <3>3
  <2> QED
    BY <2>1, ServerParts
<1>6. TypeOK
  BY <1>1, <1>2, <1>4, <1>5 DEF TypeOK
<1>7. SideInv
  BY <1>1 DEF SideInv, ClientInit
<1>8. ClientInv
  <2>1. LoopInv /\ EventInv
    BY <1>1 DEF ClientInit, LoopInv, EventInv
  <2>2. OpsInv
    BY <1>1, TagParts DEF ClientInit, OpsInv, Once, InCq, Unconnected
  <2>3. MessageInv
    BY <1>1 DEF CallsInit, ClientInit, MessageInv
  <2> QED
    BY <2>1, <2>2, <2>3 DEF ClientInv
<1>9. ServerInv
  <2>1. \A o \in Channels, op \in ServerOps : ~Tagged(o, op) /\ ~InHand(o, op)
    BY <1>1, ServerTagParts DEF ServerInit, Tagged, InHand, ServerOps
  <2>2. ListInv
    BY <1>1 DEF ServerInit, ListInv, Serving
  <2>3. FreshInv
    BY <1>1, <2>1 DEF ServerInit, FreshInv, Fresh
  <2>4. CallInv
    BY <1>1 DEF ServerInit, CallInv, Served, Serving
  <2>5. EndInv
    BY <1>1, <2>1 DEF ServerInit, EndInv, Ending, ServerOps
  <2>6. ReadInv
    <3>1. TagInv
      BY <1>1 DEF ServerInit, TagInv, Walking
    <3>2. \A o \in Channels : InTurn(o)
      BY <1>1, <2>1 DEF ServerInit, InTurn, ServerOnce, Waiting, ServerOps
    <3> QED
      BY <3>1, <3>2 DEF ReadInv
  <2>7. FaultInv
    BY <1>1 DEF ServerInit, FaultInv
  <2>8. AnswerInv
    <3>1. \A s \in Sessions : ~Reading(s) /\ ~Handling(s) /\ ~Writing(s)
      BY <1>1 DEF ServerInit, Reading, Handling, Writing
    <3> QED
      BY <1>1, <3>1 DEF CallsInit, ClientInit, AnswerInv, AnswersOf
  <2>9. IdleInv /\ OverlapsAreWrites
    BY <1>1 DEF ServerInit, IdleInv, OverlapsAreWrites
  <2> QED
    BY <2>2, <2>3, <2>4, <2>5, <2>6, <2>7, <2>8, <2>9 DEF ServerInv
<1> QED
  BY <1>6, <1>7, <1>8, <1>9 DEF IInv

LEMMA SameClient ==
  ASSUME ClientTypeOK, sent' \in 0 .. MaxWrites,
         UNCHANGED <<userVars, isConnect, clientRunning, loopVars, libVars, eventVars, got, late,
                     clientFault>>
  PROVE  ClientTypeOK'
<1> USE DEF userVars, loopVars, libVars, eventVars
<1>1. StatesOK /\ QueueOK /\ CountsOK
  BY ClientParts
<1>2. StatesOK'
  BY <1>1 DEF StatesOK
<1>3. QueueOK'
  BY <1>1 DEF QueueOK
<1>4. CountsOK'
  BY <1>1 DEF CountsOK
<1> QED
  BY <1>2, <1>3, <1>4, Zenon DEF ClientTypeOK, StatesOK, QueueOK, CountsOK

LEMMA ClientSide ==
  ASSUME IInv, side = "client", UNCHANGED <<serverVars, side>>,
         \/ ClientNext
         \/ (\E s \in Sessions : Take(s) \/ Answer(s) \/ Break(s)) /\ UNCHANGED clientVars
  PROVE  IInv'
<1>1. TypeOK /\ LoopInv /\ EventInv /\ OpsInv /\ MessageInv /\ ServerInit
  BY DEF IInv, ClientInv, SideInv
<1>2. MessageInv' /\ CallsTypeOK'
  BY <1>1, ClientMessages, ClientCalls
<1>3. ServerTypeOK' /\ ServerInit'
  BY <1>1 DEF TypeOK, ServerTypeOK, ServerInit, serverVars, listVars, channelVars, serverLoopVars,
              checkVars
<1>4. CASE ClientNext
  <2>1. LoopInv' /\ EventInv' /\ OpsInv'
    BY <1>1, <1>4, ClientLoop, ClientEvents, ClientOps
  <2>2. ClientTypeOK'
    <3>1. StatesOK' /\ QueueOK' /\ CountsOK'
      BY <1>1, <1>4, StatesStep, QueueStep, CountsStep
    <3> QED
      BY <3>1, Zenon DEF ClientTypeOK, StatesOK, QueueOK, CountsOK
  <2> QED
    BY <1>1, <1>2, <1>3, <2>1, <2>2 DEF IInv, TypeOK, SideInv, ClientInv
<1>5. CASE UNCHANGED clientVars
  <2>1. LoopInv' /\ EventInv'
    BY <1>1, <1>5 DEF LoopInv, EventInv, clientVars, userVars, loopVars, libVars, eventVars
  <2>3. ClientTypeOK'
    BY <1>1, <1>5, SameClient DEF TypeOK, ClientTypeOK, clientVars
  <2>2. OpsInv'
    BY <1>1, <1>5 DEF OpsInv, Once, InCq, Unconnected, clientVars, userVars, loopVars,
       libVars, eventVars
  <2> QED
    BY <1>1, <1>2, <1>3, <2>1, <2>2, <2>3 DEF IInv, TypeOK, SideInv, ClientInv
<1> QED
  BY <1>4, <1>5

LEMMA ServerSide ==
  ASSUME IInv, side = "server", side' = side,
         UNCHANGED <<userVars, isConnect, clientRunning, loopVars, libVars, eventVars, got, late,
                     clientFault>>,
         (ServerNext /\ UNCHANGED sent) \/ PeerStep
  PROVE  IInv'
<1>1. /\ TypeOK /\ SideInv /\ ListInv /\ FreshInv /\ CallInv /\ EndInv /\ ReadInv /\ FaultInv
      /\ AnswerInv /\ IdleInv /\ OverlapsAreWrites
  BY DEF IInv, ServerInv
<1>2. ListInv' /\ FreshInv' /\ CallInv' /\ EndInv' /\ FaultInv'
  <2>1. CASE ServerNext
    BY <1>1, <2>1, ServerList, ServerFresh, ServerCalls, ServerEnds, ServerFaults
  <2>2. CASE PeerStep
    <3>1. ListInv' /\ FreshInv'
      BY <1>1, <2>2, SameTags DEF PeerStep, serverVars, listVars, channelVars, serverLoopVars,
         checkVars, ListInv, Serving, FreshInv, Fresh, InHand
    <3> QED
      BY <1>1, <2>2, <3>1, ServerCalls, ServerEnds, ServerFaults
  <2> QED
    BY <2>1, <2>2
<1>3. ReadInv'
  BY <1>1, ServerTagInv, ServerTurns DEF ReadInv
<1>4. AnswerInv' /\ CallsTypeOK' /\ sent' \in 0 .. MaxWrites
  <2>1. CASE ServerNext /\ UNCHANGED sent
    BY <1>1, <2>1, ServerAnswers, ServerCallTypes DEF TypeOK, ClientTypeOK
  <2>2. CASE PeerStep
    BY <1>1, <2>2, PeerAnswers
  <2> QED
    BY <2>1, <2>2
<1>8. IdleInv' /\ OverlapsAreWrites'
  <2>1. CASE ServerNext /\ UNCHANGED sent
    BY <1>1, <2>1, ServerIdle, ServerOverlaps
  <2>2. CASE PeerStep
    <3>1. IdleInv'
      BY <1>1, <2>2, SameTags DEF PeerStep, serverVars, listVars, channelVars, serverLoopVars,
         IdleInv, Idle, InHand
    <3>2. sent > 1 => sent' > 1
      BY <1>1, <2>2, ServerMessages DEF PeerStep, Call, Send, Break
    <3>3. OverlapsAreWrites'
      BY <1>1, <2>2, <3>2 DEF PeerStep, serverVars, serverLoopVars, OverlapsAreWrites
    <3> QED
      BY <3>1, <3>3
  <2> QED
    BY <2>1, <2>2
<1>5. ServerTypeOK'
  <2>1. ListOK' /\ ChannelsOK' /\ ThreadsOK'
    BY <1>1, ListStep, ChannelsStep, ThreadsStep
  <2> QED
    BY <2>1, Zenon DEF ServerTypeOK, ListOK, ChannelsOK, ThreadsOK
<1>6. ClientTypeOK'
  <2>1. ClientTypeOK
    BY <1>1 DEF TypeOK
  <2> QED
    BY <1>4, <2>1, SameClient DEF ClientTypeOK
<1>7. SideInv'
  BY <1>1 DEF SideInv, userVars, loopVars, libVars, eventVars
<1> QED
  BY <1>2, <1>3, <1>4, <1>5, <1>6, <1>7, <1>8 DEF IInv, TypeOK, ServerInv

LEMMA StepInv == IInv /\ [Next]_vars => IInv'
<1> SUFFICES ASSUME IInv, [Next]_vars PROVE IInv'
  OBVIOUS
<1>1. CASE ClientStep(ClientNext)
  BY <1>1, ClientSide DEF ClientStep
<1>2. CASE ServerStep(ServerNext)
  BY <1>2, ServerSide DEF ServerStep, clientVars
<1>3. CASE PeerServer /\ UNCHANGED <<clientVars, serverVars, side>>
  BY <1>3, ClientSide DEF PeerServer
<1>4. CASE PeerClients /\ UNCHANGED <<serverVars, side>>
  BY <1>4, ServerSide DEF PeerClients, PeerStep
<1>5. CASE UNCHANGED vars
  <2> USE <1>5 DEF vars, clientVars, userVars, loopVars, libVars, eventVars, serverVars, listVars,
                 channelVars, serverLoopVars, checkVars, callVars
  <2>1. CallsTypeOK' /\ ServerTypeOK'
    BY DEF IInv, TypeOK, CallsTypeOK, ServerTypeOK
  <2>2. ClientTypeOK' /\ SideInv'
    <3>1. ClientTypeOK /\ SideInv /\ sent' \in 0 .. MaxWrites
      BY DEF IInv, TypeOK, ClientTypeOK
    <3> QED
      BY <3>1, SameClient DEF SideInv, ServerInit
  <2>3. ClientInv => ClientInv'
    <3>1. LoopInv => LoopInv'
      BY DEF LoopInv
    <3>2. EventInv => EventInv'
      BY DEF EventInv
    <3>3. OpsInv => OpsInv'
      BY DEF OpsInv, Once, InCq, Unconnected
    <3>4. MessageInv => MessageInv'
      BY DEF MessageInv, ReadyReads, ReadsInHand
    <3> QED
      BY <3>1, <3>2, <3>3, <3>4 DEF ClientInv
  <2>4. ServerInv => ServerInv'
    <3>1. ListInv => ListInv'
      BY DEF ListInv, Serving
    <3>2. FreshInv => FreshInv'
      BY DEF FreshInv, Fresh, Tagged, InHand
    <3>3. CallInv => CallInv'
      BY DEF CallInv, Matched, Served, Serving
    <3>4. EndInv => EndInv'
      BY DEF EndInv, Ending, CallEnded, Tagged, InHand
    <3>5. ReadInv => ReadInv'
      BY DEF ReadInv, TagInv, Walking, InTurn, ServerOnce, Waiting, Tagged, InHand
    <3>6. FaultInv => FaultInv'
      BY DEF FaultInv, SomeEnded
    <3>7. AnswerInv => AnswerInv'
      BY DEF AnswerInv, AnswersOf, Reading, Handling, Writing
    <3>8. (IdleInv => IdleInv') /\ (OverlapsAreWrites => OverlapsAreWrites')
      BY DEF IdleInv, Idle, Tagged, InHand, OverlapsAreWrites
    <3> QED
      BY <3>1, <3>2, <3>3, <3>4, <3>5, <3>6, <3>7, <3>8 DEF ServerInv
  <2> QED
    BY <2>1, <2>2, <2>3, <2>4 DEF IInv, TypeOK
<1> QED
  BY <1>1, <1>2, <1>3, <1>4, <1>5 DEF Next

(* Every step keeps the inductive invariant.                               *)
LEMMA Invariant == SafetySpec => []IInv
BY InitInv, StepInv, PTL DEF SafetySpec

LEMMA ReadyReadsCounted ==
  Cardinality({t \in cq : t = <<"read", TRUE>>}) = ReadyReads
<1>1. CASE <<"read", TRUE>> \in cq
  <2>1. {t \in cq : t = <<"read", TRUE>>} = {<<"read", TRUE>>}
    BY <1>1
  <2> QED
    BY <1>1, <2>1, FS_Singleton DEF ReadyReads
<1>2. CASE <<"read", TRUE>> \notin cq
  <2>1. {t \in cq : t = <<"read", TRUE>>} = {}
    BY <1>2
  <2> QED
    BY <1>2, <2>1, FS_EmptySet DEF ReadyReads
<1> QED
  BY <1>1, <1>2

LEMMA ClientSoundInv == IInv => ClientSound
<1> SUFFICES ASSUME IInv PROVE ClientSound
  OBVIOUS
<1>1. TypeOK /\ SideInv
  BY DEF IInv
<1>2. CASE side = "client"
  <2>1. LoopInv /\ EventInv /\ OpsInv /\ MessageInv
    BY <1>2 DEF IInv, ClientInv
  <2>2. EventsTellStatus
    BY <2>1 DEF LoopInv, EventInv, EventsTellStatus
  <2>3. StreamUsedInTurn
    <3>1. ASSUME tag[1] = "read", NEW t \in cq, t[1] = "read"
          PROVE  FALSE
      <4>1. t = <<"read", t[2]>> /\ t[2] \in BOOLEAN
        BY <1>1, <3>1, TagParts DEF TypeOK, ClientTypeOK
      <4>2. InCq("read")
        BY <4>1 DEF InCq
      <4> QED
        BY <2>1, <3>1, <4>2 DEF OpsInv, Once
    <3>2. loop = "read" => tag[1] = "read"
      BY <2>1 DEF LoopInv
    <3> QED
      BY <2>1, <3>1, <3>2 DEF OpsInv, Once, StreamUsedInTurn
  <2>4. AnswersMatch
    <3>1. session > 0 =>
            got + ReadyReads + ReadsInHand + requests[session] + responses[session] <= sent
      BY <2>1 DEF MessageInv
    <3> QED
      BY <3>1, ReadyReadsCounted DEF AnswersMatch, ReadsInHand
  <2> QED
    BY <1>1, <2>2, <2>3, <2>4 DEF ClientSound
<1>3. CASE side = "server"
  <2>1. EventsTellStatus
    BY <1>1, <1>3 DEF SideInv, EventsTellStatus
  <2>2. StreamUsedInTurn
    BY <1>1, <1>3, TagParts DEF SideInv, StreamUsedInTurn
  <2>3. AnswersMatch
    BY <1>3 DEF AnswersMatch
  <2> QED
    BY <1>1, <2>1, <2>2, <2>3 DEF ClientSound
<1> QED
  BY <1>1, <1>2, <1>3 DEF SideInv

(* What the client tells its user is true, of the connection and of every  *)
(* message: no answer is handed up that no request of the same session     *)
(* asked for, and no stream operation overlaps one of its kind.            *)
THEOREM ClientTellsTheTruth == SafetySpec => []ClientSound
BY Invariant, ClientSoundInv, PTL

LEMMA ChannelsInv == IInv => ChannelsKept /\ FaultsNeedAnEnd /\ OverlapsAreWrites
<1> SUFFICES ASSUME IInv PROVE ChannelsKept /\ FaultsNeedAnEnd /\ OverlapsAreWrites
  OBVIOUS
<1>1. TypeOK /\ SideInv
  BY DEF IInv
<1>2. CASE side = "client"
  <2>1. ServerInit
    BY <1>1, <1>2 DEF SideInv
  <2> QED
    BY <2>1 DEF ServerInit, ChannelsKept, FaultsNeedAnEnd, OverlapsAreWrites
<1>3. CASE side = "server"
  <2>1. ListInv /\ ReadInv /\ FaultInv /\ OverlapsAreWrites
    BY <1>3 DEF IInv, ServerInv
  <2>2. ChannelsKept
    BY <2>1 DEF ListInv, Serving, ChannelsKept
  <2>3. ASSUME NEW t \in scq, t[2] = "read"
        PROVE  "read" \notin channelOps[t[1]]
    <3>1. t = <<t[1], "read", t[3]>> /\ (t[3] \in BOOLEAN) /\ t[1] \in Channels
      BY <1>1, <2>3, ServerTagParts DEF TypeOK, ServerTypeOK
    <3>2. Tagged(t[1], "read")
      BY <3>1 DEF Tagged
    <3> QED
      BY <2>1, <3>1, <3>2 DEF ReadInv, InTurn, ServerOnce
  <2> QED
    BY <2>1, <2>2, <2>3 DEF FaultInv, SomeEnded, FaultsNeedAnEnd
<1> QED
  BY <1>1, <1>2, <1>3 DEF SideInv

LEMMA DeletesStep ==
  ASSUME IInv, [Next]_vars, NEW o \in freed' \ freed
  PROVE  serverApi' = "stopped" \/ (client[o] # 0 /\ call[client[o]] = "ended")
<1>1. ServerStep(ServerNext)
  BY DEF Next, vars, ClientStep, PeerServer, PeerClients, serverVars, listVars
<1>2. TypeOK /\ ListInv /\ EndInv
  BY <1>1 DEF IInv, ServerInv, ServerStep
<1>3. CASE Stopped
  BY <1>3 DEF Stopped
<1>4. CASE ~Stopped
  <2>1. PICK p \in Channels : DeleteChannel(p)
    BY <1>1, <1>4, LibraryKeeps, LoopKeeps DEF ServerStep, ServerNext, ServerApi, CheckStep, Start,
       StopCheckThread, CheckJoined, CheckTest, KeepChannel, Refill, AutoSleep, listVars
  <2>2. status[p] = "disconnect" /\ p \in channelList /\ o = p
    BY <1>2, <2>1 DEF DeleteChannel, Forget, TypeOK, ServerTypeOK
  <2> QED
    BY <1>2, <2>2 DEF ListInv, EndInv, Ending, CallEnded
<1> QED
  BY <1>3, <1>4

(* The server keeps all its channels, deletes one only when its call has   *)
(* ended, and while no call has ended touches nothing that is deleted; no  *)
(* two operations meet but Writes, where a client asks again too early.    *)
THEOREM ServerKeepsItsChannels == SafetySpec => ChannelsSound
<1>1. IInv /\ [Next]_vars =>
        [\A o \in freed' \ freed :
           serverApi' = "stopped" \/ (client[o] # 0 /\ call[client[o]] = "ended")]_serverVars
  BY DeletesStep
<1> QED
  BY <1>1, Invariant, ChannelsInv, PTL DEF SafetySpec, ChannelsSound, DeletesOnlyEnded
=============================================================================
