-------------------------- MODULE OTcpServerProofs --------------------------
(***************************************************************************)
(* For any number of clients, addresses, users, Starts and Stops: what is  *)
(* listed is connected, nothing freed is used until Stop is called, and    *)
(* the first callback gets its own context.                                *)
(***************************************************************************)
EXTENDS OTcpServer, TLAPS

InLoop == {"loop", "add", "read", "context", "call", "delete", "free"}
Busy == InLoop \ {"loop"}

(* A base is dispatched by one thread at a time, and only that thread      *)
(* handles the bufferevents made with it.                                  *)
LoopInv ==
  /\ \A d \in Threads : loopBase[d] # 0 <=> dispatch[d] \in InLoop
  /\ \A d, e \in Threads : loopBase[d] = loopBase[e] /\ loopBase[d] # 0 => d = e
  /\ \A d \in Threads : dispatch[d] \in Busy =>
       handle[d] \in Addresses /\ live[handle[d]] # 0 /\ baseOf[handle[d]] = loopBase[d]

(* The map has the clients that are connected, but for those the loop is   *)
(* just adding or freeing; and a sender's client stays in the map.         *)
MapInv ==
  /\ \A a \in Addresses : live[a] # 0 =>
       \/ clientMap[a] # 0
       \/ \E d \in Threads : dispatch[d] \in {"add", "free"} /\ handle[d] = a
  /\ \A d \in Threads : dispatch[d] = "free" => clientMap[handle[d]] = 0
  /\ \A u \in Users : user[u] = "found" => target[u] \in Addresses /\ clientMap[target[u]] # 0

(* The threads of Starts to come, and of one under way, do not run yet.    *)
StartInv ==
  /\ api \in {"bind", "run"} => starts # 0 /\ dispatch[starts] = "none"
  /\ \A d \in Threads : d > starts => dispatch[d] = "none"

(* Before the first Stop the server is started once, and everything that   *)
(* runs or is connected belongs to that Start's base.                      *)
FirstInv ==
  stops = 0 =>
    /\ api # "stop"
    /\ (api = "bind" => ~listener) /\ (api = "run" => listener)
    /\ api \in {"bind", "run"} \/ listener => base # 0
    /\ ~listener \/ api = "run" => \A d \in Threads : dispatch[d] = "none"
    /\ ~listener => \A a \in Addresses : live[a] = 0
    /\ \A a \in Addresses : live[a] # 0 => baseOf[a] = base

(* A callback is set after its context, and never unset.                   *)
CallbackInv ==
  /\ context = sets
  /\ \A d \in Threads : function[d] <= sets /\ (function[d] # 0 => callback # 0)
  /\ \A d \in Threads : dispatch[d] = "context" => function[d] # 0

IInv == ClientsSound /\ LoopInv /\ MapInv /\ StartInv /\ FirstInv /\ CallbackInv

-----------------------------------------------------------------------------
LEMMA InitInv == Init => IInv
<1> SUFFICES ASSUME Init PROVE IInv
  OBVIOUS
<1> USE BoundsAssumption DEF Init
<1>1. TypeOK
  <2>1. /\ base \in 0 .. starts /\ starts \in 0 .. MaxStarts /\ stops \in Nat
        /\ clients \in 0 .. MaxClients /\ sets \in 0 .. MaxSets
        /\ callback \in 0 .. sets /\ context \in 0 .. sets
        /\ called \in (0 .. MaxSets) \X (0 .. MaxSets)
    OBVIOUS
  <2>2. /\ loopBase \in [Threads -> 0 .. MaxStarts] /\ function \in [Threads -> 0 .. MaxSets]
        /\ live \in [Addresses -> 0 .. clients] /\ clientMap \in [Addresses -> 0 .. clients]
        /\ baseOf \in [Addresses -> 0 .. MaxStarts]
    OBVIOUS
  <2> QED
    BY <2>1, <2>2 DEF TypeOK
<1>2. OnlyStopBreaks /\ ListedAreConnected /\ FirstCallbackWhole
  BY DEF OnlyStopBreaks, ListedAreConnected, FirstCallbackWhole
<1>3. LoopInv /\ MapInv /\ StartInv /\ FirstInv /\ CallbackInv
  BY DEF LoopInv, MapInv, StartInv, FirstInv, CallbackInv, InLoop, Busy
<1> QED
  BY <1>1, <1>2, <1>3 DEF IInv, ClientsSound

LEMMA TypeInv == IInv /\ [Next]_vars => TypeOK'
<1> SUFFICES ASSUME IInv, [Next]_vars PROVE TypeOK'
  OBVIOUS
<1> USE BoundsAssumption DEF IInv, ClientsSound, TypeOK
<1>1. CASE ApiNext
  <2>1. CASE Start
    BY <2>1 DEF Start, loopVars, clientVars, callVars, userVars
  <2>2. CASE StartListener
    BY <2>2 DEF StartListener, loopVars, clientVars, callVars, userVars
  <2>3. CASE StartDispatchThread
    <3>1. isRunning' \in BOOLEAN /\ starts \in Threads
      BY <2>3 DEF StartDispatchThread, StartInv, Threads
    <3> QED
      BY <2>3, <3>1 DEF StartDispatchThread, clientVars, callVars, userVars
  <2>4. CASE StopDispatchThread
    <3>1. isRunning' \in BOOLEAN
      BY <2>4, Zenon DEF StopDispatchThread
    <3>2. stops + 1 \in Nat
      OBVIOUS
    <3> QED
      BY <2>4, <3>1, <3>2 DEF StopDispatchThread, loopVars, clientVars, callVars, userVars
  <2>5. CASE StopFree
    <3>1. broken' \in BOOLEAN /\ listener' \in BOOLEAN
      BY <2>5, Zenon DEF StopFree
    <3>2. base' \in 0 .. starts' /\ starts' = starts
      BY <2>5 DEF StopFree
    <3> QED
      BY <2>5, <3>1, <3>2 DEF StopFree, loopVars, clientVars, callVars, userVars
  <2> QED
    BY <1>1, <2>1, <2>2, <2>3, <2>4, <2>5 DEF ApiNext
<1>2. ASSUME NEW d \in Threads, DispatchNext(d) PROVE TypeOK'
  <2> USE DEF DGo, Forget, serverVars, clientVars, callVars, userVars
  <2>1. CASE DispatchTest(d) \/ Slept(d)
    BY <2>1 DEF DispatchTest, Slept
  <2>2. CASE Dispatch(d)
    BY <2>2 DEF Dispatch
  <2>3. CASE AddClient(d)
    <3>1. handle[d] \in Addresses
      BY <2>3 DEF AddClient, LoopInv, Busy, InLoop
    <3> QED
      BY <2>3, <3>1 DEF AddClient
  <2>4. CASE OnMsgCallback(d) \/ CalledBack(d)
    BY <2>4 DEF OnMsgCallback, CalledBack
  <2>5. CASE CallBack(d)
    <3>1. handle[d] \in Addresses
      BY <2>5 DEF CallBack, LoopInv, Busy, InLoop
    <3> QED
      BY <2>5, <3>1 DEF CallBack
  <2>6. CASE DeleteClient(d) \/ FreeClient(d)
    BY <2>6 DEF DeleteClient, FreeClient
  <2>7. CASE AcceptFails(d)
    BY <2>7 DEF AcceptFails
  <2>8. ASSUME NEW a \in Addresses, Accept(d, a) PROVE TypeOK'
    <3>1. clients + 1 \in 0 .. MaxClients
      BY <2>8 DEF Accept
    <3>2. live' \in [Addresses -> 0 .. clients'] /\ clientMap' \in [Addresses -> 0 .. clients']
      BY <2>8, <3>1 DEF Accept
    <3> QED
      BY <2>8, <3>1, <3>2 DEF Accept
  <2>9. ASSUME NEW a \in Addresses, Read(d, a) \/ Event(d, a) PROVE TypeOK'
    BY <2>9 DEF Read, Event
  <2> QED
    BY <1>2, <2>1, <2>2, <2>3, <2>4, <2>5, <2>6, <2>7, <2>8, <2>9 DEF DispatchNext, ThreadStep
<1>3. ASSUME NEW u \in Users, UserNext(u) PROVE TypeOK'
  <2> USE DEF UGo, serverVars, loopVars, clientVars, callVars
  <2>1. CASE Write(u)
    BY <2>1 DEF Write
  <2>2. CASE SetMsgCallback(u)
    BY <2>2 DEF SetMsgCallback
  <2>3. CASE MsgCallbackSet(u)
    BY <2>3 DEF MsgCallbackSet
  <2>4. ASSUME NEW a \in Addresses, SendMsg(u, a) PROVE TypeOK'
    BY <2>4 DEF SendMsg
  <2> QED
    BY <1>3, <2>1, <2>2, <2>3, <2>4 DEF UserNext
<1>4. CASE UNCHANGED vars
  BY <1>4 DEF vars, serverVars, loopVars, clientVars, callVars, userVars
<1> QED
  BY <1>1, <1>2, <1>3, <1>4 DEF Next

(* A step of main, or of a user, leaves the loops and the clients alone,   *)
(* but for the thread a Start creates, which is in no loop.                *)
LEMMA Others ==
  ASSUME IInv, ApiNext \/ \E u \in Users : UserNext(u)
  PROVE  /\ loopBase' = loopBase /\ handle' = handle /\ function' = function
         /\ live' = live /\ baseOf' = baseOf /\ clientMap' = clientMap
         /\ \A d \in Threads : \/ dispatch'[d] = dispatch[d]
                               \/ dispatch[d] \notin InLoop /\ dispatch'[d] \in {"none", "test"}
<1> USE DEF IInv, loopVars, clientVars
<1>1. CASE StartDispatchThread
  BY <1>1 DEF StartDispatchThread, StartInv, InLoop, ClientsSound, TypeOK, Threads
<1>2. CASE Start \/ StartListener \/ StopDispatchThread \/ StopFree
  BY <1>2 DEF Start, StartListener, StopDispatchThread, StopFree
<1>3. CASE \E u \in Users : UserNext(u)
  BY <1>3 DEF UserNext, Write, SetMsgCallback, MsgCallbackSet, SendMsg
<1> QED
  BY <1>1, <1>2, <1>3 DEF ApiNext

(* A bufferevent is in the hands of at most one thread: the one that       *)
(* dispatches its base.                                                    *)
LEMMA Alone ==
  ASSUME IInv, NEW d \in Threads, NEW e \in Threads, NEW a \in Addresses,
         dispatch[d] \in InLoop, dispatch[e] \in Busy, handle[e] = a, baseOf[a] = loopBase[d]
  PROVE  d = e
<1>1. loopBase[d] # 0 /\ loopBase[e] = loopBase[d]
  BY DEF IInv, LoopInv
<1> QED
  BY <1>1 DEF IInv, LoopInv

LEMMA LoopSteps ==
  ASSUME IInv, NEW d \in Threads, DispatchNext(d)
  PROVE  LoopInv'
<1> USE DEF IInv, LoopInv, InLoop, Busy, ClientsSound, TypeOK, DGo, Forget
<1>1. CASE DispatchTest(d) \/ Slept(d) \/ AcceptFails(d)
  BY <1>1 DEF DispatchTest, Slept, AcceptFails, clientVars, serverVars
<1>2. CASE Dispatch(d)
  <2>1. loopBase[d] = 0
    BY <1>2 DEF Dispatch
  <2>2. CASE \E e \in Threads : loopBase[e] = base
    BY <1>2, <2>1, <2>2 DEF Dispatch, clientVars
  <2>3. CASE ~\E e \in Threads : loopBase[e] = base
    <3>1. base # 0 /\ base \in 0 .. MaxStarts
      BY <2>1, <2>3, BoundsAssumption
    <3>2. loopBase' = [loopBase EXCEPT ![d] = base] /\ dispatch' = [dispatch EXCEPT ![d] = "loop"]
      BY <1>2, <2>3 DEF Dispatch
    <3> QED
      BY <1>2, <2>1, <2>3, <3>1, <3>2 DEF Dispatch, clientVars
  <2> QED
    BY <2>2, <2>3
<1>3. CASE OnMsgCallback(d) \/ CallBack(d) \/ CalledBack(d) \/ AddClient(d) \/ DeleteClient(d)
  BY <1>3 DEF OnMsgCallback, CallBack, CalledBack, AddClient, DeleteClient, clientVars
<1>4. CASE FreeClient(d)
  <2>1. \A e \in Threads : dispatch[e] \in Busy /\ e # d => handle[e] # handle[d]
    <3> SUFFICES ASSUME NEW e \in Threads, dispatch[e] \in Busy, handle[e] = handle[d] PROVE d = e
      OBVIOUS
    <3> QED
      BY <1>4, Alone DEF FreeClient
  <2> QED
    BY <1>4, <2>1 DEF FreeClient
<1>5. ASSUME NEW a \in Addresses, Accept(d, a) PROVE LoopInv'
  <2>1. clients + 1 # 0
    BY BoundsAssumption
  <2>2. \A e \in Threads : dispatch[e] \in Busy => handle[e] # a
    BY <1>5 DEF Accept
  <2> QED
    BY <1>5, <2>1, <2>2 DEF Accept
<1>6. ASSUME NEW a \in Addresses, Read(d, a) \/ Event(d, a) PROVE LoopInv'
  BY <1>6 DEF Read, Event, clientVars
<1> QED
  BY <1>1, <1>2, <1>3, <1>4, <1>5, <1>6 DEF DispatchNext, ThreadStep

LEMMA MapSteps ==
  ASSUME IInv, NEW d \in Threads, DispatchNext(d)
  PROVE  MapInv' /\ ListedAreConnected'
<1> USE DEF IInv, MapInv, ListedAreConnected, InLoop, Busy, ClientsSound, TypeOK, DGo, Forget
<1>0. /\ dispatch[d] \in Busy => handle[d] \in Addresses /\ live[handle[d]] # 0
      /\ \A e \in Threads : dispatch[d] \in Busy /\ dispatch[e] \in Busy /\ e # d => handle[e] # handle[d]
  <2> SUFFICES ASSUME NEW e \in Threads, dispatch[d] \in Busy, dispatch[e] \in Busy, handle[e] = handle[d]
               PROVE  d = e
    BY DEF LoopInv
  <2> QED
    BY Alone DEF LoopInv
<1>1. CASE DispatchTest(d) \/ Slept(d) \/ AcceptFails(d) \/ Dispatch(d)
  BY <1>1 DEF DispatchTest, Slept, AcceptFails, Dispatch, clientVars, userVars
<1>2. CASE OnMsgCallback(d) \/ CallBack(d) \/ CalledBack(d)
  BY <1>2 DEF OnMsgCallback, CallBack, CalledBack, clientVars, userVars
<1>3. CASE AddClient(d)
  BY <1>0, <1>3 DEF AddClient, userVars
<1>4. CASE DeleteClient(d)
  <2>1. \A u \in Users : user[u] # "found"
    BY <1>4, BoundsAssumption DEF DeleteClient
  <2> QED
    BY <1>0, <1>4, <2>1 DEF DeleteClient, userVars
<1>5. CASE FreeClient(d)
  BY <1>0, <1>5 DEF FreeClient, userVars
<1>6. ASSUME NEW a \in Addresses, Accept(d, a) PROVE MapInv' /\ ListedAreConnected'
  <2>1. clients + 1 # 0 /\ clientMap[a] = 0
    BY <1>6, BoundsAssumption DEF Accept
  <2>2. \A e \in Threads : dispatch[e] \in Busy => handle[e] # a
    BY <1>6 DEF Accept, LoopInv
  <2> QED
    BY <1>6, <2>1, <2>2 DEF Accept, userVars
<1>7. ASSUME NEW a \in Addresses, Read(d, a) \/ Event(d, a) PROVE MapInv' /\ ListedAreConnected'
  <2>1. dispatch[d] = "loop" /\ live[a] # 0 /\ baseOf[a] = loopBase[d]
    BY <1>7 DEF Read, Event
  <2>2. \A e \in Threads : dispatch[e] \in Busy => handle[e] # a
    BY <2>1, Alone
  <2>3. clientMap[a] # 0
    BY <2>1, <2>2
  <2> QED
    BY <1>7, <2>1, <2>2, <2>3 DEF Read, Event, clientVars, userVars
<1> QED
  BY <1>1, <1>2, <1>3, <1>4, <1>5, <1>6, <1>7 DEF DispatchNext, ThreadStep

(* Main and the users leave LoopInv and MapInv alone, but for the client a *)
(* sender found and the mutex it holds.                                    *)
LEMMA OtherSteps ==
  ASSUME IInv, ApiNext \/ \E u \in Users : UserNext(u)
  PROVE  LoopInv' /\ MapInv' /\ ListedAreConnected'
<1>1. LoopInv' /\ ListedAreConnected'
  BY Others DEF IInv, LoopInv, ListedAreConnected, ClientsSound, InLoop, Busy
<1>2. /\ \A a \in Addresses : live'[a] # 0 =>
           \/ clientMap'[a] # 0
           \/ \E d \in Threads : dispatch'[d] \in {"add", "free"} /\ handle'[d] = a
      /\ \A d \in Threads : dispatch'[d] = "free" => clientMap'[handle'[d]] = 0
  BY Others DEF IInv, MapInv, InLoop
<1>3. \A v \in Users : user'[v] = "found" => target'[v] \in Addresses /\ clientMap'[target'[v]] # 0
  <2> USE DEF IInv, MapInv, ClientsSound, TypeOK
  <2>1. CASE ApiNext
    BY <2>1, Others DEF ApiNext, Start, StartListener, StartDispatchThread, StopDispatchThread,
                        StopFree, userVars
  <2>2. ASSUME NEW u \in Users, UserNext(u)
        PROVE  \A v \in Users : user'[v] = "found" => target'[v] \in Addresses /\ clientMap'[target'[v]] # 0
    <3>1. CASE Write(u) \/ SetMsgCallback(u) \/ MsgCallbackSet(u)
      BY <2>2, <3>1, Others DEF Write, SetMsgCallback, MsgCallbackSet, UGo
    <3>2. ASSUME NEW a \in Addresses, SendMsg(u, a)
          PROVE  \A v \in Users : user'[v] = "found" => target'[v] \in Addresses /\ clientMap'[target'[v]] # 0
      BY <2>2, <3>2, Others DEF SendMsg, UGo
    <3> QED
      BY <2>2, <3>1, <3>2 DEF UserNext
  <2> QED
    BY <2>1, <2>2
<1> QED
  BY <1>1, <1>2, <1>3 DEF MapInv

(* A dispatch thread moves no other thread, and none that has ended.       *)
LEMMA OneThread ==
  ASSUME IInv, NEW d \in Threads, DispatchNext(d)
  PROVE  /\ UNCHANGED serverVars /\ dispatch[d] # "none"
         /\ \A e \in Threads : e # d => dispatch'[e] = dispatch[e]
<1> USE DEF DGo, IInv, ClientsSound, TypeOK
<1>1. CASE ThreadStep(d)
  BY <1>1 DEF ThreadStep, DispatchTest, Dispatch, AddClient, Slept, OnMsgCallback, CallBack, CalledBack,
              DeleteClient, FreeClient
<1>2. CASE AcceptFails(d)
  BY <1>2 DEF AcceptFails
<1>3. ASSUME NEW a \in Addresses, Accept(d, a) \/ Read(d, a) \/ Event(d, a)
      PROVE  /\ UNCHANGED serverVars /\ dispatch[d] # "none"
             /\ \A e \in Threads : e # d => dispatch'[e] = dispatch[e]
  BY <1>3 DEF Accept, Read, Event
<1> QED
  BY <1>1, <1>2, <1>3 DEF DispatchNext

LEMMA StartSteps == IInv /\ Next => StartInv'
<1> SUFFICES ASSUME IInv, Next PROVE StartInv'
  OBVIOUS
<1> USE BoundsAssumption DEF IInv, StartInv, ClientsSound, TypeOK
<1>1. CASE Start
  <2>1. starts + 1 \in Threads /\ starts + 1 # 0 /\ starts + 1 > starts
    BY <1>1 DEF Start, Threads
  <2>2. dispatch' = dispatch /\ starts' = starts + 1
    BY <1>1 DEF Start, loopVars
  <2>3. \A e \in Threads : e > starts + 1 => e > starts
    BY DEF Threads
  <2> QED
    BY <2>1, <2>2, <2>3
<1>2. CASE StartListener \/ StopDispatchThread \/ StopFree
  <2>1. UNCHANGED <<dispatch, starts>> /\ (api' = "run" => api = "bind") /\ api' # "bind"
    BY <1>2 DEF StartListener, StopDispatchThread, StopFree, loopVars
  <2> QED
    BY <2>1
<1>3. CASE StartDispatchThread
  <2>1. \A e \in Threads : e > starts => e # starts
    BY DEF Threads
  <2> QED
    BY <1>3, <2>1 DEF StartDispatchThread
<1>4. ASSUME NEW d \in Threads, DispatchNext(d) PROVE StartInv'
  <2>1. api' = api /\ starts' = starts
    BY <1>4, OneThread DEF serverVars
  <2>2. \A e \in Threads : dispatch[e] = "none" => dispatch'[e] = "none"
    BY <1>4, OneThread
  <2>3. api \in {"bind", "run"} => starts \in Threads
    BY DEF Threads
  <2> QED
    BY <2>1, <2>2, <2>3
<1>5. ASSUME NEW u \in Users, UserNext(u) PROVE StartInv'
  <2>1. UNCHANGED <<serverVars, dispatch>>
    BY <1>5 DEF UserNext, Write, SetMsgCallback, MsgCallbackSet, SendMsg, loopVars
  <2> QED
    BY <2>1 DEF serverVars
<1> QED
  BY <1>1, <1>2, <1>3, <1>4, <1>5 DEF Next, ApiNext

(* Until Stop is called all bufferevents belong to the one base, so neither *)
(* a dispatch thread nor a sender uses one that is freed.                   *)
LEMMA FirstSteps == IInv /\ Next => FirstInv' /\ OnlyStopBreaks'
<1> SUFFICES ASSUME IInv, Next PROVE FirstInv' /\ OnlyStopBreaks'
  OBVIOUS
<1> USE BoundsAssumption DEF IInv, FirstInv, OnlyStopBreaks, ClientsSound, TypeOK, loopVars, serverVars,
                             clientVars
<1>0. ~broken
  BY DEF Next
<1>1. CASE ApiNext
  <2>1. CASE Start
    BY <1>0, <2>1 DEF Start
  <2>2. CASE StartListener
    BY <1>0, <2>2 DEF StartListener
  <2>3. CASE StartDispatchThread
    <3>1. /\ api' = "idle" /\ UNCHANGED <<listener, base, stops, live, baseOf, broken>>
          /\ stops = 0 => listener
      BY <2>3 DEF StartDispatchThread
    <3> QED
      BY <1>0, <3>1
  <2>4. CASE StopDispatchThread
    <3>1. stops' > 0 /\ stops' # 0
      BY <2>4 DEF StopDispatchThread
    <3> QED
      BY <3>1
  <2>5. CASE StopFree
    <3>1. stops' > 0 /\ stops' # 0
      BY <2>5 DEF StopFree
    <3> QED
      BY <3>1
  <2> QED
    BY <1>1, <2>1, <2>2, <2>3, <2>4, <2>5 DEF ApiNext
<1>2. ASSUME NEW d \in Threads, DispatchNext(d) PROVE FirstInv' /\ OnlyStopBreaks'
  <2> USE DEF DGo
  <2>0. dispatch[d] # "none" /\ UNCHANGED serverVars
    BY <1>2 DEF DispatchNext, ThreadStep, DispatchTest, Dispatch, AddClient, Slept,
       OnMsgCallback, CallBack, CalledBack, DeleteClient, FreeClient, AcceptFails, Accept, Read, Event
  <2>1. CASE stops = 0
    <3>1. listener /\ api # "run" /\ base # 0
      BY <2>0, <2>1
    <3>2. ~broken'
      BY <1>0, <1>2, <3>1 DEF DispatchNext, ThreadStep, DispatchTest, Dispatch, AddClient, Slept,
       OnMsgCallback, CallBack, CalledBack, DeleteClient, FreeClient, AcceptFails, Accept, Read, Event
    <3>3. \A a \in Addresses : live'[a] # 0 => baseOf'[a] = base
      <4>1. CASE FreeClient(d)
        BY <2>1, <4>1 DEF FreeClient
      <4>2. ASSUME NEW a \in Addresses, Accept(d, a)
            PROVE  \A b \in Addresses : live'[b] # 0 => baseOf'[b] = base
        BY <2>1, <4>2 DEF Accept
      <4>3. CASE UNCHANGED <<live, baseOf>>
        BY <2>1, <4>3
      <4> QED
        BY <1>2, <4>1, <4>2, <4>3 DEF DispatchNext, ThreadStep, DispatchTest, Dispatch, AddClient,
           Slept, OnMsgCallback, CallBack, CalledBack, DeleteClient, AcceptFails, Read, Event
    <3> QED
      BY <2>0, <2>1, <3>1, <3>2, <3>3
  <2>2. CASE stops > 0
    BY <2>0, <2>2
  <2> QED
    BY <2>1, <2>2
<1>3. ASSUME NEW u \in Users, UserNext(u) PROVE FirstInv' /\ OnlyStopBreaks'
  <2>1. CASE Write(u)
    <3>1. target[u] \in Addresses /\ live[target[u]] # 0
      BY <2>1 DEF Write, UGo, MapInv, ListedAreConnected
    <3> QED
      BY <1>0, <2>1, <3>1 DEF Write
  <2>2. CASE SetMsgCallback(u) \/ MsgCallbackSet(u) \/ \E a \in Addresses : SendMsg(u, a)
    BY <1>0, <2>2 DEF SetMsgCallback, MsgCallbackSet, SendMsg
  <2> QED
    BY <1>3, <2>1, <2>2 DEF UserNext
<1> QED
  BY <1>1, <1>2, <1>3 DEF Next

LEMMA CallbackSteps == IInv /\ Next => CallbackInv' /\ FirstCallbackWhole'
<1> SUFFICES ASSUME IInv, Next PROVE CallbackInv' /\ FirstCallbackWhole'
  OBVIOUS
<1> USE BoundsAssumption DEF IInv, CallbackInv, FirstCallbackWhole, ClientsSound, TypeOK
<1>1. CASE ApiNext
  BY <1>1, Others DEF ApiNext, Start, StartListener, StartDispatchThread, StopDispatchThread, StopFree,
                      callVars, InLoop
<1>2. ASSUME NEW d \in Threads, DispatchNext(d) PROVE CallbackInv' /\ FirstCallbackWhole'
  <2> USE DEF DGo, callVars
  <2>1. CASE CallBack(d)
    <3>1. PICK f \in {function[d], callback} : called' = <<f, context>>
      BY <2>1 DEF CallBack
    <3>2. sets <= 1 => f = sets
      BY <2>1 DEF CallBack
    <3> QED
      BY <2>1, <3>1, <3>2 DEF CallBack
  <2>2. CASE OnMsgCallback(d)
    BY <2>2 DEF OnMsgCallback
  <2>3. CASE UNCHANGED <<function, called>> /\ ~CallBack(d) /\ ~OnMsgCallback(d)
    BY <1>2, <2>3 DEF DispatchNext, ThreadStep, DispatchTest, Dispatch, AddClient, Slept, CalledBack,
       DeleteClient, FreeClient, AcceptFails, Accept, Read, Event
  <2> QED
    BY <1>2, <2>1, <2>2, <2>3 DEF DispatchNext, ThreadStep, DispatchTest, Dispatch, AddClient, Slept,
       CalledBack, DeleteClient, FreeClient, AcceptFails, Accept, Read, Event
<1>3. ASSUME NEW u \in Users, UserNext(u) PROVE CallbackInv' /\ FirstCallbackWhole'
  BY <1>3 DEF UserNext, UGo, Write, SetMsgCallback, MsgCallbackSet, SendMsg, loopVars, callVars
<1> QED
  BY <1>1, <1>2, <1>3 DEF Next

-----------------------------------------------------------------------------
(* The invariant is inductive.                                             *)
THEOREM Inductive == SafetySpec => []IInv
<1>1. IInv /\ [Next]_vars => IInv'
  <2> SUFFICES ASSUME IInv, [Next]_vars PROVE IInv'
    OBVIOUS
  <2>1. CASE Next
    <3>1. LoopInv' /\ MapInv' /\ ListedAreConnected'
      BY <2>1, LoopSteps, MapSteps, OtherSteps DEF Next
    <3> QED
      BY <2>1, <3>1, TypeInv, StartSteps, FirstSteps, CallbackSteps DEF IInv, ClientsSound
  <2>2. CASE UNCHANGED vars
    <3>1. LoopInv' /\ MapInv' /\ StartInv' /\ FirstInv' /\ CallbackInv'
      BY <2>2 DEF IInv, LoopInv, MapInv, StartInv, FirstInv, CallbackInv, vars, serverVars, loopVars,
                  clientVars, callVars, userVars
    <3>2. OnlyStopBreaks' /\ ListedAreConnected' /\ FirstCallbackWhole'
      BY <2>2 DEF IInv, ClientsSound, OnlyStopBreaks, ListedAreConnected, FirstCallbackWhole, vars,
                  serverVars, loopVars, clientVars, callVars
    <3> QED
      BY <2>2, <3>1, <3>2, TypeInv DEF IInv, ClientsSound
  <2> QED
    BY <2>1, <2>2
<1> QED
  BY <1>1, InitInv, PTL DEF SafetySpec

(* However many clients come and go at however few addresses, the map and  *)
(* the callback meet only clients that are connected, nothing freed is     *)
(* used before Stop, and the first callback gets its own context.          *)
THEOREM ClientsAreSound == Spec => []ClientsSound
<1>1. IInv => ClientsSound
  BY DEF IInv
<1> QED
  BY <1>1, Inductive, PTL DEF Spec
=============================================================================
