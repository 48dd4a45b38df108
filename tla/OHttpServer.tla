---------------------------- MODULE OHttpServer ----------------------------
(***************************************************************************)
(* OHttpServer of http/OHttpServer.cpp: the list of listeners and the URL  *)
(* handlers, of which the server and every processor keep a map of their   *)
(* own.  One thread calls Start, Stop, Add and Delete, as OHttpService     *)
(* does; the processor threads look handlers up, without a lock, and call  *)
(* them.  How a request reaches a processor is OHttpListener's matter.     *)
(***************************************************************************)
EXTENDS Naturals

CONSTANTS
  Urls,
  Handlers,        \* the OHttpHandlerBase objects the caller creates
  UrlOf,           \* GetUrlPath of each handler
  NoHandler,       \* NULL
  NumListeners,    \* arguments of Start
  NumProcessors    \* processors per listener

ASSUME HandlersAssumption == UrlOf \in [Handlers -> Urls] /\ NoHandler \notin Handlers
ASSUME CountsAssumption == NumListeners \in Nat \ {0} /\ NumProcessors \in Nat \ {0}

(* The processors of all listeners, in the order the lists are walked.     *)
Processors == 1 .. NumListeners * NumProcessors
Group(l) == (l - 1) * NumProcessors + 1 .. l * NumProcessors

VARIABLES
  api,             \* where the calling thread is
  arg,             \* the handler it adds or the URL it deletes
  at,              \* its position in the processors or the listeners
  urlHandlerMap,   \* m_urlHandlerMap of the server
  listening,       \* size of m_httpListenerList
  registered,      \* m_urlHandlerMap of each processor
  serving,         \* the handler each processor thread has in hand
  deleted,         \* the handlers Delete has freed
  kept             \* history: the orders of calls kept to so far

vars == <<api, arg, at, urlHandlerMap, listening, registered, serving, deleted, kept>>

ApiStates == {"idle", "add", "insert", "delete", "erase", "stop", "restart", "start"}
Empty == [u \in Urls |-> NoHandler]
Listed == 1 .. listening * NumProcessors
Up == listening = NumListeners

(* The orders in which the code and its comments make the calls:           *)
(* "service", of OHttpService: Start, then Add; Delete, then Stop.         *)
(* "header", of the comment of OHttpServer.h: Add, then Start; Delete,     *)
(* then Stop.  "stopfirst": the server is stopped before any Delete.       *)
CallOrders == {"service", "header", "stopfirst"}
AddBreaks ==
  {o \in CallOrders : (o = "service" /\ ~Up) \/ (o = "header" /\ listening # 0)}
DeleteBreaks ==
  {o \in CallOrders : o = "stopfirst" /\ listening # 0}
StopBreaks ==
  {o \in {"service", "header"} : IF api' = "restart" THEN listening # 0
                                                   ELSE urlHandlerMap # Empty}

Init ==
  /\ api = "idle" /\ arg = NoHandler /\ at = 1
  /\ urlHandlerMap = Empty
  /\ listening = 0
  /\ registered = [p \in Processors |-> Empty]
  /\ serving = [p \in Processors |-> NoHandler]
  /\ deleted = {}
  /\ kept = CallOrders

Return == api' = "idle" /\ arg' = NoHandler /\ at' = 1

-----------------------------------------------------------------------------
(* Add                                                                     *)

(* Mutant: m_urlHandlerMap[url] = http_handler in place of insert.         *)
AddReplaces(h) ==
  /\ api = "idle" /\ h \notin deleted
  /\ api' = "add" /\ arg' = h /\ at' = 1
  /\ urlHandlerMap' = [urlHandlerMap EXCEPT ![UrlOf[h]] = h]
  /\ kept' = kept \ AddBreaks
  /\ UNCHANGED <<listening, registered, serving, deleted>>

(* insert keeps the handler the server already has for the URL.            *)
Add(h) ==
  /\ api = "idle" /\ h \notin deleted
  /\ api' = "add" /\ arg' = h /\ at' = 1
  /\ urlHandlerMap' =
       [urlHandlerMap EXCEPT ![UrlOf[h]] = IF @ = NoHandler THEN h ELSE @]
  /\ kept' = kept \ AddBreaks
  /\ UNCHANGED <<listening, registered, serving, deleted>>

(* OHttpProcessor::Add of the next processor: the insertion begins ...     *)
AddInsert ==
  /\ api = "add" /\ at \in Listed /\ registered[at][UrlOf[arg]] = NoHandler
  /\ api' = "insert"
  /\ UNCHANGED <<arg, at, urlHandlerMap, listening, registered, serving, deleted, kept>>

(* ... and ends.                                                           *)
AddInserted ==
  /\ api = "insert"
  /\ registered' = [registered EXCEPT ![at][UrlOf[arg]] = arg]
  /\ api' = "add" /\ at' = at + 1
  /\ UNCHANGED <<arg, urlHandlerMap, listening, serving, deleted, kept>>

(* -2 for a URL the processor has ends Add; so does the end of the lists.  *)
AddReturn ==
  /\ api = "add"
  /\ at \in Listed => registered[at][UrlOf[arg]] # NoHandler
  /\ Return
  /\ UNCHANGED <<urlHandlerMap, listening, registered, serving, deleted, kept>>

-----------------------------------------------------------------------------
(* Delete                                                                  *)

Delete(u) ==
  /\ api = "idle"
  /\ api' = "delete" /\ arg' = u /\ at' = 1
  /\ kept' = kept \ DeleteBreaks
  /\ UNCHANGED <<urlHandlerMap, listening, registered, serving, deleted>>

DeleteErase ==
  /\ api = "delete" /\ at \in Listed /\ registered[at][arg] # NoHandler
  /\ api' = "erase"
  /\ UNCHANGED <<arg, at, urlHandlerMap, listening, registered, serving, deleted, kept>>

(* Mutant: only the first processor of each listener is asked.             *)
DeleteSkips ==
  /\ api = "erase"
  /\ registered' = [registered EXCEPT ![at][arg] = NoHandler]
  /\ api' = "delete" /\ at' = at + NumProcessors
  /\ UNCHANGED <<arg, urlHandlerMap, listening, serving, deleted, kept>>

DeleteErased ==
  /\ api = "erase"
  /\ registered' = [registered EXCEPT ![at][arg] = NoHandler]
  /\ api' = "delete" /\ at' = at + 1
  /\ UNCHANGED <<arg, urlHandlerMap, listening, serving, deleted, kept>>

(* A processor without the URL answers -2, and Delete returns at once: the *)
(* server keeps the handler.                                               *)
DeleteMissing ==
  /\ api = "delete" /\ at \in Listed /\ registered[at][arg] = NoHandler
  /\ Return
  /\ UNCHANGED <<urlHandlerMap, listening, registered, serving, deleted, kept>>

(* Every processor has forgotten the URL: the handler is deleted, whether  *)
(* or not a processor thread is in it.                                     *)
DeleteHandler ==
  /\ api = "delete" /\ at \notin Listed
  /\ deleted' = deleted \cup ({urlHandlerMap[arg]} \ {NoHandler})
  /\ urlHandlerMap' = [urlHandlerMap EXCEPT ![arg] = NoHandler]
  /\ Return
  /\ UNCHANGED <<listening, registered, serving, kept>>

-----------------------------------------------------------------------------
(* Stop and Start, which begins with a Stop                                *)

Stop ==
  /\ api = "idle"
  /\ api' \in {"stop", "restart"} /\ at' = 1
  /\ kept' = kept \ StopBreaks
  /\ UNCHANGED <<arg, urlHandlerMap, listening, registered, serving, deleted>>

(* Mutant: the processor threads are not joined.                           *)
StopListenerUnjoined ==
  /\ api \in {"stop", "restart"} /\ at \in 1 .. listening
  /\ at' = at + 1
  /\ UNCHANGED <<api, arg, urlHandlerMap, listening, registered, serving, deleted, kept>>

(* OHttpListener::Stop returns when its processor threads have ended.      *)
StopListener ==
  /\ api \in {"stop", "restart"} /\ at \in 1 .. listening
  /\ \A p \in Group(at) : serving[p] = NoHandler
  /\ at' = at + 1
  /\ UNCHANGED <<api, arg, urlHandlerMap, listening, registered, serving, deleted, kept>>

(* The list is cleared and the socket closed; the server's own map is not  *)
(* touched.                                                                *)
StopEnd ==
  /\ api \in {"stop", "restart"} /\ at \notin 1 .. listening
  /\ listening' = 0
  /\ registered' = [p \in Processors |-> Empty]
  /\ at' = 1
  /\ api' = IF api = "stop" THEN "idle" ELSE "start"
  /\ UNCHANGED <<arg, urlHandlerMap, serving, deleted, kept>>

(* A listener starts with processors that have no handlers.                *)
StartListener ==
  /\ api = "start" /\ listening < NumListeners
  /\ listening' = listening + 1
  /\ UNCHANGED <<api, arg, at, urlHandlerMap, registered, serving, deleted, kept>>

(* All listeners run, the socket cannot be bound (-1), or a listener fails *)
(* (-3), which leaves those before it running.                             *)
StartReturn ==
  /\ api = "start"
  /\ Return
  /\ UNCHANGED <<urlHandlerMap, listening, registered, serving, deleted, kept>>

-----------------------------------------------------------------------------
(* The processor threads                                                   *)

Running(p) ==
  /\ p \in Listed
  /\ api \in {"stop", "restart"} => p > (at - 1) * NumProcessors

(* GetUrlHandler takes no lock.  Found is what a lookup of u may find; it  *)
(* may find the handler that is just being inserted or erased.  One that   *)
(* finds nothing, or misses because the map is being changed, is answered  *)
(* 404 and leaves no trace here.                                           *)
Found(p, u) ==
  {registered[p][u]} \cup {h \in Handlers : /\ api = "insert" /\ at = p
                                            /\ h = arg /\ UrlOf[h] = u}

Lookup(p, u) ==
  /\ Running(p) /\ serving[p] = NoHandler
  /\ \E h \in Found(p, u) \ {NoHandler} : serving' = [serving EXCEPT ![p] = h]
  /\ UNCHANGED <<api, arg, at, urlHandlerMap, listening, registered, deleted, kept>>

(* The handler returns and the thread is done with it.                     *)
Served(p) ==
  /\ serving[p] # NoHandler
  /\ serving' = [serving EXCEPT ![p] = NoHandler]
  /\ UNCHANGED <<api, arg, at, urlHandlerMap, listening, registered, deleted, kept>>

Calls ==
  \/ \E h \in Handlers : Add(h)
  \/ \E u \in Urls : Delete(u)
  \/ Stop

Next ==
  \/ Calls
  \/ AddInsert \/ AddInserted \/ AddReturn
  \/ DeleteErase \/ DeleteErased \/ DeleteMissing \/ DeleteHandler
  \/ StopListener \/ StopEnd \/ StartListener \/ StartReturn
  \/ \E p \in Processors : Served(p) \/ \E u \in Urls : Lookup(p, u)

Spec == Init /\ [][Next]_vars

-----------------------------------------------------------------------------
HandlersOrNull == Handlers \cup {NoHandler}

(* Every variable has its type, the calling thread never walks past the    *)
(* lists, and a handler is only ever found under its own URL.              *)
TypeOK ==
  /\ api \in ApiStates
  /\ arg \in HandlersOrNull \cup Urls
  /\ api \in {"add", "insert"} => arg \in Handlers
  /\ api \in {"delete", "erase"} => arg \in Urls
  /\ at \in 1 .. NumListeners * NumProcessors + 1
  /\ api \in {"insert", "erase"} => at \in Listed
  /\ listening \in 0 .. NumListeners
  /\ urlHandlerMap \in [Urls -> HandlersOrNull]
  /\ registered \in [Processors -> [Urls -> HandlersOrNull]]
  /\ serving \in [Processors -> HandlersOrNull]
  /\ deleted \subseteq Handlers
  /\ kept \subseteq CallOrders
  /\ \A p \in Processors, u \in Urls :
       registered[p][u] = NoHandler \/ UrlOf[registered[p][u]] = u

(* Between calls all processors know the same handlers: which processor a  *)
(* request reaches makes no difference to the answer, after any sequence   *)
(* of calls, those that failed half way included.                          *)
ProcessorsAgree ==
  api = "idle" => \A p, q \in Listed : registered[p] = registered[q]

(* No processor, however the calls are ordered, can look up a handler that *)
(* was deleted.                                                            *)
RegisteredNotDeleted ==
  \A p \in Listed, u \in Urls : registered[p][u] \notin deleted

(* All processors know the same handlers, and none that is deleted.        *)
ProcessorsSound == TypeOK /\ ProcessorsAgree /\ RegisteredNotDeleted

HandleIsServed ==
  api = "idle" /\ Up => \A p \in Listed : registered[p] = urlHandlerMap

NoCallAfterDelete == \A p \in Processors : serving[p] \notin deleted

(* As long as the calls come in the order of OHttpService, over any number *)
(* of restarts, a running server serves between calls the handlers it      *)
(* reports (GetHttpHandle), and no others.                                 *)
ServiceServesHandles == "service" \in kept => HandleIsServed

(* The same for the order the comment of OHttpServer.h prescribes.  It     *)
(* does not hold.                                                          *)
HeaderServesHandles == "header" \in kept => HandleIsServed

(* If the server is always stopped before handlers are deleted, no         *)
(* processor thread is ever in a handler that has been deleted.            *)
StopFirstProtects == "stopfirst" \in kept => NoCallAfterDelete

(* The same for the order of OHttpService, which deletes and then stops.   *)
(* It does not hold.                                                       *)
ServiceProtects == "service" \in kept => NoCallAfterDelete
=============================================================================
