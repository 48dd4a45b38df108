-------------------------- MODULE OHttpServerProofs --------------------------
(***************************************************************************)
(* For any number of listeners, processors, URLs and handlers: all         *)
(* processors know the same handlers and none that is deleted, in the      *)
(* order of OHttpService those the server reports, and a server that is    *)
(* stopped first deletes no handler a thread is in.                        *)
(***************************************************************************)
EXTENDS OHttpServer, TLAPS

Adding == api \in {"add", "insert"}
Deleting == api \in {"delete", "erase"}
Stopping == api \in {"stop", "restart"}

(* A handler is in the server's map under its own URL, and one that is     *)
(* being added has not been deleted.                                       *)
MapInv ==
  /\ \A u \in Urls : urlHandlerMap[u] = NoHandler \/ UrlOf[urlHandlerMap[u]] = u
  /\ Adding => arg \notin deleted
  /\ Stopping => at <= listening + 1

(* Processors that are not listed, and all of them while Start makes the   *)
(* listeners, know no handler.                                             *)
FreshInv ==
  \A p \in Processors, u \in Urls :
    p \notin Listed \/ api = "start" => registered[p][u] = NoHandler

(* The processors know the same but for the URL of a walk: that those      *)
(* before `at' know or have forgotten, and those from `at' on have not.    *)
Agree(url) ==
  \A p, q \in Listed, u \in Urls :
    (u # url \/ (p < at <=> q < at)) => registered[p][u] = registered[q][u]

AgreeInv ==
  /\ ~Adding /\ ~Deleting =>
       \A p, q \in Listed, u \in Urls : registered[p][u] = registered[q][u]
  /\ Adding =>
       /\ Agree(UrlOf[arg])
       /\ \A p \in Listed : p < at => registered[p][UrlOf[arg]] = arg
       /\ \A p, q \in Listed : p < at /\ at <= q => registered[q][UrlOf[arg]] = NoHandler
       /\ api = "insert" => registered[at][UrlOf[arg]] = NoHandler
  /\ Deleting =>
       /\ Agree(arg)
       /\ \A p \in Listed : p < at => registered[p][arg] = NoHandler
       /\ \A p, q \in Listed : p < at /\ at <= q => registered[q][arg] # NoHandler
       /\ api = "erase" => registered[at][arg] # NoHandler

(* In the order of OHttpService handlers are there only while the server   *)
(* is up, and what the processors know differs from the server's map only  *)
(* by the URL of a walk.                                                   *)
ServedInv ==
  "service" \in kept =>
    /\ ~Up \/ Stopping \/ api = "start" => \A u \in Urls : urlHandlerMap[u] = NoHandler
    /\ Adding => Up
    /\ api = "idle" /\ Up => \A p \in Listed, u \in Urls : registered[p][u] = urlHandlerMap[u]
    /\ Adding => \A p \in Listed, u \in Urls :
         IF u = UrlOf[arg] /\ at <= p /\ registered[p][u] = NoHandler
           THEN urlHandlerMap[u] = arg
           ELSE registered[p][u] = urlHandlerMap[u]
    /\ Deleting /\ Up => \A p \in Listed, u \in Urls :
         u # arg \/ at <= p => registered[p][u] = urlHandlerMap[u]

(* Only the threads of listeners not yet stopped are in a handler, and a   *)
(* server stopped first has no listener when Delete is called.             *)
ThreadsInv ==
  /\ \A p \in Processors : serving[p] # NoHandler => Running(p)
  /\ "stopfirst" \in kept => (Deleting => listening = 0) /\ NoCallAfterDelete

IInv == /\ TypeOK /\ MapInv /\ FreshInv /\ AgreeInv /\ RegisteredNotDeleted
        /\ ServedInv /\ ThreadsInv

-----------------------------------------------------------------------------
(* Products of counts: later groups come after earlier ones.               *)
LEMMA Monotone ==
  ASSUME NEW a \in Nat, NEW b \in Nat, a <= b
  PROVE  /\ a * NumProcessors \in Nat /\ b * NumProcessors \in Nat
         /\ a * NumProcessors <= b * NumProcessors
         /\ a <= a * NumProcessors
<1> DEFINE d == b - a
<1>1. d \in Nat /\ b = a + d /\ NumProcessors \in Nat /\ NumProcessors >= 1
  BY CountsAssumption
<1>2. b * NumProcessors = a * NumProcessors + d * NumProcessors
  BY <1>1
<1>3. a * NumProcessors \in Nat /\ d * NumProcessors \in Nat
  BY <1>1
<1>4. a * NumProcessors = a + a * (NumProcessors - 1) /\ a * (NumProcessors - 1) \in Nat
  BY <1>1
<1> QED
  BY <1>2, <1>3, <1>4

(* The listed processors are processors, and one more listener lists more. *)
LEMMA ListedFacts ==
  ASSUME TypeOK
  PROVE  /\ Listed \subseteq Processors
         /\ listening * NumProcessors \in Nat
         /\ NumListeners <= NumListeners * NumProcessors
         /\ NumListeners * NumProcessors \in Nat
<1>1. listening \in Nat /\ NumListeners \in Nat /\ listening <= NumListeners
  BY CountsAssumption DEF TypeOK
<1> QED
  BY <1>1, Monotone DEF Listed, Processors

(* A walk over the processors, or over the listeners, stays in bounds.     *)
LEMMA NextPlace ==
  ASSUME TypeOK, at \in Listed \/ at \in 1 .. listening
  PROVE  /\ at \in Listed => at \in Processors
         /\ at + 1 \in 1 .. NumListeners * NumProcessors + 1
<1> DEFINE all == NumListeners * NumProcessors
<1>1. all \in Nat /\ NumListeners <= all /\ Listed \subseteq 1 .. all
  BY ListedFacts DEF Processors
<1>2. listening \in Nat /\ NumListeners \in Nat /\ listening <= NumListeners
  BY CountsAssumption DEF TypeOK
<1> HIDE DEF all
<1>3. CASE at \in Listed
  BY <1>1, <1>3 DEF all, Processors
<1>4. CASE at \in 1 .. listening
  <2>1. at \in Nat /\ at >= 1 /\ at <= all
    BY <1>1, <1>2, <1>4
  <2>2. at \in Listed => at \in Processors
    BY <1>1 DEF all, Processors
  <2> QED
    BY <1>1, <2>1, <2>2 DEF all
<1> QED
  BY <1>3, <1>4

(* The processors of a listener that starts are processors.                *)
LEMMA NextListed ==
  ASSUME TypeOK, StartListener
  PROVE  Listed \subseteq Listed' /\ Listed' \subseteq Processors
<1>1. listening + 1 \in Nat /\ NumListeners \in Nat /\ listening + 1 <= NumListeners
  BY CountsAssumption DEF StartListener, TypeOK
<1>2. (listening + 1) * NumProcessors <= NumListeners * NumProcessors
  BY <1>1, Monotone
<1>3. listening * NumProcessors <= (listening + 1) * NumProcessors
  BY <1>1, Monotone DEF TypeOK
<1> QED
  BY <1>1, <1>2, <1>3, Monotone, ListedFacts DEF StartListener, Listed, Processors

LEMMA InitInv == Init => IInv
<1> SUFFICES ASSUME Init PROVE IInv
  OBVIOUS
<1> USE HandlersAssumption, CountsAssumption DEF Init, Empty
<1>1. NumListeners * NumProcessors \in Nat /\ 0 * NumProcessors = 0
  OBVIOUS
<1>2. Listed = {}
  BY <1>1 DEF Listed
<1>3. TypeOK
  BY <1>1 DEF TypeOK, ApiStates, HandlersOrNull
<1>4. MapInv /\ FreshInv /\ AgreeInv /\ RegisteredNotDeleted
  BY <1>2 DEF MapInv, FreshInv, AgreeInv, RegisteredNotDeleted, Adding, Deleting, Stopping
<1>5. ServedInv /\ ThreadsInv
  BY <1>2 DEF ServedInv, ThreadsInv, NoCallAfterDelete, Up, Adding, Deleting, Stopping
<1> QED
  BY <1>3, <1>4, <1>5 DEF IInv

-----------------------------------------------------------------------------
LEMMA TypeInv == IInv /\ [Next]_vars => TypeOK'
<1> SUFFICES ASSUME IInv, [Next]_vars PROVE TypeOK'
  OBVIOUS
<1> USE HandlersAssumption, CountsAssumption, ListedFacts
    DEF IInv, TypeOK, ApiStates, HandlersOrNull
<1>1. ASSUME NEW h \in Handlers, Add(h) PROVE TypeOK'
  BY <1>1 DEF Add, Listed
<1>2. CASE AddInsert
  BY <1>2 DEF AddInsert, Listed
<1>3. CASE AddInserted
  <2>1. at \in Processors /\ at + 1 \in 1 .. NumListeners * NumProcessors + 1
    BY <1>3, NextPlace DEF AddInserted
  <2>2. UrlOf[arg] \in Urls /\ arg \in Handlers
    BY <1>3 DEF AddInserted
  <2> QED
    BY <1>3, <2>1, <2>2 DEF AddInserted, Listed
<1>4. CASE AddReturn \/ DeleteMissing \/ StartReturn
  BY <1>4 DEF AddReturn, DeleteMissing, StartReturn, Return, Listed
<1>5. ASSUME NEW u \in Urls, Delete(u) PROVE TypeOK'
  BY <1>5 DEF Delete, Listed
<1>6. CASE DeleteErase
  BY <1>6 DEF DeleteErase, Listed
<1>7. CASE DeleteErased
  <2>1. at \in Processors /\ at + 1 \in 1 .. NumListeners * NumProcessors + 1
    BY <1>7, NextPlace DEF DeleteErased
  <2> QED
    BY <1>7, <2>1 DEF DeleteErased, Listed
<1>8. CASE DeleteHandler
  BY <1>8 DEF DeleteHandler, Return, Listed
<1>9. CASE Stop
  BY <1>9 DEF Stop, Listed
<1>10. CASE StopListener
  <2>1. at + 1 \in 1 .. NumListeners * NumProcessors + 1
    BY <1>10, NextPlace DEF StopListener
  <2> QED
    BY <1>10, <2>1 DEF StopListener, Listed
<1>11. CASE StopEnd
  BY <1>11 DEF StopEnd, Empty, Listed
<1>12. CASE StartListener
  BY <1>12 DEF StartListener, Listed
<1>13. ASSUME NEW p \in Processors, Served(p) \/ \E u \in Urls : Lookup(p, u) PROVE TypeOK'
  <2>1. CASE Served(p)
    BY <2>1 DEF Served, Listed
  <2>2. ASSUME NEW u \in Urls, Lookup(p, u) PROVE TypeOK'
    BY <2>2 DEF Lookup, Found, Listed
  <2> QED
    BY <1>13, <2>1, <2>2
<1>14. CASE UNCHANGED vars
  BY <1>14 DEF vars, Listed
<1> QED
  BY <1>1, <1>2, <1>3, <1>4, <1>5, <1>6, <1>7, <1>8, <1>9, <1>10, <1>11, <1>12, <1>13,
     <1>14 DEF Next, Calls

(* What a step leaves of the processors' maps: they change only at `at',   *)
(* or are emptied by Stop; and the list changes only in Stop and Start.    *)
LEMMA MapSteps == IInv /\ [Next]_vars => MapInv'
<1> SUFFICES ASSUME IInv, [Next]_vars PROVE MapInv'
  OBVIOUS
<1> USE HandlersAssumption, CountsAssumption DEF IInv, TypeOK, MapInv, Adding, Stopping, HandlersOrNull
<1>1. ASSUME NEW h \in Handlers, Add(h) PROVE MapInv'
  BY <1>1 DEF Add
<1>2. CASE AddInsert \/ AddInserted
  BY <1>2 DEF AddInsert, AddInserted
<1>3. CASE AddReturn \/ DeleteMissing \/ StartReturn \/ DeleteHandler
  BY <1>3 DEF AddReturn, DeleteMissing, StartReturn, DeleteHandler, Return
<1>4. CASE (\E u \in Urls : Delete(u)) \/ DeleteErase \/ DeleteErased
  BY <1>4 DEF Delete, DeleteErase, DeleteErased
<1>5. CASE Stop \/ StopListener \/ StopEnd
  BY <1>5 DEF Stop, StopListener, StopEnd
<1>6. CASE StartListener
  BY <1>6 DEF StartListener
<1>7. CASE \E p \in Processors : Served(p) \/ \E u \in Urls : Lookup(p, u)
  BY <1>7 DEF Served, Lookup
<1>8. CASE UNCHANGED vars
  BY <1>8 DEF vars
<1> QED
  BY <1>1, <1>2, <1>3, <1>4, <1>5, <1>6, <1>7, <1>8 DEF Next, Calls

LEMMA FreshSteps == IInv /\ [Next]_vars => FreshInv'
<1> SUFFICES ASSUME IInv, [Next]_vars PROVE FreshInv'
  OBVIOUS
<1> USE CountsAssumption DEF IInv, TypeOK, FreshInv, Listed
<1>1. CASE \/ \E h \in Handlers : Add(h)
           \/ \E u \in Urls : Delete(u)
           \/ AddInsert \/ AddReturn \/ DeleteErase \/ DeleteMissing \/ DeleteHandler
  BY <1>1 DEF Add, Delete, AddInsert, AddReturn, DeleteErase, DeleteMissing, DeleteHandler, Return
<1>2. CASE AddInserted \/ DeleteErased
  BY <1>2 DEF AddInserted, DeleteErased
<1>3. CASE Stop \/ StopListener
  BY <1>3 DEF Stop, StopListener
<1>4. CASE StopEnd
  BY <1>4 DEF StopEnd, Empty
<1>5. CASE StartListener \/ StartReturn
  BY <1>5, Monotone DEF StartListener, StartReturn, Return
<1>6. CASE \E p \in Processors : Served(p) \/ \E u \in Urls : Lookup(p, u)
  BY <1>6 DEF Served, Lookup
<1>7. CASE UNCHANGED vars
  BY <1>7 DEF vars
<1> QED
  BY <1>1, <1>2, <1>3, <1>4, <1>5, <1>6, <1>7 DEF Next, Calls

(* The processors agree: a walk leaves those before it with the URL, or    *)
(* without, and the first processor tells whether it was there before.     *)
LEMMA AgreeSteps == IInv /\ [Next]_vars => AgreeInv'
<1> SUFFICES ASSUME IInv, [Next]_vars PROVE AgreeInv'
  OBVIOUS
<1>0. /\ Listed \subseteq Processors
      /\ listening \in Nat /\ at \in Nat /\ at >= 1
      /\ \A h \in Handlers : UrlOf[h] \in Urls /\ h # NoHandler
      /\ Listed = 1 .. listening * NumProcessors /\ listening * NumProcessors \in Nat
  BY ListedFacts, HandlersAssumption, CountsAssumption DEF IInv, TypeOK, Listed
<1> USE <1>0 DEF IInv, AgreeInv, Agree, Adding, Deleting
<1>1. ASSUME NEW h \in Handlers, Add(h) PROVE AgreeInv'
  <2>1. Listed' = Listed /\ api = "idle" /\ api' = "add" /\ at' = 1
    BY <1>1 DEF Add, Listed
  <2> QED
    BY <1>1, <2>1 DEF Add
<1>2. CASE AddInsert
  <2>1. Listed' = Listed
    BY <1>2 DEF AddInsert, Listed
  <2> QED
    BY <1>2, <2>1 DEF AddInsert
<1>3. CASE AddInserted
  <2>1. Listed' = Listed /\ at \in Listed /\ arg \in Handlers
    BY <1>3 DEF AddInserted, Listed, TypeOK
  <2>2. \A p \in Listed, u \in Urls :
          registered'[p][u] = IF p = at /\ u = UrlOf[arg] THEN arg ELSE registered[p][u]
    BY <1>3, <2>1 DEF AddInserted, TypeOK
  <2>3. \A p \in Listed : p < at' <=> p < at \/ p = at
    BY <1>3, <2>1 DEF AddInserted
  <2> QED
    BY <1>3, <2>1, <2>2, <2>3 DEF AddInserted
<1>4. CASE AddReturn
  <2>1. Listed' = Listed /\ api' = "idle" /\ registered' = registered /\ arg \in Handlers
    BY <1>4 DEF AddReturn, Return, Listed, TypeOK
  <2>2. (\A p \in Listed : p < at) \/ (\A p \in Listed : at <= p)
    BY <1>4 DEF AddReturn
  <2> QED
    BY <1>4, <2>1, <2>2 DEF AddReturn
<1>5. ASSUME NEW u \in Urls, Delete(u) PROVE AgreeInv'
  <2>1. Listed' = Listed /\ api = "idle" /\ api' = "delete" /\ at' = 1
    BY <1>5 DEF Delete, Listed
  <2> QED
    BY <1>5, <2>1 DEF Delete
<1>6. CASE DeleteErase
  <2>1. Listed' = Listed
    BY <1>6 DEF DeleteErase, Listed
  <2> QED
    BY <1>6, <2>1 DEF DeleteErase
<1>7. CASE DeleteErased
  <2>1. Listed' = Listed /\ at \in Listed /\ arg \in Urls
    BY <1>7 DEF DeleteErased, Listed, TypeOK
  <2>2. \A p \in Listed, u \in Urls :
          registered'[p][u] = IF p = at /\ u = arg THEN NoHandler ELSE registered[p][u]
    BY <1>7, <2>1 DEF DeleteErased, TypeOK
  <2>3. \A p \in Listed : p < at' <=> p < at \/ p = at
    BY <1>7, <2>1 DEF DeleteErased
  <2> QED
    BY <1>7, <2>1, <2>2, <2>3 DEF DeleteErased
<1>8. CASE DeleteMissing \/ DeleteHandler
  <2>1. Listed' = Listed /\ api' = "idle" /\ registered' = registered /\ arg \in Urls
    BY <1>8 DEF DeleteMissing, DeleteHandler, Return, Listed, TypeOK
  <2>2. (\A p \in Listed : p < at) \/ (\A p \in Listed : at <= p)
    BY <1>8 DEF DeleteMissing, DeleteHandler
  <2> QED
    BY <1>8, <2>1, <2>2 DEF DeleteMissing, DeleteHandler
<1>9. CASE Stop \/ StopListener \/ StartReturn
  <2>1. Listed' = Listed
    BY <1>9 DEF Stop, StopListener, StartReturn, Listed
  <2> QED
    BY <1>9, <2>1 DEF Stop, StopListener, StartReturn, Return
<1>10. CASE StopEnd
  <2>1. Listed' = {} /\ api' \in {"idle", "start"}
    <3>1. 0 * NumProcessors = 0
      BY CountsAssumption
    <3> QED
      BY <1>10, <3>1 DEF StopEnd, Listed
  <2> QED
    BY <1>10, <2>1 DEF StopEnd
<1>11. CASE StartListener
  <2>1. Listed' \subseteq Processors /\ FreshInv' /\ api' = "start"
    BY <1>11, FreshSteps, NextListed DEF StartListener
  <2> QED
    BY <1>11, <2>1 DEF StartListener, FreshInv
<1>12. CASE \E p \in Processors : Served(p) \/ \E u \in Urls : Lookup(p, u)
  <2>1. Listed' = Listed
    BY <1>12 DEF Served, Lookup, Listed
  <2> QED
    BY <1>12, <2>1 DEF Served, Lookup
<1>13. CASE UNCHANGED vars
  <2>1. Listed' = Listed
    BY <1>13 DEF vars, Listed
  <2> QED
    BY <1>13, <2>1 DEF vars
<1> QED
  BY <1>1, <1>2, <1>3, <1>4, <1>5, <1>6, <1>7, <1>8, <1>9, <1>10, <1>11, <1>12, <1>13
     DEF Next, Calls

(* What is deleted is in no processor's map: Delete frees a handler when   *)
(* every processor has forgotten its URL.                                  *)
LEMMA RegisteredSteps == IInv /\ [Next]_vars => RegisteredNotDeleted'
<1> SUFFICES ASSUME IInv, [Next]_vars PROVE RegisteredNotDeleted'
  OBVIOUS
<1>0. /\ Listed \subseteq Processors
      /\ \A h \in Handlers : UrlOf[h] \in Urls /\ h # NoHandler
      /\ listening \in Nat /\ at \in Nat /\ at >= 1
      /\ Listed = 1 .. listening * NumProcessors /\ listening * NumProcessors \in Nat
      /\ NoHandler \notin deleted
  BY ListedFacts, HandlersAssumption, CountsAssumption DEF IInv, TypeOK, Listed
<1> USE <1>0 DEF IInv, RegisteredNotDeleted
<1>1. CASE \/ \E h \in Handlers : Add(h)
           \/ \E u \in Urls : Delete(u)
           \/ AddInsert \/ AddReturn \/ DeleteErase \/ DeleteMissing
           \/ Stop \/ StopListener \/ StartReturn
           \/ \E p \in Processors : Served(p) \/ \E u \in Urls : Lookup(p, u)
  <2>1. Listed' = Listed /\ registered' = registered /\ deleted' = deleted
    BY <1>1 DEF Add, Delete, AddInsert, AddReturn, DeleteErase, DeleteMissing, Stop,
       StopListener, StartReturn, Return, Served, Lookup, Listed
  <2> QED
    BY <2>1
<1>2. CASE AddInserted
  <2>1. Listed' = Listed /\ at \in Listed /\ arg \in Handlers /\ arg \notin deleted
    BY <1>2 DEF AddInserted, Listed, TypeOK, MapInv, Adding
  <2>2. \A p \in Listed, u \in Urls :
          registered'[p][u] = IF p = at /\ u = UrlOf[arg] THEN arg ELSE registered[p][u]
    BY <1>2, <2>1 DEF AddInserted, TypeOK
  <2> QED
    BY <1>2, <2>1, <2>2 DEF AddInserted
<1>3. CASE DeleteErased
  <2>1. Listed' = Listed /\ at \in Listed /\ arg \in Urls
    BY <1>3 DEF DeleteErased, Listed, TypeOK
  <2>2. \A p \in Listed, u \in Urls :
          registered'[p][u] = IF p = at /\ u = arg THEN NoHandler ELSE registered[p][u]
    BY <1>3, <2>1 DEF DeleteErased, TypeOK
  <2> QED
    BY <1>3, <2>1, <2>2 DEF DeleteErased
<1>4. CASE DeleteHandler
  <2>1. Listed' = Listed /\ registered' = registered /\ arg \in Urls
    BY <1>4 DEF DeleteHandler, Listed, TypeOK
  <2>2. \A p \in Listed : registered[p][arg] = NoHandler
    BY <1>4 DEF DeleteHandler, AgreeInv, Deleting
  <2>3. ASSUME NEW p \in Listed, NEW u \in Urls, registered[p][u] # NoHandler
        PROVE  registered[p][u] # urlHandlerMap[arg]
    <3>1. u # arg /\ UrlOf[registered[p][u]] = u
      BY <2>2, <2>3 DEF TypeOK
    <3> QED
      BY <2>1, <2>3, <3>1 DEF MapInv
  <2> QED
    BY <1>4, <2>1, <2>3 DEF DeleteHandler
<1>5. CASE StopEnd
  <2>1. Listed' = {}
    <3>1. 0 * NumProcessors = 0
      BY CountsAssumption
    <3> QED
      BY <1>5, <3>1 DEF StopEnd, Listed
  <2> QED
    BY <2>1
<1>6. CASE StartListener
  <2>1. Listed' \subseteq Processors
    BY <1>6, TypeInv, ListedFacts, NextListed DEF StartListener
  <2> QED
    BY <1>6, <2>1 DEF StartListener, FreshInv
<1>7. CASE UNCHANGED vars
  BY <1>7 DEF vars, Listed
<1> QED
  BY <1>1, <1>2, <1>3, <1>4, <1>5, <1>6, <1>7 DEF Next, Calls

LEMMA ServedSteps == IInv /\ [Next]_vars => ServedInv'
<1> SUFFICES ASSUME IInv, [Next]_vars PROVE ServedInv'
  OBVIOUS
<1>0. /\ Listed \subseteq Processors
      /\ \A h \in Handlers : UrlOf[h] \in Urls /\ h # NoHandler
      /\ listening \in Nat /\ at \in Nat /\ at >= 1 /\ NumListeners # 0
      /\ Listed = 1 .. listening * NumProcessors /\ listening * NumProcessors \in Nat
  BY ListedFacts, HandlersAssumption, CountsAssumption DEF IInv, TypeOK, Listed
<1> USE <1>0 DEF IInv, ServedInv, Adding, Deleting, Stopping
<1>1. ASSUME NEW h \in Handlers, Add(h) PROVE ServedInv'
  <2>1. Listed' = Listed /\ Up' = Up /\ api = "idle" /\ api' = "add" /\ at' = 1 /\ arg' = h
    BY <1>1 DEF Add, Listed, Up
  <2>2. "service" \in kept' => "service" \in kept /\ Up
    BY <1>1 DEF Add, AddBreaks, CallOrders
  <2>3. \A u \in Urls : urlHandlerMap'[u] =
          IF u = UrlOf[h] /\ urlHandlerMap[u] = NoHandler THEN h ELSE urlHandlerMap[u]
    BY <1>1 DEF Add, TypeOK
  <2>4. \A p \in Listed : 1 <= p
    OBVIOUS
  <2> QED
    BY <1>1, <2>1, <2>2, <2>3, <2>4 DEF Add
<1>2. CASE AddInsert
  <2>1. Listed' = Listed /\ Up' = Up
    BY <1>2 DEF AddInsert, Listed, Up
  <2> QED
    BY <1>2, <2>1 DEF AddInsert
<1>3. CASE AddInserted
  <2>1. Listed' = Listed /\ Up' = Up /\ at \in Listed /\ arg \in Handlers
    BY <1>3 DEF AddInserted, Listed, TypeOK, Up
  <2>2. \A p \in Listed, u \in Urls :
          registered'[p][u] = IF p = at /\ u = UrlOf[arg] THEN arg ELSE registered[p][u]
    BY <1>3, <2>1 DEF AddInserted, TypeOK
  <2>3. \A p \in Listed : p < at' <=> p < at \/ p = at
    BY <1>3, <2>1 DEF AddInserted
  <2>4. registered[at][UrlOf[arg]] = NoHandler
    BY <1>3 DEF AddInserted, AgreeInv
  <2> QED
    BY <1>3, <2>1, <2>2, <2>3, <2>4 DEF AddInserted
<1>4. CASE AddReturn
  <2>1. /\ Listed' = Listed /\ Up' = Up /\ api' = "idle" /\ registered' = registered
        /\ urlHandlerMap' = urlHandlerMap /\ kept' = kept /\ arg \in Handlers
    BY <1>4 DEF AddReturn, Return, Listed, TypeOK, Up
  <2>2. \A p \in Listed : p < at \/ registered[p][UrlOf[arg]] # NoHandler
    <3>1. CASE at \in Listed
      BY <1>4, <2>1, <3>1 DEF AddReturn, AgreeInv, Agree
    <3>2. CASE at \notin Listed
      BY <3>2
    <3> QED
      BY <3>1, <3>2
  <2> QED
    BY <1>4, <2>1, <2>2 DEF AddReturn
<1>5. ASSUME NEW u \in Urls, Delete(u) PROVE ServedInv'
  <2>1. Listed' = Listed /\ Up' = Up
    BY <1>5 DEF Delete, Listed, Up
  <2> QED
    BY <1>5, <2>1 DEF Delete
<1>6. CASE DeleteErase
  <2>1. Listed' = Listed /\ Up' = Up
    BY <1>6 DEF DeleteErase, Listed, Up
  <2> QED
    BY <1>6, <2>1 DEF DeleteErase
<1>7. CASE DeleteErased
  <2>1. Listed' = Listed /\ Up' = Up /\ at \in Listed /\ arg \in Urls
    BY <1>7 DEF DeleteErased, Listed, TypeOK, Up
  <2>2. \A p \in Listed, u \in Urls :
          registered'[p][u] = IF p = at /\ u = arg THEN NoHandler ELSE registered[p][u]
    BY <1>7, <2>1 DEF DeleteErased, TypeOK
  <2>3. \A p \in Listed : at' <= p => at <= p /\ p # at
    BY <1>7, <2>1 DEF DeleteErased
  <2> QED
    BY <1>7, <2>1, <2>2, <2>3 DEF DeleteErased
<1>8. CASE DeleteMissing
  <2>1. /\ Listed' = Listed /\ Up' = Up /\ api' = "idle" /\ registered' = registered
        /\ urlHandlerMap' = urlHandlerMap /\ kept' = kept /\ arg \in Urls
    BY <1>8 DEF DeleteMissing, Return, Listed, TypeOK, Up
  <2>2. \A p \in Listed : at <= p
    BY <1>8 DEF DeleteMissing, AgreeInv
  <2> QED
    BY <1>8, <2>1, <2>2 DEF DeleteMissing
<1>9. CASE DeleteHandler
  <2>1. /\ Listed' = Listed /\ Up' = Up /\ api' = "idle" /\ registered' = registered
        /\ kept' = kept /\ arg \in Urls
    BY <1>9 DEF DeleteHandler, Return, Listed, TypeOK, Up
  <2>2. \A p \in Listed : registered[p][arg] = NoHandler
    BY <1>9 DEF DeleteHandler, AgreeInv
  <2>3. \A u \in Urls : urlHandlerMap'[u] = IF u = arg THEN NoHandler ELSE urlHandlerMap[u]
    BY <1>9 DEF DeleteHandler, TypeOK
  <2> QED
    BY <1>9, <2>1, <2>2, <2>3 DEF DeleteHandler
<1>10. CASE Stop
  <2>1. Listed' = Listed /\ Up' = Up
    BY <1>10 DEF Stop, Listed, Up
  <2>2. "service" \in kept' =>
          "service" \in kept /\ (api' = "restart" => ~Up) /\ (api' # "restart" => urlHandlerMap = Empty)
    BY <1>10 DEF Stop, StopBreaks, Up
  <2>3. urlHandlerMap = Empty => \A u \in Urls : urlHandlerMap[u] = NoHandler
    BY DEF Empty
  <2> QED
    BY <1>10, <2>1, <2>2, <2>3 DEF Stop
<1>11. CASE StopListener
  <2>1. Listed' = Listed /\ Up' = Up
    BY <1>11 DEF StopListener, Listed, Up
  <2> QED
    BY <1>11, <2>1 DEF StopListener
<1>12. CASE StopEnd
  <2>1. ~Up'
    BY <1>12 DEF StopEnd, Up
  <2> QED
    BY <1>12, <2>1 DEF StopEnd
<1>13. CASE StartListener
  BY <1>13 DEF StartListener
<1>14. CASE StartReturn
  <2>1. Listed' = Listed /\ Up' = Up /\ api' = "idle" /\ api = "start"
    BY <1>14 DEF StartReturn, Return, Listed, Up
  <2> QED
    BY <1>14, <2>1 DEF StartReturn, FreshInv
<1>15. CASE \E p \in Processors : Served(p) \/ \E u \in Urls : Lookup(p, u)
  <2>1. Listed' = Listed /\ Up' = Up
    BY <1>15 DEF Served, Lookup, Listed, Up
  <2> QED
    BY <1>15, <2>1 DEF Served, Lookup
<1>16. CASE UNCHANGED vars
  <2>1. Listed' = Listed /\ Up' = Up
    BY <1>16 DEF vars, Listed, Up
  <2> QED
    BY <1>16, <2>1 DEF vars
<1> QED
  BY <1>1, <1>2, <1>3, <1>4, <1>5, <1>6, <1>7, <1>8, <1>9, <1>10, <1>11, <1>12, <1>13,
     <1>14, <1>15, <1>16 DEF Next, Calls

LEMMA ThreadsSteps == IInv /\ [Next]_vars => ThreadsInv'
<1> SUFFICES ASSUME IInv, [Next]_vars PROVE ThreadsInv'
  OBVIOUS
<1>0. /\ Listed \subseteq Processors
      /\ listening \in Nat /\ at \in Nat /\ at >= 1 /\ NumProcessors \in Nat
      /\ Listed = 1 .. listening * NumProcessors /\ listening * NumProcessors \in Nat
      /\ NoHandler \notin deleted /\ serving \in [Processors -> Handlers \cup {NoHandler}]
      /\ Processors \subseteq Nat
  BY ListedFacts, HandlersAssumption, CountsAssumption
     DEF IInv, TypeOK, Listed, HandlersOrNull, Processors
<1> USE <1>0 DEF IInv, ThreadsInv, Deleting, NoCallAfterDelete
<1>1. CASE \/ \E h \in Handlers : Add(h)
           \/ AddInsert \/ AddInserted \/ AddReturn \/ DeleteErase \/ DeleteErased
           \/ DeleteMissing \/ StartReturn
  <2>1. /\ Listed' = Listed /\ serving' = serving /\ deleted' = deleted
        /\ api \notin {"stop", "restart"} /\ api' \notin {"stop", "restart"}
        /\ listening' = listening /\ kept' \subseteq kept
        /\ api' \in {"delete", "erase"} => api \in {"delete", "erase"}
    BY <1>1 DEF Add, AddInsert, AddInserted, AddReturn, DeleteErase, DeleteErased,
       DeleteMissing, StartReturn, Return, Listed
  <2> QED
    BY <2>1 DEF Running
<1>2. ASSUME NEW u \in Urls, Delete(u) PROVE ThreadsInv'
  <2>1. "stopfirst" \in kept' => "stopfirst" \in kept /\ listening = 0
    BY <1>2 DEF Delete, DeleteBreaks, CallOrders
  <2>2. Listed' = Listed
    BY <1>2 DEF Delete, Listed
  <2> QED
    BY <1>2, <2>1, <2>2 DEF Delete, Running
<1>3. CASE DeleteHandler
  <2>1. Listed' = Listed /\ api' = "idle" /\ serving' = serving /\ kept' = kept /\ listening' = listening
    BY <1>3 DEF DeleteHandler, Return, Listed
  <2>2. \A p \in Processors : serving[p] # NoHandler => Running(p)'
    BY <1>3, <2>1 DEF DeleteHandler, Running
  <2>3. "stopfirst" \in kept => \A p \in Processors : serving[p] = NoHandler
    <3>1. SUFFICES ASSUME "stopfirst" \in kept PROVE Listed = {}
      BY DEF Running
    <3>2. listening = 0 /\ 0 * NumProcessors = 0
      BY <1>3, <3>1 DEF DeleteHandler
    <3> QED
      BY <3>2 DEF Listed
  <2>4. NoHandler \notin deleted'
    BY <1>3 DEF DeleteHandler
  <2> QED
    BY <2>1, <2>2, <2>3, <2>4
<1>4. CASE Stop
  <2>1. /\ Listed' = Listed /\ at' = 1 /\ serving' = serving /\ api = "idle"
        /\ api' \in {"stop", "restart"} /\ deleted' = deleted /\ kept' \subseteq kept
    BY <1>4 DEF Stop, Listed
  <2>2. (at' - 1) * NumProcessors' = 0
    BY <2>1
  <2>3. \A p \in Processors : Running(p) => Running(p)'
    BY <2>1, <2>2 DEF Running
  <2> QED
    BY <2>1, <2>3
<1>5. CASE StopListener
  <2>1. /\ Listed' = Listed /\ at' = at + 1 /\ serving' = serving /\ api' = api
        /\ api \in {"stop", "restart"} /\ deleted' = deleted /\ kept' = kept
        /\ \A p \in Group(at) : serving[p] = NoHandler
    BY <1>5 DEF StopListener, Listed
  <2>2. (at' - 1) * NumProcessors' = at * NumProcessors /\ at * NumProcessors \in Nat
        /\ (at - 1) * NumProcessors \in Nat
    BY <2>1
  <2>3. ASSUME NEW p \in Processors, serving[p] # NoHandler PROVE Running(p)'
    <3>1. p \in Listed /\ p > (at - 1) * NumProcessors /\ p \notin Group(at)
      BY <2>1, <2>3 DEF Running
    <3>2. p > at * NumProcessors
      BY <2>2, <3>1 DEF Group
    <3> QED
      BY <2>1, <2>2, <3>1, <3>2 DEF Running
  <2> QED
    BY <2>1, <2>3
<1>6. CASE StopEnd
  <2>1. /\ serving' = serving /\ api \in {"stop", "restart"} /\ at - 1 \in Nat
        /\ listening <= at - 1 /\ deleted' = deleted /\ kept' = kept
        /\ api' \in {"idle", "start"}
    BY <1>6 DEF StopEnd
  <2>2. listening * NumProcessors <= (at - 1) * NumProcessors /\ (at - 1) * NumProcessors \in Nat
    BY <2>1, Monotone
  <2>3. \A p \in Processors : serving[p] = NoHandler
    BY <2>1, <2>2 DEF Running
  <2> QED
    BY <2>1, <2>3
<1>7. CASE StartListener
  <2>1. Listed \subseteq Listed'
    BY <1>7, NextListed
  <2>2. api = "start" /\ api' = "start" /\ serving' = serving /\ deleted' = deleted /\ kept' = kept
    BY <1>7 DEF StartListener
  <2> QED
    BY <2>1, <2>2 DEF Running
<1>8. ASSUME NEW p \in Processors, Served(p) PROVE ThreadsInv'
  <2>1. \A q \in Processors : Running(q)' <=> Running(q)
    BY <1>8 DEF Served, Running, Listed
  <2> QED
    BY <1>8, <2>1 DEF Served
<1>9. ASSUME NEW p \in Processors, NEW u \in Urls, Lookup(p, u) PROVE ThreadsInv'
  <2>1. \A q \in Processors : Running(q)' <=> Running(q)
    BY <1>9 DEF Lookup, Running, Listed
  <2>2. Found(p, u) \cap deleted = {}
    BY <1>9 DEF Found, Lookup, Running, RegisteredNotDeleted, MapInv, Adding
  <2>3. PICK h \in Found(p, u) \ {NoHandler} : serving' = [serving EXCEPT ![p] = h]
    BY <1>9 DEF Lookup
  <2> QED
    BY <1>9, <2>1, <2>2, <2>3 DEF Lookup
<1>10. CASE UNCHANGED vars
  <2>1. \A q \in Processors : Running(q)' <=> Running(q)
    BY <1>10 DEF vars, Running, Listed
  <2> QED
    BY <1>10, <2>1 DEF vars
<1> QED
  BY <1>1, <1>2, <1>3, <1>4, <1>5, <1>6, <1>7, <1>8, <1>9, <1>10 DEF Next, Calls

-----------------------------------------------------------------------------
(* The parts of the invariant are kept together.                           *)
THEOREM Inductive == Spec => []IInv
<1>1. IInv /\ [Next]_vars => IInv'
  BY TypeInv, MapSteps, FreshSteps, AgreeSteps, RegisteredSteps, ServedSteps, ThreadsSteps DEF IInv
<1> QED
  BY InitInv, <1>1, PTL DEF Spec

(* After any sequence of calls, those that failed half way included, all   *)
(* processors of a server know the same handlers, and none was deleted.    *)
THEOREM ProcessorsAreSound == Spec => []ProcessorsSound
<1>1. IInv => ProcessorsAgree
  <2> SUFFICES ASSUME IInv, api = "idle", NEW p \in Listed, NEW q \in Listed
               PROVE  registered[p] = registered[q]
    BY DEF ProcessorsAgree
  <2>1. p \in Processors /\ q \in Processors
    BY ListedFacts DEF IInv
  <2>2. registered[p] \in [Urls -> HandlersOrNull] /\ registered[q] \in [Urls -> HandlersOrNull]
    BY <2>1 DEF IInv, TypeOK
  <2>3. \A u \in Urls : registered[p][u] = registered[q][u]
    BY DEF IInv, AgreeInv, Adding, Deleting
  <2> QED
    BY <2>2, <2>3
<1>2. IInv => ProcessorsSound
  BY <1>1 DEF IInv, ProcessorsSound
<1> QED
  BY Inductive, <1>2, PTL

(* Called in the order of OHttpService a running server serves what it     *)
(* reports, whatever Starts failed before.                                 *)
THEOREM ServesWhatItReports == Spec => []ServiceServesHandles
<1>1. IInv => ServiceServesHandles
  <2> SUFFICES ASSUME IInv, "service" \in kept, api = "idle", Up, NEW p \in Listed
               PROVE  registered[p] = urlHandlerMap
    BY DEF ServiceServesHandles, HandleIsServed
  <2>1. p \in Processors
    BY ListedFacts DEF IInv
  <2>2. registered[p] \in [Urls -> HandlersOrNull] /\ urlHandlerMap \in [Urls -> HandlersOrNull]
    BY <2>1 DEF IInv, TypeOK
  <2>3. \A u \in Urls : registered[p][u] = urlHandlerMap[u]
    BY DEF IInv, ServedInv
  <2> QED
    BY <2>2, <2>3
<1> QED
  BY Inductive, <1>1, PTL

(* Stopped before any Delete, a server deletes no handler that one of its  *)
(* threads is in, although the lookups take no lock.                       *)
THEOREM StoppingFirstProtects == Spec => []StopFirstProtects
<1>1. IInv => StopFirstProtects
  BY DEF IInv, ThreadsInv, StopFirstProtects
<1> QED
  BY Inductive, <1>1, PTL
=============================================================================
