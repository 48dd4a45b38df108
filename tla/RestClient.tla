----------------------------- MODULE RestClient -----------------------------
(* The HTTP client: CHttpClient and the pool of curl handles behind its    *)
(* long links, RestClientPool (http/HttpClient.cpp, http/RestClientPool.cpp).*)
(* Threads make calls.  A short link creates a handle, uses it once and     *)
(* cleans it up; a long link takes a handle from the pool, creates one when *)
(* the pool is empty, and puts it back with whatever options it was given.  *)
(*                                                                          *)
(* curl keeps pointers: a handle remembers the header list, the body and    *)
(* the response buffer of the call that last set them.  A pointer is the    *)
(* number of the call that owns what it points to, 0 when it was never set; *)
(* it dangles as soon as that call is over.                                 *)
EXTENDS Naturals, Sequences, FiniteSets, SequencesExt

CONSTANTS
  Callers,     \* the threads that share one CHttpClient
  MaxCalls     \* bound: the calls all of them make

ASSUME CallersAssumption == IsFiniteSet(Callers) /\ MaxCalls \in Nat

VARIABLES
  begun,       \* the calls made so far; the last one's number
  pc,          \* pc[t]: where caller t is
  call,        \* call[t]: its call: number, kind of link, verb, extra headers
  handle,      \* handle[t]: the curl handle of the call, 0 before it has one
  vectCurl,    \* m_VectCurl, the handles nobody uses, the last one on top
  live,        \* the handles created and not cleaned up
  opts,        \* opts[h]: the options handle h remembers
  refused,     \* the handles of short links whose header list failed
  destroyed    \* ~RestClientPool has run

clientVars == <<begun, pc, call, handle, vectCurl, live, opts, refused, destroyed>>

Calls == 1 .. MaxCalls

NewCall == [id : 0 .. MaxCalls, link : {"short", "long"}, verb : {"get", "post"},
            headed : BOOLEAN]

Options == [link : {"short", "long"}, post : BOOLEAN,
            body : 0 .. MaxCalls, list : 0 .. MaxCalls, out : 0 .. MaxCalls]

Fresh(link) == [link |-> link, post |-> FALSE, body |-> 0, list |-> 0, out |-> 0]

ClientInit ==
  /\ begun = 0
  /\ pc = [t \in Callers |-> "idle"]
  /\ call = [t \in Callers |-> [id |-> 0, link |-> "short", verb |-> "get", headed |-> FALSE]]
  /\ handle = [t \in Callers |-> 0]
  /\ vectCurl = <<>>
  /\ live = {}
  /\ opts = [h \in Calls |-> Fresh("short")]
  /\ refused = {}
  /\ destroyed = FALSE

Goto(t, where) == pc' = [pc EXCEPT ![t] = where]

(* The call is over and forgets its handle.                                *)
Return(t) == Goto(t, "idle") /\ handle' = [handle EXCEPT ![t] = 0]

(* Post, Get, Posts and Gets are short links, PostLongLink and GetLongLink *)
(* go to the pool.                                                          *)
Call(t, link, verb, headed) ==
  /\ pc[t] = "idle" /\ ~destroyed /\ begun < MaxCalls
  /\ begun' = begun + 1
  /\ call' = [call EXCEPT ![t] = [id |-> begun', link |-> link, verb |-> verb,
                                  headed |-> headed]]
  /\ Goto(t, IF link = "long" THEN "take" ELSE "make")
  /\ UNCHANGED <<handle, vectCurl, live, opts, refused, destroyed>>

(* Mutant: the handle is read and left in the pool.                        *)
GetCurlKeeps(t) ==
  /\ pc[t] = "take"
  /\ IF vectCurl = <<>>
       THEN Goto(t, "make") /\ UNCHANGED handle
       ELSE handle' = [handle EXCEPT ![t] = Last(vectCurl)] /\ Goto(t, "prepare")
  /\ UNCHANGED <<begun, call, vectCurl, live, opts, refused, destroyed>>

(* GetCurl pops the last idle handle under the mutex.                      *)
GetCurl(t) ==
  /\ pc[t] = "take"
  /\ IF vectCurl = <<>>
       THEN Goto(t, "make") /\ UNCHANGED <<vectCurl, handle>>
       ELSE /\ handle' = [handle EXCEPT ![t] = Last(vectCurl)]
            /\ vectCurl' = Front(vectCurl)
            /\ Goto(t, "prepare")
  /\ UNCHANGED <<begun, call, live, opts, refused, destroyed>>

(* curl_easy_init, by CreateCurl outside the mutex or by a short link.     *)
CreateCurl(t) ==
  /\ pc[t] = "make"
  /\ handle' = [handle EXCEPT ![t] = call[t].id]
  /\ live' = live \union {call[t].id}
  /\ opts' = [opts EXCEPT ![call[t].id] = Fresh(call[t].link)]
  /\ Goto(t, "prepare")
  /\ UNCHANGED <<begun, call, vectCurl, refused, destroyed>>

CreateFails(t) ==
  /\ pc[t] = "make"
  /\ Return(t)
  /\ UNCHANGED <<begun, call, vectCurl, live, opts, refused, destroyed>>

(* Every call but a plain short Get builds a header list.                  *)
BuildsList(c) == c.link = "long" \/ c.verb = "post" \/ c.headed

(* Mutant: every call gives the list it builds to curl.                    *)
SetsListBuilt(c) == c.verb = "post" \/ c.headed

(* Only a Post, and a short Get that builds one, gives the list to curl:   *)
(* the pool's Gets build it, free it and never set it.                     *)
SetsList(c) == c.verb = "post" \/ (c.link = "short" /\ c.headed)

Prepared(o, c) ==
  [o EXCEPT !.out = c.id,
            !.post = IF c.verb = "post" THEN TRUE ELSE o.post,
            !.body = IF c.verb = "post" THEN c.id ELSE o.body,
            !.list = IF SetsList(c) THEN c.id ELSE o.list]

Prepare(t) ==
  /\ pc[t] = "prepare"
  /\ opts' = [opts EXCEPT ![handle[t]] = Prepared(opts[handle[t]], call[t])]
  /\ Goto(t, "perform")
  /\ UNCHANGED <<begun, call, handle, vectCurl, live, refused, destroyed>>

(* curl_slist_append returns NULL: the pool takes its handle back, a short *)
(* link returns without cleaning it up.                                    *)
ListFails(t) ==
  /\ pc[t] = "prepare" /\ BuildsList(call[t])
  /\ IF call[t].link = "long"
       THEN Goto(t, "put") /\ UNCHANGED <<handle, refused>>
       ELSE Return(t) /\ refused' = refused \union {handle[t]}
  /\ UNCHANGED <<begun, call, vectCurl, live, opts, destroyed>>

(* curl_easy_perform ends, by its time-out at the latest; the list is      *)
(* freed and a short link cleans its handle up.                            *)
Perform(t) ==
  /\ pc[t] = "perform"
  /\ IF call[t].link = "long"
       THEN Goto(t, "put") /\ UNCHANGED <<handle, live>>
       ELSE Return(t) /\ live' = live \ {handle[t]}
  /\ UNCHANGED <<begun, call, vectCurl, opts, refused, destroyed>>

PutCurl(t) ==
  /\ pc[t] = "put"
  /\ vectCurl' = Append(vectCurl, handle[t])
  /\ Return(t)
  /\ UNCHANGED <<begun, call, live, opts, refused, destroyed>>

(* ~RestClientPool, when no caller is inside.                              *)
Destroy ==
  /\ ~destroyed /\ \A t \in Callers : pc[t] = "idle"
  /\ destroyed' = TRUE
  /\ live' = live \ {vectCurl[i] : i \in DOMAIN vectCurl}
  /\ vectCurl' = <<>>
  /\ UNCHANGED <<begun, pc, call, handle, opts, refused>>

Step(t) == \/ GetCurl(t) \/ CreateCurl(t) \/ CreateFails(t) \/ Prepare(t)
           \/ ListFails(t) \/ Perform(t) \/ PutCurl(t)

ClientNext ==
  \/ \E t \in Callers :
       \/ Step(t)
       \/ \E link \in {"short", "long"}, verb \in {"get", "post"}, headed \in BOOLEAN :
            Call(t, link, verb, headed)
  \/ Destroy

ClientSpec == ClientInit /\ [][ClientNext]_clientVars

-----------------------------------------------------------------------------
Holders == {t \in Callers : handle[t] # 0}

ClientTypeOK ==
  /\ begun \in 0 .. MaxCalls
  /\ pc \in [Callers -> {"idle", "take", "make", "prepare", "perform", "put"}]
  /\ call \in [Callers -> NewCall]
  /\ handle \in [Callers -> 0 .. MaxCalls]
  /\ vectCurl \in Seq(Calls)
  /\ live \subseteq Calls /\ refused \subseteq Calls
  /\ opts \in [Calls -> Options]
  /\ destroyed \in BOOLEAN

(* A handle is used by one call or waits in the pool, never both, never in *)
(* two places, and it has not been cleaned up: curl handles may not be     *)
(* shared between threads.                                                  *)
HandlesAlone ==
  /\ \A t, u \in Holders : handle[t] = handle[u] => t = u
  /\ \A i, j \in DOMAIN vectCurl : vectCurl[i] = vectCurl[j] => i = j
  /\ \A t \in Holders : \A i \in DOMAIN vectCurl : vectCurl[i] # handle[t]
  /\ \A t \in Holders : handle[t] \in live
  /\ \A i \in DOMAIN vectCurl : vectCurl[i] \in live

(* The pool never holds more handles than threads that ever called at      *)
(* once, although it looks for one and creates one in two steps.           *)
PoolBounded ==
  Cardinality({h \in live : opts[h].link = "long"}) <= Cardinality(Callers)

(* A transfer answers its own caller, and a Post sends its own body and    *)
(* its own headers, whatever the handle was used for before.               *)
PostsSendTheirOwn ==
  \A t \in Callers : pc[t] = "perform" =>
    LET o == opts[handle[t]] IN
    /\ o.out = call[t].id
    /\ call[t].verb = "post" => o.post /\ o.body = call[t].id /\ o.list = call[t].id

(* A Get sends a POST, or a body or header list of a call that is over,    *)
(* only on a handle of the pool that an earlier Post has used: the pool    *)
(* resets no option.                                                        *)
OnlyPostsLeaveTraces ==
  \A t \in Callers : pc[t] = "perform" /\ call[t].verb = "get" =>
    LET o == opts[handle[t]] IN
    IF o.post
      THEN call[t].link = "long" /\ o.body = o.list /\ o.body # call[t].id
      ELSE o.body = 0 /\ o.list \in {0, call[t].id}

(* Once the pool is destroyed only the handles of short links whose header *)
(* list failed are left.                                                    *)
OnlyRefusedLeak == destroyed => live \subseteq refused

(* No two calls meet in a handle, nor in what they send and receive by it. *)
HandlesSound == ClientTypeOK /\ HandlesAlone /\ PostsSendTheirOwn

(* What the pool keeps of past calls is bounded: their handles, the        *)
(* options a Post leaves on them, and what the destructor misses.          *)
PoolSound == PoolBounded /\ OnlyPostsLeaveTraces /\ OnlyRefusedLeak
=============================================================================
