----------------------------- MODULE RpcStream -----------------------------
(***************************************************************************)
(* The gRPC client and the gRPC server, each against an abstract peer that *)
(* does through the calls whatever the other side may do.  A behaviour is  *)
(* about one of them.                                                      *)
(***************************************************************************)
EXTENDS ORpcStreamClient, ORpcServiceHandle

CONSTANT MaxRequests      \* bounds the requests of the abstract clients

ASSUME RequestsAssumption == MaxRequests \in 0 .. MaxWrites

VARIABLE side      \* the side that is there in detail

vars == <<clientVars, serverVars, callVars, side>>

Init == CallsInit /\ ClientInit /\ ServerInit /\ side \in {"client", "server"}

-----------------------------------------------------------------------------
(* The abstract peers                                                      *)

(* Of the client: takes calls, when it has room, and answers requests.     *)
Take(s) == Place(s, "calling", "open") /\ UNCHANGED <<requests, responses>>
Answer(s) ==
  /\ call[s] = "open" /\ requests[s] > 0
  /\ requests' = [requests EXCEPT ![s] = @ - 1]
  /\ responses' = [responses EXCEPT ![s] = @ + 1]
  /\ UNCHANGED call
PeerServer ==
  /\ side = "client"
  /\ \E s \in Sessions : Take(s) \/ Answer(s) \/ Break(s)

(* Of the server: calls, and sends on several at a time; sent counts the   *)
(* requests of all.  What they do with an answer the server does not see:  *)
(* responses counts the answers of a call.                                 *)
Call(s) ==
  Place(s, "none", "calling") /\ UNCHANGED <<requests, responses, sent>>
Send(s) ==
  /\ call[s] \in {"calling", "open"} /\ sent < MaxRequests
  /\ requests' = [requests EXCEPT ![s] = @ + 1] /\ sent' = sent + 1
  /\ UNCHANGED <<call, responses>>
PeerClients ==
  /\ side = "server"
  /\ \E s \in Sessions : Call(s) \/ Send(s) \/ (Break(s) /\ UNCHANGED sent)
  /\ UNCHANGED <<userVars, isConnect, clientRunning, loopVars, libVars, eventVars, got, late,
                 clientFault>>

-----------------------------------------------------------------------------
ClientStep(A) ==
  side = "client" /\ clientFault = "none" /\ A /\ UNCHANGED <<serverVars, side>>
ServerStep(A) ==
  side = "server" /\ serverFault = "none" /\ A /\ UNCHANGED <<clientVars, side>>

Next ==
  \/ ClientStep(ClientNext)
  \/ ServerStep(ServerNext)
  \/ PeerServer /\ UNCHANGED <<clientVars, serverVars, side>>
  \/ PeerClients /\ UNCHANGED <<serverVars, side>>

SafetySpec == Init /\ [][Next]_vars

(* The threads run, the library completes what it can, callbacks return,   *)
(* and the end of a call is not held back for ever by other operations.    *)
(* Nobody has to open, write, close or stop, and no call has to end.       *)
Fairness ==
  /\ WF_vars(ClientStep(LoopStep)) /\ WF_vars(ClientStep(session > 0 /\ ClientLibrary))
  /\ WF_vars(ClientStep(StopLoopThread \/ LoopJoined \/ CloseEvent \/ CloseReturn))
  /\ WF_vars(ServerStep(ServerLibrary))
  /\ WF_vars(ServerStep(\E o \in Channels : ChannelDone(o)))
  /\ WF_vars(ServerStep(ServerLoopStep))
  /\ WF_vars(ServerStep(CheckStep))
  /\ SF_vars(ServerStep(\E o \in Channels : TakeTag(<<o, "done", TRUE>>)))
  /\ WF_vars(ServerStep(CheckJoined \/ Stopped))

Spec == SafetySpec /\ Fairness

-----------------------------------------------------------------------------
(* Types of both sides.                                                    *)
TypeOK == CallsTypeOK /\ ClientTypeOK /\ ServerTypeOK /\ side \in {"client", "server"}

(* Every message the user is called back with answers a request of the     *)
(* same session: none comes twice, from the session before, or from a read *)
(* that failed when the call ended.                                        *)
AnswersMatch ==
  (side = "client" /\ session > 0) =>
    got + Cardinality({t \in cq : t = <<"read", TRUE>>})
        + (IF loop = "tag" /\ tag = <<"read", TRUE>> THEN 1 ELSE 0)
        + requests[session] + responses[session] <= sent

(* The client's user is told the truth: about the connection, and about    *)
(* which request of which session an answer belongs to.                    *)
ClientSound == TypeOK /\ EventsTellStatus /\ StreamUsedInTurn /\ AnswersMatch

(* Two operations of one kind meet only in Write: a client has asked again *)
(* before the answer before was out.                                       *)
OverlapsAreWrites == serverFault = "two at once" => serverLoop = "walked" /\ sent > 1

(* The server never runs out of channels, deletes one that is in use only  *)
(* where its call has ended, and never reads twice at once.                *)
ChannelsSound ==
  [](ChannelsKept /\ FaultsNeedAnEnd /\ OverlapsAreWrites) /\ DeletesOnlyEnded

Over == serverApi # "running" \/ serverFault # "none"

(* The server has room again: a call made when all channels were taken, by *)
(* calls that have ended since, is given a channel, if but one can be.     *)
CallsAreTaken ==
  (\E s \in Sessions : call[s] = "calling" /\ serverApi = "running")
     ~> ((\A s \in Sessions : call[s] # "calling") \/ Over
         \/ Cardinality({s \in Sessions : call[s] = "open"}) = MaxChannel)

(* The requests of a call that the server has answered or has yet to       *)
(* answer: on their way, read and ready, in the loop thread's hands, being *)
(* written, and written.                                                   *)
Reading(s) == \E o \in Channels : client[o] = s /\ <<o, "read", TRUE>> \in scq
Handling(s) == \E o \in Channels : /\ client[o] = s /\ serverTag = <<o, "read", TRUE>>
                                   /\ serverLoop \in {"tag", "walk"}
Writing(s) == \E o \in Channels : client[o] = s /\ "write" \in channelOps[o]
AnswersOf(s) ==
  requests[s] + responses[s] + (IF Reading(s) THEN 1 ELSE 0)
    + (IF Handling(s) THEN 1 ELSE 0) + (IF Writing(s) THEN 1 ELSE 0)

(* The n-th request of a call is answered, while the call lasts and the    *)
(* server runs: n answers are written.                                     *)
RequestsAnswered ==
  \A s \in Sessions, n \in 1 .. MaxRequests :
    (call[s] = "open" /\ AnswersOf(s) >= n /\ serverApi = "running")
      ~> (responses[s] >= n \/ call[s] = "ended" \/ Over)

(* Close returns, and Stop too, whatever tags are on their way.            *)
CloseReturns == (api = "close") ~> (api = "idle" \/ clientFault # "none")
StopReturns == (serverApi = "check") ~> (serverApi = "stopped" \/ serverFault # "none")

(* Every wait ends: a call's for a channel, a request's for its answer,    *)
(* Close's and Stop's for their threads.                                   *)
CallsServed == CallsAreTaken /\ RequestsAnswered /\ CloseReturns /\ StopReturns
=============================================================================
