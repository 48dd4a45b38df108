------------------------- MODULE ORpcServiceHandle -------------------------
(***************************************************************************)
(* ORpcServiceHandle and OStreamChannel of grpc/server: channels wait for  *)
(* a call each; the loop thread takes the tags of the completion queue and *)
(* runs the channels' callbacks, which answer every message; the check     *)
(* thread deletes the channels that are disconnected and makes as many     *)
(* anew.  The list of channels has no lock, and a deleted channel may have *)
(* tags on their way: either ends the program (serverFault).               *)
(***************************************************************************)
EXTENDS RpcCalls

CONSTANT MaxChannel                \* m_maxChannel

ASSUME ChannelAssumption == MaxChannel \in Nat \ {0}

(* The channels made at Start, and one for each call that ends.            *)
Channels == 1 .. MaxChannel + MaxOpens

VARIABLES
  channelList,     \* m_channel_list
  made,            \* channels made so far
  freed,           \* channels deleted
  status,          \* m_channelStatus
  client,          \* the call a channel has, 0 for none
  channelOps,      \* its operations the library has not completed
  scq,             \* m_scq: <<channel, operation, ok>> that are ready
  serverApi,       \* Start and Stop
  serverRunning,   \* m_isRunning
  serverLoop, serverTag,    \* the loop thread, and the tag it has taken
  check, unchecked, missing,   \* the check thread, its walk, and cnt
  serverFault

listVars == <<channelList, made, freed>>
channelVars == <<status, client, channelOps, scq>>
serverLoopVars == <<serverLoop, serverTag>>
checkVars == <<check, unchecked, missing>>
serverVars == <<listVars, channelVars, serverApi, serverRunning, serverLoopVars,
                checkVars, serverFault>>

NoServerTag == <<1, "none", FALSE>>

ServerInit ==
  /\ channelList = {} /\ made = 0 /\ freed = {}
  /\ status = [o \in Channels |-> "unconnect"]
  /\ client = [o \in Channels |-> 0]
  /\ channelOps = [o \in Channels |-> {}] /\ scq = {}
  /\ serverApi = "idle" /\ serverRunning = FALSE
  /\ serverLoop = "none" /\ serverTag = NoServerTag
  /\ check = "none" /\ unchecked = {} /\ missing = 0
  /\ serverFault = "none"

(* The threads of a connection are inside the list or a channel.           *)
Walking == serverLoop \in {"walk", "walked"}

-----------------------------------------------------------------------------
(* Start and Stop                                                          *)

Start ==
  /\ serverApi = "idle"
  /\ serverApi' = "running" /\ serverRunning' = TRUE
  /\ made' = MaxChannel /\ channelList' = 1 .. MaxChannel
  /\ channelOps' = [o \in Channels |-> IF o <= MaxChannel THEN {"connect"} ELSE {}]
  /\ serverLoop' = "test" /\ check' = "test"
  /\ UNCHANGED <<freed, status, client, scq, serverTag, unchecked, missing, serverFault,
                 callVars>>

StopCheckThread ==
  /\ serverApi = "running"
  /\ serverRunning' = FALSE /\ serverApi' = "check"
  /\ UNCHANGED <<listVars, channelVars, serverLoopVars, checkVars, serverFault, callVars>>

CheckJoined ==
  /\ serverApi = "check" /\ check = "none"
  /\ serverApi' = "loop"
  /\ UNCHANGED <<listVars, channelVars, serverRunning, serverLoopVars, checkVars,
                 serverFault, callVars>>

(* The channels and the queue are deleted, and the server with all calls.  *)
Stopped ==
  /\ serverApi = "loop" /\ serverLoop = "none"
  /\ serverApi' = "stopped"
  /\ freed' = freed \cup channelList /\ channelList' = {}
  /\ channelOps' = [o \in Channels |-> {}] /\ scq' = {}
  /\ call' = [s \in Sessions |-> IF call[s] = "none" THEN "none" ELSE "ended"]
  /\ UNCHANGED <<made, status, client, serverRunning, serverLoopVars, checkVars,
                 serverFault, requests, responses>>

-----------------------------------------------------------------------------
(* The library completes operations                                        *)

Ready(o, op, ok) ==
  /\ op \in channelOps[o]
  /\ channelOps' = [channelOps EXCEPT ![o] = @ \ {op}]
  /\ scq' = scq \cup {<<o, op, ok>>}
  /\ UNCHANGED <<listVars, status, serverApi, serverRunning, serverLoopVars, checkVars,
                 serverFault>>

Match(o, s) ==
  /\ Place(s, "calling", "open")
  /\ Ready(o, "connect", TRUE)
  /\ client' = [client EXCEPT ![o] = s]
  /\ UNCHANGED <<requests, responses>>

ChannelReads(o) ==
  /\ client[o] # 0 /\ requests[client[o]] > 0
  /\ Ready(o, "read", TRUE)
  /\ requests' = [requests EXCEPT ![client[o]] = @ - 1]
  /\ UNCHANGED <<client, call, responses>>

Gone(o) == o \in freed \/ (client[o] # 0 /\ call[client[o]] = "ended")

ChannelReadFails(o) == Gone(o) /\ Ready(o, "read", FALSE) /\ UNCHANGED <<client, callVars>>
ChannelDone(o) == Gone(o) /\ Ready(o, "done", TRUE) /\ UNCHANGED <<client, callVars>>
ChannelWritten(o) ==
  /\ Ready(o, "write", ~Gone(o))
  /\ responses' = IF Gone(o) THEN responses ELSE [responses EXCEPT ![client[o]] = @ + 1]
  /\ UNCHANGED <<client, call, requests>>

-----------------------------------------------------------------------------
(* LoopThread and the callbacks of OStreamChannel                          *)

ServerLoopTest ==
  /\ serverLoop = "test"
  /\ serverLoop' = IF serverRunning THEN "next" ELSE "none"
  /\ UNCHANGED <<listVars, channelVars, serverApi, serverRunning, serverTag, checkVars,
                 serverFault, callVars>>

TakeTag(t) ==
  /\ serverLoop = "next" /\ t \in scq
  /\ serverTag' = t /\ scq' = scq \ {t}
  /\ serverLoop' = "tag"
  /\ UNCHANGED <<listVars, status, client, channelOps, serverApi, serverRunning,
                 checkVars, serverFault, callVars>>

(* A wait that ends without a tag begins again, while the service runs.    *)
ServerLoopTimeout ==
  /\ serverLoop = "next" /\ scq = {} /\ ~serverRunning
  /\ serverLoop' = "test"
  /\ UNCHANGED <<listVars, channelVars, serverApi, serverRunning, serverTag, checkVars,
                 serverFault, callVars>>

(* The channel of the tag, or the program's end if it is deleted.          *)
Channel == serverTag[1]
Callback(op, to) ==
  /\ serverLoop = "tag" /\ serverTag[2] = op
  /\ serverLoop' = to
  /\ serverTag' = IF to = "test" THEN NoServerTag ELSE serverTag
Fault(op) ==
  IF Channel \in freed THEN "freed" ELSE
  IF op \in channelOps[Channel] THEN "two at once" ELSE serverFault

(* The call is up: the library watches for its end; the first message is   *)
(* asked for.                                                              *)
ChannelConnected ==
  /\ Callback("connect", "test")
  /\ status' = [status EXCEPT ![Channel] = "connected"]
  /\ channelOps' = [channelOps EXCEPT ![Channel] = @ \cup {"read", "done"}]
  /\ serverFault' = Fault("read")
  /\ UNCHANGED <<listVars, client, scq, serverApi, serverRunning, checkVars, callVars>>

(* Mutant: a message is read and not answered.                             *)
ReadDoneUnanswered ==
  /\ Callback("read", "walked")
  /\ serverFault' = Fault("none")
  /\ UNCHANGED <<listVars, channelVars, serverApi, serverRunning, checkVars, callVars>>

(* A message is answered: Write looks the channel up in the list ...       *)
ChannelReadDone ==
  /\ Callback("read", IF serverTag[3] THEN "walk" ELSE "walked")
  /\ serverFault' = Fault("none")
  /\ UNCHANGED <<listVars, channelVars, serverApi, serverRunning, checkVars, callVars>>

ChannelWrite ==
  /\ serverLoop = "walk"
  /\ serverLoop' = "walked"
  /\ IF Channel \in channelList
       THEN /\ channelOps' = [channelOps EXCEPT ![Channel] = @ \cup {"write"}]
            /\ serverFault' = Fault("write")
       ELSE UNCHANGED <<channelOps, serverFault>>
  /\ UNCHANGED <<listVars, status, client, scq, serverApi, serverRunning, serverTag,
                 checkVars, callVars>>

(* ... and the next one is asked for while the channel is connected.       *)
ChannelReadAgain ==
  /\ serverLoop = "walked"
  /\ serverLoop' = "test" /\ serverTag' = NoServerTag
  /\ IF status[Channel] = "connected"
       THEN /\ channelOps' = [channelOps EXCEPT ![Channel] = @ \cup {"read"}]
            /\ serverFault' = Fault("read")
       ELSE UNCHANGED channelOps /\ serverFault' = Fault("none")
  /\ UNCHANGED <<listVars, status, client, scq, serverApi, serverRunning, checkVars,
                 callVars>>

ChannelWriteDone ==
  /\ Callback("write", "test")
  /\ serverFault' = Fault("none")
  /\ UNCHANGED <<listVars, channelVars, serverApi, serverRunning, checkVars, callVars>>

ChannelDisconnect ==
  /\ Callback("done", "test")
  /\ status' = [status EXCEPT ![Channel] = "disconnect"]
  /\ serverFault' = Fault("none")
  /\ UNCHANGED <<listVars, client, channelOps, scq, serverApi, serverRunning, checkVars,
                 callVars>>

-----------------------------------------------------------------------------
(* CheckThread                                                             *)

CheckTest ==
  /\ check = "test"
  /\ check' = IF serverRunning THEN "walk" ELSE "none"
  /\ unchecked' = IF serverRunning THEN channelList ELSE {}
  /\ missing' = 0
  /\ UNCHANGED <<listVars, channelVars, serverApi, serverRunning, serverLoopVars,
                 serverFault, callVars>>

KeepChannel(o) ==
  /\ check = "walk" /\ o \in unchecked
  /\ status[o] # "disconnect"
  /\ unchecked' = unchecked \ {o}
  /\ UNCHANGED <<listVars, channelVars, serverApi, serverRunning, serverLoopVars, check,
                 missing, serverFault, callVars>>

(* The channel leaves the list and the memory.                             *)
Forget(o) ==
  /\ channelList' = channelList \ {o} /\ freed' = freed \cup {o}
  /\ client' = [client EXCEPT ![o] = 0]
  /\ status' = [status EXCEPT ![o] = "unconnect"]

(* Mutant: everything that is not connected is deleted.                    *)
DeleteIdle(o) ==
  /\ check = "walk" /\ o \in unchecked
  /\ status[o] # "connected"
  /\ unchecked' = unchecked \ {o} /\ missing' = missing + 1
  /\ Forget(o)
  /\ serverFault' = IF Walking THEN "list" ELSE serverFault
  /\ UNCHANGED <<made, channelOps, scq, serverApi, serverRunning, serverLoopVars, check,
                 callVars>>

DeleteChannel(o) ==
  /\ check = "walk" /\ o \in unchecked
  /\ status[o] = "disconnect"
  /\ unchecked' = unchecked \ {o} /\ missing' = missing + 1
  /\ Forget(o)
  /\ serverFault' = IF Walking THEN "list" ELSE serverFault
  /\ UNCHANGED <<made, channelOps, scq, serverApi, serverRunning, serverLoopVars, check,
                 callVars>>

Refill ==
  /\ check = "walk" /\ unchecked = {} /\ missing > 0
  /\ missing' = missing - 1
  /\ made' = made + 1 /\ channelList' = channelList \cup {made + 1}
  /\ channelOps' = [channelOps EXCEPT ![made + 1] = {"connect"}]
  /\ serverFault' = IF Walking THEN "list" ELSE serverFault
  /\ UNCHANGED <<freed, status, client, scq, serverApi, serverRunning, serverLoopVars,
                 check, unchecked, callVars>>

(* A second's pause.                                                       *)
AutoSleep ==
  /\ check = "walk" /\ unchecked = {} /\ missing = 0
  /\ check' = "test"
  /\ UNCHANGED <<listVars, channelVars, serverApi, serverRunning, serverLoopVars,
                 unchecked, missing, serverFault, callVars>>

-----------------------------------------------------------------------------
ServerApi == Start \/ StopCheckThread \/ CheckJoined \/ Stopped
ServerLibrary ==
  \E o \in Channels :
    \/ \E s \in Sessions : Match(o, s)
    \/ ChannelReads(o) \/ ChannelReadFails(o) \/ ChannelDone(o) \/ ChannelWritten(o)
ServerLoopStep ==
  \/ ServerLoopTest \/ ServerLoopTimeout \/ (\E t \in scq : TakeTag(t))
  \/ ChannelConnected \/ ChannelReadDone \/ ChannelWrite \/ ChannelReadAgain
  \/ ChannelWriteDone \/ ChannelDisconnect
CheckStep ==
  \/ CheckTest \/ Refill \/ AutoSleep
  \/ \E o \in Channels : KeepChannel(o) \/ DeleteChannel(o)

ServerNext ==
  serverFault = "none" /\ (ServerApi \/ ServerLibrary \/ ServerLoopStep \/ CheckStep)

ServerOps == {"connect", "read", "write", "done"}
ServerTags == (Channels \X ServerOps \X BOOLEAN) \cup {NoServerTag}

ServerTypeOK ==
  /\ made \in {0} \cup Channels
  /\ channelList \subseteq 1 .. made /\ freed \subseteq 1 .. made
  /\ status \in [Channels -> {"unconnect", "connected", "disconnect"}]
  /\ client \in [Channels -> {0} \cup Sessions]
  /\ channelOps \in [Channels -> SUBSET ServerOps] /\ scq \subseteq ServerTags
  /\ serverApi \in {"idle", "running", "check", "loop", "stopped"}
  /\ serverRunning \in BOOLEAN
  /\ serverLoop \in {"none", "test", "next", "tag", "walk", "walked"}
  /\ serverTag \in ServerTags
  /\ check \in {"none", "test", "walk"} /\ unchecked \subseteq channelList
  /\ missing \in 0 .. MaxChannel
  /\ serverFault \in {"none", "freed", "list", "two at once"}

(* Whatever clients come and go, the check thread keeps as many channels,  *)
(* none of them deleted, as there were at the start.                       *)
ChannelsKept ==
  /\ channelList \cap freed = {}
  /\ serverApi \in {"running", "check", "loop"} =>
       Cardinality(channelList) + missing = MaxChannel

(* It deletes no channel whose call is up, nor one that still waits for a  *)
(* call, or for its tag.                                                   *)
DeletesOnlyEnded ==
  [][\A o \in freed' \ freed :
       serverApi' = "stopped" \/ (client[o] # 0 /\ call[client[o]] = "ended")]_serverVars

(* While no call has ended the server uses nothing that is deleted and     *)
(* walks no list that changes; the reads of a channel never overlap.       *)
FaultsNeedAnEnd ==
  /\ serverFault \in {"freed", "list"} => \E s \in Sessions : call[s] = "ended"
  /\ \A t \in scq : t[2] = "read" => "read" \notin channelOps[t[1]]
=============================================================================
