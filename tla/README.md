# Verification of the Firefly media system, base module

TLA+ specifications of the base module (`BasicModule/src/FMS`) of the Firefly
media system, the TLC configurations that check them on small instances, and
TLAPS proofs of the theorems that matter most. The base module is the part of
the repository that holds code: a server process (`fms.cpp`, `core`) with an HTTP
service (`app`, `http`), an asynchronous log and the small runtime library they
are built on (`common`), and TCP, REST and gRPC building blocks that the process
does not use yet. `DataAcquisitionCodecModule` and `RegistrationAndLoginModule`
hold project files and placeholders.

Line numbers below are those of the source files of the repository.

## 1. Inventory

### How the parts interact

```
 fms.cpp main ── OServer::Init / Run / Loop            (OBasisInit, Config, OLogger)
                   └─ OHttpService::Start / Stop
                        └─ OHttpServer  Start Stop Add Delete GetHttpHandle
                             └─ OHttpListener (one evhttp each, a shared socket)
                                  protect thread    counts requests, sets the flags
                                  dispatch thread   event_base_loop → MessageCallback
                                       │ XQueue + OEvent
                                  receive thread    OnRecv → Dispatch to an idle processor
                                       │ XQueue + OEvent, idle flag (one per processor)
                                  processor threads OnProc → URL handler → reply
 every thread ── OLogger ── FmsLog::printstr
                                       │ AtomicQueueB2 + OEvent
                                  SyncProc thread   pages → Backup → current file
                                  Compress thread   packs yesterday's folder, DelFile
```

### Components, their state, operations and what makes them correct

| component | state | operations | what makes it correct |
|---|---|---|---|
| HTTP listener (`OHttpListener`, `OHttpProcessor` in http/OHttpServer.cpp) | run flag, event base and its break flag, receive queue and event, per processor a queue, an event and an idle flag, request counter, overload and high-load flags | Start, Stop, MessageCallback, the loops of four kinds of threads | a request record has one owner at a time; every accepted request is answered once or dropped by Stop; no thread sleeps on work or on Stop; Stop frees nothing in use; a request goes to an idle processor |
| HTTP server (`OHttpServer`) and its user `OHttpService` | list of listeners, map URL to handler, and a copy of the map in every processor | Start, Stop, Add, Delete, GetHttpHandle; lookups by processor threads | all processors answer alike; what is reported is what is served; no deleted handler is called |
| Event (`OEvent`) | signalled flag, manual flag, blocked threads | Set, Reset, Wait, timed Wait | no lost wakeup; manual and automatic reset as documented |
| Request queue (`XQueue`) | list, size, mutex | PushBack, PopFront, Clear, Size | FIFO; Clear frees what it removes |
| Thread (`OThread`) | handle | Start, Kill, Join, Detach, Cancel | its one user, `OTcpServer`, starts it and never joins it |
| Asynchronous log (`FmsLog`) | atomic queue, event, current file, its size and date, folder to pack | printstr, SyncProc, print, constructor, destructor | lines in order, each once; none stranded; the queue's bound |
| Rotation, packing and deletion (`FmsLog`) | files by second, folders by day, archives | Backup, Compress, removeDir, DelFile | no file is emptied; a folder is removed only when packed, never the one in use; bounded files |
| Atomic queue (`atomic_queue.h`) | head and tail tickets, a state and an element per slot | push, pop, was_size | FIFO, no element lost or read twice; an element is touched by the thread that won its slot only |
| Logger facade (`OLogger`) | level, log | Init, Info, Error, ... | level filter |
| Server life cycle (`OServer`, `fms.cpp`) | run status, loop event, map of services | Init, Run, Loop, BreakLoop, Deinit, AddService, GetService | a service's listeners end before it is freed; the unlocked lookup is safe; the process ends when told to |
| Configuration (`Config`, `ConfigFile`) | key/value map | Load, Get, StringTrim | values as in the file, whatever its line ends; the first setting of a key stands |
| TCP server (`OTcpServer`) | event base, listener, client map, callback and context, dispatch thread | Start, Stop, SendMsg, SetMsgCallback, libevent's callbacks | no write to a freed client; an entry of the map is the client connected there; the loop goes on |
| REST pool (`RestClientPool`) and HTTP client (`CHttpClient`) | idle curl handles, and the options each remembers | Post, Get, PostLongLink, GetLongLink | a handle has one user; a Post sends its own body; no handle is lost |
| gRPC stream server (`ORpcServiceHandle`, `OStreamChannel`) | list of channels with their status, loop and check threads | Start, Stop, callbacks, Write, the check thread's walk | as many channels as at the start; only ended ones are deleted; calls are taken and requests answered |
| gRPC stream client (`ORpcStreamClient`) | connection status, loop thread, completion queue, stream | Open, Write, Close, callbacks | the user is told the status it has; one read at a time; Close returns |
| Common tools (`CommonTools`) | none | dates, time zones, texts, checksum | agree with their definitions |

### What is hard here

* **Wakeups.** Every consumer (receive thread, processors, SyncProc) runs the loop
  *pop; if empty: wait, reset, again* against producers that *push, set*. The events
  differ by platform: on WIN32 they stay set until reset, on POSIX a wait takes the
  signal.
* **Stop.** Threads are stopped by a flag, an event or a libevent break, and a join,
  in an order that must neither free what is in use nor miss a thread that is about
  to sleep.
* **Flags without locks.** Idle marks, overload flags, the request counter, `m_pFile`,
  `m_CompressFolder` are read and written by several threads.
* **Maps copied per processor**, changed one by one by calls that can fail half way.
* **Files named by the second**, folders by day, and a second thread that removes them.
* **Addresses and handles that come back.** A bufferevent is freed and another allocated at its address;
  a curl handle returns to the pool with pointers to what its last user has freed; the tickets of the atomic queue wrap around.
* **Tags in flight.** gRPC hands completed operations over through a queue: a call can end, a channel be
  deleted or a session be closed while tags of it are still in it.
* **Arithmetic** on dates, tables of a checksum and lengths in bytes, where an error shows on one day, one
  byte or one length in hundreds.

`PROJECT.json` lists each hazard with its line and the properties that watch it.

## 2. The modules

| module | models | composes or refines |
|---|---|---|
| `HttpService` | what the listener promises: requests are accepted, answered (served, refused or "overload") and dropped only while it stops | abstract specification |
| `OHttpListener` | the listener with its processors, queues, events and libevent's loop | implements `HttpService` (`ImplementsService`) |
| `MCOHttpListener` | instances, symmetry, `BusySpec` | extends `OHttpListener` |
| `OHttpListenerProofs` | type correctness, four safety theorems, one owner per request, what Stop leaves, and the refinement | extends `OHttpListener`, TLAPS |
| `Event` | the event as its comments describe it | abstract specification |
| `OEvent` | the POSIX event: mutex, condition variable, timed wait | against `Event` twice |
| `OEventProofs` | no lost wakeup, and the refinement | extends `OEvent`, TLAPS |
| `OHttpServer` | handler maps of server and processors under Start, Stop, Add, Delete | – |
| `MCOHttpServer` | instance with two handlers competing for one URL | extends `OHttpServer` |
| `OHttpServerProofs` | the three properties of the server | extends `OHttpServer`, TLAPS |
| `FmsLog` | the asynchronous log with rotation, packing and deletion | – |
| `MCFmsLog` | instances | extends `FmsLog` |
| `FmsLogProofs` | type correctness and eight properties of the log | extends `FmsLog`, TLAPS |
| `FifoQueue` | a queue of tickets: the *n*-th pop receives the *n*-th push | abstract specification |
| `AtomicQueue` | `AtomicQueueB2`: tickets, index mixing, slot states | implements `FifoQueue` (`ImplementsFifo`); replaces nothing in `FmsLog`, whose FIFO it justifies |
| `OServer` | main, the loop event, the map of services, their threads' lookups, listeners that failed to start | the event is the one of `OEvent`, either kind |
| `OServerProofs` | type correctness and the three safety properties, together `ServicesSound` | extends `OServer`, TLAPS |
| `OTcpServer` | the TCP server, its dispatch thread, clients and users | – |
| `OTcpServerProofs` | type correctness and the safety properties, together `ClientsSound` | extends `OTcpServer`, TLAPS |
| `RpcCalls` | the calls between client and server, and the messages on them | external: the gRPC library |
| `ORpcStreamClient` | the stream client over several sessions | extends `RpcCalls` |
| `ORpcServiceHandle` | the stream server: channels, loop thread, check thread | extends `RpcCalls` |
| `RpcStream` | each of the two against an abstract peer | extends both |
| `RpcStreamProofs` | `ClientSound` and `ChannelsSound` | extends `RpcStream`, TLAPS |
| `RestClient` | the HTTP client and its pool of curl handles | – |
| `Dates` | the date functions of `CommonTools`, next to the calendar | – |
| `Texts` | the functions of `CommonTools` that filter and cut texts, next to what a well-formed text is | – |
| `Checksum` | the loop of the Modbus checksum and its tables, next to the polynomial | – |
| `ConfigFile` | the configuration file: loading, trimming, looking up | – |
| `Libraries` | runs the client, and the functions over every input of the bounds | extends the five above |
| `LibrariesProofs` | what the rest is built on: the atomic queue (`QueueSound`, `ImplementsFifo`), the HTTP client (`HandlesSound`, `PoolSound`), the calendar (`CalendarSound`), texts (`TextsSound`), the checksum (`ChecksumIsModbus`) and configuration files (`ConfigSound`) | extends `AtomicQueue`, `RestClient`, `Dates`, `Texts`, `Checksum`, `ConfigFile`, TLAPS |

### OHttpListener

One program counter per thread (`api` for the thread that calls Start and Stop,
`protect`, `disp`, `recv`, `proc[p]`), one action per step between two accesses
to shared state. Requests are model values; `record` says whether their record is
allocated, `reply` what was answered. `Start` creates the threads one by one; it may fail when
its processors run, at the base, the evhttp or the socket (a thread that cannot be created throws, which is not modelled);
`Stop` clears the run flag, joins the protect thread, breaks the loop, joins, clears the receive queue, stops and deletes every processor.
libevent is external and modelled as used: `event_base_loop` forgets on entry a break
requested earlier, returns after a poll on WIN32, after a network event or a break on
POSIX (`EVLOOP_ONCE`, `OHttpServer.cpp:861-876`). `Posix` selects the build.
`Reading a flag` and `writing it` are separate steps wherever the code separates
them: Dispatch looks for an idle processor, claims it, pushes, and signals it in four
steps; a processor that finds its queue empty marks itself idle in a step of its own.

### OHttpServer

The calling thread walks the processors one at a time; an insertion or removal in a
processor's map has a beginning and an end, so that the unlocked `GetUrlHandler`
(`OHttpServer.cpp:476-488`) can meet it half done. `kept` is a history variable: the
set of call orders (that of `OHttpService`, that of the header's comment, and *stop
before delete*) which the calls so far have kept to. Properties that hold for one
order only are conditional on it, so that one state space answers all of them.

### OEvent and Event

`Event` is the event of the comments: *manual* keeps the signal and releases everybody,
*automatic* is taken by one waiter. `OEvent` has the mutex-protected steps of
`WaitImpl`, including spurious wakeups and time-outs. Its two instances of `Event`
differ in the meaning of the constructor's argument: `ImplementsInverted` holds,
`ImplementsDocumented` does not.

### FmsLog

The owner (constructor, destructor), the callers of `printstr`, SyncProc and
Compress are threads; the clock advances freely. A file is the second in its name,
its folder the day of that second; a line has size one. The destructor runs when
no call is under way, as C++ requires. Environment failures – the folder, the file, tar – may
happen at any time. A crash (`fault`) ends the behaviour and remembers its
cause. The queue is a FIFO sequence: only SyncProc pops, and `QueueNeverFull` shows that pushes never
have to wait for a slot, which is what the abstraction rests on (`LogPushNeverSpins` of `AtomicQueue` shows it of the slots;
both are proved, for any number of callers and any size).

### AtomicQueue and FifoQueue

A push draws the next ticket of `head_`, a pop of `tail_`; each then waits until the slot of its ticket has the state it
needs, wins it, copies the element and leaves it in the next state (`EMPTY → STORING → STORED → LOADING → EMPTY`).
`DrawHead` is the `fetch_add`, `Storing` the compare-and-exchange, `Stored` the store that releases the slot; a compare that fails
changes nothing and is no step. Tickets are numbers modulo `2^Width`, and wrap in the run. Producers
may first test `was_size` as the log does (`ReadHead`, `WasSize`, `Refuse`, `Admit`; head and tail are read in two steps), or
push at once; `turn` of a producer between the test and its push is a history variable, the number of pushes when it read the
head. `RemapIndex` is the mixing of index bits.
In `FifoQueue` a push and the request of a pop are numbered, and the *n*-th request receives the *n*-th push. That is
what the queue promises until it is overrun: until more tickets are pushed ahead of the pops than there are slots, when two
pushes wait for one slot and either may win it.

### OServer

`pc` is where main is, `at` the service it is at; the walks of Start, Stop and Remove over the map
take one step per service. The threads of a service (one per service, `worker`) look up any service, in two steps, without
the lock: between them main may go on. `Stop` of a service ends the threads of the listeners in its list before it returns, and so does the
destructor, which calls it. A listener whose Start failed was never put into the list (`OHttpServer.cpp:182-188`): its protect and processor
threads run already and nothing joins them. `lost` is the set of services with such a listener; it has no dispatch thread, so it serves
nothing and looks nothing up, and nothing ever takes a service off the set. `selfReset` chooses the build of the event.

### OTcpServer

Each Start has its dispatch thread, event base and number, since Stop neither joins the thread nor ends its loop: a
second Start can meet the first's thread. A bufferevent is an address; `live` says whose it is, `clientMap` is the map under
`m_mutex`. `broken` ends the behaviour when freed memory is used: properties say when that can be.

### RpcStream

The library completes each operation once, by a tag in a completion queue: `ops` are the operations under way,
`cq` the tags. A call is *none, calling, open* or *ended*, and anybody may end it at any time (`Break`). The two sides are modelled in full
and each is checked against a peer that does whatever the other could (`side`): their only link is `RpcCalls`. Misuse of the
library (two reads or two writes at once, an operation of a deleted channel, a list changed while it is walked) ends the behaviour and
is remembered in `clientFault` and `serverFault`. On the server's side `requests` counts the messages of a call the library has yet to hand over and
`responses` the answers it has written; `AnswersOf` adds up both and what lies in between: a message read, one in the hands of the loop
thread, an answer being written. What the clients do with an answer the server does not see, and they have no action for it.

### RestClient, Dates, Texts, Checksum, ConfigFile

A curl handle is named by the call that created it, and a pointer it keeps by the call that owns what it points to, so that a
pointer that is left from an earlier call is seen. A function without a loop is an operator. The loops over a
text, a frame or a file are actions, one per turn: `CopyChar` and `SkipByte` of `FilterNoneUtf8Chars` (both of its loops, the one that looks for
the first bad byte and the one that copies the rest: they make the same tests, and up to there the text is copied as it is), `CountChar` of
`GetSubStrLen`, `ReadByte` of `usMBCRC16`, `LoadLine` of `CConfigFile::Load`; before a loop begins the text, frame or file is made, byte by byte, by
`MoreText`, `MoreFrame` and `MoreFile`, so that any can occur. Client, calendar, texts, frames and files are specifications of their own
(`ClientSpec`, `CalendarSpec`, `TextsSpec`, `FrameSpec`, `FileSpec`). `Libraries` takes a step of one of them, chosen by `subject` for a whole behaviour, so that each
behaviour of `Libraries` is one of each of the five, whatever its subject. A stamp is modelled in hours: `FastSecondToDate`
truncates minutes, hours and days alike (towards zero, so that before 1970 a stamp within an hour takes the path of that
hour's end). A byte of a text is the number of bytes of the character it begins (0 for a
continuation byte, 7 for one that begins none). A byte of a frame is the set of its bits that are one, so that `^` is the
symmetric difference of two sets; `Number` and `Bits` go from such a set to an index of the tables and back.

## 3. The runs

| run | question | bounds | fairness |
|---|---|---|---|
| `listener_safety` | ownership of records, wakeups, frees, from Start to the end of Stop, WIN32 | 2 requests, 2 processors, limits 0 for overload and 1024, out of reach, for high load | none |
| `listener_service` | refinement of `HttpService`; a request waits behind at most one | 3 requests, 1 processor: one served, one queued, one too many | none |
| `listener_posix` | progress on POSIX, overload passes | 2 requests, 1 processor, limits 0 and 1 so that both flags rise | WF per thread, and network events keep coming |
| `listener_stop_hangs` | does Stop return without traffic? **violated** | 1 request | WF per thread |
| `server_orders` | maps agree, nothing deleted is registered, reported is served, stop before delete is safe | 2 URLs, 3 handlers (two compete), 2 listeners of 2 processors | none |
| `log_pipeline` | order, exactly once, wakeups, bounds, packing, progress | 2 callers, 3 lines, queue limit 2, pages of 1, 2 days of 2 seconds | WF of SyncProc and of calls begun |
| `event_posix` | no lost wakeup; inverted refinement; waiters are reached | 3 threads, both kinds of event | WF of Set's effect and of each waiter |
| `atomic_queue` | slots guarded; FIFO until overrun; the log's pushes find room; pops end | 2 producers, 2 consumers, 4 slots, 8 tickets starting at 6, 5 pushes, 3 pops | WF per thread |
| `server_lifecycle` | frees, what Stop cannot reach, unlocked lookups, the end of the process, Deinit | 2 services, 2 callers of BreakLoop, both builds of the event | WF of main, of the threads' steps once begun, of the second half of BreakLoop |
| `tcp_server` | use after free, stale entries, the pair of callback and context, the loop after a failed accept | 2 addresses, 2 clients, 2 users, 2 settings of the callback, 2 Starts | SF of the dispatch thread's steps, WF of the users' critical sections |
| `rpc_stream` | events, reads and writes in turn, channels kept, calls taken, answers, Close and Stop | 2 sessions, 2 writes each, 1 channel, 1 request of the abstract clients | WF of threads and library, SF of a channel's end being handed over |
| `libraries` | the HTTP client's handles; functions against definitions | 2 callers, 3 calls; 1970 to 2125; 6 hours; texts to 5 bytes; frames to 3 bytes; files to 6 characters | none |

Where several claims are about one subject the run checks their conjunction; each conjunct has a name and a comment
of its own in the module, and TLC names the state in which one fails:

| property | its parts |
|---|---|
| `ProcessorsSound` (`server_orders`) | `TypeOK`, `ProcessorsAgree`, `RegisteredNotDeleted` |
| `QueueSound` (`atomic_queue`) | `TypeOK`, `SlotsGuarded`, `LogPushNeverSpins` |
| `ServicesSound`, `ProcessEnds` (`server_lifecycle`) | `TypeOK`, `FreedAreStopped`, `LostAreLast`, `LookupsAreSafe`; `BreakEndsProcess`, `DeinitCompletes` |
| `ClientsSound` (`tcp_server`) | `TypeOK`, `OnlyStopBreaks`, `ListedAreConnected`, `FirstCallbackWhole` |
| `ClientSound`, `ChannelsSound`, `CallsServed` (`rpc_stream`) | `TypeOK`, `EventsTellStatus`, `StreamUsedInTurn`, `AnswersMatch`; `ChannelsKept`, `FaultsNeedAnEnd`, `OverlapsAreWrites`, `DeletesOnlyEnded`; `CallsAreTaken`, `RequestsAnswered`, `CloseReturns`, `StopReturns` |
| `HandlesSound`, `PoolSound` (`libraries`) | `ClientTypeOK`, `HandlesAlone`, `PostsSendTheirOwn`; `PoolBounded`, `OnlyPostsLeaveTraces`, `OnlyRefusedLeak` |
| `CalendarSound`, `TextsSound`, `ChecksumIsModbus`, `ConfigSound` (`libraries`) | `StampsNumberDays`, `ShiftedStampsReturn`, `VerifiesCalendar`, `BeijingIsAhead`, `BackToUTC`; `FilterYieldsUtf8`, `CutsBetweenCharacters`, `CutsBetweenPairs`; `TablesArePolynomial`, `SentFramesCheck`, `BurstsAreDetected`; `LineEndsAgree`, `FirstSettingStands` |

The types of the listener, the log and the event, and `QueueNeverFull` of the log, are in no run: they are proved for all
constants (section 5).

Why the bounds are enough to be of interest: the races are between one producer and
one consumer of a queue (two of each exist in every instance), between Stop and each
thread, and between two processors competing for one request; `AtMostOneBehind` needs three
requests at one processor to fail, `QueueNeverFull` two callers at the limit,
the folder properties a change of day with a file on each side of it, and
`ProcessorsAgree` at least two listeners, since Add and Delete walk two nested lists.
The atomic queue has fewer slots than tickets and as many pushes as make a slot be used twice and the counter wrap;
`OTcpServer` has an address that is used by both clients; the stream server has fewer channels than calls, so that one call must wait for
a channel to be deleted and replaced. It is sent one request, since the liveness of two takes more than five minutes to check; with two, `SafetySpec`
and the safety properties alone pass in 398,964 states, writes that overlap among them, and the theorem is for any number.
Three calls of the HTTP client are enough for a Get on a handle that a Post has left while another
call holds a second one. Years 1970 to 2125 have both kinds of century, also for the functions that are twenty years off.
Frames of three bytes take the loop through any index at first and let a change of two bytes be followed by a third; a frame longer than the 255
bytes that `usLen` can count, of which only the rest is read, is beyond the run and covered by the theorem.
The theorems remove the bounds where there are proofs.

**Fairness.** Each thread of the listener is weakly fair: the operating system
runs it, and every mutex is held for a few statements. Requests, Start and Stop
are never forced. `BusySpec` adds weak fairness of `NetworkEvent`: some connection
shows activity from time to time, which is what lets a blocked POSIX loop return.
Without it Stop can hang (`listener_stop_hangs`). In the log SyncProc, the constructor and
calls under way are fair; nobody has to log, and nothing relies on Compress. `OServer`, `OTcpServer` and `RpcStream`
follow the same rule: a thread in the middle of its work goes on, and nobody is made to call, connect, send, break or stop. Where a step needs a mutex that
others take again and again (`OTcpServer`), or a tag that others may overtake (`RpcStream`), it is strongly fair: neither pthreads and Windows locks nor gRPC's queue starve a waiter for ever.

**Deadlock.** The listener, the log, the events, the server, the clients and the queue have legitimate final states (stopped,
destroyed, all threads done, bounds used up), so their configurations do not ask for its absence; the progress
properties do. `server_orders` checks it: a call can always be made.

## 4. Findings and known limits

One finding has a run of its own, `listener_stop_hangs`:

1. `OHttpListener::Stop` can wait for ever on POSIX: a loop break requested before the
   dispatch thread enters `event_base_loop` is forgotten (`OHttpServer.cpp:981`).

These are stated in the modules as properties that do not hold. No run checks them; to see a
counterexample, check the property with the constants of the run named.

2. `DispatchedToIdle` (`listener_safety`). A processor can mark itself idle after a request was queued at it and then be
   handed another while other processors are free (`OHttpServer.cpp:740`). The damage is bounded: `AtMostOneBehind` is proved.
3. `HeaderServesHandles` (`server_orders`). A handler added before Start, as the comment of `OHttpServer.h` prescribes, is never served
   (`OHttpServer.cpp:233`).
4. `ServiceProtects` (`server_orders`). Delete frees a handler that a processor thread may be running (`OHttpServer.cpp:290`); stopping
   the server first is safe (`StopFirstProtects`).
5. `ImplementsDocumented` (`event_posix`). On POSIX the meaning of the event's constructor argument is exchanged
   (`OEvent.cpp:89` against the comment at `OEvent.h:140-156`).
6. `NoThreadOutlives` (`server_lifecycle`). When a listener fails to start, after its protect and processor threads were created, it is in no list
   (`OHttpServer.cpp:182`): neither Stop nor the destructor joins these threads, which run on after Deinit. `LostAreLast`: it is one listener at most.
7. `TurningKeepsFiles` (`log_pipeline`). Turning to a new log file twice within one second empties the file just written
   (`FmsLog.cpp:841`).

Others are part of the properties that do hold, which say exactly how far the code goes:

8. `OnlyPostsLeaveTraces`: a long-link Get on a handle that a Post used sends a POST with that call's freed body and headers (`RestClientPool.cpp:258`).
   `OnlyRefusedLeak`: a short link leaks its handle when the header list cannot be built (`HttpClient.cpp:73`).
9. `StampsNumberDays`, `ShiftedStampsReturn`: `tmtoT` has a 29 February 2100, and in every other century that has none
   (`CommonTools.cpp:244`). `ShiftedStampsReturn`: the functions that count years from 1920 give a date before 1990 back as the day
   after unless it is midnight, since its stamp is negative and is truncated upwards (`CommonTools.cpp:982`); this was found on the way to a
   proof, when the rest of the day turned out not to pass unchanged. `BackToUTC`: in the first eight
   hours of a month `BeijingToUTC` names the last day of that month, not of the one before (`CommonTools.cpp:2579`).
10. `LineEndsAgree`: a blank between a value and a carriage return stays (`ConfigFile.cpp:80`).
11. `OnlyStopBreaks`: `OTcpServer::Stop` frees the base under its dispatch thread (`OTcpServer.cpp:253`).
12. `FaultsNeedAnEnd`: when a call ends, the check thread deletes a channel whose tags may be on their way and changes the list
    that Write walks (`ORpcServiceHandle.h:128`). `EventsTellStatus`, `StreamUsedInTurn`: an OnConnected that runs after Close began leaves the
    status set into the next session (`ORpcStreamClient.h:228`).
13. `OverlapsAreWrites`: `OnReadDone` asks for the next request as soon as Write has begun to send an answer (`OStreamChannel.h:107-114`, `ORpcServiceHandle.h:50`),
    so that the Write for a client's second request can meet the first one still under way, which gRPC forbids. With `MaxRequests = 2` and `SafetySpec`, TLC
    reaches `serverFault = "two at once"`.
14. `LookupsAreSafe`: after a Stop that failed, or one that came late, a service can be looked up that is being freed (`OServer.cpp:247`).

## 5. The proofs

Eight modules are checked by TLAPS with SMT, Zenon and PTL – those of section 2 whose names end in `Proofs` –, for
every set of requests, URLs and addresses, every number of processors, callers, lines, days, services, calls, clients, sessions and channels, every
size of the atomic queue and width of its counters, every year, texts, frames and files of every length, and both builds of the listener. They assume only the `ASSUME`s of the modules: the null request is no request, a null handler no handler and a null
address no address, every handler has its URL, the numbers of processors and listeners are positive, no user is called "free", the limits are natural numbers (positive where the code's are, the queue's at least 2),
the callers are finitely many and none is named like the line SyncProc adds, there is a service at least, the
calls made on a pool are bounded by some natural number, a thread of the atomic queue is a producer or a consumer, producers are finitely
many, powers of two double (`PowerAssumption`: the prover knows nothing of `^`; TLC evaluates it up to the width), and no year is later than
6052, since `FastSecondToDate` counts minutes in an `int`, and bytes and characters are of the classes that `Texts` and `ConfigFile` tell apart, those of a frame at most 255.

* `TypeCorrect`. `TypeOK` is inductive.
* `RecvNeverStranded`, `ProcNeverStranded`. The property alone is not inductive: it
  says nothing while a thread is between its empty pop and its wait. `RecvWakeInv` and
  `ProcWakeInv` add that from the reset to the next pop nothing can be forgotten, and that each producer
  or Stop, once it has pushed or lowered the flag, is still on its way to set the event.
  `LifeInv` ties the threads' states to that of Start and Stop.
* `NothingUsedAfterFree` follows from `LifeInv`: when Stop frees, the thread that
  used it has been joined.
* `WaitsBehindAtMostOne`. `StaleInv` describes when an idle mark may be stale – only while its
  processor is between its empty pop and its next busy mark –, `HandInv` what Dispatch holds in
  hand, `LoadInv` bounds the queue accordingly. Together they exclude a third request.
* `OneOwner`, `OnlyRefusedLeak` and `ImplementsService`. `OwnInv` says without counting what `OneOwner`
  counts: no queue has a request twice, no two places have the same, and a request waits for its answer exactly if it is somewhere.
  Nine steps move requests; `Moves` shows that no other touches one. It is inductive only with `HandInv` and `RecvHandInv` (a thread
  that takes a request has none, or it would lose one) and `EmptyInv` (the queue Start clears is empty; what Stop has cleared stays so).
  At the end of Stop every place is empty (`NothingLeft`), which gives the leak bound and the step `Closed` of the service; each of the
  nine steps maps to a step of `HttpService` or to none.
* `IInv` is the conjunction; one lemma per part shows that it is preserved, one step per action.
* `NoLostWakeup` and `Refinement` (every step of the POSIX event is a step
  of the inverted `Event` or a stutter) for any set of threads.
* The log. `LifeInv` says what the owner's progress implies for the others: nothing is queued or being logged before
  the constructor ends, a log whose threads run is in service only with its queue created, and the file is open
  while SyncProc is about to write to it. `LogServiceSound` and `LogSyncNotStranded` follow.
  `LogQueueNeverFull` is inductive by itself, over the number of callers between check and push.
  `FolderInv`: the current file lies in the folder of `curDate`, which is never in the future; what there is to
  pack lies strictly before it and is at most one folder; between packing and removal
  the folder only loses files. It gives `LogFolderInUseUntouched` and `LogRemovedIsPacked`.
  `SizeInv` (a file holds no more than was counted for it) gives `LogFileSizeBounded`.
* `LogLinesInOrder` rests on `OrderInv`, which orders the contents of all files, the batch
  and the queue and says that no file is later than the current one, and on `CountInv`: no line anywhere is
  one its caller has yet to push. Its lemmas say what appending, taking the head, concatenating and taking
  off a page do to the order.

* The server. `IInv` of `OServerProofs` is `TypeOK` with four parts: `AtStart` (a walk over the map begins at its first service),
  `Quiet` (before Run no service runs, what StopServiceThread has walked past is stopped, and once its walk is over without a failure
  no service runs), `FreedAreStopped` and `LostInv` (nothing is lost before a Start failed, and while main starts services those it
  has yet to start have no thread, which is what `LostAreLast` says once Run is over). `FreedServicesAreStopped` and
  `LookupsWithoutLockAreSafe` (the list is not changed while a thread of a service can walk it) follow.
* The HTTP server. `ProcessorsAgree` speaks of the time between calls only. `AgreeInv` adds what holds during the walk of an Add or a
  Delete: processors before the position know the handler (have forgotten it), those from it on do not (have), and on all other URLs they
  agree; that an Add undone half way leaves no trace rests on it. `FreshInv` says that what a failed Start leaves behind knows no
  handler, `ServedInv` relates the server's own map to the walk, and `ThreadsInv` keeps threads in handlers to listeners that are up.
* The TCP server. `LoopInv`: a base is dispatched by one thread, which alone handles the bufferevents made with it – so a client freed
  by one thread is in no other's hands, even with two dispatch threads after a restart. `MapInv`: who is connected is listed, but for the client
  being added or freed, and a sender's client stays listed while it holds the mutex. `FirstInv`: before the first Stop there is one base.
  `CallbackInv`: a callback is set after its context and never unset.
* The REST clients. `HandlesAlone` – no two calls hold one handle, and none that is pooled – is inductive only with
  `NumbersAlone`, which says the same of the handles in the free list against each other and against those still to be
  created, and with `HandleWhenHeld`, which ties a call's handle to where the call is.
  `PostsAreTheirOwn`, that a Post sends the body and header list of its own call whatever the handle remembers, rests on
  it: between setting an option and performing, nobody else sets one on that handle.

* `PoolSound`. `PoolInv` adds: a handle serves one kind of link all its life, only handles of long links are pooled, and the destructor
  empties the pool for good (`LinksAgree`); a handle of a short link whose header list could not be built lives on, but is
  nobody's (`RefusedApart`), while every other
  live handle is pooled or held by a call (`LiveAre`), from which `OnlyRefusedLeak` follows. `RoomInv` is what `PoolBounded` counts with: the handles of long
  links and the callers about to make one are never more than the callers. `TracesInv`: only a Post sets a body, together with a list of the same
  call, and what is left of one in a handle belongs to no call under way but the Post on that handle.
* The gRPC client. `LoopInv`: the loop thread is there while the stream is, and has a tag only while it deals with it. `EventInv`: what the
  user was told last, in every state of the loop thread and of the calls. `OpsInv`: an operation is under way, or ready in the queue, or in the
  loop's hands, in one of these places only, and none reads before the call is up – which makes `StreamUsedInTurn` inductive. `MessageInv` counts an answer
  once on its way from the server to the callback. Together they give
  `EventsTellStatus` – the user was last told the status the client has, but for an OnConnected that overtakes a Close – and `AnswersMatch`.
* The gRPC server. `ListInv`: the channels in the list, those deleted and those still to be made anew add up; `FreshInv`: a channel that
  is not made yet has nothing; `CallInv`: a call is given to one channel, once, so no more channels are deleted than calls were taken;
  `EndInv`: only a call that has ended disconnects its channel; `ReadInv`: a channel's operations are in one place each, and none reads before its call came;
  `FaultInv`: deletions and faults need a call that has ended; `AnswerInv`: a request becomes one answer at most; `IdleInv`: a channel
  of the list without a call has at most asked for one, so that every write is of some call, and two writes at once take two requests (`TwoAnswers`), which gives `OverlapsAreWrites`. `ChannelsKept` follows
  from the counts, `DeletesOnlyEnded` from `EndInv`, `FaultsNeedAnEnd` from `FaultInv`, which rests on `EndInv` and `CallInv`.
* The atomic queue. `SlotsGuarded` alone says nothing of the threads that still wait. `QueueInv` adds: who has drawn which ticket, and what
  a producer has read of the head (`DrawnInv`); that a slot being stored or loaded has a thread that does it (`HolderInv`); that an
  element is in one place, a slot, its producer or a consumer that took it (`ElementInv`); that until the queue is overrun a pop wins its slot after
  the push of the same number, and the pushes in between lie in slots of their own (`OrderInv`); and what the discipline of the log gives – one pop at a time, every
  producer asks for the size before it pushes, so it adds at most one push to those it saw (`QueueRoomInv`).
  Counters wrap, so tickets are compared by how far each has come: `PlacesApart` – tickets of one slot are a multiple of the size apart, also
  over the end of the counter, since the size divides it – and `CountersApart`, that `was_size` is exact while no more is queued than the counter
  counts. `RemapPermutes`: the mixing of index bits permutes the slots, for every size. It needs induction over powers of two, which is
  had by well-ordering: `LeastNumber` takes the least number at which a statement fails, a set and no operator.
  `LogPushNeverSpins` follows from `AdmittedSawFew`: a producer that was let through saw at most `Limit` - 2 elements in the queue, and
  with one more push each of the other producers that leaves room, if the limit and the producers fit into the slots (`Roomy`).
  `QueueIsFifo` maps every step to a step of `FifoQueue` or to a stutter.
* The texts. `TextInv` says of the walk over a text how far it has come (`Filters`): what is copied is well-formed, it is the bytes of the whole characters before `p`,
  in order – in a well-formed text, all of it (`FilteredAll`) –, and no whole character begins before `p` and ends behind it (`Boundary`). Both rest on
  `CharsApart`: two whole characters never overlap, since a first byte continues none. `CharCounts` and
  `SkippedCounts` count how a character or a skipped byte changes the number of bytes kept. `BoundariesCut`: the prefixes of a well-formed
  text that are well-formed are those that end at a boundary, which gives that `GetSubStrLen` counts as many characters as fit and where
  `HalfChinese_UTF8` cuts. `OddInPairs`, by well-ordering: what `MoveEnglish` counts is odd exactly where a pair has begun and not ended, which is
  the test `HalfChinese_GBK` relies on.
* The configuration file. `FileInv`: `readTo` is the end of a line, and what the map holds is, for each key that a line read so far sets, the
  value of the first of them. `LineIsAdded` and `LoadsFirst` say what one turn of the loop adds. `ReturnChangesBlanks` follows the three
  erasures of `StringTrim` through a line with a carriage return behind it and one without: they end in the same item
  if and only if no blank stands before the carriage return with a value before it.
* The checksum. `FrameInv`: in the loop the register is that of the bytes before `pucFrame`, and what is read and what is left are as
  many as eight bits count. The reference is a recursive function of the bytes read; that it exists for every length (`RegistersExist`), so that
  each byte read is one shift of eight bits more (`CrcGoesOn`), is had by well-ordering. That one turn of the loop is that shift (`TurnShifts`)
  has two halves: `ShiftsAre` says which bits of the register and the byte each bit of the shifted register is the parity of, `TablesHold` says
  the same of the 256 entries of the two tables, read as parities of the bits of their index (`HiBits`, `LoBits`).
  `BurstsApart`: shifts keep registers apart (`ShiftByteApart`), and so do two bytes that are not the same two (`PairsApart`, since
  the upper half after eight shifts tells what the lower half was, and the next byte leaves it alone); what differs once differs to the end.
* The calendar. `CalendarInv`: the date is one of the calendar, and its day is `self_mktime`'s, which counts in years from March
  (`MktimeCounts`: a day later is one more; `NewYearIs`, by well-ordering, sums the leap days). `TmtoTIs` compares the table of `tmtoT` with it, and
  `ToDateUndoes` takes off centuries, years and months in turn, each with what is left over. `Signs` and `Truncates` say when a stamp is negative and
  what becomes of it. The check of dates and the zones are cases over months.

Every inductive invariant was checked by TLC before it was proved: those of `RpcStreamProofs` with two sessions and one channel
(398,964 states with two requests) and with two channels (504,311 with one request,
2,777,278 with two), that of the queue with the constants of the run (331,353), with limit 1 (209,535), and with two
slots, one producer and one consumer whose counters wrap (1,096), those of the texts, the frames and the files with the constants of the run (157,775, 25,346 and 369,286).

Every invariant and every action property of the passing runs is thus a theorem. Only model-checked is everything temporal under fairness,
which is beyond the prover: `EveryRequestSettled`, `StopCompletes`, `OverloadPasses`, `AcceptedLinesPrinted`, `WaitersReached`, `PopsEnd`,
`ProcessEnds`, `LoopResumes` and `CallsServed`.

## 6. What is not modelled, and why

* The data race on `std::map` in `GetUrlHandler` and the other unlocked containers: lookups are
  atomic; what a torn container does is undefined and nothing useful can be stated about it.
* `BindSocket`, `FreeSocket`, reply formatting, URI parsing: operating system and libevent calls without
  protocol state.
* WIN32 halves of the event (a Windows event) and of the log's folder handling (its packing is commented out).
* The synchronous print functions of the log: one locked write each. `Compress` reads `m_CompressFolder` twice, for the name of the archive and for that of
  the folder (`FmsLog.cpp:1098-1105`); the model reads it once, so a change of day between these two lines is left out.
* A `malloc` that fails in `FilterNoneUtf8Chars` (`CommonTools.cpp:3394`), which leaves the text empty, and its terminator.
* `try_push`, `try_pop` and the other queues of `atomic_queue.h`: nothing instantiates them.
* The conversion of numbers in `Config` (`strtoul` narrowed to 16 bits, a capacity multiplied by 1024 in 32), the logger facade,
  which forwards to the log, the map of handles and the templates around the gRPC classes, and those functions of `CommonTools`
  that format one value or make one operating system call.
* What happens inside libevent, gRPC and curl: a bufferevent written by two threads, a completion queue deleted with
  tags in it and an option list of a handle are modelled as the code uses them, at most as a fault the model stops at.
* Vendored code: jsoncpp, tinyxml, BigDecimal, rapidjson, curl, libevent, pthreads. It is the larger part of the
  repository's lines, most of it headers; what the models cover is a small share of all lines and a large one
  of the code written for this system.
* The components marked *not_modelled* in `PROJECT.json`.

## 7. Plan

1. `FmsLog` over `AtomicQueue` in place of the FIFO sequence it uses now; both halves of the argument are proved, that pushes find a
   slot and that the queue is one.
2. The numbers of `Config` with their widths.
