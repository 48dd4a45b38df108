------------------------------- MODULE FmsLog -------------------------------
(***************************************************************************)
(* The log of common/FmsLog.cpp, POSIX build.  Threads that log (printstr) *)
(* put lines into a bounded queue; one thread (SyncProc) takes batches     *)
(* from it and prints them page by page into the current file; Backup, at  *)
(* each print, turns to a new file when the day or the size demands it; a  *)
(* third thread (Compress) packs the folder of the previous day and        *)
(* deletes old files.  The owner constructs and destroys the log.          *)
(*                                                                         *)
(* A file is named by the second it was opened in and lies in the folder   *)
(* of that day; a line counts one unit of size, as does the line SyncProc  *)
(* adds per batch.  The atomic queue is a FIFO queue: SyncProc alone takes *)
(* from it, and it never fills (QueueNeverFull).                           *)
(***************************************************************************)
EXTENDS Naturals, Sequences, FiniteSetsExt

CONSTANTS
  Printers,       \* the threads that log
  MaxLines,       \* bound: lines they log in all
  QueueMax,       \* QUEUE_MAX_SIZE
  PopMax,         \* lines PopFront takes at most, 500
  PageSize,       \* lines of a page, pagesize - 1
  FileCapacity,   \* size at which Backup turns to a new file
  Capacity,       \* m_nCapacity, size at which DelFile deletes one
  KeepTime,       \* m_keepDays
  DayLength,      \* seconds of a day
  MaxTime         \* bound: the last second

ASSUME LogAssumption ==
  /\ IsFiniteSet(Printers)
  /\ MaxLines \in Nat /\ QueueMax \in Nat \ {0, 1} /\ MaxTime \in Nat
  /\ {PopMax, PageSize, FileCapacity, Capacity, KeepTime, DayLength} \subseteq Nat \ {0}

Times == 0 .. MaxTime
Day(t) == t \div DayLength
Days == {Day(t) : t \in Times}

Tick == <<"log tick", 0>>            \* the line SyncProc adds to each batch
ASSUME TickAssumption == Tick[1] \notin Printers
Line(p, n) == <<p, n>>
Lines == Printers \X Nat

VARIABLES
  owner,          \* where the owner is in the constructor or destructor
  nSyncProc, nCompress,    \* m_nSyncProc, m_nCompress
  queuePtr,       \* m_atomicQueue: "wild" until it is assigned
  queue,          \* the lines in the queue
  signalled,      \* m_procEvent
  printing,       \* where each printer is in printstr
  printed,        \* the number of lines each printer has begun
  sync,           \* where SyncProc is
  want,           \* lines PopFront has still to take
  batch,          \* lines taken and not printed
  compress,       \* where Compress is
  packing,        \* the folder it is packing, as a set
  now,            \* the clock
  isOpen,         \* m_pFile is not NULL
  current,        \* the file m_pFile was opened for
  totalSize,      \* m_nTotalSize
  curDate,        \* m_stCurDate
  compressFolder, \* m_CompressFolder, as a set of at most one folder
  files,          \* the log files there are, by the second in their names
  content,        \* the lines in each of them
  archives,       \* the files packed in the archive of each folder
  ctime,          \* when each file was last written
  packTime,       \* when each archive was
  fault           \* why the program crashed, "none" while it runs

ownerVars == <<owner, nSyncProc, nCompress, queuePtr>>
queueVars == <<queue, signalled>>
printVars == <<printing, printed>>
syncVars  == <<sync, want, batch>>
packVars  == <<compress, packing>>
fileVars  == <<isOpen, current, totalSize, curDate, compressFolder, files, content,
              archives, ctime, packTime>>
vars == <<ownerVars, queueVars, printVars, syncVars, packVars, now, fileVars, fault>>

Init ==
  /\ owner = "construct" /\ nSyncProc = TRUE /\ nCompress = TRUE
  /\ queuePtr \in {"null", "wild"}
  /\ queue = <<>> /\ signalled = FALSE
  /\ printing = [p \in Printers |-> "idle"] /\ printed = [p \in Printers |-> 0]
  /\ sync = "none" /\ want = 0 /\ batch = <<>>
  /\ compress = "none" /\ packing = {}
  /\ now = 0
  /\ isOpen = FALSE /\ current = 0 /\ totalSize = 0 /\ curDate = Day(0)
  /\ compressFolder = {}
  /\ files = {} /\ content = [t \in Times |-> <<>>] /\ ctime = [t \in Times |-> 0]
  /\ archives = [d \in Days |-> {}] /\ packTime = [d \in Days |-> 0]
  /\ fault = "none"

Alive == fault = "none"

-----------------------------------------------------------------------------
(* The owner: the constructor opens a file, starts the threads and then    *)
(* creates the queue; the destructor runs when nobody logs any more.       *)

(* The folder cannot be made: the constructor returns at once.             *)
NoFolder ==
  /\ Alive /\ owner = "construct"
  /\ owner' = "ready"
  /\ UNCHANGED <<nSyncProc, nCompress, queuePtr, queueVars, printVars, syncVars,
                 packVars, now, fileVars, fault>>

(* The file may fail to open; the threads start all the same.              *)
StartThreads ==
  /\ Alive /\ owner = "construct"
  /\ owner' = "threads" /\ sync' = "top" /\ compress' = "top"
  /\ isOpen' \in BOOLEAN
  /\ files' = IF isOpen' THEN {now} ELSE {}
  /\ current' = now /\ curDate' = Day(now) /\ ctime' = [ctime EXCEPT ![now] = now]
  /\ UNCHANGED <<nSyncProc, nCompress, queuePtr, queueVars, printVars, want, batch,
                 packing, now, totalSize, compressFolder, content, archives,
                 packTime, fault>>

(* Mutant: the constructor ends without a queue.                           *)
CreateQueueLate ==
  /\ Alive /\ owner = "threads"
  /\ owner' = "ready"
  /\ UNCHANGED <<nSyncProc, nCompress, queuePtr, queueVars, printVars, syncVars, packVars,
                 now, fileVars, fault>>

CreateQueue ==
  /\ Alive /\ owner = "threads"
  /\ owner' = "ready" /\ queuePtr' = "queue"
  /\ UNCHANGED <<nSyncProc, nCompress, queueVars, printVars, syncVars, packVars,
                 now, fileVars, fault>>

CloseFile ==
  /\ Alive /\ owner = "ready" /\ sync # "none" /\ \A p \in Printers : printing[p] = "idle"
  /\ owner' = "closed" /\ isOpen' = FALSE
  /\ UNCHANGED <<nSyncProc, nCompress, queuePtr, queueVars, printVars, syncVars,
                 packVars, now, current, totalSize, curDate, compressFolder,
                 files, content, archives, ctime, packTime, fault>>

StopCompress ==
  /\ Alive /\ owner = "closed"
  /\ owner' = "joinCompress" /\ nCompress' = FALSE
  /\ UNCHANGED <<nSyncProc, queuePtr, queueVars, printVars, syncVars, packVars,
                 now, fileVars, fault>>

StopSync ==
  /\ Alive /\ owner = "joinCompress" /\ compress = "done"
  /\ owner' = "reset" /\ nSyncProc' = FALSE
  /\ UNCHANGED <<nCompress, queuePtr, queueVars, printVars, syncVars, packVars,
                 now, fileVars, fault>>

(* The destructor resets the event where SyncProc waits for it to be set.  *)
ResetEvent ==
  /\ Alive /\ owner = "reset"
  /\ owner' = "joinSync" /\ signalled' = FALSE
  /\ UNCHANGED <<nSyncProc, nCompress, queuePtr, queue, printVars, syncVars,
                 packVars, now, fileVars, fault>>

DeleteQueue ==
  /\ Alive /\ owner = "joinSync" /\ sync = "done"
  /\ owner' = "gone" /\ queuePtr' = "null" /\ queue' = <<>>
  /\ UNCHANGED <<nSyncProc, nCompress, signalled, printVars, syncVars, packVars,
                 now, fileVars, fault>>

-----------------------------------------------------------------------------
(* printstr: PushBack refuses a line when the queue looks full, and the    *)
(* event is set either way.                                                *)

Logged == MapThenSumSet(LAMBDA p : printed[p], Printers)

Begin(p) ==
  /\ Alive /\ owner = "ready" /\ printing[p] = "idle"
  /\ Logged < MaxLines
  /\ printed' = [printed EXCEPT ![p] = @ + 1]

PrintStr(p) ==
  /\ Begin(p) /\ queuePtr = "queue" /\ Len(queue) < QueueMax - 1
  /\ printing' = [printing EXCEPT ![p] = "push"]
  /\ UNCHANGED <<ownerVars, queueVars, syncVars, packVars, now, fileVars, fault>>

PrintRefused(p) ==
  /\ Begin(p)
  /\ \/ queuePtr = "null"
     \/ queuePtr = "queue" /\ Len(queue) >= QueueMax - 1
  /\ printing' = [printing EXCEPT ![p] = "set"]
  /\ UNCHANGED <<ownerVars, queueVars, syncVars, packVars, now, fileVars, fault>>

(* The constructor returned before it assigned the pointer to the queue.   *)
PrintWild(p) ==
  /\ Begin(p) /\ queuePtr = "wild"
  /\ fault' = "queue"
  /\ UNCHANGED <<ownerVars, queueVars, printing, syncVars, packVars, now, fileVars>>

Push(p) ==
  /\ Alive /\ printing[p] = "push"
  /\ queue' = Append(queue, Line(p, printed[p]))
  /\ printing' = [printing EXCEPT ![p] = "set"]
  /\ UNCHANGED <<ownerVars, signalled, printed, syncVars, packVars, now, fileVars, fault>>

(* Mutant: the event is not set.                                           *)
SetEventForgotten(p) ==
  /\ Alive /\ printing[p] = "set"
  /\ printing' = [printing EXCEPT ![p] = "idle"]
  /\ UNCHANGED <<ownerVars, queueVars, printed, syncVars, packVars, now, fileVars, fault>>

SetEvent(p) ==
  /\ Alive /\ printing[p] = "set"
  /\ signalled' = TRUE
  /\ printing' = [printing EXCEPT ![p] = "idle"]
  /\ UNCHANGED <<ownerVars, queue, printed, syncVars, packVars, now, fileVars, fault>>

-----------------------------------------------------------------------------
(* SyncProc                                                                *)

SyncTop ==
  /\ Alive /\ sync = "top"
  /\ sync' = IF nSyncProc THEN "size" ELSE "done"
  /\ UNCHANGED <<ownerVars, queueVars, printVars, want, batch, packVars, now,
                 fileVars, fault>>

(* PopFront returns at once when there is no queue ...                     *)
NoQueue ==
  /\ Alive /\ sync = "size" /\ queuePtr = "null"
  /\ sync' = "wait"
  /\ UNCHANGED <<ownerVars, queueVars, printVars, want, batch, packVars, now,
                 fileVars, fault>>

(* ... and follows whatever pointer the constructor has not yet assigned.  *)
WildQueue ==
  /\ Alive /\ sync = "size" /\ queuePtr = "wild"
  /\ fault' = "queue"
  /\ UNCHANGED <<ownerVars, queueVars, printVars, syncVars, packVars, now, fileVars>>

ReadSize ==
  /\ Alive /\ sync = "size" /\ queuePtr = "queue"
  /\ want' = Min({Len(queue), PopMax})
  /\ sync' = IF queue = <<>> THEN "wait" ELSE "pop"
  /\ UNCHANGED <<ownerVars, queueVars, printVars, batch, packVars, now, fileVars, fault>>

Pop ==
  /\ Alive /\ sync = "pop"
  /\ batch' = Append(batch, Head(queue)) /\ queue' = Tail(queue)
  /\ want' = want - 1
  /\ sync' = IF want = 1 THEN "print" ELSE "pop"
  /\ UNCHANGED <<ownerVars, signalled, printVars, packVars, now, fileVars, fault>>

(* The event resets itself when the wait returns, and SyncProc resets it   *)
(* once more.                                                              *)
WaitEvent ==
  /\ Alive /\ sync = "wait" /\ signalled
  /\ sync' = "reset" /\ signalled' = FALSE
  /\ UNCHANGED <<ownerVars, queue, printVars, want, batch, packVars, now, fileVars, fault>>

(* Mutant: back to the wait, not to the queue.                             *)
ResetWaitsAgain ==
  /\ Alive /\ sync = "reset"
  /\ sync' = "wait" /\ signalled' = FALSE
  /\ UNCHANGED <<ownerVars, queue, printVars, want, batch, packVars, now, fileVars, fault>>

ResetAgain ==
  /\ Alive /\ sync = "reset"
  /\ sync' = "top" /\ signalled' = FALSE
  /\ UNCHANGED <<ownerVars, queue, printVars, want, batch, packVars, now, fileVars, fault>>

-----------------------------------------------------------------------------
(* print: the next page of the batch, at its end the line with its size.   *)
(* m_pFile is tested before the lock is taken; the rest is one action, for *)
(* the lock is held.                                                       *)

Page == IF batch = <<>> THEN <<Tick>> ELSE SubSeq(batch, 1, Min({Len(batch), PageSize}))

(* Mutant: the line that overflows a page is taken off the list with it.   *)
PagePrintedSkips ==
  /\ batch' = SubSeq(batch, PageSize + 2, Len(batch))
  /\ sync' = IF batch = <<>> THEN "top" ELSE "print"

(* Mutant: the last line of a page stays on the list.                      *)
PagePrintedOverlaps ==
  /\ batch' = SubSeq(batch, PageSize, Len(batch))
  /\ sync' = IF batch = <<>> THEN "top" ELSE "print"

PagePrinted ==
  /\ batch' = SubSeq(batch, PageSize + 1, Len(batch))
  /\ sync' = IF batch = <<>> THEN "top" ELSE "print"

NoFile ==
  /\ Alive /\ sync = "print" /\ ~isOpen
  /\ PagePrinted
  /\ UNCHANGED <<ownerVars, queueVars, printVars, want, packVars, now, fileVars, fault>>

SeeFile ==
  /\ Alive /\ sync = "print" /\ isOpen
  /\ sync' = "write"
  /\ UNCHANGED <<ownerVars, queueVars, printVars, want, batch, packVars, now,
                 fileVars, fault>>

(* Mutant: the size must exceed the limit.                                 *)
BackupDueLate == \/ totalSize # 0 /\ curDate # Day(now)
                 \/ totalSize > FileCapacity

BackupDue == \/ totalSize # 0 /\ curDate # Day(now)
             \/ totalSize >= FileCapacity

(* Backup does nothing, or cannot make the folder of a new day and gives   *)
(* up.  What is printed to a file that DelFile has removed is lost.        *)
WriteOn ==
  /\ Alive /\ sync = "write" /\ isOpen
  /\ ~BackupDue \/ curDate # Day(now)
  /\ PagePrinted
  /\ content' = [content EXCEPT ![current] = IF current \in files THEN @ \o Page ELSE @]
  /\ ctime' = [ctime EXCEPT ![current] = IF current \in files THEN now ELSE @]
  /\ totalSize' = totalSize + Len(Page)
  /\ UNCHANGED <<ownerVars, queueVars, printVars, want, packVars, now, isOpen, current,
                 curDate, compressFolder, files, archives, packTime, fault>>

(* Mutant: the folder of the new day is packed.                            *)
WriteTurnedPacksToday ==
  /\ Alive /\ sync = "write" /\ BackupDue
  /\ PagePrinted
  /\ isOpen' = TRUE /\ current' = now
  /\ files' = files \cup {now}
  /\ content' = [content EXCEPT ![now] = Page] /\ ctime' = [ctime EXCEPT ![now] = now]
  /\ totalSize' = Len(Page)
  /\ compressFolder' = IF curDate = Day(now) THEN compressFolder ELSE {Day(now)}
  /\ curDate' = Day(now)
  /\ UNCHANGED <<ownerVars, queueVars, printVars, want, packVars, now, archives,
                 packTime, fault>>

(* Backup opens the file of this second, emptying it if there is one, and  *)
(* has yesterday's folder packed.                                          *)
WriteTurned ==
  /\ Alive /\ sync = "write" /\ BackupDue
  /\ PagePrinted
  /\ isOpen' = TRUE /\ current' = now
  /\ files' = files \cup {now}
  /\ content' = [content EXCEPT ![now] = Page] /\ ctime' = [ctime EXCEPT ![now] = now]
  /\ totalSize' = Len(Page)
  /\ compressFolder' = IF curDate = Day(now) THEN compressFolder ELSE {curDate}
  /\ curDate' = Day(now)
  /\ UNCHANGED <<ownerVars, queueVars, printVars, want, packVars, now, archives,
                 packTime, fault>>

(* print does not look at m_pFile again: the destructor has closed it, or  *)
(* Backup could not open the next one.                                     *)
WriteCrash ==
  /\ Alive /\ sync = "write" /\ (~isOpen \/ BackupDue)
  /\ fault' = IF isOpen THEN "open" ELSE "closed"
  /\ UNCHANGED <<ownerVars, queueVars, printVars, syncVars, packVars, now, fileVars>>

-----------------------------------------------------------------------------
(* Compress                                                                *)

FolderOf(d) == {t \in files : Day(t) = d}
Packed == {d \in Days : archives[d] # {}}

(* m_CompressFolder is read for the archive's path and, a few lines on, for *)
(* the tar command: one folder here, as no day passes between the two.      *)
CompressTop ==
  /\ Alive /\ compress = "top"
  /\ packing' = compressFolder
  /\ compress' = IF ~nCompress THEN "done"
                 ELSE IF compressFolder = {} THEN "sweep" ELSE "pack"
  /\ UNCHANGED <<ownerVars, queueVars, printVars, syncVars, now, fileVars, fault>>

Pack(d) ==
  /\ Alive /\ compress = "pack" /\ d \in packing
  /\ compress' = "remove"
  /\ archives' = [archives EXCEPT ![d] = FolderOf(d)]
  /\ packTime' = [packTime EXCEPT ![d] = now]
  /\ UNCHANGED <<ownerVars, queueVars, printVars, syncVars, packing, now, isOpen, current,
                 totalSize, curDate, compressFolder, files, content, ctime, fault>>

(* Mutant: the exit status of tar is ignored.                              *)
PackFailureIgnored ==
  /\ Alive /\ compress = "pack"
  /\ compress' = "remove"
  /\ UNCHANGED <<ownerVars, queueVars, printVars, syncVars, packing, now, fileVars, fault>>

PackFails ==
  /\ Alive /\ compress = "pack"
  /\ compress' = "clear"
  /\ UNCHANGED <<ownerVars, queueVars, printVars, syncVars, packing, now, fileVars, fault>>

Keep(fs, ds) ==
  /\ files' = fs
  /\ content' = [t \in Times |-> IF t \in fs THEN content[t] ELSE <<>>]
  /\ ctime' = [t \in Times |-> IF t \in fs THEN ctime[t] ELSE 0]
  /\ archives' = [d \in Days |-> IF d \in ds THEN archives[d] ELSE {}]
  /\ packTime' = [d \in Days |-> IF d \in ds THEN packTime[d] ELSE 0]

RemoveFolder(d) ==
  /\ Alive /\ compress = "remove" /\ d \in packing
  /\ compress' = "clear"
  /\ Keep(files \ FolderOf(d), Packed)
  /\ UNCHANGED <<ownerVars, queueVars, printVars, syncVars, packing, now, isOpen, current,
                 totalSize, curDate, compressFolder, fault>>

(* m_CompressFolder is emptied whatever became of the folder.              *)
ClearFolder ==
  /\ Alive /\ compress = "clear"
  /\ compress' = "sweep" /\ compressFolder' = {} /\ packing' = {}
  /\ UNCHANGED <<ownerVars, queueVars, printVars, syncVars, now, isOpen, current,
                 totalSize, curDate, files, content, archives, ctime, packTime, fault>>

(* DelFile: what was not written for KeepTime goes; then, if the rest is   *)
(* too large, one of the oldest.  An archive counts one unit.              *)
YoungFiles == {t \in files : now - ctime[t] < KeepTime}
YoungArchives == {d \in Packed : now - packTime[d] < KeepTime}
FolderSize ==
  MapThenSumSet(LAMBDA t : Len(content[t]), YoungFiles) + Cardinality(YoungArchives)
OldestTime ==
  Min({ctime[t] : t \in YoungFiles} \cup {packTime[d] : d \in YoungArchives})

Swept(fs, ds) ==
  /\ Alive /\ compress = "sweep"
  /\ compress' = "top"
  /\ Keep(fs, ds)
  /\ UNCHANGED <<ownerVars, queueVars, printVars, syncVars, packing, now, isOpen, current,
                 totalSize, curDate, compressFolder, fault>>

Sweep ==
  FolderSize < Capacity /\ Swept(YoungFiles, YoungArchives)
SweepFile(t) ==
  /\ FolderSize >= Capacity /\ t \in YoungFiles /\ ctime[t] = OldestTime
  /\ Swept(YoungFiles \ {t}, YoungArchives)
SweepArchive(d) ==
  /\ FolderSize >= Capacity /\ d \in YoungArchives /\ packTime[d] = OldestTime
  /\ Swept(YoungFiles, YoungArchives \ {d})

TimePasses ==
  /\ Alive /\ now < MaxTime /\ owner # "construct"
  /\ now' = now + 1
  /\ UNCHANGED <<ownerVars, queueVars, printVars, syncVars, packVars, fileVars, fault>>

-----------------------------------------------------------------------------
OwnerStep ==
  \/ NoFolder \/ StartThreads \/ CreateQueue
  \/ CloseFile \/ StopCompress \/ StopSync \/ ResetEvent \/ DeleteQueue
PrintStep(p) ==
  \/ PrintStr(p) \/ PrintRefused(p) \/ PrintWild(p) \/ Push(p) \/ SetEvent(p)
SyncStep ==
  \/ SyncTop \/ NoQueue \/ WildQueue \/ ReadSize \/ Pop \/ WaitEvent \/ ResetAgain
  \/ NoFile \/ SeeFile \/ WriteOn \/ WriteTurned \/ WriteCrash
CompressStep ==
  \/ CompressTop \/ PackFails \/ ClearFolder \/ Sweep
  \/ \E d \in Days : Pack(d) \/ RemoveFolder(d) \/ SweepArchive(d)
  \/ \E t \in Times : SweepFile(t)

Next ==
  OwnerStep \/ (\E p \in Printers : PrintStep(p)) \/ SyncStep \/ CompressStep \/ TimePasses

SafetySpec == Init /\ [][Next]_vars

(* SyncProc keeps running, the owner finishes the constructor and a caller *)
(* the call it has begun.  Nobody need ever log or destroy the log, and    *)
(* nothing here waits for Compress.                                        *)
Fairness ==
  /\ WF_vars(SyncStep)
  /\ WF_vars(CreateQueue)
  /\ \A p \in Printers : WF_vars(Push(p) \/ SetEvent(p))
Spec == SafetySpec /\ Fairness

-----------------------------------------------------------------------------
LinesIn(s) == {s[i] : i \in 1 .. Len(s)}

ControlType ==
  /\ owner \in {"construct", "threads", "ready", "closed", "joinCompress", "reset",
                 "joinSync", "gone"}
  /\ nSyncProc \in BOOLEAN /\ nCompress \in BOOLEAN
  /\ queuePtr \in {"null", "wild", "queue"} /\ signalled \in BOOLEAN
  /\ printing \in [Printers -> {"idle", "push", "set"}]
  /\ sync \in {"none", "top", "size", "pop", "wait", "reset", "print", "write", "done"}
  /\ compress \in {"none", "top", "pack", "remove", "clear", "sweep", "done"}
  /\ isOpen \in BOOLEAN
  /\ fault \in {"none", "queue", "open", "closed"}

LinesType ==
  /\ queue \in Seq(Lines) /\ batch \in Seq(Lines)
  /\ printed \in [Printers -> Nat] /\ want \in 0 .. PopMax
  /\ sync = "pop" => want \in 1 .. Len(queue)

FolderType ==
  /\ packing \subseteq Days /\ compressFolder \subseteq Days
  /\ compress \in {"pack", "remove"} => packing # {}
  /\ now \in Times /\ current \in Times /\ curDate \in Days

FileType ==
  /\ totalSize \in Nat /\ files \subseteq Times
  /\ content \in [Times -> Seq(Lines \cup {Tick})] /\ ctime \in [Times -> Times]
  /\ archives \in [Days -> SUBSET Times] /\ packTime \in [Days -> Times]

(* Every variable has its type, and each thread is where the others'       *)
(* states let it be.                                                       *)
TypeOK == ControlType /\ LinesType /\ FolderType /\ FileType

(* While the log is in service SyncProc does not sleep on a line in the    *)
(* queue unless the event is set or a caller is about to set it.           *)
SyncNotStranded ==
  owner = "ready" /\ sync = "wait" /\ queue # <<>> =>
    signalled \/ \E p \in Printers : printing[p] = "set"

(* The slots of the atomic queue are never all taken, although callers     *)
(* look at its size and push without a lock: at most one line per caller   *)
(* exceeds the limit, and push never has to spin for a free slot.          *)
QueueNeverFull ==
  Len(queue) + Cardinality({p \in Printers : printing[p] = "push"})
    <= QueueMax - 2 + Cardinality(Printers)

(* The lines of a caller are stored in the order it logged them, no line   *)
(* twice, across batches, pages, files and the lines still on their way.   *)
Before(l, m) == l[1] = m[1] /\ l # Tick => l[2] < m[2]
InOrder(s, t) == \A i \in 1 .. Len(s), j \in 1 .. Len(t) : Before(s[i], t[j])
Increasing(s) == \A i, j \in 1 .. Len(s) : i < j => Before(s[i], s[j])
LinesInOrder ==
  /\ Increasing(queue) /\ Increasing(batch) /\ InOrder(batch, queue)
  /\ \A t \in files :
       /\ Increasing(content[t])
       /\ InOrder(content[t], batch) /\ InOrder(content[t], queue)
       /\ \A u \in files : t < u => InOrder(content[t], content[u])

(* Compress never packs or removes the folder the log is writing to.       *)
FolderInUseUntouched ==
  isOpen /\ compress \in {"pack", "remove"} => Day(current) \notin packing

(* No file outgrows FileCapacity by more than the last page printed to it, *)
(* save one that was written into the next day for want of its folder.     *)
FileSizeBounded ==
  \A t \in files :
    Len(content[t]) > FileCapacity - 1 + PageSize => Day(ctime[t]) # Day(t)

(* In service, a log whose constructor found its folder follows no wild    *)
(* pointer and prints to no closed file.                                   *)
ServiceSound == fault \in {"queue", "closed"} /\ owner = "ready" => sync = "none"

(* A line SyncProc has taken is in a file when it is off the list, unless  *)
(* the file was closed by the destructor or removed by DelFile.            *)
TakenLinesAreStored ==
  [][\A l \in LinesIn(batch) \ LinesIn(batch') :
       \/ \E t \in files' : l \in LinesIn(content'[t])
       \/ ~isOpen \/ current \notin files]_vars

(* The folder of a day is removed only when all its files are packed.      *)
RemovedIsPacked ==
  [][compress = "remove" => \A t \in files \ files' : t \in archives[Day(t)]]_vars

(* While the log is in service every line the queue accepted is taken and  *)
(* printed in the end.                                                     *)
InFlight == LinesIn(queue) \cup LinesIn(batch)
AcceptedLinesPrinted ==
  InFlight # {} ~> InFlight = {} \/ owner # "ready" \/ fault # "none"

(* "When the log file exceeds the maximum a new file is generated"         *)
(* (FmsLog.h): turning to a file leaves what others hold in place.  It     *)
(* does not hold: a file opened twice in one second is emptied.            *)
TurningKeepsFiles ==
  [][\A t \in files \cap files' :
       /\ Len(content[t]) <= Len(content'[t])
       /\ \A i \in 1 .. Len(content[t]) : content'[t][i] = content[t][i]]_vars
=============================================================================
