----------------------------- MODULE FmsLogProofs -----------------------------
(* Proofs about FmsLog, for every number of printers, every limit of the   *)
(* queue, of pages, files and folders, and every length of a day.          *)
EXTENDS FmsLog, SequenceTheorems, FiniteSetTheorems, TLAPS

-----------------------------------------------------------------------------
(* Lemmas about the operators of the model.                                *)

(* The smaller of two numbers, as PopFront and the pages use it.           *)
LEMMA MinOfTwo ==
  ASSUME NEW a \in Nat, NEW b \in Nat
  PROVE  Min({a, b}) \in Nat /\ Min({a, b}) \in {a, b} /\ Min({a, b}) <= a /\ Min({a, b}) <= b
<1> DEFINE P(x) == x \in {a, b} /\ \A y \in {a, b} : x <= y
<1>1. \E x : P(x)
  <2>1. CASE a <= b
    BY <2>1
  <2>2. CASE ~(a <= b)
    BY <2>2
  <2> QED
    BY <2>1, <2>2
<1>2. P(CHOOSE x : P(x))
  BY <1>1
<1>3. Min({a, b}) = CHOOSE x : P(x)
  BY DEF Min
<1> QED
  BY <1>2, <1>3

(* A later second never lies in an earlier day.                            *)
LEMMA DayMonotone ==
  ASSUME NEW s \in Nat, NEW t \in Nat, s <= t
  PROVE  Day(s) \in Nat /\ Day(t) \in Nat /\ Day(s) <= Day(t)
  BY LogAssumption DEF Day

LEMMA DaysAreNumbers == Days \subseteq Nat /\ \A t \in Times : Day(t) \in Days
<1>1. ASSUME NEW t \in Times
      PROVE  Day(t) \in Nat
  BY DayMonotone, LogAssumption DEF Times
<1> QED
  BY <1>1 DEF Days

(* A page holds lines and is taken off the front of the list.              *)
LEMMA PageIsTaken ==
  ASSUME batch \in Seq(Lines)
  PROVE  /\ Page \in Seq(Lines \cup {Tick})
         /\ SubSeq(batch, PageSize + 1, Len(batch)) \in Seq(Lines)
<1> DEFINE m == Min({Len(batch), PageSize})
<1> HIDE DEF m
<1>1. PageSize \in Nat /\ PageSize >= 1 /\ Len(batch) \in Nat
  BY LogAssumption
<1>2. m \in Nat /\ m <= Len(batch)
  BY <1>1, MinOfTwo DEF m
<1>3. ASSUME NEW i \in Int, NEW j \in Int, i >= 1, j <= Len(batch)
      PROVE  SubSeq(batch, i, j) \in Seq(Lines)
  BY <1>3, SubSeqProperties, <1>1
<1>4. SubSeq(batch, 1, m) \in Seq(Lines)
  BY <1>2, <1>3
<1>5. ASSUME NEW s \in Seq(Lines)
      PROVE  s \in Seq(Lines \cup {Tick})
  BY <1>5
<1>6. <<Tick>> \in Seq(Lines \cup {Tick})
  OBVIOUS
<1>7. Page \in Seq(Lines \cup {Tick})
  BY <1>4, <1>5, <1>6 DEF Page, m
<1> QED
  BY <1>1, <1>3, <1>7

-----------------------------------------------------------------------------
(* Type correctness.                                                       *)

LEMMA InitType == Init => TypeOK
<1> SUFFICES ASSUME Init
             PROVE  TypeOK
  OBVIOUS
<1>1. 0 \in Times /\ Day(0) \in Days
  BY LogAssumption, DaysAreNumbers DEF Times
<1>2. PopMax \in Nat
  BY LogAssumption
<1>3. ControlType
  BY DEF Init, ControlType
<1>4. LinesType
  BY <1>2 DEF Init, LinesType
<1>5. FolderType
  BY <1>1 DEF Init, FolderType
<1>6. FileType
  BY <1>1 DEF Init, FileType
<1> QED
  BY <1>3, <1>4, <1>5, <1>6 DEF TypeOK

LEMMA ControlStep == ControlType /\ Next => ControlType'
<1> SUFFICES ASSUME ControlType, Next
             PROVE  ControlType'
  OBVIOUS
<1> USE DEF ControlType, ownerVars, queueVars, printVars, syncVars, packVars, fileVars
<1>1. CASE OwnerStep
  BY <1>1 DEF OwnerStep, NoFolder, StartThreads, CreateQueue, CloseFile, StopCompress,
              StopSync, ResetEvent, DeleteQueue
<1>2. ASSUME NEW p \in Printers, PrintStep(p)
      PROVE  ControlType'
  <2>1. CASE PrintStr(p) \/ PrintRefused(p)
    BY <2>1 DEF PrintStr, PrintRefused
  <2>2. CASE PrintWild(p)
    BY <2>2 DEF PrintWild
  <2>3. CASE Push(p)
    BY <2>3 DEF Push
  <2>4. CASE SetEvent(p)
    BY <2>4 DEF SetEvent
  <2> QED
    BY <1>2, <2>1, <2>2, <2>3, <2>4 DEF PrintStep
<1>3. CASE SyncStep
  <2>1. CASE SyncTop \/ NoQueue \/ WildQueue \/ WaitEvent \/ ResetAgain
    BY <2>1 DEF SyncTop, NoQueue, WildQueue, WaitEvent, ResetAgain
  <2>2. CASE ReadSize
    BY <2>2 DEF ReadSize
  <2>3. CASE Pop
    BY <2>3 DEF Pop
  <2>4. CASE NoFile \/ SeeFile
    BY <2>4 DEF NoFile, SeeFile, PagePrinted
  <2>5. CASE WriteOn
    BY <2>5 DEF WriteOn, PagePrinted
  <2>6. CASE WriteTurned
    BY <2>6 DEF WriteTurned, PagePrinted
  <2>7. CASE WriteCrash
    BY <2>7 DEF WriteCrash
  <2> QED
    BY <1>3, <2>1, <2>2, <2>3, <2>4, <2>5, <2>6, <2>7 DEF SyncStep
<1>4. CASE CompressStep
  BY <1>4 DEF CompressStep, CompressTop, PackFails, ClearFolder, Sweep, Pack, RemoveFolder,
              SweepArchive, SweepFile, Swept, Keep
<1>5. CASE TimePasses
  BY <1>5 DEF TimePasses
<1> QED
  BY <1>1, <1>2, <1>3, <1>4, <1>5 DEF Next

LEMMA LinesStep == TypeOK /\ Next => LinesType'
<1> SUFFICES ASSUME TypeOK, Next
             PROVE  LinesType'
  OBVIOUS
<1> USE DEF LinesType, ownerVars, queueVars, printVars, syncVars, packVars, fileVars
<1>0. LinesType
  BY DEF TypeOK
<1>1. CASE OwnerStep
  <2>1. queue' = queue \/ (queue' = <<>> /\ sync = "done")
    BY <1>1 DEF OwnerStep, NoFolder, StartThreads, CreateQueue, CloseFile, StopCompress,
                StopSync, ResetEvent, DeleteQueue
  <2>2. UNCHANGED <<batch, printed, want>> /\ (sync' = sync \/ sync' = "top")
    BY <1>1 DEF OwnerStep, NoFolder, StartThreads, CreateQueue, CloseFile, StopCompress,
                StopSync, ResetEvent, DeleteQueue
  <2>3. CASE queue' = queue
    BY <2>2, <2>3, <1>0
  <2>4. CASE queue' = <<>> /\ sync = "done"
    BY <2>2, <2>4, <1>0
  <2> QED
    BY <2>1, <2>3, <2>4
<1>2. ASSUME NEW p \in Printers, PrintStep(p)
      PROVE  LinesType'
  <2>1. CASE PrintStr(p) \/ PrintRefused(p) \/ PrintWild(p)
    BY <1>0, <2>1 DEF Begin, PrintStr, PrintRefused, PrintWild
  <2>2. CASE SetEvent(p)
    BY <1>0, <2>2 DEF SetEvent
  <2>3. CASE Push(p)
    BY <1>0, <2>3 DEF Push, Line, Lines
  <2> QED
    BY <1>2, <2>1, <2>2, <2>3 DEF PrintStep
<1>3. CASE SyncStep
  <2>1. CASE SyncTop \/ NoQueue \/ WildQueue \/ WaitEvent \/ ResetAgain \/ SeeFile \/ WriteCrash
    BY <1>0, <2>1 DEF SyncTop, NoQueue, WildQueue, WaitEvent, ResetAgain, SeeFile, WriteCrash
  <2>2. CASE ReadSize
    <3>1. PopMax \in Nat \ {0} /\ Len(queue) \in Nat
      BY <1>0, LogAssumption
    <3>2. want' \in Nat /\ want' <= PopMax /\ want' <= Len(queue)
      BY <2>2, <3>1, MinOfTwo DEF ReadSize
    <3>3. queue # <<>> => Len(queue) # 0
      BY <1>0
    <3>4. queue # <<>> => want' >= 1
      BY <2>2, <3>1, <3>3, MinOfTwo DEF ReadSize
    <3> QED
      BY <1>0, <2>2, <3>1, <3>2, <3>4 DEF ReadSize
  <2>3. CASE Pop
    <3>1. want \in 1 .. Len(queue) /\ queue \in Seq(Lines) /\ batch \in Seq(Lines)
      BY <1>0, <2>3 DEF Pop
    <3>2. Len(queue) >= 1 /\ Len(queue) \in Nat
      BY <3>1
    <3>3. Head(queue) \in Lines /\ Tail(queue) \in Seq(Lines) /\ Len(Tail(queue)) = Len(queue) - 1
      BY <3>1, <3>2
    <3>4. batch' \in Seq(Lines) /\ queue' \in Seq(Lines) /\ Len(queue') = Len(queue) - 1
      BY <2>3, <3>1, <3>3 DEF Pop
    <3>5. want' \in 0 .. PopMax /\ (sync' = "pop" => want' \in 1 .. Len(queue'))
      BY <1>0, <2>3, <3>1, <3>2, <3>4, LogAssumption DEF Pop
    <3> QED
      BY <1>0, <2>3, <3>4, <3>5 DEF Pop
  <2>4. CASE NoFile \/ WriteOn \/ WriteTurned
    BY <1>0, <2>4, PageIsTaken DEF NoFile, WriteOn, WriteTurned, PagePrinted
  <2> QED
    BY <1>3, <2>1, <2>2, <2>3, <2>4 DEF SyncStep
<1>4. CASE CompressStep \/ TimePasses
  BY <1>0, <1>4 DEF CompressStep, CompressTop, PackFails, ClearFolder, Sweep, Pack,
     RemoveFolder, SweepArchive, SweepFile, Swept, Keep, TimePasses
<1> QED
  BY <1>1, <1>2, <1>3, <1>4 DEF Next

LEMMA FolderStep == TypeOK /\ Next => FolderType'
<1> SUFFICES ASSUME TypeOK, Next
             PROVE  FolderType'
  OBVIOUS
<1> USE DEF FolderType, ownerVars, queueVars, printVars, syncVars, packVars, fileVars
<1>0. FolderType
  BY DEF TypeOK
<1>1. CASE OwnerStep
  BY <1>0, <1>1, DaysAreNumbers DEF OwnerStep, NoFolder, StartThreads, CreateQueue, CloseFile,
     StopCompress, StopSync, ResetEvent, DeleteQueue
<1>2. ASSUME NEW p \in Printers, PrintStep(p)
      PROVE  FolderType'
  BY <1>0, <1>2 DEF PrintStep, Begin, PrintStr, PrintRefused, PrintWild, Push, SetEvent
<1>3. CASE SyncStep
  BY <1>0, <1>3, DaysAreNumbers DEF SyncStep, SyncTop, NoQueue, WildQueue, ReadSize, Pop,
     WaitEvent, ResetAgain, NoFile, SeeFile, WriteOn, WriteTurned, WriteCrash, PagePrinted
<1>4. CASE CompressStep
  BY <1>0, <1>4 DEF CompressStep, CompressTop, PackFails, ClearFolder, Sweep, Pack,
     RemoveFolder, SweepArchive, SweepFile, Swept, Keep
<1>5. CASE TimePasses
  BY <1>0, <1>5, LogAssumption DEF TimePasses, Times
<1> QED
  BY <1>1, <1>2, <1>3, <1>4, <1>5 DEF Next

LEMMA FileStep == TypeOK /\ Next => FileType'
<1> SUFFICES ASSUME TypeOK, Next
             PROVE  FileType'
  OBVIOUS
<1> USE DEF FileType, ownerVars, queueVars, printVars, syncVars, packVars, fileVars
<1>0. FileType /\ now \in Times /\ current \in Times /\ batch \in Seq(Lines)
  BY DEF TypeOK, FolderType, LinesType
<1>1. CASE OwnerStep
  BY <1>0, <1>1 DEF OwnerStep, NoFolder, StartThreads, CreateQueue, CloseFile,
     StopCompress, StopSync, ResetEvent, DeleteQueue
<1>2. ASSUME NEW p \in Printers, PrintStep(p)
      PROVE  FileType'
  BY <1>0, <1>2 DEF PrintStep, Begin, PrintStr, PrintRefused, PrintWild, Push, SetEvent
<1>3. CASE SyncStep
  <2> DEFINE Stored == Seq(Lines \cup {Tick})
  <2>1. Page \in Stored /\ Len(Page) \in Nat
    BY <1>0, PageIsTaken
  <2>2. CASE WriteOn
    <3>1. content[current] \in Stored /\ content[current] \o Page \in Stored
      BY <1>0, <2>1
    <3> HIDE DEF Stored
    <3>2. content' \in [Times -> Stored]
      BY <1>0, <2>2, <3>1 DEF WriteOn, Stored
    <3>3. totalSize' \in Nat /\ UNCHANGED <<files, archives, packTime>>
      BY <1>0, <2>1, <2>2 DEF WriteOn
    <3>4. ctime' \in [Times -> Times]
      BY <1>0, <2>2 DEF WriteOn
    <3> QED
      BY <1>0, <3>2, <3>3, <3>4 DEF Stored
  <2>3. CASE WriteTurned
    BY <1>0, <2>1, <2>3 DEF WriteTurned
  <2>4. CASE ~WriteOn /\ ~WriteTurned
    BY <1>0, <1>3, <2>4 DEF SyncStep, SyncTop, NoQueue, WildQueue, ReadSize, Pop, WaitEvent,
       ResetAgain, NoFile, SeeFile, WriteCrash
  <2> QED
    BY <2>2, <2>3, <2>4
<1>4. CASE CompressStep
  <2>1. ASSUME NEW fs \in SUBSET Times, NEW ds, Keep(fs, ds), totalSize' = totalSize
        PROVE  FileType'
    <3>1. content' \in [Times -> Seq(Lines \cup {Tick})]
      <4>1. <<>> \in Seq(Lines \cup {Tick})
        OBVIOUS
      <4> QED
        BY <1>0, <2>1, <4>1 DEF Keep
    <3>2. ctime' \in [Times -> Times] /\ packTime' \in [Days -> Times]
      <4>1. 0 \in Times
        BY LogAssumption DEF Times
      <4> QED
        BY <1>0, <2>1, <4>1 DEF Keep
    <3>3. archives' \in [Days -> SUBSET Times]
      BY <1>0, <2>1 DEF Keep
    <3> QED
      BY <1>0, <2>1, <3>1, <3>2, <3>3 DEF Keep
  <2>2. ASSUME NEW d \in Days, Pack(d)
        PROVE  FileType'
    BY <1>0, <2>2 DEF Pack, FolderOf
  <2>3. ASSUME NEW d \in Days, RemoveFolder(d)
        PROVE  FileType'
    BY <1>0, <2>1, <2>3 DEF RemoveFolder
  <2>4. YoungFiles \subseteq Times /\ \A t : YoungFiles \ {t} \subseteq Times
    BY <1>0 DEF YoungFiles
  <2>5. ASSUME NEW fs, NEW ds, fs \subseteq Times, Swept(fs, ds)
        PROVE  FileType'
    BY <2>1, <2>5 DEF Swept
  <2>6. CASE Sweep
    BY <2>4, <2>5, <2>6 DEF Sweep
  <2>7. ASSUME NEW d \in Days, SweepArchive(d)
        PROVE  FileType'
    BY <2>4, <2>5, <2>7 DEF SweepArchive
  <2>8. ASSUME NEW t \in Times, SweepFile(t)
        PROVE  FileType'
    BY <2>4, <2>5, <2>8 DEF SweepFile
  <2>9. CASE CompressTop \/ PackFails \/ ClearFolder
    BY <1>0, <2>9 DEF CompressTop, PackFails, ClearFolder
  <2> QED
    BY <1>4, <2>2, <2>3, <2>6, <2>7, <2>8, <2>9 DEF CompressStep
<1>5. CASE TimePasses
  BY <1>0, <1>5 DEF TimePasses
<1> QED
  BY <1>1, <1>2, <1>3, <1>4, <1>5 DEF Next

LEMMA TypeStep == TypeOK /\ [Next]_vars => TypeOK'
<1> SUFFICES ASSUME TypeOK, [Next]_vars
             PROVE  TypeOK'
  OBVIOUS
<1>1. CASE Next
  <2>1. ControlType'
    BY <1>1, ControlStep DEF TypeOK
  <2> QED
    BY <1>1, <2>1, LinesStep, FolderStep, FileStep DEF TypeOK
<1>2. CASE UNCHANGED vars
  BY <1>2 DEF TypeOK, ControlType, LinesType, FolderType, FileType, vars, ownerVars,
     queueVars, printVars, syncVars, packVars, fileVars
<1> QED
  BY <1>1, <1>2

(* Every variable keeps its type, and a thread is never where the state of *)
(* the queue or of the folder to pack does not let it be.                  *)
THEOREM LogTypeCorrect == SafetySpec => []TypeOK
  BY InitType, TypeStep, PTL DEF SafetySpec

-----------------------------------------------------------------------------
(* The life of the log: what its owner, its callers and SyncProc may       *)
(* assume of each other.                                                   *)

LifeInv ==
  /\ owner \in {"construct", "threads"} =>
       queue = <<>> /\ \A p \in Printers : printing[p] = "idle"
  /\ owner = "construct" => sync = "none" /\ compress = "none"
  /\ owner = "ready" /\ sync # "none" => queuePtr = "queue"
  /\ owner \in {"threads", "ready"} /\ sync = "write" => isOpen

LEMMA LifeStep == TypeOK /\ LifeInv /\ [Next]_vars => LifeInv'
<1> SUFFICES ASSUME TypeOK, LifeInv, [Next]_vars
             PROVE  LifeInv'
  OBVIOUS
<1> USE DEF LifeInv, ownerVars, queueVars, printVars, syncVars, packVars, fileVars
<1>0. ControlType
  BY DEF TypeOK
<1>1. CASE OwnerStep
  BY <1>0, <1>1 DEF ControlType, OwnerStep, NoFolder, StartThreads, CreateQueue, CloseFile,
     StopCompress, StopSync, ResetEvent, DeleteQueue
<1>2. ASSUME NEW p \in Printers, PrintStep(p)
      PROVE  LifeInv'
  BY <1>0, <1>2 DEF ControlType, PrintStep, Begin, PrintStr, PrintRefused, PrintWild, Push,
     SetEvent
<1>3. CASE SyncStep
  <2>1. owner \in {"construct", "threads"} /\ sync = "pop" => FALSE
    BY DEF TypeOK, LinesType
  <2>2. sync # "none" /\ sync' # "none" /\ UNCHANGED <<owner, queuePtr, printing, compress>>
    BY <1>0, <1>3 DEF ControlType, SyncStep, SyncTop, NoQueue, WildQueue, ReadSize, Pop,
       WaitEvent, ResetAgain, NoFile, SeeFile, WriteOn, WriteTurned, WriteCrash, PagePrinted
  <2>3. queue' = queue \/ sync = "pop"
    BY <1>3 DEF SyncStep, SyncTop, NoQueue, WildQueue, ReadSize, Pop, WaitEvent,
       ResetAgain, NoFile, SeeFile, WriteOn, WriteTurned, WriteCrash, PagePrinted
  <2>4. sync' = "write" => isOpen' \/ (sync = "write" /\ isOpen' = isOpen)
    BY <1>0, <1>3 DEF ControlType, SyncStep, SyncTop, NoQueue, WildQueue, ReadSize, Pop,
       WaitEvent, ResetAgain, NoFile, SeeFile, WriteOn, WriteTurned, WriteCrash, PagePrinted
  <2> QED
    BY <1>0, <2>1, <2>2, <2>3, <2>4
<1>4. CASE CompressStep \/ TimePasses
  <2>1. compress = "none" => compress' = "none"
    BY <1>4 DEF CompressStep, CompressTop, PackFails, ClearFolder, Sweep, Pack,
       RemoveFolder, SweepArchive, SweepFile, Swept, Keep, TimePasses
  <2>2. UNCHANGED <<owner, queuePtr, queue, printing, sync, isOpen>>
    BY <1>4 DEF CompressStep, CompressTop, PackFails, ClearFolder, Sweep, Pack,
       RemoveFolder, SweepArchive, SweepFile, Swept, Keep, TimePasses
  <2> QED
    BY <2>1, <2>2
<1>5. CASE UNCHANGED vars
  BY <1>5 DEF vars
<1> QED
  BY <1>1, <1>2, <1>3, <1>4, <1>5 DEF Next

LEMMA LifeInvariant == SafetySpec => [](TypeOK /\ LifeInv)
<1>1. Init => LifeInv
  BY DEF Init, LifeInv
<1> QED
  BY <1>1, LifeStep, InitType, TypeStep, PTL DEF SafetySpec

(* In service, a log whose constructor found its folder follows no wild    *)
(* pointer and prints to no closed file.                                   *)
THEOREM LogServiceSound == SafetySpec => []ServiceSound
<1>1. Init => ServiceSound
  BY DEF Init, ServiceSound
<1>2. TypeOK /\ LifeInv /\ ServiceSound /\ [Next]_vars => ServiceSound'
  <2> SUFFICES ASSUME TypeOK, LifeInv, ServiceSound, [Next]_vars
               PROVE  ServiceSound'
    OBVIOUS
  <2> USE DEF ServiceSound, LifeInv, ownerVars, queueVars, printVars, syncVars, packVars,
              fileVars
  <2>1. CASE OwnerStep
    BY <2>1 DEF OwnerStep, NoFolder, StartThreads, CreateQueue, CloseFile, StopCompress,
       StopSync, ResetEvent, DeleteQueue, Alive
  <2>2. ASSUME NEW p \in Printers, PrintStep(p)
        PROVE  ServiceSound'
    BY <2>2 DEF PrintStep, Begin, PrintStr, PrintRefused, PrintWild, Push, SetEvent, Alive
  <2>3. CASE SyncStep
    BY <2>3 DEF SyncStep, SyncTop, NoQueue, WildQueue, ReadSize, Pop, WaitEvent,
       ResetAgain, NoFile, SeeFile, WriteOn, WriteTurned, WriteCrash, Alive
  <2>4. CASE CompressStep \/ TimePasses
    BY <2>4 DEF CompressStep, CompressTop, PackFails, ClearFolder, Sweep, Pack,
       RemoveFolder, SweepArchive, SweepFile, Swept, Keep, TimePasses
  <2>5. CASE UNCHANGED vars
    BY <2>5 DEF vars
  <2> QED
    BY <2>1, <2>2, <2>3, <2>4, <2>5 DEF Next
<1> QED
  BY <1>1, <1>2, LifeInvariant, PTL DEF SafetySpec

(* No wake-up is lost: SyncProc does not sleep on a line of a log in       *)
(* service unless the event is set or a caller is about to set it.         *)
THEOREM LogSyncNotStranded == SafetySpec => []SyncNotStranded
<1>1. Init => SyncNotStranded
  BY DEF Init, SyncNotStranded
<1>2. TypeOK /\ LifeInv /\ SyncNotStranded /\ [Next]_vars => SyncNotStranded'
  <2> SUFFICES ASSUME TypeOK, LifeInv, SyncNotStranded, [Next]_vars
               PROVE  SyncNotStranded'
    OBVIOUS
  <2> USE DEF SyncNotStranded, LifeInv, ownerVars, queueVars, printVars, syncVars, packVars,
              fileVars
  <2>0. ControlType
    BY DEF TypeOK
  <2>1. CASE OwnerStep
    BY <2>1 DEF OwnerStep, NoFolder, StartThreads, CreateQueue, CloseFile, StopCompress,
       StopSync, ResetEvent, DeleteQueue
  <2>2. ASSUME NEW p \in Printers, PrintStep(p)
        PROVE  SyncNotStranded'
    <3>1. CASE PrintStr(p) \/ PrintRefused(p) \/ PrintWild(p)
      BY <2>0, <3>1 DEF ControlType, Begin, PrintStr, PrintRefused, PrintWild
    <3>2. CASE Push(p)
      BY <2>0, <3>2 DEF ControlType, Push
    <3>3. CASE SetEvent(p)
      BY <3>3 DEF SetEvent
    <3> QED
      BY <2>2, <3>1, <3>2, <3>3 DEF PrintStep
  <2>3. CASE SyncStep
    BY <2>3 DEF SyncStep, SyncTop, NoQueue, WildQueue, ReadSize, Pop, WaitEvent,
       ResetAgain, NoFile, SeeFile, WriteOn, WriteTurned, WriteCrash, PagePrinted
  <2>4. CASE CompressStep \/ TimePasses
    BY <2>4 DEF CompressStep, CompressTop, PackFails, ClearFolder, Sweep, Pack,
       RemoveFolder, SweepArchive, SweepFile, Swept, Keep, TimePasses
  <2>5. CASE UNCHANGED vars
    BY <2>5 DEF vars
  <2> QED
    BY <2>1, <2>2, <2>3, <2>4, <2>5 DEF Next
<1> QED
  BY <1>1, <1>2, LifeInvariant, PTL DEF SafetySpec

(* The bounded queue never fills, however many callers look at its size    *)
(* before one of them pushes.                                              *)
THEOREM LogQueueNeverFull == SafetySpec => []QueueNeverFull
<1> DEFINE Pushing == {p \in Printers : printing[p] = "push"}
<1>0. IsFiniteSet(Printers) /\ QueueMax \in Nat /\ QueueMax >= 2
      /\ Cardinality(Printers) \in Nat
  BY LogAssumption, FS_CardinalityType
<1>1. Init => QueueNeverFull
  <2> SUFFICES ASSUME Init
               PROVE  QueueNeverFull
    OBVIOUS
  <2>1. Pushing = {} /\ Len(queue) = 0
    BY DEF Init
  <2>2. Cardinality(Pushing) = 0
    BY <2>1, FS_EmptySet
  <2>3. Len(queue) + Cardinality(Pushing) <= QueueMax - 2 + Cardinality(Printers)
    BY <1>0, <2>1, <2>2
  <2> QED
    BY <2>3 DEF QueueNeverFull
<1>2. TypeOK /\ QueueNeverFull /\ [Next]_vars => QueueNeverFull'
  <2> SUFFICES ASSUME TypeOK, QueueNeverFull, [Next]_vars
               PROVE  QueueNeverFull'
    OBVIOUS
  <2> USE DEF ownerVars, queueVars, printVars, syncVars, packVars, fileVars
  <2>0. /\ queue \in Seq(Lines) /\ printing \in [Printers -> {"idle", "push", "set"}]
        /\ sync = "pop" => want \in 1 .. Len(queue)
    BY DEF TypeOK, ControlType, LinesType
  <2>1. /\ IsFiniteSet(Pushing) /\ IsFiniteSet(Pushing')
        /\ Cardinality(Pushing) \in Nat /\ Cardinality(Pushing') \in Nat
        /\ Cardinality(Pushing') <= Cardinality(Printers)
    BY <1>0, FS_Subset, FS_CardinalityType
  <2>2. Len(queue) + Cardinality(Pushing) <= QueueMax - 2 + Cardinality(Printers)
    BY DEF QueueNeverFull
  <2> SUFFICES Len(queue') + Cardinality(Pushing') <= QueueMax - 2 + Cardinality(Printers)
    BY DEF QueueNeverFull
  <2>3. ASSUME printing' = printing, Len(queue') \in Nat, Len(queue') <= Len(queue)
        PROVE  Len(queue') + Cardinality(Pushing') <= QueueMax - 2 + Cardinality(Printers)
    <3>1. Pushing' = Pushing
      BY <2>3
    <3> QED
      BY <1>0, <2>0, <2>1, <2>2, <2>3, <3>1
  <2>4. CASE OwnerStep
    <3>1. printing' = printing /\ (queue' = queue \/ queue' = <<>>)
      BY <2>4 DEF OwnerStep, NoFolder, StartThreads, CreateQueue, CloseFile, StopCompress,
         StopSync, ResetEvent, DeleteQueue
    <3> QED
      BY <2>0, <2>3, <3>1
  <2>5. ASSUME NEW p \in Printers, PrintStep(p)
        PROVE  Len(queue') + Cardinality(Pushing') <= QueueMax - 2 + Cardinality(Printers)
    <3>1. CASE PrintStr(p)
      <4>1. queue' = queue /\ Len(queue) <= QueueMax - 2
        BY <1>0, <2>0, <3>1 DEF PrintStr
      <4> QED
        BY <1>0, <2>0, <2>1, <4>1
    <3>2. CASE PrintRefused(p) \/ PrintWild(p) \/ SetEvent(p)
      <4>1. queue' = queue /\ Pushing' = Pushing
        BY <2>0, <3>2 DEF PrintRefused, PrintWild, SetEvent, Begin
      <4> QED
        BY <2>2, <4>1
    <3>3. CASE Push(p)
      <4>1. Pushing' = Pushing \ {p} /\ p \in Pushing
        BY <2>0, <3>3 DEF Push
      <4>2. Cardinality(Pushing') = Cardinality(Pushing) - 1
        BY <2>1, <4>1, FS_RemoveElement
      <4>3. Len(queue') = Len(queue) + 1
        BY <2>0, <3>3 DEF Push
      <4> QED
        BY <1>0, <2>0, <2>1, <2>2, <4>2, <4>3
    <3> QED
      BY <2>5, <3>1, <3>2, <3>3 DEF PrintStep
  <2>6. CASE SyncStep
    <3>1. CASE Pop
      <4>1. queue # <<>> /\ Len(queue) \in Nat /\ Len(queue) >= 1
        BY <2>0, <3>1 DEF Pop
      <4>2. printing' = printing /\ Len(queue') = Len(queue) - 1
        BY <2>0, <3>1, <4>1 DEF Pop
      <4> QED
        BY <2>3, <4>1, <4>2
    <3>2. CASE ~Pop
      <4>1. printing' = printing /\ queue' = queue
        BY <2>6, <3>2 DEF SyncStep, SyncTop, NoQueue, WildQueue, ReadSize, WaitEvent,
           ResetAgain, NoFile, SeeFile, WriteOn, WriteTurned, WriteCrash
      <4> QED
        BY <2>0, <2>3, <4>1
    <3> QED
      BY <3>1, <3>2
  <2>7. CASE CompressStep \/ TimePasses \/ UNCHANGED vars
    <3>1. printing' = printing /\ queue' = queue
      BY <2>7 DEF CompressStep, CompressTop, PackFails, ClearFolder, Sweep, Pack,
         RemoveFolder, SweepArchive, SweepFile, Swept, TimePasses, vars
    <3> QED
      BY <2>0, <2>3, <3>1
  <2> QED
    BY <2>4, <2>5, <2>6, <2>7 DEF Next
<1> QED
  BY <1>1, <1>2, LogTypeCorrect, PTL DEF SafetySpec

-----------------------------------------------------------------------------
(* The folders: the one the log writes to is that of curDate, which is     *)
(* never in the future, and what there is to pack lies before it; what     *)
(* Compress is about to remove is in the archive.                          *)

FolderInv ==
  /\ Day(current) = curDate /\ curDate <= Day(now)
  /\ \A d \in compressFolder : d < curDate
  /\ \A d, e \in compressFolder : d = e
  /\ \A d, e \in packing : d = e
  /\ compress \in {"pack", "remove"} => \A d \in packing : d < curDate
  /\ compress = "remove" => \A d \in packing : FolderOf(d) \subseteq archives[d]

LEMMA FolderInvStep == TypeOK /\ LifeInv /\ FolderInv /\ [Next]_vars => FolderInv'
<1> SUFFICES ASSUME TypeOK, LifeInv, FolderInv, [Next]_vars
             PROVE  FolderInv'
  OBVIOUS
<1> USE DEF FolderInv, ownerVars, queueVars, printVars, syncVars, packVars, fileVars
<1>0. /\ FolderType /\ files \subseteq Times /\ archives \in [Days -> SUBSET Times]
      /\ Days \subseteq Nat /\ \A t \in Times : Day(t) \in Days
  BY DaysAreNumbers DEF TypeOK, FileType
<1>1. ASSUME UNCHANGED <<now, current, curDate, compressFolder, files, archives>>,
             UNCHANGED <<compress, packing>>
      PROVE  FolderInv'
  BY <1>1 DEF FolderOf
<1>2. CASE OwnerStep
  <2>1. CASE StartThreads
    <3>1. compress = "none"
      BY <2>1 DEF LifeInv, StartThreads
    <3>2. /\ current' = now /\ curDate' = Day(now) /\ compress' = "top"
          /\ UNCHANGED <<now, compressFolder, packing>>
      BY <2>1 DEF StartThreads
    <3>3. Day(now) \in Nat /\ curDate \in Nat /\ compressFolder \subseteq Nat
      BY <1>0 DEF FolderType
    <3>4. \A d \in compressFolder' : d < curDate'
      BY <3>2, <3>3
    <3> QED
      BY <3>2, <3>3, <3>4
  <2>2. CASE ~StartThreads
    BY <1>1, <1>2, <2>2 DEF OwnerStep, NoFolder, CreateQueue, CloseFile, StopCompress,
       StopSync, ResetEvent, DeleteQueue
  <2> QED
    BY <2>1, <2>2
<1>3. ASSUME NEW p \in Printers, PrintStep(p)
      PROVE  FolderInv'
  BY <1>1, <1>3 DEF PrintStep, Begin, PrintStr, PrintRefused, PrintWild, Push, SetEvent
<1>4. CASE SyncStep
  <2>1. CASE WriteTurned
    <3>1. curDate \in Nat /\ Day(now) \in Nat /\ curDate <= curDate' /\ curDate' = Day(now)
      BY <1>0, <2>1 DEF FolderType, WriteTurned
    <3>2. Day(current') = curDate' /\ curDate' <= Day(now')
      BY <1>0, <2>1, <3>1 DEF FolderType, WriteTurned
    <3>3. /\ \A d \in compressFolder' : d < curDate'
          /\ \A d, e \in compressFolder' : d = e
      BY <1>0, <2>1, <3>1 DEF FolderType, WriteTurned
    <3>4. compress' = compress /\ packing' = packing /\ archives' = archives
          /\ files' = files \cup {now}
      BY <2>1 DEF WriteTurned
    <3>5. compress' \in {"pack", "remove"} => \A d \in packing' : d < curDate'
      BY <1>0, <3>1, <3>4 DEF FolderType
    <3>6. ASSUME compress' = "remove", NEW d \in packing'
          PROVE  FolderOf(d)' \subseteq archives'[d]
      <4>1. d < Day(now)
        BY <3>1, <3>4, <3>5, <3>6
      <4>2. Day(now) # d
        BY <1>0, <3>1, <3>4, <3>6, <4>1 DEF FolderType
      <4> QED
        BY <3>4, <3>6, <4>2 DEF FolderOf
    <3> QED
      BY <3>2, <3>3, <3>4, <3>5, <3>6
  <2>2. CASE ~WriteTurned
    BY <1>1, <1>4, <2>2 DEF SyncStep, SyncTop, NoQueue, WildQueue, ReadSize, Pop, WaitEvent,
       ResetAgain, NoFile, SeeFile, WriteOn, WriteCrash
  <2> QED
    BY <2>1, <2>2
<1>5. CASE CompressStep
  <2>1. UNCHANGED <<now, current, curDate>>
    BY <1>5 DEF CompressStep, CompressTop, PackFails, ClearFolder, Sweep, Pack,
       RemoveFolder, SweepArchive, SweepFile, Swept
  <2>2. CASE CompressTop
    BY <2>2 DEF CompressTop
  <2>3. CASE PackFails \/ ClearFolder
    BY <2>3 DEF PackFails, ClearFolder
  <2>4. ASSUME NEW d \in Days, Pack(d)
        PROVE  FolderInv'
    <3>1. FolderOf(d)' \subseteq archives'[d] /\ \A e \in packing' : e = d
      BY <1>0, <2>4 DEF Pack, FolderOf
    <3> QED
      BY <2>4, <3>1 DEF Pack
  <2>5. ASSUME NEW d \in Days, RemoveFolder(d)
        PROVE  FolderInv'
    BY <2>1, <2>5 DEF RemoveFolder
  <2>6. CASE Sweep \/ (\E d \in Days : SweepArchive(d)) \/ (\E t \in Times : SweepFile(t))
    BY <2>1, <2>6 DEF Sweep, SweepArchive, SweepFile, Swept
  <2> QED
    BY <1>5, <2>2, <2>3, <2>4, <2>5, <2>6 DEF CompressStep
<1>6. CASE TimePasses
  <2>1. now \in Nat /\ now' = now + 1 /\ curDate \in Nat
    BY <1>0, <1>6, LogAssumption DEF FolderType, TimePasses, Times
  <2>2. Day(now) \in Nat /\ Day(now') \in Nat /\ Day(now) <= Day(now')
    BY <2>1, DayMonotone
  <2>3. curDate <= Day(now')
    BY <2>1, <2>2
  <2>4. UNCHANGED <<current, curDate, compressFolder, files, archives, compress, packing>>
    BY <1>6 DEF TimePasses
  <2> QED
    BY <2>3, <2>4 DEF FolderOf
<1>7. CASE UNCHANGED vars
  BY <1>1, <1>7 DEF vars
<1> QED
  BY <1>2, <1>3, <1>4, <1>5, <1>6, <1>7 DEF Next

LEMMA FolderInvariant == SafetySpec => [](TypeOK /\ LifeInv /\ FolderInv)
<1>1. Init => FolderInv
  <2>1. Day(0) \in Nat
    BY DayMonotone
  <2> QED
    BY <2>1 DEF Init, FolderInv
<1> QED
  BY <1>1, FolderInvStep, LifeInvariant, PTL DEF SafetySpec

(* Compress never packs or removes the folder the log is writing to.       *)
THEOREM LogFolderInUseUntouched == SafetySpec => []FolderInUseUntouched
<1>1. TypeOK /\ FolderInv => FolderInUseUntouched
  BY DaysAreNumbers DEF TypeOK, FolderType, FolderInv, FolderInUseUntouched
<1> QED
  BY <1>1, FolderInvariant, PTL

(* The folder of a day is removed only when all its files are packed.      *)
THEOREM LogRemovedIsPacked == SafetySpec => RemovedIsPacked
<1>1. TypeOK /\ LifeInv /\ FolderInv /\ [Next]_vars =>
        [compress = "remove" => \A t \in files \ files' : t \in archives[Day(t)]]_vars
  <2> SUFFICES ASSUME TypeOK, LifeInv, FolderInv, Next, compress = "remove",
                      NEW t \in files \ files'
               PROVE  t \in archives[Day(t)]
    OBVIOUS
  <2> USE DEF ownerVars, queueVars, printVars, syncVars, packVars, fileVars
  <2>1. ASSUME NEW d \in Days, RemoveFolder(d)
        PROVE  t \in archives[Day(t)]
    BY <2>1 DEF RemoveFolder, Keep, FolderInv, FolderOf
  <2>2. CASE OwnerStep
    BY <2>2 DEF OwnerStep, NoFolder, StartThreads, CreateQueue, CloseFile, StopCompress,
       StopSync, ResetEvent, DeleteQueue, LifeInv
  <2>3. ASSUME NEW p \in Printers, PrintStep(p)
        PROVE  FALSE
    BY <2>3 DEF PrintStep, PrintStr, PrintRefused, PrintWild, Push, SetEvent
  <2>4. CASE SyncStep
    BY <2>4 DEF SyncStep, SyncTop, NoQueue, WildQueue, ReadSize, Pop, WaitEvent, ResetAgain,
       NoFile, SeeFile, WriteOn, WriteTurned, WriteCrash
  <2>5. CASE CompressStep
    BY <2>1, <2>5 DEF CompressStep, CompressTop, PackFails, ClearFolder, Sweep, Pack,
       SweepArchive, SweepFile, Swept
  <2>6. CASE TimePasses
    BY <2>6 DEF TimePasses
  <2> QED
    BY <2>2, <2>3, <2>4, <2>5, <2>6 DEF Next
<1> QED
  BY <1>1, FolderInvariant, PTL DEF SafetySpec, RemovedIsPacked

(* A line SyncProc has taken is in a file when it is off the list, unless  *)
(* the file was closed by the destructor or removed by DelFile.            *)
THEOREM LogTakenLinesAreStored == SafetySpec => TakenLinesAreStored
<1>1. TypeOK /\ [Next]_vars =>
        [\A l \in LinesIn(batch) \ LinesIn(batch') :
           \/ \E t \in files' : l \in LinesIn(content'[t])
           \/ ~isOpen \/ current \notin files]_vars
  <2> SUFFICES ASSUME TypeOK, Next, NEW l \in LinesIn(batch) \ LinesIn(batch')
               PROVE  \/ \E t \in files' : l \in LinesIn(content'[t])
                      \/ ~isOpen \/ current \notin files
    OBVIOUS
  <2> USE DEF ownerVars, queueVars, printVars, syncVars, packVars, fileVars
  <2>0. /\ batch \in Seq(Lines) /\ current \in Times /\ now \in Times
        /\ content \in [Times -> Seq(Lines \cup {Tick})]
    BY DEF TypeOK, LinesType, FolderType, FileType
  <2>1. ASSUME PagePrinted
        PROVE  l \in LinesIn(Page) /\ Page \in Seq(Lines \cup {Tick})
    <3>1. PageSize \in Nat \ {0} /\ Len(batch) \in Nat
      BY <2>0, LogAssumption
    <3>2. PICK i \in 1 .. Len(batch) : l = batch[i]
      BY DEF LinesIn
    <3>3. i <= PageSize
      <4> SUFFICES ASSUME i > PageSize
                   PROVE  l \in LinesIn(batch')
        BY <3>1
      <4>1. batch' = SubSeq(batch, PageSize + 1, Len(batch))
        BY <2>1 DEF PagePrinted
      <4>2. Len(batch') = Len(batch) - PageSize /\ batch'[i - PageSize] = batch[i]
        BY <2>0, <3>1, <3>2, <4>1
      <4>3. i - PageSize \in 1 .. Len(batch')
        BY <3>1, <4>2
      <4> QED
        BY <3>2, <4>2, <4>3 DEF LinesIn
    <3>4. l \in LinesIn(Page)
      <4> DEFINE m == Min({Len(batch), PageSize})
      <4>1. m \in Nat /\ m <= Len(batch) /\ i <= m
        BY <3>1, <3>2, <3>3, MinOfTwo
      <4> HIDE DEF m
      <4>2. batch # <<>>
        BY <3>2
      <4>3. Page = SubSeq(batch, 1, m)
        BY <4>2 DEF Page, m
      <4>4. Len(Page) = m /\ Page[i] = batch[i]
        BY <2>0, <3>1, <4>1, <4>3
      <4> QED
        BY <3>2, <4>1, <4>4 DEF LinesIn
    <3>5. Page \in Seq(Lines \cup {Tick})
      BY <2>0, PageIsTaken
    <3> QED
      BY <3>4, <3>5
  <2>2. CASE Pop
    <3>1. batch' = Append(batch, Head(queue))
      BY <2>2 DEF Pop
    <3>2. LinesIn(batch) \subseteq LinesIn(batch')
      BY <2>0, <3>1 DEF LinesIn
    <3> QED
      BY <3>2
  <2>3. CASE WriteOn
    <3>0. l \in LinesIn(Page) /\ Page \in Seq(Lines \cup {Tick})
      BY <2>1, <2>3 DEF WriteOn
    <3> SUFFICES ASSUME current \in files
                 PROVE  \E t \in files' : l \in LinesIn(content'[t])
      OBVIOUS
    <3>1. content'[current] = content[current] \o Page /\ files' = files
      BY <2>0, <2>3 DEF WriteOn
    <3>2. PICK j \in 1 .. Len(Page) : l = Page[j]
      BY <3>0 DEF LinesIn
    <3>3. /\ Len(content'[current]) = Len(content[current]) + Len(Page)
          /\ content'[current][Len(content[current]) + j] = Page[j]
          /\ Len(content[current]) \in Nat /\ Len(Page) \in Nat
      BY <2>0, <3>0, <3>1
    <3>4. Len(content[current]) + j \in 1 .. Len(content'[current])
      BY <3>3
    <3> QED
      BY <3>1, <3>2, <3>3, <3>4 DEF LinesIn
  <2>4. CASE WriteTurned
    <3>1. l \in LinesIn(Page)
      BY <2>1, <2>4 DEF WriteTurned
    <3>2. now \in files' /\ content'[now] = Page
      BY <2>0, <2>4 DEF WriteTurned
    <3> QED
      BY <3>1, <3>2
  <2>5. CASE NoFile
    BY <2>5 DEF NoFile
  <2>6. CASE ~Pop /\ ~WriteOn /\ ~WriteTurned /\ ~NoFile
    <3>1. batch' = batch
      BY <2>6 DEF Next, OwnerStep, NoFolder, StartThreads, CreateQueue, CloseFile,
         StopCompress, StopSync, ResetEvent, DeleteQueue, PrintStep, PrintStr, PrintRefused,
         PrintWild, Push, SetEvent, SyncStep, SyncTop, NoQueue, WildQueue, ReadSize,
         WaitEvent, ResetAgain, SeeFile, WriteCrash, CompressStep, CompressTop, PackFails,
         ClearFolder, Sweep, Pack, RemoveFolder, SweepArchive, SweepFile, Swept, TimePasses
    <3> QED
      BY <3>1
  <2> QED
    BY <2>2, <2>3, <2>4, <2>5, <2>6
<1> QED
  BY <1>1, LogTypeCorrect, PTL DEF SafetySpec, TakenLinesAreStored

-----------------------------------------------------------------------------
(* Sizes.  What a file holds never exceeds what print has counted for it.  *)

SizeInv ==
  /\ Len(content[current]) <= totalSize
  /\ owner = "construct" => \A t \in Times : content[t] = <<>>

LEMMA PageIsShort ==
  ASSUME batch \in Seq(Lines)
  PROVE  Len(Page) \in Nat /\ Len(Page) <= PageSize
<1> DEFINE m == Min({Len(batch), PageSize})
<1>1. PageSize \in Nat /\ PageSize >= 1 /\ Len(batch) \in Nat
  BY LogAssumption
<1>2. m \in Nat /\ m <= Len(batch) /\ m <= PageSize
  BY <1>1, MinOfTwo
<1> HIDE DEF m
<1>3. CASE batch = <<>>
  <2>1. Page = <<Tick>>
    BY <1>3 DEF Page
  <2>2. Len(<<Tick>>) = 1
    OBVIOUS
  <2> QED
    BY <1>1, <2>1, <2>2
<1>4. CASE batch # <<>>
  <2>1. Page = SubSeq(batch, 1, m)
    BY <1>4 DEF Page, m
  <2>2. Len(Page) = m
    BY <1>2, <2>1
  <2> QED
    BY <1>2, <2>2
<1> QED
  BY <1>3, <1>4

LEMMA SizeStep ==
  TypeOK /\ LifeInv /\ FolderInv /\ SizeInv /\ FileSizeBounded /\ [Next]_vars =>
    SizeInv' /\ FileSizeBounded'
<1> SUFFICES ASSUME TypeOK, LifeInv, FolderInv, SizeInv, FileSizeBounded, [Next]_vars
             PROVE  SizeInv' /\ FileSizeBounded'
  OBVIOUS
<1> USE DEF SizeInv, FileSizeBounded, ownerVars, queueVars, printVars, syncVars, packVars,
            fileVars
<1> DEFINE Limit == FileCapacity - 1 + PageSize
<1>0. /\ batch \in Seq(Lines) /\ current \in Times /\ now \in Times /\ totalSize \in Nat
      /\ files \subseteq Times /\ content \in [Times -> Seq(Lines \cup {Tick})]
      /\ ctime \in [Times -> Times]
  BY DEF TypeOK, LinesType, FolderType, FileType
<1>a. FileCapacity \in Nat \ {0} /\ PageSize \in Nat \ {0}
  BY LogAssumption
<1>b. Len(Page) \in Nat /\ Len(Page) <= PageSize /\ Page \in Seq(Lines \cup {Tick})
  BY <1>0, PageIsShort, PageIsTaken
<1>1. ASSUME UNCHANGED <<current, totalSize, content, ctime, files>>,
             owner' = owner \/ owner' # "construct"
      PROVE  SizeInv' /\ FileSizeBounded'
  BY <1>1
<1>2. CASE OwnerStep
  <2>1. CASE StartThreads
    <3>1. current' = now /\ owner' = "threads" /\ UNCHANGED <<totalSize, content>>
          /\ owner = "construct" /\ files' \subseteq Times
      BY <1>0, <2>1 DEF StartThreads
    <3>2. \A t \in Times : content'[t] = <<>>
      BY <3>1
    <3>3. \A t \in Times : Len(content'[t]) = 0
      BY <3>2
    <3> QED
      BY <1>0, <1>a, <3>1, <3>3
  <2>2. CASE ~StartThreads
    BY <1>1, <1>2, <2>2 DEF OwnerStep, NoFolder, CreateQueue, CloseFile, StopCompress,
       StopSync, ResetEvent, DeleteQueue
  <2> QED
    BY <2>1, <2>2
<1>3. ASSUME NEW p \in Printers, PrintStep(p)
      PROVE  SizeInv' /\ FileSizeBounded'
  BY <1>1, <1>3 DEF PrintStep, Begin, PrintStr, PrintRefused, PrintWild, Push, SetEvent
<1>4. CASE SyncStep
  <2>1. CASE WriteOn
    <3>1. /\ content' = [content EXCEPT ![current] = IF current \in files THEN @ \o Page ELSE @]
          /\ ctime' = [ctime EXCEPT ![current] = IF current \in files THEN now ELSE @]
          /\ totalSize' = totalSize + Len(Page) /\ UNCHANGED <<owner, current, files>>
      BY <2>1 DEF WriteOn
    <3>2. owner # "construct"
      BY <2>1 DEF WriteOn, LifeInv
    <3>3. /\ Len(content[current]) \in Nat
          /\ Len(content[current] \o Page) = Len(content[current]) + Len(Page)
      BY <1>0, <1>b
    <3>4. Len(content'[current]) <= totalSize'
      BY <1>0, <1>b, <3>1, <3>3
    <3>5. ASSUME current \in files, Len(content'[current]) > Limit
          PROVE  Day(ctime'[current]) # Day(current)
      <4>1. totalSize' > Limit
        BY <1>0, <1>a, <1>b, <3>1, <3>3, <3>4, <3>5
      <4>2. totalSize >= FileCapacity
        BY <1>0, <1>a, <1>b, <3>1, <4>1
      <4>3. curDate # Day(now)
        BY <2>1, <4>2 DEF WriteOn, BackupDue
      <4>4. ctime'[current] = now
        BY <1>0, <3>1, <3>5
      <4> QED
        BY <4>3, <4>4 DEF FolderInv
    <3>6. \A t \in files \ {current} : content'[t] = content[t] /\ ctime'[t] = ctime[t]
      BY <1>0, <3>1
    <3>7. ASSUME NEW t \in files', Len(content'[t]) > Limit
          PROVE  Day(ctime'[t]) # Day(t)
      BY <3>1, <3>5, <3>6, <3>7
    <3> QED
      BY <3>1, <3>2, <3>4, <3>7
  <2>2. CASE WriteTurned
    <3>1. /\ content' = [content EXCEPT ![now] = Page]
          /\ ctime' = [ctime EXCEPT ![now] = now]
          /\ totalSize' = Len(Page) /\ current' = now /\ owner' = owner
          /\ files' = files \cup {now}
      BY <2>2 DEF WriteTurned
    <3>2. owner # "construct"
      BY <2>2 DEF WriteTurned, LifeInv
    <3>3. content'[now] = Page /\ Len(Page) <= Limit
      BY <1>0, <1>a, <1>b, <3>1
    <3>4. \A t \in files \ {now} : content'[t] = content[t] /\ ctime'[t] = ctime[t]
      BY <1>0, <3>1
    <3>5. ASSUME NEW t \in files', Len(content'[t]) > Limit
          PROVE  Day(ctime'[t]) # Day(t)
      BY <1>a, <1>b, <3>1, <3>3, <3>4, <3>5
    <3> QED
      BY <1>b, <3>1, <3>2, <3>3, <3>5
  <2>3. CASE ~WriteOn /\ ~WriteTurned
    BY <1>1, <1>4, <2>3 DEF SyncStep, SyncTop, NoQueue, WildQueue, ReadSize, Pop, WaitEvent,
       ResetAgain, NoFile, SeeFile, WriteCrash
  <2> QED
    BY <2>1, <2>2, <2>3
<1>5. CASE CompressStep
  <2>1. UNCHANGED <<current, totalSize, owner>>
    BY <1>5 DEF CompressStep, CompressTop, PackFails, ClearFolder, Sweep, Pack,
       RemoveFolder, SweepArchive, SweepFile, Swept
  <2>2. ASSUME NEW fs, NEW ds, Keep(fs, ds), fs \subseteq files
        PROVE  SizeInv' /\ FileSizeBounded'
    <3>1. \A t \in fs : content'[t] = content[t] /\ ctime'[t] = ctime[t]
      BY <1>0, <2>2 DEF Keep
    <3>2. \A t \in Times : content'[t] = content[t] \/ content'[t] = <<>>
      BY <2>2 DEF Keep
    <3>3. Len(content'[current]) <= totalSize
      BY <1>0, <3>2
    <3>4. \A t \in Times : content[t] = <<>> => content'[t] = <<>>
      BY <3>2
    <3>5. files' = fs
      BY <2>2 DEF Keep
    <3> QED
      BY <2>1, <2>2, <3>1, <3>3, <3>4, <3>5
  <2>3. ASSUME NEW d \in Days, Pack(d)
        PROVE  SizeInv' /\ FileSizeBounded'
    BY <1>1, <2>3 DEF Pack
  <2>4. ASSUME NEW d \in Days, RemoveFolder(d)
        PROVE  SizeInv' /\ FileSizeBounded'
    BY <2>2, <2>4 DEF RemoveFolder
  <2>5. ASSUME NEW fs, NEW ds, fs \subseteq files, Swept(fs, ds)
        PROVE  SizeInv' /\ FileSizeBounded'
    BY <2>2, <2>5 DEF Swept
  <2>6. YoungFiles \subseteq files /\ \A t : YoungFiles \ {t} \subseteq files
    BY DEF YoungFiles
  <2>7. CASE Sweep
    BY <2>5, <2>6, <2>7 DEF Sweep
  <2>8. ASSUME NEW d \in Days, SweepArchive(d)
        PROVE  SizeInv' /\ FileSizeBounded'
    BY <2>5, <2>6, <2>8 DEF SweepArchive
  <2>9. ASSUME NEW t \in Times, SweepFile(t)
        PROVE  SizeInv' /\ FileSizeBounded'
    BY <2>5, <2>6, <2>9 DEF SweepFile
  <2>10. CASE CompressTop \/ PackFails \/ ClearFolder
    BY <1>1, <2>10 DEF CompressTop, PackFails, ClearFolder
  <2> QED
    BY <1>5, <2>3, <2>4, <2>7, <2>8, <2>9, <2>10 DEF CompressStep
<1>6. CASE TimePasses \/ UNCHANGED vars
  BY <1>1, <1>6 DEF TimePasses, vars
<1> QED
  BY <1>2, <1>3, <1>4, <1>5, <1>6 DEF Next

(* No file outgrows FileCapacity by more than the last page printed to it, *)
(* save one that was written into the next day for want of its folder.     *)
THEOREM LogFileSizeBounded == SafetySpec => []FileSizeBounded
<1>1. Init => SizeInv /\ FileSizeBounded
  <2> SUFFICES ASSUME Init
               PROVE  SizeInv /\ FileSizeBounded
    OBVIOUS
  <2>1. 0 \in Times
    BY LogAssumption DEF Times
  <2>2. current = 0 /\ files = {} /\ totalSize = 0 /\ \A t \in Times : content[t] = <<>>
    BY DEF Init
  <2>3. Len(content[current]) = 0
    BY <2>1, <2>2
  <2> QED
    BY <2>2, <2>3 DEF SizeInv, FileSizeBounded
<1>2. TypeOK /\ LifeInv /\ FolderInv /\ SizeInv /\ FileSizeBounded /\ [Next]_vars =>
        SizeInv' /\ FileSizeBounded'
  BY SizeStep
<1> QED
  BY <1>1, <1>2, FolderInvariant, PTL DEF SafetySpec

-----------------------------------------------------------------------------
(* The order of the lines.  What follows is stated on the sets of lines of *)
(* the sequences where their places do not matter.                         *)

Whole == Lines \cup {Tick}

LEMMA InOrderIsOfSets ==
  ASSUME NEW s, NEW t
  PROVE  InOrder(s, t) <=> \A l \in LinesIn(s), m \in LinesIn(t) : Before(l, m)
  BY DEF InOrder, LinesIn

(* The line SyncProc adds stands in no order to any other.                 *)
LEMMA TickUnordered == \A l \in Whole : Before(l, Tick) /\ Before(Tick, l)
<1>1. \A l \in Lines : l[1] \in Printers
  BY DEF Lines
<1> QED
  BY <1>1, TickAssumption DEF Before, Whole

LEMMA AppendInOrder ==
  ASSUME NEW s \in Seq(Whole), NEW x \in Whole
  PROVE  /\ LinesIn(Append(s, x)) = LinesIn(s) \cup {x}
         /\ Increasing(s) /\ (\A l \in LinesIn(s) : Before(l, x)) => Increasing(Append(s, x))
<1>1. /\ Len(Append(s, x)) = Len(s) + 1 /\ Append(s, x)[Len(s) + 1] = x /\ Len(s) \in Nat
      /\ \A i \in 1 .. Len(s) : Append(s, x)[i] = s[i]
  BY AppendProperties
<1> DEFINE a == Append(s, x)
<1> HIDE DEF a
<1>2. /\ Len(a) = Len(s) + 1 /\ a[Len(s) + 1] = x
      /\ \A i \in 1 .. Len(s) : a[i] = s[i]
  BY <1>1 DEF a
<1>3. LinesIn(a) = LinesIn(s) \cup {x}
  <2>1. LinesIn(a) \subseteq LinesIn(s) \cup {x}
    <3> SUFFICES ASSUME NEW i \in 1 .. Len(a)
                 PROVE  a[i] \in LinesIn(s) \cup {x}
      BY DEF LinesIn
    <3>1. i \in 1 .. Len(s) \/ i = Len(s) + 1
      BY <1>1, <1>2
    <3> QED
      BY <1>2, <3>1 DEF LinesIn
  <2>2. 1 .. Len(s) \subseteq 1 .. Len(a) /\ Len(s) + 1 \in 1 .. Len(a)
    BY <1>1, <1>2
  <2>3. LinesIn(s) \subseteq LinesIn(a) /\ x \in LinesIn(a)
    BY <1>2, <2>2 DEF LinesIn
  <2> QED
    BY <2>1, <2>3
<1>4. ASSUME Increasing(s), \A l \in LinesIn(s) : Before(l, x)
      PROVE  Increasing(a)
  <2> SUFFICES ASSUME NEW i \in 1 .. Len(a), NEW j \in 1 .. Len(a), i < j
               PROVE  Before(a[i], a[j])
    BY DEF Increasing
  <2>1. i \in 1 .. Len(s) /\ (j \in 1 .. Len(s) \/ j = Len(s) + 1)
    BY <1>1, <1>2
  <2> QED
    BY <1>2, <1>4, <2>1 DEF Increasing, LinesIn
<1> QED
  BY <1>3, <1>4 DEF a

LEMMA TailInOrder ==
  ASSUME NEW s \in Seq(Whole), s # <<>>, Increasing(s)
  PROVE  /\ Increasing(Tail(s)) /\ LinesIn(Tail(s)) \subseteq LinesIn(s)
         /\ Head(s) \in LinesIn(s) /\ \A m \in LinesIn(Tail(s)) : Before(Head(s), m)
<1> DEFINE u == Tail(s)
<1>1. /\ Len(u) = Len(s) - 1 /\ Len(s) \in Nat /\ Len(s) >= 1 /\ Head(s) = s[1]
      /\ \A i \in 1 .. Len(u) : u[i] = s[i + 1]
  BY HeadTailProperties
<1> HIDE DEF u
<1>2. \A i \in 1 .. Len(u) : i + 1 \in 1 .. Len(s) /\ 1 < i + 1
  BY <1>1
<1>3. 1 \in 1 .. Len(s)
  BY <1>1
<1>4. Increasing(u)
  BY <1>1, <1>2 DEF Increasing
<1>5. LinesIn(u) \subseteq LinesIn(s)
  BY <1>1, <1>2 DEF LinesIn
<1>6. \A m \in LinesIn(u) : Before(Head(s), m)
  BY <1>1, <1>2, <1>3 DEF Increasing, LinesIn
<1>7. Head(s) \in LinesIn(s)
  BY <1>1, <1>3 DEF LinesIn
<1> QED
  BY <1>4, <1>5, <1>6, <1>7 DEF u

LEMMA ConcatInOrder ==
  ASSUME NEW s \in Seq(Whole), NEW t \in Seq(Whole)
  PROVE  /\ LinesIn(s \o t) = LinesIn(s) \cup LinesIn(t)
         /\ Increasing(s) /\ Increasing(t) /\ InOrder(s, t) => Increasing(s \o t)
<1> DEFINE c == s \o t
           n == Len(s)
<1>1. /\ Len(c) = n + Len(t) /\ n \in Nat /\ Len(t) \in Nat
      /\ \A i \in 1 .. Len(c) : c[i] = IF i <= n THEN s[i] ELSE t[i - n]
  BY ConcatProperties
<1> HIDE DEF c
<1>2. \A i \in 1 .. Len(c) : \/ i \in 1 .. n /\ c[i] = s[i]
                             \/ i > n /\ i - n \in 1 .. Len(t) /\ c[i] = t[i - n]
  BY <1>1
<1>3. /\ \A i \in 1 .. n : i \in 1 .. Len(c) /\ c[i] = s[i]
      /\ \A i \in 1 .. Len(t) : n + i \in 1 .. Len(c) /\ c[n + i] = t[i]
  BY <1>1
<1>4. LinesIn(c) = LinesIn(s) \cup LinesIn(t)
  <2>1. LinesIn(c) \subseteq LinesIn(s) \cup LinesIn(t)
    BY <1>2 DEF LinesIn
  <2>2. LinesIn(s) \subseteq LinesIn(c)
    BY <1>3 DEF LinesIn
  <2>3. LinesIn(t) \subseteq LinesIn(c)
    <3> SUFFICES ASSUME NEW i \in 1 .. Len(t)
                 PROVE  t[i] \in LinesIn(c)
      BY DEF LinesIn
    <3> QED
      BY <1>3 DEF LinesIn
  <2> QED
    BY <2>1, <2>2, <2>3
<1>5. ASSUME Increasing(s), Increasing(t), InOrder(s, t)
      PROVE  Increasing(c)
  <2> SUFFICES ASSUME NEW i \in 1 .. Len(c), NEW j \in 1 .. Len(c), i < j
               PROVE  Before(c[i], c[j])
    BY DEF Increasing
  <2>1. CASE j <= n
    <3>1. i \in 1 .. n /\ j \in 1 .. n
      BY <1>1, <2>1
    <3> QED
      BY <1>3, <1>5, <3>1 DEF Increasing
  <2>2. CASE i <= n /\ j > n
    <3>1. i \in 1 .. n /\ j - n \in 1 .. Len(t) /\ c[j] = t[j - n]
      BY <1>1, <1>2, <2>2
    <3> QED
      BY <1>3, <1>5, <3>1 DEF InOrder
  <2>3. CASE i > n
    <3>1. /\ i - n \in 1 .. Len(t) /\ j - n \in 1 .. Len(t) /\ i - n < j - n
          /\ c[i] = t[i - n] /\ c[j] = t[j - n]
      BY <1>1, <1>2, <2>3
    <3> QED
      BY <1>5, <3>1 DEF Increasing
  <2> QED
    BY <1>1, <2>1, <2>2, <2>3
<1> QED
  BY <1>4, <1>5 DEF c

(* Taking a page off the list parts it in two, in order.                   *)
LEMMA PageInOrder ==
  ASSUME batch \in Seq(Lines), Increasing(batch),
         NEW rest, rest = SubSeq(batch, PageSize + 1, Len(batch))
  PROVE  /\ Page \in Seq(Whole) /\ Increasing(Page)
         /\ LinesIn(Page) \subseteq LinesIn(batch) \cup {Tick}
         /\ Increasing(rest) /\ LinesIn(rest) \subseteq LinesIn(batch)
         /\ InOrder(Page, rest)
<1>1. PageSize \in Nat /\ PageSize >= 1 /\ Len(batch) \in Nat
  BY LogAssumption
<1>2. /\ \A i \in 1 .. Len(rest) : PageSize + i \in 1 .. Len(batch) /\ rest[i] = batch[PageSize + i]
      /\ Len(rest) \in Nat
  <2>1. \A i \in PageSize + 1 .. Len(batch) : batch[i] \in Lines
    BY <1>1
  <2>2. /\ Len(rest) = IF PageSize + 1 <= Len(batch) THEN Len(batch) - PageSize ELSE 0
        /\ \A i \in 1 .. Len(batch) - PageSize : rest[i] = batch[PageSize + i]
    BY <1>1, <2>1, SubSeqProperties
  <2> QED
    BY <1>1, <2>2
<1>3. Increasing(rest) /\ LinesIn(rest) \subseteq LinesIn(batch)
  <2>1. \A i, j \in 1 .. Len(rest) : i < j => PageSize + i < PageSize + j
    BY <1>1, <1>2
  <2>2. Increasing(rest)
    BY <1>2, <2>1 DEF Increasing
  <2>3. \A i \in 1 .. Len(rest) : rest[i] \in LinesIn(batch)
    BY <1>2 DEF LinesIn
  <2>4. LinesIn(rest) \subseteq LinesIn(batch)
    BY <2>3 DEF LinesIn
  <2> QED
    BY <2>2, <2>4
<1>4. CASE batch = <<>>
  <2>1. Page = <<Tick>> /\ rest = <<>>
    BY <1>1, <1>2, <1>4 DEF Page
  <2>2. Len(<<Tick>>) = 1 /\ <<Tick>>[1] = Tick /\ <<Tick>> \in Seq(Whole) /\ Len(<<>>) = 0
    BY DEF Whole
  <2>3. Increasing(Page)
    BY <2>1, <2>2 DEF Increasing
  <2>4. LinesIn(Page) \subseteq {Tick}
    BY <2>1, <2>2 DEF LinesIn
  <2>5. InOrder(Page, rest)
    <3>1. Len(rest) = 0
      BY <2>1, <2>2
    <3>2. \A j \in 1 .. 0 : FALSE
      OBVIOUS
    <3> QED
      BY <3>1, <3>2 DEF InOrder
  <2> QED
    BY <1>3, <2>1, <2>2, <2>3, <2>4, <2>5
<1>5. CASE batch # <<>>
  <2> DEFINE m == Min({Len(batch), PageSize})
  <2>1. m \in Nat /\ m <= Len(batch) /\ m <= PageSize
    BY <1>1, MinOfTwo
  <2> HIDE DEF m
  <2>2. Page = SubSeq(batch, 1, m)
    BY <1>5 DEF Page, m
  <2>3. Len(Page) = m /\ \A i \in 1 .. m : Page[i] = batch[i] /\ i \in 1 .. Len(batch)
    BY <1>1, <2>1, <2>2
  <2>4. Increasing(Page) /\ LinesIn(Page) \subseteq LinesIn(batch)
    BY <2>1, <2>3 DEF Increasing, LinesIn
  <2>5. ASSUME NEW i \in 1 .. m, NEW j \in 1 .. Len(rest)
        PROVE  Before(Page[i], rest[j])
    <3>1. i < PageSize + j /\ i \in 1 .. Len(batch) /\ PageSize + j \in 1 .. Len(batch)
      BY <1>1, <1>2, <2>1
    <3> QED
      BY <1>2, <2>3, <3>1 DEF Increasing
  <2>6. InOrder(Page, rest)
    BY <2>3, <2>5 DEF InOrder
  <2>7. Page \in Seq(Whole)
    BY PageIsTaken DEF Whole
  <2> QED
    BY <1>3, <2>4, <2>6, <2>7
<1> QED
  BY <1>4, <1>5

(* A line of a caller that is queued, taken or stored is one it has begun, *)
(* and not the one it is about to push.                                    *)
AllLines == LinesIn(queue) \cup LinesIn(batch) \cup UNION {LinesIn(content[t]) : t \in Times}

CountInv ==
  \A l \in AllLines \ {Tick} :
    /\ l[2] <= printed[l[1]]
    /\ printing[l[1]] = "push" => l[2] < printed[l[1]]

OrderInv ==
  /\ Increasing(queue) /\ Increasing(batch) /\ InOrder(batch, queue)
  /\ \A t \in Times :
       /\ Increasing(content[t]) /\ InOrder(content[t], batch) /\ InOrder(content[t], queue)
       /\ t > current => content[t] = <<>>
  /\ \A t, u \in Times : t < u => InOrder(content[t], content[u])
  /\ current <= now

LEMMA CountStep == TypeOK /\ LifeInv /\ OrderInv /\ CountInv /\ [Next]_vars => CountInv'
<1> SUFFICES ASSUME TypeOK, LifeInv, OrderInv, CountInv, [Next]_vars
             PROVE  CountInv'
  OBVIOUS
<1> USE DEF ownerVars, queueVars, printVars, syncVars, packVars, fileVars
<1>0. /\ queue \in Seq(Lines) /\ batch \in Seq(Lines) /\ current \in Times /\ now \in Times
      /\ content \in [Times -> Seq(Whole)] /\ printed \in [Printers -> Nat]
      /\ printing \in [Printers -> {"idle", "push", "set"}]
      /\ sync = "pop" => queue # <<>>
  BY DEF TypeOK, ControlType, LinesType, FolderType, FileType, Whole
<1>a. queue \in Seq(Whole) /\ batch \in Seq(Whole)
  BY <1>0 DEF Whole
<1>b. /\ LinesIn(queue) \subseteq Lines /\ LinesIn(batch) \subseteq Lines
      /\ \A t \in Times : LinesIn(content[t]) \subseteq Whole
  BY <1>0 DEF LinesIn
<1>c. \A l \in AllLines \ {Tick} : l[1] \in Printers /\ l[2] \in Nat
  BY <1>b DEF AllLines, Whole, Lines
<1>1. ASSUME AllLines' \subseteq AllLines \cup {Tick}, UNCHANGED <<printing, printed>>
      PROVE  CountInv'
  BY <1>1 DEF CountInv
<1>2. ASSUME UNCHANGED <<queue, batch, content>>
      PROVE  AllLines' = AllLines
  BY <1>2 DEF AllLines
<1>3. CASE OwnerStep
  <2>1. /\ queue' = queue \/ queue' = <<>>
        /\ UNCHANGED <<batch, content, printing, printed>>
    BY <1>3 DEF OwnerStep, NoFolder, StartThreads, CreateQueue, CloseFile, StopCompress,
       StopSync, ResetEvent, DeleteQueue
  <2>2. LinesIn(<<>>) = {}
    BY DEF LinesIn
  <2> QED
    BY <1>1, <2>1, <2>2 DEF AllLines
<1>4. ASSUME NEW p \in Printers, PrintStep(p)
      PROVE  CountInv'
  <2>1. CASE Push(p)
    <3>1. /\ queue' = Append(queue, Line(p, printed[p]))
          /\ printing' = [printing EXCEPT ![p] = "set"]
          /\ UNCHANGED <<batch, content, printed>>
      BY <2>1 DEF Push
    <3>2. Line(p, printed[p]) \in Whole
      BY <1>0 DEF Line, Lines, Whole
    <3>3. LinesIn(queue') = LinesIn(queue) \cup {Line(p, printed[p])}
      BY <1>a, <3>1, <3>2, AppendInOrder
    <3>4. AllLines' = AllLines \cup {Line(p, printed[p])}
      BY <3>1, <3>3 DEF AllLines
    <3>5. Line(p, printed[p])[1] = p /\ Line(p, printed[p])[2] = printed[p]
      BY DEF Line
    <3>6. printing'[p] # "push" /\ printed[p] \in Nat
      BY <1>0, <3>1
    <3>7. ASSUME NEW l \in AllLines \ {Tick}
          PROVE  /\ l[2] <= printed'[l[1]]
                 /\ printing'[l[1]] = "push" => l[2] < printed'[l[1]]
      BY <1>0, <1>c, <3>1 DEF CountInv
    <3> QED
      BY <3>1, <3>4, <3>5, <3>6, <3>7 DEF CountInv
  <2>2. CASE SetEvent(p)
    <3>1. /\ printing' = [printing EXCEPT ![p] = "idle"]
          /\ UNCHANGED <<queue, batch, content, printed>>
      BY <2>2 DEF SetEvent
    <3> QED
      BY <1>0, <1>2, <1>c, <3>1 DEF CountInv
  <2>3. CASE PrintStr(p) \/ PrintRefused(p) \/ PrintWild(p)
    <3>1. /\ printed' = [printed EXCEPT ![p] = @ + 1]
          /\ \/ printing' = [printing EXCEPT ![p] = "push"]
             \/ printing' = [printing EXCEPT ![p] = "set"]
             \/ printing' = printing /\ printing[p] # "push"
          /\ UNCHANGED <<queue, batch, content>>
      BY <2>3 DEF PrintStr, PrintRefused, PrintWild, Begin
    <3>2. ASSUME NEW l \in AllLines \ {Tick}
          PROVE  /\ l[2] <= printed'[l[1]]
                 /\ printing'[l[1]] = "push" => l[2] < printed'[l[1]]
      <4>1. /\ l[1] \in Printers /\ l[2] \in Nat /\ l[2] <= printed[l[1]]
            /\ printing[l[1]] = "push" => l[2] < printed[l[1]]
            /\ printed[l[1]] \in Nat
        BY <1>0, <1>c DEF CountInv
      <4>2. CASE l[1] = p
        <5>1. printed'[l[1]] = printed[l[1]] + 1
          BY <1>0, <3>1, <4>2
        <5> QED
          BY <4>1, <5>1
      <4>3. CASE l[1] # p
        <5>1. printed'[l[1]] = printed[l[1]] /\ printing'[l[1]] = printing[l[1]]
          BY <1>0, <3>1, <4>1, <4>3
        <5> QED
          BY <4>1, <5>1
      <4> QED
        BY <4>2, <4>3
    <3> QED
      BY <1>2, <3>1, <3>2 DEF CountInv
  <2> QED
    BY <1>4, <2>1, <2>2, <2>3 DEF PrintStep
<1>5. CASE SyncStep
  <2>0. UNCHANGED <<printing, printed>>
    BY <1>5 DEF SyncStep, SyncTop, NoQueue, WildQueue, ReadSize, Pop, WaitEvent,
       ResetAgain, NoFile, SeeFile, WriteOn, WriteTurned, WriteCrash
  <2>1. CASE Pop
    <3>1. queue # <<>> /\ queue' = Tail(queue) /\ batch' = Append(batch, Head(queue))
          /\ content' = content
      BY <1>0, <2>1 DEF Pop
    <3>2. LinesIn(queue') \subseteq LinesIn(queue) /\ Head(queue) \in LinesIn(queue)
      BY <1>a, <3>1, TailInOrder DEF OrderInv
    <3>3. LinesIn(batch') = LinesIn(batch) \cup {Head(queue)}
      BY <1>a, <1>b, <3>1, <3>2, AppendInOrder DEF Whole
    <3> QED
      BY <1>1, <2>0, <3>1, <3>2, <3>3 DEF AllLines
  <2>2. ASSUME PagePrinted
        PROVE  /\ LinesIn(batch') \subseteq LinesIn(batch) /\ Page \in Seq(Whole)
               /\ LinesIn(Page) \subseteq LinesIn(batch) \cup {Tick}
    BY <1>0, <2>2, PageInOrder DEF PagePrinted, OrderInv
  <2>3. CASE NoFile
    <3>1. PagePrinted /\ UNCHANGED <<queue, content>>
      BY <2>3 DEF NoFile
    <3> QED
      BY <1>1, <2>0, <2>2, <3>1 DEF AllLines
  <2>4. CASE WriteOn
    <3>1. PagePrinted /\ queue' = queue
      BY <2>4 DEF WriteOn
    <3>2. LinesIn(content[current] \o Page) = LinesIn(content[current]) \cup LinesIn(Page)
      BY <1>0, <2>2, <3>1, ConcatInOrder
    <3>3. content'[current] \in {content[current], content[current] \o Page}
      BY <1>0, <2>4 DEF WriteOn
    <3>4. \A t \in Times \ {current} : content'[t] = content[t]
      BY <1>0, <2>4 DEF WriteOn
    <3>5. \A t \in Times : LinesIn(content'[t]) \subseteq LinesIn(content[t]) \cup LinesIn(Page)
      BY <3>2, <3>3, <3>4
    <3> QED
      BY <1>1, <2>0, <2>2, <3>1, <3>5 DEF AllLines
  <2>5. CASE WriteTurned
    <3>1. PagePrinted /\ queue' = queue
      BY <2>5 DEF WriteTurned
    <3>2. \A t \in Times : content'[t] = content[t] \/ content'[t] = Page
      BY <1>0, <2>5 DEF WriteTurned
    <3> QED
      BY <1>1, <2>0, <2>2, <3>1, <3>2 DEF AllLines
  <2>6. CASE ~Pop /\ ~NoFile /\ ~WriteOn /\ ~WriteTurned
    <3>1. UNCHANGED <<queue, batch, content>>
      BY <1>5, <2>6 DEF SyncStep, SyncTop, NoQueue, WildQueue, ReadSize, WaitEvent,
         ResetAgain, SeeFile, WriteCrash
    <3> QED
      BY <1>1, <1>2, <2>0, <3>1
  <2> QED
    BY <2>1, <2>3, <2>4, <2>5, <2>6
<1>6. CASE CompressStep
  <2>1. UNCHANGED <<queue, batch, printing, printed>>
    BY <1>6 DEF CompressStep, CompressTop, PackFails, ClearFolder, Sweep, Pack,
       RemoveFolder, SweepArchive, SweepFile, Swept
  <2>2. \A t \in Times : content'[t] = content[t] \/ content'[t] = <<>>
    BY <1>6 DEF CompressStep, CompressTop, PackFails, ClearFolder, Sweep, Pack,
       RemoveFolder, SweepArchive, SweepFile, Swept, Keep
  <2>3. LinesIn(<<>>) = {}
    BY DEF LinesIn
  <2> QED
    BY <1>1, <2>1, <2>2, <2>3 DEF AllLines
<1>7. CASE TimePasses \/ UNCHANGED vars
  <2>1. UNCHANGED <<queue, batch, content, printing, printed>>
    BY <1>7 DEF TimePasses, vars
  <2> QED
    BY <1>1, <1>2, <2>1
<1> QED
  BY <1>3, <1>4, <1>5, <1>6, <1>7 DEF Next

LEMMA OrderStep ==
  TypeOK /\ LifeInv /\ SizeInv /\ CountInv /\ OrderInv /\ [Next]_vars => OrderInv'
<1> SUFFICES ASSUME TypeOK, LifeInv, SizeInv, CountInv, OrderInv, [Next]_vars
             PROVE  OrderInv'
  OBVIOUS
<1> USE DEF ownerVars, queueVars, printVars, syncVars, packVars, fileVars
<1>0. /\ queue \in Seq(Lines) /\ batch \in Seq(Lines) /\ current \in Times /\ now \in Times
      /\ content \in [Times -> Seq(Whole)] /\ printed \in [Printers -> Nat]
      /\ Times \subseteq Nat /\ current \in Nat /\ now \in Nat
  BY DEF TypeOK, ControlType, LinesType, FolderType, FileType, Whole, Times
<1>d. sync = "pop" => queue # <<>>
  BY DEF TypeOK, LinesType
<1>a. queue \in Seq(Whole) /\ batch \in Seq(Whole)
  BY <1>0 DEF Whole
<1>b. /\ LinesIn(queue) \subseteq Whole /\ LinesIn(batch) \subseteq Whole
      /\ \A t \in Times : LinesIn(content[t]) \subseteq Whole
  BY <1>0, <1>a DEF LinesIn
<1>c. LinesIn(<<>>) = {} /\ Increasing(<<>>)
  BY DEF LinesIn, Increasing
<1>1. ASSUME UNCHANGED <<queue, batch, content, current, now>>
      PROVE  OrderInv'
  BY <1>1 DEF OrderInv
<1>2. CASE OwnerStep
  <2>1. CASE StartThreads
    <3>1. /\ current' = now /\ owner = "construct" /\ UNCHANGED <<queue, batch, content, now>>
      BY <2>1 DEF StartThreads
    <3>2. \A u \in Times : content'[u] = <<>>
      BY <3>1 DEF SizeInv
    <3>3. current' <= now' /\ now' = now
      BY <1>0, <3>1
    <3> QED
      BY <3>1, <3>2, <3>3 DEF OrderInv
  <2>2. CASE DeleteQueue
    <3>1. queue' = <<>> /\ UNCHANGED <<batch, content, current, now>>
      BY <2>2 DEF DeleteQueue
    <3> QED
      BY <1>c, <3>1, InOrderIsOfSets DEF OrderInv
  <2>3. CASE ~StartThreads /\ ~DeleteQueue
    BY <1>1, <1>2, <2>3 DEF OwnerStep, NoFolder, CreateQueue, CloseFile, StopCompress,
       StopSync, ResetEvent
  <2> QED
    BY <2>1, <2>2, <2>3
<1>3. ASSUME NEW p \in Printers, PrintStep(p)
      PROVE  OrderInv'
  <2>1. CASE Push(p)
    <3> DEFINE x == Line(p, printed[p])
    <3>1. /\ queue' = Append(queue, x) /\ UNCHANGED <<batch, content, current, now>>
      BY <2>1 DEF Push
    <3>2. x \in Whole /\ x[1] = p /\ x[2] = printed[p] /\ printing[p] = "push"
      BY <1>0, <2>1 DEF Line, Lines, Whole, Push
    <3> HIDE DEF x
    <3>3. ASSUME NEW l \in AllLines
          PROVE  Before(l, x)
      BY <3>2, <3>3 DEF CountInv, Before
    <3>4. LinesIn(queue) \subseteq AllLines /\ LinesIn(batch) \subseteq AllLines
          /\ \A t \in Times : LinesIn(content[t]) \subseteq AllLines
      BY DEF AllLines
    <3>5. Increasing(queue') /\ LinesIn(queue') = LinesIn(queue) \cup {x}
      BY <1>a, <3>1, <3>2, <3>3, <3>4, AppendInOrder DEF OrderInv
    <3>6. InOrder(batch, queue')
      BY <3>3, <3>4, <3>5, InOrderIsOfSets DEF OrderInv
    <3>7. \A t \in Times : InOrder(content[t], queue')
      BY <3>3, <3>4, <3>5, InOrderIsOfSets DEF OrderInv
    <3> QED
      BY <3>1, <3>5, <3>6, <3>7 DEF OrderInv
  <2>2. CASE ~Push(p)
    BY <1>1, <1>3, <2>2 DEF PrintStep, Begin, PrintStr, PrintRefused, PrintWild, SetEvent
  <2> QED
    BY <2>1, <2>2
<1>4. CASE SyncStep
  <2>1. CASE Pop
    <3>1. /\ queue # <<>> /\ queue' = Tail(queue) /\ batch' = Append(batch, Head(queue))
          /\ UNCHANGED <<content, current, now>>
      BY <1>d, <2>1 DEF Pop
    <3>2. /\ Increasing(queue') /\ LinesIn(queue') \subseteq LinesIn(queue)
          /\ Head(queue) \in LinesIn(queue)
          /\ \A m \in LinesIn(queue') : Before(Head(queue), m)
      BY <1>a, <3>1, TailInOrder DEF OrderInv
    <3>3. \A l \in LinesIn(batch) : Before(l, Head(queue))
      BY <3>2, InOrderIsOfSets DEF OrderInv
    <3>4. Increasing(batch') /\ LinesIn(batch') = LinesIn(batch) \cup {Head(queue)}
      BY <1>a, <1>b, <3>1, <3>2, <3>3, AppendInOrder DEF OrderInv
    <3>5. InOrder(batch', queue')
      BY <3>2, <3>4, InOrderIsOfSets DEF OrderInv
    <3>6. \A t \in Times : InOrder(content[t], queue') /\ InOrder(content[t], batch')
      BY <3>2, <3>4, InOrderIsOfSets DEF OrderInv
    <3> QED
      BY <3>1, <3>2, <3>4, <3>5, <3>6 DEF OrderInv
  <2>2. ASSUME PagePrinted
        PROVE  /\ Page \in Seq(Whole) /\ Increasing(Page)
               /\ LinesIn(Page) \subseteq LinesIn(batch) \cup {Tick}
               /\ Increasing(batch') /\ LinesIn(batch') \subseteq LinesIn(batch)
               /\ InOrder(Page, batch')
    BY <1>0, <2>2, PageInOrder DEF PagePrinted, OrderInv
  <2>3. ASSUME PagePrinted
        PROVE  /\ InOrder(Page, queue) /\ InOrder(batch', queue)
               /\ \A t \in Times : InOrder(content[t], Page) /\ InOrder(content[t], batch')
    BY <1>b, <2>2, <2>3, InOrderIsOfSets, TickUnordered DEF OrderInv
  <2>4. CASE NoFile
    <3>1. PagePrinted /\ UNCHANGED <<queue, content, current, now>>
      BY <2>4 DEF NoFile
    <3> QED
      BY <2>2, <2>3, <3>1 DEF OrderInv
  <2>5. CASE WriteOn
    <3>1. PagePrinted /\ UNCHANGED <<queue, current, now>>
      BY <2>5 DEF WriteOn
    <3>2. \/ content'[current] = content[current]
          \/ content'[current] = content[current] \o Page
      BY <1>0, <2>5 DEF WriteOn
    <3>3. \A t \in Times \ {current} : content'[t] = content[t]
      BY <1>0, <2>5 DEF WriteOn
    <3>4. /\ LinesIn(content[current] \o Page) = LinesIn(content[current]) \cup LinesIn(Page)
          /\ Increasing(content[current] \o Page)
      BY <1>0, <2>2, <2>3, <3>1, ConcatInOrder DEF OrderInv
    <3>5. /\ Increasing(content'[current])
          /\ LinesIn(content'[current]) \subseteq LinesIn(content[current]) \cup LinesIn(Page)
      BY <1>0, <3>2, <3>4 DEF OrderInv
    <3>6. InOrder(content'[current], batch') /\ InOrder(content'[current], queue')
      BY <1>0, <2>2, <2>3, <3>1, <3>5, InOrderIsOfSets DEF OrderInv
    <3>7. ASSUME NEW t \in Times
          PROVE  /\ Increasing(content'[t]) /\ InOrder(content'[t], batch')
                 /\ InOrder(content'[t], queue')
                 /\ t > current' => content'[t] = <<>>
      <4>1. CASE t = current
        BY <1>0, <3>1, <3>5, <3>6, <4>1
      <4>2. CASE t # current
        BY <2>3, <3>1, <3>3, <4>2 DEF OrderInv
      <4> QED
        BY <4>1, <4>2
    <3>8. ASSUME NEW t \in Times, t < current
          PROVE  InOrder(content'[t], content'[current])
      <4>1. t # current /\ content'[t] = content[t]
        BY <1>0, <3>3, <3>8
      <4>2. InOrder(content[t], content[current]) /\ InOrder(content[t], Page)
        BY <1>0, <2>3, <3>1, <3>8 DEF OrderInv
      <4> QED
        BY <3>5, <4>1, <4>2, InOrderIsOfSets
    <3>9. ASSUME NEW t \in Times, NEW u \in Times, t < u
          PROVE  InOrder(content'[t], content'[u])
      <4>1. CASE u = current
        BY <3>8, <3>9, <4>1
      <4>2. CASE u # current /\ t # current
        BY <3>3, <3>9, <4>2 DEF OrderInv
      <4>3. CASE t = current
        <5>1. content'[u] = <<>>
          BY <3>1, <3>7, <3>9, <4>3
        <5> QED
          BY <1>c, <5>1, InOrderIsOfSets
      <4> QED
        BY <4>1, <4>2, <4>3
    <3>10. current' <= now' /\ InOrder(batch', queue') /\ Increasing(queue') /\ Increasing(batch')
      BY <2>2, <2>3, <3>1 DEF OrderInv
    <3> QED
      BY <3>7, <3>9, <3>10 DEF OrderInv
  <2>6. CASE WriteTurned
    <3>1. PagePrinted /\ current' = now /\ UNCHANGED <<queue, now>>
      BY <2>6 DEF WriteTurned
    <3>2. content'[now] = Page /\ \A t \in Times \ {now} : content'[t] = content[t]
      BY <1>0, <2>6 DEF WriteTurned
    <3>3. ASSUME NEW t \in Times, t > now
          PROVE  content'[t] = <<>>
      <4>1. current <= now /\ t \in Nat
        BY <1>0 DEF OrderInv
      <4>2. t > current /\ t # now
        BY <1>0, <3>3, <4>1
      <4> QED
        BY <3>2, <4>2 DEF OrderInv
    <3>4. ASSUME NEW t \in Times
          PROVE  /\ Increasing(content'[t]) /\ InOrder(content'[t], batch')
                 /\ InOrder(content'[t], queue')
                 /\ t > current' => content'[t] = <<>>
      BY <2>2, <2>3, <3>1, <3>2, <3>3 DEF OrderInv
    <3>5. ASSUME NEW t \in Times, NEW u \in Times, t < u
          PROVE  InOrder(content'[t], content'[u])
      <4>1. CASE u = now
        <5>1. t \in Nat /\ now \in Nat /\ t < now
          BY <1>0, <3>5, <4>1
        <5>2. t # now
          BY <5>1
        <5> QED
          BY <2>3, <3>1, <3>2, <4>1, <5>2
      <4>2. CASE u # now /\ t # now
        BY <3>2, <3>5, <4>2 DEF OrderInv
      <4>3. CASE t = now
        <5>1. content'[u] = <<>>
          BY <3>3, <3>5, <4>3
        <5> QED
          BY <1>c, <5>1, InOrderIsOfSets
      <4> QED
        BY <4>1, <4>2, <4>3
    <3>6. InOrder(batch', queue') /\ Increasing(queue') /\ Increasing(batch')
      BY <2>2, <2>3, <3>1 DEF OrderInv
    <3>7. current' <= now'
      BY <1>0, <3>1
    <3> QED
      BY <3>4, <3>5, <3>6, <3>7 DEF OrderInv
  <2>7. CASE ~Pop /\ ~NoFile /\ ~WriteOn /\ ~WriteTurned
    BY <1>1, <1>4, <2>7 DEF SyncStep, SyncTop, NoQueue, WildQueue, ReadSize, WaitEvent,
       ResetAgain, SeeFile, WriteCrash
  <2> QED
    BY <2>1, <2>4, <2>5, <2>6, <2>7
<1>5. CASE CompressStep
  <2>1. UNCHANGED <<queue, batch, current, now>>
    BY <1>5 DEF CompressStep, CompressTop, PackFails, ClearFolder, Sweep, Pack,
       RemoveFolder, SweepArchive, SweepFile, Swept
  <2>2. \A t \in Times : content'[t] = content[t] \/ content'[t] = <<>>
    BY <1>5 DEF CompressStep, CompressTop, PackFails, ClearFolder, Sweep, Pack,
       RemoveFolder, SweepArchive, SweepFile, Swept, Keep
  <2>3. \A s : InOrder(<<>>, s) /\ InOrder(s, <<>>)
    BY <1>c, InOrderIsOfSets
  <2>4. ASSUME NEW t \in Times
        PROVE  /\ Increasing(content'[t]) /\ InOrder(content'[t], batch')
               /\ InOrder(content'[t], queue')
               /\ t > current' => content'[t] = <<>>
    BY <1>c, <2>1, <2>2, <2>3 DEF OrderInv
  <2>5. ASSUME NEW t \in Times, NEW u \in Times, t < u
        PROVE  InOrder(content'[t], content'[u])
    BY <2>2, <2>3, <2>5 DEF OrderInv
  <2> QED
    BY <2>1, <2>4, <2>5 DEF OrderInv
<1>6. CASE TimePasses
  <2>1. now' = now + 1 /\ UNCHANGED <<queue, batch, content, current>>
    BY <1>6 DEF TimePasses
  <2>2. current <= now
    BY DEF OrderInv
  <2>3. current' <= now'
    BY <1>0, <2>1, <2>2
  <2> QED
    BY <2>1, <2>3 DEF OrderInv
<1>7. CASE UNCHANGED vars
  BY <1>1, <1>7 DEF vars
<1> QED
  BY <1>2, <1>3, <1>4, <1>5, <1>6, <1>7 DEF Next

(* The lines of a caller are stored in the order it logged them, no line   *)
(* twice, across batches, pages, files and the lines still on their way.   *)
THEOREM LogLinesInOrder == SafetySpec => []LinesInOrder
<1>1. Init => SizeInv /\ FileSizeBounded /\ CountInv /\ OrderInv
  <2> SUFFICES ASSUME Init
               PROVE  SizeInv /\ FileSizeBounded /\ CountInv /\ OrderInv
    OBVIOUS
  <2>1. /\ 0 \in Times /\ current = 0 /\ now = 0 /\ files = {} /\ totalSize = 0
        /\ queue = <<>> /\ batch = <<>> /\ \A t \in Times : content[t] = <<>>
    BY LogAssumption DEF Init, Times
  <2>2. LinesIn(<<>>) = {} /\ Increasing(<<>>) /\ Len(content[current]) = 0
    BY <2>1 DEF LinesIn, Increasing
  <2>3. AllLines = {}
    BY <2>1, <2>2 DEF AllLines
  <2>4. OrderInv
    BY <2>1, <2>2, InOrderIsOfSets DEF OrderInv
  <2> QED
    BY <2>1, <2>2, <2>3, <2>4 DEF SizeInv, FileSizeBounded, CountInv
<1>2. /\ TypeOK /\ LifeInv /\ FolderInv /\ SizeInv /\ FileSizeBounded /\ CountInv /\ OrderInv
      /\ [Next]_vars
      => SizeInv' /\ FileSizeBounded' /\ CountInv' /\ OrderInv'
  BY SizeStep, CountStep, OrderStep
<1>3. TypeOK /\ OrderInv => LinesInOrder
  BY DEF TypeOK, FileType, OrderInv, LinesInOrder
<1> QED
  BY <1>1, <1>2, <1>3, FolderInvariant, PTL DEF SafetySpec

=============================================================================
