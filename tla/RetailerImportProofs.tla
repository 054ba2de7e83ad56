------------------------ MODULE RetailerImportProofs ------------------------
(***************************************************************************)
(* Proofs about RetailerImport.  The outcome of a job is final with any    *)
(* number of slots.  What a run makes of its file is proved for one slot,  *)
(* RETAILER_IMPORT_WORKER_CONCURRENCY = 1 in one replica: with two the     *)
(* lines are not accounted for (run import_two_slots).  Files, batches and *)
(* faults are arbitrary.                                                   *)
(***************************************************************************)
EXTENDS RetailerImport, FiniteSetTheorems, TLAPS

(* Copies of lines are finite in number, and so is every set of them. *)
LEMMA CopiesFinite ==
    ASSUME NEW S \in SUBSET Copies
    PROVE  IsFiniteSet(S) /\ Cardinality(S) \in Nat
  <1>1. IsFiniteSet(Copies)
    BY FS_Product, LinesAssumption, HostsAssumption DEF Copies
  <1> QED
    BY <1>1, FS_Subset, FS_CardinalityType

(* A slot that goes idle has well-typed, empty variables. *)
LEMMA IdleType ==
    ASSUME TypeOK, NEW w \in Slots, Idle(w)
    PROVE  /\ pc' \in [Slots -> {"idle", "reportDone", "reportFailed"} \cup Working]
           /\ job' \in [Slots -> Jobs \cup {NoJob}]
           /\ refs' \in [Slots -> BOOLEAN]
           /\ batch' \in [Slots -> SUBSET Copies]
           /\ todo' \in [Slots -> SUBSET Copies]
           /\ chunk' \in [Slots -> SUBSET Copies]
           /\ handled' \in [Slots -> Nat]
           /\ pc'[w] = "idle" /\ job'[w] = NoJob /\ handled'[w] = 0
           /\ batch'[w] = {} /\ todo'[w] = {} /\ chunk'[w] = {}
           /\ \A v \in Slots \ {w} : pc'[v] = pc[v] /\ job'[v] = job[v]
  BY DEF Idle, Goto, TypeOK

(* Storing an upload and queueing its job, losing it, and the queue's      *)
(* handling of a stalled job keep the types and the locks.                 *)
LEMMA QueueSteps ==
    ASSUME QueueInvariant, NEW j \in Jobs,
           SaveFile(j) \/ AddJob(j) \/ LoseJob(j) \/ MoveStalled(j)
    PROVE  QueueInvariant'
  <1>1. TypeOK
    BY DEF QueueInvariant
  <1>2. UNCHANGED <<db, slot, result>>
    BY DEF SaveFile, AddJob, LoseJob, MoveStalled
  <1>3. /\ status' \in [Jobs -> {"new", "saved", "lost", "waiting", "active"} \cup Final]
        /\ \A i \in Jobs \ {j} : status'[i] = status[i] /\ owner'[i] = owner[i]
        /\ owner' \in [Jobs -> Slots \cup {NoSlot}]
        /\ upload' \in [Jobs -> Hosts \cup {NoHost}]
        /\ owner'[j] = NoSlot
    BY <1>1 DEF SaveFile, AddJob, LoseJob, MoveStalled, TypeOK, Final, QueueInvariant
  <1>4. stalls' \in [Jobs -> 0..MaxStalled]
    <2>1. CASE MoveStalled(j)
      <3>1. stalls[j] \in 0..MaxStalled /\ MaxStalled \in Nat
        BY <1>1, SizesAssumption DEF TypeOK
      <3>2. stalls[j] < MaxStalled => stalls[j] + 1 \in 0..MaxStalled
        BY <3>1
      <3> QED
        BY <1>1, <2>1, <3>2 DEF MoveStalled, TypeOK
    <2>2. CASE SaveFile(j) \/ AddJob(j) \/ LoseJob(j)
      BY <1>1, <2>2 DEF SaveFile, AddJob, LoseJob, TypeOK
    <2> QED
      BY <2>1, <2>2
  <1>5. TypeOK'
    BY <1>1, <1>2, <1>3, <1>4 DEF TypeOK, db, slot
  <1>6. \A i \in Jobs : owner'[i] # NoSlot => status'[i] = "active"
    BY <1>3 DEF QueueInvariant
  <1> QED
    BY <1>2, <1>5, <1>6 DEF QueueInvariant, slot

(* A slot takes a job: it holds the lock of what is now active. *)
LEMMA TakeStep ==
    ASSUME QueueInvariant, NEW w \in Slots, NEW j \in Jobs, Take(w, j)
    PROVE  QueueInvariant'
  <1>1. /\ TypeOK' /\ pc'[w] = "truncate" /\ job'[w] = j
        /\ \A v \in Slots \ {w} : pc'[v] = pc[v] /\ job'[v] = job[v]
        /\ status'[j] = "active"
        /\ \A i \in Jobs \ {j} : status'[i] = status[i] /\ owner'[i] = owner[i]
    BY DEF QueueInvariant, TypeOK, Take, Goto, db, Working
  <1>2. \A i \in Jobs : owner'[i] # NoSlot => status'[i] = "active"
    BY <1>1 DEF QueueInvariant
  <1>3. \A v \in Slots : pc'[v] = "idle" <=> job'[v] = NoJob
    BY <1>1, MarkersAssumption DEF QueueInvariant
  <1> QED
    BY <1>1, <1>2, <1>3 DEF QueueInvariant

(* A slot at work has a job. *)
LEMMA AtWork ==
    ASSUME QueueInvariant, NEW w \in Slots, pc[w] # "idle"
    PROVE  TypeOK /\ job[w] \in Jobs /\ LinesOf(job[w]) \in SUBSET Lines
  BY DEF QueueInvariant, TypeOK, LinesOf

(* A step of w that keeps the queue's variables and its job keeps the      *)
(* types of the rest if it keeps those of what it writes.                  *)
LEMMA RunStep ==
    ASSUME QueueInvariant, NEW w \in Slots, UNCHANGED <<queue, job>>, pc[w] # "idle",
           NEW label \in Working \cup {"reportDone", "reportFailed"}, Goto(w, label),
           TypeOK'
    PROVE  QueueInvariant'
  <1>1. pc'[w] = label /\ label # "idle" /\ \A v \in Slots \ {w} : pc'[v] = pc[v]
    BY DEF Goto, QueueInvariant, TypeOK, Working
  <1> QED
    BY <1>1 DEF QueueInvariant, queue

(* The statements that touch no line keep the types. *)
LEMMA StagingSteps ==
    ASSUME QueueInvariant, NEW w \in Slots,
           \/ Truncate(w) \/ Copy(w) \/ LoadReferenceSets(w) \/ RemoveProcessed(w)
           \/ DeleteErrors(w) \/ ClearResolvedErrors(w) \/ StatementFails(w)
    PROVE  QueueInvariant'
  <1> USE DEF queue, db, Working
  <1>1. TypeOK /\ pc[w] # "idle"
    BY DEF QueueInvariant, Truncate, Copy, LoadReferenceSets, RemoveProcessed, DeleteErrors,
           ClearResolvedErrors, StatementFails
  <1>2. \A U : Forget(U) \in [Lines -> Nat]
    BY <1>1 DEF Forget, TypeOK
  <1>3. CASE Truncate(w)
    <2>1. TypeOK'
      BY <1>1, <1>3 DEF Truncate, TypeOK, Goto
    <2> QED
      BY <1>1, <1>3, <2>1, RunStep DEF Truncate
  <1>4. CASE Copy(w)
    <2>1. {w} \X LinesOf(job[w]) \subseteq Copies
      BY <1>1, AtWork DEF Copies
    <2>2. TypeOK'
      BY <1>1, <1>4, <2>1 DEF Copy, TypeOK, Goto
    <2> QED
      BY <1>1, <1>4, <2>2, RunStep DEF Copy
  <1>5. CASE LoadReferenceSets(w)
    <2>1. TypeOK'
      BY <1>1, <1>5 DEF LoadReferenceSets, TypeOK, Goto
    <2> QED
      BY <1>1, <1>5, <2>1, RunStep DEF LoadReferenceSets
  <1>6. CASE RemoveProcessed(w)
    <2>1. TypeOK'
      BY <1>1, <1>6 DEF RemoveProcessed, TypeOK, Goto
    <2> QED
      BY <1>1, <1>6, <2>1, RunStep DEF RemoveProcessed
  <1>7. CASE DeleteErrors(w)
    <2>1. TypeOK'
      BY <1>1, <1>2, <1>7 DEF DeleteErrors, TypeOK, Goto
    <2> QED
      BY <1>1, <1>7, <2>1, RunStep DEF DeleteErrors
  <1>8. CASE ClearResolvedErrors(w)
    <2>1. TypeOK'
      BY <1>1, <1>2, <1>8 DEF ClearResolvedErrors, TypeOK, Goto
    <2>2. Goto(w, "remove") \/ Goto(w, "upsert")
      BY <1>8 DEF ClearResolvedErrors
    <2> QED
      BY <1>1, <1>8, <2>1, <2>2, RunStep DEF ClearResolvedErrors
  <1>9. CASE StatementFails(w)
    <2>1. TypeOK'
      BY <1>1, <1>9 DEF StatementFails, TypeOK, Goto
    <2> QED
      BY <1>1, <1>9, <2>1, RunStep DEF StatementFails
  <1> QED
    BY <1>3, <1>4, <1>5, <1>6, <1>7, <1>8, <1>9

(* So do those that split, record and upsert the lines of a batch. *)
LEMMA LineSteps ==
    ASSUME QueueInvariant, NEW w \in Slots,
           SelectBatch(w) \/ InsertErrors(w) \/ UpsertChunk(w)
    PROVE  QueueInvariant'
  <1> USE DEF queue, db, Working
  <1>1. TypeOK /\ pc[w] # "idle"
    BY DEF QueueInvariant, SelectBatch, InsertErrors, UpsertChunk
  <1>2. CASE SelectBatch(w)
    <2>1. PICK rws \in Pick(BatchSize, staging) :
             /\ batch' = [batch EXCEPT ![w] = rws]
             /\ todo' = [todo EXCEPT ![w] = {c \in rws : Valid(w, c)}]
             /\ \E label \in Working : Goto(w, label)
      BY <1>2 DEF SelectBatch
    <2>2. rws \in SUBSET Copies
      BY <1>1, <2>1 DEF Pick, TypeOK
    <2>3. TypeOK'
      BY <1>1, <1>2, <2>1, <2>2 DEF SelectBatch, TypeOK, Goto
    <2> QED
      BY <1>1, <1>2, <2>1, <2>3, RunStep DEF SelectBatch
  <1>3. CASE InsertErrors(w)
    <2>1. Invalid(w) \in SUBSET Copies
      BY <1>1 DEF Invalid, TypeOK
    <2>2. Cardinality(Invalid(w)) \in Nat
      BY <2>1, CopiesFinite
    <2>3. ASSUME NEW l \in Lines
          PROVE  Cardinality({c \in Invalid(w) : c[2] = l}) \in Nat
      <3>1. {c \in Invalid(w) : c[2] = l} \in SUBSET Copies
        BY <2>1
      <3> QED
        BY <3>1, CopiesFinite
    <2>4. errorRows' \in [Lines -> Nat]
      BY <1>1, <1>3, <2>3 DEF InsertErrors, TypeOK
    <2>5. handled' \in [Slots -> Nat]
      BY <1>1, <1>3, <2>2 DEF InsertErrors, TypeOK
    <2>6. TypeOK'
      BY <1>1, <1>3, <2>4, <2>5 DEF InsertErrors, TypeOK, Goto
    <2>7. Goto(w, "remove") \/ Goto(w, "upsert")
      BY <1>3 DEF InsertErrors
    <2> QED
      BY <1>1, <1>3, <2>6, <2>7, RunStep DEF InsertErrors
  <1>4. CASE UpsertChunk(w)
    <2>1. PICK C \in Pick(ChunkSize, todo[w]) :
             IF Upsertable(C)
             THEN /\ retailers' = [u \in Uids |->
                        IF u \in UidsOf(C) THEN (CHOOSE c \in C : UidOf[c[2]] = u)[2]
                        ELSE retailers[u]]
                  /\ handled' = [handled EXCEPT ![w] = @ + Cardinality(C)]
                  /\ chunk' = [chunk EXCEPT ![w] = C]
                  /\ Goto(w, "clear")
             ELSE UNCHANGED <<retailers, handled, chunk>> /\ Goto(w, "unlinkFailed")
      BY <1>4 DEF UpsertChunk
    <2>2. C \in SUBSET Copies
      BY <1>1, <2>1 DEF Pick, TypeOK
    <2>3. Cardinality(C) \in Nat
      BY <2>2, CopiesFinite
    <2>4. ASSUME NEW u \in UidsOf(C)
          PROVE  (CHOOSE c \in C : UidOf[c[2]] = u)[2] \in Lines
      <3>1. \E c \in C : UidOf[c[2]] = u
        BY DEF UidsOf
      <3>2. (CHOOSE c \in C : UidOf[c[2]] = u) \in Copies
        BY <2>2, <3>1
      <3> QED
        BY <3>2 DEF Copies
    <2>5. retailers' \in [Uids -> Lines \cup {NoLine}] /\ handled' \in [Slots -> Nat]
          /\ chunk' \in [Slots -> SUBSET Copies]
      <3>1. CASE Upsertable(C)
        <4>1. retailers' \in [Uids -> Lines \cup {NoLine}]
          BY <1>1, <2>1, <2>4, <3>1 DEF TypeOK
        <4>2. handled' \in [Slots -> Nat] /\ chunk' \in [Slots -> SUBSET Copies]
          BY <1>1, <2>1, <2>2, <2>3, <3>1 DEF TypeOK
        <4> QED
          BY <4>1, <4>2
      <3>2. CASE ~Upsertable(C)
        BY <1>1, <2>1, <3>2 DEF TypeOK
      <3> QED
        BY <3>1, <3>2
    <2>6. PICK label \in {"clear", "unlinkFailed"} : Goto(w, label)
      BY <2>1
    <2>7. TypeOK'
      BY <1>1, <1>4, <2>5, <2>6 DEF UpsertChunk, TypeOK, Goto
    <2> QED
      BY <1>1, <1>4, <2>6, <2>7, RunStep DEF UpsertChunk
  <1> QED
    BY <1>2, <1>3, <1>4

(* The end of a run, or of its process. *)
LEMMA EndSteps ==
    ASSUME QueueInvariant, NEW w \in Slots, Unlink(w) \/ Report(w) \/ Crash(w)
    PROVE  QueueInvariant'
  <1>1. TypeOK
    BY DEF QueueInvariant
  <1>2. CASE Unlink(w)
    <2>1. pc[w] # "idle" /\ upload' \in [Jobs -> Hosts \cup {NoHost}]
      BY <1>1, <1>2 DEF Unlink, TypeOK
    <2>2. PICK label \in {"reportDone", "reportFailed"} : Goto(w, label)
      BY <1>2 DEF Unlink
    <2>3. TypeOK'
      BY <1>1, <1>2, <2>1, <2>2 DEF Unlink, Goto, TypeOK, queue, db
    <2> QED
      BY <1>2, <2>1, <2>2, <2>3, RunStep DEF Unlink
  <1>3. CASE Report(w)
    <2>1. pc[w] # "idle" /\ job[w] \in Jobs
      BY <1>3, AtWork DEF Report
    <2>2. /\ status' \in [Jobs -> {"new", "saved", "lost", "waiting", "active"} \cup Final]
          /\ result' \in [Jobs -> Nat] /\ owner' \in [Jobs -> Slots \cup {NoSlot}]
          /\ \A j \in Jobs : \/ status'[j] = status[j] /\ owner'[j] = owner[j]
                             \/ owner'[j] = NoSlot
      BY <1>1, <1>3, <2>1 DEF Report, TypeOK, Final
    <2>3. TypeOK' /\ \A v \in Slots : pc'[v] = "idle" <=> job'[v] = NoJob
      BY <1>1, <1>3, <2>2, IdleType DEF Report, TypeOK, QueueInvariant, db
    <2> QED
      BY <2>2, <2>3 DEF QueueInvariant
  <1>4. CASE Crash(w)
    <2>1. TypeOK' /\ \A v \in Slots : pc'[v] = "idle" <=> job'[v] = NoJob
      BY <1>1, <1>4, IdleType DEF Crash, TypeOK, QueueInvariant, queue, db
    <2> QED
      BY <1>4, <2>1 DEF QueueInvariant, Crash, queue
  <1> QED
    BY <1>2, <1>3, <1>4

(* Every step of a slot and of the queue keeps types and locks. *)
LEMMA QueueInvariantStep ==
    ASSUME QueueInvariant, [Next]_vars
    PROVE  QueueInvariant'
  <1>1. CASE UNCHANGED vars
    BY <1>1 DEF QueueInvariant, TypeOK, vars, queue, db, slot
  <1>2. CASE DropReference
    BY <1>2 DEF QueueInvariant, TypeOK, DropReference, queue, slot
  <1> QED
    BY <1>1, <1>2, QueueSteps, TakeStep, StagingSteps, LineSteps, EndSteps DEF Next, Run

(* They are right before the first job. *)
LEMMA QueueInvariantInitially == Init => QueueInvariant
  BY SizesAssumption DEF Init, QueueInvariant, TypeOK

(* Types and locks, whatever the number of slots. *)
THEOREM QueueInvariantHolds == Spec => []QueueInvariant
  BY QueueInvariantInitially, QueueInvariantStep, PTL DEF Spec

-----------------------------------------------------------------------------
(* A job that has ended is held by nobody, so no report reaches it. *)
LEMMA OutcomeStays ==
    ASSUME QueueInvariant, [Next]_vars, NEW j \in Jobs, status[j] \in Final
    PROVE  status'[j] = status[j] /\ result'[j] = result[j]
  <1>1. TypeOK /\ owner[j] = NoSlot
    BY DEF QueueInvariant, Final
  <1>2. ASSUME NEW i \in Jobs, SaveFile(i) \/ AddJob(i) \/ LoseJob(i) \/ MoveStalled(i)
        PROVE  status'[j] = status[j] /\ result'[j] = result[j]
    BY <1>1, <1>2 DEF SaveFile, AddJob, LoseJob, MoveStalled, TypeOK, Final
  <1>3. ASSUME NEW w \in Slots, NEW i \in Jobs, Take(w, i)
        PROVE  status'[j] = status[j] /\ result'[j] = result[j]
    BY <1>1, <1>3 DEF Take, TypeOK, Final
  <1>4. ASSUME NEW w \in Slots, Report(w)
        PROVE  status'[j] = status[j] /\ result'[j] = result[j]
    <2>1. owner[job[w]] = w => job[w] # j
      BY <1>1, MarkersAssumption
    <2> QED
      BY <1>1, <1>4, <2>1 DEF Report, TypeOK
  <1>5. ASSUME NEW w \in Slots, Crash(w) \/ StatementFails(w) \/ (Run(w) /\ ~Report(w))
        PROVE  UNCHANGED queue
    BY <1>5 DEF Crash, StatementFails, Run, Truncate, Copy, LoadReferenceSets, SelectBatch,
                DeleteErrors, InsertErrors, UpsertChunk, ClearResolvedErrors, RemoveProcessed,
                Unlink
  <1>6. CASE UNCHANGED queue
    BY <1>6 DEF queue
  <1> QED
    BY <1>2, <1>3, <1>4, <1>5, <1>6 DEF Next, DropReference, vars

(* What the queue has reported stands, though any number of slots that     *)
(* have lost their lock may still be running the job.                      *)
THEOREM OutcomesAreFinal == Spec => OutcomeIsFinal
  <1>1. QueueInvariant /\ [Next]_vars =>
          [\A j \in Jobs : status[j] \in Final =>
             status'[j] = status[j] /\ result'[j] = result[j]]_vars
    BY OutcomeStays
  <1> QED
    BY <1>1, QueueInvariantHolds, PTL DEF Spec, OutcomeIsFinal

-----------------------------------------------------------------------------
(* One slot.  A copy of a line counts for the line. *)
LEMMA CopiesOfLines ==
    ASSUME NEW w \in Slots, NEW L \in SUBSET Lines
    PROVE  /\ Cardinality({w} \X L) = Cardinality(L)
           /\ {w} \X L \in SUBSET Copies
  <1>1. IsFiniteSet(L) /\ Cardinality(L) \in Nat
    BY LinesAssumption, FS_Subset, FS_CardinalityType
  <1>2. IsFiniteSet({w}) /\ Cardinality({w}) = 1
    BY FS_Singleton
  <1>3. Cardinality({w} \X L) = 1 * Cardinality(L)
    BY <1>1, <1>2, FS_Product
  <1> QED
    BY <1>1, <1>3 DEF Copies

(* Counting a set in two parts. *)
LEMMA CountInParts ==
    ASSUME NEW S \in SUBSET Copies, NEW T \in SUBSET S
    PROVE  /\ Cardinality(S) = Cardinality(S \ T) + Cardinality(T)
           /\ Cardinality(S) \in Nat /\ Cardinality(T) \in Nat /\ Cardinality(S \ T) \in Nat
  <1>1. IsFiniteSet(S) /\ S \cap T = T /\ T \in SUBSET Copies /\ S \ T \in SUBSET Copies
    BY CopiesFinite
  <1>2. Cardinality(S) \in Nat /\ Cardinality(T) \in Nat /\ Cardinality(S \ T) \in Nat
    BY <1>1, CopiesFinite
  <1>3. Cardinality(S \ T) = Cardinality(S) - Cardinality(S \cap T)
    BY <1>1, FS_Difference
  <1> QED
    BY <1>1, <1>2, <1>3

(* What a run knows of itself. *)
RunStands(w) == BatchStands(w) /\ CountStands(w) /\ LinesStand(w)

(* A step is right if it is right for the one slot and for the tables. *)
LEMMA OneSlotStep ==
    ASSUME ImportInvariant, OneSlot, NEW w \in Slots, QueueInvariant', RunStands(w)',
           (\A u \in Uids : retailers[u] # NoLine => UidOf[retailers[u]] = u)',
           SummaryCountsTheFile', ErrorsRecordedOnce'
    PROVE  ImportInvariant'
  BY DEF ImportInvariant, OneSlot, RunStands

(* The summaries and the retailers stay true while nobody writes them. *)
LEMMA TablesKeep ==
    ASSUME ImportInvariant
    PROVE  /\ UNCHANGED retailers =>
                 (\A u \in Uids : retailers[u] # NoLine => UidOf[retailers[u]] = u)'
           /\ UNCHANGED <<status, result>> => SummaryCountsTheFile'
           /\ UNCHANGED errorRows => ErrorsRecordedOnce'
  BY DEF ImportInvariant, SummaryCountsTheFile, ErrorsRecordedOnce, LinesOf

(* Nor is a run concerned with the queue, or with the file on disk.        *)
LEMMA RunKeeps ==
    ASSUME NEW w \in Slots, RunStands(w),
           UNCHANGED <<staging, retailers, errorRows, pc, job, batch, todo, chunk, handled>>
    PROVE  RunStands(w)'
  <1>1. BatchStands(w)'
    BY DEF RunStands, BatchStands, LinesOf
  <1>2. Unhandled(w)' = Unhandled(w) /\ Invalid(w)' = Invalid(w)
    BY DEF Unhandled, Invalid
  <1>3. CountStands(w)'
    BY <1>2 DEF RunStands, CountStands, LinesOf
  <1>4. LinesStand(w)'
    BY <1>2 DEF RunStands, LinesStand, HandledLines, Accounted, Forgotten, Peers, LinesOf
  <1> QED
    BY <1>1, <1>3, <1>4 DEF RunStands

(* Steps of the queue and of the administrator. *)
LEMMA ImportQueueSteps ==
    ASSUME ImportInvariant, OneSlot, QueueInvariant',
           DropReference \/ \E j \in Jobs : SaveFile(j) \/ AddJob(j) \/ LoseJob(j) \/ MoveStalled(j)
    PROVE  ImportInvariant'
  <1>1. UNCHANGED <<staging, retailers, errorRows, slot, result>>
    BY DEF DropReference, SaveFile, AddJob, LoseJob, MoveStalled, queue, db
  <1>2. \A j \in Jobs : status'[j] = "completed" => status[j] = "completed"
    BY DEF ImportInvariant, QueueInvariant, TypeOK, DropReference, SaveFile, AddJob, LoseJob,
           MoveStalled, queue
  <1>3. SummaryCountsTheFile'
    BY <1>1, <1>2 DEF ImportInvariant, SummaryCountsTheFile, LinesOf
  <1>4. \A w \in Slots : RunStands(w)'
    BY <1>1, RunKeeps DEF ImportInvariant, RunStands, slot
  <1> QED
    BY <1>1, <1>3, <1>4, TablesKeep DEF ImportInvariant, RunStands

(* A slot takes a job with nothing in hand. *)
LEMMA ImportTake ==
    ASSUME ImportInvariant, OneSlot, QueueInvariant', NEW w \in Slots, NEW j \in Jobs, Take(w, j)
    PROVE  ImportInvariant'
  <1>1. TypeOK /\ RunStands(w) /\ pc[w] = "idle" /\ pc'[w] = "truncate"
    BY DEF ImportInvariant, QueueInvariant, RunStands, Take, Goto, TypeOK
  <1>2. UNCHANGED <<result, batch, todo, chunk, handled, retailers, errorRows>>
    BY DEF Take, db
  <1>3. SummaryCountsTheFile'
    BY <1>1, <1>2 DEF Take, ImportInvariant, SummaryCountsTheFile, LinesOf, TypeOK
  <1>4. RunStands(w)'
    BY <1>1, <1>2 DEF RunStands, BatchStands, CountStands, LinesStand, Staged, Finished
  <1> QED
    BY <1>2, <1>3, <1>4, OneSlotStep, TablesKeep

(* Going idle forgets the run. *)
LEMMA IdleStands ==
    ASSUME TypeOK, NEW w \in Slots, Idle(w)
    PROVE  RunStands(w)'
  <1>1. /\ pc'[w] = "idle" /\ handled'[w] = 0
        /\ batch'[w] = {} /\ todo'[w] = {} /\ chunk'[w] = {}
    BY IdleType
  <1> QED
    BY <1>1 DEF RunStands, BatchStands, CountStands, LinesStand, Staged, Finished

(* The summary of a run that has come to its end counts the file. *)
LEMMA ImportEnds ==
    ASSUME ImportInvariant, OneSlot, QueueInvariant', NEW w \in Slots, Report(w) \/ Crash(w)
    PROVE  ImportInvariant'
  <1>1. TypeOK /\ Idle(w) /\ UNCHANGED <<retailers, errorRows>> /\ RunStands(w)
    BY DEF ImportInvariant, QueueInvariant, Report, Crash, db, RunStands
  <1>2. RunStands(w)'
    BY <1>1, IdleStands
  <1>3. CASE Crash(w)
    BY <1>1, <1>2, <1>3, OneSlotStep, TablesKeep DEF Crash, queue
  <1>4. CASE Report(w)
    <2>1. job[w] \in Jobs /\ LinesOf(job[w]) \in SUBSET Lines
      BY <1>4, AtWork DEF ImportInvariant, Report
    <2>2. ASSUME pc[w] = "reportDone"
          PROVE  handled[w] = Cardinality(LinesOf(job[w]))
      <3>1. Unhandled(w) = {} /\ handled[w] \in Nat
        BY <1>1, <2>2 DEF Unhandled, TypeOK
      <3>2. handled[w] + Cardinality({}) = Cardinality(LinesOf(job[w]))
        BY <1>1, <2>2, <3>1 DEF RunStands, CountStands, Finished
      <3> QED
        BY <3>1, <3>2, FS_EmptySet
    <2>3. ASSUME NEW j \in Jobs, status'[j] = "completed"
          PROVE  result'[j] = Cardinality(LinesOf(j))
      <3>1. CASE j = job[w] /\ owner[job[w]] = w
        BY <1>1, <1>4, <2>1, <2>2, <2>3, <3>1 DEF Report, TypeOK
      <3>2. CASE ~(j = job[w] /\ owner[job[w]] = w)
        <4>1. status'[j] = status[j] /\ result'[j] = result[j]
          BY <1>1, <1>4, <3>2 DEF Report, TypeOK
        <4> QED
          BY <2>3, <4>1 DEF ImportInvariant, SummaryCountsTheFile
      <3> QED
        BY <3>1, <3>2
    <2>4. SummaryCountsTheFile'
      BY <2>3 DEF SummaryCountsTheFile, LinesOf
    <2> QED
      BY <1>1, <1>2, <2>4, OneSlotStep, TablesKeep
  <1> QED
    BY <1>3, <1>4

(* A step of a run that keeps the queue and the retailers is right if the  *)
(* run stands, and the errors stay single.                                 *)
LEMMA OwnStep ==
    ASSUME ImportInvariant, OneSlot, QueueInvariant', NEW w \in Slots,
           UNCHANGED <<queue, retailers>>, RunStands(w)', ErrorsRecordedOnce'
    PROVE  ImportInvariant'
  BY OneSlotStep, TablesKeep DEF queue

(* What the invariant says of the slot at work. *)
LEMMA AtStatement ==
    ASSUME ImportInvariant, NEW w \in Slots, pc[w] # "idle"
    PROVE  /\ QueueInvariant /\ TypeOK /\ RunStands(w) /\ ErrorsRecordedOnce
           /\ job[w] \in Jobs /\ LinesOf(job[w]) \in SUBSET Lines
  BY AtWork DEF ImportInvariant, RunStands

(* TRUNCATE, COPY and the reference sets: the staged rows are the file,    *)
(* and none of them has been counted.                                      *)
LEMMA ImportStages ==
    ASSUME ImportInvariant, OneSlot, QueueInvariant', NEW w \in Slots,
           Truncate(w) \/ Copy(w) \/ LoadReferenceSets(w)
    PROVE  ImportInvariant'
  <1>1. /\ TypeOK /\ RunStands(w) /\ ErrorsRecordedOnce
        /\ UNCHANGED <<queue, retailers, errorRows, job, batch, todo, chunk, handled>>
        /\ LinesOf(job[w]) \in SUBSET Lines
    BY AtStatement DEF Truncate, Copy, LoadReferenceSets, db
  <1>2. ASSUME Truncate(w)
        PROVE  RunStands(w)'
    <2>1. pc[w] = "truncate" /\ pc'[w] = "copy" /\ staging' = {}
      BY <1>1, <1>2 DEF Truncate, Goto, TypeOK
    <2> QED
      BY <1>1, <2>1 DEF RunStands, BatchStands, CountStands, LinesStand, Staged, Finished
  <1>3. ASSUME Copy(w) /\ Readable(w)
        PROVE  RunStands(w)'
    <2>1. /\ pc[w] = "copy" /\ pc'[w] = "refs" /\ staging = {} /\ handled[w] = 0
          /\ staging' = {w} \X LinesOf(job[w])
      BY <1>1, <1>3 DEF Copy, Goto, TypeOK, RunStands, BatchStands
    <2>2. Unhandled(w)' = {w} \X LinesOf(job[w]) /\ HandledLines(w)' = {}
      BY <1>1, <2>1 DEF Unhandled, HandledLines, LinesOf
    <2>3. CountStands(w)'
      <3>1. Cardinality({w} \X LinesOf(job[w])) = Cardinality(LinesOf(job[w]))
        BY <1>1, CopiesOfLines
      <3>2. Cardinality(LinesOf(job[w])) \in Nat
        BY <1>1, LinesAssumption, FS_Subset, FS_CardinalityType
      <3> QED
        BY <1>1, <2>1, <2>2, <3>1, <3>2 DEF CountStands, LinesOf
    <2>4. LinesStand(w)'
      BY <2>1, <2>2 DEF LinesStand
    <2>5. BatchStands(w)'
      BY <1>1, <2>1 DEF RunStands, BatchStands, LinesOf
    <2> QED
      BY <2>3, <2>4, <2>5 DEF RunStands
  <1>4. ASSUME Copy(w) /\ ~Readable(w)
        PROVE  RunStands(w)'
    <2>1. pc[w] = "copy" /\ pc'[w] = "unlinkFailed"
      BY <1>1, <1>4 DEF Copy, Goto, TypeOK
    <2> QED
      BY <1>1, <2>1 DEF RunStands, BatchStands, CountStands, LinesStand, Staged, Finished
  <1>5. ASSUME LoadReferenceSets(w)
        PROVE  RunStands(w)'
    <2>1. pc[w] = "refs" /\ pc'[w] = "select" /\ UNCHANGED staging
      BY <1>1, <1>5 DEF LoadReferenceSets, Goto, TypeOK, db
    <2>2. Unhandled(w)' = Unhandled(w) /\ HandledLines(w)' = HandledLines(w)
      BY <1>1, <2>1 DEF Unhandled, HandledLines, LinesOf
    <2>3. BatchStands(w)'
      BY <1>1, <2>1 DEF RunStands, BatchStands, LinesOf, Staged
    <2>4. CountStands(w)'
      BY <1>1, <2>1, <2>2 DEF RunStands, CountStands, LinesOf, Staged
    <2>5. LinesStand(w)'
      BY <1>1, <2>1, <2>2 DEF RunStands, LinesStand, Accounted, Peers, LinesOf, Staged
    <2> QED
      BY <2>3, <2>4, <2>5 DEF RunStands
  <1> QED
    BY <1>1, <1>2, <1>3, <1>4, <1>5, OwnStep, TablesKeep DEF RunStands

(* Choosing a batch counts nothing; an empty batch means an empty table.   *)
LEMMA ImportSelects ==
    ASSUME ImportInvariant, OneSlot, QueueInvariant', NEW w \in Slots, SelectBatch(w)
    PROVE  ImportInvariant'
  <1>1. /\ TypeOK /\ RunStands(w) /\ ErrorsRecordedOnce /\ pc[w] = "select"
        /\ UNCHANGED <<queue, staging, retailers, errorRows, job, chunk, handled>>
    BY AtStatement DEF SelectBatch, db
  <1>2. PICK rws \in Pick(BatchSize, staging) :
           /\ batch' = [batch EXCEPT ![w] = rws]
           /\ todo' = [todo EXCEPT ![w] = {c \in rws : Valid(w, c)}]
           /\ Goto(w, IF rws = {} THEN "unlinkDone"
                      ELSE IF rws # {c \in rws : Valid(w, c)} THEN "errDelete" ELSE "upsert")
    BY DEF SelectBatch
  <1>3. /\ batch'[w] = rws /\ todo'[w] = {c \in rws : Valid(w, c)}
        /\ chunk'[w] = {} /\ rws \subseteq staging
        /\ pc'[w] \in {"unlinkDone", "errDelete", "upsert"}
        /\ pc'[w] = "unlinkDone" <=> rws = {}
        /\ pc'[w] = "upsert" => todo'[w] = batch'[w]
    BY <1>1, <1>2 DEF Goto, TypeOK, Pick, RunStands, BatchStands
  <1>4. rws = {} => staging = {}
    <2>1. IsFiniteSet(staging) /\ Cardinality(staging) \in Nat
      BY <1>1, CopiesFinite DEF TypeOK
    <2>2. rws = {} => Cardinality(staging) = 0
      BY <1>2, <2>1, SizesAssumption, FS_EmptySet DEF Pick, Least
    <2> QED
      BY <2>1, <2>2, FS_EmptySet
  <1>5. Unhandled(w) = staging /\ Unhandled(w)' = staging
    BY <1>1, <1>3, <1>4 DEF Unhandled
  <1>6. HandledLines(w)' = HandledLines(w)
    BY <1>1, <1>5 DEF HandledLines, LinesOf
  <1>7. ASSUME NEW c \in todo'[w]
        PROVE  UidOf[c[2]] # NoUid
    <2>1. KindOf[c[2]] \in {"ok", "poison", "ref"} /\ c[2] \in Lines
      BY <1>1, <1>3, <1>7 DEF Valid, TypeOK, Copies
    <2> QED
      BY <2>1, LinesAssumption
  <1>8. BatchStands(w)'
    BY <1>1, <1>3, <1>7 DEF RunStands, BatchStands, LinesOf, Staged
  <1>9. CountStands(w)'
    BY <1>1, <1>3, <1>5 DEF RunStands, CountStands, LinesOf, Staged
  <1>10. LinesStand(w)'
    BY <1>1, <1>3, <1>6 DEF RunStands, LinesStand, Accounted, Peers, LinesOf, Staged
  <1> QED
    BY <1>1, <1>8, <1>9, <1>10, OwnStep, TablesKeep DEF RunStands

(* Forgetting errors takes them away from the named uids only. *)
LEMMA ForgetErrors ==
    ASSUME TypeOK, NEW U, errorRows' = Forget(U)
    PROVE  /\ \A l \in Lines : errorRows'[l] = IF UidOf[l] \in U THEN 0 ELSE errorRows[l]
           /\ ErrorsRecordedOnce => ErrorsRecordedOnce'
  BY DEF Forget, ErrorsRecordedOnce, TypeOK

(* Two lines of a file about one retailer. *)
LEMMA PeersShareUid ==
    ASSUME NEW l \in Lines, NEW m \in Lines, UidOf[m] # NoUid
    PROVE  m \in Peers(l) <=> FileOf[m] = FileOf[l] /\ UidOf[m] = UidOf[l]
  BY DEF Peers, LinesOf

(* insertErrors first forgets: what it forgets it is about to record.      *)
LEMMA ImportForgets ==
    ASSUME ImportInvariant, OneSlot, QueueInvariant', NEW w \in Slots, DeleteErrors(w)
    PROVE  ImportInvariant'
  <1> DEFINE U == UidsOf(Invalid(w))
  <1>1. /\ TypeOK /\ RunStands(w) /\ ErrorsRecordedOnce
        /\ pc[w] = "errDelete" /\ pc'[w] = "errInsert"
        /\ errorRows' = Forget(U)
        /\ UNCHANGED <<queue, staging, retailers, job, batch, todo, chunk, handled>>
        /\ LinesOf(job[w]) \in SUBSET Lines
    BY AtStatement DEF DeleteErrors, Goto, TypeOK
  <1>2. Unhandled(w)' = Unhandled(w) /\ HandledLines(w)' = HandledLines(w) /\ Invalid(w)' = Invalid(w)
    BY <1>1 DEF Unhandled, HandledLines, LinesOf, Invalid
  <1>3. \A l \in Lines : errorRows'[l] = IF UidOf[l] \in U THEN 0 ELSE errorRows[l]
    BY <1>1, ForgetErrors
  <1>4. U' = U
    BY <1>2 DEF UidsOf
  <1> HIDE DEF U
  <1>5. BatchStands(w)'
    BY <1>1 DEF RunStands, BatchStands, LinesOf, Staged
  <1>6. CountStands(w)'
    BY <1>1, <1>2 DEF RunStands, CountStands, LinesOf, Staged
  <1>7. ASSUME NEW l \in HandledLines(w)
        PROVE  Accounted(l)' \/ UidOf[l] \in U
    <2>1. l \in Lines /\ Accounted(l)
      BY <1>1 DEF HandledLines, RunStands, LinesStand, Staged
    <2>2. PICK m \in Peers(l) : errorRows[m] > 0 \/ (UidOf[m] # NoUid /\ retailers[UidOf[m]] = m)
      BY <2>1 DEF Accounted
    <2>3. m \in Lines /\ UidOf[m] = UidOf[l] /\ m \in Peers(l)'
      BY <2>1 DEF Peers, LinesOf
    <2> QED
      BY <1>1, <1>3, <2>2, <2>3 DEF Accounted
  <1>8. LinesStand(w)'
    <2>1. Forgotten(U)'
      BY <1>3, <1>4 DEF Forgotten
    <2>2. \A l \in HandledLines(w) : \A m \in Lines :
             UidOf[l] # NoUid /\ UidOf[m] = UidOf[l] /\ FileOf[m] # job[w] => errorRows'[m] = 0
      BY <1>1, <1>3 DEF RunStands, LinesStand, Staged
    <2> QED
      BY <1>1, <1>2, <1>4, <1>7, <2>1, <2>2 DEF LinesStand, U
  <1> QED
    BY <1>1, <1>5, <1>6, <1>8, OwnStep, ForgetErrors DEF RunStands

(* How many copies of a line are among the rejected ones of a run. *)
LEMMA RejectedCopies ==
    ASSUME NEW w \in Slots, NEW S \in SUBSET ({w} \X Lines), NEW l \in Lines
    PROVE  Cardinality({c \in S : c[2] = l}) = IF <<w, l>> \in S THEN 1 ELSE 0
  <1>1. CASE <<w, l>> \in S
    <2>1. {c \in S : c[2] = l} = {<<w, l>>}
      BY <1>1
    <2> QED
      BY <1>1, <2>1, FS_Singleton
  <1>2. CASE <<w, l>> \notin S
    <2>1. {c \in S : c[2] = l} = {}
      BY <1>2
    <2> QED
      BY <1>2, <2>1, FS_EmptySet
  <1> QED
    BY <1>1, <1>2

(* insertErrors then records: one row for each rejected line, whose uid    *)
(* had none left.                                                          *)
LEMMA ImportRecords ==
    ASSUME ImportInvariant, OneSlot, QueueInvariant', NEW w \in Slots, InsertErrors(w)
    PROVE  ImportInvariant'
  <1> DEFINE I == Invalid(w)
  <1>1. /\ TypeOK /\ RunStands(w) /\ ErrorsRecordedOnce
        /\ pc[w] = "errInsert" /\ pc'[w] \in {"remove", "upsert"}
        /\ pc'[w] = "remove" => todo[w] = {}
        /\ errorRows' = [l \in Lines |-> errorRows[l] + Cardinality({c \in I : c[2] = l})]
        /\ handled'[w] = handled[w] + Cardinality(I)
        /\ UNCHANGED <<queue, staging, retailers, job, batch, todo, chunk>>
        /\ LinesOf(job[w]) \in SUBSET Lines
    BY AtStatement DEF InsertErrors, Goto, TypeOK
  <1>2. /\ staging \subseteq {w} \X LinesOf(job[w]) /\ batch[w] \subseteq staging
        /\ todo[w] \subseteq batch[w] /\ chunk[w] = {} /\ I = batch[w] \ todo[w]
    BY <1>1 DEF RunStands, BatchStands, Staged, Invalid
  <1>3. /\ Forgotten(UidsOf(I)) /\ I \in SUBSET ({w} \X Lines) /\ I \subseteq staging
    BY <1>1, <1>2 DEF RunStands, LinesStand
  <1>4. Unhandled(w) = staging /\ Unhandled(w)' = staging \ I
    BY <1>1, <1>2 DEF Unhandled
  <1>5. UidsOf(I) = {UidOf[c[2]] : c \in I} \ {NoUid}
    BY DEF UidsOf
  <1> HIDE DEF I
  <1>6. ASSUME NEW l \in Lines
        PROVE  /\ errorRows[l] \in Nat
               /\ <<w, l>> \in I => errorRows'[l] = errorRows[l] + 1
               /\ <<w, l>> \notin I => errorRows'[l] = errorRows[l]
    <2>1. /\ errorRows'[l] = errorRows[l] + Cardinality({c \in I : c[2] = l})
          /\ errorRows[l] \in Nat
      BY <1>1 DEF TypeOK
    <2>2. Cardinality({c \in I : c[2] = l}) = IF <<w, l>> \in I THEN 1 ELSE 0
      BY <1>3, RejectedCopies
    <2> QED
      BY <2>1, <2>2
  <1>7. ASSUME NEW l \in Lines, errorRows[l] > 0
        PROVE  errorRows'[l] > 0
    <2>1. CASE <<w, l>> \in I
      BY <1>6, <1>7, <2>1
    <2>2. CASE <<w, l>> \notin I
      BY <1>6, <1>7, <2>2
    <2> QED
      BY <2>1, <2>2
  <1>8. ErrorsRecordedOnce'
    <2> SUFFICES ASSUME NEW l \in Lines, UidOf[l] # NoUid PROVE errorRows'[l] <= 1
      BY DEF ErrorsRecordedOnce
    <2>1. <<w, l>> \in I => UidOf[l] \in UidsOf(I)
      BY <1>5
    <2>2. <<w, l>> \in I => errorRows[l] = 0
      BY <1>3, <2>1 DEF Forgotten
    <2> QED
      BY <1>1, <1>6, <1>7, <2>2 DEF ErrorsRecordedOnce
  <1>9. BatchStands(w)'
    BY <1>1, <1>2 DEF RunStands, BatchStands, LinesOf, Staged
  <1>10. CountStands(w)'
    <2>1. staging \in SUBSET Copies
      BY <1>1 DEF TypeOK
    <2>2. /\ Cardinality(staging) = Cardinality(staging \ I) + Cardinality(I)
          /\ Cardinality(staging) \in Nat /\ Cardinality(staging \ I) \in Nat
          /\ Cardinality(I) \in Nat
      BY <1>3, <2>1, CountInParts
    <2>3. handled[w] + Cardinality(staging) = Cardinality(LinesOf(job[w])) /\ handled[w] \in Nat
      BY <1>1, <1>4 DEF RunStands, CountStands, Staged, TypeOK
    <2>4. handled'[w] + Cardinality(staging \ I) = Cardinality(LinesOf(job[w]))
      BY <1>1, <2>2, <2>3
    <2> QED
      BY <1>1, <1>4, <2>4 DEF CountStands, LinesOf
  <1>11. \A l \in HandledLines(w)' : l \in HandledLines(w) \/ <<w, l>> \in I
    BY <1>1, <1>4 DEF HandledLines, LinesOf
  <1>12. ASSUME NEW l \in HandledLines(w)'
         PROVE  Accounted(l)'
    <2>1. l \in Lines /\ FileOf[l] = job[w]
      BY <1>1 DEF HandledLines, LinesOf
    <2>2. CASE <<w, l>> \in I
      <3>1. errorRows'[l] > 0 /\ l \in Peers(l)'
        BY <1>6, <1>7, <2>1, <2>2 DEF Peers, LinesOf
      <3> QED
        BY <3>1 DEF Accounted
    <2>3. CASE l \in HandledLines(w) /\ Accounted(l)
      <3>1. PICK m \in Peers(l) : errorRows[m] > 0 \/ (UidOf[m] # NoUid /\ retailers[UidOf[m]] = m)
        BY <2>3 DEF Accounted
      <3>2. m \in Lines /\ m \in Peers(l)'
        BY <2>1 DEF Peers, LinesOf
      <3>3. errorRows[m] > 0 => errorRows'[m] > 0
        BY <1>6, <1>7, <3>2
      <3> QED
        BY <1>1, <3>1, <3>2, <3>3 DEF Accounted
    <2>4. CASE UidOf[l] \in UidsOf(I)
      <3>1. PICK c \in I : UidOf[c[2]] = UidOf[l] /\ UidOf[l] # NoUid
        BY <1>5, <2>4
      <3>2. c = <<w, c[2]>> /\ c[2] \in Lines /\ FileOf[c[2]] = job[w]
        BY <1>2, <1>3 DEF LinesOf
      <3>3. c[2] \in Peers(l)'
        BY <2>1, <3>1, <3>2 DEF Peers, LinesOf
      <3>4. <<w, c[2]>> \in I
        BY <3>1, <3>2
      <3>5. errorRows'[c[2]] > 0
        BY <1>6, <1>7, <3>2, <3>4
      <3> QED
        BY <3>3, <3>5 DEF Accounted
    <2>5. l \in HandledLines(w) => Accounted(l) \/ UidOf[l] \in UidsOf(I)
      BY <1>1 DEF RunStands, LinesStand, Staged, I
    <2> QED
      BY <1>11, <2>2, <2>3, <2>4, <2>5
  <1>13. ASSUME NEW l \in HandledLines(w)', NEW m \in Lines,
                UidOf[l] # NoUid, UidOf[m] = UidOf[l], FileOf[m] # job[w]
         PROVE  errorRows'[m] = 0
    <2>1. <<w, m>> \notin I
      BY <1>2, <1>13 DEF LinesOf
    <2>2. CASE l \in HandledLines(w)
      <3>1. errorRows[m] = 0
        BY <1>1, <1>13, <2>2 DEF RunStands, LinesStand, Staged
      <3> QED
        BY <1>6, <2>1, <3>1
    <2>3. CASE <<w, l>> \in I
      <3>1. UidOf[m] \in UidsOf(I)
        BY <1>5, <1>13, <2>3
      <3>2. errorRows[m] = 0
        BY <1>3, <3>1 DEF Forgotten
      <3> QED
        BY <1>6, <2>1, <3>2
    <2> QED
      BY <1>11, <2>2, <2>3
  <1>14. LinesStand(w)'
    BY <1>1, <1>12, <1>13 DEF LinesStand
  <1> QED
    BY <1>1, <1>8, <1>9, <1>10, <1>14, OwnStep DEF RunStands

(* A chunk that the upsert accepts: its rows are counted, and the retailer *)
(* of each row holds that row's line.                                      *)
LEMMA ImportUpserts ==
    ASSUME ImportInvariant, OneSlot, QueueInvariant', NEW w \in Slots,
           pc[w] = "upsert", NEW C \in SUBSET todo[w], Upsertable(C),
           retailers' = [u \in Uids |->
                IF u \in UidsOf(C) THEN (CHOOSE c \in C : UidOf[c[2]] = u)[2] ELSE retailers[u]],
           handled' = [handled EXCEPT ![w] = @ + Cardinality(C)],
           chunk' = [chunk EXCEPT ![w] = C], Goto(w, "clear"),
           UNCHANGED <<queue, upload, staging, errorRows, refLive, job, refs, batch, todo>>
    PROVE  ImportInvariant'
  <1>1. /\ TypeOK /\ RunStands(w) /\ ErrorsRecordedOnce
        /\ pc'[w] = "clear" /\ chunk'[w] = C /\ handled'[w] = handled[w] + Cardinality(C)
        /\ LinesOf(job[w]) \in SUBSET Lines
    BY AtStatement DEF Goto, TypeOK
  <1>2. /\ staging \subseteq {w} \X LinesOf(job[w]) /\ batch[w] \subseteq staging
        /\ todo[w] \subseteq batch[w] /\ chunk[w] = {} /\ C \subseteq staging
        /\ \A c \in C : UidOf[c[2]] # NoUid /\ c[2] \in LinesOf(job[w]) /\ c = <<w, c[2]>>
    BY <1>1 DEF RunStands, BatchStands, Staged
  <1>3. \A c \in C : UidOf[c[2]] \in Uids /\ UidOf[c[2]] \in UidsOf(C)
    BY <1>1, <1>2, LinesAssumption DEF UidsOf
  <1>4. /\ Unhandled(w) = (staging \ batch[w]) \cup todo[w]
        /\ Unhandled(w)' = Unhandled(w) \ C /\ C \subseteq Unhandled(w)
    BY <1>1, <1>2 DEF Unhandled
  <1>5. ASSUME NEW c \in C
        PROVE  retailers'[UidOf[c[2]]] = c[2]
    <2>1. \A d \in C : UidOf[d[2]] = UidOf[c[2]] => d = c
      BY DEF Upsertable
    <2>2. (CHOOSE d \in C : UidOf[d[2]] = UidOf[c[2]]) = c
      BY <2>1
    <2> QED
      BY <1>3, <2>2
  <1>6. \A u \in Uids \ UidsOf(C) : retailers'[u] = retailers[u]
    OBVIOUS
  <1>7. \A u \in UidsOf(C) : \E c \in C : u = UidOf[c[2]]
    BY DEF UidsOf
  <1>8. (\A u \in Uids : retailers[u] # NoLine => UidOf[retailers[u]] = u)'
    BY <1>5, <1>6, <1>7 DEF ImportInvariant
  <1>9. BatchStands(w)'
    BY <1>1, <1>2 DEF RunStands, BatchStands, LinesOf, Staged
  <1>10. CountStands(w)'
    <2>1. Unhandled(w) \in SUBSET Copies
      BY <1>1, <1>4 DEF TypeOK
    <2>2. /\ Cardinality(Unhandled(w)) = Cardinality(Unhandled(w) \ C) + Cardinality(C)
          /\ Cardinality(Unhandled(w) \ C) \in Nat /\ Cardinality(C) \in Nat
      BY <1>4, <2>1, CountInParts
    <2>3. handled[w] + Cardinality(Unhandled(w)) = Cardinality(LinesOf(job[w])) /\ handled[w] \in Nat
      BY <1>1 DEF RunStands, CountStands, Staged, TypeOK
    <2>4. handled'[w] + Cardinality(Unhandled(w) \ C) = Cardinality(LinesOf(job[w]))
      BY <1>1, <2>2, <2>3
    <2> QED
      BY <1>1, <1>4, <2>4 DEF CountStands, LinesOf
  <1>11. \A l \in HandledLines(w)' : l \in HandledLines(w) \/ <<w, l>> \in C
    BY <1>1, <1>4 DEF HandledLines, LinesOf
  <1>12. ASSUME NEW c \in C, NEW l \in Lines, FileOf[l] = job[w], UidOf[l] = UidOf[c[2]]
         PROVE  Accounted(l)'
    <2>1. c[2] \in Peers(l)'
      BY <1>1, <1>2, <1>12 DEF Peers, LinesOf
    <2> QED
      BY <1>2, <1>5, <2>1 DEF Accounted
  <1>13. ASSUME NEW l \in HandledLines(w)'
         PROVE  Accounted(l)'
    <2>1. l \in Lines /\ FileOf[l] = job[w]
      BY <1>1 DEF HandledLines, LinesOf
    <2>2. CASE <<w, l>> \in C
      BY <1>12, <2>1, <2>2
    <2>3. CASE l \in HandledLines(w)
      <3>1. PICK m \in Peers(l) : errorRows[m] > 0 \/ (UidOf[m] # NoUid /\ retailers[UidOf[m]] = m)
        BY <1>1, <2>3 DEF RunStands, LinesStand, Staged, Accounted
      <3>2. m \in Lines /\ m \in Peers(l)' /\ UidOf[m] = UidOf[l]
        BY <2>1 DEF Peers, LinesOf
      <3>3. CASE UidOf[m] \in UidsOf(C)
        BY <1>7, <1>12, <2>1, <3>2, <3>3
      <3>4. CASE UidOf[m] \notin UidsOf(C)
        <4>1. UidOf[m] # NoUid => UidOf[m] \in Uids
          BY <3>2, LinesAssumption
        <4> QED
          BY <1>6, <3>1, <3>2, <3>4, <4>1 DEF Accounted
      <3> QED
        BY <3>3, <3>4
    <2> QED
      BY <1>11, <2>2, <2>3
  <1>14. ASSUME NEW l \in HandledLines(w)', NEW m \in Lines,
                UidOf[l] # NoUid, UidOf[m] = UidOf[l], FileOf[m] # job[w]
         PROVE  errorRows'[m] = 0 \/ <<w, l>> \in chunk'[w]
    BY <1>1, <1>11, <1>14 DEF RunStands, LinesStand, Staged
  <1>15. LinesStand(w)'
    BY <1>1, <1>5, <1>13, <1>14 DEF LinesStand
  <1> QED
    BY <1>1, <1>8, <1>9, <1>10, <1>15, OneSlotStep, TablesKeep DEF RunStands, queue

(* clearResolvedErrors forgets the errors of the chunk; its lines are      *)
(* accounted for by the retailers they have updated.                       *)
LEMMA ImportClears ==
    ASSUME ImportInvariant, OneSlot, QueueInvariant', NEW w \in Slots, ClearResolvedErrors(w)
    PROVE  ImportInvariant'
  <1> DEFINE U == UidsOf(chunk[w])
  <1>1. /\ TypeOK /\ RunStands(w) /\ ErrorsRecordedOnce
        /\ pc[w] = "clear" /\ pc'[w] \in {"remove", "upsert"}
        /\ pc'[w] = "remove" => todo[w] = chunk[w]
        /\ errorRows' = Forget(U)
        /\ todo'[w] = todo[w] \ chunk[w] /\ chunk'[w] = {}
        /\ UNCHANGED <<queue, staging, retailers, job, batch, handled>>
        /\ LinesOf(job[w]) \in SUBSET Lines
    BY AtStatement DEF ClearResolvedErrors, Goto, TypeOK
  <1>2. /\ staging \subseteq {w} \X LinesOf(job[w]) /\ batch[w] \subseteq staging
        /\ todo[w] \subseteq batch[w] /\ chunk[w] \subseteq todo[w]
        /\ \A c \in chunk[w] : UidOf[c[2]] # NoUid /\ retailers[UidOf[c[2]]] = c[2]
    BY <1>1 DEF RunStands, BatchStands, LinesStand, Staged
  <1>3. U = {UidOf[c[2]] : c \in chunk[w]} \ {NoUid}
    BY DEF UidsOf
  <1>4. \A l \in Lines : errorRows'[l] = IF UidOf[l] \in U THEN 0 ELSE errorRows[l]
    BY <1>1, ForgetErrors
  <1> HIDE DEF U
  <1>5. Unhandled(w)' = Unhandled(w) /\ HandledLines(w)' = HandledLines(w)
    <2>1. Unhandled(w)' = Unhandled(w)
      BY <1>1 DEF Unhandled
    <2> QED
      BY <1>1, <2>1 DEF HandledLines, LinesOf
  <1>6. BatchStands(w)'
    BY <1>1, <1>2 DEF RunStands, BatchStands, LinesOf, Staged
  <1>7. CountStands(w)'
    BY <1>1, <1>5 DEF RunStands, CountStands, LinesOf, Staged
  <1>8. ASSUME NEW l \in HandledLines(w)
        PROVE  Accounted(l)'
    <2>1. l \in Lines /\ FileOf[l] = job[w] /\ Accounted(l)
      BY <1>1 DEF HandledLines, LinesOf, RunStands, LinesStand, Staged
    <2>2. PICK m \in Peers(l) : errorRows[m] > 0 \/ (UidOf[m] # NoUid /\ retailers[UidOf[m]] = m)
      BY <2>1 DEF Accounted
    <2>3. m \in Lines /\ m \in Peers(l)' /\ UidOf[m] = UidOf[l]
      BY <2>1 DEF Peers, LinesOf
    <2>4. CASE UidOf[m] \in U
      <3>1. PICK c \in chunk[w] : UidOf[c[2]] = UidOf[l] /\ UidOf[l] # NoUid
        BY <1>3, <2>3, <2>4
      <3>2. c[2] \in LinesOf(job[w])
        BY <1>2
      <3>3. c[2] \in Peers(l)'
        BY <2>1, <3>1, <3>2 DEF Peers, LinesOf
      <3> QED
        BY <1>1, <1>2, <3>1, <3>3 DEF Accounted
    <2>5. CASE UidOf[m] \notin U
      BY <1>1, <1>4, <2>2, <2>3, <2>5 DEF Accounted
    <2> QED
      BY <2>4, <2>5
  <1>9. ASSUME NEW l \in HandledLines(w), NEW m \in Lines,
               UidOf[l] # NoUid, UidOf[m] = UidOf[l], FileOf[m] # job[w]
        PROVE  errorRows'[m] = 0
    <2>1. <<w, l>> \in chunk[w] => UidOf[m] \in U
      BY <1>3, <1>9
    <2>2. <<w, l>> \notin chunk[w] => errorRows[m] = 0
      BY <1>1, <1>9 DEF RunStands, LinesStand, Staged
    <2> QED
      BY <1>4, <2>1, <2>2
  <1>10. LinesStand(w)'
    BY <1>1, <1>5, <1>8, <1>9 DEF LinesStand
  <1> QED
    BY <1>1, <1>6, <1>7, <1>10, OwnStep, ForgetErrors DEF RunStands

(* Deleting the batch's rows, unlinking the file, and failing, count       *)
(* nothing.                                                                *)
LEMMA ImportMovesOn ==
    ASSUME ImportInvariant, OneSlot, QueueInvariant', NEW w \in Slots,
           RemoveProcessed(w) \/ Unlink(w) \/ StatementFails(w)
    PROVE  ImportInvariant'
  <1>1. /\ TypeOK /\ RunStands(w) /\ ErrorsRecordedOnce
        /\ UNCHANGED <<queue, retailers, errorRows, job, todo, chunk, handled>>
        /\ LinesOf(job[w]) \in SUBSET Lines
    BY AtStatement DEF RemoveProcessed, Unlink, StatementFails, db, Working
  <1>2. ASSUME RemoveProcessed(w)
        PROVE  RunStands(w)'
    <2>1. /\ pc[w] = "remove" /\ pc'[w] = "select" /\ staging' = staging \ batch[w]
          /\ batch'[w] = {} /\ todo[w] = {} /\ chunk[w] = {}
      BY <1>1, <1>2 DEF RemoveProcessed, Goto, TypeOK, RunStands, BatchStands
    <2>2. Unhandled(w)' = Unhandled(w) /\ HandledLines(w)' = HandledLines(w)
      BY <1>1, <2>1 DEF Unhandled, HandledLines, LinesOf
    <2>3. BatchStands(w)'
      BY <1>1, <2>1 DEF RunStands, BatchStands, LinesOf, Staged
    <2>4. CountStands(w)'
      BY <1>1, <2>1, <2>2 DEF RunStands, CountStands, LinesOf, Staged
    <2>5. LinesStand(w)'
      BY <1>1, <2>1, <2>2 DEF RunStands, LinesStand, Accounted, Peers, LinesOf, Staged
    <2> QED
      BY <2>3, <2>4, <2>5 DEF RunStands
  <1>3. ASSUME Unlink(w), pc[w] = "unlinkDone"
        PROVE  RunStands(w)'
    <2>1. pc'[w] = "reportDone" /\ UNCHANGED <<staging, batch>>
      BY <1>1, <1>3 DEF Unlink, Goto, TypeOK, db
    <2>2. Unhandled(w)' = Unhandled(w) /\ HandledLines(w)' = HandledLines(w)
      BY <1>1, <1>3, <2>1 DEF Unhandled, HandledLines, LinesOf
    <2>3. BatchStands(w)'
      BY <1>1, <2>1 DEF RunStands, BatchStands, Staged
    <2>4. CountStands(w)'
      BY <1>1, <1>3, <2>1, <2>2 DEF RunStands, CountStands, LinesOf, Finished
    <2>5. LinesStand(w)'
      BY <1>1, <1>3, <2>1, <2>2 DEF RunStands, LinesStand, Accounted, Peers, LinesOf, Finished
    <2> QED
      BY <2>3, <2>4, <2>5 DEF RunStands
  <1>4. ASSUME (Unlink(w) /\ pc[w] = "unlinkFailed") \/ StatementFails(w)
        PROVE  RunStands(w)'
    <2>1. pc'[w] \in {"reportFailed", "unlinkFailed"}
      BY <1>1, <1>4 DEF Unlink, StatementFails, Goto, TypeOK
    <2> QED
      BY <1>1, <2>1 DEF RunStands, BatchStands, CountStands, LinesStand, Staged, Finished
  <1> QED
    BY <1>1, <1>2, <1>3, <1>4, OwnStep, TablesKeep DEF Unlink

(* The other case of an upsert: the statement is rejected. *)
LEMMA ImportUpsertStep ==
    ASSUME ImportInvariant, OneSlot, QueueInvariant', NEW w \in Slots, UpsertChunk(w)
    PROVE  ImportInvariant'
  <1>1. PICK C \in Pick(ChunkSize, todo[w]) :
           IF Upsertable(C)
           THEN /\ retailers' = [u \in Uids |->
                      IF u \in UidsOf(C) THEN (CHOOSE c \in C : UidOf[c[2]] = u)[2]
                      ELSE retailers[u]]
                /\ handled' = [handled EXCEPT ![w] = @ + Cardinality(C)]
                /\ chunk' = [chunk EXCEPT ![w] = C]
                /\ Goto(w, "clear")
           ELSE UNCHANGED <<retailers, handled, chunk>> /\ Goto(w, "unlinkFailed")
    BY DEF UpsertChunk
  <1>2. C \in SUBSET todo[w]
    BY DEF Pick
  <1>3. CASE Upsertable(C)
    BY <1>1, <1>2, <1>3, ImportUpserts DEF UpsertChunk
  <1>4. CASE ~Upsertable(C)
    <2>1. /\ TypeOK /\ RunStands(w)
          /\ UNCHANGED <<queue, retailers, errorRows, todo>>
          /\ pc'[w] = "unlinkFailed"
      BY <1>1, <1>4, AtStatement DEF UpsertChunk, Goto, TypeOK
    <2>2. RunStands(w)'
      BY <2>1 DEF RunStands, BatchStands, CountStands, LinesStand, Staged, Finished
    <2> QED
      BY <2>1, <2>2, OwnStep, TablesKeep
  <1> QED
    BY <1>3, <1>4

(* Every step of one slot preserves the invariant. *)
LEMMA ImportInvariantStep ==
    ASSUME ImportInvariant, OneSlot, [Next]_vars
    PROVE  ImportInvariant'
  <1>1. QueueInvariant'
    BY QueueInvariantStep DEF ImportInvariant
  <1>2. CASE UNCHANGED vars
    <2>1. \A w \in Slots : RunStands(w)'
      BY <1>2, RunKeeps DEF ImportInvariant, RunStands, vars, db, slot
    <2>2. UNCHANGED <<status, result, retailers, errorRows>>
      BY <1>2 DEF vars, queue, db
    <2> QED
      BY <1>1, <2>1, <2>2, TablesKeep DEF ImportInvariant, RunStands
  <1>3. CASE Next
    BY <1>1, <1>3, ImportQueueSteps, ImportTake, ImportEnds, ImportStages, ImportSelects,
       ImportForgets, ImportRecords, ImportUpsertStep, ImportClears, ImportMovesOn
    DEF Next, Run
  <1> QED
    BY <1>2, <1>3

(* It holds before anything is uploaded. *)
LEMMA ImportInvariantInitially == Init => ImportInvariant
  <1> SUFFICES ASSUME Init PROVE ImportInvariant
    OBVIOUS
  <1>1. SummaryCountsTheFile /\ ErrorsRecordedOnce
    BY DEF Init, SummaryCountsTheFile, ErrorsRecordedOnce
  <1>2. \A w \in Slots : RunStands(w)
    BY DEF Init, RunStands, BatchStands, CountStands, LinesStand, Staged, Finished
  <1>3. \A u \in Uids : retailers[u] = NoLine
    BY DEF Init
  <1> QED
    BY <1>1, <1>2, <1>3, QueueInvariantInitially DEF ImportInvariant, RunStands

(* One slot's runs stand whatever the files, the batches and the faults.   *)
THEOREM ImportInvariantHolds ==
    ASSUME OneSlot
    PROVE  Spec => []ImportInvariant
  BY ImportInvariantInitially, ImportInvariantStep, PTL DEF Spec

(* The staged rows are the job's own, and a batch is part of them.         *)
THEOREM StagedRowsStayTheJobs ==
    ASSUME OneSlot
    PROVE  Spec => []StagedRowsAreTheJobs
  <1>1. ImportInvariant => StagedRowsAreTheJobs
    <2> SUFFICES ASSUME ImportInvariant PROVE StagedRowsAreTheJobs
      OBVIOUS
    <2>1. ASSUME NEW w \in Slots, pc[w] \in Staged
          PROVE  (\A c \in staging : FileOf[c[2]] = job[w]) /\ batch[w] \subseteq staging
      BY <2>1 DEF ImportInvariant, BatchStands, LinesOf
    <2> QED
      BY <2>1 DEF StagedRowsAreTheJobs, ImportInvariant, QueueInvariant, Staged
  <1> QED
    BY <1>1, ImportInvariantHolds, PTL

(* The summary of a completed job counts every line of the file once, also *)
(* when the job had to be started again.                                   *)
THEOREM SummariesCountTheFile ==
    ASSUME OneSlot
    PROVE  Spec => []SummaryCountsTheFile
  <1>1. ImportInvariant => SummaryCountsTheFile
    BY DEF ImportInvariant
  <1> QED
    BY <1>1, ImportInvariantHolds, PTL

(* No line has two rows in retailer_errors. *)
THEOREM ErrorsAreRecordedOnce ==
    ASSUME OneSlot
    PROVE  Spec => []ErrorsRecordedOnce
  <1>1. ImportInvariant => ErrorsRecordedOnce
    BY DEF ImportInvariant
  <1> QED
    BY <1>1, ImportInvariantHolds, PTL

-----------------------------------------------------------------------------
(* A job completes by the report of a run that has handled every line. *)
LEMMA CompletedByReport ==
    ASSUME ImportInvariant, [Next]_vars, NEW j \in Jobs,
           status[j] # "completed", status'[j] = "completed"
    PROVE  \E w \in Slots :
             /\ job[w] = j /\ pc[w] = "reportDone"
             /\ LinesStand(w) /\ HandledLines(w) = LinesOf(j)
  <1>1. TypeOK
    BY DEF ImportInvariant, QueueInvariant
  <1>2. ASSUME NEW i \in Jobs, SaveFile(i) \/ AddJob(i) \/ LoseJob(i) \/ MoveStalled(i)
        PROVE  FALSE
    BY <1>1, <1>2 DEF SaveFile, AddJob, LoseJob, MoveStalled, TypeOK
  <1>3. ASSUME NEW w \in Slots, NEW i \in Jobs, Take(w, i)
        PROVE  FALSE
    BY <1>1, <1>3 DEF Take, TypeOK
  <1>4. ASSUME NEW w \in Slots, Crash(w) \/ StatementFails(w) \/ (Run(w) /\ ~Report(w))
        PROVE  UNCHANGED queue
    BY <1>4 DEF Crash, StatementFails, Run, Truncate, Copy, LoadReferenceSets, SelectBatch,
                DeleteErrors, InsertErrors, UpsertChunk, ClearResolvedErrors, RemoveProcessed,
                Unlink
  <1>5. ~UNCHANGED queue
    BY DEF queue
  <1>6. PICK w \in Slots : Report(w)
    BY <1>2, <1>3, <1>4, <1>5 DEF Next, DropReference, vars
  <1>7. job[w] = j /\ pc[w] = "reportDone"
    BY <1>1, <1>6 DEF Report, TypeOK
  <1>8. HandledLines(w) = LinesOf(j)
    BY <1>7 DEF HandledLines, Unhandled
  <1> QED
    BY <1>7, <1>8 DEF ImportInvariant

(* A completed job has accounted for every line of its file: each one has  *)
(* reached a retailer or retailer_errors.                                  *)
THEOREM LinesAreAccountedFor ==
    ASSUME OneSlot
    PROVE  Spec => EveryLineAccountedFor
  <1>1. ASSUME ImportInvariant, [Next]_vars, NEW j \in Jobs, NEW l \in LinesOf(j),
               status[j] # "completed", status'[j] = "completed"
        PROVE  Accounted(l)
    BY <1>1, CompletedByReport DEF LinesStand, Finished
  <1>2. ImportInvariant /\ [Next]_vars =>
          [\A j \in Jobs : status[j] # "completed" /\ status'[j] = "completed" =>
             \A l \in LinesOf(j) : Accounted(l)]_vars
    BY <1>1
  <1> QED
    BY <1>2, ImportInvariantHolds, PTL DEF Spec, EveryLineAccountedFor

(* A retailer whose line a completed job has accepted keeps no error of    *)
(* another file.                                                           *)
THEOREM ResolvedErrorsGo ==
    ASSUME OneSlot
    PROVE  Spec => ResolvedErrorsAreGone
  <1>1. ASSUME ImportInvariant, [Next]_vars, NEW j \in Jobs, NEW l \in Lines,
               status[j] # "completed", status'[j] = "completed",
               FileOf[l] # j, errorRows[l] > 0, UidOf[l] # NoUid,
               retailers[UidOf[l]] \in LinesOf(j)
        PROVE  FALSE
    <2>1. PICK w \in Slots :
            /\ job[w] = j /\ pc[w] = "reportDone"
            /\ LinesStand(w) /\ HandledLines(w) = LinesOf(j)
      BY <1>1, CompletedByReport
    <2>2. UidOf[l] \in Uids
      BY <1>1, LinesAssumption
    <2>3. UidOf[retailers[UidOf[l]]] = UidOf[l]
      BY <1>1, <2>2, MarkersAssumption DEF ImportInvariant, LinesOf
    <2>4. errorRows[l] = 0
      BY <1>1, <2>1, <2>3 DEF LinesStand, Finished
    <2> QED
      BY <1>1, <2>4
  <1>2. ImportInvariant /\ [Next]_vars =>
          [\A j \in Jobs : status[j] # "completed" /\ status'[j] = "completed" =>
             \A l \in Lines : FileOf[l] # j /\ errorRows[l] > 0 /\ UidOf[l] # NoUid =>
                retailers[UidOf[l]] \notin LinesOf(j)]_vars
    BY <1>1
  <1> QED
    BY <1>2, ImportInvariantHolds, PTL DEF Spec, ResolvedErrorsAreGone

=============================================================================
