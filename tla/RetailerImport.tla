--------------------------- MODULE RetailerImport ---------------------------
(***************************************************************************)
(* The CSV import of retailers: ImportService stores the file and queues a *)
(* job; a slot of an ImportWorkerService takes the job and runs            *)
(* handleRetailerImport, whose statements commit one by one on one shared  *)
(* table, retailer_staging.  Slots are those of every replica: each runs   *)
(* RETAILER_IMPORT_WORKER_CONCURRENCY of them.                             *)
(*                                                                         *)
(* The queue (BullMQ on Redis) is external.  It hands a waiting job to one *)
(* slot; a job whose slot stops renewing its lock goes back to waiting,    *)
(* MaxStalled times, and fails after that.                                 *)
(***************************************************************************)
EXTENDS Naturals, FiniteSets

CONSTANTS
    Jobs,            \* uploads, one job each
    Slots,           \* worker slots
    Lines,           \* data lines of all the files
    Uids,            \* retailer uids
    Hosts,           \* API containers, each with a file system of its own
    HostOf,          \* HostOf[w]: the container slot w runs in
    NoUid, NoLine, NoJob, NoSlot, NoHost,
    FileOf,          \* FileOf[l]: the job whose file holds line l
    UidOf,           \* UidOf[l]: the uid on line l, or NoUid
    KindOf,          \* KindOf[l]: how line l fares, see Kinds
    BatchSize,       \* RETAILER_IMPORT_BATCH_SIZE
    ChunkSize,       \* RETAILER_IMPORT_UPSERT_CHUNK
    MaxStalled,      \* BullMQ's maxStalledCount
    LeaseCanExpire,  \* may a live slot lose its job's lock?
    Faults           \* may a statement fail or a process die?

(* ok: a good line.  ref: good as long as the region, area, distributor or *)
(* territory it names exists.  bad: partitionRows rejects it.  poison: it  *)
(* passes partitionRows and breaks a constraint of retailers (no name, a   *)
(* negative number of points).  garbled: COPY itself rejects the file.     *)
Kinds == {"ok", "ref", "bad", "poison", "garbled"}

ASSUME LinesAssumption ==
    /\ IsFiniteSet(Lines)
    /\ FileOf \in [Lines -> Jobs]
    /\ UidOf \in [Lines -> Uids \cup {NoUid}]
    /\ KindOf \in [Lines -> Kinds]
    /\ \A l \in Lines : UidOf[l] = NoUid => KindOf[l] \in {"bad", "garbled"}
ASSUME SizesAssumption ==
    BatchSize \in Nat \ {0} /\ ChunkSize \in Nat \ {0} /\ MaxStalled \in Nat
ASSUME HostsAssumption == IsFiniteSet(Slots) /\ HostOf \in [Slots -> Hosts] /\ NoHost \notin Hosts
ASSUME SwitchesAssumption == LeaseCanExpire \in BOOLEAN /\ Faults \in BOOLEAN
ASSUME MarkersAssumption ==
    NoJob \notin Jobs /\ NoSlot \notin Slots /\ NoUid \notin Uids /\ NoLine \notin Lines

VARIABLES
    status,      \* status[j]: where job j is
    stalls,      \* stalls[j]: how often it was found stalled
    owner,       \* owner[j]: the slot that holds its lock
    result,      \* result[j]: inserted + updated + rejected, as returned
    upload,      \* upload[j]: the container whose disk holds j's file, or NoHost
    staging,     \* rows of retailer_staging: copies of lines, by the slot that copied
    retailers,   \* retailers[u]: the line last written to the retailer with uid u
    errorRows,   \* errorRows[l]: rows of retailer_errors about line l
    refLive,     \* does the row that "ref" lines name still exist?
    pc, job, refs, batch, todo, chunk, handled   \* per slot: one run of handleRetailerImport

queue == <<status, stalls, owner, result>>
db    == <<staging, retailers, errorRows, refLive>>
slot  == <<pc, job, refs, batch, todo, chunk, handled>>
vars  == <<queue, upload, db, slot>>

LinesOf(j) == {l \in Lines : FileOf[l] = j}
Copies == Slots \X Lines
Final == {"completed", "failed"}
Working == {"truncate", "copy", "refs", "select", "errDelete", "errInsert",
            "upsert", "clear", "remove", "unlinkDone", "unlinkFailed"}

TypeOK ==
    /\ status \in [Jobs -> {"new", "saved", "lost", "waiting", "active"} \cup Final]
    /\ stalls \in [Jobs -> 0..MaxStalled]
    /\ owner \in [Jobs -> Slots \cup {NoSlot}]
    /\ result \in [Jobs -> Nat]
    /\ upload \in [Jobs -> Hosts \cup {NoHost}]
    /\ staging \in SUBSET Copies
    /\ retailers \in [Uids -> Lines \cup {NoLine}]
    /\ errorRows \in [Lines -> Nat]
    /\ refLive \in BOOLEAN
    /\ pc \in [Slots -> {"idle", "reportDone", "reportFailed"} \cup Working]
    /\ job \in [Slots -> Jobs \cup {NoJob}]
    /\ refs \in [Slots -> BOOLEAN]
    /\ batch \in [Slots -> SUBSET Copies]
    /\ todo \in [Slots -> SUBSET Copies]
    /\ chunk \in [Slots -> SUBSET Copies]
    /\ handled \in [Slots -> Nat]

Init ==
    /\ status = [j \in Jobs |-> "new"]
    /\ stalls = [j \in Jobs |-> 0]
    /\ owner = [j \in Jobs |-> NoSlot]
    /\ result = [j \in Jobs |-> 0]
    /\ upload = [j \in Jobs |-> NoHost]
    /\ staging = {}
    /\ retailers = [u \in Uids |-> NoLine]
    /\ errorRows = [l \in Lines |-> 0]
    /\ refLive = TRUE
    /\ pc = [w \in Slots |-> "idle"]
    /\ job = [w \in Slots |-> NoJob]
    /\ refs = [w \in Slots |-> FALSE]
    /\ batch = [w \in Slots |-> {}]
    /\ todo = [w \in Slots |-> {}]
    /\ chunk = [w \in Slots |-> {}]
    /\ handled = [w \in Slots |-> 0]

-----------------------------------------------------------------------------
(* importRetailersFromCsv, in the container nginx chose: the file and its  *)
(* row first, the job second.                                              *)
SaveFile(j) ==
    /\ status[j] = "new"
    /\ status' = [status EXCEPT ![j] = "saved"]
    /\ \E h \in Hosts : upload' = [upload EXCEPT ![j] = h]
    /\ UNCHANGED <<stalls, owner, result, db, slot>>

AddJob(j) ==
    /\ status[j] = "saved"
    /\ status' = [status EXCEPT ![j] = "waiting"]
    /\ UNCHANGED <<stalls, owner, result, upload, db, slot>>

(* queue.add fails, or the server stops before it: the file stays behind. *)
LoseJob(j) ==
    /\ status[j] = "saved"
    /\ status' = [status EXCEPT ![j] = "lost"]
    /\ UNCHANGED <<stalls, owner, result, upload, db, slot>>

-----------------------------------------------------------------------------
Goto(w, label) == pc' = [pc EXCEPT ![w] = label]

(* Slip: the counters of one run reach the next. *)
IdleKeepingCount(w) ==
    /\ Goto(w, "idle")
    /\ job' = [job EXCEPT ![w] = NoJob]
    /\ refs' = [refs EXCEPT ![w] = FALSE]
    /\ batch' = [batch EXCEPT ![w] = {}]
    /\ todo' = [todo EXCEPT ![w] = {}]
    /\ chunk' = [chunk EXCEPT ![w] = {}]
    /\ UNCHANGED handled

Idle(w) ==
    /\ Goto(w, "idle")
    /\ job' = [job EXCEPT ![w] = NoJob]
    /\ refs' = [refs EXCEPT ![w] = FALSE]
    /\ batch' = [batch EXCEPT ![w] = {}]
    /\ todo' = [todo EXCEPT ![w] = {}]
    /\ chunk' = [chunk EXCEPT ![w] = {}]
    /\ handled' = [handled EXCEPT ![w] = 0]

Take(w, j) ==
    /\ pc[w] = "idle"
    /\ status[j] = "waiting"
    /\ status' = [status EXCEPT ![j] = "active"]
    /\ owner' = [owner EXCEPT ![j] = w]
    /\ job' = [job EXCEPT ![w] = j]
    /\ Goto(w, "truncate")
    /\ UNCHANGED <<stalls, result, upload, db, refs, batch, todo, chunk, handled>>

(* Slip: no TRUNCATE before the COPY. *)
TruncateNothing(w) ==
    /\ pc[w] = "truncate"
    /\ Goto(w, "copy")
    /\ UNCHANGED <<queue, upload, db, job, refs, batch, todo, chunk, handled>>

Truncate(w) ==
    /\ pc[w] = "truncate"
    /\ staging' = {}
    /\ Goto(w, "copy")
    /\ UNCHANGED <<queue, upload, retailers, errorRows, refLive, job, refs, batch, todo, chunk, handled>>

(* COPY is one statement: the whole file or nothing.  The job carries a    *)
(* path, which names the file only in the container that took the upload.  *)
HasFile(w) == upload[job[w]] = HostOf[w]
Readable(w) == HasFile(w) /\ \A l \in LinesOf(job[w]) : KindOf[l] # "garbled"

(* Slip: the error of the file stream reaches nobody. *)
CopyWaitingForever(w) ==
    /\ pc[w] = "copy"
    /\ Readable(w)
    /\ staging' = staging \cup ({w} \X LinesOf(job[w]))
    /\ Goto(w, "refs")
    /\ UNCHANGED <<queue, upload, retailers, errorRows, refLive, job, refs, batch, todo, chunk, handled>>

Copy(w) ==
    /\ pc[w] = "copy"
    /\ IF Readable(w)
       THEN staging' = staging \cup ({w} \X LinesOf(job[w])) /\ Goto(w, "refs")
       ELSE UNCHANGED staging /\ Goto(w, "unlinkFailed")
    /\ UNCHANGED <<queue, upload, retailers, errorRows, refLive, job, refs, batch, todo, chunk, handled>>

LoadReferenceSets(w) ==
    /\ pc[w] = "refs"
    /\ refs' = [refs EXCEPT ![w] = refLive]
    /\ Goto(w, "select")
    /\ UNCHANGED <<queue, upload, db, job, batch, todo, chunk, handled>>

(* The ids of staged rows are random, so "ORDER BY id LIMIT" is any        *)
(* BatchSize of them; partitionRows splits what comes back.                *)
Valid(w, c) ==
    \/ KindOf[c[2]] \in {"ok", "poison"}
    \/ KindOf[c[2]] = "ref" /\ refs[w]

Least(n, m) == IF n < m THEN n ELSE m
Pick(size, S) == {T \in SUBSET S : Cardinality(T) = Least(size, Cardinality(S))}

SelectBatch(w) ==
    /\ pc[w] = "select"
    /\ \E rows \in Pick(BatchSize, staging) :
         LET valid == {c \in rows : Valid(w, c)} IN
         /\ batch' = [batch EXCEPT ![w] = rows]
         /\ todo' = [todo EXCEPT ![w] = valid]
         /\ Goto(w, IF rows = {} THEN "unlinkDone"
                    ELSE IF rows # valid THEN "errDelete" ELSE "upsert")
    /\ UNCHANGED <<queue, upload, db, job, refs, chunk, handled>>

(* insertErrors: forget what was recorded about these uids, then record. *)
Invalid(w) == batch[w] \ todo[w]
UidsOf(C) == {UidOf[c[2]] : c \in C} \ {NoUid}
Forget(U) == [l \in Lines |-> IF UidOf[l] \in U THEN 0 ELSE errorRows[l]]

(* Slip: earlier errors of the same uids stay. *)
DeleteNoErrors(w) ==
    /\ pc[w] = "errDelete"
    /\ Goto(w, "errInsert")
    /\ UNCHANGED <<queue, upload, db, job, refs, batch, todo, chunk, handled>>

DeleteErrors(w) ==
    /\ pc[w] = "errDelete"
    /\ errorRows' = Forget(UidsOf(Invalid(w)))
    /\ Goto(w, "errInsert")
    /\ UNCHANGED <<queue, upload, staging, retailers, refLive, job, refs, batch, todo, chunk, handled>>

InsertErrors(w) ==
    /\ pc[w] = "errInsert"
    /\ errorRows' = [l \in Lines |-> errorRows[l] + Cardinality({c \in Invalid(w) : c[2] = l})]
    /\ handled' = [handled EXCEPT ![w] = @ + Cardinality(Invalid(w))]
    /\ Goto(w, IF todo[w] = {} THEN "remove" ELSE "upsert")
    /\ UNCHANGED <<queue, upload, staging, retailers, refLive, job, refs, batch, todo, chunk>>

(* One INSERT ... ON CONFLICT (uid) for the chunk: it fails as a whole if  *)
(* a uid occurs twice, if a row breaks a constraint, or if a reference     *)
(* checked against the sets loaded earlier is gone by now.                 *)
Upsertable(C) ==
    /\ \A c, d \in C : UidOf[c[2]] = UidOf[d[2]] => c = d
    /\ \A c \in C : KindOf[c[2]] # "poison" /\ (KindOf[c[2]] = "ref" => refLive)

UpsertChunk(w) ==
    /\ pc[w] = "upsert"
    /\ \E C \in Pick(ChunkSize, todo[w]) :
         IF Upsertable(C)
         THEN /\ retailers' = [u \in Uids |->
                    IF u \in UidsOf(C) THEN (CHOOSE c \in C : UidOf[c[2]] = u)[2] ELSE retailers[u]]
              /\ handled' = [handled EXCEPT ![w] = @ + Cardinality(C)]
              /\ chunk' = [chunk EXCEPT ![w] = C]
              /\ Goto(w, "clear")
         ELSE UNCHANGED <<retailers, handled, chunk>> /\ Goto(w, "unlinkFailed")
    /\ UNCHANGED <<queue, upload, staging, errorRows, refLive, job, refs, batch, todo>>

(* Slip: an accepted row leaves the errors of its uid. *)
ClearNothing(w) ==
    /\ pc[w] = "clear"
    /\ todo' = [todo EXCEPT ![w] = @ \ chunk[w]]
    /\ chunk' = [chunk EXCEPT ![w] = {}]
    /\ Goto(w, IF todo[w] = chunk[w] THEN "remove" ELSE "upsert")
    /\ UNCHANGED <<queue, upload, db, job, refs, batch, handled>>

ClearResolvedErrors(w) ==
    /\ pc[w] = "clear"
    /\ errorRows' = Forget(UidsOf(chunk[w]))
    /\ todo' = [todo EXCEPT ![w] = @ \ chunk[w]]
    /\ chunk' = [chunk EXCEPT ![w] = {}]
    /\ Goto(w, IF todo[w] = chunk[w] THEN "remove" ELSE "upsert")
    /\ UNCHANGED <<queue, upload, staging, retailers, refLive, job, refs, batch, handled>>

(* Slip: the table is emptied instead of the batch's rows deleted. *)
RemoveEverything(w) ==
    /\ pc[w] = "remove"
    /\ staging' = {}
    /\ batch' = [batch EXCEPT ![w] = {}]
    /\ Goto(w, "select")
    /\ UNCHANGED <<queue, upload, retailers, errorRows, refLive, job, refs, todo, chunk, handled>>

RemoveProcessed(w) ==
    /\ pc[w] = "remove"
    /\ staging' = staging \ batch[w]
    /\ batch' = [batch EXCEPT ![w] = {}]
    /\ Goto(w, "select")
    /\ UNCHANGED <<queue, upload, retailers, errorRows, refLive, job, refs, todo, chunk, handled>>

(* The finally block, on success and on failure alike; not finding the     *)
(* file is only logged.                                                    *)
Unlink(w) ==
    /\ pc[w] \in {"unlinkDone", "unlinkFailed"}
    /\ upload' = IF HasFile(w) THEN [upload EXCEPT ![job[w]] = NoHost] ELSE upload
    /\ Goto(w, IF pc[w] = "unlinkDone" THEN "reportDone" ELSE "reportFailed")
    /\ UNCHANGED <<queue, db, job, refs, batch, todo, chunk, handled>>

(* Slip: the outcome counts whoever holds the lock. *)
ReportAnyway(w) ==
    /\ pc[w] \in {"reportDone", "reportFailed"}
    /\ status' = [status EXCEPT ![job[w]] = IF pc[w] = "reportDone" THEN "completed" ELSE "failed"]
    /\ result' = [result EXCEPT ![job[w]] = IF pc[w] = "reportDone" THEN handled[w] ELSE 0]
    /\ owner' = [owner EXCEPT ![job[w]] = NoSlot]
    /\ Idle(w)
    /\ UNCHANGED <<stalls, upload, db>>

(* handleRetailerImport returns or rethrows; the queue takes the outcome    *)
(* only from the slot that holds the job's lock.                           *)
Report(w) ==
    /\ pc[w] \in {"reportDone", "reportFailed"}
    /\ IF owner[job[w]] = w
       THEN /\ status' = [status EXCEPT ![job[w]] =
                            IF pc[w] = "reportDone" THEN "completed" ELSE "failed"]
            /\ result' = [result EXCEPT ![job[w]] = IF pc[w] = "reportDone" THEN handled[w] ELSE 0]
            /\ owner' = [owner EXCEPT ![job[w]] = NoSlot]
       ELSE UNCHANGED <<status, result, owner>>
    /\ Idle(w)
    /\ UNCHANGED <<stalls, upload, db>>

-----------------------------------------------------------------------------
(* A statement fails: the connection is lost, or two upserts deadlock. *)
StatementFails(w) ==
    /\ Faults
    /\ pc[w] \in Working \ {"unlinkDone", "unlinkFailed"}
    /\ Goto(w, "unlinkFailed")
    /\ UNCHANGED <<queue, upload, db, job, refs, batch, todo, chunk, handled>>

(* The process dies: what its statements committed stays, and so does the  *)
(* file if it was not unlinked yet.                                        *)
Crash(w) ==
    /\ Faults
    /\ pc[w] # "idle"
    /\ Idle(w)
    /\ UNCHANGED <<queue, upload, db>>

Alive(j) == \E w \in Slots : owner[j] = w /\ job[w] = j

MoveStalled(j) ==
    /\ status[j] = "active"
    /\ Alive(j) => LeaseCanExpire
    /\ owner' = [owner EXCEPT ![j] = NoSlot]
    /\ IF stalls[j] < MaxStalled
       THEN /\ status' = [status EXCEPT ![j] = "waiting"]
            /\ stalls' = [stalls EXCEPT ![j] = @ + 1]
       ELSE status' = [status EXCEPT ![j] = "failed"] /\ UNCHANGED stalls
    /\ UNCHANGED <<result, upload, db, slot>>

(* An administrator deletes the region, area, distributor or territory     *)
(* that "ref" lines name.                                                  *)
DropReference ==
    /\ refLive
    /\ refLive' = FALSE
    /\ UNCHANGED <<queue, upload, staging, retailers, errorRows, slot>>

-----------------------------------------------------------------------------
Run(w) ==
    \/ Truncate(w) \/ Copy(w) \/ LoadReferenceSets(w) \/ SelectBatch(w)
    \/ DeleteErrors(w) \/ InsertErrors(w)
    \/ UpsertChunk(w) \/ ClearResolvedErrors(w) \/ RemoveProcessed(w)
    \/ Unlink(w) \/ Report(w)

Next ==
    \/ \E j \in Jobs : SaveFile(j) \/ AddJob(j) \/ LoseJob(j) \/ MoveStalled(j)
    \/ \E w \in Slots, j \in Jobs : Take(w, j)
    \/ \E w \in Slots : Run(w) \/ StatementFails(w) \/ Crash(w)
    \/ DropReference

Spec == Init /\ [][Next]_vars

(* A slot goes on with the job it runs, idle slots take waiting jobs, and  *)
(* the queue looks for jobs whose slot is gone.  Nothing makes a client    *)
(* upload, a statement fail or a process die.                              *)
FairSpec ==
    /\ Spec
    /\ \A w \in Slots : WF_vars(Run(w))
    /\ \A j \in Jobs : WF_vars(\E w \in Slots : Take(w, j))
    /\ \A j \in Jobs : WF_vars(~Alive(j) /\ MoveStalled(j))

-----------------------------------------------------------------------------
(* With one slot the staged rows a run works on are those of its own file, *)
(* whatever an interrupted run left behind: the TRUNCATE of                *)
(* handleRetailerImport comes before its COPY.                             *)
StagedRowsAreTheJobs ==
    /\ TypeOK
    /\ \A w \in Slots : pc[w] \in {"refs", "select", "errDelete", "errInsert", "upsert", "clear", "remove"} =>
         /\ \A c \in staging : FileOf[c[2]] = job[w]
         /\ batch[w] \subseteq staging

(* The lines of a file that speak of the same retailer as line l. *)
Peers(l) == IF UidOf[l] = NoUid THEN {l} ELSE {m \in LinesOf(FileOf[l]) : UidOf[m] = UidOf[l]}

(* A line has come to something: its retailer holds a line of its file, or *)
(* retailer_errors has a row about it.                                     *)
Accounted(l) ==
    \E m \in Peers(l) : errorRows[m] > 0 \/ (UidOf[m] # NoUid /\ retailers[UidOf[m]] = m)

(* When a job completes, every line of its file has come to something: its *)
(* retailer holds a line of the file or retailer_errors has a row for it.  *)
EveryLineAccountedFor ==
    [][\A j \in Jobs : status[j] # "completed" /\ status'[j] = "completed" =>
         \A l \in LinesOf(j) : Accounted(l)]_vars

(* A retailer whose line was accepted by a completed job has no error row  *)
(* left from an earlier file: clearResolvedErrors.                         *)
ResolvedErrorsAreGone ==
    [][\A j \in Jobs : status[j] # "completed" /\ status'[j] = "completed" =>
         \A l \in Lines : FileOf[l] # j /\ errorRows[l] > 0 /\ UidOf[l] # NoUid =>
            retailers[UidOf[l]] \notin LinesOf(j)]_vars

(* The summary a completed job returns counts each line of the file once,  *)
(* also when it is the second attempt at the job.                          *)
SummaryCountsTheFile ==
    \A j \in Jobs : status[j] = "completed" => result[j] = Cardinality(LinesOf(j))

(* A repeated attempt does not record an error twice: insertErrors deletes *)
(* by uid first.                                                           *)
ErrorsRecordedOnce ==
    \A l \in Lines : UidOf[l] # NoUid => errorRows[l] <= 1

(* What the queue has reported stands, though a slot that lost its lock    *)
(* may still be running the job.                                           *)
OutcomeIsFinal ==
    [][\A j \in Jobs : status[j] \in Final =>
         status'[j] = status[j] /\ result'[j] = result[j]]_vars

(* Every queued job ends, whatever crashes. *)
QueuedJobsEnd ==
    \A j \in Jobs : status[j] = "waiting" ~> status[j] \in Final
-----------------------------------------------------------------------------
(* Whoever holds a job's lock holds it while the job is active, and a slot *)
(* at work has a job: true of any number of slots.                         *)
QueueInvariant ==
    /\ TypeOK
    /\ \A j \in Jobs : owner[j] # NoSlot => status[j] = "active"
    /\ \A w \in Slots : pc[w] = "idle" <=> job[w] = NoJob

(* The rest is what the code counts on, and what one slot gives it: nobody *)
(* else touches the staged rows between a run's TRUNCATE and its last      *)
(* DELETE.  Unhandled(w): the rows that the run of w has still to count.   *)
OneSlot == \A v, w \in Slots : v = w
Staged == {"refs", "select", "errDelete", "errInsert", "upsert", "clear", "remove"}
Finished == {"unlinkDone", "reportDone"}
Unhandled(w) ==
    CASE pc[w] \in {"refs", "select", "errDelete", "errInsert"} -> staging
      [] pc[w] \in {"upsert", "clear", "remove"} -> (staging \ batch[w]) \cup (todo[w] \ chunk[w])
      [] OTHER -> {}
HandledLines(w) == {l \in LinesOf(job[w]) : <<w, l>> \notin Unhandled(w)}

(* A batch is part of the staged rows, which are those of the job's file.  *)
BatchStands(w) ==
    /\ pc[w] \in {"idle", "truncate", "copy"} => handled[w] = 0
    /\ pc[w] \in {"idle", "truncate", "copy", "refs", "select"} =>
          batch[w] = {} /\ todo[w] = {} /\ chunk[w] = {}
    /\ pc[w] = "copy" => staging = {}
    /\ pc[w] \in Staged =>
          /\ staging \subseteq {w} \X LinesOf(job[w])
          /\ batch[w] \subseteq staging /\ todo[w] \subseteq batch[w] /\ chunk[w] \subseteq todo[w]
    /\ pc[w] \in {"errDelete", "errInsert", "upsert", "remove"} => chunk[w] = {}
    /\ pc[w] = "remove" => todo[w] = {}
    /\ \A c \in todo[w] : UidOf[c[2]] # NoUid

(* Each row is counted once. *)
CountStands(w) ==
    pc[w] \in Staged \cup Finished =>
        handled[w] + Cardinality(Unhandled(w)) = Cardinality(LinesOf(job[w]))

(* A line that has been counted has come to something, and no earlier      *)
(* file's error about its retailer is left.                                *)
Forgotten(U) == \A l \in Lines : UidOf[l] \in U => errorRows[l] = 0
LinesStand(w) ==
    /\ pc[w] = "errInsert" => Forgotten(UidsOf(Invalid(w)))
    /\ pc[w] = "clear" => \A c \in chunk[w] : retailers[UidOf[c[2]]] = c[2]
    /\ pc[w] \in Staged \cup Finished => \A l \in HandledLines(w) :
          /\ Accounted(l) \/ (pc[w] = "errInsert" /\ UidOf[l] \in UidsOf(Invalid(w)))
          /\ \A m \in Lines : UidOf[l] # NoUid /\ UidOf[m] = UidOf[l] /\ FileOf[m] # job[w] =>
                errorRows[m] = 0 \/ (pc[w] = "clear" /\ <<w, l>> \in chunk[w])

(* The inductive invariant of one slot. *)
ImportInvariant ==
    /\ QueueInvariant
    /\ \A u \in Uids : retailers[u] # NoLine => UidOf[retailers[u]] = u
    /\ SummaryCountsTheFile /\ ErrorsRecordedOnce
    /\ \A w \in Slots : BatchStands(w) /\ CountStands(w) /\ LinesStand(w)
=============================================================================
