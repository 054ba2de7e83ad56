------------------------- MODULE RetailerAssignment -------------------------
(***************************************************************************)
(* Assigning retailers to sales representatives:                           *)
(* SalesRepService.assignRetailersToSalesRep, .unassignRetailersFromSalesRep*)
(* and .updateRetailer, RetailerService.updateRetailer and .deleteRetailer. *)
(*                                                                         *)
(* Each call is one READ COMMITTED transaction whose statements interleave *)
(* with those of the other calls.  A call's writes are held in a buffer    *)
(* until it commits; a row in a call's buffer is a row that call has       *)
(* locked.  A multi-row statement locks its rows one at a time, in an      *)
(* order the planner is free to choose.                                    *)
(***************************************************************************)
EXTENDS Naturals, FiniteSets

CONSTANTS
    Retailers,    \* retailer ids a request may name
    Reps,         \* ids of the existing sales representatives
    NoRep,        \* an id that names no representative
    Calls,        \* the requests served during a behaviour
    Nobody,       \* stands for "no call": inserted the seed rows, unassigned nothing
    Kinds,        \* the endpoints in use, a subset of AllKinds
    MaxBulk,      \* the limit on the ids of one request (70 in the code)
    MaxInFlight   \* how many requests are served at a time

AllKinds == {"assign", "unassign", "edit", "delete"}

ASSUME KindsAssumption == Kinds \subseteq AllKinds
(* What stands for the owner of a retailer that has no row. *)
Gone == "gone"

ASSUME RepsAssumption == NoRep \notin Reps /\ Gone \notin Reps \cup {NoRep}
ASSUME CallsAssumption == Nobody \notin Calls
ASSUME LimitsAssumption == MaxBulk \in Nat /\ MaxInFlight \in Nat \ {0}

(* A row of sales_rep_retailers, named by the call that inserts it and its *)
(* retailer: a call inserts at most one row per retailer.                  *)
RowIds == (Calls \cup {Nobody}) \X Retailers
Row == [state : {"absent", "active", "inactive"},
        rep   : Reps \cup {NoRep},
        by    : Calls \cup {Nobody}]     \* unassigned_by
NoRow == [state |-> "absent", rep |-> NoRep, by |-> Nobody]

(* What a call is about to do to a retailer row: nothing; update other     *)
(* columns; set or clear is_assigned; delete it; insert it anew.           *)
Marks == {"free", "keep", "set", "clear", "gone", "bornSet", "bornClear"}
Born == {"bornSet", "bornClear"}

VARIABLES
    rows,      \* committed sales_rep_retailers
    flag,      \* committed retailers.is_assigned
    present,   \* retailers that have a committed row
    deact,     \* deact[c]: assignment rows c has locked to deactivate or delete
    ins,       \* ins[c]: retailers for which c has inserted an active row
    mark,      \* mark[c][r]: what c has done to the row of retailer r
    pc,        \* pc[c]: the next statement of c
    req,       \* req[c]: the request c serves
    found,     \* found[c]: assignable (assign) or activeIds (unassign)
    victims,   \* victims[c]: assignment rows the running statement has left
    targets,   \* targets[c]: retailers left to insert a row for
    marks,     \* marks[c]: retailers left to update
    seen       \* seen[c]: is_assigned as an edit read it, then what it writes

store == <<rows, flag, present>>
held  == <<deact, ins, mark>>
local == <<found, victims, targets, marks, seen>>
vars  == <<store, held, pc, req, local>>

Running == {"retailers", "active", "owned", "snapshot", "update", "entity", "diff", "write"}
Ended   == {"done", "failed"}
InFlight == {c \in Calls : pc[c] \in Running}

Request == [kind : AllKinds \cup {"none"}, rep : Reps \cup {NoRep}, ids : SUBSET Retailers]
NoReq == [kind |-> "none", rep |-> NoRep, ids |-> {}]

(* The requests clients send, repeated and blank ids already removed. *)
Requests ==
    [kind : Kinds \cap {"assign", "unassign"}, rep : Reps \cup {NoRep}, ids : SUBSET Retailers]
        \cup [kind : Kinds \cap {"edit", "delete"}, rep : {NoRep}, ids : {{r} : r \in Retailers}]

ActiveRows(r) == {k \in RowIds : k[2] = r /\ rows[k].state = "active"}
OwnedRows(p, S) == {k \in RowIds : k[2] \in S /\ rows[k].state = "active" /\ rows[k].rep = p}

TypeOK ==
    /\ rows \in [RowIds -> Row]
    /\ flag \in [Retailers -> BOOLEAN]
    /\ present \in SUBSET Retailers
    /\ deact \in [Calls -> SUBSET RowIds]
    /\ ins \in [Calls -> SUBSET Retailers]
    /\ mark \in [Calls -> [Retailers -> Marks]]
    /\ pc \in [Calls -> {"idle"} \cup Running \cup Ended]
    /\ req \in [Calls -> Request]
    /\ found \in [Calls -> SUBSET Retailers]
    /\ victims \in [Calls -> SUBSET RowIds]
    /\ targets \in [Calls -> SUBSET Retailers]
    /\ marks \in [Calls -> SUBSET Retailers]
    /\ seen \in [Calls -> Marks]

-----------------------------------------------------------------------------
(* Any consistent database: one active row for each assigned retailer, and *)
(* is_assigned agreeing with it.                                           *)
Init ==
    /\ present \in SUBSET Retailers
    /\ \E owner \in [present -> Reps \cup {NoRep}] :
        /\ rows = [k \in RowIds |->
                     IF k[1] = Nobody /\ k[2] \in present /\ owner[k[2]] # NoRep
                     THEN [state |-> "active", rep |-> owner[k[2]], by |-> Nobody]
                     ELSE NoRow]
        /\ flag = [r \in Retailers |-> r \in present /\ owner[r] # NoRep]
    /\ deact = [c \in Calls |-> {}]
    /\ ins = [c \in Calls |-> {}]
    /\ mark = [c \in Calls |-> [r \in Retailers |-> "free"]]
    /\ pc = [c \in Calls |-> "idle"]
    /\ req = [c \in Calls |-> NoReq]
    /\ found = [c \in Calls |-> {}]
    /\ victims = [c \in Calls |-> {}]
    /\ targets = [c \in Calls |-> {}]
    /\ marks = [c \in Calls |-> {}]
    /\ seen = [c \in Calls |-> "free"]

(* The end of a transaction: locks and buffers go. *)
(* Slip: the row locks outlive the transaction. *)
ReleaseKeepingLocks(c, outcome) ==
    /\ pc' = [pc EXCEPT ![c] = outcome]
    /\ req' = [req EXCEPT ![c] = NoReq]
    /\ found' = [found EXCEPT ![c] = {}]
    /\ victims' = [victims EXCEPT ![c] = {}]
    /\ targets' = [targets EXCEPT ![c] = {}]
    /\ marks' = [marks EXCEPT ![c] = {}]
    /\ seen' = [seen EXCEPT ![c] = "free"]
    /\ UNCHANGED held

Release(c, outcome) ==
    /\ deact' = [deact EXCEPT ![c] = {}]
    /\ ins' = [ins EXCEPT ![c] = {}]
    /\ mark' = [mark EXCEPT ![c] = [r \in Retailers |-> "free"]]
    /\ pc' = [pc EXCEPT ![c] = outcome]
    /\ req' = [req EXCEPT ![c] = NoReq]
    /\ found' = [found EXCEPT ![c] = {}]
    /\ victims' = [victims EXCEPT ![c] = {}]
    /\ targets' = [targets EXCEPT ![c] = {}]
    /\ marks' = [marks EXCEPT ![c] = {}]
    /\ seen' = [seen EXCEPT ![c] = "free"]

Rollback(c) == Release(c, "failed") /\ UNCHANGED store

-----------------------------------------------------------------------------
(* Who holds the lock that the next row of a statement of c needs. *)
RowBlockers(c, k) == {d \in Calls \ {c} : k \in deact[d]}

(* The partial unique index makes an insert wait for whoever is inserting  *)
(* or removing the active row of r; the foreign key makes it wait for      *)
(* whoever is deleting r.                                                  *)
(* Slip: no foreign key to wait for. *)
InsertBlockersWithoutDelete(c, r) ==
    {d \in Calls \ {c} : r \in ins[d] \/ \E k \in ActiveRows(r) : k \in deact[d]}

InsertBlockers(c, r) ==
    {d \in Calls \ {c} : \/ r \in ins[d]
                         \/ \E k \in ActiveRows(r) : k \in deact[d]
                         \/ mark[d][r] = "gone"}

(* A delete also waits for the key-share lock of an inserted assignment. *)
MarkBlockers(c, r) ==
    {d \in Calls \ {c} : mark[d][r] # "free" \/ (req[c].kind = "delete" /\ r \in ins[d])}

Awaited(c) ==
    IF victims[c] # {} THEN {RowBlockers(c, k) : k \in victims[c]}
    ELSE IF targets[c] # {} THEN {InsertBlockers(c, r) : r \in targets[c]}
    ELSE {MarkBlockers(c, r) : r \in marks[c]}
WaitsFor(c) == IF {} \in Awaited(c) THEN {} ELSE UNION Awaited(c)

Deadlocked(c) ==
    \E S \in SUBSET Calls :
        /\ c \in S
        /\ \A d \in S : WaitsFor(d) \cap S # {} /\ \E e \in S : d \in WaitsFor(e)

-----------------------------------------------------------------------------
(* connect, startTransaction, the checks on the request and, for bulk      *)
(* requests, ensureSalesRepExists: no endpoint removes a representative.   *)
EntryPoint(q) ==
    CASE q.kind \in {"edit", "delete"} -> "entity"
      [] q.kind \notin {"edit", "delete"} /\ q.rep = NoRep -> "failed"
      [] q.kind \notin {"edit", "delete"} /\ q.rep # NoRep /\ q.ids = {} -> "done"
      [] q.kind \notin {"edit", "delete"} /\ q.rep # NoRep /\ q.ids # {} ->
           IF Cardinality(q.ids) > MaxBulk THEN "failed"
           ELSE IF q.kind = "assign" THEN "retailers" ELSE "owned"

Begin(c) ==
    /\ pc[c] = "idle"
    /\ Cardinality(InFlight) < MaxInFlight
    /\ \E q \in Requests :
        /\ pc' = [pc EXCEPT ![c] = EntryPoint(q)]
        /\ req' = [req EXCEPT ![c] = IF EntryPoint(q) \in Ended THEN NoReq ELSE q]
    /\ UNCHANGED <<store, held, local>>

(* assign: which of the requested retailers exist. *)
ReadRetailers(c) ==
    /\ pc[c] = "retailers"
    /\ LET assignable == req[c].ids \cap present IN
        /\ found' = [found EXCEPT ![c] = assignable]
        /\ pc' = [pc EXCEPT ![c] = IF assignable = {} THEN "write" ELSE "active"]
    /\ UNCHANGED <<store, held, req, victims, targets, marks, seen>>

(* assign: the active assignments of those retailers, and from that one    *)
(* snapshot the three writes to come: rows of other representatives to     *)
(* deactivate by id, retailers to insert a row for, retailers to flag.     *)
(* Slip: alreadyAssigned holds the retailers of every representative. *)
ReadAnyAssignments(c) ==
    /\ pc[c] = "active"
    /\ LET active == {k \in RowIds : k[2] \in found[c] /\ rows[k].state = "active"}
       IN  /\ victims' = [victims EXCEPT ![c] = {k \in active : rows[k].rep # req[c].rep}]
           /\ targets' = [targets EXCEPT ![c] = found[c] \ {k[2] : k \in active}]
    /\ marks' = [marks EXCEPT ![c] = found[c]]
    /\ pc' = [pc EXCEPT ![c] = "write"]
    /\ UNCHANGED <<store, held, req, found, seen>>

(* Slip: closed assignments are not filtered out. *)
ReadAllAssignments(c) ==
    /\ pc[c] = "active"
    /\ LET old == {k \in RowIds : k[2] \in found[c] /\ rows[k].state # "absent"}
       IN  victims' = [victims EXCEPT ![c] = {k \in old : rows[k].rep # req[c].rep}]
    /\ targets' = [targets EXCEPT ![c] = found[c] \ {k[2] : k \in OwnedRows(req[c].rep, found[c])}]
    /\ marks' = [marks EXCEPT ![c] = found[c]]
    /\ pc' = [pc EXCEPT ![c] = "write"]
    /\ UNCHANGED <<store, held, req, found, seen>>

ReadActiveAssignments(c) ==
    /\ pc[c] = "active"
    /\ LET active == {k \in RowIds : k[2] \in found[c] /\ rows[k].state = "active"}
           already == {k[2] : k \in OwnedRows(req[c].rep, found[c])}
       IN  /\ victims' = [victims EXCEPT ![c] = {k \in active : rows[k].rep # req[c].rep}]
           /\ targets' = [targets EXCEPT ![c] = found[c] \ already]
    /\ marks' = [marks EXCEPT ![c] = found[c]]
    /\ pc' = [pc EXCEPT ![c] = "write"]
    /\ UNCHANGED <<store, held, req, found, seen>>

(* unassign: the active assignments of the representative among the ids. *)
(* Slip: assignments that ended long ago count as well. *)
ReadEverOwned(c) ==
    /\ pc[c] = "owned"
    /\ LET owned == {k \in RowIds : /\ k[2] \in req[c].ids /\ rows[k].state # "absent"
                                    /\ rows[k].rep = req[c].rep}
       IN  /\ found' = [found EXCEPT ![c] = {k[2] : k \in owned}]
           /\ pc' = [pc EXCEPT ![c] = IF owned = {} THEN "write" ELSE "snapshot"]
    /\ UNCHANGED <<store, held, req, victims, targets, marks, seen>>

ReadOwned(c) ==
    /\ pc[c] = "owned"
    /\ LET activeIds == {k[2] : k \in OwnedRows(req[c].rep, req[c].ids)} IN
        /\ found' = [found EXCEPT ![c] = activeIds]
        /\ pc' = [pc EXCEPT ![c] = IF activeIds = {} THEN "write" ELSE "snapshot"]
    /\ UNCHANGED <<store, held, req, victims, targets, marks, seen>>

(* unassign: the UPDATE takes its own snapshot of the rows to deactivate. *)
(* Slip: the WHERE does not name the representative. *)
StartDeactivationOfAll(c) ==
    /\ pc[c] = "snapshot"
    /\ victims' = [victims EXCEPT ![c] =
           {k \in RowIds : k[2] \in found[c] /\ rows[k].state = "active"}]
    /\ pc' = [pc EXCEPT ![c] = "update"]
    /\ UNCHANGED <<store, held, req, found, targets, marks, seen>>

StartDeactivation(c) ==
    /\ pc[c] = "snapshot"
    /\ victims' = [victims EXCEPT ![c] = OwnedRows(req[c].rep, found[c])]
    /\ pc' = [pc EXCEPT ![c] = "update"]
    /\ UNCHANGED <<store, held, req, found, targets, marks, seen>>

(* The next row of the deactivating UPDATE, or of a delete's cascade, once *)
(* nobody else holds it.  The row is looked at again: only unassign's      *)
(* WHERE asks whether it is still active.                                  *)
StillMatches(c, k) ==
    IF req[c].kind = "unassign" THEN rows[k].state = "active" ELSE rows[k].state # "absent"

ClaimRow(c, k) ==
    /\ pc[c] \in {"update", "write"}
    /\ k \in victims[c]
    /\ RowBlockers(c, k) = {}
    /\ deact' = [deact EXCEPT ![c] = IF StillMatches(c, k) THEN @ \cup {k} ELSE @]
    /\ victims' = [victims EXCEPT ![c] = @ \ {k}]
    /\ UNCHANGED <<store, ins, mark, pc, req, found, targets, marks, seen>>

(* unassign: stillAssigned, read through the call's own writes. *)
(* Slip: the retailers kept are the ones still assigned. *)
ReadStillAssignedInverted(c) ==
    /\ pc[c] = "update"
    /\ victims[c] = {}
    /\ marks' = [marks EXCEPT ![c] = {r \in found[c] : ~(ActiveRows(r) \subseteq deact[c])}]
    /\ pc' = [pc EXCEPT ![c] = "write"]
    /\ UNCHANGED <<store, held, req, found, victims, targets, seen>>

ReadStillAssigned(c) ==
    /\ pc[c] = "update"
    /\ victims[c] = {}
    /\ marks' = [marks EXCEPT ![c] = {r \in found[c] : ActiveRows(r) \subseteq deact[c]}]
    /\ pc' = [pc EXCEPT ![c] = "write"]
    /\ UNCHANGED <<store, held, req, found, victims, targets, seen>>

(* assign: the next row of the INSERT, and the constraints that reject it. *)
(* Slip: no unique index on the active rows. *)
InsertableTwice(c, r) == r \in present

Insertable(c, r) == r \in present /\ ActiveRows(r) \subseteq deact[c]

InsertReady(c, r) ==
    /\ pc[c] = "write"
    /\ victims[c] = {}
    /\ r \in targets[c]
    /\ InsertBlockers(c, r) = {}

InsertRow(c, r) ==
    /\ InsertReady(c, r)
    /\ Insertable(c, r)
    /\ ins' = [ins EXCEPT ![c] = @ \cup {r}]
    /\ targets' = [targets EXCEPT ![c] = @ \ {r}]
    /\ UNCHANGED <<store, deact, mark, pc, req, found, victims, marks, seen>>

RejectInsert(c, r) ==
    /\ InsertReady(c, r)
    /\ ~Insertable(c, r)
    /\ Rollback(c)

(* edit and delete: load the entity, is_assigned included. *)
ReadEntity(c, r) ==
    /\ pc[c] = "entity"
    /\ r \in req[c].ids

EntityMissing(c, r) == ReadEntity(c, r) /\ r \notin present /\ Rollback(c)

ReadToDelete(c, r) ==
    /\ ReadEntity(c, r) /\ r \in present
    /\ req[c].kind = "delete"
    /\ marks' = [marks EXCEPT ![c] = {r}]
    /\ pc' = [pc EXCEPT ![c] = "write"]
    /\ UNCHANGED <<store, held, req, found, victims, targets, seen>>

ReadToEdit(c, r) ==
    /\ ReadEntity(c, r) /\ r \in present
    /\ req[c].kind = "edit"
    /\ seen' = [seen EXCEPT ![c] = IF flag[r] THEN "set" ELSE "clear"]
    /\ pc' = [pc EXCEPT ![c] = "diff"]
    /\ UNCHANGED <<store, held, req, found, victims, targets, marks>>

(* edit: save() reads the row again and writes the columns that differ     *)
(* from it; it inserts the entity when the row is gone.                    *)
Columns(r, read) ==
    CASE r \notin present -> IF read = "set" THEN "bornSet" ELSE "bornClear"
      [] r \in present /\ flag[r] = (read = "set") -> "keep"
      [] r \in present /\ flag[r] # (read = "set") -> read

DiffEntity(c, r) ==
    /\ pc[c] = "diff"
    /\ r \in req[c].ids
    /\ LET write == Columns(r, seen[c]) IN
        /\ seen' = [seen EXCEPT ![c] = write]
        /\ \E toWrite \in {{r}} \cup (IF write = "keep" THEN {{}} ELSE {}) :
             marks' = [marks EXCEPT ![c] = toWrite]
    /\ pc' = [pc EXCEPT ![c] = "write"]
    /\ UNCHANGED <<store, held, req, found, victims, targets>>

(* The next row of the UPDATE, DELETE or INSERT on retailers. *)
Writes(c) ==
    CASE req[c].kind = "assign" -> "set"
      [] req[c].kind = "unassign" -> "clear"
      [] req[c].kind = "delete" -> "gone"
      [] OTHER -> seen[c]

MarkReady(c, r) ==
    /\ pc[c] = "write"
    /\ victims[c] = {} /\ targets[c] = {}
    /\ r \in marks[c]
    /\ MarkBlockers(c, r) = {}

MarkRetailer(c, r) ==
    /\ MarkReady(c, r)
    /\ ~(Writes(c) \in Born /\ r \in present)
    /\ LET hit == r \in present \/ Writes(c) \in Born IN
        /\ mark' = [mark EXCEPT ![c][r] = IF hit THEN Writes(c) ELSE @]
        /\ victims' = [victims EXCEPT ![c] =
               IF hit /\ Writes(c) = "gone"
               THEN {k \in RowIds : k[2] = r /\ rows[k].state # "absent"} ELSE @]
    /\ marks' = [marks EXCEPT ![c] = @ \ {r}]
    /\ UNCHANGED <<store, deact, ins, pc, req, found, targets, seen>>

(* Inserting a retailer whose id is taken again breaks the primary key. *)
RejectMark(c, r) ==
    /\ MarkReady(c, r)
    /\ Writes(c) \in Born /\ r \in present
    /\ Rollback(c)

(* commitTransaction, then the finally block's release. *)
CommittedRow(c, k) ==
    IF mark[c][k[2]] = "gone" THEN NoRow
    ELSE IF k \in deact[c] THEN [rows[k] EXCEPT !.state = "inactive", !.by = c]
    ELSE IF k[1] = c /\ k[2] \in ins[c] THEN [state |-> "active", rep |-> req[c].rep, by |-> Nobody]
    ELSE rows[k]

CommittedFlag(c, r) ==
    CASE mark[c][r] \in {"set", "bornSet"} -> TRUE
      [] mark[c][r] \in {"clear", "bornClear", "gone"} -> FALSE
      [] OTHER -> flag[r]

Commit(c) ==
    /\ pc[c] = "write"
    /\ victims[c] = {} /\ targets[c] = {} /\ marks[c] = {}
    /\ rows' = [k \in RowIds |-> CommittedRow(c, k)]
    /\ flag' = [r \in Retailers |-> CommittedFlag(c, r)]
    /\ present' = {r \in Retailers : mark[c][r] \in Born \/ (r \in present /\ mark[c][r] # "gone")}
    /\ Release(c, "done")

(* PostgreSQL's deadlock detector aborts a transaction on a cycle of waits. *)
DeadlockVictim(c) ==
    /\ pc[c] \in Running
    /\ Deadlocked(c)
    /\ Rollback(c)

(* A statement fails, or the connection or the process is lost. *)
Fault(c) ==
    /\ pc[c] \in Running
    /\ Rollback(c)

-----------------------------------------------------------------------------
Statement(c) ==
    \/ ReadRetailers(c) \/ ReadActiveAssignments(c)
    \/ ReadOwned(c) \/ StartDeactivation(c) \/ ReadStillAssigned(c)
    \/ \E k \in RowIds : ClaimRow(c, k)
    \/ \E r \in Retailers :
         \/ InsertRow(c, r) \/ RejectInsert(c, r)
         \/ EntityMissing(c, r) \/ ReadToDelete(c, r)
         \/ ReadToEdit(c, r) \/ DiffEntity(c, r)
         \/ MarkRetailer(c, r) \/ RejectMark(c, r)
    \/ Commit(c) \/ DeadlockVictim(c)

Next == \E c \in Calls : Begin(c) \/ Statement(c) \/ Fault(c)

Spec == Init /\ [][Next]_vars

(* The server keeps executing the statements of a request it has begun, and *)
(* PostgreSQL looks for deadlocks.  Clients owe nothing.                    *)
FairSpec == Spec /\ \A c \in Calls : WF_vars(Statement(c))

-----------------------------------------------------------------------------
(* A retailer never has two active assignments, whatever the calls in      *)
(* flight: SalesRepRetailer's index UQ_ACTIVE_RETAILER_ASSIGNMENT together *)
(* with the deactivate-then-insert order of assignRetailersToSalesRep.     *)
OneActivePerRetailer ==
    \A r \in Retailers : \A k, l \in ActiveRows(r) : k = l

(* An assignment never outlives its retailer: the foreign key against a    *)
(* delete that races the insert of assignRetailersToSalesRep.              *)
NoOrphanAssignment ==
    \A k \in RowIds : rows[k].state # "absent" => k[2] \in present

(* The strengthening that every statement preserves: row locks are         *)
(* exclusive, at most one call is inserting for a retailer, and the call   *)
(* that is inserting holds every committed active row of that retailer.    *)
LocksExclusive ==
    \A c, d \in Calls : c # d =>
        /\ deact[c] \cap deact[d] = {}
        /\ ins[c] \cap ins[d] = {}
        /\ \A r \in Retailers : mark[c][r] = "free" \/ mark[d][r] = "free"
InserterHoldsActiveRows ==
    \A c \in Calls : \A r \in ins[c] : ActiveRows(r) \subseteq deact[c]

(* Nobody inserts an assignment for a retailer that is not there or that   *)
(* another call is deleting, and a delete holds, or is about to, every     *)
(* assignment of its retailer.                                             *)
InsertsHaveTheirRetailer == \A c \in Calls : ins[c] \subseteq present
DeleteOwnsItsRetailer ==
    \A c \in Calls : \A r \in Retailers : mark[c][r] = "gone" =>
        /\ r \in present
        /\ \A d \in Calls : r \notin ins[d]
        /\ \A k \in RowIds : k[2] = r /\ rows[k].state # "absent" =>
              k \in deact[c] \cup victims[c]

(* The statement a call is at tells what it serves and what it may hold.   *)
Untouched(c) ==
    /\ deact[c] = {} /\ ins[c] = {}
    /\ victims[c] = {} /\ targets[c] = {} /\ marks[c] = {}
    /\ \A r \in Retailers : mark[c][r] = "free"
StepFitsRequest(c) ==
    /\ pc[c] \notin Running => req[c] = NoReq
    /\ pc[c] \notin {"update", "write"} => Untouched(c)
    /\ pc[c] \in Running =>
          \/ req[c].kind \in {"assign", "unassign"} /\ req[c].rep \in Reps
          \/ req[c].kind \in {"edit", "delete"} /\ \E r \in Retailers : req[c].ids = {r}
    /\ pc[c] \in {"retailers", "active"} => req[c].kind = "assign"
    /\ pc[c] \in {"owned", "snapshot", "update"} => req[c].kind = "unassign"
    /\ pc[c] = "entity" => req[c].kind \in {"edit", "delete"}
    /\ pc[c] = "diff" => req[c].kind = "edit"
    /\ pc[c] = "update" => \A r \in Retailers : mark[c][r] = "free"

(* A call plans and writes only what its request names, in the way of its  *)
(* kind: an assign inserts for every retailer it takes from another        *)
(* representative, a delete takes only the rows of what it deletes.        *)
MayWrite(kind) ==
    CASE kind = "assign" -> {"set"}
      [] kind = "unassign" -> {"clear"}
      [] kind = "delete" -> {"gone"}
      [] kind = "edit" -> Marks \ {"gone"}
      [] OTHER -> {}
PlanFitsRequest(c) ==
    LET taken == {k[2] : k \in deact[c] \cup victims[c]} IN
    /\ found[c] \cup targets[c] \cup ins[c] \cup marks[c] \cup taken \subseteq req[c].ids
    /\ \A r \in Retailers : mark[c][r] # "free" =>
          r \in req[c].ids /\ mark[c][r] \in MayWrite(req[c].kind)
    /\ req[c].kind = "assign" => taken \subseteq targets[c] \cup ins[c]
    /\ req[c].kind # "assign" => ins[c] = {} /\ targets[c] = {}
    /\ req[c].kind = "edit" => taken = {}
    /\ seen[c] # "gone"
    /\ req[c].kind = "delete" => \A r \in taken : mark[c][r] = "gone"

(* A row a call works on was committed by a call that has ended, is still  *)
(* there once the call holds it, and is the one unassign has looked up.    *)
WorksOnCommittedRows(c) ==
    \A k \in deact[c] \cup victims[c] :
        /\ k[1] = Nobody \/ pc[k[1]] \in Ended
        /\ k \in deact[c] => rows[k].state # "absent"
        /\ req[c].kind = "unassign" =>
              /\ rows[k].state = "absent" \/ rows[k].rep = req[c].rep
              /\ k \in deact[c] => rows[k].state = "active"
RowsAreOfEndedCalls ==
    \A k \in RowIds : rows[k].state # "absent" => k[1] = Nobody \/ pc[k[1]] \in Ended

(* The inductive invariant. *)
AssignmentInvariant ==
    /\ TypeOK
    /\ LocksExclusive /\ InserterHoldsActiveRows /\ OneActivePerRetailer
    /\ InsertsHaveTheirRetailer /\ DeleteOwnsItsRetailer /\ NoOrphanAssignment
    /\ RowsAreOfEndedCalls
    /\ \A c \in Calls :
          StepFitsRequest(c) /\ PlanFitsRequest(c) /\ WorksOnCommittedRows(c)

(* The owner of a retailer, as AssignmentRegister sees it. *)
Owner(r) ==
    IF r \notin present THEN Gone
    ELSE IF ActiveRows(r) = {} THEN NoRep
    ELSE rows[CHOOSE k \in ActiveRows(r) : TRUE].rep

(* The calls implement the register: every commit hands retailers over to  *)
(* one representative, or takes some back from the one that held them, in  *)
(* one step, however the statements interleave.                            *)
Register == INSTANCE AssignmentRegister WITH owner <- [r \in Retailers |-> Owner(r)]
ImplementsRegister == Register!Spec

(* A call changes owners only as its request says: an assign takes what it *)
(* names for its representative, an unassign takes what it names from its  *)
(* representative and from nobody else, a delete drops what it names, and  *)
(* an edit changes no owner.                                               *)
Asked(q, r, old, new) ==
    /\ r \in q.ids
    /\ \/ q.kind = "assign" /\ new = q.rep /\ old # Gone
       \/ q.kind = "unassign" /\ old = q.rep /\ new = NoRep
       \/ q.kind = "delete" /\ new = Gone
       \/ q.kind = "edit" /\ old = Gone /\ new = NoRep
OwnersChangeOnRequest ==
    [][\A c \in Calls : pc[c] \in Running /\ pc'[c] \in Ended =>
         \A r \in Retailers : Owner(r)' # Owner(r) => Asked(req[c], r, Owner(r), Owner(r)')]_vars

(* is_assigned says whether a retailer has an active assignment: the flag  *)
(* that assign and unassign maintain beside the rows.                      *)
FlagMatchesAssignment ==
    \A r \in Retailers : flag[r] <=> ActiveRows(r) # {}

(* With one call at a time, what it has read still fits the tables when it *)
(* writes.  An assign ends with a row of its representative for every      *)
(* retailer it has found, and flags them all.                              *)
OneAtATime == \A c, d \in InFlight : c = d
AssignPlanStands(c) ==
    req[c].kind = "assign" /\ pc[c] \in {"active", "write"} =>
        /\ found[c] = req[c].ids \cap present
        /\ targets[c] \cup ins[c] \cup marks[c] \subseteq found[c]
        /\ \A k \in deact[c] \cup victims[c] : rows[k].state = "active"
        /\ \A r \in Retailers : mark[c][r] # "free" => r \in found[c]
        /\ pc[c] = "write" => \A r \in found[c] :
              /\ r \in marks[c] \/ mark[c][r] = "set"
              /\ \/ r \in targets[c] \cup ins[c]
                 \/ \E k \in ActiveRows(r) : rows[k].rep = req[c].rep

(* An unassign closes a row of every retailer it has found, and clears the *)
(* flag of each.                                                           *)
UnassignPlanStands(c) ==
    req[c].kind = "unassign" /\ pc[c] \in Running =>
        /\ marks[c] \subseteq found[c]
        /\ \A k \in deact[c] \cup victims[c] : k[2] \in found[c] /\ rows[k].state = "active"
        /\ \A r \in Retailers : mark[c][r] # "free" => r \in found[c]
        /\ pc[c] = "snapshot" => \A r \in found[c] :
              \E k \in ActiveRows(r) : rows[k].rep = req[c].rep
        /\ pc[c] \in {"update", "write"} => \A r \in found[c] :
              \E k \in deact[c] \cup victims[c] : k[2] = r
        /\ pc[c] = "write" => victims[c] = {} /\ \A r \in found[c] :
              r \in marks[c] \/ mark[c][r] = "clear"

(* An edit finds the row it has read, and does not write the flag.         *)
EditPlanStands(c) ==
    req[c].kind = "edit" =>
        /\ pc[c] = "diff" => \A r \in req[c].ids :
              r \in present /\ seen[c] = IF flag[r] THEN "set" ELSE "clear"
        /\ pc[c] = "write" =>
              seen[c] = "keep" /\ \A r \in Retailers : mark[c][r] \in {"free", "keep"}

(* The inductive invariant of one call at a time, beside                   *)
(* AssignmentInvariant.                                                    *)
SerialInvariant ==
    /\ OneAtATime
    /\ \A k \in RowIds : rows[k].state = "active" => rows[k].rep \in Reps
    /\ \A c \in Calls : AssignPlanStands(c) /\ UnassignPlanStands(c) /\ EditPlanStands(c)
    /\ FlagMatchesAssignment

(* The list of unassigned retailers misses no retailer without an active   *)
(* assignment.                                                             *)
EveryUnassignedIsListed ==
    \A r \in present : ActiveRows(r) = {} => ~flag[r]

(* A closed assignment is history: no later call changes who closed it,    *)
(* short of deleting the retailer.                                         *)
AuditTrailFrozen ==
    [][\A k \in RowIds : rows[k].state = "inactive" => rows'[k] \in {rows[k], NoRow}]_vars

(* An assign that reports success leaves the representative as the owner   *)
(* of every requested retailer that exists.                                *)
AssignTakesEffect ==
    [][\A c \in Calls : req[c].kind = "assign" /\ pc'[c] = "done" =>
         \A r \in req[c].ids \cap present : Owner(r)' = req[c].rep]_vars

(* An unassign reports as unassigned exactly the retailers it took away:   *)
(* the summary counts the rows its first SELECT saw.                       *)
UnassignReportsWhatItDid ==
    [][\A c \in Calls : req[c].kind = "unassign" /\ pc'[c] = "done" =>
         found[c] = {r \in Retailers : Owner(r) # Owner(r)'}]_vars

(* Every request that the server begins to serve is answered, in spite of  *)
(* the locks it waits for.                                                 *)
EveryCallEnds ==
    \A c \in Calls : pc[c] \in Running ~> pc[c] \in Ended
=============================================================================
