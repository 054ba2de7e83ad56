---------------------- MODULE RetailerAssignmentProofs ----------------------
(***************************************************************************)
(* Proofs about RetailerAssignment for every set of retailers, of          *)
(* representatives and of calls, and every mix of endpoints.               *)
(***************************************************************************)
EXTENDS RetailerAssignment, TLAPS

(* A transaction's end leaves well-typed buffers. *)
LEMMA ReleaseType ==
    ASSUME TypeOK, NEW c \in Calls, NEW outcome \in Ended, Release(c, outcome)
    PROVE  /\ deact' \in [Calls -> SUBSET RowIds]
           /\ ins' \in [Calls -> SUBSET Retailers]
           /\ mark' \in [Calls -> [Retailers -> Marks]]
           /\ pc' \in [Calls -> {"idle"} \cup Running \cup Ended]
           /\ req' \in [Calls -> Request]
           /\ found' \in [Calls -> SUBSET Retailers]
           /\ victims' \in [Calls -> SUBSET RowIds]
           /\ targets' \in [Calls -> SUBSET Retailers]
           /\ marks' \in [Calls -> SUBSET Retailers]
           /\ seen' \in [Calls -> Marks]
  <1>1. NoReq \in Request
    BY DEF NoReq, Request
  <1>2. "free" \in Marks /\ [r \in Retailers |-> "free"] \in [Retailers -> Marks]
    BY DEF Marks
  <1> QED
    BY <1>1, <1>2 DEF TypeOK, Release

(* So does a rollback, which leaves the committed tables alone. *)
LEMMA RollbackType ==
    ASSUME TypeOK, NEW c \in Calls, Rollback(c)
    PROVE  TypeOK'
  <1>1. "failed" \in Ended
    BY DEF Ended
  <1> QED
    BY <1>1, ReleaseType DEF Rollback, TypeOK, store

(* A commit writes well-typed rows and flags. *)
LEMMA CommitType ==
    ASSUME TypeOK, NEW c \in Calls, Commit(c)
    PROVE  TypeOK'
  <1>1. "done" \in Ended
    BY DEF Ended
  <1>2. ASSUME NEW k \in RowIds
        PROVE  CommittedRow(c, k) \in Row
    <2>1. rows[k] \in Row /\ req[c] \in Request
      BY DEF TypeOK
    <2>2. NoRow \in Row
      BY DEF NoRow, Row
    <2>3. [rows[k] EXCEPT !.state = "inactive", !.by = c] \in Row
      BY <2>1 DEF Row
    <2>4. [state |-> "active", rep |-> req[c].rep, by |-> Nobody] \in Row
      BY <2>1 DEF Row, Request
    <2> QED
      BY <2>1, <2>2, <2>3, <2>4 DEF CommittedRow
  <1>3. rows' \in [RowIds -> Row]
    BY <1>2 DEF Commit
  <1>4. ASSUME NEW r \in Retailers
        PROVE  CommittedFlag(c, r) \in BOOLEAN
    BY DEF TypeOK, CommittedFlag
  <1>5. flag' \in [Retailers -> BOOLEAN]
    BY <1>4 DEF Commit
  <1>6. present' \in SUBSET Retailers
    BY DEF Commit
  <1>7. Release(c, "done")
    BY DEF Commit
  <1> QED
    BY <1>1, <1>3, <1>5, <1>6, <1>7, ReleaseType DEF TypeOK

-----------------------------------------------------------------------------
(* Type correctness, one lemma per kind of statement. *)

(* Taking up a request keeps the types: it names a request and its first   *)
(* statement, or ends at once.                                             *)
LEMMA BeginType ==
    ASSUME TypeOK, NEW c \in Calls, Begin(c)
    PROVE  TypeOK'
  <1>1. PICK q \in Requests :
            /\ pc' = [pc EXCEPT ![c] = EntryPoint(q)]
            /\ req' = [req EXCEPT ![c] = IF EntryPoint(q) \in Ended THEN NoReq ELSE q]
    BY DEF Begin
  <1>2. q \in Request /\ NoReq \in Request
    BY <1>1, KindsAssumption DEF Requests, Request, NoReq, AllKinds
  <1>3. EntryPoint(q) \in Running \cup Ended
    BY <1>2 DEF EntryPoint, Running, Ended, Request
  <1> QED
    BY <1>1, <1>2, <1>3 DEF TypeOK, Begin, store, held, local

(* What the bulk calls read and plan from it is well typed. *)
LEMMA ReadType ==
    ASSUME TypeOK, NEW c \in Calls,
           \/ ReadRetailers(c) \/ ReadActiveAssignments(c)
           \/ ReadOwned(c) \/ StartDeactivation(c) \/ ReadStillAssigned(c)
    PROVE  TypeOK'
  <1> USE DEF TypeOK, store, held, Running
  <1>1. \A p, S : OwnedRows(p, S) \in SUBSET RowIds /\ \A k \in RowIds : k[2] \in Retailers
    BY DEF OwnedRows, RowIds
  <1>2. CASE ReadRetailers(c)
    BY <1>2 DEF ReadRetailers
  <1>3. CASE ReadActiveAssignments(c)
    BY <1>3 DEF ReadActiveAssignments
  <1>4. CASE ReadOwned(c)
    <2>1. {k[2] : k \in OwnedRows(req[c].rep, req[c].ids)} \in SUBSET Retailers
      BY <1>1
    <2> QED
      BY <1>4, <2>1 DEF ReadOwned
  <1>5. CASE StartDeactivation(c)
    BY <1>1, <1>5 DEF StartDeactivation
  <1>6. CASE ReadStillAssigned(c)
    BY <1>6 DEF ReadStillAssigned
  <1> QED
    BY <1>2, <1>3, <1>4, <1>5, <1>6

(* Locking the next row to deactivate or delete keeps the types. *)
LEMMA ClaimRowType ==
    ASSUME TypeOK, NEW c \in Calls, NEW k \in RowIds, ClaimRow(c, k)
    PROVE  TypeOK'
  BY DEF TypeOK, ClaimRow, store

(* Inserting the next assignment keeps the types. *)
LEMMA InsertRowType ==
    ASSUME TypeOK, NEW c \in Calls, NEW r \in Retailers, InsertRow(c, r)
    PROVE  TypeOK'
  BY DEF TypeOK, InsertRow, store

(* Loading a retailer for an edit or a delete, and comparing it with the   *)
(* row before it is saved, keeps the types.                                *)
LEMMA EntityType ==
    ASSUME TypeOK, NEW c \in Calls, NEW r \in Retailers,
           \/ EntityMissing(c, r) \/ ReadToDelete(c, r)
           \/ ReadToEdit(c, r) \/ DiffEntity(c, r)
    PROVE  TypeOK'
  <1>1. CASE EntityMissing(c, r)
    BY <1>1, RollbackType DEF EntityMissing
  <1>2. CASE ReadToDelete(c, r)
    BY <1>2 DEF ReadToDelete, TypeOK, store, held, Running
  <1>3. CASE ReadToEdit(c, r)
    <2>1. (IF flag[r] THEN "set" ELSE "clear") \in Marks
      BY DEF Marks
    <2> QED
      BY <1>3, <2>1 DEF ReadToEdit, TypeOK, store, held, Running
  <1>4. CASE DiffEntity(c, r)
    <2>1. Columns(r, seen[c]) \in Marks
      BY DEF Columns, TypeOK, Marks
    <2> QED
      BY <1>4, <2>1 DEF DiffEntity, TypeOK, store, held, Running
  <1> QED
    BY <1>1, <1>2, <1>3, <1>4

(* Writing the next row of retailers keeps the types. *)
LEMMA MarkRetailerType ==
    ASSUME TypeOK, NEW c \in Calls, NEW r \in Retailers, MarkRetailer(c, r)
    PROVE  TypeOK'
  <1>1. Writes(c) \in Marks
    BY DEF Writes, TypeOK, Marks
  <1>2. mark' \in [Calls -> [Retailers -> Marks]]
    BY <1>1 DEF MarkRetailer, TypeOK
  <1>3. victims' \in [Calls -> SUBSET RowIds]
    BY DEF MarkRetailer, TypeOK
  <1> QED
    BY <1>2, <1>3 DEF MarkRetailer, TypeOK, store

(* Every step of the specification keeps the types. *)
LEMMA StepType ==
    ASSUME TypeOK, [Next]_vars
    PROVE  TypeOK'
  <1>1. CASE UNCHANGED vars
    BY <1>1 DEF TypeOK, vars, store, held, local
  <1>2. ASSUME NEW c \in Calls, Begin(c) \/ Statement(c) \/ Fault(c)
        PROVE  TypeOK'
    <2>1. CASE Begin(c)
      BY <2>1, BeginType
    <2>2. CASE ReadRetailers(c) \/ ReadActiveAssignments(c) \/ ReadOwned(c)
                 \/ StartDeactivation(c) \/ ReadStillAssigned(c)
      BY <2>2, ReadType
    <2>3. ASSUME NEW k \in RowIds, ClaimRow(c, k)
          PROVE  TypeOK'
      BY <2>3, ClaimRowType
    <2>4. ASSUME NEW r \in Retailers,
                 \/ InsertRow(c, r) \/ RejectInsert(c, r)
                 \/ EntityMissing(c, r) \/ ReadToDelete(c, r)
                 \/ ReadToEdit(c, r) \/ DiffEntity(c, r)
                 \/ MarkRetailer(c, r) \/ RejectMark(c, r)
          PROVE  TypeOK'
      BY <2>4, InsertRowType, EntityType, MarkRetailerType, RollbackType
         DEF RejectInsert, RejectMark
    <2>5. CASE Commit(c)
      BY <2>5, CommitType
    <2>6. CASE DeadlockVictim(c) \/ Fault(c)
      BY <2>6, RollbackType DEF DeadlockVictim, Fault
    <2> QED
      BY <1>2, <2>1, <2>2, <2>3, <2>4, <2>5, <2>6 DEF Statement
  <1> QED
    BY <1>1, <1>2 DEF Next

(* A consistent database with no call in flight is well typed. *)
LEMMA InitType == Init => TypeOK
  <1> SUFFICES ASSUME Init PROVE TypeOK
    OBVIOUS
  <1>1. PICK owner \in [present -> Reps \cup {NoRep}] :
            rows = [k \in RowIds |->
                     IF k[1] = Nobody /\ k[2] \in present /\ owner[k[2]] # NoRep
                     THEN [state |-> "active", rep |-> owner[k[2]], by |-> Nobody]
                     ELSE NoRow]
    BY DEF Init
  <1>2. rows \in [RowIds -> Row]
    BY <1>1 DEF Row, NoRow
  <1>3. NoReq \in Request
    BY DEF NoReq, Request
  <1> QED
    BY <1>2, <1>3 DEF Init, TypeOK, Marks

(* Every reachable state is well typed, whatever the load. *)
THEOREM TypeCorrect == Spec => []TypeOK
  BY InitType, StepType, PTL DEF Spec

-----------------------------------------------------------------------------
(* The inductive invariant is about locks and rows, and about each call by *)
(* itself.                                                                 *)
Own(c) == StepFitsRequest(c) /\ PlanFitsRequest(c) /\ WorksOnCommittedRows(c)

(* A step of c leaves what the other calls hold and plan as it is, and c   *)
(* has not ended before it.                                                *)
StepOf(c) ==
    /\ pc[c] \notin Ended
    /\ \A d \in Calls \ {c} :
          /\ deact'[d] = deact[d] /\ ins'[d] = ins[d] /\ mark'[d] = mark[d]
          /\ pc'[d] = pc[d] /\ req'[d] = req[d] /\ found'[d] = found[d]
          /\ victims'[d] = victims[d] /\ targets'[d] = targets[d]
          /\ marks'[d] = marks[d] /\ seen'[d] = seen[d]

(* Before a call commits, its steps mean nothing to the others.            *)
LEMMA OthersKeep ==
    ASSUME AssignmentInvariant, NEW c \in Calls, StepOf(c), rows' = rows,
           NEW d \in Calls \ {c}
    PROVE  Own(d)'
  <1>1. Own(d)
    BY DEF AssignmentInvariant, Own
  <1>2. StepFitsRequest(d)'
    BY <1>1 DEF Own, StepOf, StepFitsRequest, Untouched
  <1>3. PlanFitsRequest(d)'
    BY <1>1 DEF Own, StepOf, PlanFitsRequest
  <1>4. ASSUME NEW k \in deact'[d] \cup victims'[d]
        PROVE  /\ k[1] = Nobody \/ pc'[k[1]] \in Ended
               /\ k \in deact'[d] => rows'[k].state # "absent"
               /\ req'[d].kind = "unassign" =>
                     /\ rows'[k].state = "absent" \/ rows'[k].rep = req'[d].rep
                     /\ k \in deact'[d] => rows'[k].state = "active"
    <2>1. k \in deact[d] \cup victims[d] /\ k \in RowIds
      BY DEF StepOf, AssignmentInvariant, TypeOK
    <2>2. k[1] = Nobody \/ pc[k[1]] \in Ended
      BY <1>1, <2>1 DEF Own, WorksOnCommittedRows
    <2>3. k[1] = Nobody \/ (k[1] \in Calls /\ k[1] # c)
      BY <2>1, <2>2 DEF StepOf, RowIds
    <2> QED
      BY <1>1, <2>1, <2>2, <2>3 DEF Own, WorksOnCommittedRows, StepOf
  <1>5. WorksOnCommittedRows(d)'
    BY <1>4 DEF WorksOnCommittedRows
  <1> QED
    BY <1>2, <1>3, <1>5 DEF Own

(* The committed rows still belong to calls that have ended. *)
LEMMA RowsOutliveSteps ==
    ASSUME AssignmentInvariant, NEW c \in Calls, StepOf(c), rows' = rows
    PROVE  RowsAreOfEndedCalls'
  <1> SUFFICES ASSUME NEW k \in RowIds, rows[k].state # "absent"
               PROVE  k[1] = Nobody \/ pc'[k[1]] \in Ended
    BY DEF RowsAreOfEndedCalls
  <1>1. k[1] = Nobody \/ (k[1] \in Calls /\ pc[k[1]] \in Ended)
    BY DEF AssignmentInvariant, RowsAreOfEndedCalls, RowIds
  <1> QED
    BY <1>1 DEF StepOf

(* A step that only reads and plans preserves the invariant if it does so  *)
(* for the call itself.                                                    *)
LEMMA PlanningStep ==
    ASSUME AssignmentInvariant, NEW c \in Calls, StepOf(c), TypeOK', Own(c)',
           UNCHANGED <<rows, present, deact, ins, mark>>,
           \A r \in Retailers : mark[c][r] # "gone"
    PROVE  AssignmentInvariant'
  <1>1. \A d \in Calls : Own(d)'
    BY OthersKeep
  <1>2. LocksExclusive' /\ InserterHoldsActiveRows' /\ OneActivePerRetailer'
    BY DEF AssignmentInvariant, LocksExclusive, InserterHoldsActiveRows,
           OneActivePerRetailer, ActiveRows
  <1>3. InsertsHaveTheirRetailer' /\ NoOrphanAssignment'
    BY DEF AssignmentInvariant, InsertsHaveTheirRetailer, NoOrphanAssignment
  <1>4. DeleteOwnsItsRetailer'
    BY DEF AssignmentInvariant, DeleteOwnsItsRetailer, StepOf
  <1> QED
    BY <1>1, <1>2, <1>3, <1>4, RowsOutliveSteps DEF AssignmentInvariant, Own

(* A call that is not yet at an update has written nothing. *)
LEMMA UntouchedWritesNothing ==
    ASSUME AssignmentInvariant, NEW c \in Calls, pc[c] # "write"
    PROVE  /\ \A r \in Retailers : mark[c][r] = "free"
           /\ pc[c] # "update" => Untouched(c)
  BY DEF AssignmentInvariant, StepFitsRequest, Untouched

(* Taking up a request. *)
LEMMA BeginKeeps ==
    ASSUME AssignmentInvariant, NEW c \in Calls, Begin(c)
    PROVE  AssignmentInvariant'
  <1>1. TypeOK'
    BY BeginType DEF AssignmentInvariant
  <1>2. PICK q \in Requests :
            /\ pc' = [pc EXCEPT ![c] = EntryPoint(q)]
            /\ req' = [req EXCEPT ![c] = IF EntryPoint(q) \in Ended THEN NoReq ELSE q]
    BY DEF Begin
  <1>3. TypeOK /\ pc[c] = "idle" /\ Untouched(c) /\ Own(c)
    BY UntouchedWritesNothing DEF AssignmentInvariant, Begin, Own
  <1>4. StepOf(c)
    BY <1>2, <1>3 DEF StepOf, Begin, held, local, TypeOK, Ended
  <1>5. UNCHANGED <<rows, present, deact, ins, mark, found, victims, targets, marks, seen>>
    BY DEF Begin, store, held, local
  <1>6. req[c] = NoReq /\ found[c] = {}
    BY <1>3 DEF Own, StepFitsRequest, PlanFitsRequest, NoReq, Running
  <1>7. pc'[c] = EntryPoint(q) /\ req'[c] = IF EntryPoint(q) \in Ended THEN NoReq ELSE q
    BY <1>2, <1>3 DEF TypeOK
  <1>8. \/ q.kind \in {"assign", "unassign"} /\ q.rep \in Reps \cup {NoRep}
        \/ q.kind \in {"edit", "delete"} /\ \E r \in Retailers : q.ids = {r}
    <2>1. CASE q \in [kind : Kinds \cap {"assign", "unassign"}, rep : Reps \cup {NoRep},
                      ids : SUBSET Retailers]
      BY <2>1
    <2>2. CASE q \in [kind : Kinds \cap {"edit", "delete"}, rep : {NoRep},
                      ids : {{r} : r \in Retailers}]
      BY <2>2
    <2> QED
      BY <1>2, <2>1, <2>2 DEF Requests
  <1>9. EntryPoint(q) \in {"entity", "retailers", "owned"} \cup Ended
    BY <1>8 DEF EntryPoint, Ended
  <1>10. StepFitsRequest(c)'
    <2>1. Untouched(c)'
      BY <1>3, <1>5 DEF Untouched
    <2>2. EntryPoint(q) \in Ended => EntryPoint(q) \notin Running /\ EntryPoint(q) \notin {"update", "write"}
      BY DEF Ended, Running
    <2> QED
      BY <1>7, <1>8, <1>9, <2>1, <2>2 DEF StepFitsRequest, EntryPoint, Running, Ended
  <1>11. PlanFitsRequest(c)' /\ WorksOnCommittedRows(c)'
    <2>1. deact'[c] \cup victims'[c] = {} /\ {k[2] : k \in deact'[c] \cup victims'[c]} = {}
      BY <1>3, <1>5 DEF Untouched
    <2>2. seen'[c] # "gone"
      BY <1>3, <1>5 DEF Own, PlanFitsRequest
    <2> QED
      BY <1>3, <1>5, <1>6, <2>1, <2>2 DEF PlanFitsRequest, WorksOnCommittedRows, Untouched
  <1> QED
    BY <1>1, <1>3, <1>4, <1>5, <1>10, <1>11, PlanningStep DEF Own, Untouched

(* assign: the retailers that exist are among those requested. *)
LEMMA ReadRetailersKeeps ==
    ASSUME AssignmentInvariant, NEW c \in Calls, ReadRetailers(c)
    PROVE  AssignmentInvariant'
  <1> USE DEF ReadRetailers, store, held
  <1>1. TypeOK /\ Own(c) /\ Untouched(c) /\ TypeOK'
    BY ReadType, UntouchedWritesNothing DEF AssignmentInvariant, Own
  <1>2. StepOf(c)
    BY <1>1 DEF StepOf, TypeOK, Ended
  <1>3. /\ req' = req /\ found'[c] = req[c].ids \cap present
        /\ pc'[c] \in {"write", "active"} /\ req[c].kind = "assign"
    BY <1>1 DEF TypeOK, Own, StepFitsRequest
  <1>4. deact'[c] \cup victims'[c] = {} /\ {k[2] : k \in deact'[c] \cup victims'[c]} = {}
    BY <1>1 DEF Untouched
  <1>5. StepFitsRequest(c)'
    BY <1>1, <1>3 DEF Own, StepFitsRequest, Untouched, Running
  <1>6. PlanFitsRequest(c)' /\ WorksOnCommittedRows(c)'
    BY <1>1, <1>3, <1>4 DEF Own, PlanFitsRequest, WorksOnCommittedRows, Untouched
  <1> QED
    BY <1>1, <1>2, <1>5, <1>6, PlanningStep DEF Own, Untouched

(* assign: what another representative has gets a new row too, and every   *)
(* row to deactivate is a committed one.                                   *)
LEMMA ReadActiveAssignmentsKeeps ==
    ASSUME AssignmentInvariant, NEW c \in Calls, ReadActiveAssignments(c)
    PROVE  AssignmentInvariant'
  <1> USE DEF ReadActiveAssignments, store, held
  <1>1. TypeOK /\ Own(c) /\ Untouched(c) /\ TypeOK'
    BY ReadType, UntouchedWritesNothing DEF AssignmentInvariant, Own
  <1>2. StepOf(c)
    BY <1>1 DEF StepOf, TypeOK, Ended
  <1>3. /\ req' = req /\ found' = found /\ pc'[c] = "write" /\ req[c].kind = "assign"
        /\ marks'[c] = found[c]
        /\ victims'[c] = {k \in RowIds : /\ k[2] \in found[c] /\ rows[k].state = "active"
                                         /\ rows[k].rep # req[c].rep}
        /\ targets'[c] = found[c] \ {k[2] : k \in OwnedRows(req[c].rep, found[c])}
    BY <1>1 DEF TypeOK, Own, StepFitsRequest
  <1>4. deact'[c] = {} /\ ins'[c] = {}
    BY <1>1 DEF Untouched
  <1>5. ASSUME NEW k \in deact'[c] \cup victims'[c]
        PROVE  /\ k[1] = Nobody \/ pc'[k[1]] \in Ended
               /\ k[2] \in req[c].ids /\ k[2] \in targets'[c]
    <2>1. /\ k \in RowIds /\ k[2] \in found[c] /\ k[2] \in Retailers
          /\ rows[k].state = "active" /\ rows[k].rep # req[c].rep
      BY <1>3, <1>4, <1>5 DEF RowIds
    <2>2. k[1] = Nobody \/ (k[1] \in Calls /\ pc[k[1]] \in Ended)
      BY <2>1 DEF AssignmentInvariant, RowsAreOfEndedCalls, RowIds
    <2>3. ASSUME NEW l \in OwnedRows(req[c].rep, found[c]), l[2] = k[2]
          PROVE  FALSE
      <3>1. l \in ActiveRows(k[2]) /\ k \in ActiveRows(k[2]) /\ rows[l].rep = req[c].rep
        BY <2>1, <2>3 DEF OwnedRows, ActiveRows
      <3> QED
        BY <2>1, <3>1 DEF AssignmentInvariant, OneActivePerRetailer
    <2>4. k[2] \in targets'[c]
      BY <1>3, <2>1, <2>3
    <2> QED
      BY <1>1, <1>2, <2>1, <2>2, <2>4 DEF StepOf, Own, PlanFitsRequest
  <1>6. StepFitsRequest(c)'
    BY <1>1, <1>3 DEF Own, StepFitsRequest, Untouched, Running
  <1>7. PlanFitsRequest(c)'
    <2>1. /\ found'[c] \cup targets'[c] \cup ins'[c] \cup marks'[c] \subseteq req'[c].ids
          /\ seen'[c] # "gone"
      BY <1>1, <1>3, <1>4 DEF Own, PlanFitsRequest
    <2>2. /\ {k[2] : k \in deact'[c] \cup victims'[c]} \subseteq req'[c].ids
          /\ {k[2] : k \in deact'[c] \cup victims'[c]} \subseteq targets'[c]
      <3>1. req'[c].ids = req[c].ids
        BY <1>3
      <3> QED
        BY <1>5, <3>1
    <2> QED
      BY <1>1, <1>3, <2>1, <2>2 DEF PlanFitsRequest, Untouched
  <1>8. WorksOnCommittedRows(c)'
    BY <1>3, <1>4, <1>5 DEF WorksOnCommittedRows
  <1> QED
    BY <1>1, <1>2, <1>6, <1>7, <1>8, PlanningStep DEF Own, Untouched

(* unassign: what is found is among what was requested. *)
LEMMA ReadOwnedKeeps ==
    ASSUME AssignmentInvariant, NEW c \in Calls, ReadOwned(c)
    PROVE  AssignmentInvariant'
  <1> USE DEF ReadOwned, store, held
  <1>1. TypeOK /\ Own(c) /\ Untouched(c) /\ TypeOK'
    BY ReadType, UntouchedWritesNothing DEF AssignmentInvariant, Own
  <1>2. StepOf(c)
    BY <1>1 DEF StepOf, TypeOK, Ended
  <1>3. /\ req' = req /\ found'[c] \subseteq req[c].ids
        /\ pc'[c] \in {"write", "snapshot"} /\ req[c].kind = "unassign"
    BY <1>1 DEF TypeOK, Own, StepFitsRequest, OwnedRows
  <1>4. deact'[c] \cup victims'[c] = {} /\ {k[2] : k \in deact'[c] \cup victims'[c]} = {}
    BY <1>1 DEF Untouched
  <1>5. StepFitsRequest(c)'
    BY <1>1, <1>3 DEF Own, StepFitsRequest, Untouched, Running
  <1>6. PlanFitsRequest(c)' /\ WorksOnCommittedRows(c)'
    BY <1>1, <1>3, <1>4 DEF Own, PlanFitsRequest, WorksOnCommittedRows, Untouched
  <1> QED
    BY <1>1, <1>2, <1>5, <1>6, PlanningStep DEF Own, Untouched

(* unassign: the rows to deactivate are committed rows of the              *)
(* representative.                                                         *)
LEMMA StartDeactivationKeeps ==
    ASSUME AssignmentInvariant, NEW c \in Calls, StartDeactivation(c)
    PROVE  AssignmentInvariant'
  <1> USE DEF StartDeactivation, store, held
  <1>1. TypeOK /\ Own(c) /\ Untouched(c) /\ TypeOK'
    BY ReadType, UntouchedWritesNothing DEF AssignmentInvariant, Own
  <1>2. StepOf(c)
    BY <1>1 DEF StepOf, TypeOK, Ended
  <1>3. /\ req' = req /\ found' = found /\ pc'[c] = "update" /\ req[c].kind = "unassign"
        /\ victims'[c] = OwnedRows(req[c].rep, found[c])
    BY <1>1 DEF TypeOK, Own, StepFitsRequest
  <1>4. deact'[c] = {} /\ ins'[c] = {}
    BY <1>1 DEF Untouched
  <1>5. ASSUME NEW k \in deact'[c] \cup victims'[c]
        PROVE  /\ k[1] = Nobody \/ pc'[k[1]] \in Ended
               /\ k[2] \in req[c].ids /\ rows[k].rep = req[c].rep
    <2>1. /\ k \in RowIds /\ k[2] \in found[c]
          /\ rows[k].state = "active" /\ rows[k].rep = req[c].rep
      BY <1>3, <1>4, <1>5 DEF OwnedRows
    <2>2. k[1] = Nobody \/ (k[1] \in Calls /\ pc[k[1]] \in Ended)
      BY <2>1 DEF AssignmentInvariant, RowsAreOfEndedCalls, RowIds
    <2> QED
      BY <1>1, <1>2, <2>1, <2>2 DEF StepOf, Own, PlanFitsRequest
  <1>6. StepFitsRequest(c)'
    BY <1>1, <1>3 DEF Own, StepFitsRequest, Untouched, Running
  <1>7. PlanFitsRequest(c)'
    BY <1>1, <1>3, <1>4, <1>5 DEF Own, PlanFitsRequest, Untouched
  <1>8. WorksOnCommittedRows(c)'
    BY <1>3, <1>4, <1>5 DEF WorksOnCommittedRows
  <1> QED
    BY <1>1, <1>2, <1>6, <1>7, <1>8, PlanningStep DEF Own, Untouched

(* unassign: the retailers to update are among those found. *)
LEMMA ReadStillAssignedKeeps ==
    ASSUME AssignmentInvariant, NEW c \in Calls, ReadStillAssigned(c)
    PROVE  AssignmentInvariant'
  <1> USE DEF ReadStillAssigned, store, held
  <1>1. TypeOK /\ Own(c) /\ TypeOK' /\ \A r \in Retailers : mark[c][r] = "free"
    BY ReadType, UntouchedWritesNothing DEF AssignmentInvariant, Own
  <1>2. StepOf(c)
    BY <1>1 DEF StepOf, TypeOK, Ended
  <1>3. /\ req' = req /\ marks'[c] \subseteq found[c]
        /\ pc'[c] = "write" /\ req[c].kind = "unassign"
    BY <1>1 DEF TypeOK, Own, StepFitsRequest
  <1>4. StepFitsRequest(c)'
    BY <1>1, <1>3 DEF Own, StepFitsRequest, Running
  <1>5. PlanFitsRequest(c)'
    BY <1>1, <1>3 DEF Own, PlanFitsRequest
  <1>6. WorksOnCommittedRows(c)'
    <2>1. \A k \in deact[c] \cup victims[c] : k[1] = Nobody \/ k[1] # c
      BY <1>1 DEF Own, WorksOnCommittedRows, Ended
    <2>2. \A k \in deact[c] \cup victims[c] : k[1] = Nobody \/ k[1] \in Calls
      BY <1>1 DEF TypeOK, RowIds
    <2> QED
      BY <1>1, <1>2, <1>3, <2>1, <2>2 DEF Own, WorksOnCommittedRows, StepOf
  <1> QED
    BY <1>1, <1>2, <1>4, <1>5, <1>6, PlanningStep DEF Own

(* edit and delete: what was loaded tells only what to write. *)
LEMMA EntityKeeps ==
    ASSUME AssignmentInvariant, NEW c \in Calls, NEW r \in Retailers,
           ReadToDelete(c, r) \/ ReadToEdit(c, r) \/ DiffEntity(c, r)
    PROVE  AssignmentInvariant'
  <1> USE DEF ReadToDelete, ReadToEdit, DiffEntity, ReadEntity, store, held
  <1>1. TypeOK /\ Own(c) /\ Untouched(c) /\ TypeOK'
    BY EntityType, UntouchedWritesNothing DEF AssignmentInvariant, Own
  <1>2. StepOf(c)
    BY <1>1 DEF StepOf, TypeOK, Ended
  <1>3. /\ UNCHANGED <<rows, present, deact, ins, mark, req, found, victims, targets>>
        /\ marks'[c] \subseteq req[c].ids /\ pc'[c] \in {"diff", "write"}
        /\ req[c].kind \in {"edit", "delete"} /\ (pc'[c] = "diff" => req[c].kind = "edit")
    BY <1>1 DEF TypeOK, Own, StepFitsRequest, Untouched
  <1>4. seen'[c] # "gone" /\ (pc'[c] = "diff" => marks'[c] = {})
    BY <1>1 DEF TypeOK, Own, StepFitsRequest, PlanFitsRequest, Untouched, Columns
  <1>5. deact'[c] \cup victims'[c] = {} /\ {k[2] : k \in deact'[c] \cup victims'[c]} = {}
    BY <1>1, <1>3 DEF Untouched
  <1>6. StepFitsRequest(c)'
    BY <1>1, <1>3, <1>4 DEF Own, StepFitsRequest, Untouched, Running
  <1>7. PlanFitsRequest(c)' /\ WorksOnCommittedRows(c)'
    BY <1>1, <1>3, <1>4, <1>5 DEF Own, PlanFitsRequest, WorksOnCommittedRows, Untouched
  <1> QED
    BY <1>1, <1>2, <1>3, <1>6, <1>7, PlanningStep DEF Own, Untouched

-----------------------------------------------------------------------------
(* Locking the next row: it was free, so nobody else has it; and a row     *)
(* that is gone meanwhile is let go of.                                    *)
LEMMA ClaimRowKeeps ==
    ASSUME AssignmentInvariant, NEW c \in Calls, NEW k \in RowIds, ClaimRow(c, k)
    PROVE  AssignmentInvariant'
  <1> USE DEF ClaimRow, store
  <1>1. TypeOK /\ Own(c) /\ TypeOK'
    BY ClaimRowType DEF AssignmentInvariant, Own
  <1>2. StepOf(c)
    BY <1>1 DEF StepOf, TypeOK, Ended
  <1>3. UNCHANGED <<rows, present, ins, mark, pc, req, found, targets, marks, seen>>
    OBVIOUS
  <1>4. /\ victims'[c] = victims[c] \ {k} /\ k \in victims[c]
        /\ deact'[c] = IF StillMatches(c, k) THEN deact[c] \cup {k} ELSE deact[c]
    BY <1>1 DEF TypeOK
  <1>5. \A d \in Calls \ {c} : k \notin deact[d] /\ deact'[d] = deact[d]
    BY <1>1 DEF RowBlockers, TypeOK
  <1>6. LocksExclusive' /\ InserterHoldsActiveRows' /\ OneActivePerRetailer'
    BY <1>3, <1>4, <1>5
    DEF AssignmentInvariant, LocksExclusive, InserterHoldsActiveRows, OneActivePerRetailer, ActiveRows
  <1>7. InsertsHaveTheirRetailer' /\ NoOrphanAssignment'
    BY <1>3 DEF AssignmentInvariant, InsertsHaveTheirRetailer, NoOrphanAssignment
  <1>8. DeleteOwnsItsRetailer'
    <2> SUFFICES ASSUME NEW d \in Calls, NEW r \in Retailers, mark[d][r] = "gone",
                        NEW l \in RowIds, l[2] = r, rows[l].state # "absent"
                 PROVE  l \in deact'[d] \cup victims'[d]
      BY <1>3 DEF AssignmentInvariant, DeleteOwnsItsRetailer
    <2>1. l \in deact[d] \cup victims[d]
      BY DEF AssignmentInvariant, DeleteOwnsItsRetailer
    <2>2. CASE d # c
      BY <1>2, <2>1, <2>2 DEF StepOf
    <2>3. CASE d = c
      <3>1. req[c].kind = "delete"
        BY <1>1, <2>3 DEF Own, PlanFitsRequest, MayWrite, TypeOK, Request, AllKinds
      <3> QED
        BY <1>4, <2>1, <2>3, <3>1 DEF StillMatches
    <2> QED
      BY <2>2, <2>3
  <1>9. deact'[c] \cup victims'[c] \subseteq deact[c] \cup victims[c]
    BY <1>4
  <1>10. StepFitsRequest(c)'
    BY <1>1, <1>3 DEF Own, StepFitsRequest
  <1>11. PlanFitsRequest(c)'
    <2> DEFINE Taken == {l[2] : l \in deact[c] \cup victims[c]}
    <2>1. Taken' \subseteq Taken
      BY <1>9
    <2> HIDE DEF Taken
    <2>2. /\ found[c] \cup targets[c] \cup ins[c] \cup marks[c] \cup Taken' \subseteq req[c].ids
          /\ req[c].kind = "assign" => Taken' \subseteq targets[c] \cup ins[c]
          /\ req[c].kind = "edit" => Taken' = {}
          /\ req[c].kind = "delete" => \A r \in Taken' : mark[c][r] = "gone"
      BY <1>1, <2>1 DEF Own, PlanFitsRequest, Taken
    <2> QED
      BY <1>1, <1>3, <2>2 DEF Own, PlanFitsRequest, Taken
  <1>12. WorksOnCommittedRows(c)'
    BY <1>1, <1>3, <1>4, <1>9 DEF Own, WorksOnCommittedRows, StillMatches
  <1>13. \A d \in Calls : Own(d)'
    BY <1>2, <1>3, <1>10, <1>11, <1>12, OthersKeep DEF Own
  <1> QED
    BY <1>1, <1>2, <1>3, <1>6, <1>7, <1>8, <1>13, RowsOutliveSteps DEF AssignmentInvariant, Own

(* An insert that the index and the foreign key let through: the retailer  *)
(* is there, nobody deletes it, and every active row of it is held.        *)
LEMMA InsertRowKeeps ==
    ASSUME AssignmentInvariant, NEW c \in Calls, NEW r \in Retailers, InsertRow(c, r)
    PROVE  AssignmentInvariant'
  <1> USE DEF InsertRow, InsertReady, store
  <1>1. TypeOK /\ Own(c) /\ TypeOK'
    BY InsertRowType DEF AssignmentInvariant, Own
  <1>2. StepOf(c)
    BY <1>1 DEF StepOf, TypeOK, Ended
  <1>3. UNCHANGED <<rows, present, deact, mark, pc, req, found, victims, marks, seen>>
    OBVIOUS
  <1>4. /\ ins'[c] = ins[c] \cup {r} /\ targets'[c] = targets[c] \ {r} /\ r \in targets[c]
        /\ r \in present /\ ActiveRows(r) \subseteq deact[c] /\ pc[c] = "write"
    BY <1>1 DEF TypeOK, Insertable
  <1>5. \A d \in Calls \ {c} : r \notin ins[d] /\ mark[d][r] # "gone" /\ ins'[d] = ins[d]
    BY <1>1 DEF InsertBlockers, TypeOK
  <1>6. req[c].kind = "assign"
    BY <1>1, <1>4 DEF Own, PlanFitsRequest
  <1>7. mark[c][r] # "gone"
    BY <1>1, <1>6 DEF Own, PlanFitsRequest, MayWrite
  <1>8. LocksExclusive' /\ InserterHoldsActiveRows' /\ OneActivePerRetailer'
    BY <1>3, <1>4, <1>5
    DEF AssignmentInvariant, LocksExclusive, InserterHoldsActiveRows, OneActivePerRetailer, ActiveRows
  <1>9. InsertsHaveTheirRetailer' /\ NoOrphanAssignment'
    BY <1>3, <1>4, <1>5 DEF AssignmentInvariant, InsertsHaveTheirRetailer, NoOrphanAssignment
  <1>10. DeleteOwnsItsRetailer'
    BY <1>3, <1>4, <1>5, <1>7 DEF AssignmentInvariant, DeleteOwnsItsRetailer
  <1>11. StepFitsRequest(c)'
    BY <1>1, <1>3, <1>4 DEF Own, StepFitsRequest
  <1>12. PlanFitsRequest(c)'
    BY <1>1, <1>3, <1>4, <1>6 DEF Own, PlanFitsRequest
  <1>13. WorksOnCommittedRows(c)'
    BY <1>1, <1>3 DEF Own, WorksOnCommittedRows
  <1>14. \A d \in Calls : Own(d)'
    BY <1>2, <1>3, <1>11, <1>12, <1>13, OthersKeep DEF Own
  <1> QED
    BY <1>1, <1>2, <1>3, <1>8, <1>9, <1>10, <1>14, RowsOutliveSteps DEF AssignmentInvariant, Own

(* Writing a retailer that nobody else has written; a delete takes its     *)
(* assignments along, and waits for whoever is inserting one.              *)
LEMMA MarkRetailerKeeps ==
    ASSUME AssignmentInvariant, NEW c \in Calls, NEW r \in Retailers, MarkRetailer(c, r)
    PROVE  AssignmentInvariant'
  <1> USE DEF MarkRetailer, MarkReady, store
  <1> DEFINE hit == r \in present \/ Writes(c) \in Born
  <1>1. TypeOK /\ Own(c) /\ TypeOK'
    BY MarkRetailerType DEF AssignmentInvariant, Own
  <1>2. StepOf(c)
    BY <1>1 DEF StepOf, TypeOK, Ended
  <1>3. UNCHANGED <<rows, present, deact, ins, pc, req, found, targets, seen>>
    OBVIOUS
  <1>4. /\ r \in marks[c] /\ marks'[c] \subseteq marks[c] /\ pc[c] = "write"
        /\ victims[c] = {} /\ targets[c] = {}
        /\ \A s \in Retailers : mark'[c][s] = IF s = r /\ hit THEN Writes(c) ELSE mark[c][s]
        /\ victims'[c] = IF hit /\ Writes(c) = "gone"
                         THEN {k \in RowIds : k[2] = r /\ rows[k].state # "absent"} ELSE {}
    BY <1>1 DEF TypeOK
  <1>5. /\ \A d \in Calls \ {c} : mark[d][r] = "free" /\ mark'[d] = mark[d]
        /\ req[c].kind = "delete" => \A d \in Calls \ {c} : r \notin ins[d]
    BY <1>1 DEF MarkBlockers, TypeOK
  <1>6. r \in req[c].ids /\ req[c].kind \in AllKinds
    BY <1>1, <1>4 DEF Own, PlanFitsRequest, StepFitsRequest, AllKinds, Running
  <1>7. /\ Writes(c) = "gone" <=> req[c].kind = "delete"
        /\ Writes(c) \in MayWrite(req[c].kind)
    BY <1>1, <1>6 DEF Own, PlanFitsRequest, Writes, MayWrite, AllKinds, TypeOK
  <1>8. hit /\ Writes(c) = "gone" => r \in present /\ ins[c] = {}
    BY <1>1, <1>7 DEF Own, PlanFitsRequest, Born
  <1> HIDE DEF hit
  <1>9. LocksExclusive'
    BY <1>3, <1>4, <1>5 DEF AssignmentInvariant, LocksExclusive
  <1>10. InserterHoldsActiveRows' /\ OneActivePerRetailer'
    BY <1>3 DEF AssignmentInvariant, InserterHoldsActiveRows, OneActivePerRetailer, ActiveRows
  <1>11. InsertsHaveTheirRetailer' /\ NoOrphanAssignment'
    BY <1>3 DEF AssignmentInvariant, InsertsHaveTheirRetailer, NoOrphanAssignment
  <1>12. DeleteOwnsItsRetailer'
    <2> SUFFICES ASSUME NEW d \in Calls, NEW s \in Retailers, mark'[d][s] = "gone"
                 PROVE  /\ s \in present'
                        /\ \A e \in Calls : s \notin ins'[e]
                        /\ \A k \in RowIds : k[2] = s /\ rows'[k].state # "absent" =>
                              k \in deact'[d] \cup victims'[d]
      BY DEF DeleteOwnsItsRetailer
    <2>1. CASE d = c /\ s = r /\ hit
      <3>1. Writes(c) = "gone"
        BY <1>4, <2>1
      <3> QED
        BY <1>3, <1>4, <1>5, <1>7, <1>8, <2>1, <3>1
    <2>2. CASE ~(d = c /\ s = r /\ hit)
      <3>1. mark[d][s] = "gone"
        BY <1>4, <1>5, <2>2
      <3>2. victims[d] \subseteq victims'[d]
        BY <1>2, <1>4 DEF StepOf
      <3> QED
        BY <1>3, <3>1, <3>2 DEF AssignmentInvariant, DeleteOwnsItsRetailer
    <2> QED
      BY <2>1, <2>2
  <1>13. StepFitsRequest(c)'
    BY <1>1, <1>3, <1>4 DEF Own, StepFitsRequest
  <1>14. PlanFitsRequest(c)'
    <2> DEFINE Taken == {k[2] : k \in deact[c] \cup victims[c]}
    <2>1. Taken' \subseteq Taken \cup (IF hit /\ Writes(c) = "gone" THEN {r} ELSE {})
      <3>1. ASSUME NEW k \in deact'[c] \cup victims'[c]
            PROVE  k \in deact[c] \/ (hit /\ Writes(c) = "gone" /\ k[2] = r)
        <4>1. CASE hit /\ Writes(c) = "gone"
          BY <1>3, <1>4, <3>1, <4>1
        <4>2. CASE ~(hit /\ Writes(c) = "gone")
          BY <1>3, <1>4, <3>1, <4>2
        <4> QED
          BY <4>1, <4>2
      <3> QED
        BY <3>1
    <2>2. /\ found[c] \cup targets[c] \cup ins[c] \cup marks[c] \cup Taken \subseteq req[c].ids
          /\ req[c].kind = "assign" => Taken \subseteq targets[c] \cup ins[c]
          /\ req[c].kind = "edit" => Taken = {}
          /\ req[c].kind = "delete" => \A s \in Taken : mark[c][s] = "gone"
      BY <1>1 DEF Own, PlanFitsRequest
    <2> HIDE DEF Taken
    <2>3. /\ found'[c] \cup targets'[c] \cup ins'[c] \cup marks'[c] \cup Taken' \subseteq req'[c].ids
          /\ req'[c].kind = "assign" => Taken' \subseteq targets'[c] \cup ins'[c]
          /\ req'[c].kind = "edit" => Taken' = {}
      BY <1>3, <1>4, <1>6, <1>7, <2>1, <2>2
    <2>4. req'[c].kind = "delete" => \A s \in Taken' : mark'[c][s] = "gone"
      <3>1. req[c].ids \subseteq Retailers
        BY <1>1 DEF TypeOK, Request
      <3> QED
        BY <1>3, <1>4, <1>7, <2>1, <2>2, <3>1
    <2>5. \A s \in Retailers : mark'[c][s] # "free" =>
             s \in req'[c].ids /\ mark'[c][s] \in MayWrite(req'[c].kind)
      BY <1>1, <1>3, <1>4, <1>6, <1>7 DEF Own, PlanFitsRequest
    <2> QED
      BY <1>1, <1>3, <2>3, <2>4, <2>5 DEF Own, PlanFitsRequest, Taken
  <1>15. WorksOnCommittedRows(c)'
    <2> SUFFICES ASSUME NEW k \in deact'[c] \cup victims'[c]
                 PROVE  /\ k[1] = Nobody \/ pc[k[1]] \in Ended
                        /\ k \in deact[c] => rows[k].state # "absent"
                        /\ req[c].kind = "unassign" =>
                              /\ rows[k].state = "absent" \/ rows[k].rep = req[c].rep
                              /\ k \in deact[c] => rows[k].state = "active"
      BY <1>3 DEF WorksOnCommittedRows
    <2>1. CASE k \in deact[c]
      BY <1>1, <2>1 DEF Own, WorksOnCommittedRows
    <2>2. CASE k \notin deact[c]
      <3>1. k \in RowIds /\ rows[k].state # "absent" /\ req[c].kind = "delete"
        BY <1>3, <1>4, <1>7, <2>2
      <3> QED
        BY <2>2, <3>1 DEF AssignmentInvariant, RowsAreOfEndedCalls
    <2> QED
      BY <2>1, <2>2
  <1>16. \A d \in Calls : Own(d)'
    BY <1>2, <1>3, <1>13, <1>14, <1>15, OthersKeep DEF Own
  <1> QED
    BY <1>1, <1>2, <1>3, <1>9, <1>10, <1>11, <1>12, <1>16, RowsOutliveSteps
    DEF AssignmentInvariant, Own

(* The end of a transaction lets go of everything the call held. *)
LEMMA ReleaseEnds ==
    ASSUME AssignmentInvariant, NEW c \in Calls, NEW outcome \in Ended, Release(c, outcome),
           pc[c] \in Running
    PROVE  /\ StepOf(c) /\ Untouched(c)' /\ pc'[c] = outcome /\ req'[c] = NoReq
           /\ Own(c)'
  <1>1. TypeOK
    BY DEF AssignmentInvariant
  <1>2. StepOf(c)
    BY <1>1 DEF StepOf, Release, TypeOK, Running, Ended
  <1>3. /\ Untouched(c)' /\ pc'[c] = outcome /\ req'[c] = NoReq
        /\ found'[c] = {} /\ seen'[c] = "free"
    BY <1>1 DEF Release, TypeOK, Untouched
  <1>4. deact'[c] \cup victims'[c] = {} /\ {k[2] : k \in deact'[c] \cup victims'[c]} = {}
    BY <1>3 DEF Untouched
  <1>5. StepFitsRequest(c)'
    BY <1>3 DEF StepFitsRequest, Running, Ended
  <1>6. PlanFitsRequest(c)' /\ WorksOnCommittedRows(c)'
    BY <1>3, <1>4 DEF PlanFitsRequest, WorksOnCommittedRows, Untouched, NoReq
  <1> QED
    BY <1>2, <1>3, <1>5, <1>6 DEF Own

(* A rollback changes no row and gives everything up. *)
LEMMA RollbackKeeps ==
    ASSUME AssignmentInvariant, NEW c \in Calls, Rollback(c), pc[c] \in Running
    PROVE  AssignmentInvariant'
  <1>1. TypeOK /\ TypeOK' /\ rows' = rows /\ present' = present
    BY RollbackType DEF AssignmentInvariant, Rollback, store
  <1>2. /\ StepOf(c) /\ Own(c)'
        /\ deact'[c] = {} /\ ins'[c] = {} /\ \A r \in Retailers : mark'[c][r] = "free"
    BY ReleaseEnds DEF Rollback, Ended, Untouched
  <1>3. /\ \A d \in Calls : deact'[d] \subseteq deact[d] /\ ins'[d] \subseteq ins[d]
        /\ \A d \in Calls, r \in Retailers : mark'[d][r] \in {mark[d][r], "free"}
    BY <1>2 DEF StepOf
  <1>4. LocksExclusive'
    BY <1>3 DEF AssignmentInvariant, LocksExclusive
  <1>5. InserterHoldsActiveRows' /\ OneActivePerRetailer'
    BY <1>1, <1>2
    DEF AssignmentInvariant, InserterHoldsActiveRows, OneActivePerRetailer, ActiveRows, StepOf
  <1>6. InsertsHaveTheirRetailer' /\ NoOrphanAssignment'
    BY <1>1, <1>3 DEF AssignmentInvariant, InsertsHaveTheirRetailer, NoOrphanAssignment
  <1>7. DeleteOwnsItsRetailer'
    BY <1>1, <1>2, <1>3 DEF AssignmentInvariant, DeleteOwnsItsRetailer, StepOf
  <1>8. \A d \in Calls : Own(d)'
    BY <1>1, <1>2, OthersKeep
  <1> QED
    BY <1>1, <1>2, <1>4, <1>5, <1>6, <1>7, <1>8, RowsOutliveSteps DEF AssignmentInvariant, Own

-----------------------------------------------------------------------------
(* What a commit does to a row: it deletes the rows of the retailer it     *)
(* deletes, closes the rows it holds, adds the rows it has inserted, and   *)
(* leaves every other row.                                                 *)
LEMMA CommitRows ==
    ASSUME AssignmentInvariant, NEW c \in Calls, Commit(c), NEW k \in RowIds
    PROVE  \/ mark[c][k[2]] = "gone" /\ rows'[k] = NoRow
           \/ /\ mark[c][k[2]] # "gone" /\ k \in deact[c]
              /\ rows[k].state # "absent"
              /\ rows'[k].state = "inactive" /\ rows'[k].rep = rows[k].rep
           \/ /\ mark[c][k[2]] # "gone" /\ k \notin deact[c]
              /\ k[1] = c /\ k[2] \in ins[c] /\ rows[k].state = "absent"
              /\ rows'[k].state = "active" /\ rows'[k].rep = req[c].rep
           \/ /\ mark[c][k[2]] # "gone" /\ k \notin deact[c]
              /\ ~(k[1] = c /\ k[2] \in ins[c]) /\ rows'[k] = rows[k]
  <1>1. rows'[k] = CommittedRow(c, k) /\ rows[k] \in Row
    BY DEF Commit, AssignmentInvariant, TypeOK
  <1>2. CASE mark[c][k[2]] = "gone"
    BY <1>1, <1>2 DEF CommittedRow
  <1>3. CASE mark[c][k[2]] # "gone" /\ k \in deact[c]
    <2>1. rows[k].state # "absent"
      BY <1>3 DEF AssignmentInvariant, WorksOnCommittedRows
    <2> QED
      BY <1>1, <1>3, <2>1 DEF CommittedRow, Row
  <1>4. CASE mark[c][k[2]] # "gone" /\ k \notin deact[c] /\ k[1] = c /\ k[2] \in ins[c]
    <2>1. rows[k].state = "absent"
      BY <1>4, CallsAssumption DEF AssignmentInvariant, RowsAreOfEndedCalls, Commit, Ended
    <2> QED
      BY <1>1, <1>4, <2>1 DEF CommittedRow
  <1>5. CASE mark[c][k[2]] # "gone" /\ k \notin deact[c] /\ ~(k[1] = c /\ k[2] \in ins[c])
    BY <1>1, <1>5 DEF CommittedRow
  <1> QED
    BY <1>2, <1>3, <1>4, <1>5

(* What a commit does to the retailers. *)
LEMMA CommitRetailers ==
    ASSUME AssignmentInvariant, NEW c \in Calls, Commit(c), NEW r \in Retailers
    PROVE  r \in present' <=> mark[c][r] \in Born \/ (r \in present /\ mark[c][r] # "gone")
  BY DEF Commit

(* A commit does not pull the rows out from under another call: those it   *)
(* deletes or closes are its own, and nobody can be at a row it adds.      *)
LEMMA CommitLeavesOthers ==
    ASSUME AssignmentInvariant, NEW c \in Calls, Commit(c), NEW d \in Calls \ {c}
    PROVE  Own(d)'
  <1>1. Own(d) /\ Own(c) /\ TypeOK /\ pc[c] = "write" /\ victims[c] = {}
    BY DEF AssignmentInvariant, Own, Commit
  <1>2. StepOf(c) /\ pc'[c] = "done"
    BY <1>1, ReleaseEnds DEF Commit, Running, Ended
  <1>3. StepFitsRequest(d)' /\ PlanFitsRequest(d)'
    <2>1. StepFitsRequest(d)'
      BY <1>1, <1>2 DEF Own, StepOf, StepFitsRequest, Untouched
    <2>2. PlanFitsRequest(d)'
      BY <1>1, <1>2 DEF Own, StepOf, PlanFitsRequest
    <2> QED
      BY <2>1, <2>2
  <1>4. ASSUME NEW k \in deact'[d] \cup victims'[d]
        PROVE  /\ k[1] = Nobody \/ pc'[k[1]] \in Ended
               /\ k \in deact'[d] => rows'[k].state # "absent"
               /\ req'[d].kind = "unassign" =>
                     /\ rows'[k].state = "absent" \/ rows'[k].rep = req'[d].rep
                     /\ k \in deact'[d] => rows'[k].state = "active"
    <2>1. k \in deact[d] \cup victims[d] /\ k \in RowIds /\ k[2] \in Retailers
      BY <1>1, <1>2 DEF StepOf, TypeOK, RowIds
    <2>2. k[1] = Nobody \/ (k[1] \in Calls /\ k[1] # c /\ pc[k[1]] \in Ended)
      BY <1>1, <2>1 DEF Own, WorksOnCommittedRows, RowIds, Ended
    <2>3. k[1] # c
      BY <2>2, CallsAssumption
    <2>4. k \in deact[d] => k \notin deact[c] /\ mark[c][k[2]] # "gone"
      <3>1. k \in deact[d] => k \notin deact[c] /\ rows[k].state # "absent"
        BY <1>1 DEF AssignmentInvariant, LocksExclusive, Own, WorksOnCommittedRows
      <3> QED
        BY <1>1, <2>1, <3>1 DEF AssignmentInvariant, DeleteOwnsItsRetailer
    <2>5. /\ k \in deact[d] => rows'[k] = rows[k]
          /\ rows'[k].state = "absent" \/ rows'[k].rep = rows[k].rep
          /\ rows[k].state = "absent" => rows'[k].state = "absent"
      BY <2>1, <2>3, <2>4, CommitRows DEF NoRow
    <2>6. req'[d] = req[d] /\ deact'[d] = deact[d]
      BY <1>2 DEF StepOf
    <2>7. k[1] = Nobody \/ pc'[k[1]] \in Ended
      BY <1>2, <2>2 DEF StepOf
    <2> QED
      BY <1>1, <2>1, <2>5, <2>6, <2>7 DEF Own, WorksOnCommittedRows
  <1>5. WorksOnCommittedRows(d)'
    BY <1>4 DEF WorksOnCommittedRows
  <1> QED
    BY <1>3, <1>5 DEF Own

(* After a commit the active rows of a retailer are old ones the call did  *)
(* not hold, or the one row it inserted, which replaces all others.        *)
LEMMA CommitKeeps ==
    ASSUME AssignmentInvariant, NEW c \in Calls, Commit(c)
    PROVE  AssignmentInvariant'
  <1>1. TypeOK /\ TypeOK' /\ pc[c] = "write" /\ victims[c] = {}
    BY CommitType DEF AssignmentInvariant, Commit
  <1>2. /\ StepOf(c) /\ Own(c)' /\ pc'[c] = "done"
        /\ deact'[c] = {} /\ ins'[c] = {} /\ \A r \in Retailers : mark'[c][r] = "free"
    BY <1>1, ReleaseEnds DEF Commit, Ended, Untouched, Running
  <1>3. /\ \A d \in Calls : deact'[d] \subseteq deact[d] /\ ins'[d] \subseteq ins[d]
        /\ \A d \in Calls, r \in Retailers : mark'[d][r] \in {mark[d][r], "free"}
    BY <1>2 DEF StepOf
  <1>4. LocksExclusive'
    BY <1>3 DEF AssignmentInvariant, LocksExclusive
  <1>5. ASSUME NEW r \in Retailers, NEW k \in ActiveRows(r)'
        PROVE  /\ k \in RowIds /\ k[2] = r
               /\ \/ k \in ActiveRows(r) /\ k \notin deact[c]
                  \/ k = <<c, r>> /\ r \in ins[c]
    <2>1. k \in RowIds /\ k[2] = r /\ rows'[k].state = "active"
      BY DEF ActiveRows
    <2>2. \/ k \notin deact[c] /\ rows'[k] = rows[k]
          \/ k[1] = c /\ k[2] \in ins[c]
      BY <2>1, CommitRows DEF NoRow
    <2> QED
      BY <2>1, <2>2 DEF ActiveRows, RowIds
  <1>6. InserterHoldsActiveRows'
    <2> SUFFICES ASSUME NEW d \in Calls, NEW r \in ins'[d], NEW k \in ActiveRows(r)'
                 PROVE  k \in deact'[d]
      BY DEF InserterHoldsActiveRows
    <2>1. d # c /\ r \in ins[d] /\ deact'[d] = deact[d] /\ r \in Retailers
      BY <1>1, <1>2 DEF StepOf, TypeOK
    <2>2. r \notin ins[c]
      BY <2>1 DEF AssignmentInvariant, LocksExclusive
    <2>3. k \in ActiveRows(r)
      BY <1>5, <2>1, <2>2
    <2> QED
      BY <2>1, <2>3 DEF AssignmentInvariant, InserterHoldsActiveRows
  <1>7. OneActivePerRetailer'
    <2> SUFFICES ASSUME NEW r \in Retailers,
                        NEW k \in ActiveRows(r)', NEW l \in ActiveRows(r)'
                 PROVE  k = l
      BY DEF OneActivePerRetailer
    <2>1. CASE r \in ins[c]
      <3>1. ActiveRows(r) \subseteq deact[c]
        BY <2>1 DEF AssignmentInvariant, InserterHoldsActiveRows
      <3> QED
        BY <1>5, <3>1
    <2>2. CASE r \notin ins[c]
      <3>1. k \in ActiveRows(r) /\ l \in ActiveRows(r)
        BY <1>5, <2>2
      <3> QED
        BY <3>1 DEF AssignmentInvariant, OneActivePerRetailer
    <2> QED
      BY <2>1, <2>2
  <1>8. InsertsHaveTheirRetailer'
    <2> SUFFICES ASSUME NEW d \in Calls, NEW r \in ins'[d]
                 PROVE  r \in present'
      BY DEF InsertsHaveTheirRetailer
    <2>1. r \in ins[d] /\ r \in Retailers
      BY <1>1, <1>3 DEF TypeOK
    <2>2. r \in present /\ mark[c][r] # "gone"
      BY <2>1 DEF AssignmentInvariant, InsertsHaveTheirRetailer, DeleteOwnsItsRetailer
    <2> QED
      BY <2>1, <2>2, CommitRetailers
  <1>9. NoOrphanAssignment'
    <2> SUFFICES ASSUME NEW k \in RowIds, rows'[k].state # "absent"
                 PROVE  k[2] \in present'
      BY DEF NoOrphanAssignment
    <2>1. /\ mark[c][k[2]] # "gone" /\ k[2] \in Retailers
          /\ rows[k].state # "absent" \/ k[2] \in ins[c]
      BY CommitRows DEF NoRow, RowIds
    <2>2. k[2] \in present
      BY <2>1 DEF AssignmentInvariant, NoOrphanAssignment, InsertsHaveTheirRetailer
    <2> QED
      BY <2>1, <2>2, CommitRetailers
  <1>10. DeleteOwnsItsRetailer'
    <2> SUFFICES ASSUME NEW d \in Calls, NEW r \in Retailers, mark'[d][r] = "gone"
                 PROVE  /\ r \in present'
                        /\ \A e \in Calls : r \notin ins'[e]
                        /\ \A k \in RowIds : k[2] = r /\ rows'[k].state # "absent" =>
                              k \in deact'[d] \cup victims'[d]
      BY DEF DeleteOwnsItsRetailer
    <2>1. d # c /\ mark[d][r] = "gone" /\ deact'[d] = deact[d] /\ victims'[d] = victims[d]
      BY <1>2 DEF StepOf
    <2>2. mark[c][r] = "free" /\ r \in present /\ r \notin ins[c]
      BY <2>1 DEF AssignmentInvariant, LocksExclusive, DeleteOwnsItsRetailer
    <2>3. r \in present'
      BY <2>2, CommitRetailers
    <2>4. \A e \in Calls : r \notin ins'[e]
      BY <1>3, <2>1 DEF AssignmentInvariant, DeleteOwnsItsRetailer
    <2>5. ASSUME NEW k \in RowIds, k[2] = r, rows'[k].state # "absent"
          PROVE  k \in deact'[d] \cup victims'[d]
      <3>1. rows[k].state # "absent"
        BY <2>2, <2>5, CommitRows DEF NoRow
      <3> QED
        BY <2>1, <2>5, <3>1 DEF AssignmentInvariant, DeleteOwnsItsRetailer
    <2> QED
      BY <2>3, <2>4, <2>5
  <1>11. RowsAreOfEndedCalls'
    <2> SUFFICES ASSUME NEW k \in RowIds, rows'[k].state # "absent"
                 PROVE  k[1] = Nobody \/ pc'[k[1]] \in Ended
      BY DEF RowsAreOfEndedCalls
    <2>1. rows[k].state # "absent" \/ k[1] = c
      BY CommitRows DEF NoRow
    <2>2. k[1] = Nobody \/ k[1] = c \/ (k[1] \in Calls \ {c} /\ pc[k[1]] \in Ended)
      BY <2>1 DEF AssignmentInvariant, RowsAreOfEndedCalls, RowIds
    <2> QED
      BY <1>2, <2>2 DEF StepOf, Ended
  <1>12. \A d \in Calls : Own(d)'
    BY <1>2, CommitLeavesOthers
  <1> QED
    BY <1>1, <1>4, <1>6, <1>7, <1>8, <1>9, <1>10, <1>11, <1>12 DEF AssignmentInvariant, Own

-----------------------------------------------------------------------------
(* Every step preserves the invariant. *)
LEMMA InvariantStep ==
    ASSUME AssignmentInvariant, [Next]_vars
    PROVE  AssignmentInvariant'
  <1>1. CASE UNCHANGED vars
    <2>1. TypeOK'
      BY <1>1, StepType DEF AssignmentInvariant
    <2>2. LocksExclusive' /\ InserterHoldsActiveRows' /\ OneActivePerRetailer'
      BY <1>1 DEF vars, store, held, AssignmentInvariant, LocksExclusive,
                  InserterHoldsActiveRows, OneActivePerRetailer, ActiveRows
    <2>3. /\ InsertsHaveTheirRetailer' /\ DeleteOwnsItsRetailer'
          /\ NoOrphanAssignment' /\ RowsAreOfEndedCalls'
      BY <1>1 DEF vars, store, held, local, AssignmentInvariant, InsertsHaveTheirRetailer,
                  DeleteOwnsItsRetailer, NoOrphanAssignment, RowsAreOfEndedCalls
    <2>4. \A c \in Calls : StepFitsRequest(c)'
      BY <1>1 DEF vars, store, held, local, AssignmentInvariant, StepFitsRequest, Untouched
    <2>5. \A c \in Calls : PlanFitsRequest(c)'
      BY <1>1 DEF vars, store, held, local, AssignmentInvariant, PlanFitsRequest
    <2>6. \A c \in Calls : WorksOnCommittedRows(c)'
      BY <1>1 DEF vars, store, held, local, AssignmentInvariant, WorksOnCommittedRows
    <2> QED
      BY <2>1, <2>2, <2>3, <2>4, <2>5, <2>6 DEF AssignmentInvariant
  <1>2. ASSUME NEW c \in Calls, Begin(c) \/ Statement(c) \/ Fault(c)
        PROVE  AssignmentInvariant'
    <2>1. CASE Begin(c)
      BY <2>1, BeginKeeps
    <2>2. CASE ReadRetailers(c) \/ ReadActiveAssignments(c) \/ ReadOwned(c)
                 \/ StartDeactivation(c) \/ ReadStillAssigned(c)
      BY <2>2, ReadRetailersKeeps, ReadActiveAssignmentsKeeps, ReadOwnedKeeps,
         StartDeactivationKeeps, ReadStillAssignedKeeps
    <2>3. ASSUME NEW k \in RowIds, ClaimRow(c, k)
          PROVE  AssignmentInvariant'
      BY <2>3, ClaimRowKeeps
    <2>4. ASSUME NEW r \in Retailers,
                 \/ InsertRow(c, r) \/ ReadToDelete(c, r) \/ ReadToEdit(c, r)
                 \/ DiffEntity(c, r) \/ MarkRetailer(c, r)
          PROVE  AssignmentInvariant'
      BY <2>4, InsertRowKeeps, EntityKeeps, MarkRetailerKeeps
    <2>5. ASSUME NEW r \in Retailers,
                 RejectInsert(c, r) \/ EntityMissing(c, r) \/ RejectMark(c, r)
          PROVE  AssignmentInvariant'
      BY <2>5, RollbackKeeps
         DEF RejectInsert, InsertReady, EntityMissing, ReadEntity, RejectMark, MarkReady, Running
    <2>6. CASE Commit(c)
      BY <2>6, CommitKeeps
    <2>7. CASE DeadlockVictim(c) \/ Fault(c)
      BY <2>7, RollbackKeeps DEF DeadlockVictim, Fault
    <2> QED
      BY <1>2, <2>1, <2>2, <2>3, <2>4, <2>5, <2>6, <2>7 DEF Statement
  <1> QED
    BY <1>1, <1>2 DEF Next

(* It holds at the start: no locks, one seed row per assigned retailer,    *)
(* and no call that has begun.                                             *)
LEMMA InvariantInitially ==
    ASSUME Init
    PROVE  AssignmentInvariant
  <1>1. TypeOK
    BY InitType
  <1>2. \A k \in RowIds : rows[k].state # "absent" => k[1] = Nobody /\ k[2] \in present
    BY DEF Init, NoRow
  <1>3. OneActivePerRetailer
    BY <1>2 DEF OneActivePerRetailer, ActiveRows, RowIds
  <1>4. NoOrphanAssignment /\ RowsAreOfEndedCalls
    BY <1>2 DEF NoOrphanAssignment, RowsAreOfEndedCalls
  <1>5. LocksExclusive /\ InserterHoldsActiveRows
    BY DEF Init, LocksExclusive, InserterHoldsActiveRows
  <1>6. InsertsHaveTheirRetailer /\ DeleteOwnsItsRetailer
    BY DEF Init, InsertsHaveTheirRetailer, DeleteOwnsItsRetailer
  <1>7. ASSUME NEW c \in Calls
        PROVE  StepFitsRequest(c) /\ PlanFitsRequest(c) /\ WorksOnCommittedRows(c)
    <2>1. Untouched(c) /\ pc[c] = "idle" /\ req[c] = NoReq /\ found[c] = {} /\ seen[c] = "free"
      BY DEF Init, Untouched
    <2>2. deact[c] \cup victims[c] = {} /\ {k[2] : k \in deact[c] \cup victims[c]} = {}
      BY <2>1 DEF Untouched
    <2> QED
      BY <2>1, <2>2
      DEF StepFitsRequest, PlanFitsRequest, WorksOnCommittedRows, Untouched, NoReq, Running
  <1> QED
    BY <1>1, <1>3, <1>4, <1>5, <1>6, <1>7 DEF AssignmentInvariant

(* The invariant that run assign_concurrent checks holds for any number of *)
(* retailers, representatives and concurrent calls.                        *)
THEOREM InvariantHolds == Spec => []AssignmentInvariant
  BY InvariantInitially, InvariantStep, PTL DEF Spec

(* A retailer never has two active assignments: what                       *)
(* UQ_ACTIVE_RETAILER_ASSIGNMENT is for, as far as the calls can see.      *)
THEOREM OneActiveAssignment == Spec => []OneActivePerRetailer
  <1>1. AssignmentInvariant => OneActivePerRetailer
    BY DEF AssignmentInvariant
  <1> QED
    BY <1>1, InvariantHolds, PTL

(* An assignment never outlives its retailer, whichever of the insert of   *)
(* assignRetailersToSalesRep and the delete of deleteRetailer comes first. *)
THEOREM NoAssignmentIsOrphaned == Spec => []NoOrphanAssignment
  <1>1. AssignmentInvariant => NoOrphanAssignment
    BY DEF AssignmentInvariant
  <1> QED
    BY <1>1, InvariantHolds, PTL

-----------------------------------------------------------------------------
(* Who owns a retailer, as AssignmentRegister sees it. *)

(* A retailer that is there belongs to the representative of its active    *)
(* row, if it has one.                                                     *)
LEMMA OwnerOfPresent ==
    \A r \in Retailers : OneActivePerRetailer /\ r \in present =>
        /\ ActiveRows(r) = {} => Owner(r) = NoRep
        /\ \A k \in ActiveRows(r) : Owner(r) = rows[k].rep
  <1> SUFFICES ASSUME OneActivePerRetailer, NEW r \in Retailers, r \in present
               PROVE  /\ ActiveRows(r) = {} => Owner(r) = NoRep
                      /\ \A k \in ActiveRows(r) : Owner(r) = rows[k].rep
    OBVIOUS
  <1>1. ASSUME NEW k \in ActiveRows(r)
        PROVE  Owner(r) = rows[k].rep
    <2>1. (CHOOSE l \in ActiveRows(r) : TRUE) \in ActiveRows(r)
      OBVIOUS
    <2>2. (CHOOSE l \in ActiveRows(r) : TRUE) = k
      BY <2>1 DEF OneActivePerRetailer
    <2> QED
      BY <2>2 DEF Owner
  <1> QED
    BY <1>1 DEF Owner

(* The same of the next state. *)
LEMMA OwnerOfPresentNext ==
    (\A r \in Retailers : OneActivePerRetailer /\ r \in present =>
        /\ ActiveRows(r) = {} => Owner(r) = NoRep
        /\ \A k \in ActiveRows(r) : Owner(r) = rows[k].rep)'
  BY OwnerOfPresent, PTL

(* The owner is a representative, nobody, or gone. *)
LEMMA OwnerType ==
    ASSUME AssignmentInvariant, NEW r \in Retailers
    PROVE  /\ r \notin present => Owner(r) = Gone
           /\ r \in present => Owner(r) \in Reps \cup {NoRep} /\ Owner(r) # Gone
  <1>1. CASE r \notin present
    BY <1>1 DEF Owner
  <1>2. CASE r \in present /\ ActiveRows(r) = {}
    BY <1>2, RepsAssumption DEF Owner
  <1>3. CASE r \in present /\ ActiveRows(r) # {}
    <2>1. PICK k \in ActiveRows(r) : Owner(r) = rows[k].rep
      BY <1>3, OwnerOfPresent DEF AssignmentInvariant
    <2>2. rows[k].rep \in Reps \cup {NoRep}
      BY DEF ActiveRows, AssignmentInvariant, TypeOK, Row
    <2> QED
      BY <1>3, <2>1, <2>2, RepsAssumption
  <1> QED
    BY <1>1, <1>2, <1>3

(* A step that changes neither rows nor retailers changes no owner. *)
LEMMA OwnersStay ==
    ASSUME UNCHANGED <<rows, present>>
    PROVE  \A r \in Retailers : Owner(r)' = Owner(r)
  BY DEF Owner, ActiveRows

(* A commit that leaves the rows of a retailer, and the retailer, leaves   *)
(* its owner.                                                              *)
LEMMA CommitLeavesOwner ==
    ASSUME AssignmentInvariant, NEW c \in Calls, Commit(c), NEW r \in Retailers,
           r \notin ins[c], \A k \in deact[c] : k[2] # r,
           mark[c][r] # "gone", mark[c][r] \in Born => r \in present
    PROVE  Owner(r)' = Owner(r)
  <1>1. \A k \in RowIds : k[2] = r => rows'[k] = rows[k]
    BY CommitRows
  <1>2. ActiveRows(r)' = ActiveRows(r)
    BY <1>1 DEF ActiveRows
  <1>3. r \in present' <=> r \in present
    BY CommitRetailers
  <1>4. (CHOOSE k \in ActiveRows(r) : TRUE)' = (CHOOSE k \in ActiveRows(r) : TRUE)
    BY <1>2
  <1>5. CASE ActiveRows(r) = {}
    BY <1>2, <1>3, <1>5 DEF Owner
  <1>6. CASE ActiveRows(r) # {}
    <2>1. (CHOOSE k \in ActiveRows(r) : TRUE) \in ActiveRows(r)
      BY <1>6
    <2>2. rows'[CHOOSE k \in ActiveRows(r) : TRUE] = rows[CHOOSE k \in ActiveRows(r) : TRUE]
      BY <1>1, <2>1 DEF ActiveRows
    <2> QED
      BY <1>2, <1>3, <1>4, <1>6, <2>2 DEF Owner
  <1> QED
    BY <1>5, <1>6

(* An assign hands over the retailers it has inserted a row for: each of   *)
(* them exists, and the new row is its only active one.                    *)
LEMMA AssignCommits ==
    ASSUME AssignmentInvariant, AssignmentInvariant', NEW c \in Calls, Commit(c),
           req[c].kind = "assign"
    PROVE  /\ req[c].rep \in Reps /\ ins[c] \subseteq req[c].ids \cap Retailers
           /\ \A r \in Retailers :
                 IF r \in ins[c] THEN Owner(r) # Gone /\ Owner(r)' = req[c].rep
                 ELSE Owner(r)' = Owner(r)
  <1>1. TypeOK /\ Own(c) /\ pc[c] = "write" /\ targets[c] = {} /\ victims[c] = {}
    BY DEF AssignmentInvariant, Own, Commit
  <1>2. req[c].rep \in Reps /\ ins[c] \subseteq req[c].ids \cap Retailers
    BY <1>1 DEF Own, StepFitsRequest, PlanFitsRequest, Running, TypeOK
  <1>3. \A r \in Retailers : mark[c][r] \in {"free", "set"}
    BY <1>1 DEF Own, PlanFitsRequest, MayWrite
  <1>4. ASSUME NEW r \in Retailers, r \in ins[c]
        PROVE  Owner(r) # Gone /\ Owner(r)' = req[c].rep
    <2>1. r \in present /\ r \in present'
      BY <1>3, <1>4, CommitRetailers DEF AssignmentInvariant, InsertsHaveTheirRetailer
    <2>2. /\ <<c, r>> \in RowIds /\ <<c, r>>[1] = c /\ <<c, r>>[2] = r
          /\ <<c, r>> \notin deact[c] /\ mark[c][r] # "gone"
      BY <1>1, <1>3, CallsAssumption DEF RowIds, Own, WorksOnCommittedRows, Ended
    <2>3. rows'[<<c, r>>].state = "active" /\ rows'[<<c, r>>].rep = req[c].rep
      BY <1>4, <2>2, CommitRows
    <2>4. <<c, r>> \in ActiveRows(r)'
      BY <2>2, <2>3 DEF ActiveRows
    <2> QED
      BY <2>1, <2>3, <2>4, OwnerType, OwnerOfPresentNext DEF AssignmentInvariant
  <1>5. ASSUME NEW r \in Retailers, r \notin ins[c]
        PROVE  Owner(r)' = Owner(r)
    <2>1. \A k \in deact[c] : k[2] # r
      BY <1>1, <1>5 DEF Own, PlanFitsRequest
    <2> QED
      BY <1>3, <1>5, <2>1, CommitLeavesOwner DEF Born
  <1> QED
    BY <1>2, <1>4, <1>5

(* An unassign takes back the retailers whose rows it holds: each of them  *)
(* belonged to the representative of the request.                          *)
LEMMA UnassignCommits ==
    ASSUME AssignmentInvariant, AssignmentInvariant', NEW c \in Calls, Commit(c),
           req[c].kind = "unassign"
    PROVE  LET taken == {k[2] : k \in deact[c]} IN
           /\ req[c].rep \in Reps /\ taken \subseteq req[c].ids \cap Retailers
           /\ \A r \in Retailers :
                 IF r \in taken THEN Owner(r) = req[c].rep /\ Owner(r)' = NoRep
                 ELSE Owner(r)' = Owner(r)
  <1> DEFINE taken == {k[2] : k \in deact[c]}
  <1>1. TypeOK /\ Own(c) /\ pc[c] = "write" /\ victims[c] = {}
    BY DEF AssignmentInvariant, Own, Commit
  <1>2. req[c].rep \in Reps /\ taken \subseteq req[c].ids \cap Retailers
    <2>1. req[c].rep \in Reps
      BY <1>1 DEF Own, StepFitsRequest, Running
    <2>2. \A k \in deact[c] : k[2] \in req[c].ids /\ k[2] \in Retailers
      BY <1>1 DEF Own, PlanFitsRequest, TypeOK, RowIds
    <2> QED
      BY <2>1, <2>2
  <1>3. \A r \in Retailers : mark[c][r] \in {"free", "clear"}
    BY <1>1 DEF Own, PlanFitsRequest, MayWrite
  <1>4. ins[c] = {}
    BY <1>1 DEF Own, PlanFitsRequest
  <1>5. ASSUME NEW r \in Retailers, r \in taken
        PROVE  Owner(r) = req[c].rep /\ Owner(r)' = NoRep
    <2>1. PICK k \in deact[c] : k[2] = r
      BY <1>5
    <2>2. k \in ActiveRows(r) /\ rows[k].rep = req[c].rep
      BY <1>1, <2>1 DEF Own, WorksOnCommittedRows, ActiveRows, TypeOK
    <2>3. r \in present /\ r \in present'
      BY <1>3, <2>1, <2>2, CommitRetailers
      DEF ActiveRows, AssignmentInvariant, NoOrphanAssignment
    <2>4. ActiveRows(r)' = {}
      <3> SUFFICES ASSUME NEW l \in ActiveRows(r)' PROVE FALSE
        OBVIOUS
      <3>1. l \in RowIds /\ l[2] = r /\ rows'[l].state = "active"
        BY DEF ActiveRows
      <3>2. l \notin deact[c] /\ rows'[l] = rows[l]
        BY <1>4, <3>1, CommitRows DEF NoRow
      <3>3. l \in ActiveRows(r)
        BY <3>1, <3>2 DEF ActiveRows
      <3> QED
        BY <2>1, <2>2, <3>2, <3>3 DEF AssignmentInvariant, OneActivePerRetailer
    <2>5. Owner(r)' = NoRep
      BY <2>3, <2>4, OwnerOfPresentNext DEF AssignmentInvariant
    <2> QED
      BY <2>2, <2>3, <2>5, OwnerOfPresent DEF AssignmentInvariant
  <1>6. ASSUME NEW r \in Retailers, r \notin taken
        PROVE  Owner(r)' = Owner(r)
    <2>1. \A k \in deact[c] : k[2] # r
      BY <1>6
    <2> QED
      BY <1>3, <1>4, <2>1, CommitLeavesOwner DEF Born
  <1> QED
    BY <1>2, <1>5, <1>6

(* A delete drops the retailer it has marked and changes no other owner;   *)
(* an edit brings back at most the one retailer it names.                  *)
LEMMA EntityCommits ==
    ASSUME AssignmentInvariant, AssignmentInvariant', NEW c \in Calls, Commit(c),
           req[c].kind \in {"edit", "delete"}
    PROVE  \E r \in Retailers :
              /\ req[c].ids = {r}
              /\ \A s \in Retailers \ {r} : Owner(s)' = Owner(s)
              /\ \/ Owner(r)' = Owner(r)
                 \/ req[c].kind = "delete" /\ Owner(r) # Gone /\ Owner(r)' = Gone
                 \/ req[c].kind = "edit" /\ Owner(r) = Gone /\ Owner(r)' = NoRep
  <1>1. TypeOK /\ Own(c) /\ pc[c] = "write" /\ victims[c] = {}
    BY DEF AssignmentInvariant, Own, Commit
  <1>2. PICK r \in Retailers : req[c].ids = {r}
    BY <1>1 DEF Own, StepFitsRequest, Running
  <1>3. ins[c] = {} /\ \A k \in deact[c] : k[2] \in req[c].ids
    BY <1>1 DEF Own, PlanFitsRequest
  <1>4. \A s \in Retailers \ {r} : Owner(s)' = Owner(s)
    <2> SUFFICES ASSUME NEW s \in Retailers \ {r} PROVE Owner(s)' = Owner(s)
      OBVIOUS
    <2>1. mark[c][s] = "free"
      BY <1>1, <1>2 DEF Own, PlanFitsRequest
    <2> QED
      BY <1>2, <1>3, <2>1, CommitLeavesOwner DEF Born
  <1>5. CASE mark[c][r] = "gone"
    <2>1. req[c].kind = "delete" /\ r \in present /\ r \notin present'
      <3>1. mark[c][r] \in MayWrite(req[c].kind)
        BY <1>1, <1>5 DEF Own, PlanFitsRequest
      <3>2. req[c].kind = "delete"
        BY <1>5, <3>1 DEF MayWrite
      <3>3. r \in present
        BY <1>5 DEF AssignmentInvariant, DeleteOwnsItsRetailer
      <3>4. r \notin present'
        BY <1>5, CommitRetailers DEF Born
      <3> QED
        BY <3>2, <3>3, <3>4
    <2>2. Owner(r) # Gone /\ Owner(r)' = Gone
      BY <2>1, OwnerType DEF Owner
    <2> QED
      BY <1>2, <1>4, <2>1, <2>2
  <1>6. CASE mark[c][r] # "gone" /\ mark[c][r] \in Born /\ r \notin present
    <2>1. req[c].kind = "edit" /\ r \in present' /\ Owner(r) = Gone
      BY <1>1, <1>6, CommitRetailers DEF Own, PlanFitsRequest, MayWrite, Born, Owner
    <2>2. \A k \in RowIds : k[2] = r => rows'[k].state = "absent"
      BY <1>3, <1>6, CommitRows DEF NoRow, AssignmentInvariant, NoOrphanAssignment
    <2>3. ActiveRows(r)' = {}
      BY <2>2 DEF ActiveRows
    <2>4. Owner(r)' = NoRep
      BY <2>1, <2>3, OwnerOfPresentNext DEF AssignmentInvariant
    <2> QED
      BY <1>2, <1>4, <2>1, <2>4
  <1>7. CASE mark[c][r] # "gone" /\ (mark[c][r] \in Born => r \in present)
    <2>1. deact[c] = {}
      BY <1>1, <1>2, <1>7 DEF Own, PlanFitsRequest
    <2>2. Owner(r)' = Owner(r)
      BY <1>3, <1>7, <2>1, CommitLeavesOwner
    <2> QED
      BY <1>2, <1>4, <2>2
  <1> QED
    BY <1>5, <1>6, <1>7

(* Only a commit changes an owner, and only a commit ends a call well. *)
LEMMA StepsThatKeepOwners ==
    ASSUME AssignmentInvariant, [Next]_vars
    PROVE  \/ UNCHANGED <<rows, present>>
           \/ \E c \in Calls : Commit(c)
  <1>1. CASE UNCHANGED vars
    BY <1>1 DEF vars, store
  <1>2. ASSUME NEW c \in Calls, Begin(c) \/ Fault(c) \/ (Statement(c) /\ ~Commit(c))
        PROVE  UNCHANGED <<rows, present>>
    <2>1. CASE Begin(c) \/ Fault(c) \/ DeadlockVictim(c)
      BY <2>1 DEF Begin, Fault, DeadlockVictim, Rollback, store
    <2>2. CASE ReadRetailers(c) \/ ReadActiveAssignments(c) \/ ReadOwned(c)
                 \/ StartDeactivation(c) \/ ReadStillAssigned(c)
                 \/ \E k \in RowIds : ClaimRow(c, k)
      BY <2>2 DEF ReadRetailers, ReadActiveAssignments, ReadOwned, StartDeactivation,
                  ReadStillAssigned, ClaimRow, store
    <2>3. ASSUME NEW r \in Retailers,
                 \/ InsertRow(c, r) \/ RejectInsert(c, r) \/ EntityMissing(c, r)
                 \/ ReadToDelete(c, r) \/ ReadToEdit(c, r) \/ DiffEntity(c, r)
                 \/ MarkRetailer(c, r) \/ RejectMark(c, r)
          PROVE  UNCHANGED <<rows, present>>
      BY <2>3 DEF InsertRow, RejectInsert, EntityMissing, ReadToDelete, ReadToEdit,
                  DiffEntity, MarkRetailer, RejectMark, Rollback, store
    <2> QED
      BY <1>2, <2>1, <2>2, <2>3 DEF Statement
  <1> QED
    BY <1>1, <1>2 DEF Next, Statement

(* The kind of a call that commits. *)
LEMMA CommitterKind ==
    ASSUME AssignmentInvariant, NEW c \in Calls, Commit(c)
    PROVE  req[c].kind \in {"assign", "unassign"} \/ req[c].kind \in {"edit", "delete"}
  BY DEF AssignmentInvariant, StepFitsRequest, Commit, Running

(* A call that ends changes owners only as its request says. *)
LEMMA StepOnRequest ==
    ASSUME AssignmentInvariant, AssignmentInvariant', [Next]_vars,
           NEW c \in Calls, pc[c] \in Running, pc'[c] \in Ended,
           NEW r \in Retailers, Owner(r)' # Owner(r)
    PROVE  Asked(req[c], r, Owner(r), Owner(r)')
  <1>1. PICK d \in Calls : Commit(d)
    BY StepsThatKeepOwners, OwnersStay
  <1>2. d = c
    <2>1. \A e \in Calls \ {d} : pc'[e] = pc[e]
      BY <1>1 DEF Commit, Release, AssignmentInvariant, TypeOK
    <2> QED
      BY <2>1 DEF Running, Ended
  <1>3. CASE req[c].kind = "assign"
    BY <1>1, <1>2, <1>3, AssignCommits DEF Asked
  <1>4. CASE req[c].kind = "unassign"
    BY <1>1, <1>2, <1>4, UnassignCommits DEF Asked
  <1>5. CASE req[c].kind \in {"edit", "delete"}
    BY <1>1, <1>2, <1>5, EntityCommits DEF Asked
  <1> QED
    BY <1>1, <1>2, <1>3, <1>4, <1>5, CommitterKind

(* Owners change on request only: a call takes and gives what its request  *)
(* names, however its statements interleave with those of other calls.     *)
THEOREM OwnersOnlyChangeOnRequest == Spec => OwnersChangeOnRequest
  <1>1. AssignmentInvariant /\ AssignmentInvariant' /\ [Next]_vars =>
          [\A c \in Calls : pc[c] \in Running /\ pc'[c] \in Ended =>
             \A r \in Retailers : Owner(r)' # Owner(r) => Asked(req[c], r, Owner(r), Owner(r)')]_vars
    BY StepOnRequest
  <1> QED
    BY <1>1, InvariantHolds, PTL DEF Spec, OwnersChangeOnRequest

-----------------------------------------------------------------------------
(* The calls implement AssignmentRegister. *)

(* Every consistent database is a state of the register. *)
LEMMA RegisterInitially ==
    ASSUME AssignmentInvariant
    PROVE  Register!Init
  <1>1. \A r \in Retailers : Owner(r) \in Reps \cup {NoRep, Gone}
    BY OwnerType
  <1> QED
    BY <1>1 DEF Register!Init, Register!TypeOK

(* A commit is one step of the register, or changes no owner. *)
LEMMA CommitImplements ==
    ASSUME AssignmentInvariant, AssignmentInvariant', NEW c \in Calls, Commit(c)
    PROVE  [Register!Next]_([r \in Retailers |-> Owner(r)])
  <1>1. CASE req[c].kind = "assign"
    <2>1. /\ req[c].rep \in Reps /\ ins[c] \in SUBSET Retailers
          /\ \A r \in ins[c] : Owner(r) # Gone
          /\ \A r \in Retailers : Owner(r)' = IF r \in ins[c] THEN req[c].rep ELSE Owner(r)
      BY <1>1, AssignCommits
    <2>2. Register!Assign(req[c].rep, ins[c])
      BY <2>1 DEF Register!Assign
    <2> QED
      BY <2>1, <2>2 DEF Register!Next
  <1>2. CASE req[c].kind = "unassign"
    <2> DEFINE taken == {k[2] : k \in deact[c]}
    <2>1. /\ req[c].rep \in Reps /\ taken \in SUBSET Retailers
          /\ \A r \in taken : Owner(r) = req[c].rep
          /\ \A r \in Retailers : Owner(r)' = IF r \in taken THEN NoRep ELSE Owner(r)
      BY <1>2, UnassignCommits
    <2> HIDE DEF taken
    <2>2. Register!Unassign(req[c].rep, taken)
      BY <2>1 DEF Register!Unassign
    <2> QED
      BY <2>1, <2>2 DEF Register!Next
  <1>3. CASE req[c].kind \in {"edit", "delete"}
    <2>1. PICK r \in Retailers :
             /\ \A s \in Retailers \ {r} : Owner(s)' = Owner(s)
             /\ \/ Owner(r)' = Owner(r)
                \/ Owner(r) # Gone /\ Owner(r)' = Gone
                \/ Owner(r) = Gone /\ Owner(r)' = NoRep
      BY <1>3, EntityCommits
    <2>2. CASE Owner(r)' = Owner(r)
      BY <2>1, <2>2
    <2>3. CASE Owner(r) # Gone /\ Owner(r)' = Gone
      <3>1. Register!Delete(r)
        BY <2>1, <2>3 DEF Register!Delete, Gone
      <3> QED
        BY <3>1 DEF Register!Next
    <2>4. CASE Owner(r) = Gone /\ Owner(r)' = NoRep
      <3>1. Register!Recreate(r)
        BY <2>1, <2>4 DEF Register!Recreate
      <3> QED
        BY <3>1 DEF Register!Next
    <2> QED
      BY <2>1, <2>2, <2>3, <2>4
  <1> QED
    BY <1>1, <1>2, <1>3, CommitterKind

(* Every step is a step of the register or leaves every owner. *)
LEMMA StepImplements ==
    ASSUME AssignmentInvariant, AssignmentInvariant', [Next]_vars
    PROVE  [Register!Next]_([r \in Retailers |-> Owner(r)])
  <1>1. CASE UNCHANGED <<rows, present>>
    BY <1>1, OwnersStay
  <1>2. CASE \E c \in Calls : Commit(c)
    BY <1>2, CommitImplements
  <1> QED
    BY <1>1, <1>2, StepsThatKeepOwners

(* The refinement: whatever the statements of concurrent calls do, rows    *)
(* and retailers change as a register of owners does, in atomic steps.     *)
THEOREM CallsImplementTheRegister == Spec => ImplementsRegister
  <1>1. Init => Register!Init
    BY InvariantInitially, RegisterInitially
  <1>2. AssignmentInvariant /\ AssignmentInvariant' /\ [Next]_vars =>
           [Register!Next]_([r \in Retailers |-> Owner(r)])
    BY StepImplements
  <1> QED
    BY <1>1, <1>2, InvariantHolds, PTL DEF Spec, ImplementsRegister, Register!Spec

=============================================================================
