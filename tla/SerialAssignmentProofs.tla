----------------------- MODULE SerialAssignmentProofs -----------------------
(***************************************************************************)
(* What RetailerAssignment guarantees when one call is served at a time:   *)
(* the flag, the audit trail and the summaries agree with the assignments. *)
(* With two calls in flight none of it holds (run flag_assign_unassign),   *)
(* so every theorem here assumes MaxInFlight = 1 and nothing else.         *)
(***************************************************************************)
EXTENDS RetailerAssignmentProofs, FiniteSetTheorems

(* The plan of one call. *)
PlanStands(c) == AssignPlanStands(c) /\ UnassignPlanStands(c) /\ EditPlanStands(c)

(* A plan is about a call in flight. *)
LEMMA NoPlan ==
    \A c \in Calls : pc[c] \notin Running => PlanStands(c)
  BY DEF PlanStands, AssignPlanStands, UnassignPlanStands, EditPlanStands, Running

(* The same of the next state. *)
LEMMA NoPlanNext ==
    (\A c \in Calls : pc[c] \notin Running => PlanStands(c))'
  BY NoPlan, PTL

(* The rows and the flags as the serial invariant sees them. *)
TablesAgree ==
    /\ \A k \in RowIds : rows[k].state = "active" => rows[k].rep \in Reps
    /\ FlagMatchesAssignment

(* A step of the call in flight preserves the serial invariant if it does  *)
(* so for the tables and for the plan of that call.                        *)
LEMMA SerialStep ==
    ASSUME AssignmentInvariant, SerialInvariant, NEW c \in Calls, pc[c] \in Running,
           StepOf(c), PlanStands(c)', TablesAgree'
    PROVE  SerialInvariant'
  <1>1. \A d \in Calls \ {c} : pc[d] \notin Running /\ pc'[d] = pc[d]
    BY DEF SerialInvariant, OneAtATime, InFlight, StepOf
  <1>2. \A d \in Calls : PlanStands(d)'
    BY <1>1, NoPlanNext
  <1>3. OneAtATime'
    BY <1>1 DEF OneAtATime, InFlight
  <1> QED
    BY <1>2, <1>3 DEF SerialInvariant, TablesAgree, PlanStands

(* Reading and planning change no table. *)
LEMMA TablesStay ==
    ASSUME SerialInvariant, UNCHANGED <<rows, flag>>
    PROVE  TablesAgree'
  BY DEF SerialInvariant, TablesAgree, FlagMatchesAssignment, ActiveRows

(* A call is taken up only when no other is in flight. *)
LEMMA SerialBegin ==
    ASSUME AssignmentInvariant, SerialInvariant, MaxInFlight = 1,
           NEW c \in Calls, Begin(c), AssignmentInvariant'
    PROVE  SerialInvariant'
  <1>1. InFlight = {}
    <2>1. IsFiniteSet(InFlight)
      <3>1. CASE InFlight = {}
        BY <3>1, FS_EmptySet
      <3>2. ASSUME NEW d \in InFlight
            PROVE  IsFiniteSet(InFlight)
        <4>1. InFlight = {d}
          BY DEF SerialInvariant, OneAtATime
        <4> QED
          BY <4>1, FS_Singleton
      <3> QED
        BY <3>1, <3>2
    <2>2. Cardinality(InFlight) \in Nat /\ Cardinality(InFlight) < 1
      BY <2>1, FS_CardinalityType DEF Begin
    <2>3. Cardinality(InFlight) = 0
      BY <2>2
    <2> QED
      BY <2>1, <2>3, FS_EmptySet
  <1>2. \A d \in Calls \ {c} : pc[d] \notin Running /\ pc'[d] = pc[d]
    BY <1>1 DEF InFlight, Begin, AssignmentInvariant, TypeOK
  <1>3. OneAtATime'
    BY <1>2 DEF OneAtATime, InFlight
  <1>4. PlanStands(c)'
    <2>1. pc'[c] \in {"entity", "retailers", "owned"} \cup Ended
      BY DEF Begin, EntryPoint, AssignmentInvariant, TypeOK, Ended, Requests
    <2>2. Untouched(c)'
      BY <2>1 DEF AssignmentInvariant, StepFitsRequest, Ended
    <2>3. deact'[c] \cup victims'[c] = {}
      BY <2>2 DEF Untouched
    <2> QED
      BY <2>1, <2>2, <2>3
      DEF PlanStands, AssignPlanStands, UnassignPlanStands, EditPlanStands, Untouched, Ended
  <1>5. \A d \in Calls : PlanStands(d)'
    BY <1>2, <1>4, NoPlanNext
  <1>6. TablesAgree'
    BY TablesStay DEF Begin, store
  <1> QED
    BY <1>3, <1>5, <1>6 DEF SerialInvariant, TablesAgree, PlanStands

-----------------------------------------------------------------------------
(* The statements of a call, its commit apart, are its own and leave the   *)
(* tables as they are.                                                     *)
LEMMA StatementsAreOwn ==
    ASSUME AssignmentInvariant, NEW c \in Calls,
           \/ ReadRetailers(c) \/ ReadActiveAssignments(c) \/ ReadOwned(c)
           \/ StartDeactivation(c) \/ ReadStillAssigned(c)
           \/ \E k \in RowIds : ClaimRow(c, k)
           \/ \E r \in Retailers : \/ InsertRow(c, r) \/ ReadToDelete(c, r) \/ ReadToEdit(c, r)
                                   \/ DiffEntity(c, r) \/ MarkRetailer(c, r)
    PROVE  /\ StepOf(c) /\ pc[c] \in Running /\ UNCHANGED <<store, req>>
           /\ TypeOK /\ Own(c)
           /\ pc[c] \notin {"update", "write"} => Untouched(c)
  <1>1. TypeOK /\ Own(c)
    BY DEF AssignmentInvariant, Own
  <1>2. ASSUME ReadRetailers(c) \/ ReadActiveAssignments(c) \/ ReadOwned(c)
        PROVE  StepOf(c) /\ pc[c] \in Running /\ UNCHANGED <<store, req>>
    BY <1>1, <1>2 DEF ReadRetailers, ReadActiveAssignments, ReadOwned, StepOf, TypeOK, held,
                      Ended, Running
  <1>3. ASSUME StartDeactivation(c) \/ ReadStillAssigned(c) \/ \E k \in RowIds : ClaimRow(c, k)
        PROVE  StepOf(c) /\ pc[c] \in Running /\ UNCHANGED <<store, req>>
    BY <1>1, <1>3 DEF StartDeactivation, ReadStillAssigned, ClaimRow, StepOf, TypeOK, held,
                      Ended, Running
  <1>4. ASSUME NEW r \in Retailers, InsertRow(c, r) \/ MarkRetailer(c, r)
        PROVE  StepOf(c) /\ pc[c] \in Running /\ UNCHANGED <<store, req>>
    BY <1>1, <1>4 DEF InsertRow, InsertReady, MarkRetailer, MarkReady, StepOf, TypeOK,
                      Ended, Running
  <1>5. ASSUME NEW r \in Retailers, ReadToDelete(c, r) \/ ReadToEdit(c, r) \/ DiffEntity(c, r)
        PROVE  StepOf(c) /\ pc[c] \in Running /\ UNCHANGED <<store, req>>
    BY <1>1, <1>5 DEF ReadToDelete, ReadToEdit, ReadEntity, DiffEntity, StepOf, TypeOK, held,
                      Ended, Running
  <1>6. StepOf(c) /\ pc[c] \in Running /\ UNCHANGED <<store, req>>
    BY <1>2, <1>3, <1>4, <1>5
  <1>7. pc[c] \notin {"update", "write"} => Untouched(c)
    BY <1>1 DEF Own, StepFitsRequest
  <1> QED
    BY <1>1, <1>6, <1>7

(* The plan of a call of each kind is the plan of that kind. *)
LEMMA PlanByKind ==
    ASSUME NEW c \in Calls
    PROVE  /\ req[c].kind = "assign" => (AssignPlanStands(c) => PlanStands(c))
           /\ req[c].kind = "unassign" => (UnassignPlanStands(c) => PlanStands(c))
           /\ req[c].kind = "edit" => (EditPlanStands(c) => PlanStands(c))
           /\ req[c].kind = "delete" => PlanStands(c)
  BY DEF PlanStands, AssignPlanStands, UnassignPlanStands, EditPlanStands

(* The same of the next state. *)
LEMMA PlanByKindNext ==
    ASSUME NEW c \in Calls
    PROVE  (/\ req[c].kind = "assign" => (AssignPlanStands(c) => PlanStands(c))
            /\ req[c].kind = "unassign" => (UnassignPlanStands(c) => PlanStands(c))
            /\ req[c].kind = "edit" => (EditPlanStands(c) => PlanStands(c))
            /\ req[c].kind = "delete" => PlanStands(c))'
  BY PlanByKind, PTL

(* assign: what exists is found, and what is found is planned for. *)
LEMMA SerialAssignReads ==
    ASSUME AssignmentInvariant, SerialInvariant, NEW c \in Calls,
           ReadRetailers(c) \/ ReadActiveAssignments(c)
    PROVE  SerialInvariant'
  <1>1. /\ StepOf(c) /\ pc[c] \in Running /\ UNCHANGED <<rows, flag, present, req>>
        /\ TypeOK /\ Own(c) /\ Untouched(c)
    BY StatementsAreOwn DEF ReadRetailers, ReadActiveAssignments, store
  <1>2. req[c].kind = "assign"
    BY <1>1 DEF Own, StepFitsRequest, ReadRetailers, ReadActiveAssignments
  <1>3. deact'[c] = {} /\ ins'[c] = {} /\ mark' = mark
    BY <1>1 DEF Untouched, ReadRetailers, ReadActiveAssignments, held
  <1>4. ASSUME ReadRetailers(c)
        PROVE  AssignPlanStands(c)'
    <2>1. /\ found'[c] = req[c].ids \cap present
          /\ victims'[c] = {} /\ targets'[c] = {} /\ marks'[c] = {}
          /\ pc'[c] = "write" => found'[c] = {}
      BY <1>1, <1>4 DEF ReadRetailers, TypeOK, Untouched
    <2> QED
      BY <1>1, <1>3, <2>1 DEF AssignPlanStands, Untouched
  <1>5. ASSUME ReadActiveAssignments(c)
        PROVE  AssignPlanStands(c)'
    <2>1. /\ found' = found /\ marks'[c] = found[c]
          /\ victims'[c] = {k \in RowIds : /\ k[2] \in found[c] /\ rows[k].state = "active"
                                           /\ rows[k].rep # req[c].rep}
          /\ targets'[c] = found[c] \ {k[2] : k \in OwnedRows(req[c].rep, found[c])}
      BY <1>1, <1>5 DEF ReadActiveAssignments, TypeOK
    <2>2. found[c] = req[c].ids \cap present
      BY <1>2, <1>5 DEF SerialInvariant, AssignPlanStands, ReadActiveAssignments
    <2>3. ASSUME NEW r \in found[c], r \notin targets'[c]
          PROVE  \E k \in ActiveRows(r) : rows[k].rep = req[c].rep
      BY <2>1, <2>3 DEF OwnedRows, ActiveRows
    <2>4. \A r \in found[c] : ActiveRows(r)' = ActiveRows(r)
      BY <1>1 DEF ActiveRows
    <2>5. \A r \in found[c] :
            /\ r \in marks'[c]
            /\ \/ r \in targets'[c]
               \/ \E k \in ActiveRows(r)' : rows'[k].rep = req'[c].rep
      BY <1>1, <2>1, <2>3, <2>4
    <2>6. /\ targets'[c] \cup ins'[c] \cup marks'[c] \subseteq found[c]
          /\ \A k \in deact'[c] \cup victims'[c] : rows'[k].state = "active"
          /\ \A r \in Retailers : mark'[c][r] = "free"
      BY <1>1, <1>3, <2>1 DEF Untouched
    <2> QED
      BY <1>1, <2>1, <2>2, <2>5, <2>6 DEF AssignPlanStands
  <1>6. AssignPlanStands(c)'
    BY <1>4, <1>5
  <1>7. PlanStands(c)'
    BY <1>1, <1>2, <1>6, PlanByKindNext
  <1> QED
    BY <1>1, <1>7, SerialStep, TablesStay

(* unassign: each retailer found has an active row of the representative.  *)
LEMMA SerialReadOwned ==
    ASSUME AssignmentInvariant, SerialInvariant, NEW c \in Calls, ReadOwned(c)
    PROVE  SerialInvariant'
  <1>1. /\ StepOf(c) /\ pc[c] \in Running /\ UNCHANGED <<rows, flag, present, req>>
        /\ TypeOK /\ Own(c) /\ Untouched(c)
    BY StatementsAreOwn DEF ReadOwned, store
  <1>2. req[c].kind = "unassign"
    BY <1>1 DEF Own, StepFitsRequest, ReadOwned
  <1>3. /\ deact'[c] = {} /\ victims'[c] = {} /\ marks'[c] = {}
        /\ \A r \in Retailers : mark'[c][r] = "free"
        /\ found'[c] = {k[2] : k \in OwnedRows(req[c].rep, req[c].ids)}
        /\ pc'[c] = "snapshot" \/ (pc'[c] = "write" /\ found'[c] = {})
    BY <1>1 DEF Untouched, ReadOwned, held, TypeOK
  <1>4. ASSUME NEW r \in found'[c]
        PROVE  \E k \in ActiveRows(r)' : rows'[k].rep = req'[c].rep
    <2>1. PICK k \in OwnedRows(req[c].rep, req[c].ids) : k[2] = r
      BY <1>3
    <2> QED
      BY <1>1, <2>1 DEF OwnedRows, ActiveRows
  <1>5. UnassignPlanStands(c)'
    BY <1>3, <1>4 DEF UnassignPlanStands
  <1>6. PlanStands(c)'
    BY <1>1, <1>2, <1>5, PlanByKindNext
  <1> QED
    BY <1>1, <1>6, SerialStep, TablesStay

(* unassign: nothing has changed since, so each of them is deactivated. *)
LEMMA SerialStartDeactivation ==
    ASSUME AssignmentInvariant, SerialInvariant, NEW c \in Calls, StartDeactivation(c)
    PROVE  SerialInvariant'
  <1>1. /\ StepOf(c) /\ pc[c] \in Running /\ UNCHANGED <<rows, flag, present, req>>
        /\ TypeOK /\ Own(c) /\ Untouched(c)
    BY StatementsAreOwn DEF StartDeactivation, store
  <1>2. req[c].kind = "unassign"
    BY <1>1 DEF Own, StepFitsRequest, StartDeactivation
  <1>3. /\ deact'[c] = {} /\ marks'[c] = {} /\ found' = found /\ pc'[c] = "update"
        /\ \A r \in Retailers : mark'[c][r] = "free"
        /\ victims'[c] = OwnedRows(req[c].rep, found[c])
    BY <1>1 DEF Untouched, StartDeactivation, held, TypeOK
  <1>4. \A r \in found[c] : \E k \in ActiveRows(r) : rows[k].rep = req[c].rep
    BY <1>1, <1>2 DEF SerialInvariant, UnassignPlanStands, StartDeactivation
  <1>5. /\ \A r \in found[c] : \E k \in victims'[c] : k[2] = r
        /\ \A k \in victims'[c] : k[2] \in found[c] /\ rows[k].state = "active"
    BY <1>3, <1>4 DEF OwnedRows, ActiveRows
  <1>6. UnassignPlanStands(c)'
    BY <1>1, <1>3, <1>5 DEF UnassignPlanStands
  <1>7. PlanStands(c)'
    BY <1>1, <1>2, <1>6, PlanByKindNext
  <1> QED
    BY <1>1, <1>7, SerialStep, TablesStay

(* unassign: no retailer found is still assigned. *)
LEMMA SerialReadStillAssigned ==
    ASSUME AssignmentInvariant, SerialInvariant, NEW c \in Calls, ReadStillAssigned(c)
    PROVE  SerialInvariant'
  <1>1. /\ StepOf(c) /\ pc[c] \in Running /\ UNCHANGED <<rows, flag, present, req>>
        /\ TypeOK /\ Own(c) /\ UNCHANGED <<deact, mark, victims, found>> /\ victims[c] = {}
    BY StatementsAreOwn DEF ReadStillAssigned, store, held
  <1>2. req[c].kind = "unassign"
    BY <1>1 DEF Own, StepFitsRequest, ReadStillAssigned
  <1>3. /\ marks'[c] = {r \in found[c] : ActiveRows(r) \subseteq deact[c]}
        /\ pc'[c] = "write"
    BY <1>1 DEF ReadStillAssigned, TypeOK
  <1>4. /\ \A k \in deact[c] : k[2] \in found[c] /\ rows[k].state = "active"
        /\ \A r \in Retailers : mark[c][r] # "free" => r \in found[c]
        /\ \A r \in found[c] : \E k \in deact[c] : k[2] = r
    BY <1>1, <1>2 DEF SerialInvariant, UnassignPlanStands, ReadStillAssigned, Running
  <1>5. ASSUME NEW r \in found[c]
        PROVE  r \in marks'[c]
    <2>1. PICK k \in deact[c] : k[2] = r
      BY <1>4
    <2>2. k \in ActiveRows(r) /\ r \in Retailers
      BY <1>1, <1>4, <2>1 DEF ActiveRows, TypeOK
    <2> QED
      BY <1>3, <2>1, <2>2 DEF AssignmentInvariant, OneActivePerRetailer
  <1>6. UnassignPlanStands(c)'
    BY <1>1, <1>3, <1>4, <1>5 DEF UnassignPlanStands
  <1>7. PlanStands(c)'
    BY <1>1, <1>2, <1>6, PlanByKindNext
  <1> QED
    BY <1>1, <1>7, SerialStep, TablesStay

(* edit: the entity read is still the row that save() compares it with.    *)
LEMMA SerialEntity ==
    ASSUME AssignmentInvariant, SerialInvariant, NEW c \in Calls, NEW r \in Retailers,
           ReadToDelete(c, r) \/ ReadToEdit(c, r) \/ DiffEntity(c, r)
    PROVE  SerialInvariant'
  <1>1. /\ StepOf(c) /\ pc[c] \in Running /\ UNCHANGED <<rows, flag, present, req>>
        /\ TypeOK /\ Own(c)
    BY StatementsAreOwn DEF store
  <1>2. pc[c] \in {"entity", "diff"} /\ mark' = mark /\ r \in req[c].ids
    BY DEF ReadToDelete, ReadToEdit, ReadEntity, DiffEntity, held
  <1>3. \A s \in Retailers : mark'[c][s] = "free"
    BY <1>1, <1>2 DEF Own, StepFitsRequest, Untouched
  <1>4. PICK s \in Retailers : req[c].ids = {s}
    BY <1>1, <1>2 DEF Own, StepFitsRequest
  <1>5. ASSUME req[c].kind = "edit"
        PROVE  EditPlanStands(c)'
    <2>1. CASE ReadToEdit(c, r)
      BY <1>1, <1>2, <1>4, <2>1 DEF ReadToEdit, ReadEntity, EditPlanStands, TypeOK
    <2>2. CASE DiffEntity(c, r)
      <3>1. r \in present /\ seen[c] = IF flag[r] THEN "set" ELSE "clear"
        BY <1>5, <2>2 DEF SerialInvariant, EditPlanStands, DiffEntity
      <3>2. flag[r] \in BOOLEAN
        BY <1>1 DEF TypeOK
      <3>3. Columns(r, seen[c]) = "keep"
        BY <3>1, <3>2 DEF Columns
      <3>4. seen'[c] = "keep" /\ pc'[c] = "write"
        BY <1>1, <2>2, <3>3 DEF DiffEntity, TypeOK
      <3> QED
        BY <1>3, <3>4 DEF EditPlanStands
    <2> QED
      BY <1>5, <2>1, <2>2 DEF ReadToDelete
  <1>6. req[c].kind \in {"edit", "delete"}
    BY <1>1, <1>2 DEF Own, StepFitsRequest
  <1>7. PlanStands(c)'
    BY <1>1, <1>5, <1>6, PlanByKindNext
  <1> QED
    BY <1>1, <1>7, SerialStep, TablesStay

(* The kind of a call in flight. *)
LEMMA KindInFlight ==
    ASSUME AssignmentInvariant, NEW c \in Calls, pc[c] \in Running
    PROVE  req[c].kind \in AllKinds
  BY DEF AssignmentInvariant, StepFitsRequest, AllKinds

(* A row that was active when it was planned for still is when it is       *)
(* claimed.                                                                *)
LEMMA SerialClaimRow ==
    ASSUME AssignmentInvariant, SerialInvariant, NEW c \in Calls, NEW k \in RowIds,
           ClaimRow(c, k)
    PROVE  SerialInvariant'
  <1>1. /\ StepOf(c) /\ pc[c] \in Running /\ UNCHANGED <<rows, flag, present, req>>
        /\ TypeOK /\ Own(c) /\ UNCHANGED <<ins, mark, pc, found, targets, marks, seen>>
    BY StatementsAreOwn DEF ClaimRow, store
  <1>2. /\ k \in victims[c] /\ victims'[c] = victims[c] \ {k}
        /\ deact'[c] = IF StillMatches(c, k) THEN deact[c] \cup {k} ELSE deact[c]
    BY <1>1 DEF ClaimRow, TypeOK
  <1>3. ASSUME rows[k].state = "active"
        PROVE  deact'[c] \cup victims'[c] = deact[c] \cup victims[c]
    <2>1. StillMatches(c, k)
      BY <1>3 DEF StillMatches
    <2> QED
      BY <1>2, <2>1
  <1>4. deact'[c] \cup victims'[c] \subseteq deact[c] \cup victims[c]
    BY <1>2
  <1>5. ASSUME req[c].kind = "assign"
        PROVE  AssignPlanStands(c)'
    <2>1. \A s \in found[c] : ActiveRows(s)' = ActiveRows(s)
      BY <1>1 DEF ActiveRows
    <2>2. AssignPlanStands(c)
      BY DEF SerialInvariant
    <2> QED
      BY <1>1, <1>4, <2>1, <2>2 DEF AssignPlanStands
  <1>6. ASSUME req[c].kind = "unassign"
        PROVE  UnassignPlanStands(c)'
    <2>1. UnassignPlanStands(c)
      BY DEF SerialInvariant
    <2>2. deact'[c] \cup victims'[c] = deact[c] \cup victims[c] /\ pc[c] = "update"
      BY <1>1, <1>2, <1>3, <1>6, <2>1 DEF UnassignPlanStands, ClaimRow
    <2> QED
      BY <1>1, <2>1, <2>2 DEF UnassignPlanStands
  <1>7. EditPlanStands(c)'
    BY <1>1 DEF SerialInvariant, EditPlanStands
  <1>8. PlanStands(c)'
    BY <1>1, <1>5, <1>6, <1>7, PlanByKindNext, KindInFlight DEF AllKinds
  <1> QED
    BY <1>1, <1>8, SerialStep, TablesStay

(* An assign inserts what it has planned. *)
LEMMA SerialInsertRow ==
    ASSUME AssignmentInvariant, SerialInvariant, NEW c \in Calls, NEW r \in Retailers,
           InsertRow(c, r)
    PROVE  SerialInvariant'
  <1>1. /\ StepOf(c) /\ pc[c] \in Running /\ UNCHANGED <<rows, flag, present, req>>
        /\ TypeOK /\ Own(c) /\ UNCHANGED <<deact, mark, pc, found, victims, marks, seen>>
    BY StatementsAreOwn DEF InsertRow, store
  <1>2. targets'[c] \cup ins'[c] = targets[c] \cup ins[c] /\ r \in targets[c]
    BY <1>1 DEF InsertRow, InsertReady, TypeOK
  <1>3. req[c].kind = "assign"
    BY <1>1, <1>2 DEF Own, PlanFitsRequest
  <1>4. AssignPlanStands(c)'
    <2>1. \A s \in found[c] : ActiveRows(s)' = ActiveRows(s)
      BY <1>1 DEF ActiveRows
    <2>2. AssignPlanStands(c)
      BY DEF SerialInvariant
    <2> QED
      BY <1>1, <1>2, <2>1, <2>2 DEF AssignPlanStands
  <1>5. PlanStands(c)'
    BY <1>1, <1>3, <1>4, PlanByKindNext
  <1> QED
    BY <1>1, <1>5, SerialStep, TablesStay

(* A call finds every retailer that it writes. *)
LEMMA SerialMarkRetailer ==
    ASSUME AssignmentInvariant, SerialInvariant, NEW c \in Calls, NEW r \in Retailers,
           MarkRetailer(c, r)
    PROVE  SerialInvariant'
  <1> DEFINE hit == r \in present \/ Writes(c) \in Born
  <1>1. /\ StepOf(c) /\ pc[c] \in Running /\ UNCHANGED <<rows, flag, present, req>>
        /\ TypeOK /\ Own(c) /\ UNCHANGED <<deact, ins, pc, found, targets, seen>>
    BY StatementsAreOwn DEF MarkRetailer, store
  <1>2. /\ r \in marks[c] /\ marks'[c] = marks[c] \ {r} /\ pc[c] = "write" /\ victims[c] = {}
        /\ \A s \in Retailers : mark'[c][s] = IF s = r /\ hit THEN Writes(c) ELSE mark[c][s]
        /\ Writes(c) # "gone" => victims'[c] = {}
    BY <1>1 DEF MarkRetailer, MarkReady, TypeOK
  <1> HIDE DEF hit
  <1>3. \A s \in found[c] : ActiveRows(s)' = ActiveRows(s)
    BY <1>1 DEF ActiveRows
  <1>4. ASSUME req[c].kind = "assign"
        PROVE  AssignPlanStands(c)'
    <2>1. AssignPlanStands(c) /\ Writes(c) = "set"
      BY <1>4 DEF SerialInvariant, Writes
    <2>2. r \in found[c] /\ hit
      BY <1>2, <1>4, <2>1 DEF AssignPlanStands, hit
    <2>3. /\ found'[c] = req'[c].ids \cap present'
          /\ targets'[c] \cup ins'[c] \cup marks'[c] \subseteq found'[c]
          /\ \A k \in deact'[c] \cup victims'[c] : rows'[k].state = "active"
      BY <1>1, <1>2, <1>4, <2>1 DEF AssignPlanStands
    <2>4. \A s \in Retailers : mark'[c][s] # "free" => s \in found'[c]
      BY <1>1, <1>2, <1>4, <2>1, <2>2 DEF AssignPlanStands
    <2>5. \A s \in found'[c] :
             /\ s \in marks'[c] \/ mark'[c][s] = "set"
             /\ \/ s \in targets'[c] \cup ins'[c]
                \/ \E k \in ActiveRows(s)' : rows'[k].rep = req'[c].rep
      <3>1. found[c] \subseteq Retailers
        BY <1>1 DEF TypeOK
      <3> QED
        BY <1>1, <1>2, <1>3, <1>4, <2>1, <2>2, <3>1 DEF AssignPlanStands
    <2> QED
      BY <2>3, <2>4, <2>5 DEF AssignPlanStands
  <1>5. ASSUME req[c].kind = "unassign"
        PROVE  UnassignPlanStands(c)'
    <2>1. UnassignPlanStands(c) /\ Writes(c) = "clear"
      BY <1>5 DEF SerialInvariant, Writes
    <2>2. r \in found[c]
      BY <1>1, <1>2, <1>5, <2>1 DEF UnassignPlanStands
    <2>3. hit
      <3>1. PICK k \in deact[c] : k[2] = r /\ rows[k].state = "active"
        BY <1>1, <1>2, <1>5, <2>1, <2>2 DEF UnassignPlanStands
      <3>2. r \in present
        BY <1>1, <3>1 DEF AssignmentInvariant, NoOrphanAssignment, TypeOK
      <3> QED
        BY <3>2 DEF hit
    <2>4. victims'[c] = victims[c]
      BY <1>2, <2>1
    <2>5. \A s \in found[c] : s \in Retailers
      BY <1>1 DEF TypeOK
    <2> QED
      BY <1>1, <1>2, <1>5, <2>1, <2>2, <2>3, <2>4, <2>5 DEF UnassignPlanStands
  <1>6. ASSUME req[c].kind = "edit"
        PROVE  EditPlanStands(c)'
    <2>1. EditPlanStands(c)
      BY DEF SerialInvariant
    <2>2. Writes(c) = "keep"
      BY <1>2, <1>6, <2>1 DEF EditPlanStands, Writes
    <2> QED
      BY <1>1, <1>2, <1>6, <2>1, <2>2 DEF EditPlanStands
  <1>7. PlanStands(c)'
    BY <1>1, <1>4, <1>5, <1>6, PlanByKindNext, KindInFlight DEF AllKinds
  <1> QED
    BY <1>1, <1>7, SerialStep, TablesStay

-----------------------------------------------------------------------------
(* A rollback leaves the tables, and no plan.                              *)
LEMMA SerialRollback ==
    ASSUME AssignmentInvariant, SerialInvariant, NEW c \in Calls, Rollback(c),
           pc[c] \in Running
    PROVE  SerialInvariant'
  <1>1. StepOf(c) /\ pc'[c] = "failed" /\ UNCHANGED <<rows, flag>>
    BY ReleaseEnds DEF Rollback, store, Ended
  <1>2. PlanStands(c)'
    BY <1>1, NoPlanNext DEF Running
  <1> QED
    BY <1>1, <1>2, SerialStep, TablesStay

(* A commit keeps the active rows of a retailer that it neither hands      *)
(* over, nor takes back, nor deletes.                                      *)
LEMMA CommitKeepsActiveRows ==
    ASSUME AssignmentInvariant, NEW c \in Calls, Commit(c), NEW r \in Retailers,
           mark[c][r] # "gone", r \notin ins[c], \A k \in deact[c] : k[2] # r
    PROVE  ActiveRows(r)' = ActiveRows(r)
  <1>1. \A k \in RowIds : k[2] = r => rows'[k] = rows[k]
    BY CommitRows
  <1> QED
    BY <1>1 DEF ActiveRows

(* An assign ends with every retailer it has found flagged and assigned.   *)
LEMMA AssignKeepsFlags ==
    ASSUME AssignmentInvariant, SerialInvariant, NEW c \in Calls, Commit(c),
           req[c].kind = "assign", NEW r \in Retailers
    PROVE  /\ flag'[r] <=> ActiveRows(r)' # {}
           /\ r \in found[c] \ ins[c] => \E k \in ActiveRows(r)' :
                 k \in ActiveRows(r) /\ rows'[k] = rows[k] /\ rows[k].rep = req[c].rep
  <1>1. TypeOK /\ Own(c) /\ AssignPlanStands(c) /\ FlagMatchesAssignment
    BY DEF AssignmentInvariant, Own, SerialInvariant
  <1>2. /\ pc[c] = "write" /\ victims[c] = {} /\ targets[c] = {} /\ marks[c] = {}
        /\ flag'[r] = CommittedFlag(c, r)
    BY DEF Commit
  <1>3. /\ mark[c][r] \in {"free", "set"}
        /\ ins[c] \subseteq found[c]
        /\ \A k \in deact[c] : k[2] \in ins[c]
    BY <1>1, <1>2 DEF Own, PlanFitsRequest, MayWrite, AssignPlanStands
  <1>4. CASE r \in ins[c]
    <2>1. mark[c][r] = "set"
      BY <1>1, <1>2, <1>3, <1>4 DEF AssignPlanStands
    <2>2. /\ <<c, r>> \in RowIds /\ <<c, r>>[1] = c /\ <<c, r>>[2] = r /\ <<c, r>> \notin deact[c]
      BY <1>1, <1>2, CallsAssumption DEF RowIds, Own, WorksOnCommittedRows, Ended
    <2>3. rows'[<<c, r>>].state = "active"
      BY <1>4, <2>1, <2>2, CommitRows
    <2> QED
      BY <1>2, <1>4, <2>1, <2>2, <2>3 DEF ActiveRows, CommittedFlag
  <1>5. CASE r \notin ins[c]
    <2>1. ActiveRows(r)' = ActiveRows(r) /\ \A k \in RowIds : k[2] = r => rows'[k] = rows[k]
      BY <1>3, <1>5, CommitKeepsActiveRows, CommitRows
    <2>2. CASE r \in found[c]
      <3>1. mark[c][r] = "set" /\ \E k \in ActiveRows(r) : rows[k].rep = req[c].rep
        BY <1>1, <1>2, <1>5, <2>2 DEF AssignPlanStands
      <3> QED
        BY <1>2, <2>1, <3>1 DEF CommittedFlag, ActiveRows
    <2>3. CASE r \notin found[c]
      <3>1. mark[c][r] = "free"
        BY <1>1, <1>2, <2>3 DEF AssignPlanStands
      <3> QED
        BY <1>1, <1>2, <2>1, <2>3, <3>1 DEF CommittedFlag, FlagMatchesAssignment
    <2> QED
      BY <2>2, <2>3
  <1> QED
    BY <1>4, <1>5

(* An unassign ends with every retailer it has found cleared and without   *)
(* an active row.                                                          *)
LEMMA UnassignKeepsFlags ==
    ASSUME AssignmentInvariant, SerialInvariant, NEW c \in Calls, Commit(c),
           req[c].kind = "unassign", NEW r \in Retailers
    PROVE  /\ flag'[r] <=> ActiveRows(r)' # {}
           /\ r \in found[c] <=> \E k \in deact[c] : k[2] = r
  <1>1. TypeOK /\ Own(c) /\ UnassignPlanStands(c) /\ FlagMatchesAssignment
    BY DEF AssignmentInvariant, Own, SerialInvariant
  <1>2. /\ pc[c] = "write" /\ victims[c] = {} /\ targets[c] = {} /\ marks[c] = {}
        /\ flag'[r] = CommittedFlag(c, r)
    BY DEF Commit
  <1>3. mark[c][r] \in {"free", "clear"} /\ ins[c] = {}
    BY <1>1 DEF Own, PlanFitsRequest, MayWrite
  <1>4. r \in found[c] <=> \E k \in deact[c] : k[2] = r
    BY <1>1, <1>2 DEF UnassignPlanStands, Running
  <1>5. CASE r \in found[c]
    <2>1. mark[c][r] = "clear"
      BY <1>1, <1>2, <1>5 DEF UnassignPlanStands, Running
    <2>2. PICK k \in deact[c] : k[2] = r /\ rows[k].state = "active"
      BY <1>1, <1>2, <1>5 DEF UnassignPlanStands, Running
    <2>3. k \in ActiveRows(r)
      BY <1>1, <2>2 DEF ActiveRows, TypeOK
    <2>4. ASSUME NEW l \in ActiveRows(r)'
          PROVE  FALSE
      <3>1. l \in RowIds /\ l[2] = r /\ rows'[l].state = "active"
        BY <2>4 DEF ActiveRows
      <3>2. l \notin deact[c] /\ rows'[l] = rows[l]
        BY <1>3, <3>1, CommitRows DEF NoRow
      <3>3. l \in ActiveRows(r)
        BY <3>1, <3>2 DEF ActiveRows
      <3> QED
        BY <2>2, <2>3, <3>2, <3>3 DEF AssignmentInvariant, OneActivePerRetailer
    <2> QED
      BY <1>2, <1>4, <2>1, <2>4 DEF CommittedFlag
  <1>6. CASE r \notin found[c]
    <2>1. mark[c][r] = "free"
      BY <1>1, <1>2, <1>6 DEF UnassignPlanStands, Running
    <2>2. ActiveRows(r)' = ActiveRows(r)
      BY <1>3, <1>4, <1>6, <2>1, CommitKeepsActiveRows
    <2> QED
      BY <1>1, <1>2, <1>4, <1>6, <2>1, <2>2 DEF CommittedFlag, FlagMatchesAssignment
  <1> QED
    BY <1>5, <1>6, <1>4

(* An edit leaves the flag, and a delete takes the rows along.             *)
LEMMA EntityKeepsFlags ==
    ASSUME AssignmentInvariant, SerialInvariant, NEW c \in Calls, Commit(c),
           req[c].kind \in {"edit", "delete"}, NEW r \in Retailers
    PROVE  flag'[r] <=> ActiveRows(r)' # {}
  <1>1. TypeOK /\ Own(c) /\ EditPlanStands(c) /\ FlagMatchesAssignment
    BY DEF AssignmentInvariant, Own, SerialInvariant
  <1>2. pc[c] = "write" /\ victims[c] = {} /\ flag'[r] = CommittedFlag(c, r) /\ ins[c] = {}
    BY <1>1 DEF Commit, Own, PlanFitsRequest
  <1>3. CASE mark[c][r] = "gone"
    <2>1. \A k \in RowIds : k[2] = r => rows'[k].state = "absent"
      BY <1>3, CommitRows DEF NoRow
    <2> QED
      BY <1>2, <1>3, <2>1 DEF CommittedFlag, ActiveRows
  <1>4. CASE mark[c][r] # "gone"
    <2>1. mark[c][r] \in {"free", "keep"}
      BY <1>1, <1>2, <1>4 DEF Own, PlanFitsRequest, MayWrite, EditPlanStands
    <2>2. \A k \in deact[c] : k[2] # r
      BY <1>1, <1>4 DEF Own, PlanFitsRequest
    <2>3. ActiveRows(r)' = ActiveRows(r)
      BY <1>2, <1>4, <2>2, CommitKeepsActiveRows
    <2> QED
      BY <1>1, <1>2, <2>1, <2>3 DEF CommittedFlag, FlagMatchesAssignment
  <1> QED
    BY <1>3, <1>4

(* The commit of the one call in flight.                                   *)
LEMMA SerialCommit ==
    ASSUME AssignmentInvariant, SerialInvariant, NEW c \in Calls, Commit(c)
    PROVE  SerialInvariant'
  <1>1. Own(c) /\ pc[c] = "write" /\ pc[c] \in Running
    BY DEF AssignmentInvariant, Own, Commit, Running
  <1>2. StepOf(c) /\ pc'[c] = "done"
    BY <1>1, ReleaseEnds DEF Commit, Ended
  <1>3. PlanStands(c)'
    BY <1>2, NoPlanNext DEF Running
  <1>4. ASSUME NEW k \in RowIds, rows'[k].state = "active"
        PROVE  rows'[k].rep \in Reps
    <2>1. CASE rows'[k] = rows[k]
      BY <1>4, <2>1 DEF SerialInvariant
    <2>2. CASE rows'[k].rep = req[c].rep /\ k[2] \in ins[c]
      <3>1. req[c].kind = "assign"
        BY <1>1, <2>2 DEF Own, PlanFitsRequest
      <3> QED
        BY <1>1, <2>2, <3>1 DEF Own, StepFitsRequest
    <2> QED
      BY <1>4, <2>1, <2>2, CommitRows DEF NoRow
  <1>5. FlagMatchesAssignment'
    <2>1. \A r \in Retailers : flag'[r] <=> ActiveRows(r)' # {}
      BY CommitterKind, AssignKeepsFlags, UnassignKeepsFlags, EntityKeepsFlags
    <2> QED
      BY <2>1 DEF FlagMatchesAssignment
  <1>6. TablesAgree'
    BY <1>4, <1>5 DEF TablesAgree
  <1> QED
    BY <1>1, <1>2, <1>3, <1>6, SerialStep

(* Every step preserves the serial invariant. *)
LEMMA SerialInvariantStep ==
    ASSUME AssignmentInvariant, AssignmentInvariant', SerialInvariant, MaxInFlight = 1,
           [Next]_vars
    PROVE  SerialInvariant'
  <1>1. CASE UNCHANGED vars
    BY <1>1 DEF vars, store, held, local, SerialInvariant, OneAtATime, InFlight,
                AssignPlanStands, UnassignPlanStands, EditPlanStands, FlagMatchesAssignment,
                ActiveRows
  <1>2. ASSUME NEW c \in Calls, Begin(c) \/ Statement(c) \/ Fault(c)
        PROVE  SerialInvariant'
    <2>1. CASE Begin(c)
      BY <2>1, SerialBegin
    <2>2. CASE ReadRetailers(c) \/ ReadActiveAssignments(c) \/ ReadOwned(c)
                 \/ StartDeactivation(c) \/ ReadStillAssigned(c)
                 \/ \E k \in RowIds : ClaimRow(c, k)
      BY <2>2, SerialAssignReads, SerialReadOwned, SerialStartDeactivation,
         SerialReadStillAssigned, SerialClaimRow
    <2>3. ASSUME NEW r \in Retailers,
                 \/ InsertRow(c, r) \/ ReadToDelete(c, r) \/ ReadToEdit(c, r)
                 \/ DiffEntity(c, r) \/ MarkRetailer(c, r)
          PROVE  SerialInvariant'
      BY <2>3, SerialInsertRow, SerialEntity, SerialMarkRetailer
    <2>4. ASSUME NEW r \in Retailers,
                 RejectInsert(c, r) \/ EntityMissing(c, r) \/ RejectMark(c, r)
          PROVE  SerialInvariant'
      BY <2>4, SerialRollback
      DEF RejectInsert, InsertReady, EntityMissing, ReadEntity, RejectMark, MarkReady, Running
    <2>5. CASE Commit(c)
      BY <2>5, SerialCommit
    <2>6. CASE DeadlockVictim(c) \/ Fault(c)
      BY <2>6, SerialRollback DEF DeadlockVictim, Fault
    <2> QED
      BY <1>2, <2>1, <2>2, <2>3, <2>4, <2>5, <2>6 DEF Statement
  <1> QED
    BY <1>1, <1>2 DEF Next

(* A consistent database satisfies it while no call is in flight.          *)
LEMMA SerialInvariantInitially == Init => SerialInvariant
  <1> SUFFICES ASSUME Init PROVE SerialInvariant
    OBVIOUS
  <1>1. PICK owner \in [present -> Reps \cup {NoRep}] :
            /\ rows = [k \in RowIds |->
                        IF k[1] = Nobody /\ k[2] \in present /\ owner[k[2]] # NoRep
                        THEN [state |-> "active", rep |-> owner[k[2]], by |-> Nobody]
                        ELSE NoRow]
            /\ flag = [r \in Retailers |-> r \in present /\ owner[r] # NoRep]
    BY DEF Init
  <1>2. \A c \in Calls : pc[c] = "idle" /\ pc[c] \notin Running
    BY DEF Init, Running
  <1>3. \A k \in RowIds : rows[k].state = "active" =>
            k[1] = Nobody /\ k[2] \in present /\ owner[k[2]] # NoRep /\ rows[k].rep = owner[k[2]]
    BY <1>1 DEF NoRow
  <1>4. ASSUME NEW k \in RowIds, rows[k].state = "active"
        PROVE  rows[k].rep \in Reps
    BY <1>1, <1>3, <1>4
  <1>5. ASSUME NEW r \in Retailers
        PROVE  flag[r] <=> ActiveRows(r) # {}
    <2>1. <<Nobody, r>> \in RowIds /\ <<Nobody, r>>[1] = Nobody /\ <<Nobody, r>>[2] = r
      BY DEF RowIds
    <2>2. flag[r] => rows[<<Nobody, r>>].state = "active"
      BY <1>1, <2>1
    <2>3. flag[r] => <<Nobody, r>> \in ActiveRows(r)
      BY <2>1, <2>2 DEF ActiveRows
    <2>4. ASSUME NEW k \in ActiveRows(r)
          PROVE  flag[r]
      BY <1>1, <1>3 DEF ActiveRows
    <2> QED
      BY <2>3, <2>4
  <1> QED
    BY <1>2, <1>4, <1>5, NoPlan
    DEF SerialInvariant, OneAtATime, InFlight, PlanStands, FlagMatchesAssignment

(* The invariants together. *)
SerialAndSafe == AssignmentInvariant /\ SerialInvariant

(* The invariants hold when one call is served at a time. *)
LEMMA BothInvariantsHold ==
    ASSUME MaxInFlight = 1
    PROVE  Spec => []SerialAndSafe
  <1>1. Init => SerialAndSafe
    BY InvariantInitially, SerialInvariantInitially DEF SerialAndSafe
  <1>2. SerialAndSafe /\ [Next]_vars => SerialAndSafe'
    BY InvariantStep, SerialInvariantStep DEF SerialAndSafe
  <1> QED
    BY <1>1, <1>2, PTL DEF Spec

(* What a call has read of the tables still fits them when it writes, and  *)
(* every flag agrees with the rows, when one call is served at a time.     *)
THEOREM SerialInvariantHolds ==
    ASSUME MaxInFlight = 1
    PROVE  Spec => []SerialInvariant
  <1>1. SerialAndSafe => SerialInvariant
    BY DEF SerialAndSafe
  <1> QED
    BY <1>1, BothInvariantsHold, PTL

(* The flag agrees with the assignments: the column that assign and        *)
(* unassign maintain beside the rows is right after every step of requests *)
(* served one at a time.                                                   *)
THEOREM FlagsMatchAssignments ==
    ASSUME MaxInFlight = 1
    PROVE  Spec => []FlagMatchesAssignment
  <1>1. SerialAndSafe => FlagMatchesAssignment
    BY DEF SerialAndSafe, SerialInvariant
  <1> QED
    BY <1>1, BothInvariantsHold, PTL

-----------------------------------------------------------------------------
(* Of the calls at work only a commit reports success. *)
LEMMA SuccessIsACommit ==
    ASSUME AssignmentInvariant, [Next]_vars, NEW c \in Calls,
           pc[c] \in Running, pc'[c] = "done"
    PROVE  Commit(c)
  <1>1. TypeOK /\ pc'[c] # pc[c]
    BY DEF AssignmentInvariant, Running
  <1>2. PICK d \in Calls : Begin(d) \/ Statement(d) \/ Fault(d)
    BY <1>1 DEF Next, vars
  <1>3. CASE Begin(d)
    BY <1>1, <1>3 DEF Begin, TypeOK, Running
  <1>4. ASSUME Rollback(d)
        PROVE  FALSE
    BY <1>1, <1>4 DEF Rollback, Release, TypeOK
  <1>5. CASE ReadRetailers(d) \/ ReadActiveAssignments(d) \/ ReadOwned(d)
               \/ StartDeactivation(d) \/ ReadStillAssigned(d)
               \/ \E k \in RowIds : ClaimRow(d, k)
    BY <1>1, <1>5 DEF ReadRetailers, ReadActiveAssignments, ReadOwned, StartDeactivation,
                      ReadStillAssigned, ClaimRow, TypeOK
  <1>6. ASSUME NEW r \in Retailers,
               \/ InsertRow(d, r) \/ ReadToDelete(d, r) \/ ReadToEdit(d, r)
               \/ DiffEntity(d, r) \/ MarkRetailer(d, r)
        PROVE  FALSE
    BY <1>1, <1>6 DEF InsertRow, ReadToDelete, ReadToEdit, DiffEntity, MarkRetailer, TypeOK
  <1>7. ASSUME NEW r \in Retailers, RejectInsert(d, r) \/ EntityMissing(d, r) \/ RejectMark(d, r)
        PROVE  FALSE
    BY <1>4, <1>7 DEF RejectInsert, EntityMissing, RejectMark
  <1>8. CASE Commit(d)
    BY <1>1, <1>8 DEF Commit, Release, TypeOK
  <1> QED
    BY <1>2, <1>3, <1>4, <1>5, <1>6, <1>7, <1>8 DEF Statement, DeadlockVictim, Fault

(* A call that is not in flight serves no request. *)
LEMMA ServesInFlight ==
    ASSUME AssignmentInvariant, NEW c \in Calls, req[c].kind # "none"
    PROVE  pc[c] \in Running
  BY DEF AssignmentInvariant, StepFitsRequest, NoReq

(* What one step does to a closed assignment. *)
LEMMA StepFreezesTheTrail ==
    ASSUME SerialAndSafe, [Next]_vars, NEW k \in RowIds, rows[k].state = "inactive"
    PROVE  rows'[k] \in {rows[k], NoRow}
  <1>1. CASE UNCHANGED <<rows, present>>
    BY <1>1
  <1>2. ASSUME NEW c \in Calls, Commit(c)
        PROVE  rows'[k] \in {rows[k], NoRow}
    <2>1. /\ Own(c) /\ AssignPlanStands(c) /\ UnassignPlanStands(c)
          /\ pc[c] = "write" /\ victims[c] = {}
      BY <1>2 DEF SerialAndSafe, SerialInvariant, AssignmentInvariant, Own, Commit
    <2>2. k \in deact[c] => req[c].kind \in {"edit", "delete"}
      BY <1>2, <2>1, CommitterKind DEF AssignPlanStands, UnassignPlanStands, Running, SerialAndSafe
    <2>3. k \in deact[c] => mark[c][k[2]] = "gone"
      BY <2>1, <2>2 DEF Own, PlanFitsRequest
    <2> QED
      BY <1>2, <2>3, CommitRows DEF SerialAndSafe
  <1> QED
    BY <1>1, <1>2, StepsThatKeepOwners DEF SerialAndSafe

(* A closed assignment stays as it was closed: assign and unassign touch   *)
(* the active rows only, and a delete takes the history along.             *)
THEOREM AuditTrailStays ==
    ASSUME MaxInFlight = 1
    PROVE  Spec => AuditTrailFrozen
  <1>1. SerialAndSafe /\ [Next]_vars =>
          [\A k \in RowIds : rows[k].state = "inactive" => rows'[k] \in {rows[k], NoRow}]_vars
    BY StepFreezesTheTrail
  <1> QED
    BY <1>1, BothInvariantsHold, PTL DEF Spec, AuditTrailFrozen

(* What the step that reports an assign's success does. *)
LEMMA StepTakesEffect ==
    ASSUME SerialAndSafe, SerialAndSafe', [Next]_vars, NEW c \in Calls,
           req[c].kind = "assign", pc'[c] = "done", NEW r \in req[c].ids \cap present
    PROVE  Owner(r)' = req[c].rep
  <1>1. AssignmentInvariant /\ AssignmentInvariant' /\ SerialInvariant
    BY DEF SerialAndSafe
  <1>2. Commit(c)
    BY <1>1, SuccessIsACommit, ServesInFlight
  <1>3. r \in Retailers /\ r \in found[c]
    BY <1>1, <1>2
    DEF AssignmentInvariant, TypeOK, SerialInvariant, AssignPlanStands, Commit
  <1>4. CASE r \in ins[c]
    BY <1>1, <1>2, <1>3, <1>4, AssignCommits
  <1>5. CASE r \notin ins[c]
    <2>1. PICK k \in ActiveRows(r)' : rows'[k] = rows[k] /\ rows[k].rep = req[c].rep
      BY <1>1, <1>2, <1>3, <1>5, AssignKeepsFlags
    <2>2. mark[c][r] # "gone"
      BY <1>1, <1>3 DEF AssignmentInvariant, PlanFitsRequest, MayWrite
    <2>3. r \in present'
      BY <1>1, <1>2, <1>3, <2>2, CommitRetailers
    <2> QED
      BY <1>1, <1>3, <2>1, <2>3, OwnerOfPresentNext DEF AssignmentInvariant
  <1> QED
    BY <1>4, <1>5

(* An assign that reports success has made the representative the owner of *)
(* every requested retailer that exists.                                   *)
THEOREM AssignsTakeEffect ==
    ASSUME MaxInFlight = 1
    PROVE  Spec => AssignTakesEffect
  <1>1. SerialAndSafe /\ SerialAndSafe' /\ [Next]_vars =>
          [\A c \in Calls : req[c].kind = "assign" /\ pc'[c] = "done" =>
             \A r \in req[c].ids \cap present : Owner(r)' = req[c].rep]_vars
    BY StepTakesEffect
  <1> QED
    BY <1>1, BothInvariantsHold, PTL DEF Spec, AssignTakesEffect

(* What the step that reports an unassign's success does. *)
LEMMA StepReports ==
    ASSUME SerialAndSafe, SerialAndSafe', [Next]_vars, NEW c \in Calls,
           req[c].kind = "unassign", pc'[c] = "done"
    PROVE  found[c] = {r \in Retailers : Owner(r) # Owner(r)'}
  <1>1. AssignmentInvariant /\ AssignmentInvariant' /\ SerialInvariant
    BY DEF SerialAndSafe
  <1>2. Commit(c)
    BY <1>1, SuccessIsACommit, ServesInFlight
  <1>3. found[c] \subseteq Retailers
    BY <1>1 DEF AssignmentInvariant, TypeOK
  <1>4. \A r \in Retailers : r \in found[c] <=> \E k \in deact[c] : k[2] = r
    BY <1>1, <1>2, UnassignKeepsFlags
  <1>5. \A r \in Retailers : Owner(r) # Owner(r)' <=> \E k \in deact[c] : k[2] = r
    <2>1. req[c].rep # NoRep
      BY <1>1, <1>2, UnassignCommits, RepsAssumption
    <2> QED
      BY <1>1, <1>2, <2>1, UnassignCommits
  <1> QED
    BY <1>3, <1>4, <1>5

(* An unassign reports exactly the retailers that it took away.            *)
THEOREM UnassignsReportWhatTheyDid ==
    ASSUME MaxInFlight = 1
    PROVE  Spec => UnassignReportsWhatItDid
  <1>1. SerialAndSafe /\ SerialAndSafe' /\ [Next]_vars =>
          [\A c \in Calls : req[c].kind = "unassign" /\ pc'[c] = "done" =>
             found[c] = {r \in Retailers : Owner(r) # Owner(r)'}]_vars
    BY StepReports
  <1> QED
    BY <1>1, BothInvariantsHold, PTL DEF Spec, UnassignReportsWhatItDid

=============================================================================
