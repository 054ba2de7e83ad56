------------------------ MODULE ConnectionPoolProofs ------------------------
(***************************************************************************)
(* Proofs about ConnectionPool for every set of requests, of connections   *)
(* and of endpoints a request may be sent to.                              *)
(***************************************************************************)
EXTENDS ConnectionPool, TLAPS

(* What PoolInvariant says of one request. *)
Own(r) ==
    /\ pc[r] \in {"unsent", "queued"} => main[r] = NoSlot
    /\ nested[r] # NoSlot => pc[r] = "roles"
    /\ pc[r] = "start" => Shape(r) \in Beginning
    /\ pc[r] \in {"put", "tidy"} => Shape(r) = "bucket"
    /\ pc[r] = "invalidate" => Shape(r) = "invalidating"
    /\ pc[r] \in {"queuedForRoles", "roles", "save", "rename", "repath"} =>
          Shape(r) = "createUser"
    /\ \A s \in Slots : r \in pending[s] =>
          /\ main[r] = s /\ active[r] /\ Shape(r) \in Writers
          /\ pc[r] \in {"rename", "repath", "commit", "failed"}
    /\ pc[r] \in {"rename", "repath", "commit"} /\ Shape(r) \in Writers
          /\ main[r] # NoSlot => r \in pending[main[r]]
    /\ pc[r] \in {"put", "work", "queuedForRoles", "roles", "save"}
          /\ Shape(r) \in Beginning => active[r]
    /\ r \in committed =>
          \/ pc[r] \in {"tidy", "invalidate", "release", "ok"}
          \/ Shape(r) = "unstarted" /\ pc[r] \in {"commit", "failed", "error"}
          \/ Shape(r) \in {"bucket", "invalidating"} /\ pc[r] \in {"failed", "error"}
          \/ r \in cut /\ main[r] = NoSlot /\ pc[r] \in {"commit", "failed", "error"}
    /\ pc[r] \in {"tidy", "invalidate", "release", "ok"} /\ Shape(r) \in Writers =>
          r \in committed
    /\ pc[r] = "unsent" => path[r] = "none"
    /\ pc[r] \in {"queued", "start", "work", "queuedForRoles", "roles", "save"}
          /\ Shape(r) = "createUser" => path[r] = "none"
    /\ pc[r] = "repath" => disk[r] = "final"
    /\ pc[r] = "commit" /\ Shape(r) \in {"createUser", "upload"} => disk[r] = path[r]
    /\ Shape(r) = "bucket" /\ pc[r] \in {"work", "commit"} => r \in bucket
    /\ pc[r] \in Answered /\ main[r] # NoSlot => KeepsForGood(r)
    /\ r \in committed =>
          /\ Shape(r) \in {"createUser", "upload"} => disk[r] = path[r]
          /\ Shape(r) = "bucket" => r \in bucket

(* The invariant is a statement about the queue, one about who holds       *)
(* what, and one about each request.                                       *)
LEMMA InvariantParts ==
    PoolInvariant <=> TypeOK /\ WaitingOnce /\ HeldOnce /\ \A r \in Requests : Own(r)
<1>1. ASSUME PoolInvariant PROVE WaitingOnce /\ HeldOnce /\ \A r \in Requests : Own(r)
  BY <1>1 DEF PoolInvariant, Own, HeldForAReason, StepsFitShapes, PendingIsOwn,
     CommittedAtTheEnd, FilesInPlace, LostConnectionsHaveACause, RowsHaveTheirFile
<1>2. ASSUME TypeOK, WaitingOnce, HeldOnce, \A r \in Requests : Own(r) PROVE PoolInvariant
  <2>1. HeldForAReason /\ StepsFitShapes
    BY <1>2 DEF Own, HeldForAReason, StepsFitShapes
  <2>2. PendingIsOwn
    <3>1. \A s \in Slots : pending[s] \subseteq Requests
      BY <1>2 DEF TypeOK
    <3> QED
      BY <1>2, <3>1 DEF Own, PendingIsOwn
  <2>3. CommittedAtTheEnd
    BY <1>2 DEF Own, CommittedAtTheEnd
  <2>4. FilesInPlace
    BY <1>2 DEF Own, FilesInPlace
  <2>5. LostConnectionsHaveACause
    BY <1>2 DEF Own, LostConnectionsHaveACause, Answered
  <2>6. AnswersMatchData
    BY <2>3 DEF CommittedAtTheEnd, AnswersMatchData, Writers
  <2>7. RowsHaveTheirFile
    BY <1>2 DEF Own, RowsHaveTheirFile, TypeOK
  <2> QED
    BY <1>2, <2>1, <2>2, <2>3, <2>4, <2>5, <2>6, <2>7 DEF PoolInvariant
<1> QED
  BY <1>1, <1>2 DEF PoolInvariant

(* The same of the next state. *)
LEMMA InvariantPartsNext ==
    (PoolInvariant <=> TypeOK /\ WaitingOnce /\ HeldOnce /\ \A r \in Requests : Own(r))'
  BY InvariantParts, PTL

(* A step of r changes nothing that belongs to another request: no         *)
(* connection but its own, no writes but its own.                          *)
Others(r) ==
    /\ \A q \in Requests \ {r} :
          /\ pc'[q] = pc[q] /\ endpoint'[q] = endpoint[q]
          /\ main'[q] = main[q] /\ nested'[q] = nested[q] /\ active'[q] = active[q]
          /\ disk'[q] = disk[q] /\ path'[q] = path[q]
          /\ (q \in committed' <=> q \in committed)
          /\ (q \in cut' <=> q \in cut) /\ (q \in bucket' <=> q \in bucket)
          /\ \A s \in Slots : q \in pending'[s] <=> q \in pending[s]
    /\ \A s \in Slots : s # main[r] /\ s # nested[r] => tx'[s] = tx[s]

(* What a request has is untouched by the steps of another one. *)
LEMMA OthersKeep ==
    ASSUME PoolInvariant, NEW r \in Requests, Others(r), NEW q \in Requests \ {r}
    PROVE  Own(q)'
<1>1. TypeOK /\ HeldOnce /\ Own(q)
  BY InvariantParts
<1>2. main[q] \in Slots =>
          main[q] # main[r] /\ main[q] # nested[r] /\ tx'[main[q]] = tx[main[q]]
  BY <1>1, SlotsAssumption DEF HeldOnce, Others, TypeOK
<1>3. Shape(q)' = Shape(q)
  BY DEF Others, Shape
<1>4. pc'[q] \in Answered /\ main'[q] # NoSlot => KeepsForGood(q)'
  BY <1>1, <1>2, <1>3 DEF Others, Own, KeepsForGood, TypeOK
<1> QED
  BY <1>1, <1>3, <1>4 DEF Own, Others, TypeOK

(* The holder of a connection is the only one who wrote in its             *)
(* transaction.                                                            *)
LEMMA OwnPending ==
    ASSUME PoolInvariant, NEW r \in Requests, main[r] \in Slots
    PROVE  pending[main[r]] \subseteq {r}
<1>1. TypeOK /\ HeldOnce /\ \A q \in Requests : Own(q)
  BY InvariantParts
<1>2. main[r] # NoSlot
  BY SlotsAssumption
<1>3. ASSUME NEW q \in pending[main[r]] PROVE q = r
  <2>1. q \in Requests
    BY <1>1 DEF TypeOK
  <2>2. main[q] = main[r]
    BY <1>1, <2>1 DEF Own
  <2> QED
    BY <1>1, <1>2, <2>1, <2>2 DEF HeldOnce
<1> QED
  BY <1>3

(* A step of one request keeps the invariant if it does for that request,  *)
(* for the queue and for who holds what.                                   *)
LEMMA PoolStep ==
    ASSUME PoolInvariant, NEW r \in Requests, Others(r), TypeOK', Own(r)', WaitingOnce', HeldOnce'
    PROVE  PoolInvariant'
  BY OthersKeep, InvariantPartsNext

(* A request that did not wait joins the queue. *)
LEMMA JoinQueue ==
    ASSUME TypeOK, WaitingOnce, NEW r \in Requests, pc[r] \notin Waiting,
           queue' = Append(queue, r), pc' = [pc EXCEPT ![r] = pc'[r]], pc'[r] \in Waiting
    PROVE  WaitingOnce'
<1>1. /\ Len(queue) \in Nat /\ DOMAIN queue = 1 .. Len(queue)
      /\ DOMAIN queue' = 1 .. Len(queue) + 1
      /\ queue'[Len(queue) + 1] = r
      /\ \A i \in DOMAIN queue : queue'[i] = queue[i] /\ queue[i] \in Requests \ {r}
  BY DEF TypeOK, WaitingOnce
<1>2. \A i \in DOMAIN queue' : i = Len(queue) + 1 \/ i \in DOMAIN queue
  BY <1>1
<1> QED
  BY <1>1, <1>2 DEF WaitingOnce, TypeOK

(* A step that is not about waiting or connections keeps the invariant if  *)
(* it does for the request that makes it.                                  *)
LEMMA LocalStep ==
    ASSUME PoolInvariant, NEW r \in Requests, Others(r), TypeOK', Own(r)',
           queue' = queue, pc[r] \notin Waiting,
           main'[r] \in {main[r], NoSlot}, nested'[r] \in {nested[r], NoSlot}
    PROVE  PoolInvariant'
<1>1. TypeOK /\ WaitingOnce /\ HeldOnce
  BY InvariantParts
<1>2. \A i \in DOMAIN queue : queue[i] \in Requests
  BY <1>1 DEF TypeOK
<1>3. WaitingOnce'
  BY <1>1, <1>2 DEF WaitingOnce, Others
<1>4. HeldOnce'
  BY <1>1 DEF HeldOnce, Others
<1>5. \A q \in Requests : Own(q)'
  BY OthersKeep
<1> QED
  BY <1>3, <1>4, <1>5, InvariantPartsNext

(* START TRANSACTION keeps the invariant, refused or not. *)
LEMMA StartKeeps ==
    ASSUME PoolInvariant, NEW r \in Requests, Start(r)
    PROVE  PoolInvariant'
<1> TypeOK /\ Own(r)
  BY InvariantParts
<1> USE DEF Start, Goto, pool, files
<1>1. TypeOK'
  BY DEF TypeOK, Running, Answered, Waiting, Places
<1>2. Others(r)
  BY DEF Others, TypeOK
<1>3. Own(r)'
  <2>1. CASE CanQuery(r)
    BY <2>1, SlotsAssumption DEF Own, TypeOK, Shape, CanQuery, Answered, Writers, Uploads
  <2>2. CASE ~CanQuery(r)
    <3>1. pc'[r] = "error" /\ Shape(r)' = Shape(r) /\ main' = main /\ tx' = tx
      BY <2>2 DEF TypeOK, Shape
    <3>2. main'[r] # NoSlot => KeepsForGood(r)'
      BY <2>2, <3>1 DEF Own, KeepsForGood, CanQuery
    <3> QED
      BY <2>2, <3>1, <3>2 DEF Own, TypeOK
  <2> QED
    BY <2>1, <2>2
<1> QED
  BY <1>1, <1>2, <1>3, LocalStep DEF TypeOK, Waiting

(* Putting a file into the bucket keeps it. *)
LEMMA PutObjectKeeps ==
    ASSUME PoolInvariant, NEW r \in Requests, PutObject(r)
    PROVE  PoolInvariant'
<1> TypeOK /\ Own(r)
  BY InvariantParts
<1> USE DEF PutObject, Goto, pool, files
<1>1. TypeOK'
  BY DEF TypeOK, Running, Answered, Waiting, Places
<1>2. Others(r)
  BY DEF Others, TypeOK
<1>3. Own(r)'
  BY SlotsAssumption DEF Own, TypeOK, Shape, Writers, Uploads, Answered
<1> QED
  BY <1>1, <1>2, <1>3, LocalStep DEF TypeOK, Waiting

(* A statement that only reads keeps the invariant. *)
LEMMA ReadKeeps ==
    ASSUME PoolInvariant, NEW r \in Requests, Read(r)
    PROVE  PoolInvariant'
<1> TypeOK /\ Own(r)
  BY InvariantParts
<1> USE DEF Read, Goto, pool, files
<1>1. TypeOK'
  BY DEF TypeOK, Running, Answered, Waiting, Places
<1>2. Others(r)
  BY DEF Others, TypeOK
<1>3. Own(r)'
  BY SlotsAssumption DEF Own, TypeOK, Shape, CanQuery, Writers, Kept, Uploads, Answered
<1> QED
  BY <1>1, <1>2, <1>3, LocalStep DEF TypeOK, Waiting

(* A write in a transaction keeps it: the row is pending on the            *)
(* connection of its request.                                              *)
LEMMA WriteKeeps ==
    ASSUME PoolInvariant, NEW r \in Requests, Write(r)
    PROVE  PoolInvariant'
<1> TypeOK /\ Own(r)
  BY InvariantParts
<1> USE DEF Write, Goto, pool, files
<1>1. TypeOK'
  BY DEF TypeOK, Running, Answered, Waiting, Places
<1>2. Others(r)
  BY DEF Others, TypeOK
<1>3. Own(r)'
  BY SlotsAssumption DEF Own, TypeOK, Shape, CanQuery, Writers, Beginning, Uploads, Answered
<1> QED
  BY <1>1, <1>2, <1>3, LocalStep DEF TypeOK, Waiting

(* Reading the roles on the second connection, and giving that one back,   *)
(* keeps it.                                                               *)
LEMMA FindRolesKeeps ==
    ASSUME PoolInvariant, NEW r \in Requests, FindRoles(r)
    PROVE  PoolInvariant'
<1> TypeOK /\ Own(r)
  BY InvariantParts
<1> USE DEF FindRoles, Goto, pool, files
<1>1. TypeOK'
  BY DEF TypeOK, Running, Answered, Waiting, Places
<1>2. Others(r)
  BY DEF Others, TypeOK
<1>3. Own(r)'
  BY SlotsAssumption DEF Own, TypeOK, Shape, Answered
<1> QED
  BY <1>1, <1>2, <1>3, LocalStep DEF TypeOK, Waiting

(* So does failing to read them: what is aborted there is nobody's.        *)
LEMMA FindRolesFailsKeeps ==
    ASSUME PoolInvariant, NEW r \in Requests, FindRolesFails(r)
    PROVE  PoolInvariant'
<1> TypeOK /\ Own(r)
  BY InvariantParts
<1> USE DEF FindRolesFails, Goto, files
<1>1. TypeOK'
  BY DEF TypeOK, Running, Answered, Waiting, Places
<1>2. Others(r)
  BY DEF Others, TypeOK
<1>3. Own(r)'
  BY SlotsAssumption DEF Own, TypeOK, Shape, Answered
<1> QED
  BY <1>1, <1>2, <1>3, LocalStep DEF TypeOK, Waiting

(* Saving the user of createUser keeps it. *)
LEMMA SaveUserKeeps ==
    ASSUME PoolInvariant, NEW r \in Requests, SaveUser(r)
    PROVE  PoolInvariant'
<1> TypeOK /\ Own(r)
  BY InvariantParts
<1> USE DEF SaveUser, Goto, pool, files
<1>1. TypeOK'
  BY DEF TypeOK, Running, Answered, Waiting, Places
<1>2. Others(r)
  BY DEF Others, TypeOK
<1>3. Own(r)'
  BY SlotsAssumption DEF Own, TypeOK, Shape, CanQuery, Writers, Beginning, Uploads, Answered
<1> QED
  BY <1>1, <1>2, <1>3, LocalStep DEF TypeOK, Waiting

(* Moving an uploaded file to its final place keeps it: its row is not     *)
(* committed yet.                                                          *)
LEMMA RenameFileKeeps ==
    ASSUME PoolInvariant, NEW r \in Requests, RenameFile(r)
    PROVE  PoolInvariant'
<1> TypeOK /\ Own(r)
  BY InvariantParts
<1> USE DEF RenameFile, Goto, pool, files
<1>1. TypeOK'
  BY DEF TypeOK, Running, Answered, Waiting, Places
<1>2. Others(r)
  BY DEF Others, TypeOK
<1>3. Own(r)'
  BY SlotsAssumption DEF Own, TypeOK, Shape, Answered
<1> QED
  BY <1>1, <1>2, <1>3, LocalStep DEF TypeOK, Waiting

(* Writing the final place into the row of the file keeps it. *)
LEMMA UpdateFilePathKeeps ==
    ASSUME PoolInvariant, NEW r \in Requests, UpdateFilePath(r)
    PROVE  PoolInvariant'
<1> TypeOK /\ Own(r)
  BY InvariantParts
<1> USE DEF UpdateFilePath, Goto, pool, files
<1>1. TypeOK'
  BY DEF TypeOK, Running, Answered, Waiting, Places
<1>2. Others(r)
  BY DEF Others, TypeOK
<1>3. Own(r)'
  BY SlotsAssumption DEF Own, TypeOK, Shape, CanQuery, Answered
<1> QED
  BY <1>1, <1>2, <1>3, LocalStep DEF TypeOK, Waiting

(* Removing the local copy of a file that is in the bucket keeps it. *)
LEMMA RemoveLocalFileKeeps ==
    ASSUME PoolInvariant, NEW r \in Requests, RemoveLocalFile(r)
    PROVE  PoolInvariant'
<1> TypeOK /\ Own(r)
  BY InvariantParts
<1> USE DEF RemoveLocalFile, Goto, pool, files
<1>1. TypeOK'
  BY DEF TypeOK, Running, Answered, Waiting, Places
<1>2. Others(r)
  BY DEF Others, TypeOK
<1>3. Own(r)'
  BY SlotsAssumption DEF Own, TypeOK, Shape, Answered, Writers, Uploads
<1> QED
  BY <1>1, <1>2, <1>3, LocalStep DEF TypeOK, Waiting

(* Deleting the cached pages after a COMMIT keeps it, refused or not. *)
LEMMA InvalidateCacheKeeps ==
    ASSUME PoolInvariant, NEW r \in Requests, InvalidateCache(r)
    PROVE  PoolInvariant'
<1> TypeOK /\ Own(r)
  BY InvariantParts
<1> USE DEF InvalidateCache, Goto, pool, files
<1>1. TypeOK'
  BY DEF TypeOK, Running, Answered, Waiting, Places
<1>2. Others(r)
  BY DEF Others, TypeOK
<1>3. Own(r)'
  BY SlotsAssumption DEF Own, TypeOK, Shape, Answered, Writers, Uploads
<1> QED
  BY <1>1, <1>2, <1>3, LocalStep DEF TypeOK, Waiting

(* A statement the database refuses keeps it. *)
LEMMA StatementFailsKeeps ==
    ASSUME PoolInvariant, NEW r \in Requests, StatementFails(r)
    PROVE  PoolInvariant'
<1> TypeOK /\ Own(r)
  BY InvariantParts
<1> USE DEF StatementFails, Goto, pool, files
<1>1. TypeOK'
  BY DEF TypeOK, Running, Answered, Waiting, Places
<1>2. Others(r)
  BY DEF Others, TypeOK
<1>3. Own(r)'
  BY SlotsAssumption DEF Own, TypeOK, Shape, Answered
<1> QED
  BY <1>1, <1>2, <1>3, LocalStep DEF TypeOK, Waiting

(* An exception the handler throws itself keeps it. *)
LEMMA RefuseKeeps ==
    ASSUME PoolInvariant, NEW r \in Requests, Refuse(r)
    PROVE  PoolInvariant'
<1> TypeOK /\ Own(r)
  BY InvariantParts
<1> USE DEF Refuse, Goto, pool, files
<1>1. TypeOK'
  BY DEF TypeOK, Running, Answered, Waiting, Places
<1>2. Others(r)
  BY DEF Others, TypeOK
<1>3. Own(r)'
  BY SlotsAssumption DEF Own, TypeOK, Shape, Answered, CanQuery
<1> QED
  BY <1>1, <1>2, <1>3, LocalStep DEF TypeOK, Waiting

(* A disk or a bucket that fails keeps it. *)
LEMMA FileFailsKeeps ==
    ASSUME PoolInvariant, NEW r \in Requests, FileFails(r)
    PROVE  PoolInvariant'
<1> TypeOK /\ Own(r)
  BY InvariantParts
<1> USE DEF FileFails, Goto, pool, files
<1>1. TypeOK'
  BY DEF TypeOK, Running, Answered, Waiting, Places
<1>2. Others(r)
  BY DEF Others, TypeOK
<1>3. Own(r)'
  BY SlotsAssumption DEF Own, TypeOK, Shape, Answered
<1> QED
  BY <1>1, <1>2, <1>3, LocalStep DEF TypeOK, Waiting

(* A handler that answers keeps it: it gives its connection back, or is    *)
(* one of those that never do.                                             *)
LEMMA ReleaseKeeps ==
    ASSUME PoolInvariant, NEW r \in Requests, Release(r)
    PROVE  PoolInvariant'
<1> TypeOK /\ Own(r)
  BY InvariantParts
<1> USE DEF Release, Goto, pool, files
<1>1. TypeOK'
  BY DEF TypeOK, Running, Answered, Waiting, Places
<1>2. Others(r)
  BY DEF Others, TypeOK
<1>3. Own(r)'
  BY SlotsAssumption DEF Own, TypeOK, Shape, Answered, Kept, KeepsForGood, Writers, Uploads, Beginning
<1> QED
  BY <1>1, <1>2, <1>3, LocalStep DEF TypeOK, Waiting

(* A request that ends the transaction on its connection ends its own. *)
LEMMA WriteUnstartedKeeps ==
    ASSUME PoolInvariant, NEW r \in Requests, WriteUnstarted(r)
    PROVE  PoolInvariant'
<1> TypeOK /\ Own(r)
  BY InvariantParts
<1> USE DEF WriteUnstarted, Goto, EndTransaction, files
<1>1. main[r] \in Slots /\ pending[main[r]] \subseteq {r}
  BY OwnPending DEF CanQuery, TypeOK
<1>2. TypeOK'
  BY <1>1 DEF TypeOK, Running
<1>3. Others(r)
  BY <1>1 DEF Others, TypeOK
<1>4. Own(r)'
  BY <1>1 DEF Own, TypeOK, Shape, CanQuery, Answered, Writers, Uploads
<1> QED
  BY <1>2, <1>3, <1>4, LocalStep DEF TypeOK, Waiting

(* A commit commits what its own request has written. *)
LEMMA CommitKeeps ==
    ASSUME PoolInvariant, NEW r \in Requests, Commit(r)
    PROVE  PoolInvariant'
<1> TypeOK /\ Own(r)
  BY InvariantParts
<1> USE DEF Commit, Goto, EndTransaction, files
<1>1. main[r] # NoSlot => main[r] \in Slots /\ pending[main[r]] \subseteq {r}
  BY OwnPending DEF TypeOK
<1>2. TypeOK'
  BY <1>1 DEF TypeOK, Running, CanQuery, AfterCommit
<1>3. Others(r)
  BY <1>1 DEF Others, TypeOK, CanQuery
<1>4. Own(r)'
  <2>1. CASE active[r] /\ CanQuery(r)
    BY <1>1, <2>1 DEF Own, TypeOK, Shape, CanQuery, Answered, Writers, Uploads, AfterCommit
  <2>2. CASE ~(active[r] /\ CanQuery(r))
    BY <2>2 DEF Own, TypeOK, Shape, CanQuery, Answered, Writers, Uploads
  <2> QED
    BY <2>1, <2>2
<1> QED
  BY <1>2, <1>3, <1>4, LocalStep DEF TypeOK, Waiting

(* A rollback that is carried out ends the transaction of its request; one *)
(* that throws had nothing to end.                                         *)
LEMMA RecoverKeeps ==
    ASSUME PoolInvariant, NEW r \in Requests, Recover(r)
    PROVE  PoolInvariant'
<1> TypeOK /\ Own(r)
  BY InvariantParts
<1> USE DEF Recover, Goto, EndTransaction
<1>1. RollsBack(r) => main[r] \in Slots /\ pending[main[r]] \subseteq {r}
  BY OwnPending DEF TypeOK, RollsBack
<1>2. TypeOK'
  BY <1>1 DEF TypeOK, Answered, Places
<1>3. Others(r)
  BY <1>1 DEF Others, TypeOK
<1>4. Own(r)'
  <2>1. \A s \in Slots : r \notin pending'[s]
    <3>1. \A s \in Slots : r \in pending[s] => RollsBack(r) /\ main[r] = s
      BY SlotsAssumption DEF Own, RollsBack, Writers, Uploads, Kept
    <3> QED
      BY <1>1, <3>1 DEF TypeOK
  <2>2. r \in committed => ~RollsBack(r) \/ Shape(r) # "upload"
    BY DEF Own, RollsBack
  <2>3. Shape(r)' = Shape(r)
    BY DEF Shape
  <2> QED
    BY <2>1, <2>2, <2>3, SlotsAssumption DEF Own, TypeOK, Answered, KeepsForGood
<1> QED
  BY <1>2, <1>3, <1>4, LocalStep DEF TypeOK, Waiting

(* Asking for a second connection keeps the queue without repetitions. *)
LEMMA AskForRolesKeeps ==
    ASSUME PoolInvariant, NEW r \in Requests, AskForRoles(r)
    PROVE  PoolInvariant'
<1> TypeOK /\ Own(r) /\ WaitingOnce /\ HeldOnce
  BY InvariantParts
<1> USE DEF AskForRoles, Goto, files
<1>1. TypeOK'
  BY DEF TypeOK, Waiting
<1>2. Others(r)
  BY DEF Others, TypeOK
<1>3. Own(r)'
  BY DEF Own, TypeOK, Shape, Answered, Writers, Uploads
<1>4. WaitingOnce'
  BY JoinQueue DEF TypeOK, Waiting
<1>5. HeldOnce'
  BY DEF HeldOnce
<1> QED
  BY <1>1, <1>2, <1>3, <1>4, <1>5, PoolStep

(* So does the arrival of a request. *)
LEMMA ReceiveKeeps ==
    ASSUME PoolInvariant, NEW r \in Requests, NEW e \in AllEndpoints, Receive(r, e)
    PROVE  PoolInvariant'
<1> TypeOK /\ Own(r) /\ WaitingOnce /\ HeldOnce
  BY InvariantParts
<1> USE DEF Receive, Goto
<1>1. TypeOK'
  BY DEF TypeOK, Waiting, Places
<1>2. Others(r)
  BY DEF Others, TypeOK
<1>3. Own(r)'
  BY DEF Own, TypeOK, Answered
<1>4. WaitingOnce'
  BY JoinQueue DEF TypeOK, Waiting
<1>5. HeldOnce'
  BY DEF HeldOnce
<1> QED
  BY <1>1, <1>2, <1>3, <1>4, <1>5, PoolStep

(* The pool hands out a connection nobody has, and its user finds no       *)
(* writes of others on it.                                                 *)
LEMMA GrantKeeps ==
    ASSUME PoolInvariant, NEW s \in Slots, Grant(s)
    PROVE  PoolInvariant'
<1>0. TypeOK /\ WaitingOnce /\ HeldOnce /\ queue # <<>>
  BY InvariantParts DEF Grant
<1> PICK r \in Requests : r = Head(queue)
  BY <1>0 DEF TypeOK
<1>1. /\ r = queue[1] /\ pc[r] \in Waiting
      /\ Tail(queue) \in Seq(Requests)
      /\ \A i \in DOMAIN Tail(queue) :
            /\ i + 1 \in DOMAIN queue /\ Tail(queue)[i] = queue[i + 1]
            /\ queue[i + 1] # r
  BY <1>0 DEF WaitingOnce, TypeOK
<1>2. Own(r)
  BY <1>1, InvariantParts
<1>3. /\ Free(s) /\ queue' = Tail(queue)
      /\ IF pc[r] = "queuedForRoles"
         THEN nested' = [nested EXCEPT ![r] = s] /\ Goto(r, "roles") /\ UNCHANGED main
         ELSE /\ main' = [main EXCEPT ![r] = s] /\ UNCHANGED nested
              /\ Goto(r, IF Shape(r) \in Beginning THEN "start" ELSE "work")
      /\ UNCHANGED <<endpoint, active, tx, pending, committed, cut, files>>
  BY DEF Grant
<1>4. TypeOK'
  BY <1>0, <1>1, <1>3 DEF TypeOK, Goto, Running, files
<1>5. Others(r)
  BY <1>0, <1>1, <1>3 DEF Others, TypeOK, Goto, files
<1>6. Own(r)'
  <2>1. /\ Shape(r)' = Shape(r) /\ pending' = pending /\ active' = active
        /\ disk' = disk /\ path' = path /\ bucket' = bucket
        /\ committed' = committed /\ cut' = cut
    BY <1>3 DEF Shape, files
  <2>2. CASE pc[r] = "queuedForRoles"
    <3>1. pc'[r] = "roles" /\ main' = main
      BY <1>0, <1>3, <2>2 DEF Goto, TypeOK
    <3> QED
      BY <1>2, <2>1, <2>2, <3>1 DEF Own, Answered
  <2>3. CASE pc[r] = "queued"
    <3>1. /\ pc'[r] = IF Shape(r) \in Beginning THEN "start" ELSE "work"
          /\ nested' = nested
      BY <1>0, <1>3, <2>3 DEF Goto, TypeOK
    <3>2. Shape(r) # "bucket" \/ pc'[r] = "start"
      BY <3>1 DEF Beginning, Writers, Uploads
    <3> QED
      BY <1>2, <2>1, <2>3, <3>1, <3>2 DEF Own, Answered
  <2> QED
    BY <1>1, <2>2, <2>3 DEF Waiting
<1>7. WaitingOnce'
  BY <1>0, <1>1, <1>3 DEF WaitingOnce, Goto, TypeOK
<1>8. HeldOnce'
  BY <1>0, <1>1, <1>2, <1>3, SlotsAssumption DEF HeldOnce, Free, Own, Goto, TypeOK, Waiting
<1> QED
  BY <1>1, <1>4, <1>5, <1>6, <1>7, <1>8, PoolStep

(* A connection that ends is nobody's; a COMMIT that it carried out was    *)
(* its holder's.                                                           *)
LEMMA ConnectionEndKeeps ==
    ASSUME PoolInvariant, NEW s \in Slots, ConnectionEnds(s)
    PROVE  PoolInvariant'
<1> TypeOK /\ WaitingOnce /\ HeldOnce /\ s # NoSlot
  BY InvariantParts, SlotsAssumption
<1>1. /\ tx' = [tx EXCEPT ![s] = "none"] /\ pending' = [pending EXCEPT ![s] = {}]
      /\ main' = [r \in Requests |-> IF main[r] = s THEN NoSlot ELSE main[r]]
      /\ nested' = [r \in Requests |-> IF nested[r] = s THEN NoSlot ELSE nested[r]]
      /\ pc' = pc /\ endpoint' = endpoint /\ active' = active /\ queue' = queue
      /\ disk' = disk /\ path' = path /\ bucket' = bucket
  BY DEF ConnectionEnds, EndTransaction, files
<1>2. \/ committed' = committed /\ cut' = cut
      \/ \E r \in Requests :
            /\ main[r] = s /\ pc[r] = "commit"
            /\ committed' = committed \cup pending[s] /\ cut' = cut \cup {r}
  BY DEF ConnectionEnds
<1>3. TypeOK'
  BY <1>1, <1>2 DEF TypeOK
<1>4. WaitingOnce' /\ HeldOnce'
  BY <1>1 DEF WaitingOnce, HeldOnce
<1>5. ASSUME NEW q \in Requests PROVE Own(q)'
  <2>1. Own(q)
    BY InvariantParts
  <2>2. /\ q \in committed => q \in committed'
        /\ q \in cut => q \in cut'
        /\ q \in committed' =>
              \/ q \in committed
              \/ q \in cut' /\ main[q] = s /\ pc[q] = "commit" /\ q \in pending[s]
    BY <1>2, OwnPending
  <2> QED
    BY <1>1, <2>1, <2>2 DEF Own, TypeOK, Shape, KeepsForGood, Answered
<1> QED
  BY <1>3, <1>4, <1>5, InvariantPartsNext

(* The invariant holds before any request is sent. *)
LEMMA InvariantInitially == Init => PoolInvariant
<1> SUFFICES ASSUME Init PROVE PoolInvariant
  OBVIOUS
<1>1. TypeOK
  BY DEF Init, TypeOK, NoEndpoint, Places
<1>2. WaitingOnce /\ HeldOnce
  BY DEF Init, WaitingOnce, HeldOnce
<1>3. \A r \in Requests : Own(r)
  BY DEF Init, Own, Answered
<1> QED
  BY <1>1, <1>2, <1>3, InvariantParts

(* Every step of a request and of the database keeps it. *)
LEMMA InvariantStep == PoolInvariant /\ [Next]_vars => PoolInvariant'
<1> SUFFICES ASSUME PoolInvariant, [Next]_vars PROVE PoolInvariant'
  OBVIOUS
<1>1. ASSUME NEW r \in Requests, NEW e \in Endpoints[r], Receive(r, e) PROVE PoolInvariant'
  <2>1. e \in AllEndpoints
    BY EndpointsAssumption
  <2> QED
    BY <1>1, <2>1, ReceiveKeeps
<1>2. ASSUME NEW s \in Slots, Grant(s) \/ ConnectionEnds(s) PROVE PoolInvariant'
  BY <1>2, GrantKeeps, ConnectionEndKeeps
<1>3. ASSUME NEW r \in Requests, Step(r) PROVE PoolInvariant'
  BY <1>3, StartKeeps, PutObjectKeeps, ReadKeeps, WriteKeeps, WriteUnstartedKeeps,
     AskForRolesKeeps, FindRolesKeeps, FindRolesFailsKeeps, SaveUserKeeps, RenameFileKeeps,
     UpdateFilePathKeeps, CommitKeeps, RemoveLocalFileKeeps, InvalidateCacheKeeps,
     StatementFailsKeeps, RefuseKeeps, FileFailsKeeps,
     RecoverKeeps, ReleaseKeeps DEF Step
<1>4. CASE UNCHANGED vars
  <2>1. /\ pc' = pc /\ endpoint' = endpoint /\ main' = main /\ nested' = nested
        /\ active' = active /\ queue' = queue /\ tx' = tx /\ pending' = pending
        /\ committed' = committed /\ cut' = cut /\ disk' = disk /\ path' = path
        /\ bucket' = bucket
    BY <1>4 DEF vars, pool, files, request
  <2>2. TypeOK /\ WaitingOnce /\ HeldOnce /\ \A r \in Requests : Own(r)
    BY InvariantParts
  <2>3. (TypeOK /\ WaitingOnce /\ HeldOnce)'
    BY <2>1, <2>2 DEF TypeOK, WaitingOnce, HeldOnce
  <2>4. \A r \in Requests : Own(r)'
    BY <2>1, <2>2 DEF Own, Shape, KeepsForGood
  <2> QED
    BY <2>3, <2>4, InvariantPartsNext
<1> QED
  BY <1>1, <1>2, <1>3, <1>4 DEF Next

(* For every mix of handlers and every size of the pool: who holds which   *)
(* connection, what its transaction holds, what is committed and where the *)
(* files are.                                                              *)
THEOREM PoolInvariantHolds == Spec => []PoolInvariant
  BY InvariantInitially, InvariantStep, PTL DEF Spec

(* An answered request has a connection only when its handler never gives  *)
(* one back, or could not begin.                                           *)
THEOREM NoOtherLeaks == Spec => []LostConnectionsHaveACause
<1>1. PoolInvariant => LostConnectionsHaveACause
  BY DEF PoolInvariant
<1> QED
  BY <1>1, PoolInvariantHolds, PTL

(* Writes of a failed request are not committed by the next user of its    *)
(* connection, and what is reported as done is committed.                  *)
THEOREM AnswersAlwaysMatchData == Spec => []AnswersMatchData
<1>1. PoolInvariant => AnswersMatchData
  BY DEF PoolInvariant
<1> QED
  BY <1>1, PoolInvariantHolds, PTL

(* A committed row of createUser, createFilesFromMulter or uploadBucketFile *)
(* names a place where its handler has left the file.                      *)
THEOREM RowsAlwaysHaveTheirFile == Spec => []RowsHaveTheirFile
<1>1. PoolInvariant => RowsHaveTheirFile
  BY DEF PoolInvariant
<1> QED
  BY <1>1, PoolInvariantHolds, PTL

-----------------------------------------------------------------------------
(* Every handler of the API has one of these shapes. *)
Shapes == {"cached", "left open", "kept open", "kept"} \cup Outside \cup Writers

(* A table of shapes. *)
HasShapes(t) == \A h \in DOMAIN t : t[h] \in Shapes

(* The entries of two tables of shapes are one. *)
LEMMA BothHaveShapes ==
    ASSUME NEW t, NEW u, HasShapes(t), HasShapes(u)
    PROVE  HasShapes(Both(t, u))
  BY DEF HasShapes, Both

(* The tables of the handlers hold shapes. *)
LEMMA TablesHaveShapes ==
    /\ HasShapes(RetailerPages) /\ HasShapes(RetailerSearches)
    /\ HasShapes(RetailerFilters) /\ HasShapes(RetailerCounts)
    /\ HasShapes(AdminRetailers) /\ HasShapes(AdminRetailerCount)
    /\ HasShapes(RegionPages) /\ HasShapes(RegionReads) /\ HasShapes(RegionWrites)
    /\ HasShapes(AreaCreation) /\ HasShapes(AreaChanges)
    /\ HasShapes(AreaAssignments) /\ HasShapes(TerritoryAssignments)
    /\ HasShapes(AreaPages) /\ HasShapes(AreaCount) /\ HasShapes(AreaTerritoryCount)
    /\ HasShapes(TerritoryPages) /\ HasShapes(TerritoryChanges)
    /\ HasShapes(TerritoryCreation)
    /\ HasShapes(DistributorCreation) /\ HasShapes(DistributorChanges)
    /\ HasShapes(DistributorCount)
    /\ HasShapes(UserCreation) /\ HasShapes(FileUploads) /\ HasShapes(BucketUploads)
<1>1. HasShapes(RetailerPages)
  <2>1. /\ DOMAIN RetailerPages =
              {"listPaginatedAssignedRetailers", "listAllPaginatedUnassignedRetailers", "getRetailerDetail"}
        /\ RetailerPages.listPaginatedAssignedRetailers \in Shapes
        /\ RetailerPages.listAllPaginatedUnassignedRetailers \in Shapes
        /\ RetailerPages.getRetailerDetail \in Shapes
    BY DEF RetailerPages, Shapes, Outside, Writers, Uploads
  <2> QED
    BY <2>1 DEF HasShapes
<1>2. HasShapes(RetailerSearches)
  <2>1. /\ DOMAIN RetailerSearches = {"searchAssignedRetailers", "searchRetailers"}
        /\ RetailerSearches.searchAssignedRetailers \in Shapes
        /\ RetailerSearches.searchRetailers \in Shapes
    BY DEF RetailerSearches, Shapes, Outside, Writers, Uploads
  <2> QED
    BY <2>1 DEF HasShapes
<1>3. HasShapes(RetailerFilters)
  <2>1. /\ DOMAIN RetailerFilters = {"filterRetailers", "filterAssignedRetailers"}
        /\ RetailerFilters.filterRetailers \in Shapes
        /\ RetailerFilters.filterAssignedRetailers \in Shapes
    BY DEF RetailerFilters, Shapes, Outside, Writers, Uploads
  <2> QED
    BY <2>1 DEF HasShapes
<1>4. HasShapes(RetailerCounts)
  <2>1. /\ DOMAIN RetailerCounts = {"assignedRetailerCount", "totalRetailersCount"}
        /\ RetailerCounts.assignedRetailerCount \in Shapes
        /\ RetailerCounts.totalRetailersCount \in Shapes
    BY DEF RetailerCounts, Shapes, Outside, Writers, Uploads
  <2> QED
    BY <2>1 DEF HasShapes
<1>5. HasShapes(AdminRetailers)
  <2>1. /\ DOMAIN AdminRetailers = {"createRetailer", "getRetailers", "getRetailerDetail"}
        /\ AdminRetailers.createRetailer \in Shapes
        /\ AdminRetailers.getRetailers \in Shapes
        /\ AdminRetailers.getRetailerDetail \in Shapes
    BY DEF AdminRetailers, Shapes, Outside, Writers, Uploads
  <2> QED
    BY <2>1 DEF HasShapes
<1>6. HasShapes(AdminRetailerCount)
  <2>1. /\ DOMAIN AdminRetailerCount = {"retailerCount"}
        /\ AdminRetailerCount.retailerCount \in Shapes
    BY DEF AdminRetailerCount, Shapes, Outside, Writers, Uploads
  <2> QED
    BY <2>1 DEF HasShapes
<1>7. HasShapes(RegionPages)
  <2>1. /\ DOMAIN RegionPages = {"getRegions"}
        /\ RegionPages.getRegions \in Shapes
    BY DEF RegionPages, Shapes, Outside, Writers, Uploads
  <2> QED
    BY <2>1 DEF HasShapes
<1>8. HasShapes(RegionReads)
  <2>1. /\ DOMAIN RegionReads =
              {"regionCount", "getFilteredAreasByRegionId", "getAreasCountByRegionId"}
        /\ RegionReads.regionCount \in Shapes
        /\ RegionReads.getFilteredAreasByRegionId \in Shapes
        /\ RegionReads.getAreasCountByRegionId \in Shapes
    BY DEF RegionReads, Shapes, Outside, Writers, Uploads
  <2> QED
    BY <2>1 DEF HasShapes
<1>9. HasShapes(AreaPages)
  <2>1. /\ DOMAIN AreaPages = {"getAreas", "searchAreas"}
        /\ AreaPages.getAreas \in Shapes
        /\ AreaPages.searchAreas \in Shapes
    BY DEF AreaPages, Shapes, Outside, Writers, Uploads
  <2> QED
    BY <2>1 DEF HasShapes
<1>10. HasShapes(AreaCount)
  <2>1. /\ DOMAIN AreaCount = {"totalAreaCount"}
        /\ AreaCount.totalAreaCount \in Shapes
    BY DEF AreaCount, Shapes, Outside, Writers, Uploads
  <2> QED
    BY <2>1 DEF HasShapes
<1>11. HasShapes(AreaTerritoryCount)
  <2>1. /\ DOMAIN AreaTerritoryCount = {"getTerritoriesCountByAreaId"}
        /\ AreaTerritoryCount.getTerritoriesCountByAreaId \in Shapes
    BY DEF AreaTerritoryCount, Shapes, Outside, Writers, Uploads
  <2> QED
    BY <2>1 DEF HasShapes
<1>12. HasShapes(TerritoryPages)
  <2>1. /\ DOMAIN TerritoryPages = {"getTerritories", "searchFilteredTerritories"}
        /\ TerritoryPages.getTerritories \in Shapes
        /\ TerritoryPages.searchFilteredTerritories \in Shapes
    BY DEF TerritoryPages, Shapes, Outside, Writers, Uploads
  <2> QED
    BY <2>1 DEF HasShapes
<1>13. HasShapes(TerritoryChanges)
  <2>1. /\ DOMAIN TerritoryChanges = {"updateTerritory", "deleteTerritory", "totalTerritoryCount"}
        /\ TerritoryChanges.updateTerritory \in Shapes
        /\ TerritoryChanges.deleteTerritory \in Shapes
        /\ TerritoryChanges.totalTerritoryCount \in Shapes
    BY DEF TerritoryChanges, Shapes, Outside, Writers, Uploads
  <2> QED
    BY <2>1 DEF HasShapes
<1>14. HasShapes(DistributorCount)
  <2>1. /\ DOMAIN DistributorCount = {"distributorCount"}
        /\ DistributorCount.distributorCount \in Shapes
    BY DEF DistributorCount, Shapes, Outside, Writers, Uploads
  <2> QED
    BY <2>1 DEF HasShapes
<1>15. HasShapes(UserCreation)
  <2>1. /\ DOMAIN UserCreation = {"createUser"}
        /\ UserCreation.createUser \in Shapes
    BY DEF UserCreation, Shapes, Outside, Writers, Uploads
  <2> QED
    BY <2>1 DEF HasShapes
<1>16. HasShapes(FileUploads)
  <2>1. /\ DOMAIN FileUploads = {"createFilesFromMulter"}
        /\ FileUploads.createFilesFromMulter \in Shapes
    BY DEF FileUploads, Shapes, Outside, Writers, Uploads
  <2> QED
    BY <2>1 DEF HasShapes
<1>17. HasShapes(BucketUploads)
  <2>1. /\ DOMAIN BucketUploads = {"uploadBucketFile"}
        /\ BucketUploads.uploadBucketFile \in Shapes
    BY DEF BucketUploads, Shapes, Outside, Writers, Uploads
  <2> QED
    BY <2>1 DEF HasShapes
<1>18. HasShapes(RegionWrites)
  <2>1. /\ DOMAIN RegionWrites = {"createRegion", "updateRegion", "deleteRegion"}
        /\ RegionWrites.createRegion \in Shapes
        /\ RegionWrites.updateRegion \in Shapes
        /\ RegionWrites.deleteRegion \in Shapes
    BY DEF RegionWrites, Shapes, Outside, Writers, Uploads
  <2> QED
    BY <2>1 DEF HasShapes
<1>19. HasShapes(AreaCreation)
  <2>1. /\ DOMAIN AreaCreation = {"createArea"}
        /\ AreaCreation.createArea \in Shapes
    BY DEF AreaCreation, Shapes, Outside, Writers, Uploads
  <2> QED
    BY <2>1 DEF HasShapes
<1>20. HasShapes(AreaChanges)
  <2>1. /\ DOMAIN AreaChanges = {"updateArea", "deleteArea"}
        /\ AreaChanges.updateArea \in Shapes
        /\ AreaChanges.deleteArea \in Shapes
    BY DEF AreaChanges, Shapes, Outside, Writers, Uploads
  <2> QED
    BY <2>1 DEF HasShapes
<1>21. HasShapes(TerritoryCreation)
  <2>1. /\ DOMAIN TerritoryCreation = {"createTerritory"}
        /\ TerritoryCreation.createTerritory \in Shapes
    BY DEF TerritoryCreation, Shapes, Outside, Writers, Uploads
  <2> QED
    BY <2>1 DEF HasShapes
<1>22. HasShapes(DistributorCreation)
  <2>1. /\ DOMAIN DistributorCreation = {"createDistributor"}
        /\ DistributorCreation.createDistributor \in Shapes
    BY DEF DistributorCreation, Shapes, Outside, Writers, Uploads
  <2> QED
    BY <2>1 DEF HasShapes
<1>23. HasShapes(DistributorChanges)
  <2>1. /\ DOMAIN DistributorChanges = {"updateDistributor", "deleteDistributor"}
        /\ DistributorChanges.updateDistributor \in Shapes
        /\ DistributorChanges.deleteDistributor \in Shapes
    BY DEF DistributorChanges, Shapes, Outside, Writers, Uploads
  <2> QED
    BY <2>1 DEF HasShapes
<1>24. HasShapes(AreaAssignments)
  <2>1. /\ DOMAIN AreaAssignments = {"assignAreasToRegion", "unassignAreasFromRegion"}
        /\ AreaAssignments.assignAreasToRegion \in Shapes
        /\ AreaAssignments.unassignAreasFromRegion \in Shapes
    BY DEF AreaAssignments, Shapes, Outside, Writers, Uploads
  <2> QED
    BY <2>1 DEF HasShapes
<1>25. HasShapes(TerritoryAssignments)
  <2>1. /\ DOMAIN TerritoryAssignments = {"assignTerritoriesToArea", "unassignTerritoriesFromArea"}
        /\ TerritoryAssignments.assignTerritoriesToArea \in Shapes
        /\ TerritoryAssignments.unassignTerritoriesFromArea \in Shapes
    BY DEF TerritoryAssignments, Shapes, Outside, Writers, Uploads
  <2> QED
    BY <2>1 DEF HasShapes
<1> QED
  BY <1>1, <1>2, <1>3, <1>4, <1>5, <1>6, <1>7, <1>8, <1>9, <1>10, <1>11, <1>12, <1>13, <1>14,
     <1>15, <1>16, <1>17, <1>18, <1>19, <1>20, <1>21, <1>22, <1>23,
     <1>24, <1>25

(* Every handler of the API has one of the shapes. *)
LEMMA EndpointsHaveShapes == \A e \in AllEndpoints : ShapeOf(e) \in Shapes
<1>1. /\ HasShapes(Handlers.salesRep) /\ HasShapes(Handlers.retailer)
      /\ HasShapes(Handlers.region) /\ HasShapes(Handlers.area)
      /\ HasShapes(Handlers.territory) /\ HasShapes(Handlers.distributor)
      /\ HasShapes(Handlers.user) /\ HasShapes(Handlers.fileSystem)
      /\ HasShapes(Handlers.awsS3)
  BY TablesHaveShapes, BothHaveShapes DEF Handlers
<1>2. DOMAIN Handlers = {"salesRep", "retailer", "region", "area", "territory", "distributor",
                         "user", "fileSystem", "awsS3"}
  BY DEF Handlers
<1>3. ASSUME NEW s \in DOMAIN Handlers, NEW h \in DOMAIN Handlers[s]
      PROVE  s # "none" /\ Handlers[s][h] \in Shapes
  BY <1>1, <1>2, <1>3 DEF HasShapes
<1>4. ASSUME NEW e \in AllEndpoints PROVE ShapeOf(e) \in Shapes
  <2>1. PICK s \in DOMAIN Handlers : \E h \in DOMAIN Handlers[s] : e = <<s, h>>
    BY <1>4 DEF AllEndpoints
  <2>2. PICK h \in DOMAIN Handlers[s] : e = <<s, h>>
    BY <2>1
  <2>3. e # NoEndpoint
    BY <1>3, <2>2 DEF NoEndpoint
  <2> QED
    BY <1>3, <2>2, <2>3 DEF ShapeOf
<1> QED
  BY <1>4

-----------------------------------------------------------------------------
(* What LeftoverInvariant says of one request. *)
Leaves(r) == SuccessEnds(r) /\ BegunByShape(r)

(* Nobody but the holder of a connection has its transaction. *)
LEMMA HolderIsOne ==
    ASSUME PoolInvariant, NEW r \in Requests, main[r] \in Slots
    PROVE  OfItsHolder(main[r]) <=> active[r] \/ Shape(r) \in Kept
  BY InvariantParts, SlotsAssumption DEF OfItsHolder, HeldOnce

(* A step of r that touches no transaction but the one on its own          *)
(* connection.                                                             *)
OnItsOwn(r) == \A s \in Slots : s # main[r] => tx'[s] = tx[s]

(* Before r has failed a step of r takes nobody from those who have left   *)
(* or failed.                                                              *)
StillFailed(r) == pc[r] = "failed" /\ FailedOutside(r) => FailedOutside(r)'

(* A connection that r had neither before nor after its step, and on which *)
(* it has done nothing, is as it was, and who had left it so still has.    *)
LEMMA OtherSlotsKeep ==
    ASSUME PoolInvariant, NEW r \in Requests, Others(r), pc[r] \notin Answered, StillFailed(r),
           NEW s \in Slots, s # main[r], s # main'[r], tx'[s] = tx[s], Inherited(s)
    PROVE  Inherited(s)'
<1>1. /\ \A q \in Requests : LeftOpen(q) => LeftOpen(q)'
      /\ \A q \in Requests : FailedOutside(q) => FailedOutside(q)'
  <2>1. FailedOutside(r) => FailedOutside(r)'
    BY DEF StillFailed, FailedOutside, Answered
  <2> QED
    BY <2>1 DEF Others, LeftOpen, FailedOutside, Shape, Answered
<1>2. OfItsHolder(s)' <=> OfItsHolder(s)
  BY DEF Others, OfItsHolder, Shape
<1>3. tx'[s] = tx[s]
  OBVIOUS
<1>4. \A q \in Requests :
        main[q] = s /\ pc[q] = "failed" /\ Shape(q) \in Outside =>
            main'[q] = s /\ pc'[q] = "failed" /\ Shape(q)' \in Outside
  BY DEF Others, Shape
<1> QED
  BY <1>1, <1>2, <1>3, <1>4 DEF Inherited

(* Nor does the step change what another request leaves. *)
LEMMA OthersLeave ==
    ASSUME PoolInvariant, NEW r \in Requests, Others(r), NEW q \in Requests \ {r}, Leaves(q)
    PROVE  Leaves(q)'
<1>1. main[q] # NoSlot => main[q] \in Slots /\ main[q] # main[r] /\ main[q] # nested[r]
  BY InvariantParts DEF TypeOK, HeldOnce
<1>2. main[q] # NoSlot => tx'[main[q]] = tx[main[q]]
  BY <1>1 DEF Others
<1> QED
  BY <1>2 DEF Others, Leaves, SuccessEnds, BegunByShape, Shape

(* A step of r keeps the invariant if it does for r and for the connection *)
(* r has or had.                                                           *)
LEMMA LeftoverStep ==
    ASSUME PoolInvariant, LeftoverInvariant, NEW r \in Requests, Others(r), OnItsOwn(r),
           pc[r] \notin Answered, StillFailed(r), main'[r] \in {main[r], NoSlot}, Leaves(r)',
           \A s \in Slots : main[r] = s => Inherited(s)'
    PROVE  LeftoverInvariant'
<1>1. ASSUME NEW s \in Slots PROVE Inherited(s)'
  <2>1. Inherited(s) /\ s # NoSlot
    BY SlotsAssumption DEF LeftoverInvariant
  <2>2. CASE s # main[r]
    BY <2>1, <2>2, OtherSlotsKeep DEF OnItsOwn
  <2>3. CASE s = main[r]
    BY <2>3
  <2> QED
    BY <2>2, <2>3
<1>2. \A q \in Requests : Leaves(q)'
  BY OthersLeave DEF LeftoverInvariant, Leaves
<1> QED
  BY <1>1, <1>2 DEF LeftoverInvariant, Leaves

(* So does one that leaves the connections, and who has begun what on      *)
(* them, alone.                                                            *)
LEMMA QuietStep ==
    ASSUME PoolInvariant, LeftoverInvariant, NEW r \in Requests, Others(r),
           pc[r] \notin Answered \cup {"failed"}, Leaves(r)',
           main'[r] = main[r], tx' = tx, active'[r] = active[r], endpoint'[r] = endpoint[r]
    PROVE  LeftoverInvariant'
<1>1. ASSUME NEW s \in Slots, main[r] = s PROVE Inherited(s)'
  <2>1. Inherited(s)
    BY DEF LeftoverInvariant
  <2>2. /\ \A q \in Requests : LeftOpen(q) => LeftOpen(q)'
        /\ \A q \in Requests : FailedOutside(q) => FailedOutside(q)'
    BY DEF Others, LeftOpen, FailedOutside, Shape, Answered
  <2>3. OfItsHolder(s)' <=> OfItsHolder(s)
    BY DEF Others, OfItsHolder, Shape
  <2>4. \A q \in Requests :
          main[q] = s /\ pc[q] = "failed" /\ Shape(q) \in Outside =>
              main'[q] = s /\ pc'[q] = "failed" /\ Shape(q)' \in Outside
    BY DEF Others, Shape
  <2> QED
    BY <2>1, <2>2, <2>3, <2>4 DEF Inherited
<1> QED
  BY <1>1, LeftoverStep DEF OnItsOwn, StillFailed

(* The steps that leave the connections alone. *)
QuietSteps(r) ==
    \/ PutObject(r) \/ Read(r) \/ Write(r) \/ AskForRoles(r) \/ FindRoles(r) \/ SaveUser(r)
    \/ RenameFile(r) \/ UpdateFilePath(r) \/ RemoveLocalFile(r) \/ InvalidateCache(r)
    \/ Refuse(r) \/ FileFails(r)

(* They keep what is left on the connections. *)
LEMMA QuietStepsKeep ==
    ASSUME PoolInvariant, LeftoverInvariant, NEW r \in Requests, QuietSteps(r)
    PROVE  LeftoverInvariant'
<1> TypeOK /\ Leaves(r)
  BY InvariantParts DEF LeftoverInvariant, Leaves
<1>1. /\ main' = main /\ tx' = tx /\ active' = active /\ endpoint' = endpoint
      /\ pc' = [pc EXCEPT ![r] = pc'[r]]
  BY DEF QuietSteps, PutObject, Read, Write, AskForRoles, FindRoles, SaveUser, RenameFile,
     UpdateFilePath, RemoveLocalFile, InvalidateCache, Refuse, FileFails, Goto, pool, files, TypeOK
<1>2. Others(r)
  <2> USE DEF QuietSteps, PutObject, Read, Write, AskForRoles, FindRoles, SaveUser, RenameFile,
         UpdateFilePath, RemoveLocalFile, InvalidateCache, Refuse, FileFails, pool, files, TypeOK
  <2>1. \A q \in Requests \ {r} : nested'[q] = nested[q]
    OBVIOUS
  <2>2. \A q \in Requests \ {r} : disk'[q] = disk[q]
    OBVIOUS
  <2>3. \A q \in Requests \ {r} : path'[q] = path[q]
    OBVIOUS
  <2>4. (\A q \in Requests \ {r} : q \in bucket' <=> q \in bucket) /\ committed' = committed
        /\ cut' = cut
    OBVIOUS
  <2>5. pending' = pending \/ pending' = [pending EXCEPT ![main[r]] = @ \cup {r}]
    OBVIOUS
  <2> HIDE DEF QuietSteps
  <2>6. \A q \in Requests \ {r} : \A s \in Slots : q \in pending'[s] <=> q \in pending[s]
    BY <2>5
  <2> QED
    BY <1>1, <2>1, <2>2, <2>3, <2>4, <2>6 DEF Others
<1>3. pc[r] \in {"put", "work", "roles", "save", "rename", "repath", "tidy", "invalidate"}
  BY DEF QuietSteps, PutObject, Read, Write, AskForRoles, FindRoles, SaveUser, RenameFile,
     UpdateFilePath, RemoveLocalFile, InvalidateCache, Refuse, FileFails
<1>4. Leaves(r)'
  <2>1. pc'[r] \notin {"tidy", "invalidate"}
    BY <1>1 DEF QuietSteps, PutObject, Read, Write, AskForRoles, FindRoles, SaveUser, RenameFile,
       UpdateFilePath, RemoveLocalFile, InvalidateCache, Refuse, FileFails, Goto, TypeOK
  <2>2. pc'[r] = "release" =>
          \/ pc[r] \in {"tidy", "invalidate"}
          \/ CanQuery(r) /\ Shape(r) \notin Writers
    BY <1>1 DEF QuietSteps, PutObject, Read, Write, AskForRoles, FindRoles, SaveUser, RenameFile,
       UpdateFilePath, RemoveLocalFile, InvalidateCache, Refuse, FileFails, Goto, TypeOK, Writers, Uploads, Kept
  <2>3. pc[r] # "unsent" /\ pc'[r] # "unsent"
    BY <1>1, <1>3 DEF QuietSteps, PutObject, Read, Write, AskForRoles, FindRoles, SaveUser,
       RenameFile, UpdateFilePath, RemoveLocalFile, InvalidateCache, Refuse, FileFails, Goto, TypeOK
  <2> QED
    BY <1>1, <2>1, <2>2, <2>3 DEF Leaves, SuccessEnds, BegunByShape, CanQuery, Shape
<1> QED
  BY <1>1, <1>2, <1>3, <1>4, QuietStep DEF Answered

(* START TRANSACTION makes the transaction that of its request, or leaves  *)
(* the request with a connection others have spoiled.                      *)
LEMMA StartLeaves ==
    ASSUME PoolInvariant, LeftoverInvariant, NEW r \in Requests, Start(r)
    PROVE  LeftoverInvariant'
<1> TypeOK /\ Own(r) /\ Leaves(r)
  BY InvariantParts DEF LeftoverInvariant, Leaves
<1> USE DEF Start, Goto, files
<1>1. Others(r) /\ OnItsOwn(r)
  BY DEF Others, OnItsOwn, TypeOK
<1>2. Leaves(r)' /\ pc[r] \notin Answered \cup {"failed"} /\ main' = main /\ endpoint' = endpoint
  <2>1. Shape(r)' = Shape(r) /\ Shape(r) \in Beginning
    BY DEF Own, Shape
  <2> QED
    BY <2>1 DEF Leaves, SuccessEnds, BegunByShape, TypeOK, Answered
<1>3. CASE CanQuery(r)
  <2>1. active'[r]
    BY <1>3 DEF TypeOK
  <2>2. \A s \in Slots : main[r] = s => Inherited(s)'
    BY <1>2, <2>1 DEF Inherited, OfItsHolder
  <2> QED
    BY <1>1, <1>2, <2>2, LeftoverStep DEF StillFailed
<1>4. CASE ~CanQuery(r)
  BY <1>1, <1>2, <1>4, QuietStep
<1> QED
  BY <1>3, <1>4

(* What ends a transaction leaves none behind. *)
LEMMA EndedIsInherited ==
    ASSUME NEW s \in Slots, tx'[s] = "none"
    PROVE  Inherited(s)'
  BY DEF Inherited

(* A COMMIT that is carried out leaves no transaction. *)
LEMMA CommitLeaves ==
    ASSUME PoolInvariant, LeftoverInvariant, NEW r \in Requests, Commit(r)
    PROVE  LeftoverInvariant'
<1> TypeOK /\ Own(r) /\ Leaves(r)
  BY InvariantParts DEF LeftoverInvariant, Leaves
<1> USE DEF Commit, Goto, EndTransaction, files
<1>1. main[r] # NoSlot => main[r] \in Slots /\ pending[main[r]] \subseteq {r}
  BY OwnPending DEF TypeOK
<1>2. Others(r) /\ OnItsOwn(r)
  BY <1>1 DEF Others, OnItsOwn, TypeOK, CanQuery
<1>3. pc[r] \notin Answered \cup {"failed"} /\ main' = main /\ endpoint' = endpoint
  BY DEF Answered
<1>4. CASE active[r] /\ CanQuery(r)
  <2>1. tx'[main[r]] = "none"
    BY <1>1, <1>4 DEF TypeOK, CanQuery
  <2>2. Leaves(r)'
    BY <1>3, <1>4, <2>1 DEF Leaves, SuccessEnds, BegunByShape, Shape, TypeOK
  <2> QED
    BY <1>2, <1>3, <2>1, <2>2, EndedIsInherited, LeftoverStep DEF StillFailed
<1>5. CASE ~(active[r] /\ CanQuery(r))
  <2>1. Leaves(r)'
    BY <1>5 DEF Leaves, SuccessEnds, BegunByShape, Shape, TypeOK
  <2> QED
    BY <1>2, <1>3, <1>5, <2>1, QuietStep
<1> QED
  BY <1>4, <1>5

(* So does a write without a transaction of its own. *)
LEMMA WriteUnstartedLeaves ==
    ASSUME PoolInvariant, LeftoverInvariant, NEW r \in Requests, WriteUnstarted(r)
    PROVE  LeftoverInvariant'
<1> TypeOK /\ Own(r) /\ Leaves(r)
  BY InvariantParts DEF LeftoverInvariant, Leaves
<1> USE DEF WriteUnstarted, Goto, EndTransaction, files
<1>1. main[r] \in Slots /\ pending[main[r]] \subseteq {r}
  BY OwnPending DEF CanQuery, TypeOK
<1>2. Others(r) /\ OnItsOwn(r)
  BY <1>1 DEF Others, OnItsOwn, TypeOK
<1>3. pc[r] \notin Answered \cup {"failed"} /\ main' = main /\ Leaves(r)'
  BY <1>1 DEF Leaves, SuccessEnds, BegunByShape, Shape, TypeOK, Answered
<1>4. tx'[main[r]] = "none"
  BY <1>1 DEF TypeOK
<1> QED
  BY <1>2, <1>3, <1>4, EndedIsInherited, LeftoverStep DEF StillFailed

(* A transaction is aborted by its own request, or by one that has none.   *)
LEMMA StatementFailsLeaves ==
    ASSUME PoolInvariant, LeftoverInvariant, NEW r \in Requests, StatementFails(r)
    PROVE  LeftoverInvariant'
<1> TypeOK /\ Own(r) /\ Leaves(r)
  BY InvariantParts DEF LeftoverInvariant, Leaves
<1> USE DEF StatementFails, Goto, pool, files
<1>1. Others(r) /\ OnItsOwn(r)
  BY DEF Others, OnItsOwn, TypeOK
<1>2. /\ pc[r] \notin Answered \cup {"failed", "unsent"} /\ pc'[r] = "failed"
      /\ main' = main /\ active' = active /\ endpoint' = endpoint
  BY DEF TypeOK, Answered
<1>3. Leaves(r)'
  BY <1>2 DEF Leaves, SuccessEnds, BegunByShape, Shape
<1>4. CASE main[r] # NoSlot /\ tx[main[r]] = "open"
  <2>1. main[r] \in Slots /\ Inherited(main[r])
    BY <1>4 DEF TypeOK, LeftoverInvariant
  <2>2. CASE active[r] \/ Shape(r) \in Kept
    <3>1. \A s \in Slots : main[r] = s => Inherited(s)'
      BY <1>2, <2>2 DEF Inherited, OfItsHolder, Shape
    <3> QED
      BY <1>1, <1>2, <1>3, <3>1, LeftoverStep DEF StillFailed
  <2>3. CASE ~active[r] /\ Shape(r) \notin Kept
    <3>1. Shape(r) \in Outside
      <4>1. Shape(r) \in Shapes
        BY <1>2, EndpointsHaveShapes DEF Leaves, BegunByShape, Shape
      <4>2. Shape(r) \notin Beginning
        BY <1>4, <2>1, <2>3 DEF Own, Beginning, Uploads, Writers
      <4> QED
        BY <2>3, <4>1, <4>2 DEF Shapes, Beginning, Kept
    <3>2. PICK q \in Requests : LeftOpen(q)
      BY <1>4, <2>1, <2>3, HolderIsOne DEF Inherited
    <3>3. LeftOpen(q)'
      BY <1>1, <1>2, <3>2 DEF Others, LeftOpen, Shape, Answered
    <3>4. main'[r] = main[r] /\ pc'[r] = "failed" /\ Shape(r)' \in Outside
      BY <1>2, <3>1 DEF Shape
    <3>5. \A s \in Slots : main[r] = s => Inherited(s)'
      BY <3>3, <3>4 DEF Inherited
    <3> QED
      BY <1>1, <1>2, <1>3, <3>5, LeftoverStep DEF StillFailed
  <2> QED
    BY <2>2, <2>3
<1>5. CASE ~(main[r] # NoSlot /\ tx[main[r]] = "open")
  BY <1>1, <1>2, <1>3, <1>5, QuietStep
<1> QED
  BY <1>4, <1>5

(* What createUser's second connection had open is aborted when the        *)
(* statement of findAllRoles fails there: by a listing that left it open   *)
(* and a createUser that has saved nobody.                                 *)
LEMMA FindRolesFailsLeaves ==
    ASSUME PoolInvariant, LeftoverInvariant, NEW r \in Requests, FindRolesFails(r)
    PROVE  LeftoverInvariant'
<1> TypeOK /\ HeldOnce /\ Own(r) /\ Leaves(r)
  BY InvariantParts DEF LeftoverInvariant, Leaves
<1> USE DEF FindRolesFails, Goto, files
<1>1. Others(r)
  BY DEF Others, TypeOK
<1>2. /\ pc[r] = "roles" /\ pc'[r] = "failed" /\ Shape(r) = "createUser" /\ path[r] = "none"
      /\ main' = main /\ active' = active /\ endpoint' = endpoint /\ path' = path
      /\ \A s \in Slots : s # nested[r] => tx'[s] = tx[s]
  BY DEF TypeOK, Own
<1>3. FailedOutside(r)'
  BY <1>2 DEF FailedOutside, Shape
<1>4. Leaves(r)'
  BY <1>2 DEF Leaves, SuccessEnds, BegunByShape, Shape
<1>5. /\ \A q \in Requests : LeftOpen(q) => LeftOpen(q)'
      /\ \A q \in Requests : FailedOutside(q) => FailedOutside(q)'
  BY <1>1, <1>2, <1>3 DEF Others, LeftOpen, FailedOutside, Shape
<1>6. \A q \in Requests : pc[q] = "failed" => pc'[q] = "failed"
  BY <1>1, <1>2 DEF Others
<1>7. ASSUME NEW s \in Slots PROVE Inherited(s)'
  <2>1. Inherited(s)
    BY DEF LeftoverInvariant
  <2>2. OfItsHolder(s)' <=> OfItsHolder(s)
    BY <1>2 DEF OfItsHolder, Shape
  <2>3. CASE tx'[s] = tx[s]
    BY <1>2, <1>5, <1>6, <2>1, <2>2, <2>3 DEF Inherited, Shape
  <2>4. CASE tx'[s] # tx[s]
    <3>1. s = nested[r] /\ tx[s] = "open"
      BY <1>2, <2>4 DEF TypeOK
    <3>2. ~OfItsHolder(s)
      BY <3>1, SlotsAssumption DEF OfItsHolder, HeldOnce
    <3> QED
      BY <1>3, <1>5, <2>1, <3>1, <3>2 DEF Inherited
  <2> QED
    BY <2>3, <2>4
<1>8. \A q \in Requests : Leaves(q)'
  BY <1>1, <1>4, OthersLeave DEF LeftoverInvariant, Leaves
<1> QED
  BY <1>7, <1>8 DEF LeftoverInvariant, Leaves

(* Who has failed ends his own transaction, or keeps his connection, or    *)
(* had none of his own.                                                    *)
LEMMA RecoverLeaves ==
    ASSUME PoolInvariant, LeftoverInvariant, NEW r \in Requests, Recover(r)
    PROVE  LeftoverInvariant'
<1> TypeOK /\ Own(r) /\ Leaves(r)
  BY InvariantParts DEF LeftoverInvariant, Leaves
<1> USE DEF Recover, Goto, EndTransaction
<1>1. RollsBack(r) => main[r] \in Slots /\ pending[main[r]] \subseteq {r}
  BY OwnPending DEF TypeOK, RollsBack
<1>2. Others(r) /\ OnItsOwn(r)
  BY <1>1 DEF Others, OnItsOwn, TypeOK
<1>3. /\ pc[r] = "failed" /\ pc'[r] = "error" /\ endpoint' = endpoint /\ ~active'[r]
      /\ main'[r] = IF Shape(r) \in Kept THEN main[r] ELSE NoSlot
  BY DEF TypeOK
<1>4. Leaves(r)'
  BY <1>3 DEF Leaves, SuccessEnds, BegunByShape, Shape
<1>6. StillFailed(r)
  BY <1>3 DEF StillFailed, FailedOutside, Shape
<1>5. ASSUME NEW s \in Slots, main[r] = s PROVE Inherited(s)'
  <2>1. CASE RollsBack(r)
    BY <1>1, <1>5, <2>1, EndedIsInherited DEF TypeOK
  <2>2. CASE Shape(r) \in Kept
    BY <1>3, <1>5, <2>2 DEF Inherited, OfItsHolder, Shape
  <2>3. CASE ~RollsBack(r) /\ Shape(r) \notin Kept
    <3>1. ~active[r] /\ tx' = tx
      BY <1>5, <2>3, SlotsAssumption DEF RollsBack
    <3>2. Inherited(s) /\ ~OfItsHolder(s)
      BY <1>5, <2>3, <3>1, HolderIsOne DEF LeftoverInvariant
    <3>3. /\ \A q \in Requests : LeftOpen(q) => LeftOpen(q)'
          /\ \A q \in Requests : FailedOutside(q) => FailedOutside(q)'
      BY <1>2, <1>3 DEF Others, LeftOpen, FailedOutside, Shape
    <3>4. ASSUME NEW q \in Requests, main[q] = s, pc[q] = "failed", Shape(q) \in Outside
          PROVE  FailedOutside(r)'
      <4>1. q = r
        BY <1>5, <3>4, InvariantParts, SlotsAssumption DEF HeldOnce
      <4> QED
        BY <1>3, <3>4, <4>1 DEF FailedOutside, Shape
    <3> QED
      BY <3>1, <3>2, <3>3, <3>4 DEF Inherited
  <2> QED
    BY <2>1, <2>2, <2>3
<1> QED
  BY <1>2, <1>3, <1>4, <1>5, <1>6, LeftoverStep DEF Answered

(* Who has succeeded has ended his transaction, or leaves it open, or had  *)
(* none of his own.                                                        *)
LEMMA ReleaseLeaves ==
    ASSUME PoolInvariant, LeftoverInvariant, NEW r \in Requests, Release(r)
    PROVE  LeftoverInvariant'
<1> TypeOK /\ Own(r) /\ Leaves(r)
  BY InvariantParts DEF LeftoverInvariant, Leaves
<1> USE DEF Release, Goto, pool, files
<1>1. Others(r) /\ OnItsOwn(r)
  BY DEF Others, OnItsOwn, TypeOK
<1>2. /\ pc[r] = "release" /\ pc'[r] = "ok" /\ endpoint' = endpoint /\ tx' = tx
      /\ ~active'[r] /\ main'[r] = IF Shape(r) \in Kept THEN main[r] ELSE NoSlot
  BY DEF TypeOK
<1>3. Leaves(r)'
  BY <1>2 DEF Leaves, SuccessEnds, BegunByShape, Shape
<1>4. ASSUME NEW s \in Slots, main[r] = s PROVE Inherited(s)'
  <2>1. tx[s] # "aborted" /\ (Shape(r) \in Writers => tx[s] = "none")
    BY <1>2, <1>4, SlotsAssumption DEF Leaves, SuccessEnds
  <2>2. CASE Shape(r) \in Kept
    BY <1>2, <1>4, <2>2 DEF Inherited, OfItsHolder, Shape
  <2>3. CASE Shape(r) \in Writers
    BY <1>2, <2>1, <2>3, EndedIsInherited
  <2>4. CASE Shape(r) \in {"left open", "cached"}
    <3>1. LeftOpen(r)'
      BY <1>2, <2>4 DEF LeftOpen, Shape
    <3> QED
      BY <1>2, <2>1, <3>1 DEF Inherited
  <2>5. CASE Shape(r) \in Outside
    <3>1. ~active[r]
      BY <1>2, <2>5 DEF Leaves, BegunByShape, Outside, Beginning, Writers, Uploads
    <3>2. Inherited(s) /\ ~OfItsHolder(s)
      BY <1>4, <2>5, <3>1, HolderIsOne DEF LeftoverInvariant, Outside, Kept
    <3>3. \A q \in Requests : LeftOpen(q) => LeftOpen(q)'
      BY <1>1, <1>2 DEF Others, LeftOpen, Shape
    <3> QED
      BY <1>2, <2>1, <3>2, <3>3 DEF Inherited
  <2>6. Shape(r) \in Shapes
    BY <1>2, EndpointsHaveShapes DEF Leaves, BegunByShape, Shape
  <2> QED
    BY <2>2, <2>3, <2>4, <2>5, <2>6 DEF Shapes, Kept, Writers
<1> QED
  BY <1>1, <1>2, <1>3, <1>4, LeftoverStep DEF Answered, StillFailed

(* A request that arrives has no connection yet. *)
LEMMA ReceiveLeaves ==
    ASSUME PoolInvariant, LeftoverInvariant, NEW r \in Requests, NEW e \in AllEndpoints,
           Receive(r, e)
    PROVE  LeftoverInvariant'
<1> TypeOK /\ Own(r) /\ Leaves(r)
  BY InvariantParts DEF LeftoverInvariant, Leaves
<1> USE DEF Receive, Goto
<1>1. Others(r) /\ OnItsOwn(r)
  BY DEF Others, OnItsOwn, TypeOK
<1>2. /\ pc[r] = "unsent" /\ pc'[r] = "queued" /\ endpoint'[r] = e
      /\ main' = main /\ main[r] = NoSlot /\ active' = active
  BY DEF TypeOK, Own
<1>3. Leaves(r)'
  BY <1>2 DEF Leaves, SuccessEnds, BegunByShape
<1> QED
  BY <1>1, <1>2, <1>3, SlotsAssumption, LeftoverStep DEF Answered, StillFailed

(* A connection is handed out with what is on it. *)
LEMMA GrantLeaves ==
    ASSUME PoolInvariant, LeftoverInvariant, NEW s \in Slots, Grant(s)
    PROVE  LeftoverInvariant'
<1>0. TypeOK /\ WaitingOnce /\ queue # <<>>
  BY InvariantParts DEF Grant
<1> PICK r \in Requests : r = Head(queue)
  BY <1>0 DEF TypeOK
<1>1. pc[r] \in Waiting
  BY <1>0 DEF WaitingOnce, TypeOK
<1>2. Own(r)
  BY InvariantParts
<1>3. /\ tx' = tx /\ endpoint' = endpoint /\ active' = active
      /\ \A q \in Requests \ {r} : pc'[q] = pc[q] /\ main'[q] = main[q]
      /\ pc'[r] \in {"roles", "start", "work"}
      /\ main'[r] = main[r] \/ main[r] = NoSlot
      /\ path' = path
  BY <1>0, <1>1, <1>2 DEF Grant, Goto, files, TypeOK, Own, Waiting
<1>4. ASSUME NEW t \in Slots PROVE Inherited(t)'
  <2>1. /\ \A q \in Requests : LeftOpen(q) => LeftOpen(q)'
        /\ \A q \in Requests : FailedOutside(q) => FailedOutside(q)'
    BY <1>1, <1>3 DEF LeftOpen, FailedOutside, Shape, Waiting
  <2>2. \A q \in Requests : main[q] = t => main'[q] = t
    BY <1>3, SlotsAssumption
  <2>3. OfItsHolder(t) => OfItsHolder(t)'
    BY <1>3, <2>2 DEF OfItsHolder, Shape
  <2>4. \A q \in Requests :
          main[q] = t /\ pc[q] = "failed" /\ Shape(q) \in Outside =>
              main'[q] = t /\ pc'[q] = "failed" /\ Shape(q)' \in Outside
    BY <1>1, <1>3, <2>2 DEF Shape, Waiting
  <2>5. Inherited(t)
    BY DEF LeftoverInvariant
  <2> QED
    BY <1>3, <2>1, <2>3, <2>4, <2>5 DEF Inherited
<1>5. ASSUME NEW q \in Requests PROVE Leaves(q)'
  <2>1. Leaves(q)
    BY DEF LeftoverInvariant, Leaves
  <2>2. CASE q = r
    BY <1>1, <1>3, <2>1, <2>2 DEF Leaves, SuccessEnds, BegunByShape, Shape, Waiting
  <2>3. CASE q # r
    BY <1>3, <2>1, <2>3 DEF Leaves, SuccessEnds, BegunByShape, Shape
  <2> QED
    BY <2>2, <2>3
<1> QED
  BY <1>4, <1>5 DEF LeftoverInvariant, Leaves

(* A connection that ends takes its transaction with it. *)
LEMMA ConnectionEndLeaves ==
    ASSUME PoolInvariant, LeftoverInvariant, NEW s \in Slots, ConnectionEnds(s)
    PROVE  LeftoverInvariant'
<1>1. /\ tx' = [tx EXCEPT ![s] = "none"]
      /\ main' = [r \in Requests |-> IF main[r] = s THEN NoSlot ELSE main[r]]
      /\ pc' = pc /\ endpoint' = endpoint /\ active' = active /\ path' = path
  BY DEF ConnectionEnds, EndTransaction, files
<1>2. TypeOK
  BY InvariantParts
<1>3. ASSUME NEW t \in Slots PROVE Inherited(t)'
  <2>1. CASE t = s
    BY <1>1, <1>2, <2>1, EndedIsInherited DEF TypeOK
  <2>2. CASE t # s
    <3>1. tx'[t] = tx[t] /\ \A q \in Requests : main[q] = t => main'[q] = t
      BY <1>1, <1>2, <2>2 DEF TypeOK
    <3>2. OfItsHolder(t) => OfItsHolder(t)'
      BY <1>1, <3>1 DEF OfItsHolder, Shape
    <3>3. /\ \A q \in Requests : LeftOpen(q)' <=> LeftOpen(q)
          /\ \A q \in Requests : FailedOutside(q)' <=> FailedOutside(q)
          /\ \A q \in Requests : Shape(q)' = Shape(q)
      BY <1>1 DEF LeftOpen, FailedOutside, Shape
    <3>4. Inherited(t)
      BY DEF LeftoverInvariant
    <3> QED
      BY <1>1, <3>1, <3>2, <3>3, <3>4 DEF Inherited
  <2> QED
    BY <2>1, <2>2
<1>4. ASSUME NEW q \in Requests PROVE Leaves(q)'
  <2>1. Leaves(q)
    BY DEF LeftoverInvariant, Leaves
  <2>2. main'[q] # NoSlot => main'[q] = main[q] /\ tx'[main[q]] = tx[main[q]]
    BY <1>1, <1>2 DEF TypeOK
  <2> QED
    BY <1>1, <2>1, <2>2 DEF Leaves, SuccessEnds, BegunByShape, Shape
<1> QED
  BY <1>3, <1>4 DEF LeftoverInvariant, Leaves

(* Nothing is left on any connection before the first request. *)
LEMMA LeftoverInitially == Init => LeftoverInvariant
<1> SUFFICES ASSUME Init PROVE LeftoverInvariant
  OBVIOUS
<1>1. \A s \in Slots : Inherited(s)
  BY DEF Init, Inherited
<1>2. \A r \in Requests : Leaves(r)
  BY DEF Init, Leaves, SuccessEnds, BegunByShape
<1> QED
  BY <1>1, <1>2 DEF LeftoverInvariant, Leaves

(* Every step keeps what is said of the leftovers. *)
LEMMA LeftoverNext == PoolInvariant /\ LeftoverInvariant /\ [Next]_vars => LeftoverInvariant'
<1> SUFFICES ASSUME PoolInvariant, LeftoverInvariant, [Next]_vars PROVE LeftoverInvariant'
  OBVIOUS
<1>1. ASSUME NEW r \in Requests, NEW e \in Endpoints[r], Receive(r, e) PROVE LeftoverInvariant'
  <2>1. e \in AllEndpoints
    BY EndpointsAssumption
  <2> QED
    BY <1>1, <2>1, ReceiveLeaves
<1>2. ASSUME NEW s \in Slots, Grant(s) \/ ConnectionEnds(s) PROVE LeftoverInvariant'
  BY <1>2, GrantLeaves, ConnectionEndLeaves
<1>3. ASSUME NEW r \in Requests, Step(r) PROVE LeftoverInvariant'
  BY <1>3, QuietStepsKeep, StartLeaves, WriteUnstartedLeaves, CommitLeaves,
     StatementFailsLeaves, FindRolesFailsLeaves, RecoverLeaves, ReleaseLeaves DEF Step, QuietSteps
<1>4. CASE UNCHANGED vars
  BY <1>4 DEF LeftoverInvariant, Inherited, OfItsHolder, LeftOpen, FailedOutside, SuccessEnds,
     BegunByShape, Shape, vars, pool, files, request
<1> QED
  BY <1>1, <1>2, <1>3, <1>4 DEF Next

(* What is left on a connection comes from its holder, or from somebody    *)
(* who returned it with his transaction open.                              *)
THEOREM LeftoversHaveACause == Spec => []LeftoverInvariant
  BY PoolInvariantHolds, LeftoverInitially, LeftoverNext, PTL DEF Spec

(* A connection is idle in an aborted transaction only when one request    *)
(* returned it with its transaction open and another failed on it outside  *)
(* of any transaction of its own, which createUser may do on its second    *)
(* connection.                                                             *)
THEOREM AbortedNeedsTwo == Spec => []AbortedByTwo
<1>1. LeftoverInvariant => AbortedByTwo
  <2> SUFFICES ASSUME LeftoverInvariant, NEW s \in Slots, Free(s), tx[s] = "aborted"
               PROVE  \E r, q \in Requests : LeftOpen(r) /\ FailedOutside(q)
    BY DEF AbortedByTwo
  <2>1. ~OfItsHolder(s) /\ \A q \in Requests : main[q] # s
    BY DEF OfItsHolder, Free
  <2> QED
    BY <2>1 DEF LeftoverInvariant, Inherited
<1> QED
  BY <1>1, LeftoversHaveACause, PTL
=============================================================================
