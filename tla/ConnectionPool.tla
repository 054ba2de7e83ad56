---------------------------- MODULE ConnectionPool ----------------------------
(***************************************************************************)
(* The handlers of the API as users of what they share: the connections of *)
(* TypeORM's pool, each with the transaction its last user left on it, and *)
(* the files an upload brings along.                                       *)
(*                                                                         *)
(* A handler is known by its shape: whether it begins a transaction,       *)
(* commits it, rolls it back, and gives its connection back.  A slot is    *)
(* one of the connections the pool may have open.                          *)
(***************************************************************************)
EXTENDS Naturals, Sequences, FiniteSets

CONSTANTS
    Requests,
    Slots,           \* the connections the pool may open
    Endpoints,       \* Endpoints[r]: the handlers r may be sent to, as service and method
    NoSlot

(* SalesRepService: the listings begin a transaction that only a failure   *)
(* ends; two methods never give their connection back.                     *)
RetailerPages ==
    [listPaginatedAssignedRetailers |-> "left open",
     listAllPaginatedUnassignedRetailers |-> "left open",
     getRetailerDetail |-> "kept open"]
RetailerSearches == [searchAssignedRetailers |-> "left open", searchRetailers |-> "left open"]
RetailerFilters == [filterRetailers |-> "left open", filterAssignedRetailers |-> "left open"]
RetailerCounts == [assignedRetailerCount |-> "left open", totalRetailersCount |-> "kept"]

(* RetailerService. *)
AdminRetailers ==
    [createRetailer |-> "committed", getRetailers |-> "committed",
     getRetailerDetail |-> "autocommit"]
AdminRetailerCount == [retailerCount |-> "autocommit"]

(* The hierarchy services.  A page found in the cache is returned with the *)
(* transaction open; getRegions commits when it is not found.  What writes *)
(* deletes the cached pages after its COMMIT, inside the same try.         *)
(* Territories are changed, and counted, without the transaction that is   *)
(* committed.                                                              *)
RegionPages == [getRegions |-> "cached"]
RegionReads ==
    [regionCount |-> "committed", getFilteredAreasByRegionId |-> "left open",
     getAreasCountByRegionId |-> "committed"]
RegionWrites ==
    [createRegion |-> "invalidating", updateRegion |-> "invalidating",
     deleteRegion |-> "invalidating"]
AreaAssignments ==
    [assignAreasToRegion |-> "invalidating", unassignAreasFromRegion |-> "invalidating"]
AreaCreation == [createArea |-> "invalidating"]
AreaChanges == [updateArea |-> "invalidating", deleteArea |-> "invalidating"]
AreaPages == [getAreas |-> "left open", searchAreas |-> "left open"]
AreaCount == [totalAreaCount |-> "committed"]
AreaTerritoryCount == [getTerritoriesCountByAreaId |-> "committed"]
TerritoryAssignments ==
    [assignTerritoriesToArea |-> "invalidating", unassignTerritoriesFromArea |-> "invalidating"]
TerritoryCreation == [createTerritory |-> "invalidating"]
TerritoryPages == [getTerritories |-> "left open", searchFilteredTerritories |-> "left open"]
TerritoryChanges ==
    [updateTerritory |-> "unstarted", deleteTerritory |-> "unstarted",
     totalTerritoryCount |-> "unstarted read"]
DistributorCreation == [createDistributor |-> "invalidating"]
DistributorChanges ==
    [updateDistributor |-> "invalidating", deleteDistributor |-> "invalidating"]
DistributorCount == [distributorCount |-> "autocommit"]

(* The handlers that take a file which multer has put on the disk. *)
UserCreation == [createUser |-> "createUser"]
FileUploads == [createFilesFromMulter |-> "upload"]
BucketUploads == [uploadBucketFile |-> "bucket"]

(* The entries of two tables. *)
Both(t, u) == [h \in DOMAIN t \cup DOMAIN u |-> IF h \in DOMAIN t THEN t[h] ELSE u[h]]

Handlers ==
    [salesRep |-> Both(Both(RetailerPages, RetailerSearches), Both(RetailerFilters, RetailerCounts)),
     retailer |-> Both(AdminRetailers, AdminRetailerCount),
     region |-> Both(Both(RegionPages, RegionReads), Both(RegionWrites, AreaAssignments)),
     area |-> Both(Both(AreaPages, Both(AreaCount, AreaTerritoryCount)),
                   Both(Both(AreaCreation, AreaChanges), TerritoryAssignments)),
     territory |-> Both(TerritoryCreation, Both(TerritoryPages, TerritoryChanges)),
     distributor |-> Both(DistributorCreation, Both(DistributorChanges, DistributorCount)),
     user |-> UserCreation, fileSystem |-> FileUploads, awsS3 |-> BucketUploads]

AllEndpoints == UNION {{<<s, h>> : h \in DOMAIN Handlers[s]} : s \in DOMAIN Handlers}

ASSUME EndpointsAssumption == Endpoints \in [Requests -> SUBSET AllEndpoints]
ASSUME SlotsAssumption == NoSlot \notin Slots /\ IsFiniteSet(Slots) /\ IsFiniteSet(Requests)

NoEndpoint == <<"none", "none">>
ShapeOf(e) == IF e = NoEndpoint THEN "none" ELSE Handlers[e[1]][e[2]]

Uploads == {"createUser", "upload", "bucket"}
Writers == {"committed", "invalidating"} \cup Uploads
Beginning == {"cached", "left open", "kept open"} \cup Writers
Kept == {"kept", "kept open"}

VARIABLES
    pc, endpoint,
    main,          \* main[r]: the connection r's query runner has taken and not given back
    nested,        \* nested[r]: the second one createUser takes to read the roles
    active,        \* active[r]: isTransactionActive of r's query runner
    queue,         \* the requests waiting for a connection, in order
    tx,            \* tx[s]: the transaction open on s, if any
    pending,       \* pending[s]: the requests whose writes that transaction holds
    committed,     \* the requests whose writes are committed
    cut,           \* those whose COMMIT was executed, but its answer lost
    disk,          \* disk[r]: where the file uploaded by r is on the disk
    path,          \* path[r]: where the row r has written says it is
    bucket         \* the requests whose file is in the S3 bucket

pool == <<queue, tx, pending, committed, cut>>
files == <<disk, path, bucket>>
request == <<pc, endpoint, main, nested, active>>
vars == <<pool, files, request>>

Waiting == {"queued", "queuedForRoles"}
Running == {"start", "put", "work", "roles", "save", "rename", "repath", "commit", "tidy",
            "invalidate", "release", "failed"}
Answered == {"ok", "error"}
Places == {"none", "temp", "final"}

TypeOK ==
    /\ pc \in [Requests -> {"unsent"} \cup Waiting \cup Running \cup Answered]
    /\ endpoint \in [Requests -> AllEndpoints \cup {NoEndpoint}]
    /\ main \in [Requests -> Slots \cup {NoSlot}]
    /\ nested \in [Requests -> Slots \cup {NoSlot}]
    /\ active \in [Requests -> BOOLEAN]
    /\ queue \in Seq(Requests)
    /\ tx \in [Slots -> {"none", "open", "aborted"}]
    /\ pending \in [Slots -> SUBSET Requests]
    /\ committed \subseteq Requests /\ cut \subseteq Requests /\ bucket \subseteq Requests
    /\ disk \in [Requests -> Places]
    /\ path \in [Requests -> Places]

Init ==
    /\ pc = [r \in Requests |-> "unsent"]
    /\ endpoint = [r \in Requests |-> NoEndpoint]
    /\ main = [r \in Requests |-> NoSlot]
    /\ nested = [r \in Requests |-> NoSlot]
    /\ active = [r \in Requests |-> FALSE]
    /\ queue = <<>>
    /\ tx = [s \in Slots |-> "none"]
    /\ pending = [s \in Slots |-> {}]
    /\ committed = {} /\ cut = {} /\ bucket = {}
    /\ disk = [r \in Requests |-> "none"]
    /\ path = [r \in Requests |-> "none"]

-----------------------------------------------------------------------------
Goto(r, label) == pc' = [pc EXCEPT ![r] = label]
Shape(r) == ShapeOf(endpoint[r])
Free(s) == \A r \in Requests : main[r] # s /\ nested[r] # s

(* r's connection is there and PostgreSQL accepts statements on it. *)
CanQuery(r) == main[r] # NoSlot /\ tx[main[r]] # "aborted"

(* The transaction on s is over, and its writes with it unless committed.  *)
EndTransaction(s) ==
    /\ tx' = [tx EXCEPT ![s] = "none"]
    /\ pending' = [pending EXCEPT ![s] = {}]

Receive(r, e) ==
    /\ pc[r] = "unsent"
    /\ endpoint' = [endpoint EXCEPT ![r] = e]
    /\ disk' = [disk EXCEPT ![r] = IF ShapeOf(e) \in Uploads THEN "temp" ELSE "none"]
    /\ queue' = Append(queue, r)
    /\ Goto(r, "queued")
    /\ UNCHANGED <<main, nested, active, tx, pending, committed, cut, path, bucket>>

(* The pool hands a free connection to whoever has waited longest, with    *)
(* whatever its last user left on it.                                      *)
Grant(s) ==
    LET r == Head(queue) IN
    /\ queue # <<>>
    /\ Free(s)
    /\ queue' = Tail(queue)
    /\ IF pc[r] = "queuedForRoles"
       THEN /\ nested' = [nested EXCEPT ![r] = s]
            /\ Goto(r, "roles")
            /\ UNCHANGED main
       ELSE /\ main' = [main EXCEPT ![r] = s]
            /\ Goto(r, IF Shape(r) \in Beginning THEN "start" ELSE "work")
            /\ UNCHANGED nested
    /\ UNCHANGED <<endpoint, active, tx, pending, committed, cut, files>>

(* startTransaction comes before the try: when START TRANSACTION is        *)
(* refused, nothing gives the connection back.  On an open transaction it  *)
(* is only a warning.                                                      *)
Start(r) ==
    /\ pc[r] = "start"
    /\ IF CanQuery(r)
       THEN /\ tx' = [tx EXCEPT ![main[r]] = "open"]
            /\ active' = [active EXCEPT ![r] = TRUE]
            /\ Goto(r, IF Shape(r) = "bucket" THEN "put" ELSE "work")
       ELSE Goto(r, "error") /\ UNCHANGED <<tx, active>>
    /\ UNCHANGED <<endpoint, main, nested, queue, pending, committed, cut, files>>

PutObject(r) ==
    /\ pc[r] = "put"
    /\ bucket' = bucket \cup {r}
    /\ Goto(r, "work")
    /\ UNCHANGED <<endpoint, main, nested, active, pool, disk, path>>

(* The handlers' statements succeed.  createUser has then only checked the *)
(* e-mail, and asks the pool for a second connection while it keeps its    *)
(* own.                                                                    *)
Read(r) ==
    /\ pc[r] = "work"
    /\ CanQuery(r)
    /\ \/ /\ Shape(r) \in {"left open", "cached", "autocommit"} \cup Kept
          /\ Goto(r, "release")
       \/ /\ Shape(r) \in {"cached", "unstarted read"}
          /\ Goto(r, "commit")
    /\ UNCHANGED <<endpoint, main, nested, active, pool, files>>

(* Slip: the handler answers without committing. *)
WriteWithoutCommit(r) ==
    /\ pc[r] = "work"
    /\ CanQuery(r)
    /\ Shape(r) \in Writers \ {"createUser"}
    /\ pending' = [pending EXCEPT ![main[r]] = @ \cup {r}]
    /\ path' = [path EXCEPT ![r] = disk[r]]
    /\ Goto(r, "release")
    /\ UNCHANGED <<endpoint, main, nested, active, queue, tx, committed, cut, disk, bucket>>

Write(r) ==
    /\ pc[r] = "work"
    /\ CanQuery(r)
    /\ Shape(r) \in Writers \ {"createUser"}
    /\ pending' = [pending EXCEPT ![main[r]] = @ \cup {r}]
    /\ path' = [path EXCEPT ![r] = disk[r]]
    /\ Goto(r, "commit")
    /\ UNCHANGED <<endpoint, main, nested, active, queue, tx, committed, cut, disk, bucket>>

(* Without a transaction of its own, save and remove begin and commit one. *)
WriteUnstarted(r) ==
    /\ pc[r] = "work"
    /\ CanQuery(r)
    /\ Shape(r) = "unstarted"
    /\ committed' = committed \cup pending[main[r]] \cup {r}
    /\ EndTransaction(main[r])
    /\ Goto(r, "commit")
    /\ UNCHANGED <<endpoint, main, nested, active, queue, cut, files>>

AskForRoles(r) ==
    /\ pc[r] = "work"
    /\ CanQuery(r)
    /\ Shape(r) = "createUser"
    /\ queue' = Append(queue, r)
    /\ Goto(r, "queuedForRoles")
    /\ UNCHANGED <<endpoint, main, nested, active, tx, pending, committed, cut, files>>

(* findAllRoles, on its own connection, which it gives back in any case.   *)
FindRoles(r) ==
    /\ pc[r] = "roles"
    /\ nested[r] # NoSlot /\ tx[nested[r]] # "aborted"
    /\ nested' = [nested EXCEPT ![r] = NoSlot]
    /\ Goto(r, "save")
    /\ UNCHANGED <<endpoint, main, active, pool, files>>

(* The role if it is new, the user, the file's row and the user's role. *)
SaveUser(r) ==
    /\ pc[r] = "save"
    /\ CanQuery(r)
    /\ pending' = [pending EXCEPT ![main[r]] = @ \cup {r}]
    /\ path' = [path EXCEPT ![r] = disk[r]]
    /\ Goto(r, "rename")
    /\ UNCHANGED <<endpoint, main, nested, active, queue, tx, committed, cut, disk, bucket>>

(* updateFilePath moves the file and then the row. *)
RenameFile(r) ==
    /\ pc[r] = "rename"
    /\ disk' = [disk EXCEPT ![r] = "final"]
    /\ Goto(r, "repath")
    /\ UNCHANGED <<endpoint, main, nested, active, pool, path, bucket>>

UpdateFilePath(r) ==
    /\ pc[r] = "repath"
    /\ CanQuery(r)
    /\ path' = [path EXCEPT ![r] = "final"]
    /\ Goto(r, "commit")
    /\ UNCHANGED <<endpoint, main, nested, active, pool, disk, bucket>>

AfterCommit(r) ==
    CASE Shape(r) = "bucket" -> "tidy"
      [] Shape(r) = "invalidating" -> "invalidate"
      [] OTHER -> "release"

(* COMMIT ends whatever transaction the connection has.  A query runner    *)
(* that has begun none refuses to commit.                                  *)
Commit(r) ==
    /\ pc[r] = "commit"
    /\ IF active[r] /\ CanQuery(r)
       THEN /\ committed' = committed \cup pending[main[r]]
            /\ EndTransaction(main[r])
            /\ active' = [active EXCEPT ![r] = FALSE]
            /\ Goto(r, AfterCommit(r))
       ELSE Goto(r, "failed") /\ UNCHANGED <<tx, pending, committed, active>>
    /\ UNCHANGED <<endpoint, main, nested, queue, cut, files>>

RemoveLocalFile(r) ==
    /\ pc[r] = "tidy"
    /\ disk' = [disk EXCEPT ![r] = "none"]
    /\ Goto(r, "release")
    /\ UNCHANGED <<endpoint, main, nested, active, pool, path, bucket>>

-----------------------------------------------------------------------------
(* The cached pages are deleted, or Redis refuses. *)
InvalidateCache(r) ==
    /\ pc[r] = "invalidate"
    /\ Goto(r, "release") \/ Goto(r, "failed")
    /\ UNCHANGED <<endpoint, main, nested, active, pool, files>>

(* Slip: the failure of a statement is swallowed where it happens. *)
StatementFailsQuietly(r) ==
    /\ pc[r] \in {"work", "save", "repath"}
    /\ IF main[r] # NoSlot /\ tx[main[r]] = "open"
       THEN tx' = [tx EXCEPT ![main[r]] = "aborted"]
       ELSE UNCHANGED tx
    /\ Goto(r, "release")
    /\ UNCHANGED <<endpoint, main, nested, active, queue, pending, committed, cut, files>>

(* A statement fails, or is not even accepted.  createFileFromMulter and   *)
(* updateFilePath remove the file when it was theirs.                      *)
StatementFails(r) ==
    /\ pc[r] \in {"work", "save", "repath"}
    /\ IF main[r] # NoSlot /\ tx[main[r]] = "open"
       THEN tx' = [tx EXCEPT ![main[r]] = "aborted"]
       ELSE UNCHANGED tx
    /\ \/ pc[r] # "repath" /\ UNCHANGED disk
       \/ pc[r] # "work" /\ disk' = [disk EXCEPT ![r] = "none"]
    /\ Goto(r, "failed")
    /\ UNCHANGED <<endpoint, main, nested, active, queue, pending, committed, cut, path, bucket>>

(* Slip: the second connection is given back only after a success. *)
FindRolesFailsKeepingIt(r) ==
    /\ pc[r] = "roles"
    /\ IF nested[r] # NoSlot /\ tx[nested[r]] = "open"
       THEN tx' = [tx EXCEPT ![nested[r]] = "aborted"]
       ELSE UNCHANGED tx
    /\ Goto(r, "failed")
    /\ UNCHANGED <<endpoint, main, nested, active, queue, pending, committed, cut, files>>

(* The statement of findAllRoles fails; a transaction that somebody else   *)
(* has left on that connection is aborted.                                 *)
FindRolesFails(r) ==
    /\ pc[r] = "roles"
    /\ IF nested[r] # NoSlot /\ tx[nested[r]] = "open"
       THEN tx' = [tx EXCEPT ![nested[r]] = "aborted"]
       ELSE UNCHANGED tx
    /\ nested' = [nested EXCEPT ![r] = NoSlot]
    /\ Goto(r, "failed")
    /\ UNCHANGED <<endpoint, main, active, queue, pending, committed, cut, files>>

(* A check of the handler finds something missing or taken, or a call that *)
(* is not the database's fails.                                            *)
Refuse(r) ==
    /\ pc[r] = "work" /\ CanQuery(r)
    /\ Goto(r, "failed")
    /\ UNCHANGED <<endpoint, main, nested, active, pool, files>>

(* The bucket or the disk fails; a file may be moved and not found after.  *)
FileFails(r) ==
    /\ pc[r] \in {"put", "rename", "tidy"}
    /\ \/ UNCHANGED disk
       \/ pc[r] = "rename" /\ disk' = [disk EXCEPT ![r] = "none"]
    /\ Goto(r, "failed")
    /\ UNCHANGED <<endpoint, main, nested, active, pool, path, bucket>>

(* Can r's rollback be carried out?  Otherwise it throws in the catch      *)
(* block, and what follows it there is not reached.                        *)
RollsBack(r) == active[r] /\ main[r] # NoSlot /\ Shape(r) \notin Kept

(* Slip: the files are removed whether or not the rollback succeeded. *)
RecoverRemovingAnyway(r) ==
    /\ pc[r] = "failed"
    /\ IF RollsBack(r) THEN EndTransaction(main[r]) ELSE UNCHANGED <<tx, pending>>
    /\ disk' = [disk EXCEPT ![r] = IF Shape(r) = "upload" THEN "none" ELSE @]
    /\ main' = [main EXCEPT ![r] = IF Shape(r) \in Kept THEN @ ELSE NoSlot]
    /\ active' = [active EXCEPT ![r] = FALSE]
    /\ Goto(r, "error")
    /\ UNCHANGED <<endpoint, nested, queue, committed, cut, path, bucket>>

(* Slip: the connection is given back without a rollback. *)
RecoverWithoutRollback(r) ==
    /\ pc[r] = "failed"
    /\ main' = [main EXCEPT ![r] = IF Shape(r) \in Kept THEN @ ELSE NoSlot]
    /\ active' = [active EXCEPT ![r] = FALSE]
    /\ Goto(r, "error")
    /\ UNCHANGED <<endpoint, nested, queue, tx, pending, committed, cut, files>>

(* Slip: a rollback that throws skips the release. *)
RecoverWithoutFinally(r) ==
    /\ pc[r] = "failed"
    /\ IF RollsBack(r) THEN EndTransaction(main[r]) ELSE UNCHANGED <<tx, pending>>
    /\ main' = [main EXCEPT ![r] = IF RollsBack(r) THEN NoSlot ELSE @]
    /\ active' = [active EXCEPT ![r] = FALSE]
    /\ Goto(r, "error")
    /\ UNCHANGED <<endpoint, nested, queue, committed, cut, files>>

(* The catch and finally blocks.  createFilesFromMulter removes the files  *)
(* after its rollback.                                                     *)
Recover(r) ==
    /\ pc[r] = "failed"
    /\ IF RollsBack(r) THEN EndTransaction(main[r]) ELSE UNCHANGED <<tx, pending>>
    /\ disk' = [disk EXCEPT ![r] = IF Shape(r) = "upload" /\ RollsBack(r) THEN "none" ELSE @]
    /\ main' = [main EXCEPT ![r] = IF Shape(r) \in Kept THEN @ ELSE NoSlot]
    /\ active' = [active EXCEPT ![r] = FALSE]
    /\ Goto(r, "error")
    /\ UNCHANGED <<endpoint, nested, queue, committed, cut, path, bucket>>

(* The answer, and the finally block of whoever has one.  A transaction    *)
(* that is still open stays on the connection.                             *)
Release(r) ==
    /\ pc[r] = "release"
    /\ main' = [main EXCEPT ![r] = IF Shape(r) \in Kept THEN @ ELSE NoSlot]
    /\ active' = [active EXCEPT ![r] = FALSE]
    /\ Goto(r, "ok")
    /\ UNCHANGED <<endpoint, nested, pool, files>>

(* A connection ends: the pool closes one that is idle for long, or it     *)
(* breaks, perhaps after PostgreSQL has carried out a COMMIT on it.  A     *)
(* query runner gives a broken connection back at once.                    *)
ConnectionEnds(s) ==
    /\ EndTransaction(s)
    /\ \/ UNCHANGED <<committed, cut>>
       \/ \E r \in Requests :
            /\ main[r] = s /\ pc[r] = "commit" /\ active[r] /\ CanQuery(r)
            /\ committed' = committed \cup pending[s]
            /\ cut' = cut \cup {r}
    /\ main' = [r \in Requests |-> IF main[r] = s THEN NoSlot ELSE main[r]]
    /\ nested' = [r \in Requests |-> IF nested[r] = s THEN NoSlot ELSE nested[r]]
    /\ UNCHANGED <<pc, endpoint, active, queue, files>>

Step(r) ==
    \/ Start(r) \/ PutObject(r) \/ Read(r) \/ Write(r) \/ WriteUnstarted(r)
    \/ AskForRoles(r) \/ FindRoles(r) \/ SaveUser(r) \/ RenameFile(r) \/ UpdateFilePath(r)
    \/ Commit(r) \/ RemoveLocalFile(r) \/ InvalidateCache(r)
    \/ StatementFails(r) \/ FindRolesFails(r) \/ Refuse(r) \/ FileFails(r) \/ Recover(r) \/ Release(r)

Next ==
    \/ \E r \in Requests : \E e \in Endpoints[r] : Receive(r, e)
    \/ \E s \in Slots : Grant(s) \/ ConnectionEnds(s)
    \/ \E r \in Requests : Step(r)

(* The process does what it has to do as long as there is something.  That *)
(* is enough: a request has finitely many steps, and the queue is served   *)
(* in order.                                                               *)
Fairness == WF_vars((\E s \in Slots : Grant(s)) \/ (\E r \in Requests : Step(r)))

Spec == Init /\ [][Next]_vars
FairSpec == Spec /\ Fairness

-----------------------------------------------------------------------------
(* r was sent to one of the two handlers that never give their connection  *)
(* back, or its START TRANSACTION was refused because of what others had   *)
(* left on that connection.                                                *)
KeepsForGood(r) ==
    \/ pc[r] \in Answered /\ Shape(r) \in Kept
    \/ pc[r] = "error" /\ Shape(r) \in Beginning /\ tx[main[r]] = "aborted"

(* An answered request still has a connection only for these two reasons. *)
LostConnectionsHaveACause ==
    \A r \in Requests :
        /\ pc[r] \in Answered /\ main[r] # NoSlot => KeepsForGood(r)
        /\ pc[r] \in Answered => nested[r] = NoSlot

(* No failed request's writes are ever committed, by itself or by whoever  *)
(* uses its connection next, and none is reported as done that is not.     *)
(* Known exceptions: updateTerritory and deleteTerritory, a file in the    *)
(* bucket that cannot be removed locally, cached pages that cannot be      *)
(* deleted after the commit, an answer lost with COMMIT.                   *)
AnswersMatchData ==
    \A r \in Requests :
        /\ pc[r] = "error" /\ r \in committed =>
              r \in cut \/ Shape(r) \in {"unstarted", "bucket", "invalidating"}
        /\ pc[r] = "ok" /\ Shape(r) \in Writers => r \in committed

(* A row that createUser, createFilesFromMulter or uploadBucketFile has    *)
(* committed names a place where its handler has left the file.  (What the *)
(* worker of an import removes later is another component's.)              *)
RowsHaveTheirFile ==
    \A r \in committed :
        /\ Shape(r) \in {"createUser", "upload"} => disk[r] = path[r]
        /\ Shape(r) = "bucket" => r \in bucket

(* r has returned its connection with its transaction open; q has failed   *)
(* outside of any transaction of its own.  createUser may do so, on its    *)
(* second connection, before it saves the user.                            *)
Outside == {"autocommit", "unstarted", "unstarted read"}
LeftOpen(r) == pc[r] = "ok" /\ Shape(r) \in {"left open", "cached"}
FailedOutside(q) ==
    \/ pc[q] = "error" /\ Shape(q) \in Outside
    \/ pc[q] \in {"failed", "error"} /\ Shape(q) = "createUser" /\ path[q] = "none"

(* A connection is idle in an aborted transaction only when one request    *)
(* returned it with its transaction open and another failed on it outside  *)
(* of any transaction of its own.                                          *)
AbortedByTwo ==
    (\E s \in Slots : Free(s) /\ tx[s] = "aborted") =>
        \E r, q \in Requests : LeftOpen(r) /\ FailedOutside(q)

HeldOnce ==
    \A r, q \in Requests :
        /\ r # q /\ main[r] # NoSlot => main[r] # main[q]
        /\ r # q /\ nested[r] # NoSlot => nested[r] # nested[q]
        /\ main[r] # NoSlot => main[r] # nested[q]

(* The queue holds requests that wait, each of them once. *)
WaitingOnce ==
    \A i, j \in DOMAIN queue : pc[queue[i]] \in Waiting /\ (queue[i] = queue[j] => i = j)

(* Who holds a connection is at work on it, or keeps it for good. *)
HeldForAReason ==
    \A r \in Requests :
        /\ pc[r] \in {"unsent", "queued"} => main[r] = NoSlot
        /\ nested[r] # NoSlot => pc[r] = "roles"

(* What a transaction holds was written by the handler that is on its      *)
(* connection and has begun it.                                            *)
PendingIsOwn ==
    /\ \A s \in Slots : \A r \in pending[s] :
          /\ main[r] = s /\ active[r] /\ Shape(r) \in Writers
          /\ pc[r] \in {"rename", "repath", "commit", "failed"}
    /\ \A r \in Requests :
          /\ pc[r] \in {"rename", "repath", "commit"} /\ Shape(r) \in Writers
                /\ main[r] # NoSlot => r \in pending[main[r]]
          /\ pc[r] \in {"put", "work", "queuedForRoles", "roles", "save"}
                /\ Shape(r) \in Beginning => active[r]

(* Some steps are only for some shapes. *)
StepsFitShapes ==
    \A r \in Requests :
        /\ pc[r] = "start" => Shape(r) \in Beginning
        /\ pc[r] \in {"put", "tidy"} => Shape(r) = "bucket"
        /\ pc[r] = "invalidate" => Shape(r) = "invalidating"
        /\ pc[r] \in {"queuedForRoles", "roles", "save", "rename", "repath"} =>
              Shape(r) = "createUser"

(* Writes are committed at the end of their handler, or by a COMMIT whose  *)
(* answer was lost.                                                        *)
CommittedAtTheEnd ==
    \A r \in Requests :
        /\ r \in committed =>
              \/ pc[r] \in {"tidy", "invalidate", "release", "ok"}
              \/ Shape(r) = "unstarted" /\ pc[r] \in {"commit", "failed", "error"}
              \/ Shape(r) \in {"bucket", "invalidating"} /\ pc[r] \in {"failed", "error"}
              \/ r \in cut /\ main[r] = NoSlot /\ pc[r] \in {"commit", "failed", "error"}
        /\ pc[r] \in {"tidy", "invalidate", "release", "ok"} /\ Shape(r) \in Writers =>
              r \in committed

(* Before its row is committed a file is where the row says; before        *)
(* createUser saves the user there is no row.                              *)
FilesInPlace ==
    \A r \in Requests :
        /\ pc[r] = "unsent" => path[r] = "none"
        /\ pc[r] \in {"queued", "start", "work", "queuedForRoles", "roles", "save"}
              /\ Shape(r) = "createUser" => path[r] = "none"
        /\ pc[r] = "repath" => disk[r] = "final"
        /\ pc[r] = "commit" /\ Shape(r) \in {"createUser", "upload"} => disk[r] = path[r]
        /\ Shape(r) = "bucket" /\ pc[r] \in {"work", "commit"} => r \in bucket

(* The inductive invariant. *)
PoolInvariant ==
    /\ TypeOK /\ WaitingOnce /\ HeldOnce /\ HeldForAReason /\ StepsFitShapes
    /\ PendingIsOwn /\ CommittedAtTheEnd /\ FilesInPlace
    /\ LostConnectionsHaveACause /\ AnswersMatchData /\ RowsHaveTheirFile

(* The transaction on s is that of its holder, or its holder keeps s.      *)
OfItsHolder(s) == \E r \in Requests : main[r] = s /\ (active[r] \/ Shape(r) \in Kept)

(* Any other transaction on s was left open by somebody, and one that is   *)
(* aborted was aborted by somebody who has failed outside of his own, or   *)
(* is about to.                                                            *)
Inherited(s) ==
    ~OfItsHolder(s) =>
        /\ tx[s] # "none" => \E r \in Requests : LeftOpen(r)
        /\ tx[s] = "aborted" =>
              \E q \in Requests :
                  FailedOutside(q) \/ (main[q] = s /\ pc[q] = "failed" /\ Shape(q) \in Outside)

(* Who gives his connection back after a success has not aborted the       *)
(* transaction, and has ended it if he wrote in it.                        *)
SuccessEnds(r) ==
    main[r] # NoSlot =>
        /\ pc[r] = "release" => tx[main[r]] # "aborted"
        /\ pc[r] \in {"tidy", "invalidate"} \/ (pc[r] = "release" /\ Shape(r) \in Writers) =>
              tx[main[r]] = "none"

(* Only some handlers begin a transaction. *)
BegunByShape(r) ==
    IF pc[r] = "unsent" THEN ~active[r]
    ELSE endpoint[r] \in AllEndpoints /\ (active[r] => Shape(r) \in Beginning)

(* The inductive invariant of what is left on the connections, beside      *)
(* PoolInvariant.                                                          *)
LeftoverInvariant ==
    /\ \A s \in Slots : Inherited(s)
    /\ \A r \in Requests : SuccessEnds(r) /\ BegunByShape(r)

(* Every connection is kept for good, or by a createUser that waits for    *)
(* another one.                                                            *)
Drained ==
    \A s \in Slots : \E r \in Requests :
        main[r] = s /\ (KeepsForGood(r) \/ pc[r] = "queuedForRoles")

(* Every request gets its connection and its answer, unless the pool is    *)
(* drained for ever.                                                       *)
EveryRequestIsAnswered ==
    <>[](Drained \/ \A r \in Requests : pc[r] \in {"unsent"} \cup Answered)
=============================================================================
