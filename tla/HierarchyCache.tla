---------------------------- MODULE HierarchyCache ----------------------------
(***************************************************************************)
(* The cached listings of the region, area, territory and distributor      *)
(* services.  Each service of each API process remembers the keys it has   *)
(* cached; a write deletes those keys after its transaction committed.     *)
(*                                                                         *)
(* What matters of a listing is how old it is: each committed change gives *)
(* a table its next version, and a cached listing carries the versions of  *)
(* the tables it was read from.  A key stands for one page of one listing. *)
(***************************************************************************)
EXTENDS Naturals, FiniteSets

CONSTANTS
    Processes,       \* API processes
    Calls,           \* requests
    Endpoints,       \* the endpoints they may be sent to
    MaxInFlight,     \* requests a process may serve at a time
    SharedStore,     \* one store for all processes, or one in the memory of each?
    StoreCanFail,    \* may a call of the store be refused?
    NoEntry, NoProcess

Tables == {"regions", "areas", "territories", "distributors"}
Services == {"region", "area", "territory", "distributor"}

(* The listings a service caches, each with the tables its query reads. *)
RegionListings == [getRegions |-> {"regions"}, searchRegions |-> {"regions"}]

AreaTerritories == {"territories", "areas"}
AreaListings ==
    [getAreas |-> {"areas", "regions"},
     searchAreas |-> {"areas"},
     getFilteredTerritoriesByAreaId |-> AreaTerritories]

TerritoryListings ==
    [getTerritories |-> {"territories"}, searchFilteredTerritories |-> {"territories"}]

DistributorsFound == {"distributors", "areas", "regions"}
DistributorListings ==
    [listDistributors |-> {"distributors", "areas", "regions"},
     getDistributorDetail |-> {"distributors", "areas", "regions"},
     searchDistributors |-> DistributorsFound]

(* assignAreasToRegion moves the areas whose region_id is null, and there  *)
(* are none: the column is NOT NULL.  unassignAreasFromRegion sets it to   *)
(* null, so it fails unless none of the areas is in the region.            *)
AssignAreas == {}
UnassignAreas == {}
AssignTerritories == {}
UnassignTerritories == {}

(* The writes of a service, each with the tables it may change.  Deleting  *)
(* a row deletes or changes the rows that reference it.                    *)
RegionWrites ==
    [createRegion |-> {"regions"}, updateRegion |-> {"regions"}, deleteRegion |-> Tables,
     assignAreasToRegion |-> AssignAreas, unassignAreasFromRegion |-> UnassignAreas]

AreaWrites ==
    [createArea |-> {"areas"}, updateArea |-> {"areas"}, deleteArea |-> Tables \ {"regions"},
     assignTerritoriesToArea |-> AssignTerritories,
     unassignTerritoriesFromArea |-> UnassignTerritories]

TerritoryWrites ==
    [createTerritory |-> {"territories"}, updateTerritory |-> {"territories"},
     deleteTerritory |-> {"territories"}]

DistributorWrites ==
    [createDistributor |-> {"distributors"}, updateDistributor |-> {"distributors"},
     deleteDistributor |-> {"distributors"}]

Listings == [region |-> RegionListings, area |-> AreaListings,
             territory |-> TerritoryListings, distributor |-> DistributorListings]
Writes == [region |-> RegionWrites, area |-> AreaWrites,
           territory |-> TerritoryWrites, distributor |-> DistributorWrites]

(* A key begins with its service's name: 'region-service:regions:1:20'. *)
KeysOf(s) == {<<s, l>> : l \in DOMAIN Listings[s]}
Keys == UNION {KeysOf(s) : s \in Services}
WriteEndpoints == UNION {{<<s, w>> : w \in DOMAIN Writes[s]} : s \in Services}

Reads(k) == Listings[k[1]][k[2]]
Changes(e) == Writes[e[1]][e[2]]

(* These two never started the transaction they commit: what they did      *)
(* stands, and committing it throws.                                       *)
Unstarted == {<<"territory", "updateTerritory">>, <<"territory", "deleteTerritory">>}

ASSUME EndpointsAssumption == Endpoints \subseteq Keys \cup WriteEndpoints
ASSUME LimitsAssumption ==
    /\ IsFiniteSet(Calls)
    /\ MaxInFlight \in Nat
    /\ SharedStore \in BOOLEAN /\ StoreCanFail \in BOOLEAN

NoEndpoint == <<"none", "none">>

VARIABLES
    version,       \* version[t]: the committed version of table t
    store,         \* store[p][k]: what p finds under k: the versions of a listing, or NoEntry
    known,         \* known[p]: cacheKeys of p's services
    acked,         \* acked[p][s][t]: newest version of t that service s of p reported as written
    pc, at, req,   \* per call: progress, process, endpoint
    got,           \* got[c]: the versions a listing shows, or those a write committed
    dels,          \* dels[c]: the keys whose deletion c awaits
    floor          \* floor[c]: acked when c arrived

call == <<pc, at, req, got, dels, floor>>
vars == <<version, store, known, acked, call>>

Zero == [t \in Tables |-> 0]
NothingAcked == [p \in Processes |-> [s \in Services |-> Zero]]
Reading == {"get", "query", "set", "add"}
Writing == {"write", "invalidate", "del"}
Running == Reading \cup Writing

TypeOK ==
    /\ version \in [Tables -> Nat]
    /\ store \in [Processes -> [Keys -> [Tables -> Nat] \cup {NoEntry}]]
    /\ known \in [Processes -> SUBSET Keys]
    /\ acked \in [Processes -> [Services -> [Tables -> Nat]]]
    /\ pc \in [Calls -> Running \cup {"unsent", "done", "error"}]
    /\ at \in [Calls -> Processes \cup {NoProcess}]
    /\ req \in [Calls -> Endpoints \cup {NoEndpoint}]
    /\ got \in [Calls -> [Tables -> Nat]]
    /\ dels \in [Calls -> SUBSET Keys]
    /\ floor \in [Calls -> [Processes -> [Services -> [Tables -> Nat]]]]

Init ==
    /\ version = Zero
    /\ store = [p \in Processes |-> [k \in Keys |-> NoEntry]]
    /\ known = [p \in Processes |-> {}]
    /\ acked = NothingAcked
    /\ pc = [c \in Calls |-> "unsent"]
    /\ at = [c \in Calls |-> NoProcess]
    /\ req = [c \in Calls |-> NoEndpoint]
    /\ got = [c \in Calls |-> Zero]
    /\ dels = [c \in Calls |-> {}]
    /\ floor = [c \in Calls |-> NothingAcked]

-----------------------------------------------------------------------------
Goto(c, label) == pc' = [pc EXCEPT ![c] = label]
Service(c) == req[c][1]
InFlight(p) == {c \in Calls : at[c] = p /\ pc[c] \in Running}

(* p puts an entry under k, or NoEntry to delete it; every process that    *)
(* shares the store sees it.                                               *)
Sharing(p) == IF SharedStore THEN Processes ELSE {p}
Put(p, k, entry) ==
    store' = [q \in Processes |->
                IF q \in Sharing(p) THEN [store[q] EXCEPT ![k] = entry] ELSE store[q]]

Receive(c, p, e) ==
    /\ pc[c] = "unsent"
    /\ Cardinality(InFlight(p)) < MaxInFlight
    /\ at' = [at EXCEPT ![c] = p]
    /\ req' = [req EXCEPT ![c] = e]
    /\ floor' = [floor EXCEPT ![c] = acked]
    /\ Goto(c, IF e \in Keys THEN "get" ELSE "write")
    /\ UNCHANGED <<version, store, known, acked, got, dels>>

(* A listing: getFromCache, and on a miss the query and setCache. *)
GetFromCache(c) ==
    LET entry == store[at[c]][req[c]] IN
    /\ pc[c] = "get"
    /\ IF entry = NoEntry
       THEN UNCHANGED got /\ Goto(c, "query")
       ELSE got' = [got EXCEPT ![c] = entry] /\ Goto(c, "done")
    /\ UNCHANGED <<version, store, known, acked, at, req, dels, floor>>

Query(c) ==
    /\ pc[c] = "query"
    /\ got' = [got EXCEPT ![c] = [t \in Tables |-> IF t \in Reads(req[c]) THEN version[t] ELSE 0]]
    /\ Goto(c, "set")
    /\ UNCHANGED <<version, store, known, acked, at, req, dels, floor>>

SetCache(c) ==
    /\ pc[c] = "set"
    /\ Put(at[c], req[c], got[c])
    /\ Goto(c, "add")
    /\ UNCHANGED <<version, known, acked, at, req, got, dels, floor>>

(* Slip: the key is not remembered. *)
AddNoKey(c) ==
    /\ pc[c] = "add"
    /\ Goto(c, "done")
    /\ UNCHANGED <<version, store, known, acked, at, req, got, dels, floor>>

AddKey(c) ==
    /\ pc[c] = "add"
    /\ known' = [known EXCEPT ![at[c]] = @ \cup {req[c]}]
    /\ Goto(c, "done")
    /\ UNCHANGED <<version, store, acked, at, req, got, dels, floor>>

(* A write: the transaction, then invalidateCache. *)
Commit(c) ==
    /\ pc[c] = "write"
    /\ version' = [t \in Tables |-> IF t \in Changes(req[c]) THEN version[t] + 1 ELSE version[t]]
    /\ got' = [got EXCEPT ![c] = [t \in Tables |-> IF t \in Changes(req[c]) THEN version[t] + 1 ELSE 0]]
    /\ Goto(c, IF req[c] \in Unstarted THEN "error" ELSE "invalidate")
    /\ UNCHANGED <<store, known, acked, at, req, dels, floor>>

(* No such row, a name that is taken, or a statement that fails. *)
Reject(c) ==
    /\ pc[c] \in {"query", "write"}
    /\ Goto(c, "error")
    /\ UNCHANGED <<version, store, known, acked, at, req, got, dels, floor>>

KnownTo(p, s) == known[p] \cap KeysOf(s)

Newer(n, m) == IF n < m THEN m ELSE n

Acknowledge(c) ==
    /\ acked' = [acked EXCEPT ![at[c]][Service(c)] = [t \in Tables |-> Newer(@[t], got[c][t])]]
    /\ Goto(c, "done")

(* Slip: the keys are forgotten before they are deleted. *)
InvalidateForgetful(c) ==
    /\ pc[c] = "invalidate"
    /\ dels' = [dels EXCEPT ![c] = KnownTo(at[c], Service(c))]
    /\ known' = [known EXCEPT ![at[c]] = @ \ KeysOf(Service(c))]
    /\ Goto(c, "del")
    /\ UNCHANGED <<version, store, acked, at, req, got, floor>>

Invalidate(c) ==
    LET keys == KnownTo(at[c], Service(c)) IN
    /\ pc[c] = "invalidate"
    /\ IF keys = {}
       THEN Acknowledge(c)
       ELSE Goto(c, "del") /\ UNCHANGED acked
    /\ dels' = [dels EXCEPT ![c] = keys]
    /\ UNCHANGED <<version, store, known, at, req, got, floor>>

DeleteKey(c, k) ==
    /\ pc[c] = "del"
    /\ k \in dels[c]
    /\ Put(at[c], k, NoEntry)
    /\ dels' = [dels EXCEPT ![c] = @ \ {k}]
    /\ UNCHANGED <<version, known, acked, pc, at, req, got, floor>>

(* Slip: the deletions are not awaited. *)
ForgetKeysUnawaited(c) ==
    /\ pc[c] = "del"
    /\ known' = [known EXCEPT ![at[c]] = @ \ KeysOf(Service(c))]
    /\ Acknowledge(c)
    /\ UNCHANGED <<version, store, at, req, got, dels, floor>>

(* All deletions are done: clear() drops every key known by now, also one  *)
(* that was added during the deletions.                                    *)
ForgetKeys(c) ==
    /\ pc[c] = "del"
    /\ dels[c] = {}
    /\ known' = [known EXCEPT ![at[c]] = @ \ KeysOf(Service(c))]
    /\ Acknowledge(c)
    /\ UNCHANGED <<version, store, at, req, got, dels, floor>>

-----------------------------------------------------------------------------
(* The store refuses a call: the request fails, a write after its commit.  *)
StoreRefuses(c) ==
    /\ StoreCanFail
    /\ pc[c] \in {"get", "set"} \/ (pc[c] = "del" /\ dels[c] # {})
    /\ dels' = [dels EXCEPT ![c] = {}]
    /\ Goto(c, "error")
    /\ UNCHANGED <<version, store, known, acked, at, req, got, floor>>

(* The time an entry may live is over. *)
Expire(p, k) ==
    /\ store[p][k] # NoEntry
    /\ Put(p, k, NoEntry)
    /\ UNCHANGED <<version, known, acked, call>>

(* A process restarts: its requests and its keys are gone, and its store   *)
(* if that was in its memory.                                              *)
Restart(p) ==
    /\ known' = [known EXCEPT ![p] = {}]
    /\ store' = IF SharedStore THEN store ELSE [store EXCEPT ![p] = [k \in Keys |-> NoEntry]]
    /\ pc' = [c \in Calls |-> IF c \in InFlight(p) THEN "error" ELSE pc[c]]
    /\ dels' = [c \in Calls |-> IF c \in InFlight(p) THEN {} ELSE dels[c]]
    /\ UNCHANGED <<version, acked, at, req, got, floor>>

Step(c) ==
    \/ GetFromCache(c) \/ Query(c) \/ SetCache(c) \/ AddKey(c)
    \/ Commit(c) \/ Reject(c) \/ Invalidate(c) \/ ForgetKeys(c)
    \/ \E k \in Keys : DeleteKey(c, k)
    \/ StoreRefuses(c)

Next ==
    \/ \E c \in Calls, p \in Processes, e \in Endpoints : Receive(c, p, e)
    \/ \E c \in Calls : Step(c)
    \/ \E p \in Processes : Restart(p) \/ \E k \in Keys : Expire(p, k)

Spec == Init /\ [][Next]_vars

-----------------------------------------------------------------------------
Served == {c \in Calls : req[c] \in Keys /\ pc[c] = "done"}

(* A listing shows every change that the same service of the same process  *)
(* had reported as written before the listing was asked for: what          *)
(* invalidateCache after each commit is there for.                         *)
FreshForItsService ==
    \A c \in Served : \A t \in Reads(req[c]) :
        got[c][t] >= floor[c][at[c]][Service(c)][t]

(* A process at rest knows every key its store holds, also after a refused *)
(* deletion, so that the next write can delete it.                         *)
NothingEscapesInvalidation ==
    \A p \in Processes : InFlight(p) = {} =>
        \A k \in Keys : store[p][k] # NoEntry => k \in known[p]

(* Why the two hold while a process with a store of its own serves one     *)
(* request at a time.                                                      *)
CallsAreSent ==
    \A c \in Calls : pc[c] # "unsent" =>
        /\ at[c] \in Processes
        /\ req[c] \in Endpoints
        /\ pc[c] \in Reading => req[c] \in Keys
        /\ pc[c] \in Writing => req[c] \notin Keys

OneAtATime ==
    \A c, d \in Calls : pc[c] \in Running /\ pc[d] \in Running /\ at[c] = at[d] => c = d

AckedIsCommitted ==
    /\ \A p \in Processes, s \in Services, t \in Tables : acked[p][s][t] <= version[t]
    /\ \A c \in Calls, t \in Tables : pc[c] \in {"invalidate", "del"} => got[c][t] <= version[t]
    /\ \A c \in Calls, p \in Processes, s \in Services, t \in Tables : floor[c][p][s][t] <= acked[p][s][t]

StoredIsFresh ==
    \A p \in Processes, k \in Keys : store[p][k] # NoEntry =>
        \A t \in Reads(k) : store[p][k][t] >= acked[p][k[1]][t]

ReadIsFresh ==
    \A c \in Calls : pc[c] \in {"set", "add"} =>
        \A t \in Reads(req[c]) : got[c][t] >= acked[at[c]][Service(c)][t]

StoredIsKnown ==
    \A p \in Processes, k \in Keys : store[p][k] # NoEntry =>
        k \in known[p] \/ \E c \in Calls : pc[c] = "add" /\ at[c] = p /\ req[c] = k

DeletingCoversStored ==
    \A c \in Calls : pc[c] = "del" =>
        \A k \in KeysOf(Service(c)) : store[at[c]][k] # NoEntry => k \in dels[c]

(* Inductive: with one request at a time, stored and read listings are as  *)
(* new as what their service has reported, and invalidateCache reaches     *)
(* every stored listing of its service.                                    *)
CacheInvariant ==
    /\ TypeOK
    /\ CallsAreSent
    /\ OneAtATime
    /\ AckedIsCommitted
    /\ StoredIsFresh
    /\ ReadIsFresh
    /\ StoredIsKnown
    /\ DeletingCoversStored
    /\ FreshForItsService

(* A listing shows every change that any service had reported as written   *)
(* before the listing was asked for: "Cached data is updated whenever      *)
(* relevant information changes, keeping it accurate".                     *)
FreshListings ==
    \A c \in Served : \A t \in Reads(req[c]) :
        \A p \in Processes, s \in Services : got[c][t] >= floor[c][p][s][t]
=============================================================================
