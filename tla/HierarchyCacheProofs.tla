------------------------ MODULE HierarchyCacheProofs ------------------------
(***************************************************************************)
(* Proofs about HierarchyCache for every set of processes, of requests and *)
(* of endpoints, with one request at a time in each process and a store of *)
(* its own for each.                                                       *)
(***************************************************************************)
EXTENDS HierarchyCache, FiniteSetTheorems, TLAPS

(* Keys belong to the service they name, and listings read tables. *)
LEMMA KeyFacts ==
    ASSUME NEW k \in Keys
    PROVE  /\ k[1] \in Services
           /\ k \in KeysOf(k[1])
           /\ Reads(k) \subseteq Tables
  <1>1. PICK s \in Services : k \in KeysOf(s)
    BY DEF Keys
  <1>2. PICK l \in DOMAIN Listings[s] : k = <<s, l>>
    BY <1>1 DEF KeysOf
  <1>3. k[1] = s /\ k[2] = l
    BY <1>2
  <1>4. Listings[s][l] \subseteq Tables
    <2>1. CASE s = "region"
      BY <2>1 DEF Listings, RegionListings, Tables
    <2>2. CASE s = "area"
      BY <2>2 DEF Listings, AreaListings, AreaTerritories, Tables
    <2>3. CASE s = "territory"
      BY <2>3 DEF Listings, TerritoryListings, Tables
    <2>4. CASE s = "distributor"
      BY <2>4 DEF Listings, DistributorListings, DistributorsFound, Tables
    <2> QED
      BY <2>1, <2>2, <2>3, <2>4 DEF Services
  <1> QED
    BY <1>1, <1>3, <1>4 DEF Reads

(* Every endpoint belongs to a service. *)
LEMMA EndpointService ==
    ASSUME NEW e \in Endpoints
    PROVE  e[1] \in Services
  <1>1. CASE e \in Keys
    BY <1>1, KeyFacts
  <1>2. CASE e \in WriteEndpoints
    <2>1. PICK s \in Services : e \in {<<s, w>> : w \in DOMAIN Writes[s]}
      BY <1>2 DEF WriteEndpoints
    <2> QED
      BY <2>1
  <1> QED
    BY <1>1, <1>2, EndpointsAssumption

-----------------------------------------------------------------------------
(* Type correctness. *)

(* Whatever a call does with the store, entries stay versions of tables. *)
LEMMA PutType ==
    ASSUME TypeOK, NEW p \in Processes, NEW k \in Keys,
           NEW entry \in [Tables -> Nat] \cup {NoEntry}, Put(p, k, entry)
    PROVE  store' \in [Processes -> [Keys -> [Tables -> Nat] \cup {NoEntry}]]
  BY DEF TypeOK, Put

(* The versions acknowledged stay versions. *)
LEMMA AcknowledgeType ==
    ASSUME TypeOK, NEW c \in Calls, at[c] \in Processes, Service(c) \in Services, Acknowledge(c)
    PROVE  /\ acked' \in [Processes -> [Services -> [Tables -> Nat]]]
           /\ pc' \in [Calls -> Running \cup {"unsent", "done", "error"}]
  <1> DEFINE new == [t \in Tables |-> Newer(acked[at[c]][Service(c)][t], got[c][t])]
  <1>1. new \in [Tables -> Nat]
    BY DEF TypeOK, Newer
  <1>2. acked' = [acked EXCEPT ![at[c]][Service(c)] = new]
    BY DEF Acknowledge
  <1> HIDE DEF new
  <1>3. acked' \in [Processes -> [Services -> [Tables -> Nat]]]
    BY <1>1, <1>2 DEF TypeOK
  <1> QED
    BY <1>3 DEF Acknowledge, Goto, TypeOK

(* Every step keeps the types, of calls that were sent. *)
LEMMA TypeStep ==
    ASSUME TypeOK, CallsAreSent, [Next]_vars
    PROVE  TypeOK'
  <1> USE DEF Goto
  <1>0. ASSUME NEW c \in Calls, pc[c] \in Running
        PROVE  at[c] \in Processes /\ req[c] \in Endpoints /\ Service(c) \in Services
    BY <1>0, EndpointService DEF CallsAreSent, Service, Running, Reading, Writing
  <1>1. ASSUME NEW c \in Calls, NEW p \in Processes, NEW e \in Endpoints, Receive(c, p, e)
        PROVE  TypeOK'
    BY <1>1 DEF Receive, TypeOK, Running, Reading, Writing
  <1>2. ASSUME NEW c \in Calls, GetFromCache(c)
        PROVE  TypeOK'
    <2>1. at[c] \in Processes /\ req[c] \in Keys
      BY <1>2 DEF GetFromCache, CallsAreSent, Reading
    <2>2. store[at[c]][req[c]] \in [Tables -> Nat] \cup {NoEntry}
      BY <2>1 DEF TypeOK
    <2> QED
      BY <1>2, <2>2 DEF GetFromCache, TypeOK, Running, Reading, Writing
  <1>3. ASSUME NEW c \in Calls, Query(c)
        PROVE  TypeOK'
    <2>1. [t \in Tables |-> IF t \in Reads(req[c]) THEN version[t] ELSE 0] \in [Tables -> Nat]
      BY DEF TypeOK
    <2> QED
      BY <1>3, <2>1 DEF Query, TypeOK, Running, Reading, Writing
  <1>4. ASSUME NEW c \in Calls, SetCache(c)
        PROVE  TypeOK'
    <2>1. at[c] \in Processes /\ req[c] \in Keys
      BY <1>4 DEF SetCache, CallsAreSent, Reading
    <2>2. store' \in [Processes -> [Keys -> [Tables -> Nat] \cup {NoEntry}]]
      BY <1>4, <2>1, PutType DEF SetCache, TypeOK
    <2> QED
      BY <1>4, <2>2 DEF SetCache, TypeOK, Running, Reading, Writing
  <1>5. ASSUME NEW c \in Calls, AddKey(c)
        PROVE  TypeOK'
    <2>1. at[c] \in Processes /\ req[c] \in Keys
      BY <1>5 DEF AddKey, CallsAreSent, Reading
    <2> QED
      BY <1>5, <2>1 DEF AddKey, TypeOK, Running, Reading, Writing
  <1>6. ASSUME NEW c \in Calls, Commit(c)
        PROVE  TypeOK'
    <2> DEFINE now == [t \in Tables |-> IF t \in Changes(req[c]) THEN version[t] + 1 ELSE version[t]]
               new == [t \in Tables |-> IF t \in Changes(req[c]) THEN version[t] + 1 ELSE 0]
    <2>1. now \in [Tables -> Nat] /\ new \in [Tables -> Nat]
      BY DEF TypeOK
    <2>2. version' = now /\ got' = [got EXCEPT ![c] = new]
      BY <1>6 DEF Commit
    <2> HIDE DEF now, new
    <2> QED
      BY <1>6, <2>1, <2>2 DEF Commit, TypeOK, Running, Reading, Writing
  <1>7. ASSUME NEW c \in Calls, Reject(c)
        PROVE  TypeOK'
    BY <1>7 DEF Reject, TypeOK
  <1>8. ASSUME NEW c \in Calls, Invalidate(c)
        PROVE  TypeOK'
    <2>1. at[c] \in Processes /\ Service(c) \in Services
      BY <1>0, <1>8 DEF Invalidate, Running, Writing
    <2>2. KnownTo(at[c], Service(c)) \in SUBSET Keys
      BY <2>1 DEF KnownTo, TypeOK
    <2>3. CASE Acknowledge(c)
      BY <1>8, <2>1, <2>2, <2>3, AcknowledgeType DEF Invalidate, TypeOK
    <2>4. CASE Goto(c, "del") /\ UNCHANGED acked
      BY <1>8, <2>2, <2>4 DEF Invalidate, TypeOK, Running, Writing
    <2> QED
      BY <1>8, <2>3, <2>4 DEF Invalidate
  <1>9. ASSUME NEW c \in Calls, ForgetKeys(c)
        PROVE  TypeOK'
    <2>1. at[c] \in Processes /\ Service(c) \in Services
      BY <1>0, <1>9 DEF ForgetKeys, Running, Writing
    <2> QED
      BY <1>9, <2>1, AcknowledgeType DEF ForgetKeys, TypeOK
  <1>10. ASSUME NEW c \in Calls, NEW k \in Keys, DeleteKey(c, k)
         PROVE  TypeOK'
    <2>1. at[c] \in Processes
      BY <1>0, <1>10 DEF DeleteKey, Running, Writing
    <2>2. store' \in [Processes -> [Keys -> [Tables -> Nat] \cup {NoEntry}]]
      BY <1>10, <2>1, PutType DEF DeleteKey
    <2> QED
      BY <1>10, <2>2 DEF DeleteKey, TypeOK
  <1>11. ASSUME NEW c \in Calls, StoreRefuses(c)
         PROVE  TypeOK'
    BY <1>11 DEF StoreRefuses, TypeOK
  <1>12. ASSUME NEW p \in Processes, Restart(p)
         PROVE  TypeOK'
    BY <1>12 DEF Restart, TypeOK
  <1>13. ASSUME NEW p \in Processes, NEW k \in Keys, Expire(p, k)
         PROVE  TypeOK'
    BY <1>13, PutType DEF Expire, TypeOK, call
  <1>14. CASE UNCHANGED vars
    BY <1>14 DEF TypeOK, vars, call
  <1> QED
    BY <1>1, <1>2, <1>3, <1>4, <1>5, <1>6, <1>7, <1>8, <1>9, <1>10, <1>11, <1>12, <1>13, <1>14
    DEF Next, Step

-----------------------------------------------------------------------------
(* One request at a time. *)

(* A process that may take up a request serves none. *)
LEMMA FreeProcess ==
    ASSUME MaxInFlight = 1, NEW p \in Processes, Cardinality(InFlight(p)) < MaxInFlight
    PROVE  InFlight(p) = {}
  <1>1. InFlight(p) \subseteq Calls
    BY DEF InFlight
  <1>2. IsFiniteSet(InFlight(p))
    BY <1>1, LimitsAssumption, FS_Subset
  <1>3. Cardinality(InFlight(p)) \in Nat
    BY <1>2, FS_CardinalityType
  <1>4. Cardinality(InFlight(p)) = 0
    BY <1>3
  <1> QED
    BY <1>2, <1>4, FS_EmptySet

(* Control: every step keeps what pc says of a call, and one call at a     *)
(* time in each process.                                                   *)
LEMMA ControlStep ==
    ASSUME MaxInFlight = 1, TypeOK, CallsAreSent, OneAtATime, [Next]_vars
    PROVE  CallsAreSent' /\ OneAtATime'
  <1> USE DEF Goto, CallsAreSent, OneAtATime, Running, Reading, Writing, TypeOK
  <1>1. ASSUME NEW c \in Calls, NEW p \in Processes, NEW e \in Endpoints, Receive(c, p, e)
        PROVE  CallsAreSent' /\ OneAtATime'
    <2>1. InFlight(p) = {}
      BY <1>1, FreeProcess DEF Receive
    <2>2. \A d \in Calls : at[d] = p => pc[d] \notin Running
      BY <2>1 DEF InFlight
    <2> QED
      BY <1>1, <2>2 DEF Receive
  <1>2. ASSUME NEW c \in Calls, Step(c)
        PROVE  CallsAreSent' /\ OneAtATime'
    <2>1. at' = at /\ req' = req
      BY <1>2 DEF Step, GetFromCache, Query, SetCache, AddKey, Commit, Reject, Invalidate,
                  DeleteKey, ForgetKeys, StoreRefuses
    <2>2. \A d \in Calls : d # c => pc'[d] = pc[d]
      BY <1>2 DEF Step, GetFromCache, Query, SetCache, AddKey, Commit, Reject, Invalidate,
                  DeleteKey, ForgetKeys, StoreRefuses, Acknowledge
    <2>3. pc[c] \in Running
      BY <1>2 DEF Step, GetFromCache, Query, SetCache, AddKey, Commit, Reject, Invalidate,
                  DeleteKey, ForgetKeys, StoreRefuses
    <2>4. /\ pc'[c] \in Reading => pc[c] \in Reading
          /\ pc'[c] \in Writing => pc[c] \in Writing
      BY <1>2 DEF Step, GetFromCache, Query, SetCache, AddKey, Commit, Reject, Invalidate,
                  DeleteKey, ForgetKeys, StoreRefuses, Acknowledge
    <2>5. CallsAreSent'
      BY <2>1, <2>2, <2>3, <2>4
    <2>6. \A d \in Calls : pc'[d] \in Running => pc[d] \in Running
      BY <2>2, <2>3
    <2>7. OneAtATime'
      BY <2>1, <2>6
    <2> QED
      BY <2>5, <2>7
  <1>3. ASSUME NEW p \in Processes, Restart(p)
        PROVE  CallsAreSent' /\ OneAtATime'
    <2>1. at' = at /\ req' = req
      BY <1>3 DEF Restart
    <2>2. \A d \in Calls : pc'[d] \in {pc[d], "error"} /\ (pc[d] = "unsent" => pc'[d] = "unsent")
      BY <1>3 DEF Restart, InFlight
    <2> QED
      BY <2>1, <2>2
  <1>4. ASSUME NEW p \in Processes, NEW k \in Keys, Expire(p, k)
        PROVE  CallsAreSent' /\ OneAtATime'
    BY <1>4 DEF Expire, call
  <1>5. CASE UNCHANGED vars
    BY <1>5 DEF vars, call
  <1> QED
    BY <1>1, <1>2, <1>3, <1>4, <1>5 DEF Next

-----------------------------------------------------------------------------
(* Freshness.  One lemma per kind of step. *)

Freshness ==
    /\ AckedIsCommitted
    /\ StoredIsFresh
    /\ ReadIsFresh
    /\ StoredIsKnown
    /\ DeletingCoversStored
    /\ FreshForItsService

(* A process with a store of its own changes no other. *)
LEMMA PutIsLocal ==
    ASSUME ~SharedStore, TypeOK, NEW p \in Processes, NEW k \in Keys, NEW entry, Put(p, k, entry)
    PROVE  \A q \in Processes, l \in Keys :
               store'[q][l] = IF q = p /\ l = k THEN entry ELSE store[q][l]
  BY DEF Put, Sharing, TypeOK

(* A request that arrives finds acknowledged what it will be judged by. *)
LEMMA ReceiveFresh ==
    ASSUME CacheInvariant, NEW c \in Calls, NEW p \in Processes, NEW e \in Endpoints, Receive(c, p, e)
    PROVE  Freshness'
  <1> USE DEF CacheInvariant, Receive, Goto
  <1>1. pc'[c] \in {"get", "write"} /\ \A d \in Calls : d # c => pc'[d] = pc[d]
    BY DEF TypeOK, Running, Reading, Writing
  <1>2. \A d \in Calls : d # c => at'[d] = at[d] /\ req'[d] = req[d] /\ floor'[d] = floor[d]
    BY DEF TypeOK
  <1>3. floor'[c] = acked
    BY DEF TypeOK
  <1>4. AckedIsCommitted'
    <2>1. \A q \in Processes, s \in Services, t \in Tables : acked[q][s][t] \in Nat
      BY DEF TypeOK
    <2>2. \A d \in Calls, q \in Processes, s \in Services, t \in Tables : floor'[d][q][s][t] <= acked[q][s][t]
      BY <1>2, <1>3, <2>1 DEF AckedIsCommitted
    <2> QED
      BY <1>1, <2>2 DEF AckedIsCommitted
  <1>5. StoredIsFresh'
    BY DEF StoredIsFresh
  <1>6. ReadIsFresh'
    BY <1>1, <1>2 DEF ReadIsFresh, Service
  <1>7. StoredIsKnown'
    <2>1. \A d \in Calls : pc[d] = "add" => pc'[d] = "add" /\ at'[d] = at[d] /\ req'[d] = req[d]
      BY <1>1, <1>2
    <2> QED
      BY <2>1 DEF StoredIsKnown
  <1>8. DeletingCoversStored'
    BY <1>1, <1>2 DEF DeletingCoversStored, Service
  <1>9. FreshForItsService'
    BY <1>1, <1>2 DEF FreshForItsService, Served, Service
  <1> QED
    BY <1>4, <1>5, <1>6, <1>7, <1>8, <1>9 DEF Freshness

(* A hit serves a stored listing, which is fresh; a miss serves nothing. *)
LEMMA GetFromCacheFresh ==
    ASSUME CacheInvariant, NEW c \in Calls, GetFromCache(c)
    PROVE  Freshness'
  <1> USE DEF CacheInvariant, GetFromCache, Goto
  <1>1. /\ pc'[c] \in {"query", "done"}
        /\ \A d \in Calls : d # c => pc'[d] = pc[d] /\ got'[d] = got[d]
    BY DEF TypeOK
  <1>2. at[c] \in Processes /\ req[c] \in Keys /\ Service(c) \in Services /\ Reads(req[c]) \subseteq Tables
    BY KeyFacts DEF CallsAreSent, Reading, Service
  <1>3. AckedIsCommitted'
    BY <1>1 DEF AckedIsCommitted
  <1>4. StoredIsFresh'
    BY DEF StoredIsFresh
  <1>5. ReadIsFresh'
    BY <1>1 DEF ReadIsFresh, Service
  <1>6. StoredIsKnown'
    BY <1>1 DEF StoredIsKnown
  <1>7. DeletingCoversStored'
    BY <1>1 DEF DeletingCoversStored, Service
  <1>8. ASSUME pc'[c] = "done", NEW t \in Reads(req[c])
        PROVE  got'[c][t] >= floor[c][at[c]][Service(c)][t]
    <2>1. store[at[c]][req[c]] # NoEntry /\ got'[c] = store[at[c]][req[c]]
      BY <1>8 DEF TypeOK
    <2>2. store[at[c]][req[c]] \in [Tables -> Nat]
      BY <1>2, <2>1 DEF TypeOK
    <2>3. store[at[c]][req[c]][t] >= acked[at[c]][Service(c)][t]
      BY <1>2, <2>1 DEF StoredIsFresh, Service
    <2>4. floor[c][at[c]][Service(c)][t] <= acked[at[c]][Service(c)][t]
      BY <1>2 DEF AckedIsCommitted
    <2>5. /\ floor[c][at[c]][Service(c)][t] \in Nat
          /\ acked[at[c]][Service(c)][t] \in Nat
          /\ store[at[c]][req[c]][t] \in Nat
      BY <1>2, <2>2 DEF TypeOK
    <2> QED
      BY <2>1, <2>3, <2>4, <2>5
  <1>9. FreshForItsService'
    BY <1>1, <1>8 DEF FreshForItsService, Served, Service
  <1> QED
    BY <1>3, <1>4, <1>5, <1>6, <1>7, <1>9 DEF Freshness

(* The query sees everything that was committed. *)
LEMMA QueryFresh ==
    ASSUME CacheInvariant, NEW c \in Calls, Query(c)
    PROVE  Freshness'
  <1> USE DEF CacheInvariant, Query, Goto
  <1>1. /\ pc'[c] = "set"
        /\ \A d \in Calls : d # c => pc'[d] = pc[d] /\ got'[d] = got[d]
    BY DEF TypeOK
  <1>2. at[c] \in Processes /\ Service(c) \in Services /\ Reads(req[c]) \subseteq Tables
    BY KeyFacts DEF CallsAreSent, Reading, Service
  <1>3. \A t \in Reads(req[c]) : got'[c][t] = version[t]
    BY <1>2 DEF TypeOK
  <1>4. \A t \in Tables : version[t] \in Nat /\ acked[at[c]][Service(c)][t] \in Nat
    BY <1>2 DEF TypeOK
  <1>5. AckedIsCommitted'
    BY <1>1 DEF AckedIsCommitted
  <1>6. StoredIsFresh'
    BY DEF StoredIsFresh
  <1>7. ReadIsFresh'
    <2>1. \A t \in Reads(req[c]) : got'[c][t] >= acked[at[c]][Service(c)][t]
      BY <1>2, <1>3, <1>4 DEF AckedIsCommitted
    <2> QED
      BY <1>1, <2>1 DEF ReadIsFresh, Service
  <1>8. StoredIsKnown'
    BY <1>1 DEF StoredIsKnown
  <1>9. DeletingCoversStored'
    BY <1>1 DEF DeletingCoversStored, Service
  <1>10. FreshForItsService'
    BY <1>1 DEF FreshForItsService, Served, Service
  <1> QED
    BY <1>5, <1>6, <1>7, <1>8, <1>9, <1>10 DEF Freshness

(* What is stored is as fresh as what was read. *)
LEMMA SetCacheFresh ==
    ASSUME ~SharedStore, CacheInvariant, NEW c \in Calls, SetCache(c)
    PROVE  Freshness'
  <1> USE DEF CacheInvariant, SetCache, Goto
  <1>1. pc[c] = "set" /\ pc'[c] = "add" /\ \A d \in Calls : d # c => pc'[d] = pc[d]
    BY DEF TypeOK
  <1>2. at[c] \in Processes /\ req[c] \in Keys /\ Service(c) = req[c][1]
    BY DEF CallsAreSent, Reading, Service
  <1>3. \A q \in Processes, l \in Keys :
            store'[q][l] = IF q = at[c] /\ l = req[c] THEN got[c] ELSE store[q][l]
    BY <1>2, PutIsLocal
  <1>4. AckedIsCommitted'
    BY <1>1 DEF AckedIsCommitted
  <1>5. StoredIsFresh'
    BY <1>1, <1>2, <1>3 DEF StoredIsFresh, ReadIsFresh
  <1>6. ReadIsFresh'
    BY <1>1 DEF ReadIsFresh, Service
  <1>7. StoredIsKnown'
    BY <1>1, <1>3 DEF StoredIsKnown
  <1>8. DeletingCoversStored'
    <2>1. ASSUME NEW d \in Calls, pc'[d] = "del"
          PROVE  d # c /\ pc[d] = "del" /\ at[d] # at[c] /\ at[d] \in Processes
      BY <1>1, <2>1 DEF OneAtATime, CallsAreSent, Running, Reading, Writing
    <2>2. \A d \in Calls : Service(d)' = Service(d)
      BY DEF Service
    <2>3. ASSUME NEW d \in Calls, pc'[d] = "del", NEW k \in KeysOf(Service(d)), store'[at[d]][k] # NoEntry
          PROVE  k \in dels[d]
      <3>1. k \in Keys
        BY <2>1, <2>3, EndpointService DEF Keys, CallsAreSent, Service
      <3> QED
        BY <1>3, <2>1, <2>3, <3>1 DEF DeletingCoversStored
    <2> QED
      BY <2>2, <2>3 DEF DeletingCoversStored
  <1>9. FreshForItsService'
    BY <1>1 DEF FreshForItsService, Served, Service
  <1> QED
    BY <1>4, <1>5, <1>6, <1>7, <1>8, <1>9 DEF Freshness

(* The key is known once its listing is served; the listing is fresh. *)
LEMMA AddKeyFresh ==
    ASSUME CacheInvariant, NEW c \in Calls, AddKey(c)
    PROVE  Freshness'
  <1> USE DEF CacheInvariant, AddKey, Goto
  <1>1. pc[c] = "add" /\ pc'[c] = "done" /\ \A d \in Calls : d # c => pc'[d] = pc[d]
    BY DEF TypeOK
  <1>2. /\ at[c] \in Processes /\ req[c] \in Keys
        /\ Service(c) \in Services /\ Reads(req[c]) \subseteq Tables
    BY KeyFacts DEF CallsAreSent, Reading, Service
  <1>3. /\ req[c] \in known'[at[c]]
        /\ \A q \in Processes : known[q] \subseteq known'[q]
    BY <1>2 DEF TypeOK
  <1>4. AckedIsCommitted'
    BY <1>1 DEF AckedIsCommitted
  <1>5. StoredIsFresh'
    BY DEF StoredIsFresh
  <1>6. ReadIsFresh'
    BY <1>1 DEF ReadIsFresh, Service
  <1>7. StoredIsKnown'
    BY <1>1, <1>3 DEF StoredIsKnown
  <1>8. DeletingCoversStored'
    BY <1>1 DEF DeletingCoversStored, Service
  <1>9. ASSUME NEW t \in Reads(req[c])
        PROVE  got[c][t] >= floor[c][at[c]][Service(c)][t]
    <2>1. got[c][t] >= acked[at[c]][Service(c)][t]
      BY <1>1 DEF ReadIsFresh
    <2>2. floor[c][at[c]][Service(c)][t] <= acked[at[c]][Service(c)][t]
      BY <1>2 DEF AckedIsCommitted
    <2>3. /\ floor[c][at[c]][Service(c)][t] \in Nat
          /\ acked[at[c]][Service(c)][t] \in Nat
          /\ got[c][t] \in Nat
      BY <1>2 DEF TypeOK
    <2> QED
      BY <2>1, <2>2, <2>3
  <1>10. FreshForItsService'
    BY <1>1, <1>9 DEF FreshForItsService, Served, Service
  <1> QED
    BY <1>4, <1>5, <1>6, <1>7, <1>8, <1>10 DEF Freshness

(* A commit only makes tables newer. *)
LEMMA CommitFresh ==
    ASSUME CacheInvariant, NEW c \in Calls, Commit(c)
    PROVE  Freshness'
  <1> USE DEF CacheInvariant, Commit, Goto
  <1>1. /\ pc[c] = "write" /\ pc'[c] \in {"error", "invalidate"}
        /\ \A d \in Calls : d # c => pc'[d] = pc[d] /\ got'[d] = got[d]
    BY DEF TypeOK
  <1>2. \A t \in Tables : version[t] \in Nat /\ version'[t] \in Nat /\ version[t] <= version'[t]
    BY DEF TypeOK
  <1>3. \A t \in Tables : got'[c][t] <= version'[t]
    BY DEF TypeOK
  <1>4. AckedIsCommitted'
    <2>1. \A p \in Processes, s \in Services, t \in Tables : acked[p][s][t] \in Nat
      BY DEF TypeOK
    <2>2. \A p \in Processes, s \in Services, t \in Tables : acked[p][s][t] <= version'[t]
      BY <1>2, <2>1 DEF AckedIsCommitted
    <2>3. \A d \in Calls, t \in Tables : got[d][t] \in Nat
      BY DEF TypeOK
    <2>4. \A d \in Calls, t \in Tables : pc'[d] \in {"invalidate", "del"} => got'[d][t] <= version'[t]
      BY <1>1, <1>2, <1>3, <2>3 DEF AckedIsCommitted
    <2> QED
      BY <2>2, <2>4 DEF AckedIsCommitted
  <1>5. StoredIsFresh'
    BY DEF StoredIsFresh
  <1>6. ReadIsFresh'
    BY <1>1 DEF ReadIsFresh, Service
  <1>7. StoredIsKnown'
    BY <1>1 DEF StoredIsKnown
  <1>8. DeletingCoversStored'
    BY <1>1 DEF DeletingCoversStored, Service
  <1>9. FreshForItsService'
    BY <1>1 DEF FreshForItsService, Served, Service
  <1> QED
    BY <1>4, <1>5, <1>6, <1>7, <1>8, <1>9 DEF Freshness

(* A request that fails serves nothing. *)
LEMMA RejectFresh ==
    ASSUME CacheInvariant, NEW c \in Calls, Reject(c)
    PROVE  Freshness'
  <1> USE DEF CacheInvariant, Reject, Goto
  <1>1. /\ pc[c] # "add" /\ pc'[c] = "error"
        /\ \A d \in Calls : d # c => pc'[d] = pc[d]
    BY DEF TypeOK
  <1>2. AckedIsCommitted'
    BY <1>1 DEF AckedIsCommitted
  <1>3. StoredIsFresh'
    BY DEF StoredIsFresh
  <1>4. ReadIsFresh'
    BY <1>1 DEF ReadIsFresh, Service
  <1>5. StoredIsKnown'
    BY <1>1 DEF StoredIsKnown
  <1>6. DeletingCoversStored'
    BY <1>1 DEF DeletingCoversStored, Service
  <1>7. FreshForItsService'
    BY <1>1 DEF FreshForItsService, Served, Service
  <1> QED
    BY <1>2, <1>3, <1>4, <1>5, <1>6, <1>7 DEF Freshness

(* A process with a write under way has no listing stored that its keys do *)
(* not name.                                                               *)
LEMMA WriterKnowsStored ==
    ASSUME CacheInvariant, NEW c \in Calls, pc[c] \in {"invalidate", "del"}
    PROVE  /\ at[c] \in Processes /\ Service(c) \in Services /\ req[c] \notin Keys
           /\ KeysOf(Service(c)) \subseteq Keys
           /\ \A k \in Keys : store[at[c]][k] # NoEntry => k \in known[at[c]]
           /\ \A d \in Calls : d # c /\ at[d] = at[c] => pc[d] \notin Running
  <1> USE DEF CacheInvariant
  <1>1. at[c] \in Processes /\ Service(c) \in Services /\ req[c] \notin Keys
    BY EndpointService DEF CallsAreSent, Writing, Service
  <1>2. KeysOf(Service(c)) \subseteq Keys
    BY <1>1 DEF Keys
  <1>3. \A d \in Calls : d # c /\ at[d] = at[c] => pc[d] \notin Running
    BY DEF OneAtATime, Running, Writing
  <1>4. \A d \in Calls : at[d] = at[c] => pc[d] # "add"
    BY <1>3 DEF Running, Reading
  <1>5. \A k \in Keys : store[at[c]][k] # NoEntry => k \in known[at[c]]
    BY <1>1, <1>4 DEF StoredIsKnown
  <1> QED
    BY <1>1, <1>2, <1>3, <1>5

(* A write is reported as done when nothing of its service is stored: no   *)
(* listing, stored or being read, falls behind it.                         *)
LEMMA AcknowledgeFresh ==
    ASSUME CacheInvariant, NEW c \in Calls, pc[c] \in {"invalidate", "del"}, Acknowledge(c),
           \A k \in KeysOf(Service(c)) : store[at[c]][k] = NoEntry,
           UNCHANGED <<version, store, at, req, got, floor>>
    PROVE  /\ AckedIsCommitted' /\ StoredIsFresh' /\ ReadIsFresh' /\ FreshForItsService'
           /\ pc'[c] = "done" /\ \A d \in Calls : d # c => pc'[d] = pc[d]
  <1> USE DEF CacheInvariant
  <1>1. pc'[c] = "done" /\ \A d \in Calls : d # c => pc'[d] = pc[d]
    BY DEF Acknowledge, Goto, TypeOK
  <1>2. at[c] \in Processes /\ Service(c) \in Services /\ req[c] \notin Keys
    BY WriterKnowsStored
  <1> DEFINE new == [t \in Tables |-> Newer(acked[at[c]][Service(c)][t], got[c][t])]
  <1>3. acked' = [acked EXCEPT ![at[c]][Service(c)] = new]
    BY DEF Acknowledge
  <1>4. \A p \in Processes, s \in Services :
            acked'[p][s] = IF p = at[c] /\ s = Service(c) THEN new ELSE acked[p][s]
    <2> HIDE DEF new
    <2> QED
      BY <1>2, <1>3 DEF TypeOK
  <1>5. \A t \in Tables : acked[at[c]][Service(c)][t] <= new[t] /\ new[t] <= version[t]
    BY <1>2 DEF TypeOK, Newer, AckedIsCommitted
  <1> HIDE DEF new
  <1>6. AckedIsCommitted'
    <2>1. \A p \in Processes, s \in Services, t \in Tables : acked'[p][s][t] <= version[t]
      BY <1>4, <1>5 DEF AckedIsCommitted
    <2>2. \A d \in Calls, t \in Tables : pc'[d] \in {"invalidate", "del"} => got[d][t] <= version[t]
      BY <1>1 DEF AckedIsCommitted
    <2>3. ASSUME NEW d \in Calls, NEW p \in Processes, NEW s \in Services, NEW t \in Tables
          PROVE  floor[d][p][s][t] <= acked'[p][s][t]
      <3>1. floor[d][p][s][t] <= acked[p][s][t]
        BY DEF AckedIsCommitted
      <3>2. floor[d][p][s][t] \in Nat /\ acked[p][s][t] \in Nat
        BY DEF TypeOK
      <3>3. CASE p = at[c] /\ s = Service(c)
        <4>1. floor[d][at[c]][Service(c)][t] \in Nat /\ acked[at[c]][Service(c)][t] \in Nat /\ version[t] \in Nat
          BY <1>2 DEF TypeOK
        <4>2. new[t] \in Nat
          BY <1>2 DEF TypeOK, Newer, new
        <4> QED
          BY <1>4, <1>5, <3>1, <3>3, <4>1, <4>2
      <3>4. CASE ~(p = at[c] /\ s = Service(c))
        BY <1>4, <3>1, <3>4
      <3> QED
        BY <3>3, <3>4
    <2> QED
      BY <2>1, <2>2, <2>3 DEF AckedIsCommitted
  <1>7. StoredIsFresh'
    <2>1. ASSUME NEW p \in Processes, NEW k \in Keys, store[p][k] # NoEntry
          PROVE  k[1] \in Services /\ acked'[p][k[1]] = acked[p][k[1]]
      <3>1. k[1] \in Services /\ k \in KeysOf(k[1])
        BY KeyFacts
      <3> QED
        BY <1>4, <2>1, <3>1
    <2> QED
      BY <2>1 DEF StoredIsFresh
  <1>8. ReadIsFresh'
    <2>1. ASSUME NEW d \in Calls, pc'[d] \in {"set", "add"}
          PROVE  pc[d] \in {"set", "add"} /\ acked'[at[d]][Service(d)] = acked[at[d]][Service(d)]
      <3>1. d # c /\ pc[d] \in {"set", "add"}
        BY <1>1, <2>1
      <3>2. at[d] \in Processes /\ Service(d) \in Services
        BY <3>1, EndpointService DEF CallsAreSent, Service
      <3>3. at[d] # at[c]
        BY <3>1, WriterKnowsStored DEF Running, Reading
      <3> QED
        BY <1>4, <3>1, <3>2, <3>3
    <2>2. \A d \in Calls : Service(d)' = Service(d)
      BY DEF Service
    <2> QED
      BY <2>1, <2>2 DEF ReadIsFresh
  <1>9. FreshForItsService'
    BY <1>1, <1>2 DEF FreshForItsService, Served, Service
  <1> QED
    BY <1>1, <1>6, <1>7, <1>8, <1>9

(* invalidateCache deletes what is stored, or there is nothing to delete. *)
LEMMA InvalidateFresh ==
    ASSUME CacheInvariant, NEW c \in Calls, Invalidate(c)
    PROVE  Freshness'
  <1> DEFINE keys == KnownTo(at[c], Service(c))
  <1> USE DEF CacheInvariant
  <1>1. /\ pc[c] = "invalidate"
        /\ UNCHANGED <<version, store, known, at, req, got, floor>>
        /\ dels' = [dels EXCEPT ![c] = keys]
        /\ IF keys = {} THEN Acknowledge(c) ELSE Goto(c, "del") /\ UNCHANGED acked
    BY DEF Invalidate
  <1>2. \A k \in KeysOf(Service(c)) : store[at[c]][k] # NoEntry => k \in keys
    BY <1>1, WriterKnowsStored DEF KnownTo
  <1>3. dels'[c] = keys /\ \A d \in Calls : d # c => dels'[d] = dels[d]
    BY <1>1 DEF TypeOK
  <1>4. \A d \in Calls : Service(d)' = Service(d)
    BY <1>1 DEF Service
  <1> HIDE DEF keys
  <1>5. CASE keys = {}
    <2>1. /\ AckedIsCommitted' /\ StoredIsFresh' /\ ReadIsFresh' /\ FreshForItsService'
          /\ pc'[c] = "done" /\ \A d \in Calls : d # c => pc'[d] = pc[d]
      BY <1>1, <1>2, <1>5, AcknowledgeFresh
    <2>2. StoredIsKnown'
      BY <1>1, <2>1 DEF StoredIsKnown
    <2>3. DeletingCoversStored'
      BY <1>1, <1>3, <1>4, <2>1 DEF DeletingCoversStored
    <2> QED
      BY <2>1, <2>2, <2>3 DEF Freshness
  <1>6. CASE keys # {}
    <2>1. acked' = acked /\ pc'[c] = "del" /\ \A d \in Calls : d # c => pc'[d] = pc[d]
      BY <1>1, <1>6 DEF Goto, TypeOK
    <2>2. AckedIsCommitted'
      BY <1>1, <2>1 DEF AckedIsCommitted
    <2>3. StoredIsFresh'
      BY <1>1, <2>1 DEF StoredIsFresh
    <2>4. ReadIsFresh'
      BY <1>1, <1>4, <2>1 DEF ReadIsFresh
    <2>5. StoredIsKnown'
      BY <1>1, <2>1 DEF StoredIsKnown
    <2>6. DeletingCoversStored'
      BY <1>1, <1>2, <1>3, <1>4, <2>1 DEF DeletingCoversStored
    <2>7. FreshForItsService'
      BY <1>1, <1>4, <2>1 DEF FreshForItsService, Served
    <2> QED
      BY <2>2, <2>3, <2>4, <2>5, <2>6, <2>7 DEF Freshness
  <1> QED
    BY <1>5, <1>6

(* All deletions done, nothing of the service is stored. *)
LEMMA ForgetKeysFresh ==
    ASSUME CacheInvariant, NEW c \in Calls, ForgetKeys(c)
    PROVE  Freshness'
  <1> USE DEF CacheInvariant
  <1>1. /\ pc[c] = "del" /\ dels[c] = {}
        /\ UNCHANGED <<version, store, at, req, got, dels, floor>>
        /\ known' = [known EXCEPT ![at[c]] = @ \ KeysOf(Service(c))]
        /\ Acknowledge(c)
    BY DEF ForgetKeys
  <1>2. \A k \in KeysOf(Service(c)) : store[at[c]][k] = NoEntry
    BY <1>1 DEF DeletingCoversStored
  <1>3. /\ AckedIsCommitted' /\ StoredIsFresh' /\ ReadIsFresh' /\ FreshForItsService'
        /\ pc'[c] = "done" /\ \A d \in Calls : d # c => pc'[d] = pc[d]
    BY <1>1, <1>2, AcknowledgeFresh
  <1>4. StoredIsKnown'
    <2>1. \A p \in Processes, k \in Keys :
              k \in known[p] => k \in known'[p] \/ (p = at[c] /\ k \in KeysOf(Service(c)))
      BY <1>1 DEF TypeOK
    <2>2. \A p \in Processes, k \in Keys :
              store[p][k] # NoEntry /\ k \in known[p] => k \in known'[p]
      BY <1>2, <2>1
    <2>3. \A d \in Calls : pc[d] = "add" => pc'[d] = "add"
      BY <1>1, <1>3
    <2> QED
      BY <1>1, <2>2, <2>3 DEF StoredIsKnown
  <1>5. DeletingCoversStored'
    BY <1>1, <1>3 DEF DeletingCoversStored, Service
  <1> QED
    BY <1>3, <1>4, <1>5 DEF Freshness

(* Removing a stored listing, whoever does it, leaves nothing stale. *)
LEMMA RemovalFresh ==
    ASSUME ~SharedStore, CacheInvariant, NEW p \in Processes, NEW k \in Keys, Put(p, k, NoEntry),
           UNCHANGED <<version, known, acked, pc, at, req, got, floor>>,
           \A d \in Calls : dels'[d] = dels[d] \/ (at[d] = p /\ dels'[d] = dels[d] \ {k})
    PROVE  Freshness'
  <1> USE DEF CacheInvariant
  <1>1. \A q \in Processes, l \in Keys :
            store'[q][l] = IF q = p /\ l = k THEN NoEntry ELSE store[q][l]
    BY PutIsLocal
  <1>2. \A d \in Calls : Service(d)' = Service(d)
    BY DEF Service
  <1>3. AckedIsCommitted'
    BY DEF AckedIsCommitted
  <1>4. StoredIsFresh'
    BY <1>1 DEF StoredIsFresh
  <1>5. ReadIsFresh'
    BY <1>2 DEF ReadIsFresh
  <1>6. StoredIsKnown'
    BY <1>1 DEF StoredIsKnown
  <1>7. ASSUME NEW d \in Calls, pc[d] = "del", NEW l \in KeysOf(Service(d)), store'[at[d]][l] # NoEntry
        PROVE  l \in dels'[d]
    <2>1. at[d] \in Processes /\ l \in Keys
      BY <1>7, WriterKnowsStored
    <2>2. store[at[d]][l] # NoEntry /\ ~(at[d] = p /\ l = k)
      BY <1>1, <1>7, <2>1
    <2>3. l \in dels[d]
      BY <1>7, <2>2 DEF DeletingCoversStored
    <2> QED
      BY <2>2, <2>3
  <1>8. DeletingCoversStored'
    BY <1>2, <1>7 DEF DeletingCoversStored
  <1>9. FreshForItsService'
    BY <1>2 DEF FreshForItsService, Served
  <1> QED
    BY <1>3, <1>4, <1>5, <1>6, <1>8, <1>9 DEF Freshness

(* A deletion that fails, or a get or set, loses no known key. *)
LEMMA StoreRefusesFresh ==
    ASSUME CacheInvariant, NEW c \in Calls, StoreRefuses(c)
    PROVE  Freshness'
  <1> USE DEF CacheInvariant
  <1>1. /\ pc[c] # "add" /\ pc'[c] = "error"
        /\ \A d \in Calls : d # c => pc'[d] = pc[d] /\ dels'[d] = dels[d]
        /\ UNCHANGED <<version, store, known, acked, at, req, got, floor>>
    BY DEF StoreRefuses, Goto, TypeOK
  <1>2. \A d \in Calls : Service(d)' = Service(d)
    BY <1>1 DEF Service
  <1>3. AckedIsCommitted'
    BY <1>1 DEF AckedIsCommitted
  <1>4. StoredIsFresh'
    BY <1>1 DEF StoredIsFresh
  <1>5. ReadIsFresh'
    BY <1>1, <1>2 DEF ReadIsFresh
  <1>6. StoredIsKnown'
    BY <1>1 DEF StoredIsKnown
  <1>7. DeletingCoversStored'
    BY <1>1, <1>2 DEF DeletingCoversStored
  <1>8. FreshForItsService'
    BY <1>1, <1>2 DEF FreshForItsService, Served
  <1> QED
    BY <1>3, <1>4, <1>5, <1>6, <1>7, <1>8 DEF Freshness

(* A process that restarts loses its keys and what was stored under them. *)
LEMMA RestartFresh ==
    ASSUME ~SharedStore, CacheInvariant, NEW p \in Processes, Restart(p)
    PROVE  Freshness'
  <1> USE DEF CacheInvariant
  <1>1. /\ UNCHANGED <<version, acked, at, req, got, floor>>
        /\ \A q \in Processes : known'[q] = IF q = p THEN {} ELSE known[q]
        /\ \A q \in Processes, k \in Keys : store'[q][k] = IF q = p THEN NoEntry ELSE store[q][k]
    BY DEF Restart, TypeOK
  <1>2. \A d \in Calls :
            IF at[d] = p /\ pc[d] \in Running
            THEN pc'[d] = "error" ELSE pc'[d] = pc[d] /\ dels'[d] = dels[d]
    BY DEF Restart, InFlight
  <1>3. \A d \in Calls : Service(d)' = Service(d)
    BY <1>1 DEF Service
  <1>4. AckedIsCommitted'
    BY <1>1, <1>2 DEF AckedIsCommitted
  <1>5. StoredIsFresh'
    BY <1>1 DEF StoredIsFresh
  <1>6. ReadIsFresh'
    BY <1>1, <1>2, <1>3 DEF ReadIsFresh
  <1>7. StoredIsKnown'
    BY <1>1, <1>2 DEF StoredIsKnown
  <1>8. ASSUME NEW d \in Calls, pc'[d] = "del", NEW k \in KeysOf(Service(d)), store'[at[d]][k] # NoEntry
        PROVE  k \in dels'[d]
    <2>1. pc[d] = "del" /\ at[d] # p /\ dels'[d] = dels[d]
      BY <1>2, <1>8 DEF Running, Writing
    <2>2. at[d] \in Processes /\ k \in Keys
      BY <1>8, <2>1, WriterKnowsStored
    <2> QED
      BY <1>1, <1>8, <2>1, <2>2 DEF DeletingCoversStored
  <1>9. DeletingCoversStored'
    BY <1>1, <1>3, <1>8 DEF DeletingCoversStored
  <1>10. FreshForItsService'
    BY <1>1, <1>2, <1>3 DEF FreshForItsService, Served
  <1> QED
    BY <1>4, <1>5, <1>6, <1>7, <1>9, <1>10 DEF Freshness

-----------------------------------------------------------------------------
(* Before the first request nothing is stored, known or acknowledged. *)
LEMMA InitInvariant ==
    Init => CacheInvariant
  <1> SUFFICES ASSUME Init PROVE CacheInvariant
    OBVIOUS
  <1> USE DEF Init
  <1>1. Zero \in [Tables -> Nat] /\ NothingAcked \in [Processes -> [Services -> [Tables -> Nat]]]
    BY DEF Zero, NothingAcked
  <1>2. TypeOK
    BY <1>1 DEF TypeOK
  <1>3. CallsAreSent /\ OneAtATime
    BY DEF CallsAreSent, OneAtATime, Running, Reading, Writing
  <1>4. AckedIsCommitted
    BY DEF AckedIsCommitted, Zero, NothingAcked
  <1>5. StoredIsFresh /\ StoredIsKnown
    BY DEF StoredIsFresh, StoredIsKnown
  <1>6. ReadIsFresh /\ DeletingCoversStored /\ FreshForItsService
    BY DEF ReadIsFresh, DeletingCoversStored, FreshForItsService, Served
  <1> QED
    BY <1>2, <1>3, <1>4, <1>5, <1>6 DEF CacheInvariant

(* Every step keeps the invariant. *)
LEMMA InvariantStep ==
    ASSUME MaxInFlight = 1, ~SharedStore, CacheInvariant, [Next]_vars
    PROVE  CacheInvariant'
  <1>1. TypeOK'
    BY TypeStep DEF CacheInvariant
  <1>2. CallsAreSent' /\ OneAtATime'
    BY ControlStep DEF CacheInvariant
  <1>3. ASSUME NEW c \in Calls, Step(c)
        PROVE  Freshness'
    <2>1. ASSUME NEW k \in Keys, DeleteKey(c, k)
          PROVE  Freshness'
      <3>1. at[c] \in Processes
        BY <2>1 DEF DeleteKey, CacheInvariant, CallsAreSent
      <3>2. dels'[c] = dels[c] \ {k} /\ \A d \in Calls : d # c => dels'[d] = dels[d]
        BY <2>1 DEF DeleteKey, CacheInvariant, TypeOK
      <3>3. Put(at[c], k, NoEntry) /\ UNCHANGED <<version, known, acked, pc, at, req, got, floor>>
        BY <2>1 DEF DeleteKey
      <3>4. \A d \in Calls : dels'[d] = dels[d] \/ (at[d] = at[c] /\ dels'[d] = dels[d] \ {k})
        BY <3>2
      <3> QED
        BY <3>1, <3>3, <3>4, RemovalFresh
    <2> QED
      BY <1>3, <2>1, GetFromCacheFresh, QueryFresh, SetCacheFresh, AddKeyFresh, CommitFresh, RejectFresh,
         InvalidateFresh, ForgetKeysFresh, StoreRefusesFresh DEF Step
  <1>4. ASSUME NEW p \in Processes, NEW k \in Keys, Expire(p, k)
        PROVE  Freshness'
    BY <1>4, RemovalFresh DEF Expire, call
  <1>5. ASSUME UNCHANGED vars
        PROVE  Freshness'
    <2> USE <1>5 DEF vars, call, CacheInvariant
    <2>1. AckedIsCommitted' /\ StoredIsFresh' /\ StoredIsKnown'
      BY DEF AckedIsCommitted, StoredIsFresh, StoredIsKnown
    <2>2. ReadIsFresh' /\ DeletingCoversStored' /\ FreshForItsService'
      BY DEF ReadIsFresh, DeletingCoversStored, FreshForItsService, Served, Service
    <2> QED
      BY <2>1, <2>2 DEF Freshness
  <1>6. Freshness'
    BY <1>3, <1>4, <1>5, ReceiveFresh, RestartFresh DEF Next
  <1> QED
    BY <1>1, <1>2, <1>6 DEF CacheInvariant, Freshness

(* While each process keeps a store of its own and serves one request at a *)
(* time, the invariant holds for any number of processes and of requests   *)
(* and for any choice of endpoints, with and without a store that refuses  *)
(* calls, expired entries and restarts.                                    *)
THEOREM CacheInvariantHolds ==
    ASSUME MaxInFlight = 1, ~SharedStore
    PROVE  Spec => []CacheInvariant
  <1>1. Init => CacheInvariant
    BY InitInvariant
  <1>2. CacheInvariant /\ [Next]_vars => CacheInvariant'
    BY InvariantStep
  <1> QED
    BY <1>1, <1>2, PTL DEF Spec

(* Then a listing shows every change that its own service had reported as  *)
(* written before it was asked for.                                        *)
THEOREM ListingsFreshForTheirService ==
    ASSUME MaxInFlight = 1, ~SharedStore
    PROVE  Spec => []FreshForItsService
  <1>1. CacheInvariant => FreshForItsService
    BY DEF CacheInvariant
  <1> QED
    BY <1>1, CacheInvariantHolds, PTL

(* Then a process at rest can delete all it has stored: no listing lives   *)
(* on under a key that its service has forgotten.                          *)
THEOREM StoredListingsStayKnown ==
    ASSUME MaxInFlight = 1, ~SharedStore
    PROVE  Spec => []NothingEscapesInvalidation
  <1>1. CacheInvariant => NothingEscapesInvalidation
    BY DEF CacheInvariant, StoredIsKnown, NothingEscapesInvalidation, InFlight, Running, Reading
  <1> QED
    BY <1>1, CacheInvariantHolds, PTL
=============================================================================
