-------------------------- MODULE MCHierarchyCache --------------------------
(* Small instances of HierarchyCache for TLC. *)
EXTENDS HierarchyCache, TLC

(* Of every service a listing, of three one that joins other tables, and a *)
(* write: deletions that cascade, one that changes nothing, and one that   *)
(* commits what it never began.                                            *)
SomeEndpoints ==
    {<<"region", "getRegions">>, <<"region", "deleteRegion">>,
     <<"area", "getFilteredTerritoriesByAreaId">>, <<"area", "searchAreas">>, <<"area", "deleteArea">>,
     <<"area", "assignTerritoriesToArea">>, <<"territory", "getTerritories">>, <<"territory", "createTerritory">>, <<"territory", "updateTerritory">>,
     <<"distributor", "listDistributors">>, <<"distributor", "updateDistributor">>}

(* A listing of one service and a write of another to a table it reads. *)
AcrossServices == {<<"area", "getAreas">>, <<"region", "updateRegion">>}

Symmetry == Permutations(Processes) \cup Permutations(Calls)
=============================================================================
