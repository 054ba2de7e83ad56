--------------------------- MODULE MCConnectionPool ---------------------------
(* A small instance of ConnectionPool for TLC: an upload, a handler that   *)
(* may leave its transaction open, and one of every other shape; the       *)
(* handlers that commit and do no more are createRegion's without its last *)
(* step.                                                                   *)
EXTENDS ConnectionPool, TLC

CONSTANTS r1, r2, r3

SomeEndpoints ==
    (r1 :> {<<"user", "createUser">>, <<"fileSystem", "createFilesFromMulter">>,
            <<"awsS3", "uploadBucketFile">>}) @@
    (r2 :> {<<"user", "createUser">>, <<"region", "getRegions">>}) @@
    (r3 :> {<<"salesRep", "getRetailerDetail">>,
            <<"retailer", "getRetailerDetail">>, <<"territory", "updateTerritory">>,
            <<"territory", "totalTerritoryCount">>, <<"region", "createRegion">>})
=============================================================================
