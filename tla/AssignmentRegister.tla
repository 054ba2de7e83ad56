------------------------- MODULE AssignmentRegister -------------------------
(***************************************************************************)
(* What the assignment endpoints promise, without transactions, rows or    *)
(* locks: every retailer has at most one sales representative, and one     *)
(* atomic step hands a set of retailers over, takes a set back, removes a  *)
(* retailer, or brings a removed one back.  RetailerAssignment implements  *)
(* it.                                                                     *)
(***************************************************************************)
CONSTANTS
    Retailers,   \* ids of retailers
    Reps,        \* ids of sales representatives
    NoRep,       \* the owner of a retailer nobody is assigned to
    Gone         \* the owner of a retailer that has no row

VARIABLE owner

TypeOK == owner \in [Retailers -> Reps \cup {NoRep, Gone}]

Init == TypeOK

(* A retailer changes hands without ever being unowned in between. *)
Assign(p, S) ==
    /\ \A r \in S : owner[r] # Gone
    /\ owner' = [r \in Retailers |-> IF r \in S THEN p ELSE owner[r]]

(* Only the representative that holds a retailer can lose it this way. *)
Unassign(p, S) ==
    /\ \A r \in S : owner[r] = p
    /\ owner' = [r \in Retailers |-> IF r \in S THEN NoRep ELSE owner[r]]

Delete(r) ==
    /\ owner[r] # Gone
    /\ owner' = [owner EXCEPT ![r] = Gone]

(* A retailer that comes back belongs to nobody. *)
Recreate(r) ==
    /\ owner[r] = Gone
    /\ owner' = [owner EXCEPT ![r] = NoRep]

Next ==
    \/ \E p \in Reps, S \in SUBSET Retailers : Assign(p, S) \/ Unassign(p, S)
    \/ \E r \in Retailers : Delete(r) \/ Recreate(r)

Spec == Init /\ [][Next]_owner
=============================================================================
