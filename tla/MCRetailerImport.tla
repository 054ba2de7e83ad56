-------------------------- MODULE MCRetailerImport --------------------------
(***************************************************************************)
(* Two small files for RetailerImport.  The first has a good line, a line  *)
(* that names a reference, a line about the same retailer that is          *)
(* rejected, and one rejected for having no uid; the second has a good     *)
(* line for the retailer rejected in the first, and a rejected line for    *)
(* the one the first imports.                                              *)
(***************************************************************************)
EXTENDS RetailerImport, TLC

CONSTANTS j1, j2, u1, u2

TwoFiles == 1..6
TwoFilesFileOf == <<j1, j1, j1, j1, j2, j2>>
TwoFilesUidOf  == <<u1, u2, u2, NoUid, u2, u1>>
TwoFilesKindOf == <<"ok", "ref", "bad", "bad", "ok", "bad">>

(* One file with a good line and a line that names a reference. *)
OneFile == 1..2
OneFileFileOf == <<j1, j1>>
OneFileUidOf  == <<u1, u2>>
OneFileKindOf == <<"ok", "ref">>

(* One container with a slot, or with two. *)
CONSTANTS a, b, h1
OneHost == [w \in {a} |-> h1]
SharedHost == [w \in {a, b} |-> h1]

=============================================================================
