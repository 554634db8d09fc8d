------------------------- MODULE MCCollectionKeeper -------------------------
(***************************************************************************)
(* Instantiation of CollectionKeeper for TLC.  The accounts and the        *)
(* permissions are interchangeable model values, so runs may declare them  *)
(* symmetric.                                                              *)
(***************************************************************************)
EXTENDS CollectionKeeper

CONSTANTS a1, a2, p1, p2, v1, v2, bad

MCAccounts == {a1, a2}
MCPermissions == {p1, p2}

Symmetry == Permutations(MCAccounts) \cup Permutations(MCPermissions)

=============================================================================
