------------------------ MODULE MCGovMigrationV043 ------------------------
(* Model-checking instance of GovMigrationV043: one-byte prefixes and     *)
(* two one-byte proposal ids, so that one pass migrates the keys of       *)
(* several proposals; three one-byte addresses whose length-prefixed keys *)
(* sort after (<<0>> -> <<1,0>>), after on a tie of the first byte        *)
(* (<<1>> -> <<1,1>>), and before (<<2>> -> <<1,2>>) the old key.          *)
EXTENDS GovMigrationV043

CONSTANTS yes, no

MCProposalIDs == {<<3>>, <<7>>}
MCAddrs == {<<0>>, <<1>>, <<2>>}
MCVoteOptions == {yes, no}
=============================================================================
