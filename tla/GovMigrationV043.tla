------------------------- MODULE GovMigrationV043 -------------------------
(***************************************************************************)
(* The x/gov v0.40 -> v0.43 store migration (x/gov/legacy/v043/store.go). *)
(* MigrateStore re-keys every deposit and every vote to a length-prefixed *)
(* address, then rewrites every vote in place as a weighted vote.  Each   *)
(* pass iterates one key prefix and writes while it iterates; every loop  *)
(* iteration is one step, so the state between two steps is what the      *)
(* iterator and the store hold between two iterations of the Go loop.     *)
(*                                                                         *)
(* Keys are byte strings (sequences of naturals) ordered lexicographically *)
(* as in the store: <<prefix>> \o proposal id \o address bytes.  Whether  *)
(* an iterator yields keys written inside its domain after it was opened  *)
(* is not defined by the KVStore contract ("no writes may happen within a *)
(* domain while an iterator exists over it"); the constant Visibilities   *)
(* gives the iterator behaviours a store may have: "snapshot" (keys of the *)
(* domain when the iterator was opened) or "live" (keys present now).     *)
(***************************************************************************)
EXTENDS Naturals, Sequences, TLC

CONSTANTS
    DepositsKeyPrefix, VotesKeyPrefix, \* the two prefix bytes
    ProposalIDs,     \* proposal ids, each a sequence of ProposalIDLen bytes
    ProposalIDLen,
    Addrs,           \* v0.40 addresses (byte sequences of one length)
    VoteOptions,     \* legacy vote options
    Visibilities,    \* subset of {"snapshot", "live"}
    MaxKeyLen        \* bound on the length of a key the model writes

ASSUME Visibilities \subseteq {"snapshot", "live"} /\ Visibilities # {}

VARIABLES
    store,      \* the gov KV store: key -> value
    orig,       \* the store before the migration (history, for properties)
    phase,      \* which pass runs: "deposits", "votes", "weighted", "done"
    snap,       \* keys of the iterated domain when the iterator was opened
    cursor,     \* key the iterator stands on (<<>> before the first)
    visibility  \* how this store's iterator treats writes in its domain

vars == <<store, orig, phase, snap, cursor, visibility>>

DepositValue == [kind |-> "deposit"]

\* Vote values: a legacy vote (Option set) and an ADR-037 weighted vote.
LegacyVote(o) == [kind |-> "legacy", option |-> o]

\* Mutant: the new vote's options are read from the unset Options field of
\* the legacy vote, giving VOTE_OPTION_UNSPECIFIED.
migrateVoteUnspecified(oldVote) ==
    [kind |-> "weighted", options |-> <<[option |-> "unspecified",
                                         weight |-> 1]>>]

\* migrateVote: the legacy option becomes a single option of weight one.
migrateVote(oldVote) ==
    [kind |-> "weighted", options |-> <<[option |-> oldVote.option,
                                         weight |-> 1]>>]

\* Mutant: the new key keeps the old, unprefixed address.
newStoreKeyNoLengthPrefix(k) == k

\* address.MustLengthPrefix: the address preceded by its length.
MustLengthPrefix(addr) == <<Len(addr)>> \o addr

\* Byte-wise lexicographic order of store keys.
RECURSIVE KeyLess(_, _)
KeyLess(a, b) ==
    IF a = <<>> THEN b # <<>>
    ELSE IF b = <<>> THEN FALSE
    ELSE IF Head(a) = Head(b) THEN KeyLess(Tail(a), Tail(b))
    ELSE Head(a) < Head(b)

MinKey(S) == CHOOSE k \in S : \A j \in S : j = k \/ KeyLess(k, j)

\* The prefix store's key space: keys that start with the prefix byte.
InDomain(pre, k) == Len(k) > 0 /\ k[1] = pre

\* The key migratePrefixProposalAddress writes for the key k it reads:
\* proposal id the first ProposalIDLen bytes after the prefix, address the
\* rest (store.go:26-28).
newStoreKey(k) ==
    LET suffix == SubSeq(k, 2, Len(k)) IN
    <<k[1]>> \o SubSeq(suffix, 1, ProposalIDLen)
             \o MustLengthPrefix(SubSeq(suffix, ProposalIDLen + 1, Len(suffix)))

\* The prefix the current pass iterates.
PassPrefix == IF phase = "deposits" THEN DepositsKeyPrefix ELSE VotesKeyPrefix

\* The keys the iterator may still yield, and the key Next() moves to.
Remaining ==
    LET cand == IF visibility = "snapshot" THEN snap
                ELSE {k \in DOMAIN store : InDomain(PassPrefix, k)}
    IN {k \in cand : KeyLess(cursor, k)}
IterNext == MinKey(Remaining)

\* Open an iterator over a prefix (store.go:22, :49).
OpenIterator(pre) ==
    /\ snap' = {k \in DOMAIN store : InDomain(pre, k)}
    /\ cursor' = <<>>

Delete(f, k) == [x \in DOMAIN f \ {k} |-> f[x]]

\* The v0.40 stores: deposits and legacy votes of some voters.
OldKey(pre, pid, addr) == <<pre>> \o pid \o addr
OldStores ==
    UNION {
      { d @@ v :
          d \in [{OldKey(DepositsKeyPrefix, p, a) : p \in ProposalIDs, a \in D}
                 -> {DepositValue}],
          v \in [{OldKey(VotesKeyPrefix, p, a) : p \in ProposalIDs, a \in V}
                 -> {LegacyVote(o) : o \in VoteOptions}] }
      : D, V \in SUBSET Addrs }

Init ==
    /\ store \in OldStores
    /\ orig = store
    /\ visibility \in Visibilities
    /\ phase = "deposits"
    /\ snap = {k \in DOMAIN store : InDomain(DepositsKeyPrefix, k)}
    /\ cursor = <<>>

\* One iteration of the loop of migratePrefixProposalAddress
\* (store.go:25-33): write the value under the new key, delete the old.
MigrateAddressKey ==
    /\ phase \in {"deposits", "votes"}
    /\ Remaining # {}
    /\ LET k == IterNext
           nk == newStoreKey(k)
           written == (nk :> store[k]) @@ store
       IN /\ Len(nk) <= MaxKeyLen
          /\ store' = Delete(written, k)
          /\ cursor' = k
    /\ UNCHANGED <<orig, phase, snap, visibility>>

\* One iteration of the loop of migrateStoreWeightedVotes (store.go:52-67):
\* decode the legacy vote, rewrite it in place as a weighted vote.  A v0.40
\* vote always decodes (the v0.43 Vote keeps the legacy Option field), so
\* the error returns of store.go:55-64 are not taken.
MigrateVote ==
    /\ phase = "weighted"
    /\ Remaining # {}
    /\ LET k == IterNext IN
       /\ store' = [store EXCEPT ![k] = migrateVote(@)]
       /\ cursor' = k
    /\ UNCHANGED <<orig, phase, snap, visibility>>

\* Mutant: MigrateStore leaves out the re-keying of the votes.
EndOfPassNoVoteKeys ==
    /\ phase \in {"deposits", "votes", "weighted"}
    /\ Remaining = {}
    /\ phase' = IF phase = "weighted" THEN "done" ELSE "weighted"
    /\ IF phase = "weighted" THEN UNCHANGED <<snap, cursor>>
       ELSE OpenIterator(VotesKeyPrefix)
    /\ UNCHANGED <<store, orig, visibility>>

\* The iterator is exhausted: MigrateStore goes on to its next call
\* (store.go:78-80), which opens an iterator over the next prefix.
EndOfPass ==
    /\ phase \in {"deposits", "votes", "weighted"}
    /\ Remaining = {}
    /\ phase' = CASE phase = "deposits" -> "votes"
                  [] phase = "votes" -> "weighted"
                  [] phase = "weighted" -> "done"
    /\ IF phase = "weighted" THEN UNCHANGED <<snap, cursor>>
       ELSE OpenIterator(VotesKeyPrefix)
    /\ UNCHANGED <<store, orig, visibility>>

Next == MigrateAddressKey \/ MigrateVote \/ EndOfPass

\* MigrateStore as one sequential call: every behaviour is a prefix of the
\* loop steps; the invariants are checked in every reachable state.
Spec == Init /\ [][Next]_vars

-----------------------------------------------------------------------------
(* Properties *)

Votes == {LegacyVote(o) : o \in VoteOptions}
           \cup [kind: {"weighted"},
                 options: {<<[option |-> o, weight |-> 1]>> : o \in VoteOptions}]

TypeOK ==
    /\ \A k \in DOMAIN store : store[k] \in {DepositValue} \cup Votes
    /\ phase \in {"deposits", "votes", "weighted", "done"}
    /\ visibility \in Visibilities
    /\ snap \subseteq DOMAIN store \cup DOMAIN orig

\* Where an original entry belongs once its pass has run, and its value.
\* (a reference: the length byte inserted after the proposal id)
Migrated(k) ==
    LET idEnd == 1 + ProposalIDLen IN
    Append(SubSeq(k, 1, idEnd), Len(k) - idEnd) \o SubSeq(k, idEnd + 1, Len(k))
MigratedValue(k) ==
    IF InDomain(VotesKeyPrefix, k)
    THEN [kind |-> "weighted",
          options |-> <<[option |-> orig[k].option, weight |-> 1]>>]
    ELSE orig[k]

\* While the address passes run, every original deposit and vote is in the
\* store under exactly one key, its old one or its length-prefixed one:
\* the loop's write of the new key and delete of the old (store.go:31-32)
\* never loses an entry and never leaves two copies, whatever keys the
\* iterator has yet to yield.
NoEntryLostOrDuplicated ==
    phase \in {"deposits", "votes"} =>
      \A k \in DOMAIN orig :
        (k \in DOMAIN store) # (Migrated(k) \in DOMAIN store)

\* When MigrateStore returns, the store holds exactly the migrated entries:
\* every deposit and vote under its length-prefixed key, every vote
\* weighted with the option it had, and nothing else.
MigrationComplete ==
    phase = "done" =>
      store = [nk \in {Migrated(k) : k \in DOMAIN orig} |->
                 MigratedValue(CHOOSE k \in DOMAIN orig : Migrated(k) = nk)]
=============================================================================
