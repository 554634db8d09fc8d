\* Iterators that may also yield keys written in their domain, which the
\* KVStore contract leaves undefined.
CONSTANTS
    DepositsKeyPrefix = 1
    VotesKeyPrefix = 2
    ProposalIDs <- MCProposalIDs
    ProposalIDLen = 1
    Addrs <- MCAddrs
    VoteOptions <- MCVoteOptions
    yes = yes
    no = no
    Visibilities = {"snapshot", "live"}
    MaxKeyLen = 6
SPECIFICATION Spec
CHECK_DEADLOCK FALSE
INVARIANT
    NoEntryLostOrDuplicated
