\* Snapshot iterators: the iterator behaviour of the cache store an
\* upgrade handler's context gives.
CONSTANTS
    DepositsKeyPrefix = 1
    VotesKeyPrefix = 2
    ProposalIDs <- MCProposalIDs
    ProposalIDLen = 1
    Addrs <- MCAddrs
    VoteOptions <- MCVoteOptions
    yes = yes
    no = no
    Visibilities = {"snapshot"}
    MaxKeyLen = 6
SPECIFICATION Spec
CHECK_DEADLOCK FALSE
INVARIANTS
    TypeOK
    NoEntryLostOrDuplicated
    MigrationComplete
