# TLA+ models of the lbm-sdk token ledger (x/collection) and its neighbours

This directory holds TLA+ models of the repository under `src/`, the TLC
configurations that check them, and `PROJECT.json`, which maps every modelled
definition to the source lines it translates.

## 1. Inventory

The source tree holds one substantial stateful component, the collection
keeper (`src/x/collection/keeper/supply.go`), and a set of smaller pieces
from other modules of the SDK.

### 1.1 Collection keeper (`x/collection/keeper/supply.go`)

State, all in one prefix-addressed KV store, keyed by contract id:

| store key | model variable | content |
|---|---|---|
| contractKey | `contract` | contract record (name, meta, base image uri) |
| nextClassIDKey | `nextClassIDs` | counters for fungible / non-fungible class ids |
| classKey | `classes` | class record, FT (`mintable`) or NFT |
| nextTokenIDKey | `nextTokenID` | instance counter of an NFT class |
| balanceKey | `balance` | amount per (account, token id), zero = absent |
| ownerKey | `owner` | owner of an NFT |
| nftKey | `nfts` | NFT record (name, meta) |
| parent/child keys | `parent` | hierarchy edge child -> parent |
| supply/minted/burnt prefixes | `supply`, `minted`, `burnt` | statistics per class, zero = absent |
| grantKey | `grants` | (contract, grantee, permission) facts |
| (x/auth) | `accounts` | accounts created by `createAccountOnAbsence` |
| (x/class) | `nextContractID` | the contract id allocator `classKeeper.NewID` |

Operations: `CreateContract` (plus `createContract`), `CreateTokenClass`,
`MintFT`/`mintFT`, `MintNFT`, `BurnCoins`, `ModifyContract`,
`ModifyTokenClass`, `ModifyNFT`, `Grant`/`grant`, `Abandon`, and reads
(`GetContract`, `GetTokenClass`, `GetGrant`, `GetSupply`, ...).
Collaborators outside `src/` that the operations call: `subtractCoins`,
`pruneNFT`, `iterateDescendants`, `setBalance`, `setOwner`, `setNFT`, the
`collection` package's id helpers (`NewFTID`, `NewNFTID`, `SplitTokenID`,
`ValidateFTID`, `TokenClass.SetId`, `ValidateBasic`), and `Attach`, the
operation that builds the NFT hierarchy. These are modelled from
`spec.md` and marked `spec_modelled` in the map.

Interaction: a message handler calls exactly one keeper method per message.
Baseapp runs each message in a cached store and discards every write of a
message that fails, and it runs messages one at a time. So the keeper has no
concurrency, but its correctness depends on long sequences of calls: mints
and burns of several classes, NFTs attached into trees and burnt as trees,
counters that must never hand out an id twice.

What makes it correct (spec sections 3 and 8): supply = minted - burnt;
supply = the amount held; one owner and one balance entry per live NFT and
none for a burnt one; class ids and instance numbers never reused; each
Modify key sets its own field; grants idempotent.

### 1.2 Other components in `src/`

| component | source | state / behaviour | module | status |
|---|---|---|---|---|
| gov v0.43 store migration | `x/gov/legacy/v043/store.go` | rewrites deposit and vote keys while iterating the same prefix, then rewrites votes in place | `GovMigrationV043` | modelled |
| gRPC-web server start | `server/grpc/grpc_web.go` | a goroutine serving, an unbuffered error channel, a start timeout | `GrpcWebStart` | modelled |
| ante `SetUpContextDecorator` | `x/auth/ante/setup.go` | chooses a gas meter, checks the gas limit in CheckTx, recovers out-of-gas panics | `AnteSetup` | modelled |
| Ostracon misbehaviour | `x/ibc/light-clients/99-ostracon/types/misbehaviour.go` | stateless validation of two headers, as an ordered list of early returns | `OstraconMisbehaviour` | partly (cryptography and decoding are outcomes) |
| events of `CreateContract` | `x/collection/keeper/supply.go:9-41, 412-431` | grant events emitted while ranging over a Go map | `CreateContractReplicas` | partly (the other keeper events are not modelled) |
| gov CLI parsing | `x/gov/client/cli/parse.go` | one call that reads flags or a JSON file into a proposal | - | not modelled: client-side and stateless. The `--proposal` file path returns the proposal without `validate()`, while the flag path validates; the chain's message validation rejects what either lets through |
| authz simulation genesis | `x/authz/simulation/genesis.go` | random generator | - | not modelled |
| stakingplus module, foundation codec | `x/stakingplus/module/module.go`, `x/foundation/codec.go` | wiring and registration | - | not modelled |
| tests and test suites | `*_test.go`, `*/testutil/*` | tests | - | not modelled |

How they interact: the ante decorator runs first for every transaction and
sets the gas meter the keeper's writes are charged to; the gov migration
runs once, at the v0.43 upgrade, on the gov store alone; the gRPC-web start
runs once at node start. None of them shares state with the collection
keeper, so each is checked on its own.

### 1.3 Hazards

`PROJECT.json` lists them with their lines and the properties that cover
them. The main ones in the keeper: `mintFT` overwrites balances
(supply.go:192); the `base_img_uri` setter writes the name (supply.go:325);
the cascading burn must charge every pruned descendant once to its own class
(supply.go:264); a failed `CreateTokenClass` has already consumed its
class id (supply.go:88); batch methods write before a later entry fails and rely on
the host's discard (supply.go:184); grant events come out in Go map order
(supply.go:29). Outside the keeper: writes during iteration in the gov
migration (store.go:31), a goroutine leak on the gRPC-web error channel
(grpc_web.go:36), the int64 cast of the gas limit (setup.go:91) and a nil
dereference in the misbehaviour checks (misbehaviour.go:81).

## 2. Modules and runs

### CollectionKeeper.tla / MCCollectionKeeper.tla

State as in the table above. Each keeper method is an action with the
method's name; its guard is the method's error returns (an error step leaves
the state unchanged, which is a stuttering step, because baseapp discards
the writes of a failed message). The batch methods fold a helper named
after the code's loop body over the batch: `mintFT`, `mintNFT`, `burnCoin`
(first loop of `BurnCoins`) and `burnStatistic` (its statistics loop).
The store accessors the methods call are operators named after them
(`GetContract`, `setContract`, `GetTokenClass`, `setTokenClass`,
`getNextClassIDs`, `setNextClassIDs`, `getNextTokenID`, `setNextTokenID`,
`setGrant`, `deleteGrant`). A getter that panics on a missing key
(`getNextClassIDs`, `getNextTokenID`) applies a function outside its
domain, which stops TLC with an error. So every passing run also shows
that those panics cannot be reached.
`Ledger(c)`/`SetLedger(c, st)` read and write the ledger part of one
contract as a record, the way the keeper reads and writes statistics.
`Attach` is the spec-modelled operation that builds the hierarchy (both NFTs
of one owner, subject a root, no cycle). `BurnsRootsOnly` is the check of the
burn message handlers that a burnt NFT is a root.

Abstractions: names, metas and uris are model values; token ids are pairs
<<class id, number>>; the non-fungible class range starts right after the
bounded fungible range (in the code, at 1<<28 + 1); events are left out.

Runs (all on `MCCollectionKeeper`, accounts and permissions symmetric):

| run | cfg | expect | checks |
|---|---|---|---|
| ledger | MCLedger.cfg | pass | `SupplyIsMintedMinusBurnt`, `NFTSupplyMatchesBalances`, `FTHeldWithinSupply`, `NFTOwnership`, `HierarchyConsistent`, `InstanceCounters`, `ClassRecordsStable` over 1 contract, 1 FT and 2 NFT classes, 2 NFTs per class, batches of 2, minted up to 3 |
| admin | MCAdmin.cfg | pass | `ModifyAppliesChanges` with two values per field, two permissions |
| mintft_overwrite | MCMintFTOverwrite.cfg | violation | `SupplyMatchesBalances`: MintFT twice to one account, balance 1, supply 2 |
| modify_contract_uri | MCModifyContract.cfg | violation | `ModifyContractAppliesChanges`: the uri change lands in the name |

Bounds: with 2 NFT classes of 2 instances, one owner can build a tree of
depth 2 whose nodes span both classes, which is what the cascade needs (a
grandchild, a pruned NFT of another class than its root). Two accounts let
ownership and balances differ between holders; batches of 2 exercise
duplicate entries and the order of the loops; `MaxMinted = 3` allows mints
of 1 and 2 to the same account. Contracts are independent (every key starts
with the contract id and no method reads another contract), so one contract
suffices for the ledger; the admin run also uses one, as two contracts do not
finish within the time limit.

`ModifyAppliesChanges` and `ModifyContractAppliesChanges` check the
modifiers tables and the change loop against `ExpectedAfter`, the reference
meaning of a change list, from every record the model reaches and for every
change list of up to two entries.

Fairness: none. The keeper only reacts to requests; nothing in it must
eventually happen, so the runs check safety only.

### CreateContractReplicas.tla

`CreateContract` run by several replicas on one transaction. Its loop ranges
over the Go map `collection.Permission_value`; the Go runtime picks a new
iteration order for every range statement, so each loop iteration is a step
that visits any entry not yet visited. Actions: `Start` (createContract and
the first events), `LoopStep` (the skip of `PermissionUnspecified`, or the
grant-body event and `Keeper.Grant`, which stores the grant and emits
`EventGranted`), `Return`.

| run | cfg | expect | checks |
|---|---|---|---|
| create_contract_events | MCCreateContractEvents.cfg | violation | `ReplicasAgreeOnEvents`: two replicas emit the grant events in different orders |

Two replicas and three permissions (plus Unspecified) give every pair of
orders on the map. The grant store itself is a set, so it is the same on
every replica whatever the order; only the event log differs.

### GovMigrationV043.tla / MCGovMigrationV043.tla

The store is a function from byte-string keys to values, ordered
byte-wise (`KeyLess`). An iterator is a `cursor`; `Remaining` is what it may
still yield: the keys of its domain when it was opened (`snapshot`), or the
keys there now (`live`). The KVStore contract forbids writes in a domain
with an open iterator and leaves the result undefined, so the constant
`Visibilities` says which iterator behaviours the store may have.
Actions: `MigrateAddressKey` (one loop iteration of
`migratePrefixProposalAddress`: write the length-prefixed key, delete the
old), `MigrateVote` (one iteration of `migrateStoreWeightedVotes`),
`EndOfPass` (the next call of `MigrateStore`).

| run | cfg | expect | checks |
|---|---|---|---|
| gov_migration | MCGovMigration.cfg | pass | `NoEntryLostOrDuplicated` during the address passes, `MigrationComplete` at the end, snapshot iterators |
| gov_migration_live | MCGovMigrationLive.cfg | violation | `NoEntryLostOrDuplicated` with a live iterator: the new key sorts after the cursor inside the domain, is yielded again and migrated twice |

Fairness: none. The passing run checks invariants only. With a snapshot
iterator every pass is a loop over a finite set, so termination says
nothing about the code. With a live iterator the loop is cut by
`MaxKeyLen`.

Bounds: two one-byte proposal ids, so one pass migrates the keys of
several proposals. Three one-byte addresses: the migrated key sorts after
the old one for `<<0>>` (`<<1,0>>`), after it on a tie of the first byte
for `<<1>>` (`<<1,1>>`), and before it for `<<2>>` (`<<1,2>>`). Every
subset of depositors and voters is an initial store, with every vote
option. `MaxKeyLen = 6` stops the
live iterator's re-migration after one extra round; the run stops when
the migration is done (no deadlock check).

### GrpcWebStart.tla

The calling goroutine (`mainPc`), the serving goroutine (`servePc`), the
node's `Close` of the returned server (`closed`) and a discrete `clock`.
`Tick` is enabled only when the receive on `errCh` is not: the code's steps
take no time next to a 5 s timer. `ServerStartTime = 50` (100 ms ticks).

Fairness: weak fairness on `ReceiveErr`, `Timeout`, `Tick` and
`ServeReturnsClosed`, used by the liveness property of the leak run. The Go scheduler runs a runnable goroutine
eventually, a timer fires eventually, and `ListenAndServe` returns once the
server is closed. `ServeFails` and `Close` are the environment's choices and
get none.

| run | cfg | expect | checks |
|---|---|---|---|
| grpc_web_start | MCGrpcWebStart.cfg | pass | `TypeOK`: the control states and the timer, over every action of the module |
| grpc_web_leak | MCGrpcWebLeak.cfg | violation | `ServeGoroutineEnds`: after the timeout nobody receives on the unbuffered `errCh`, and the goroutine blocks forever on its send (also on the `ErrServerClosed` of a clean shutdown) |

### AnteSetup.tla / MCAnteSetup.tla

One `AnteHandle` call per behaviour, over every transaction kind, mode,
gas limit, consensus `MaxGas` and outcome of the rest of the chain.
Integers have width `Width = 4` (gas limits 0..15, signed range -8..7),
so the uint64 -> int64 cast of `validateGasWanted` is `ToSigned`, the same
wrap at a smaller width. Limits 7 and 8 sit on the sign boundary; `MaxGas`
-1 means no limit.

| run | cfg | expect | checks |
|---|---|---|---|
| ante | MCAnteSetup.cfg | pass | `AcceptedGasWithinMaxGas`: CheckTx never accepts a limit above MaxGas, read unsigned |

### OstraconMisbehaviour.tla

`ValidateBasic` as `Check(m, i)`, the list of its 19 early returns in code
order, and `FirstFailure`, which returns at the first. A header is
abstracted to the fields the checks read; a missing pointer is `Nil`. The
header's own `ValidateBasic`, block-id decoding and commit verification are
outcomes chosen by the model (`basicOK`, `blockID`, `commit`).

| run | cfg | expect | checks |
|---|---|---|---|
| misbehaviour | MCOstraconMisbehaviour.cfg | pass | `AcceptedIsFork`: an accepted message holds two complete headers of one chain and height, committing to two blocks, both with a verified commit |
| misbehaviour_panic | MCOstraconPanic.cfg | violation | `NeverPanics`: a header without a signed header reaches `Header.ChainID` at line 81 |

## 3. Findings

1. `mintFT` sets rather than adds the balance (supply.go:192): supply and
   the held amount part after two mints to one account (`mintft_overwrite`).
2. `ModifyContract` writes `base_img_uri` into the name (supply.go:325)
   (`modify_contract_uri`).
3. The gov migration writes inside the domain it iterates (store.go:31);
   it is right only with a snapshot iterator (`gov_migration_live`).
4. `StartGRPCWeb` leaks the serving goroutine when the timer wins
   (grpc_web.go:36) (`grpc_web_leak`).
5. `Misbehaviour.ValidateBasic` panics on a header without a signed header
   (misbehaviour.go:81) (`misbehaviour_panic`).
6. The grant events of `CreateContract` come out in Go map order
   (supply.go:29), so replicas disagree on the event log
   (`create_contract_events`).

## 4. Not modelled

The keeper events other than those of `CreateContract`; Detach and NFT
transfers (outside `src/`, not described by the spec); the legacy indexes
(`setLegacyToken`, ...), which nothing in `src/` reads; the panics on
marshalling failures (the codec is a collaborator); the decode errors of
`migrateStoreWeightedVotes` (store.go:55-64), which a v0.40 vote cannot
reach; the cryptography of the misbehaviour checks; and the components
listed as not modelled in section 1.2. For each of these, the reason it
is left out:

- Keeper events beyond `CreateContract`. Every other handler emits its
  events in the order of its own loop over a slice, so there is no Go map
  iteration to race. Carrying an event log in the ledger state would
  multiply a state space that already takes most of the run's time
  limit, and no property separates it from the state changes already
  checked.
- `GetHeight` and `GetTime` of the Ostracon misbehaviour. These are
  pure selections (the height of header 1, the later of the two times).
  They are read by the light-client module, which is outside `src/`, so
  nothing in this repository consumes them under a property.
- The gov CLI (`parse.go`). It parses one command's flags or file and
  keeps no state between calls. It is a single sequential function with
  nothing to interleave or order. One difference is known: the file
  path skips `validate()`. It is recorded in the component's note in
  `PROJECT.json`. Showing it would take a violation run of a stateless
  function, and a unit test reaches it more directly.
- The authz simulation genesis (`genGrant`). It is a random generator
  for the simulator. `make(..., len(accounts)-1)` would panic with no
  accounts. The simulator that supplies them lives outside `src/`, so
  whether it can pass none is not decided here.
- The stakingplus module and the foundation codec. They hold no state:
  one delegates to x/staking and the other registers interfaces.
- The testutil and CLI test suites. These are tests of the code, not
  code.
