--------------------------- MODULE CollectionKeeper ---------------------------
(***************************************************************************)
(* The token ledger of x/collection (src/x/collection/keeper/supply.go):   *)
(* contracts, fungible and non-fungible token classes, balances, the       *)
(* owner index of NFTs, the parent/child hierarchy of NFTs, the supply     *)
(* statistics and the permission grants.                                   *)
(*                                                                         *)
(* Every exported keeper method is one atomic action: the host (baseapp)   *)
(* runs a message in a cached store and discards all of its writes when    *)
(* the method returns an error, so an error step leaves every variable     *)
(* unchanged.  A batch method (MintFT, MintNFT, BurnCoins) is a fold over  *)
(* its batch, in the order of the code's loop.                             *)
(*                                                                         *)
(* The store is modelled by its logical content: a record absent from the  *)
(* store is a key outside the DOMAIN of a partial function, and a          *)
(* statistic or balance that the store deletes at zero is the value 0.     *)
(***************************************************************************)
EXTENDS Integers, Sequences, FiniteSets, TLC

LOCAL INSTANCE Functions
LOCAL SeqExt == INSTANCE SequencesExt

CONSTANTS
    Accounts,       \* account addresses (model values)
    Permissions,    \* collection.Permission values other than Unspecified
    Values,         \* names, metas and uris written into records
    InvalidValues,  \* the subset of Values a class draft's ValidateBasic rejects
    Amounts,        \* positive amounts of fungible coins in requests
    MaxContracts,   \* bound on the contract id allocator
    MaxFTClasses,   \* bound on the fungible class id counter
    MaxNFTClasses,  \* bound on the non-fungible class id counter
    MaxNFTs,        \* bound on the instance counter of each NFT class
    MaxMinted,      \* bound on the cumulative minted amount of a class
    MaxBatch        \* bound on the length of a batch request

ASSUME /\ InvalidValues \subseteq Values
       /\ Amounts \subseteq Nat \ {0}
       /\ {MaxContracts, MaxFTClasses, MaxNFTClasses, MaxNFTs, MaxMinted, MaxBatch} \subseteq Nat

VARIABLES
    nextContractID, \* the x/class id allocator behind classKeeper.NewID
    contract,       \* contractKey:       contract id -> contract record
    nextClassIDs,   \* nextClassIDKey:    contract id -> [fungible, nonFungible]
    classes,        \* classKey:          contract id -> (class id -> class record)
    nextTokenID,    \* nextTokenIDKey:    contract id -> (NFT class id -> instance counter)
    balance,        \* balanceKey:        contract id -> (<<account, token id>> -> amount)
    owner,          \* ownerKey:          contract id -> (NFT id -> account)
    nfts,           \* nftKey:            contract id -> (NFT id -> NFT record)
    parent,         \* parentKey/childKey: contract id -> (child NFT id -> parent NFT id)
    supply,         \* supplyKeyPrefix:   contract id -> (class id -> amount)
    minted,         \* mintedKeyPrefix:   contract id -> (class id -> amount)
    burnt,          \* burntKeyPrefix:    contract id -> (class id -> amount)
    grants,         \* grantKey:          set of <<contract id, grantee, permission>>
    accounts        \* accounts known to x/auth (createAccountOnAbsence)

ledgerVars == <<nextTokenID, balance, owner, nfts, parent, supply, minted, burnt>>
vars == <<nextContractID, contract, nextClassIDs, classes, ledgerVars, grants, accounts>>

-----------------------------------------------------------------------------
(* Identifiers.  Class ids come from two counters: fungible ids start at 1  *)
(* and non-fungible ids at 1<<28 + 1 (DefaultNextClassIDs); here the        *)
(* non-fungible range starts right above the bounded fungible range.       *)
(* A token id is <<class id, instance number>>, number 0 for the FT id.    *)

ContractIDs == 1..MaxContracts
FirstNFTClassID == MaxFTClasses + 1
FTClassIDs == 1..MaxFTClasses
NFTClassIDs == FirstNFTClassID..(MaxFTClasses + MaxNFTClasses)
ClassIDs == FTClassIDs \cup NFTClassIDs

NewFTID(k) == <<k, 0>>
NewNFTID(k, n) == <<k, n>>
SplitTokenID(t) == t[1]
ValidateFTID(t) == t[2] = 0
ValidateNFTID(t) == t[2] # 0

FTIDs == {NewFTID(k) : k \in ClassIDs}
NFTIDs == {NewNFTID(k, n) : k \in NFTClassIDs, n \in 1..MaxNFTs}
TokenIDs == FTIDs \cup NFTIDs

DefaultNextClassIDs == [fungible |-> 1, nonFungible |-> FirstNFTClassID]

ValidValues == Values \ InvalidValues
ContractRecs == [name : Values, meta : Values, baseImgUri : Values]
FTClassRecs == [kind : {"ft"}, mintable : BOOLEAN, name : Values, meta : Values]
NFTClassRecs == [kind : {"nft"}, name : Values, meta : Values]
NFTRecs == [name : Values, meta : Values]
\* Coins of MsgMintFT/MsgBurnFT, and the coins of amount one MsgBurnNFT makes.
FTCoins == [tokenId : FTIDs, amount : Amounts]
Coins == FTCoins \cup [tokenId : NFTIDs, amount : {1}]

EmptyFn == [x \in {} |-> 0]
Delete(f, S) == Restrict(f, DOMAIN f \ S)
Batches(S) == UNION {[1..n -> S] : n \in 1..MaxBatch}

-----------------------------------------------------------------------------
(* The ledger part of the store for one contract, as a record, so that the *)
(* loops of the batch methods can be folds over it.                        *)

Ledger(c) == [nextTokenID |-> nextTokenID[c], balance |-> balance[c],
              owner |-> owner[c], nfts |-> nfts[c], parent |-> parent[c],
              supply |-> supply[c], minted |-> minted[c], burnt |-> burnt[c]]

SetLedger(c, st) ==
    /\ nextTokenID' = [nextTokenID EXCEPT ![c] = st.nextTokenID]
    /\ balance' = [balance EXCEPT ![c] = st.balance]
    /\ owner' = [owner EXCEPT ![c] = st.owner]
    /\ nfts' = [nfts EXCEPT ![c] = st.nfts]
    /\ parent' = [parent EXCEPT ![c] = st.parent]
    /\ supply' = [supply EXCEPT ![c] = st.supply]
    /\ minted' = [minted EXCEPT ![c] = st.minted]
    /\ burnt' = [burnt EXCEPT ![c] = st.burnt]

\* The children and the descendants of an NFT in the hierarchy index.
Children(par, t) == {x \in DOMAIN par : par[x] = t}
RECURSIVE Descendants(_, _)
Descendants(par, t) ==
    Children(par, t) \cup UNION {Descendants(par, x) : x \in Children(par, t)}

-----------------------------------------------------------------------------
(* Store accessors.  A getter that panics on a missing key reads outside   *)
(* the DOMAIN of a function, which stops TLC with an error: every passing  *)
(* run also shows that the keeper never reaches those panics.              *)

\* Keeper.GetContract: whether the contract record is found (ErrNotFound
\* otherwise).
GetContract(c) == c \in DOMAIN contract

\* Keeper.setContract: the record under the contract's id, new or not.
setContract(c, rec) == contract' = (c :> rec) @@ contract

\* Keeper.GetTokenClass: whether the class record is found.
GetTokenClass(c, k) == k \in DOMAIN classes[c]

\* Keeper.setTokenClass: the record under the class id, new or not.
setTokenClass(c, k, class) == classes' = [classes EXCEPT ![c] = (k :> class) @@ @]

\* Keeper.getNextClassIDs: panics when the contract has no counters.
getNextClassIDs(c) == nextClassIDs[c]

\* Keeper.setNextClassIDs.
setNextClassIDs(c, ids) == nextClassIDs' = (c :> ids) @@ nextClassIDs

\* Keeper.getNextTokenID, on the ledger record of one contract: panics
\* when the class has no instance counter.
getNextTokenID(st, k) == st.nextTokenID[k]

\* Keeper.setNextTokenID.
setNextTokenID(c, k, n) == nextTokenID' = [nextTokenID EXCEPT ![c] = (k :> n) @@ @]

\* Keeper.setGrant and Keeper.deleteGrant.
setGrant(c, grantee, permission) == grants' = grants \cup {<<c, grantee, permission>>}
deleteGrant(c, grantee, permission) == grants' = grants \ {<<c, grantee, permission>>}

-----------------------------------------------------------------------------
(* Contracts and grants                                                    *)

Init ==
    /\ nextContractID = 1
    /\ contract = EmptyFn
    /\ nextClassIDs = EmptyFn
    /\ classes = [c \in ContractIDs |-> EmptyFn]
    /\ nextTokenID = [c \in ContractIDs |-> EmptyFn]
    /\ balance = [c \in ContractIDs |-> [x \in Accounts \X TokenIDs |-> 0]]
    /\ owner = [c \in ContractIDs |-> EmptyFn]
    /\ nfts = [c \in ContractIDs |-> EmptyFn]
    /\ parent = [c \in ContractIDs |-> EmptyFn]
    /\ supply = [c \in ContractIDs |-> [k \in ClassIDs |-> 0]]
    /\ minted = [c \in ContractIDs |-> [k \in ClassIDs |-> 0]]
    /\ burnt = [c \in ContractIDs |-> [k \in ClassIDs |-> 0]]
    /\ grants = {}
    /\ accounts = {}

\* Keeper.grant: setGrant, then createAccountOnAbsence of the grantee.
grant(c, grantee, permission) ==
    /\ setGrant(c, grantee, permission)
    /\ accounts' = accounts \cup {grantee}

\* Mutant of createContract: the next class ids are not stored.
createContractNoNextIDs(draft) ==
    /\ nextContractID' = nextContractID + 1
    /\ setContract(nextContractID, draft)
    /\ UNCHANGED nextClassIDs

\* Keeper.createContract: a fresh id from the x/class allocator, the
\* contract record and the default next class ids.
createContract(draft) ==
    /\ nextContractID' = nextContractID + 1
    /\ setContract(nextContractID, draft)
    /\ setNextClassIDs(nextContractID, DefaultNextClassIDs)

\* Keeper.CreateContract: createContract, then a Grant of every permission
\* to the creator (the events are not modelled).
CreateContract(creator, draft) ==
    /\ nextContractID <= MaxContracts
    /\ createContract(draft)
    /\ grants' = grants \cup {<<nextContractID, creator, p>> : p \in Permissions}
    /\ accounts' = accounts \cup {creator}
    /\ UNCHANGED <<classes, ledgerVars>>

\* Keeper.Grant (the granter only appears in the event).
Grant(c, grantee, permission) ==
    /\ grant(c, grantee, permission)
    /\ UNCHANGED <<nextContractID, contract, nextClassIDs, classes, ledgerVars>>

\* Keeper.Abandon: deleteGrant.
Abandon(c, grantee, permission) ==
    /\ deleteGrant(c, grantee, permission)
    /\ UNCHANGED <<nextContractID, contract, nextClassIDs, classes, ledgerVars, accounts>>

-----------------------------------------------------------------------------
(* Token classes                                                           *)

\* TokenClass.ValidateBasic: the name and the meta of the draft.
ValidateBasic(draft) == draft.name \notin InvalidValues /\ draft.meta \notin InvalidValues

\* TokenClass.SetId: the id the class takes from the contract's counters.
ClassIdOf(draft, ids) ==
    IF draft.kind = "ft" THEN ids.fungible ELSE ids.nonFungible

\* TokenClass.SetId: the counters after the class took its id.
NextIdsAfter(draft, ids) ==
    IF draft.kind = "ft" THEN [ids EXCEPT !.fungible = @ + 1]
                         ELSE [ids EXCEPT !.nonFungible = @ + 1]

\* Mutant of CreateTokenClass: the advanced counters are not stored.
CreateTokenClassNoNextID(c, draft) ==
    /\ GetContract(c)
    /\ LET id == ClassIdOf(draft, getNextClassIDs(c)) IN
       /\ id \in (IF draft.kind = "ft" THEN FTClassIDs ELSE NFTClassIDs)
       /\ ValidateBasic(draft)
       /\ setTokenClass(c, id, draft)
       /\ IF draft.kind = "nft" THEN setNextTokenID(c, id, 1)
                                ELSE UNCHANGED nextTokenID
    /\ UNCHANGED <<nextContractID, contract, nextClassIDs, balance, owner, nfts,
                   parent, supply, minted, burnt, grants, accounts>>

\* Keeper.CreateTokenClass.  The contract must exist; the class takes the
\* next id of its kind (the counter write is discarded with the rest when
\* ValidateBasic fails); setTokenClass writes the record whether or not the
\* key holds one; an NFT class gets its instance counter set to one.
CreateTokenClass(c, draft) ==
    /\ GetContract(c)
    /\ LET id == ClassIdOf(draft, getNextClassIDs(c)) IN
       /\ id \in (IF draft.kind = "ft" THEN FTClassIDs ELSE NFTClassIDs)
       /\ ValidateBasic(draft)
       /\ setNextClassIDs(c, NextIdsAfter(draft, getNextClassIDs(c)))
       /\ setTokenClass(c, id, draft)
       /\ IF draft.kind = "nft" THEN setNextTokenID(c, id, 1)
                                ELSE UNCHANGED nextTokenID
    /\ UNCHANGED <<nextContractID, contract, balance, owner, nfts, parent,
                   supply, minted, burnt, grants, accounts>>

-----------------------------------------------------------------------------
(* Mint                                                                    *)

\* The checks of Keeper.MintFT on one coin: an FT id of an existing,
\* fungible and mintable class (ErrNotFound, ErrInvalidType,
\* ErrInvalidRequest otherwise).
MintableFTCoin(c, coin) ==
    LET k == SplitTokenID(coin.tokenId) IN
    /\ ValidateFTID(coin.tokenId)
    /\ GetTokenClass(c, k)
    /\ classes[c][k].kind = "ft"
    /\ classes[c][k].mintable

\* Mutant of mintFT: the supply statistic is not updated.
mintFTNoSupply(st, to, k, amount) ==
    [st EXCEPT !.balance[<<to, NewFTID(k)>>] = amount, !.minted[k] = @ + amount]

\* Keeper.mintFT: setBalance to the amount, then supply and minted.
mintFT(st, to, k, amount) ==
    [st EXCEPT !.balance[<<to, NewFTID(k)>>] = amount,
               !.supply[k] = @ + amount,
               !.minted[k] = @ + amount]

\* Keeper.MintFT: every coin is checked before the call has any effect that
\* survives (the host discards a failed call), and mintFT runs per coin.
MintFT(c, to, coins) ==
    /\ \A i \in DOMAIN coins : MintableFTCoin(c, coins[i])
    /\ LET mint(st, coin) == mintFT(st, to, SplitTokenID(coin.tokenId), coin.amount)
           st2 == SeqExt!FoldLeft(mint, Ledger(c), coins)
       IN /\ \A k \in ClassIDs : st2.minted[k] <= MaxMinted
          /\ SetLedger(c, st2)
    /\ UNCHANGED <<nextContractID, contract, nextClassIDs, classes, grants, accounts>>

\* The checks of Keeper.MintNFT on one param: an existing NFT class.
MintableNFTParam(c, param) ==
    /\ GetTokenClass(c, param.tokenType)
    /\ classes[c][param.tokenType].kind = "nft"

\* Mutant of mintNFT: the instance counter is not advanced.
mintNFTSameNumber(st, to, param) ==
    LET k == param.tokenType
        t == NewNFTID(k, getNextTokenID(st, k))
    IN [st EXCEPT !.balance[<<to, t>>] = 1,
                  !.owner = (t :> to) @@ @,
                  !.nfts = (t :> [name |-> param.name, meta |-> param.meta]) @@ @,
                  !.supply[k] = @ + 1,
                  !.minted[k] = @ + 1]

\* One iteration of the loop of Keeper.MintNFT: take and bump the instance
\* counter, then setBalance, setOwner, setNFT, supply and minted.
mintNFT(st, to, param) ==
    LET k == param.tokenType
        t == NewNFTID(k, getNextTokenID(st, k))
    IN [st EXCEPT !.nextTokenID[k] = @ + 1,
                  !.balance[<<to, t>>] = 1,
                  !.owner = (t :> to) @@ @,
                  !.nfts = (t :> [name |-> param.name, meta |-> param.meta]) @@ @,
                  !.supply[k] = @ + 1,
                  !.minted[k] = @ + 1]

\* Keeper.MintNFT.
MintNFT(c, to, params) ==
    /\ \A i \in DOMAIN params : MintableNFTParam(c, params[i])
    /\ \A k \in DOMAIN nextTokenID[c] :
          nextTokenID[c][k] - 1 + Cardinality({i \in DOMAIN params : params[i].tokenType = k}) <= MaxNFTs
    /\ LET mint(st, param) == mintNFT(st, to, param)
       IN SetLedger(c, SeqExt!FoldLeft(mint, Ledger(c), params))
    /\ UNCHANGED <<nextContractID, contract, nextClassIDs, classes, grants, accounts>>

-----------------------------------------------------------------------------
(* Burn                                                                    *)

\* Keeper.subtractCoins (send.go): debit each coin in turn, failing with
\* ErrInsufficientFunds when a balance would become negative.
subtractCoins(bal, from, coins) ==
    LET sub(acc, coin) ==
          LET key == <<from, coin.tokenId>>
          IN IF acc.ok /\ acc.balance[key] >= coin.amount
             THEN [acc EXCEPT !.balance[key] = @ - coin.amount]
             ELSE [acc EXCEPT !.ok = FALSE]
    IN SeqExt!FoldLeft(sub, [ok |-> TRUE, balance |-> bal], coins)

\* Keeper.pruneNFT (nft.go) on the set D of NFTs it removes: each loses its
\* hierarchy edges, its owner record, its NFT record and its owner's
\* balance entry.
pruneSet(st, D) ==
    [st EXCEPT !.parent = Delete(@, D),
               !.owner = Delete(@, D),
               !.nfts = Delete(@, D),
               !.balance = [x \in DOMAIN @ |->
                              IF x[2] \in D /\ x[1] = st.owner[x[2]] THEN 0 ELSE @[x]]]

\* Keeper.pruneNFT: every descendant of t is removed.
pruneNFT(st, t) == pruneSet(st, Descendants(st.parent, t))

\* Mutant of burnCoin: the pruned descendants are not added to burntAmount.
burnCoinNoPruned(acc, coin) ==
    LET t == coin.tokenId
        listed == Append(acc.burntAmount, coin)
        st1 == [acc.st EXCEPT !.owner = Delete(@, {t}), !.nfts = Delete(@, {t})]
    IN IF ValidateNFTID(t)
       THEN [st |-> pruneNFT(st1, t), burntAmount |-> listed]
       ELSE [acc EXCEPT !.burntAmount = listed]

\* Mutant of burnCoin: deleteOwner is left out.
burnCoinKeepOwner(acc, coin) ==
    LET t == coin.tokenId
        st1 == [acc.st EXCEPT !.nfts = Delete(@, {t})]
        pruned == SeqExt!SetToSeq(Descendants(st1.parent, t))
    IN IF ValidateNFTID(t)
       THEN [st |-> pruneNFT(st1, t),
             burntAmount |-> Append(acc.burntAmount, coin) \o
                [i \in DOMAIN pruned |-> [tokenId |-> pruned[i], amount |-> 1]]]
       ELSE [acc EXCEPT !.burntAmount = Append(@, coin)]

\* Mutant of burnCoin: pruneNFT is not called; the descendants stay.
burnCoinNoPrune(acc, coin) ==
    LET t == coin.tokenId
        st1 == [acc.st EXCEPT !.owner = Delete(@, {t}), !.nfts = Delete(@, {t})]
    IN IF ValidateNFTID(t)
       THEN [st |-> st1, burntAmount |-> Append(acc.burntAmount, coin)]
       ELSE [acc EXCEPT !.burntAmount = Append(@, coin)]

\* One iteration of the first loop of Keeper.BurnCoins: the coin goes into
\* burntAmount; an NFT loses its owner and NFT records, and the descendants
\* pruneNFT removes go into burntAmount with amount one each.
burnCoin(acc, coin) ==
    LET t == coin.tokenId
        listed == Append(acc.burntAmount, coin)
        st1 == [acc.st EXCEPT !.owner = Delete(@, {t}), !.nfts = Delete(@, {t})]
        pruned == SeqExt!SetToSeq(Descendants(st1.parent, t))
    IN IF ValidateNFTID(t)
       THEN [st |-> pruneNFT(st1, t),
             burntAmount |-> listed \o [i \in DOMAIN pruned |->
                                          [tokenId |-> pruned[i], amount |-> 1]]]
       ELSE [acc EXCEPT !.burntAmount = listed]

\* Mutant of burnStatistic: the burnt statistic is not updated.
burnStatisticNoBurnt(st, coin) ==
    [st EXCEPT !.supply[SplitTokenID(coin.tokenId)] = @ - coin.amount]

\* Mutant of burnStatistic: the burnt statistic is decreased.
burnStatisticSignSlip(st, coin) ==
    LET k == SplitTokenID(coin.tokenId) IN
    [st EXCEPT !.supply[k] = @ - coin.amount, !.burnt[k] = @ - coin.amount]

\* One iteration of the statistics loop of Keeper.BurnCoins.
burnStatistic(st, coin) ==
    LET k == SplitTokenID(coin.tokenId) IN
    [st EXCEPT !.supply[k] = @ - coin.amount, !.burnt[k] = @ + coin.amount]

\* The message handlers burn root NFTs only (a child is burnt through its
\* root); this is their check, made before the keeper is called.
BurnsRootsOnly(c, coins) ==
    \A i \in DOMAIN coins : coins[i].tokenId \notin DOMAIN parent[c]

\* Keeper.BurnCoins: subtractCoins, the burn loop, the statistics loop.
BurnCoins(c, from, coins) ==
    /\ BurnsRootsOnly(c, coins)
    /\ LET sub == subtractCoins(balance[c], from, coins)
           st0 == [Ledger(c) EXCEPT !.balance = sub.balance]
           loop == SeqExt!FoldLeft(burnCoin, [st |-> st0, burntAmount |-> <<>>], coins)
       IN /\ sub.ok
          /\ SetLedger(c, SeqExt!FoldLeft(burnStatistic, loop.st, loop.burntAmount))
    /\ UNCHANGED <<nextContractID, contract, nextClassIDs, classes, grants, accounts>>

\* Keeper.Attach (nft.go), the operation that builds the hierarchy: the
\* subject is a root, the target is not in the subject's subtree, and both
\* belong to the same owner.
Attach(c, subject, target) ==
    /\ {subject, target} \subseteq DOMAIN nfts[c]
    /\ subject \notin DOMAIN parent[c]
    /\ target \notin Descendants(parent[c], subject) \cup {subject}
    /\ owner[c][subject] = owner[c][target]
    /\ parent' = [parent EXCEPT ![c] = (subject :> target) @@ @]
    /\ UNCHANGED <<nextContractID, contract, nextClassIDs, classes, nextTokenID,
                   balance, owner, nfts, supply, minted, burnt, grants, accounts>>

-----------------------------------------------------------------------------
(* Modify: the modifiers tables map each attribute key to the field its    *)
(* setter writes, and the loop applies the changes in order.               *)

contractModifiers == [name |-> "name", base_img_uri |-> "name", meta |-> "meta"]
\* Mutant of classModifiers: the meta setter writes the name.
classModifiersMetaToName == [name |-> "name", meta |-> "name"]
classModifiers == [name |-> "name", meta |-> "meta"]
nftModifiers == [name |-> "name", meta |-> "meta"]

ApplyChanges(modifiers, rec, changes) ==
    LET set(r, change) == [r EXCEPT ![modifiers[change.key]] = change.value]
    IN SeqExt!FoldLeft(set, rec, changes)

ChangesOf(keys) == Batches([key : keys, value : ValidValues])

\* Keeper.ModifyContract: GetContract, the modifiers, setContract.
ModifyContract(c, changes) ==
    /\ GetContract(c)
    /\ setContract(c, ApplyChanges(contractModifiers, contract[c], changes))
    /\ UNCHANGED <<nextContractID, nextClassIDs, classes, ledgerVars, grants, accounts>>

\* Keeper.ModifyTokenClass: GetTokenClass, the modifiers, setTokenClass.
ModifyTokenClass(c, k, changes) ==
    /\ GetTokenClass(c, k)
    /\ setTokenClass(c, k, ApplyChanges(classModifiers, classes[c][k], changes))
    /\ UNCHANGED <<nextContractID, contract, nextClassIDs, ledgerVars, grants, accounts>>

\* Keeper.ModifyNFT: GetNFT, the modifiers, setNFT.
ModifyNFT(c, t, changes) ==
    /\ t \in DOMAIN nfts[c]
    /\ nfts' = [nfts EXCEPT ![c][t] = ApplyChanges(nftModifiers, @, changes)]
    /\ UNCHANGED <<nextContractID, contract, nextClassIDs, classes, nextTokenID,
                   balance, owner, parent, supply, minted, burnt, grants, accounts>>

-----------------------------------------------------------------------------

ClassDrafts == FTClassRecs \cup NFTClassRecs
MintNFTParams == [tokenType : ClassIDs, name : ValidValues, meta : ValidValues]

Next ==
    \/ \E a \in Accounts, d \in [name : ValidValues, meta : ValidValues, baseImgUri : ValidValues] :
          CreateContract(a, d)
    \/ \E c \in ContractIDs, d \in ClassDrafts : CreateTokenClass(c, d)
    \/ \E c \in ContractIDs, a \in Accounts, coins \in Batches(FTCoins) : MintFT(c, a, coins)
    \/ \E c \in ContractIDs, a \in Accounts, ps \in Batches(MintNFTParams) : MintNFT(c, a, ps)
    \/ \E c \in ContractIDs, a \in Accounts, coins \in Batches(Coins) : BurnCoins(c, a, coins)
    \/ \E c \in ContractIDs, s, t \in NFTIDs : Attach(c, s, t)
    \/ \E c \in ContractIDs, ch \in ChangesOf(DOMAIN contractModifiers) : ModifyContract(c, ch)
    \/ \E c \in ContractIDs, k \in ClassIDs, ch \in ChangesOf(DOMAIN classModifiers) :
          ModifyTokenClass(c, k, ch)
    \/ \E c \in ContractIDs, t \in NFTIDs, ch \in ChangesOf(DOMAIN nftModifiers) : ModifyNFT(c, t, ch)
    \/ \E c \in ContractIDs, a \in Accounts, p \in Permissions : Grant(c, a, p)
    \/ \E c \in ContractIDs, a \in Accounts, p \in Permissions : Abandon(c, a, p)

Spec == Init /\ [][Next]_vars

-----------------------------------------------------------------------------
(* Properties                                                              *)

TypeOK ==
    /\ nextContractID \in 1..(MaxContracts + 1)
    /\ DOMAIN contract = 1..(nextContractID - 1)
    /\ \A c \in DOMAIN contract : contract[c] \in ContractRecs
    /\ DOMAIN nextClassIDs = DOMAIN contract
    /\ \A c \in ContractIDs :
          /\ DOMAIN classes[c] \subseteq ClassIDs
          /\ \A k \in DOMAIN classes[c] : classes[c][k] \in FTClassRecs \cup NFTClassRecs
          /\ DOMAIN nextTokenID[c] \subseteq NFTClassIDs
          /\ balance[c] \in [Accounts \X TokenIDs -> Nat]
          /\ DOMAIN owner[c] \subseteq NFTIDs /\ \A t \in DOMAIN owner[c] : owner[c][t] \in Accounts
          /\ DOMAIN nfts[c] \subseteq NFTIDs /\ \A t \in DOMAIN nfts[c] : nfts[c][t] \in NFTRecs
          /\ DOMAIN parent[c] \subseteq NFTIDs /\ \A t \in DOMAIN parent[c] : parent[c][t] \in NFTIDs
          /\ supply[c] \in [ClassIDs -> Int]
          /\ minted[c] \in [ClassIDs -> Nat]
          /\ burnt[c] \in [ClassIDs -> Nat]
    /\ grants \subseteq ContractIDs \X Accounts \X Permissions
    /\ accounts \subseteq Accounts

\* The amount of class k held over all accounts of contract c.
HeldAmount(c, k) ==
    SumFunctionOnSet(balance[c], {x \in Accounts \X TokenIDs : SplitTokenID(x[2]) = k})

\* Spec invariant 2: the supply statistic of every class is its minted
\* statistic less its burnt statistic, although MintFT/MintNFT write supply
\* and minted while BurnCoins writes supply and burnt, for the caller's
\* coins and for the pruned descendants alike.
SupplyIsMintedMinusBurnt ==
    \A c \in ContractIDs, k \in ClassIDs : supply[c][k] = minted[c][k] - burnt[c][k]

\* Spec invariant 3 for non-fungible classes: the supply of an NFT class
\* equals the number of its instances held, after any mix of MintNFT,
\* Attach and cascading BurnCoins, whose pruned descendants may belong to
\* other classes than the burnt root.
NFTSupplyMatchesBalances ==
    \A c \in ContractIDs, k \in NFTClassIDs : supply[c][k] = HeldAmount(c, k)

\* No fungible token is held that the supply does not account for: the
\* held amount of a fungible class never exceeds its supply.
FTHeldWithinSupply ==
    \A c \in ContractIDs, k \in FTClassIDs : HeldAmount(c, k) <= supply[c][k]

\* Spec invariant 3 for every class: supply equals the amount held.  Keeper
\* mintFT sets the receiver's balance to the minted amount instead of
\* adding it, so this is checked by a run that expects a violation.
SupplyMatchesBalances ==
    \A c \in ContractIDs, k \in ClassIDs : supply[c][k] = HeldAmount(c, k)

\* Spec invariant 4: an NFT has an NFT record exactly when it has an owner
\* record, its owner holds balance one of it and nobody else holds any;
\* a burnt or pruned NFT has no balance anywhere.
NFTOwnership ==
    \A c \in ContractIDs, t \in NFTIDs :
        /\ t \in DOMAIN nfts[c] <=> t \in DOMAIN owner[c]
        /\ \A a \in Accounts :
              balance[c][<<a, t>>] = IF t \in DOMAIN owner[c] /\ owner[c][t] = a THEN 1 ELSE 0

\* The hierarchy index only links live NFTs of one owner and has no cycle,
\* so a cascading burn never reaches a burnt NFT or loops.
HierarchyConsistent ==
    \A c \in ContractIDs : \A t \in DOMAIN parent[c] :
        /\ {t, parent[c][t]} \subseteq DOMAIN nfts[c]
        /\ owner[c][t] = owner[c][parent[c][t]]
        /\ t \notin Descendants(parent[c], t)

\* Spec section 8, ID monotonicity: a class has an instance counter exactly
\* when it is an NFT class (getNextTokenID never panics), the counter is
\* one more than the minted statistic, and every live instance's number is
\* below it, so a burnt number is never issued again.
InstanceCounters ==
    \A c \in ContractIDs : \A k \in DOMAIN classes[c] :
        /\ (classes[c][k].kind = "nft") <=> (k \in DOMAIN nextTokenID[c])
        /\ k \in DOMAIN nextTokenID[c] =>
              /\ minted[c][k] = nextTokenID[c][k] - 1
              /\ \A t \in DOMAIN nfts[c] : SplitTokenID(t) = k => t[2] < nextTokenID[c][k]

\* Spec invariant 1: a class id, once assigned, keeps its kind and its
\* mintable flag; setTokenClass overwrites whatever is under the key, so
\* this rests on the next class id counters never handing out an id twice.
ClassRecordsStable ==
    [][\A c \in ContractIDs : \A k \in DOMAIN classes[c] :
          /\ k \in DOMAIN classes'[c]
          /\ classes'[c][k].kind = classes[c][k].kind
          /\ classes[c][k].kind = "ft" => classes'[c][k].mintable = classes[c][k].mintable
      ]_classes

\* The reference meaning of a change list (spec 4.4): each attribute key
\* names one field, and the field ends with the value of the last change
\* to it.
AttributeField == [name |-> "name", meta |-> "meta", base_img_uri |-> "baseImgUri"]
ExpectedAfter(rec, changes) ==
    [f \in DOMAIN rec |->
        LET is == {i \in DOMAIN changes : AttributeField[changes[i].key] = f}
        IN IF is = {} THEN rec[f] ELSE changes[SeqExt!Max(is)].value]

\* ModifyTokenClass and ModifyNFT, applied to any class or NFT record the
\* ledger reaches and any list of changes, give the record the reference
\* meaning of the list says: their modifiers tables write the field each
\* key names, and a later change to a key wins.
ModifyAppliesChanges ==
    \A c \in ContractIDs :
        /\ \A k \in DOMAIN classes[c], ch \in ChangesOf(DOMAIN classModifiers) :
              ApplyChanges(classModifiers, classes[c][k], ch) = ExpectedAfter(classes[c][k], ch)
        /\ \A t \in DOMAIN nfts[c], ch \in ChangesOf(DOMAIN nftModifiers) :
              ApplyChanges(nftModifiers, nfts[c][t], ch) = ExpectedAfter(nfts[c][t], ch)

\* ModifyContract, applied to any contract record the ledger reaches and
\* any list of changes, gives the record the reference meaning of the list
\* says.  The base_img_uri setter of Keeper.ModifyContract writes the name,
\* so this is checked by a run that expects a violation.
ModifyContractAppliesChanges ==
    \A c \in DOMAIN contract, ch \in ChangesOf(DOMAIN contractModifiers) :
        ApplyChanges(contractModifiers, contract[c], ch) = ExpectedAfter(contract[c], ch)

=============================================================================
