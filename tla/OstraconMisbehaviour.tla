----------------------- MODULE OstraconMisbehaviour -----------------------
(***************************************************************************)
(* Misbehaviour.ValidateBasic of the Ostracon light client                 *)
(* (x/ibc/light-clients/99-ostracon/types/misbehaviour.go): the stateless *)
(* checks of a MsgSubmitMisbehaviour, an untrusted message.  Each step    *)
(* validates one misbehaviour and records it with the outcome in `last`.  *)
(*                                                                         *)
(* A header is abstracted to the fields the checks read.  Cryptography and *)
(* decoding are outcomes: `blockID` is a decodable hash ("A", "B") or      *)
(* "invalid", `commit` says how validCommit's decoders and VerifyCommit   *)
(* end, and `basicOK` is the result of the header's own ValidateBasic     *)
(* when its signed header is present (that check, outside src/, starts by *)
(* rejecting a header whose signed header is missing).                     *)
(***************************************************************************)
EXTENDS Naturals, TLC

CONSTANTS
    ChainIDs,   \* chain ids headers may carry
    Heights     \* header heights

VARIABLE last   \* the last misbehaviour validated, and the outcome

\* A pointer field left unset in the message.
Nil == [present |-> FALSE]
Set(r) == [present |-> TRUE] @@ r

\* How validCommit ends; the decoding failures and a failed verification
\* differ only in the error they return, so one stands for all three.
CommitOutcomes == {"unverified", "valid"}

SignedHeaderFields == [chainID: ChainIDs, height: Heights,
                  blockID: {"invalid", "A", "B"}, basicOK: BOOLEAN,
                  commit: CommitOutcomes]
SignedHeaders == {Set(r) : r \in SignedHeaderFields}

\* The trusted part of a header: complete, or with one of the defects the
\* checks look for (a zero trusted revision height, no trusted validator
\* set, no trusted voter set).
TrustedParts == [trustedHeight: {1}, trustedValidators: {TRUE},
                 trustedVoters: {TRUE}]
                \cup [trustedHeight: {0}, trustedValidators: {TRUE},
                      trustedVoters: {TRUE}]
                \cup [trustedHeight: {1}, trustedValidators: {FALSE},
                      trustedVoters: {TRUE}]
                \cup [trustedHeight: {1}, trustedValidators: {TRUE},
                      trustedVoters: {FALSE}]

Headers == {Set([signed |-> sh] @@ t) : sh \in SignedHeaders \cup {Nil},
                                        t \in TrustedParts}

Misbehaviours == [clientIDValid: BOOLEAN,
                  header1: Headers \cup {Nil}, header2: Headers \cup {Nil}]

\* Header.ValidateBasic: fails on a missing signed header, else as given.
HeaderValidateBasic(h) == h.signed # Nil /\ h.signed.basicOK

\* Mutant: the verification error of the voter set is returned unwrapped.
validCommitUnwrapped(sh) ==
    IF sh.commit = "unverified" THEN "ErrVerifyCommit" ELSE "ok"

\* validCommit (misbehaviour.go:132-147): decode the commit, decode the
\* voter set, verify the commit; the first failure is the result.
validCommit(sh) ==
    IF sh.commit = "unverified" THEN "ErrInvalidMisbehaviour" ELSE "ok"

\* Mutant: the comparison of the two block hashes is missing.
equalHashesDropped(m) == FALSE

\* The two headers commit to the same block (misbehaviour.go:117).
equalHashes(m) == m.header1.signed.blockID = m.header2.signed.blockID

\* The checks of ValidateBasic (misbehaviour.go:57-127) in the order the
\* code makes them: check i is a condition under which the code returns,
\* with what it returns.  Reading Header.ChainID (line 81) through a
\* missing signed header is a nil dereference: a panic.
NChecks == 19
Check(m, i) ==
    LET h1 == m.header1
        h2 == m.header2
    IN CASE
    i = 1 -> [fails |-> h1 = Nil, res |-> "ErrInvalidHeader"]
 [] i = 2 -> [fails |-> h2 = Nil, res |-> "ErrInvalidHeader"]
 [] i = 3 -> [fails |-> h1.trustedHeight = 0, res |-> "ErrInvalidHeaderHeight"]
 [] i = 4 -> [fails |-> h2.trustedHeight = 0, res |-> "ErrInvalidHeaderHeight"]
 [] i = 5 -> [fails |-> ~h1.trustedValidators, res |-> "ErrInvalidValidatorSet"]
 [] i = 6 -> [fails |-> ~h1.trustedVoters, res |-> "ErrInvalidVoterSet"]
 [] i = 7 -> [fails |-> ~h2.trustedValidators, res |-> "ErrInvalidValidatorSet"]
 [] i = 8 -> [fails |-> ~h2.trustedVoters, res |-> "ErrInvalidVoterSet"]
 [] i = 9 -> [fails |-> h1.signed = Nil \/ h2.signed = Nil, res |-> "panic"]
 [] i = 10 -> [fails |-> h1.signed.chainID # h2.signed.chainID,
               res |-> "ErrInvalidMisbehaviour"]
 [] i = 11 -> [fails |-> ~m.clientIDValid, res |-> "ErrInvalidClientID"]
 [] i = 12 -> [fails |-> ~HeaderValidateBasic(h1), res |-> "ErrInvalidMisbehaviour"]
 [] i = 13 -> [fails |-> ~HeaderValidateBasic(h2), res |-> "ErrInvalidMisbehaviour"]
 [] i = 14 -> [fails |-> h1.signed.height # h2.signed.height,
               res |-> "ErrInvalidMisbehaviour"]
 [] i = 15 -> [fails |-> h1.signed.blockID = "invalid", res |-> "ErrInvalidBlockID"]
 [] i = 16 -> [fails |-> h2.signed.blockID = "invalid", res |-> "ErrInvalidBlockID"]
 [] i = 17 -> [fails |-> equalHashes(m), res |-> "ErrInvalidMisbehaviour"]
 [] i = 18 -> [fails |-> validCommit(h1.signed) # "ok", res |-> validCommit(h1.signed)]
 [] i = 19 -> [fails |-> validCommit(h2.signed) # "ok", res |-> validCommit(h2.signed)]

\* The result of the first check that fails, "ok" when none does: the
\* code's early returns.
RECURSIVE FirstFailure(_, _)
FirstFailure(m, i) ==
    IF i > NChecks THEN "ok"
    ELSE IF Check(m, i).fails THEN Check(m, i).res
    ELSE FirstFailure(m, i + 1)

ValidateBasic(m) == FirstFailure(m, 1)

Init == last = [m |-> Nil, res |-> "none"]

\* ValidateBasic on a submitted misbehaviour.  Validations are independent
\* of each other, so a behaviour validates one message.
Validate ==
    /\ last.res = "none"
    /\ \E m \in Misbehaviours :
         last' = [m |-> m, res |-> ValidateBasic(m)]

Spec == Init /\ [][Validate]_last

-----------------------------------------------------------------------------
(* Properties *)

Results == {"none", "ok", "panic", "ErrInvalidHeader", "ErrInvalidHeaderHeight",
            "ErrInvalidValidatorSet", "ErrInvalidVoterSet",
            "ErrInvalidMisbehaviour", "ErrInvalidClientID", "ErrInvalidBlockID"}

\* Type invariant.
TypeOK == last.res \in Results

\* Evidence of a fork: two complete headers of one chain at one height,
\* committing to two different blocks, each with a commit its voter set
\* signed.
IsFork(m) ==
    LET h1 == m.header1
        h2 == m.header2
    IN /\ h1 # Nil /\ h2 # Nil /\ h1.signed # Nil /\ h2.signed # Nil
       /\ h1.signed.chainID = h2.signed.chainID
       /\ h1.signed.height = h2.signed.height
       /\ {h1.signed.blockID, h2.signed.blockID} = {"A", "B"}
       /\ h1.signed.commit = "valid" /\ h2.signed.commit = "valid"

\* A misbehaviour ValidateBasic accepts is evidence of a fork: the early
\* returns of misbehaviour.go:57-127 together reject every pair of headers
\* that could belong to one honest chain, whatever order they run in.
AcceptedIsFork == last.res = "ok" => IsFork(last.m)

\* ValidateBasic of an untrusted message returns an error and never
\* panics, whatever fields the submitter leaves unset.
NeverPanics == last.res # "panic"
=============================================================================
