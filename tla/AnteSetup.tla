---------------------------- MODULE AnteSetup ----------------------------
(***************************************************************************)
(* The first ante decorator, SetUpContextDecorator (x/auth/ante/setup.go). *)
(* Each AnteHandle call is one step: it installs a gas meter, validates   *)
(* the gas wanted in CheckTx, runs the rest of the chain and recovers an  *)
(* out-of-gas panic of that chain.  The step records what the call        *)
(* returned in `last`.                                                     *)
(*                                                                         *)
(* Integers keep their width: a gas limit is an unsigned integer of Width *)
(* bits and the conversion at setup.go:91 is the two's-complement cast to *)
(* a signed integer of the same width (Width = 64 in the code; the model  *)
(* uses a small width so that TLC can hold the boundary values).           *)
(***************************************************************************)
EXTENDS Integers, TLC

CONSTANTS
    Width,       \* bit width of the gas type (64 in the code)
    GasLimits,   \* gas limits a transaction may ask for, in 0..2^Width-1
    MaxGases     \* consensus MaxGas values, -1 meaning "no limit"

ASSUME Width \in Nat \ {0}
ASSUME GasLimits \subseteq 0..(2^Width - 1)
ASSUME MaxGases \subseteq {-1} \cup 0..(2^(Width-1) - 1)

VARIABLE last   \* what the last AnteHandle call returned, with its inputs

\* The consensus params of the context: absent (or without a Block part,
\* setup.go:97), or carrying a block MaxGas.
Params == [present: {FALSE}] \cup [present: {TRUE}, maxGas: MaxGases]

\* No block gas limit applies.
Unlimited(params) == ~params.present \/ params.maxGas = -1

\* The execution modes of a transaction in baseapp.
Modes == {"check", "recheck", "deliver"}

\* What the rest of the ante chain (next) does when it is called.
NextOutcomes == {"ok", "err", "outOfGas", "otherPanic"}

\* A transaction: either it implements GasTx and asks for gas, or not.
Txs == [gasTx: {TRUE}, gas: GasLimits] \cup [gasTx: {FALSE}, gas: {0}]

\* A gas meter: an infinite one, or one with a limit.  The infinite meter
\* reports a limit of 0 (sdk.NewInfiniteGasMeter of the SDK this forks).
Meters == [infinite: BOOLEAN, limit: 0..(2^Width - 1)]
InfiniteMeter == [infinite |-> TRUE, limit |-> 0]

\* int64(u) for a Width-bit unsigned u: two's complement wrap.
ToSigned(u) == IF u >= 2^(Width-1) THEN u - 2^Width ELSE u

\* Mutant: the limit is handed to the meter already cast to int64.
SetGasMeterSignedLimit(simulate, height0, gasLimit) ==
    IF simulate \/ height0 THEN InfiniteMeter
    ELSE [infinite |-> FALSE, limit |-> ToSigned(gasLimit)]

\* SetGasMeter: no metering when simulating or at genesis height.
SetGasMeter(simulate, height0, gasLimit) ==
    IF simulate \/ height0 THEN InfiniteMeter
    ELSE [infinite |-> FALSE, limit |-> gasLimit]

\* Mutant: the sign check of the cast value is missing.
validateGasWantedNoSignCheck(mode, meter, params) ==
    LET gasWanted == ToSigned(meter.limit) IN
    \/ mode # "check"
    \/ Unlimited(params)
    \/ ~(gasWanted > params.maxGas)

\* validateGasWanted: TRUE when the check passes.
validateGasWanted(mode, meter, params) ==
    LET gasWanted == ToSigned(meter.limit) IN
    \/ mode # "check"
    \/ /\ ~(gasWanted < 0)
       /\ \/ Unlimited(params)
          \/ ~(gasWanted > params.maxGas)

\* The error the rest of the chain leaves as the call's result: the deferred
\* recover turns an out-of-gas panic into ErrOutOfGas and re-raises any
\* other panic.
NextErr == ("ok" :> "none") @@ ("err" :> "next") @@ ("outOfGas" :> "OutOfGas")
           @@ ("otherPanic" :> "none")

\* Calling next under the deferred recover, with newCtx already set to the
\* context carrying `meter`.
recoverNext(meter, nextOutcome) ==
    [ctxMeter |-> meter, err |-> NextErr[nextOutcome],
     panics |-> nextOutcome = "otherPanic"]

\* The outcome of one AnteHandle call.  `ctxMeter` is the meter of the
\* returned context (the named result newCtx), `err` the returned error,
\* `panics` whether the call panics to its caller.
AnteHandle(tx, simulate, height0, mode, params, nextOutcome) ==
    LET meter == SetGasMeter(simulate, height0, tx.gas) IN
    CASE ~tx.gasTx ->
           [ctxMeter |-> SetGasMeter(simulate, height0, 0),
            err |-> "TxDecode", panics |-> FALSE]
      [] ~validateGasWanted(mode, meter, params) ->
           [ctxMeter |-> meter, err |-> "OutOfGas", panics |-> FALSE]
      [] OTHER -> recoverNext(meter, nextOutcome)

\* The rest of the chain can run out of gas only on a finite meter.
CanHappen(meter, nextOutcome) == nextOutcome = "outOfGas" => ~meter.infinite

Init == last = [called |-> FALSE]

\* One call of AnteHandle on a transaction in some mode.
Handle ==
    \E tx \in Txs, simulate, height0 \in BOOLEAN, mode \in Modes,
       params \in Params, nextOutcome \in NextOutcomes :
        /\ CanHappen(SetGasMeter(simulate, height0, tx.gas), nextOutcome)
        /\ last' = [called |-> TRUE, tx |-> tx, mode |-> mode,
                    params |-> params, simulate |-> simulate,
                    height0 |-> height0, next |-> nextOutcome]
                   @@ AnteHandle(tx, simulate, height0, mode, params,
                                 nextOutcome)

Next == Handle

Spec == Init /\ [][Next]_last

-----------------------------------------------------------------------------
(* Properties *)

Results == [ctxMeter: Meters, err: {"none", "TxDecode", "OutOfGas", "next"},
            panics: BOOLEAN]

\* Type invariant.
TypeOK == last.called => [ctxMeter |-> last.ctxMeter, err |-> last.err,
                          panics |-> last.panics] \in Results

\* A transaction that CheckTx lets past this decorator on a metered context
\* never asks for more gas than the block MaxGas, read as the unsigned
\* number the transaction carries: the int64 cast of validateGasWanted
\* (setup.go:91) must not let a limit of 2^63 or more through as negative.
AcceptedGasWithinMaxGas ==
    (/\ last.called /\ last.mode = "check" /\ last.err # "OutOfGas"
     /\ last.tx.gasTx /\ ~last.ctxMeter.infinite
     /\ ~Unlimited(last.params))
    => last.tx.gas <= last.params.maxGas

=============================================================================
