---------------------- MODULE CreateContractReplicas ----------------------
(***************************************************************************)
(* Keeper.CreateContract (x/collection/keeper/supply.go) run by several    *)
(* replicas on the same transaction.  Its loop ranges over the Go map      *)
(* collection.Permission_value, whose iteration order the Go runtime picks *)
(* anew for every range statement: each loop iteration is a step that     *)
(* visits any entry the replica has not visited yet.  Each replica keeps  *)
(* its grant store and the events it emitted, in order.                    *)
(***************************************************************************)
EXTENDS Naturals, Sequences

CONSTANTS
    Replicas,      \* the replicas executing the transaction
    Permissions,   \* collection.Permission values other than Unspecified
    Unspecified,   \* collection.PermissionUnspecified
    creator        \* the creator of the contract

\* The keys of the Go map Permission_value.
PermissionValue == Permissions \cup {Unspecified}

VARIABLES
    pc,         \* replica -> "start", "loop", "done"
    unvisited,  \* replica -> entries of Permission_value the range has left
    grants,     \* replica -> its grant store: (grantee, permission) facts
    events      \* replica -> the events it emitted, in order

vars == <<pc, unvisited, grants, events>>

Init ==
    /\ pc = [r \in Replicas |-> "start"]
    /\ unvisited = [r \in Replicas |-> PermissionValue]
    /\ grants = [r \in Replicas |-> {}]
    /\ events = [r \in Replicas |-> <<>>]

\* createContract, the created-contract events and the head of the grant
\* events, then the range over Permission_value begins (supply.go:10-28).
Start(r) ==
    /\ pc[r] = "start"
    /\ pc' = [pc EXCEPT ![r] = "loop"]
    /\ events' = [events EXCEPT ![r] = @ \o <<[type |-> "created"],
                                              [type |-> "grantHead"]>>]
    /\ UNCHANGED <<unvisited, grants>>

\* The events of one iteration for permission p: the grant-body event
\* (supply.go:35-36), then the EventGranted of Keeper.Grant (supply.go:415-423).
IterationEvents(p) == <<[type |-> "grantBody", permission |-> p],
                        [type |-> "granted", permission |-> p]>>

\* The loop body's `continue` (supply.go:30-33).
Skipped(p) == p = Unspecified

\* One iteration of the range (supply.go:29-38): Unspecified is skipped;
\* any other permission gets a grant-body event and a Keeper.Grant, which
\* stores the fact (grant, supply.go:426-431) and emits EventGranted.
LoopStep(r) ==
    /\ pc[r] = "loop"
    /\ \E p \in unvisited[r] :
        /\ unvisited' = [unvisited EXCEPT ![r] = @ \ {p}]
        /\ IF Skipped(p)
           THEN UNCHANGED <<grants, events>>
           ELSE /\ grants' = [grants EXCEPT ![r] = @ \cup {<<creator, p>>}]
                /\ events' = [events EXCEPT ![r] = @ \o IterationEvents(p)]
    /\ UNCHANGED pc

\* The range has visited every entry: CreateContract returns (supply.go:40).
Return(r) ==
    /\ pc[r] = "loop" /\ unvisited[r] = {}
    /\ pc' = [pc EXCEPT ![r] = "done"]
    /\ UNCHANGED <<unvisited, grants, events>>

Next == \E r \in Replicas : Start(r) \/ LoopStep(r) \/ Return(r)

Spec == Init /\ [][Next]_vars

-----------------------------------------------------------------------------
(* Properties *)

Events == {[type |-> t] : t \in {"created", "grantHead"}}
          \cup [type: {"grantBody", "granted"}, permission: Permissions]

TypeOK ==
    /\ pc \in [Replicas -> {"start", "loop", "done"}]
    /\ unvisited \in [Replicas -> SUBSET PermissionValue]
    /\ grants \in [Replicas -> SUBSET ({creator} \X Permissions)]
    /\ \A r \in Replicas : \A i \in 1..Len(events[r]) :
          events[r][i] \in Events

Done(r) == pc[r] = "done"

\* Replicas that have executed CreateContract emitted the same events in
\* the same order: the transaction's result is reproducible byte for byte
\* (spec section 1).
ReplicasAgreeOnEvents ==
    \A r1, r2 \in Replicas : Done(r1) /\ Done(r2) => events[r1] = events[r2]
=============================================================================
