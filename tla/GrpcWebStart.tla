--------------------------- MODULE GrpcWebStart ---------------------------
(***************************************************************************)
(* StartGRPCWeb (server/grpc/grpc_web.go): the calling goroutine starts a *)
(* goroutine that runs ListenAndServe and sends its error on an unbuffered *)
(* channel, then selects between that channel and a timer of              *)
(* ServerStartTime.  After a successful return the node may later close   *)
(* the server, which makes ListenAndServe return ErrServerClosed.         *)
(*                                                                         *)
(* Time is discrete: `clock` counts ticks since the call, and ticks only  *)
(* when no goroutine can take a step (the steps of the code take no time  *)
(* compared with the timer).  ListenAndServe may fail at any tick (bind   *)
(* error at once, an accept error later).                                 *)
(***************************************************************************)
EXTENDS Naturals

CONSTANT ServerStartTime   \* the timer, in ticks

VARIABLES
    mainPc,   \* the caller: "select", "returnedErr", "returnedSrv"
    servePc,  \* the goroutine: "serving", "send", "done"
    closed,   \* the node has closed the returned server
    clock     \* ticks since StartGRPCWeb was called, up to ServerStartTime

vars == <<mainPc, servePc, closed, clock>>

Init ==
    /\ mainPc = "select"
    /\ servePc = "serving"
    /\ closed = FALSE
    /\ clock = 0

\* ListenAndServe returns an error while the server has not been closed
\* (grpc_web.go:35): the goroutine goes on to send it.
ServeFails ==
    /\ servePc = "serving" /\ ~closed
    /\ servePc' = "send"
    /\ UNCHANGED <<mainPc, closed, clock>>

\* After Close, ListenAndServe returns ErrServerClosed, which is not nil,
\* so the goroutine goes on to send it too (grpc_web.go:35-36).
ServeReturnsClosed ==
    /\ servePc = "serving" /\ closed
    /\ servePc' = "send"
    /\ UNCHANGED <<mainPc, closed, clock>>

\* The select takes the error from the channel: an unbuffered send and
\* receive complete together (grpc_web.go:36, :41-42).
ReceiveErr ==
    /\ mainPc = "select" /\ servePc = "send"
    /\ mainPc' = "returnedErr"
    /\ servePc' = "done"
    /\ UNCHANGED <<closed, clock>>

\* The select takes the timer and returns the server (grpc_web.go:43-44).
Timeout ==
    /\ mainPc = "select" /\ clock = ServerStartTime
    /\ mainPc' = "returnedSrv"
    /\ UNCHANGED <<servePc, closed, clock>>

\* The node shuts the returned server down.
Close ==
    /\ mainPc = "returnedSrv" /\ ~closed
    /\ closed' = TRUE
    /\ UNCHANGED <<mainPc, servePc, clock>>

\* Mutant: the clock runs one tick past the timer.
TickPastTimer ==
    /\ mainPc = "select" /\ clock <= ServerStartTime
    /\ ~ENABLED ReceiveErr
    /\ clock' = clock + 1
    /\ UNCHANGED <<mainPc, servePc, closed>>

\* Time passes while the caller waits and no goroutine can step.
Tick ==
    /\ mainPc = "select" /\ clock < ServerStartTime
    /\ ~ENABLED ReceiveErr
    /\ clock' = clock + 1
    /\ UNCHANGED <<mainPc, servePc, closed>>

Next == ServeFails \/ ServeReturnsClosed \/ ReceiveErr \/ Timeout \/ Close
        \/ Tick

\* The Go runtime runs a runnable goroutine eventually and a timer fires
\* eventually; whether ListenAndServe fails and whether the node closes the
\* server are up to the environment, so those steps get no fairness.
Fairness ==
    /\ WF_vars(ReceiveErr) /\ WF_vars(Timeout) /\ WF_vars(Tick)
    /\ WF_vars(ServeReturnsClosed)

Spec == Init /\ [][Next]_vars /\ Fairness

-----------------------------------------------------------------------------
(* Properties *)

TypeOK ==
    /\ mainPc \in {"select", "returnedErr", "returnedSrv"}
    /\ servePc \in {"serving", "send", "done"}
    /\ closed \in BOOLEAN
    /\ clock \in 0..ServerStartTime

\* Once ListenAndServe has returned an error, the serving goroutine ends:
\* its send on errCh (grpc_web.go:36) is eventually received, also when it
\* comes after the timeout (a late serve error, or ErrServerClosed on
\* shutdown).
ServeGoroutineEnds == (servePc = "send") ~> (servePc = "done")
=============================================================================
