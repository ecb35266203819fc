--------------------------- MODULE ServeLifecycle ---------------------------
(***************************************************************************)
(* http.Serve (internal/http/serve.go): the goroutine that calls it, the   *)
(* listener goroutine it launches, the channel between them, the context   *)
(* that ends it and the deadline of its graceful shutdown.                 *)
(*                                                                         *)
(* net/http's Server is external and modelled as Serve uses it: what       *)
(* ListenAndServe, Shutdown and Close do to the listener and to the        *)
(* connections.  Clients may connect, go away, or stay forever; a handler  *)
(* may never return.                                                       *)
(***************************************************************************)
EXTENDS Naturals

CONSTANT Conns      \* connections that clients may open

VARIABLES
    pc,             \* where Serve is: see ServeStates
    result,         \* what it returned: see Results
    lpc,            \* where the listener goroutine is: see ListenerStates
    errChan,        \* the number of errors in errChan
    ctxDone,        \* the context Serve was given is done
    deadline,       \* the 5s of the shutdown context have passed
    inShutdown,     \* Shutdown or Close has been called
    lnErr,          \* closing the listener failed
    conn            \* the state of each connection: see ConnStates

vars == <<pc, result, lpc, errChan, ctxDone, deadline, inShutdown, lnErr, conn>>
serveVars == <<pc, result>>
serverVars == <<inShutdown, lnErr, conn>>

\* Serve: in its select; about to shut down; in Shutdown waiting for the accept
\* loop, polling the connections, waiting between polls; about to force.
ServeStates == {"select", "shutdown", "stopping", "polling", "waiting", "force", "returned"}
InShutdownCall == {"stopping", "polling", "waiting"}
Results == {"none", "nil", "listenError", "closeError", "timeout"}
\* ListenAndServe before its listener is tracked; its accept loop; about to send
\* the error ListenAndServe returned; ended.
ListenerStates == {"starting", "serving", "failing", "done"}
\* "cut": closed by the server with a request in progress.
ConnStates == {"none", "new", "active", "idle", "closed", "cut"}
Open == {"new", "active", "idle"}

\* Mutant: an unbuffered channel.
noBuffer == 0

\* The capacity of errChan.
errChanCap == 1

Init ==
    /\ pc = "select"
    /\ result = "none"
    /\ lpc = "starting"
    /\ errChan = 0
    /\ ctxDone \in BOOLEAN
    /\ deadline = FALSE
    /\ inShutdown = FALSE
    /\ lnErr = FALSE
    /\ conn = [c \in Conns |-> "none"]

-----------------------------------------------------------------------------
(* The listener goroutine *)

\* ListenAndServe binds the address and starts to accept.
Listen ==
    /\ lpc = "starting"
    /\ ~inShutdown
    /\ lpc' = "serving"
    /\ UNCHANGED <<serveVars, errChan, ctxDone, deadline, serverVars>>

\* The address cannot be bound, or accepting fails for good.
ListenFails ==
    /\ lpc = "starting" \/ (lpc = "serving" /\ ~inShutdown)
    /\ lpc' = "failing"
    /\ UNCHANGED <<serveVars, errChan, ctxDone, deadline, serverVars>>

\* ListenAndServe returns ErrServerClosed, which is not reported.
ListenerClosed ==
    /\ lpc \in {"starting", "serving"}
    /\ inShutdown
    /\ lpc' = "done"
    /\ UNCHANGED <<serveVars, errChan, ctxDone, deadline, serverVars>>

\* Mutants: the error is only logged; the goroutine listens again and again
\* and keeps sending.
LogOnly ==
    /\ lpc = "failing"
    /\ lpc' = "done"
    /\ UNCHANGED <<serveVars, errChan, ctxDone, deadline, serverVars>>

ReportAndRetry ==
    /\ lpc = "failing"
    /\ errChan < errChanCap \/ pc = "select"
    /\ errChan' = errChan + 1
    /\ lpc' = "starting"
    /\ UNCHANGED <<serveVars, ctxDone, deadline, serverVars>>

\* errChan <- err: there is room, or somebody receives.
Report ==
    /\ lpc = "failing"
    /\ errChan < errChanCap \/ pc = "select"
    /\ errChan' = errChan + 1
    /\ lpc' = "done"
    /\ UNCHANGED <<serveVars, ctxDone, deadline, serverVars>>

-----------------------------------------------------------------------------
(* Serve *)

Return(r) == pc' = "returned" /\ result' = r

\* Mutant: leaving at once when the context is done.
LeaveOnCtx ==
    /\ pc = "select"
    /\ ctxDone
    /\ Return("nil")
    /\ UNCHANGED <<lpc, errChan, ctxDone, deadline, serverVars>>

\* case <-ctx.Done(), even when errChan is ready too.
SelectCtx ==
    /\ pc = "select"
    /\ ctxDone
    /\ pc' = "shutdown"
    /\ UNCHANGED <<result, lpc, errChan, ctxDone, deadline, serverVars>>

\* case e := <-errChan: connections are left as they are.
SelectErr ==
    /\ pc = "select"
    /\ errChan > 0
    /\ errChan' = errChan - 1
    /\ Return("listenError")
    /\ UNCHANGED <<lpc, ctxDone, deadline, serverVars>>

\* Close: every connection is closed, handlers or not.
CloseConns == [c \in Conns |-> CASE conn[c] = "active" -> "cut"
                                 [] conn[c] \in {"new", "idle"} -> "closed"
                                 [] OTHER -> conn[c]]

\* Mutant: Close where Shutdown is meant.
CloseFirst ==
    /\ pc = "shutdown"
    /\ inShutdown' = TRUE
    /\ conn' = CloseConns
    /\ pc' = "stopping"
    /\ UNCHANGED <<result, lpc, errChan, ctxDone, deadline, lnErr>>

\* Shutdown is called under a new deadline and closes the listener.
Shutdown ==
    /\ pc = "shutdown"
    /\ inShutdown' = TRUE
    /\ lnErr' \in {FALSE, lpc = "serving"}
    /\ pc' = "stopping"
    /\ UNCHANGED <<result, lpc, errChan, ctxDone, deadline, conn>>

\* Shutdown waits for the accept loop to return.
AcceptLoopEnded ==
    /\ pc = "stopping"
    /\ lpc # "serving"
    /\ pc' = "polling"
    /\ UNCHANGED <<result, lpc, errChan, ctxDone, deadline, serverVars>>

\* closeIdleConns closes the idle connections and those new ones (old) it has
\* waited long enough for; it is done when no other is open.  One step: a
\* connection that changes its state meanwhile did so before or after.
Poll ==
    /\ pc = "polling"
    /\ \E old \in SUBSET {c \in Conns : conn[c] = "new"} :
          /\ conn' = [c \in Conns |-> IF conn[c] = "idle" \/ c \in old THEN "closed" ELSE conn[c]]
          /\ IF \E c \in Conns : conn'[c] \in Open THEN pc' = "waiting" /\ UNCHANGED result
             ELSE IF lnErr THEN pc' = "force" /\ result' = "closeError"
             ELSE Return("nil")
    /\ UNCHANGED <<lpc, errChan, ctxDone, deadline, inShutdown, lnErr>>

\* The wait between polls ends.
PollAgain ==
    /\ pc = "waiting"
    /\ pc' = "polling"
    /\ UNCHANGED <<result, lpc, errChan, ctxDone, deadline, serverVars>>

\* Mutant: a shutdown context without a timeout never gives up.
NeverGiveUp ==
    /\ pc = "waiting" /\ FALSE
    /\ pc' = "force"
    /\ result' = "timeout"
    /\ UNCHANGED <<lpc, errChan, ctxDone, deadline, serverVars>>

\* Shutdown returns DeadlineExceeded.
GiveUp ==
    /\ pc = "waiting"
    /\ deadline
    /\ pc' = "force"
    /\ result' = "timeout"
    /\ UNCHANGED <<lpc, errChan, ctxDone, deadline, serverVars>>

\* Mutant: returning the error without server.Close().
ForceNothing ==
    /\ pc = "force"
    /\ pc' = "returned"
    /\ UNCHANGED <<result, lpc, errChan, ctxDone, deadline, serverVars>>

\* server.Close(), then the error is returned.
ForceClose ==
    /\ pc = "force"
    /\ pc' = "returned"
    /\ conn' = CloseConns
    /\ UNCHANGED <<result, lpc, errChan, ctxDone, deadline, inShutdown, lnErr>>

-----------------------------------------------------------------------------
(* Time, signals and connections *)

\* A signal, or whatever ends the context.
CancelCtx ==
    /\ ~ctxDone
    /\ ctxDone' = TRUE
    /\ UNCHANGED <<serveVars, lpc, errChan, deadline, serverVars>>

\* The timeout runs from just before Shutdown is called.
DeadlinePasses ==
    /\ pc \in InShutdownCall
    /\ ~deadline
    /\ deadline' = TRUE
    /\ UNCHANGED <<serveVars, lpc, errChan, ctxDone, serverVars>>

SetConn(c, from, to) ==
    /\ conn[c] \in from
    /\ conn' = [conn EXCEPT ![c] = to]
    /\ UNCHANGED <<serveVars, lpc, errChan, ctxDone, deadline, inShutdown, lnErr>>

\* The accept loop takes a connection; one may be in its hands as the listener
\* is closed.
Accept(c) == lpc = "serving" /\ SetConn(c, {"none"}, "new")

\* A request is read.
Request(c) == SetConn(c, {"new", "idle"}, "active")

\* The handler is done; a server shutting down does not keep the connection.
Respond(c) == SetConn(c, {"active"}, IF inShutdown THEN "closed" ELSE "idle")

\* The client goes away, or the time for its headers is up.
HangUp(c) == SetConn(c, {"new", "idle"}, "closed")

-----------------------------------------------------------------------------

\* What the listener goroutine does of itself, and with the failures it may meet.
ListenerRuns == Listen \/ ListenerClosed \/ Report
Listener == ListenerRuns \/ ListenFails
Serve ==
    \/ SelectCtx \/ SelectErr
    \/ Shutdown \/ AcceptLoopEnded \/ Poll \/ PollAgain \/ GiveUp
    \/ ForceClose

Next ==
    \/ Listener
    \/ Serve
    \/ CancelCtx \/ DeadlinePasses
    \/ \E c \in Conns : Accept(c) \/ Request(c) \/ Respond(c) \/ HangUp(c)

\* The two goroutines run and time passes; nothing is assumed of clients and
\* handlers, and accepting need never fail.  A select with a ready case is not
\* passed over for ever: once the deadline has passed, GiveUp is ready at every
\* wait between polls.
Fairness ==
    /\ WF_vars(ListenerRuns)
    /\ WF_vars(Serve)
    /\ SF_vars(GiveUp)
    /\ WF_vars(DeadlinePasses)

Spec == Init /\ [][Next]_vars /\ Fairness

-----------------------------------------------------------------------------
(* Properties *)

TypeOK ==
    /\ pc \in ServeStates
    /\ result \in Results
    /\ lpc \in ListenerStates
    /\ errChan \in {0, 1}
    /\ ctxDone \in BOOLEAN
    /\ deadline \in BOOLEAN
    /\ inShutdown \in BOOLEAN
    /\ lnErr \in BOOLEAN
    /\ conn \in [Conns -> ConnStates]

\* Serve returns nil only for a shutdown that was graceful to the end: from
\* then on no connection is open, none was cut off in the middle of a request,
\* and none can be opened (serve.go:36-57).
NilMeansDrained ==
    result = "nil" =>
        /\ \A c \in Conns : conn[c] \notin Open \cup {"cut"}
        /\ lpc # "serving"

\* "If graceful shutdown fails, it will force shutdown and return an error":
\* once Serve has returned the error, no connection is open (serve.go:47-55).
ForcedShutdownCloses ==
    pc = "returned" /\ result \in {"timeout", "closeError"} =>
        \A c \in Conns : conn[c] \notin Open

\* A request in progress is cut off only after the five seconds given to the
\* shutdown, not by a signal, a failing listener or an early poll
\* (serve.go:42-48).
NoCutBeforeDeadline == (\E c \in Conns : conn[c] = "cut") => deadline

\* Once its context is done, Serve returns, whatever clients and handlers do
\* (serve.go:42: the shutdown has a timeout).
ServeReturns == ctxDone ~> pc = "returned"

\* Serve leaves no goroutine behind: the listener's ends, even when it has an
\* error to send after Serve stopped receiving (serve.go:27: the channel is
\* buffered).
ListenerEnds == pc = "returned" ~> lpc = "done"

\* A server that cannot listen is reported as Serve's error, unless the context
\* is done before Serve notices (serve.go:30-40).
FailureReported == lpc = "failing" ~> result = "listenError" \/ ctxDone

-----------------------------------------------------------------------------
(* What a test says and the code does not do *)

\* serve_test.go:71-73: when the address is taken Serve returns an error, also
\* if its context (a timeout, in the test) ends; with the error waiting in
\* errChan, Serve may prefer the context and return nil.
FailureNeverHidden ==
    pc = "returned" /\ errChan > 0 => result # "nil"
=============================================================================
