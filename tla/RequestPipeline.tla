-------------------------- MODULE RequestPipeline ---------------------------
(***************************************************************************)
(* The chain of middlewares around every handler, in the order Run gives   *)
(* it to the router (internal/cmd/root.go:121-139): request count and      *)
(* duration (internal/metrics), gin's Recovery, the logger                 *)
(* (internal/logger) and the forwarded-for middleware.  Requests run       *)
(* concurrently, over shared counters.                                     *)
(*                                                                         *)
(* gin and net/http are external and modelled as the chain uses them:      *)
(* Next calls the rest of the chain and comes back, unless it panics; the  *)
(* first status written stays; a request no route matches goes through the *)
(* middlewares alone; one that only a trailing slash keeps from a route is *)
(* redirected without them; a panic that leaves the chain closes the       *)
(* connection.                                                             *)
(***************************************************************************)
EXTENDS Naturals, Sequences, FiniteSets

CONSTANT Requests

ASSUME RequestsAssumption == IsFiniteSet(Requests)

VARIABLES
    job,        \* each request: see JobType
    count,      \* http_server_requests_total, by status
    duration,   \* the observations of http_server_request_duration_seconds
    logged      \* the lines the logger wrote, by status

pipelineVars == <<job, count, duration, logged>>

HandlerStatuses == {200, 400, 404, 500}
Statuses == HandlerStatuses \cup {301}

\* Mutants: Recovery around everything; no Recovery.
RecoveryFirst == <<"recovery", "count", "duration", "logger", "xff">>
NoRecovery == <<"count", "duration", "logger", "xff">>

\* router.Use: the outermost first.
Chain == <<"count", "duration", "recovery", "logger", "xff">>

\* at: how many middlewares the request is inside of; "in" on its way to the
\* handler, "out" on its way back; panic: a panic is unwinding, for a broken
\* connection or for anything else; panicked: there was one (history).
JobType ==
    [pc : {"none", "in", "out", "sent", "cut"}, at : 0..Len(Chain), routed : BOOLEAN,
     status : Statuses, written : BOOLEAN, panic : {"no", "brokenPipe", "other"},
     panicked : BOOLEAN]

Unhandled == [pc |-> "none", at |-> 0, routed |-> FALSE, status |-> 200, written |-> FALSE,
              panic |-> "no", panicked |-> FALSE]

PipelineInit ==
    /\ job = [r \in Requests |-> Unhandled]
    /\ count = [s \in Statuses |-> 0]
    /\ duration = [s \in Statuses |-> 0]
    /\ logged = [s \in Statuses |-> 0]

\* Writing a status: no effect once one has been written.
WriteStatus(j, s) == IF j.written THEN j ELSE [j EXCEPT !.status = s, !.written = TRUE]

Inc(metric, s) == [metric EXCEPT ![s] = @ + 1]

-----------------------------------------------------------------------------

\* The router: a route, none (gin's 404, which is only written at the end), or
\* a redirect to the path with or without its slash.
Arrive(r) ==
    /\ job[r].pc = "none"
    /\ \E arrived \in {[Unhandled EXCEPT !.pc = "in", !.routed = TRUE],
                       [Unhandled EXCEPT !.pc = "in", !.status = 404],
                       [WriteStatus(Unhandled, 301) EXCEPT !.pc = "sent"]} :
          job' = [job EXCEPT ![r] = arrived]
    /\ UNCHANGED <<count, duration, logged>>

\* Mutant: requests are counted on their way in as well.
EnterCounts(r) ==
    /\ job[r].pc = "in" /\ job[r].at < Len(Chain)
    /\ job' = [job EXCEPT ![r].at = @ + 1]
    /\ count' = IF job[r].at = 0 THEN Inc(count, job[r].status) ELSE count
    /\ UNCHANGED <<duration, logged>>

\* What each middleware does before the rest of the chain shows nowhere.
Enter(r) ==
    /\ job[r].pc = "in" /\ job[r].at < Len(Chain)
    /\ job' = [job EXCEPT ![r].at = @ + 1]
    /\ UNCHANGED <<count, duration, logged>>

\* The handler writes a response, panics, or both; without a route nobody does.
Handle(r) ==
    /\ job[r].pc = "in" /\ job[r].at = Len(Chain)
    /\ \/ ~job[r].routed /\ job' = [job EXCEPT ![r].pc = "out"]
       \/ /\ job[r].routed
          /\ \E s \in HandlerStatuses, panic \in {"no", "brokenPipe", "other"} :
             \E response \in {WriteStatus(job[r], s), job[r]} :
                /\ panic = "no" => response.written
                /\ job' = [job EXCEPT ![r] = [response EXCEPT !.pc = "out", !.panic = panic,
                                                               !.panicked = panic # "no"]]
    /\ UNCHANGED <<count, duration, logged>>

\* The request leaves the middleware it is in, by a return or by a panic.
Leaves(r, middleware) ==
    /\ job[r].pc = "out" /\ job[r].at > 0
    /\ Chain[job[r].at] = middleware

Outwards(r, j) == job' = [job EXCEPT ![r] = [j EXCEPT !.at = @ - 1]]

\* A panic passes over what follows Next.
InstrumentRequestCount(r) ==
    /\ Leaves(r, "count")
    /\ count' = IF job[r].panic = "no" THEN Inc(count, job[r].status) ELSE count
    /\ Outwards(r, job[r])
    /\ UNCHANGED <<duration, logged>>

InstrumentRequestDuration(r) ==
    /\ Leaves(r, "duration")
    /\ duration' = IF job[r].panic = "no" THEN Inc(duration, job[r].status) ELSE duration
    /\ Outwards(r, job[r])
    /\ UNCHANGED <<count, logged>>

\* Recovery stops a panic and, unless the connection is gone, writes 500.
Recovery(r) ==
    LET recovered == IF job[r].panic = "other" THEN WriteStatus(job[r], 500) ELSE job[r] IN
    /\ Leaves(r, "recovery")
    /\ Outwards(r, [recovered EXCEPT !.panic = "no"])
    /\ UNCHANGED <<count, duration, logged>>

\* Mutant: the line is written on the way in, before there is a status.
LogsBefore(r) ==
    /\ Leaves(r, "logger")
    /\ logged' = Inc(logged, 200)
    /\ Outwards(r, job[r])
    /\ UNCHANGED <<count, duration>>

LoggerMiddleware(r) ==
    /\ Leaves(r, "logger")
    /\ logged' = IF job[r].panic = "no" THEN Inc(logged, job[r].status) ELSE logged
    /\ Outwards(r, job[r])
    /\ UNCHANGED <<count, duration>>

ForwardedFor(r) ==
    /\ Leaves(r, "xff")
    /\ Outwards(r, job[r])
    /\ UNCHANGED <<count, duration, logged>>

\* The router writes what is still to be written; a panic gets to the server.
Finish(r) ==
    /\ job[r].pc = "out" /\ job[r].at = 0
    /\ job' = [job EXCEPT ![r] =
                  IF @.panic = "no" THEN [WriteStatus(@, @.status) EXCEPT !.pc = "sent"]
                  ELSE [@ EXCEPT !.pc = "cut"]]
    /\ UNCHANGED <<count, duration, logged>>

Step(r) ==
    \/ Arrive(r) \/ Enter(r) \/ Handle(r)
    \/ InstrumentRequestCount(r) \/ InstrumentRequestDuration(r) \/ Recovery(r)
    \/ LoggerMiddleware(r) \/ ForwardedFor(r)
    \/ Finish(r)

PipelineNext == \E r \in Requests : Step(r)

PipelineSpec == PipelineInit /\ [][PipelineNext]_pipelineVars

-----------------------------------------------------------------------------
(* Properties *)

TypeOK ==
    /\ job \in [Requests -> JobType]
    /\ {count, duration, logged} \subseteq [Statuses -> 0..Cardinality(Requests)]

\* The requests that were in the chain and have left its first n middlewares.
Out(n, s) ==
    {r \in Requests : /\ job[r].pc \in {"out", "sent", "cut"}
                      /\ job[r].at < n
                      /\ job[r].status = s}

\* Every request that was matched with the routes, panicking or not, is
\* counted and timed once, under the status its client is sent: the status
\* does not change after it was counted (metrics.go:31-37, 54-62; root.go:124).
\* Nothing is said of redirects over a trailing slash, which are answered
\* outside of the chain.
CountedAsSent ==
    \A s \in Statuses \ {301} :
        /\ count[s] = Cardinality(Out(1, s))
        /\ duration[s] = Cardinality(Out(2, s))

\* A request whose handler returned is logged once, under the status its client
\* is sent, and no status is logged more often than clients are sent it.
\* Whether a request whose handler panicked is logged is left open here
\* (logger.go:16-54).
LoggedAsSent ==
    \A s \in Statuses \ {301} :
        /\ Cardinality({r \in Out(4, s) : ~job[r].panicked}) <= logged[s]
        /\ logged[s] <= Cardinality(Out(4, s))

\* A handler's panic never reaches the server: every request is answered, and
\* a 5xx or what the handler itself had written is what it is answered with
\* (root.go:127).
PanicAnswered ==
    [][\A r \in Requests :
          /\ job'[r].pc # "cut"
          /\ job[r].panic = "other" /\ job'[r].panic = "no" /\ ~job[r].written =>
                job'[r].status = 500 /\ job'[r].written
          /\ job[r].written => job'[r].status = job[r].status]_pipelineVars

-----------------------------------------------------------------------------
(* What a comment says and the code does not do *)

\* logger.go:12, the middleware "logs requests": one line for each that goes
\* through it, under the status its client is sent.  The logger is inside of
\* Recovery and writes after the handler has returned, so a panic passes its
\* line over (logger.go:18-54, root.go:127-128).
EveryRequestLogged ==
    \A s \in Statuses \ {301} : logged[s] = Cardinality(Out(4, s))

=============================================================================
