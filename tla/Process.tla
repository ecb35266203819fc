------------------------------ MODULE Process -------------------------------
(***************************************************************************)
(* The life of a hegel process: main, the root command's Run from reading  *)
(* its options to its exit (cmd/hegel/main.go, internal/cmd/root.go), and  *)
(* the choice of a backend by backend.New.  It composes KubernetesBackend, *)
(* which lives on the command's context, and ServeLifecycle, which lives   *)
(* on a context derived from it that signals cancel too.                   *)
(***************************************************************************)
EXTENDS Naturals

CONSTANTS
    Conns,      \* connections that clients may open
    Hardware, Objects, Absent, MaxRev   \* see KubernetesBackend

VARIABLES
    phase,      \* where the main goroutine is: see Phases
    opts,       \* how Run is called: see Options
    outcome,    \* how the process ended: see Outcomes
    caught,     \* signals are delivered to NotifyContext and do not kill
    signalled,  \* a signal has arrived
    cmdDone,    \* the command's context is done
    sigDone,    \* the context derived from it for Serve is done
    snaps, cluster, listedRev, fetchedRev, rev, newResult,   \* KubernetesBackend
    pc, result, lpc, errChan, deadline, inShutdown, lnErr, conn \* ServeLifecycle

Backend == INSTANCE KubernetesBackend WITH
    ctxDone <- cmdDone,
    Namespaces <- {"default"}, NamespaceOf <- [h \in Hardware |-> "default"],
    Namespace <- "", Unset <- "",
    Addrs <- {"ip"}, EmptyAddr <- "", NoDHCP <- "noDHCP", NoHardware <- "nobody"

Server == INSTANCE ServeLifecycle WITH ctxDone <- sigDone

storeVars == <<snaps, cluster, listedRev, fetchedRev, rev, newResult>>
serverVars == <<pc, result, lpc, errChan, deadline, inShutdown, lnErr, conn>>
runVars == <<phase, outcome, caught, signalled, cmdDone, sigDone>>
vars == <<runVars, opts, storeVars, serverVars>>

Phases == {"command", "backend", "router", "serving", "leaving", "over"}
\* Exit codes 0, 1 and 2, and death by a signal.
Outcomes == {"none", "nil", "error", "panic", "killed"}
\* RootCommandOptions, and who calls Run: main, with a context that never ends,
\* or, embedded, somebody with a context to cancel, as the e2e test does.
Options ==
    [backend : {"flatfile", "kubernetes", "other"}, proxiesOK : BOOLEAN, embedded : BOOLEAN]

Init ==
    /\ phase = "command"
    /\ opts \in Options
    /\ outcome = "none"
    /\ caught = FALSE
    /\ signalled = FALSE
    /\ cmdDone = FALSE
    /\ sigDone = FALSE
    /\ Backend!BackendInit
    /\ Server!Init

\* toBackendOptions: at most one of the two is set.
toBackendOptions == {opts.backend} \cap {"flatfile", "kubernetes"}

\* The process is gone and its connections with it; the goroutines of an
\* embedded Run outlive its return.
End(how) ==
    /\ phase' = "over"
    /\ outcome' = how
    /\ conn' = IF opts.embedded /\ how \in {"nil", "error"} THEN conn ELSE Server!CloseConns
    /\ UNCHANGED <<opts, caught, cmdDone, sigDone, pc, result, lpc, errChan, deadline,
                   inShutdown, lnErr>>

Goto(next) ==
    /\ phase' = next
    /\ UNCHANGED <<opts, outcome, caught, signalled, cmdDone, sigDone, serverVars>>

-----------------------------------------------------------------------------
(* The main goroutine up to Serve *)

\* NewRootCommand, the flags, PreRun; not the help that -h prints.
Command ==
    /\ phase = "command"
    /\ \/ Goto("backend")
       \/ End("error") /\ UNCHANGED signalled
    /\ UNCHANGED storeVars

\* backend.New without Kubernetes: the file is loaded or not; no backend
\* configured is an error (and so would be two).
NewOther ==
    /\ phase = "backend"
    /\ "kubernetes" \notin toBackendOptions
    /\ \/ toBackendOptions = {"flatfile"} /\ Goto("router")
       \/ End("error") /\ UNCHANGED signalled
    /\ UNCHANGED storeVars

\* backend.New with Kubernetes: NewBackend, then the wait for its cache.
NewKubernetes ==
    /\ phase = "backend"
    /\ toBackendOptions = {"kubernetes"}
    /\ Backend!NewBackend \/ Backend!New \/ Backend!NewSyncFails
    /\ CASE newResult' = "ready" -> Goto("router")
         [] newResult' = "failed" -> End("error") /\ UNCHANGED signalled
         [] OTHER -> Goto("backend")

\* The trusted proxies are parsed, the router is built, NotifyContext takes
\* over the signals and Serve is called.
StartServing ==
    /\ phase = "router"
    /\ IF opts.proxiesOK
       THEN /\ phase' = "serving"
            /\ caught' = TRUE
            /\ sigDone' = cmdDone
            /\ UNCHANGED <<opts, outcome, cmdDone, serverVars>>
       ELSE End("error")
    /\ UNCHANGED <<signalled, storeVars>>

-----------------------------------------------------------------------------
(* From Serve to the exit *)

Running(step) ==
    /\ phase \in {"serving", "leaving"}
    /\ step
    /\ UNCHANGED <<runVars, opts, storeVars>>

\* Serve has returned: the deferred cancel gives the signals back.
Leave ==
    /\ phase = "serving"
    /\ pc = "returned"
    /\ phase' = "leaving"
    /\ caught' = FALSE
    /\ sigDone' = TRUE
    /\ UNCHANGED <<opts, outcome, signalled, cmdDone, storeVars, serverVars>>

\* Mutants: main takes what Serve says for how the process ended; main does
\* not look at the error.
ExitRaw ==
    /\ phase = "leaving"
    /\ End(result)
    /\ UNCHANGED <<signalled, storeVars>>

ExitBlind ==
    /\ phase = "leaving"
    /\ End("nil")
    /\ UNCHANGED <<signalled, storeVars>>

\* The other deferred calls, and main's exit code.
Exit ==
    /\ phase = "leaving"
    /\ End(IF result = "nil" THEN "nil" ELSE "error")
    /\ UNCHANGED <<signalled, storeVars>>

-----------------------------------------------------------------------------
(* Signals, the context and the cluster's goroutine *)

Cancelled(cmd) ==
    /\ cmdDone' = cmd
    /\ sigDone' = TRUE
    /\ UNCHANGED <<opts, phase, outcome, caught, serverVars>>

\* Mutants: a second signal kills (the signals are given back as soon as the
\* first has come); the backend lives on the same context as the server;
\* Serve is given the context signals do not cancel.
SecondSignalKills ==
    /\ phase # "over"
    /\ signalled' = TRUE
    /\ IF caught /\ ~sigDone THEN Cancelled(cmdDone) ELSE End("killed")
    /\ UNCHANGED storeVars

SignalCancelsBackend ==
    /\ phase # "over"
    /\ signalled' = TRUE
    /\ IF caught THEN Cancelled(TRUE) ELSE End("killed")
    /\ UNCHANGED storeVars

SignalSwallowed ==
    /\ phase # "over"
    /\ signalled' = TRUE
    /\ IF caught THEN UNCHANGED <<opts, phase, outcome, caught, cmdDone, sigDone, serverVars>>
       ELSE End("killed")
    /\ UNCHANGED storeVars

\* SIGINT, SIGTERM or SIGHUP.
Signal ==
    /\ phase # "over"
    /\ signalled' = TRUE
    /\ IF caught THEN Cancelled(cmdDone) ELSE End("killed")
    /\ UNCHANGED storeVars

\* Mutant: Serve's context is not derived from the command's.
CancelDetached ==
    /\ opts.embedded
    /\ phase # "over"
    /\ ~cmdDone
    /\ cmdDone' = TRUE
    /\ UNCHANGED <<opts, phase, outcome, caught, sigDone, signalled, storeVars, serverVars>>

\* Whoever embeds hegel cancels its context; Serve's is derived from it.
CancelCmd ==
    /\ opts.embedded
    /\ phase # "over"
    /\ ~cmdDone
    /\ IF phase \in {"serving", "leaving"} THEN Cancelled(TRUE)
       ELSE cmdDone' = TRUE /\ UNCHANGED <<opts, phase, outcome, caught, sigDone, serverVars>>
    /\ UNCHANGED <<signalled, storeVars>>

\* What the store, the informer and the goroutine of cluster.Start do.
Informer ==
    /\ phase # "over"
    /\ \/ \E h \in Hardware, object \in Objects \cup {Absent} : Backend!Write(h, object)
       \/ Backend!FirstList \/ Backend!Fetch \/ \E h \in Hardware : Backend!Pop(h)
       \/ Backend!ClusterStart \/ Backend!ClusterStop
    /\ UNCHANGED <<phase, outcome, caught, signalled, sigDone, opts, serverVars>>

\* cluster.Start returns an error, which nobody recovers.
ClusterPanics ==
    /\ phase # "over"
    /\ cluster \in {"created", "started"}
    /\ End("panic")
    /\ UNCHANGED <<signalled, storeVars>>

-----------------------------------------------------------------------------

Main == Command \/ NewOther \/ NewKubernetes \/ StartServing \/ Leave \/ Exit

Clients == \E c \in Conns :
    Server!Accept(c) \/ Server!Request(c) \/ Server!Respond(c) \/ Server!HangUp(c)

Next ==
    \/ Main
    \/ Running(Server!Listener \/ Server!Serve \/ Server!DeadlinePasses \/ Clients)
    \/ Signal \/ CancelCmd
    \/ Informer \/ ClusterPanics

\* The goroutines of the process run and time passes, as in ServeLifecycle;
\* the API server answers the first list and the informer delivers it.  Nobody
\* has to send a signal, and clients and handlers may stay for ever.
Fairness ==
    /\ WF_vars(Main)
    /\ WF_vars(Running(Server!ListenerRuns))
    /\ WF_vars(Running(Server!Serve))
    /\ SF_vars(Running(Server!GiveUp))
    /\ WF_vars(Running(Server!DeadlinePasses))
    /\ WF_vars(Informer /\ cluster' # cluster)
    /\ WF_vars(Informer /\ listedRev' # listedRev)
    /\ \A h \in Hardware : WF_vars(Informer /\ rev'[h] # rev[h])

Spec == Init /\ [][Next]_vars /\ Fairness

-----------------------------------------------------------------------------
(* Properties *)

TypeOK ==
    /\ phase \in Phases
    /\ opts \in Options
    /\ outcome \in Outcomes
    /\ {caught, signalled, cmdDone, sigDone} \subseteq BOOLEAN
    /\ cluster \in Backend!ClusterStates
    /\ newResult \in Backend!NewStates
    /\ pc \in Server!ServeStates
    /\ conn \in [Conns -> Server!ConnStates]

\* A request in progress has the backend it was promised: a cache that has
\* synced and, unless an embedding program stopped everything, is still fed,
\* also while the server drains after a signal: the backend is made with the
\* command's context, the server gets the one signals cancel (root.go:108-145).
CacheOutlivesServer ==
    opts.backend = "kubernetes" /\ (\E c \in Conns : conn[c] = "active") =>
        /\ Backend!HasSynced
        /\ cluster = "started" \/ opts.embedded

\* No number of signals, at whatever moment, cuts a request short before the
\* deadline of the shutdown has passed; only a server that can no longer
\* accept, or a cluster that fails, takes requests with it (root.go:142-145,
\* serve.go:38-40, kubernetes/backend.go:76-80).
SignalsNeverCut ==
    (\E c \in Conns : conn[c] = "cut") =>
        deadline \/ result = "listenError" \/ outcome = "panic"

\* Exit code 0 means that hegel was asked to stop and finished every request
\* it had begun; a failed start, a failed listener or a forced shutdown is
\* never reported as success (main.go:17-19, root.go:111-145).
ExitTruth ==
    outcome = "nil" =>
        /\ signalled \/ cmdDone
        /\ \A c \in Conns : conn[c] \notin {"new", "active", "idle", "cut"}

\* A signal ends the process, whether it comes during start, the wait for the
\* cache, service or shutdown, and whatever clients and handlers do.
SignalEndsProcess == signalled ~> phase = "over"

\* So does, for Run, the end of the context it was given.
CancelEndsRun == cmdDone ~> phase = "over"

\* Run gets to serving or reports why not, as long as the API server answers:
\* WaitForCacheSync waits for what the goroutine of NewBackend starts.
StartupEnds == <>(phase \in {"serving", "leaving", "over"})
=============================================================================
