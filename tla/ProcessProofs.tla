--------------------------- MODULE ProcessProofs ----------------------------
(***************************************************************************)
(* Proofs of the safety properties of Process, for any number of           *)
(* connections and any cluster.  The inductive invariant carries that of   *)
(* ServeLifecycleProofs through the life of the process: it holds of the   *)
(* server until the process is over.                                       *)
(***************************************************************************)
EXTENDS Process, Sequences, TLAPS

\* The server again, with what is proved about it.
Proved == INSTANCE ServeLifecycleProofs WITH ctxDone <- sigDone

Early == {"command", "backend", "router"}

\* The main goroutine: no server before StartServing, which takes the signals
\* over, and nobody leaves before Serve has returned.
MainInv ==
    /\ phase \in Phases /\ opts \in Options /\ cmdDone \in BOOLEAN
    /\ phase \in Early => pc = "select" /\ result = "none" /\ conn = [c \in Conns |-> "none"]
    /\ phase \in Early \cup {"leaving"} => ~caught
    /\ phase = "serving" => caught
    /\ phase = "leaving" => pc = "returned"
    /\ phase # "over" => outcome = "none"

\* Why a server stops.
CauseInv ==
    /\ phase = "serving" /\ sigDone => signalled \/ cmdDone
    /\ pc \notin {"select", "returned"} \/ result \in {"nil", "timeout", "closeError"} =>
          signalled \/ cmdDone

\* The informer, and what the cluster's goroutine does to it.
StoreInv ==
    /\ snaps \in Seq([Hardware -> Objects \cup {Absent}]) /\ Len(snaps) > 0
    /\ listedRev \in Nat /\ fetchedRev \in Nat /\ rev \in [Hardware -> Nat]
    /\ newResult = "ready" => Backend!HasSynced
    /\ cluster = "stopped" => cmdDone
    /\ cmdDone => opts.embedded
    /\ phase \notin {"command", "backend", "over"} /\ opts.backend = "kubernetes" => newResult = "ready"

ServerInv == phase # "over" => Proved!IInv

IInv ==
    /\ MainInv /\ CauseInv /\ StoreInv /\ ServerInv
    /\ CacheOutlivesServer /\ SignalsNeverCut /\ ExitTruth

LEMMA InitIInv == Init => IInv
<1> SUFFICES ASSUME Init PROVE IInv
  OBVIOUS
<1>1. Proved!IInv
  <2>1. Proved!Init
    BY DEF Init, Server!Init, Proved!Init
  <2> QED  BY <2>1, Proved!InitIInv
<1>2. MainInv /\ CauseInv
  BY DEF Init, Server!Init, MainInv, CauseInv, Phases, Early, Options
<1>3. StoreInv
  BY DEF Init, Backend!BackendInit, StoreInv
<1>4. CacheOutlivesServer /\ SignalsNeverCut /\ ExitTruth
  BY DEF Init, Server!Init, CacheOutlivesServer, SignalsNeverCut, ExitTruth
<1> QED  BY <1>1, <1>2, <1>3, <1>4 DEF IInv, ServerInv

\* The steps Running takes are steps of the server the proofs are about.
LEMMA RunningIsProved ==
  ASSUME Server!Listener \/ Server!Serve \/ Server!DeadlinePasses \/ Clients
  PROVE  Proved!Next
<1> USE DEF Server!serveVars, Server!serverVars, Proved!serveVars, Proved!serverVars,
            Server!Return, Proved!Return, Server!errChanCap, Proved!errChanCap,
            Server!Open, Proved!Open
<1>1. Server!Listener => Proved!Listener
  BY DEF Server!Listener, Server!ListenerRuns, Server!Listen, Server!ListenFails,
         Server!ListenerClosed, Server!Report, Proved!Listener, Proved!ListenerRuns,
         Proved!Listen, Proved!ListenFails, Proved!ListenerClosed, Proved!Report
<1>2. Server!Serve => Proved!Serve
  <2>1. Server!Poll => Proved!Poll
    BY DEF Server!Poll, Proved!Poll
  <2>2. Server!ForceClose => Proved!ForceClose
    BY DEF Server!ForceClose, Server!CloseConns, Proved!ForceClose, Proved!CloseConns
  <2>3. Server!SelectCtx \/ Server!SelectErr \/ Server!Shutdown \/ Server!AcceptLoopEnded
        \/ Server!PollAgain \/ Server!GiveUp => Proved!Serve
    BY DEF Server!SelectCtx, Server!SelectErr, Server!Shutdown, Server!AcceptLoopEnded,
           Server!PollAgain, Server!GiveUp, Proved!SelectCtx, Proved!SelectErr,
           Proved!Shutdown, Proved!AcceptLoopEnded, Proved!PollAgain, Proved!GiveUp,
           Proved!Serve
  <2> QED  BY <2>1, <2>2, <2>3 DEF Server!Serve, Proved!Serve
<1>3. Server!DeadlinePasses => Proved!DeadlinePasses
  BY DEF Server!DeadlinePasses, Proved!DeadlinePasses, Server!InShutdownCall, Proved!InShutdownCall
<1>4. ASSUME NEW c \in Conns
      PROVE  Server!Accept(c) \/ Server!Request(c) \/ Server!Respond(c) \/ Server!HangUp(c) =>
             Proved!Accept(c) \/ Proved!Request(c) \/ Proved!Respond(c) \/ Proved!HangUp(c)
  BY DEF Server!Accept, Server!Request, Server!Respond, Server!HangUp, Server!SetConn,
         Proved!Accept, Proved!Request, Proved!Respond, Proved!HangUp, Proved!SetConn
<1> QED  BY <1>1, <1>2, <1>3, <1>4 DEF Clients, Proved!Next

\* Until the process is over the properties follow from the rest.
LEMMA LiveSafe ==
  MainInv /\ StoreInv /\ ServerInv /\ phase # "over" =>
     CacheOutlivesServer /\ SignalsNeverCut /\ ExitTruth
<1> SUFFICES ASSUME MainInv, StoreInv, ServerInv, phase # "over"
             PROVE  CacheOutlivesServer /\ SignalsNeverCut /\ ExitTruth
  OBVIOUS
<1>1. CacheOutlivesServer
  <2> SUFFICES ASSUME opts.backend = "kubernetes", NEW c \in Conns, conn[c] = "active"
               PROVE  Backend!HasSynced /\ (cluster = "started" \/ opts.embedded)
    BY DEF CacheOutlivesServer
  <2>1. phase \notin Early
    BY DEF MainInv
  <2>2. Backend!HasSynced
    BY <2>1 DEF StoreInv, Early
  <2> QED  BY <2>2 DEF StoreInv, Backend!HasSynced
<1>2. SignalsNeverCut
  BY DEF ServerInv, Proved!IInv, Proved!ConnInv, SignalsNeverCut
<1>3. ExitTruth
  BY DEF MainInv, ExitTruth
<1> QED  BY <1>1, <1>2, <1>3

\* So a step that does not end the process need only keep the rest.
LEMMA LiveStep ==
  (MainInv /\ CauseInv /\ StoreInv /\ ServerInv /\ phase # "over")' => IInv'
<1>1. MainInv /\ CauseInv /\ StoreInv /\ ServerInv /\ phase # "over" => IInv
  BY LiveSafe DEF IInv
<1> QED  BY <1>1, PTL

\* What a step of the server may do to pc and result.
LEMMA ServeMoves ==
  ASSUME Server!Listener \/ Server!Serve \/ Server!DeadlinePasses \/ Clients
  PROVE  /\ UNCHANGED sigDone
         /\ \/ UNCHANGED <<pc, result>>
            \/ pc = "select" /\ sigDone /\ UNCHANGED result
            \/ pc = "select" /\ pc' = "returned" /\ result' = "listenError"
            \/ pc \notin {"select", "returned"}
<1> USE DEF Server!serveVars, Server!serverVars
<1>1. Server!Listener => UNCHANGED <<pc, result, sigDone>>
  BY DEF Server!Listener, Server!ListenerRuns, Server!Listen, Server!ListenFails,
         Server!ListenerClosed, Server!Report
<1>2. CASE Server!Serve
  BY <1>2 DEF Server!Serve, Server!SelectCtx, Server!SelectErr, Server!Return, Server!Shutdown,
         Server!AcceptLoopEnded, Server!Poll, Server!PollAgain, Server!GiveUp, Server!ForceClose
<1>3. Server!DeadlinePasses => UNCHANGED <<pc, result, sigDone>>
  BY DEF Server!DeadlinePasses
<1>4. Clients => UNCHANGED <<pc, result, sigDone>>
  BY DEF Clients, Server!Accept, Server!Request, Server!Respond, Server!HangUp, Server!SetConn
<1> QED  BY <1>1, <1>2, <1>3, <1>4

LEMMA RunningStep ==
  ASSUME IInv, Running(Server!Listener \/ Server!Serve \/ Server!DeadlinePasses \/ Clients)
  PROVE  IInv'
<1>1. /\ phase \in {"serving", "leaving"}
      /\ Server!Listener \/ Server!Serve \/ Server!DeadlinePasses \/ Clients
      /\ UNCHANGED <<runVars, opts, storeVars>>
  BY DEF Running
<1>2. ServerInv'
  BY <1>1, RunningIsProved, Proved!NextIInv DEF IInv, ServerInv
<1>3. \/ UNCHANGED <<pc, result>>
      \/ pc = "select" /\ sigDone /\ UNCHANGED result
      \/ pc = "select" /\ pc' = "returned" /\ result' = "listenError"
      \/ pc \notin {"select", "returned"}
  BY <1>1, ServeMoves
<1>4. MainInv' /\ CauseInv' /\ phase' # "over"
  BY <1>1, <1>3 DEF IInv, MainInv, CauseInv, Early, runVars
<1>5. StoreInv'
  BY <1>1 DEF IInv, StoreInv, storeVars, runVars, Backend!HasSynced
<1> QED  BY <1>2, <1>4, <1>5, LiveStep

\* The end of the process, from whichever step.
LEMMA EndStep ==
  ASSUME IInv, phase # "over", NEW how \in Outcomes, End(how),
         signalled' = signalled \/ signalled' = TRUE,
         UNCHANGED <<snaps, cluster, listedRev, fetchedRev, rev>>, newResult' \in {newResult, "failed"},
         how = "nil" => /\ signalled \/ cmdDone
                        /\ \A c \in Conns : conn[c] \notin {"new", "active", "idle", "cut"},
         how # "panic" => \/ \A c \in Conns : conn[c] # "active"
                          \/ deadline \/ result = "listenError"
  PROVE  IInv'
<1>1. /\ phase' = "over" /\ outcome' = how
      /\ conn' = conn \/ conn' = Server!CloseConns
      /\ UNCHANGED <<opts, caught, cmdDone, sigDone, pc, result, deadline>>
  BY DEF End
<1>2. \A c \in Conns : /\ conn'[c] = "active" => conn[c] = "active"
                       /\ conn'[c] = "cut" => conn[c] \in {"active", "cut"}
                       /\ conn'[c] \in {"new", "idle"} => conn'[c] = conn[c]
  BY <1>1 DEF Server!CloseConns
<1>3. MainInv' /\ CauseInv' /\ StoreInv' /\ ServerInv'
  BY <1>1 DEF IInv, MainInv, CauseInv, StoreInv, ServerInv, Phases, Early,
              Backend!HasSynced
<1>4. CacheOutlivesServer'
  BY <1>1, <1>2 DEF IInv, CacheOutlivesServer, Backend!HasSynced
<1>5. SignalsNeverCut'
  BY <1>1, <1>2 DEF IInv, MainInv, SignalsNeverCut
<1>6. ExitTruth'
  BY <1>1, <1>2 DEF IInv, ExitTruth
<1> QED  BY <1>3, <1>4, <1>5, <1>6 DEF IInv

\* Before Serve there is no connection to lose.
LEMMA EarlyEnd ==
  ASSUME IInv, phase \in Early, NEW how \in {"error", "panic", "killed"}, End(how),
         signalled' = signalled \/ signalled' = TRUE,
         UNCHANGED <<snaps, cluster, listedRev, fetchedRev, rev>>, newResult' \in {newResult, "failed"}
  PROVE  IInv'
<1>1. \A c \in Conns : conn[c] # "active"
  BY DEF IInv, MainInv
<1>2. phase # "over" /\ how \in Outcomes /\ how # "nil"
  BY DEF Early, Outcomes
<1> QED  BY <1>1, <1>2, EndStep

\* From Serve's return on, what became of the connections is decided.
LEMMA AfterServe ==
  ASSUME IInv, phase = "leaving"
  PROVE  /\ result = "nil" => /\ signalled \/ cmdDone
                              /\ \A c \in Conns : conn[c] \notin {"new", "active", "idle", "cut"}
         /\ \/ \A c \in Conns : conn[c] # "active"
            \/ deadline \/ result = "listenError"
<1>1. pc = "returned" /\ Proved!IInv /\ CauseInv
  BY DEF IInv, MainInv, ServerInv
<1> QED
  BY <1>1 DEF CauseInv, Proved!IInv, Proved!TypeOK, Proved!Results, Proved!ResultInv,
              Proved!ConnInv, Proved!Open

\* Nothing but its context changes for the server.
LEMMA ServerStays ==
  ASSUME IInv, phase # "over", UNCHANGED serverVars, sigDone' \in BOOLEAN
  PROVE  ServerInv'
<1>1. Proved!IInv
  BY DEF IInv, ServerInv
<1>2. Proved!IInv'
  BY <1>1 DEF serverVars, Proved!IInv, Proved!TypeOK, Proved!ResultInv, Proved!ListenerInv,
              Proved!PastListener, Proved!ReportInv, Proved!ConnInv
<1> QED  BY <1>2 DEF ServerInv

\* On to the next phase before Serve.
LEMMA GotoStep ==
  ASSUME IInv, phase \in Early, NEW next \in Early, Goto(next), StoreInv'
  PROVE  IInv'
<1>1. phase' = next /\ UNCHANGED <<opts, outcome, caught, signalled, cmdDone, sigDone, serverVars>>
  BY DEF Goto
<1>2. sigDone \in BOOLEAN /\ phase # "over" /\ phase' # "over"
  BY <1>1 DEF IInv, ServerInv, Proved!IInv, Proved!TypeOK, Early
<1>3. ServerInv'
  BY <1>1, <1>2, ServerStays
<1>4. MainInv' /\ CauseInv'
  BY <1>1 DEF IInv, MainInv, CauseInv, Early, Phases, serverVars
<1> QED  BY <1>2, <1>3, <1>4, LiveStep

LEMMA CommandStep == IInv /\ Command => IInv'
<1> SUFFICES ASSUME IInv, Command PROVE IInv'
  OBVIOUS
<1>1. phase \in Early /\ phase = "command" /\ UNCHANGED storeVars
  BY DEF Command, Early
<1>2. CASE Goto("backend")
  <2>1. StoreInv'
    BY <1>1, <1>2 DEF IInv, StoreInv, storeVars, Goto, Backend!HasSynced
  <2> QED  BY <1>1, <1>2, <2>1, GotoStep DEF Early
<1>3. CASE End("error") /\ UNCHANGED signalled
  BY <1>1, <1>3, EarlyEnd DEF storeVars
<1> QED  BY <1>2, <1>3 DEF Command

LEMMA NewOtherStep == IInv /\ NewOther => IInv'
<1> SUFFICES ASSUME IInv, NewOther PROVE IInv'
  OBVIOUS
<1>1. /\ phase \in Early /\ phase = "backend" /\ UNCHANGED storeVars
      /\ opts.backend # "kubernetes"
  BY DEF NewOther, Early, toBackendOptions
<1>2. CASE Goto("router")
  <2>1. StoreInv'
    BY <1>1, <1>2 DEF IInv, StoreInv, storeVars, Goto, Backend!HasSynced
  <2> QED  BY <1>1, <1>2, <2>1, GotoStep DEF Early
<1>3. CASE End("error") /\ UNCHANGED signalled
  BY <1>1, <1>3, EarlyEnd DEF storeVars
<1> QED  BY <1>2, <1>3 DEF NewOther

\* What backend.New leaves behind.
LEMMA NewKubernetesStep == IInv /\ NewKubernetes => IInv'
<1> SUFFICES ASSUME IInv, NewKubernetes PROVE IInv'
  OBVIOUS
<1>1. /\ phase \in Early /\ phase = "backend"
      /\ UNCHANGED <<snaps, cmdDone, listedRev, fetchedRev, rev>>
      /\ Backend!NewBackend \/ Backend!New \/ Backend!NewSyncFails
  BY DEF NewKubernetes, Early, Backend!NewBackend, Backend!New, Backend!NewSyncFails,
         Backend!informerVars
<1>2. /\ newResult' = "ready" => Backend!HasSynced'
      /\ cluster' = "stopped" => cluster = "stopped"
  BY <1>1 DEF Backend!NewBackend, Backend!New, Backend!NewSyncFails, Backend!HasSynced
<1>3. CASE newResult' = "ready"
  <2>1. Goto("router")
    BY <1>3 DEF NewKubernetes
  <2>2. StoreInv'
    BY <1>1, <1>2, <1>3, <2>1 DEF IInv, StoreInv, Goto
  <2> QED  BY <1>1, <2>1, <2>2, GotoStep DEF Early
<1>4. CASE newResult' = "failed"
  <2>1. End("error") /\ UNCHANGED signalled
    BY <1>4 DEF NewKubernetes
  <2>2. cluster' = cluster
    BY <1>1, <1>4 DEF Backend!NewBackend, Backend!New, Backend!NewSyncFails
  <2> QED  BY <1>1, <1>4, <2>1, <2>2, EarlyEnd
<1>5. CASE newResult' \notin {"ready", "failed"}
  <2>1. Goto("backend")
    BY <1>5 DEF NewKubernetes
  <2>2. StoreInv'
    BY <1>1, <1>2, <1>5, <2>1 DEF IInv, StoreInv, Goto
  <2> QED  BY <1>1, <2>1, <2>2, GotoStep DEF Early
<1> QED  BY <1>3, <1>4, <1>5

LEMMA StartServingStep == IInv /\ StartServing => IInv'
<1> SUFFICES ASSUME IInv, StartServing PROVE IInv'
  OBVIOUS
<1>1. phase \in Early /\ phase = "router" /\ UNCHANGED <<signalled, storeVars>>
  BY DEF StartServing, Early
<1>2. CASE opts.proxiesOK
  <2>1. /\ phase' = "serving" /\ caught' = TRUE /\ sigDone' = cmdDone
        /\ UNCHANGED <<opts, outcome, cmdDone, serverVars>>
    BY <1>2 DEF StartServing
  <2>2. MainInv' /\ CauseInv' /\ StoreInv' /\ phase' # "over"
    BY <1>1, <2>1 DEF IInv, MainInv, CauseInv, StoreInv, Early, Phases, storeVars, serverVars,
                      Backend!HasSynced
  <2>3. ServerInv'
    BY <1>1, <2>1, ServerStays DEF IInv, MainInv
  <2> QED  BY <2>2, <2>3, LiveStep
<1>3. CASE ~opts.proxiesOK
  BY <1>1, <1>3, EarlyEnd DEF StartServing, storeVars
<1> QED  BY <1>2, <1>3

LEMMA LeaveStep == IInv /\ Leave => IInv'
<1> SUFFICES ASSUME IInv, Leave PROVE IInv'
  OBVIOUS
<1>1. MainInv' /\ CauseInv' /\ StoreInv' /\ phase' # "over"
  BY DEF Leave, IInv, MainInv, CauseInv, StoreInv, Early, Phases, storeVars, serverVars,
         Backend!HasSynced
<1>2. ServerInv'
  BY ServerStays DEF Leave
<1> QED  BY <1>1, <1>2, LiveStep

LEMMA ExitStep == IInv /\ Exit => IInv'
<1> SUFFICES ASSUME IInv, Exit PROVE IInv'
  OBVIOUS
<1> DEFINE how == IF result = "nil" THEN "nil" ELSE "error"
<1>1. phase = "leaving" /\ End(how) /\ UNCHANGED <<signalled, storeVars>>
  BY DEF Exit
<1>2. how \in Outcomes /\ (how = "nil" => result = "nil")
  BY DEF Outcomes
<1> HIDE DEF how
<1> QED  BY <1>1, <1>2, AfterServe, EndStep DEF storeVars

\* A signal is either caught or comes when there is nothing left to cut.
LEMMA SignalStep == IInv /\ Signal => IInv'
<1> SUFFICES ASSUME IInv, Signal PROVE IInv'
  OBVIOUS
<1>1. phase # "over" /\ signalled' = TRUE /\ UNCHANGED storeVars
  BY DEF Signal
<1>2. CASE caught
  <2>1. Cancelled(cmdDone)
    BY <1>2 DEF Signal
  <2>2. MainInv' /\ CauseInv' /\ StoreInv' /\ phase' # "over"
    BY <1>1, <2>1 DEF Cancelled, IInv, MainInv, CauseInv, StoreInv, Early, storeVars, serverVars,
                      Backend!HasSynced
  <2>3. ServerInv'
    BY <1>1, <2>1, ServerStays DEF Cancelled
  <2> QED  BY <2>2, <2>3, LiveStep
<1>3. CASE ~caught
  <2>1. End("killed")
    BY <1>3 DEF Signal
  <2>2. phase \in Early \/ phase = "leaving" \/ phase = "serving"
    BY <1>1 DEF IInv, MainInv, Phases, Early
  <2>3. CASE phase \in Early
    BY <1>1, <2>1, <2>3, EarlyEnd DEF storeVars
  <2>4. CASE phase = "leaving"
    <3>1. "killed" \in Outcomes
      BY DEF Outcomes
    <3> QED  BY <1>1, <2>1, <2>4, <3>1, AfterServe, EndStep DEF storeVars
  <2>5. CASE phase = "serving"
    BY <1>3, <2>5 DEF IInv, MainInv
  <2> QED  BY <2>2, <2>3, <2>4, <2>5
<1> QED  BY <1>2, <1>3

LEMMA CancelCmdStep == IInv /\ CancelCmd => IInv'
<1> SUFFICES ASSUME IInv, CancelCmd PROVE IInv'
  OBVIOUS
<1>1. /\ opts.embedded /\ phase # "over" /\ phase' = phase /\ cmdDone' = TRUE
      /\ UNCHANGED <<opts, outcome, caught, signalled, storeVars, serverVars>>
      /\ sigDone' = sigDone \/ sigDone' = TRUE
  BY DEF CancelCmd, Cancelled
<1>2. sigDone' \in BOOLEAN
  BY <1>1 DEF IInv, ServerInv, Proved!IInv, Proved!TypeOK
<1>3. ServerInv'
  BY <1>1, <1>2, ServerStays
<1>4. MainInv' /\ CauseInv' /\ StoreInv' /\ phase' # "over"
  BY <1>1 DEF IInv, MainInv, CauseInv, StoreInv, Early, storeVars, serverVars, Backend!HasSynced
<1> QED  BY <1>3, <1>4, LiveStep

\* The informer takes nothing away: a cache that has synced stays so.
LEMMA InformerStep == IInv /\ Informer => IInv'
<1> SUFFICES ASSUME IInv, Informer PROVE IInv'
  OBVIOUS
<1>1. /\ phase # "over" /\ UNCHANGED <<phase, outcome, caught, signalled, sigDone, opts, serverVars>>
      /\ UNCHANGED <<cmdDone, newResult>>
  BY DEF Informer, Backend!Write, Backend!FirstList, Backend!Fetch, Backend!Pop,
         Backend!ClusterStart, Backend!ClusterStop
<1> USE DEF Backend!informerVars
<1>2. /\ snaps' \in Seq([Hardware -> Objects \cup {Absent}]) /\ Len(snaps') > 0
      /\ listedRev' \in Nat /\ fetchedRev' \in Nat /\ rev' \in [Hardware -> Nat]
      /\ cluster' = "stopped" => cmdDone
      /\ Backend!HasSynced => Backend!HasSynced'
  <2>1. /\ snaps \in Seq([Hardware -> Objects \cup {Absent}]) /\ Len(snaps) > 0 /\ Len(snaps) \in Nat
        /\ listedRev \in Nat /\ fetchedRev \in Nat /\ rev \in [Hardware -> Nat]
        /\ cluster = "stopped" => cmdDone
    BY DEF IInv, StoreInv
  <2>2. ASSUME NEW h \in Hardware, NEW object \in Objects \cup {Absent}, Backend!Write(h, object)
        PROVE  /\ snaps' \in Seq([Hardware -> Objects \cup {Absent}]) /\ Len(snaps') > 0
               /\ UNCHANGED <<cluster, listedRev, fetchedRev, rev>>
    <3>1. snaps[Len(snaps)] \in [Hardware -> Objects \cup {Absent}]
      BY <2>1
    <3>2. [snaps[Len(snaps)] EXCEPT ![h] = object] \in [Hardware -> Objects \cup {Absent}]
      BY <3>1
    <3> QED  BY <2>1, <2>2, <3>2 DEF Backend!Write
  <2>3. CASE Backend!FirstList
    BY <2>1, <2>3 DEF Backend!FirstList, Backend!HasSynced
  <2>4. CASE Backend!Fetch
    BY <2>1, <2>4 DEF Backend!Fetch, Backend!HasSynced
  <2>5. ASSUME NEW h \in Hardware, Backend!Pop(h)
        PROVE  /\ UNCHANGED <<snaps, cluster, listedRev, fetchedRev>>
               /\ rev' \in [Hardware -> Nat] /\ \A g \in Hardware : rev'[g] >= rev[g]
    BY <2>1, <2>5 DEF Backend!Pop
  <2>6. CASE Backend!ClusterStart \/ Backend!ClusterStop
    BY <2>1, <2>6 DEF Backend!ClusterStart, Backend!ClusterStop, Backend!HasSynced
  <2> QED  BY <2>1, <2>2, <2>3, <2>4, <2>5, <2>6 DEF Informer, Backend!HasSynced
<1>3. StoreInv'
  BY <1>1, <1>2 DEF IInv, StoreInv
<1>4. MainInv' /\ CauseInv' /\ phase' # "over"
  BY <1>1 DEF IInv, MainInv, CauseInv, Early, serverVars
<1>5. ServerInv'
  BY <1>1, ServerStays DEF IInv, ServerInv, Proved!IInv, Proved!TypeOK
<1> QED  BY <1>3, <1>4, <1>5, LiveStep

LEMMA ClusterPanicsStep == IInv /\ ClusterPanics => IInv'
<1> SUFFICES ASSUME IInv, ClusterPanics PROVE IInv'
  OBVIOUS
<1> QED  BY EndStep DEF ClusterPanics, Outcomes, storeVars

LEMMA NextIInv == IInv /\ [Next]_vars => IInv'
<1> SUFFICES ASSUME IInv, [Next]_vars PROVE IInv'
  OBVIOUS
<1>1. CASE UNCHANGED vars
  BY <1>1 DEF IInv, vars, runVars, storeVars, serverVars, MainInv, CauseInv, StoreInv, ServerInv,
              CacheOutlivesServer, SignalsNeverCut, ExitTruth, Backend!HasSynced, Proved!IInv,
              Proved!TypeOK, Proved!ResultInv, Proved!ListenerInv, Proved!PastListener,
              Proved!ReportInv, Proved!ConnInv
<1>2. CASE Main
  BY <1>2, CommandStep, NewOtherStep, NewKubernetesStep, StartServingStep, LeaveStep, ExitStep
     DEF Main
<1>3. CASE Running(Server!Listener \/ Server!Serve \/ Server!DeadlinePasses \/ Clients)
  BY <1>3, RunningStep
<1>4. CASE Signal \/ CancelCmd \/ Informer \/ ClusterPanics
  BY <1>4, SignalStep, CancelCmdStep, InformerStep, ClusterPanicsStep
<1> QED  BY <1>1, <1>2, <1>3, <1>4 DEF Next

LEMMA Inductive == Spec => []IInv
  BY InitIInv, NextIInv, PTL DEF Spec

\* Whatever the two components and the main goroutine do between them, their
\* variables keep their types: of pc and conn that is the server's invariant
\* until the process is over.
LEMMA InitTypeOK == Init => TypeOK
  BY DEF Init, Server!Init, Backend!BackendInit, TypeOK, Phases, Outcomes, Options,
         Backend!ClusterStates, Backend!NewStates, Server!ServeStates, Server!ConnStates

LEMMA TypeStep == IInv /\ TypeOK /\ [Next]_vars /\ IInv' => TypeOK'
<1> SUFFICES ASSUME IInv, TypeOK, [Next]_vars, IInv' PROVE TypeOK'
  OBVIOUS
<1> USE DEF TypeOK
\* What a step makes of each component's variables.
<1> DEFINE StoreTypes == cluster \in Backend!ClusterStates /\ newResult \in Backend!NewStates
           ServerTypes == pc \in Server!ServeStates /\ conn \in [Conns -> Server!ConnStates]
           RunTypes == /\ phase \in Phases /\ opts \in Options /\ outcome \in Outcomes
                       /\ {caught, signalled, cmdDone, sigDone} \subseteq BOOLEAN
<1>1. Server!CloseConns \in [Conns -> Server!ConnStates]
  BY DEF Server!CloseConns, Server!ConnStates
<1>2. ASSUME NEW how \in Outcomes, End(how), signalled' \in BOOLEAN
      PROVE  RunTypes' /\ ServerTypes'
  BY <1>1, <1>2 DEF End, Phases
<1>3. ASSUME NEW next \in Phases, Goto(next)
      PROVE  RunTypes' /\ ServerTypes'
  BY <1>3 DEF Goto, serverVars
<1>4. ASSUME NEW cmd \in BOOLEAN, Cancelled(cmd), signalled' \in BOOLEAN
      PROVE  RunTypes' /\ ServerTypes'
  BY <1>4 DEF Cancelled, serverVars
<1>5. UNCHANGED storeVars => StoreTypes'
  BY DEF storeVars
<1>6. /\ {"nil", "error", "panic", "killed"} \subseteq Outcomes
      /\ {"backend", "router", "serving", "leaving"} \subseteq Phases
  BY DEF Outcomes, Phases
<1>7. CASE Command \/ NewOther
  BY <1>2, <1>3, <1>5, <1>6, <1>7 DEF Command, NewOther
<1>8. CASE NewKubernetes
  <2>1. StoreTypes'
    BY <1>8 DEF NewKubernetes, Backend!NewBackend, Backend!New, Backend!NewSyncFails,
                Backend!ClusterStates, Backend!NewStates
  <2>2. RunTypes' /\ ServerTypes'
    <3>1. Goto("router") \/ Goto("backend") \/ (End("error") /\ UNCHANGED signalled)
      BY <1>8 DEF NewKubernetes
    <3> QED  BY <1>2, <1>3, <1>6, <3>1
  <2> QED  BY <2>1, <2>2
<1>9. CASE StartServing \/ Leave \/ Exit
  BY <1>2, <1>5, <1>6, <1>9 DEF StartServing, Leave, Exit, serverVars
<1>10. CASE Running(Server!Listener \/ Server!Serve \/ Server!DeadlinePasses \/ Clients)
  <2>1. phase' # "over" /\ UNCHANGED <<runVars, opts, storeVars>>
    BY <1>10 DEF Running, runVars
  <2>2. Proved!IInv'
    BY <2>1 DEF IInv, ServerInv
  <2>3. ServerTypes'
    BY <2>2 DEF Proved!IInv, Proved!TypeOK, Proved!ServeStates, Proved!ConnStates,
                Server!ServeStates, Server!ConnStates
  <2> QED  BY <1>5, <2>1, <2>3 DEF runVars
<1>11. CASE Signal \/ CancelCmd
  BY <1>2, <1>4, <1>5, <1>6, <1>11 DEF Signal, CancelCmd, serverVars
<1>12. CASE Informer
  BY <1>12 DEF Informer, serverVars, Backend!Write, Backend!FirstList, Backend!Fetch, Backend!Pop,
               Backend!ClusterStart, Backend!ClusterStop, Backend!ClusterStates
<1>13. CASE ClusterPanics
  BY <1>2, <1>5, <1>6, <1>13 DEF ClusterPanics
<1>14. CASE UNCHANGED vars
  BY <1>14 DEF vars, runVars, storeVars, serverVars
<1> QED  BY <1>7, <1>8, <1>9, <1>10, <1>11, <1>12, <1>13, <1>14 DEF Next, Main

\* The types of every variable of the process, its outcome and its exit code
\* among them, in every state (root.go:105-145, main.go:13-20).
THEOREM TypeCorrect == Spec => []TypeOK
  BY InitTypeOK, TypeStep, Inductive, PTL DEF Spec

\* A request in progress has a cache that has synced and, unless hegel is
\* embedded, is still fed, also while the server drains (root.go:108-145).
THEOREM RequestsKeepTheirCache == Spec => []CacheOutlivesServer
<1>1. IInv => CacheOutlivesServer
  BY DEF IInv
<1> QED  BY <1>1, Inductive, PTL

\* Signals never cut a request short before the deadline (root.go:142-145,
\* serve.go:38-40).
THEOREM SignalsAreGentle == Spec => []SignalsNeverCut
<1>1. IInv => SignalsNeverCut
  BY DEF IInv
<1> QED  BY <1>1, Inductive, PTL

\* Exit code 0 means asked to stop, and done (main.go:17-19, root.go:111-145).
THEOREM ExitCodeIsTrue == Spec => []ExitTruth
<1>1. IInv => ExitTruth
  BY DEF IInv
<1> QED  BY <1>1, Inductive, PTL
=============================================================================
