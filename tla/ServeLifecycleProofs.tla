------------------------ MODULE ServeLifecycleProofs ------------------------
(***************************************************************************)
(* Proofs of the safety properties of ServeLifecycle, for any number of    *)
(* connections.  The inductive invariant says what Shutdown has achieved   *)
(* by the time Serve gets to each of its steps: the listener is gone, so   *)
(* nothing opens a connection behind the back of the last poll.            *)
(***************************************************************************)
EXTENDS ServeLifecycle, TLAPS

\* Serve took the path of its done context and is on its way out of Shutdown.
PastListener == pc \in {"polling", "waiting", "force"} \/ result \in {"nil", "timeout", "closeError"}

\* A result is set by the step that decides it.
ResultInv ==
    /\ pc \notin {"force", "returned"} => result = "none"
    /\ pc = "force" => result \in {"timeout", "closeError"}
    /\ pc = "returned" => result # "none"

\* The listener is closed before the connections are, and stays closed.
ListenerInv ==
    /\ pc = "stopping" \/ PastListener => inShutdown
    /\ PastListener => lpc # "serving"

\* The listener goroutine sends once.
ReportInv == lpc # "done" => errChan = 0

\* What each result says of the connections.
ConnInv ==
    /\ result = "nil" => \A c \in Conns : conn[c] \notin Open
    /\ result = "closeError" => \A c \in Conns : conn[c] \notin Open
    /\ result = "timeout" => deadline
    /\ result = "timeout" /\ pc = "returned" => \A c \in Conns : conn[c] \notin Open
    /\ (\E c \in Conns : conn[c] = "cut") => result = "timeout"

IInv == TypeOK /\ ResultInv /\ ListenerInv /\ ReportInv /\ ConnInv

USE DEF ServeStates, Results, ListenerStates, ConnStates, Open, errChanCap

LEMMA InitIInv == Init => IInv
  BY DEF Init, IInv, TypeOK, ResultInv, ListenerInv, PastListener, ReportInv, ConnInv

\* What Close leaves behind.
LEMMA CloseConnsClosesAll ==
  ASSUME conn \in [Conns -> ConnStates]
  PROVE  /\ CloseConns \in [Conns -> ConnStates]
         /\ \A c \in Conns : CloseConns[c] \notin Open
         /\ \A c \in Conns : CloseConns[c] = "cut" => conn[c] \in {"active", "cut"}
  BY DEF CloseConns

LEMMA NextIInv == IInv /\ [Next]_vars => IInv'
<1> SUFFICES ASSUME IInv, [Next]_vars PROVE IInv'
  OBVIOUS
<1> USE DEF IInv, TypeOK, ResultInv, ListenerInv, PastListener, ReportInv, ConnInv,
            serveVars, serverVars
<1>1. CASE Listen
  BY <1>1 DEF Listen
<1>2. CASE ListenFails
  BY <1>2 DEF ListenFails
<1>3. CASE ListenerClosed
  BY <1>3 DEF ListenerClosed
<1>4. CASE Report
  BY <1>4 DEF Report
<1>5. CASE SelectCtx
  BY <1>5 DEF SelectCtx
<1>6. CASE SelectErr
  BY <1>6 DEF SelectErr, Return
<1>7. CASE Shutdown
  BY <1>7 DEF Shutdown
<1>8. CASE AcceptLoopEnded
  BY <1>8 DEF AcceptLoopEnded
<1>9. CASE Poll
  <2>1. PICK old \in SUBSET {c \in Conns : conn[c] = "new"} :
          conn' = [c \in Conns |-> IF conn[c] = "idle" \/ c \in old THEN "closed" ELSE conn[c]]
    BY <1>9 DEF Poll
  <2>2. /\ conn' \in [Conns -> ConnStates]
        /\ \A c \in Conns : conn'[c] # "cut"
    BY <2>1, <1>9 DEF Poll
  <2>3. \/ pc' = "waiting" /\ UNCHANGED result
        \/ pc' = "force" /\ result' = "closeError" /\ \A c \in Conns : conn'[c] \notin Open
        \/ pc' = "returned" /\ result' = "nil" /\ \A c \in Conns : conn'[c] \notin Open
    BY <1>9 DEF Poll, Return
  <2> QED
    BY <2>2, <2>3, <1>9 DEF Poll
<1>10. CASE PollAgain
  BY <1>10 DEF PollAgain
<1>11. CASE GiveUp
  BY <1>11 DEF GiveUp
<1>12. CASE ForceClose
  <2>1. /\ conn' \in [Conns -> ConnStates]
        /\ \A c \in Conns : conn'[c] \notin Open
        /\ \A c \in Conns : conn'[c] = "cut" => conn[c] \in {"active", "cut"}
    BY <1>12, CloseConnsClosesAll DEF ForceClose
  <2> QED
    BY <2>1, <1>12 DEF ForceClose
<1>13. CASE CancelCtx
  BY <1>13 DEF CancelCtx
<1>14. CASE DeadlinePasses
  BY <1>14 DEF DeadlinePasses
<1>15. ASSUME NEW c \in Conns, Accept(c) PROVE IInv'
  BY <1>15 DEF Accept, SetConn
<1>16. ASSUME NEW c \in Conns, Request(c) PROVE IInv'
  BY <1>16 DEF Request, SetConn
<1>17. ASSUME NEW c \in Conns, Respond(c) PROVE IInv'
  BY <1>17 DEF Respond, SetConn
<1>18. ASSUME NEW c \in Conns, HangUp(c) PROVE IInv'
  BY <1>18 DEF HangUp, SetConn
<1>19. CASE UNCHANGED vars
  BY <1>19 DEF vars
<1> QED
  BY <1>1, <1>2, <1>3, <1>4, <1>5, <1>6, <1>7, <1>8, <1>9, <1>10, <1>11, <1>12, <1>13, <1>14,
     <1>15, <1>16, <1>17, <1>18, <1>19 DEF Next, Listener, ListenerRuns, Serve

\* Each step of Serve has achieved what the next relies on: the listener is gone
\* before the first poll, and a result says what is true of the connections when
\* it is decided, for any set of connections (serve.go:14-57).
THEOREM Inductive == Spec => []IInv
  BY InitIInv, NextIInv, PTL DEF Spec

\* The variables of Serve stay in their types, for any set of connections; in
\* particular no second error is ever put in errChan (serve.go:27-32).
THEOREM TypeCorrect == Spec => []TypeOK
<1>1. IInv => TypeOK
  BY DEF IInv
<1> QED
  BY <1>1, Inductive, PTL

\* A nil result means the graceful shutdown was complete (serve.go:57).
THEOREM GracefulShutdown == Spec => []NilMeansDrained
<1>1. IInv => NilMeansDrained
  BY DEF IInv, ConnInv, ListenerInv, PastListener, NilMeansDrained
<1> QED
  BY <1>1, Inductive, PTL

\* An error of the shutdown means every connection was closed (serve.go:47-55).
THEOREM ForcedShutdown == Spec => []ForcedShutdownCloses
<1>1. IInv => ForcedShutdownCloses
  BY DEF IInv, ConnInv, ForcedShutdownCloses
<1> QED
  BY <1>1, Inductive, PTL

\* No request is cut off before the deadline (serve.go:42-48).
THEOREM RequestsGetTheirTime == Spec => []NoCutBeforeDeadline
<1>1. IInv => NoCutBeforeDeadline
  BY DEF IInv, ConnInv, NoCutBeforeDeadline
<1> QED
  BY <1>1, Inductive, PTL
=============================================================================
