---------------------------- MODULE MetadataAPI -----------------------------
(***************************************************************************)
(* Hegel's instance metadata API in front of the Kubernetes backend: a     *)
(* request comes in, the X-Forwarded-For middleware decides which address  *)
(* it is from, the EC2 or the hack frontend asks the backend for the       *)
(* instance behind that address and answers; /healthz asks the backend     *)
(* how it is.  Requests are handled concurrently, each by a goroutine of   *)
(* the HTTP server, while the cluster's store and the cache move on.       *)
(***************************************************************************)
EXTENDS KubernetesBackend

CONSTANTS
    Requests,   \* handler goroutines; one handles requests one after another
    BadAddr,    \* a RemoteAddr without a port, as the frontend tests send it
    Proxies,    \* addresses trusted to forward (--trusted-proxies)
    NoHeader,   \* no X-Forwarded-For header
    Arrivals,   \* the requests that may come in: [fe, peer, xff]
    ServiceAccountNamespace \* the namespace of the account hegel runs under

ASSUME ArrivalAssumption ==
    /\ Proxies \subseteq Addrs
    /\ Arrivals \subseteq [fe : {"ec2", "hack", "healthz"},
                           peer : Addrs \cup {BadAddr},
                           xff : Addrs \cup {NoHeader}]
    /\ BadAddr \notin Addrs
    /\ NoHeader \notin Addrs

VARIABLE
    req         \* what each handler is doing

vars == <<snaps, cluster, ctxDone, listedRev, fetchedRev, rev, newResult, req>>

-----------------------------------------------------------------------------

NoRequest == [pc |-> "idle", fe |-> "ec2", peer |-> BadAddr, xff |-> NoHeader, ip |-> BadAddr,
              res |-> NoResult, status |-> 0, body |-> Absent]

\* Mutant: a trusted peer need not have sent the header.
HeaderAlways(peer, xff) == IF peer \in Proxies THEN xff ELSE peer

\* RemoteAddr once the xff middleware has run: without trusted proxies it does
\* nothing, with them a trusted peer's header replaces the address.
Middleware(peer, xff) ==
    IF Proxies # {} /\ peer \in Proxies /\ xff # NoHeader THEN xff ELSE peer

\* Writing a status, as AbortWithError does: the first one written stays.
Abort(response, status) ==
    IF response.status = 0 THEN [response EXCEPT !.status = status] ELSE response

\* A request after its lookup, and one that has been answered.
Looked(request, result) == [request EXCEPT !.pc = "looked", !.res = result]
Done(response) == [response EXCEPT !.pc = "done"]

\* ctx.JSON or ctx.String: the body goes out under the status already written.
Reply(response, object) == [Abort(response, 200) EXCEPT !.body = object]

-----------------------------------------------------------------------------

APIInit == BackendInit /\ req = [r \in Requests |-> NoRequest]

\* A request arrives and passes the middleware.  Run serves only after
\* backend.New has handed out a backend.
Arrive(r) ==
    /\ newResult = "ready"
    /\ req[r].pc \in {"idle", "done"}
    /\ \E a \in Arrivals :
          req' = [req EXCEPT ![r] =
                    [pc |-> "arrived", fe |-> a.fe, peer |-> a.peer, xff |-> a.xff,
                     ip |-> Middleware(a.peer, a.xff), res |-> NoResult, status |-> 0,
                     body |-> Absent]]
    /\ UNCHANGED backendVars

\* getInstance: no lookup for an unusable remote address.
EC2Reject(r) ==
    /\ req[r].pc = "arrived" /\ req[r].fe = "ec2"
    /\ req[r].ip = BadAddr
    /\ req' = [req EXCEPT ![r] = Done(Abort(req[r], 400))]
    /\ UNCHANGED backendVars

EC2Lookup(r) ==
    /\ req[r].pc = "arrived" /\ req[r].fe = "ec2"
    /\ req[r].ip # BadAddr
    /\ ListAnswers
    /\ req' = [req EXCEPT ![r] = Looked(req[r], GetEC2Instance(req[r].ip))]
    /\ UNCHANGED backendVars

\* The data endpoint turns the result into a response.
EC2Respond(r) ==
    LET res == req[r].res
        response == CASE res.kind = "found" -> Reply(req[r], res.obj)
                      [] res.kind = "ErrInstanceNotFound" -> Abort(req[r], 404)
                      [] OTHER -> Abort(req[r], 500)
    IN
    /\ req[r].pc = "looked" /\ req[r].fe = "ec2"
    /\ req' = [req EXCEPT ![r] = Done(response)]
    /\ UNCHANGED backendVars

\* The /metadata handler aborts on an unusable remote address but goes on, and
\* looks up the empty address RemoteAddrIP returned with the error.
HackLookup(r) ==
    LET bad == req[r].ip = BadAddr
        response == IF bad THEN Abort(req[r], 400) ELSE req[r]
        ip == IF bad THEN EmptyAddr ELSE req[r].ip
    IN
    /\ req[r].pc = "arrived" /\ req[r].fe = "hack"
    /\ ListAnswers
    /\ req' = [req EXCEPT ![r] = Looked(response, GetHackInstance(ip))]
    /\ UNCHANGED backendVars

HackRespond(r) ==
    LET res == req[r].res
        response == IF res.kind = "found" THEN Reply(req[r], res.obj) ELSE Abort(req[r], 500)
    IN
    /\ req[r].pc = "looked" /\ req[r].fe = "hack"
    /\ req' = [req EXCEPT ![r] = Done(response)]
    /\ UNCHANGED backendVars

\* The handler of /healthz.
Health(r) ==
    /\ req[r].pc = "arrived" /\ req[r].fe = "healthz"
    /\ req' = [req EXCEPT ![r] = Done(Abort(req[r], IF IsHealthy THEN 200 ELSE 500))]
    /\ UNCHANGED backendVars

Handle(r) ==
    \/ EC2Reject(r) \/ EC2Lookup(r) \/ EC2Respond(r)
    \/ HackLookup(r) \/ HackRespond(r)
    \/ Health(r)

Next ==
    \/ BackendNext /\ UNCHANGED req
    \/ \E r \in Requests : Arrive(r) \/ Handle(r)

\* A handler's goroutine keeps running; nothing is assumed of the informer,
\* the API server or the client.
Spec == APIInit /\ [][Next]_vars /\ \A r \in Requests : WF_vars(Handle(r))

\* The same beside a backend that gets on.
FairSpec == Spec /\ BackendFairness

-----------------------------------------------------------------------------
(* Properties *)

ResultType ==
    [kind : {"none", "found", "errNotFound", "ErrInstanceNotFound", "multiple", "notStarted",
             "unrenderable"},
     hw : Hardware \cup {NoHardware},
     obj : Objects \cup {Absent}]

RequestType ==
    [pc : {"idle", "arrived", "looked", "done"},
     fe : {"ec2", "hack", "healthz"},
     peer : Addrs \cup {BadAddr},
     xff : Addrs \cup {NoHeader},
     ip : Addrs \cup {BadAddr},
     res : ResultType,
     status : {0, 200, 400, 404, 500},
     body : Objects \cup {Absent}]

TypeOK ==
    /\ snaps \in Seq([Hardware -> Objects \cup {Absent}])
    /\ Len(snaps) \in 1..MaxRev
    /\ cluster \in ClusterStates
    /\ ctxDone \in BOOLEAN
    /\ listedRev \in 0..Len(snaps)
    /\ fetchedRev \in 1..Len(snaps)
    /\ rev \in [Hardware -> 1..fetchedRev]
    /\ newResult \in NewStates
    /\ req \in [Requests -> RequestType]

\* The objects the backend may serve, said without the code's help.
Scope == {h \in Hardware : Namespace \in Namespaces => NamespaceOf[h] = Namespace}

Abstract(kind) ==
    CASE kind \in {"errNotFound", "ErrInstanceNotFound"} -> "nobody"
      [] kind = "multiple" -> "refused"
      [] kind = "unrenderable" -> "found"
      [] OTHER -> kind

AbstractLookup(q) ==
    IF q.pc = "idle" \/ q.fe = "healthz"
    THEN [ip |-> BadAddr, kind |-> "none", hw |-> NoHardware, obj |-> Absent]
    ELSE [ip |-> q.ip, kind |-> IF q.res.kind = "none" THEN "open" ELSE Abstract(q.res.kind),
          hw |-> q.res.hw, obj |-> q.res.obj]

Promise == INSTANCE InstanceLookup WITH
    known <- rev,
    lookup <- [r \in Requests |-> AbstractLookup(req[r])],
    Lookups <- Requests

\* Every lookup is answered as InstanceLookup promises, from one moment's
\* knowledge of the objects in scope: retrieveByIP, its index and the error
\* translations of GetEC2Instance and GetHackInstance implement it.
LookupPromise == Promise!Spec

\* Revisions a request may be answered from: none before the first list.
Window == {n \in 1..Len(snaps) : n >= listedRev}
OwnedAt(n, h, ip) == Promise!Owns(snaps[n][h], ip)
Answered(r, fe) == req[r].pc = "done" /\ req[r].fe = fe

\* Instance data goes only to the address that holds it: the request came from
\* that address, or a trusted proxy forwarded it for that address; the object
\* served was in the store, in the configured namespace, and carried the
\* address; and every other object was without it in some revision since the
\* first list.  In particular no response to an unusable remote address has
\* data, although the hack frontend looks one up (frontend/hack/hack.go:57).
ServedToOwner ==
    \A r \in Requests : req[r].body # Absent =>
        \E h \in Scope, ip \in Addrs :
            /\ ip = req[r].peer \/ (req[r].peer \in Proxies /\ ip = req[r].xff)
            /\ \E n \in Window : snaps[n][h] = req[r].body /\ OwnedAt(n, h, ip)
            /\ \A g \in Scope \ {h} : \E n \in Window : ~OwnedAt(n, g, ip)

\* A machine that has held its address in every revision since the first list
\* is never told 404 by the EC2 frontend, while other objects come and go and
\* the cache lags behind (kubernetes/backend.go:136-154, index.go:13-25).
NoFalseNotFound ==
    \A r \in Requests : Answered(r, "ec2") /\ req[r].status = 404 =>
        \A h \in Scope : \E n \in Window : ~OwnedAt(n, h, req[r].ip)

\* The EC2 frontend answers 500 only when two objects carry the address, each
\* in some revision since the first list; never because the cache is not up:
\* backend.New waits for the cache before anything is served
\* (backend/backend.go:50).
ServerErrorJustified ==
    \A r \in Requests : Answered(r, "ec2") /\ req[r].status = 500 =>
        \E g, h \in Scope :
            /\ g # h
            /\ \E n \in Window : OwnedAt(n, g, req[r].ip)
            /\ \E n \in Window : OwnedAt(n, h, req[r].ip)

\* /healthz says 200 only while the informer that feeds the cache is running:
\* a backend that is up but frozen is reported (kubernetes/backend.go:112-120).
HealthTruth ==
    [][\A r \in Requests :
          req[r].fe = "healthz" /\ req[r].status = 0 /\ req'[r].status = 200 =>
              cluster = "started"]_vars

\* Every request that arrives is answered, whatever the informer and the API
\* server do from then on: no lookup waits for the cache.
EveryRequestAnswered ==
    \A r \in Requests : req[r].pc = "arrived" ~> req[r].pc = "done"

-----------------------------------------------------------------------------
(* What the documentation says and the code does not do *)

\* README.md:22-23: if no instance data matching the source IP is found, the
\* answer is 404 Not Found; /metadata answers 500 (frontend/hack/hack.go:62-64).
NotFoundIs404 ==
    \A r \in Requests : req[r].pc = "done" /\ req[r].ip \in Addrs
                           /\ req[r].res.kind \in {"errNotFound", "ErrInstanceNotFound"} =>
        req[r].status = 404

\* The help of --kubernetes-namespace: it defaults to the service account's
\* namespace, so without it objects of other namespaces are not served; the
\* code then watches every namespace (kubernetes/backend.go:54-56).
DefaultsToServiceAccount ==
    \A r \in Requests : Namespace = Unset /\ req[r].res.kind = "found" =>
        NamespaceOf[req[r].res.hw] = ServiceAccountNamespace
=============================================================================
