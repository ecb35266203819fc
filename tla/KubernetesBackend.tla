------------------------- MODULE KubernetesBackend --------------------------
(***************************************************************************)
(* The Kubernetes backend (internal/backend/kubernetes) and its            *)
(* construction by backend.New (internal/backend/backend.go).              *)
(*                                                                         *)
(* The backend reads Hardware objects from a controller-runtime cache fed  *)
(* by an informer.  The cluster's store and the informer are external;     *)
(* they are modelled as the code uses them: lists are answered from the    *)
(* cache, which trails the store, each object on its own.                  *)
(***************************************************************************)
EXTENDS Naturals, Sequences, Functions

CONSTANTS
    Hardware,     \* names of Hardware objects, in any namespace
    Namespaces,   \* the cluster's namespaces
    NamespaceOf,  \* the namespace each Hardware lives in
    Namespace,    \* Config.Namespace: one of Namespaces, or Unset
    Unset,        \* the empty string given as a namespace
    Addrs,        \* non-empty addresses
    EmptyAddr,    \* the empty string as an address
    NoDHCP,       \* an interface without DHCP or without a DHCP IP
    Objects,      \* the specs a Hardware object may have: [ifaces, renderable]
    Absent,       \* no such object
    NoHardware,   \* the hardware of a result that has none
    MaxRev        \* bound: revisions the store may go through

ASSUME NamespaceAssumption ==
    /\ NamespaceOf \in [Hardware -> Namespaces]
    /\ Namespace \in Namespaces \cup {Unset}
    /\ Unset \notin Namespaces

ASSUME ObjectAssumption ==
    /\ Objects \subseteq [ifaces : Seq(Addrs \cup {EmptyAddr, NoDHCP}), renderable : BOOLEAN]
    /\ Absent \notin Objects
    /\ EmptyAddr \notin Addrs
    /\ NoDHCP \notin Addrs
    /\ NoHardware \notin Hardware

ASSUME BoundAssumption == MaxRev \in Nat \ {0}

VARIABLES
    snaps,       \* the revisions of the store, oldest first
    cluster,     \* the cluster.Cluster: see ClusterStates
    ctxDone,     \* the context given to New has been cancelled
    listedRev,   \* the revision the first list was answered at, 0 before it
    fetchedRev,  \* the newest revision the reflector has read
    rev,         \* for each hardware, the revision its cached copy is of
    newResult    \* backend.New: see NewStates

informerVars == <<listedRev, fetchedRev, rev>>
backendVars == <<snaps, cluster, ctxDone, listedRev, fetchedRev, rev, newResult>>

ClusterStates == {"none", "created", "started", "stopped"}
NewStates == {"building", "syncing", "ready", "failed"}

-----------------------------------------------------------------------------
(* The cache, as List sees it *)

\* Mutant: the configured namespace is not passed to the cache.
WatchedEverywhere == Hardware

\* Namespaces the informer lists and watches: NewBackend restricts the cache
\* to one only when a namespace is configured.
Watched == {h \in Hardware : Namespace = Unset \/ NamespaceOf[h] = Namespace}

\* The cached copy of a Hardware object, Absent when the cache holds none.
Cached(h) == IF h \in Watched THEN snaps[rev[h]][h] ELSE Absent

\* Mutants: the guard against empty addresses is gone; only the first
\* interface is indexed.
IndexesEmpty(object) == Range(object.ifaces) \ {NoDHCP}
IndexesFirst(object) == {object.ifaces[1]} \ {NoDHCP, EmptyAddr}

\* The index keys of an object (a cache that indexes files it under each).
hardwareIPIndexFunc(object) == Range(object.ifaces) \ {NoDHCP, EmptyAddr}

\* client.List with MatchingFields on the index.
List(ip) == {h \in Hardware : Cached(h) # Absent /\ ip \in hardwareIPIndexFunc(Cached(h))}

\* WaitForCacheSync has something to report: the items of the first list have
\* all reached the cache.
HasSynced ==
    /\ cluster \in {"started", "stopped"}
    /\ listedRev # 0
    /\ \A h \in Hardware : rev[h] >= listedRev

\* List answers, if only with an error: before Start it refuses with
\* ErrCacheNotStarted, after Start it waits for the first sync.
ListAnswers == cluster \in {"none", "created"} \/ HasSynced

-----------------------------------------------------------------------------
(* The operations of Backend *)

NoResult == [kind |-> "none", hw |-> NoHardware, obj |-> Absent]
Failure(kind) == [NoResult EXCEPT !.kind = kind]
Found(h) == [kind |-> "found", hw |-> h, obj |-> Cached(h)]

\* Mutant: any of several hardware will do.
RetrievesAny(ip) ==
    LET items == List(ip) IN
    IF cluster \in {"none", "created"} THEN Failure("notStarted")
    ELSE IF items = {} THEN Failure("errNotFound")
    ELSE Found(CHOOSE h \in Hardware : h \in items)

\* retrieveByIP returns the one hardware indexed under ip, or an error.
retrieveByIP(ip) ==
    LET items == List(ip) IN
    IF cluster \in {"none", "created"} THEN Failure("notStarted")
    ELSE IF items = {} THEN Failure("errNotFound")
    ELSE IF \E g, h \in items : g # h THEN Failure("multiple")
    ELSE Found(CHOOSE h \in Hardware : h \in items)

\* GetEC2Instance turns errNotFound into the EC2 frontend's own sentinel.
GetEC2Instance(ip) ==
    LET res == retrieveByIP(ip) IN
    IF res.kind = "errNotFound" THEN Failure("ErrInstanceNotFound") ELSE res

\* GetHackInstance passes every error on as it is, and fails when the object
\* does not survive the trip through JSON (toHackInstance); which object that
\* was stays in the result for the properties to see.
GetHackInstance(ip) ==
    LET res == retrieveByIP(ip) IN
    IF res.kind = "found" /\ ~res.obj.renderable THEN [res EXCEPT !.kind = "unrenderable"] ELSE res

\* Mutant: healthy because it once became ready.
HealthyOnceReady == newResult = "ready"

\* Healthy until the context given to New is cancelled.
IsHealthy == ~ctxDone

-----------------------------------------------------------------------------
(* The store and the informer *)

BackendInit ==
    /\ snaps = <<[h \in Hardware |-> Absent]>>
    /\ cluster = "none"
    /\ ctxDone = FALSE
    /\ listedRev = 0
    /\ fetchedRev = 1
    /\ rev = [h \in Hardware |-> 1]
    /\ newResult = "building"

\* Somebody creates, updates or deletes one Hardware object.
Write(h, object) ==
    /\ Len(snaps) < MaxRev
    /\ object # snaps[Len(snaps)][h]
    /\ snaps' = Append(snaps, [snaps[Len(snaps)] EXCEPT ![h] = object])
    /\ UNCHANGED <<cluster, ctxDone, informerVars, newResult>>

\* The reflector's first list is answered; the API server may answer it from
\* its own cache, so from any revision.
FirstList ==
    /\ cluster = "started"
    /\ listedRev = 0
    /\ listedRev' \in 1..Len(snaps)
    /\ fetchedRev' = listedRev'
    /\ UNCHANGED <<snaps, cluster, ctxDone, rev, newResult>>

\* A watch event arrives, or, after a broken watch, a new list.
Fetch ==
    /\ cluster = "started"
    /\ listedRev # 0
    /\ \E n \in (fetchedRev + 1)..Len(snaps) : fetchedRev' = n
    /\ UNCHANGED <<snaps, cluster, ctxDone, listedRev, rev, newResult>>

\* The informer takes one object's changes off its queue and puts them in the
\* cache; the queue is kept per object, so another object may lag behind.
Pop(h) ==
    /\ cluster = "started"
    /\ \E n \in (rev[h] + 1)..fetchedRev : rev' = [rev EXCEPT ![h] = n]
    /\ UNCHANGED <<snaps, cluster, ctxDone, listedRev, fetchedRev, newResult>>

-----------------------------------------------------------------------------
(* Construction and the end *)

\* Mutant: cluster.Start is called in place, not in a goroutine, and blocks.
StartInPlace ==
    /\ newResult = "building"
    /\ cluster = "none"
    /\ cluster' = "created"
    /\ UNCHANGED <<snaps, ctxDone, informerVars, newResult>>

\* NewBackend: the configuration may be bad or the cluster unreachable;
\* otherwise the cluster is created and a goroutine is launched to start it.
NewBackend ==
    /\ newResult = "building"
    /\ \/ newResult' = "failed" /\ UNCHANGED cluster
       \/ newResult' = "syncing" /\ cluster' = "created"
    /\ UNCHANGED <<snaps, ctxDone, informerVars>>

\* The goroutine of NewBackend gets to run cluster.Start, which blocks until
\* the context is cancelled.
ClusterStart ==
    /\ cluster = "created"
    /\ cluster' = "started"
    /\ UNCHANGED <<snaps, ctxDone, informerVars, newResult>>

ClusterStop ==
    /\ cluster = "started"
    /\ ctxDone
    /\ cluster' = "stopped"
    /\ UNCHANGED <<snaps, ctxDone, informerVars, newResult>>

\* Mutants: New does not wait for the cache at all; New waits for the start of
\* the cluster only.
NewWithoutWait ==
    /\ newResult = "syncing"
    /\ newResult' = "ready"
    /\ UNCHANGED <<snaps, cluster, ctxDone, informerVars>>

NewOnStart ==
    /\ newResult = "syncing"
    /\ cluster = "started"
    /\ newResult' = "ready"
    /\ UNCHANGED <<snaps, cluster, ctxDone, informerVars>>

\* backend.New hands out the backend once WaitForCacheSync reports true.
New ==
    /\ newResult = "syncing"
    /\ HasSynced
    /\ newResult' = "ready"
    /\ UNCHANGED <<snaps, cluster, ctxDone, informerVars>>

\* WaitForCacheSync reports false: the context ended first.
NewSyncFails ==
    /\ newResult = "syncing"
    /\ ctxDone
    /\ newResult' = "failed"
    /\ UNCHANGED <<snaps, cluster, ctxDone, informerVars>>

CancelCtx ==
    /\ ~ctxDone
    /\ ctxDone' = TRUE
    /\ UNCHANGED <<snaps, cluster, informerVars, newResult>>

BackendNext ==
    \/ \E h \in Hardware : \E object \in Objects \cup {Absent} : Write(h, object)
    \/ FirstList \/ Fetch \/ \E h \in Hardware : Pop(h)
    \/ NewBackend \/ ClusterStart \/ ClusterStop
    \/ New \/ NewSyncFails \/ CancelCtx

\* The main goroutine and the one of cluster.Start run, the API server is
\* reachable and the informer delivers what it has read; nobody has to change
\* the store.
BackendFairness ==
    /\ WF_backendVars(NewBackend) /\ WF_backendVars(New)
    /\ WF_backendVars(ClusterStart)
    /\ WF_backendVars(FirstList) /\ WF_backendVars(Fetch)
    /\ \A h \in Hardware : WF_backendVars(Pop(h))

-----------------------------------------------------------------------------
(* Properties *)

\* Who has the address now, of the objects a backend with this configuration
\* is to serve.
NowAt(ip) ==
    {h \in Hardware : LET object == snaps[Len(snaps)][h] IN
        /\ Namespace \in Namespaces => NamespaceOf[h] = Namespace
        /\ object # Absent
        /\ \E i \in DOMAIN object.ifaces : object.ifaces[i] = ip}

Current(ip) ==
    LET res == retrieveByIP(ip) IN
    CASE NowAt(ip) = {} -> res.kind = "errNotFound"
      [] \E h \in Hardware : NowAt(ip) = {h} ->
            /\ res.kind = "found" /\ NowAt(ip) = {res.hw}
            /\ res.obj = snaps[Len(snaps)][res.hw]
      [] OTHER -> res.kind = "multiple"

\* Lookups come to tell the truth about the present: whatever was created,
\* deleted or handed from one machine to another before the store came to
\* rest, a backend that is up ends up with every address at the machine that
\* has it, also one that was nobody's for a while (kubernetes/backend.go:136-154,
\* index.go:13-25).  The store comes to rest because of MaxRev.
EventuallyCurrent ==
    <>[](\/ newResult = "failed" \/ ctxDone
         \/ newResult = "ready" /\ \A ip \in Addrs : Current(ip))
=============================================================================
