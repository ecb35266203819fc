------------------------- MODULE MetadataAPIProofs --------------------------
(***************************************************************************)
(* Proofs of the safety properties of MetadataAPI, for any cluster,        *)
(* namespace, set of addresses and number of handlers.                     *)
(*                                                                         *)
(* The argument: a backend is handed out only once every object is known   *)
(* at a revision of the window that starts with the first list; what a     *)
(* lookup returns is justified by the revisions the objects are known at   *)
(* right then; and a justification is never lost, for the store's history  *)
(* only grows.                                                             *)
(***************************************************************************)
EXTENDS MetadataAPI, TLAPS

-----------------------------------------------------------------------------
(* The inductive invariant *)

\* Once the backend is ready, no object is known only from before the first
\* list, and the informer stops only with the context.
CacheInv ==
    /\ listedRev <= fetchedRev
    /\ listedRev = 0 => fetchedRev = 1
    /\ newResult = "ready" => HasSynced
    /\ cluster = "stopped" => ctxDone
    /\ \A r \in Requests : req[r].pc # "idle" => newResult = "ready"

\* A request is handled for its peer, or for whom a trusted peer forwards it.
Client(q) == q.ip \in Addrs => q.ip = q.peer \/ (q.peer \in Proxies /\ q.ip = q.xff)

\* Some revision of the window shows h with, or without, the address.
With(h, ip) == \E n \in Window : OwnedAt(n, h, ip)
Without(h, ip) == \E n \in Window : ~OwnedAt(n, h, ip)

FoundJustified(ip, object) ==
    \E h \in Scope :
        /\ \E n \in Window : snaps[n][h] = object /\ OwnedAt(n, h, ip)
        /\ \A g \in Scope \ {h} : Without(g, ip)
NobodyJustified(ip) == \A h \in Scope : Without(h, ip)
MultipleJustified(ip) == \E g, h \in Scope : g # h /\ With(g, ip) /\ With(h, ip)

\* What a lookup of ip returned is what the store's history allows.
Justified(ip, res) ==
    /\ res.kind \in {"found", "unrenderable"} => FoundJustified(ip, res.obj)
    /\ res.kind \in {"errNotFound", "ErrInstanceNotFound"} => NobodyJustified(ip)
    /\ res.kind = "multiple" => MultipleJustified(ip)
    /\ res.kind # "notStarted"

\* What a response says comes from the lookup's result.
Response(q) ==
    /\ q.res.kind # "none" => q.pc \in {"looked", "done"}
    /\ q.body # Absent => q.pc = "done" /\ q.res.kind = "found" /\ q.body = q.res.obj
    /\ q.pc = "arrived" => q.status = 0 /\ q.res.kind = "none"
    /\ q.pc = "looked" => q.res.kind # "none"
    /\ q.fe = "ec2" =>
          /\ q.pc = "looked" => q.status = 0 /\ q.res.kind \in {"found", "ErrInstanceNotFound", "multiple"}
          /\ q.status = 404 => q.res.kind = "ErrInstanceNotFound"
          /\ q.status = 500 => q.res.kind = "multiple"

RequestOK(q) == Client(q) /\ Justified(q.ip, q.res) /\ Response(q)

RequestInv == \A r \in Requests : RequestOK(req[r])

IInv == TypeOK /\ CacheInv /\ RequestInv

-----------------------------------------------------------------------------
(* The cache and the lookup *)

\* The cache is restricted to what may be served.
LEMMA WatchedIsScope == Watched = Scope
  BY NamespaceAssumption DEF Watched, Scope

\* An address is indexed exactly for the objects that hold it, and the empty
\* address for none.
LEMMA IndexIsOwnership ==
  ASSUME NEW object \in Objects \cup {Absent}, object # Absent,
         NEW ip \in Addrs \cup {EmptyAddr}
  PROVE  ip \in hardwareIPIndexFunc(object) <=> Promise!Owns(object, ip)
  BY ObjectAssumption DEF hardwareIPIndexFunc, Range, Promise!Owns

\* List finds the objects in scope that hold the address where they are known.
LEMMA ListIsHolders ==
  ASSUME TypeOK, NEW ip \in Addrs \cup {EmptyAddr}
  PROVE  /\ List(ip) \subseteq Scope
         /\ \A h \in Scope : h \in List(ip) <=> OwnedAt(rev[h], h, ip)
<1>1. \A h \in Scope : h \in Hardware /\ Cached(h) = snaps[rev[h]][h]
  BY WatchedIsScope DEF Cached, Scope
<1>2. \A h \in Hardware : h \notin Scope => Cached(h) = Absent
  BY WatchedIsScope DEF Cached
<1>3. \A h \in Scope : snaps[rev[h]][h] \in Objects \cup {Absent}
  BY <1>1 DEF TypeOK
<1>4. \A h \in Scope : h \in List(ip) <=> OwnedAt(rev[h], h, ip)
  BY <1>1, <1>3, IndexIsOwnership DEF List, OwnedAt, Promise!Owns
<1> QED
  BY <1>2, <1>4 DEF List

\* Once the cache has synced, objects are known at revisions of the window.
LEMMA KnownInWindow ==
  ASSUME TypeOK, CacheInv, HasSynced, NEW h \in Hardware
  PROVE  rev[h] \in Window
  BY DEF TypeOK, CacheInv, HasSynced, Window

\* The results of retrieveByIP, by kind.
LEMMA RetrieveKinds ==
  ASSUME TypeOK, HasSynced, NEW ip \in Addrs \cup {EmptyAddr}
  PROVE  LET res == retrieveByIP(ip) IN
         \/ res = Failure("errNotFound") /\ List(ip) = {}
         \/ res = Failure("multiple") /\ \E g, h \in List(ip) : g # h
         \/ \E h \in Hardware : res = Found(h) /\ List(ip) = {h}
<1>1. cluster \notin {"none", "created"}
  BY DEF HasSynced
<1>2. CASE List(ip) = {}
  BY <1>1, <1>2 DEF retrieveByIP
<1>3. CASE \E g, h \in List(ip) : g # h
  BY <1>1, <1>3 DEF retrieveByIP
<1>4. CASE List(ip) # {} /\ ~\E g, h \in List(ip) : g # h
  <2>1. PICK h \in Hardware : List(ip) = {h}
    BY <1>4 DEF List
  <2>2. (CHOOSE g \in Hardware : g \in List(ip)) = h
    BY <2>1
  <2> QED
    BY <1>1, <1>4, <2>1, <2>2 DEF retrieveByIP
<1> QED
  BY <1>2, <1>3, <1>4

\* Every result of a lookup is justified.
LEMMA RetrieveJustified ==
  ASSUME TypeOK, CacheInv, HasSynced, NEW ip \in Addrs
  PROVE  LET res == retrieveByIP(ip) IN
         /\ res \in ResultType
         /\ res.kind \in {"found", "errNotFound", "multiple"}
         /\ Justified(ip, res)
<1> DEFINE res == retrieveByIP(ip)
<1>1. \A h \in Scope : rev[h] \in Window
  BY KnownInWindow DEF Scope
<1>2. CASE res = Failure("errNotFound") /\ List(ip) = {}
  <2>1. NobodyJustified(ip)
    BY <1>1, <1>2, ListIsHolders DEF NobodyJustified, Without
  <2> QED
    BY <1>2, <2>1 DEF Failure, NoResult, ResultType, Justified
<1>3. CASE res = Failure("multiple") /\ \E g, h \in List(ip) : g # h
  <2>1. MultipleJustified(ip)
    BY <1>1, <1>3, ListIsHolders DEF MultipleJustified, With
  <2> QED
    BY <1>3, <2>1 DEF Failure, NoResult, ResultType, Justified
<1>4. ASSUME NEW h \in Hardware, res = Found(h), List(ip) = {h}
      PROVE  res \in ResultType /\ res.kind = "found" /\ Justified(ip, res)
  <2>1. h \in Scope /\ OwnedAt(rev[h], h, ip) /\ Cached(h) = snaps[rev[h]][h]
    BY <1>4, ListIsHolders, WatchedIsScope DEF Cached
  <2>2. \A g \in Scope \ {h} : ~OwnedAt(rev[g], g, ip)
    BY <1>4, ListIsHolders
  <2>3. FoundJustified(ip, Cached(h))
    BY <1>1, <2>1, <2>2 DEF FoundJustified, Without
  <2>4. Cached(h) \in Objects \cup {Absent}
    BY <2>1 DEF TypeOK
  <2> QED
    BY <1>4, <2>3, <2>4 DEF Found, ResultType, Justified
<1> QED
  BY <1>2, <1>3, <1>4, RetrieveKinds

\* The empty address is held by nobody, and no revision says otherwise.
LEMMA EmptyIsNobody ==
  ASSUME TypeOK, CacheInv, HasSynced
  PROVE  /\ retrieveByIP(EmptyAddr) = Failure("errNotFound")
         /\ NobodyJustified(BadAddr)
<1>1. \A h \in Scope : rev[h] \in Window
  BY KnownInWindow DEF Scope
<1>2. \A n, h : ~OwnedAt(n, h, EmptyAddr) /\ ~OwnedAt(n, h, BadAddr)
  BY ObjectAssumption, ArrivalAssumption DEF OwnedAt, Promise!Owns
<1>3. List(EmptyAddr) = {}
  BY <1>2, ListIsHolders
<1>4. retrieveByIP(EmptyAddr) = Failure("errNotFound")
  BY <1>3 DEF HasSynced, retrieveByIP
<1> QED
  BY <1>1, <1>2, <1>4 DEF NobodyJustified, Without

-----------------------------------------------------------------------------
(* The history only grows *)

\* Write adds one revision and keeps the older ones.
LEMMA WriteAppends ==
  ASSUME TypeOK, NEW h \in Hardware, NEW object \in Objects \cup {Absent}, Write(h, object)
  PROVE  /\ snaps' \in Seq([Hardware -> Objects \cup {Absent}])
         /\ Len(snaps') = Len(snaps) + 1
         /\ Len(snaps) + 1 \in 1..MaxRev
         /\ \A n \in 1..Len(snaps) : snaps'[n] = snaps[n]
<1> DEFINE Snapshot == [Hardware -> Objects \cup {Absent}]
           new == [snaps[Len(snaps)] EXCEPT ![h] = object]
<1>1. new \in Snapshot
  BY DEF TypeOK
<1>2. snaps \in Seq(Snapshot) /\ snaps' = Append(snaps, new)
  BY DEF TypeOK, Write
<1>3. Len(snaps) + 1 \in 1..MaxRev
  BY BoundAssumption DEF TypeOK, Write
<1> HIDE DEF new, Snapshot
<1> QED
  BY <1>1, <1>2, <1>3 DEF Snapshot

\* What every step does to the window once the backend is ready.
LEMMA WindowGrows ==
  ASSUME TypeOK, CacheInv, newResult = "ready", [Next]_vars
  PROVE  /\ Window \subseteq Window'
         /\ \A n \in Window : snaps'[n] = snaps[n]
<1>1. listedRev' = listedRev
  BY DEF CacheInv, HasSynced, Next, vars, BackendNext, Write, FirstList, Fetch, Pop, NewBackend,
         ClusterStart, ClusterStop, New, NewSyncFails, CancelCtx, informerVars, backendVars,
         Arrive, Handle, EC2Reject, EC2Lookup, EC2Respond, HackLookup, HackRespond, Health
<1>2. snaps' = snaps \/ \E h \in Hardware, object \in Objects \cup {Absent} : Write(h, object)
  BY DEF Next, vars, BackendNext, FirstList, Fetch, Pop, NewBackend,
         ClusterStart, ClusterStop, New, NewSyncFails, CancelCtx, informerVars, backendVars,
         Arrive, Handle, EC2Reject, EC2Lookup, EC2Respond, HackLookup, HackRespond, Health
<1>3. CASE snaps' = snaps
  BY <1>1, <1>3 DEF Window
<1>4. ASSUME NEW h \in Hardware, NEW object \in Objects \cup {Absent}, Write(h, object)
      PROVE  /\ Window \subseteq Window'
             /\ \A n \in Window : snaps'[n] = snaps[n]
  BY <1>1, <1>4, WriteAppends DEF Window
<1> QED
  BY <1>2, <1>3, <1>4

\* A justification is never lost.
LEMMA JustificationKept ==
  ASSUME TypeOK, CacheInv, newResult = "ready", [Next]_vars, NEW ip, NEW res, Justified(ip, res)
  PROVE  Justified(ip, res)'
<1>1. \A n \in Window : \A h, a : n \in Window' /\ (OwnedAt(n, h, a) <=> OwnedAt(n, h, a)')
  BY WindowGrows DEF OwnedAt, Promise!Owns
<1>2. \A h : (With(h, ip) => With(h, ip)') /\ (Without(h, ip) => Without(h, ip)')
  BY <1>1 DEF With, Without
<1>3. Scope' = Scope
  BY DEF Scope
<1>4. FoundJustified(ip, res.obj) => FoundJustified(ip, res.obj)'
  BY <1>1, <1>2, <1>3, WindowGrows DEF FoundJustified
<1>5. NobodyJustified(ip) => NobodyJustified(ip)'
  BY <1>2, <1>3 DEF NobodyJustified
<1>6. MultipleJustified(ip) => MultipleJustified(ip)'
  BY <1>2, <1>3 DEF MultipleJustified
<1> QED
  BY <1>4, <1>5, <1>6 DEF Justified

\* A step that leaves the requests alone leaves them in order.
LEMMA RequestsKept ==
  ASSUME IInv, [Next]_vars, UNCHANGED req
  PROVE  RequestInv'
<1> SUFFICES ASSUME NEW r \in Requests PROVE RequestOK(req[r])'
  BY DEF RequestInv
<1>1. RequestOK(req[r])
  BY DEF IInv, RequestInv
<1>2. CASE newResult = "ready"
  BY <1>1, <1>2, JustificationKept DEF IInv, RequestOK, Client, Response
<1>3. CASE newResult # "ready"
  BY <1>1, <1>3 DEF IInv, CacheInv, RequestOK, Client, Response, Justified
<1> QED
  BY <1>2, <1>3

\* A step that changes one request only, to one that is in order.
LEMMA OneRequest ==
  ASSUME IInv, newResult = "ready", UNCHANGED backendVars,
         NEW r \in Requests, NEW q \in RequestType, RequestOK(q), req' = [req EXCEPT ![r] = q]
  PROVE  IInv'
<1> USE DEF IInv, backendVars
<1>1. TypeOK'
  BY DEF TypeOK
<1>2. CacheInv'
  BY DEF CacheInv, HasSynced
<1>3. \A s : RequestOK(s) <=> RequestOK(s)'
  BY DEF RequestOK, Client, Response, Justified, FoundJustified, NobodyJustified,
         MultipleJustified, With, Without, OwnedAt, Window, Scope, Promise!Owns
<1>4. \A s \in Requests : RequestOK(req'[s])
  BY DEF RequestInv, TypeOK
<1> QED
  BY <1>1, <1>2, <1>3, <1>4 DEF RequestInv

-----------------------------------------------------------------------------
(* The invariant is inductive *)

LEMMA InitIInv == APIInit => IInv
<1> SUFFICES ASSUME APIInit PROVE IInv
  OBVIOUS
<1> USE DEF APIInit, BackendInit
<1>1. NoRequest \in RequestType
  BY DEF NoRequest, RequestType, NoResult, ResultType
<1>2. TypeOK
  <2>1. [h \in Hardware |-> Absent] \in [Hardware -> Objects \cup {Absent}]
    OBVIOUS
  <2>2. snaps \in Seq([Hardware -> Objects \cup {Absent}]) /\ Len(snaps) = 1
    BY <2>1
  <2>3. 1 \in 1..MaxRev
    BY BoundAssumption
  <2>4. 0 \in 0..1 /\ 1 \in 1..1 /\ rev \in [Hardware -> 1..1]
    OBVIOUS
  <2>5. req \in [Requests -> RequestType]
    BY <1>1
  <2> HIDE DEF APIInit, BackendInit
  <2>6. /\ listedRev = 0 /\ fetchedRev = 1
        /\ cluster \in ClusterStates /\ ctxDone \in BOOLEAN /\ newResult \in NewStates
    BY DEF APIInit, BackendInit, ClusterStates, NewStates
  <2> QED
    BY <2>2, <2>3, <2>4, <2>5, <2>6 DEF TypeOK
<1>3. CacheInv
  BY DEF CacheInv, NoRequest
<1>4. RequestInv
  BY ArrivalAssumption
     DEF RequestInv, RequestOK, Client, Justified, Response, NoRequest, NoResult
<1> QED
  BY <1>2, <1>3, <1>4 DEF IInv

\* The steps of the store, the informer and the backend's construction.
LEMMA BackendStep ==
  ASSUME IInv, BackendNext, UNCHANGED req
  PROVE  IInv'
<1> USE DEF IInv, informerVars, ClusterStates, NewStates
<1>1. RequestInv'
  BY RequestsKept DEF Next
<1> SUFFICES TypeOK' /\ CacheInv'
  BY <1>1
<1>2. ASSUME NEW h \in Hardware, NEW object \in Objects \cup {Absent}, Write(h, object)
      PROVE  TypeOK' /\ CacheInv'
  <2>1. TypeOK'
    <3>1. /\ snaps' \in Seq([Hardware -> Objects \cup {Absent}])
          /\ Len(snaps') = Len(snaps) + 1
          /\ Len(snaps') \in 1..MaxRev
      BY <1>2, WriteAppends
    <3>2. 0..Len(snaps) \subseteq 0..Len(snaps') /\ 1..Len(snaps) \subseteq 1..Len(snaps')
      BY <3>1 DEF TypeOK
    <3> QED
      BY <1>2, <3>1, <3>2 DEF Write, TypeOK
  <2>2. CacheInv'
    BY <1>2 DEF Write, CacheInv, HasSynced
  <2> QED
    BY <2>1, <2>2
<1>3. CASE FirstList
  BY <1>3 DEF FirstList, TypeOK, CacheInv, HasSynced
<1>4. CASE Fetch
  BY <1>4 DEF Fetch, TypeOK, CacheInv, HasSynced
<1>5. ASSUME NEW h \in Hardware, Pop(h)
      PROVE  TypeOK' /\ CacheInv'
  BY <1>5 DEF Pop, TypeOK, CacheInv, HasSynced
<1>6. CASE NewBackend
  BY <1>6 DEF NewBackend, TypeOK, CacheInv, HasSynced
<1>7. CASE ClusterStart
  BY <1>7 DEF ClusterStart, TypeOK, CacheInv, HasSynced
<1>8. CASE ClusterStop
  BY <1>8 DEF ClusterStop, TypeOK, CacheInv, HasSynced
<1>9. CASE New
  BY <1>9 DEF New, TypeOK, CacheInv, HasSynced
<1>10. CASE NewSyncFails
  BY <1>10 DEF NewSyncFails, TypeOK, CacheInv, HasSynced
<1>11. CASE CancelCtx
  BY <1>11 DEF CancelCtx, TypeOK, CacheInv, HasSynced
<1> QED
  BY <1>1, <1>2, <1>3, <1>4, <1>5, <1>6, <1>7, <1>8, <1>9, <1>10, <1>11 DEF BackendNext

\* A request that has moved on: what the handler has set so far.
Moved(q, pc, res, status, body) ==
    [pc |-> pc, fe |-> q.fe, peer |-> q.peer, xff |-> q.xff, ip |-> q.ip, res |-> res,
     status |-> status, body |-> body]

LEMMA MovedFields ==
  ASSUME NEW q, NEW pc, NEW res, NEW status, NEW body
  PROVE  /\ Moved(q, pc, res, status, body).pc = pc
         /\ Moved(q, pc, res, status, body).res = res
         /\ Moved(q, pc, res, status, body).status = status
         /\ Moved(q, pc, res, status, body).body = body
         /\ Moved(q, pc, res, status, body).fe = q.fe
         /\ Moved(q, pc, res, status, body).peer = q.peer
         /\ Moved(q, pc, res, status, body).xff = q.xff
         /\ Moved(q, pc, res, status, body).ip = q.ip
  BY DEF Moved

LEMMA NotMoved ==
  ASSUME NEW q \in RequestType
  PROVE  q = Moved(q, q.pc, q.res, q.status, q.body)
  BY DEF RequestType, Moved

LEMMA MovedType ==
  ASSUME NEW q \in RequestType, NEW pc \in {"idle", "arrived", "looked", "done"},
         NEW res \in ResultType, NEW status \in {0, 200, 400, 404, 500},
         NEW body \in Objects \cup {Absent}
  PROVE  Moved(q, pc, res, status, body) \in RequestType
  BY DEF RequestType, Moved

\* The effect of the lookups, and of the ways to respond.
LEMMA LookedMoved ==
  ASSUME NEW q \in RequestType, NEW res
  PROVE  Looked(q, res) = Moved(q, "looked", res, q.status, q.body)
<1>1. [q EXCEPT !.pc = "looked"] = Moved(q, "looked", q.res, q.status, q.body)
  BY DEF RequestType, Moved
<1>2. \A z : z = Moved(q, "looked", q.res, q.status, q.body) =>
               [z EXCEPT !.res = res] = Moved(q, "looked", res, q.status, q.body)
  BY DEF Moved
<1> QED
  BY <1>1, <1>2, Zenon DEF Looked

\* The status a response has after a handler's attempt to set one.
Final(q, status) == IF q.status = 0 THEN status ELSE q.status

LEMMA AbortMoved ==
  ASSUME NEW q \in RequestType, NEW status
  PROVE  Abort(q, status) = Moved(q, q.pc, q.res, Final(q, status), q.body)
<1>1. CASE q.status = 0
  <2>1. [q EXCEPT !.status = status] = Moved(q, q.pc, q.res, status, q.body)
    BY DEF RequestType, Moved
  <2> QED
    BY <1>1, <2>1 DEF Abort, Final
<1>2. CASE q.status # 0
  BY <1>2, NotMoved DEF Abort, Final
<1> QED
  BY <1>1, <1>2

LEMMA MovedDone ==
  ASSUME NEW q, NEW pc, NEW res, NEW status, NEW body
  PROVE  Done(Moved(q, pc, res, status, body)) = Moved(q, "done", res, status, body)
  BY DEF Done, Moved

LEMMA AbortDone ==
  ASSUME NEW q \in RequestType, NEW status
  PROVE  Done(Abort(q, status)) = Moved(q, "done", q.res, Final(q, status), q.body)
<1>1. Abort(q, status) = Moved(q, q.pc, q.res, Final(q, status), q.body)
  BY AbortMoved
<1>2. Done(Moved(q, q.pc, q.res, Final(q, status), q.body)) =
          Moved(q, "done", q.res, Final(q, status), q.body)
  BY MovedDone
<1> QED
  BY <1>1, <1>2

LEMMA ReplyDone ==
  ASSUME NEW q \in RequestType, NEW body
  PROVE  Done(Reply(q, body)) = Moved(q, "done", q.res, Final(q, 200), body)
<1>1. Abort(q, 200) = Moved(q, q.pc, q.res, Final(q, 200), q.body)
  BY AbortMoved
<1>2. \A z : z = Moved(q, q.pc, q.res, Final(q, 200), q.body) =>
               [z EXCEPT !.body = body] = Moved(q, q.pc, q.res, Final(q, 200), body)
  BY DEF Moved
<1>3. Reply(q, body) = Moved(q, q.pc, q.res, Final(q, 200), body)
  BY <1>1, <1>2, Zenon DEF Reply
<1>4. Done(Moved(q, q.pc, q.res, Final(q, 200), body)) = Moved(q, "done", q.res, Final(q, 200), body)
  BY MovedDone
<1> QED
  BY <1>3, <1>4

LEMMA LookedAbort ==
  ASSUME NEW q \in RequestType, q.pc = "arrived", NEW status, NEW res
  PROVE  Looked(Abort(q, status), res) = Moved(q, "looked", res, Final(q, status), q.body)
<1>1. Abort(q, status) = Moved(q, q.pc, q.res, Final(q, status), q.body)
  BY AbortMoved
<1>2. \A z : z = Moved(q, q.pc, q.res, Final(q, status), q.body) =>
               [z EXCEPT !.pc = "looked"] = Moved(q, "looked", q.res, Final(q, status), q.body)
  BY DEF Moved
<1>3. \A z : z = Moved(q, "looked", q.res, Final(q, status), q.body) =>
               [z EXCEPT !.res = res] = Moved(q, "looked", res, Final(q, status), q.body)
  BY DEF Moved
<1> DEFINE abort == Moved(q, q.pc, q.res, Final(q, status), q.body)
           looked == Moved(q, "looked", q.res, Final(q, status), q.body)
<1>4. [abort EXCEPT !.pc = "looked"] = looked
  BY <1>2
<1>5. [looked EXCEPT !.res = res] = Moved(q, "looked", res, Final(q, status), q.body)
  BY <1>3
<1> HIDE DEF abort, looked
<1>6. Looked(abort, res) = [[abort EXCEPT !.pc = "looked"] EXCEPT !.res = res]
  BY Zenon DEF Looked
<1> QED
  BY <1>1, <1>4, <1>5, <1>6, Zenon DEF abort

\* A request comes in.
LEMMA ArriveStep ==
  ASSUME IInv, NEW r \in Requests, Arrive(r)
  PROVE  IInv'
<1>1. PICK a \in Arrivals :
        req' = [req EXCEPT ![r] =
                  [pc |-> "arrived", fe |-> a.fe, peer |-> a.peer, xff |-> a.xff,
                   ip |-> Middleware(a.peer, a.xff), res |-> NoResult, status |-> 0,
                   body |-> Absent]]
  BY DEF Arrive
<1> DEFINE q == [pc |-> "arrived", fe |-> a.fe, peer |-> a.peer, xff |-> a.xff,
                 ip |-> Middleware(a.peer, a.xff), res |-> NoResult, status |-> 0, body |-> Absent]
<1>2. Middleware(a.peer, a.xff) \in Addrs \cup {BadAddr}
  BY ArrivalAssumption DEF Middleware
<1>3. q \in RequestType
  BY <1>2, ArrivalAssumption DEF RequestType, ResultType, NoResult
<1>4. RequestOK(q)
  BY ArrivalAssumption
     DEF RequestOK, Client, Middleware, Justified, Response, NoResult
<1> HIDE DEF q
<1> QED
  BY <1>1, <1>3, <1>4, OneRequest DEF Arrive, q

\* What a request being handled is known to be.
LEMMA Handled ==
  ASSUME IInv, NEW r \in Requests, req[r].pc # "idle"
  PROVE  /\ newResult = "ready" /\ HasSynced
         /\ req[r] \in RequestType /\ RequestOK(req[r])
  BY DEF IInv, TypeOK, CacheInv, RequestInv

LEMMA EC2RejectStep ==
  ASSUME IInv, NEW r \in Requests, EC2Reject(r)
  PROVE  IInv'
<1> DEFINE old == req[r]
           q == Moved(old, "done", old.res, 400, old.body)
<1>1. /\ newResult = "ready" /\ old \in RequestType /\ RequestOK(old)
      /\ old.pc = "arrived" /\ old.status = 0 /\ old.res.kind = "none" /\ old.body = Absent
  BY Handled DEF EC2Reject, RequestOK, Response
<1>2. req' = [req EXCEPT ![r] = q]
  <2>1. Done(Abort(old, 400)) = q
    BY <1>1, AbortDone DEF Final
  <2> QED
    BY <2>1, Zenon DEF EC2Reject
<1>3. q \in RequestType
  BY <1>1, MovedType DEF RequestType
<1>4. RequestOK(q)
  BY <1>1, MovedFields DEF RequestOK, Client, Response
<1> HIDE DEF q
<1> QED
  BY <1>1, <1>2, <1>3, <1>4, OneRequest DEF EC2Reject

LEMMA EC2LookupStep ==
  ASSUME IInv, NEW r \in Requests, EC2Lookup(r)
  PROVE  IInv'
<1> DEFINE old == req[r]
           res == GetEC2Instance(old.ip)
           q == Moved(old, "looked", res, old.status, old.body)
<1>1. /\ newResult = "ready" /\ HasSynced /\ old \in RequestType /\ RequestOK(old)
      /\ old.pc = "arrived" /\ old.status = 0 /\ old.body = Absent
  BY Handled DEF EC2Lookup, RequestOK, Response
<1>2. old.ip \in Addrs
  BY <1>1 DEF EC2Lookup, RequestType
<1>3. /\ retrieveByIP(old.ip) \in ResultType
      /\ retrieveByIP(old.ip).kind \in {"found", "errNotFound", "multiple"}
      /\ Justified(old.ip, retrieveByIP(old.ip))
  BY <1>1, <1>2, RetrieveJustified DEF IInv
<1>4. /\ res \in ResultType
      /\ res.kind \in {"found", "ErrInstanceNotFound", "multiple"}
      /\ Justified(old.ip, res)
  BY <1>3 DEF GetEC2Instance, Failure, NoResult, ResultType, Justified
<1>5. req' = [req EXCEPT ![r] = q]
  BY <1>1, LookedMoved DEF EC2Lookup
<1> HIDE DEF res
<1>6. q \in RequestType
  BY <1>1, <1>4, MovedType DEF RequestType
<1>7. RequestOK(q)
  BY <1>1, <1>4, MovedFields DEF RequestOK, Client, Response
<1> HIDE DEF q
<1> QED
  BY <1>1, <1>5, <1>6, <1>7, OneRequest DEF EC2Lookup

\* A request is answered with an error status, or with the object its lookup
\* found.
LEMMA ErrorAnswer ==
  ASSUME NEW q \in RequestType, RequestOK(q), q.pc = "looked", NEW status \in {404, 500},
         q.fe = "ec2" /\ status = 404 => q.res.kind = "ErrInstanceNotFound",
         q.fe = "ec2" /\ status = 500 => q.res.kind = "multiple"
  PROVE  Done(Abort(q, status)) \in RequestType /\ RequestOK(Done(Abort(q, status)))
<1> DEFINE answer == Moved(q, "done", q.res, Final(q, status), q.body)
<1>1. Done(Abort(q, status)) = answer
  BY AbortDone
<1>2. answer \in RequestType
  <2>1. Final(q, status) \in {0, 200, 400, 404, 500}
    BY DEF Final, RequestType
  <2> QED
    BY <2>1, MovedType DEF RequestType
<1>3. RequestOK(answer)
  BY MovedFields DEF RequestOK, Client, Response, Final
<1> QED
  BY <1>1, <1>2, <1>3

LEMMA FoundAnswer ==
  ASSUME NEW q \in RequestType, RequestOK(q), q.pc = "looked", q.res.kind = "found"
  PROVE  Done(Reply(q, q.res.obj)) \in RequestType /\ RequestOK(Done(Reply(q, q.res.obj)))
<1> DEFINE answer == Moved(q, "done", q.res, Final(q, 200), q.res.obj)
<1>1. Done(Reply(q, q.res.obj)) = answer
  BY ReplyDone
<1>2. answer \in RequestType
  <2>1. Final(q, 200) \in {0, 200, 400, 404, 500}
    BY DEF Final, RequestType
  <2>2. q.res \in ResultType /\ q.res.obj \in Objects \cup {Absent}
    BY DEF RequestType, ResultType
  <2> QED
    BY <2>1, <2>2, MovedType DEF RequestType
<1>3. RequestOK(answer)
  BY MovedFields DEF RequestOK, Client, Response, Final
<1> QED
  BY <1>1, <1>2, <1>3

LEMMA EC2RespondStep ==
  ASSUME IInv, NEW r \in Requests, EC2Respond(r)
  PROVE  IInv'
<1> DEFINE old == req[r]
<1>1. /\ newResult = "ready" /\ old \in RequestType /\ RequestOK(old)
      /\ old.pc = "looked" /\ old.fe = "ec2"
      /\ old.res.kind \in {"found", "ErrInstanceNotFound", "multiple"}
      /\ UNCHANGED backendVars
  BY Handled DEF EC2Respond, RequestOK, Response
<1>2. PICK q \in RequestType : RequestOK(q) /\ req' = [req EXCEPT ![r] = q]
  <2>1. CASE old.res.kind = "found"
    <3>1. Done(Reply(old, old.res.obj)) \in RequestType /\ RequestOK(Done(Reply(old, old.res.obj)))
      BY <1>1, <2>1, FoundAnswer
    <3>2. req' = [req EXCEPT ![r] = Done(Reply(old, old.res.obj))]
      BY <1>1, <2>1 DEF EC2Respond
    <3> QED
      BY <3>1, <3>2
  <2>2. CASE old.res.kind = "ErrInstanceNotFound"
    <3>1. Done(Abort(old, 404)) \in RequestType /\ RequestOK(Done(Abort(old, 404)))
      BY <1>1, <2>2, ErrorAnswer
    <3>2. req' = [req EXCEPT ![r] = Done(Abort(old, 404))]
      BY <1>1, <2>2 DEF EC2Respond
    <3> QED
      BY <3>1, <3>2
  <2>3. CASE old.res.kind = "multiple"
    <3>1. Done(Abort(old, 500)) \in RequestType /\ RequestOK(Done(Abort(old, 500)))
      BY <1>1, <2>3, ErrorAnswer
    <3>2. req' = [req EXCEPT ![r] = Done(Abort(old, 500))]
      BY <1>1, <2>3 DEF EC2Respond
    <3> QED
      BY <3>1, <3>2
  <2> QED
    BY <1>1, <2>1, <2>2, <2>3
<1> QED
  BY <1>1, <1>2, OneRequest

LEMMA HackLookupStep ==
  ASSUME IInv, NEW r \in Requests, HackLookup(r)
  PROVE  IInv'
<1> DEFINE old == req[r]
<1>1. /\ newResult = "ready" /\ HasSynced /\ old \in RequestType /\ RequestOK(old)
      /\ old.pc = "arrived" /\ old.fe = "hack" /\ old.status = 0 /\ old.body = Absent
      /\ UNCHANGED backendVars
  BY Handled DEF HackLookup, RequestOK, Response
<1>2. CASE old.ip = BadAddr
  <2> DEFINE res == Failure("errNotFound")
             q == Moved(old, "looked", res, 400, Absent)
  <2>1. GetHackInstance(EmptyAddr) = res /\ NobodyJustified(BadAddr)
    BY <1>1, EmptyIsNobody DEF IInv, GetHackInstance, Failure, NoResult
  <2>2. Looked(Abort(old, 400), res) = q
    BY <1>1, LookedAbort DEF Final
  <2>3. req' = [req EXCEPT ![r] = q]
    BY <1>2, <2>1, <2>2, Zenon DEF HackLookup
  <2>4. res \in ResultType /\ res.kind = "errNotFound"
    BY DEF Failure, NoResult, ResultType
  <2> HIDE DEF res
  <2>5. q \in RequestType
    BY <1>1, <2>4, MovedType
  <2>6. RequestOK(q)
    BY <1>1, <1>2, <2>1, <2>4, MovedFields DEF RequestOK, Client, Justified, Response
  <2> HIDE DEF q
  <2> QED
    BY <1>1, <2>3, <2>5, <2>6, OneRequest
<1>3. CASE old.ip # BadAddr
  <2> DEFINE res == GetHackInstance(old.ip)
             q == Moved(old, "looked", res, old.status, old.body)
  <2>1. old.ip \in Addrs
    BY <1>1, <1>3 DEF RequestType
  <2>2. /\ retrieveByIP(old.ip) \in ResultType
        /\ retrieveByIP(old.ip).kind \in {"found", "errNotFound", "multiple"}
        /\ Justified(old.ip, retrieveByIP(old.ip))
    BY <1>1, <2>1, RetrieveJustified DEF IInv
  <2>3. /\ res \in ResultType
        /\ res.kind \in {"found", "unrenderable", "errNotFound", "multiple"}
        /\ Justified(old.ip, res)
    BY <2>2 DEF GetHackInstance, ResultType, Justified
  <2>4. req' = [req EXCEPT ![r] = q]
    <3>1. Looked(old, res) = q
      BY <1>1, LookedMoved
    <3> QED
      BY <1>3, <3>1 DEF HackLookup
  <2> HIDE DEF res
  <2>5. q \in RequestType
    BY <1>1, <2>3, MovedType DEF RequestType
  <2>6. RequestOK(q)
    BY <1>1, <2>3, MovedFields DEF RequestOK, Client, Response
  <2> HIDE DEF q
  <2> QED
    BY <1>1, <2>4, <2>5, <2>6, OneRequest
<1> QED
  BY <1>2, <1>3

LEMMA HackRespondStep ==
  ASSUME IInv, NEW r \in Requests, HackRespond(r)
  PROVE  IInv'
<1> DEFINE old == req[r]
<1>1. /\ newResult = "ready" /\ old \in RequestType /\ RequestOK(old)
      /\ old.pc = "looked" /\ old.fe = "hack" /\ UNCHANGED backendVars
  BY Handled DEF HackRespond
<1>2. PICK q \in RequestType : RequestOK(q) /\ req' = [req EXCEPT ![r] = q]
  <2>1. CASE old.res.kind = "found"
    <3>1. Done(Reply(old, old.res.obj)) \in RequestType /\ RequestOK(Done(Reply(old, old.res.obj)))
      BY <1>1, <2>1, FoundAnswer
    <3>2. req' = [req EXCEPT ![r] = Done(Reply(old, old.res.obj))]
      BY <1>1, <2>1 DEF HackRespond
    <3> QED
      BY <3>1, <3>2
  <2>2. CASE old.res.kind # "found"
    <3>1. Done(Abort(old, 500)) \in RequestType /\ RequestOK(Done(Abort(old, 500)))
      BY <1>1, <2>2, ErrorAnswer
    <3>2. req' = [req EXCEPT ![r] = Done(Abort(old, 500))]
      BY <1>1, <2>2 DEF HackRespond
    <3> QED
      BY <3>1, <3>2
  <2> QED
    BY <2>1, <2>2
<1> QED
  BY <1>1, <1>2, OneRequest

LEMMA HealthStep ==
  ASSUME IInv, NEW r \in Requests, Health(r)
  PROVE  IInv'
<1> DEFINE old == req[r]
           status == IF IsHealthy THEN 200 ELSE 500
           q == Moved(old, "done", old.res, status, old.body)
<1>1. /\ newResult = "ready" /\ old \in RequestType /\ RequestOK(old)
      /\ old.pc = "arrived" /\ old.fe = "healthz" /\ old.status = 0 /\ old.body = Absent
      /\ old.res.kind = "none" /\ UNCHANGED backendVars
  BY Handled DEF Health, RequestOK, Response
<1>2. Done(Abort(old, status)) = q
  BY <1>1, AbortDone DEF Final
<1>3. req' = [req EXCEPT ![r] = q]
  BY <1>2 DEF Health
<1>4. q \in RequestType
  BY <1>1, MovedType DEF RequestType
<1>5. RequestOK(q)
  BY <1>1, MovedFields DEF RequestOK, Client, Response
<1> HIDE DEF q
<1> QED
  BY <1>1, <1>3, <1>4, <1>5, OneRequest

LEMMA NextIInv == IInv /\ [Next]_vars => IInv'
<1> SUFFICES ASSUME IInv, [Next]_vars PROVE IInv'
  OBVIOUS
<1>1. CASE BackendNext /\ UNCHANGED req
  BY <1>1, BackendStep
<1>2. ASSUME NEW r \in Requests, Arrive(r) \/ Handle(r) PROVE IInv'
  BY <1>2, ArriveStep, EC2RejectStep, EC2LookupStep, EC2RespondStep, HackLookupStep,
     HackRespondStep, HealthStep DEF Handle
<1>3. CASE UNCHANGED vars
  <2>1. RequestInv'
    BY <1>3, RequestsKept DEF vars
  <2>2. TypeOK' /\ CacheInv'
    BY <1>3 DEF vars, IInv, TypeOK, CacheInv, HasSynced
  <2> QED
    BY <2>1, <2>2 DEF IInv
<1> QED
  BY <1>1, <1>2, <1>3 DEF Next

LEMMA Inductive == Spec => []IInv
  BY InitIInv, NextIInv, PTL DEF Spec

-----------------------------------------------------------------------------
(* The theorems *)

\* The variables keep their types: the cache never claims a revision the store
\* has not reached, and a handler writes no other status than these.
THEOREM TypeCorrect == Spec => []TypeOK
<1>1. IInv => TypeOK
  BY DEF IInv
<1> QED
  BY <1>1, Inductive, PTL

\* Instance data goes only to the address that holds it (frontend/ec2 and
\* frontend/hack through retrieveByIP), whatever the cluster does meanwhile.
THEOREM DataServedToOwner == Spec => []ServedToOwner
<1>1. IInv => ServedToOwner
  <2> SUFFICES ASSUME IInv, NEW r \in Requests, req[r].body # Absent
               PROVE  \E h \in Scope, ip \in Addrs :
                        /\ ip = req[r].peer \/ (req[r].peer \in Proxies /\ ip = req[r].xff)
                        /\ \E n \in Window : snaps[n][h] = req[r].body /\ OwnedAt(n, h, ip)
                        /\ \A g \in Scope \ {h} : \E n \in Window : ~OwnedAt(n, g, ip)
    BY DEF ServedToOwner
  <2>1. Client(req[r]) /\ FoundJustified(req[r].ip, req[r].body)
    BY DEF IInv, RequestInv, RequestOK, Response, Justified
  <2>2. PICK h \in Scope :
          /\ \E n \in Window : snaps[n][h] = req[r].body /\ OwnedAt(n, h, req[r].ip)
          /\ \A g \in Scope \ {h} : Without(g, req[r].ip)
    BY <2>1 DEF FoundJustified
  <2>3. req[r].ip \in Addrs
    BY <2>2 DEF OwnedAt, Promise!Owns
  <2> QED
    BY <2>1, <2>2, <2>3 DEF Client, Without
<1> QED
  BY <1>1, Inductive, PTL

\* The EC2 frontend's 404 means what it says: everyone in scope was without the
\* address in some revision since the first list.
THEOREM NotFoundIsTrue == Spec => []NoFalseNotFound
<1>1. IInv => NoFalseNotFound
  BY DEF IInv, RequestInv, RequestOK, Response, Justified, NobodyJustified, Without,
         NoFalseNotFound, Answered
<1> QED
  BY <1>1, Inductive, PTL

\* The EC2 frontend's 500 is about two machines with one address, never about
\* a cache that is not up (backend/backend.go:50).
THEOREM ServerErrorIsAmbiguity == Spec => []ServerErrorJustified
<1>1. IInv => ServerErrorJustified
  BY DEF IInv, RequestInv, RequestOK, Response, Justified, MultipleJustified, With,
         ServerErrorJustified, Answered
<1> QED
  BY <1>1, Inductive, PTL

\* A request that has arrived never finds List waiting for the first sync, nor
\* refusing because the cache was not started: what EveryRequestAnswered needs
\* besides fairness (backend/backend.go:50, kubernetes/backend.go:136-154).
THEOREM LookupsNeverWait ==
    Spec => [](\A r \in Requests : req[r].pc # "idle" => HasSynced /\ ListAnswers)
<1>1. IInv => \A r \in Requests : req[r].pc # "idle" => HasSynced /\ ListAnswers
  BY DEF IInv, CacheInv, ListAnswers
<1> QED
  BY <1>1, Inductive, PTL

\* The cache shows every object that may be served as it is now.
CaughtUp ==
    newResult = "ready" /\ \A h \in Scope : snaps[rev[h]][h] = snaps[Len(snaps)][h]

LEMMA NowIsOwnership ==
  ASSUME NEW ip \in Addrs
  PROVE  NowAt(ip) = {h \in Scope : OwnedAt(Len(snaps), h, ip)}
BY DEF NowAt, Scope, OwnedAt, Promise!Owns

\* What makes EventuallyCurrent true once the informer has caught up, which it
\* does if it is given the time: a lookup then tells the present, however the
\* objects came to be what they are, and no machine that lost its address to
\* another is in the way (kubernetes/backend.go:136-154, index.go:13-25).
THEOREM CaughtUpIsCurrent == Spec => [](CaughtUp => \A ip \in Addrs : Current(ip))
<1>1. IInv => (CaughtUp => \A ip \in Addrs : Current(ip))
  <2> SUFFICES ASSUME IInv, CaughtUp, NEW ip \in Addrs
               PROVE  Current(ip)
    OBVIOUS
  <2> DEFINE res == retrieveByIP(ip)
             now == NowAt(ip)
  <2>1. TypeOK /\ HasSynced
    BY DEF IInv, CacheInv, CaughtUp
  <2>2. \A h \in Scope : OwnedAt(rev[h], h, ip) <=> OwnedAt(Len(snaps), h, ip)
    BY DEF CaughtUp, OwnedAt
  <2>3. List(ip) = now
    BY <2>1, <2>2, ListIsHolders, NowIsOwnership
  <2>4. \/ res = Failure("errNotFound") /\ now = {}
        \/ res = Failure("multiple") /\ \E g, h \in now : g # h
        \/ \E h \in Hardware : res = Found(h) /\ now = {h}
    BY <2>1, <2>3, RetrieveKinds
  <2>5. \A h : now = {h} => Cached(h) = snaps[Len(snaps)][h]
    <3> SUFFICES ASSUME NEW h, now = {h}
                 PROVE  Cached(h) = snaps[Len(snaps)][h]
      OBVIOUS
    <3>1. h \in Scope
      BY NowIsOwnership
    <3> QED
      BY <3>1, WatchedIsScope DEF Cached, CaughtUp
  <2> HIDE DEF res, now
  <2>6. CASE now = {}
    BY <2>4, <2>6 DEF Current, Failure, NoResult, res, now
  <2>7. ASSUME NEW h \in Hardware, now = {h}
        PROVE  Current(ip)
    <3>1. res = Found(h)
      BY <2>4, <2>7
    <3>2. res.kind = "found" /\ res.hw = h /\ res.obj = snaps[Len(snaps)][h]
      BY <2>5, <2>7, <3>1 DEF Found
    <3> QED
      BY <2>7, <3>2 DEF Current, res, now
  <2>8. CASE \E g, h \in now : g # h
    <3>1. res.kind = "multiple"
      BY <2>4, <2>8 DEF Failure, NoResult
    <3> QED
      BY <2>8, <3>1 DEF Current, res, now
  <2> QED
    BY <2>4, <2>6, <2>7, <2>8
<1> QED
  BY <1>1, Inductive, PTL

\* /healthz never says 200 over an informer that has stopped or never ran
\* (kubernetes/backend.go:112-120).
THEOREM HealthIsTrue == Spec => HealthTruth
<1>1. IInv /\ [Next]_vars =>
        \A r \in Requests :
           req[r].fe = "healthz" /\ req[r].status = 0 /\ req'[r].status = 200 =>
               cluster = "started"
  <2> SUFFICES ASSUME IInv, [Next]_vars, NEW r \in Requests,
                      req[r].fe = "healthz", req[r].status = 0, req'[r].status = 200
               PROVE  cluster = "started"
    OBVIOUS
  <2>1. req[r] # req'[r]
    OBVIOUS
  <2>2. /\ ~EC2Reject(r) /\ ~EC2Lookup(r) /\ ~EC2Respond(r)
        /\ ~HackLookup(r) /\ ~HackRespond(r)
    BY DEF EC2Reject, EC2Lookup, EC2Respond, HackLookup, HackRespond
  <2>3. \A s \in Requests : s # r /\ (Arrive(s) \/ Handle(s)) => req'[r] = req[r]
    BY DEF IInv, TypeOK, Arrive, Handle, EC2Reject, EC2Lookup, EC2Respond, HackLookup,
           HackRespond, Health
  <2>4. Arrive(r) => req'[r].status = 0
    BY DEF Arrive, IInv, TypeOK
  <2>5. CASE Health(r)
    <3>1. req[r].pc # "idle" /\ req[r].pc = "arrived"
      BY <2>5 DEF Health
    <3>2. req[r] \in RequestType /\ HasSynced
      BY <3>1, Handled
    <3>3. req'[r] = Moved(req[r], "done", req[r].res, IF IsHealthy THEN 200 ELSE 500, req[r].body)
      <4>1. Done(Abort(req[r], IF IsHealthy THEN 200 ELSE 500))
              = Moved(req[r], "done", req[r].res, IF IsHealthy THEN 200 ELSE 500, req[r].body)
        BY <3>2, AbortDone DEF Final
      <4> QED
        BY <2>5, <4>1 DEF Health, IInv, TypeOK
    <3>4. IsHealthy
      BY <3>3, MovedFields
    <3> QED
      BY <3>2, <3>4 DEF IsHealthy, HasSynced, IInv, CacheInv
  <2>6. \E s \in Requests : Arrive(s) \/ Handle(s)
    BY <2>1 DEF Next, vars
  <2>7. Arrive(r) \/ Handle(r)
    BY <2>1, <2>3, <2>6
  <2>8. ~Arrive(r)
    BY <2>4
  <2> QED
    BY <2>2, <2>5, <2>7, <2>8 DEF Handle
<1> QED
  BY <1>1, Inductive, PTL DEF Spec, HealthTruth

-----------------------------------------------------------------------------
(***************************************************************************)
(* The refinement: the Kubernetes backend, its index, its error            *)
(* translations and the two frontends implement InstanceLookup; each step  *)
(* maps to one of InstanceLookup or to none.                               *)
(***************************************************************************)

\* The mapping, as LookupPromise has it.
lookup == [r \in Requests |-> AbstractLookup(req[r])]

\* The question and answer of a request, by its fields.
Asked(ip, kind, hw, obj) == [ip |-> ip, kind |-> kind, hw |-> hw, obj |-> obj]

\* A handler's step changes its own lookup only.
LEMMA OneLookup ==
  ASSUME IInv, NEW r \in Requests, NEW q, req' = [req EXCEPT ![r] = q]
  PROVE  lookup' = [lookup EXCEPT ![r] = AbstractLookup(q)]
<1>1. \A s \in Requests : req'[s] = IF s = r THEN q ELSE req[s]
  BY DEF IInv, TypeOK
<1>2. lookup' = [s \in Requests |-> AbstractLookup(req'[s])]
  BY DEF lookup, AbstractLookup
<1>3. [lookup EXCEPT ![r] = AbstractLookup(q)] =
         [s \in Requests |-> IF s = r THEN AbstractLookup(q) ELSE AbstractLookup(req[s])]
  BY DEF lookup
<1> QED  BY <1>1, <1>2, <1>3

\* A step that moves a request on without a new result.
LEMMA SameLookup ==
  ASSUME IInv, NEW r \in Requests, NEW q, req' = [req EXCEPT ![r] = q],
         AbstractLookup(q) = AbstractLookup(req[r])
  PROVE  lookup' = lookup
<1>1. lookup' = [lookup EXCEPT ![r] = AbstractLookup(q)]
  BY OneLookup
<1>2. lookup[r] = AbstractLookup(q) /\ lookup = [s \in Requests |-> lookup[s]]
  BY DEF lookup
<1> HIDE DEF lookup
<1> QED  BY <1>1, <1>2

\* The fields of AbstractLookup.
LEMMA AbstractOpen ==
  ASSUME NEW q, q.pc # "idle", q.fe # "healthz", q.res = NoResult
  PROVE  AbstractLookup(q) = Asked(q.ip, "open", NoHardware, Absent)
  BY DEF AbstractLookup, Asked, NoResult

LEMMA AbstractResult ==
  ASSUME NEW q, q.pc # "idle", q.fe # "healthz", q.res.kind # "none"
  PROVE  AbstractLookup(q) = Asked(q.ip, Abstract(q.res.kind), q.res.hw, q.res.obj)
  BY DEF AbstractLookup, Asked

LEMMA AbstractNone ==
  ASSUME NEW q, q.pc = "idle" \/ q.fe = "healthz"
  PROVE  AbstractLookup(q) = Promise!NoLookup
  BY DEF AbstractLookup, Promise!NoLookup

\* Holders, as InstanceLookup has it, is what List finds.
LEMMA HoldersAreListed ==
  ASSUME TypeOK, NEW ip \in Addrs \cup {EmptyAddr}
  PROVE  Promise!Holders(ip) = List(ip)
<1>1. \A h : h \in Promise!Holders(ip) <=> h \in Scope /\ OwnedAt(rev[h], h, ip)
  BY DEF Promise!Holders, OwnedAt
<1> QED  BY <1>1, ListIsHolders

\* A request being handled has no result before its lookup: what InstanceLookup
\* needs to know of the requests beyond IInv.
FreshInv == \A r \in Requests : req[r].pc \in {"idle", "arrived"} => req[r].res = NoResult

\* What an answer of the backend is to InstanceLookup.
LEMMA RetrieveAnswers ==
  ASSUME TypeOK, HasSynced, NEW ip \in Addrs, NEW r \in Requests,
         lookup[r] = Asked(ip, "open", NoHardware, Absent),
         UNCHANGED <<snaps, rev>>, NEW kind, NEW res, res = retrieveByIP(ip),
         Abstract(kind) = Abstract(res.kind),
         lookup' = [lookup EXCEPT ![r] = Asked(ip, Abstract(kind), res.hw, res.obj)]
  PROVE  Promise!Answer(r)
<1>1. lookup[r].ip = ip /\ lookup[r].kind = "open"
  BY DEF Asked
<1>2. Promise!Holders(ip) = List(ip)
  BY HoldersAreListed
<1>3. CASE res = Failure("errNotFound") /\ List(ip) = {}
  <2>1. Promise!Becomes(r, ip, "nobody", NoHardware, Absent)
    BY <1>3 DEF Promise!Becomes, lookup, Asked, Abstract, Failure, NoResult
  <2> QED  BY <1>1, <1>2, <1>3, <2>1 DEF Promise!Answer, lookup
<1>4. CASE res = Failure("multiple") /\ \E g, h \in List(ip) : g # h
  <2>1. Promise!Becomes(r, ip, "refused", NoHardware, Absent)
    BY <1>4 DEF Promise!Becomes, lookup, Asked, Abstract, Failure, NoResult
  <2> QED  BY <1>1, <1>2, <1>4, <2>1 DEF Promise!Answer, lookup
<1>5. ASSUME NEW h \in Hardware, res = Found(h), List(ip) = {h}
      PROVE  Promise!Answer(r)
  <2>1. h \in Watched /\ Cached(h) = snaps[rev[h]][h]
    BY <1>5, ListIsHolders, WatchedIsScope DEF Cached
  <2>2. Promise!Becomes(r, ip, "found", h, snaps[rev[h]][h])
    <3>1. res.kind = "found" /\ res.hw = h /\ res.obj = snaps[rev[h]][h]
      BY <1>5, <2>1 DEF Found
    <3>2. Abstract(kind) = "found"
      BY <3>1 DEF Abstract
    <3> QED  BY <3>1, <3>2 DEF Promise!Becomes, lookup, Asked
  <2> QED  BY <1>1, <1>2, <1>5, <2>2 DEF Promise!Answer, lookup
<1> QED  BY <1>3, <1>4, <1>5, RetrieveKinds

-----------------------------------------------------------------------------
(* Step by step *)

\* A response leaves the lookup as it is.
LEMMA ResponseStep ==
  ASSUME IInv, FreshInv, NEW r \in Requests, req[r].pc # "idle", NEW status, NEW body,
         req' = [req EXCEPT ![r] = Moved(req[r], "done", req[r].res, status, body)]
  PROVE  lookup' = lookup /\ FreshInv'
<1> DEFINE q == Moved(req[r], "done", req[r].res, status, body)
<1>1. AbstractLookup(q) = AbstractLookup(req[r])
  BY MovedFields DEF AbstractLookup
<1>2. q.pc = "done" /\ \A s \in Requests : req'[s] = IF s = r THEN q ELSE req[s]
  BY MovedFields DEF IInv, TypeOK
<1> HIDE DEF q
<1> QED  BY <1>1, <1>2, SameLookup DEF FreshInv, q

\* A lookup.
LEMMA LookupStep ==
  ASSUME IInv, FreshInv, NEW r \in Requests, req[r].pc = "arrived", req[r].fe # "healthz",
         NEW res, res.kind # "none", NEW status, NEW body,
         req' = [req EXCEPT ![r] = Moved(req[r], "looked", res, status, body)]
  PROVE  /\ lookup[r] = Asked(req[r].ip, "open", NoHardware, Absent)
         /\ lookup' = [lookup EXCEPT ![r] = Asked(req[r].ip, Abstract(res.kind), res.hw, res.obj)]
         /\ FreshInv'
<1> DEFINE q == Moved(req[r], "looked", res, status, body)
<1>1. q.pc = "looked" /\ q.fe = req[r].fe /\ q.ip = req[r].ip /\ q.res = res
  BY MovedFields
<1>2. \A s \in Requests : req'[s] = IF s = r THEN q ELSE req[s]
  BY DEF IInv, TypeOK
<1> HIDE DEF q
<1>3. lookup' = [lookup EXCEPT ![r] = AbstractLookup(q)]
  BY OneLookup DEF q
<1>4. AbstractLookup(q) = Asked(req[r].ip, Abstract(res.kind), res.hw, res.obj)
  BY <1>1, AbstractResult
<1>5. AbstractLookup(req[r]) = Asked(req[r].ip, "open", NoHardware, Absent)
  BY AbstractOpen DEF FreshInv
<1>6. FreshInv'
  BY <1>1, <1>2 DEF FreshInv
<1> QED  BY <1>3, <1>4, <1>5, <1>6 DEF lookup

LEMMA EC2LookupRefines ==
  ASSUME IInv, FreshInv, NEW r \in Requests, EC2Lookup(r)
  PROVE  Promise!Answer(r) /\ FreshInv'
<1> DEFINE old == req[r]
           res == retrieveByIP(old.ip)
           own == GetEC2Instance(old.ip)
<1>1. /\ HasSynced /\ old \in RequestType /\ old.pc = "arrived" /\ old.fe = "ec2"
      /\ old.ip \in Addrs /\ UNCHANGED <<snaps, rev>>
  BY Handled DEF EC2Lookup, RequestType, backendVars
<1>2. req' = [req EXCEPT ![r] = Moved(old, "looked", own, old.status, old.body)]
  BY <1>1, LookedMoved DEF EC2Lookup
<1>3. /\ own.kind # "none" /\ Abstract(own.kind) = Abstract(res.kind)
      /\ own.hw = res.hw /\ own.obj = res.obj
  <2>1. \/ res = Failure("errNotFound") \/ res = Failure("multiple")
        \/ \E h \in Hardware : res = Found(h)
    BY <1>1, RetrieveKinds DEF IInv
  <2>2. CASE res = Failure("errNotFound")
    <3>1. own = Failure("ErrInstanceNotFound") /\ res.kind = "errNotFound"
      BY <2>2 DEF GetEC2Instance, Failure, NoResult
    <3> HIDE DEF res, own
    <3> QED  BY <2>2, <3>1 DEF Failure, NoResult, Abstract
  <2>3. CASE res = Failure("multiple") \/ \E h \in Hardware : res = Found(h)
    <3>1. res.kind \in {"multiple", "found"}
      <4>1. \A h : Found(h).kind = "found"
        BY DEF Found
      <4>2. Failure("multiple").kind = "multiple"
        BY DEF Failure, NoResult
      <4> HIDE DEF res
      <4> QED  BY <2>3, <4>1, <4>2
    <3>2. own = res
      BY <3>1 DEF GetEC2Instance
    <3> HIDE DEF res, own
    <3> QED  BY <3>1, <3>2
  <2> QED  BY <2>1, <2>2, <2>3
<1> HIDE DEF res, own
<1>4. /\ lookup[r] = Asked(old.ip, "open", NoHardware, Absent)
      /\ lookup' = [lookup EXCEPT ![r] = Asked(old.ip, Abstract(own.kind), own.hw, own.obj)]
      /\ FreshInv'
  <2>1. old.fe # "healthz"
    BY <1>1
  <2> QED  BY <1>1, <1>2, <1>3, <2>1, LookupStep
<1> QED  BY <1>1, <1>3, <1>4, RetrieveAnswers DEF IInv, res

LEMMA HackLookupRefines ==
  ASSUME IInv, FreshInv, NEW r \in Requests, HackLookup(r)
  PROVE  Promise!Answer(r) /\ FreshInv'
<1> DEFINE old == req[r]
<1>1. /\ HasSynced /\ old \in RequestType /\ old.pc = "arrived" /\ old.fe = "hack"
      /\ old.fe # "healthz" /\ UNCHANGED <<snaps, rev>>
  BY Handled DEF HackLookup, backendVars
\* An unusable address is nobody's, as the empty one that is looked up is.
<1>2. CASE old.ip = BadAddr
  <2> DEFINE res == Failure("errNotFound")
             status == Final(old, 400)
  <2>1. GetHackInstance(EmptyAddr) = res
    BY <1>1, EmptyIsNobody DEF IInv, GetHackInstance, Failure, NoResult
  <2>2. Looked(Abort(old, 400), res) = Moved(old, "looked", res, status, old.body)
    BY <1>1, LookedAbort
  <2>3. req' = [req EXCEPT ![r] = Moved(old, "looked", res, status, old.body)]
    BY <1>2, <2>1, <2>2, Zenon DEF HackLookup
  <2>4. res.kind = "errNotFound" /\ res.hw = NoHardware /\ res.obj = Absent
    BY DEF Failure, NoResult
  <2> HIDE DEF res, status
  <2>5. /\ lookup[r] = Asked(old.ip, "open", NoHardware, Absent)
        /\ lookup' = [lookup EXCEPT ![r] = Asked(old.ip, Abstract(res.kind), res.hw, res.obj)]
        /\ FreshInv'
    <3>1. res.kind # "none"
      BY <2>4
    <3> QED  BY <1>1, <2>3, <3>1, LookupStep
  <2>6. Promise!Becomes(r, old.ip, "nobody", NoHardware, Absent)
    <3>1. Abstract(res.kind) = "nobody"
      BY <2>4 DEF Abstract
    <3> QED  BY <2>4, <2>5, <3>1 DEF Promise!Becomes, lookup, Asked
  <2>7. Promise!Holders(old.ip) = {}
    BY <1>2, ArrivalAssumption DEF Promise!Holders, Promise!Owns
  <2>8. lookup[r].ip = old.ip /\ lookup[r].kind = "open"
    BY <2>5 DEF Asked
  <2> QED  BY <1>1, <2>5, <2>6, <2>7, <2>8 DEF Promise!Answer, lookup
<1>3. CASE old.ip # BadAddr
  <2> DEFINE res == retrieveByIP(old.ip)
             own == GetHackInstance(old.ip)
  <2>1. old.ip \in Addrs
    BY <1>1, <1>3 DEF RequestType
  <2>2. res \in ResultType /\ res.kind \in {"found", "errNotFound", "multiple"}
    BY <1>1, <2>1, RetrieveJustified DEF IInv
  <2>3. req' = [req EXCEPT ![r] = Moved(old, "looked", own, old.status, old.body)]
    <3>1. Looked(old, own) = Moved(old, "looked", own, old.status, old.body)
      BY <1>1, LookedMoved
    <3> QED  BY <1>3, <3>1 DEF HackLookup
  <2>4. /\ own.kind # "none" /\ Abstract(own.kind) = Abstract(res.kind)
        /\ own.hw = res.hw /\ own.obj = res.obj
    <3>1. CASE res.kind = "found" /\ ~res.obj.renderable
      <4>1. own = [res EXCEPT !.kind = "unrenderable"]
        BY <3>1 DEF GetHackInstance
      <4> HIDE DEF res, own
      <4>2. own.kind = "unrenderable" /\ own.hw = res.hw /\ own.obj = res.obj
        BY <2>2, <4>1 DEF ResultType
      <4> QED  BY <3>1, <4>2 DEF Abstract
    <3>2. CASE ~(res.kind = "found" /\ ~res.obj.renderable)
      <4>1. own = res
        BY <3>2 DEF GetHackInstance
      <4> HIDE DEF res, own
      <4> QED  BY <2>2, <4>1
    <3> QED  BY <3>1, <3>2
  <2> HIDE DEF res, own
  <2>5. /\ lookup[r] = Asked(old.ip, "open", NoHardware, Absent)
        /\ lookup' = [lookup EXCEPT ![r] = Asked(old.ip, Abstract(own.kind), own.hw, own.obj)]
        /\ FreshInv'
    BY <1>1, <2>3, <2>4, LookupStep
  <2> QED  BY <1>1, <2>1, <2>4, <2>5, RetrieveAnswers DEF IInv, res
<1> QED  BY <1>2, <1>3

LEMMA ArriveRefines ==
  ASSUME IInv, FreshInv, NEW r \in Requests, Arrive(r)
  PROVE  (Promise!Ask(r) \/ Promise!Forget(r)) /\ FreshInv'
<1>1. PICK a \in Arrivals :
        req' = [req EXCEPT ![r] =
                  [pc |-> "arrived", fe |-> a.fe, peer |-> a.peer, xff |-> a.xff,
                   ip |-> Middleware(a.peer, a.xff), res |-> NoResult, status |-> 0,
                   body |-> Absent]]
  BY DEF Arrive
<1> DEFINE ip == Middleware(a.peer, a.xff)
           q == [pc |-> "arrived", fe |-> a.fe, peer |-> a.peer, xff |-> a.xff,
                 ip |-> ip, res |-> NoResult, status |-> 0, body |-> Absent]
<1>2. ip \in Addrs \cup {BadAddr} /\ UNCHANGED <<snaps, rev>>
  BY ArrivalAssumption DEF Middleware, Arrive, backendVars
<1> HIDE DEF ip
<1>3. q.pc = "arrived" /\ q.ip = ip /\ q.res = NoResult
  OBVIOUS
<1> HIDE DEF q
<1>4. req' = [req EXCEPT ![r] = q]
  BY <1>1 DEF q, ip
<1>5. FreshInv'
  <2>1. \A s \in Requests : req'[s] = IF s = r THEN q ELSE req[s]
    BY <1>4 DEF IInv, TypeOK
  <2> QED  BY <1>3, <2>1 DEF FreshInv
<1>6. lookup' = [lookup EXCEPT ![r] = AbstractLookup(q)]
  BY <1>4, OneLookup
<1>7. CASE q.fe = "healthz"
  <2>1. Promise!Forget(r)
    BY <1>2, <1>6, <1>7, AbstractNone DEF Promise!Forget, lookup
  <2> QED  BY <1>5, <2>1
<1>8. CASE q.fe # "healthz"
  <2>1. AbstractLookup(q) = Asked(ip, "open", NoHardware, Absent)
    BY <1>3, <1>8, AbstractOpen
  <2>2. Promise!Becomes(r, ip, "open", NoHardware, Absent)
    BY <1>6, <2>1 DEF Promise!Becomes, lookup, Asked
  <2> QED  BY <1>2, <1>5, <2>2 DEF Promise!Ask
<1> QED  BY <1>7, <1>8

\* The steps that answer a request.
LEMMA RespondRefines ==
  ASSUME IInv, FreshInv, NEW r \in Requests,
         EC2Reject(r) \/ EC2Respond(r) \/ HackRespond(r) \/ Health(r)
  PROVE  UNCHANGED <<snaps, rev, lookup>> /\ FreshInv'
<1> DEFINE old == req[r]
<1>1. old.pc # "idle" /\ UNCHANGED <<snaps, rev>>
  BY DEF EC2Reject, EC2Respond, HackRespond, Health, backendVars
<1>2. old \in RequestType
  BY <1>1, Handled
<1>3. \E status, body : req' = [req EXCEPT ![r] = Moved(old, "done", old.res, status, body)]
  <2>1. \A status : Done(Abort(old, status)) = Moved(old, "done", old.res, Final(old, status), old.body)
    BY <1>2, AbortDone
  <2>2. \A body : Done(Reply(old, body)) = Moved(old, "done", old.res, Final(old, 200), body)
    BY <1>2, ReplyDone
  <2>3. \/ \E status : req' = [req EXCEPT ![r] = Done(Abort(old, status))]
        \/ \E body : req' = [req EXCEPT ![r] = Done(Reply(old, body))]
    BY DEF EC2Reject, EC2Respond, HackRespond, Health
  <2> QED  BY <2>1, <2>2, <2>3
<1> QED  BY <1>1, <1>3, ResponseStep

LEMMA BackendRefines ==
  ASSUME IInv, FreshInv, BackendNext, UNCHANGED req
  PROVE  [Promise!Next]_Promise!lookupVars /\ FreshInv'
<1>1. UNCHANGED lookup
  BY DEF lookup, AbstractLookup
<1>2. FreshInv'
  BY DEF FreshInv
<1>3. ASSUME NEW h \in Hardware, NEW object \in Objects \cup {Absent}, Write(h, object)
      PROVE  Promise!Change
  <2>1. snaps[Len(snaps)] \in [Hardware -> Objects \cup {Absent}]
    BY DEF IInv, TypeOK
  <2>2. [snaps[Len(snaps)] EXCEPT ![h] = object] \in [Hardware -> Objects \cup {Absent}]
    BY <2>1
  <2> QED  BY <1>1, <1>3, <2>2 DEF Write, informerVars, Promise!Change, lookup
<1>4. ASSUME NEW h \in Hardware, Pop(h)
      PROVE  Promise!Learn
  <2>1. UNCHANGED snaps /\ DOMAIN rev' = Hardware /\ \A g \in Hardware : rev'[g] \in rev[g]..Len(snaps)
    BY <1>4 DEF IInv, TypeOK, Pop
  <2> QED  BY <1>1, <2>1 DEF Promise!Learn, lookup
<1>5. ASSUME \/ FirstList \/ Fetch \/ NewBackend \/ ClusterStart \/ ClusterStop \/ New
             \/ NewSyncFails \/ CancelCtx
      PROVE  UNCHANGED <<snaps, rev>>
  BY <1>5 DEF FirstList, Fetch, NewBackend, ClusterStart, ClusterStop, New, NewSyncFails,
              CancelCtx, informerVars
<1> QED
  BY <1>1, <1>2, <1>3, <1>4, <1>5 DEF BackendNext, Promise!Next, Promise!lookupVars, lookup

LEMMA InitRefines == APIInit => Promise!Init /\ FreshInv
<1> SUFFICES ASSUME APIInit PROVE Promise!Init /\ FreshInv
  OBVIOUS
<1>1. \A r \in Requests : req[r] = NoRequest
  BY DEF APIInit
<1>2. FreshInv
  BY <1>1 DEF FreshInv, NoRequest
<1>3. AbstractLookup(NoRequest) = Promise!NoLookup
  <2>1. NoRequest.pc = "idle"
    BY DEF NoRequest
  <2> QED  BY <2>1, AbstractNone
<1>4. [r \in Requests |-> AbstractLookup(req[r])] = [r \in Requests |-> Promise!NoLookup]
  BY <1>1, <1>3
<1> QED  BY <1>2, <1>4 DEF APIInit, BackendInit, Promise!Init

LEMMA NextRefines == IInv /\ FreshInv /\ [Next]_vars => [Promise!Next]_Promise!lookupVars /\ FreshInv'
<1> SUFFICES ASSUME IInv, FreshInv, [Next]_vars
             PROVE  [Promise!Next]_Promise!lookupVars /\ FreshInv'
  OBVIOUS
<1>1. CASE BackendNext /\ UNCHANGED req
  BY <1>1, BackendRefines
<1>2. ASSUME NEW r \in Requests, Arrive(r)
      PROVE  [Promise!Next]_Promise!lookupVars /\ FreshInv'
  BY <1>2, ArriveRefines DEF Promise!Next
<1>3. ASSUME NEW r \in Requests, Handle(r)
      PROVE  [Promise!Next]_Promise!lookupVars /\ FreshInv'
  <2>1. CASE EC2Lookup(r) \/ HackLookup(r)
    BY <2>1, EC2LookupRefines, HackLookupRefines DEF Promise!Next
  <2>2. CASE EC2Reject(r) \/ EC2Respond(r) \/ HackRespond(r) \/ Health(r)
    BY <2>2, RespondRefines DEF Promise!lookupVars, lookup
  <2> QED  BY <1>3, <2>1, <2>2 DEF Handle
<1>4. CASE UNCHANGED vars
  BY <1>4 DEF vars, FreshInv, Promise!lookupVars, AbstractLookup
<1> QED  BY <1>1, <1>2, <1>3, <1>4 DEF Next

\* The backend and the frontends keep InstanceLookup's promise: from its index
\* to its error translations, every answer is that of one moment's knowledge
\* (kubernetes/backend.go:122-154, index.go:13-25, kubernetes/hack.go:11-22).
THEOREM BackendKeepsPromise == Spec => LookupPromise
<1>1. Spec => [](IInv /\ FreshInv)
  <2>1. APIInit => IInv /\ FreshInv
    BY InitIInv, InitRefines
  <2>2. IInv /\ FreshInv /\ [Next]_vars => (IInv /\ FreshInv)'
    BY NextIInv, NextRefines
  <2> QED  BY <2>1, <2>2, PTL DEF Spec
<1> QED  BY <1>1, InitRefines, NextRefines, PTL DEF Spec, LookupPromise, Promise!Spec
=============================================================================
