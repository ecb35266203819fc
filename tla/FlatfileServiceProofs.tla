----------------------- MODULE FlatfileServiceProofs -----------------------
(***************************************************************************)
(* Proof that the flat file backend serves the last instance with an       *)
(* address, for every file, every list of trusted proxies and any number   *)
(* of requests.  The inductive invariant is that of toIPInstanceMap's      *)
(* loop: the map is right about the instances before the turn at hand.     *)
(***************************************************************************)
EXTENDS FlatfileService, TLAPS, SequenceTheorems

\* The map after the first turns of the loop.
MapInv ==
    /\ DOMAIN instances = {file[i] : i \in 1..(turn - 1)}
    /\ \A a \in DOMAIN instances :
          /\ instances[a] \in 1..(turn - 1)
          /\ file[instances[a]] = a
          /\ \A i \in 1..(turn - 1) : file[i] = a => i <= instances[a]

LoadInv ==
    /\ file \in Files /\ file \in Seq(Addrs \cup {EmptyAddr})
    /\ turn \in 1..(Len(file) + 1)
    /\ loading = "ready" => turn = Len(file) + 1

ReqInv ==
    /\ req \in [Requests -> RequestType]
    /\ \A r \in Requests : req[r].pc # "idle" => loading = "ready"

IInv == LoadInv /\ MapInv /\ ReqInv /\ LastInFileWins

LEMMA InitIInv == ServiceInit => IInv
<1> SUFFICES ASSUME ServiceInit PROVE IInv
  OBVIOUS
<1> USE DEF ServiceInit, Init
<1>1. LoadInv
  BY FileAssumption DEF LoadInv
<1>2. MapInv
  BY DEF MapInv
<1>3. ReqInv /\ LastInFileWins
  BY DEF ReqInv, RequestType, NoRequest, LastInFileWins, Answered
<1> QED  BY <1>1, <1>2, <1>3 DEF IInv

\* A turn of the loop.
LEMMA MapStep == LoadInv /\ MapInv /\ Map => LoadInv' /\ MapInv'
<1> SUFFICES ASSUME LoadInv, MapInv, Map PROVE LoadInv' /\ MapInv'
  OBVIOUS
<1>1. /\ turn \in 1..Len(file) /\ turn' = turn + 1 /\ file' = file /\ loading' = loading
      /\ loading = "mapping" /\ Len(file) \in Nat
      /\ instances' = Put(instances, file[turn], turn)
  BY DEF Map, LoadInv
<1>2. LoadInv'
  BY <1>1 DEF LoadInv
<1>3. 1..(turn' - 1) = 1..(turn - 1) \cup {turn}
  BY <1>1
<1>4. /\ DOMAIN instances' = DOMAIN instances \cup {file[turn]}
      /\ \A a \in DOMAIN instances' :
            instances'[a] = IF a = file[turn] THEN turn ELSE instances[a]
  BY <1>1 DEF Put
<1>5. DOMAIN instances' = {file'[i] : i \in 1..(turn' - 1)}
  BY <1>1, <1>3, <1>4 DEF MapInv
<1>6. ASSUME NEW a \in DOMAIN instances'
      PROVE  /\ instances'[a] \in 1..(turn' - 1)
             /\ file'[instances'[a]] = a
             /\ \A i \in 1..(turn' - 1) : file'[i] = a => i <= instances'[a]
  <2>1. CASE a = file[turn]
    BY <1>1, <1>3, <1>4, <2>1
  <2>2. CASE a # file[turn]
    BY <1>1, <1>3, <1>4, <2>2 DEF MapInv
  <2> QED  BY <2>1, <2>2
<1> QED  BY <1>2, <1>5, <1>6 DEF MapInv

\* What LastInFileWins says of the answers is what the complete map gives.
LEMMA MapIsRight ==
  ASSUME LoadInv, MapInv, loading = "ready", NEW ip \in Addrs
  PROVE  /\ ip \in DOMAIN instances <=> Holders(ip) # {}
         /\ ip \in DOMAIN instances =>
               /\ instances[ip] \in Holders(ip) /\ instances[ip] # 0 /\ instances[ip] \in Nat
               /\ \A i \in Holders(ip) : i <= instances[ip]
<1>1. Len(file) \in Nat /\ turn - 1 = Len(file)
  BY DEF LoadInv
<1> QED  BY <1>1 DEF MapInv, Holders

\* What Receive makes of a request.
LEMMA Arrived ==
  ASSUME NEW fe \in {"ec2", "hack", "healthz"}, NEW ip \in Addrs \cup {BadAddr},
         NEW q, q = [NoRequest EXCEPT !.pc = "arrived", !.fe = fe, !.ip = ip]
  PROVE  q \in RequestType /\ q.pc = "arrived"
<1> DEFINE Pcs == {"idle", "arrived", "done"}
           Fes == {"ec2", "hack", "healthz"}
           Ips == Addrs \cup {BadAddr}
           Codes == {0, 200, 400, 404, 500}
<1>1. "arrived" \in Pcs /\ fe \in Fes /\ ip \in Ips
  OBVIOUS
<1>2. RequestType = [pc : Pcs, fe : Fes, ip : Ips, status : Codes, body : Nat]
  BY DEF RequestType
<1>3. NoRequest \in RequestType
  BY DEF NoRequest, RequestType
<1> HIDE DEF Pcs, Fes, Ips, Codes
<1> QED  BY <1>1, <1>2, <1>3

LEMMA NextIInv == IInv /\ [ServiceNext]_serviceVars => IInv'
<1> SUFFICES ASSUME IInv, [ServiceNext]_serviceVars PROVE IInv'
  OBVIOUS
<1> USE DEF IInv
\* Steps that leave the map alone, and requests with it.
<1>1. ASSUME UNCHANGED <<file, turn, instances, req>>, loading' = "ready" => turn = Len(file) + 1,
             loading = "ready" => loading' = "ready"
      PROVE  IInv'
  BY <1>1 DEF LoadInv, MapInv, ReqInv, LastInFileWins, Answered, Holders
<1>2. CASE UNCHANGED serviceVars
  BY <1>1, <1>2 DEF serviceVars, vars, loadVars, LoadInv
<1>3. CASE Open
  BY <1>1, <1>3 DEF Open
<1>4. CASE NewBackend
  BY <1>1, <1>4 DEF NewBackend, LoadInv
<1>5. CASE Proxies!Next /\ UNCHANGED <<vars, sent>>
  BY <1>1, <1>5 DEF vars, loadVars, LoadInv
<1>6. CASE Map
  <2>1. LoadInv' /\ MapInv'
    BY <1>6, MapStep
  <2>2. \A r \in Requests : req[r].pc = "idle"
    BY <1>6 DEF Map, ReqInv
  <2>3. req' = req
    BY <1>6 DEF Map
  <2>4. ReqInv' /\ LastInFileWins'
    BY <2>2, <2>3 DEF ReqInv, LastInFileWins, Answered
  <2> QED  BY <2>1, <2>4
\* Steps of one request over an unchanged map.
<1>7. ASSUME NEW r \in Requests, NEW q \in RequestType, req' = [req EXCEPT ![r] = q],
             UNCHANGED loadVars, loading = "ready",
             q.pc = "done" /\ q.fe = "ec2" =>
                /\ q.status = 404 <=> Holders(q.ip) = {} /\ q.ip # BadAddr
                /\ q.body # 0 <=> Holders(q.ip) # {}
                /\ q.body # 0 => q.body \in Holders(q.ip) /\ \A i \in Holders(q.ip) : i <= q.body
      PROVE  IInv'
  <2>1. LoadInv' /\ MapInv'
    BY <1>7 DEF loadVars, LoadInv, MapInv
  <2>2. ReqInv'
    BY <1>7 DEF ReqInv, loadVars
  <2>3. ASSUME NEW p \in Requests, Answered(p)'
        PROVE  LET holders == Holders(req'[p].ip) IN
               /\ req'[p].status = 404 <=> holders = {} /\ req'[p].ip # BadAddr
               /\ req'[p].body # 0 <=> holders # {}
               /\ req'[p].body # 0 => /\ req'[p].body \in holders
                                      /\ \A i \in holders : i <= req'[p].body
    <3>1. CASE p = r
      <4>1. req'[p] = q
        BY <1>7, <3>1 DEF ReqInv
      <4> QED  BY <1>7, <2>3, <4>1 DEF Answered
    <3>2. CASE p # r
      <4>1. req'[p] = req[p]
        BY <1>7, <3>2 DEF ReqInv
      <4> QED  BY <2>3, <4>1 DEF Answered, LastInFileWins
    <3> QED  BY <3>1, <3>2
  <2>4. LastInFileWins'
    <3> SUFFICES ASSUME NEW p \in Requests, Answered(p)'
                 PROVE  LET holders == {i \in 1..Len(file') : req'[p].ip \in Addrs /\ file'[i] = req'[p].ip} IN
                        /\ req'[p].status = 404 <=> holders = {} /\ req'[p].ip # BadAddr
                        /\ req'[p].body # 0 <=> holders # {}
                        /\ req'[p].body # 0 => /\ req'[p].body \in holders
                                               /\ \A i \in holders : i <= req'[p].body
      BY DEF LastInFileWins, Holders
    <3> DEFINE H == {i \in 1..Len(file') : req'[p].ip \in Addrs /\ file'[i] = req'[p].ip}
    <3>1. Holders(req'[p].ip) = H
      BY <1>7 DEF Holders, loadVars
    <3> HIDE DEF H
    <3>2. /\ req'[p].status = 404 <=> H = {} /\ req'[p].ip # BadAddr
          /\ req'[p].body # 0 <=> H # {}
          /\ req'[p].body # 0 => req'[p].body \in H /\ \A i \in H : i <= req'[p].body
      BY <2>3, <3>1
    <3> QED  BY <3>2 DEF H
  <2> QED  BY <2>1, <2>2, <2>4
<1>8. ASSUME NEW r \in Requests, Deliver(r)
      PROVE  IInv'
  <2>1. PICK fe \in {"ec2", "hack", "healthz"}, peer \in Senders \cup {BadAddr},
             header \in Headers \cup {NoHeader} : Receive(r, fe, ClientIP(peer, header))
    BY <1>8 DEF Deliver
  <2>2. ClientIP(peer, header) \in Addrs \cup {BadAddr}
    BY ServiceAssumption DEF ClientIP
  <2> DEFINE q == [NoRequest EXCEPT !.pc = "arrived", !.fe = fe, !.ip = ClientIP(peer, header)]
  <2>3. q \in RequestType /\ q.pc = "arrived"
    <3> HIDE DEF ClientIP
    <3> QED  BY <2>2, Arrived
  <2>4. req' = [req EXCEPT ![r] = q] /\ UNCHANGED loadVars /\ loading = "ready"
    BY <2>1 DEF Receive
  <2> QED
    <3> HIDE DEF q
    <3> QED  BY <1>7, <2>3, <2>4
\* A request that is answered.
<1>9. ASSUME NEW r \in Requests, NEW fe \in {"ec2", "hack", "healthz"},
             NEW status \in {200, 400, 404, 500}, NEW body \in Nat,
             Respond(r, fe, status, body),
             fe = "ec2" =>
                LET holders == Holders(req[r].ip) IN
                /\ status = 404 <=> holders = {} /\ req[r].ip # BadAddr
                /\ body # 0 <=> holders # {}
                /\ body # 0 => body \in holders /\ \A i \in holders : i <= body
      PROVE  IInv'
  <2> DEFINE q == [req[r] EXCEPT !.pc = "done", !.status = status, !.body = body]
  <2>1. /\ req' = [req EXCEPT ![r] = q] /\ UNCHANGED loadVars
        /\ req[r].pc = "arrived" /\ req[r].fe = fe
    BY <1>9 DEF Respond
  <2>2. loading = "ready" /\ req[r] \in RequestType
    BY <2>1 DEF ReqInv
  <2>3. /\ q \in RequestType /\ q.pc = "done" /\ q.fe = fe /\ q.status = status
        /\ q.body = body /\ q.ip = req[r].ip
    <3> DEFINE Pcs == {"idle", "arrived", "done"}
               Fes == {"ec2", "hack", "healthz"}
               Ips == Addrs \cup {BadAddr}
               Codes == {0, 200, 400, 404, 500}
    <3>1. /\ "done" \in Pcs /\ status \in Codes
          /\ RequestType = [pc : Pcs, fe : Fes, ip : Ips, status : Codes, body : Nat]
      BY DEF RequestType
    <3> HIDE DEF Pcs, Fes, Ips, Codes
    <3> QED  BY <2>1, <2>2, <3>1
  <2>4. q.pc = "done" /\ q.fe = "ec2" =>
           /\ q.status = 404 <=> Holders(q.ip) = {} /\ q.ip # BadAddr
           /\ q.body # 0 <=> Holders(q.ip) # {}
           /\ q.body # 0 => q.body \in Holders(q.ip) /\ \A i \in Holders(q.ip) : i <= q.body
    <3> HIDE DEF q
    <3> QED  BY <1>9, <2>3
  <2> QED
    <3> HIDE DEF q
    <3> QED  BY <1>7, <2>1, <2>2, <2>3, <2>4
<1>10. ASSUME NEW r \in Requests, EC2(r)
       PROVE  IInv'
  <2>1. req[r].ip \in Addrs \cup {BadAddr} /\ (req[r].pc = "arrived" => loading = "ready")
    BY DEF ReqInv, RequestType
  <2>2. CASE req[r].ip = BadAddr
    <3>1. Holders(BadAddr) = {}
      BY FileAssumption DEF Holders
    <3>2. Respond(r, "ec2", 400, 0)
      BY <1>10, <2>2 DEF EC2
    <3> QED  BY <1>9, <2>2, <3>1, <3>2
  <2>3. CASE req[r].ip # BadAddr /\ req[r].ip \in DOMAIN instances
    <3>1. Respond(r, "ec2", 200, instances[req[r].ip])
      BY <1>10, <2>3 DEF EC2
    <3>2. loading = "ready" /\ req[r].ip \in Addrs
      BY <2>1, <2>3, <3>1 DEF Respond
    <3> QED  BY <1>9, <2>3, <3>1, <3>2, MapIsRight
  <2>4. CASE req[r].ip # BadAddr /\ req[r].ip \notin DOMAIN instances
    <3>1. Respond(r, "ec2", 404, 0)
      BY <1>10, <2>4 DEF EC2
    <3>2. loading = "ready" /\ req[r].ip \in Addrs
      BY <2>1, <2>4, <3>1 DEF Respond
    <3> QED  BY <1>9, <2>4, <3>1, <3>2, MapIsRight
  <2> QED  BY <2>2, <2>3, <2>4
<1>11. ASSUME NEW r \in Requests, Hack(r) \/ Health(r)
       PROVE  IInv'
  <2>1. CASE Hack(r)
    BY <1>9, <2>1 DEF Hack
  <2>2. CASE Health(r)
    BY <1>9, <2>2 DEF Health
  <2> QED  BY <1>11, <2>1, <2>2
<1> QED  BY <1>2, <1>3, <1>4, <1>5, <1>6, <1>8, <1>10, <1>11 DEF ServiceNext

LEMMA Inductive == ServiceSpec => []IInv
  BY InitIInv, NextIInv, PTL DEF ServiceSpec

\* An address is served the last instance of the file that carries it
\* (flatfile/backend.go:20-28, 90-96).
THEOREM LastInstanceServed == ServiceSpec => []LastInFileWins
<1>1. IInv => LastInFileWins
  BY DEF IInv
<1> QED  BY <1>1, Inductive, PTL

\* The map holds instances of the file only, and no request is told what none
\* of the frontends says (flatfile/backend.go:20-28, 90-96, hack.go:10-13).
THEOREM TypeCorrect == ServiceSpec => []TypeOK
<1> DEFINE Loading == loading \in LoadStates
<1>1. ServiceInit => Loading
  BY DEF ServiceInit, Init, LoadStates
<1>2. Loading /\ [ServiceNext]_serviceVars => Loading'
  BY DEF ServiceNext, serviceVars, vars, loadVars, LoadStates, Open, Map, NewBackend, Deliver,
         Receive, EC2, Hack, Health, Respond
<1>3. IInv /\ Loading => TypeOK
  <2> SUFFICES ASSUME IInv, loading \in LoadStates PROVE TypeOK
    OBVIOUS
  <2>1. Len(file) \in Nat /\ turn \in 1..(Len(file) + 1)
    BY DEF IInv, LoadInv
  <2>2. \A a \in DOMAIN instances : instances[a] \in 1..Len(file)
    BY <2>1 DEF IInv, MapInv
  <2>3. Range(instances) \subseteq 1..Len(file)
    BY <2>2 DEF Range
  <2> QED  BY <2>1, <2>3 DEF IInv, LoadInv, ReqInv, TypeOK
<1> HIDE DEF Loading
<1> QED  BY <1>1, <1>2, <1>3, Inductive, PTL DEF ServiceSpec

-----------------------------------------------------------------------------
(***************************************************************************)
(* The refinement: over a file without repeated addresses the backend      *)
(* implements InstanceLookup.  The store goes through two revisions, empty *)
(* and the file, and is known at the second once the map is complete.      *)
(***************************************************************************)

\* The mapping, as LookupPromise has it.
snaps == IF loading \in {"mapping", "ready"} THEN <<AllAbsent, FileSnap>> ELSE <<AllAbsent>>
known == [i \in 1..MaxInstances |-> IF loading = "ready" THEN 2 ELSE 1]
lookup == [r \in Requests |-> AbstractLookup(req[r])]

Asks(q) == Distinct /\ q.pc # "idle" /\ q.fe = "ec2"

\* A request that has just arrived has no answer yet.
FreshInv == \A r \in Requests : req[r].pc # "done" => req[r].status = 0 /\ req[r].body = 0

LEMMA AbstractIs ==
  ASSUME NEW q
  PROVE  /\ ~Asks(q) => AbstractLookup(q) = Promise!NoLookup
         /\ Asks(q) /\ q.status = 200 /\ q.body # 0 =>
               AbstractLookup(q) = [ip |-> q.ip, kind |-> "found", hw |-> q.body, obj |-> FileSnap[q.body]]
         /\ Asks(q) /\ q.status = 404 /\ q.body = 0 =>
               AbstractLookup(q) = [ip |-> q.ip, kind |-> "nobody", hw |-> 0, obj |-> Absent]
         /\ Asks(q) /\ q.status \notin {200, 404} /\ q.body = 0 =>
               AbstractLookup(q) = [ip |-> q.ip, kind |-> "open", hw |-> 0, obj |-> Absent]
<1>1. ~Asks(q) => AbstractLookup(q) = Promise!NoLookup
  BY DEF AbstractLookup, Asks, Promise!NoLookup
<1>2. CASE Asks(q) /\ q.status = 200 /\ q.body # 0
  BY <1>2 DEF AbstractLookup, Asks
<1>3. CASE Asks(q) /\ q.status = 404 /\ q.body = 0
  BY <1>3 DEF AbstractLookup, Asks
<1>4. CASE Asks(q) /\ q.status \notin {200, 404} /\ q.body = 0
  BY <1>4 DEF AbstractLookup, Asks
<1> QED  BY <1>1, <1>2, <1>3, <1>4

LEMMA OneLookup ==
  ASSUME IInv, UNCHANGED file, NEW r \in Requests, NEW q, req' = [req EXCEPT ![r] = q]
  PROVE  lookup' = [lookup EXCEPT ![r] = AbstractLookup(q)]
<1>1. \A s \in Requests : req'[s] = IF s = r THEN q ELSE req[s]
  BY DEF IInv, ReqInv
<1>2. lookup' = [s \in Requests |-> AbstractLookup(req'[s])]
  BY DEF lookup, AbstractLookup, FileSnap, Distinct
<1>3. [lookup EXCEPT ![r] = AbstractLookup(q)] =
         [s \in Requests |-> IF s = r THEN AbstractLookup(q) ELSE AbstractLookup(req[s])]
  BY DEF lookup
<1> QED  BY <1>1, <1>2, <1>3

\* Who holds an address, as InstanceLookup has it, once the map is complete.
LEMMA HoldersAre ==
  ASSUME LoadInv, loading = "ready", NEW ip \in Addrs \cup {BadAddr}
  PROVE  Promise!Holders(ip) = Holders(ip)
<1>1. /\ Len(file) \in Nat /\ MaxInstances \in Nat /\ Len(file) <= MaxInstances
      /\ \A i \in 1..Len(file) : file[i] \in Addrs \cup {EmptyAddr}
  BY FileAssumption DEF LoadInv
<1>2. \A h \in 1..MaxInstances : snaps[known[h]][h] = FileSnap[h]
  BY DEF snaps, known
<1>3. \A a : DOMAIN <<a>> = {1} /\ <<a>>[1] = a /\ Instance(a).ifaces = <<a>>
  BY DEF Instance
<1>4. ASSUME NEW h \in 1..MaxInstances
      PROVE  Promise!Owns(FileSnap[h], ip) <=> h <= Len(file) /\ ip \in Addrs /\ file[h] = ip
  <2>1. CASE h <= Len(file)
    <3>1. h \in 1..Len(file) /\ FileSnap[h] = Instance(file[h])
      BY <1>1, <2>1 DEF FileSnap
    <3>2. FileSnap[h] # Absent
      BY <1>1, <3>1, FileAssumption
    <3> QED  BY <1>3, <2>1, <3>1, <3>2 DEF Promise!Owns
  <2>2. CASE ~(h <= Len(file))
    BY <2>2 DEF FileSnap, Promise!Owns
  <2> QED  BY <2>1, <2>2
<1>5. Promise!Holders(ip) = {h \in 1..MaxInstances : Promise!Owns(snaps[known[h]][h], ip)}
  BY DEF Promise!Holders, snaps, known
<1>6. Promise!Holders(ip) = {h \in 1..MaxInstances : Promise!Owns(FileSnap[h], ip)}
  BY <1>2, <1>5
<1> QED  BY <1>1, <1>4, <1>6 DEF Holders

LEMMA LoadRefines ==
  ASSUME IInv, Open \/ Map \/ NewBackend
  PROVE  [Promise!Next]_Promise!lookupVars
<1>1. UNCHANGED <<file, req>>
  BY DEF Open, Map, NewBackend
<1>2. UNCHANGED lookup
  BY <1>1 DEF lookup, AbstractLookup, FileSnap, Distinct
<1>3. UNCHANGED FileSnap
  BY <1>1 DEF FileSnap
<1>4. CASE Open /\ loading' = "mapping"
  <2>1. loading = "opening" /\ snaps = <<AllAbsent>> /\ snaps' = <<AllAbsent, FileSnap>>
    BY <1>3, <1>4 DEF Open, snaps
  <2>2. snaps' = Append(snaps, FileSnap)
    BY <2>1
  <2>3. FileSnap \in [1..MaxInstances -> {Instance(a) : a \in Addrs \cup {EmptyAddr}} \cup {Absent}]
    BY DEF FileSnap, IInv, LoadInv
  <2>4. UNCHANGED known
    BY <1>4, <2>1 DEF known
  <2>5. Promise!Change
    BY <1>2, <2>2, <2>3, <2>4 DEF Promise!Change, snaps, known, lookup
  <2> QED  BY <2>5 DEF Promise!Next
<1>5. CASE NewBackend
  <2>1. loading = "mapping" /\ loading' = "ready"
    BY <1>5 DEF NewBackend
  <2>2. UNCHANGED snaps /\ Len(snaps) = 2
    BY <1>3, <2>1 DEF snaps
  <2>3. /\ DOMAIN known' = 1..MaxInstances
        /\ \A h \in 1..MaxInstances : known'[h] = 2 /\ known[h] = 1
    BY <2>1 DEF known
  <2>4. /\ DOMAIN known' = 1..MaxInstances
        /\ \A h \in 1..MaxInstances : known'[h] \in known[h]..Len(snaps)
    BY <2>2, <2>3
  <2>5. Promise!Learn
    BY <1>2, <2>2, <2>4 DEF Promise!Learn, snaps, known, lookup
  <2> QED  BY <2>5 DEF Promise!Next
<1>6. CASE Map \/ (Open /\ loading' = "failed")
  <2>1. UNCHANGED snaps /\ UNCHANGED known
    BY <1>3, <1>6 DEF Map, Open, snaps, known
  <2> QED  BY <1>2, <2>1 DEF Promise!lookupVars, snaps, known, lookup
<1> QED  BY <1>4, <1>5, <1>6 DEF Open

\* Steps of a request leave the store as it is.
LEMMA StoreStays == UNCHANGED loadVars => UNCHANGED <<snaps, known>> /\ UNCHANGED file
  BY DEF loadVars, snaps, known, FileSnap

LEMMA DeliverRefines ==
  ASSUME IInv, FreshInv, NEW r \in Requests, Deliver(r)
  PROVE  [Promise!Next]_Promise!lookupVars /\ FreshInv'
<1>1. PICK fe \in {"ec2", "hack", "healthz"}, peer \in Senders \cup {BadAddr},
           header \in Headers \cup {NoHeader} : Receive(r, fe, ClientIP(peer, header))
  BY DEF Deliver
<1> DEFINE ip == ClientIP(peer, header)
           q == [NoRequest EXCEPT !.pc = "arrived", !.fe = fe, !.ip = ip]
<1>2. ip \in Addrs \cup {BadAddr}
  BY ServiceAssumption DEF ClientIP
<1>3. req' = [req EXCEPT ![r] = q] /\ UNCHANGED loadVars
  BY <1>1 DEF Receive
<1> HIDE DEF ip
<1>4. q.pc = "arrived" /\ q.fe = fe /\ q.ip = ip /\ q.status = 0 /\ q.body = 0
  BY DEF NoRequest
<1> HIDE DEF q
<1>5. FreshInv'
  <2>1. \A s \in Requests : req'[s] = IF s = r THEN q ELSE req[s]
    BY <1>3 DEF IInv, ReqInv
  <2> QED  BY <1>4, <2>1 DEF FreshInv
<1>6. lookup' = [lookup EXCEPT ![r] = AbstractLookup(q)] /\ UNCHANGED <<snaps, known>>
  BY <1>3, OneLookup, StoreStays
<1>7. CASE Asks(q)
  <2>1. AbstractLookup(q) = [ip |-> ip, kind |-> "open", hw |-> 0, obj |-> Absent]
    BY <1>4, <1>7, AbstractIs
  <2>2. Promise!Ask(r)
    BY <1>2, <1>6, <2>1 DEF Promise!Ask, Promise!Becomes, snaps, known, lookup
  <2> QED  BY <1>5, <2>2 DEF Promise!Next
<1>8. CASE ~Asks(q)
  <2>1. Promise!Forget(r)
    BY <1>6, <1>8, AbstractIs DEF Promise!Forget, snaps, known, lookup
  <2> QED  BY <1>5, <2>1 DEF Promise!Next
<1> QED  BY <1>7, <1>8

\* What Respond makes of a request.
LEMMA Responded ==
  ASSUME IInv, FreshInv, NEW r \in Requests, NEW fe, NEW status, NEW body, Respond(r, fe, status, body)
  PROVE  \E q : /\ req' = [req EXCEPT ![r] = q]
                /\ q.pc = "done" /\ q.fe = fe /\ q.ip = req[r].ip
                /\ q.status = status /\ q.body = body
                /\ Asks(q) <=> Asks(req[r])
                /\ lookup' = [lookup EXCEPT ![r] = AbstractLookup(q)]
                /\ UNCHANGED <<snaps, known>> /\ FreshInv'
<1> DEFINE q == [req[r] EXCEPT !.pc = "done", !.status = status, !.body = body]
<1>1. /\ req' = [req EXCEPT ![r] = q] /\ UNCHANGED loadVars
      /\ req[r].pc = "arrived" /\ req[r].fe = fe
  BY DEF Respond
<1>2. req[r] \in RequestType
  BY DEF IInv, ReqInv
<1>3. q.pc = "done" /\ q.fe = fe /\ q.ip = req[r].ip /\ q.status = status /\ q.body = body
  BY <1>1, <1>2 DEF RequestType
<1> HIDE DEF q
<1>4. FreshInv'
  <2>1. \A s \in Requests : req'[s] = IF s = r THEN q ELSE req[s]
    BY <1>1 DEF IInv, ReqInv
  <2> QED  BY <1>3, <2>1 DEF FreshInv
<1> QED  BY <1>1, <1>3, <1>4, OneLookup, StoreStays DEF Asks

LEMMA RespondRefines ==
  ASSUME IInv, FreshInv, NEW r \in Requests, EC2(r) \/ Hack(r) \/ Health(r)
  PROVE  [Promise!Next]_Promise!lookupVars /\ FreshInv'
<1> DEFINE old == req[r]
           ip == old.ip
<1>1. ip \in Addrs \cup {BadAddr} /\ (old.pc = "arrived" => loading = "ready")
  BY DEF IInv, ReqInv, RequestType
<1>2. lookup[r] = AbstractLookup(old) /\ lookup = [s \in Requests |-> lookup[s]]
  BY DEF lookup
\* An answer that leaves the question as it was.
<1>3. ASSUME NEW fe, NEW status \in {200, 400, 404, 500}, NEW body, Respond(r, fe, status, body),
             fe # "ec2" \/ ~Distinct \/ (status = 400 /\ body = 0)
      PROVE  [Promise!Next]_Promise!lookupVars /\ FreshInv'
  <2>1. PICK q : /\ req' = [req EXCEPT ![r] = q]
                 /\ q.pc = "done" /\ q.fe = fe /\ q.ip = ip
                 /\ q.status = status /\ q.body = body
                 /\ Asks(q) <=> Asks(old)
                 /\ lookup' = [lookup EXCEPT ![r] = AbstractLookup(q)]
                 /\ UNCHANGED <<snaps, known>> /\ FreshInv'
    BY <1>3, Responded
  <2>2. old.pc = "arrived" /\ old.status = 0 /\ old.body = 0
    BY <1>3 DEF Respond, FreshInv
  <2>3. AbstractLookup(q) = AbstractLookup(old)
    <3>1. CASE Asks(q)
      <4>1. status = 400 /\ body = 0
        BY <1>3, <2>1, <3>1 DEF Asks
      <4> HIDE DEF old
      <4> QED  BY <2>1, <2>2, <3>1, <4>1, AbstractIs
    <3>2. CASE ~Asks(q)
      BY <2>1, <3>2, AbstractIs
    <3> QED  BY <3>1, <3>2
  <2>4. UNCHANGED lookup
    <3> HIDE DEF lookup
    <3> QED  BY <1>2, <2>1, <2>3
  <2> QED  BY <2>1, <2>4 DEF Promise!lookupVars, snaps, known, lookup
<1>4. CASE Hack(r) \/ Health(r)
  BY <1>3, <1>4 DEF Hack, Health
<1>5. CASE EC2(r) /\ ip = BadAddr
  BY <1>3, <1>5 DEF EC2
<1>6. CASE EC2(r) /\ ip # BadAddr /\ ip \in DOMAIN instances
  <2>1. Respond(r, "ec2", 200, instances[ip])
    BY <1>6 DEF EC2
  <2>2. ip \in Addrs /\ loading = "ready" /\ old.pc = "arrived" /\ old.fe = "ec2"
    BY <1>1, <1>6, <2>1 DEF Respond
  <2>3. CASE ~Distinct
    BY <1>3, <2>1, <2>3
  <2>4. CASE Distinct
    <3> DEFINE i == instances[ip]
    <3>1. i \in Holders(ip) /\ i # 0 /\ \A h \in Holders(ip) : h <= i
      BY <1>6, <2>2, MapIsRight DEF IInv
    <3>2. Holders(ip) = {i}
      BY <2>2, <2>4, <3>1 DEF Holders, Distinct
    <3>3. Promise!Holders(ip) = {i}
      BY <1>1, <2>2, <3>2, HoldersAre DEF IInv
    <3> HIDE DEF i, ip, old
    <3>4. PICK q : /\ q.pc = "done" /\ q.fe = "ec2" /\ q.ip = ip
                   /\ q.status = 200 /\ q.body = i
                   /\ Asks(q) <=> Asks(old)
                   /\ lookup' = [lookup EXCEPT ![r] = AbstractLookup(q)]
                   /\ UNCHANGED <<snaps, known>> /\ FreshInv'
      <4> USE DEF i, ip, old
      <4> QED  BY <2>1, Responded
    <3>5. Asks(q) /\ Asks(old)
      BY <2>4, <3>4 DEF Asks
    <3>6. AbstractLookup(q) = [ip |-> ip, kind |-> "found", hw |-> i, obj |-> FileSnap[i]]
      BY <3>1, <3>4, <3>5, AbstractIs
    <3>7. snaps[known[i]][i] = FileSnap[i]
      <4>1. i \in 1..MaxInstances
        <5>1. i \in 1..Len(file) /\ Len(file) \in Nat /\ Len(file) <= MaxInstances
          BY <3>1, FileAssumption DEF Holders, IInv, LoadInv
        <5> QED  BY <5>1, FileAssumption
      <4> QED  BY <2>2, <4>1 DEF snaps, known
    <3>8. lookup[r].kind = "open" /\ lookup[r].ip = ip
      <4>1. old.status = 0 /\ old.body = 0
        BY <2>2 DEF FreshInv, old
      <4>2. AbstractLookup(old) = [ip |-> old.ip, kind |-> "open", hw |-> 0, obj |-> Absent]
        BY <3>5, <4>1, AbstractIs
      <4> QED  BY <1>2, <4>2 DEF ip
    <3>9. Promise!Answer(r)
      <4>1. Promise!Becomes(r, ip, "found", i, snaps[known[i]][i])
        BY <3>4, <3>6, <3>7 DEF Promise!Becomes, lookup
      <4>2. Promise!Holders(lookup[r].ip) = {i} /\ lookup[r].ip = ip
        BY <3>3, <3>8
      <4> HIDE DEF AbstractLookup
      <4> QED  BY <3>4, <3>8, <4>1, <4>2 DEF Promise!Answer, snaps, known, lookup
    <3> QED  BY <3>4, <3>9 DEF Promise!Next
  <2> QED  BY <2>3, <2>4
<1>7. CASE EC2(r) /\ ip # BadAddr /\ ip \notin DOMAIN instances
  <2>1. Respond(r, "ec2", 404, 0)
    BY <1>7 DEF EC2
  <2>2. ip \in Addrs /\ loading = "ready" /\ old.pc = "arrived" /\ old.fe = "ec2"
    BY <1>1, <1>7, <2>1 DEF Respond
  <2>3. CASE ~Distinct
    BY <1>3, <2>1, <2>3
  <2>4. CASE Distinct
    <3>1. Promise!Holders(ip) = {}
      BY <1>1, <1>7, <2>2, MapIsRight, HoldersAre DEF IInv
    <3> HIDE DEF ip, old
    <3>2. PICK q : /\ q.pc = "done" /\ q.fe = "ec2" /\ q.ip = ip
                   /\ q.status = 404 /\ q.body = 0
                   /\ Asks(q) <=> Asks(old)
                   /\ lookup' = [lookup EXCEPT ![r] = AbstractLookup(q)]
                   /\ UNCHANGED <<snaps, known>> /\ FreshInv'
      <4> USE DEF ip, old
      <4> QED  BY <2>1, Responded
    <3>3. Asks(q) /\ Asks(old)
      BY <2>4, <3>2 DEF Asks
    <3>4. AbstractLookup(q) = [ip |-> ip, kind |-> "nobody", hw |-> 0, obj |-> Absent]
      BY <3>2, <3>3, AbstractIs
    <3>5. lookup[r].kind = "open" /\ lookup[r].ip = ip
      <4>1. old.status = 0 /\ old.body = 0
        BY <2>2 DEF FreshInv, old
      <4>2. AbstractLookup(old) = [ip |-> old.ip, kind |-> "open", hw |-> 0, obj |-> Absent]
        BY <3>3, <4>1, AbstractIs
      <4> QED  BY <1>2, <4>2 DEF ip
    <3>6. Promise!Answer(r)
      <4>1. Promise!Becomes(r, ip, "nobody", 0, Absent)
        BY <3>2, <3>4 DEF Promise!Becomes, lookup
      <4>2. Promise!Holders(lookup[r].ip) = {} /\ lookup[r].ip = ip
        BY <3>1, <3>5
      <4> HIDE DEF AbstractLookup
      <4> QED  BY <3>2, <3>5, <4>1, <4>2 DEF Promise!Answer, snaps, known, lookup
    <3> QED  BY <3>2, <3>6 DEF Promise!Next
  <2> QED  BY <2>3, <2>4
<1> QED  BY <1>4, <1>5, <1>6, <1>7

LEMMA InitRefines == ServiceInit => Promise!Init /\ FreshInv
<1> SUFFICES ASSUME ServiceInit PROVE Promise!Init /\ FreshInv
  OBVIOUS
<1>1. loading = "opening" /\ \A r \in Requests : req[r] = NoRequest
  BY DEF ServiceInit, Init
<1>2. FreshInv
  BY <1>1 DEF FreshInv, NoRequest
<1>3. AbstractLookup(NoRequest) = Promise!NoLookup
  <2>1. ~Asks(NoRequest)
    BY DEF Asks, NoRequest
  <2> QED  BY <2>1, AbstractIs
<1>4. lookup = [r \in Requests |-> Promise!NoLookup]
  BY <1>1, <1>3 DEF lookup
<1>5. snaps = <<AllAbsent>> /\ known = [i \in 1..MaxInstances |-> 1]
  BY <1>1 DEF snaps, known
<1> QED  BY <1>2, <1>4, <1>5 DEF Promise!Init, AllAbsent, lookup, snaps, known

LEMMA NextRefines ==
  IInv /\ FreshInv /\ [ServiceNext]_serviceVars => [Promise!Next]_Promise!lookupVars /\ FreshInv'
<1> SUFFICES ASSUME IInv, FreshInv, [ServiceNext]_serviceVars
             PROVE  [Promise!Next]_Promise!lookupVars /\ FreshInv'
  OBVIOUS
<1>1. CASE Open \/ Map \/ NewBackend
  BY <1>1, LoadRefines DEF Open, Map, NewBackend, FreshInv
<1>2. CASE UNCHANGED vars
  <2>1. UNCHANGED <<file, loading, req>>
    BY <1>2 DEF vars, loadVars
  <2> QED
    BY <2>1 DEF FreshInv, Promise!lookupVars, AbstractLookup, FileSnap, Distinct
<1>3. ASSUME NEW r \in Requests, Deliver(r)
      PROVE  [Promise!Next]_Promise!lookupVars /\ FreshInv'
  BY <1>3, DeliverRefines
<1>4. ASSUME NEW r \in Requests, EC2(r) \/ Hack(r) \/ Health(r)
      PROVE  [Promise!Next]_Promise!lookupVars /\ FreshInv'
  BY <1>4, RespondRefines
<1> QED  BY <1>1, <1>2, <1>3, <1>4 DEF ServiceNext, serviceVars

\* The flat file backend keeps the promise the Kubernetes backend keeps, to the
\* EC2 frontend's requests and over every file in which no address occurs twice
\* (flatfile/backend.go:90-96); the hack frontend's requests count as no lookup.
THEOREM FileKeepsPromise == ServiceSpec => LookupPromise
<1>1. ServiceSpec => [](IInv /\ FreshInv)
  <2>1. ServiceInit => IInv /\ FreshInv
    BY InitIInv, InitRefines
  <2>2. IInv /\ FreshInv /\ [ServiceNext]_serviceVars => (IInv /\ FreshInv)'
    BY NextIInv, NextRefines
  <2> QED  BY <2>1, <2>2, PTL DEF ServiceSpec
<1> QED  BY <1>1, InitRefines, NextRefines, PTL DEF ServiceSpec, LookupPromise, Promise!Spec

-----------------------------------------------------------------------------
(***************************************************************************)
(* The trusted proxies, for addresses of any widths and any lists: what    *)
(* xff.Parse hands to the middleware is what the entries mean, and so each *)
(* requester is served what is its own.                                    *)
(***************************************************************************)

V6 == Len(Prefix) + V4
Addresses == Proxies!Bits(V4) \cup Proxies!Bits(V6)

-----------------------------------------------------------------------------
(* Bits *)

LEMMA Widths ==
  /\ V4 \in Nat /\ V4 > 0 /\ Len(Prefix) \in Nat /\ Len(Prefix) > V4 /\ V6 \in Nat
  /\ Prefix \in Seq({0, 1}) /\ Prefix[Len(Prefix)] = 1
  /\ Proxies!V6 = V6
  BY ServiceAssumption, LenProperties DEF V6, Proxies!V6

LEMMA BitsAreSequences ==
  ASSUME NEW n \in Nat, NEW s \in Proxies!Bits(n)
  PROVE  s \in Seq({0, 1}) /\ Len(s) = n /\ DOMAIN s = 1..n
  BY DEF Proxies!Bits

LEMMA AddressType ==
  ASSUME NEW s \in Addresses
  PROVE  /\ s \in Seq({0, 1}) /\ Len(s) \in {V4, V6}
         /\ \A i \in 1..Len(s) : s[i] \in {0, 1}
  BY Widths, BitsAreSequences, LenProperties DEF Addresses

LEMMA SameBeginning ==
  ASSUME NEW s \in Seq({0, 1}), NEW t \in Seq({0, 1}), NEW n \in Nat, n <= Len(s), n <= Len(t)
  PROVE  SubSeq(s, 1, n) = SubSeq(t, 1, n) <=> \A i \in 1..n : s[i] = t[i]
<1>1. \A i \in 1..n : s[i] \in {0, 1} /\ t[i] \in {0, 1}
  BY LenProperties
<1>2. /\ SubSeq(s, 1, n) \in Seq({0, 1}) /\ Len(SubSeq(s, 1, n)) = n
      /\ \A i \in 1..n : SubSeq(s, 1, n)[i] = s[i]
  BY <1>1, SubSeqProperties
<1>3. /\ SubSeq(t, 1, n) \in Seq({0, 1}) /\ Len(SubSeq(t, 1, n)) = n
      /\ \A i \in 1..n : SubSeq(t, 1, n)[i] = t[i]
  BY <1>1, SubSeqProperties
<1>4. (\A i \in 1..n : s[i] = t[i]) => SubSeq(s, 1, n) = SubSeq(t, 1, n)
  BY <1>2, <1>3, SeqEqual
<1> QED  BY <1>2, <1>3, <1>4

\* An address that has a shorter form.
Mapped(s) == Len(s) = V6 /\ \A i \in 1..Len(Prefix) : s[i] = Prefix[i]

LEMMA To4Is ==
  ASSUME NEW s \in Addresses
  PROVE  /\ ~Mapped(s) => Proxies!To4(s) = s
         /\ Mapped(s) => /\ Proxies!To4(s) # s /\ Proxies!To4(s) \in Seq({0, 1})
                         /\ Len(Proxies!To4(s)) = V4
                         /\ \A i \in 1..V4 : Proxies!To4(s)[i] = s[i + Len(Prefix)]
<1>1. s \in Seq({0, 1}) /\ Len(s) \in {V4, V6} /\ \A i \in 1..Len(s) : s[i] \in {0, 1}
  BY AddressType
<1>2. SubSeq(Prefix, 1, Len(Prefix)) = Prefix
  <2>1. \A i \in 1..Len(Prefix) : Prefix[i] \in {0, 1}
    BY Widths, LenProperties
  <2>2. /\ SubSeq(Prefix, 1, Len(Prefix)) \in Seq({0, 1})
        /\ Len(SubSeq(Prefix, 1, Len(Prefix))) = Len(Prefix)
        /\ \A i \in 1..Len(Prefix) : SubSeq(Prefix, 1, Len(Prefix))[i] = Prefix[i]
    BY <2>1, Widths, SubSeqProperties
  <2> QED  BY <2>2, Widths, SeqEqual
<1>3. ASSUME Len(s) = V6
      PROVE  SubSeq(s, 1, Len(Prefix)) = Prefix <=> \A i \in 1..Len(Prefix) : s[i] = Prefix[i]
  <2>1. Len(Prefix) <= Len(s)
    BY <1>3, Widths DEF V6
  <2> QED  BY <1>1, <1>2, <2>1, Widths, SameBeginning
<1>4. CASE Mapped(s)
  <2>1. Proxies!To4(s) = SubSeq(s, Len(Prefix) + 1, V6)
    BY <1>3, <1>4, Widths DEF Mapped, Proxies!To4
  <2>2. \A i \in (Len(Prefix) + 1)..V6 : s[i] \in {0, 1}
    BY <1>1, <1>4, Widths DEF Mapped
  <2>3. V6 - (Len(Prefix) + 1) + 1 = V4 /\ Len(Prefix) + 1 <= V6
    BY Widths DEF V6
  <2>4. /\ SubSeq(s, Len(Prefix) + 1, V6) \in Seq({0, 1})
        /\ Len(SubSeq(s, Len(Prefix) + 1, V6)) = V4
        /\ \A i \in 1..V4 : SubSeq(s, Len(Prefix) + 1, V6)[i] = s[Len(Prefix) + 1 + i - 1]
    BY <2>2, <2>3, Widths, SubSeqProperties
  <2>5. Len(s) # V4
    BY <1>4, Widths DEF Mapped, V6
  <2> QED  BY <1>4, <2>1, <2>4, <2>5, Widths
<1>5. CASE ~Mapped(s)
  BY <1>3, <1>5, Widths DEF Mapped, Proxies!To4
<1> QED  BY <1>4, <1>5

-----------------------------------------------------------------------------
(* Networks *)

Masked(bits, length) == [i \in 1..Len(bits) |-> IF i <= length THEN bits[i] ELSE 0]

LEMMA MaskedType ==
  ASSUME NEW bits \in Addresses, NEW length \in Nat
  PROVE  /\ Masked(bits, length) \in Addresses /\ Len(Masked(bits, length)) = Len(bits)
         /\ \A i \in 1..Len(bits) :
               Masked(bits, length)[i] = IF i <= length THEN bits[i] ELSE 0
<1>1. Len(bits) \in {V4, V6} /\ \A i \in 1..Len(bits) : bits[i] \in {0, 1}
  BY AddressType
<1>2. Masked(bits, length) \in [1..Len(bits) -> {0, 1}]
  BY <1>1 DEF Masked
<1>3. Masked(bits, length) \in Proxies!Bits(Len(bits))
  BY <1>2 DEF Proxies!Bits
<1>4. Len(Masked(bits, length)) = Len(bits)
  BY <1>1, <1>3, Widths, BitsAreSequences
<1> QED  BY <1>1, <1>3, <1>4 DEF Masked, Addresses

\* The mask takes an address's prefix away exactly when it is the shorter: the
\* prefix ends with a one.
LEMMA MaskedIsMapped ==
  ASSUME NEW bits \in Addresses, NEW length \in Nat
  PROVE  Mapped(Masked(bits, length)) <=> Mapped(bits) /\ length >= Len(Prefix)
<1> DEFINE masked == Masked(bits, length)
<1>1. /\ Len(masked) = Len(bits)
      /\ \A i \in 1..Len(bits) : masked[i] = IF i <= length THEN bits[i] ELSE 0
  BY MaskedType
<1> HIDE DEF masked
<1>2. ASSUME Mapped(masked) PROVE length >= Len(Prefix)
  <2>1. Len(Prefix) \in 1..Len(bits) /\ masked[Len(Prefix)] = 1
    BY <1>1, <1>2, Widths DEF Mapped, V6
  <2> QED  BY <1>1, <2>1, Widths
<1>3. ASSUME length >= Len(Prefix), Len(bits) = V6
      PROVE  \A i \in 1..Len(Prefix) : masked[i] = bits[i]
  BY <1>1, <1>3, Widths DEF V6
<1>4. Mapped(masked) => Mapped(bits)
  BY <1>1, <1>2, <1>3 DEF Mapped
<1>5. Mapped(bits) /\ length >= Len(Prefix) => Mapped(masked)
  BY <1>1, <1>3 DEF Mapped
<1> QED  BY <1>2, <1>4, <1>5 DEF masked

\* What a network contains, of either family.
LEMMA ContainsIs ==
  ASSUME NEW bits \in Addresses, NEW length \in 0..Len(bits), NEW peer \in Addresses
  PROVE  Proxies!Contains([bits |-> bits, length |-> length], peer) <=>
            IF Mapped(bits) /\ length >= Len(Prefix)
            THEN /\ Len(Proxies!To4(peer)) = V4
                 /\ \A i \in (Len(Prefix) + 1)..length : Proxies!To4(peer)[i - Len(Prefix)] = bits[i]
            ELSE /\ Len(Proxies!To4(peer)) = Len(bits)
                 /\ \A i \in 1..length : Proxies!To4(peer)[i] = bits[i]
<1> DEFINE masked == Masked(bits, length)
           short == Proxies!To4(masked)
           client == Proxies!To4(peer)
           counted == IF short = masked THEN length ELSE length - Len(Prefix)
<1>1. Len(bits) \in {V4, V6} /\ length \in Nat
  BY AddressType, Widths
<1>2. /\ masked \in Addresses /\ Len(masked) = Len(bits)
      /\ \A i \in 1..Len(bits) : masked[i] = IF i <= length THEN bits[i] ELSE 0
  BY <1>1, MaskedType
<1>3. masked \in Seq({0, 1}) /\ peer \in Seq({0, 1}) /\ Len(peer) \in {V4, V6}
  BY <1>2, AddressType
<1>4. client \in Seq({0, 1}) /\ Len(client) \in {V4, V6}
  BY <1>3, To4Is
<1>5. Proxies!Contains([bits |-> bits, length |-> length], peer) <=>
         Len(short) = Len(client) /\ SubSeq(short, 1, counted) = SubSeq(client, 1, counted)
  BY DEF Proxies!Contains, Masked
<1>6. CASE Mapped(bits) /\ length >= Len(Prefix)
  <2>1. Mapped(masked)
    BY <1>1, <1>6, MaskedIsMapped
  <2>2. /\ short # masked /\ short \in Seq({0, 1}) /\ Len(short) = V4
        /\ \A i \in 1..V4 : short[i] = masked[i + Len(Prefix)]
    BY <1>2, <2>1, To4Is
  <2>3. /\ counted = length - Len(Prefix) /\ counted \in 0..V4 /\ Len(bits) = V6
        /\ length \in Nat /\ V6 = Len(Prefix) + V4
    BY <1>1, <1>6, <2>2, Widths DEF Mapped, V6
  <2> HIDE DEF masked, short, client, counted
  <2>4. \A i \in 1..counted : short[i] = bits[i + Len(Prefix)]
    BY <1>2, <2>2, <2>3, Widths
  <2>5. ASSUME Len(client) = V4
        PROVE  SubSeq(short, 1, counted) = SubSeq(client, 1, counted) <=>
                  \A i \in 1..counted : client[i] = bits[i + Len(Prefix)]
    <3>1. counted \in Nat /\ counted <= Len(short) /\ counted <= Len(client)
      BY <2>2, <2>3, <2>5, Widths
    <3> QED  BY <1>4, <2>2, <2>4, <3>1, SameBeginning
  <2>6. (\A i \in 1..counted : client[i] = bits[i + Len(Prefix)]) <=>
           \A i \in (Len(Prefix) + 1)..length : client[i - Len(Prefix)] = bits[i]
    <3>1. ASSUME \A i \in 1..counted : client[i] = bits[i + Len(Prefix)],
                 NEW i \in (Len(Prefix) + 1)..length
          PROVE  client[i - Len(Prefix)] = bits[i]
      <4>1. i - Len(Prefix) \in 1..counted /\ (i - Len(Prefix)) + Len(Prefix) = i
        BY <2>3, Widths
      <4> QED  BY <3>1, <4>1
    <3>2. ASSUME \A i \in (Len(Prefix) + 1)..length : client[i - Len(Prefix)] = bits[i],
                 NEW i \in 1..counted
          PROVE  client[i] = bits[i + Len(Prefix)]
      <4>1. /\ i + Len(Prefix) \in (Len(Prefix) + 1)..length
            /\ (i + Len(Prefix)) - Len(Prefix) = i
        BY <2>3, Widths
      <4> QED  BY <3>2, <4>1
    <3> QED  BY <3>1, <3>2
  <2> QED  BY <1>5, <1>6, <2>2, <2>5, <2>6 DEF client
<1>7. CASE ~(Mapped(bits) /\ length >= Len(Prefix))
  <2>1. ~Mapped(masked)
    BY <1>1, <1>7, MaskedIsMapped
  <2>2. short = masked /\ counted = length
    BY <1>2, <2>1, To4Is
  <2> HIDE DEF masked, short, client, counted
  <2>3. \A i \in 1..length : masked[i] = bits[i]
    BY <1>1, <1>2, Widths
  <2>4. ASSUME Len(client) = Len(bits)
        PROVE  SubSeq(masked, 1, length) = SubSeq(client, 1, length) <=>
                  \A i \in 1..length : client[i] = bits[i]
    <3>1. length <= Len(masked) /\ length <= Len(client)
      BY <1>2, <2>4
    <3> QED  BY <1>1, <1>3, <1>4, <2>3, <3>1, SameBeginning
  <2> QED  BY <1>2, <1>5, <1>7, <2>2, <2>4 DEF client
<1> QED  BY <1>6, <1>7

-----------------------------------------------------------------------------
(* Entries *)

LEMMA EntryIs ==
  ASSUME NEW entry \in Proxies!EntryType
  PROVE  /\ entry.kind \in {"blank", "invalid", "ip", "cidr"}
         /\ entry.kind \in {"ip", "cidr"} => entry.bits \in Addresses
         /\ entry.kind = "cidr" => entry.length \in 0..Len(entry.bits)
<1>1. CASE entry \in {[kind |-> "blank"], [kind |-> "invalid"]}
  BY <1>1
<1>2. CASE entry \in [kind : {"ip"}, bits : Proxies!Bits(V4) \cup Proxies!Bits(Proxies!V6)]
  BY <1>2, Widths DEF Addresses
<1>3. CASE entry \in [kind : {"cidr"}, bits : Proxies!Bits(V4), length : 0..V4]
  BY <1>3, Widths, BitsAreSequences DEF Addresses
<1>4. CASE entry \in [kind : {"cidr"}, bits : Proxies!Bits(Proxies!V6), length : 0..Proxies!V6]
  BY <1>4, Widths, BitsAreSequences DEF Addresses
<1> QED  BY <1>1, <1>2, <1>3, <1>4 DEF Proxies!EntryType

\* What ParseEntry appends.
Network(entry) ==
    [bits |-> entry.bits,
     length |-> IF entry.kind = "ip" THEN Proxies!SingleLength(entry) ELSE entry.length]

\* As far as documentation and code agree.
LEMMA NetworkMeans ==
  ASSUME NEW entry \in Proxies!EntryType, entry.kind \in {"ip", "cidr"}, NEW peer \in Addresses,
         ~Proxies!Disputed(entry, peer)
  PROVE  Proxies!Contains(Network(entry), peer) <=> Proxies!Means(entry, peer)
<1> DEFINE bits == entry.bits
           client == Proxies!To4(peer)
<1>1. bits \in Addresses
  BY EntryIs
<1>2. bits \in Seq({0, 1}) /\ Len(bits) \in {V4, V6} /\ peer \in Seq({0, 1}) /\ Len(peer) \in {V4, V6}
  BY <1>1, AddressType
<1>3. /\ client \in Seq({0, 1}) /\ Len(client) \in {V4, V6}
      /\ Len(client) = V6 => client = peer
  <2>1. V4 # V6
    BY Widths DEF V6
  <2> QED  BY <1>2, <2>1, To4Is
<1>4. Proxies!To4(bits) = bits <=> ~Mapped(bits)
  BY <1>1, To4Is
<1>5. CASE entry.kind = "ip"
  <2> USE <1>4, <1>5
  <2>0. ~Mapped(bits) /\ Proxies!To4(bits) = bits
    BY DEF Proxies!Disputed
  <2>1. Proxies!SingleLength(entry) = Len(bits)
    BY <1>2, <2>0, Widths DEF Proxies!SingleLength
  <2>2. Network(entry) = [bits |-> bits, length |-> Len(bits)]
    BY <2>1 DEF Network
  <2>3. Len(bits) \in 0..Len(bits)
    BY <1>2, Widths
  <2>4. Proxies!Contains(Network(entry), peer) <=>
           Len(client) = Len(bits) /\ \A i \in 1..Len(bits) : client[i] = bits[i]
    BY <1>1, <2>0, <2>2, <2>3, ContainsIs
  <2>5. Proxies!Means(entry, peer) <=> client = bits
    BY <2>0 DEF Proxies!Means, Proxies!IsEverybody
  <2>6. Len(client) = Len(bits) /\ (\A i \in 1..Len(bits) : client[i] = bits[i]) => client = bits
    BY <1>2, <1>3, SeqEqual
  <2> QED
    <3> HIDE DEF bits, client
    <3> QED  BY <2>4, <2>5, <2>6
<1>6. CASE entry.kind = "cidr"
  <2>1. entry.length \in 0..Len(bits) /\ Network(entry) = [bits |-> bits, length |-> entry.length]
    BY <1>6, EntryIs DEF Network
  <2>2. Proxies!IsMappedBlock(entry) <=> Mapped(bits) /\ entry.length >= Len(Prefix)
    BY <1>4 DEF Proxies!IsMappedBlock
  <2>3. CASE Proxies!IsEverybody(entry)
    <3>1. Len(bits) = V4 /\ entry.length = 0 /\ Len(client) = V4
      BY <1>3, <2>3 DEF Proxies!IsEverybody, Proxies!Disputed, V6, Proxies!V6
    <3>2. ~(Mapped(bits) /\ entry.length >= Len(Prefix))
      BY <3>1, Widths
    <3>3. Proxies!Contains(Network(entry), peer) <=>
             Len(client) = Len(bits) /\ \A i \in 1..entry.length : client[i] = bits[i]
      BY <1>1, <2>1, <3>2, ContainsIs
    <3>4. Proxies!Contains(Network(entry), peer)
      BY <3>1, <3>3
    <3>5. Proxies!Means(entry, peer)
      BY <1>6, <2>2, <2>3, <3>2 DEF Proxies!Means
    <3> QED  BY <3>4, <3>5
  <2>4. CASE Mapped(bits) /\ entry.length >= Len(Prefix)
    <3>1. ~Proxies!IsEverybody(entry)
      BY <2>4, Widths DEF Proxies!IsEverybody
    <3> QED  BY <1>1, <1>6, <2>1, <2>2, <2>4, <3>1, ContainsIs DEF Proxies!Means
  <2>5. CASE ~(Mapped(bits) /\ entry.length >= Len(Prefix)) /\ ~Proxies!IsEverybody(entry)
    BY <1>1, <1>6, <2>1, <2>2, <2>5, ContainsIs DEF Proxies!Means
  <2> QED  BY <2>3, <2>4, <2>5
<1> QED  BY <1>5, <1>6

-----------------------------------------------------------------------------
(* Parse *)

\* Some network has the peer; some entry before the turn at hand means it, or may.
InNets(peer) == \E i \in DOMAIN nets : Proxies!Contains(nets[i], peer)
Means(entry, peer) == Proxies!Means(entry, peer) /\ ~Proxies!Disputed(entry, peer)
MayMean(entry, peer) == Proxies!Means(entry, peer) \/ Proxies!Disputed(entry, peer)
IsMeant(peer, n) == \E i \in 1..n : Means(entries[i], peer)
MayBeMeant(peer, n) == \E i \in 1..n : MayMean(entries[i], peer)
NetsAreMeant(peer, n) ==
    (IsMeant(peer, n) => InNets(peer)) /\ (InNets(peer) => MayBeMeant(peer, n))

Networks == [bits : Addresses, length : Nat]

\* The networks so far are what the entries so far mean, disputed ones aside.
ParseInv ==
    /\ entries \in Seq(Proxies!EntryType)
    /\ parsed \in 1..(Len(entries) + 1)
    /\ nets \in Seq(Networks)
    /\ parsing \in {"parsing", "parsed", "failed"}
    /\ \A i \in 1..(parsed - 1) : entries[i].kind # "invalid"
    /\ parsing = "failed" => \E i \in DOMAIN entries : entries[i].kind = "invalid"
    /\ parsing = "parsed" => parsed = Len(entries) + 1
    /\ parsing # "failed" => \A peer \in Addresses : NetsAreMeant(peer, parsed - 1)

LEMMA EntryAt ==
  ASSUME ParseInv, parsed <= Len(entries)
  PROVE  /\ entries[parsed] \in Proxies!EntryType /\ parsed \in DOMAIN entries
         /\ parsed \in Nat /\ parsed + 1 \in 1..(Len(entries) + 1)
         /\ \A peer : IsMeant(peer, parsed) <=> IsMeant(peer, parsed - 1) \/ Means(entries[parsed], peer)
         /\ \A peer : MayBeMeant(peer, parsed) <=>
                         MayBeMeant(peer, parsed - 1) \/ MayMean(entries[parsed], peer)
<1>1. Len(entries) \in Nat /\ DOMAIN entries = 1..Len(entries)
  BY LenProperties DEF ParseInv
<1>2. parsed \in Nat /\ 1..parsed = 1..(parsed - 1) \cup {parsed}
  BY <1>1 DEF ParseInv
<1> QED  BY <1>1, <1>2 DEF ParseInv, IsMeant, MayBeMeant

LEMMA ParseStep == ParseInv /\ Proxies!Next => ParseInv'
<1> SUFFICES ASSUME ParseInv, Proxies!Next PROVE ParseInv'
  OBVIOUS
<1> DEFINE entry == entries[parsed]
<1>1. CASE Proxies!Skip
  <2>1. /\ entries' = entries /\ parsed' = parsed + 1 /\ nets' = nets /\ parsing' = parsing
        /\ parsing = "parsing" /\ parsed <= Len(entries) /\ entry.kind = "blank"
    BY <1>1 DEF Proxies!Skip
  <2>2. \A peer : ~Means(entry, peer) /\ ~MayMean(entry, peer)
    BY <2>1 DEF Means, MayMean, Proxies!Means, Proxies!Disputed, Proxies!IsEverybody
  <2>3. \A peer \in Addresses : NetsAreMeant(peer, parsed - 1)'
    <3>1. \A peer \in Addresses : NetsAreMeant(peer, parsed - 1)
      BY <2>1 DEF ParseInv
    <3>2. \A peer : /\ IsMeant(peer, parsed - 1)' <=> IsMeant(peer, parsed)
                    /\ MayBeMeant(peer, parsed - 1)' <=> MayBeMeant(peer, parsed)
      BY <2>1, EntryAt DEF IsMeant, MayBeMeant, Means, MayMean
    <3>3. \A peer : InNets(peer)' <=> InNets(peer)
      BY <2>1 DEF InNets
    <3> QED  BY <2>1, <2>2, <3>1, <3>2, <3>3, EntryAt DEF NetsAreMeant
  <2>4. \A i \in 1..(parsed' - 1) : entries'[i].kind # "invalid"
    BY <2>1, EntryAt DEF ParseInv
  <2> QED  BY <2>1, <2>3, <2>4, EntryAt DEF ParseInv
<1>2. CASE Proxies!ParseEntry
  <2>1. /\ entries' = entries /\ parsed' = parsed + 1 /\ nets' = Append(nets, Network(entry))
        /\ parsing' = parsing
        /\ parsing = "parsing" /\ parsed <= Len(entries) /\ entry.kind \in {"ip", "cidr"}
    BY <1>2 DEF Proxies!ParseEntry, Network
  <2>2. entry \in Proxies!EntryType
    BY <2>1, EntryAt
  <2>3. Network(entry) \in Networks
    <3>1. CASE entry.kind = "ip"
      BY <2>2, <3>1, EntryIs, Widths DEF Network, Networks, Proxies!SingleLength
    <3>2. CASE entry.kind = "cidr"
      BY <2>2, <3>2, EntryIs DEF Network, Networks
    <3> QED  BY <2>1, <3>1, <3>2
  <2>4. /\ nets' \in Seq(Networks) /\ Len(nets) \in Nat
        /\ DOMAIN nets = 1..Len(nets) /\ DOMAIN nets' = 1..(Len(nets) + 1)
        /\ \A i \in 1..Len(nets) : nets'[i] = nets[i]
        /\ nets'[Len(nets) + 1] = Network(entry)
    BY <2>1, <2>3, AppendProperties, LenProperties DEF ParseInv
  <2>5. \A peer : InNets(peer)' <=> InNets(peer) \/ Proxies!Contains(Network(entry), peer)
    <3>1. DOMAIN nets' = DOMAIN nets \cup {Len(nets) + 1}
      BY <2>4
    <3> QED  BY <2>4, <3>1 DEF InNets
  <2>6. \A peer \in Addresses : NetsAreMeant(peer, parsed - 1)'
    <3>1. \A peer \in Addresses : NetsAreMeant(peer, parsed - 1)
      BY <2>1 DEF ParseInv
    <3>2. \A peer \in Addresses :
             /\ Means(entry, peer) => Proxies!Contains(Network(entry), peer)
             /\ Proxies!Contains(Network(entry), peer) => MayMean(entry, peer)
      BY <2>1, <2>2, NetworkMeans DEF Means, MayMean
    <3>3. \A peer : /\ IsMeant(peer, parsed - 1)' <=> IsMeant(peer, parsed)
                    /\ MayBeMeant(peer, parsed - 1)' <=> MayBeMeant(peer, parsed)
      BY <2>1, EntryAt DEF IsMeant, MayBeMeant, Means, MayMean
    <3> QED  BY <2>1, <2>5, <3>1, <3>2, <3>3, EntryAt DEF NetsAreMeant
  <2>7. \A i \in 1..(parsed' - 1) : entries'[i].kind # "invalid"
    BY <2>1, EntryAt DEF ParseInv
  <2>8. parsed' \in 1..(Len(entries') + 1)
    BY <2>1, EntryAt
  <2> QED  BY <2>1, <2>4, <2>6, <2>7, <2>8 DEF ParseInv
<1>3. CASE Proxies!Invalid
  <2>1. /\ entries' = entries /\ parsed' = parsed /\ nets' = <<>> /\ parsing' = "failed"
        /\ parsed <= Len(entries) /\ entry.kind = "invalid"
    BY <1>3 DEF Proxies!Invalid
  <2> QED  BY <2>1, EntryAt DEF ParseInv
<1>4. CASE Proxies!Return
  <2>1. /\ UNCHANGED <<entries, parsed, nets>> /\ parsing' = "parsed"
        /\ parsing = "parsing" /\ parsed > Len(entries)
    BY <1>4 DEF Proxies!Return
  <2>2. Len(entries) \in Nat
    BY LenProperties DEF ParseInv
  <2> QED  BY <2>1, <2>2 DEF ParseInv, NetsAreMeant, InNets, IsMeant, MayBeMeant
<1> QED  BY <1>1, <1>2, <1>3, <1>4 DEF Proxies!Next

LEMMA PeersAreAddresses == Peers \subseteq Addresses
  BY ServiceAssumption DEF Addresses, V6

LEMMA ParseIsRight == ParseInv => TrustsWhoIsMeant
<1> SUFFICES ASSUME ParseInv PROVE TrustsWhoIsMeant
  OBVIOUS
<1>1. Len(entries) \in Nat /\ DOMAIN entries = 1..Len(entries)
  BY LenProperties DEF ParseInv
<1>2. ASSUME parsing = "parsed", NEW peer \in Peers
      PROVE  IF Proxies!Trusts(peer)
             THEN \E i \in DOMAIN entries :
                     Proxies!Disputed(entries[i], peer) \/ Proxies!Means(entries[i], peer)
             ELSE \A i \in DOMAIN entries :
                     Proxies!Disputed(entries[i], peer) \/ ~Proxies!Means(entries[i], peer)
  <2>1. NetsAreMeant(peer, Len(entries))
    BY <1>1, <1>2, PeersAreAddresses DEF ParseInv
  <2>2. Proxies!Trusts(peer) <=> InNets(peer)
    BY <1>2 DEF InNets, Proxies!Trusts
  <2> QED  BY <1>1, <2>1, <2>2 DEF NetsAreMeant, IsMeant, MayBeMeant, Means, MayMean
<1>3. parsing = "parsed" => \A i \in DOMAIN entries : entries[i].kind # "invalid"
  BY <1>1 DEF ParseInv
<1> QED  BY <1>2, <1>3 DEF ParseInv, TrustsWhoIsMeant, Proxies!TrustsWhoIsMeant

-----------------------------------------------------------------------------
(* Requests *)

\* Each request has the address the middleware gave it, once and for all.
SentInv ==
    /\ sent \in [Requests -> [peer : Senders \cup {BadAddr}, header : Headers \cup {NoHeader}]]
    /\ \A r \in Requests : req[r].pc # "idle" =>
          parsing = "parsed" /\ req[r].ip = ClientIP(sent[r].peer, sent[r].header)

TrustInv == IInv /\ ParseInv /\ SentInv

LEMMA InitTrustInv == ServiceInit => TrustInv
<1> SUFFICES ASSUME ServiceInit PROVE TrustInv
  OBVIOUS
<1>1. entries \in Seq(Proxies!EntryType)
  BY ServiceAssumption DEF ServiceInit, Proxies!Init
<1>2. Len(entries) \in Nat
  BY <1>1, LenProperties
<1>3. ParseInv
  BY <1>1, <1>2 DEF ServiceInit, Proxies!Init, ParseInv, NetsAreMeant, InNets, IsMeant, MayBeMeant
<1>4. SentInv
  BY DEF ServiceInit, Init, NoRequest, SentInv
<1> QED  BY <1>3, <1>4, InitIInv DEF TrustInv

\* Trust depends on nothing but the parsed list.
LEMMA SameTrust ==
  ASSUME UNCHANGED parseVars
  PROVE  /\ ParseInv => ParseInv'
         /\ \A peer, header : ClientIP(peer, header)' = ClientIP(peer, header)
  BY DEF parseVars, ParseInv, NetsAreMeant, InNets, IsMeant, MayBeMeant, ClientIP, Proxies!Trusts

LEMMA NextTrustInv == TrustInv /\ [ServiceNext]_serviceVars => TrustInv'
<1> SUFFICES ASSUME TrustInv, [ServiceNext]_serviceVars PROVE ParseInv' /\ SentInv'
  BY NextIInv DEF TrustInv
<1>1. req \in [Requests -> RequestType]
  BY DEF TrustInv, IInv, ReqInv
\* Steps that leave the requests alone.
<1>2. ASSUME UNCHANGED <<parseVars, sent, req>> PROVE ParseInv' /\ SentInv'
  BY <1>2, SameTrust DEF TrustInv, SentInv, parseVars
<1>3. CASE UNCHANGED serviceVars
  BY <1>2, <1>3 DEF serviceVars, vars
<1>4. CASE (Open \/ Map \/ NewBackend) /\ UNCHANGED <<parseVars, sent>>
  BY <1>2, <1>4 DEF Open, Map, NewBackend
<1>5. CASE Proxies!Next /\ UNCHANGED <<vars, sent>>
  <2>1. parsing = "parsing"
    BY <1>5 DEF Proxies!Next, Proxies!Skip, Proxies!ParseEntry, Proxies!Invalid, Proxies!Return
  <2>2. \A r \in Requests : req[r].pc = "idle"
    BY <2>1 DEF TrustInv, SentInv
  <2> QED  BY <1>5, <2>2, ParseStep DEF TrustInv, SentInv, vars
<1>6. ASSUME NEW r \in Requests, Deliver(r) PROVE ParseInv' /\ SentInv'
  <2>1. PICK fe \in {"ec2", "hack", "healthz"}, peer \in Senders \cup {BadAddr},
             header \in Headers \cup {NoHeader} :
          /\ Receive(r, fe, ClientIP(peer, header))
          /\ sent' = [sent EXCEPT ![r] = [peer |-> peer, header |-> header]]
    BY <1>6 DEF Deliver
  <2>2. UNCHANGED parseVars /\ parsing = "parsed" /\ parsing' = "parsed"
    BY <1>6 DEF Deliver, parseVars
  <2> DEFINE ip == ClientIP(peer, header)
             q == [NoRequest EXCEPT !.pc = "arrived", !.fe = fe, !.ip = ip]
  <2>3. req' = [req EXCEPT ![r] = q]
    BY <2>1 DEF Receive
  <2>4. ClientIP(peer, header)' = ip
    BY <2>2, SameTrust
  <2> HIDE DEF ip
  <2>5. q.ip = ip
    BY DEF NoRequest
  <2>6. sent' \in [Requests -> [peer : Senders \cup {BadAddr}, header : Headers \cup {NoHeader}]]
    BY <2>1 DEF TrustInv, SentInv
  <2>7. sent'[r].peer = peer /\ sent'[r].header = header
    BY <2>1 DEF TrustInv, SentInv
  <2> HIDE DEF q
  <2>8. \A a, h : ClientIP(a, h)' = ClientIP(a, h)
    BY <2>2, SameTrust
  <2>9. ASSUME NEW p \in Requests, req'[p].pc # "idle"
        PROVE  (req[p].ip = ClientIP(sent[p].peer, sent[p].header))'
    <3>1. CASE p = r
      BY <1>1, <2>3, <2>4, <2>5, <2>7, <2>8, <3>1
    <3>2. CASE p # r
      <4>1. req'[p] = req[p] /\ sent'[p] = sent[p]
        BY <1>1, <2>1, <2>3, <3>2 DEF TrustInv, SentInv
      <4>2. req[p].ip = ClientIP(sent[p].peer, sent[p].header)
        BY <2>9, <4>1 DEF TrustInv, SentInv
      <4> QED  BY <2>8, <4>1, <4>2
    <3> QED  BY <3>1, <3>2
  <2> QED  BY <2>2, <2>6, <2>9, SameTrust DEF TrustInv, SentInv
<1>7. ASSUME NEW r \in Requests, EC2(r) \/ Hack(r) \/ Health(r), UNCHANGED <<parseVars, sent>>
      PROVE  ParseInv' /\ SentInv'
  <2>1. PICK fe, status, body : Respond(r, fe, status, body)
    BY <1>7 DEF EC2, Hack, Health
  <2>2. /\ req[r].pc = "arrived" /\ \A p \in Requests : req'[p].ip = req[p].ip
        /\ \A p \in Requests : p # r => req'[p] = req[p]
    BY <1>1, <2>1 DEF Respond, RequestType
  <2>3. \A p \in Requests : req'[p].pc # "idle" => req[p].pc # "idle"
    BY <2>2
  <2> QED  BY <1>7, <2>2, <2>3, SameTrust DEF TrustInv, SentInv, parseVars
<1> QED  BY <1>3, <1>4, <1>5, <1>6, <1>7 DEF ServiceNext

LEMMA TrustInductive == ServiceSpec => []TrustInv
  BY InitTrustInv, NextTrustInv, PTL DEF ServiceSpec

\* Whatever list the operator gives, and however wide addresses are, it is
\* refused exactly for an invalid entry, and otherwise trusts whoever its entries
\* mean and nobody else.  Nothing is said of whom an IPv4 address in IPv6
\* notation makes trusted, nor of IPv6 peers under 0.0.0.0/0
\* (xff.go:18-49, 58-61).
THEOREM ProxiesAreMeant == ServiceSpec => []TrustsWhoIsMeant
<1>1. TrustInv => TrustsWhoIsMeant
  BY ParseIsRight DEF TrustInv
<1> QED  BY <1>1, TrustInductive, PTL

\* Whatever the file and the list, data goes to the address that holds it or
\* to a peer that was meant to be trusted, for the address it forwards for,
\* unless an entry is disputed for that peer, of which nothing is said
\* (root.go:108-139, xff.go:58-94, flatfile/backend.go:20-28).
THEOREM RequesterServed == ServiceSpec => []ServesTheRequester
<1>1. ASSUME TrustInv PROVE ServesTheRequester
  <2> SUFFICES ASSUME NEW r \in Requests, Answered(r),
                      sent[r].peer # BadAddr =>
                         \A i \in DOMAIN entries : ~Proxies!Disputed(entries[i], sent[r].peer)
               PROVE  LET peer == sent[r].peer
                          header == sent[r].header
                          speaksFor == /\ peer # BadAddr /\ header # NoHeader
                                       /\ \E i \in DOMAIN entries : Proxies!Means(entries[i], peer)
                      IN  /\ req[r].body # 0 => file[req[r].body] = IF speaksFor THEN header ELSE peer
                          /\ req[r].status = 404 => Holders(IF speaksFor THEN header ELSE peer) = {}
    BY DEF ServesTheRequester
  <2> DEFINE peer == sent[r].peer
             header == sent[r].header
             meant == \E i \in DOMAIN entries : Proxies!Means(entries[i], peer)
  <2>1. parsing = "parsed" /\ req[r].ip = ClientIP(peer, header) /\ peer \in Senders \cup {BadAddr}
    BY <1>1 DEF TrustInv, SentInv, Answered
  <2>2. peer # BadAddr => (Proxies!Trusts(peer) <=> meant)
    <3>1. peer # BadAddr => peer \in Peers
      BY <2>1, ServiceAssumption
    <3> QED
      BY <1>1, <2>1, <3>1, ParseIsRight DEF TrustInv, TrustsWhoIsMeant, Proxies!TrustsWhoIsMeant
  <2> HIDE DEF meant
  <2>3. req[r].ip = IF peer # BadAddr /\ header # NoHeader /\ meant THEN header ELSE peer
    BY <2>1, <2>2 DEF ClientIP
  <2>4. /\ req[r].body # 0 => req[r].body \in Holders(req[r].ip)
        /\ req[r].status = 404 => Holders(req[r].ip) = {}
    BY <1>1 DEF TrustInv, IInv, LastInFileWins
  <2>5. req[r].body # 0 => file[req[r].body] = req[r].ip
    BY <2>4 DEF Holders
  <2> QED  BY <2>3, <2>4, <2>5 DEF meant
<1> QED  BY <1>1, TrustInductive, PTL
=============================================================================
