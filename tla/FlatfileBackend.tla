-------------------------- MODULE FlatfileBackend ---------------------------
(***************************************************************************)
(* The flat file backend (internal/backend/flatfile) and the frontends     *)
(* over it.  A YAML file is read once, at startup, into a map from public  *)
(* IPv4 addresses to instances; requests are answered from the map, which  *)
(* never changes again, so that one step per request is enough.            *)
(***************************************************************************)
EXTENDS Naturals, Sequences, Functions

CONSTANTS
    Addrs,      \* non-empty addresses
    EmptyAddr,  \* the public address of an instance that has none
    BadAddr,    \* a RemoteAddr without a port
    Files,      \* what the YAML may say: the instances' public addresses
    MaxInstances,   \* bound: how many instances a file may have
    Absent,     \* no such instance
    Requests    \* handler goroutines

\* The instance with a public address.
Instance(a) == [ifaces |-> <<a>>]

ASSUME FileAssumption ==
    /\ Files \subseteq Seq(Addrs \cup {EmptyAddr})
    /\ MaxInstances \in Nat /\ \A f \in Files : Len(f) <= MaxInstances
    /\ EmptyAddr \notin Addrs /\ BadAddr \notin Addrs \cup {EmptyAddr}
    /\ \A a \in Addrs \cup {EmptyAddr} : Absent # Instance(a)

VARIABLES
    file,       \* the instances in the file, known by their position
    loading,    \* FromYAMLFile: see LoadStates
    turn,       \* the next turn of toIPInstanceMap's loop
    instances,  \* Backend.instances
    req         \* what each handler is doing: see RequestType

loadVars == <<file, loading, turn, instances>>
vars == <<loadVars, req>>

LoadStates == {"opening", "mapping", "ready", "failed"}

RequestType ==
    [pc : {"idle", "arrived", "done"}, fe : {"ec2", "hack", "healthz"},
     ip : Addrs \cup {BadAddr}, status : {0, 200, 400, 404, 500}, body : Nat]

\* 0 is no instance.
NoRequest == [pc |-> "idle", fe |-> "ec2", ip |-> BadAddr, status |-> 0, body |-> 0]

Init ==
    /\ file \in Files
    /\ loading = "opening"
    /\ turn = 1
    /\ instances = <<>>
    /\ req = [r \in Requests |-> NoRequest]

-----------------------------------------------------------------------------
(* Loading *)

\* FromYAMLFile: no path, no such file, or not the YAML of a list of instances.
Open ==
    /\ loading = "opening"
    /\ loading' \in {"mapping", "failed"}
    /\ UNCHANGED <<file, turn, instances, req>>

\* m[ip] = i
Put(m, ip, i) == [a \in DOMAIN m \cup {ip} |-> IF a = ip THEN i ELSE m[a]]

\* Mutant: the first instance with an address stays.
FirstStays ==
    /\ loading = "mapping" /\ turn <= Len(file)
    /\ instances' = IF file[turn] \in DOMAIN instances THEN instances
                    ELSE Put(instances, file[turn], turn)
    /\ turn' = turn + 1
    /\ UNCHANGED <<file, loading, req>>

\* toIPInstanceMap: a turn of the loop.
Map ==
    /\ loading = "mapping" /\ turn <= Len(file)
    /\ instances' = Put(instances, file[turn], turn)
    /\ turn' = turn + 1
    /\ UNCHANGED <<file, loading, req>>

NewBackend ==
    /\ loading = "mapping" /\ turn > Len(file)
    /\ loading' = "ready"
    /\ UNCHANGED <<file, turn, instances, req>>

-----------------------------------------------------------------------------
(* Requests *)

\* A request for a frontend, with its remote address.
Receive(r, fe, ip) ==
    /\ loading = "ready"
    /\ req[r].pc \in {"idle", "done"}
    /\ req' = [req EXCEPT ![r] = [NoRequest EXCEPT !.pc = "arrived", !.fe = fe, !.ip = ip]]
    /\ UNCHANGED loadVars

Arrive(r) ==
    \E fe \in {"ec2", "hack", "healthz"}, ip \in Addrs \cup {BadAddr} : Receive(r, fe, ip)

Respond(r, fe, status, body) ==
    /\ req[r].pc = "arrived" /\ req[r].fe = fe
    /\ req' = [req EXCEPT ![r] = [@ EXCEPT !.pc = "done", !.status = status, !.body = body]]
    /\ UNCHANGED loadVars

\* Mutant: like the hack frontend, the handler goes on after a bad address and
\* looks up the empty one.
EC2GoesOn(r) ==
    LET ip == IF req[r].ip = BadAddr THEN EmptyAddr ELSE req[r].ip IN
    IF ip \in DOMAIN instances THEN Respond(r, "ec2", 200, instances[ip])
    ELSE Respond(r, "ec2", 404, 0)

\* The EC2 frontend over GetEC2Instance.
EC2(r) ==
    IF req[r].ip = BadAddr THEN Respond(r, "ec2", 400, 0)
    ELSE IF req[r].ip \in DOMAIN instances THEN Respond(r, "ec2", 200, instances[req[r].ip])
    ELSE Respond(r, "ec2", 404, 0)

\* Mutant: what is not supported is not implemented.
HackSays501(r) == Respond(r, "hack", IF req[r].ip = BadAddr THEN 400 ELSE 501, 0)

\* The hack frontend over GetHackInstance, which is unsupported: an instance
\* that is in the file is not served either, whatever README.md:22 says.
Hack(r) == Respond(r, "hack", IF req[r].ip = BadAddr THEN 400 ELSE 500, 0)

\* IsHealthy is always true.
Health(r) == Respond(r, "healthz", 200, 0)

Next ==
    \/ Open \/ Map \/ NewBackend
    \/ \E r \in Requests : Arrive(r) \/ EC2(r) \/ Hack(r) \/ Health(r)

Spec == Init /\ [][Next]_vars

-----------------------------------------------------------------------------
(* Properties *)

TypeOK ==
    /\ file \in Files
    /\ loading \in LoadStates
    /\ turn \in 1..(Len(file) + 1)
    /\ Range(instances) \subseteq 1..Len(file)
    /\ req \in [Requests -> RequestType]

Holders(ip) == {i \in 1..Len(file) : ip \in Addrs /\ file[i] = ip}
Answered(r) == req[r].pc = "done" /\ req[r].fe = "ec2"

\* An address is served the last instance of the file that carries it, 404
\* exactly when none does, and never the instances without an address, which
\* the map files under the empty one; an unusable remote address gets nothing
\* (flatfile/backend.go:20-28, 90-96).
LastInFileWins ==
    \A r \in Requests : Answered(r) =>
        LET holders == Holders(req[r].ip) IN
        /\ req[r].status = 404 <=> holders = {} /\ req[r].ip # BadAddr
        /\ req[r].body # 0 <=> holders # {}
        /\ req[r].body # 0 => /\ req[r].body \in holders
                              /\ \A i \in holders : i <= req[r].body

AllAbsent == [i \in 1..MaxInstances |-> Absent]
FileSnap == [i \in 1..MaxInstances |-> IF i <= Len(file) THEN Instance(file[i]) ELSE Absent]

Distinct == \A i, j \in 1..Len(file) : file[i] = file[j] /\ file[i] \in Addrs => i = j

\* What was asked, and when that is done the answer.  For a file in which an
\* address occurs twice there is nothing to promise, and a request to the hack
\* frontend is no lookup: GetHackInstance fails without one (flatfile/hack.go).
AbstractLookup(q) ==
    LET asks == Distinct /\ q.pc # "idle" /\ q.fe = "ec2"
        body == IF asks THEN q.body ELSE 0
    IN
    [ip |-> IF asks THEN q.ip ELSE BadAddr,
     kind |-> CASE ~asks -> "none"
                [] asks /\ q.status = 200 -> "found"
                [] asks /\ q.status = 404 -> "nobody"
                [] OTHER -> "open",
     hw |-> body,
     obj |-> IF body = 0 THEN Absent ELSE FileSnap[body]]

Promise == INSTANCE InstanceLookup WITH
    Hardware <- 1..MaxInstances, Scope <- 1..MaxInstances, NoHardware <- 0, Lookups <- Requests,
    Objects <- {Instance(a) : a \in Addrs \cup {EmptyAddr}},
    snaps <- IF loading \in {"mapping", "ready"} THEN <<AllAbsent, FileSnap>> ELSE <<AllAbsent>>,
    known <- [i \in 1..MaxInstances |-> IF loading = "ready" THEN 2 ELSE 1],
    lookup <- [r \in Requests |-> AbstractLookup(req[r])]

\* Over a file in which no address occurs twice the backend keeps the promise
\* the Kubernetes backend keeps, InstanceLookup's, to the requests of the EC2
\* frontend; over another file it does not: it serves where InstanceLookup
\* refuses (flatfile/backend.go:90-96).
LookupPromise == Promise!Spec

=============================================================================
