----------------------------- MODULE RouteTable -----------------------------
(***************************************************************************)
(* How the EC2 frontend turns its table of data endpoints into routes      *)
(* (frontend/ec2/frontend.go, Configure): each data endpoint is bound, the *)
(* static route builder learns of it, and the directory listings it builds *)
(* are bound last.  Every route is bound with and without a trailing slash *)
(* (ginutil/router.go), on a gin router that panics when a route is bound  *)
(* twice.                                                                  *)
(*                                                                         *)
(* A path is the sequence strings.Split(path, "/") yields: "/a/b" is       *)
(* <<"", "a", "b">>, "/a/" is <<"", "a", "">> and "" is <<"">>.            *)
(***************************************************************************)
EXTENDS Naturals, Sequences, SequencesExt

\* The path element before a leading slash and behind a trailing one.
Empty == ""
Root == <<Empty>>

CONSTANTS
    Words,      \* what path elements are made of, the empty one included; gin
                \* takes them literally: none begins with ':' or '*'
    Tables      \* the tables of data endpoints considered

\* Only the first or the last element is empty: no path has "//".
IsPath(path) ==
    /\ path \in Seq(Words) /\ path # <<>>
    /\ \A k \in 2..(Len(path) - 1) : path[k] # Empty

ASSUME TablesAssumption ==
    /\ Empty \in Words
    /\ \A table \in Tables :
          table \in Seq(Seq(Words)) /\ \A i \in DOMAIN table : IsPath(table[i])

VARIABLES
    dataRoutes,     \* the table at hand
    pc,             \* "data", "static", "done" or "panicked"
    bound,          \* the number of data endpoints bound so far
    builder,        \* the builder's content: <<parent, child>> pairs
    pending,        \* the static routes that are still to be bound
    routes          \* the router: functions from paths to what they serve

vars == <<dataRoutes, pc, bound, builder, pending, routes>>

-----------------------------------------------------------------------------
(* The table hegel has *)

\* Mutant: an endpoint for the operating system as a whole.
routesWithDirectory == <<
    <<Empty, "user-data">>,
    <<Empty, "meta-data", "operating-system", "slug">>,
    <<Empty, "meta-data", "operating-system">>>>

hegelRoutes == <<
    <<Empty, "user-data">>,
    <<Empty, "meta-data", "instance-id">>,
    <<Empty, "meta-data", "hostname">>,
    <<Empty, "meta-data", "local-hostname">>,
    <<Empty, "meta-data", "iqn">>,
    <<Empty, "meta-data", "plan">>,
    <<Empty, "meta-data", "facility">>,
    <<Empty, "meta-data", "tags">>,
    <<Empty, "meta-data", "public-ipv4">>,
    <<Empty, "meta-data", "public-ipv6">>,
    <<Empty, "meta-data", "local-ipv4">>,
    <<Empty, "meta-data", "public-keys">>,
    <<Empty, "meta-data", "operating-system", "slug">>,
    <<Empty, "meta-data", "operating-system", "distro">>,
    <<Empty, "meta-data", "operating-system", "version">>,
    <<Empty, "meta-data", "operating-system", "image_tag">>,
    <<Empty, "meta-data", "operating-system", "license_activation", "state">>>>

-----------------------------------------------------------------------------
(* ginutil.TrailingSlashRouteHelper and the router *)

\* The endpoint with its trailing slash stripped, or with one added.
alternateEndpoint(endpoint) ==
    IF Len(endpoint) > 1 /\ Last(endpoint) = Empty THEN Front(endpoint) ELSE Append(endpoint, Empty)

\* gin joins the path to its group's: the leading slash is one with the group's
\* end, a trailing slash is kept.
Joined(path) == IF Head(path) = Empty THEN Tail(path) ELSE path

\* GET binds endpoint, then its alternate; binding a bound path panics.
GET(endpoint, handler) ==
    LET paths == {Joined(endpoint), Joined(alternateEndpoint(endpoint))} IN
    IF \E r \in routes : r.path \in paths
    THEN pc' = "panicked" /\ UNCHANGED routes
    ELSE routes' = routes \cup {[path |-> p, serves |-> handler] : p \in paths} /\ UNCHANGED pc

-----------------------------------------------------------------------------
(* staticroute.Builder *)

\* The endpoint's elements behind the root, which is never missing.
Split(endpoint) ==
    IF IsStrictPrefix(Root, endpoint) THEN endpoint ELSE Root \o endpoint

\* Mutant: the root is never a parent.
skipRoot(endpoint) ==
    {<<SubSeq(Split(endpoint), 1, i), Split(endpoint)[i + 1]>> : i \in 2..(Len(Split(endpoint)) - 1)}

\* What FromEndpoint inserts: every proper prefix is the parent of the element
\* that follows it.
FromEndpoint(endpoint) ==
    {<<SubSeq(Split(endpoint), 1, i), Split(endpoint)[i + 1]>> : i \in 1..(Len(Split(endpoint)) - 1)}

Parents(b) == {e[1] : e \in b}

\* Mutant: whether a child is a parent is looked up under its own name.
BuildByName(b) ==
    {[Endpoint |-> parent,
      Children |-> {[name |-> e[2], dir |-> \E p \in Parents(b) : p = <<Empty, e[2]>>] :
                       e \in {f \in b : f[1] = parent}}] : parent \in Parents(b)}

\* Build: a listing for each parent; a child that is itself a parent is marked
\* as a directory.
Build(b) ==
    {[Endpoint |-> parent,
      Children |-> {[name |-> e[2], dir |-> Append(parent, e[2]) \in Parents(b)] :
                       e \in {f \in b : f[1] = parent}}] : parent \in Parents(b)}

-----------------------------------------------------------------------------
(* Frontend.Configure *)

Init ==
    /\ dataRoutes \in Tables
    /\ pc = "data"
    /\ bound = 0
    /\ builder = {}
    /\ pending = {}
    /\ routes = {}

BindData ==
    LET endpoint == dataRoutes[bound + 1] IN
    /\ pc = "data"
    /\ bound < Len(dataRoutes)
    /\ GET(endpoint, [data |-> endpoint])
    /\ builder' = IF pc' = "panicked" THEN builder ELSE builder \cup FromEndpoint(endpoint)
    /\ bound' = bound + 1
    /\ UNCHANGED <<dataRoutes, pending>>

BuildStatic ==
    /\ pc = "data"
    /\ bound = Len(dataRoutes)
    /\ pending' = Build(builder)
    /\ pc' = "static"
    /\ UNCHANGED <<dataRoutes, bound, builder, routes>>

\* Build sorts the routes, but the order in which they are bound is immaterial.
BindStatic ==
    /\ pc = "static"
    /\ \E r \in pending :
          /\ GET(r.Endpoint, [listing |-> r.Children])
          /\ pending' = pending \ {r}
    /\ UNCHANGED <<dataRoutes, bound, builder>>

Configured ==
    /\ pc = "static"
    /\ pending = {}
    /\ pc' = "done"
    /\ UNCHANGED <<dataRoutes, bound, builder, pending, routes>>

Next == BindData \/ BuildStatic \/ BindStatic \/ Configured

Spec == Init /\ [][Next]_vars

-----------------------------------------------------------------------------
(* Properties *)

TrailingSlash(path) == path # <<>> /\ Last(path) = Empty
Names(path) == IF TrailingSlash(Joined(path)) THEN Front(Joined(path)) ELSE Joined(path)
Serves(path) == {r.serves : r \in {q \in routes : q.path = path}}
Listings == {r \in routes : DOMAIN r.serves = {"listing"} /\ ~TrailingSlash(r.path)}

\* A client that follows a listing finds what the listing says: a directory
\* where it is marked as one, a value where it is not
\* (staticroute.go:52-80, frontend.go:84-86).
ListingsResolve ==
    pc = "done" => \A r \in Listings : \A c \in r.serves.listing :
        \E s \in Serves(r.path \o IF c.dir THEN <<c.name, Empty>> ELSE <<c.name>>) :
            DOMAIN s = {IF c.dir THEN "listing" ELSE "data"}

\* Every value is found by following listings from the root
\* (staticroute.go:29-47).
EveryRouteListed ==
    pc = "done" => \A i \in DOMAIN dataRoutes : \A k \in DOMAIN Names(dataRoutes[i]) :
        \E r \in Listings :
            /\ r.path = SubSeq(Names(dataRoutes[i]), 1, k - 1)
            /\ \E c \in r.serves.listing : c.name = Names(dataRoutes[i])[k]

\* The tables Configure accepts are those where no value is also a directory and
\* no value is named twice; hegel panics at startup over any other
\* (frontend.go:73-86).
Conflict ==
    \/ \E i \in DOMAIN dataRoutes : Last(dataRoutes[i]) = Empty
    \/ \E i, j \in DOMAIN dataRoutes :
          i # j /\ IsPrefix(Names(dataRoutes[i]), Names(dataRoutes[j]))
PanicsOnConflict ==
    /\ pc = "done" => ~Conflict
    /\ pc = "panicked" => Conflict

\* The table hegel has is one of them (routes.go:9-115).
HegelStarts == dataRoutes = hegelRoutes => pc # "panicked"
=============================================================================
