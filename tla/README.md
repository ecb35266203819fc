# Hegel in TLA+

[Hegel](../src/README.md) serves instance metadata over HTTP: a machine asks, hegel looks
up the machine that has the request's source address and answers with that machine's data.
This directory holds a model of hegel, TLC runs that check it on small instances, and TLAPS
proofs for instances of any size.

## The system

| component (`src/internal/`) | state it keeps | operations |
| --- | --- | --- |
| Kubernetes backend (`backend/kubernetes`) | a client that lists from an informer's cache with an index by address; the context it was made with | `NewBackend`, `GetEC2Instance`, `GetHackInstance`, `IsHealthy`; a goroutine runs `cluster.Start` |
| construction (`backend/backend.go`) | none | `New`: one backend out of the options, and the wait for its cache |
| flat file backend (`backend/flatfile`) | a map from address to instance, built once | `FromYAMLFile`, the same lookups |
| EC2 frontend (`frontend/ec2`) | its route table, fixed at startup | `Configure`, a handler for each data endpoint and each listing |
| static route builder (`frontend/ec2/internal/staticroute`) | a map from parents to children | `FromEndpoint`, `Build` |
| hack frontend (`frontend/hack`) | none | the handler of `/metadata` |
| forwarded-for middleware (`xff`) | the trusted proxies | `Parse`, `Middleware` |
| health check (`healthcheck`) | none | the handler of `/healthz` |
| HTTP server (`http/serve.go`) | listener, connections, an error channel | `Serve` and its listener goroutine |
| metrics (`metrics`) | a counter and a histogram | two middlewares |
| logger, build | output | a middleware |
| root command (`cmd/root.go`) | options, two contexts | `Run`: backend, middlewares, routes, server, in that order |
| hegel frontend (`frontend/hegel`) | none | 18 handlers; not built (`//go:build ignore`) |

How they interact: `Run` calls `backend.New`, which returns only when the informer has
delivered its first list; then it parses the trusted proxies, builds the router and calls
`Serve` with a context that signals cancel. The backend lives on the context `Run` was
given, which they do not. `Serve` blocks on its context and on the error of its listener
goroutine. Each request runs in a goroutine of its own: count, duration, Recovery, logger and
forwarded-for middleware, then a handler that asks the backend, which reads the cache the
informer's goroutines write. Requests share nothing else but the metrics' counters.

What is hard: the cache trails the cluster, each object on its own, so a lookup mixes
revisions; the lookup must neither invent an owner nor hide one while machines are added,
deleted and swap addresses. Construction, start and stop of the cluster race with each
other, and with signals. The end of a process is a race of a signal, a listener that may
fail, a cluster that may panic, a deadline, connections in four states and handlers that may
never return. A handler may panic before or after it wrote. The route table is computed,
twice over, onto a router that panics over a duplicate. Go's `net` package knows an IPv4
address in two notations.

What makes each part correct:

- a lookup answers with the one machine in scope that holds the address, nobody, or a
  refusal, and each of these answers is true of the recent past of the cluster; when the
  cluster rests, it comes to be true of the present;
- data reaches nobody but the holder of the address, or who a trusted proxy forwards for,
  and who is trusted is who the documentation says;
- no request is served before the cache is ready, none loses it, and no lookup ever waits;
- a healthy answer means that the cache is still being fed;
- `Serve` returns, says truthfully how it ended, keeps the promise of its grace period and
  leaves neither a connection nor a goroutine behind; so does the process around it, whose
  start and end are certain and whose exit code is true;
- what metrics and log say of a request is what its client was sent;
- every value is reachable through the listings, and the listings hold nothing else.

`PROJECT.json` lists the hazards line by line with the properties aimed at each.

## The modules

| module | models |
| --- | --- |
| `InstanceLookup` | abstract: a store, knowledge of it that only moves forward, and lookups answered in one step |
| `KubernetesBackend` | `backend.New` and the Kubernetes backend over the informer's cache |
| `MetadataAPI` | extends it with the requests: forwarded-for middleware, both frontends, health check |
| `ServeLifecycle` | `http.Serve`, its listener goroutine, its connections and its deadline |
| `Process` | `main` and `Run`; composes `KubernetesBackend` and `ServeLifecycle` |
| `RequestPipeline` | the middlewares in their order around any handler |
| `FlatfileBackend` | the flat file backend and the frontends over it |
| `TrustedProxies` | `xff.Parse` and which peers it makes trusted |
| `FlatfileService` | extends `FlatfileBackend` with `TrustedProxies` and the middleware: file and proxies in, responses out |
| `RouteTable` | `Frontend.Configure`, the static route builder, the trailing slash helper |
| `HegelFrontend` | the handlers of `frontend/hegel` |
| `EC2Conversion` | `toEC2Instance` |
| `MC...` | the instances TLC checks; `MCKubernetesBackend` holds constants only |
| `...Proofs` | the proofs about the module of that name; `MetadataAPIProofs` also holds the refinement of `InstanceLookup`, `FlatfileServiceProofs` all that is proved of `FlatfileBackend` and `TrustedProxies` |

### KubernetesBackend and MetadataAPI

`snaps` is the history of the cluster's store, one function from Hardware names to specs for
each revision; `Write` adds one. The informer is external and modelled by what the code
sees of it: `FirstList` fixes the revision of the first list, from any point of the
history since the API server may answer from its own cache; `Fetch` reads on (a watch event
or a relist); `Pop(h)` brings one object's cached copy forward to some revision that was
read. `rev[h]` is the revision the cached copy of `h` shows. Copies of different objects may
therefore show different revisions, as they do in a cache that is filled event by event; they
never go back. `HasSynced` is what `WaitForCacheSync` waits for.

`cluster` and `newResult` follow `NewBackend` and `New`: the goroutine that runs
`cluster.Start` may start at any later time, and the context may be cancelled at any time.
`List` before the start is an error, before the first sync it would wait (`ListAnswers`), and
afterwards it answers from the cache, also when the cluster has stopped.

A spec is the sequence of its interfaces' addresses, with an entry for an interface without
DHCP and one for an empty address, and whether the trip through JSON in `toHackInstance`
succeeds (it fails for values the target type cannot hold). The text served is not
modelled: a response's body is the spec it was made from.

A handler (`req[r]`) goes from `arrived` through `looked` to `done`. `Arrive` stands for the
server, the middlewares and the router; a `RemoteAddr` without port is `BadAddr`. The lookup
is one step, because `retrieveByIP` makes one `List` call and the cache answers it under its
lock; the response is another, so the cluster and the cache may move in between. `Abort` is
gin's: the first status written stays, which is why `/metadata` answers 400 to a bad
address although it goes on to look up the empty address and aborts again with 500.

### ServeLifecycle

`pc` and `lpc` are the two goroutines, `errChan` the number of errors in the channel,
`deadline` whether the five seconds have passed. `conn[c]` is a connection in net/http's
states, with `cut` for one that was closed in the middle of a request. `Shutdown` in the
model is the call as Go 1.22 implements it: set the flag and close the listener, wait for the
accept loop, then poll. One poll (`closeIdleConns`, under the server's lock) is one step; a
`new` connection is closed by it or not, as its age decides in the code. `Accept` may still
hand over a connection between the closing of the listener and the end of the accept loop.

### Process

`phase` is the main goroutine: the command line, `backend.New`, the router, `Serve`, the
deferred calls, the exit. `opts` is what decides between its branches: the backend that
is configured, whether `--trusted-proxies` can be parsed, and who calls `Run`: `main`, with a
context that never ends, or a program that embeds hegel and may cancel its own, as the
end-to-end test does. `outcome` is the exit code (0, 1, or 2 for a panic) or death by a signal.

The module takes the actions of the other two as they are. `KubernetesBackend` is
instantiated with `cmdDone`, `Run`'s context, `ServeLifecycle` with `sigDone`, the one
`signal.NotifyContext` derives from it. A signal before `StartServing` or after `Leave` (the
deferred `cancel` gives the signals back) kills; in between it cancels `sigDone`, any number
of times. `ClusterPanics` is the `panic` in the goroutine of `NewBackend`. `End` closes every
connection: a process that is gone cuts its requests. The goroutines an embedded `Run`
leaves behind after its return are not followed any further.

### RequestPipeline

`job[r]` walks through `Chain`, the middlewares in `router.Use`'s order, to the handler and
back, by a return or by a panic; `count`, `duration` and `logged` are what is written on
the way back, one action for each middleware. A request without a route goes through the
chain alone, one that only a trailing slash keeps from its route is redirected without it.
A panic over a broken connection is Recovery's special case. `LoggedAsSent` says what the
log is right about, `EveryRequestLogged` what the logger's comment says, which is violated
when a handler panics.

### FlatfileBackend, TrustedProxies and FlatfileService

Loading is `Open` (which may fail), then one `Map` for each turn of `toIPInstanceMap`'s loop:
the instances without a public address all end up under the empty one. The map does not
change afterwards, so a request is answered in one step. `LookupPromise` reads the file as a
store with one revision before loading, where nothing exists, and one after; `MaxInstances`
bounds the files' lengths, so that the store has a fixed set of names. A request to the hack
frontend counts as no lookup there, since `GetHackInstance` fails without one.

An address in `TrustedProxies` is its bits, and `To4` the strange part of Go's `net`: an
address of the IPv6 length that begins with `Prefix` is also one of the IPv4 length.
`SingleLength` and `Contains` are built on it as the code and the library are. One
action handles one entry of the list. Against them stands `Means`, whom an entry means by
the documentation (`README.md:73-75, 82`, `xff.go:14-15`): the address itself in whichever
notation, everybody, or a block. `Disputed` are the entries over which the code does
otherwise: `TrustsAsDocumented` ignores the word, and is violated; `TrustsWhoIsMeant` promises
for these nothing, and for all others what is documented.

`FlatfileService` runs the two one after the other, as `Run` does, and then delivers requests
to frontends under the address the middleware leaves them with.

### RouteTable

A path is what `strings.Split` makes of it. Endpoints are bound one by one, each with its
alternate; the builder's map is a set of pairs, and binding a bound path is gin's panic.
`Build` sorts, which decides only the order in which listings are bound and printed.
`Tables` are the tables considered, `Words` what the elements of their paths are; no path of
a table has `//` in it (`IsPath`), which gin would clean away and `strings.Split` would not, and
no word is one of gin's wildcards (`:name`, `*name`): paths are compared word by word.
`Empty` names the empty element, since the SMT backend of the prover fails over an empty
string.

### HegelFrontend

One operator for each handler and helper; a client gets any path, any number of times, and
`followed` remembers whether it got there by following listings. The package is kept in the
repository for a frontend to come and excluded from the build, so this is what its code would
do. In the helper that selects interfaces the missing `return` after a 404 is modelled
(`OverInterfaces`). `HardwareAssumption` says only that disks, keys and interfaces are lists;
in `model.go` every field of an interface is optional and its family any number, so there
are interfaces without a MAC and of no family or another one than 4 and 6. These are in
the JSON and nowhere in the tree, which `TreeAgreesWithJSON` says.

### EC2Conversion

`toEC2Instance` with its loop over the IPs, one turn a step. The fields that are copied
without a condition of their own are one group each.

## The runs

| run | question | instance |
| --- | --- | --- |
| `metadata_api` | are the answers right, and do they come? does the backend implement `InstanceLookup`? | 2 machines, 2 addresses, 3 revisions, 1 handler, a proxy, 6 kinds of requests |
| `namespaced` | does a namespace keep the others out, for concurrent handlers? are lookups right in the end? | the same with 2 handlers, machines in 2 namespaces |
| `serve_lifecycle` | does `Serve` end as it says? | 3 connections |
| `process` | do requests keep their cache and their time? is the exit code true, and does it come? | every option, 1 machine, 2 revisions, 2 connections |
| `router` (`MCRouter`) | do listings and values match, in either tree? does startup panic only over conflicts? is a request counted, timed, logged and answered, whatever its handler does? | `RouteTable`: hegel's table and all of 0 to 3 out of 10 endpoints; `HegelFrontend`: 465 machines with up to 3 interfaces, and none; `RequestPipeline`: 2 requests |
| `instances` (`MCInstances`) | who is trusted, and who is served what, from a file? is each address the first of its kind? | `FlatfileService`: 16 files, 91 lists of proxies, 1 request at a time, IPv4 addresses of 2 bits, IPv6 of 6; `EC2Conversion`: all lists of 0 to 3 out of 18 IPs |
| `not_found` | violated: the README's 404 holds for `/metadata` | as `metadata_api` |
| `default_namespace` | violated: the namespace defaults to the service account's | as `metadata_api` |
| `serve_failure` | violated: a server that cannot listen never returns nil | 2 connections |
| `public_ipv6` | violated: `public-ipv6` is a public address | `EC2Conversion` as in `instances` |
| `trusted_proxies` | violated: the trusted peers are those the documentation means | `FlatfileService` with the 2 disputed lists |
| `request_log` | violated: the logger writes a line for each request that goes through it | 2 requests |

`MCRouter` and `MCInstances` hold two or three modules that share nothing: a variable `part`
says which of them runs, and the others stay in one initial state. A run has the states of
its parts one after the other, not their product.

Every property of a passing run has a *mutant*: a definition marked so in its module, which
changes an operation the way a plausible bug would (a dropped guard, an unbuffered channel, no
wait for the cache, another order of middlewares). With it in place of the operation TLC finds
the property violated; `PROJECT.json` lists the pairs.

Bounds. Three revisions are a start and two changes: enough for an address to leave one
machine for another, for both to hold it in different revisions, and for a cache that shows
the one as it was and the other as it is. Two machines are enough for every answer of
`retrieveByIP`. Three connections let one be idle, one new and one busy when the server
stops; in `process`, whose state is that of two modules, two let one be cut while another
finishes, and one machine with two revisions gives the cache something to miss. Two
requests in the pipeline may be in any two middlewares at once. Six bits of IPv6 over two of
IPv4 keep what matters of 128 over 32: blocks that end within, at and after the prefix, and
the mapped addresses; lists of two entries can widen, shadow and drop each other. Files of
up to three instances let an address come back, next to another and after one. Nested tables
of three endpoints have every relation two paths can have, and the root. Three interfaces
make the index within a MAC and family differ from the position in the machine; up to two
may also lack a MAC or a family.
`CHECK_DEADLOCK FALSE` is set where the program may really stop: `New` failed, `Serve`
returned, the process is over, every request is answered, `Configure` is done.

What the properties say, beyond what their comments do:

- *Window.* A cache cannot be right about now. What holds is that the truth it tells is of
  some revision since the first list, for each object. `ServedToOwner`, `NoFalseNotFound` and
  `ServerErrorJustified` say this from the requester's side, `LookupPromise` by refinement.
  As a consequence an address that moves from one machine to another may for a moment be
  nobody's, or be refused as ambiguous, although the store never was in such a state.
  `EventuallyCurrent` says that this does not last.
- *HealthTruth* is about the moment the status is decided.
- *FailureReported* says that without a signal an error of the listener makes `Serve` return
  it; with one, `FailureNeverHidden` fails, and `serve_failure` shows how. For the same reason
  `ExitTruth` does not promise that a listener's failure makes the exit code 1.
- *CacheOutlivesServer* leaves out that `/healthz` says 200 during a graceful shutdown: it
  does, and rightly, since the cache is still fed.
- *LookupPromise* of the flat file backend is for files in which no address occurs twice;
  for others it serves the last one (`LastInFileWins`) where the promise is a refusal.

Where a doc says something else than the code does, a run shows it as a violation, and there
are six. `trusted_proxies` checks one property and TLC stops at the first trace, a trusted IPv4
address in IPv6 notation, which makes an unrelated block of IPv6 addresses trusted; with that
entry left out of `MCDisputedEntries` the trace is `0.0.0.0/0` and an IPv6 requester. Two
disagreements have no property. The counter's comment says that it counts every request
(`metrics.go:18-19`), and redirects pass it by: `CountedAsSent` leaves them out. And over a flat
file `/metadata` is configured (`README.md:22`) but answers 500 to everybody, the action `Hack` of
`FlatfileBackend`.

Fairness. `MetadataAPI`'s `Spec` assumes weak fairness of each handler's goroutine and
nothing else: no informer, client or API server has to move for a request to be answered,
because a lookup never waits once `New` has returned. `FairSpec`, for `EventuallyCurrent`, adds
that the main goroutine and the one of `cluster.Start` run, that the API server answers and
that the informer delivers what it has read, which are what client-go's reflector loop
provides while the API server can be reached; the store comes to rest because of `MaxRev`,
and nobody has to change it. `ServeLifecycle` assumes that the two goroutines run and that
time passes (weak fairness of `ListenerRuns`, `Serve` and `DeadlinePasses`), and strong
fairness of `GiveUp`: the poll loop's `select` has the deadline ready at every wait, and Go
does not pass over a ready case for ever. That listening or accepting fails is never
assumed. `Process` assumes the same of its server, that the main goroutine runs, and of the
cluster what its start needs: it starts, the first list is answered and delivered. Clients,
handlers, signals and cancellations have no fairness: they may stay away, or stay, for ever.

## The proofs

All are for any number of machines, addresses, namespaces, handlers, connections, IPs,
requests, instances. The named assumptions say what the constants are, and TLC evaluates
them in the runs.

`MetadataAPIProofs` (from `NamespaceAssumption`, `ObjectAssumption`, `BoundAssumption`,
`ArrivalAssumption`): `TypeCorrect`, `DataServedToOwner`, `NotFoundIsTrue`,
`ServerErrorIsAmbiguity` and `HealthIsTrue`; and what two liveness properties need besides
fairness, `LookupsNeverWait` and `CaughtUpIsCurrent`. None of the properties is inductive; the invariant
`IInv` adds to the types

- `CacheInv`: once the backend is ready the cache has synced, so every object is known at a
  revision of the window, and a handler that works has a ready backend;
- `RequestInv`: the result each handler holds is `Justified` by the history, belongs to its
  client's address, and the response says no more than the result.

Three lemmas carry the argument: `RetrieveJustified` (the index, the list and the cases of
`retrieveByIP` yield a justified result), `JustificationKept` (no step takes a justification
back, for the window only grows) and `OneRequest` (a handler's step need only be checked for
its own request). Each action then has a lemma of its own.

The same module proves `BackendKeepsPromise`, the refinement of `InstanceLookup`. Its mapping makes a lookup of each request and knowledge of each cached
revision. Every action has a lemma that maps it to a step or a stutter: a step of the
informer is `InstanceLookup`'s learning or nothing, an arrival is a question, and of a handler's
two steps the lookup is the answer and the response nothing. A bad address is a question
that the EC2 frontend never answers and the hack frontend answers with nobody, since
what it looks up is the empty address. `IInv` is used as it stands; `FreshInv` adds that a handler
which has not looked yet has no result.

`ServeLifecycleProofs` (no assumptions): `TypeCorrect`, `GracefulShutdown`,
`ForcedShutdown`, `RequestsGetTheirTime`. Its invariant says what `Shutdown` has achieved by
each step of `Serve`: the listener is gone before the first poll, so that nothing opens
behind the back of the last one; and each result, from when it is decided, says what it says of
the connections.

`ProcessProofs` (`KubernetesBackend` is instantiated there; nothing is assumed of the other
constants): `TypeCorrect`, `RequestsKeepTheirCache`, `SignalsAreGentle`, `ExitCodeIsTrue`. It instantiates
`ServeLifecycleProofs`: the server's invariant, proved once, holds inside the process until
it is over (`ServerInv`). The rest of the invariant says where the main goroutine can be
(`MainInv`: signals are caught exactly while serving, no connection exists before), what
stops a server (`CauseInv`) and that whoever serves from Kubernetes has a synced cache
(`StoreInv`).

`RequestPipelineProofs` (from `RequestsAssumption`, that the requests are finitely many):
`TypeCorrect`, `RequestsCounted`, `RequestsLogged`, `PanicsRecovered`. `JobInv` is the reason the
order of the middlewares is right: a panic is never further out than Recovery, so the two that
count see every request on its way back. `StepEffect` says what any step of any middleware does
to one job and to the counters, and `Tally` turns it into cardinalities. `LoggedExactly`, which is
stronger than `LoggedAsSent`, says whose lines are in the log: those of the requests whose handler
returned. That a counter stays within the number of requests (`TypeOK`) needs one thing
more: the helper `NoRedirectCounted`, that no counter ever has a redirect's status, for
`CountedAsSent` says nothing of it.

`FlatfileServiceProofs` (from `FileAssumption`): `TypeCorrect` and `LastInstanceServed`, by
the invariant of `toIPInstanceMap`'s loop (the map is right about the instances before the turn
at hand); and `FileKeepsPromise`, the refinement of `InstanceLookup` by the whole service. Opening
the file writes the abstract store's second revision, the end of loading learns of it, a
request's arrival is a question and its response the answer; for a file in which an address
occurs twice, and for the hack frontend, the mapping asks nothing, so that nothing is
claimed. `AbstractIs` says what
lookup a request stands for, `StoreStays` that no request touches the store.

The module goes on (from `FileAssumption` and `ServiceAssumption`) with `ProxiesAreMeant` and
`RequesterServed`, for addresses of any widths. What is assumed of the widths is what is
true of 32 bits and `::ffff:0:0/96`: the prefix is longer than an IPv4 address and ends with a
one. That is why a mask takes an address's prefix away exactly when it is shorter than
the prefix (`MaskedIsMapped`), on which `ContainsIs` and `NetworkMeans` rest. `ParseInv` is the
loop's invariant: a network so far that contains a peer stems from an entry that means it or
is disputed, and every entry so far that means a peer undisputed has a network that
contains it. Both theorems say what holds as far as documentation and code agree.
`SentInv` says that each request goes on under the address the middleware gave it.

`RouteTableProofs` (from `TablesAssumption`): `PanicsExactlyOnConflict`, `EveryRouteIsListed`,
`ListingsAreTrue`, for tables and paths of any length, and `HegelDoesStart` for the table hegel
has. The first part of the module is about paths: which two routes an endpoint becomes
(`PathNames`), what `FromEndpoint` inserts (`FromEndpointFacts`) and that two directories with
one name are one (`PlacesMeet`). The invariant has two parts, both about the time before a
panic: `Progress`, the builder holds what the endpoints bound so far put there; `RouterInv`,
the router serves the endpoints and listings bound so far and nothing else, all at different
places. A panic is then traced to the two that meet: two endpoints of one name, or an
endpoint where the builder has a parent, which is a conflict (`BindDataPanics`,
`BindStaticPanics`). Once all is bound, what `RouterInv` says of the places leaves no conflict
(`NoConflictWhenDone`), and the listings are those of the builder (`ListingsAre`), so every
entry has its route, and every prefix of an endpoint a listing. `HegelDoesStart` compares
hegel's 17 rows: in each two of them an element differs within the shorter one (`Distinct`).

`HegelFrontendProofs` (from `HardwareAssumption`): `ListingsAreServed`, `UnknownIsNotFound`,
`TreeIsTheJSON`, for machines with any number of disks, keys and interfaces, of any family and
with or without a MAC. The invariant says that the answer is the one of the path's handler and
that a path reached by listings is one that a listing offers (`Offerable`); `OfferableIsServed`
shows, handler by handler, that such a path is served. What the numbers in a listing mean
rests on a fact about the helpers that select interfaces: they lose none of the MAC and
family and let no other in (`SelectKeepsAll`, `NetworksInDetail`). A selected element is
found under its rank among the selected positions, and since ranks are injective every
number has one.

`EC2ConversionProofs` (from `EmptyAssumption` and `SpecAssumption`): `FirstAddresses`, by the
loop's invariant.

Only model-checked: the liveness properties (`EveryRequestAnswered`, `EventuallyCurrent`,
`ServeReturns`, `ListenerEnds`, `FailureReported`, `SignalEndsProcess`, `CancelEndsRun`,
`StartupEnds`), since they depend on fairness, which the prover cannot reason about; what is
proved is that no lookup waits and that a cache that has caught up answers truly. Every invariant and
every other property of a passing run is a theorem.

## What is not modelled

- How flags, environment variables and the configuration file become options: pflag's and
  viper's. `Process` starts from the options. `hegel -h`, which prints its help and exits
  with code 0 although nobody asked hegel to stop, is left out, and `ExitTruth` is about
  the others.
- What happens inside a poll of net/http's `Shutdown`. `Poll` is one step, under the server's
  lock, but a connection changes between idle and active without that lock: a request that
  arrives on an idle connection while the poll looks at it may be cut off at once. What is
  said of requests before the deadline is said of those that arrive before or after.
- The text of responses, the JSON of `toHackInstance` and what the endpoints' filters pick.
- The contents of log lines, the `/metrics` page, build information: output that nothing
  reads back.
- `Run` called twice in one process, where registering the metrics panics.
- The notation of addresses in the index: an IPv6 address has several, and a machine is found
  under the one its Hardware uses.
- `kubeconfig` handling (`config.go`) beyond the fact that it may fail.

## Plan

Done: the lookups (`InstanceLookup`, `KubernetesBackend`, `MetadataAPI`) with their proofs and
the refinement; `ServeLifecycle` and `EC2Conversion` with their proofs; the runs that show
where documentation and code differ; the flat file backend with `FlatfileService`, its
refinement and `TrustedProxies`, proved; the pipeline and the process with their proofs;
`RouteTable` and `HegelFrontend` with their proofs.

Left: the notation of addresses on the way into the index; the promise of the flat file
backend over files that repeat an address, as a specification of its own.
