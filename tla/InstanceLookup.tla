--------------------------- MODULE InstanceLookup ---------------------------
(***************************************************************************)
(* What the Kubernetes backend promises to a frontend that asks for the    *)
(* instance behind an address, apart from how caches and indexes do it.    *)
(*                                                                         *)
(* A store holds Hardware objects and changes over time.  The backend      *)
(* knows each object as it was at some revision of the store; that         *)
(* revision only moves forward, object by object.  A lookup is answered,   *)
(* in one step, from what is known at that moment: the one object in scope *)
(* that holds the address, nobody, or a refusal when several hold it.      *)
(***************************************************************************)
EXTENDS Naturals, Sequences

CONSTANTS
    Hardware,   \* names of Hardware objects
    Scope,      \* the ones this backend may serve
    Addrs,      \* well-formed, non-empty addresses
    BadAddr,    \* a remote address that cannot be parsed
    Objects,    \* what a Hardware object may be
    Absent,     \* what a name stands for when no such object exists
    NoHardware, \* the hardware of an answer that found none
    Lookups     \* the callers that may ask, each about one address at a time

VARIABLES
    snaps,      \* the revisions of the store, oldest first
    known,      \* for each hardware, the revision it is known at
    lookup      \* for each caller, what it asked for and the answer

lookupVars == <<snaps, known, lookup>>

\* An object holds an address when one of its interfaces carries it.
Owns(object, ip) ==
    /\ object # Absent
    /\ ip \in Addrs
    /\ \E i \in DOMAIN object.ifaces : object.ifaces[i] = ip

Holders(ip) == {h \in Scope : Owns(snaps[known[h]][h], ip)}

NoLookup == [ip |-> BadAddr, kind |-> "none", hw |-> NoHardware, obj |-> Absent]

Init ==
    /\ snaps = <<[h \in Hardware |-> Absent]>>
    /\ known = [h \in Hardware |-> 1]
    /\ lookup = [l \in Lookups |-> NoLookup]

\* Somebody changes the store.
Change ==
    /\ \E s \in [Hardware -> Objects \cup {Absent}] : snaps' = Append(snaps, s)
    /\ UNCHANGED <<known, lookup>>

\* Knowledge of the objects moves forward, never past the store.
Learn ==
    /\ DOMAIN known' = Hardware
    /\ \A h \in Hardware : known'[h] \in known[h]..Len(snaps)
    /\ UNCHANGED <<snaps, lookup>>

Becomes(l, ip, kind, hw, obj) ==
    lookup' = [lookup EXCEPT ![l] = [ip |-> ip, kind |-> kind, hw |-> hw, obj |-> obj]]

\* A caller asks about an address, forgetting its earlier question.
Ask(l) ==
    /\ \E ip \in Addrs \cup {BadAddr} : Becomes(l, ip, "open", NoHardware, Absent)
    /\ UNCHANGED <<snaps, known>>

\* A caller that does not look anything up (a health check) forgets its question.
Forget(l) ==
    /\ lookup' = [lookup EXCEPT ![l] = NoLookup]
    /\ UNCHANGED <<snaps, known>>

Answer(l) ==
    LET ip == lookup[l].ip
        holders == Holders(ip)
    IN
    /\ lookup[l].kind = "open"
    /\ \/ \E h \in holders : holders = {h} /\ Becomes(l, ip, "found", h, snaps[known[h]][h])
       \/ holders = {} /\ Becomes(l, ip, "nobody", NoHardware, Absent)
       \/ /\ \E g, h \in holders : g # h
          /\ Becomes(l, ip, "refused", NoHardware, Absent)
    /\ UNCHANGED <<snaps, known>>

Next ==
    \/ Change
    \/ Learn
    \/ \E l \in Lookups : Ask(l) \/ Forget(l) \/ Answer(l)

Spec == Init /\ [][Next]_lookupVars
=============================================================================
