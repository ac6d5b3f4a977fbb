----------------------------- MODULE MCFwSystem -----------------------------
(* Small instances of FwSystem: the requests the processes may make. *)
EXTENDS FwSystem, TLC

CONSTANTS c1, c2, c3, p1, p2, a, b

Register(port, slug) == [type |-> "register", port |-> port, slug |-> slug]
Stop(selector) == [type |-> "stop", selector |-> selector]
Kill == [type |-> "kill"]
List == [type |-> "list"]

(* An owner; one that wants its port or its slug, or a `kill`; a `stop`. *)
OwnersStopKill ==
    (c1 :> {Register(p1, a)}) @@
    (c2 :> {Register(p1, NoSlug), Register(p2, a), Kill}) @@
    (c3 :> {Stop(a)})

TwoOwnersOrList == (c1 :> RegisterMessage) @@ (c2 :> RegisterMessage \cup {List})
TwoOwners == (c1 :> {Register(p1, a)}) @@ (c2 :> {Register(p1, NoSlug)})
OwnerStop == (c1 :> {Register(p1, a)}) @@ (c2 :> {Stop(a), Stop(p1)})
OwnerKill == (c1 :> {Register(p1, a)}) @@ (c2 :> {Kill})

PortSymmetry == Permutations(Ports)
=============================================================================
