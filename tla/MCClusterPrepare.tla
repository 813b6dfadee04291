-------------------------- MODULE MCClusterPrepare --------------------------
(***************************************************************************)
(* Instances of ClusterPrepare for TLC: a guest like any other, the one    *)
(* the appliance runs in, and one that has the appliance's name.           *)
(***************************************************************************)
EXTENDS ClusterPrepare

CONSTANTS db, usv, twin

MCGuests == {db, usv, twin}
MCName == [g \in MCGuests |-> IF g = db THEN "db" ELSE "usv"]

Site(ceph, disarm_ha, managed, own) ==
  [ceph |-> ceph, disarm_ha |-> disarm_ha, managed |-> managed, own |-> own]

\* Hyper-converged with and without HA guests, an old release, no Ceph at all.
MCSites ==
  {Site(TRUE, TRUE, {db}, usv), Site(TRUE, TRUE, {}, usv),
   Site(TRUE, FALSE, {db}, usv), Site(FALSE, TRUE, {db}, NoGuest)}

Picked(vmid, external, hostname, disarm, force) ==
  [ceph |-> TRUE, disarm |-> disarm, self_vmid |-> vmid,
   self_external |-> external, hostname |-> hostname, force |-> force]

\* Picked, gone, wrongly picked, guessed from a name that is ambiguous but for
\* the kind, and an appliance outside.
MCSettings ==
  {Picked(usv, FALSE, "box", TRUE, TRUE), Picked(Gone, FALSE, "box", TRUE, TRUE),
   Picked(db, FALSE, "usv", TRUE, FALSE), Picked(NoGuest, FALSE, "usv", TRUE, TRUE),
   Picked(NoGuest, TRUE, "usv", FALSE, FALSE)}

=============================================================================
