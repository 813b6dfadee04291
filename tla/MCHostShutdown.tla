--------------------------- MODULE MCHostShutdown ---------------------------
(***************************************************************************)
(* The instance of HostShutdown for TLC: an ordinary host that waits for   *)
(* both of two UPS, and the one that carries the appliance, which goes     *)
(* down for either of them.                                                *)
(***************************************************************************)
EXTENDS HostShutdown

CONSTANTS h1, own

OneOwn == {own}
SameOrder == [h \in Hosts |-> 1]

AllFeeds == [h \in Hosts |-> Ups]
OwnAny == [h \in Hosts |-> IF h = own THEN "any" ELSE "all"]

Config(hosts, enabled, dry) ==
  [hosts |-> hosts, enabled |-> enabled, dry_run |-> dry]
Armed == Config(Hosts, Hosts, FALSE)
DryRun == Config(Hosts, Hosts, TRUE)
Disabled == Config(Hosts, Hosts \ {h1}, FALSE)
Deleted == Config(Hosts \ {h1}, Hosts \ {h1}, FALSE)

AllConfigs == {Armed, DryRun, Disabled, Deleted}

=============================================================================
