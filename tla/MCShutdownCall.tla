--------------------------- MODULE MCShutdownCall ---------------------------
(***************************************************************************)
(* Instances of ShutdownCall for TLC: two entries, two nodes of a cluster, *)
(* and the ways their entries may be laid out.                             *)
(***************************************************************************)
EXTENDS ShutdownCall

CONSTANTS e1, e2, m1, m2, u1, u2

MCBehind == [u \in {u1, u2} |-> IF u = u1 THEN m1 ELSE m2]

MCEntry(url, name, paths) ==
    [type |-> "pve", enabled |-> TRUE, url |-> url, node |-> name, paths |-> paths]
MCBoth(a, b) == [e \in {e1, e2} |-> IF e = e1 THEN a ELSE b]

\* One entry on its own, with a token for its node; the other switched off.
MCAlone == MCBoth(MCEntry(u1, m1, {"own"}), [MCEntry(u1, m2, {"all"}) EXCEPT !.enabled = FALSE])
\* One URL for both, so that one machine forwards to the other; and a misspelled name.
MCShared == MCBoth(MCEntry(u1, Bad, {"all"}), MCEntry(u1, m2, {"all"}))
\* The name of another node, with a token for that node; and a backup server.
MCCrossed == MCBoth(MCEntry(u1, m2, {"own"}), [MCEntry(u2, Localhost, {"own"}) EXCEPT !.type = "pbs"])

MCConfigs == {MCAlone, MCShared, MCCrossed}
=============================================================================
