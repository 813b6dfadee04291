---------------------------- MODULE TargetCheck -----------------------------
(***************************************************************************)
(* What a credential check makes of the answers of a target (proxmox.py,   *)
(* pbs.py): the listings of nodes, the verdict on the configured node      *)
(* name, the privilege, and how the caller's time is divided among the     *)
(* requests.                                                               *)
(***************************************************************************)
EXTENDS Integers, FiniteSets

None == "none"             \* no name, no type
Localhost == "localhost"   \* LOCAL_NODE

-----------------------------------------------------------------------------
(* Listings.  An answer is a set of entries, or no answer that could be read. *)

Unread == [readable |-> FALSE, nodes |-> {}, local |-> None]    \* NodeList()

\* _read_node_source.  The record of the cluster itself is not a node.
ReadNodeSource(answered, entries) ==
    LET named == {e \in entries : e.type \in {None, "node"} /\ e.name # None}
        here == {e \in named : e.local}
    IN IF ~answered \/ named = {}
       THEN Unread
       ELSE [readable |-> TRUE, nodes |-> {e.name : e \in named},
             local |-> IF here = {} THEN None ELSE (CHOOSE e \in here : TRUE).name]

\* list_nodes: the cluster's status marks the node that answers, the index does not.
ListNodes(status, index) == IF status.readable THEN status ELSE index

\* verify_node.  The name is tried against PVE's own rule first (Valid).
VerifyNode(name, valid, known) ==
    IF ~valid THEN "invalid"
    ELSE IF ~known.readable THEN "unverified"
    ELSE IF name \notin known.nodes THEN "wrong"
    ELSE IF known.local # None /\ name # known.local THEN "proxied"
    ELSE "ok"

-----------------------------------------------------------------------------
(* The check of one target: version, permissions, node name. *)

\* The ACL paths on which the check accepts the privilege; "own" is /nodes/<name> of PVE
\* and /system/status of PBS, "all" the path above it.
PrivPaths == {"/", "all", "own"}

\* test_connection of either product: what /version and /access/permissions answered, the
\* paths that carry the privilege, and the verdict on the name ("unverified" for PBS).
TestConnection(version, perms, paths, verdict) ==
    LET good == version = "200" /\ perms # "lost"
        power == good /\ perms = "200" /\ paths \cap PrivPaths # {}
    IN [ok |-> good, power |-> power, node |-> IF power THEN verdict ELSE "unverified"]

\* _node_name_ok: a name counts only where it decides where the shutdown lands.
NodeNameOk(state, unique) == state \in {"ok", "unverified"} \/ unique

\* _run_selftest: the check an entry passes.
IsGreen(r, unique) == r.ok /\ r.power /\ NodeNameOk(r.node, unique)

-----------------------------------------------------------------------------
(* Time, in sixths of a second, so that the shares are whole numbers. *)

AtLeast(x, y) == IF x < y THEN y ELSE x
AtMost(x, y) == IF x < y THEN x ELSE y

PveShare(timeout) == AtLeast(12, timeout \div 3)     \* proxmox.test_connection
PbsShare(timeout) == AtLeast(12, timeout \div 2)     \* pbs.test_connection
ListShare(timeout) == AtLeast(12, timeout \div 2)    \* list_nodes

\* Every request of a check takes its share in full: two and two listings, or two.
PveTestTime(timeout) ==
    2 * PveShare(timeout) + 2 * ListShare(AtMost(PveShare(timeout), 30))
PbsTestTime(timeout) == 2 * PbsShare(timeout)
=============================================================================
