--------------------------- MODULE MCConfigSave ----------------------------
(* Two places on the page for two machines.  One name is turned into the id that a     *)
(* second entry of the other name is given.                                              *)
EXTENDS ConfigSave, TLC

CONSTANTS t1, t2
MCTabs == {t1, t2}
Alike == Permutations(MCTabs)

Word(w) == [word |-> w, numbers |-> <<>>]
MCSlug == [x \in Names |-> IF x = "a" THEN Word("a") ELSE Suffixed(Word("a"), 2)]

Host(id, m, type, name) ==
    [id |-> id, machine |-> m, type |-> type, name |-> name, on |-> TRUE,
     token |-> [of |-> m, type |-> type]]

MCInitial == <<Host(HostId(1), "m1", "pve", "a"), Host(HostId(2), "m2", "pve", "a2")>>

\* A list from before the ids; and one written by hand, whose first entry asks for the id of
\* the second, and whose others hold one id twice or none.
MCWritten ==
    {<<Host(NoId, "m1", "pve", "a"), Host(NoId, "m2", "pve", "a")>>,
     <<Host(NoId, "m1", "pve", "a"), Host(Word("a"), "m2", "pbs", "a"),
       Host(Word("a"), "m1", "pve", "a2"), Host(NoId, "m2", "pve", "a2")>>}
=============================================================================
