---------------------------- MODULE MCAgentQueue ----------------------------
(***************************************************************************)
(* Instances of AgentQueue for TLC.                                        *)
(***************************************************************************)
EXTENDS AgentQueue

MCBoth(n, t) == [s \in Settings |-> IF s = "ntp" THEN n ELSE t]

\* A time zone that changes; both set, the time zone to one nobody knows.
MCConfigs == {MCBoth(None, "a"), MCBoth(None, "b"), MCBoth("a", "x")}

\* One time zone to change to, and one nobody knows.
MCFewConfigs == {MCBoth(None, "a"), MCBoth("a", "x")}
=============================================================================
