---------------------------- MODULE ShutdownCall ----------------------------
(***************************************************************************)
(* One shutdown call per host entry, from targets.shutdown() down to the   *)
(* machine that carries the command out (targets.py, proxmox.py, pbs.py,   *)
(* AppConfig.api_url_is_unique).                                           *)
(*                                                                         *)
(* A call addresses a node through the API behind the entry's URL, first   *)
(* as "localhost" or by its configured name, and tries the other form      *)
(* after a refusal.  Between the client and the machine a request may be   *)
(* carried out and its answer lost, be carried out after the client gave   *)
(* up, be carried out and answered with an error, or not arrive; the       *)
(* machine behind the URL may forward it to the node it names, and may go  *)
(* down in the meantime.  Every attempt has a share of the time, and the   *)
(* whole call a deadline.  The entries call at the same time, and the      *)
(* configuration may be saved in between.                                  *)
(***************************************************************************)
EXTENDS TargetCheck

CONSTANTS
    Entries,     \* host entries
    Machines,    \* nodes of one cluster, which is how the API names them
    Bad,         \* a name no node has
    Urls,        \* API URLs, as _norm_api_url compares them
    Behind,      \* the machine behind each
    Configs,     \* the lists of hosts an operator saves
    Timeout,     \* host_shutdown_timeout_s, in ticks
    Grace,       \* DEADLINE_GRACE_S, in ticks
    Overruns     \* may an attempt outlast its share, in what httpx does not bound?

\* A host entry: its product, whether it is enabled, its URL and api_node, and the ACL
\* paths on which its token has the privilege.
HostConfig == [type: {"pve", "pbs"}, enabled: BOOLEAN, url: Urls,
               node: Machines \cup {Bad, Localhost}, paths: SUBSET PrivPaths]

ASSUME CallAssumption ==
    /\ Behind \in [Urls -> Machines]
    /\ Configs \subseteq [Entries -> HostConfig]
    /\ \A c \in Configs, e \in Entries : c[e].type = "pbs" => c[e].node = Localhost
    /\ Timeout \in Nat /\ Grace \in Nat \ {0}
    /\ Overruns \in BOOLEAN
    /\ Bad \notin Machines /\ None \notin Machines /\ Localhost \notin Machines \cup {Bad}

VARIABLES
    hosts,      \* the configuration
    up,         \* the machines that run
    \* of the last call of each entry
    phase,      \* "idle", "busy", "sent", "failed", or "cut" off by the deadline
    host,       \* the entry as it was at its start ...
    local,      \* ... and use_localhost
    form,       \* the attempt it is at, 1 or 2
    request,    \* what has become of its request
    age, spent, \* ticks since the attempt and since the call began
    \* history
    hit,        \* machines that accepted its last call
    excused,    \* an attempt got no answer, or an error of the machine itself
    masked,     \* an error answered a command that was carried out
    overran     \* an attempt outlasted its share

call == <<host, local>>
client == <<form, age, spent, excused, masked, overran>>
vars == <<hosts, up, phase, call, client, request, hit>>

Deadline == Timeout + Grace

\* api_url_is_unique, of the enabled entries.
IsUnique(e) == \A d \in Entries \ {e} : ~(hosts[d].enabled /\ hosts[d].url = hosts[e].url)

\* The path segments a call tries: two, unless the name is "localhost" itself, as that of
\* PBS always is.
Last(e) == IF host[e].node = Localhost THEN 1 ELSE 2
Node(e) == IF local[e] <=> form[e] = 1 THEN Localhost ELSE host[e].node

\* MUTANT of Share: every attempt gets the whole time.
WholeShare(e) == Timeout

\* The time is shared between the attempts.
Share(e) == Timeout \div Last(e)

TypeOK ==
    /\ hosts \in Configs
    /\ up \subseteq Machines
    /\ phase \in [Entries -> {"idle", "busy", "sent", "failed", "cut"}]
    /\ host \in [Entries -> HostConfig]
    /\ local \in [Entries -> BOOLEAN]
    /\ form \in [Entries -> {1, 2}]
    /\ request \in [Entries -> {"none", "sent", "accepted", "refused"}]
    /\ age \in [Entries -> Nat]
    /\ spent \in [Entries -> Nat]
    /\ hit \in [Entries -> SUBSET Machines]
    /\ excused \in [Entries -> BOOLEAN]
    /\ masked \in [Entries -> BOOLEAN]
    /\ overran \in [Entries -> BOOLEAN]

Init ==
    /\ hosts \in Configs
    /\ up = Machines
    /\ phase = [e \in Entries |-> "idle"]
    /\ host = hosts
    /\ local = [e \in Entries |-> TRUE]
    /\ form = [e \in Entries |-> 1]
    /\ request = [e \in Entries |-> "none"]
    /\ age = [e \in Entries |-> 0] /\ spent = [e \in Entries |-> 0]
    /\ hit = [e \in Entries |-> {}]
    /\ excused = [e \in Entries |-> FALSE]
    /\ masked = [e \in Entries |-> FALSE]
    /\ overran = [e \in Entries |-> FALSE]

-----------------------------------------------------------------------------
(* The machines. *)

\* The machine a request reaches: PVE handles "localhost" and its own name itself and
\* forwards every other name, which takes both machines.
Reaches(e, m) ==
    LET b == Behind[host[e].url] IN
    /\ b \in up /\ m \in up
    /\ m = IF Node(e) = Localhost THEN b ELSE Node(e)

\* The privilege is looked for on the path of the node as the request names it.
Privileged(e) ==
    \/ host[e].paths \cap {"/", "all"} # {}
    \/ "own" \in host[e].paths /\ Node(e) = host[e].node

\* The command is carried out, whether or not the client still waits.
Accept(e) ==
    /\ request[e] = "sent" /\ Privileged(e)
    /\ \E m \in Machines :
         /\ Reaches(e, m)
         /\ hit' = [hit EXCEPT ![e] = @ \cup {m}]
    /\ request' = [request EXCEPT ![e] = "accepted"]
    /\ UNCHANGED <<hosts, up, phase, call, client>>

\* A name that no node has, or no privilege.
Refuse(e) ==
    /\ request[e] = "sent"
    /\ ~Privileged(e) \/ Node(e) = Bad
    /\ Behind[host[e].url] \in up
    /\ request' = [request EXCEPT ![e] = "refused"]
    /\ UNCHANGED <<hosts, up, phase, call, client, hit>>

\* An error of the machine itself, or of the one that forwards to it, which may have lost
\* sight of a command carried out: also an answer, and for the client a refusal.
Fault(e) ==
    /\ request[e] \in {"sent", "accepted"}
    /\ phase[e] = "busy"
    /\ Behind[host[e].url] \in up
    /\ request' = [request EXCEPT ![e] = "refused"]
    /\ excused' = [excused EXCEPT ![e] = TRUE]
    /\ masked' = [masked EXCEPT ![e] = @ \/ request[e] = "accepted"]
    /\ UNCHANGED <<hosts, up, phase, call, form, age, spent, overran, hit>>

\* A machine that accepted goes down, sooner or later.
GoDown(m) ==
    /\ m \in up /\ \E e \in Entries : m \in hit[e]
    /\ up' = up \ {m}
    /\ UNCHANGED <<hosts, phase, call, client, request, hit>>

-----------------------------------------------------------------------------
(* The client. *)

\* update_config while calls run: they keep the entry they began with.
Save(new) ==
    /\ new # hosts
    /\ hosts' = new
    /\ UNCHANGED <<up, phase, call, client, request, hit>>

\* _fire_host, of an entry that is enabled and has not been sent; how often it is tried is
\* HostShutdown's matter.
Begin(e) ==
    /\ phase[e] \in {"idle", "failed", "cut"}
    /\ hosts[e].enabled
    /\ phase' = [phase EXCEPT ![e] = "busy"]
    /\ host' = [host EXCEPT ![e] = hosts[e]]
    /\ local' = [local EXCEPT ![e] = IsUnique(e)]
    /\ form' = [form EXCEPT ![e] = 1]
    /\ request' = [request EXCEPT ![e] = "sent"]
    /\ age' = [age EXCEPT ![e] = 0] /\ spent' = [spent EXCEPT ![e] = 0]
    /\ hit' = [hit EXCEPT ![e] = {}]
    /\ excused' = [excused EXCEPT ![e] = FALSE]
    /\ masked' = [masked EXCEPT ![e] = FALSE]
    /\ overran' = [overran EXCEPT ![e] = FALSE]
    /\ UNCHANGED <<hosts, up>>

\* Time passes; an attempt does not outlast its share unless in what httpx does not bound.
Tick(e) ==
    /\ phase[e] = "busy"
    /\ spent[e] < Deadline
    /\ age[e] < Share(e) \/ Overruns
    /\ age' = [age EXCEPT ![e] = @ + 1]
    /\ spent' = [spent EXCEPT ![e] = @ + 1]
    /\ overran' = [overran EXCEPT ![e] = @ \/ age[e] >= Share(e)]
    /\ UNCHANGED <<hosts, up, phase, call, form, request, excused, masked, hit>>

\* The call is over; a request the client no longer waits for may still be carried out.
End(e, result) ==
    /\ phase' = [phase EXCEPT ![e] = result]
    /\ age' = [age EXCEPT ![e] = 0] /\ spent' = [spent EXCEPT ![e] = 0]
    /\ overran' = [overran EXCEPT ![e] = @ /\ result = "cut"]

\* 200 or 201.
Succeed(e) ==
    /\ phase[e] = "busy" /\ request[e] = "accepted"
    /\ End(e, "sent")
    /\ UNCHANGED <<hosts, up, call, form, excused, masked, request, hit>>

\* The other form of the path, while there is one.
TryOther(e) ==
    /\ form[e] < Last(e)
    /\ form' = [form EXCEPT ![e] = 2]
    /\ request' = [request EXCEPT ![e] = "sent"]
    /\ age' = [age EXCEPT ![e] = 0]
    /\ UNCHANGED <<phase, spent, overran>>

\* MUTANT of AfterRefusal: a refusal ends the call.
AfterRefusalGiveUp(e) ==
    /\ phase[e] = "busy" /\ request[e] = "refused"
    /\ End(e, "failed")
    /\ UNCHANGED <<hosts, up, call, form, excused, masked, request, hit>>

\* Any other status.
AfterRefusal(e) ==
    /\ phase[e] = "busy" /\ request[e] = "refused"
    /\ \/ TryOther(e)
       \/ form[e] = Last(e) /\ End(e, "failed") /\ UNCHANGED <<form, request>>
    /\ UNCHANGED <<hosts, up, call, excused, masked, hit>>

\* MUTANT of AfterSilence: an attempt without an answer is followed by the other form too.
AfterSilenceTryOther(e) ==
    \/ TryOther(e)
    \/ form[e] = Last(e) /\ End(e, "failed") /\ UNCHANGED <<form, request>>

\* An exception ends the call, whichever attempt raised it.
AfterSilence(e) == End(e, "failed") /\ UNCHANGED <<form, request>>

\* httpx raises: there is no connection, or the share is used up; whatever was sent, and
\* whatever became of it.
Raise(e) ==
    /\ phase[e] = "busy"
    /\ AfterSilence(e)
    /\ excused' = [excused EXCEPT ![e] = TRUE]
    /\ UNCHANGED <<hosts, up, call, masked, hit>>

\* MUTANT of Cut: the deadline is that of the first attempt.
CutFirst(e) ==
    /\ phase[e] = "busy" /\ spent[e] = Deadline /\ form[e] = 1
    /\ End(e, "cut")
    /\ excused' = [excused EXCEPT ![e] = TRUE]
    /\ UNCHANGED <<hosts, up, call, form, request, masked, hit>>

\* wait_for: whatever the call is at.
Cut(e) ==
    /\ phase[e] = "busy" /\ spent[e] = Deadline
    /\ End(e, "cut")
    /\ excused' = [excused EXCEPT ![e] = TRUE]
    /\ UNCHANGED <<hosts, up, call, form, request, masked, hit>>

-----------------------------------------------------------------------------
Served(e) == Accept(e) \/ Refuse(e) \/ Fault(e)
Called(e) ==
    Begin(e) \/ Tick(e) \/ Succeed(e) \/ AfterRefusal(e) \/ Raise(e) \/ Cut(e)

Next ==
    \/ \E e \in Entries : Served(e) \/ Called(e)
    \/ \E m \in Machines : GoDown(m)
    \/ \E new \in Configs : Save(new)

Spec == Init /\ [][Next]_vars

\* Time passes, and the timeout of an attempt that used up its share fires unless the
\* attempt is where httpx bounds nothing; the deadline fires always.  That an answer comes
\* is not assumed.
Fairness ==
    \A e \in Entries : /\ WF_vars(Tick(e)) /\ WF_vars(Cut(e))
                       /\ ~Overruns => WF_vars(age[e] >= Share(e) /\ Raise(e))
FairSpec == Spec /\ Fairness

-----------------------------------------------------------------------------
(* Properties. *)

\* One call shuts down one machine at most, although its two forms may name two: silence is
\* not followed by the other form, and a refusal did nothing (proxmox.py:242-281).  Exempt is
\* a call whose first command was carried out and answered with an error all the same, and
\* that only of an entry naming another machine than the one behind its URL.
OneMachinePerCall ==
    \A e \in Entries :
        \/ Cardinality(hit[e]) <= 1
        \/ masked[e] /\ host[e].node \in Machines \ {Behind[host[e].url]}

\* What the exemption leaves out: the comment has it that a refused call did nothing and a
\* second one costs a round trip only (proxmox.py:245-247).
RefusedDidNothing ==
    [][\A e \in Entries : form[e] = 1 /\ form'[e] = 2 => hit[e] = {}]_vars

\* The entry's URL is the machine's own name, or the privilege does not hang on the name.
Standing(e) ==
    LET h == host[e]
        status == [readable |-> TRUE, nodes |-> Machines, local |-> Behind[h.url]]
        verdict == IF h.type = "pbs" THEN "unverified" ELSE VerifyNode(h.node, h.node # Bad, status)
        tested == TestConnection("200", "200", h.paths, verdict)
    IN IsGreen(tested, local[e]) /\ (verdict # "ok" => h.paths \cap {"/", "all"} # {})

\* An entry that passes the self-test is served: a call whose attempts were all answered,
\* and by no fault of the machine, is accepted and by the machine behind the URL.  Exempt
\* is a token whose privilege hangs on a name that is not the machine's
\* (engine.py:1814-1825, 2033-2090; proxmox.py:233-281).
GreenIsServed ==
    \A e \in Entries :
        (phase[e] \in {"sent", "failed", "cut"} /\ ~excused[e] /\ Standing(e)) =>
            phase[e] = "sent" /\ hit[e] = {Behind[host[e].url]}

\* The deadline of the call is a backstop: it cuts a call off only if an attempt
\* outlasted its share, so the client's own error message survives (targets.py:27-30).
DeadlineIsBackstop == \A e \in Entries : phase[e] = "cut" => overran[e]

\* Every call ends, whatever its machine and the other calls do (targets.py:9-12).
CallsEnd == \A e \in Entries : phase[e] = "busy" ~> phase[e] # "busy"

\* A first form that hangs is followed by the other: only the deadline may keep a call
\* from it (proxmox.py:240-257, tests/test_basic.py:5841-5848).
FallbackIsReachable ==
    \A e \in Entries : phase[e] = "failed" => form[e] = Last(e)
=============================================================================
