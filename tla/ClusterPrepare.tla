--------------------------- MODULE ClusterPrepare ---------------------------
(***************************************************************************)
(* How app/cluster.py prepares one cluster for its shutdown and undoes it: *)
(* HA disarm, stopping the guests, Ceph flags; arming and clearing.  Every *)
(* write is a request whose answer proves nothing, and is believed only    *)
(* once a later read shows its effect.  Every wait has a deadline; how     *)
(* much time is left is not modelled, so any wait may end early.           *)
(*                                                                         *)
(* The cluster moves between any two steps: the HA manager disarms and     *)
(* arms slowly and restarts the guests it manages, guests obey or ignore   *)
(* a shutdown, a worker sets the flags some time after it was accepted.    *)
(* Calls follow each other; that two may overlap is ClusterEpisode's.      *)
(***************************************************************************)
CONSTANTS
  Guests,     \* the guests of the cluster, each its own vmid and node
  NoGuest,    \* None, no guest
  Gone,       \* a selected vmid that is not on the selected node any more
  Name,       \* the name of each guest
  Container,  \* the guests of kind "lxc"
  Flags,      \* CEPH_MAINTENANCE_FLAGS
  Sites,      \* the clusters to look at: what runs there
  Settings,   \* the configurations to look at
  Unread      \* the reads that may fail: "guests" and "ha" of the inspection,
              \* those of "prepare" and of "restore"

ASSUME PrepareAssumption ==
  /\ {NoGuest, Gone} \cap Guests = {} /\ NoGuest # Gone
  /\ Container \subseteq Guests
  /\ Flags # {}
  /\ \A s \in Sites : /\ s.ceph \in BOOLEAN /\ s.disarm_ha \in BOOLEAN
                      /\ s.managed \subseteq Guests
                      /\ s.own \in Guests \cup {NoGuest}
  /\ \A s \in Settings : /\ s.ceph \in BOOLEAN /\ s.disarm \in BOOLEAN
                         /\ s.force \in BOOLEAN /\ s.self_external \in BOOLEAN
                         /\ s.self_vmid \in Guests \cup {NoGuest, Gone}
  /\ Unread \subseteq {"guests", "ha", "prepare", "restore"}

VARIABLES
  site,          \* EXTERNAL: which cluster this is
  settings,
  running,       \* EXTERNAL: the running guests
  stopping,      \* EXTERNAL: guests told to stop, which may or may not do so
  ha,            \* EXTERNAL: the armed-state of the HA manager
  flags,         \* EXTERNAL: the flags that are set
  worker,        \* EXTERNAL: what the worker of a bulk update still has to do
  call,          \* the call that runs, or ran last
  pc,            \* where it is
  want,          \* want_ceph, want_disarm, want_guests
  needs_disarm,  \* guest_needs_disarm
  listed,        \* the guests running when the cluster was inspected
  self_guest,
  disarmed,
  targets,
  asked,         \* those the shutdown request went out to
  left,          \* those still running when the grace period was over
  killed,        \* those the stop request went out to
  put,           \* the flags still to be written one by one
  ok,
  result,        \* how the call ended: "ok", "failed", or "cut" off by wait_for
  refused,       \* HISTORY: the cluster rejected a flag request of this call
  unseen         \* HISTORY: what this restore could not read, "ha" or "flags"

world == <<running, stopping, ha, flags, worker>>
plan == <<want, needs_disarm, listed, self_guest>>
guests == <<targets, asked, left, killed>>
history == <<refused, unseen>>
vars == <<site, settings, world, call, pc, plan, disarmed, guests, put, ok,
          result, history>>

-----------------------------------------------------------------------------
\* The only member of S, or NoGuest.
TheOnly(S) == IF \E g \in Guests : S = {g} THEN CHOOSE g \in Guests : S = {g}
              ELSE NoGuest

\* find_self_guest: the selected guest or nothing; without a selection, the one
\* guest of our name, or the one container of our name.
FindSelfGuest ==
  LET hits == {g \in Guests : Name[g] = settings.hostname}
  IN IF settings.self_vmid # NoGuest
     THEN IF settings.self_vmid = Gone THEN NoGuest ELSE settings.self_vmid
     ELSE IF TheOnly(hits) # NoGuest THEN TheOnly(hits)
     ELSE TheOnly(hits \cap Container)

\* MUTANT of StopTargets: without the insurance of the hostname.
SelectedTargets == listed \ {self_guest}

\* stop_targets; templates never run and are no Guests here.
StopTargets == {g \in listed : g # self_guest /\ Name[g] # settings.hostname}

\* A read that may fail: its value, or that it was unreadable.
Reading(value, phase) ==
  {[read |-> TRUE, value |-> value]}
    \cup (IF phase \in Unread THEN {[read |-> FALSE, value |-> {}]} ELSE {})

\* MUTANT of Down: an unreadable list is an empty one.
NoneListed(list) == targets \cap list.value = {}

\* down() in _shutdown_guests
Down(list) == list.read /\ targets \cap list.value = {}

\* still_running()
StillRunning(list) == IF list.read THEN targets \cap list.value ELSE targets

\* _read_armed_state: "" when unread, or when the release has no arm state.
ArmedStates(phase) ==
  (IF site.disarm_ha THEN {ha} ELSE {""})
    \cup (IF phase \in Unread THEN {""} ELSE {})

\* The flags a call is to reach, and reached() on a read of them.
Goal == IF call = "prepare" THEN Flags ELSE {}
Reached(list) == list.read /\ list.value = Goal

\* What follows the guest step, and the HA step, however they went.
AfterGuests == IF want.ceph THEN "flags" ELSE "idle"
AfterHa == IF want.guests THEN "guests" ELSE AfterGuests

\* Go on to the step next, everything having gone well so far or not.
Continue(next, good) ==
  /\ pc' = next
  /\ ok' = good
  /\ result' = IF next # "idle" THEN result ELSE IF good THEN "ok" ELSE "failed"

-----------------------------------------------------------------------------
Init ==
  /\ site \in Sites /\ settings \in Settings
  /\ running = Guests /\ stopping = {}
  /\ ha = "armed" /\ flags = {} /\ worker = "none"
  /\ call = "none" /\ pc = "idle"
  /\ want = [ceph |-> FALSE, disarm |-> FALSE, guests |-> FALSE]
  /\ needs_disarm = FALSE /\ listed = {} /\ self_guest = NoGuest
  /\ disarmed = FALSE
  /\ targets = {} /\ asked = {} /\ left = {} /\ killed = {}
  /\ put = {} /\ ok = TRUE /\ result = "none" /\ refused = FALSE /\ unseen = {}

Start(which) ==
  /\ pc = "idle"
  /\ worker = "none"      \* EXTERNAL: the worker of an earlier call is done
  /\ call' = which
  /\ disarmed' = FALSE
  /\ targets' = {} /\ asked' = {} /\ left' = {} /\ killed' = {}
  /\ put' = {} /\ ok' = TRUE /\ result' = "none"
  /\ refused' = FALSE /\ unseen' = {}
  /\ UNCHANGED <<site, settings, world>>

\* _prepare_clusters: what is wanted, of what an inspection found; then prepare.
PrepareFrom(guest_list, services) ==
  LET want_ceph == settings.ceph /\ site.ceph
      want_disarm == settings.disarm /\ site.disarm_ha
      ha_resources == services.value # {}
      want_guests == /\ want_ceph
                     /\ guest_list.read
                     /\ ha_resources => want_disarm
                     /\ FindSelfGuest # NoGuest \/ settings.self_external
  IN /\ want_ceph \/ want_disarm
     /\ Start("prepare")
     /\ want' = [ceph |-> want_ceph, disarm |-> want_disarm, guests |-> want_guests]
     /\ needs_disarm' = ha_resources
     /\ listed' = guest_list.value
     /\ self_guest' = FindSelfGuest
     /\ pc' = IF want_disarm THEN "ha_read" ELSE IF want_guests THEN "guests" ELSE "flags"

Prepare ==
  \E guest_list \in Reading(running, "guests"), services \in Reading(site.managed, "ha") :
    PrepareFrom(guest_list, services)

\* restore_clusters: only a cluster an inspection found something left over on.
Restore ==
  /\ ha \in {"disarming", "disarmed"} \/ flags # {}
  /\ Start("restore")
  /\ pc' = "arm_read"
  /\ UNCHANGED plan

\* asyncio.wait_for around either call.
CutOff ==
  /\ pc # "idle"
  /\ pc' = "idle" /\ result' = "cut"
  /\ UNCHANGED <<site, settings, world, call, plan, disarmed, guests, put, ok, history>>

-----------------------------------------------------------------------------
\* HA, first: a stack found disarmed is left alone.
ReadArmed ==
  /\ pc = "ha_read"
  /\ \E seen \in ArmedStates("prepare") :
       /\ disarmed' = (seen = "disarmed")
       /\ Continue(IF seen = "disarmed" THEN AfterHa ELSE "ha_post", ok)
  /\ UNCHANGED <<site, settings, world, call, plan, guests, put, history>>

\* disarm-ha; an answer that is an error may hide a request that was carried out.
PostDisarm ==
  /\ pc = "ha_post"
  /\ \/ ha' = "disarming" /\ Continue("ha_verify", ok)
     \/ ha' \in {ha, "disarming"} /\ Continue(AfterHa, FALSE)
  /\ UNCHANGED <<site, settings, running, stopping, flags, worker, call, plan,
                 disarmed, guests, put, history>>

\* reached() of the disarm.
HaLeft(seen) == seen = "disarmed"

SeenDisarmed ==
  /\ pc = "ha_verify"
  /\ \E seen \in ArmedStates("prepare") : HaLeft(seen)
  /\ disarmed' = TRUE
  /\ Continue(AfterHa, ok)
  /\ UNCHANGED <<site, settings, world, call, plan, guests, put, history>>

DisarmOver ==
  /\ pc = "ha_verify"
  /\ Continue(AfterHa, FALSE)
  /\ UNCHANGED <<site, settings, world, call, plan, disarmed, guests, put, history>>

-----------------------------------------------------------------------------
\* The gate of the guest step: no stopping under a manager that restarts.
MayStop == needs_disarm => disarmed

StartGuests ==
  /\ pc = "guests"
  /\ IF MayStop /\ StopTargets # {}
     THEN targets' = StopTargets /\ Continue("ask", ok)
     ELSE UNCHANGED targets /\ Continue(AfterGuests, ok)
  /\ UNCHANGED <<site, settings, world, call, plan, disarmed, asked, left,
                 killed, put, history>>

\* The request may be accepted or not: a rejection is only noted.
Told(g) == stopping' \in {stopping, stopping \cup ({g} \cap running)}

AskGuest(g) ==
  /\ pc = "ask"
  /\ g \in targets \ asked
  /\ asked' = asked \cup {g}
  /\ Told(g)
  /\ UNCHANGED <<site, settings, running, ha, flags, worker, call, pc, plan,
                 disarmed, targets, left, killed, put, ok, result, history>>

\* All are asked, or the round was cut short.
AskOver ==
  /\ pc = "ask"
  /\ Continue("grace", ok)
  /\ UNCHANGED <<site, settings, world, call, plan, disarmed, guests, put, history>>

SeenDown ==
  /\ pc \in {"grace", "reap"}
  /\ \E list \in Reading(running, "prepare") : Down(list)
  /\ Continue(AfterGuests, ok)
  /\ UNCHANGED <<site, settings, world, call, plan, disarmed, guests, put, history>>

GraceOver ==
  /\ pc = "grace"
  /\ \E list \in Reading(running, "prepare") : left' = StillRunning(list)
  /\ IF settings.force THEN Continue("kill", ok)
     ELSE Continue(AfterGuests, FALSE)
  /\ UNCHANGED <<site, settings, world, call, plan, disarmed, targets, asked,
                 killed, put, history>>

KillGuest(g) ==
  /\ pc = "kill"
  /\ g \in left \ killed
  /\ killed' = killed \cup {g}
  /\ Told(g)
  /\ UNCHANGED <<site, settings, running, ha, flags, worker, call, pc, plan,
                 disarmed, targets, asked, left, put, ok, result, history>>

KillOver ==
  /\ pc = "kill"
  /\ Continue("reap", ok)
  /\ UNCHANGED <<site, settings, world, call, plan, disarmed, guests, put, history>>

\* MUTANT of ReapOver: guests that survive end the preparation.
ReapEndsIt ==
  /\ pc = "reap"
  /\ Continue("idle", FALSE)
  /\ UNCHANGED <<site, settings, world, call, plan, disarmed, guests, put, history>>

ReapOver ==
  /\ pc = "reap"
  /\ Continue(AfterGuests, FALSE)
  /\ UNCHANGED <<site, settings, world, call, plan, disarmed, guests, put, history>>

-----------------------------------------------------------------------------
\* _set_ceph_flags, in either direction: the bulk update first, ...
BulkPut ==
  /\ pc = "flags"
  /\ \/ worker' = call /\ Continue("bulk", ok) /\ UNCHANGED <<put, refused>>
     \/ /\ worker' \in {worker, call}
        /\ Continue("single", ok)
        /\ put' = Flags /\ refused' = TRUE
  /\ UNCHANGED <<site, settings, running, stopping, ha, flags, call, plan,
                 disarmed, guests, unseen>>

SeenFlags ==
  /\ pc \in {"bulk", "check"}
  /\ \E list \in Reading(flags, call) : Reached(list)
  /\ Continue("idle", ok)
  /\ UNCHANGED <<site, settings, world, call, plan, disarmed, guests, put, history>>

BulkOver ==
  /\ pc = "bulk"
  /\ put' = Flags
  /\ Continue("single", ok)
  /\ UNCHANGED <<site, settings, world, call, plan, disarmed, guests, history>>

\* ... then flag by flag.
PutFlag(f) ==
  /\ pc = "single"
  /\ f \in put
  /\ put' = put \ {f}
  /\ Continue(IF put = {f} THEN "check" ELSE "single", ok)
  /\ \/ flags' = (IF call = "prepare" THEN flags \cup {f} ELSE flags \ {f}) /\ UNCHANGED refused
     \/ UNCHANGED flags /\ refused' = TRUE
  /\ UNCHANGED <<site, settings, running, stopping, ha, worker, call, plan,
                 disarmed, guests, unseen>>

FlagsOver ==
  /\ pc = "check"
  /\ Continue("idle", FALSE)
  /\ UNCHANGED <<site, settings, world, call, plan, disarmed, guests, put, history>>

-----------------------------------------------------------------------------
\* _restore: arm what is known not to be armed, then clear what is known to be set.
ReadToArm ==
  /\ pc = "arm_read"
  /\ \E seen \in ArmedStates("restore") :
       /\ Continue(IF seen \in {"", "armed"} THEN "clear_read" ELSE "arm_post", ok)
       /\ unseen' = IF site.disarm_ha /\ seen = "" THEN unseen \cup {"ha"} ELSE unseen
  /\ UNCHANGED <<site, settings, world, call, plan, disarmed, guests, put, refused>>

PostArm ==
  /\ pc = "arm_post"
  /\ \/ ha' = "arming" /\ Continue("arm_verify", ok)
     \/ ha' \in {ha, "arming"} /\ Continue("clear_read", FALSE)
  /\ UNCHANGED <<site, settings, running, stopping, flags, worker, call, plan,
                 disarmed, guests, put, history>>

\* MUTANT of ArmReached: accepted is as good as armed.
ArmAccepted(seen) == seen \in {"arming", "armed"}

ArmReached(seen) == seen = "armed"

SeenArmed ==
  /\ pc = "arm_verify"
  /\ \E seen \in ArmedStates("restore") : ArmReached(seen)
  /\ Continue("clear_read", ok)
  /\ UNCHANGED <<site, settings, world, call, plan, disarmed, guests, put, history>>

ArmOver ==
  /\ pc = "arm_verify"
  /\ Continue("clear_read", FALSE)
  /\ UNCHANGED <<site, settings, world, call, plan, disarmed, guests, put, history>>

ReadToClear ==
  /\ pc = "clear_read"
  /\ \E list \in Reading(flags, "restore") :
       /\ Continue(IF list.value # {} THEN "flags" ELSE "idle", ok)
       /\ unseen' = IF list.read THEN unseen ELSE unseen \cup {"flags"}
  /\ UNCHANGED <<site, settings, world, call, plan, disarmed, guests, put, refused>>

-----------------------------------------------------------------------------
\* EXTERNAL: what the cluster and its users do.
HaSettles ==
  /\ ha \in {"disarming", "arming"}
  /\ ha' = IF ha = "disarming" THEN "disarmed" ELSE "armed"
  /\ UNCHANGED <<site, settings, running, stopping, flags, worker, call, pc,
                 plan, disarmed, guests, put, ok, result, history>>

WorkerRuns ==
  /\ worker # "none"
  /\ flags' = IF worker = "prepare" THEN Flags ELSE {}
  /\ worker' = "none"
  /\ UNCHANGED <<site, settings, running, stopping, ha, call, pc, plan,
                 disarmed, guests, put, ok, result, history>>

GuestStops(g) ==
  /\ g \in stopping
  /\ running' = running \ {g} /\ stopping' = stopping \ {g}
  /\ UNCHANGED <<site, settings, ha, flags, worker, call, pc, plan, disarmed,
                 guests, put, ok, result, history>>

\* The HA manager restarts what it manages; a user starts guests between calls.
GuestStarts(g) ==
  /\ g \in Guests \ running
  /\ \/ g \in site.managed /\ ha # "disarmed"
     \/ pc = "idle"
  /\ running' = running \cup {g}
  /\ UNCHANGED <<site, settings, stopping, ha, flags, worker, call, pc, plan,
                 disarmed, guests, put, ok, result, history>>

Next ==
  \/ Prepare \/ Restore \/ CutOff
  \/ ReadArmed \/ PostDisarm \/ SeenDisarmed \/ DisarmOver
  \/ StartGuests \/ AskOver \/ SeenDown \/ GraceOver \/ KillOver \/ ReapOver
  \/ \E g \in Guests : AskGuest(g) \/ KillGuest(g)
  \/ BulkPut \/ SeenFlags \/ BulkOver \/ FlagsOver
  \/ \E f \in Flags : PutFlag(f)
  \/ ReadToArm \/ PostArm \/ SeenArmed \/ ArmOver \/ ReadToClear
  \/ HaSettles \/ WorkerRuns
  \/ \E g \in Guests : GuestStops(g) \/ GuestStarts(g)

Spec == Init /\ [][Next]_vars

-----------------------------------------------------------------------------
Requests == {"prepare", "restore"}
Stages == {"idle", "ha_read", "ha_post", "ha_verify", "guests", "ask", "grace",
           "kill", "reap", "flags", "bulk", "single", "check", "arm_read",
           "arm_post", "arm_verify", "clear_read"}

\* Types, and what the requests of one call can be about.
TypeOK ==
  /\ site \in Sites /\ settings \in Settings
  /\ stopping \subseteq running /\ running \subseteq Guests
  /\ ha \in {"armed", "disarming", "disarmed", "arming"}
  /\ flags \subseteq Flags
  /\ worker \in Requests \cup {"none"}
  /\ call \in Requests \cup {"none"} /\ pc \in Stages
  /\ want \in [ceph : BOOLEAN, disarm : BOOLEAN, guests : BOOLEAN]
  /\ needs_disarm \in BOOLEAN /\ disarmed \in BOOLEAN
  /\ listed \subseteq Guests /\ self_guest \in Guests \cup {NoGuest}
  /\ targets \subseteq listed /\ asked \subseteq targets
  /\ left \subseteq targets /\ killed \subseteq left
  /\ put \subseteq Flags
  /\ ok \in BOOLEAN /\ refused \in BOOLEAN /\ unseen \subseteq {"ha", "flags"}
  /\ result \in {"none", "ok", "failed", "cut"}

\* The call ends by itself in this step, with or without success.
Ends(which) == call = which /\ pc # "idle" /\ pc' = "idle" /\ result' # "cut"

\* The inspection saw of the guests under HA that there are any; a status it could
\* not read counts as none.
HaWasSeen == site.managed = {} \/ needs_disarm

\* A preparation reported as done is done, in the cluster and not only in the
\* answers: HA is disarmed if it was wanted, of the guests that ran when the
\* cluster was inspected none runs but those to be spared, and every flag is
\* set; whatever was rejected, late, unreadable or restarted on the way
\* (_prepare, _shutdown_guests, _set_ceph_flags).  Only the guests may run again
\* of a cluster whose HA status the inspection could not read.
PreparedIsPrepared ==
  [][Ends("prepare") /\ result' = "ok" =>
       /\ want.disarm => ha' = "disarmed"
       /\ want.guests /\ HaWasSeen => \A g \in listed \cap running' :
                           g = self_guest \/ Name[g] = settings.hostname
       /\ want.ceph => flags' = Flags]_vars

\* No guest is told to stop while an HA manager that was seen to manage guests
\* could start it again (the gates of _prepare_clusters and of _prepare, and the
\* order of the steps).
HaLetsGo ==
  [][(\E g \in Guests : g \in (asked' \ asked) \cup (killed' \ killed)) =>
       site.managed = {} \/ ha = "disarmed" \/ ~HaWasSeen]_vars

\* The settings do not deny the guest the appliance runs in: our name is its
\* name, or it is said to be a guest and, if it was picked, picked rightly.
Truthful ==
  \/ Name[site.own] = settings.hostname
  \/ /\ ~settings.self_external
     /\ \/ settings.self_vmid \in {site.own, Gone}
        \/ /\ settings.self_vmid = NoGuest
           /\ \A g \in Guests : Name[g] # settings.hostname

\* The appliance never stops itself: not with a selection that is gone, not with
\* a wrong selection or an opt-out if the names agree, not when several guests
\* have its name (find_self_guest, stop_targets, the gate of _prepare_clusters).
OwnGuestIsSpared ==
  site.own # NoGuest /\ Truthful =>
    site.own \notin asked \cup killed

\* Whatever became of HA and of the guests, a preparation that was not cut off
\* leaves the flags set, unless the cluster refused a request to set them.
FlagsComeAnyway ==
  [][Ends("prepare") /\ want.ceph /\ ~refused' => flags' = Flags]_vars

\* A restore reported as done has left nothing over of what it could read: HA is
\* armed unless its state was unreadable, and the flags are cleared unless they
\* were, whatever was rejected, late or unconfirmed on the way (_restore).
RestoredIsRestored ==
  [][Ends("restore") /\ result' = "ok" =>
       /\ ha' = "armed" \/ "ha" \in unseen'
       /\ flags' = {} \/ "flags" \in unseen']_vars

\* What restore's docstring promises without exception: HA armed again and the
\* flags cleared, confirmed by a read or not at all (cluster.py:1319, 922-923).
RestoreIsConfirmed ==
  [][Ends("restore") /\ result' = "ok" => ha' = "armed" /\ flags' = {}]_vars

=============================================================================
