------------------------ MODULE ClusterPrepareProofs ------------------------
(***************************************************************************)
(* What ClusterPrepare does for any guests, sites, settings and failing    *)
(* reads.  One inductive invariant carries all five results: it says which *)
(* call may be at which stage, what the plan of a preparation was made     *)
(* from, and what an untouched "ok" has already established.               *)
(***************************************************************************)
EXTENDS ClusterPrepare, TLAPS

HaStages == {"ha_read", "ha_post", "ha_verify"}
GuestStages == {"ask", "grace", "kill", "reap"}
FlagStages == {"flags", "bulk", "single", "check"}
ArmStages == {"arm_read", "arm_post", "arm_verify", "clear_read"}

\* The stages of a call, and what the cluster still does for it.
StageInv ==
  /\ pc \in HaStages \cup GuestStages \cup {"guests"} => call = "prepare"
  /\ pc \in ArmStages => call = "restore"
  /\ pc \in HaStages => want.disarm /\ ~disarmed
  /\ pc \in GuestStages \cup {"guests"} => want.guests
  /\ pc \in HaStages \cup {"guests"} => targets = {}
  /\ pc \in {"ask", "grace"} => killed = {}
  /\ worker # "none" => worker = call

\* The plan of a preparation follows from the settings and the inspection.
PlanInv ==
  call = "prepare" =>
    /\ self_guest = FindSelfGuest
    /\ want.disarm => site.disarm_ha
    /\ want.guests => /\ want.ceph
                      /\ needs_disarm => want.disarm
                      /\ self_guest # NoGuest \/ settings.self_external

\* The targets are those of the plan, and HA lets go of them.
TargetInv ==
  /\ targets \subseteq StopTargets
  /\ targets # {} => call = "prepare" /\ want.guests
  /\ pc \in GuestStages => targets = StopTargets /\ MayStop
  /\ call = "prepare" /\ disarmed => ha = "disarmed"

\* Every guest that was to stop has.
AllDown == \A g \in listed \cap running :
             g = self_guest \/ Name[g] = settings.hostname

\* What the steps of a preparation that went well so far have established.
DoneInv ==
  call = "prepare" =>
    /\ ok /\ want.disarm /\ pc \notin HaStages \cup {"idle"} => disarmed
    /\ ok /\ want.guests /\ pc \in FlagStages /\ HaWasSeen => AllDown
    /\ pc = "single" /\ ~refused => Flags \ put \subseteq flags
    /\ pc = "check" /\ ~refused => flags = Flags

\* What those of a restore have.
ArmInv ==
  /\ ~site.disarm_ha => ha = "armed" /\ pc # "arm_post"
  /\ /\ call = "restore" /\ ok /\ "ha" \notin unseen
     /\ pc \in FlagStages \cup {"clear_read"}
     => ha = "armed"

IInv == TypeOK /\ StageInv /\ PlanInv /\ TargetInv /\ DoneInv /\ ArmInv

-----------------------------------------------------------------------------
\* The appliance's own guest, if it is found, is one of the guests.
LEMMA SelfType ==
  ASSUME settings \in Settings
  PROVE  FindSelfGuest \in Guests \cup {NoGuest}
<1>1. \A S : TheOnly(S) \in Guests \cup {NoGuest}
  BY DEF TheOnly
<1>2. settings.self_vmid \in Guests \cup {NoGuest, Gone}
  BY PrepareAssumption
<1> QED BY <1>1, <1>2 DEF FindSelfGuest

\* A guest the settings do not deny is not among the targets of a plan.
LEMMA SelfSpared ==
  ASSUME settings \in Settings, site.own \in Guests, Truthful,
         self_guest = FindSelfGuest,
         self_guest # NoGuest \/ settings.self_external
  PROVE  site.own \notin StopTargets
<1>1. CASE Name[site.own] = settings.hostname
  BY <1>1 DEF StopTargets
<1>2. CASE Name[site.own] # settings.hostname
  <2>1. self_guest # NoGuest
    BY <1>2 DEF Truthful
  <2>2. CASE settings.self_vmid = site.own
    BY <2>2, PrepareAssumption DEF FindSelfGuest, StopTargets
  <2>3. CASE settings.self_vmid = Gone
    BY <2>1, <2>3, PrepareAssumption DEF FindSelfGuest
  <2>4. CASE settings.self_vmid = NoGuest /\ \A g \in Guests : Name[g] # settings.hostname
    <3>1. {g \in Guests : Name[g] = settings.hostname} = {}
      BY <2>4
    <3>2. TheOnly({}) = NoGuest
      BY DEF TheOnly
    <3> QED BY <2>1, <2>4, <3>1, <3>2 DEF FindSelfGuest
  <2> QED BY <1>2, <2>2, <2>3, <2>4 DEF Truthful
<1> QED BY <1>1, <1>2

-----------------------------------------------------------------------------
\* No step changes which guest is the appliance's.
LEMMA SelfStays ==
  ASSUME [Next]_vars PROVE FindSelfGuest' = FindSelfGuest
<1>1. settings' = settings
  BY DEF Next, vars, Prepare, PrepareFrom, Restore, Start, CutOff, ReadArmed, PostDisarm,
     SeenDisarmed, DisarmOver, StartGuests, AskGuest, AskOver, SeenDown, GraceOver,
     KillGuest, KillOver, ReapOver, BulkPut, SeenFlags, BulkOver, PutFlag,
     FlagsOver, ReadToArm, PostArm, SeenArmed, ArmOver, ReadToClear, HaSettles,
     WorkerRuns, GuestStops, GuestStarts
<1> QED BY <1>1 DEF FindSelfGuest

\* A read shows the value, or nothing.
LEMMA ReadingIs ==
  ASSUME NEW value, NEW phase, NEW list \in Reading(value, phase)
  PROVE  \/ list.read = TRUE /\ list.value = value
         \/ list.read = FALSE /\ list.value = {} /\ phase \in Unread
BY DEF Reading

\* The appliance starts on a cluster nobody prepared.
LEMMA Initial == Init => IInv
<1> SUFFICES ASSUME Init PROVE IInv
  OBVIOUS
<1>1. TypeOK
  BY PrepareAssumption DEF Init, TypeOK, Requests, Stages
<1>2. StageInv /\ PlanInv /\ TargetInv /\ DoneInv /\ ArmInv
  BY DEF Init, StageInv, PlanInv, TargetInv, DoneInv, ArmInv, HaStages,
     GuestStages, FlagStages, ArmStages
<1> QED BY <1>1, <1>2 DEF IInv

\* The types.
LEMMA TypeInductive == TypeOK /\ StageInv /\ [Next]_vars => TypeOK'
<1> SUFFICES ASSUME TypeOK, StageInv, [Next]_vars PROVE TypeOK'
  OBVIOUS
<1> USE DEF TypeOK, Requests, world, plan, guests, history
<1>1. CASE Prepare
  <2>1. PICK guest_list \in Reading(running, "guests"),
             services \in Reading(site.managed, "ha") : PrepareFrom(guest_list, services)
    BY <1>1 DEF Prepare
  <2> DEFINE want_ceph == settings.ceph /\ site.ceph
             want_disarm == settings.disarm /\ site.disarm_ha
             want_guests == /\ want_ceph
                            /\ guest_list.read
                            /\ services.value # {} => want_disarm
                            /\ FindSelfGuest # NoGuest \/ settings.self_external
  <2>2. guest_list.read \in BOOLEAN /\ guest_list.value \subseteq Guests
    <3>1. \/ guest_list.read = TRUE /\ guest_list.value = running
          \/ guest_list.read = FALSE /\ guest_list.value = {}
      BY ReadingIs
    <3> QED BY <3>1
  <2>3. /\ Start("prepare")
        /\ want' = [ceph |-> want_ceph, disarm |-> want_disarm, guests |-> want_guests]
        /\ needs_disarm' = (services.value # {})
        /\ listed' = guest_list.value
        /\ self_guest' = FindSelfGuest
        /\ pc' = IF want_disarm THEN "ha_read" ELSE IF want_guests THEN "guests" ELSE "flags"
    BY <2>1 DEF PrepareFrom
  <2>4. want_ceph \in BOOLEAN /\ want_disarm \in BOOLEAN /\ want_guests \in BOOLEAN
    BY <2>2, PrepareAssumption
  <2>5. want' \in [ceph : BOOLEAN, disarm : BOOLEAN, guests : BOOLEAN]
    BY <2>3, <2>4
  <2>6. pc' \in Stages /\ needs_disarm' \in BOOLEAN
    BY <2>3 DEF Stages
  <2>7. self_guest' \in Guests \cup {NoGuest}
    BY <2>3, SelfType
  <2> QED BY <2>2, <2>3, <2>5, <2>6, <2>7 DEF Start
<1>2. CASE Restore
  BY <1>2 DEF Restore, Start, Continue, Stages
<1>3. CASE CutOff
  BY <1>3 DEF CutOff, Continue, Stages
<1>4. CASE ReadArmed
  <2>1. pc' \in Stages
    BY <1>4 DEF ReadArmed, Continue, AfterHa, AfterGuests, Stages
  <2>2. ok' \in BOOLEAN /\ result' \in {"none", "ok", "failed", "cut"}
    BY <1>4 DEF ReadArmed, Continue
  <2>3. disarmed' \in BOOLEAN
    BY <1>4 DEF ReadArmed
  <2>4. UNCHANGED <<site, settings, world, call, plan, guests, put, history>>
    BY <1>4 DEF ReadArmed
  <2> QED BY <2>1, <2>2, <2>4, <2>3
<1>5. CASE PostDisarm
  <2>1. pc' \in Stages
    BY <1>5 DEF PostDisarm, Continue, AfterHa, AfterGuests, Stages
  <2>2. ok' \in BOOLEAN /\ result' \in {"none", "ok", "failed", "cut"}
    BY <1>5 DEF PostDisarm, Continue
  <2>3. ha' \in {"armed", "disarming", "disarmed", "arming"}
    BY <1>5 DEF PostDisarm
  <2>4. UNCHANGED <<site, settings, running, stopping, flags, worker, call, plan,
                  disarmed, guests, put, history>>
    BY <1>5 DEF PostDisarm
  <2> QED BY <2>1, <2>2, <2>4, <2>3
<1>6. CASE SeenDisarmed
  <2>1. pc' \in Stages
    BY <1>6 DEF SeenDisarmed, Continue, AfterHa, AfterGuests, Stages
  <2>2. ok' \in BOOLEAN /\ result' \in {"none", "ok", "failed", "cut"}
    BY <1>6 DEF SeenDisarmed, Continue
  <2>3. disarmed' \in BOOLEAN
    BY <1>6 DEF SeenDisarmed
  <2>4. UNCHANGED <<site, settings, world, call, plan, guests, put, history>>
    BY <1>6 DEF SeenDisarmed
  <2> QED BY <2>1, <2>2, <2>4, <2>3
<1>7. CASE DisarmOver
  <2>1. pc' \in Stages
    BY <1>7 DEF DisarmOver, Continue, AfterHa, AfterGuests, Stages
  <2>2. ok' \in BOOLEAN /\ result' \in {"none", "ok", "failed", "cut"}
    BY <1>7 DEF DisarmOver, Continue
  <2>4. UNCHANGED <<site, settings, world, call, plan, disarmed, guests, put, history>>
    BY <1>7 DEF DisarmOver
  <2> QED BY <2>1, <2>2, <2>4
<1>8. CASE StartGuests
  <2>1. pc' \in Stages
    BY <1>8 DEF StartGuests, Continue, AfterHa, AfterGuests, Stages
  <2>2. ok' \in BOOLEAN /\ result' \in {"none", "ok", "failed", "cut"}
    BY <1>8 DEF StartGuests, Continue
  <2>3. targets' \subseteq listed /\ asked \subseteq targets' /\ left \subseteq targets'
    BY <1>8 DEF StartGuests, StopTargets, StageInv, HaStages
  <2>4. UNCHANGED <<site, settings, world, call, plan, disarmed, asked, left, killed, put, history>>
    BY <1>8 DEF StartGuests
  <2> QED BY <2>1, <2>2, <2>4, <2>3
<1>9. CASE AskOver
  BY <1>9 DEF AskOver, Continue, Stages
<1>10. CASE SeenDown
  <2>1. pc' \in Stages
    BY <1>10 DEF SeenDown, Continue, AfterHa, AfterGuests, Stages
  <2>2. ok' \in BOOLEAN /\ result' \in {"none", "ok", "failed", "cut"}
    BY <1>10 DEF SeenDown, Continue
  <2>4. UNCHANGED <<site, settings, world, call, plan, disarmed, guests, put, history>>
    BY <1>10 DEF SeenDown
  <2> QED BY <2>1, <2>2, <2>4
<1>11. CASE GraceOver
  <2>1. left' \subseteq targets
    <3>1. PICK list \in Reading(running, "prepare") : left' = StillRunning(list)
      BY <1>11 DEF GraceOver
    <3> QED BY <3>1 DEF StillRunning
  <2>2. /\ pc = "grace" /\ ok' \in BOOLEAN /\ pc' \in Stages
        /\ result' \in {"none", "ok", "failed", "cut"}
        /\ UNCHANGED <<site, settings, world, call, plan, disarmed, targets, asked,
                       killed, put, history>>
    BY <1>11 DEF GraceOver, Continue, AfterGuests, Stages
  <2>3. killed = {}
    BY <2>2 DEF StageInv
  <2> QED BY <2>1, <2>2, <2>3
<1>12. CASE KillOver
  BY <1>12 DEF KillOver, Continue, Stages
<1>13. CASE ReapOver
  <2>1. pc' \in Stages
    BY <1>13 DEF ReapOver, Continue, AfterHa, AfterGuests, Stages
  <2>2. ok' \in BOOLEAN /\ result' \in {"none", "ok", "failed", "cut"}
    BY <1>13 DEF ReapOver, Continue
  <2>4. UNCHANGED <<site, settings, world, call, plan, disarmed, guests, put, history>>
    BY <1>13 DEF ReapOver
  <2> QED BY <2>1, <2>2, <2>4
<1>14. CASE \E g \in Guests : AskGuest(g)
  BY <1>14 DEF AskGuest, Told
<1>15. CASE \E g \in Guests : KillGuest(g)
  BY <1>15 DEF KillGuest, Told
<1>16. CASE BulkPut
  <2>1. pc' \in Stages
    BY <1>16 DEF BulkPut, Continue, AfterHa, AfterGuests, Stages
  <2>2. ok' \in BOOLEAN /\ result' \in {"none", "ok", "failed", "cut"}
    BY <1>16 DEF BulkPut, Continue
  <2>3. worker' \in Requests \cup {"none"} /\ put' \subseteq Flags /\ refused' \in BOOLEAN
    BY <1>16 DEF BulkPut
  <2>4. UNCHANGED <<site, settings, running, stopping, ha, flags, call, plan, disarmed, guests,
                  unseen>>
    BY <1>16 DEF BulkPut
  <2> QED BY <2>1, <2>2, <2>4, <2>3
<1>17. CASE SeenFlags
  <2>1. pc' \in Stages
    BY <1>17 DEF SeenFlags, Continue, AfterHa, AfterGuests, Stages
  <2>2. ok' \in BOOLEAN /\ result' \in {"none", "ok", "failed", "cut"}
    BY <1>17 DEF SeenFlags, Continue
  <2>4. UNCHANGED <<site, settings, world, call, plan, disarmed, guests, put, history>>
    BY <1>17 DEF SeenFlags
  <2> QED BY <2>1, <2>2, <2>4
<1>18. CASE BulkOver
  BY <1>18 DEF BulkOver, Continue, Stages
<1>19. CASE FlagsOver
  <2>1. pc' \in Stages
    BY <1>19 DEF FlagsOver, Continue, AfterHa, AfterGuests, Stages
  <2>2. ok' \in BOOLEAN /\ result' \in {"none", "ok", "failed", "cut"}
    BY <1>19 DEF FlagsOver, Continue
  <2>4. UNCHANGED <<site, settings, world, call, plan, disarmed, guests, put, history>>
    BY <1>19 DEF FlagsOver
  <2> QED BY <2>1, <2>2, <2>4
<1>20. CASE \E f \in Flags : PutFlag(f)
  <2>1. PICK f \in Flags : PutFlag(f)
    BY <1>20
  <2>2. /\ pc' \in Stages /\ ok' = ok /\ result' = result /\ put' = put \ {f}
        /\ UNCHANGED <<site, settings, running, stopping, ha, worker, call, plan,
                       disarmed, guests, unseen>>
    BY <2>1 DEF PutFlag, Continue, Stages
  <2>3. flags' \subseteq Flags /\ refused' \in BOOLEAN
    <3>1. CASE flags' = (IF call = "prepare" THEN flags \cup {f} ELSE flags \ {f}) /\ UNCHANGED refused
      BY <3>1
    <3>2. CASE UNCHANGED flags /\ refused' = TRUE
      BY <3>2
    <3> QED BY <2>1, <3>1, <3>2 DEF PutFlag
  <2> QED BY <2>2, <2>3
<1>21. CASE ReadToArm
  <2>1. pc' \in Stages
    BY <1>21 DEF ReadToArm, Continue, AfterHa, AfterGuests, Stages
  <2>2. ok' \in BOOLEAN /\ result' \in {"none", "ok", "failed", "cut"}
    BY <1>21 DEF ReadToArm, Continue
  <2>3. unseen' \subseteq {"ha", "flags"}
    BY <1>21 DEF ReadToArm
  <2>4. UNCHANGED <<site, settings, world, call, plan, disarmed, guests, put, refused>>
    BY <1>21 DEF ReadToArm
  <2> QED BY <2>1, <2>2, <2>3, <2>4
<1>22. CASE PostArm
  <2>1. pc' \in Stages
    BY <1>22 DEF PostArm, Continue, AfterHa, AfterGuests, Stages
  <2>2. ok' \in BOOLEAN /\ result' \in {"none", "ok", "failed", "cut"}
    BY <1>22 DEF PostArm, Continue
  <2>3. ha' \in {"armed", "disarming", "disarmed", "arming"}
    BY <1>22 DEF PostArm
  <2>4. UNCHANGED <<site, settings, running, stopping, flags, worker, call, plan,
                  disarmed, guests, put, history>>
    BY <1>22 DEF PostArm
  <2> QED BY <2>1, <2>2, <2>4, <2>3
<1>23. CASE SeenArmed
  <2>1. pc' \in Stages
    BY <1>23 DEF SeenArmed, Continue, AfterHa, AfterGuests, Stages
  <2>2. ok' \in BOOLEAN /\ result' \in {"none", "ok", "failed", "cut"}
    BY <1>23 DEF SeenArmed, Continue
  <2>4. UNCHANGED <<site, settings, world, call, plan, disarmed, guests, put, history>>
    BY <1>23 DEF SeenArmed
  <2> QED BY <2>1, <2>2, <2>4
<1>24. CASE ArmOver
  <2>1. pc' \in Stages
    BY <1>24 DEF ArmOver, Continue, AfterHa, AfterGuests, Stages
  <2>2. ok' \in BOOLEAN /\ result' \in {"none", "ok", "failed", "cut"}
    BY <1>24 DEF ArmOver, Continue
  <2>4. UNCHANGED <<site, settings, world, call, plan, disarmed, guests, put, history>>
    BY <1>24 DEF ArmOver
  <2> QED BY <2>1, <2>2, <2>4
<1>25. CASE ReadToClear
  <2>1. pc' \in Stages
    BY <1>25 DEF ReadToClear, Continue, AfterHa, AfterGuests, Stages
  <2>2. ok' \in BOOLEAN /\ result' \in {"none", "ok", "failed", "cut"}
    BY <1>25 DEF ReadToClear, Continue
  <2>3. unseen' \subseteq {"ha", "flags"}
    BY <1>25 DEF ReadToClear
  <2>4. UNCHANGED <<site, settings, world, call, plan, disarmed, guests, put, refused>>
    BY <1>25 DEF ReadToClear
  <2> QED BY <2>1, <2>2, <2>3, <2>4
<1>26. CASE HaSettles
  BY <1>26 DEF HaSettles
<1>27. CASE WorkerRuns
  BY <1>27 DEF WorkerRuns
<1>28. CASE \E g \in Guests : GuestStops(g)
  BY <1>28 DEF GuestStops
<1>29. CASE \E g \in Guests : GuestStarts(g)
  BY <1>29 DEF GuestStarts
<1>30. CASE UNCHANGED vars
  BY <1>30 DEF vars
<1> QED
  BY <1>1, <1>2, <1>3, <1>4, <1>5, <1>6, <1>7, <1>8, <1>9, <1>10, <1>11, <1>12, <1>13, <1>14, <1>15,
     <1>16, <1>17, <1>18, <1>19, <1>20, <1>21, <1>22, <1>23,
     <1>24, <1>25, <1>26, <1>27, <1>28, <1>29, <1>30
  DEF Next

\* The rest of the invariant.
LEMMA Inductive == IInv /\ [Next]_vars => IInv'
<1> SUFFICES ASSUME IInv, [Next]_vars PROVE IInv'
  OBVIOUS
<1>0. FindSelfGuest' = FindSelfGuest /\ TypeOK'
  BY SelfStays, TypeInductive DEF IInv
<1> SUFFICES StageInv' /\ PlanInv' /\ TargetInv' /\ DoneInv' /\ ArmInv'
  BY <1>0 DEF IInv
<1> USE DEF IInv, TypeOK, StageInv, PlanInv, TargetInv, DoneInv, ArmInv, AllDown,
        HaStages, GuestStages, FlagStages, ArmStages, world, plan, guests, history, HaWasSeen,
        Continue, AfterHa, AfterGuests, MayStop, StopTargets
<1>1. CASE Prepare
  <2>1. PICK guest_list \in Reading(running, "guests"),
             services \in Reading(site.managed, "ha") : PrepareFrom(guest_list, services)
    BY <1>1 DEF Prepare
  <2> DEFINE want_ceph == settings.ceph /\ site.ceph
             want_disarm == settings.disarm /\ site.disarm_ha
             want_guests == /\ want_ceph
                            /\ guest_list.read
                            /\ services.value # {} => want_disarm
                            /\ FindSelfGuest # NoGuest \/ settings.self_external
  <2>3. /\ Start("prepare")
        /\ want' = [ceph |-> want_ceph, disarm |-> want_disarm, guests |-> want_guests]
        /\ needs_disarm' = (services.value # {})
        /\ self_guest' = FindSelfGuest
        /\ pc' = IF want_disarm THEN "ha_read" ELSE IF want_guests THEN "guests" ELSE "flags"
    BY <2>1 DEF PrepareFrom
  <2>4. /\ want'.ceph = want_ceph /\ want'.disarm = want_disarm
        /\ want'.guests = want_guests
    BY <2>3
  <2>5. StageInv' /\ TargetInv' /\ DoneInv' /\ ArmInv'
    BY <1>0, <2>3, <2>4 DEF Start
  <2>6. PlanInv'
    <3>1. settings' = settings /\ site' = site
      BY <2>3 DEF Start
    <3> QED BY <1>0, <2>3, <2>4, <3>1
  <2> QED BY <2>5, <2>6
<1>2. CASE Restore
  BY <1>0, <1>2 DEF Restore, Start
<1>3. CASE CutOff
  BY <1>0, <1>3 DEF CutOff
<1>4. CASE ReadArmed
  <2>1. StageInv' /\ PlanInv' /\ TargetInv'
    BY <1>0, <1>4 DEF ReadArmed, ArmedStates
  <2>2. DoneInv'
    BY <1>0, <1>4 DEF ReadArmed, ArmedStates
  <2>3. ArmInv'
    BY <1>0, <1>4 DEF ReadArmed, ArmedStates
  <2> QED BY <2>1, <2>2, <2>3
<1>5. CASE PostDisarm
  <2>1. StageInv' /\ PlanInv' /\ TargetInv'
    BY <1>0, <1>5 DEF PostDisarm
  <2>2. DoneInv'
    BY <1>0, <1>5 DEF PostDisarm
  <2>3. ArmInv'
    BY <1>0, <1>5 DEF PostDisarm
  <2> QED BY <2>1, <2>2, <2>3
<1>6. CASE SeenDisarmed
  BY <1>0, <1>6 DEF SeenDisarmed, ArmedStates, HaLeft
<1>7. CASE DisarmOver
  BY <1>0, <1>7 DEF DisarmOver
<1>8. CASE StartGuests
  BY <1>0, <1>8 DEF StartGuests
<1>9. CASE AskOver
  BY <1>0, <1>9 DEF AskOver
<1>10. CASE SeenDown
  BY <1>0, <1>10 DEF SeenDown, Reading, Down
<1>11. CASE GraceOver
  <2>1. StageInv' /\ PlanInv' /\ TargetInv'
    BY <1>0, <1>11 DEF GraceOver, Reading, StillRunning
  <2>2. DoneInv'
    BY <1>0, <1>11 DEF GraceOver, Reading, StillRunning
  <2>3. ArmInv'
    BY <1>0, <1>11 DEF GraceOver, Reading, StillRunning
  <2> QED BY <2>1, <2>2, <2>3
<1>12. CASE KillOver
  BY <1>0, <1>12 DEF KillOver
<1>13. CASE ReapOver
  BY <1>0, <1>13 DEF ReapOver
<1>14. CASE \E g \in Guests : AskGuest(g)
  BY <1>0, <1>14 DEF AskGuest, Told
<1>15. CASE \E g \in Guests : KillGuest(g)
  BY <1>0, <1>15 DEF KillGuest, Told
<1>16. CASE BulkPut
  <2>1. StageInv' /\ PlanInv' /\ TargetInv'
    BY <1>0, <1>16 DEF BulkPut
  <2>2. DoneInv'
    BY <1>0, <1>16 DEF BulkPut
  <2>3. ArmInv'
    BY <1>0, <1>16 DEF BulkPut
  <2> QED BY <2>1, <2>2, <2>3
<1>17. CASE SeenFlags
  BY <1>0, <1>17 DEF SeenFlags, Reading, Reached, Goal
<1>18. CASE BulkOver
  BY <1>0, <1>18 DEF BulkOver
<1>19. CASE FlagsOver
  <2>1. StageInv' /\ PlanInv' /\ TargetInv'
    BY <1>0, <1>19 DEF FlagsOver
  <2>2. DoneInv'
    BY <1>0, <1>19 DEF FlagsOver
  <2>3. ArmInv'
    BY <1>0, <1>19 DEF FlagsOver
  <2> QED BY <2>1, <2>2, <2>3
<1>20. CASE \E f \in Flags : PutFlag(f)
  <2>1. PICK f \in Flags : PutFlag(f)
    BY <1>20
  <2>2. /\ pc = "single" /\ pc' \in {"single", "check"} /\ ok' = ok
        /\ put' = put \ {f} /\ (pc' = "check") = (put = {f})
    BY <2>1 DEF PutFlag, Continue
  <2>3. ~refused' /\ call = "prepare" => ~refused /\ flags' = flags \cup {f}
    BY <2>1 DEF PutFlag
  <2>4. UNCHANGED <<site, settings, running, stopping, ha, worker, call, plan,
                    disarmed, guests, unseen>>
    BY <2>1 DEF PutFlag
  <2>5. StageInv' /\ PlanInv' /\ TargetInv' /\ ArmInv'
    BY <1>0, <2>2, <2>4
  <2>6. DoneInv'
    <3>1. call = "prepare" /\ ~refused' => Flags \ put' \subseteq flags'
      BY <2>2, <2>3
    <3>2. call = "prepare" /\ ~refused' /\ pc' = "check" => flags' = Flags
      <4>1. pc' = "check" => put' = {}
        BY <2>2
      <4>2. flags' \subseteq Flags
        BY <1>0
      <4> QED BY <3>1, <4>1, <4>2
    <3> QED BY <2>2, <2>4, <3>1, <3>2
  <2> QED BY <2>5, <2>6
<1>21. CASE ReadToArm
  <2>1. StageInv' /\ PlanInv' /\ TargetInv'
    BY <1>0, <1>21 DEF ReadToArm, ArmedStates
  <2>2. DoneInv'
    BY <1>0, <1>21 DEF ReadToArm, ArmedStates
  <2>3. ArmInv'
    BY <1>0, <1>21 DEF ReadToArm, ArmedStates
  <2> QED BY <2>1, <2>2, <2>3
<1>22. CASE PostArm
  <2>1. StageInv' /\ PlanInv' /\ TargetInv'
    BY <1>0, <1>22 DEF PostArm
  <2>2. DoneInv'
    BY <1>0, <1>22 DEF PostArm
  <2>3. ArmInv'
    BY <1>0, <1>22 DEF PostArm
  <2> QED BY <2>1, <2>2, <2>3
<1>23. CASE SeenArmed
  BY <1>0, <1>23 DEF SeenArmed, ArmedStates, ArmReached
<1>24. CASE ArmOver
  <2>1. StageInv' /\ PlanInv' /\ TargetInv'
    BY <1>0, <1>24 DEF ArmOver
  <2>2. DoneInv'
    BY <1>0, <1>24 DEF ArmOver
  <2>3. ArmInv'
    BY <1>0, <1>24 DEF ArmOver
  <2> QED BY <2>1, <2>2, <2>3
<1>25. CASE ReadToClear
  BY <1>0, <1>25 DEF ReadToClear, Reading
<1>26. CASE HaSettles
  BY <1>0, <1>26 DEF HaSettles
<1>27. CASE WorkerRuns
  BY <1>0, <1>27 DEF WorkerRuns
<1>28. CASE \E g \in Guests : GuestStops(g)
  BY <1>0, <1>28 DEF GuestStops
<1>29. CASE \E g \in Guests : GuestStarts(g)
  BY <1>0, <1>29 DEF GuestStarts
<1>30. CASE UNCHANGED vars
  BY <1>0, <1>30 DEF vars
<1> QED
  BY <1>1, <1>2, <1>3, <1>4, <1>5, <1>6, <1>7, <1>8, <1>9, <1>10, <1>11, <1>12, <1>13, <1>14, <1>15,
     <1>16, <1>17, <1>18, <1>19, <1>20, <1>21, <1>22, <1>23,
     <1>24, <1>25, <1>26, <1>27, <1>28, <1>29, <1>30
  DEF Next

-----------------------------------------------------------------------------
\* Every reachable state satisfies the invariant.
THEOREM Invariance == Spec => []IInv
<1> QED BY Initial, Inductive, PTL DEF Spec

\* Types; and that only those still running are stopped by force, only targets
\* are told to stop, and only guests that ran are targets.
THEOREM TypeCorrect == Spec => []TypeOK
<1>1. IInv => TypeOK
  BY DEF IInv
<1> QED BY <1>1, Invariance, PTL

\* The appliance never stops itself, with settings that do not deny it.
THEOREM SelfIsSpared == Spec => []OwnGuestIsSpared
<1>1. IInv => OwnGuestIsSpared
  <2> SUFFICES ASSUME IInv, site.own # NoGuest, Truthful
               PROVE  site.own \notin asked \cup killed
    BY DEF OwnGuestIsSpared
  <2>1. site.own \in Guests /\ settings \in Settings
    BY PrepareAssumption DEF IInv, TypeOK
  <2>2. CASE targets = {}
    BY <2>2 DEF IInv, TypeOK
  <2>3. CASE targets # {}
    <3>1. self_guest = FindSelfGuest /\ (self_guest # NoGuest \/ settings.self_external)
      BY <2>3 DEF IInv, TargetInv, PlanInv
    <3>2. site.own \notin StopTargets
      BY <2>1, <3>1, SelfSpared
    <3> QED BY <3>2 DEF IInv, TypeOK, TargetInv
  <2> QED BY <2>2, <2>3
<1> QED BY <1>1, Invariance, PTL

\* No guest is told to stop under an HA manager that would start it again, of a
\* cluster whose HA guests the inspection saw.
THEOREM HaLetsGoCorrect == Spec => HaLetsGo
<1>1. ASSUME IInv, [Next]_vars,
             \E g \in Guests : g \in (asked' \ asked) \cup (killed' \ killed)
      PROVE  site.managed = {} \/ ha = "disarmed" \/ ~HaWasSeen
  <2>1. pc \in {"ask", "kill"}
    BY <1>1 DEF Next, vars, Prepare, PrepareFrom, Restore, Start, CutOff, ReadArmed,
       PostDisarm, SeenDisarmed, DisarmOver, StartGuests, AskGuest, AskOver,
       SeenDown, GraceOver, KillGuest, KillOver, ReapOver, BulkPut, SeenFlags,
       BulkOver, PutFlag, FlagsOver, ReadToArm, PostArm, SeenArmed, ArmOver,
       ReadToClear, HaSettles, WorkerRuns, GuestStops, GuestStarts, guests
  <2>2. call = "prepare" /\ MayStop
    BY <1>1, <2>1 DEF IInv, StageInv, TargetInv, GuestStages
  <2> QED BY <1>1, <2>2 DEF IInv, TargetInv, MayStop, HaWasSeen
<1> QED BY <1>1, Invariance, PTL DEF Spec, HaLetsGo

\* How a call that is not cut off can end.
LEMMA Endings ==
  ASSUME IInv, [Next]_vars, pc # "idle", pc' = "idle", result' # "cut"
  PROVE  /\ UNCHANGED <<site, settings, running, flags, call, plan, refused>>
         /\ ~ReadToClear => UNCHANGED unseen
         /\ \/ (SeenFlags \/ FlagsOver \/ ReadToClear) /\ ha' = ha
            \/ /\ call = "prepare" /\ ~want.ceph /\ ~want.guests
               /\ result' = "ok" /\ want.disarm => ha' = "disarmed"
<1> USE DEF vars, world, history
<1>1. CASE SeenFlags \/ FlagsOver \/ ReadToClear
  BY <1>1 DEF SeenFlags, FlagsOver, ReadToClear
<1>0. call = "prepare" /\ ~want.ceph => ~want.guests
  BY DEF IInv, PlanInv
<1>2. CASE ReadArmed \/ PostDisarm \/ SeenDisarmed \/ DisarmOver
  BY <1>0, <1>2 DEF ReadArmed, PostDisarm, SeenDisarmed, DisarmOver, Continue, AfterHa,
     AfterGuests, HaStages, ArmedStates, HaLeft, IInv, TypeOK, StageInv, TargetInv, PlanInv
<1>3. CASE StartGuests \/ SeenDown \/ GraceOver \/ ReapOver
  BY <1>3 DEF StartGuests, SeenDown, GraceOver, ReapOver, Continue, AfterGuests,
     GuestStages, IInv, StageInv, PlanInv
<1> QED
  BY <1>1, <1>2, <1>3 DEF Next, Prepare, PrepareFrom, Restore, Start, CutOff, AskGuest,
     AskOver, KillGuest, KillOver, BulkPut, BulkOver, PutFlag, ReadToArm, PostArm,
     SeenArmed, ArmOver, HaSettles, WorkerRuns, GuestStops, GuestStarts, Continue

\* A preparation reported as done is done, whatever reads fail; the guests of a cluster
\* whose HA guests the inspection did not see may run again.
THEOREM PreparedCorrect == Spec => PreparedIsPrepared
<1>1. ASSUME IInv, [Next]_vars, Ends("prepare"), result' = "ok"
      PROVE  /\ want.disarm => ha' = "disarmed"
             /\ want.guests /\ HaWasSeen => \A g \in listed \cap running' :
                                 g = self_guest \/ Name[g] = settings.hostname
             /\ want.ceph => flags' = Flags
  <2>1. /\ UNCHANGED <<site, settings, running, flags, call, plan>>
        /\ call = "prepare" /\ pc # "idle"
    BY <1>1, Endings DEF Ends
  <2>2. CASE /\ ~want.ceph /\ ~want.guests
             /\ want.disarm => ha' = "disarmed"
    BY <2>2
  <2>3. CASE SeenFlags /\ ha' = ha
    <3>1. flags = Flags /\ pc \in FlagStages
      BY <2>1, <2>3 DEF SeenFlags, Reading, Reached, Goal, FlagStages
    <3>2. ok
      BY <1>1, <2>3 DEF SeenFlags, Continue
    <3>3. (want.disarm => ha = "disarmed") /\ (want.guests /\ HaWasSeen => AllDown)
      BY <2>1, <3>1, <3>2, <1>1 DEF IInv, DoneInv, TargetInv, FlagStages, HaStages
    <3> QED BY <2>1, <2>3, <3>1, <3>3 DEF AllDown
  <2>4. ~FlagsOver
    BY <1>1 DEF FlagsOver, Continue
  <2>5. ~ReadToClear
    BY <2>1, <1>1 DEF ReadToClear, IInv, StageInv, ArmStages
  <2> QED BY <1>1, <2>2, <2>3, <2>4, <2>5, Endings DEF Ends
<1>2. IInv /\ [Next]_vars =>
        [Ends("prepare") /\ result' = "ok" =>
           /\ want.disarm => ha' = "disarmed"
           /\ want.guests /\ HaWasSeen => \A g \in listed \cap running' :
                               g = self_guest \/ Name[g] = settings.hostname
           /\ want.ceph => flags' = Flags]_vars
  BY <1>1
<1> QED BY <1>2, Invariance, PTL DEF Spec, PreparedIsPrepared

\* A preparation that was not cut off leaves the flags set, if none was refused.
THEOREM FlagsCorrect == Spec => FlagsComeAnyway
<1>1. ASSUME IInv, [Next]_vars, Ends("prepare"), want.ceph, ~refused'
      PROVE  flags' = Flags
  <2>1. /\ UNCHANGED <<flags, refused>>
        /\ call = "prepare" /\ (SeenFlags \/ FlagsOver \/ ReadToClear)
    BY <1>1, Endings DEF Ends
  <2>2. CASE SeenFlags
    BY <2>1, <2>2 DEF SeenFlags, Reading, Reached, Goal
  <2>3. CASE FlagsOver
    BY <1>1, <2>1, <2>3 DEF FlagsOver, IInv, DoneInv
  <2>4. ~ReadToClear
    BY <2>1, <1>1 DEF ReadToClear, IInv, StageInv, ArmStages
  <2> QED BY <2>1, <2>2, <2>3, <2>4
<1>2. IInv /\ [Next]_vars =>
        [Ends("prepare") /\ want.ceph /\ ~refused' => flags' = Flags]_vars
  BY <1>1
<1> QED BY <1>2, Invariance, PTL DEF Spec, FlagsComeAnyway

\* A restore reported as done has left nothing over of what it could read.
THEOREM RestoredCorrect == Spec => RestoredIsRestored
<1>1. ASSUME IInv, [Next]_vars, Ends("restore"), result' = "ok"
      PROVE  /\ ha' = "armed" \/ "ha" \in unseen'
             /\ flags' = {} \/ "flags" \in unseen'
  <2>1. /\ UNCHANGED flags
        /\ call = "restore" /\ ha' = ha /\ (SeenFlags \/ FlagsOver \/ ReadToClear)
        /\ ~ReadToClear => UNCHANGED unseen
    BY <1>1, Endings DEF Ends
  <2>2. ~FlagsOver
    BY <1>1 DEF FlagsOver, Continue
  <2>3. CASE SeenFlags
    <3>1. ok /\ pc \in FlagStages /\ flags = {} /\ UNCHANGED unseen
      BY <2>1, <2>3, <1>1 DEF SeenFlags, Continue, Reading, Reached, Goal, FlagStages, history
    <3> QED BY <1>1, <2>1, <3>1 DEF IInv, ArmInv
  <2>4. CASE ReadToClear
    <3>1. PICK list \in Reading(flags, "restore") :
            /\ Continue(IF list.value # {} THEN "flags" ELSE "idle", ok)
            /\ unseen' = IF list.read THEN unseen ELSE unseen \cup {"flags"}
      BY <2>4 DEF ReadToClear
    <3>2. list.value = {} /\ ok /\ pc = "clear_read"
      BY <3>1, <2>4, <1>1 DEF Continue, Ends, ReadToClear
    <3>3. flags = {} \/ "flags" \in unseen'
      BY <3>1, <3>2, ReadingIs
    <3>4. ha = "armed" \/ "ha" \in unseen
      BY <1>1, <2>1, <3>2 DEF IInv, ArmInv
    <3> QED BY <2>1, <3>1, <3>3, <3>4
  <2> QED BY <2>1, <2>2, <2>3, <2>4
<1>2. IInv /\ [Next]_vars =>
        [Ends("restore") /\ result' = "ok" =>
           /\ ha' = "armed" \/ "ha" \in unseen'
           /\ flags' = {} \/ "flags" \in unseen']_vars
  BY <1>1
<1> QED BY <1>2, Invariance, PTL DEF Spec, RestoredIsRestored

=============================================================================
