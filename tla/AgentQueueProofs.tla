-------------------------- MODULE AgentQueueProofs --------------------------
(***************************************************************************)
(* What AgentQueue does for any packages, settings, jobs and deaths of     *)
(* either process.  The inductive invariant says where the agent is in its *)
(* list, in which order the jobs of the queue came into being, what the    *)
(* newest job of a setting carries, how far the outcomes were marked, and  *)
(* which packages the queue refers to.                                     *)
(***************************************************************************)
EXTENDS AgentQueue, TLAPS

Busy == pc \notin {"idle", "take"}

\* The job the agent is at is on its list, and of the kind its step is for.
AgentInv ==
    /\ pc = "idle" => todo = {}
    /\ Busy => job \in todo
    /\ pc \in {"unpack", "copy", "pip"} => job.kind = "update"
    /\ pc = "set" => job.kind \in Settings
    /\ pc = "copy" => pkg \in Packages \cup {Cut}
    /\ at = "marking" => mark \in Stamps
    /\ result.whole => result.job \in Stamps
    /\ at # "sending" => sending = {}
    /\ \A s \in sending : conf[s] # None

\* The agent's list is part of the queue, and a stamp is used once.
QueueInv ==
    /\ todo \subseteq queue
    /\ \A j \in queue : j.id \in stamps
    /\ \A j, k \in queue : j.id = k.id => j = k
    /\ Busy => \A k \in todo : job.id <= k.id

\* The stamps are used in their order, and what is on the list is older than what is not.
OrderInv ==
    /\ \A i \in stamps, k \in Stamps : k < i => k \in stamps
    /\ \A j \in todo, k \in queue \ todo : j.id < k.id

\* The newest job of a setting carries its value; without one the value is in force, or
\* could not be written.
SettingInv ==
    /\ \A s \in Settings :
         (conf[s] # None /\ s \notin lost \cup sending) =>
           \/ /\ \A j \in queue : j.kind # s
              /\ system[s] = conf[s] \/ (s = "tz" /\ conf[s] \in Unknown) \/ s \in unwritten
           \/ \E n \in queue : /\ n.kind = s /\ n.arg = conf[s]
                               /\ \A k \in queue : k.kind = s => k.id <= n.id
    /\ (pc \in {"write", "remove"} /\ job.kind \in Settings) =>
         \/ system[job.kind] = job.arg \/ job.kind \in unwritten
         \/ job.kind = "tz" /\ job.arg \in Unknown

\* What was logged was marked, or is about to be, and no job left is older than the mark.
SeenInv ==
    /\ seen \in stamps \cup {0}
    /\ \A k \in queue : seen <= k.id
    /\ result.whole => /\ result.job \in stamps /\ seen <= result.job
                       /\ \A k \in queue : result.job <= k.id
    /\ at = "marking" => /\ mark \in stamps /\ seen <= mark
                         /\ \A k \in queue : mark <= k.id
                         /\ result.whole => mark <= result.job
    /\ \A j \in Stamps : reports[j] # 0 =>
         j \in unmarked \/ j <= seen \/ (at = "marking" /\ j = mark)
    /\ \A j \in Stamps : reports[j] = 2 => j \in unmarked

\* Nobody wrote to the package of a queued update since it was checked, or it is known.
PackageInv ==
    \A j \in queue : (j.kind = "update" /\ j.id \notin rewritten) =>
        files[j.arg] \in {checked[j.id], Absent}

IInv ==
    /\ TypeOK /\ AgentInv /\ QueueInv /\ PackageInv
    /\ ~ClockSteps => OrderInv /\ SettingInv /\ SeenInv

-----------------------------------------------------------------------------
LEMMA NoOutcomeType == NoOutcome \in Outcome
BY DEF NoOutcome, Outcome

LEMMA RewriteType ==
  ASSUME TypeOK, NEW n \in Names, Rewrite(n) PROVE rewritten' \subseteq Stamps
<1>1. \A j \in queue : j.id \in Stamps
  BY DEF TypeOK, FileType, Job
<1>2. rewritten \subseteq Stamps
  BY DEF TypeOK, HistoryType
<1> QED BY <1>1, <1>2 DEF Rewrite

LEMMA Initial == Init => IInv
<1> SUFFICES ASSUME Init PROVE IInv
  OBVIOUS
<1> USE AgentAssumption
<1>1. ServiceType
  BY DEF Init, ServiceType, Versions
<1>2. FileType
  BY DEF Init, FileType, Contents, Outcome, NoOutcome
<1>3. AgentType
  BY DEF Init, AgentType, Versions
<1>4. HistoryType
  BY DEF Init, packages, HistoryType
<1>7. FlagType
  BY DEF Init, FlagType
<1>5. AgentInv
  BY DEF Init, AgentInv, Busy, NoOutcome
<1>6. QueueInv /\ OrderInv /\ SettingInv /\ SeenInv /\ PackageInv
  BY DEF Init, QueueInv, OrderInv, SettingInv, SeenInv, PackageInv, NoOutcome, Busy
<1> QED BY <1>1, <1>2, <1>3, <1>4, <1>5, <1>6, <1>7 DEF IInv, TypeOK

LEMMA ServiceTypes ==
  ASSUME IInv, ServiceStep PROVE TypeOK'
<1> USE AgentAssumption DEF IInv, TypeOK, AgentInv
<1>1. ASSUME NEW new \in Configs, NEW wanted \in SUBSET Settings,
             \A s \in wanted : new[s] # None, Configure(new, wanted)
      PROVE  TypeOK'
  <2>1. ServiceType'
    BY <1>1 DEF Configure, loaded, shared, agent, work, target, history, ServiceType
  <2>2. FileType'
    BY <1>1 DEF Configure, loaded, shared, agent, work, target, history, FileType
  <2>3. AgentType'
    BY <1>1 DEF Configure, loaded, shared, agent, work, target, history, AgentType
  <2>4. HistoryType'
    BY <1>1 DEF Configure, loaded, shared, agent, work, target, history, packages, HistoryType
  <2>5. FlagType'
    BY <1>1 DEF Configure, loaded, shared, agent, work, target, history, FlagType
  <2> QED BY <2>1, <2>2, <2>3, <2>4, <2>5 DEF TypeOK
<1>2. CASE \E new \in Configs : SaveConfig(new) \/ ImportConfig(new)
  BY <1>1, <1>2 DEF SaveConfig, ImportConfig
<1>3. CASE HandOver
  <2>1. ServiceType'
    BY <1>3 DEF HandOver, Enqueue, FreeStamps, Foremost, Job, loaded, agent, work, target, ServiceType
  <2>2. FileType'
    BY <1>3 DEF HandOver, Enqueue, FreeStamps, Foremost, Job, loaded, agent, work, target, FileType, ServiceType
  <2>3. AgentType'
    BY <1>3 DEF HandOver, Enqueue, FreeStamps, Foremost, Job, loaded, agent, work, target, AgentType
  <2>4. HistoryType'
    BY <1>3 DEF HandOver, Enqueue, FreeStamps, Foremost, Job, loaded, agent, work, target, packages, HistoryType
  <2>5. FlagType'
    BY <1>3 DEF HandOver, Enqueue, FreeStamps, Foremost, Job, loaded, agent, work, target, FlagType
  <2> QED BY <2>1, <2>2, <2>3, <2>4, <2>5 DEF TypeOK
<1>4. CASE HandOverFails
  <2>1. ServiceType'
    BY <1>4 DEF HandOverFails, loaded, shared, agent, work, target, ServiceType
  <2>2. FileType'
    BY <1>4 DEF HandOverFails, loaded, shared, agent, work, target, FileType
  <2>3. AgentType'
    BY <1>4 DEF HandOverFails, loaded, shared, agent, work, target, AgentType
  <2>4. HistoryType'
    BY <1>4 DEF HandOverFails, loaded, shared, agent, work, target, packages, HistoryType, ServiceType
  <2>5. FlagType'
    BY <1>4 DEF HandOverFails, loaded, shared, agent, work, target, FlagType
  <2> QED BY <2>1, <2>2, <2>3, <2>4, <2>5 DEF TypeOK
<1>5. ASSUME NEW n \in Names, BeginUpload(n) \/ ReceiveChunk(n) PROVE TypeOK'
  <2>1. ServiceType'
    BY <1>5 DEF BeginUpload, ReceiveChunk, Rewrite, Job, Stamps, request, Contents, loaded, agent, work, target, history, ServiceType
  <2>2. FileType'
    BY <1>5 DEF BeginUpload, ReceiveChunk, Rewrite, Job, Stamps, request, Contents, loaded, agent, work, target, history, FileType
  <2>3. AgentType'
    BY <1>5 DEF BeginUpload, ReceiveChunk, Rewrite, Job, Stamps, request, Contents, loaded, agent, work, target, history, AgentType
  <2>4. HistoryType'
    BY <1>5, RewriteType DEF BeginUpload, ReceiveChunk, HistoryType
  <2>5. FlagType'
    BY <1>5 DEF BeginUpload, ReceiveChunk, Rewrite, Job, Stamps, request, Contents, loaded, agent, work, target, history, FlagType
  <2> QED BY <2>1, <2>2, <2>3, <2>4, <2>5 DEF TypeOK
<1>6. ASSUME NEW n \in Names, NEW c \in Packages \cup {Foreign}, FinishUpload(n, c)
      PROVE  TypeOK'
  <2>1. ServiceType'
    BY <1>6 DEF FinishUpload, Inspected, Rewrite, Enqueue, FreeStamps, Job, Contents, loaded, agent, work, target, ServiceType
  <2>2. FileType'
    BY <1>6 DEF FinishUpload, Inspected, Rewrite, Enqueue, FreeStamps, Job, Contents, loaded, agent, work, target, FileType, ServiceType
  <2>3. AgentType'
    BY <1>6 DEF FinishUpload, Inspected, Rewrite, Enqueue, FreeStamps, Job, Contents, loaded, agent, work, target, AgentType
  <2>4. HistoryType'
    BY <1>6, RewriteType DEF FinishUpload, Inspected, Enqueue, FreeStamps, HistoryType
  <2>5. FlagType'
    BY <1>6 DEF FinishUpload, Inspected, Rewrite, Enqueue, FreeStamps, Job, Contents, loaded, agent, work, target, FlagType
  <2> QED BY <2>1, <2>2, <2>3, <2>4, <2>5 DEF TypeOK
<1>7. CASE \E n \in Names : AbortUpload(n)
  <2>1. ServiceType'
    BY <1>7 DEF AbortUpload, loaded, shared, agent, work, target, history, ServiceType
  <2>2. FileType'
    BY <1>7 DEF AbortUpload, loaded, shared, agent, work, target, history, FileType
  <2>3. AgentType'
    BY <1>7 DEF AbortUpload, loaded, shared, agent, work, target, history, AgentType
  <2>4. HistoryType'
    BY <1>7 DEF AbortUpload, loaded, shared, agent, work, target, history, packages, HistoryType
  <2>5. FlagType'
    BY <1>7 DEF AbortUpload, loaded, shared, agent, work, target, history, FlagType
  <2> QED BY <2>1, <2>2, <2>3, <2>4, <2>5 DEF TypeOK
<1>8. CASE LogResult
  <2>1. ServiceType'
    BY <1>8 DEF LogResult, IsNews, Outcome, loaded, request, shared, agent, work, target, ServiceType
  <2>2. FileType'
    BY <1>8 DEF LogResult, IsNews, Outcome, loaded, request, shared, agent, work, target, FileType
  <2>3. AgentType'
    BY <1>8 DEF LogResult, IsNews, Outcome, loaded, request, shared, agent, work, target, AgentType
  <2>4. HistoryType'
    BY <1>8 DEF LogResult, IsNews, Outcome, loaded, request, shared, agent, work, target, packages, HistoryType
  <2>5. FlagType'
    BY <1>8 DEF LogResult, IsNews, Outcome, loaded, request, shared, agent, work, target, FlagType
  <2> QED BY <2>1, <2>2, <2>3, <2>4, <2>5 DEF TypeOK
<1>9. CASE NothingToLog
  <2>1. ServiceType'
    BY <1>9 DEF NothingToLog, loaded, request, shared, agent, work, target, history, ServiceType
  <2>2. FileType'
    BY <1>9 DEF NothingToLog, loaded, request, shared, agent, work, target, history, FileType
  <2>3. AgentType'
    BY <1>9 DEF NothingToLog, loaded, request, shared, agent, work, target, history, AgentType
  <2>4. HistoryType'
    BY <1>9 DEF NothingToLog, loaded, request, shared, agent, work, target, history, packages, HistoryType
  <2>5. FlagType'
    BY <1>9 DEF NothingToLog, loaded, request, shared, agent, work, target, history, FlagType
  <2> QED BY <2>1, <2>2, <2>3, <2>4, <2>5 DEF TypeOK
<1>10. CASE MarkSeen
  <2>1. ServiceType'
    BY <1>10 DEF MarkSeen, loaded, request, agent, work, target, ServiceType
  <2>2. FileType'
    BY <1>10 DEF MarkSeen, loaded, request, agent, work, target, FileType
  <2>3. AgentType'
    BY <1>10 DEF MarkSeen, loaded, request, agent, work, target, AgentType
  <2>4. HistoryType'
    BY <1>10 DEF MarkSeen, loaded, request, agent, work, target, packages, HistoryType
  <2>5. FlagType'
    BY <1>10 DEF MarkSeen, loaded, request, agent, work, target, FlagType
  <2> QED BY <2>1, <2>2, <2>3, <2>4, <2>5 DEF TypeOK
<1>11. CASE CrashService
  <2>1. ServiceType'
    BY <1>11 DEF CrashService, StopService, loaded, shared, agent, work, target, ServiceType
  <2>2. FileType'
    BY <1>11 DEF CrashService, StopService, loaded, shared, agent, work, target, FileType
  <2>3. AgentType'
    BY <1>11 DEF CrashService, StopService, loaded, shared, agent, work, target, AgentType
  <2>4. HistoryType'
    BY <1>11 DEF CrashService, StopService, loaded, shared, agent, work, target, packages, HistoryType, ServiceType
  <2>5. FlagType'
    BY <1>11 DEF CrashService, StopService, loaded, shared, agent, work, target, FlagType
  <2> QED BY <2>1, <2>2, <2>3, <2>4, <2>5 DEF TypeOK
<1>12. CASE StartService
  <2>1. ServiceType'
    BY <1>12 DEF StartService, Settings, Versions, request, shared, agent, work, target, history, ServiceType, AgentType, FileType
  <2>2. FileType'
    BY <1>12 DEF StartService, Settings, Versions, request, shared, agent, work, target, history, FileType
  <2>3. AgentType'
    BY <1>12 DEF StartService, Settings, Versions, request, shared, agent, work, target, history, AgentType
  <2>4. HistoryType'
    BY <1>12 DEF StartService, Settings, Versions, request, shared, agent, work, target, history, packages, HistoryType
  <2>5. FlagType'
    BY <1>12 DEF StartService, Settings, Versions, request, shared, agent, work, target, history, FlagType
  <2> QED BY <2>1, <2>2, <2>3, <2>4, <2>5 DEF TypeOK
<1> QED BY <1>2, <1>3, <1>4, <1>5, <1>6, <1>7, <1>8, <1>9, <1>10, <1>11, <1>12 DEF ServiceStep

LEMMA AgentTypes ==
  ASSUME IInv, Wake \/ AgentStep \/ CrashAgent PROVE TypeOK'
<1> USE AgentAssumption DEF IInv, TypeOK, AgentInv, QueueInv, Busy
<1>1. CASE Wake
  <2>1. ServiceType'
    BY <1>1 DEF Wake, service, loaded, request, shared, target, history, ServiceType
  <2>2. FileType'
    BY <1>1 DEF Wake, service, loaded, request, shared, target, history, FileType
  <2>3. AgentType'
    BY <1>1 DEF Wake, service, loaded, request, shared, target, history, AgentType, FileType
  <2>4. HistoryType'
    BY <1>1 DEF Wake, service, loaded, request, shared, target, history, packages, HistoryType
  <2>5. FlagType'
    BY <1>1 DEF Wake, service, loaded, request, shared, target, history, FlagType
  <2> QED BY <2>1, <2>2, <2>3, <2>4, <2>5 DEF TypeOK
<1>2. CASE TakeJob
  <2>1. ServiceType'
    BY <1>2 DEF TakeJob, FirstStep, IsNext, service, loaded, request, shared, target, history, ServiceType
  <2>2. FileType'
    BY <1>2 DEF TakeJob, FirstStep, IsNext, service, loaded, request, shared, target, history, FileType
  <2>3. AgentType'
    BY <1>2 DEF TakeJob, FirstStep, IsNext, service, loaded, request, shared, target, history, AgentType
  <2>4. HistoryType'
    BY <1>2 DEF TakeJob, FirstStep, IsNext, service, loaded, request, shared, target, history, packages, HistoryType
  <2>5. FlagType'
    BY <1>2 DEF TakeJob, FirstStep, IsNext, service, loaded, request, shared, target, history, FlagType
  <2> QED BY <2>1, <2>2, <2>3, <2>4, <2>5 DEF TypeOK
<1>3. CASE Unpack
  <2>1. ServiceType'
    BY <1>3 DEF Unpack, Conclude, Outcome, NoOutcome, Job, service, loaded, request, history, ServiceType
  <2>2. FileType'
    BY <1>3, NoOutcomeType DEF Unpack, Conclude, Job, service, loaded, request, history, FileType, AgentType
  <2>3. AgentType'
    BY <1>3 DEF Unpack, Unpackable, Conclude, Outcome, NoOutcome, Job, service, loaded, request, history, AgentType
  <2>4. HistoryType'
    BY <1>3 DEF Unpack, Conclude, Outcome, NoOutcome, Job, service, loaded, request, history, packages, HistoryType
  <2>5. FlagType'
    BY <1>3 DEF Unpack, Conclude, Outcome, NoOutcome, Job, service, loaded, request, history, FlagType
  <2> QED BY <2>1, <2>2, <2>3, <2>4, <2>5 DEF TypeOK
<1>4. CASE Copy
  <2>1. ServiceType'
    BY <1>4 DEF Copy, Conclude, Versions, Outcome, NoOutcome, service, loaded, request, ServiceType
  <2>2. FileType'
    BY <1>4, NoOutcomeType DEF Copy, Conclude, Versions, service, loaded, request, FileType, AgentType
  <2>3. AgentType'
    BY <1>4 DEF Copy, Conclude, Versions, Outcome, NoOutcome, service, loaded, request, AgentType
  <2>4. HistoryType'
    BY <1>4 DEF Copy, Conclude, Versions, Outcome, NoOutcome, service, loaded, request, packages, HistoryType
  <2>5. FlagType'
    BY <1>4 DEF Copy, Conclude, Versions, Outcome, NoOutcome, service, loaded, request, FlagType
  <2> QED BY <2>1, <2>2, <2>3, <2>4, <2>5 DEF TypeOK
<1>5. CASE Pip
  <2>1. ServiceType'
    BY <1>5 DEF Pip, Conclude, Contents, Outcome, NoOutcome, service, loaded, request, target, history, ServiceType
  <2>2. FileType'
    BY <1>5, NoOutcomeType DEF Pip, Conclude, Contents, service, loaded, request, target, history, FileType, AgentType
  <2>3. AgentType'
    BY <1>5 DEF Pip, Conclude, Contents, Outcome, NoOutcome, service, loaded, request, target, history, AgentType
  <2>4. HistoryType'
    BY <1>5 DEF Pip, Conclude, Contents, Outcome, NoOutcome, service, loaded, request, target, history, packages, HistoryType
  <2>5. FlagType'
    BY <1>5 DEF Pip, Conclude, Contents, Outcome, NoOutcome, service, loaded, request, target, history, FlagType
  <2> QED BY <2>1, <2>2, <2>3, <2>4, <2>5 DEF TypeOK
<1>6. CASE Set
  <2>1. ServiceType'
    BY <1>6 DEF Set, Conclude, Accepted, Job, Settings, Outcome, NoOutcome, service, loaded, request, history, ServiceType
  <2>2. FileType'
    BY <1>6 DEF Set, Conclude, Accepted, Job, Settings, Outcome, NoOutcome, service, loaded, request, history, FileType
  <2>3. AgentType'
    BY <1>6 DEF Set, Write, Conclude, Accepted, Job, Settings, Outcome, NoOutcome, service, loaded, request, history, AgentType
  <2>4. HistoryType'
    BY <1>6 DEF Set, Write, packages, HistoryType
  <2>5. FlagType'
    BY <1>6 DEF Set, Conclude, Accepted, Job, Settings, Outcome, NoOutcome, service, loaded, request, history, FlagType
  <2> QED BY <2>1, <2>2, <2>3, <2>4, <2>5 DEF TypeOK
<1>7. CASE WriteResult
  <2>1. ServiceType'
    BY <1>7 DEF WriteResult, Outcome, Job, service, loaded, request, work, target, history, ServiceType
  <2>2. FileType'
    BY <1>7 DEF WriteResult, Outcome, Job, service, loaded, request, work, target, history, FileType, AgentType, FlagType
  <2>3. AgentType'
    BY <1>7 DEF WriteResult, Outcome, Job, service, loaded, request, work, target, history, AgentType
  <2>4. HistoryType'
    BY <1>7 DEF WriteResult, Outcome, Job, service, loaded, request, work, target, history, packages, HistoryType
  <2>5. FlagType'
    BY <1>7 DEF WriteResult, Outcome, Job, service, loaded, request, work, target, history, FlagType
  <2> QED BY <2>1, <2>2, <2>3, <2>4, <2>5 DEF TypeOK
<1>8. CASE RemoveJob
  <2>1. ServiceType'
    BY <1>8 DEF RemoveJob, service, loaded, request, target, history, ServiceType
  <2>2. FileType'
    BY <1>8 DEF RemoveJob, service, loaded, request, target, history, FileType
  <2>3. AgentType'
    BY <1>8 DEF RemoveJob, service, loaded, request, target, history, AgentType
  <2>4. HistoryType'
    BY <1>8 DEF RemoveJob, service, loaded, request, target, history, packages, HistoryType
  <2>5. FlagType'
    BY <1>8 DEF RemoveJob, service, loaded, request, target, history, FlagType
  <2> QED BY <2>1, <2>2, <2>3, <2>4, <2>5 DEF TypeOK
<1>9. CASE Finish
  <2>1. ServiceType'
    BY <1>9 DEF Finish, EndOfRun, StopService, loaded, shared, target, ServiceType
  <2>2. FileType'
    BY <1>9 DEF Finish, EndOfRun, StopService, loaded, shared, target, FileType
  <2>3. AgentType'
    BY <1>9 DEF Finish, EndOfRun, StopService, loaded, shared, target, AgentType
  <2>4. HistoryType'
    BY <1>9 DEF Finish, EndOfRun, StopService, loaded, shared, target, packages, HistoryType, ServiceType
  <2>5. FlagType'
    BY <1>9 DEF Finish, EndOfRun, StopService, loaded, shared, target, FlagType
  <2> QED BY <2>1, <2>2, <2>3, <2>4, <2>5 DEF TypeOK
<1>10. CASE CrashAgent
  <2>1. ServiceType'
    BY <1>10 DEF CrashAgent, EndOfRun, service, loaded, request, shared, target, ServiceType
  <2>2. FileType'
    BY <1>10 DEF CrashAgent, EndOfRun, service, loaded, request, shared, target, FileType
  <2>3. AgentType'
    BY <1>10 DEF CrashAgent, EndOfRun, service, loaded, request, shared, target, AgentType
  <2>4. HistoryType'
    BY <1>10 DEF CrashAgent, EndOfRun, service, loaded, request, shared, target, packages, HistoryType
  <2>5. FlagType'
    BY <1>10 DEF CrashAgent, EndOfRun, service, loaded, request, shared, target, FlagType
  <2> QED BY <2>1, <2>2, <2>3, <2>4, <2>5 DEF TypeOK
<1> QED BY <1>1, <1>2, <1>3, <1>4, <1>5, <1>6, <1>7, <1>8, <1>9, <1>10 DEF AgentStep

-----------------------------------------------------------------------------
(* What a step leaves alone. *)

LEMMA ServiceFrame ==
  ASSUME IInv, ServiceStep
  PROVE  /\ UNCHANGED <<pc, todo, job, pkg, ok, restart, installed, system, result, unwritten>>
         /\ \/ UNCHANGED <<queue, stamps>>
            \/ \E id \in FreeStamps, kind \in Settings \cup {"update"}, arg \in Values \cup Names :
                 Enqueue(id, kind, arg)
<1> DEFINE Kept == UNCHANGED <<pc, todo, job, pkg, ok, restart, installed, system, result,
                               unwritten>>
           New == \E id \in FreeStamps, kind \in Settings \cup {"update"}, arg \in Values \cup Names :
                    Enqueue(id, kind, arg)
<1> SUFFICES Kept /\ (UNCHANGED <<queue, stamps>> \/ New)
  OBVIOUS
<1>1. ASSUME NEW new \in Configs, NEW wanted \in SUBSET Settings, Configure(new, wanted)
      PROVE  Kept /\ UNCHANGED <<queue, stamps>>
  BY <1>1 DEF Configure, shared, agent, work, target, history
<1>2. CASE \E new \in Configs : SaveConfig(new) \/ ImportConfig(new)
  BY <1>1, <1>2 DEF SaveConfig, ImportConfig
<1>3. CASE HandOver
  <2>1. PICK s \in Settings, id \in FreeStamps : Foremost(s) /\ Enqueue(id, s, conf[s])
    BY <1>3 DEF HandOver
  <2>2. conf[s] \in Values
    BY <2>1 DEF IInv, TypeOK, ServiceType, AgentInv, Foremost
  <2> QED BY <1>3, <2>1, <2>2 DEF HandOver, agent, work, target
<1>4. CASE HandOverFails
  BY <1>4 DEF HandOverFails, shared, agent, work, target
<1>5. CASE \E n \in Names : BeginUpload(n) \/ ReceiveChunk(n)
  BY <1>5 DEF BeginUpload, ReceiveChunk, agent, work, target
<1>6. ASSUME NEW n \in Names, NEW c \in Packages \cup {Foreign}, FinishUpload(n, c)
      PROVE  Kept /\ (UNCHANGED <<queue, stamps>> \/ New)
  BY <1>6 DEF FinishUpload, Inspected, agent, work, target
<1>7. CASE (\E n \in Names : AbortUpload(n)) \/ NothingToLog
  BY <1>7 DEF AbortUpload, NothingToLog, shared, agent, work, target, history
<1>8. CASE LogResult \/ MarkSeen
  BY <1>8 DEF LogResult, MarkSeen, shared, agent, work, target
<1>9. CASE CrashService \/ StartService
  BY <1>9 DEF CrashService, StartService, shared, agent, work, target, history
<1> HIDE DEF Kept, New
<1> QED BY <1>2, <1>3, <1>4, <1>5, <1>6, <1>7, <1>8, <1>9 DEF ServiceStep

\* The steps of the agent at a job.
AtJob == Unpack \/ Copy \/ Pip \/ Set \/ WriteResult

\* What only the service and the end of the agent touch.
Left == <<at, mark, sending, receiving, lost, unmarked>>

LEMMA AgentFrame ==
  ASSUME Wake \/ AgentStep \/ CrashAgent
  PROVE  /\ UNCHANGED <<conf, version, zone, seen, stamps, reports>>
         /\ \/ Wake /\ UNCHANGED Left
            \/ TakeJob /\ UNCHANGED Left
            \/ AtJob /\ Busy /\ Busy' /\ UNCHANGED <<todo, job, queue>> /\ UNCHANGED Left
            \/ RemoveJob /\ UNCHANGED Left
            \/ /\ Finish \/ CrashAgent
               /\ pc' = "idle" /\ todo' = {} /\ UNCHANGED <<files, queue, result, system>>
<1> USE DEF Left, service, loaded, request, shared, target, history
<1>1. CASE Wake
  BY <1>1 DEF Wake
<1>2. CASE TakeJob
  BY <1>2 DEF TakeJob
<1>3. CASE Unpack
  BY <1>3 DEF Unpack, Conclude, AtJob, Busy
<1>4. CASE Copy
  BY <1>4 DEF Copy, Conclude, AtJob, Busy
<1>5. CASE Pip
  BY <1>5 DEF Pip, Conclude, AtJob, Busy
<1>6. CASE Set
  BY <1>6 DEF Set, Conclude, AtJob, Busy
<1>7. CASE WriteResult
  BY <1>7 DEF WriteResult, work, AtJob, Busy
<1>8. CASE RemoveJob
  BY <1>8 DEF RemoveJob
<1>9. CASE Finish
  BY <1>9 DEF Finish, EndOfRun
<1>10. CASE CrashAgent
  BY <1>10 DEF CrashAgent, EndOfRun
<1> QED BY <1>1, <1>2, <1>3, <1>4, <1>5, <1>6, <1>7, <1>8, <1>9, <1>10 DEF AgentStep

-----------------------------------------------------------------------------
LEMMA Agents ==
  ASSUME IInv, Next PROVE AgentInv'
<1> USE DEF IInv, AgentInv
<1>1. CASE ServiceStep
  <2>1. UNCHANGED <<pc, todo, job, pkg, result>>
    BY <1>1, ServiceFrame
  <2>2. at' = "marking" => mark' \in Stamps
    BY <1>1 DEF ServiceStep, SaveConfig, ImportConfig, Configure, HandOver, HandOverFails,
       BeginUpload, ReceiveChunk, FinishUpload, AbortUpload, LogResult, IsNews, NothingToLog, MarkSeen,
       CrashService, StopService, StartService
  <2>3. /\ at' # "sending" => sending' = {}
        /\ \A s \in sending' : conf'[s] # None
    BY <1>1 DEF ServiceStep, SaveConfig, ImportConfig, Configure, HandOver, HandOverFails,
       BeginUpload, ReceiveChunk, FinishUpload, AbortUpload, LogResult, NothingToLog, MarkSeen,
       CrashService, StopService, StartService, request
  <2> QED BY <2>1, <2>2, <2>3 DEF Busy
<1>2. CASE Wake \/ AgentStep \/ CrashAgent
  <2>1. at' = "marking" => mark' \in Stamps
    BY <1>2, AgentFrame DEF Left, Finish, CrashAgent, StopService, service
  <2>2. /\ at' # "sending" => sending' = {}
        /\ \A s \in sending' : conf'[s] # None
    BY <1>2, AgentFrame DEF Left, Finish, CrashAgent, StopService, service, request
  <2>3. result'.whole => result'.job \in Stamps
    <3>1. CASE WriteResult
      BY <3>1 DEF WriteResult, Busy, TypeOK, AgentType, Job
    <3>2. CASE AtJob /\ ~WriteResult
      BY <3>2 DEF AtJob, Unpack, Copy, Pip, Set, Conclude, NoOutcome
    <3>3. CASE ~AtJob
      BY <1>2, <3>3, AgentFrame DEF Wake, TakeJob, RemoveJob, shared
    <3> QED BY <3>1, <3>2, <3>3
  <2>4. /\ pc' = "idle" => todo' = {}
        /\ Busy' => job' \in todo'
        /\ pc' \in {"unpack", "copy", "pip"} => job'.kind = "update"
        /\ pc' = "set" => job'.kind \in Settings
        /\ pc' = "copy" => pkg' \in Packages \cup {Cut}
    <3>1. CASE Wake
      BY <3>1 DEF Wake, Busy
    <3>2. CASE TakeJob
      BY <3>2 DEF TakeJob, IsNext, FirstStep, Busy, TypeOK, AgentType, Job
    <3>3. CASE AtJob
      BY <3>3 DEF AtJob, Unpack, Unpackable, Copy, Pip, Set, WriteResult, Conclude, Busy, work
    <3>4. CASE RemoveJob
      BY <3>4 DEF RemoveJob, Busy
    <3>5. CASE Finish \/ CrashAgent
      BY <3>5 DEF Finish, CrashAgent, EndOfRun, Busy
    <3> QED BY <1>2, <3>1, <3>2, <3>3, <3>4, <3>5 DEF AgentStep, AtJob
  <2> QED BY <2>1, <2>2, <2>3, <2>4
<1> QED BY <1>1, <1>2 DEF Next

LEMMA Queues ==
  ASSUME IInv, Next PROVE QueueInv'
<1> USE DEF IInv, QueueInv
<1>1. CASE ServiceStep
  <2>1. CASE UNCHANGED <<queue, stamps>>
    BY <1>1, <2>1, ServiceFrame DEF Busy
  <2>2. CASE \E id \in FreeStamps, kind \in Settings \cup {"update"}, arg \in Values \cup Names :
               Enqueue(id, kind, arg)
    BY <1>1, <2>2, ServiceFrame DEF Busy, Enqueue, FreeStamps
  <2> QED BY <1>1, <2>1, <2>2, ServiceFrame
<1>2. CASE Wake \/ AgentStep \/ CrashAgent
  <2>1. CASE Wake
    BY <1>2, <2>1, AgentFrame DEF Wake, Busy, shared
  <2>2. CASE TakeJob
    BY <1>2, <2>2, AgentFrame DEF TakeJob, IsNext, Busy, shared
  <2>3. CASE AtJob
    BY <1>2, <2>3, AgentFrame DEF Busy, AtJob, Unpack, Copy, Pip, Set, WriteResult, Wake, work, Conclude
  <2>4. CASE RemoveJob
    BY <1>2, <2>4, AgentFrame DEF RemoveJob, Busy
  <2>5. CASE Finish \/ CrashAgent
    BY <1>2, <2>5, AgentFrame DEF Busy, Finish, CrashAgent, EndOfRun, shared
  <2> QED BY <1>2, <2>1, <2>2, <2>3, <2>4, <2>5 DEF AgentStep, AtJob
<1> QED BY <1>1, <1>2 DEF Next

LEMMA Orders ==
  ASSUME IInv, OrderInv, ~ClockSteps, Next PROVE OrderInv'
<1> USE DEF IInv, QueueInv, OrderInv
<1>1. CASE ServiceStep
  <2>1. CASE UNCHANGED <<queue, stamps>>
    BY <1>1, <2>1, ServiceFrame
  <2>2. CASE \E id \in FreeStamps, kind \in Settings \cup {"update"}, arg \in Values \cup Names :
               Enqueue(id, kind, arg)
    <3>1. PICK id \in FreeStamps, kind \in Settings \cup {"update"}, arg \in Values \cup Names :
               Enqueue(id, kind, arg)
      BY <2>2
    <3>2. /\ id \in Stamps \ stamps
          /\ \A k \in Stamps \ stamps : id <= k
          /\ stamps \subseteq Stamps /\ Stamps \subseteq Nat
      BY AgentAssumption DEF FreeStamps, TypeOK, packages, HistoryType, Stamps
    <3>3. \A i \in stamps : i < id
      BY <3>2
    <3>4. \A i \in stamps', k \in Stamps : k < i => k \in stamps'
      BY <3>1, <3>2, <3>3 DEF Enqueue
    <3>5. \A j \in todo', k \in queue' \ todo' : j.id < k.id
      BY <1>1, <3>1, <3>3, ServiceFrame DEF Enqueue
    <3> QED BY <3>4, <3>5
  <2> QED BY <1>1, <2>1, <2>2, ServiceFrame
<1>2. CASE Wake \/ AgentStep \/ CrashAgent
  <2>1. CASE Wake
    BY <1>2, <2>1, AgentFrame DEF Wake, shared
  <2>2. CASE TakeJob
    BY <1>2, <2>2, AgentFrame DEF TakeJob, shared
  <2>3. CASE AtJob
    BY <1>2, <2>3, AgentFrame DEF AtJob, Unpack, Copy, Pip, Set, WriteResult, work
  <2>4. CASE RemoveJob
    BY <1>2, <2>4, AgentFrame DEF RemoveJob
  <2>5. CASE Finish \/ CrashAgent
    BY <1>2, <2>5, AgentFrame DEF Finish, CrashAgent, EndOfRun, shared
  <2> QED BY <1>2, <2>1, <2>2, <2>3, <2>4, <2>5 DEF AgentStep, AtJob
<1> QED BY <1>1, <1>2 DEF Next

\* A new job is newer than every job, mark and outcome there is.
LEMMA Newest ==
  ASSUME IInv, OrderInv, ~ClockSteps, NEW id \in FreeStamps
  PROVE  id \in Nat /\ 0 <= id /\ \A i \in stamps : i \in Nat /\ i < id
BY AgentAssumption DEF FreeStamps, IInv, TypeOK, packages, HistoryType, Stamps, OrderInv

\* The agent's job is the oldest in the queue.
LEMMA Oldest ==
  ASSUME IInv, OrderInv, Busy
  PROVE  job \in queue /\ \A k \in queue : job.id <= k.id
BY AgentAssumption DEF IInv, AgentInv, QueueInv, OrderInv, TypeOK, FileType, Job, Stamps

\* What SettingInv says of one setting, and of the job at the agent.
Carried(s) ==
    (conf[s] # None /\ s \notin lost \cup sending) =>
      \/ /\ \A j \in queue : j.kind # s
         /\ system[s] = conf[s] \/ (s = "tz" /\ conf[s] \in Unknown) \/ s \in unwritten
      \/ \E n \in queue : /\ n.kind = s /\ n.arg = conf[s]
                          /\ \A k \in queue : k.kind = s => k.id <= n.id
Done ==
    (pc \in {"write", "remove"} /\ job.kind \in Settings) =>
      \/ system[job.kind] = job.arg \/ job.kind \in unwritten
      \/ job.kind = "tz" /\ job.arg \in Unknown

LEMMA SettingParts == SettingInv <=> (\A s \in Settings : Carried(s)) /\ Done
BY DEF SettingInv, Carried, Done

LEMMA SettingsOfService ==
  ASSUME IInv, OrderInv, SettingInv, ~ClockSteps, ServiceStep, NEW s \in Settings
  PROVE  Carried(s)'
<1> USE DEF Carried
<1>0. Carried(s) /\ UNCHANGED <<system, unwritten>>
  BY SettingParts, ServiceFrame
<1>1. ASSUME NEW new \in Configs, SaveConfig(new) \/ ImportConfig(new) PROVE Carried(s)'
  <2>1. sending = {} /\ UNCHANGED <<queue, lost, system>>
    BY <1>1 DEF SaveConfig, ImportConfig, Configure, shared, target, history, IInv, AgentInv
  <2>2. CASE SaveConfig(new)
    BY <1>0, <2>1, <2>2 DEF SaveConfig, Configure
  <2>3. CASE ImportConfig(new)
    BY <2>3 DEF ImportConfig, Configure
  <2> QED BY <1>1, <2>2, <2>3
<1>2. CASE HandOver
  <2>1. PICK t \in Settings, id \in FreeStamps :
          Foremost(t) /\ Enqueue(id, t, conf[t]) /\ sending' = sending \ {t} /\ lost' = lost \ {t}
    BY <1>2 DEF HandOver
  <2>2. UNCHANGED conf
    BY <1>2 DEF HandOver
  <2>3. CASE s = t
    <3> DEFINE n == [id |-> id, kind |-> t, arg |-> conf[t]]
    <3>1. n \in queue' /\ n.kind = s /\ n.arg = conf'[s]
      BY <2>1, <2>2, <2>3 DEF Enqueue
    <3>2. \A k \in queue' : k.id <= n.id
      BY <2>1, Newest DEF Enqueue, IInv, QueueInv
    <3> QED BY <3>1, <3>2
  <2>4. CASE s # t
    BY <1>0, <2>1, <2>2, <2>4 DEF Enqueue
  <2> QED BY <2>3, <2>4
<1>3. CASE HandOverFails
  BY <1>0, <1>3 DEF HandOverFails, shared
<1>4. CASE \E n \in Names : BeginUpload(n) \/ ReceiveChunk(n)
  BY <1>0, <1>4 DEF BeginUpload, ReceiveChunk, request
<1>5. ASSUME NEW n \in Names, NEW c \in Packages \cup {Foreign}, FinishUpload(n, c)
      PROVE  Carried(s)'
  BY <1>0, <1>5 DEF FinishUpload, Inspected, Enqueue, Settings
<1>6. CASE (\E n \in Names : AbortUpload(n)) \/ NothingToLog \/ LogResult
  BY <1>0, <1>6 DEF AbortUpload, NothingToLog, LogResult, request, shared, history
<1>7. CASE MarkSeen
  BY <1>0, <1>7 DEF MarkSeen, request
<1>8. CASE CrashService
  BY <1>0, <1>8 DEF CrashService, StopService, shared
<1>9. CASE StartService
  BY <1>0, <1>9 DEF StartService, request, shared, history
<1> QED BY <1>1, <1>2, <1>3, <1>4, <1>5, <1>6, <1>7, <1>8, <1>9 DEF ServiceStep

LEMMA SettingsOfAgent ==
  ASSUME IInv, OrderInv, SettingInv, Wake \/ AgentStep \/ CrashAgent, NEW s \in Settings
  PROVE  Carried(s)'
<1> USE DEF Carried
<1>0. Carried(s) /\ Done /\ UNCHANGED conf
  BY SettingParts, AgentFrame
<1>1. CASE Wake \/ TakeJob
  BY <1>0, <1>1, AgentFrame DEF Wake, TakeJob, Left, shared, target, history
<1>2. CASE AtJob /\ ~Set
  <2>1. UNCHANGED <<queue, system, lost, unwritten, sending>>
    BY <1>2, AgentFrame DEF AtJob, history, Unpack, Copy, Pip, WriteResult, Left, target, Wake, TakeJob,
       RemoveJob, Finish, CrashAgent, EndOfRun, Conclude
  <2> QED BY <1>0, <2>1
<1>3. CASE Set
  <2>1. job \in queue /\ UNCHANGED <<queue, lost, sending>>
    BY <1>3 DEF Set, service, request, history, IInv, AgentInv, QueueInv, Busy
  <2>2. s # job.kind => system'[s] = system[s] /\ (s \in unwritten' <=> s \in unwritten)
    BY <1>3 DEF Set, Write, IInv, TypeOK, AgentType
  <2>3. CASE s = job.kind
    <3>1. ~(\A j \in queue : j.kind # s)
      BY <2>1, <2>3
    <3> QED BY <1>0, <2>1, <3>1
  <2>4. CASE s # job.kind
    BY <1>0, <2>1, <2>2, <2>4
  <2> QED BY <2>3, <2>4
<1>4. CASE RemoveJob
  <2>1. /\ queue' = queue \ {job} /\ pc = "remove"
        /\ UNCHANGED <<lost, unwritten, sending, system>>
    BY <1>4 DEF RemoveJob, service, request, target, history
  <2>2. SUFFICES ASSUME conf[s] # None, s \notin lost \cup sending
                 PROVE  Carried(s)'
    BY <1>0, <2>1
  <2>3. CASE \A j \in queue : j.kind # s
    BY <1>0, <2>1, <2>2, <2>3
  <2>4. CASE ~ \A j \in queue : j.kind # s
    <3>1. PICK n \in queue : /\ n.kind = s /\ n.arg = conf[s]
                             /\ \A k \in queue : k.kind = s => k.id <= n.id
      BY <1>0, <2>2, <2>4
    <3>2. CASE n # job
      BY <1>0, <2>1, <3>1, <3>2
    <3>3. CASE n = job
      <4>1. /\ \A k \in queue : n.id <= k.id
            /\ \A k \in queue : k.id \in Nat
            /\ \A j, k \in queue : j.id = k.id => j = k
        BY <2>1, <3>3, Oldest, AgentAssumption DEF Busy, IInv, QueueInv, TypeOK, FileType, Job, Stamps
      <4>2. \A k \in queue : k.kind = s => k = n
        BY <3>1, <4>1
      <4>3. system[s] = conf[s] \/ (s = "tz" /\ conf[s] \in Unknown) \/ s \in unwritten
        BY <1>0, <2>1, <3>1, <3>3 DEF Done
      <4> QED BY <1>0, <2>1, <3>3, <4>2, <4>3
    <3> QED BY <3>2, <3>3
  <2> QED BY <2>3, <2>4
<1>5. CASE Finish
  <2>1. lost \subseteq lost' /\ (lost' \cup sending' = lost \cup sending)
    BY <1>5 DEF Finish, StopService
  <2>2. UNCHANGED <<queue, system, unwritten>>
    BY <1>5 DEF Finish, shared, target
  <2> QED BY <1>0, <2>1, <2>2
<1>6. CASE CrashAgent
  BY <1>0, <1>6 DEF CrashAgent, service, request, shared, target
<1> QED BY <1>1, <1>2, <1>3, <1>4, <1>5, <1>6 DEF AgentStep, AtJob

LEMMA DoneKept ==
  ASSUME IInv, SettingInv, Next PROVE Done'
<1> USE DEF Done
<1>0. Done
  BY SettingParts
<1>1. CASE ServiceStep
  BY <1>0, <1>1, ServiceFrame
<1>2. CASE Set
  BY <1>2 DEF Set, Write, Conclude, Accepted, IInv, TypeOK, AgentType
<1>3. CASE Unpack \/ Copy \/ Pip
  BY <1>3 DEF Unpack, Copy, Pip, Conclude, IInv, AgentInv, Settings
<1>4. CASE WriteResult
  BY <1>0, <1>4 DEF WriteResult, work, target, history
<1>5. CASE RemoveJob \/ Wake
  BY <1>5 DEF RemoveJob, Wake
<1>6. CASE TakeJob
  BY <1>6 DEF TakeJob, FirstStep
<1>7. CASE Finish \/ CrashAgent
  BY <1>7 DEF Finish, CrashAgent, EndOfRun
<1> QED BY <1>1, <1>2, <1>3, <1>4, <1>5, <1>6, <1>7 DEF Next, AgentStep

LEMMA Settled ==
  ASSUME IInv, OrderInv, SettingInv, ~ClockSteps, Next PROVE SettingInv'
<1>1. \A s \in Settings : Carried(s)'
  BY SettingsOfService, SettingsOfAgent DEF Next
<1>2. Done'
  BY DoneKept
<1> QED BY <1>1, <1>2 DEF SettingInv, Carried, Done

-----------------------------------------------------------------------------
(* What was logged and marked. *)

\* The parts of SeenInv: the order of mark, outcome and jobs, and what was logged.
MarkInv ==
    /\ seen \in stamps \cup {0}
    /\ \A k \in queue : seen <= k.id
    /\ result.whole => /\ result.job \in stamps /\ seen <= result.job
                       /\ \A k \in queue : result.job <= k.id
    /\ at = "marking" => /\ mark \in stamps /\ seen <= mark
                         /\ \A k \in queue : mark <= k.id
                         /\ result.whole => mark <= result.job

LogInv ==
    /\ \A j \in Stamps : reports[j] # 0 =>
         j \in unmarked \/ j <= seen \/ (at = "marking" /\ j = mark)
    /\ \A j \in Stamps : reports[j] = 2 => j \in unmarked

LEMMA SeenParts == SeenInv <=> MarkInv /\ LogInv
BY DEF SeenInv, MarkInv, LogInv

LEMMA Marks ==
  ASSUME IInv, OrderInv, SeenInv, ~ClockSteps, Next PROVE MarkInv'
<1> USE DEF MarkInv
<1>0. MarkInv
  BY SeenParts
<1>1. CASE ServiceStep
  <2>1. UNCHANGED result
    BY <1>1, ServiceFrame
  <2>2. \/ UNCHANGED <<queue, stamps>>
        \/ /\ stamps \subseteq stamps'
           /\ \A k \in queue' \ queue : \A i \in stamps \cup {0} : i <= k.id
    BY <1>1, ServiceFrame, Newest DEF Enqueue
  <2>3. \/ UNCHANGED seen /\ (at' = "marking" => at = "marking" /\ mark' = mark)
        \/ LogResult
        \/ MarkSeen
    BY <1>1 DEF ServiceStep, SaveConfig, ImportConfig, Configure, HandOver, HandOverFails,
       BeginUpload, ReceiveChunk, FinishUpload, AbortUpload, NothingToLog, CrashService, StopService,
       StartService, shared
  <2>4. CASE UNCHANGED seen /\ (at' = "marking" => at = "marking" /\ mark' = mark)
    BY <1>0, <2>1, <2>2, <2>4
  <2>5. CASE LogResult
    <3>1. result.job \in Nat
      BY AgentAssumption DEF IInv, TypeOK, FileType, Outcome, Stamps
    <3> QED BY <1>0, <2>5, <3>1 DEF LogResult, IsNews, shared
  <2>6. CASE MarkSeen
    BY <1>0, <2>6 DEF MarkSeen
  <2> QED BY <2>3, <2>4, <2>5, <2>6
<1>2. CASE WriteResult
  <2>1. /\ job \in queue /\ job.id \in stamps
        /\ \A k \in queue : job.id <= k.id
        /\ UNCHANGED <<queue, stamps, seen, at, mark>>
    BY <1>2, Oldest DEF WriteResult, Busy, IInv, QueueInv, service, history
  <2>2. result'.whole => result'.job = job.id
    BY <1>2 DEF WriteResult
  <2> QED BY <1>0, <2>1, <2>2
<1>3. CASE AtJob /\ ~WriteResult
  <2>1. UNCHANGED <<queue, stamps, seen, at, mark>>
    BY <1>3 DEF AtJob, Unpack, Copy, Pip, Set, Conclude, service, history
  <2>2. result' = result \/ result' = NoOutcome
    BY <1>3 DEF AtJob, Unpack, Copy, Pip, Set, Conclude
  <2> QED BY <1>0, <2>1, <2>2 DEF NoOutcome
<1>4. CASE Wake \/ TakeJob \/ RemoveJob
  <2>1. queue' \subseteq queue /\ UNCHANGED <<stamps, seen, at, mark, result>>
    BY <1>4 DEF Wake, TakeJob, RemoveJob, service, shared, history
  <2> QED BY <1>0, <2>1
<1>5. CASE Finish \/ CrashAgent
  <2>1. /\ UNCHANGED <<queue, stamps, seen, result>>
        /\ at' = "marking" => at = "marking" /\ mark' = mark
    BY <1>5 DEF Finish, CrashAgent, StopService, service, shared
  <2> QED BY <1>0, <2>1
<1> QED BY <1>1, <1>2, <1>3, <1>4, <1>5 DEF Next, AgentStep, AtJob

LEMMA Logs ==
  ASSUME IInv, SeenInv, Next PROVE LogInv'
<1> USE DEF LogInv
<1>0. MarkInv /\ LogInv
  BY SeenParts
<1>1. Stamps \subseteq Nat /\ seen \in Nat
  BY AgentAssumption DEF Stamps, IInv, TypeOK, FileType
<1>2. CASE LogResult
  <2>1. result.job \in Stamps /\ seen < result.job
    BY <1>0, <1>1, <1>2 DEF LogResult, IsNews, MarkInv, IInv, AgentInv, Stamps
  <2>2. /\ at # "marking" /\ at' = "marking" /\ mark' = result.job
        /\ reports' = [reports EXCEPT ![result.job] = IF @ = 0 THEN 1 ELSE 2]
        /\ UNCHANGED <<seen, unmarked>>
    BY <1>2 DEF LogResult, shared
  <2>3. reports \in [Stamps -> 0..2]
    BY DEF IInv, TypeOK, packages, HistoryType
  <2> QED BY <1>0, <1>1, <2>1, <2>2, <2>3
<1>3. CASE MarkSeen
  <2>1. CASE seen' = mark /\ UNCHANGED unmarked
    BY <1>0, <1>1, <1>3, <2>1 DEF MarkSeen, MarkInv, IInv, TypeOK, ServiceType
  <2>2. CASE unmarked' = unmarked \cup {mark} /\ UNCHANGED seen
    BY <1>0, <1>3, <2>2 DEF MarkSeen
  <2> QED BY <1>3, <2>1, <2>2 DEF MarkSeen
<1>4. CASE CrashService \/ Finish
  <2>1. /\ UNCHANGED <<seen, reports>>
        /\ \/ unmarked' = IF at = "marking" THEN unmarked \cup {mark} ELSE unmarked
           \/ UNCHANGED <<at, mark, unmarked>>
    BY <1>4 DEF CrashService, Finish, StopService, shared
  <2> QED BY <1>0, <2>1
<1>5. CASE \/ ServiceStep /\ ~LogResult /\ ~MarkSeen /\ ~CrashService
           \/ Wake \/ TakeJob \/ AtJob \/ RemoveJob \/ CrashAgent
  <2>1. UNCHANGED <<seen, reports, unmarked>> /\ (at = "marking" => UNCHANGED <<at, mark>>)
    BY <1>5 DEF ServiceStep, SaveConfig, ImportConfig, Configure, HandOver, HandOverFails,
       BeginUpload, ReceiveChunk, FinishUpload, AbortUpload, NothingToLog, StartService, shared, history,
       Wake, TakeJob, AtJob, Unpack, Copy, Pip, Set, WriteResult, RemoveJob, CrashAgent, service
  <2> QED BY <1>0, <2>1
<1> QED BY <1>2, <1>3, <1>4, <1>5 DEF Next, AgentStep, AtJob

LEMMA Marked ==
  ASSUME IInv, OrderInv, SeenInv, ~ClockSteps, Next PROVE SeenInv'
<1>1. MarkInv' /\ LogInv'
  BY Marks, Logs
<1> QED BY <1>1 DEF SeenInv, MarkInv, LogInv

-----------------------------------------------------------------------------
LEMMA PackagesKept ==
  ASSUME IInv, Next PROVE PackageInv'
<1> USE AgentAssumption DEF IInv, PackageInv
<1>0. /\ files \in [Names -> Contents]
      /\ checked \in [Stamps -> Packages \cup {Absent}]
      /\ \A j \in queue : j.id \in stamps /\ (j.kind = "update" => j.arg \in Names)
  BY DEF TypeOK, FileType, HistoryType, QueueInv, Job, Settings
<1>1. ASSUME NEW n \in Names, BeginUpload(n) \/ ReceiveChunk(n) PROVE PackageInv'
  <2>1. /\ files' = [files EXCEPT ![n] = Cut]
        /\ Rewrite(n) /\ UNCHANGED <<queue, checked>>
    BY <1>1 DEF BeginUpload, ReceiveChunk
  <2> QED BY <1>0, <2>1 DEF Rewrite
<1>2. ASSUME NEW n \in Names, NEW c \in Packages \cup {Foreign}, FinishUpload(n, c)
      PROVE  PackageInv'
  <2>1. Rewrite(n) /\ \E e \in Contents : files' = [files EXCEPT ![n] = e]
    BY <1>2 DEF FinishUpload, Inspected, Contents
  <2>2. CASE UNCHANGED <<queue, checked>>
    BY <1>0, <2>1, <2>2 DEF Rewrite
  <2>3. CASE ~UNCHANGED <<queue, checked>>
    <3>1. PICK id \in FreeStamps : /\ Enqueue(id, "update", n)
                                   /\ checked' = [checked EXCEPT ![id] = c]
                                   /\ files' = [files EXCEPT ![n] = c]
      BY <1>2, <2>3 DEF FinishUpload, Inspected
    <3>2. id \in Stamps \ stamps
      BY DEF FreeStamps
    <3>3. files'[n] = c /\ checked'[id] = c
      BY <1>0, <3>1, <3>2
    <3>4. \A j \in queue : checked'[j.id] = checked[j.id]
      BY <1>0, <3>1, <3>2
    <3>5. \A j \in queue' : j \in queue \/ (j.id = id /\ j.arg = n)
      BY <3>1 DEF Enqueue
    <3> QED BY <1>0, <2>1, <3>1, <3>3, <3>4, <3>5 DEF Rewrite
  <2> QED BY <2>2, <2>3
<1>3. CASE Pip
  <2>1. /\ UNCHANGED <<queue, checked, rewritten>>
        /\ files' = [files EXCEPT ![job.arg] = Absent] \/ UNCHANGED files
    BY <1>3 DEF Pip, history, packages
  <2> QED BY <1>0, <2>1
<1>4. CASE HandOver
  <2>1. UNCHANGED <<files, checked, rewritten>> /\ \A j \in queue' \ queue : j.kind \in Settings
    BY <1>4 DEF HandOver, Enqueue, packages
  <2> QED BY <2>1 DEF Settings
<1>5. CASE RemoveJob
  <2>1. /\ queue' = queue \ {job} /\ UNCHANGED files
        /\ checked' = [checked EXCEPT ![job.id] = Absent]
        /\ rewritten' = rewritten \ {job.id}
    BY <1>5 DEF RemoveJob
  <2>2. job \in queue
    BY <1>5 DEF RemoveJob, AgentInv, QueueInv, Busy
  <2>3. \A j \in queue' : j.id # job.id
    BY <2>1, <2>2 DEF QueueInv
  <2> QED BY <1>0, <2>1, <2>3
<1>6. CASE \/ \E new \in Configs : SaveConfig(new) \/ ImportConfig(new)
           \/ \E n \in Names : AbortUpload(n)
           \/ HandOverFails \/ LogResult \/ NothingToLog \/ MarkSeen
           \/ CrashService \/ StartService
           \/ Wake \/ TakeJob \/ (AtJob /\ ~Pip) \/ Finish \/ CrashAgent
  <2>1. UNCHANGED <<files, queue, checked, rewritten>>
    BY <1>6 DEF SaveConfig, ImportConfig, Configure, HandOverFails, AbortUpload, LogResult,
       NothingToLog, MarkSeen, CrashService, StopService, StartService, Wake, TakeJob, AtJob,
       Unpack, Copy, Set, WriteResult, Finish, CrashAgent, shared, history, packages
  <2> QED BY <2>1
<1> QED BY <1>1, <1>2, <1>3, <1>4, <1>5, <1>6 DEF Next, ServiceStep, AgentStep, AtJob

-----------------------------------------------------------------------------
LEMMA Stutter == ASSUME IInv, UNCHANGED vars PROVE IInv'
<1> USE DEF vars, service, loaded, request, shared, agent, work, target, history
<1>1. TypeOK'
  BY DEF IInv, TypeOK, ServiceType, FileType, AgentType, packages, HistoryType, FlagType
<1>2. AgentInv' /\ QueueInv'
  BY DEF IInv, AgentInv, QueueInv, Busy
<1>3. ~ClockSteps => OrderInv' /\ SettingInv' /\ SeenInv'
  BY DEF IInv, OrderInv, SettingInv, SeenInv, packages
<1>4. PackageInv'
  BY DEF IInv, PackageInv, packages
<1> QED BY <1>1, <1>2, <1>3, <1>4 DEF IInv

\* The inductive invariant.
LEMMA Invariance == Spec => []IInv
<1>1. ASSUME IInv, [Next]_vars PROVE IInv'
  <2>1. CASE Next
    <3>1. TypeOK'
      BY <1>1, <2>1, ServiceTypes, AgentTypes DEF Next
    <3>2. AgentInv' /\ QueueInv'
      BY <1>1, <2>1, Agents, Queues
    <3>3. ~ClockSteps => OrderInv' /\ SettingInv' /\ SeenInv'
      BY <1>1, <2>1, Orders, Settled, Marked DEF IInv
    <3>4. PackageInv'
      BY <1>1, <2>1, PackagesKept
    <3> QED BY <3>1, <3>2, <3>3, <3>4 DEF IInv
  <2> QED BY <1>1, <2>1, Stutter
<1> QED BY Initial, <1>1, PTL DEF Spec

\* In every reachable state the variables have their types, for any packages, settings and
\* number of jobs and deaths of the agent.
THEOREM TypeCorrect == Spec => []TypeOK
BY Invariance, PTL DEF IInv

\* While the clock does not run backwards, a setting without a job in the queue is in force
\* as it was configured, whatever process dies in between (main.py:577-588,
\* agent.sh:178-232).
THEOREM SettingsInForceCorrect ==
  ASSUME ~ClockSteps PROVE Spec => []SettingsInForce
<1>1. IInv => SettingsInForce
  BY DEF IInv, SettingInv, SettingsInForce
<1> QED BY <1>1, Invariance, PTL

\* While the clock does not run backwards, no outcome is logged twice unless its mark could
\* not be written (main.py:231-260).
THEOREM ReportedOnceCorrect ==
  ASSUME ~ClockSteps PROVE Spec => []ReportedOnce
<1>1. IInv => ReportedOnce
  BY DEF IInv, SeenInv, ReportedOnce
<1> QED BY <1>1, Invariance, PTL

\* What the agent unpacks as root for a queued update is the package the service checked
\* for it, or nothing, unless somebody wrote to the file in between: with any number of
\* requests that receive packages of the same name side by side, deaths of either process
\* and failing steps (main.py:190-228, 1226-1281, agent.sh:85-131).
THEOREM OnlyCheckedCorrect == Spec => []OnlyCheckedIsUnpacked
<1>1. IInv => OnlyCheckedIsUnpacked
  BY DEF IInv, PackageInv, AgentInv, QueueInv, Busy, OnlyCheckedIsUnpacked
<1> QED BY <1>1, Invariance, PTL
=============================================================================
