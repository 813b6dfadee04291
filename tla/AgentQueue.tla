----------------------------- MODULE AgentQueue -----------------------------
(***************************************************************************)
(* The job queue between the unprivileged service (app/main.py) and the    *)
(* privileged agent (deploy/pve-usv-agent.sh): two processes that share    *)
(* nothing but files.                                                      *)
(*                                                                         *)
(* The service drops a job per uploaded package, changed NTP server and    *)
(* changed time zone into queue/; the agent, woken by a systemd timer,     *)
(* carries the jobs out in the order of their names (a name begins with a  *)
(* time stamp), overwrites result.json after each, removes the job file    *)
(* last of all, and restarts the service once at the end.  The service     *)
(* reads result.json at its start and whenever the update page asks, and   *)
(* writes the id it has logged to result.seen.                             *)
(*                                                                         *)
(* A step of the service is what its event loop does without an await and  *)
(* without anything the agent could see in between; a step of the agent is *)
(* one change of a file the service reads or of the installation.  Either  *)
(* process may die between any two steps, and requests to the service that *)
(* await something, which uploads do, run side by side.                    *)
(***************************************************************************)
EXTENDS Naturals, FiniteSets

CONSTANTS
    Names,        \* file names of uploaded packages
    Packages,     \* the program versions a good package may hold
    Shipped,      \* the version installed first
    Values,       \* NTP servers and time zones an operator may enter
    Unknown,      \* the time zones the system does not have
    Configs,      \* the settings an operator saves or imports
    MaxJobs,      \* bound on the jobs ever queued
    MaxCrashes,   \* bound on the deaths of the agent
    MaxUploads,   \* bound on the requests receiving a package of one name at once
    ClockSteps,   \* may the wall clock run backwards between two jobs?
    Faults        \* what may fail: subset of {"send", "partial", "copy", "pip", "set", "mark"}

None == "none"       \* no value, no file name
Absent == "absent"   \* no such package
Cut == "cut"         \* a file or an installation that was not written to the end
Foreign == "foreign" \* an archive that is not a release of this program

Versions == Packages \cup {Shipped}
Stamps == 1..MaxJobs
Settings == {"ntp", "tz"}
Contents == Packages \cup {Absent, Cut, Foreign}
Job == [id: Stamps, kind: Settings, arg: Values] \cup [id: Stamps, kind: {"update"}, arg: Names]
NoJob == [id |-> 0, kind |-> None, arg |-> None]
Outcome == [job: Stamps \cup {0}, ok: BOOLEAN, whole: BOOLEAN]   \* result.json
NoOutcome == [job |-> 0, ok |-> FALSE, whole |-> FALSE]  \* none yet, or emptied

ASSUME AgentAssumption ==
    /\ MaxJobs \in Nat /\ MaxCrashes \in Nat /\ MaxUploads \in Nat
    /\ ClockSteps \in BOOLEAN
    /\ Shipped \notin {Absent, Cut, Foreign} /\ Unknown \subseteq Values
    /\ None \notin Values \cup Names
    /\ Configs \subseteq [Settings -> Values \cup {None}]
    /\ Packages \cap {Absent, Cut, Foreign} = {}
    /\ Faults \subseteq {"send", "partial", "copy", "pip", "set", "mark"}

VARIABLES
    \* the service
    at,         \* what its event loop is at
    mark,       \* the outcome being marked as seen
    version,    \* the code the process has loaded ...
    zone,       \* ... and the time zone, which glibc reads once
    conf,       \* the configured NTP server and time zone
    sending,    \* the settings of the current request still to hand over
    receiving,  \* how many requests are receiving a package of each name
    \* the files between the two
    files, queue, result, seen,
    \* the agent
    pc, todo, job,
    pkg,        \* what was unpacked
    ok,         \* whether the job succeeded
    restart,    \* NEED_RESTART
    \* what it changes
    installed,  \* what /opt/pve-usv/app holds
    system,     \* the NTP server and time zone in force
    \* history
    stamps,     \* the time stamps used up
    reports,    \* how often an outcome of each job was logged, up to 2
    unmarked,   \* jobs whose outcome was logged but not marked as seen
    lost,       \* settings whose configured value was not handed over
    unwritten,  \* settings whose last write by the agent failed
    checked,    \* the package each queued update was queued for
    rewritten,  \* queued updates whose package was written to again
    broken,     \* the last copy of a package ended in an error, was of half of one, or was
                \* cut short and cannot be repeated: its package was written to again
    crashes     \* deaths of the agent

loaded == <<version, zone>>
request == <<conf, sending, receiving>>
service == <<at, mark, loaded, request>>
shared == <<files, queue, result, seen>>
work == <<todo, job, pkg, ok, restart>>
agent == <<pc, work>>
target == <<installed, system>>
packages == <<checked, rewritten>>
history == <<stamps, reports, unmarked, lost, unwritten, packages, broken, crashes>>
vars == <<service, shared, agent, target, history>>

ServiceType ==
    /\ at \in {"down", "starting", "ready", "marking", "sending"}
    /\ mark \in Stamps \cup {0}
    /\ version \in Versions
    /\ zone \in Values \cup {None}
    /\ conf \in [Settings -> Values \cup {None}]
    /\ sending \subseteq Settings
    /\ receiving \in [Names -> 0..MaxUploads]

FileType ==
    /\ files \in [Names -> Contents]
    /\ queue \subseteq Job
    /\ result \in Outcome
    /\ seen \in Stamps \cup {0}

AgentType ==
    /\ pc \in {"idle", "take", "unpack", "copy", "pip", "set", "write", "remove"}
    /\ todo \subseteq Job
    /\ job \in Job \cup {NoJob}
    /\ pkg \in Packages \cup {Absent, Cut}
    /\ installed \in Versions \cup {Cut}
    /\ system \in [Settings -> Values \cup {None}]

HistoryType ==
    /\ stamps \subseteq Stamps
    /\ reports \in [Stamps -> 0..2]
    /\ unmarked \subseteq Stamps
    /\ lost \subseteq Settings /\ unwritten \subseteq Settings
    /\ checked \in [Stamps -> Packages \cup {Absent}]
    /\ rewritten \subseteq Stamps
    /\ crashes \in 0..MaxCrashes

FlagType == ok \in BOOLEAN /\ restart \in BOOLEAN /\ broken \in BOOLEAN

TypeOK == ServiceType /\ FileType /\ AgentType /\ HistoryType /\ FlagType

Init ==
    /\ at = "ready" /\ mark = 0 /\ version = Shipped /\ zone = None
    /\ conf = [s \in Settings |-> None] /\ sending = {}
    /\ receiving = [n \in Names |-> 0]
    /\ files = [n \in Names |-> Absent] /\ queue = {} /\ result = NoOutcome /\ seen = 0
    /\ pc = "idle" /\ todo = {} /\ job = NoJob /\ pkg = Absent
    /\ ok = FALSE /\ restart = FALSE
    /\ installed = Shipped /\ system = [s \in Settings |-> None]
    /\ stamps = {} /\ reports = [j \in Stamps |-> 0] /\ unmarked = {}
    /\ lost = {} /\ unwritten = {} /\ broken = FALSE /\ crashes = 0
    /\ checked = [j \in Stamps |-> Absent] /\ rewritten = {}

-----------------------------------------------------------------------------
(* The service. *)

\* Stamps a new job may get: the next one, unless the clock was set back.
FreeStamps == {i \in Stamps \ stamps : ClockSteps \/ \A k \in Stamps \ stamps : i <= k}

\* _enqueue_agent: written beside the queue and renamed into it, so that the agent
\* never sees half a job.
Enqueue(id, kind, arg) ==
    /\ queue' = queue \cup {[id |-> id, kind |-> kind, arg |-> arg]}
    /\ stamps' = stamps \cup {id}

\* api_set_config hands over what was set to something else; api_config_import what
\* is set at all.  The configuration is saved and in use before either.
Configure(new, wanted) ==
    /\ at = "ready"
    /\ Cardinality(wanted) <= Cardinality(Stamps \ stamps)
    /\ conf' = new
    /\ sending' = wanted
    /\ at' = IF wanted = {} THEN "ready" ELSE "sending"
    /\ UNCHANGED <<mark, loaded, receiving, shared, agent, target, history>>
SaveConfig(new) ==
    new # conf /\ Configure(new, {s \in Settings : new[s] # None /\ new[s] # conf[s]})
ImportConfig(new) == Configure(new, {s \in Settings : new[s] # None})

\* The NTP server is handed over before the time zone.
Foremost(s) == s \in sending /\ (s = "tz" => "ntp" \notin sending)

HandOver ==
    /\ at = "sending"
    /\ \E s \in Settings, id \in FreeStamps :
         /\ Foremost(s)
         /\ Enqueue(id, s, conf[s])
         /\ sending' = sending \ {s}
         /\ lost' = lost \ {s}
         /\ at' = IF sending = {s} THEN "ready" ELSE "sending"
    /\ UNCHANGED <<mark, loaded, conf, receiving, files, result, seen, agent, target,
                   reports, unmarked, unwritten, packages, broken, crashes>>

\* The queue cannot be written: the save stands, and neither this setting nor the
\* next is handed over.
HandOverFails ==
    /\ at = "sending" /\ "send" \in Faults
    /\ sending' = {}
    /\ lost' = lost \cup sending
    /\ at' = "ready"
    /\ UNCHANGED <<mark, loaded, conf, receiving, shared, agent, target, stamps, reports,
                   unmarked, unwritten, packages, broken, crashes>>

\* The updates in the queue whose package has this name, which is written to.
Rewrite(n) ==
    rewritten' = rewritten \cup {j.id : j \in {k \in queue : k.kind = "update" /\ k.arg = n}}

\* api_update_upload opens the file for writing, which empties it, and awaits every
\* chunk; nothing keeps two requests from the same file, or from that of a queued job.
BeginUpload(n) ==
    /\ at = "ready" /\ receiving[n] < MaxUploads
    /\ receiving' = [receiving EXCEPT ![n] = @ + 1]
    /\ files' = [files EXCEPT ![n] = Cut]
    /\ Rewrite(n)
    /\ UNCHANGED <<at, mark, loaded, conf, sending, queue, result, seen, agent, target,
                   stamps, reports, unmarked, lost, unwritten, checked, broken, crashes>>

\* A chunk, into the file of another request that was checked in the meantime.
ReceiveChunk(n) ==
    /\ at = "ready" /\ receiving[n] > 0 /\ files[n] \in Packages
    /\ files' = [files EXCEPT ![n] = Cut]
    /\ Rewrite(n)
    /\ UNCHANGED <<at, mark, loaded, request, queue, result, seen, agent, target, stamps,
                   reports, unmarked, lost, unwritten, checked, broken, crashes>>

\* MUTANT of Inspected: whatever was received stays and is queued.
TakenAsItIs(n, content) ==
    /\ files' = [files EXCEPT ![n] = content]
    /\ \E id \in FreeStamps : Enqueue(id, "update", n)
    /\ UNCHANGED checked

\* The check of what the file holds now.  What is not one of ours is removed and refused.
Inspected(n, content) ==
    \/ /\ content = Foreign
       /\ files' = [files EXCEPT ![n] = Absent]
       /\ UNCHANGED <<queue, stamps, checked>>
    \/ /\ content \in Packages /\ files[n] # Absent
       /\ files' = [files EXCEPT ![n] = content]
       /\ \/ \E id \in FreeStamps :
               Enqueue(id, "update", n) /\ checked' = [checked EXCEPT ![id] = content]
          \/ "send" \in Faults /\ UNCHANGED <<queue, stamps, checked>>

\* The last chunk, and everything after it without an await.
FinishUpload(n, content) ==
    /\ at = "ready" /\ receiving[n] > 0
    /\ receiving' = [receiving EXCEPT ![n] = @ - 1]
    /\ Rewrite(n)
    /\ Inspected(n, content)
    /\ UNCHANGED <<at, mark, loaded, conf, sending, result, seen, agent, target, reports,
                   unmarked, lost, unwritten, broken, crashes>>

\* The browser goes away in the middle.
AbortUpload(n) ==
    /\ at = "ready" /\ receiving[n] > 0
    /\ receiving' = [receiving EXCEPT ![n] = @ - 1]
    /\ UNCHANGED <<at, mark, loaded, conf, sending, shared, agent, target, history>>

\* MUTANT of IsNews: the outcome a restart follows is always logged at the start.
NewsAtStart == result.whole /\ (at = "starting" \/ result.job # seen)

\* An outcome that is not marked as seen.
IsNews == result.whole /\ result.job # seen

\* _ingest_agent_result, at the start and from the update page: news is logged ...
LogResult ==
    /\ at \in {"starting", "ready"}
    /\ IsNews
    /\ reports' = [reports EXCEPT ![result.job] = IF @ = 0 THEN 1 ELSE 2]
    /\ at' = "marking"
    /\ mark' = result.job
    /\ UNCHANGED <<loaded, request, shared, agent, target, stamps, unmarked, lost, unwritten,
                   packages, broken, crashes>>

NothingToLog ==
    /\ at = "starting" /\ ~IsNews
    /\ at' = "ready"
    /\ UNCHANGED <<mark, loaded, request, shared, agent, target, history>>

\* ... and then marked, which may fail.
MarkSeen ==
    /\ at = "marking"
    /\ \/ seen' = mark /\ UNCHANGED unmarked
       \/ "mark" \in Faults /\ unmarked' = unmarked \cup {mark} /\ UNCHANGED seen
    /\ at' = "ready"
    /\ mark' = 0
    /\ UNCHANGED <<loaded, request, files, queue, result, agent, target, stamps, reports,
                   lost, unwritten, packages, broken, crashes>>

\* The end of the service's process, with what it was doing.
StopService ==
    /\ at' = "down"
    /\ mark' = 0
    /\ sending' = {}
    /\ receiving' = [n \in Names |-> 0]
    /\ lost' = lost \cup sending
    /\ unmarked' = IF at = "marking" THEN unmarked \cup {mark} ELSE unmarked

CrashService ==
    /\ at # "down"
    /\ StopService
    /\ UNCHANGED <<loaded, conf, shared, agent, target, stamps, reports, unwritten, packages,
                   broken, crashes>>

\* Restart=always.  An application directory that was not written to the end does not
\* start.
StartService ==
    /\ at = "down" /\ installed # Cut
    /\ at' = "starting"
    /\ version' = installed
    /\ zone' = system["tz"]
    /\ UNCHANGED <<mark, request, shared, agent, target, history>>

-----------------------------------------------------------------------------
(* The agent. *)

\* The agent's process ends.
EndOfRun ==
    /\ pc' = "idle" /\ todo' = {} /\ job' = NoJob /\ pkg' = Absent
    /\ ok' = FALSE /\ restart' = FALSE

\* The outcome is known: the shell empties result.json before the interpreter that
\* writes it has started.
Conclude(good) ==
    /\ pc' = "write"
    /\ ok' = good
    /\ result' = NoOutcome

\* The timer fires: the glob lists the queue once.
Wake ==
    /\ pc = "idle" /\ queue # {}
    /\ pc' = "take"
    /\ todo' = queue
    /\ UNCHANGED <<service, shared, job, pkg, ok, restart, target, history>>

\* MUTANT of IsNext: the jobs are taken in the order the directory lists them.
IsAnywhere(j) == j \in todo

IsNext(j) == j \in todo /\ \A k \in todo : j.id <= k.id

FirstStep(j) == IF j.kind = "update" THEN "unpack" ELSE "set"

\* MUTANT of TakeJob: a job leaves the queue when it is taken.
TakeJobOff ==
    /\ pc = "take"
    /\ \E j \in todo : IsNext(j) /\ job' = j /\ pc' = FirstStep(j) /\ queue' = queue \ {j}
    /\ UNCHANGED <<service, files, result, seen, todo, pkg, ok, restart, target, history>>

\* MUTANT of TakeJob: whether a restart is due is a matter of each job.
TakeJobAnew ==
    /\ pc = "take"
    /\ \E j \in todo : IsNext(j) /\ job' = j /\ pc' = FirstStep(j)
    /\ restart' = FALSE
    /\ UNCHANGED <<service, shared, todo, pkg, ok, target, history>>

TakeJob ==
    /\ pc = "take"
    /\ \E j \in todo : IsNext(j) /\ job' = j /\ pc' = FirstStep(j)
    /\ UNCHANGED <<service, shared, todo, pkg, ok, restart, target, history>>

\* The archive can be read: half of one may, if it is not compressed.
Unpackable(content) == content \in Packages \/ ("partial" \in Faults /\ content = Cut)

\* do_update.  The package is looked for and unpacked aside, and only then does it
\* replace the application directory.
Unpack ==
    /\ pc = "unpack"
    /\ \/ /\ Unpackable(files[job.arg])
          /\ pc' = "copy"
          /\ pkg' = files[job.arg]
          /\ installed' = Cut
          /\ UNCHANGED <<ok, result>>
          /\ UNCHANGED broken
       \/ /\ files[job.arg] \notin Packages
          /\ Conclude(FALSE)
          /\ broken' = (broken \/ (installed = Cut /\ job.id \in rewritten))
          /\ UNCHANGED <<pkg, installed>>
    /\ UNCHANGED <<service, files, queue, seen, todo, job, restart, system, stamps, reports,
                   unmarked, lost, unwritten, packages, crashes>>

\* The copy comes from the unpacked package, whatever has become of the file.
Copy ==
    /\ pc = "copy"
    /\ \/ /\ pc' = "pip"
          /\ installed' = pkg
          /\ broken' = (pkg = Cut)
          /\ UNCHANGED <<ok, result>>
       \/ /\ "copy" \in Faults
          /\ Conclude(FALSE)
          /\ broken' = TRUE
          /\ UNCHANGED installed
    /\ UNCHANGED <<service, files, queue, seen, todo, job, pkg, restart, system, stamps,
                   reports, unmarked, lost, unwritten, packages, crashes>>

Pip ==
    /\ pc = "pip"
    /\ \/ /\ Conclude(TRUE)
          /\ files' = [files EXCEPT ![job.arg] = Absent]
          /\ restart' = TRUE
       \/ /\ "pip" \in Faults
          /\ Conclude(FALSE)
          /\ UNCHANGED <<files, restart>>
    /\ UNCHANGED <<service, queue, seen, todo, job, pkg, target, history>>

\* do_set_ntp, do_set_timezone.
Accepted(j) == j.kind = "tz" => j.arg \notin Unknown

\* The file is written, or it is not and holds what it did or nothing; nobody asks.
Write(j) ==
    \/ /\ system' = [system EXCEPT ![j.kind] = j.arg]
       /\ unwritten' = unwritten \ {j.kind}
    \/ /\ "set" \in Faults
       /\ \E left \in {system[j.kind], None} : system' = [system EXCEPT ![j.kind] = left]
       /\ unwritten' = unwritten \cup {j.kind}

\* Only the time zone asks for a restart.
Set ==
    /\ pc = "set"
    /\ Conclude(Accepted(job))
    /\ IF Accepted(job) THEN Write(job) ELSE UNCHANGED <<system, unwritten>>
    /\ restart' = (restart \/ (Accepted(job) /\ job.kind = "tz"))
    /\ UNCHANGED <<service, files, queue, seen, todo, job, pkg, installed, stamps, reports,
                   unmarked, lost, packages, broken, crashes>>

WriteResult ==
    /\ pc = "write"
    /\ pc' = "remove"
    /\ result' = [job |-> job.id, ok |-> ok, whole |-> TRUE]
    /\ UNCHANGED <<service, files, queue, seen, work, target, history>>

\* The job file goes last, whatever came of the job.
RemoveJob ==
    /\ pc = "remove"
    /\ pc' = "take"
    /\ queue' = queue \ {job}
    /\ todo' = todo \ {job}
    /\ job' = NoJob /\ pkg' = Absent /\ ok' = FALSE
    /\ checked' = [checked EXCEPT ![job.id] = Absent]
    /\ rewritten' = rewritten \ {job.id}
    /\ UNCHANGED <<service, files, result, seen, restart, target, stamps, reports, unmarked,
                   lost, unwritten, broken, crashes>>

\* The list is worked off.  A restart stops the service; its start is StartService.
Finish ==
    /\ pc = "take" /\ todo = {}
    /\ EndOfRun
    /\ \/ restart /\ StopService
       \/ ~restart /\ UNCHANGED <<at, mark, sending, receiving, lost, unmarked>>
    /\ UNCHANGED <<loaded, conf, shared, target, stamps, reports, unwritten, packages, broken,
                   crashes>>

CrashAgent ==
    /\ pc # "idle" /\ crashes < MaxCrashes
    /\ EndOfRun
    /\ crashes' = crashes + 1
    /\ UNCHANGED <<service, shared, target, stamps, reports, unmarked, lost, unwritten, packages,
                   broken>>

-----------------------------------------------------------------------------
ServiceStep ==
    \/ \E new \in Configs : SaveConfig(new) \/ ImportConfig(new)
    \/ HandOver \/ HandOverFails
    \/ \E n \in Names : BeginUpload(n) \/ ReceiveChunk(n) \/ AbortUpload(n)
    \/ \E n \in Names, c \in Packages \cup {Foreign} : FinishUpload(n, c)
    \/ LogResult \/ NothingToLog \/ MarkSeen
    \/ CrashService \/ StartService

AgentStep ==
    TakeJob \/ Unpack \/ Copy \/ Pip \/ Set \/ WriteResult \/ RemoveJob \/ Finish

Next == ServiceStep \/ Wake \/ AgentStep \/ CrashAgent

Spec == Init /\ [][Next]_vars

\* The timer fires every 20 seconds and the agent's commands end; systemd restarts the
\* service, whose start awaits nothing before the outcome is logged.
Fairness ==
    /\ WF_vars(Wake) /\ WF_vars(AgentStep)
    /\ WF_vars(StartService) /\ WF_vars(LogResult /\ at = "starting")
    /\ WF_vars(NothingToLog)
FairSpec == Spec /\ Fairness

-----------------------------------------------------------------------------
(* Properties. *)

\* A setting none of whose jobs is queued is in force as it is configured: the order of
\* the job names is that of the saves, and no death of the agent brings an older value
\* back.  Exempt are values that were never handed over, time zones the system does not
\* have, and a value the agent could not write (main.py:577-588, agent.sh:178-232).
SettingsInForce ==
    \A s \in Settings :
        (/\ conf[s] # None /\ ~(s = "tz" /\ conf[s] \in Unknown)
         /\ s \notin lost \cup sending \cup unwritten
         /\ \A j \in queue : j.kind # s)
        => system[s] = conf[s]

\* What the agent unpacks for a job as root is the package the service checked when it
\* queued the job, unless it is missing or was written to again since: never a refused
\* archive, never another request's, never one whose request ended in the middle
\* (main.py:196-203, 1226-1281).
OnlyCheckedIsUnpacked ==
    (pc = "unpack" /\ job.id \notin rewritten) =>
        files[job.arg] \in {checked[job.id], Absent}

\* What main.py:196-203 has of every upload: broken or unrelated, it never reaches the root
\* path at all.
BrokenNeverReachesRoot == pc = "unpack" => files[job.arg] \in Packages \cup {Absent}

\* An outcome is logged once, although the service may be restarted by the very job, and
\* the job carried out again after a death of the agent; except when the mark could not
\* be written (main.py:231-260).
ReportedOnce == \A j \in Stamps : reports[j] = 2 => j \in unmarked

\* A service that is down comes up again: an update the agent died in the middle of
\* is carried out again, because its package and its job are still there; except after an
\* error of the copy itself, or when an upload of the same name took the package away or
\* was copied half received (agent.sh:132-175, 231).
ServiceComesBack == (at = "down") ~> (at # "down" \/ broken)

\* What asked for a restart gets it: the process runs what is installed and has the time
\* zone in force, unless the agent died first (agent.sh:234-238).
RestartFollows ==
    \A k \in 0..MaxCrashes :
        (restart /\ crashes = k)
        ~> (\/ at # "down" /\ version = installed /\ zone = system["tz"]
            \/ crashes > k \/ broken)
=============================================================================
