---------------------------- MODULE Maintenance ----------------------------
(***************************************************************************)
(* Holding the automation, letting it go, and restarting a gate between    *)
(* two runs. The parties:                                                  *)
(*   - the STOP script, which pauses the control plane, takes the timers   *)
(*     and services down, and then looks, one thing after the other,       *)
(*     whether everything has come to rest;                                *)
(*   - the RESUME script, which looks for active rows, resumes, rearms,    *)
(*     and looks again;                                                    *)
(*   - the DESK: an operator at the dashboard who pauses and resumes; the  *)
(*     endpoints behind it stop and rearm timers themselves;               *)
(*   - systemd, whose timers start the services of the automation;         *)
(*   - request THREADS of the control plane: dispatches, asked for by a    *)
(*     service or, past the hold, by an operator. Killing the service that *)
(*     asked does not stop the thread that answers;                        *)
(*   - the WATCH, which restarts the gate of one worker once nothing seems *)
(*     to live there.                                                      *)
(* A dispatch is what the ledger and the gate make of it, in few steps.    *)
(***************************************************************************)
CONSTANTS
    Units,        \* timers and their services, as the endpoints list them
    StopList,     \* the units of enoch-maintenance-stop.sh
    ResumeList,   \* the units of enoch-maintenance-resume.sh
    OptionalList, \* those it rearms when asked to (ENABLE_PAPER_DRAFT)
    Dispatching,  \* units whose service asks for dispatches
    Threads,      \* request threads that dispatch
    Hosts,        \* workers
    HostOf,       \* the worker a thread's candidate goes to
    WatchedHost,  \* the worker whose gate is to be restarted
    Regimes       \* instance: the sets of AllHazards a behaviour may be exposed to

(***************************************************************************)
(*  stop, resume the scripts are run                                       *)
(*  desk         an operator pauses and resumes at the dashboard           *)
(*  override     dispatches with override_hold_action                      *)
(*  giveup       the worker starts a run whose POST has been given up on   *)
(*  stranded     a record stays live once its run has been reported        *)
(*  systemctl    units a systemctl call does not get to (its exit status   *)
(*               is discarded by the scripts)                              *)
(*  unreachable  a worker does not answer ssh                              *)
(*  abort        a script ends early: an API call fails, or its terminal   *)
(*  watch        the gate of WatchedHost is to be restarted                *)
(***************************************************************************)
AllHazards ==
    {"stop", "resume", "desk", "override", "giveup", "stranded", "systemctl", "unreachable",
     "abort", "watch"}

ASSUME UnitsAssumption ==
    /\ StopList \subseteq Units /\ ResumeList \subseteq Units
    /\ OptionalList \subseteq Units /\ Dispatching \subseteq Units
ASSUME HostsAssumption == HostOf \in [Threads -> Hosts] /\ WatchedHost \in Hosts
ASSUME RegimesAssumption == Regimes \subseteq SUBSET AllHazards

Hold == {"queue_paused", "maintenance_mode"}

\* A dispatch: admitted (flags read), claimed, spawned (process, no record),
\* recorded (both), exited (record only); releasing when it has failed, stranded
\* when its record outlives its report. Its row is active from the claim to the
\* end, or until the POST is given up on.
JobSteps ==
    {"free", "admitted", "claimed", "spawned", "recorded", "exited", "releasing",
     "stranded"}
Job == [step : JobSteps, override : BOOLEAN, row : BOOLEAN]
NoJob == [step |-> "free", override |-> FALSE, row |-> FALSE]

Operators == {"stop", "resume", "desk"}
Scripts == {"stop", "resume"}
Pausing == {"holding", "stopped", "sweeping"}
Rearming == {"arming", "restarting", "kicking"}
Looking == {"status", "rows", "enabled", "active", "workers"}
Resting == {"idle", "clean", "failed"}

VARIABLES
    exposed,    \* the hazards of this behaviour (never changes)
    flags,      \* the control_flags that are set
    enabled,    \* timers systemd starts at boot
    active,     \* timers that are running
    serving,    \* services that are running
    job,        \* the dispatch of each thread
    at,         \* the step each operator has reached
    sound,      \* nothing a script has looked at so far was wrong
    left,       \* workers the stop script has still to look at
    watch,      \* the watch: off, waiting, fetched, safe, done
    unseen,     \* history: dispatches that had nothing to show yet when the
                \* stop script looked: no row, or no process after a giveup
    undisturbed \* history: since a script read the flags nobody has been
                \* moving the other way

units == <<enabled, active, serving>>
scripts == <<sound, left>>
history == <<unseen, undisturbed>>
vars == <<exposed, flags, enabled, active, serving, job, at, sound, left, watch,
          unseen, undisturbed>>

TypeOK ==
    /\ exposed \subseteq AllHazards
    /\ flags \subseteq Hold
    /\ enabled \subseteq Units /\ active \subseteq Units /\ serving \subseteq Units
    /\ job \in [Threads -> Job]
    /\ at \in [Operators -> Pausing \cup Rearming \cup Looking \cup Resting \cup {"checked"}]
    /\ sound \in [Scripts -> BOOLEAN]
    /\ left \subseteq Hosts
    /\ watch \in {"off", "waiting", "fetched", "safe", "done"}
    /\ unseen \subseteq Threads
    /\ undisturbed \in [Scripts -> BOOLEAN]

Init ==
    /\ exposed \in Regimes
    /\ flags = {}
    /\ enabled = Units /\ active = Units /\ serving = {}
    /\ job = [t \in Threads |-> NoJob]
    /\ at = [o \in Operators |-> "idle"]
    /\ sound = [s \in Scripts |-> FALSE]
    /\ left = {}
    /\ watch = "off"
    /\ unseen = {}
    /\ undisturbed = [s \in Scripts |-> FALSE]
-----------------------------------------------------------------------------
(***************************************************************************)
(* Dispatches                                                              *)
(***************************************************************************)
\* queue_items in an active status, and codex processes on the worker.
RowActive(t) == job[t].row
ProcessOf(t) == job[t].step \in {"spawned", "recorded"}
LiveInGate(t) == job[t].step \in {"recorded", "exited", "stranded"}

RunsOn(h) == {t \in Threads : HostOf[t] = h}
LaneFree(h) == \A t \in RunsOn(h) : ~RowActive(t)

Advance(t, from, to) ==
    /\ job[t].step = from
    /\ job' = [job EXCEPT ![t].step = to]

\* A thread that has answered is free for another request.
Answer(t) ==
    /\ job' = [job EXCEPT ![t] = NoJob]
    /\ unseen' = unseen \ {t}

JobOnly == UNCHANGED <<exposed, flags, units, at, scripts, watch, history>>

\* Faulty variant: a pause is left to the selection of the next candidate.
MaintenanceAllows(override) == override \/ "maintenance_mode" \notin flags

\* _assert_live_dispatch_preconditions: maintenance_mode and queue_paused, once.
HoldsAllow(override) == override \/ flags = {}

Admit(t) ==
    \E override \in BOOLEAN :
        /\ job[t] = NoJob
        /\ IF override THEN "override" \in exposed ELSE serving \cap Dispatching # {}
        /\ HoldsAllow(override)
        /\ job' = [job EXCEPT ![t] = [NoJob EXCEPT !.step = "admitted", !.override = override]]
        /\ JobOnly

Claim(t) ==
    /\ LaneFree(HostOf[t])
    /\ job[t].step = "admitted"
    /\ job' = [job EXCEPT ![t].step = "claimed", ![t].row = TRUE]
    /\ JobOnly

\* 409, nothing written.
ClaimRefused(t) ==
    /\ job[t].step = "admitted" /\ ~LaneFree(HostOf[t])
    /\ Answer(t)
    /\ UNCHANGED <<exposed, flags, units, at, scripts, watch, undisturbed>>

\* Preflight, preparation or the POST itself fails.
DispatchFails(t) == Advance(t, "claimed", "releasing") /\ JobOnly

\* The POST times out and the row is released; the worker goes on.
GiveUp(t) ==
    /\ "giveup" \in exposed
    /\ job[t].step \in {"claimed", "spawned", "recorded"} /\ RowActive(t)
    /\ job' = [job EXCEPT ![t].row = FALSE]
    /\ JobOnly

Release(t) ==
    /\ job[t].step = "releasing"
    /\ Answer(t)
    /\ UNCHANGED <<exposed, flags, units, at, scripts, watch, undisturbed>>

\* The gate starts the runner, then writes its record.
SpawnRun(t) == Advance(t, "claimed", "spawned") /\ JobOnly
PersistRunRecord(t) == Advance(t, "spawned", "recorded") /\ JobOnly
RunEnds(t) == Advance(t, "recorded", "exited") /\ JobOnly

\* The callback is delivered: the row is settled, the record no longer live.
Settle(t) ==
    /\ job[t].step = "exited"
    /\ Answer(t)
    /\ UNCHANGED <<exposed, flags, units, at, scripts, watch, undisturbed>>

\* The control plane has the callback, but the gate is not told, and every retry
\* carries another payload and is refused: the record stays ready and live.
Strand(t) ==
    /\ "stranded" \in exposed
    /\ job[t].step = "exited"
    /\ job' = [job EXCEPT ![t].step = "stranded", ![t].row = FALSE]
    /\ JobOnly

\* Only a newer record of the same project makes the gate overlook it.
Supersede(t) ==
    /\ job[t].step = "stranded"
    /\ \E u \in RunsOn(HostOf[t]) : job[u].step = "recorded"
    /\ Answer(t)
    /\ UNCHANGED <<exposed, flags, units, at, scripts, watch, undisturbed>>

JobStep(t) ==
    \/ Claim(t) \/ ClaimRefused(t) \/ DispatchFails(t) \/ Release(t)
    \/ SpawnRun(t) \/ PersistRunRecord(t) \/ RunEnds(t) \/ Settle(t) \/ Strand(t)
-----------------------------------------------------------------------------
(***************************************************************************)
(* systemd (external)                                                      *)
(***************************************************************************)
TimerFires ==
    \E u \in active \ serving :
        /\ serving' = serving \cup {u}
        /\ UNCHANGED <<exposed, flags, enabled, active, job, at, scripts, watch, history>>

\* Every service looks for a hold first; one that finds it ends at once.
ServiceEnds ==
    \E u \in serving :
        /\ serving' = serving \ {u}
        /\ UNCHANGED <<exposed, flags, enabled, active, job, at, scripts, watch, history>>

\* The units of a call that it gets done.
Done(called) == IF "systemctl" \in exposed THEN SUBSET called ELSE {called}
-----------------------------------------------------------------------------
(***************************************************************************)
(* Pause                                                                   *)
(***************************************************************************)
MoveTo(o, step) == at' = [at EXCEPT ![o] = step]
Starts(o) == at[o] \in Resting /\ o \in exposed

\* POST /control/pause. The script asks for maintenance mode, the desk may not.
StorePause(o) ==
    /\ Starts(o)
    /\ flags' \in IF o = "desk" THEN {Hold, {"queue_paused"}} ELSE {Hold}
    /\ MoveTo(o, "holding")
    /\ undisturbed' = [undisturbed EXCEPT !["resume"] = FALSE]
    /\ UNCHANGED <<exposed, units, job, scripts, watch, unseen>>

\* The rest of the handler: systemctl stop, then disable, of every timer.
StopTimers(o) ==
    /\ at[o] = "holding"
    /\ \E done \in Done(Units) : active' = active \ done
    /\ MoveTo(o, "stopped")
    /\ UNCHANGED <<exposed, flags, enabled, serving, job, scripts, watch, history>>

DisableTimers(o) ==
    /\ at[o] = "stopped"
    /\ \E done \in Done(Units) : enabled' = enabled \ done
    /\ MoveTo(o, IF o = "desk" THEN "idle" ELSE "sweeping")
    /\ UNCHANGED <<exposed, flags, active, serving, job, scripts, watch, history>>

\* The script's own systemctl disable --now, services included.
Sweep ==
    /\ at["stop"] = "sweeping"
    /\ \E timers, services \in Done(StopList) :
          /\ enabled' = enabled \ timers
          /\ active' = active \ timers
          /\ serving' = serving \ services
    /\ MoveTo("stop", "status")
    /\ sound' = [sound EXCEPT !["stop"] = TRUE]
    /\ UNCHANGED <<exposed, flags, job, left, watch, history>>
-----------------------------------------------------------------------------
(***************************************************************************)
(* Resume                                                                  *)
(***************************************************************************)
\* Faulty variant: a row counts once its run has been started.
NoneRunning == \A t \in Threads : ~ProcessOf(t)

NoneActive == \A t \in Threads : ~RowActive(t)

\* The script's first look; the desk has none.
CheckActive ==
    /\ Starts("resume")
    /\ MoveTo("resume", IF NoneActive THEN "checked" ELSE "failed")
    /\ UNCHANGED <<exposed, flags, units, job, scripts, watch, history>>

\* POST /control/resume, of which only the desk may ask to keep maintenance
\* mode, and /control/api/maintenance/resume, whose handler goes on to rearm.
StoreResume(o) ==
    /\ IF o = "desk" THEN Starts(o) ELSE at[o] = "checked"
    /\ flags' \in IF o = "desk" THEN {{}, {"maintenance_mode"}} ELSE {{}}
    /\ \E step \in IF o = "desk" THEN {"idle", "arming"} ELSE {"arming"} : MoveTo(o, step)
    /\ undisturbed' = [s \in Scripts |-> s = "resume" /\ undisturbed[s] /\ flags' = {}]
    /\ UNCHANGED <<exposed, units, job, scripts, watch, unseen>>

Rearms(o) == IF o = "desk" THEN Units ELSE ResumeList

\* systemctl enable --now.
EnableTimers(o) ==
    /\ at[o] = "arming"
    /\ \E done \in Done(Rearms(o)) : enabled' = enabled \cup done /\ active' = active \cup done
    /\ MoveTo(o, "restarting")
    /\ UNCHANGED <<exposed, flags, serving, job, scripts, watch, history>>

RestartTimers(o) ==
    /\ at[o] = "restarting"
    /\ \E done \in Done(Rearms(o)) : active' = active \cup done
    /\ MoveTo(o, "kicking")
    /\ UNCHANGED <<exposed, flags, enabled, serving, job, scripts, watch, history>>

\* systemctl start --no-block of the services, and the timer left to choice.
KickServices(o) ==
    /\ at[o] = "kicking"
    /\ \E done \in Done(Rearms(o)) : serving' = serving \cup done
    /\ \E optional \in IF o = "resume" THEN {{}, OptionalList} ELSE {{}} :
          enabled' = enabled \cup optional /\ active' = active \cup optional
    /\ MoveTo(o, IF o = "desk" THEN "idle" ELSE "status")
    /\ sound' = IF o = "desk" THEN sound ELSE [sound EXCEPT !["resume"] = TRUE]
    /\ UNCHANGED <<exposed, flags, job, left, watch, history>>
-----------------------------------------------------------------------------
(***************************************************************************)
(* What the scripts look at before they report                             *)
(***************************************************************************)
Finds(s, good) == sound' = [sound EXCEPT ![s] = @ /\ good]

\* Operators in the middle of what would undo what the script has done.
Against(s) ==
    {o \in Operators : at[o] \in IF s = "stop" THEN Rearming ELSE Pausing}

\* GET /control/api/status reads the flags, then the rows, of which the resume
\* script only prints the count.
ReadFlags(s) ==
    /\ at[s] = "status"
    /\ Finds(s, flags = IF s = "stop" THEN Hold ELSE {})
    /\ MoveTo(s, IF s = "stop" THEN "rows" ELSE "enabled")
    /\ undisturbed' = [undisturbed EXCEPT ![s] = Against(s) = {}]
    /\ UNCHANGED <<exposed, flags, units, job, left, watch, unseen>>

ReadRows ==
    /\ at["stop"] = "rows"
    /\ Finds("stop", NoneActive)
    /\ MoveTo("stop", "enabled")
    /\ unseen' = {t \in Threads : job[t].step = "admitted"}
    /\ UNCHANGED <<exposed, flags, units, job, left, watch, undisturbed>>

\* Faulty variant: the resume script trusts that its systemctl calls worked.
TimersDownOnly(s, timers) == s = "stop" => StopList \cap timers = {}

\* systemctl is-enabled, is-active, of the timers in the script's list.
TimersGood(s, timers) ==
    IF s = "stop" THEN StopList \cap timers = {} ELSE ResumeList \subseteq timers

ReadEnabled(s) ==
    /\ at[s] = "enabled"
    /\ Finds(s, TimersGood(s, enabled))
    /\ MoveTo(s, "active")
    /\ UNCHANGED <<exposed, flags, units, job, left, watch, history>>

Report(s, good) == IF sound[s] /\ good THEN "clean" ELSE "failed"

\* The last look of the resume script; the stop script goes on to the workers.
ReadActive(s) ==
    /\ at[s] = "active"
    /\ Finds(s, TimersGood(s, active))
    /\ MoveTo(s, IF s = "stop" THEN "workers" ELSE Report(s, TimersGood(s, active)))
    /\ left' = IF s = "stop" THEN Hosts ELSE left
    /\ UNCHANGED <<exposed, flags, units, job, watch, history>>

\* pgrep by ssh, worker after worker.
CheckWorker ==
    /\ at["stop"] = "workers"
    /\ \E h \in left, reached \in BOOLEAN :
          /\ ~reached => "unreachable" \in exposed
          /\ Finds("stop", reached /\ \A t \in RunsOn(h) : ~ProcessOf(t))
          /\ left' = left \ {h}
          /\ unseen' = unseen \cup {t \in RunsOn(h) : job[t].step = "claimed" /\ ~RowActive(t)}
    /\ UNCHANGED <<exposed, flags, units, job, at, watch, undisturbed>>

ReportStop ==
    /\ at["stop"] = "workers" /\ left = {}
    /\ MoveTo("stop", Report("stop", TRUE))
    /\ UNCHANGED <<exposed, flags, units, job, scripts, watch, history>>

\* The scripts run under set -e.
Abort(s) ==
    /\ "abort" \in exposed
    /\ at[s] \notin Resting \cup {"holding", "stopped"}
    /\ MoveTo(s, "failed")
    /\ UNCHANGED <<exposed, flags, units, job, scripts, watch, history>>
-----------------------------------------------------------------------------
(***************************************************************************)
(* The watch on the gate of one worker                                     *)
(***************************************************************************)
Watched == RunsOn(WatchedHost)
WatchOnly == UNCHANGED <<exposed, flags, units, at, scripts, history>>

StartWatch ==
    /\ "watch" \in exposed /\ watch = "off"
    /\ watch' = "waiting"
    /\ WatchOnly /\ UNCHANGED job

\* A probe reads the dashboard of the gate, then the process table. An unsafe
\* dashboard leaves the watch waiting, which is no step here.
FetchDashboard ==
    /\ watch = "waiting"
    /\ \A t \in Watched : ~LiveInGate(t)
    /\ watch' = "fetched"
    /\ WatchOnly /\ UNCHANGED job

ListProcesses ==
    /\ watch = "fetched"
    /\ watch' = IF \E t \in Watched : ProcessOf(t) THEN "waiting" ELSE "safe"
    /\ WatchOnly /\ UNCHANGED job

\* The service is stopped with its control group: runs end, and a dispatch that
\* was not recorded yet fails.
KilledBy(t) ==
    CASE t \notin Watched -> job[t]
      [] job[t].step = "spawned" -> [job[t] EXCEPT !.step = "releasing"]
      [] job[t].step = "recorded" -> [job[t] EXCEPT !.step = "exited"]
      [] OTHER -> job[t]

RestartService ==
    /\ watch = "safe"
    /\ watch' = "done"
    /\ job' = [t \in Threads |-> KilledBy(t)]
    /\ WatchOnly
-----------------------------------------------------------------------------
Dispatch == \E t \in Threads : Admit(t) \/ GiveUp(t) \/ Supersede(t) \/ JobStep(t)
Systemd == TimerFires \/ ServiceEnds

Pause == Sweep \/ \E o \in {"stop", "desk"} : StorePause(o) \/ StopTimers(o) \/ DisableTimers(o)
Resume ==
    \/ CheckActive
    \/ \E o \in {"resume", "desk"} :
          StoreResume(o) \/ EnableTimers(o) \/ RestartTimers(o) \/ KickServices(o)

Look ==
    \/ ReadRows \/ CheckWorker \/ ReportStop
    \/ \E s \in Scripts : ReadFlags(s) \/ ReadEnabled(s) \/ ReadActive(s) \/ Abort(s)

Watch == StartWatch \/ FetchDashboard \/ ListProcesses \/ RestartService

Next == Dispatch \/ Systemd \/ Pause \/ Resume \/ Look \/ Watch

\* A dispatch goes on until it has answered and its run has ended: calls have
\* time limits, agents too, and WorkerGate and CallbackOutbox report the end. That
\* its record is then no longer live is not assumed where records are stranded.
\* The watch polls for ever.
Fairness ==
    /\ \A t \in Threads : WF_vars(JobStep(t))
    /\ WF_vars(FetchDashboard \/ ListProcesses \/ RestartService)

Spec == Init /\ [][Next]_vars /\ Fairness
-----------------------------------------------------------------------------
(***************************************************************************)
(* Properties                                                              *)
(***************************************************************************)
\* What the stop script reports holds until somebody resumes: no row is active
\* and no process runs, except those of operators' overrides and of dispatches
\* that could not be seen: past the hold but without a row when it read the rows,
\* or given up on but not yet started when it looked at their worker; and the
\* timers it names are down. The pause, the sweep and the looks are separate
\* steps that dispatches and operators run between
\* (scripts/enoch-maintenance-stop.sh).
StopIsQuiet ==
    at["stop"] = "clean" /\ undisturbed["stop"] =>
        /\ \A t \in Threads :
              RowActive(t) \/ ProcessOf(t) => t \in unseen \/ job[t].override
        /\ StopList \cap (enabled \cup active) = {}

\* What the resume script reports holds until somebody pauses or keeps a hold:
\* the hold is gone and its timers are back, although it ignores what its
\* systemctl calls return (scripts/enoch-maintenance-resume.sh).
ResumeIsArmed ==
    at["resume"] = "clean" /\ undisturbed["resume"] =>
        flags = {} /\ ResumeList \subseteq (enabled \cap active)

\* Under a hold that stands the watch gets its restart: what was on its way ends
\* and nothing new begins (deploy/wait_safe_restart_wake_gate.py). Only a stranded
\* record of its worker keeps it waiting, then for ever.
HoldLetsRestart ==
    watch = "waiting" /\ flags # {} /\ "override" \notin exposed
        ~> \/ watch = "done" \/ flags = {}
           \/ \E t \in Watched : job[t].step = "stranded"
=============================================================================
