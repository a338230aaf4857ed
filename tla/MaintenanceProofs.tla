------------------------- MODULE MaintenanceProofs -------------------------
(***************************************************************************)
(* Proofs about Maintenance, for any units, lists, threads and workers and *)
(* under every hazard.                                                     *)
(*                                                                         *)
(* A script's report is the conjunction of looks taken one after another.  *)
(* That it is still true when it is printed, and afterwards, rests on what *)
(* an undisturbed script may assume from its first look on: nobody is in   *)
(* the middle of undoing it, and every dispatch that is not through yet    *)
(* could not be seen, was let past the hold, or has lost its row and its   *)
(* worker is still to be looked at (StopInv); the hold is gone and nobody  *)
(* takes timers down (ResumeInv).                                          *)
(***************************************************************************)
EXTENDS Maintenance, TLAPS

AfterFlags == {"rows", "enabled", "active", "workers", "clean"}
AfterRows == {"enabled", "active", "workers", "clean"}
AfterEnabled == {"active", "workers", "clean"}
AfterActive == {"workers", "clean"}

\* The looks of the stop script so far, and nobody against it.
StopStands == at["stop"] \in AfterFlags /\ undisturbed["stop"] /\ sound["stop"]
ResumeStands == at["resume"] \in AfterFlags /\ undisturbed["resume"] /\ sound["resume"]

\* The script has looked at the worker of this dispatch.
LookedAt(t) == HostOf[t] \notin left /\ at["stop"] \in AfterActive

Idle(t) == job[t].step = "free" /\ ~job[t].row

\* Given up on: no row, and no process to come on a worker that was looked at.
Stray(t) ==
    /\ ~job[t].row /\ job[t].step \notin {"free", "admitted"}
    /\ LookedAt(t) => job[t].step \in {"exited", "releasing", "stranded"}

\* What may be under way: what could not be seen, what was let past the hold,
\* and what is still to be seen.
Slipped(t) == Idle(t) \/ t \in unseen \/ job[t].override \/ Stray(t)

StopInv ==
    /\ at["stop"] = "clean" => sound["stop"] /\ left = {}
    /\ StopStands =>
        /\ flags # {}
        /\ \A o \in Operators : at[o] \notin Rearming
        /\ at["stop"] \in AfterRows => \A t \in Threads : Slipped(t)
        /\ at["stop"] \in AfterEnabled => StopList \cap enabled = {}
        /\ at["stop"] \in AfterActive => StopList \cap active = {}

ResumeInv ==
    /\ at["resume"] = "clean" => sound["resume"]
    /\ at["resume"] \notin {"rows", "workers"}
    /\ ResumeStands =>
        /\ flags = {}
        /\ \A o \in Operators : at[o] \notin Pausing
        /\ at["resume"] \in AfterEnabled => ResumeList \subseteq enabled
        /\ at["resume"] \in AfterActive => ResumeList \subseteq active

IInv == TypeOK /\ StopInv /\ ResumeInv
-----------------------------------------------------------------------------
(* Types *)

USE DEF Operators, Scripts

LEMMA InitTyped == Init => TypeOK
BY RegimesAssumption
DEF Init, TypeOK, Job, JobSteps, NoJob, Pausing, Rearming, Looking, Resting, Hold

Steps == Pausing \cup Rearming \cup Looking \cup Resting \cup {"checked"}

\* What the updates of the variables with structure leave them.
LEMMA JobFacts ==
    /\ NoJob \in Job
    /\ \A j \in Job, to \in JobSteps : [j EXCEPT !.step = to] \in Job
BY DEF Job, JobSteps, NoJob

LEMMA MoveFacts ==
    ASSUME TypeOK, NEW o, NEW step \in Steps, MoveTo(o, step)
    PROVE  at' \in [Operators -> Steps]
BY DEF TypeOK, MoveTo, Steps

LEMMA FindsFacts ==
    ASSUME TypeOK, NEW s \in Scripts, NEW good \in BOOLEAN, Finds(s, good)
    PROVE  sound' \in [Scripts -> BOOLEAN]
BY DEF TypeOK, Finds

LEMMA DoneFacts == \A called : \A done \in Done(called) : done \subseteq called
BY DEF Done

LEMMA AnswerTyped ==
    ASSUME TypeOK, NEW t \in Threads, Answer(t)
    PROVE  job' \in [Threads -> Job] /\ unseen' \subseteq Threads
BY JobFacts DEF TypeOK, Answer

LEMMA AdvanceTyped ==
    ASSUME TypeOK, NEW t \in Threads, NEW from, NEW to \in JobSteps, Advance(t, from, to)
    PROVE  job' \in [Threads -> Job]
BY JobFacts DEF TypeOK, Advance

LEMMA DispatchTyped ==
    ASSUME TypeOK, NEW t \in Threads, Admit(t) \/ GiveUp(t) \/ Supersede(t) \/ JobStep(t)
    PROVE  TypeOK'
<1> USE DEF JobOnly, units, scripts, history
<1>1. CASE Admit(t)
    <2>1. \A override \in BOOLEAN :
              [NoJob EXCEPT !.step = "admitted", !.override = override] \in Job
        BY DEF NoJob, Job, JobSteps
    <2>2. job' \in [Threads -> Job]
        BY <1>1, <2>1 DEF Admit, TypeOK
    <2> QED BY <1>1, <2>2 DEF Admit, TypeOK
<1>2. CASE DispatchFails(t) \/ SpawnRun(t) \/ PersistRunRecord(t) \/ RunEnds(t)
    <2>1. job' \in [Threads -> Job]
        BY <1>2, AdvanceTyped DEF DispatchFails, SpawnRun, PersistRunRecord, RunEnds, JobSteps
    <2> QED
        BY <1>2, <2>1 DEF DispatchFails, SpawnRun, PersistRunRecord, RunEnds, TypeOK
<1>3. CASE ClaimRefused(t) \/ Release(t) \/ Settle(t) \/ Supersede(t)
    <2>1. job' \in [Threads -> Job] /\ unseen' \subseteq Threads
        BY <1>3, AnswerTyped DEF ClaimRefused, Release, Settle, Supersede
    <2> QED BY <1>3, <2>1 DEF ClaimRefused, Release, Settle, Supersede, TypeOK
<1>4. CASE Claim(t) \/ GiveUp(t) \/ Strand(t)
    <2>1. job[t] \in Job
        BY DEF TypeOK
    <2>2. /\ [job[t] EXCEPT !.step = "claimed", !.row = TRUE] \in Job
          /\ [job[t] EXCEPT !.row = FALSE] \in Job
          /\ [job[t] EXCEPT !.step = "stranded", !.row = FALSE] \in Job
        BY <2>1 DEF Job, JobSteps
    <2>3. job' \in [Threads -> Job]
        BY <1>4, <2>2 DEF Claim, GiveUp, Strand, TypeOK
    <2> QED BY <1>4, <2>3 DEF Claim, GiveUp, Strand, TypeOK
<1> QED BY <1>1, <1>2, <1>3, <1>4 DEF JobStep

LEMMA PauseTyped ==
    ASSUME TypeOK, Pause
    PROVE  TypeOK'
<1> USE DEF units, scripts, history
<1>1. CASE Sweep
    <2>1. at' \in [Operators -> Steps]
        BY <1>1, MoveFacts DEF Sweep, Steps, Looking
    <2>2. sound' \in [Scripts -> BOOLEAN]
        BY <1>1 DEF Sweep, TypeOK
    <2>3. enabled' \subseteq Units /\ active' \subseteq Units /\ serving' \subseteq Units
        BY <1>1 DEF Sweep, TypeOK
    <2> QED BY <1>1, <2>1, <2>2, <2>3 DEF Sweep, TypeOK, Steps
<1>2. ASSUME NEW o \in {"stop", "desk"}, StorePause(o)
      PROVE  TypeOK'
    <2>1. at' \in [Operators -> Steps]
        BY <1>2, MoveFacts DEF StorePause, Steps, Pausing
    <2>2. flags' \subseteq Hold /\ undisturbed' \in [Scripts -> BOOLEAN]
        BY <1>2 DEF StorePause, TypeOK, Hold
    <2> QED BY <1>2, <2>1, <2>2 DEF StorePause, TypeOK, Steps
<1>3. ASSUME NEW o \in {"stop", "desk"}, StopTimers(o)
      PROVE  TypeOK'
    <2>1. at' \in [Operators -> Steps]
        BY <1>3, MoveFacts DEF StopTimers, Steps, Pausing
    <2> QED BY <1>3, <2>1 DEF StopTimers, TypeOK, Steps
<1>4. ASSUME NEW o \in {"stop", "desk"}, DisableTimers(o)
      PROVE  TypeOK'
    <2>1. at' \in [Operators -> Steps]
        BY <1>4, MoveFacts DEF DisableTimers, Steps, Pausing, Resting
    <2> QED BY <1>4, <2>1 DEF DisableTimers, TypeOK, Steps
<1> QED BY <1>1, <1>2, <1>3, <1>4 DEF Pause

LEMMA ResumeTyped ==
    ASSUME TypeOK, Resume
    PROVE  TypeOK'
<1> USE DEF units, scripts, history
<1>1. CASE CheckActive
    <2>1. at' \in [Operators -> Steps]
        BY <1>1, MoveFacts DEF CheckActive, Steps, Resting
    <2> QED BY <1>1, <2>1 DEF CheckActive, TypeOK, Steps
<1>2. ASSUME NEW o \in {"resume", "desk"}, StoreResume(o)
      PROVE  TypeOK'
    <2>1. at' \in [Operators -> Steps]
        BY <1>2, MoveFacts DEF StoreResume, Steps, Rearming, Resting
    <2>2. flags' \subseteq Hold
        BY <1>2 DEF StoreResume, Hold
    <2>3. undisturbed' \in [Scripts -> BOOLEAN]
        BY <1>2 DEF StoreResume, TypeOK
    <2> QED BY <1>2, <2>1, <2>2, <2>3 DEF StoreResume, TypeOK, Steps
<1>3. ASSUME NEW o \in {"resume", "desk"}, NEW done \in Done(Rearms(o))
      PROVE  done \subseteq Units
    BY UnitsAssumption, DoneFacts DEF Rearms
<1>4. ASSUME NEW o \in {"resume", "desk"}, EnableTimers(o)
      PROVE  TypeOK'
    <2>1. at' \in [Operators -> Steps]
        BY <1>4, MoveFacts DEF EnableTimers, Steps, Rearming
    <2>2. enabled' \subseteq Units /\ active' \subseteq Units
        BY <1>3, <1>4 DEF EnableTimers, TypeOK
    <2> QED BY <1>4, <2>1, <2>2 DEF EnableTimers, TypeOK, Steps
<1>5. ASSUME NEW o \in {"resume", "desk"}, RestartTimers(o)
      PROVE  TypeOK'
    <2>1. at' \in [Operators -> Steps]
        BY <1>5, MoveFacts DEF RestartTimers, Steps, Rearming
    <2>2. active' \subseteq Units
        BY <1>3, <1>5 DEF RestartTimers, TypeOK
    <2> QED BY <1>5, <2>1, <2>2 DEF RestartTimers, TypeOK, Steps
<1>6. ASSUME NEW o \in {"resume", "desk"}, KickServices(o)
      PROVE  TypeOK'
    <2>1. at' \in [Operators -> Steps]
        BY <1>6, MoveFacts DEF KickServices, Steps, Resting, Looking
    <2>2. enabled' \subseteq Units /\ active' \subseteq Units /\ serving' \subseteq Units
        BY <1>3, <1>6, UnitsAssumption DEF KickServices, TypeOK
    <2>3. sound' \in [Scripts -> BOOLEAN]
        BY <1>6 DEF KickServices, TypeOK
    <2> QED BY <1>6, <2>1, <2>2, <2>3 DEF KickServices, TypeOK, Steps
<1> QED BY <1>1, <1>2, <1>4, <1>5, <1>6 DEF Resume

LEMMA LookTyped ==
    ASSUME TypeOK, Look
    PROVE  TypeOK'
<1> USE DEF units, scripts, history
<1>1. CASE CheckWorker
    <2>1. sound' \in [Scripts -> BOOLEAN]
        BY <1>1, FindsFacts DEF CheckWorker
    <2>2. unseen' \subseteq Threads
        BY <1>1 DEF CheckWorker, RunsOn, TypeOK
    <2> QED BY <1>1, <2>1, <2>2 DEF CheckWorker, TypeOK
<1>2. CASE ReportStop
    <2>1. at' \in [Operators -> Steps]
        BY <1>2, MoveFacts DEF ReportStop, Report, Steps, Resting
    <2> QED BY <1>2, <2>1 DEF ReportStop, TypeOK, Steps
<1>3. ASSUME NEW s \in Scripts, ReadFlags(s)
      PROVE  TypeOK'
    <2>1. at' \in [Operators -> Steps]
        BY <1>3, MoveFacts DEF ReadFlags, Steps, Looking
    <2>2. sound' \in [Scripts -> BOOLEAN]
        BY <1>3, FindsFacts DEF ReadFlags
    <2>3. undisturbed' \in [Scripts -> BOOLEAN]
        BY <1>3 DEF ReadFlags, TypeOK
    <2> QED BY <1>3, <2>1, <2>2, <2>3 DEF ReadFlags, TypeOK, Steps
<1>4. CASE ReadRows
    <2>1. at' \in [Operators -> Steps]
        BY <1>4, MoveFacts DEF ReadRows, Steps, Looking
    <2>2. sound' \in [Scripts -> BOOLEAN]
        BY <1>4, FindsFacts DEF ReadRows, NoneActive
    <2> QED BY <1>4, <2>1, <2>2 DEF ReadRows, TypeOK, Steps
<1>5. ASSUME NEW s \in Scripts, ReadEnabled(s)
      PROVE  TypeOK'
    <2>1. at' \in [Operators -> Steps]
        BY <1>5, MoveFacts DEF ReadEnabled, Steps, Looking
    <2>2. sound' \in [Scripts -> BOOLEAN]
        BY <1>5, FindsFacts DEF ReadEnabled, TimersGood
    <2> QED BY <1>5, <2>1, <2>2 DEF ReadEnabled, TypeOK, Steps
<1>6. ASSUME NEW s \in Scripts, ReadActive(s)
      PROVE  TypeOK'
    <2>1. at' \in [Operators -> Steps]
        BY <1>6, MoveFacts DEF ReadActive, Report, Steps, Looking, Resting
    <2>2. sound' \in [Scripts -> BOOLEAN]
        BY <1>6, FindsFacts DEF ReadActive, TimersGood
    <2> QED BY <1>6, <2>1, <2>2 DEF ReadActive, TypeOK, Steps
<1>7. ASSUME NEW s \in Scripts, Abort(s)
      PROVE  TypeOK'
    <2>1. at' \in [Operators -> Steps]
        BY <1>7, MoveFacts DEF Abort, Steps, Resting
    <2> QED BY <1>7, <2>1 DEF Abort, TypeOK, Steps
<1> QED BY <1>1, <1>2, <1>3, <1>4, <1>5, <1>6, <1>7 DEF Look

LEMMA WatchTyped ==
    ASSUME TypeOK, Watch
    PROVE  TypeOK'
<1> USE DEF TypeOK, WatchOnly, units, scripts, history
<1>1. CASE StartWatch \/ FetchDashboard \/ ListProcesses
    BY <1>1 DEF StartWatch, FetchDashboard, ListProcesses
<1>2. CASE RestartService
    <2>1. \A t \in Threads : KilledBy(t) \in Job
        BY DEF KilledBy, Job, JobSteps
    <2> QED BY <1>2, <2>1 DEF RestartService
<1> QED BY <1>1, <1>2 DEF Watch

LEMMA NextTyped ==
    ASSUME TypeOK, Next
    PROVE  TypeOK'
<1>1. CASE Dispatch
    BY <1>1, DispatchTyped DEF Dispatch
<1>2. CASE Systemd
    BY <1>2 DEF Systemd, TimerFires, ServiceEnds, TypeOK, scripts, history
<1> QED BY <1>1, <1>2, PauseTyped, ResumeTyped, LookTyped, WatchTyped DEF Next

LEMMA StutterTyped == TypeOK /\ UNCHANGED vars => TypeOK'
BY DEF TypeOK, vars, units, scripts, history

\* Every reachable state is typed (all of Maintenance).
THEOREM TypeCorrect == Spec => []TypeOK
<1>1. TypeOK /\ [Next]_vars => TypeOK'
    BY NextTyped, StutterTyped
<1> QED BY <1>1, InitTyped, PTL DEF Spec
-----------------------------------------------------------------------------
(* The report of the stop script *)

\* Jobs go on from where the script has seen them.
LEMMA SlippedStays ==
    ASSUME TypeOK, left' = left, job' = job, unseen' = unseen,
           at'["stop"] \in AfterActive => at["stop"] \in AfterActive
    PROVE  \A t \in Threads : Slipped(t) => Slipped(t)'
BY DEF Slipped, Idle, Stray, LookedAt

LEMMA StopFrame ==
    ASSUME TypeOK, StopInv,
           at' = at, sound' = sound, undisturbed' = undisturbed, flags' = flags,
           enabled' = enabled, active' = active, left' = left,
           StopStands /\ at["stop"] \in AfterRows => \A t \in Threads : Slipped(t)'
    PROVE  StopInv'
BY DEF StopInv, StopStands, TypeOK

LEMMA SlippedKept ==
    ASSUME TypeOK, StopInv, StopStands, at["stop"] \in AfterRows, Dispatch
    PROVE  \A t \in Threads : Slipped(t)'
<1> USE DEF Slipped, Idle, Stray, LookedAt
<1>1. /\ flags # {}
      /\ \A t \in Threads : Slipped(t)
    BY DEF StopInv
<1>2. ASSUME NEW t \in Threads, Admit(t)
      PROVE  \A u \in Threads : Slipped(u)'
    BY <1>1, <1>2 DEF Admit, HoldsAllow, JobOnly, scripts, history, TypeOK, NoJob
<1>3. ASSUME NEW t \in Threads, Claim(t) \/ GiveUp(t) \/ Strand(t)
      PROVE  \A u \in Threads : Slipped(u)'
    BY <1>1, <1>3 DEF Claim, GiveUp, Strand, RowActive, JobOnly, scripts, history, TypeOK, Job
<1>4. ASSUME NEW t \in Threads, NEW from, NEW to, Advance(t, from, to),
             from \notin {"free", "admitted", "exited", "releasing", "stranded"},
             to \notin {"free", "admitted"},
             JobOnly
      PROVE  \A u \in Threads : Slipped(u)'
    BY <1>1, <1>4 DEF Advance, JobOnly, scripts, history, TypeOK, Job
<1>5. ASSUME NEW t \in Threads, Answer(t), at' = at, left' = left
      PROVE  \A u \in Threads : Slipped(u)'
    BY <1>1, <1>5 DEF Answer, TypeOK, NoJob
<1>6. ASSUME NEW t \in Threads, JobStep(t) \/ Supersede(t)
      PROVE  \A u \in Threads : Slipped(u)'
    <2>1. CASE ClaimRefused(t) \/ Release(t) \/ Settle(t) \/ Supersede(t)
        BY <1>5, <2>1 DEF ClaimRefused, Release, Settle, Supersede, scripts
    <2>2. CASE DispatchFails(t) \/ SpawnRun(t) \/ PersistRunRecord(t) \/ RunEnds(t)
        BY <1>4, <2>2 DEF DispatchFails, SpawnRun, PersistRunRecord, RunEnds
    <2> QED BY <1>3, <1>6, <2>1, <2>2 DEF JobStep
<1> QED BY <1>2, <1>3, <1>6 DEF Dispatch

LEMMA StopKeptByDispatch ==
    ASSUME TypeOK, StopInv, Dispatch
    PROVE  StopInv'
<1>1. /\ at' = at /\ sound' = sound /\ undisturbed' = undisturbed /\ flags' = flags
      /\ enabled' = enabled /\ active' = active /\ left' = left
    BY DEF Dispatch, JobStep, Admit, GiveUp, Claim, ClaimRefused, DispatchFails, Release,
           SpawnRun, PersistRunRecord, RunEnds, Settle, Strand, Supersede, JobOnly, units, scripts, history
<1> QED BY <1>1, SlippedKept, StopFrame

LEMMA StopKeptByPause ==
    ASSUME TypeOK, StopInv, Pause
    PROVE  StopInv'
<1> USE SlippedStays DEF StopInv, StopStands, MoveTo, Rearming, AfterFlags, AfterRows,
            AfterEnabled, AfterActive, units, scripts, history
<1>1. CASE Sweep
    <2>1. at'["stop"] = "status"
        BY <1>1 DEF Sweep, TypeOK
    <2> QED BY <2>1
<1>2. ASSUME NEW o \in {"stop", "desk"}, StorePause(o)
      PROVE  StopInv'
    BY <1>2 DEF StorePause, Hold, TypeOK
<1>3. ASSUME NEW o \in {"stop", "desk"}, StopTimers(o)
      PROVE  StopInv'
    BY <1>3 DEF StopTimers, TypeOK
<1>4. ASSUME NEW o \in {"stop", "desk"}, DisableTimers(o)
      PROVE  StopInv'
    BY <1>4 DEF DisableTimers, TypeOK
<1> QED BY <1>1, <1>2, <1>3, <1>4 DEF Pause

LEMMA StopKeptByResume ==
    ASSUME TypeOK, StopInv, Resume
    PROVE  StopInv'
<1> USE DEF TypeOK, StopInv, StopStands, MoveTo, Rearming, AfterFlags, AfterRows,
            AfterEnabled, AfterActive, units, scripts, history
<1>1. CASE CheckActive
    <2>1. \A t \in Threads : Slipped(t) => Slipped(t)'
        BY <1>1, SlippedStays DEF CheckActive
    <2> QED BY <1>1, <2>1 DEF CheckActive
<1>2. ASSUME NEW o \in {"resume", "desk"}, StoreResume(o)
      PROVE  StopInv'
    <2>1. /\ at'["stop"] = at["stop"] /\ sound' = sound /\ undisturbed'["stop"] = FALSE
          /\ left' = left
        BY <1>2 DEF StoreResume
    <2> QED BY <2>1
<1>3. ASSUME NEW o \in {"resume", "desk"}, EnableTimers(o) \/ RestartTimers(o) \/ KickServices(o)
      PROVE  StopInv'
    <2>1. ~StopStands
        BY <1>3 DEF EnableTimers, RestartTimers, KickServices
    <2>2. /\ at'["stop"] = at["stop"] /\ sound'["stop"] = sound["stop"]
          /\ undisturbed' = undisturbed /\ left' = left
        BY <1>3 DEF EnableTimers, RestartTimers, KickServices
    <2> QED BY <2>1, <2>2
<1> QED BY <1>1, <1>2, <1>3 DEF Resume

LEMMA StopKeptByLook ==
    ASSUME TypeOK, StopInv, Look
    PROVE  StopInv'
<1> USE DEF TypeOK, StopInv, StopStands, MoveTo, Rearming, AfterFlags, AfterRows,
            AfterEnabled, AfterActive, units, scripts, history
<1>1. CASE CheckWorker
    <2>1. PICK h \in left, reached \in BOOLEAN :
              /\ Finds("stop", reached /\ \A t \in RunsOn(h) : ~ProcessOf(t))
              /\ left' = left \ {h}
              /\ unseen' = unseen \cup
                     {t \in RunsOn(h) : job[t].step = "claimed" /\ ~RowActive(t)}
        BY <1>1 DEF CheckWorker
    <2>2. sound'["stop"] => sound["stop"] /\ \A t \in RunsOn(h) : ~ProcessOf(t)
        BY <2>1 DEF Finds
    <2>3. job' = job /\ at' = at /\ at["stop"] = "workers" /\ flags' = flags
          /\ enabled' = enabled /\ active' = active /\ undisturbed' = undisturbed
        BY <1>1 DEF CheckWorker
    <2>4. ASSUME sound'["stop"], NEW t \in Threads, Slipped(t)
          PROVE  Slipped(t)'
        <3>1. CASE HostOf[t] = h
            <4>1. job[t].step \in JobSteps /\ ~ProcessOf(t)
                BY <2>2, <2>4, <3>1 DEF RunsOn, Job
            <4> QED
                BY <2>1, <2>3, <2>4, <3>1, <4>1
                DEF Slipped, Idle, Stray, RunsOn, RowActive, ProcessOf, JobSteps
        <3>2. CASE HostOf[t] # h
            BY <2>1, <2>3, <2>4, <3>2 DEF Slipped, Idle, Stray, LookedAt
        <3> QED BY <3>1, <3>2
    <2> QED BY <2>2, <2>3, <2>4
<1>2. CASE ReportStop
    <2>1. \A t \in Threads : Slipped(t) => Slipped(t)'
        BY <1>2, SlippedStays DEF ReportStop
    <2> QED BY <1>2, <2>1 DEF ReportStop, Report
<1>3. CASE ReadFlags("stop")
    <2>1. sound'["stop"] => flags # {}
        BY <1>3 DEF ReadFlags, Finds, Hold
    <2>2. undisturbed'["stop"] => \A o \in Operators : at'[o] \notin Rearming
        BY <1>3 DEF ReadFlags, Against
    <2>3. at'["stop"] = "rows" /\ flags' = flags
        BY <1>3 DEF ReadFlags
    <2> QED BY <2>1, <2>2, <2>3
<1>4. CASE ReadFlags("resume")
    <2>1. \A t \in Threads : Slipped(t) => Slipped(t)'
        BY <1>4, SlippedStays DEF ReadFlags
    <2> QED BY <1>4, <2>1 DEF ReadFlags, Finds
<1>5. CASE ReadRows
    <2>1. sound'["stop"] => \A t \in Threads : Slipped(t)'
        BY <1>5
        DEF ReadRows, Finds, NoneActive, RowActive, Slipped, Idle, Stray, LookedAt, Job
    <2> QED BY <1>5, <2>1 DEF ReadRows, Finds
<1>6. ASSUME NEW s \in Scripts, ReadEnabled(s)
      PROVE  StopInv'
    <2>1. \A t \in Threads : Slipped(t) => Slipped(t)'
        BY <1>6, SlippedStays DEF ReadEnabled
    <2> QED BY <1>6, <2>1 DEF ReadEnabled, Finds, TimersGood
<1>7. CASE ReadActive("stop")
    <2>1. \A t \in Threads : Slipped(t) => Slipped(t)'
        BY <1>7, HostsAssumption DEF ReadActive, Slipped, Idle, Stray, LookedAt
    <2> QED BY <1>7, <2>1 DEF ReadActive, Finds, TimersGood
<1>8. CASE ReadActive("resume")
    <2>1. \A t \in Threads : Slipped(t) => Slipped(t)'
        BY <1>8, SlippedStays DEF ReadActive
    <2> QED BY <1>8, <2>1 DEF ReadActive, Finds, Report
<1>9. ASSUME NEW s \in Scripts, Abort(s)
      PROVE  StopInv'
    <2>1. \A t \in Threads : Slipped(t) => Slipped(t)'
        BY <1>9, SlippedStays DEF Abort
    <2> QED BY <1>9, <2>1 DEF Abort
<1> QED BY <1>1, <1>2, <1>3, <1>4, <1>5, <1>6, <1>7, <1>8, <1>9 DEF Look

LEMMA StopKeptByWatch ==
    ASSUME TypeOK, StopInv, Watch
    PROVE  StopInv'
<1>1. /\ at' = at /\ sound' = sound /\ undisturbed' = undisturbed /\ flags' = flags
      /\ enabled' = enabled /\ active' = active /\ unseen' = unseen /\ left' = left
    BY DEF Watch, StartWatch, FetchDashboard, ListProcesses, RestartService, WatchOnly,
           units, scripts, history
<1>2. \A t \in Threads : Slipped(t) => Slipped(t)'
    <2>1. CASE RestartService
        BY <1>1, <2>1
        DEF RestartService, KilledBy, Slipped, Idle, Stray, LookedAt, TypeOK, Job
    <2>2. CASE job' = job
        BY <1>1, <2>2, SlippedStays
    <2> QED BY <2>1, <2>2 DEF Watch, StartWatch, FetchDashboard, ListProcesses
<1> QED BY <1>1, <1>2, StopFrame DEF StopInv

LEMMA StopKept ==
    ASSUME TypeOK, StopInv, Next
    PROVE  StopInv'
<1>1. CASE Systemd
    <2>1. \A t \in Threads : Slipped(t) => Slipped(t)'
        BY <1>1, SlippedStays DEF Systemd, TimerFires, ServiceEnds, scripts, history
    <2> QED
        BY <1>1, <2>1, StopFrame
        DEF Systemd, TimerFires, ServiceEnds, StopInv, scripts, history
<1> QED
    BY <1>1, StopKeptByDispatch, StopKeptByPause, StopKeptByResume, StopKeptByLook,
       StopKeptByWatch DEF Next
-----------------------------------------------------------------------------
(* The report of the resume script *)

LEMMA ResumeFrame ==
    ASSUME ResumeInv, at' = at, sound' = sound, undisturbed' = undisturbed,
           flags' = flags, enabled' = enabled, active' = active
    PROVE  ResumeInv'
BY DEF ResumeInv, ResumeStands

LEMMA ResumeKeptByPause ==
    ASSUME TypeOK, ResumeInv, Pause
    PROVE  ResumeInv'
<1> USE DEF TypeOK, ResumeInv, ResumeStands, MoveTo, Pausing, AfterFlags,
            AfterEnabled, AfterActive, units, scripts, history
<1>1. CASE Sweep
    <2>1. ~ResumeStands
        BY <1>1 DEF Sweep
    <2>2. /\ at'["resume"] = at["resume"] /\ sound'["resume"] = sound["resume"]
          /\ undisturbed' = undisturbed
        BY <1>1 DEF Sweep
    <2> QED BY <2>1, <2>2
<1>2. ASSUME NEW o \in {"stop", "desk"}, StorePause(o)
      PROVE  ResumeInv'
    <2>1. at'["resume"] = at["resume"] /\ sound' = sound /\ undisturbed'["resume"] = FALSE
        BY <1>2 DEF StorePause
    <2> QED BY <2>1
<1>3. ASSUME NEW o \in {"stop", "desk"}, StopTimers(o) \/ DisableTimers(o)
      PROVE  ResumeInv'
    <2>1. ~ResumeStands
        BY <1>3 DEF StopTimers, DisableTimers
    <2>2. at'["resume"] = at["resume"] /\ sound' = sound /\ undisturbed' = undisturbed
        BY <1>3 DEF StopTimers, DisableTimers
    <2> QED BY <2>1, <2>2
<1> QED BY <1>1, <1>2, <1>3 DEF Pause

LEMMA ResumeKeptByResume ==
    ASSUME TypeOK, ResumeInv, Resume
    PROVE  ResumeInv'
<1> USE DEF TypeOK, ResumeInv, ResumeStands, MoveTo, Pausing, AfterFlags,
            AfterEnabled, AfterActive, units, scripts, history
<1>1. CASE CheckActive
    BY <1>1 DEF CheckActive
<1>2. ASSUME NEW o \in {"resume", "desk"}, StoreResume(o)
      PROVE  ResumeInv'
    <2>1. /\ undisturbed'["resume"] => undisturbed["resume"] /\ flags' = {}
          /\ sound' = sound /\ enabled' = enabled /\ active' = active
        BY <1>2 DEF StoreResume
    <2>2. PICK step \in {"idle", "arming"} : at' = [at EXCEPT ![o] = step]
        BY <1>2 DEF StoreResume
    <2> QED BY <2>1, <2>2
<1>3. ASSUME NEW o \in {"resume", "desk"}, EnableTimers(o)
      PROVE  ResumeInv'
    BY <1>3 DEF EnableTimers
<1>4. ASSUME NEW o \in {"resume", "desk"}, RestartTimers(o)
      PROVE  ResumeInv'
    BY <1>4 DEF RestartTimers
<1>5. ASSUME NEW o \in {"resume", "desk"}, KickServices(o)
      PROVE  ResumeInv'
    <2>1. PICK more \in SUBSET OptionalList :
              enabled' = enabled \cup more /\ active' = active \cup more
        BY <1>5 DEF KickServices
    <2>2. /\ flags' = flags /\ undisturbed' = undisturbed
          /\ at' = [at EXCEPT ![o] = IF o = "desk" THEN "idle" ELSE "status"]
          /\ o # "resume" => sound' = sound
        BY <1>5 DEF KickServices
    <2> QED BY <2>1, <2>2
<1> QED BY <1>1, <1>2, <1>3, <1>4, <1>5 DEF Resume

LEMMA ResumeKeptByLook ==
    ASSUME TypeOK, ResumeInv, Look
    PROVE  ResumeInv'
<1> USE DEF TypeOK, ResumeInv, ResumeStands, MoveTo, Pausing, AfterFlags,
            AfterEnabled, AfterActive, units, scripts, history
<1>1. CASE CheckWorker
    BY <1>1 DEF CheckWorker, Finds
<1>2. CASE ReportStop
    BY <1>2 DEF ReportStop, Report
<1>3. CASE ReadFlags("resume")
    <2>1. sound'["resume"] => flags = {}
        BY <1>3 DEF ReadFlags, Finds
    <2>2. undisturbed'["resume"] => \A o \in Operators : at'[o] \notin Pausing
        BY <1>3 DEF ReadFlags, Against
    <2>3. at'["resume"] = "enabled" /\ flags' = flags
        BY <1>3 DEF ReadFlags
    <2> QED BY <2>1, <2>2, <2>3
<1>4. CASE ReadFlags("stop") \/ ReadRows
    BY <1>4 DEF ReadFlags, ReadRows, Finds
<1>5. ASSUME NEW s \in Scripts, ReadEnabled(s)
      PROVE  ResumeInv'
    BY <1>5 DEF ReadEnabled, Finds, TimersGood
<1>6. ASSUME NEW s \in Scripts, ReadActive(s)
      PROVE  ResumeInv'
    BY <1>6 DEF ReadActive, Finds, Report, TimersGood
<1>7. ASSUME NEW s \in Scripts, Abort(s)
      PROVE  ResumeInv'
    BY <1>7 DEF Abort
<1> QED BY <1>1, <1>2, <1>3, <1>4, <1>5, <1>6, <1>7 DEF Look

LEMMA ResumeKept ==
    ASSUME TypeOK, ResumeInv, Next
    PROVE  ResumeInv'
<1>1. CASE Dispatch \/ Systemd \/ Watch
    <2>1. /\ at' = at /\ sound' = sound /\ undisturbed' = undisturbed /\ flags' = flags
          /\ enabled' = enabled /\ active' = active
        BY <1>1
        DEF Dispatch, JobStep, Admit, GiveUp, Claim, ClaimRefused, DispatchFails, Release, SpawnRun,
            PersistRunRecord, RunEnds, Settle, Strand, Supersede, JobOnly, Systemd, TimerFires, ServiceEnds,
            Watch, StartWatch, FetchDashboard, ListProcesses, RestartService, WatchOnly,
            units, scripts, history
    <2> QED BY <2>1, ResumeFrame
<1> QED BY <1>1, ResumeKeptByPause, ResumeKeptByResume, ResumeKeptByLook DEF Next
-----------------------------------------------------------------------------
(* Both reports *)

LEMMA IInvInit == Init => IInv
BY InitTyped DEF Init, IInv, StopInv, StopStands, ResumeInv, ResumeStands, AfterFlags

LEMMA IInvNext == IInv /\ [Next]_vars => IInv'
<1>1. ASSUME IInv, UNCHANGED vars
      PROVE  IInv'
    <2>1. StopInv'
        <3>1. \A t \in Threads : Slipped(t) => Slipped(t)'
            BY <1>1, SlippedStays DEF IInv, vars
        <3> QED BY <1>1, <3>1, StopFrame DEF IInv, StopInv, vars
    <2>2. ResumeInv'
        BY <1>1, ResumeFrame DEF IInv, vars
    <2> QED BY <1>1, <2>1, <2>2, StutterTyped DEF IInv
<1> QED BY <1>1, NextTyped, StopKept, ResumeKept DEF IInv

LEMMA Invariance == Spec => []IInv
BY IInvInit, IInvNext, PTL DEF Spec

\* What the stop script reports holds until somebody resumes, whatever dispatches
\* and operators run between its steps and its looks
\* (scripts/enoch-maintenance-stop.sh).
THEOREM StopReportHolds == Spec => []StopIsQuiet
<1>1. IInv => StopIsQuiet
    <2> SUFFICES ASSUME IInv, at["stop"] = "clean", undisturbed["stop"]
                 PROVE  /\ \A t \in Threads :
                              RowActive(t) \/ ProcessOf(t) => t \in unseen \/ job[t].override
                        /\ StopList \cap (enabled \cup active) = {}
        BY DEF StopIsQuiet
    <2>1. /\ \A t \in Threads : Slipped(t)
          /\ left = {}
          /\ StopList \cap enabled = {} /\ StopList \cap active = {}
        BY DEF IInv, StopInv, StopStands, AfterFlags, AfterRows, AfterEnabled, AfterActive
    <2>2. \A t \in Threads : LookedAt(t)
        BY <2>1 DEF LookedAt, AfterActive
    <2> QED BY <2>1, <2>2 DEF Slipped, Idle, Stray, RowActive, ProcessOf
<1> QED BY <1>1, Invariance, PTL

\* What the resume script reports holds until somebody pauses or keeps a hold,
\* whatever its systemctl calls did (scripts/enoch-maintenance-resume.sh).
THEOREM ResumeReportHolds == Spec => []ResumeIsArmed
<1>1. IInv => ResumeIsArmed
    BY DEF IInv, ResumeInv, ResumeStands, ResumeIsArmed, AfterFlags, AfterEnabled, AfterActive
<1> QED BY <1>1, Invariance, PTL
=============================================================================
