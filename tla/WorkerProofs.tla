---------------------------- MODULE WorkerProofs ----------------------------
(***************************************************************************)
(* Proofs about the worker's side: its wake gate (WorkerGate), for any     *)
(* quiet window and any number of idle stamps and interruptions, under     *)
(* every hazard; and its callback outbox (CallbackOutbox), for any number  *)
(* of replaying processes and any MAX_ATTEMPTS.                            *)
(*                                                                         *)
(* The window a record carries may be an old one: the record is written    *)
(* back by whoever has read it.  WindowInv is why none of these copies can *)
(* call a run over too early: a copy that can still be evaluated never     *)
(* counts more quiet samples than there were since the last activity.      *)
(*                                                                         *)
(* However deliverers overlap, the attempts a file or a deliverer counts   *)
(* are attempts that were made (Counted), so a callback is set aside only  *)
(* after its last one.  When they do not overlap, whoever works is alone,  *)
(* the file it has claimed is there until its successor is (OnFile), and   *)
(* the outbox implements DurableCallback.                                  *)
(***************************************************************************)
EXTENDS WorkerGate, CallbackOutbox, TLAPS

\* No copy that can be evaluated claims more quiet than there was.
Earned(rec) == rec.gate \in Evaluable => rec.quiet <= calm

\* What the evaluator holds at each of its steps.
HeldInv ==
    /\ evaluator \notin {"none", "asleep"} => held \in RunRecord /\ held.gate \in GateState
    /\ evaluator \in {"none", "asleep"} => held = NoRecord
    /\ evaluator \in {"retrying", "retried", "announcing", "announced"} =>
         held.gate = "wake_ready"
    /\ evaluator \in {"timing_out", "timed_out"} => held.gate = "error" /\ held.key \in Key

WindowInv == TypeOK /\ HeldInv /\ Earned(record) /\ Earned(held)

LEMMA StampFacts ==
    /\ MaxStamp \in Nat /\ MaxStamp >= 1 /\ Window \in Nat /\ Window >= 1 /\ MaxInterrupts \in Nat
    /\ RunnerStamp = MaxStamp + 1
BY BoundsAssumption, WindowAssumption DEF RunnerStamp

LEMMA KeyFacts ==
    /\ \A event \in {"wake_ready", "gate_error", "gate_timeout"} :
         \A rec \in RunRecord : GateKey(event, rec) \in Key
    /\ outcome \in {"wake_ready", "gate_error"} => RunnerKey \in Key
BY StampFacts DEF GateKey, RunnerKey, Key, RunRecord

\* Marking a record with the runner's outcome puts it out of evaluation.
LEMMA MarkedFacts ==
    ASSUME NEW rec \in RunRecord, outcome \in {"wake_ready", "gate_error"}
    PROVE  Marked(rec) \in RunRecord /\ Marked(rec).gate \notin Evaluable
BY KeyFacts DEF Marked, RunRecord, GateState, Evaluable

LEMMA SampledFacts ==
    ASSUME NEW rec \in RunRecord, rec.gate \in Evaluable, Earned(rec), calm \in 0 .. Window
    PROVE  /\ Sampled(rec) \in RunRecord
           /\ Sampled(rec).quiet <= IF calm < Window THEN calm + 1 ELSE Window
BY StampFacts DEF Sampled, RunRecord, Earned

LEMMA PostKeepsType ==
    ASSUME TypeOK, NEW key \in Key, NEW version \in {"original", "retry"},
           PostOk(key, version) \/ PostFails(key, version)
    PROVE  accepted' \in [Key -> {"none", "original", "retry"}]
BY DEF TypeOK, PostOk, PostFails

LEMMA ReadFacts ==
    ASSUME TypeOK
    PROVE  /\ NoRecord \notin RunRecord /\ NoRecord.gate \notin GateState
           /\ AfterReading(record) \in RunRecord \cup {NoRecord, Quarantined}
           /\ AfterReading(record).gate \in Evaluable => AfterReading(record) = record
           /\ Loaded(record) \in RunRecord \cup {NoRecord}
           /\ Loaded(record) # NoRecord => Loaded(record) = record /\ Readable(record)
           /\ Readable(record) => Loaded(record) = record /\ record \in RunRecord
BY DEF TypeOK, NoRecord, Quarantined, RunRecord, GateState, Evaluable, AfterReading,
       Loaded, Readable

\* Records rewritten field by field, as each writer does.
LEMMA WindowRewritten ==
    ASSUME NEW rec \in RunRecord
    PROVE  LET new == [rec EXCEPT !.gate = "waiting_for_process_exit", !.quiet = 0]
           IN  new \in RunRecord /\ new.quiet = 0
<1>1. 0 \in 0 .. Window
    BY StampFacts
<1> QED BY <1>1, Zenon DEF RunRecord, GateState, Evaluable

LEMMA TimeOutRewritten ==
    ASSUME NEW rec \in RunRecord, NEW key \in Key
    PROVE  LET new == [rec EXCEPT !.gate = "error", !.key = key]
           IN  new \in RunRecord /\ new.gate = "error" /\ new.key \in Key
BY DEF RunRecord, GateState

LEMMA IdleRewritten ==
    ASSUME NEW rec \in RunRecord, NEW idle \in 0 .. MaxStamp
    PROVE  LET new == [rec EXCEPT !.gate = "pending_idle_gate", !.quiet = 0, !.idle = idle]
           IN  new \in RunRecord /\ new.quiet = 0
<1>1. 0 \in 0 .. Window
    BY StampFacts
<1> QED BY <1>1, Zenon DEF RunRecord, GateState, Evaluable

LEMMA WindowInit == Init => WindowInv
<1> SUFFICES ASSUME Init PROVE WindowInv
    OBVIOUS
<1>1. TypeOK
    BY StampFacts, RegimesAssumption DEF Init, TypeOK, RunnerSteps
<1>2. HeldInv
    BY DEF Init, HeldInv
<1>3. Earned(record) /\ Earned(held)
    BY DEF Init, Earned, NoRecord, Evaluable
<1> QED BY <1>1, <1>2, <1>3 DEF WindowInv

LEMMA WindowStep == WindowInv /\ [Next]_vars => WindowInv'
<1> SUFFICES ASSUME WindowInv, [Next]_vars PROVE WindowInv'
    OBVIOUS
<1> USE StampFacts
<1> USE DEF WindowInv, TypeOK, HeldInv, Earned, RunnerSteps, Sending, Sent, gateTask
<1>1. CASE Spawn
    BY <1>1 DEF Spawn
<1>2. CASE PersistRunRecord
    <2>1. record' \in RunRecord /\ record'.gate = "running"
        BY <1>2 DEF PersistRunRecord, RunRecord, GateState, Evaluable, NoKey
    <2>2. TypeOK'
        BY <1>2, <2>1 DEF PersistRunRecord
    <2>3. HeldInv'
        BY <1>2 DEF PersistRunRecord
    <2>4. Earned(record)' /\ Earned(held)'
        BY <1>2, <2>1 DEF PersistRunRecord, Evaluable
    <2> QED BY <2>1, <2>2, <2>3, <2>4
<1>3. CASE RunnerEnds
    BY <1>3 DEF RunnerEnds
<1>4. CASE VisitorArrives
    BY <1>4 DEF VisitorArrives
<1>5. CASE VisitorLeaves
    BY <1>5 DEF VisitorLeaves
<1>6. CASE RunnerWrites
    BY <1>6 DEF RunnerWrites
<1>7. CASE RunnerReads
    <2>1. note' \in [{"runner", "loop"} -> RunRecord \cup {NoRecord}]
        BY <1>7 DEF RunnerReads, ReadRecord
    <2>2. TypeOK'
        BY <1>7, <2>1 DEF RunnerReads
    <2>3. HeldInv' /\ Earned(record)' /\ Earned(held)'
        BY <1>7 DEF RunnerReads
    <2> QED BY <2>1, <2>2, <2>3
<1>8. CASE RunnerMarks
    <2>1. record' \in RunRecord \cup {NoRecord, Quarantined} /\ Earned(record)'
        BY <1>8, MarkedFacts, ReadFacts DEF RunnerMarks, WriteRecord
    <2>2. TypeOK'
        BY <1>8, <2>1 DEF RunnerMarks
    <2>3. HeldInv' /\ Earned(held)'
        BY <1>8 DEF RunnerMarks
    <2> QED BY <2>1, <2>2, <2>3
<1>9. CASE RunnerDelivers
    <2>1. accepted' \in [Key -> {"none", "original", "retry"}]
        BY <1>9, KeyFacts, PostKeepsType DEF RunnerDelivers
    <2>2. TypeOK'
        BY <1>9, <2>1 DEF RunnerDelivers, KeepOrSetAside
    <2>3. HeldInv' /\ Earned(record)' /\ Earned(held)'
        BY <1>9 DEF RunnerDelivers
    <2> QED BY <2>1, <2>2, <2>3
<1>10. CASE RunnerFindsItClaimed
    BY <1>10 DEF RunnerFindsItClaimed
<1>11. CASE ReplayDelivers
    <2>1. accepted' \in [Key -> {"none", "original", "retry"}]
        BY <1>11, KeyFacts, PostKeepsType DEF ReplayDelivers
    <2>2. TypeOK'
        BY <1>11, <2>1 DEF ReplayDelivers
    <2>3. HeldInv' /\ Earned(record)' /\ Earned(held)'
        BY <1>11 DEF ReplayDelivers
    <2> QED BY <2>1, <2>2, <2>3
<1>12. CASE ReplayFails
    <2>1. accepted' \in [Key -> {"none", "original", "retry"}]
        BY <1>12, KeyFacts, PostKeepsType DEF ReplayFails
    <2>2. TypeOK'
        BY <1>12, <2>1 DEF ReplayFails, KeepOrSetAside
    <2>3. HeldInv' /\ Earned(record)' /\ Earned(held)'
        BY <1>12 DEF ReplayFails
    <2> QED BY <2>1, <2>2, <2>3
<1>32. CASE ReplayIdles
    BY <1>32 DEF ReplayIdles
<1>13. CASE ReplayReads
    <2>1. note' \in [{"runner", "loop"} -> RunRecord \cup {NoRecord}]
        BY <1>13 DEF ReplayReads, ReadRecord
    <2>2. TypeOK'
        BY <1>13, <2>1 DEF ReplayReads
    <2>3. HeldInv' /\ Earned(record)' /\ Earned(held)'
        BY <1>13 DEF ReplayReads
    <2> QED BY <2>1, <2>2, <2>3
<1>14. CASE ReplayMarks
    <2>1. record' \in RunRecord \cup {NoRecord, Quarantined} /\ Earned(record)'
        BY <1>14, MarkedFacts, ReadFacts DEF ReplayMarks, WriteRecord
    <2>2. TypeOK'
        BY <1>14, <2>1 DEF ReplayMarks
    <2>3. HeldInv' /\ Earned(held)'
        BY <1>14 DEF ReplayMarks
    <2> QED BY <2>1, <2>2, <2>3
<1>15. CASE ListRuns
    <2>1. TypeOK'
        BY <1>15, ReadFacts DEF ListRuns
    <2>2. HeldInv' /\ Earned(record)' /\ Earned(held)'
        BY <1>15, ReadFacts DEF ListRuns
    <2> QED BY <2>1, <2>2
<1>16. CASE Reconcile
    <2>1. /\ record' \in RunRecord \cup {NoRecord, Quarantined} /\ Earned(record)'
          /\ stamps' \in 0 .. MaxStamp /\ stamps <= stamps'
        <3>1. CASE listed.gate = "running" /\ ~Activity
            <4>1. listed \in RunRecord
                BY <3>1 DEF NoRecord
            <4>2. record' = [listed EXCEPT !.gate = "pending_idle_gate", !.quiet = 0,
                                           !.idle = stamps + 1]
                BY <1>16, <3>1 DEF Reconcile
            <4>3. stamps' = stamps + 1 /\ stamps < MaxStamp /\ UNCHANGED calm
                BY <1>16, <3>1 DEF Reconcile
            <4>4. record' \in RunRecord /\ record'.quiet = 0
                <5> DEFINE new == [listed EXCEPT !.gate = "pending_idle_gate", !.quiet = 0,
                                                 !.idle = stamps + 1]
                <5>1. stamps + 1 \in 0 .. MaxStamp
                    BY <4>3
                <5>2. new \in RunRecord /\ new.quiet = 0
                    BY ONLY <4>1, <5>1, IdleRewritten
                <5> QED BY ONLY <4>2, <5>2
            <4> QED BY <4>3, <4>4
        <3>2. CASE ~(listed.gate = "running" /\ ~Activity)
            BY <1>16, <3>2 DEF Reconcile
        <3> QED BY <3>1, <3>2
    <2>2. /\ interrupts' \in 0 .. MaxInterrupts
          /\ \/ UNCHANGED <<evaluator, held>>
             \/ evaluator' = "asleep" /\ held' = NoRecord
        <3>1. PICK rec : EnsureEvaluator(rec)
            BY <1>16 DEF Reconcile
        <3> QED BY <3>1 DEF EnsureEvaluator, Sleep
    <2>3. TypeOK'
        BY <1>16, <2>1, <2>2 DEF Reconcile
    <2>4. HeldInv' /\ Earned(held)'
        BY <1>16, <2>2, ReadFacts DEF Reconcile, GateState
    <2> QED BY <2>1, <2>2, <2>3, <2>4
<1>17. CASE LoadRun
    <2>1. TypeOK'
        BY <1>17, ReadFacts DEF LoadRun
    <2>2. HeldInv'
        BY <1>17, ReadFacts DEF LoadRun, Readable
    <2>3. Earned(record)' /\ Earned(held)'
        BY <1>17, ReadFacts DEF LoadRun, Evaluable, GateState
    <2> QED BY <2>1, <2>2, <2>3
<1>18. CASE RetryReady
    <2>1. TypeOK'
        BY <1>18 DEF RetryReady
    <2>2. HeldInv'
        BY <1>18 DEF RetryReady, NeedsRetry
    <2>3. Earned(record)' /\ Earned(held)'
        BY <1>18 DEF RetryReady
    <2> QED BY <2>1, <2>2, <2>3
<1>33. CASE PostRecorded
    <2>1. held \in RunRecord /\ PostedKey \in Key /\ PostedPayload \in {"original", "retry"}
        BY <1>33, KeyFacts DEF PostRecorded, PostedKey, PostedPayload
    <2>2. accepted' \in [Key -> {"none", "original", "retry"}]
        BY <1>33, <2>1, PostKeepsType DEF PostRecorded
    <2>3. \/ evaluator \in {"retrying", "announcing"} /\ evaluator' \in {"retried", "announced"}
          \/ evaluator = "timing_out" /\ evaluator' = "timed_out"
        BY <1>33 DEF PostRecorded
    <2>4. TypeOK'
        BY <1>33, <2>2, <2>3 DEF PostRecorded
    <2>5. HeldInv' /\ Earned(record)' /\ Earned(held)'
        BY <1>33, <2>3 DEF PostRecorded
    <2> QED BY <2>4, <2>5
<1>19. CASE RetryOk
    <2>1. held \in RunRecord /\ held.gate = "wake_ready" /\ GateKey("wake_ready", held) \in Key
        BY <1>19, KeyFacts DEF RetryOk
    <2>2. record' \in RunRecord /\ record'.gate \notin Evaluable
        BY <1>19, <2>1 DEF RetryOk, Save, RunRecord, Evaluable
    <2>3. TypeOK'
        BY <1>19, <2>2 DEF RetryOk, Finish
    <2>4. HeldInv' /\ Earned(record)' /\ Earned(held)'
        BY <1>19, <2>2, ReadFacts DEF RetryOk, Finish, GateState
    <2> QED BY <2>3, <2>4
<1>20. CASE RetryFails
    <2>1. held \in RunRecord /\ held.gate = "wake_ready"
        BY <1>20 DEF RetryFails, NoAnswer
    <2>2. record' \in RunRecord /\ record'.gate \notin Evaluable
        BY <1>20, <2>1 DEF RetryFails, Save, Evaluable
    <2>3. TypeOK'
        BY <1>20, <2>2 DEF RetryFails, Sleep
    <2>4. HeldInv' /\ Earned(record)' /\ Earned(held)'
        BY <1>20, <2>2, ReadFacts DEF RetryFails, Sleep, GateState
    <2> QED BY <2>3, <2>4
<1>21. CASE TimeOut
    <2>1. held \in RunRecord /\ GateKey("gate_timeout", held) \in Key
        BY <1>21, KeyFacts DEF TimeOut
    <2>2. CASE held.key = GateKey("gate_timeout", held)
        BY <1>21, <2>2, ReadFacts DEF TimeOut, Finish, GateState
    <2>3. CASE held.key # GateKey("gate_timeout", held)
        <3>1. /\ held' \in RunRecord /\ held'.gate = "error" /\ held'.key \in Key
              /\ record' = held' /\ evaluator' = "timing_out"
            <4>1. /\ held' = [held EXCEPT !.gate = "error",
                                        !.key = GateKey("gate_timeout", held)]
                  /\ record' = held' /\ evaluator' = "timing_out"
                BY <1>21, <2>3 DEF TimeOut, Save
            <4> DEFINE new == [held EXCEPT !.gate = "error", !.key = GateKey("gate_timeout", held)]
            <4>2. new \in RunRecord /\ new.gate = "error" /\ new.key \in Key
                BY ONLY <2>1, TimeOutRewritten
            <4> QED BY ONLY <4>1, <4>2
        <3>2. TypeOK'
            BY <1>21, <3>1 DEF TimeOut
        <3>3. HeldInv' /\ Earned(record)' /\ Earned(held)'
            BY <1>21, <3>1 DEF TimeOut, GateState, Evaluable
        <3> QED BY <3>2, <3>3
    <2> QED BY <2>1, <2>2, <2>3
<1>22. CASE TimeOutSent
    <2>1. held \in RunRecord /\ held.gate \notin Evaluable
        BY <1>22 DEF TimeOutSent, NoAnswer, Evaluable
    <2>2. TypeOK'
        BY <1>22, <2>1 DEF TimeOutSent, Save, Finish
    <2>3. HeldInv' /\ Earned(record)' /\ Earned(held)'
        BY <1>22, <2>1, ReadFacts DEF TimeOutSent, Save, Finish, GateState
    <2> QED BY <2>2, <2>3
<1>23. CASE EvaluateNothing
    <2>1. held \in RunRecord /\ held.gate \notin Evaluable
        BY <1>23 DEF EvaluateNothing, Evaluating
    <2>2. TypeOK'
        BY <1>23, <2>1 DEF EvaluateNothing, Save, Sleep
    <2>3. HeldInv' /\ Earned(record)' /\ Earned(held)'
        BY <1>23, <2>1, ReadFacts DEF EvaluateNothing, Save, Sleep, GateState
    <2> QED BY <2>1, <2>2, <2>3
<1>24. CASE EvaluateActive
    <2>1. held \in RunRecord
        BY <1>24 DEF EvaluateActive, Evaluating
    <2>2. record' = [held EXCEPT !.gate = "waiting_for_process_exit", !.quiet = 0]
        BY <1>24 DEF EvaluateActive, Save, WindowAfterActivity
    <2>3. record' \in RunRecord /\ record'.quiet = 0
        <3> DEFINE new == [held EXCEPT !.gate = "waiting_for_process_exit", !.quiet = 0]
        <3>1. new \in RunRecord /\ new.quiet = 0
            BY ONLY <2>1, WindowRewritten
        <3> QED BY ONLY <2>2, <3>1
    <2>4. TypeOK'
        BY <1>24, <2>3 DEF EvaluateActive, Sleep
    <2>5. HeldInv' /\ Earned(record)' /\ Earned(held)'
        BY <1>24, <2>3, ReadFacts DEF EvaluateActive, Sleep, GateState
    <2> QED BY <2>1, <2>2, <2>3, <2>4, <2>5
<1>25. CASE EvaluateWaiting
    <2>1. held \in RunRecord /\ held.gate \in Evaluable
        BY <1>25 DEF EvaluateWaiting, Evaluating
    <2>2. calm' = IF calm < Window THEN calm + 1 ELSE Window
        BY <1>25 DEF EvaluateWaiting, MoreCalm
    <2>3. Sampled(held) \in RunRecord /\ Sampled(held).quiet <= calm'
        BY <2>1, <2>2, SampledFacts
    <2>4. PICK gate \in Evaluable : record' = [Sampled(held) EXCEPT !.gate = gate]
        BY <1>25, <2>1 DEF EvaluateWaiting, Save, Evaluable
    <2>5. record' \in RunRecord /\ record'.quiet <= calm'
        BY <2>3, <2>4 DEF RunRecord, GateState
    <2>6. TypeOK'
        BY <1>25, <2>2, <2>5 DEF EvaluateWaiting, Sleep
    <2>7. HeldInv' /\ Earned(record)' /\ Earned(held)'
        BY <1>25, <2>5, ReadFacts DEF EvaluateWaiting, Sleep, GateState
    <2> QED BY <2>1, <2>2, <2>3, <2>4, <2>5, <2>6, <2>7
<1>26. CASE EvaluateReady
    <2>1. held \in RunRecord /\ held.gate \in Evaluable
        BY <1>26 DEF EvaluateReady, Evaluating
    <2>2. calm' = IF calm < Window THEN calm + 1 ELSE Window
        BY <1>26 DEF EvaluateReady, MoreCalm
    <2>3. Sampled(held) \in RunRecord
        BY <2>1, SampledFacts
    <2>4. held' \in RunRecord /\ held'.gate = "wake_ready" /\ record' = held'
        BY <1>26, <2>3 DEF EvaluateReady, Save, RunRecord, GateState
    <2>5. TypeOK'
        BY <1>26, <2>2, <2>4 DEF EvaluateReady
    <2>6. HeldInv' /\ Earned(record)' /\ Earned(held)'
        BY <1>26, <2>4 DEF EvaluateReady, GateState, Evaluable
    <2> QED BY <2>1, <2>2, <2>3, <2>4, <2>5, <2>6
<1>27. CASE AnnounceOk
    <2>1. held \in RunRecord /\ held.gate = "wake_ready" /\ GateKey("wake_ready", held) \in Key
        BY <1>27, KeyFacts DEF AnnounceOk
    <2>2. record' \in RunRecord /\ record'.gate \notin Evaluable
        BY <1>27, <2>1 DEF AnnounceOk, Save, RunRecord, Evaluable
    <2>3. TypeOK'
        BY <1>27, <2>2 DEF AnnounceOk, Finish
    <2>4. HeldInv' /\ Earned(record)' /\ Earned(held)'
        BY <1>27, <2>2, ReadFacts DEF AnnounceOk, Finish, GateState
    <2> QED BY <2>3, <2>4
<1>28. CASE AnnounceFails
    <2>1. TypeOK'
        BY <1>28 DEF AnnounceFails, Sleep
    <2>2. HeldInv' /\ Earned(record)' /\ Earned(held)'
        BY <1>28, ReadFacts DEF AnnounceFails, Sleep, GateState
    <2> QED BY <2>1, <2>2
<1>29. CASE Expire
    BY <1>29 DEF Expire
<1>30. CASE Restart
    <2>0. accepted' \in [Key -> {"none", "original", "retry"}]
        BY <1>30, KeyFacts, PostKeepsType DEF Restart
    <2>1. TypeOK'
        BY <1>30, <2>0 DEF Restart, Finish
    <2>2. HeldInv' /\ Earned(record)' /\ Earned(held)'
        BY <1>30, ReadFacts DEF Restart, Finish, GateState
    <2> QED BY <2>1, <2>2
<1>31. CASE UNCHANGED vars
    BY <1>31 DEF vars
<1> QED BY <1>1, <1>2, <1>3, <1>4, <1>5, <1>6, <1>7, <1>8, <1>9, <1>10, <1>11, <1>12,
           <1>13, <1>14, <1>15, <1>16, <1>17, <1>18, <1>19, <1>20, <1>21, <1>22, <1>23,
           <1>24, <1>25, <1>26, <1>27, <1>28, <1>29, <1>30, <1>31, <1>32, <1>33
    DEF Next, Run, Runner, Loop, Evaluator

THEOREM WindowAlways == Spec => []WindowInv
BY WindowInit, WindowStep, PTL DEF Spec

\* Every reachable state of the gate is well typed, under every hazard; in
\* particular no record holds more samples than its window.
THEOREM TypeCorrect == Spec => []TypeOK
<1>1. WindowInv => TypeOK
    BY DEF WindowInv
<1> QED BY <1>1, WindowAlways, PTL

\* The announcement is made from a copy whose window is full and earned.
LEMMA ReadyEarned ==
    ASSUME WindowInv, EvaluateReady
    PROVE  calm' >= Window
<1>1. held \in RunRecord /\ held.gate \in Evaluable
    BY DEF EvaluateReady, Evaluating, WindowInv, HeldInv
<1>2. calm \in 0 .. Window /\ calm' = IF calm < Window THEN calm + 1 ELSE Window
    BY DEF EvaluateReady, MoreCalm, WindowInv, TypeOK
<1>3. Sampled(held).quiet <= calm'
    BY <1>1, <1>2, SampledFacts DEF WindowInv
<1>4. Sampled(held).quiet >= Window /\ Sampled(held) \in RunRecord
    BY <1>1, <1>2, SampledFacts DEF EvaluateReady, WindowFull, WindowInv
<1> QED BY <1>2, <1>3, <1>4, StampFacts DEF RunRecord

\* Nothing else makes an announcement.
LEMMA OnlyEvaluateReady ==
    ASSUME [Next]_vars, evaluator # "announcing", evaluator' = "announcing"
    PROVE  EvaluateReady
<1> USE DEF gateTask, Sleep, Finish
<1>1. CASE Run \/ Runner
    BY <1>1 DEF Run, Runner, Spawn, PersistRunRecord, RunnerEnds, VisitorArrives,
        VisitorLeaves, RunnerWrites, RunnerReads, RunnerMarks, RunnerDelivers,
        RunnerFindsItClaimed
<1>2. CASE Loop
    <2>1. ~Reconcile
        BY DEF Reconcile, EnsureEvaluator
    <2> QED BY <1>2, <2>1 DEF Loop, ReplayDelivers, ReplayFails, ReplayIdles, ReplayReads,
        ReplayMarks, ListRuns
<1>3. CASE Evaluator
    BY <1>3 DEF Evaluator, LoadRun, PostRecorded, Sending, RetryReady, RetryOk, RetryFails,
        TimeOut, TimeOutSent, EvaluateNothing, EvaluateActive, EvaluateWaiting, AnnounceOk,
        AnnounceFails
<1>4. CASE Expire \/ Restart \/ UNCHANGED vars
    BY <1>4 DEF Expire, Restart, vars
<1> QED BY <1>1, <1>2, <1>3, <1>4 DEF Next

\* The gate calls a run over only after a full window of quiet samples, for any
\* window, under every hazard and any number of restarts (WakeGate.evaluate).
THEOREM QuietBeforeReady == Spec => FullQuietWindow
<1>1. WindowInv /\ [Next]_vars =>
        [(evaluator # "announcing" /\ evaluator' = "announcing") => calm' >= Window]_vars
    BY ReadyEarned, OnlyEvaluateReady
<1> QED BY <1>1, WindowAlways, PTL DEF Spec, FullQuietWindow
-----------------------------------------------------------------------------
(***************************************************************************)
(* Who reports the run                                                     *)
(*                                                                         *)
(* While a run may still be reported by its runner, every copy of its      *)
(* record is the one the /dispatch handler made or the one the runner's    *)
(* callback makes of it, and no writer can bring the first back once the   *)
(* second is there: the loop holds the first only before the record is     *)
(* marked, and the evaluator never does.                                   *)
(***************************************************************************)
Fresh == [gate |-> "running", idle |-> 0, key |-> NoKey, quiet |-> 0]
Told == Marked(Fresh)

\* The runner has left a callback, or may still do so.
Reporting == runner # "exited" \/ outbox # "none"

Marking == {"noted", "delivered", "marking", "exited"}

\* Dispatch, runner and outbox go in step.
OrderInv ==
    /\ dispatch = "idle" <=> runner = "none"
    /\ runner \notin {"none", "working"} => dispatch = "recorded"
    /\ outbox # "none" => runner \notin {"none", "working", "ended"}
    /\ runner \in {"written", "noting", "noted", "delivered", "marking"} => outbox # "none"
    /\ loop \in {"mark", "marking"} => outbox # "none"
    /\ loop # "reconcile" => listed = NoRecord

Copies == {NoRecord, Fresh} \cup (IF outbox # "none" THEN {Told} ELSE {})
Noted == outbox # "none" /\ record \in {Told, Quarantined}

CopiesInv ==
    /\ record \in Copies \/ Noted
    /\ dispatch = "recorded" <=> record # NoRecord
    /\ listed # NoRecord => dispatch = "recorded"
    /\ listed \in Copies /\ \A w \in {"runner", "loop"} : note[w] \in Copies
    /\ evaluator \in {"none", "asleep", "loaded"}
    /\ evaluator = "loaded" => held = Told
    /\ (listed \notin {NoRecord, Fresh} \/ evaluator # "none" \/ runner \in Marking) => Noted
    /\ (runner = "noting" /\ note["runner"] = NoRecord) => Noted
    /\ listed = Fresh => runner \notin Marking

\* Only the runner's key has reached the control plane.
OwnKeyOnly == \A k \in Key : accepted[k] # "none" => k = RunnerKey /\ outbox # "none"

VoiceInv ==
    Undisturbed => OrderInv /\ (Reporting => CopiesInv /\ OwnKeyOnly)

LEMMA SameRecord ==
    ASSUME NEW a \in RunRecord, NEW b \in RunRecord,
           a.gate = b.gate, a.idle = b.idle, a.key = b.key, a.quiet = b.quiet
    PROVE  a = b
BY DEF RunRecord

LEMMA MarkedFields ==
    ASSUME NEW rec \in RunRecord, outcome \in {"wake_ready", "gate_error"}
    PROVE  /\ Marked(rec) \in RunRecord
           /\ Marked(rec).gate = outcome /\ Marked(rec).key = RunnerKey
           /\ Marked(rec).idle = rec.idle /\ Marked(rec).quiet = rec.quiet
<1>1. Marked(rec) \in RunRecord
    BY MarkedFacts
<1> QED BY <1>1 DEF Marked, RunRecord

LEMMA CopyFacts ==
    ASSUME outcome \in {"wake_ready", "gate_error"}
    PROVE  /\ Fresh.gate = "running" /\ Fresh \in RunRecord
           /\ Told.gate = outcome /\ Told.key = RunnerKey /\ Told \in RunRecord
           /\ Fresh \notin {NoRecord, Quarantined, Told} /\ Told \notin {NoRecord, Quarantined}
           /\ NoRecord # Quarantined
           /\ Marked(Fresh) = Told /\ Marked(Told) = Told
           /\ Told.key.event = outcome
<1>1. Fresh \in RunRecord /\ Fresh.gate = "running"
    BY StampFacts DEF Fresh, RunRecord, GateState
<1>2. /\ Told \in RunRecord /\ Told.gate = outcome /\ Told.key = RunnerKey
      /\ Told.idle = Fresh.idle /\ Told.quiet = Fresh.quiet
    BY <1>1, MarkedFields DEF Told
<1>3. /\ Marked(Told) \in RunRecord /\ Marked(Told).gate = outcome
      /\ Marked(Told).key = RunnerKey
      /\ Marked(Told).idle = Told.idle /\ Marked(Told).quiet = Told.quiet
    BY <1>2, MarkedFields
<1>4. Marked(Told) = Told
    BY <1>2, <1>3, SameRecord
<1>5. Told.gate = outcome /\ Told.key = RunnerKey /\ RunnerKey.event = outcome
    BY <1>2 DEF RunnerKey
<1>6. NoRecord.gate = "none" /\ Quarantined.gate = "quarantined"
    BY DEF NoRecord, Quarantined
<1> QED BY <1>1, <1>2, <1>4, <1>5, <1>6 DEF Told

\* What reading and judging these two copies gives.
LEMMA CopyReadFacts ==
    ASSUME outcome \in {"wake_ready", "gate_error"}
    PROVE  /\ Loaded(Fresh) = Fresh /\ AfterReading(Fresh) = Fresh /\ ~Evaluated(Fresh)
           /\ Loaded(NoRecord) = NoRecord /\ AfterReading(NoRecord) = NoRecord
           /\ ~Evaluated(NoRecord) /\ NoRecord.gate # "running"
           /\ Loaded(Quarantined) = NoRecord /\ AfterReading(Quarantined) = Quarantined
           /\ ~Readable(Quarantined)
           /\ Loaded(Told) \in {NoRecord, Told} /\ AfterReading(Told) \in {Told, Quarantined}
           /\ Readable(Told) => Loaded(Told) = Told /\ AfterReading(Told) = Told
           /\ ~NeedsRetry(Told) /\ ~TimedOut(Told) /\ Told.gate \notin Evaluable
<1>1. NoRecord.gate = "none" /\ Quarantined.gate = "quarantined"
    BY DEF NoRecord, Quarantined
<1>2. Told.gate = outcome /\ Told.key.event = outcome /\ Fresh.gate = "running"
    BY CopyFacts
<1> QED BY <1>1, <1>2
    DEF Loaded, AfterReading, Evaluated, Readable, GateState, Evaluable, NeedsRetry, TimedOut,
        CallbackDelivered

LEMMA VoiceInit == Init => VoiceInv
<1> SUFFICES ASSUME Init PROVE OrderInv /\ CopiesInv /\ OwnKeyOnly
    BY DEF VoiceInv
<1>1. OrderInv
    BY DEF Init, OrderInv
<1>2. OwnKeyOnly
    BY DEF Init, OwnKeyOnly
<1>3. CopiesInv
    BY CopyFacts DEF Init, CopiesInv, Copies, Marking
<1> QED BY <1>1, <1>2, <1>3

LEMMA OrderStep ==
    ASSUME Undisturbed, OrderInv, Next
    PROVE  OrderInv'
<1> USE DEF OrderInv, Undisturbed, gateTask
<1>1. CASE Run
    BY <1>1 DEF Run, Spawn, PersistRunRecord, RunnerEnds, VisitorArrives, VisitorLeaves
<1>2. CASE Runner
    BY <1>2 DEF Runner, RunnerWrites, RunnerReads, RunnerMarks, RunnerDelivers,
        RunnerFindsItClaimed, KeepOrSetAside
<1>3. CASE Loop
    BY <1>3 DEF Loop, ReplayDelivers, ReplayFails, KeepOrSetAside, ReplayIdles, ReplayReads,
        ReplayMarks, ListRuns, Reconcile
<1>4. CASE Evaluator
    BY <1>4 DEF Evaluator, LoadRun, PostRecorded, RetryReady, RetryOk, RetryFails, TimeOut,
        TimeOutSent, EvaluateNothing, EvaluateActive, EvaluateWaiting, EvaluateReady,
        AnnounceOk, AnnounceFails
<1>5. CASE Expire
    BY <1>5 DEF Expire
<1>6. ~Restart
    BY DEF Restart
<1> QED BY <1>1, <1>2, <1>3, <1>4, <1>5, <1>6 DEF Next

\* A run that was not to be reported does not become one that is.
LEMMA ReportingBefore ==
    ASSUME Undisturbed, OrderInv, Next, Reporting'
    PROVE  Reporting
<1> SUFFICES ASSUME runner = "exited", outbox = "none" PROVE FALSE
    BY DEF Reporting
<1> USE DEF OrderInv, Undisturbed, Reporting, gateTask
<1>1. CASE Run
    BY <1>1 DEF Run, Spawn, PersistRunRecord, RunnerEnds, VisitorArrives, VisitorLeaves
<1>2. CASE Runner
    BY <1>2 DEF Runner, RunnerWrites, RunnerReads, RunnerMarks, RunnerDelivers,
        RunnerFindsItClaimed, KeepOrSetAside
<1>3. CASE Loop
    BY <1>3 DEF Loop, ReplayDelivers, ReplayFails, KeepOrSetAside, ReplayIdles, ReplayReads,
        ReplayMarks, ListRuns, Reconcile
<1>4. CASE Evaluator
    BY <1>4 DEF Evaluator, LoadRun, PostRecorded, RetryReady, RetryOk, RetryFails, TimeOut,
        TimeOutSent, EvaluateNothing, EvaluateActive, EvaluateWaiting, EvaluateReady,
        AnnounceOk, AnnounceFails
<1>5. CASE Expire
    BY <1>5 DEF Expire
<1>6. ~Restart
    BY DEF Restart
<1> QED BY <1>1, <1>2, <1>3, <1>4, <1>5, <1>6 DEF Next

\* Posting the runner's key leaves its key the only one.
LEMMA OwnPost ==
    ASSUME TypeOK, OwnKeyOnly, outbox # "none", outbox' # "none", outcome' = outcome,
           PostOk(RunnerKey, "original") \/ PostFails(RunnerKey, "original")
    PROVE  OwnKeyOnly'
<1>1. accepted' = accepted \/ accepted' = [accepted EXCEPT ![RunnerKey] = "original"]
    BY DEF PostOk, PostFails
<1>2. RunnerKey' = RunnerKey
    BY DEF RunnerKey
<1> QED BY <1>1, <1>2 DEF OwnKeyOnly, TypeOK

LEMMA CopiesStep ==
    ASSUME TypeOK, Undisturbed, OrderInv, OrderInv', CopiesInv, OwnKeyOnly, Reporting, Reporting',
           Next
    PROVE  CopiesInv' /\ OwnKeyOnly'
<1>t. outcome \in {"wake_ready", "gate_error"}
    BY DEF TypeOK
<1>f. /\ Fresh' = Fresh
      /\ outcome' = outcome => Told' = Told /\ RunnerKey' = RunnerKey
    BY DEF Fresh, Told, Marked, RunnerKey
<1>k. outcome' = outcome /\ accepted' = accepted /\ (outbox # "none" => outbox' # "none")
          => OwnKeyOnly'
    BY <1>f DEF OwnKeyOnly
<1> USE DEF CopiesInv, Copies, Noted, Marking, gateTask
<1>1. CASE Spawn
    BY <1>1, <1>f, <1>k, <1>t, CopyFacts DEF Spawn
<1>2. CASE PersistRunRecord
    <2>1. runner = "working" /\ outbox = "none"
        BY <1>2 DEF PersistRunRecord, OrderInv, TypeOK, RunnerSteps
    <2> QED BY <1>2, <2>1, <1>f, <1>k, <1>t, CopyFacts DEF PersistRunRecord, Fresh
<1>3. CASE RunnerEnds
    <2>1. outbox = "none" /\ outbox' = "none" /\ runner' = "ended" /\ runner = "working"
        BY <1>3 DEF RunnerEnds, OrderInv, Reporting
    <2>2. OwnKeyOnly'
        BY <1>3, <2>1 DEF RunnerEnds, OwnKeyOnly
    <2> QED BY <1>3, <2>1, <2>2, <1>f, <1>t, CopyFacts DEF RunnerEnds
<1>4. CASE VisitorArrives \/ VisitorLeaves \/ Expire
    BY <1>4, <1>f, <1>k DEF VisitorArrives, VisitorLeaves, Expire
<1>5. CASE RunnerWrites
    BY <1>5, <1>f, <1>k, <1>t, CopyFacts DEF RunnerWrites, OrderInv
<1>6. CASE RunnerReads
    <2>1. outbox # "none" /\ dispatch = "recorded"
        BY <1>6 DEF RunnerReads, OrderInv
    <2>2. note' = [note EXCEPT !["runner"] =
                     IF record \in {NoRecord, Quarantined} THEN NoRecord ELSE record]
        BY <1>6 DEF RunnerReads, ReadRecord
    <2>3. note'["runner"] = NoRecord => Noted
        BY <2>1, <2>2, <1>t, CopyFacts DEF TypeOK
    <2>4. \A w \in {"runner", "loop"} : note'[w] \in Copies
        BY <2>1, <2>2, <1>t, CopyFacts DEF TypeOK
    <2>5. UNCHANGED <<dispatch, record, outcome, outbox, loop, listed, evaluator, held, accepted>>
        BY <1>6 DEF RunnerReads
    <2>6. runner' \notin Marking \/ runner \in Marking
        BY <1>6 DEF RunnerReads
    <2> QED BY <2>3, <2>4, <2>5, <2>6, <1>f, <1>k
<1>7. CASE RunnerMarks
    <2>1. outbox # "none" /\ dispatch = "recorded" /\ listed = NoRecord
        BY <1>7 DEF RunnerMarks, OrderInv, LoopIsQuick, Undisturbed
    <2>2. record' = IF note["runner"] = NoRecord THEN record ELSE Told
        BY <1>7, <1>t, CopyFacts DEF RunnerMarks, WriteRecord
    <2>3. record' \in {Told, Quarantined}
        BY <1>7, <2>2 DEF RunnerMarks
    <2>4. \A w \in {"runner", "loop"} : note'[w] \in Copies
        BY <1>7 DEF RunnerMarks, TypeOK
    <2>5. UNCHANGED <<dispatch, outcome, outbox, loop, listed, evaluator, held, accepted>>
        BY <1>7 DEF RunnerMarks
    <2>6. runner' # "noting"
        BY <1>7 DEF RunnerMarks
    <2> QED BY <2>1, <2>3, <2>4, <2>5, <2>6, <1>f, <1>k, <1>t, CopyFacts
<1>8. CASE RunnerDelivers
    <2>1. /\ UNCHANGED <<dispatch, record, outcome, note, loop, listed, evaluator, held>>
          /\ outbox # "none" /\ outbox' # "none" /\ runner = "noted" /\ runner' # "noting"
          /\ PostOk(RunnerKey, "original") \/ PostFails(RunnerKey, "original")
        BY <1>8 DEF RunnerDelivers, KeepOrSetAside
    <2>2. OwnKeyOnly'
        BY <2>1, OwnPost
    <2> QED BY <2>1, <2>2, <1>f
<1>9. CASE RunnerFindsItClaimed
    BY <1>9, <1>f, <1>k DEF RunnerFindsItClaimed
<1>10. CASE ReplayDelivers
    <2>1. /\ UNCHANGED <<dispatch, record, runner, outcome, note, listed, evaluator, held>>
          /\ outbox # "none" /\ outbox' # "none"
          /\ PostOk(RunnerKey, "original")
        BY <1>10 DEF ReplayDelivers
    <2>2. OwnKeyOnly'
        BY <2>1, OwnPost
    <2> QED BY <2>1, <2>2, <1>f
<1>11. CASE ReplayFails
    <2>1. /\ UNCHANGED <<dispatch, record, runner, outcome, note, listed, evaluator, held>>
          /\ outbox # "none" /\ outbox' # "none"
          /\ PostFails(RunnerKey, "original")
        BY <1>11 DEF ReplayFails, KeepOrSetAside
    <2>2. OwnKeyOnly'
        BY <2>1, OwnPost
    <2> QED BY <2>1, <2>2, <1>f
<1>21. CASE ReplayIdles
    BY <1>21, <1>f, <1>k DEF ReplayIdles
<1>12. CASE ReplayReads
    <2>1. outbox # "none"
        BY <1>12 DEF ReplayReads, OrderInv
    <2>2. note' = [note EXCEPT !["loop"] =
                     IF record \in {NoRecord, Quarantined} THEN NoRecord ELSE record]
        BY <1>12 DEF ReplayReads, ReadRecord
    <2>3. \A w \in {"runner", "loop"} : note'[w] \in Copies
        BY <2>1, <2>2, <1>t, CopyFacts DEF TypeOK
    <2>4. note'["runner"] = note["runner"]
        BY <2>2 DEF TypeOK
    <2>5. UNCHANGED <<dispatch, record, runner, outcome, outbox, listed, evaluator, held, accepted>>
        BY <1>12 DEF ReplayReads
    <2> QED BY <2>3, <2>4, <2>5, <1>f, <1>k
<1>13. CASE ReplayMarks
    <2>1. outbox # "none" /\ dispatch = "recorded"
        BY <1>13 DEF ReplayMarks, OrderInv
    <2>2. record' = IF note["loop"] = NoRecord THEN record ELSE Told
        BY <1>13, <1>t, CopyFacts DEF ReplayMarks, WriteRecord
    <2>3. /\ \A w \in {"runner", "loop"} : note'[w] \in Copies
          /\ note'["runner"] = note["runner"]
        BY <1>13 DEF ReplayMarks, TypeOK
    <2>4. UNCHANGED <<dispatch, runner, outcome, outbox, listed, evaluator, held, accepted>>
        BY <1>13 DEF ReplayMarks
    <2> QED BY <2>1, <2>2, <2>3, <2>4, <1>f, <1>k, <1>t, CopyFacts
<1>14. CASE ListRuns
    <2>1. record' = AfterReading(record) /\ listed' = Loaded(record)
        BY <1>14 DEF ListRuns
    <2>2. UNCHANGED <<dispatch, runner, outcome, outbox, note, evaluator, held, accepted>>
        BY <1>14 DEF ListRuns
    <2>3. \/ record \in {NoRecord, Fresh} /\ record' = record /\ listed' = record
          \/ Noted /\ Noted' /\ listed' \in {NoRecord, Told}
        BY <2>1, <2>2, <1>f, <1>t, CopyReadFacts
    <2> QED BY <2>2, <2>3, <1>f, <1>k, <1>t, CopyFacts
<1>15. CASE Reconcile
    <2>1. ~(listed.gate = "running" /\ ~Activity)
        <3> SUFFICES ASSUME listed.gate = "running", ~Activity PROVE FALSE
            OBVIOUS
        <3>1. listed = Fresh
            BY <1>t, CopyFacts, CopyReadFacts
        <3>2. runner \notin Marking /\ runner # "none"
            BY <3>1, <1>t, CopyFacts DEF OrderInv
        <3> QED BY <3>2 DEF Activity
    <2>2. /\ UNCHANGED <<dispatch, record, runner, outcome, outbox, note, accepted>>
          /\ listed' = NoRecord /\ EnsureEvaluator(listed)
        BY <1>15, <2>1 DEF Reconcile
    <2>3. Evaluated(listed) => Noted
        BY <1>t, CopyReadFacts
    <2>4. \/ UNCHANGED <<evaluator, held>>
          \/ Noted /\ evaluator' = "asleep"
        BY <2>2, <2>3 DEF EnsureEvaluator, Sleep
    <2> QED BY <2>2, <2>4, <1>f, <1>k, <1>t, CopyFacts
<1>16. CASE LoadRun
    <2>1. Noted
        BY <1>16 DEF LoadRun
    <2>2. /\ record' = AfterReading(record) /\ held' = Loaded(record)
          /\ evaluator' = IF Readable(record) THEN "loaded" ELSE "none"
          /\ UNCHANGED <<dispatch, runner, outcome, outbox, note, listed, accepted>>
        BY <1>16 DEF LoadRun
    <2>3. Noted' /\ (evaluator' = "loaded" => held' = Told)
        BY <2>1, <2>2, <1>f, <1>t, CopyReadFacts
    <2> QED BY <2>1, <2>2, <2>3, <1>f, <1>k, <1>t, CopyFacts
<1>17. CASE EvaluateNothing
    <2>1. /\ record' = Told /\ evaluator' = "asleep" /\ Noted
          /\ UNCHANGED <<dispatch, runner, outcome, outbox, note, listed, accepted>>
        BY <1>17 DEF EvaluateNothing, Evaluating, Save, Sleep
    <2> QED BY <2>1, <1>f, <1>k, <1>t, CopyFacts
<1>18. CASE RetryReady \/ TimeOut \/ EvaluateActive \/ EvaluateWaiting \/ EvaluateReady
    BY <1>18, <1>t, CopyReadFacts
    DEF RetryReady, TimeOut, EvaluateActive, EvaluateWaiting, EvaluateReady, Evaluating
<1>19. CASE PostRecorded \/ RetryOk \/ RetryFails \/ TimeOutSent \/ AnnounceOk \/ AnnounceFails
    BY <1>19 DEF PostRecorded, Sending, NoAnswer, RetryOk, RetryFails, TimeOutSent, AnnounceOk,
        AnnounceFails
<1>20. ~Restart
    BY DEF Restart, Undisturbed
<1> QED BY <1>1, <1>2, <1>3, <1>4, <1>5, <1>6, <1>7, <1>8, <1>9, <1>10, <1>11, <1>12, <1>13,
           <1>14, <1>15, <1>16, <1>17, <1>18, <1>19, <1>20, <1>21
    DEF Next, Run, Runner, Loop, Evaluator

LEMMA VoiceStep == TypeOK /\ VoiceInv /\ [Next]_vars => VoiceInv'
<1> SUFFICES ASSUME TypeOK, VoiceInv, [Next]_vars, Undisturbed'
             PROVE  OrderInv' /\ (Reporting' => CopiesInv' /\ OwnKeyOnly')
    BY DEF VoiceInv
<1>1. CASE UNCHANGED vars
    <2>1. /\ Undisturbed /\ OrderInv' = OrderInv /\ Reporting' = Reporting
        BY <1>1 DEF vars, Undisturbed, OrderInv, Reporting
    <2>2. /\ CopiesInv' = CopiesInv /\ OwnKeyOnly' = OwnKeyOnly
        BY <1>1 DEF vars, CopiesInv, Copies, Noted, Told, Marked, RunnerKey, OwnKeyOnly, Fresh
    <2> QED BY <2>1, <2>2 DEF VoiceInv
<1>2. CASE Next
    <2>1. Undisturbed
        BY <1>2 DEF Undisturbed, Next, Run, Runner, Loop, Evaluator, Spawn, PersistRunRecord,
            RunnerEnds, VisitorArrives, VisitorLeaves, RunnerWrites, RunnerReads, RunnerMarks,
            RunnerDelivers, RunnerFindsItClaimed, ReplayDelivers, ReplayFails, ReplayIdles,
            ReplayReads, ReplayMarks, ListRuns, Reconcile, LoadRun, PostRecorded, RetryReady, RetryOk, RetryFails, TimeOut,
            TimeOutSent, EvaluateNothing, EvaluateActive, EvaluateWaiting, EvaluateReady,
            AnnounceOk, AnnounceFails, Expire, Restart
    <2>2. OrderInv'
        BY <1>2, <2>1, OrderStep DEF VoiceInv
    <2> QED BY <1>2, <2>1, <2>2, ReportingBefore, CopiesStep DEF VoiceInv
<1> QED BY <1>1, <1>2

\* A run is reported by one voice: once its runner has left a callback, no key
\* of the gate's own reaches the control plane, for any number of outages, lost
\* answers, visitors, expiries and replaced evaluators, as long as the record
\* is there before the run ends, the loop is not held up, and nothing restarts.
THEOREM OneVoiceHolds == Spec => []OneVoice
<1>1. TypeOK /\ VoiceInv => OneVoice
    BY DEF VoiceInv, OneVoice, Reporting, OwnKeyOnly, RunnerKey
<1> QED BY <1>1, VoiceInit, VoiceStep, TypeCorrect, PTL DEF Spec

\* A run whose runner reports a failure is never reported as ready under that
\* regime.
THEOREM FailureIsNotReady == Spec => []NoSuccessForFailedRun
<1>1. TypeOK /\ VoiceInv => NoSuccessForFailedRun
    BY DEF VoiceInv, NoSuccessForFailedRun, Reporting, OwnKeyOnly, RunnerKey
<1> QED BY <1>1, VoiceInit, VoiceStep, TypeCorrect, PTL DEF Spec

-----------------------------------------------------------------------------
(***************************************************************************)
(* The callback outbox, however its deliverers overlap                     *)
(***************************************************************************)
\* The files count made attempts, and none of them the last.
FilesCounted ==
    /\ pending # NoFile => pending.attempts < MaxAttempts /\ pending.attempts <= posts
    /\ claimed # NoFile => claimed.attempts < MaxAttempts /\ claimed.attempts <= posts

\* So do deliverers, the one they are about to make included.
DeliverersCounted ==
    \A d \in Deliverers :
        /\ at[d] = "posting" => payload[d] # NoFile /\ payload[d].attempts <= posts + 1
        /\ at[d] = "failed" => payload[d] # NoFile /\ payload[d].attempts <= posts
        /\ at[d] = "refused" => refused

Counted == OutboxTypeOK /\ FilesCounted /\ DeliverersCounted /\ GivesUpLast

LEMMA CountedInit == OutboxInit => Counted
<1> SUFFICES ASSUME OutboxInit PROVE Counted
    OBVIOUS
<1> USE DEF OutboxInit
<1>1. OutboxTypeOK
    <2>0. overlap \in BOOLEAN
        BY OverlapsAssumption
    <2>1. posts \in 0 .. MaxAttempts /\ crashes \in 0 .. MaxCrashes
        BY AttemptsAssumption, CrashesAssumption
    <2>2. at \in [Deliverers -> Steps] /\ payload \in [Deliverers -> Payload \cup {NoFile}]
        BY DEF Steps
    <2> QED BY <2>0, <2>1, <2>2, Zenon DEF OutboxTypeOK
<1>2. FilesCounted
    BY DEF FilesCounted
<1>3. DeliverersCounted
    BY DEF DeliverersCounted
<1>4. GivesUpLast
    BY DEF GivesUpLast
<1> QED BY <1>1, <1>2, <1>3, <1>4 DEF Counted

LEMMA CountedStep == Counted /\ [OutboxNext]_outboxVars => Counted'
<1> SUFFICES ASSUME Counted, [OutboxNext]_outboxVars PROVE Counted'
    OBVIOUS
<1> USE AttemptsAssumption, CrashesAssumption, NoFileAssumption
<1> USE DEF Counted, OutboxTypeOK, FilesCounted, DeliverersCounted, GivesUpLast, Steps, Payload,
            files, server, MoveTo
<1>1. CASE WritePending
    BY <1>1 DEF WritePending, MayStart, Deliverers
<1>2. ASSUME NEW d \in Deliverers, PickPending(d) PROVE Counted'
    BY <1>2 DEF PickPending, MayStart
<1>3. ASSUME NEW d \in Deliverers, PickClaimed(d) PROVE Counted'
    BY <1>3 DEF PickClaimed, MayStart
<1>4. ASSUME NEW d \in Deliverers, Claim(d) PROVE Counted'
    <2>1. OutboxTypeOK'
        BY <1>4 DEF Claim
    <2>2. FilesCounted' /\ GivesUpLast'
        BY <1>4 DEF Claim
    <2>3. DeliverersCounted'
        BY <1>4 DEF Claim
    <2> QED BY <2>1, <2>2, <2>3
<1>5. ASSUME NEW d \in Deliverers, AlreadyClaimed(d) PROVE Counted'
    BY <1>5 DEF AlreadyClaimed
<1>6. ASSUME NEW d \in Deliverers, Read(d) PROVE Counted'
    <2>1. OutboxTypeOK'
        BY <1>6 DEF Read
    <2>2. FilesCounted' /\ GivesUpLast'
        BY <1>6 DEF Read
    <2>3. DeliverersCounted'
        BY <1>6 DEF Read
    <2> QED BY <2>1, <2>2, <2>3
<1>7. ASSUME NEW d \in Deliverers, ReadNothing(d) PROVE Counted'
    BY <1>7 DEF ReadNothing
<1>8. ASSUME NEW d \in Deliverers, Post(d) PROVE Counted'
    <2> /\ at[d] = "posting"
        /\ posts' = IF posts < MaxAttempts THEN posts + 1 ELSE posts
        /\ UNCHANGED <<pending, claimed, delivered, dead, payload, written, crashes, overlap>>
        BY <1>8 DEF Post
    <2>1. posts' \in 0 .. MaxAttempts /\ posts <= posts'
        OBVIOUS
    <2>2. payload[d] # NoFile /\ payload[d].attempts <= posts'
        OBVIOUS
    <2>3. \E step \in {"accepted", "refused", "failed"} :
             at' = [at EXCEPT ![d] = step] /\ (step = "refused" => refused')
        BY <1>8 DEF Post
    <2>4. recorded' \in BOOLEAN /\ refused' \in BOOLEAN /\ (refused => refused')
        BY <1>8 DEF Post
    <2>5. OutboxTypeOK'
        BY <2>1, <2>3, <2>4
    <2>6. FilesCounted' /\ GivesUpLast'
        BY <2>1, <2>4
    <2>7. DeliverersCounted'
        BY <2>1, <2>2, <2>3, <2>4
    <2> QED BY <2>5, <2>6, <2>7
<1>9. ASSUME NEW d \in Deliverers, WriteDelivered(d) PROVE Counted'
    BY <1>9 DEF WriteDelivered
<1>10. ASSUME NEW d \in Deliverers, DeadLetter(d) PROVE Counted'
    <2>1. OutboxTypeOK'
        BY <1>10 DEF DeadLetter, GivesUp
    <2>2. FilesCounted' /\ GivesUpLast'
        BY <1>10 DEF DeadLetter, GivesUp
    <2>3. DeliverersCounted'
        BY <1>10 DEF DeadLetter, GivesUp
    <2> QED BY <2>1, <2>2, <2>3
<1>11. ASSUME NEW d \in Deliverers, WriteRetry(d) PROVE Counted'
    <2>1. OutboxTypeOK'
        BY <1>11 DEF WriteRetry, GivesUp
    <2>2. FilesCounted' /\ GivesUpLast'
        BY <1>11 DEF WriteRetry, GivesUp
    <2>3. DeliverersCounted'
        BY <1>11 DEF WriteRetry, GivesUp
    <2> QED BY <2>1, <2>2, <2>3
<1>12. ASSUME NEW d \in Deliverers, Unlink(d) PROVE Counted'
    <2>1. OutboxTypeOK'
        BY <1>12 DEF Unlink
    <2>2. FilesCounted' /\ GivesUpLast'
        BY <1>12 DEF Unlink
    <2>3. DeliverersCounted'
        BY <1>12 DEF Unlink
    <2> QED BY <2>1, <2>2, <2>3
<1>13. ASSUME NEW d \in Deliverers, Crash(d) PROVE Counted'
    <2>1. OutboxTypeOK'
        BY <1>13 DEF Crash
    <2>2. FilesCounted' /\ GivesUpLast'
        BY <1>13 DEF Crash
    <2>3. DeliverersCounted'
        BY <1>13 DEF Crash
    <2> QED BY <2>1, <2>2, <2>3
<1>14. CASE Elapse
    <2>1. ASSUME pending # NoFile, pending' = [pending EXCEPT !.due = TRUE],
                 UNCHANGED <<claimed, delivered, dead, at, payload, written, server, posts,
                           crashes, overlap>>
          PROVE  Counted'
        <3>1. pending' \in Payload /\ pending'.attempts = pending.attempts
            BY <2>1
        <3>2. OutboxTypeOK'
            BY <2>1, <3>1
        <3>3. FilesCounted' /\ DeliverersCounted' /\ GivesUpLast'
            BY <2>1, <3>1
        <3> QED BY <3>2, <3>3
    <2>2. ASSUME claimed # NoFile, claimed' = [claimed EXCEPT !.due = TRUE],
                 UNCHANGED <<pending, delivered, dead, at, payload, written, server, posts,
                           crashes, overlap>>
          PROVE  Counted'
        <3>1. claimed' \in Payload /\ claimed'.attempts = claimed.attempts
            BY <2>2
        <3>2. OutboxTypeOK'
            BY <2>2, <3>1
        <3>3. FilesCounted' /\ DeliverersCounted' /\ GivesUpLast'
            BY <2>2, <3>1
        <3> QED BY <3>2, <3>3
    <2> QED BY <1>14, <2>1, <2>2 DEF Elapse
<1>15. CASE UNCHANGED outboxVars
    BY <1>15 DEF outboxVars
<1> QED BY <1>1, <1>2, <1>3, <1>4, <1>5, <1>6, <1>7, <1>8, <1>9, <1>10, <1>11, <1>12,
           <1>13, <1>14, <1>15 DEF OutboxNext, Deliver

THEOREM CountedAlways == OutboxSpec => []Counted
BY CountedInit, CountedStep, PTL DEF OutboxSpec

\* Every reachable state of the outbox is well typed; in particular no file and no deliverer
\* counts more than MAX_ATTEMPTS attempts, however deliverers overlap.
THEOREM OutboxTypeCorrect == OutboxSpec => []OutboxTypeOK
BY CountedAlways, PTL DEF Counted

\* A callback is set aside only after a permanent refusal or MAX_ATTEMPTS
\* attempts, however deliverers overlap (deliver_pending_file).
THEOREM SetAsideLast == OutboxSpec => []GivesUpLast
BY CountedAlways, PTL DEF Counted
-----------------------------------------------------------------------------
(***************************************************************************)
(* Deliverers that do not overlap                                          *)
(***************************************************************************)
Alone == \A d, e \in Deliverers : (at[d] # "idle" /\ at[e] # "idle") => d = e

\* What each step finds on file.
OnFile ==
    \A d \in Deliverers :
        /\ at[d] \in {"reading", "posting", "accepted", "refused", "failed"} => claimed # NoFile
        /\ at[d] = "unlinking" => (delivered \/ dead \/ pending # NoFile)

\* Nothing happens before the callback is written.
Untouched ==
    ~written => /\ pending = NoFile /\ claimed = NoFile
                /\ ~delivered /\ ~dead
                /\ \A d \in Deliverers : at[d] = "idle"

SerialInv == Counted /\ Alone /\ OnFile /\ Untouched /\ WrittenKept

LEMMA SerialInit == OutboxInit => SerialInv
<1> SUFFICES ASSUME OutboxInit PROVE SerialInv
    OBVIOUS
<1>1. Counted
    BY CountedInit
<1>2. Alone /\ OnFile /\ Untouched /\ WrittenKept
    BY DEF OutboxInit, Alone, OnFile, Untouched, WrittenKept
<1> QED BY <1>1, <1>2 DEF SerialInv

\* What a step does to the phase: it writes, settles, or leaves it.
PhaseStep == Durable!Write \/ Durable!Settle \/ Phase' = Phase

LEMMA OverlapFixed == [OutboxNext]_outboxVars => UNCHANGED overlap
BY DEF OutboxNext, outboxVars, Deliver, WritePending, PickPending, PickClaimed, Claim,
       AlreadyClaimed, Read, ReadNothing, Post, WriteDelivered, DeadLetter, WriteRetry, Unlink, Crash, Elapse

LEMMA SerialStep ==
    ASSUME ~overlap, SerialInv, [OutboxNext]_outboxVars
    PROVE  SerialInv' /\ PhaseStep /\ ~overlap'
<1> USE NoFileAssumption
<1> USE DEF SerialInv, Alone, OnFile, Untouched, WrittenKept, OutboxTypeOK, Counted, Payload,
            Deliverers, MoveTo, files, server, Steps
<1> DEFINE Good == /\ Alone' /\ OnFile' /\ Untouched' /\ WrittenKept'
                   /\ PhaseStep
<1>0. Counted'
    BY CountedStep
<1> ~overlap'
    BY OverlapFixed
<1>1. ASSUME WritePending PROVE Good
    <2>1. pending' # NoFile
        <3>1. [attempts |-> 0, due |-> TRUE] \in Payload
            BY AttemptsAssumption
        <3>2. pending' = [attempts |-> 0, due |-> TRUE]
            BY <1>1 DEF WritePending
        <3> QED BY <3>1, <3>2
    <2>2. pending = NoFile /\ claimed = NoFile /\ ~delivered /\ ~dead
        BY <1>1 DEF WritePending
    <2>3. Durable!Write
        BY <1>1, <2>1, <2>2 DEF WritePending, Phase, Durable!Write
    <2>4. Alone' /\ OnFile' /\ Untouched' /\ WrittenKept'
        BY <1>1, <2>1, <2>2 DEF WritePending, MayStart
    <2> QED BY <2>3, <2>4 DEF PhaseStep
<1>2. ASSUME NEW d \in Deliverers, PickPending(d) PROVE Good
    BY <1>2 DEF PickPending, MayStart, PhaseStep, Phase, Durable!Write, Durable!Settle
<1>3. ASSUME NEW d \in Deliverers, PickClaimed(d) PROVE Good
    BY <1>3 DEF PickClaimed, MayStart, PhaseStep, Phase, Durable!Write, Durable!Settle
<1>4. ASSUME NEW d \in Deliverers, Claim(d) PROVE Good
    BY <1>4 DEF Claim, PhaseStep, Phase, Durable!Write, Durable!Settle
<1>5. ASSUME NEW d \in Deliverers, AlreadyClaimed(d) PROVE Good
    BY <1>5 DEF AlreadyClaimed, PhaseStep, Phase, Durable!Write, Durable!Settle
<1>6. ASSUME NEW d \in Deliverers, Read(d) PROVE Good
    BY <1>6 DEF Read, PhaseStep, Phase, Durable!Write, Durable!Settle
<1>7. ASSUME NEW d \in Deliverers, ReadNothing(d) PROVE Good
    BY <1>7 DEF ReadNothing, PhaseStep, Phase, Durable!Write, Durable!Settle
<1>8. ASSUME NEW d \in Deliverers, Post(d) PROVE Good
    BY <1>8 DEF Post, PhaseStep, Phase, Durable!Write, Durable!Settle
<1>9. ASSUME NEW d \in Deliverers, WriteDelivered(d) PROVE Good
    BY <1>9 DEF WriteDelivered, PhaseStep, Phase, Durable!Write, Durable!Settle
<1>10. ASSUME NEW d \in Deliverers, DeadLetter(d) PROVE Good
    BY <1>10 DEF DeadLetter, PhaseStep, Phase, Durable!Write, Durable!Settle
<1>11. ASSUME NEW d \in Deliverers, WriteRetry(d) PROVE Good
    <2>1. payload[d] \in Payload
        BY <1>11 DEF WriteRetry, DeliverersCounted
    <2>2. pending' # NoFile
        BY <1>11, <2>1 DEF WriteRetry
    <2>3. Alone' /\ OnFile' /\ Untouched' /\ WrittenKept'
        BY <1>11, <2>2 DEF WriteRetry
    <2>4. PhaseStep
        BY <1>11, <2>2 DEF WriteRetry, PhaseStep, Phase
    <2> QED BY <2>3, <2>4
<1>12. ASSUME NEW d \in Deliverers, Unlink(d) PROVE Good
    BY <1>12 DEF Unlink, PhaseStep, Phase, Durable!Write, Durable!Settle
<1>13. ASSUME NEW d \in Deliverers, Crash(d) PROVE Good
    BY <1>13 DEF Crash, PhaseStep, Phase, Durable!Write, Durable!Settle
<1>14. ASSUME Elapse PROVE Good
    <2>1. /\ pending' # NoFile <=> pending # NoFile
          /\ claimed' # NoFile <=> claimed # NoFile
        <3>1. ASSUME pending # NoFile, pending' = [pending EXCEPT !.due = TRUE]
              PROVE  pending' # NoFile
            BY <3>1
        <3>2. ASSUME claimed # NoFile, claimed' = [claimed EXCEPT !.due = TRUE]
              PROVE  claimed' # NoFile
            BY <3>2
        <3> QED BY <1>14, <3>1, <3>2 DEF Elapse
    <2>2. UNCHANGED <<delivered, dead, at, written>>
        BY <1>14 DEF Elapse
    <2> QED BY <2>1, <2>2 DEF PhaseStep, Phase
<1>15. ASSUME UNCHANGED outboxVars PROVE Good
    BY <1>15 DEF outboxVars, PhaseStep, Phase
<1> QED BY <1>0, <1>1, <1>2, <1>3, <1>4, <1>5, <1>6, <1>7, <1>8, <1>9, <1>10, <1>11,
           <1>12, <1>13, <1>14, <1>15 DEF OutboxNext, Deliver

\* Overlap is settled at the start; without it SerialInv is kept.
SerialIfApart == overlap \/ SerialInv

LEMMA SerialIfApartStep ==
    SerialIfApart /\ [OutboxNext]_outboxVars => SerialIfApart' /\ (overlap \/ PhaseStep)
<1> SUFFICES ASSUME SerialIfApart, [OutboxNext]_outboxVars
             PROVE  SerialIfApart' /\ (overlap \/ PhaseStep)
    OBVIOUS
<1>1. CASE overlap
    BY <1>1, OverlapFixed DEF SerialIfApart
<1>2. CASE ~overlap
    BY <1>2, SerialStep DEF SerialIfApart
<1> QED BY <1>1, <1>2

LEMMA SerialAlways == OutboxSpec => []SerialIfApart
<1>1. SerialIfApart /\ [OutboxNext]_outboxVars => SerialIfApart'
    BY SerialIfApartStep
<1>2. OutboxInit => SerialIfApart
    BY SerialInit DEF SerialIfApart
<1> QED BY <1>1, <1>2, PTL DEF OutboxSpec

\* With one deliverer at work at a time, no death of a deliverer between two
\* file operations loses a written callback (deliver_pending_file).
THEOREM CallbackKept == OutboxSpec => []NeverLost
<1>1. SerialIfApart => NeverLost
    BY DEF SerialIfApart, SerialInv, NeverLost
<1> QED BY <1>1, SerialAlways, PTL

\* With one deliverer at work at a time, the outbox implements DurableCallback:
\* a callback is on file until it is settled, and stays settled.
THEOREM OutboxDurable == OutboxSpec => CallbackDurable
<1>1. OutboxInit => Durable!Init
    BY DEF OutboxInit, Durable!Init, Phase
<1>2. SerialIfApart /\ [OutboxNext]_outboxVars => [Durable!Next]_Phase
    <2> SUFFICES ASSUME SerialIfApart, [OutboxNext]_outboxVars PROVE [Durable!Next]_Phase
        OBVIOUS
    <2>1. CASE overlap
        BY <2>1, OverlapFixed DEF Phase
    <2>2. CASE ~overlap
        BY <2>2, SerialIfApartStep DEF PhaseStep, Durable!Next
    <2> QED BY <2>1, <2>2
<1> QED BY <1>1, <1>2, SerialAlways, PTL DEF OutboxSpec, CallbackDurable, Durable!Spec
=============================================================================
