--------------------------- MODULE CallbackOutbox ---------------------------
(***************************************************************************)
(* The durable callback outbox of the worker, for the callback of one run. *)
(*                                                                         *)
(* The callback is a file: <run>.json while it is pending, renamed to      *)
(* <run>.json.claimed by whoever delivers it, then copied to the delivered *)
(* or the dead-letter directory, or written back to <run>.json for a later *)
(* attempt.  Every file is written atomically; the steps between two file  *)
(* operations are not.  DELIVERERS are the runner, once, right after it    *)
(* wrote the file, and any process that replays the outbox: the gate on    *)
(* every tick of its loop, an operator's command line.                     *)
(***************************************************************************)
EXTENDS Naturals

CONSTANTS
    Replayers,      \* processes that replay the outbox
    RunnerProcess,  \* the deliverer that is the runner
    MaxAttempts,    \* MAX_ATTEMPTS
    Overlaps,       \* instance: may deliverers be at work at the same time
    NoFile,         \* an absent file, an empty local variable
    MaxCrashes      \* bound: deliverers that die in the middle

ASSUME AttemptsAssumption == MaxAttempts \in Nat \ {0}
ASSUME CrashesAssumption == MaxCrashes \in Nat
ASSUME OverlapsAssumption == Overlaps \subseteq BOOLEAN
ASSUME RunnerAssumption == RunnerProcess \notin Replayers

Deliverers == Replayers \cup {RunnerProcess}

\* attempt_count, which no file takes past MaxAttempts, and whether
\* next_attempt_at has passed.
Payload == [attempts : 0 .. MaxAttempts, due : BOOLEAN]
ASSUME NoFileAssumption == NoFile \notin Payload

VARIABLES
    overlap,    \* deliverers may be at work at the same time (never changes)
    pending,    \* callback_outbox/<run>.json
    claimed,    \* callback_outbox/<run>.json.claimed
    delivered,  \* callback_delivered/<run>.json exists
    dead,       \* callback_dead_letter/<run>.json exists
    at,         \* the step a deliverer has reached
    payload,    \* the payload it has read
    written,    \* the runner has written its callback
    recorded,   \* external: the control plane has recorded the callback
    refused,    \* external: it has answered with a permanent 4xx
    posts,      \* POSTs made, up to MaxAttempts (history)
    crashes

files == <<pending, claimed, delivered, dead>>
server == <<recorded, refused>>
outboxVars == <<overlap, pending, claimed, delivered, dead, at, payload, written, recorded,
                refused, posts, crashes>>

Steps == {"idle", "claiming", "reading", "posting", "accepted", "refused", "failed",
          "unlinking"}

OutboxTypeOK ==
    /\ overlap \in BOOLEAN
    /\ pending \in Payload \cup {NoFile}
    /\ claimed \in Payload \cup {NoFile}
    /\ delivered \in BOOLEAN /\ dead \in BOOLEAN
    /\ at \in [Deliverers -> Steps]
    /\ payload \in [Deliverers -> Payload \cup {NoFile}]
    /\ written \in BOOLEAN
    /\ recorded \in BOOLEAN /\ refused \in BOOLEAN
    /\ posts \in 0 .. MaxAttempts
    /\ crashes \in 0 .. MaxCrashes

OutboxInit ==
    /\ overlap \in Overlaps
    /\ pending = NoFile /\ claimed = NoFile
    /\ delivered = FALSE /\ dead = FALSE
    /\ at = [d \in Deliverers |-> "idle"]
    /\ payload = [d \in Deliverers |-> NoFile]
    /\ written = FALSE
    /\ recorded = FALSE /\ refused = FALSE
    /\ posts = 0
    /\ crashes = 0
-----------------------------------------------------------------------------
MoveTo(d, step) == at' = [at EXCEPT ![d] = step]
\* A deliverer can start: alone, unless deliverers may overlap.
MayStart(d) == at[d] = "idle" /\ (overlap \/ \A e \in Deliverers : at[e] = "idle")

\* write_pending, after which the runner goes straight on to deliver.
WritePending ==
    /\ ~written
    /\ MayStart(RunnerProcess)
    /\ written' = TRUE
    /\ pending' = [attempts |-> 0, due |-> TRUE]
    /\ MoveTo(RunnerProcess, "claiming")
    /\ UNCHANGED <<claimed, delivered, dead, payload, server, posts, crashes, overlap>>

\* replay_pending: a pending file whose retry is due.
PickPending(d) ==
    /\ d \in Replayers /\ MayStart(d)
    /\ pending # NoFile /\ pending.due
    /\ MoveTo(d, "claiming")
    /\ UNCHANGED <<files, payload, written, server, posts, crashes, overlap>>

\* Faulty variant: claimed files are left to the process that claimed them.
PickNoClaimed(d) ==
    /\ FALSE
    /\ UNCHANGED outboxVars

\* A claimed file is adopted as it is, whoever claimed it.
PickClaimed(d) ==
    /\ d \in Replayers /\ MayStart(d)
    /\ claimed # NoFile /\ claimed.due
    /\ MoveTo(d, "reading")
    /\ UNCHANGED <<files, payload, written, server, posts, crashes, overlap>>

\* The rename replaces a claimed file that is still there.
Claim(d) ==
    /\ at[d] = "claiming" /\ pending # NoFile
    /\ claimed' = pending
    /\ pending' = NoFile
    /\ MoveTo(d, "reading")
    /\ UNCHANGED <<delivered, dead, payload, written, server, posts, crashes, overlap>>

AlreadyClaimed(d) ==
    /\ at[d] = "claiming" /\ pending = NoFile
    /\ MoveTo(d, "idle")
    /\ UNCHANGED <<files, payload, written, server, posts, crashes, overlap>>

Read(d) ==
    /\ at[d] = "reading" /\ claimed # NoFile
    /\ payload' = [payload EXCEPT ![d] = [claimed EXCEPT !.attempts = @ + 1]]
    /\ MoveTo(d, "posting")
    /\ UNCHANGED <<files, written, server, posts, crashes, overlap>>

\* Nothing to read and nothing to put back.
ReadNothing(d) ==
    /\ at[d] = "reading" /\ claimed = NoFile
    /\ MoveTo(d, "idle")
    /\ UNCHANGED <<files, payload, written, server, posts, crashes, overlap>>

\* The control plane records a key once and answers a repetition with success;
\* an answer may get lost, and one that never recorded it may refuse for good.
Post(d) ==
    /\ at[d] = "posting"
    /\ \/ MoveTo(d, "accepted") /\ recorded' = TRUE /\ UNCHANGED refused
       \/ MoveTo(d, "failed") /\ recorded' \in {recorded, TRUE} /\ UNCHANGED refused
       \/ MoveTo(d, "refused") /\ ~recorded /\ refused' = TRUE /\ UNCHANGED recorded
    /\ posts' = IF posts < MaxAttempts THEN posts + 1 ELSE posts
    /\ UNCHANGED <<files, payload, written, crashes, overlap>>

WriteDelivered(d) ==
    /\ at[d] = "accepted"
    /\ delivered' = TRUE
    /\ MoveTo(d, "unlinking")
    /\ UNCHANGED <<pending, claimed, dead, payload, written, server, posts, crashes, overlap>>

\* Faulty variants: one attempt short, and one too many.
GivesUpEarly(copy) == copy.attempts + 1 >= MaxAttempts
GivesUpLate(copy) == copy.attempts > MaxAttempts
GivesUp(copy) == copy.attempts >= MaxAttempts

DeadLetter(d) ==
    /\ at[d] = "refused" \/ (at[d] = "failed" /\ GivesUp(payload[d]))
    /\ dead' = TRUE
    /\ MoveTo(d, "unlinking")
    /\ UNCHANGED <<pending, claimed, delivered, payload, written, server, posts, crashes, overlap>>

\* Faulty variant: the claimed file goes before its successor is written.
RetryUnlinkingFirst(d) ==
    /\ at[d] = "failed" /\ ~GivesUp(payload[d])
    /\ claimed' = NoFile
    /\ MoveTo(d, "unlinking")
    /\ UNCHANGED <<pending, delivered, dead, payload, written, server, posts, crashes, overlap>>

WriteRetry(d) ==
    /\ at[d] = "failed" /\ ~GivesUp(payload[d])
    /\ pending' = [payload[d] EXCEPT !.due = FALSE]
    /\ MoveTo(d, "unlinking")
    /\ UNCHANGED <<claimed, delivered, dead, payload, written, server, posts, crashes, overlap>>

\* Whatever the claimed file is by now, and whether it is there at all.
Unlink(d) ==
    /\ at[d] = "unlinking"
    /\ claimed' = NoFile
    /\ payload' = [payload EXCEPT ![d] = NoFile]
    /\ MoveTo(d, "idle")
    /\ UNCHANGED <<pending, delivered, dead, written, server, posts, crashes, overlap>>
-----------------------------------------------------------------------------
\* next_attempt_at passes.
Elapse ==
    \/ /\ pending # NoFile /\ ~pending.due
       /\ pending' = [pending EXCEPT !.due = TRUE]
       /\ UNCHANGED <<claimed, delivered, dead, at, payload, written, server, posts, crashes, overlap>>
    \/ /\ claimed # NoFile /\ ~claimed.due
       /\ claimed' = [claimed EXCEPT !.due = TRUE]
       /\ UNCHANGED <<pending, delivered, dead, at, payload, written, server, posts, crashes, overlap>>

\* A deliverer dies; the files stay as they are.
Crash(d) ==
    /\ at[d] # "idle" /\ crashes < MaxCrashes
    /\ crashes' = crashes + 1
    /\ payload' = [payload EXCEPT ![d] = NoFile]
    /\ MoveTo(d, "idle")
    /\ UNCHANGED <<files, written, server, posts, overlap>>

Deliver(d) ==
    \/ Claim(d) \/ AlreadyClaimed(d) \/ Read(d) \/ ReadNothing(d) \/ Post(d)
    \/ WriteDelivered(d) \/ DeadLetter(d) \/ WriteRetry(d) \/ Unlink(d)

OutboxNext ==
    \/ WritePending
    \/ \E d \in Deliverers : PickPending(d) \/ PickClaimed(d) \/ Deliver(d) \/ Crash(d)
    \/ Elapse

OutboxSpec == OutboxInit /\ [][OutboxNext]_outboxVars

\* The runner's steps and the gate's loop go on, and time passes. No POST has
\* to succeed.
OutboxFairness ==
    /\ WF_outboxVars(Elapse)
    /\ \A d \in Deliverers : WF_outboxVars(Deliver(d))
    /\ WF_outboxVars(\E d \in Replayers : PickPending(d) \/ PickClaimed(d))

OutboxFairSpec == OutboxSpec /\ OutboxFairness
-----------------------------------------------------------------------------
(***************************************************************************)
(* Properties                                                              *)
(***************************************************************************)

\* A written callback is on file, or delivered, or set aside, however
\* deliverers interleave.
WrittenKept ==
    written => \/ pending # NoFile \/ claimed # NoFile
               \/ delivered \/ dead

\* As long as deliverers take turns, no death of one between two file
\* operations loses a written callback.
NeverLost == overlap \/ WrittenKept

\* The outbox is a durable callback: on file from its writing to its
\* settlement. Overlapping deliverers are promised nothing.
Phase ==
    IF overlap THEN "unwritten"
    ELSE IF delivered \/ dead THEN "settled"
    ELSE IF pending # NoFile \/ claimed # NoFile THEN "held"
    ELSE "unwritten"

Durable == INSTANCE DurableCallback WITH phase <- Phase

CallbackDurable == Durable!Spec

\* A callback is set aside only if it was refused for good or has had all its
\* attempts (MAX_ATTEMPTS), however the deliverers interleave.
GivesUpLast == dead => (refused \/ posts >= MaxAttempts)

\* A written callback is delivered or set aside in the end, even if no POST
\* ever succeeds and deliverers die with the callback claimed.
EventuallySettled == (written /\ ~overlap) ~> (delivered \/ dead)
=============================================================================
