--------------------------- MODULE PaperPipeline ---------------------------
(***************************************************************************)
(* The paper pipeline of the control plane: drafting the paper of a        *)
(* completed run (draft_next), its review row in                           *)
(* publication_automation_items, rewriting the draft for publication, and  *)
(* the finalization package.                                               *)
(*                                                                         *)
(* Every endpoint is a synchronous function of a thread pool; the store    *)
(* locks one "with _connect()" block at a time.  A request therefore reads *)
(* in one step and writes in later ones, with files written in between.    *)
(* One paper is modelled: papers share no row and no file.  A CALL is what *)
(* a client asks for under one idempotency key; the client repeats it with *)
(* the same key when it saw no answer, so that a call has any number of    *)
(* attempts, possibly at the same time.                                    *)
(***************************************************************************)
EXTENDS Naturals, FiniteSets

CONSTANTS
    Threads,  \* request threads
    Calls,    \* idempotent calls: the idempotency keys of the clients
    KindOf,   \* what each call asks for
    Target,   \* the review status a call of kind "status" asks for
    NoCall,   \* the package of a review that has none
    Regimes   \* sets of hazards; a behaviour is exposed to one of them

\*  failure  a write to the database or the paper writer fails
\*  crash    the control plane restarts, requests are gone
\*  overlap  requests run at the same time
AllHazards == {"failure", "crash", "overlap"}

Kinds == {"rewrite", "batch", "finalize", "claim", "status", "checklist"}

ReviewStatus ==
    {"queued", "claimed", "blocked", "finalized", "deferred", "rejected",
     "unreviewed", "triage_ready", "in_review", "changes_requested",
     "approved_for_finalization"}

ASSUME CallsAssumption ==
    /\ KindOf \in [Calls -> Kinds]
    /\ Target \in [Calls -> ReviewStatus]
    /\ NoCall \notin Calls
ASSUME RegimesAssumption == Regimes \subseteq SUBSET AllHazards

(***************************************************************************)
(* The status column of a review                                           *)
(***************************************************************************)
SYSTEM_REVIEW_STATUSES == {"queued", "unreviewed", "triage_ready"}

\* Edges the status endpoint may take; finalized and rejected have none.
ALLOWED_STATUS_TRANSITIONS ==
    [s \in ReviewStatus |->
       CASE s = "queued"       -> {"claimed", "blocked", "deferred", "rejected"}
         [] s = "claimed"      -> {"queued", "blocked", "finalized", "rejected"}
         [] s = "blocked"      -> {"queued", "claimed", "rejected"}
         [] s = "deferred"     -> {"queued", "rejected"}
         [] s = "unreviewed"   -> {"queued", "triage_ready", "blocked", "rejected"}
         [] s = "triage_ready" ->
               {"queued", "claimed", "in_review", "blocked", "rejected"}
         [] s = "in_review"    ->
               {"claimed", "changes_requested", "blocked",
                "approved_for_finalization", "rejected"}
         [] s = "changes_requested" ->
               {"blocked", "queued", "claimed", "in_review", "rejected"}
         [] s = "approved_for_finalization" -> {"finalized", "claimed", "in_review"}
         [] OTHER -> {}]

\* Faulty variant: any edge of the table may be taken.
MayMoveAlongEdge(s, target) == target \in ALLOWED_STATUS_TRANSITIONS[s] \cup {s}

\* What the status endpoint accepts from a review that reads s.
MayMove(s, target) ==
    /\ target \in ALLOWED_STATUS_TRANSITIONS[s] \cup {s}
    /\ target \notin {"approved_for_finalization", "finalized"}

\* Faulty variant: only a missing review is refused.
MayClaimAny(s) == s # "none"

MayClaim(s) ==
    s \in {"queued", "claimed", "triage_ready", "unreviewed", "changes_requested",
           "blocked", "in_review"}

\* Neither a rewrite nor an automated finalization starts from these.
HeldByReview(s) ==
    s \in {"blocked", "changes_requested", "in_review", "rejected", "unreviewed"}

VARIABLES
    drafted,    \* the papers row exists
    review,     \* the review row: status ("none" without a row), package, and
                \* the checklist answers it holds, by the calls that gave them
    files,      \* the five draft artifacts: what wrote them
    manifests,  \* calls whose finalization manifest is on disk
    events,     \* <<event type, call>> pairs in control_events
    request,    \* what each request thread is doing and remembers
    hazards     \* what this behaviour is exposed to; never changes

disk == <<files, manifests>>
vars == <<drafted, review, disk, events, request, hazards>>

(***************************************************************************)
(* State                                                                   *)
(***************************************************************************)
Phases ==
    {"idle", "draft_write", "draft_record", "backfill", "snapshot",
     "rewrite_write", "rewrite_record", "restore", "finalize_read",
     "manifest_write", "finalize_commit", "claim_write", "status_write",
     "checklist_write"}

NoFiles == "no files"
PartDraft == "part"        \* some of the five, of drafts that were cut short
WholeDraft == "draft"      \* the five of one draft
PatchedDraft == "patched"  \* the five, of several drafts: a later one fills gaps
DraftContents == {NoFiles, PartDraft, WholeDraft, PatchedDraft}
Mixed == "mixed"           \* the five, some of a rewrite and some from before it
Contents == DraftContents \cup {Mixed} \cup Calls

ASSUME ContentsAssumption == Calls \cap (DraftContents \cup {Mixed}) = {}

Complete(f) == f \notin {NoFiles, PartDraft}

\* call: the call a thread works on.  before: the artifacts it found.
\* had: whether the manifest it writes was there.  answers: the checklist it read.
Idle == [at |-> "idle", call |-> NoCall, before |-> NoFiles,
         had |-> FALSE, answers |-> {}]

At(t, phase) == request[t].at = phase
Call(t) == request[t].call
Recorded(type, c) == <<type, c>> \in events

MoveTo(t, phase) == request' = [request EXCEPT ![t].at = phase]
Finish(t) == request' = [request EXCEPT ![t] = Idle]

\* A thread takes up a request; without overlap, no other is under way.
Begin(t, fields) ==
    /\ At(t, "idle")
    /\ "overlap" \notin hazards => \A u \in Threads : At(u, "idle")
    /\ request' = [request EXCEPT ![t] = fields]
    /\ UNCHANGED <<drafted, review, disk, events, hazards>>

BeginCall(t, c, phase) == Begin(t, [Idle EXCEPT !.at = phase, !.call = c])

\* A request ends with an exception before it has changed anything.
GiveUp(t) ==
    /\ "failure" \in hazards
    /\ Finish(t)
    /\ UNCHANGED <<drafted, review, disk, events, hazards>>

Init ==
    /\ drafted = FALSE
    /\ review = [status |-> "none", package |-> NoCall, answers |-> {}]
    /\ files = NoFiles
    /\ manifests = {}
    /\ events = {}
    /\ request = [t \in Threads |-> Idle]
    /\ hazards \in Regimes

(***************************************************************************)
(* draft_next: artifacts, papers row, review row                           *)
(***************************************************************************)

\* The candidate is a paper-ready completed run without a papers row.
BeginDraft(t) ==
    /\ ~drafted
    /\ BeginCall(t, NoCall, "draft_write")

\* The drain asks without force: artifacts that exist stay, file by file.
DraftedOver(f) ==
    CASE f = NoFiles   -> WholeDraft
      [] f = PartDraft -> PatchedDraft
      [] OTHER         -> f

\* The five are written one after the other, and nothing takes them back.
DraftCutShort(f) == {f} \cup (IF f = NoFiles THEN {PartDraft} ELSE {})

WriteDraft(t) ==
    /\ At(t, "draft_write")
    /\ files' = DraftedOver(files)
    /\ MoveTo(t, "draft_record")
    /\ UNCHANGED <<drafted, review, manifests, events, hazards>>

WriteDraftFails(t) ==
    /\ At(t, "draft_write")
    /\ "failure" \in hazards
    /\ files' \in DraftCutShort(files)
    /\ Finish(t)
    /\ UNCHANGED <<drafted, review, manifests, events, hazards>>

RecordDraft(t) ==
    /\ At(t, "draft_record")
    /\ drafted' = TRUE
    /\ MoveTo(t, "backfill")
    /\ UNCHANGED <<review, disk, events, hazards>>

DraftFails(t) ==
    /\ At(t, "draft_record") \/ At(t, "backfill")
    /\ GiveUp(t)

\* The operator may ask for the review rows of all papers.
BeginBackfill(t) ==
    /\ drafted
    /\ BeginCall(t, NoCall, "backfill")

\* A review the system alone has touched returns to the queue.
Backfilled(r) ==
    IF r.status \in SYSTEM_REVIEW_STATUSES \cup {"none"}
    THEN [r EXCEPT !.status = "queued"]
    ELSE r

Backfill(t) ==
    /\ At(t, "backfill")
    /\ review' = Backfilled(review)
    /\ Finish(t)
    /\ UNCHANGED <<drafted, disk, events, hazards>>

(***************************************************************************)
(* Rewriting the draft                                                     *)
(***************************************************************************)

\* The batch takes unfinalized papers that were never rewritten.
InBatch == review.status # "finalized" /\ \A c \in Calls : ~Recorded("rewritten", c)

\* Rows and recorded event are read; a recorded call is answered as a replay.
BeginRewrite(t, c) ==
    /\ KindOf[c] \in {"rewrite", "batch"}
    /\ KindOf[c] = "batch" => InBatch
    /\ drafted
    /\ review.status # "none"
    /\ ~HeldByReview(review.status)
    /\ ~Recorded("rewritten", c)
    /\ BeginCall(t, c, "snapshot")

SnapshotArtifacts(t) ==
    /\ At(t, "snapshot")
    /\ request' = [request EXCEPT ![t].at = "rewrite_write", ![t].before = files]
    /\ UNCHANGED <<drafted, review, disk, events, hazards>>

\* Every client asks for a rewrite with force: all five are replaced.
WriteRewrite(t) ==
    /\ At(t, "rewrite_write")
    /\ files' = Call(t)
    /\ MoveTo(t, "rewrite_record")
    /\ UNCHANGED <<drafted, review, manifests, events, hazards>>

\* The writer or a file fails: nothing or a part is written.
WriteRewriteFails(t) ==
    /\ At(t, "rewrite_write")
    /\ "failure" \in hazards
    /\ files' \in {files, Mixed}
    /\ MoveTo(t, "restore")
    /\ UNCHANGED <<drafted, review, manifests, events, hazards>>

\* upsert_paper and append_event; the same payload again is a replay.
RecordRewrite(t) ==
    /\ At(t, "rewrite_record")
    /\ events' = events \cup {<<"rewritten", Call(t)>>}
    /\ MoveTo(t, "finalize_read")
    /\ UNCHANGED <<drafted, review, disk, hazards>>

\* The write fails, or another attempt has recorded another writer's answer.
RecordRewriteFails(t) ==
    /\ At(t, "rewrite_record")
    /\ "failure" \in hazards \/ Recorded("rewritten", Call(t))
    /\ MoveTo(t, "restore")
    /\ UNCHANGED <<drafted, review, disk, events, hazards>>

\* Faulty variant: a failed rewrite leaves what it has written.
LeaveArtifacts(t) ==
    /\ At(t, "restore")
    /\ Finish(t)
    /\ UNCHANGED <<drafted, review, disk, events, hazards>>

\* What the failed attempt found on disk is put back (that this fails as well
\* is left out).
RestoreArtifacts(t) ==
    /\ At(t, "restore")
    /\ files' = request[t].before
    /\ Finish(t)
    /\ UNCHANGED <<drafted, review, manifests, events, hazards>>

(***************************************************************************)
(* The finalization package: at the end of a rewrite, or on request        *)
(***************************************************************************)
BeginFinalization(t, c) ==
    /\ KindOf[c] = "finalize"
    /\ review.status # "none"
    /\ BeginCall(t, c, "finalize_read")

\* Replayed, finalized before, held by its review, or without artifacts.
NothingToFinalize(c) ==
    \/ Recorded("finalized", c)
    \/ review.status = "finalized"
    \/ HeldByReview(review.status)
    \/ ~Complete(files)

ReadForFinalization(t) ==
    /\ At(t, "finalize_read")
    /\ IF NothingToFinalize(Call(t)) THEN Finish(t) ELSE MoveTo(t, "manifest_write")
    /\ UNCHANGED <<drafted, review, disk, events, hazards>>

WriteManifest(t) ==
    /\ At(t, "manifest_write")
    /\ manifests' = manifests \cup {Call(t)}
    /\ request' = [request EXCEPT ![t].at = "finalize_commit",
                                  ![t].had = Call(t) \in manifests]
    /\ UNCHANGED <<drafted, review, files, events, hazards>>

CommitFinalization(t) ==
    /\ At(t, "finalize_commit")
    /\ events' = events \cup {<<"finalized", Call(t)>>}
    /\ review' = IF Recorded("finalized", Call(t)) THEN review
                 ELSE [review EXCEPT !.status = "finalized", !.package = Call(t)]
    /\ Finish(t)
    /\ UNCHANGED <<drafted, disk, hazards>>

\* A failing transaction changes nothing; the manifest becomes what it was.
FinalizationFails(t) ==
    /\ At(t, "finalize_commit")
    /\ "failure" \in hazards
    /\ manifests' = IF request[t].had THEN manifests ELSE manifests \ {Call(t)}
    /\ Finish(t)
    /\ UNCHANGED <<drafted, review, files, events, hazards>>

FinalizationReadFails(t) ==
    /\ At(t, "finalize_read") \/ At(t, "manifest_write")
    /\ GiveUp(t)

(***************************************************************************)
(* Claims, status changes and checklist answers: read, then write          *)
(***************************************************************************)
BeginClaim(t, c) ==
    /\ KindOf[c] = "claim"
    /\ MayClaim(review.status)
    /\ Begin(t, [Idle EXCEPT !.at = "claim_write", !.call = c,
                             !.answers = review.answers])

BeginStatusUpdate(t, c) ==
    /\ KindOf[c] = "status"
    /\ review.status # "none"
    /\ MayMove(review.status, Target[c])
    /\ BeginCall(t, c, "status_write")

BeginAnswer(t, c) ==
    /\ KindOf[c] = "checklist"
    /\ review.status # "none"
    /\ Begin(t, [Idle EXCEPT !.at = "checklist_write", !.call = c,
                             !.answers = review.answers \cup {c}])

\* One transaction: the event and, if it is new, the row.
WriteOnce(t, type, row) ==
    /\ events' = events \cup {<<type, Call(t)>>}
    /\ review' = IF Recorded(type, Call(t)) THEN review ELSE row
    /\ Finish(t)
    /\ UNCHANGED <<drafted, disk, hazards>>

\* Faulty variant: the claim starts a new checklist.
ClaimAfresh(t) ==
    /\ At(t, "claim_write")
    /\ WriteOnce(t, "claimed", [review EXCEPT !.status = "claimed", !.answers = {}])

\* The claim writes the checklist back as it has read it.
Claim(t) ==
    /\ At(t, "claim_write")
    /\ WriteOnce(t, "claimed",
                 [review EXCEPT !.status = "claimed", !.answers = request[t].answers])

StatusUpdate(t) ==
    /\ At(t, "status_write")
    /\ WriteOnce(t, "status_changed", [review EXCEPT !.status = Target[Call(t)]])

Answer(t) ==
    /\ At(t, "checklist_write")
    /\ WriteOnce(t, "answered", [review EXCEPT !.answers = request[t].answers])

ReviewWriteFails(t) ==
    /\ At(t, "claim_write") \/ At(t, "status_write") \/ At(t, "checklist_write")
    /\ GiveUp(t)

(***************************************************************************)
(* Restart of the control plane                                            *)
(***************************************************************************)
\* A writing cut short leaves a part of it.
Crash ==
    /\ "crash" \in hazards
    /\ \/ files' = files
       \/ (\E t \in Threads : At(t, "rewrite_write")) /\ files' = Mixed
       \/ (\E t \in Threads : At(t, "draft_write")) /\ files' \in DraftCutShort(files)
    /\ request' = [t \in Threads |-> Idle]
    /\ UNCHANGED <<drafted, review, manifests, events, hazards>>

Draft(t) ==
    \/ WriteDraft(t) \/ WriteDraftFails(t)
    \/ RecordDraft(t) \/ DraftFails(t) \/ Backfill(t)

Rewrite(t) ==
    \/ SnapshotArtifacts(t)
    \/ WriteRewrite(t) \/ WriteRewriteFails(t)
    \/ RecordRewrite(t) \/ RecordRewriteFails(t)
    \/ RestoreArtifacts(t)

Finalize(t) ==
    \/ ReadForFinalization(t) \/ FinalizationReadFails(t)
    \/ WriteManifest(t)
    \/ CommitFinalization(t) \/ FinalizationFails(t)

WriteReview(t) == Claim(t) \/ StatusUpdate(t) \/ Answer(t) \/ ReviewWriteFails(t)

Serve(t) == Draft(t) \/ Rewrite(t) \/ Finalize(t) \/ WriteReview(t)

Ask(t) ==
    \/ BeginDraft(t)
    \/ BeginBackfill(t)
    \/ \E c \in Calls : \/ BeginRewrite(t, c)
                        \/ BeginFinalization(t, c)
                        \/ BeginClaim(t, c)
                        \/ BeginStatusUpdate(t, c)
                        \/ BeginAnswer(t, c)

Next == (\E t \in Threads : Ask(t) \/ Serve(t)) \/ Crash

Spec == Init /\ [][Next]_vars

(***************************************************************************)
(* Properties                                                              *)
(***************************************************************************)

\* Shape of the state; an idle thread remembers nothing of its last request.
TypeOK ==
    /\ drafted \in BOOLEAN
    /\ review.status \in ReviewStatus \cup {"none"}
    /\ review.package \in Calls \cup {NoCall}
    /\ review.answers \subseteq Calls
    /\ files \in Contents
    /\ manifests \subseteq Calls
    /\ events \subseteq {"rewritten", "finalized", "claimed", "status_changed", "answered"}
                        \X Calls
    /\ request \in [Threads ->
          [at : Phases, call : Calls \cup {NoCall}, before : Contents,
           had : BOOLEAN, answers : SUBSET Calls]]
    /\ \A t \in Threads : At(t, "idle") => request[t] = Idle
    /\ hazards \in Regimes

\* A finalized review names a package whose preparation is recorded, and,
\* where requests do not overlap, whose manifest is on disk (a failing second
\* attempt of the same call would remove it): prepare_..._finalization_package
\* alone makes a review finalized.
PackageBacked ==
    review.status = "finalized" =>
        /\ Recorded("finalized", review.package)
        /\ "overlap" \notin hazards => review.package \in manifests

\* Finalized and rejected reviews stay so, whatever fails or is repeated, as
\* long as requests do not overlap: the check of the status and the write that
\* rests on it are two blocks.
TerminalFinal ==
    [][("overlap" \notin hazards /\ review.status \in {"finalized", "rejected"})
          => review'.status = review.status]_vars

\* Without overlap a recorded checklist answer is kept by the later read and
\* write of the checklist in other answers and in claims.
AnswersKept ==
    "overlap" \notin hazards =>
        \A c \in Calls : Recorded("answered", c) => c \in review.answers

\* The five artifacts of a paper on record are there, however many drafts were
\* cut short before it; and when no request is under way they are of drafts or
\* of a rewrite that is recorded, failures notwithstanding: a failed rewrite puts
\* back what it found. A crash or an overlap may break the second.
ArtifactsAccounted ==
    /\ drafted => Complete(files)
    /\ (hazards \subseteq {"failure"} /\ \A t \in Threads : At(t, "idle")) =>
          files \in DraftContents \cup {c \in Calls : Recorded("rewritten", c)}
=============================================================================
