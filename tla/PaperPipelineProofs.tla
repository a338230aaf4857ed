------------------------ MODULE PaperPipelineProofs ------------------------
(***************************************************************************)
(* Proofs about PaperPipeline, for any calls and any number of request     *)
(* threads.                                                                *)
(*                                                                         *)
(* A request decides on what it has read and writes later.  Where requests *)
(* do not overlap, whoever is between the two is alone, so what it decided *)
(* on is still true when it writes (Decided): that is why a finalized or   *)
(* rejected review stays so and no recorded answer is lost.  That only a   *)
(* recorded package makes a review finalized needs none of it.             *)
(***************************************************************************)
EXTENDS PaperPipeline, TLAPS

Request ==
    [at : Phases, call : Calls \cup {NoCall}, before : Contents, had : BOOLEAN,
     answers : SUBSET Calls]

ReviewRow ==
    [status : ReviewStatus \cup {"none"}, package : Calls \cup {NoCall},
     answers : SUBSET Calls]

Events == {"rewritten", "finalized", "claimed", "status_changed", "answered"} \X Calls

\* The phases of a request that has a call.
CallPhases ==
    {"snapshot", "rewrite_write", "rewrite_record", "restore", "finalize_read",
     "manifest_write", "finalize_commit", "claim_write", "status_write",
     "checklist_write"}

\* A request of a thread, idle or with what its phase needs.
Fits(f) ==
    /\ f \in Request
    /\ f.at = "idle" => f = Idle
    /\ f.at \in CallPhases => f.call \in Calls
    /\ f.at = "status_write" => Target[f.call] # "finalized"

Typed ==
    /\ drafted \in BOOLEAN
    /\ review \in ReviewRow
    /\ files \in Contents
    /\ manifests \in SUBSET Calls
    /\ events \in SUBSET Events
    /\ request \in [Threads -> Request]
    /\ \A t \in Threads : Fits(request[t])
    /\ hazards \in Regimes

\* A review becomes finalized by its package only.
Packaged == review.status = "finalized" => Recorded("finalized", review.package)

Serial == "overlap" \notin hazards

Alone == \A t, u \in Threads : ~At(t, "idle") /\ ~At(u, "idle") => t = u

\* What request f has decided on holds of a review r and the manifests m.
Holds(f, r, m) ==
    /\ f.at = "claim_write" => MayClaim(r.status) /\ f.answers = r.answers
    /\ f.at = "status_write" => MayMove(r.status, Target[f.call])
    /\ f.at = "checklist_write" => f.answers = r.answers \cup {f.call}
    /\ f.at \in {"manifest_write", "finalize_commit"} =>
          r.status # "finalized" /\ ~HeldByReview(r.status)
    /\ f.at = "finalize_commit" => f.call \in m

Decided == \A t \in Threads : Holds(request[t], review, manifests)

Kept ==
    /\ review.status = "finalized" => review.package \in manifests
    /\ \A c \in Calls : Recorded("answered", c) => c \in review.answers

ReviewInv == Typed /\ Packaged /\ (Serial => Alone /\ Decided /\ Kept)

-----------------------------------------------------------------------------
(* Records built field by field *)

LEMMA IdleFacts ==
    /\ Idle \in Request /\ Idle.at = "idle" /\ Idle.call = NoCall
    /\ DraftContents \subseteq Contents /\ NoFiles \in Contents /\ Mixed \in Contents
BY DEF Idle, Request, Phases, Contents, DraftContents, NoFiles, Mixed

\* What drafts leave of what they find.
LEMMA DraftFacts ==
    ASSUME NEW f \in Contents
    PROVE  /\ DraftedOver(f) \in Contents /\ Complete(DraftedOver(f))
           /\ DraftedOver(f) \in DraftContents \cup {f}
           /\ Complete(f) => DraftedOver(f) = f /\ DraftCutShort(f) = {f}
           /\ DraftCutShort(f) \subseteq DraftContents \cup {f}
           /\ DraftCutShort(f) \subseteq Contents
BY DEF DraftedOver, DraftCutShort, Complete, Contents, DraftContents, NoFiles, PartDraft,
       WholeDraft, PatchedDraft

\* A request that begins.
LEMMA BegunFacts ==
    ASSUME NEW phase \in Phases, NEW c \in Calls \cup {NoCall}
    PROVE  LET new == [Idle EXCEPT !.at = phase, !.call = c]
           IN  new \in Request /\ new.at = phase /\ new.call = c
BY DEF Idle, Request, Contents, DraftContents, NoFiles

BegunWith(phase, c, a) == [Idle EXCEPT !.at = phase, !.call = c, !.answers = a]

LEMMA BegunWithAnswersFacts ==
    ASSUME NEW phase \in Phases, NEW c \in Calls, NEW a \in SUBSET Calls
    PROVE  /\ BegunWith(phase, c, a) \in Request
           /\ BegunWith(phase, c, a).at = phase
           /\ BegunWith(phase, c, a).call = c
           /\ BegunWith(phase, c, a).answers = a
BY DEF BegunWith, Idle, Request, Contents, DraftContents, NoFiles

-----------------------------------------------------------------------------
(* Steps *)

\* A step that leaves thread t with request f.
LEMMA StepKeeps ==
    ASSUME ReviewInv, NEW t \in Threads, NEW f, Fits(f),
           request' = [request EXCEPT ![t] = f],
           ~At(t, "idle") \/ (Serial => \A u \in Threads : At(u, "idle")),
           hazards' = hazards,
           drafted' \in BOOLEAN, review' \in ReviewRow, files' \in Contents,
           manifests' \in SUBSET Calls, events' \in SUBSET Events,
           Packaged',
           Serial => Holds(f, review', manifests') /\ Kept'
    PROVE  ReviewInv'
<1>1. Typed'
    BY DEF ReviewInv, Typed, Fits
<1>2. ASSUME Serial PROVE Alone' /\ Decided'
    <2>1. \A u \in Threads : u # t => At(u, "idle") /\ request'[u] = request[u]
        BY <1>2 DEF ReviewInv, Typed, Alone, At
    <2>2. request'[t] = f
        BY DEF ReviewInv, Typed
    <2>3. Alone'
        BY <2>1 DEF Alone, At
    <2>4. \A u \in Threads : Holds(request'[u], review', manifests')
        BY <1>2, <2>1, <2>2 DEF Holds, At
    <2> QED BY <2>3, <2>4 DEF Decided
<1>3. Serial' = Serial
    BY DEF Serial
<1> QED BY <1>1, <1>2, <1>3 DEF ReviewInv

\* A request is over, or moves on with what it remembers.
LEMMA FinishFacts ==
    ASSUME Typed, NEW t \in Threads, Finish(t)
    PROVE  /\ request' = [request EXCEPT ![t] = Idle]
           /\ Fits(Idle)
           /\ \A r, m : Holds(Idle, r, m)
BY IdleFacts DEF Finish, Fits, Holds, CallPhases

LEMMA MovedFacts ==
    ASSUME Typed, NEW t \in Threads, NEW phase \in Phases \ {"idle", "status_write"},
           MoveTo(t, phase), phase \in CallPhases => Call(t) \in Calls
    PROVE  LET new == [request[t] EXCEPT !.at = phase]
           IN  /\ request' = [request EXCEPT ![t] = new]
               /\ Fits(new) /\ new.at = phase /\ new.call = Call(t)
               /\ new.before = request[t].before /\ new.answers = request[t].answers
BY Zenon DEF MoveTo, Typed, Fits, Request, Call

LEMMA WriteOnceKeeps ==
    ASSUME ReviewInv, NEW t \in Threads, NEW type, NEW row \in ReviewRow,
           ~At(t, "idle"), Call(t) \in Calls,
           type \in {"claimed", "status_changed", "answered"},
           WriteOnce(t, type, row),
           row.status = "finalized" =>
               review.status = "finalized" /\ row.package = review.package,
           Serial =>
               /\ row.status = "finalized" => row.package \in manifests
               /\ review.answers \subseteq row.answers
               /\ type = "answered" => Call(t) \in row.answers
    PROVE  ReviewInv'
<1>1. /\ events' = events \cup {<<type, Call(t)>>}
      /\ review' = IF Recorded(type, Call(t)) THEN review ELSE row
      /\ Finish(t)
      /\ UNCHANGED <<drafted, files, manifests, hazards>>
    BY DEF WriteOnce, disk
<1>2. events' \in SUBSET Events /\ review' \in ReviewRow
    BY <1>1 DEF ReviewInv, Typed, Events
<1>3. Packaged'
    BY <1>1 DEF ReviewInv, Packaged, Recorded
<1>4. Serial => Kept'
    BY <1>1 DEF ReviewInv, Kept, Recorded
<1>5. drafted' \in BOOLEAN /\ files' \in Contents /\ manifests' \in SUBSET Calls
    BY <1>1 DEF ReviewInv, Typed
<1> QED BY <1>1, <1>2, <1>3, <1>4, <1>5, FinishFacts, StepKeeps DEF ReviewInv

\* The events stay, or a rewriting is recorded.
SameEvents(t) ==
    \/ events' = events
    \/ events' = events \cup {<<"rewritten", Call(t)>>} /\ Call(t) \in Calls

\* A step that leaves the review and the manifests alone.
LEMMA QuietStepKeeps ==
    ASSUME ReviewInv, NEW t \in Threads, NEW f, Fits(f),
           request' = [request EXCEPT ![t] = f],
           ~At(t, "idle") \/ (Serial => \A u \in Threads : At(u, "idle")),
           drafted' \in BOOLEAN, files' \in Contents,
           UNCHANGED <<review, manifests, hazards>>,
           SameEvents(t),
           Serial => Holds(f, review, manifests)
    PROVE  ReviewInv'
<1>1. events' \in SUBSET Events
    BY DEF ReviewInv, Typed, Events, SameEvents
<1>2. \A type \in {"finalized", "answered"} : \A c : Recorded(type, c)' => Recorded(type, c)
    BY DEF Recorded, SameEvents
<1>3. Packaged' /\ (Serial => Kept')
    <2>1. \A c : <<"finalized", c>> \in events => <<"finalized", c>> \in events'
        BY DEF SameEvents
    <2>2. Packaged'
        BY <2>1 DEF ReviewInv, Packaged, Recorded
    <2>3. Serial => Kept'
        BY <1>2 DEF ReviewInv, Kept
    <2> QED BY <2>2, <2>3
<1>4. review' \in ReviewRow /\ manifests' \in SUBSET Calls
    BY DEF ReviewInv, Typed
<1>5. Serial => Holds(f, review', manifests')
    OBVIOUS
<1> QED BY <1>1, <1>3, <1>4, <1>5, StepKeeps

\* A request is given up or moves on.
LEMMA QuietFinishKeeps ==
    ASSUME ReviewInv, NEW t \in Threads, ~At(t, "idle"), Finish(t),
           files' \in Contents, UNCHANGED <<drafted, review, manifests, events, hazards>>
    PROVE  ReviewInv'
<1>1. drafted' \in BOOLEAN /\ SameEvents(t)
    BY DEF ReviewInv, Typed, SameEvents
<1>2. Fits(Idle) /\ Holds(Idle, review, manifests) /\ request' = [request EXCEPT ![t] = Idle]
    BY FinishFacts DEF ReviewInv
<1> QED BY <1>1, <1>2, QuietStepKeeps

LEMMA QuietMoveKeeps ==
    ASSUME ReviewInv, NEW t \in Threads, ~At(t, "idle"), 
           NEW phase \in {"draft_record", "backfill", "rewrite_record", "restore",
                          "finalize_read", "manifest_write"},
           MoveTo(t, phase), phase \in CallPhases => Call(t) \in Calls,
           phase = "manifest_write" =>
               review.status # "finalized" /\ ~HeldByReview(review.status),
           drafted' \in BOOLEAN, files' \in Contents,
           SameEvents(t), UNCHANGED <<review, manifests, hazards>>
    PROVE  ReviewInv'
<1> DEFINE new == [request[t] EXCEPT !.at = phase]
<1>1. phase \in Phases \ {"idle", "status_write"}
    BY DEF Phases
<1>2. request' = [request EXCEPT ![t] = new] /\ Fits(new) /\ new.at = phase
    BY <1>1, MovedFacts DEF ReviewInv
<1>3. Holds(new, review, manifests)
    BY <1>2 DEF Holds
<1> HIDE DEF new
<1> QED BY <1>2, <1>3, QuietStepKeeps

LEMMA BeginCallKeeps ==
    ASSUME ReviewInv, NEW t \in Threads, NEW f, Fits(f), Begin(t, f), files' = files,
           Serial => Holds(f, review, manifests)
    PROVE  ReviewInv'
<1>1. /\ request' = [request EXCEPT ![t] = f]
      /\ Serial => \A u \in Threads : At(u, "idle")
      /\ UNCHANGED <<drafted, review, files, manifests, events, hazards>>
    BY DEF Begin, Serial, disk
<1>2. drafted' \in BOOLEAN /\ files' \in Contents /\ SameEvents(t)
    BY <1>1 DEF ReviewInv, Typed, SameEvents
<1> QED BY <1>1, <1>2, QuietStepKeeps

LEMMA ReviewInit == Init => ReviewInv
<1> SUFFICES ASSUME Init PROVE ReviewInv
    OBVIOUS
<1>1. Typed
    <2>1. review \in ReviewRow
        BY DEF Init, ReviewRow
    <2>2. Fits(Idle)
        BY IdleFacts DEF Fits, CallPhases
    <2>3. request \in [Threads -> Request] /\ \A t \in Threads : request[t] = Idle
        BY IdleFacts DEF Init
    <2>4. hazards \in Regimes /\ files \in Contents
        BY IdleFacts DEF Init
    <2> QED BY <2>1, <2>2, <2>3, <2>4 DEF Typed, Init
<1>2. Packaged
    BY DEF Init, Packaged
<1>3. \A t \in Threads : request[t].at = "idle"
    BY IdleFacts DEF Init
<1>4. Alone /\ Decided
    BY <1>3 DEF Alone, At, Decided, Holds
<1>5. Kept
    BY DEF Init, Kept, Recorded
<1> QED BY <1>1, <1>2, <1>4, <1>5 DEF ReviewInv

LEMMA AskKeeps ==
    ASSUME ReviewInv, NEW t \in Threads, Ask(t)
    PROVE  ReviewInv'
<1> DEFINE begun(phase, c) == [Idle EXCEPT !.at = phase, !.call = c]
<1>1. ASSUME NEW phase \in Phases \ {"idle", "status_write", "claim_write", "checklist_write",
                                    "manifest_write", "finalize_commit"},
             NEW c \in Calls \cup {NoCall}, phase \in CallPhases => c \in Calls,
             BeginCall(t, c, phase)
      PROVE  ReviewInv'
    <2>1. Begin(t, begun(phase, c)) /\ files' = files
        BY <1>1 DEF BeginCall, Begin, disk
    <2>2. begun(phase, c) \in Request /\ begun(phase, c).at = phase /\ begun(phase, c).call = c
        BY <1>1, BegunFacts
    <2>3. Fits(begun(phase, c)) /\ Holds(begun(phase, c), review, manifests)
        BY <1>1, <2>2 DEF Fits, Holds
    <2> HIDE DEF begun
    <2> QED BY <2>1, <2>3, BeginCallKeeps
<1>2. CASE BeginDraft(t) \/ BeginBackfill(t)
    BY <1>1, <1>2 DEF BeginDraft, BeginBackfill, Phases, CallPhases
<1>3. ASSUME NEW c \in Calls, BeginRewrite(t, c) \/ BeginFinalization(t, c) PROVE ReviewInv'
    BY <1>1, <1>3 DEF BeginRewrite, BeginFinalization, Phases, CallPhases
<1>4. ASSUME NEW c \in Calls, BeginStatusUpdate(t, c) PROVE ReviewInv'
    <2>1. Begin(t, begun("status_write", c)) /\ files' = files /\ MayMove(review.status, Target[c])
        BY <1>4 DEF BeginStatusUpdate, BeginCall, Begin, disk
    <2>2. /\ begun("status_write", c) \in Request
          /\ begun("status_write", c).at = "status_write" /\ begun("status_write", c).call = c
        BY BegunFacts DEF Phases
    <2> HIDE DEF begun
    <2>3. Fits(begun("status_write", c)) /\ Holds(begun("status_write", c), review, manifests)
        BY <2>1, <2>2 DEF Fits, Holds, MayMove
    <2> QED BY <2>1, <2>3, BeginCallKeeps
<1>5. ASSUME NEW c \in Calls, BeginClaim(t, c) PROVE ReviewInv'
    <2> DEFINE new == BegunWith("claim_write", c, review.answers)
    <2>1. Begin(t, new) /\ files' = files /\ MayClaim(review.status)
        BY <1>5 DEF BeginClaim, Begin, BegunWith, disk
    <2>2. review.answers \in SUBSET Calls /\ "claim_write" \in Phases
        BY DEF ReviewInv, Typed, ReviewRow, Phases
    <2>3. new \in Request /\ new.at = "claim_write" /\ new.call = c /\ new.answers = review.answers
        BY <2>2, BegunWithAnswersFacts
    <2> HIDE DEF new
    <2>4. Fits(new) /\ Holds(new, review, manifests)
        BY <2>1, <2>3 DEF Fits, Holds
    <2> QED BY <2>1, <2>4, BeginCallKeeps
<1>6. ASSUME NEW c \in Calls, BeginAnswer(t, c) PROVE ReviewInv'
    <2> DEFINE given == review.answers \cup {c}
    <2> DEFINE new == BegunWith("checklist_write", c, given)
    <2>1. Begin(t, new) /\ files' = files
        BY <1>6 DEF BeginAnswer, Begin, BegunWith, disk
    <2>2. given \in SUBSET Calls /\ "checklist_write" \in Phases
        BY DEF ReviewInv, Typed, ReviewRow, Phases
    <2>3. new \in Request /\ new.at = "checklist_write" /\ new.call = c /\ new.answers = given
        BY <2>2, BegunWithAnswersFacts
    <2> HIDE DEF new
    <2>4. Fits(new) /\ Holds(new, review, manifests)
        BY <2>1, <2>3 DEF Fits, Holds
    <2> QED BY <2>1, <2>4, BeginCallKeeps
<1> QED BY <1>2, <1>3, <1>4, <1>5, <1>6 DEF Ask

LEMMA DraftKeeps ==
    ASSUME ReviewInv, NEW t \in Threads, Draft(t)
    PROVE  ReviewInv'
<1>1. drafted \in BOOLEAN /\ files \in Contents /\ review \in ReviewRow
    BY DEF ReviewInv, Typed
<1>2. CASE WriteDraft(t)
    <2>1. files' \in Contents
        BY <1>1, <1>2, DraftFacts DEF WriteDraft
    <2>2. ~At(t, "idle") /\ SameEvents(t)
        BY <1>2 DEF WriteDraft, At, SameEvents
    <2> QED BY <1>1, <1>2, <2>1, <2>2, QuietMoveKeeps DEF WriteDraft, CallPhases
<1>3. CASE RecordDraft(t)
    <2>1. ~At(t, "idle") /\ SameEvents(t)
        BY <1>3 DEF RecordDraft, At, SameEvents
    <2> QED BY <1>1, <1>3, <2>1, QuietMoveKeeps DEF RecordDraft, CallPhases, disk
<1>4. CASE WriteDraftFails(t) \/ DraftFails(t)
    <2>1. files' \in Contents
        BY <1>1, <1>4, DraftFacts DEF WriteDraftFails, DraftFails, GiveUp, disk
    <2> QED BY <1>4, <2>1, QuietFinishKeeps DEF WriteDraftFails, DraftFails, GiveUp, At, disk
<1>5. CASE Backfill(t)
    <2>1. /\ ~At(t, "idle") /\ Finish(t) /\ review' = Backfilled(review)
          /\ UNCHANGED <<drafted, files, manifests, events, hazards>>
        BY <1>5 DEF Backfill, At, disk
    <2>2. /\ review' \in ReviewRow
          /\ review'.status = "finalized" => review'.status = review.status
          /\ review'.package = review.package /\ review'.answers = review.answers
        <3>1. CASE review' = review
            BY <1>1, <3>1
        <3>2. CASE review' = [review EXCEPT !.status = "queued"]
            <4>1. "queued" \in ReviewStatus /\ review.answers \in SUBSET Calls
                BY <1>1 DEF ReviewStatus, ReviewRow
            <4> QED BY <1>1, <3>2, <4>1 DEF ReviewRow
        <3> QED BY <2>1, <3>1, <3>2 DEF Backfilled
    <2>3. Packaged' /\ (Serial => Kept')
        BY <2>1, <2>2 DEF ReviewInv, Packaged, Kept, Recorded
    <2>4. Fits(Idle) /\ Holds(Idle, review', manifests') /\ request' = [request EXCEPT ![t] = Idle]
        BY <2>1, FinishFacts DEF ReviewInv
    <2>5. manifests' \in SUBSET Calls /\ events' \in SUBSET Events
        BY <2>1 DEF ReviewInv, Typed
    <2> QED BY <1>1, <2>1, <2>2, <2>3, <2>4, <2>5, StepKeeps
<1> QED BY <1>2, <1>3, <1>4, <1>5 DEF Draft

LEMMA RewriteKeeps ==
    ASSUME ReviewInv, NEW t \in Threads, Rewrite(t)
    PROVE  ReviewInv'
<1>1. /\ drafted \in BOOLEAN /\ files \in Contents
      /\ request[t].before \in Contents /\ Mixed \in Contents
      /\ request[t].at \in CallPhases => Call(t) \in Calls /\ Call(t) \in Contents
    BY IdleFacts DEF ReviewInv, Typed, Request, Fits, Call, Contents
<1>2. CASE SnapshotArtifacts(t)
    <2> DEFINE new == [request[t] EXCEPT !.at = "rewrite_write", !.before = files]
    <2>1. /\ ~At(t, "idle") /\ SameEvents(t) /\ Call(t) \in Calls
          /\ request' = [request EXCEPT ![t].at = "rewrite_write", ![t].before = files]
          /\ UNCHANGED <<drafted, review, files, manifests, events, hazards>>
        BY <1>1, <1>2 DEF SnapshotArtifacts, At, SameEvents, CallPhases, disk
    <2>2. request' = [request EXCEPT ![t] = new]
        BY <2>1, Zenon DEF ReviewInv, Typed
    <2>3. new \in Request /\ new.at = "rewrite_write" /\ new.call = Call(t)
        BY <1>1 DEF ReviewInv, Typed, Request, Phases, Call
    <2>4. Fits(new) /\ Holds(new, review, manifests)
        BY <2>1, <2>3 DEF Fits, Holds
    <2> HIDE DEF new
    <2> QED BY <1>1, <2>1, <2>2, <2>4, QuietStepKeeps
<1>3. CASE WriteRewrite(t)
    <2>1. ~At(t, "idle") /\ SameEvents(t) /\ files' \in Contents
        BY <1>1, <1>3 DEF WriteRewrite, At, SameEvents, CallPhases
    <2> QED BY <1>1, <1>3, <2>1, QuietMoveKeeps DEF WriteRewrite, At, CallPhases
<1>4. CASE WriteRewriteFails(t)
    <2>1. ~At(t, "idle") /\ SameEvents(t) /\ files' \in Contents
        BY <1>1, <1>4 DEF WriteRewriteFails, At, SameEvents
    <2> QED BY <1>1, <1>4, <2>1, QuietMoveKeeps DEF WriteRewriteFails, At, CallPhases
<1>5. CASE RecordRewrite(t)
    <2>1. ~At(t, "idle") /\ SameEvents(t) /\ Call(t) \in Calls /\ files' \in Contents
        BY <1>1, <1>5 DEF RecordRewrite, At, SameEvents, CallPhases, disk
    <2> QED BY <1>1, <1>5, <2>1, QuietMoveKeeps DEF RecordRewrite, disk
<1>6. CASE RecordRewriteFails(t)
    <2>1. ~At(t, "idle") /\ SameEvents(t) /\ Call(t) \in Calls /\ files' \in Contents
        BY <1>1, <1>6 DEF RecordRewriteFails, At, SameEvents, CallPhases, disk
    <2> QED BY <1>1, <1>6, <2>1, QuietMoveKeeps DEF RecordRewriteFails, disk
<1>7. CASE RestoreArtifacts(t)
    <2>1. ~At(t, "idle") /\ files' \in Contents
        BY <1>1, <1>7 DEF RestoreArtifacts, At
    <2> QED BY <1>7, <2>1, QuietFinishKeeps DEF RestoreArtifacts
<1> QED BY <1>2, <1>3, <1>4, <1>5, <1>6, <1>7 DEF Rewrite

LEMMA FinalizeKeeps ==
    ASSUME ReviewInv, NEW t \in Threads, Finalize(t)
    PROVE  ReviewInv'
<1>1. /\ drafted \in BOOLEAN /\ files \in Contents /\ review \in ReviewRow
      /\ manifests \in SUBSET Calls /\ events \in SUBSET Events
      /\ request[t] \in Request
      /\ request[t].at \in CallPhases => Call(t) \in Calls
      /\ Serial => Holds(request[t], review, manifests)
    BY DEF ReviewInv, Typed, Fits, Call, Decided
<1>2. CASE ReadForFinalization(t)
    <2>1. ~At(t, "idle") /\ SameEvents(t) /\ Call(t) \in Calls
        BY <1>1, <1>2 DEF ReadForFinalization, At, SameEvents, CallPhases
    <2>2. UNCHANGED <<drafted, review, files, manifests, events, hazards>>
        BY <1>2 DEF ReadForFinalization, disk
    <2>3. CASE NothingToFinalize(Call(t))
        BY <1>1, <1>2, <2>1, <2>2, <2>3, QuietFinishKeeps DEF ReadForFinalization
    <2>4. CASE ~NothingToFinalize(Call(t))
        <3>1. MoveTo(t, "manifest_write")
            BY <1>2, <2>4 DEF ReadForFinalization
        <3>2. review.status # "finalized" /\ ~HeldByReview(review.status)
            BY <2>4 DEF NothingToFinalize
        <3> QED BY <1>1, <2>1, <2>2, <3>1, <3>2, QuietMoveKeeps
    <2> QED BY <2>3, <2>4
<1>3. CASE FinalizationReadFails(t)
    BY <1>1, <1>3, QuietFinishKeeps DEF FinalizationReadFails, GiveUp, At, disk
<1>4. CASE WriteManifest(t)
    <2> DEFINE had == Call(t) \in manifests
    <2> DEFINE new == [request[t] EXCEPT !.at = "finalize_commit", !.had = had]
    <2>1. /\ request[t].at = "manifest_write" /\ ~At(t, "idle") /\ Call(t) \in Calls
          /\ manifests' = manifests \cup {Call(t)}
          /\ UNCHANGED <<drafted, review, files, events, hazards>>
        BY <1>1, <1>4 DEF WriteManifest, At, CallPhases
    <2>2. request' = [request EXCEPT ![t] = new]
        BY <1>4, Zenon DEF WriteManifest, ReviewInv, Typed
    <2>3. had \in BOOLEAN
        OBVIOUS
    <2> HIDE DEF had
    <2>4. new \in Request /\ new.at = "finalize_commit" /\ new.call = Call(t)
        BY <1>1, <2>3, Zenon DEF Request, Phases, Call
    <2>5. Fits(new) /\ (Serial => Holds(new, review', manifests'))
        BY <1>1, <2>1, <2>4 DEF Fits, Holds
    <2>6. Packaged' /\ (Serial => Kept')
        BY <2>1 DEF ReviewInv, Packaged, Kept, Recorded
    <2>7. /\ drafted' \in BOOLEAN /\ files' \in Contents /\ review' \in ReviewRow
          /\ manifests' \in SUBSET Calls /\ events' \in SUBSET Events
        BY <1>1, <2>1
    <2> HIDE DEF new
    <2> QED BY <2>1, <2>2, <2>5, <2>6, <2>7, StepKeeps
<1>5. CASE CommitFinalization(t)
    <2>1. /\ request[t].at = "finalize_commit" /\ ~At(t, "idle") /\ Call(t) \in Calls
          /\ events' = events \cup {<<"finalized", Call(t)>>} /\ Finish(t)
          /\ review' = IF Recorded("finalized", Call(t)) THEN review
                       ELSE [review EXCEPT !.status = "finalized", !.package = Call(t)]
          /\ UNCHANGED <<drafted, files, manifests, hazards>>
        BY <1>1, <1>5 DEF CommitFinalization, At, CallPhases, disk
    <2>2. \/ review' = review
          \/ /\ review' \in ReviewRow /\ review'.package = Call(t)
             /\ review'.answers = review.answers
        <3> DEFINE row == [review EXCEPT !.status = "finalized", !.package = Call(t)]
        <3>1. row \in ReviewRow /\ row.package = Call(t) /\ row.answers = review.answers
            BY <1>1, <2>1 DEF ReviewRow, ReviewStatus
        <3>2. review' = review \/ review' = row
            BY <2>1
        <3> QED BY <3>1, <3>2
    <2>3. Packaged'
        BY <2>1, <2>2 DEF ReviewInv, Packaged, Recorded
    <2>4. ASSUME Serial PROVE Kept'
        <3>1. Call(t) \in manifests
            BY <1>1, <2>1, <2>4 DEF Holds, Call
        <3>2. \A c : <<"answered", c>> \in events' => <<"answered", c>> \in events
            BY <2>1
        <3> QED BY <2>1, <2>2, <2>4, <3>1, <3>2 DEF ReviewInv, Kept, Recorded
    <2>5. /\ drafted' \in BOOLEAN /\ files' \in Contents /\ review' \in ReviewRow
          /\ manifests' \in SUBSET Calls /\ events' \in SUBSET Events
        BY <1>1, <2>1, <2>2 DEF Events
    <2>6. Fits(Idle) /\ Holds(Idle, review', manifests') /\ request' = [request EXCEPT ![t] = Idle]
        BY <2>1, FinishFacts DEF ReviewInv
    <2> QED BY <2>1, <2>3, <2>4, <2>5, <2>6, StepKeeps
<1>6. CASE FinalizationFails(t)
    <2>1. /\ request[t].at = "finalize_commit" /\ ~At(t, "idle") /\ Finish(t)
          /\ manifests' \in SUBSET manifests
          /\ UNCHANGED <<drafted, review, files, events, hazards>>
        BY <1>6 DEF FinalizationFails, At
    <2>2. Serial => review.status # "finalized"
        BY <1>1, <2>1 DEF Holds
    <2>3. Packaged' /\ (Serial => Kept')
        BY <2>1, <2>2 DEF ReviewInv, Packaged, Kept, Recorded
    <2>4. /\ drafted' \in BOOLEAN /\ files' \in Contents /\ review' \in ReviewRow
          /\ manifests' \in SUBSET Calls /\ events' \in SUBSET Events
        BY <1>1, <2>1
    <2>5. Fits(Idle) /\ Holds(Idle, review', manifests') /\ request' = [request EXCEPT ![t] = Idle]
        BY <2>1, FinishFacts DEF ReviewInv
    <2> QED BY <2>1, <2>3, <2>4, <2>5, StepKeeps
<1> QED BY <1>2, <1>3, <1>4, <1>5, <1>6 DEF Finalize

LEMMA WriteReviewKeeps ==
    ASSUME ReviewInv, NEW t \in Threads, WriteReview(t)
    PROVE  ReviewInv'
<1>1. /\ review \in ReviewRow /\ review.answers \in SUBSET Calls /\ files \in Contents
      /\ request[t].answers \in SUBSET Calls
      /\ request[t].at \in CallPhases => Call(t) \in Calls
      /\ request[t].at = "status_write" => Target[Call(t)] # "finalized"
      /\ Serial => Holds(request[t], review, manifests) /\ Kept
    BY DEF ReviewInv, Typed, Fits, Request, ReviewRow, Call, Decided
<1>2. CASE Claim(t)
    <2> DEFINE row == [review EXCEPT !.status = "claimed", !.answers = request[t].answers]
    <2>1. /\ request[t].at = "claim_write" /\ ~At(t, "idle") /\ Call(t) \in Calls
          /\ WriteOnce(t, "claimed", row)
        BY <1>1, <1>2 DEF Claim, At, CallPhases
    <2>2. row \in ReviewRow /\ row.status = "claimed" /\ row.answers = request[t].answers
        BY <1>1 DEF ReviewRow, ReviewStatus
    <2>3. Serial => review.answers \subseteq row.answers
        BY <1>1, <2>1, <2>2 DEF Holds
    <2> HIDE DEF row
    <2> QED BY <2>1, <2>2, <2>3, WriteOnceKeeps
<1>3. CASE StatusUpdate(t)
    <2> DEFINE row == [review EXCEPT !.status = Target[Call(t)]]
    <2>1. /\ request[t].at = "status_write" /\ ~At(t, "idle") /\ Call(t) \in Calls
          /\ WriteOnce(t, "status_changed", row)
        BY <1>1, <1>3 DEF StatusUpdate, At, CallPhases
    <2>2. Target[Call(t)] \in ReviewStatus
        BY <2>1, CallsAssumption
    <2>3. row \in ReviewRow /\ row.status # "finalized" /\ row.answers = review.answers
        BY <1>1, <2>1, <2>2 DEF ReviewRow
    <2> HIDE DEF row
    <2> QED BY <2>1, <2>3, WriteOnceKeeps
<1>4. CASE Answer(t)
    <2> DEFINE row == [review EXCEPT !.answers = request[t].answers]
    <2>1. /\ request[t].at = "checklist_write" /\ ~At(t, "idle") /\ Call(t) \in Calls
          /\ WriteOnce(t, "answered", row)
        BY <1>1, <1>4 DEF Answer, At, CallPhases
    <2>2. /\ row \in ReviewRow /\ row.status = review.status /\ row.package = review.package
          /\ row.answers = request[t].answers
        BY <1>1 DEF ReviewRow
    <2>3. Serial => /\ review.answers \subseteq row.answers /\ Call(t) \in row.answers
                    /\ row.status = "finalized" => row.package \in manifests
        BY <1>1, <2>1, <2>2 DEF Holds, Call, Kept
    <2> HIDE DEF row
    <2> QED BY <2>1, <2>2, <2>3, WriteOnceKeeps
<1>5. CASE ReviewWriteFails(t)
    BY <1>1, <1>5, QuietFinishKeeps DEF ReviewWriteFails, GiveUp, At, disk
<1> QED BY <1>2, <1>3, <1>4, <1>5 DEF WriteReview

LEMMA CrashKeeps == ReviewInv /\ Crash => ReviewInv'
<1> SUFFICES ASSUME ReviewInv, Crash PROVE ReviewInv'
    OBVIOUS
<1>1. /\ request' = [t \in Threads |-> Idle]
      /\ files' \in {files, Mixed} \cup DraftCutShort(files)
      /\ UNCHANGED <<drafted, review, manifests, events, hazards>>
    BY DEF Crash
<1>2. \A t \in Threads : request'[t] = Idle
    BY <1>1
<1>3. Fits(Idle) /\ \A r, m : Holds(Idle, r, m)
    BY IdleFacts DEF Fits, Holds, CallPhases
<1>4. Typed'
    <2>1. request' \in [Threads -> Request] /\ files' \in Contents
        BY <1>1, IdleFacts, DraftFacts DEF ReviewInv, Typed
    <2>2. \A t \in Threads : Fits(request'[t])
        BY <1>2, <1>3
    <2> QED BY <1>1, <2>1, <2>2 DEF ReviewInv, Typed, Fits
<1>5. Packaged' /\ (Serial => Kept') /\ Serial' = Serial
    BY <1>1 DEF ReviewInv, Packaged, Kept, Recorded, Serial
<1>6. Alone' /\ Decided'
    BY <1>2, <1>3, IdleFacts DEF Alone, At, Decided
<1> QED BY <1>4, <1>5, <1>6 DEF ReviewInv

LEMMA ReviewStep == ReviewInv /\ [Next]_vars => ReviewInv'
<1> SUFFICES ASSUME ReviewInv, [Next]_vars PROVE ReviewInv'
    OBVIOUS
<1>1. ASSUME NEW t \in Threads, Ask(t) \/ Serve(t) PROVE ReviewInv'
    BY <1>1, AskKeeps, DraftKeeps, RewriteKeeps, FinalizeKeeps, WriteReviewKeeps DEF Serve
<1>2. CASE UNCHANGED vars
    BY <1>2 DEF vars, disk, ReviewInv, Typed, Fits, Packaged, Serial, Alone, Decided, Kept,
                Holds, At, Call, Recorded
<1> QED BY <1>1, <1>2, CrashKeeps DEF Next

LEMMA ReviewInvariant == Spec => []ReviewInv
BY ReviewInit, ReviewStep, PTL DEF Spec

LEMMA NoWayOut ==
    /\ ALLOWED_STATUS_TRANSITIONS["finalized"] = {}
    /\ ALLOWED_STATUS_TRANSITIONS["rejected"] = {}
BY DEF ALLOWED_STATUS_TRANSITIONS, ReviewStatus

\* What a request writes into a review that is finalized or rejected.
LEMMA TerminalStep ==
    ReviewInv /\ [Next]_vars =>
        ((Serial /\ review.status \in {"finalized", "rejected"})
           => review'.status = review.status)
<1> SUFFICES ASSUME ReviewInv, [Next]_vars, Serial,
                    review.status \in {"finalized", "rejected"}
             PROVE  review'.status = review.status
    OBVIOUS
<1>1. review \in ReviewRow /\ \A t \in Threads : Holds(request[t], review, manifests)
    BY DEF ReviewInv, Typed, Decided
<1>2. ASSUME NEW t \in Threads, Ask(t) PROVE review'.status = review.status
    BY <1>2 DEF Ask, BeginDraft, BeginBackfill, BeginRewrite, BeginFinalization, BeginClaim,
                BeginStatusUpdate, BeginAnswer, BeginCall, Begin
<1>3. ASSUME NEW t \in Threads, Draft(t) PROVE review'.status = review.status
    BY <1>3 DEF Draft, WriteDraft, WriteDraftFails, RecordDraft, DraftFails, GiveUp, Backfill,
                Backfilled, SYSTEM_REVIEW_STATUSES
<1>4. ASSUME NEW t \in Threads, Rewrite(t) PROVE review'.status = review.status
    BY <1>4 DEF Rewrite, SnapshotArtifacts, WriteRewrite, WriteRewriteFails, RecordRewrite,
                RecordRewriteFails, RestoreArtifacts
<1>5. ASSUME NEW t \in Threads, Finalize(t) PROVE review'.status = review.status
    <2>1. ~CommitFinalization(t)
        BY <1>1 DEF CommitFinalization, At, Holds, HeldByReview
    <2> QED BY <1>5, <2>1 DEF Finalize, ReadForFinalization, FinalizationReadFails, GiveUp,
                            WriteManifest, FinalizationFails
<1>6. ASSUME NEW t \in Threads, WriteReview(t) PROVE review'.status = review.status
    <2>1. ~Claim(t)
        BY <1>1 DEF Claim, At, Holds, MayClaim
    <2>2. CASE StatusUpdate(t)
        <3>1. MayMove(review.status, Target[Call(t)])
            BY <1>1, <2>2 DEF StatusUpdate, At, Holds, Call
        <3>2. Target[Call(t)] = review.status
            BY <3>1, NoWayOut DEF MayMove
        <3> QED BY <1>1, <2>2, <3>2 DEF StatusUpdate, WriteOnce, ReviewRow
    <2>3. CASE Answer(t)
        BY <1>1, <2>3 DEF Answer, WriteOnce, ReviewRow
    <2>4. CASE ReviewWriteFails(t)
        BY <2>4 DEF ReviewWriteFails, GiveUp
    <2> QED BY <1>6, <2>1, <2>2, <2>3, <2>4 DEF WriteReview
<1>7. CASE Crash \/ UNCHANGED vars
    BY <1>7 DEF Crash, vars
<1> QED BY <1>2, <1>3, <1>4, <1>5, <1>6, <1>7 DEF Next, Serve

-----------------------------------------------------------------------------
(* The theorems *)

\* Every reachable state of the pipeline is well typed; an idle thread
\* remembers nothing of its last request.
THEOREM TypeCorrect == Spec => []TypeOK
<1>1. ReviewInv => TypeOK
    BY DEF ReviewInv, Typed, Fits, TypeOK, ReviewRow, Request, Events, At
<1> QED BY <1>1, ReviewInvariant, PTL

\* A finalized review names a package whose preparation is recorded, under
\* every hazard, and without overlap its manifest is on disk.
THEOREM FinalizedByPackage == Spec => []PackageBacked
<1>1. ReviewInv => PackageBacked
    BY DEF ReviewInv, Packaged, Kept, Serial, PackageBacked
<1> QED BY <1>1, ReviewInvariant, PTL

\* Without overlap no recorded checklist answer is lost, whatever fails.
THEOREM NoAnswerLost == Spec => []AnswersKept
<1>1. ReviewInv => AnswersKept
    BY DEF ReviewInv, Kept, Serial, AnswersKept
<1> QED BY <1>1, ReviewInvariant, PTL

\* Finalized and rejected reviews stay so while requests do not overlap.
THEOREM TerminalStays == Spec => TerminalFinal
<1>1. ReviewInv /\ [Next]_vars =>
          [("overlap" \notin hazards /\ review.status \in {"finalized", "rejected"})
              => review'.status = review.status]_vars
    BY TerminalStep DEF Serial
<1> QED BY <1>1, ReviewInvariant, PTL DEF Spec, TerminalFinal
-----------------------------------------------------------------------------
(***************************************************************************)
(* What the artifacts are made of                                          *)
(*                                                                         *)
(* Between the snapshot of a rewrite and its end the files may be anything; *)
(* what the rewrite remembers is then what they were, and it alone can     *)
(* write them.                                                             *)
(***************************************************************************)
Calm == hazards \subseteq {"failure"}

Rewriting == {"rewrite_write", "rewrite_record", "restore"}
Unsettled == {"rewrite_record", "restore"}

\* Contents that the events e account for.
Backed(e) == DraftContents \cup {c \in Calls : <<"rewritten", c>> \in e}

Accounted ==
    Calm =>
        /\ \A t \in Threads : request[t].at \in Rewriting => request[t].before \in Backed(events)
        /\ \A t \in Threads : At(t, "rewrite_record") => files = Call(t)
        /\ (\A t \in Threads : request[t].at \notin Unsettled) => files \in Backed(events)

LEMMA AccountedInit == Init => Accounted
<1> SUFFICES ASSUME Init PROVE Accounted
    OBVIOUS
<1>1. \A t \in Threads : request[t].at = "idle"
    BY IdleFacts DEF Init
<1> QED BY <1>1 DEF Init, Accounted, Rewriting, At, Backed, DraftContents, NoFiles

\* A thread that takes a step is the only one with a request.
Sole(t) == ~At(t, "idle") \/ (Serial => \A u \in Threads : At(u, "idle"))

\* A step that leaves thread t with request f.
LEMMA AccountedKeeps ==
    ASSUME ReviewInv, NEW t \in Threads, NEW f,
           request' = [request EXCEPT ![t] = f], Sole(t), hazards' = hazards,
           Calm =>
              /\ f.at \in Rewriting => f.before \in Backed(events')
              /\ f.at = "rewrite_record" => files' = f.call
              /\ f.at \notin Unsettled => files' \in Backed(events')
    PROVE  Accounted'
<1> SUFFICES ASSUME Calm PROVE Accounted'
    BY DEF Accounted, Calm
<1>1. \A u \in Threads : u # t => request'[u].at = "idle"
    BY DEF ReviewInv, Typed, Alone, At, Sole, Serial, Calm
<1>2. request'[t] = f
    BY DEF ReviewInv, Typed
<1>3. \A u \in Threads : request'[u].at \in Rewriting => request'[u].before \in Backed(events')
    BY <1>1, <1>2 DEF Rewriting
<1>4. \A u \in Threads : request'[u].at = "rewrite_record" => files' = request'[u].call
    BY <1>1, <1>2
<1>5. (\A u \in Threads : request'[u].at \notin Unsettled) => files' \in Backed(events')
    BY <1>2
<1> QED BY <1>3, <1>4, <1>5 DEF Accounted, At, Call, Backed

\* Before a step of a thread that is not in the middle of a rewrite, the files
\* are accounted for.
LEMMA FilesBacked ==
    ASSUME ReviewInv, Accounted, Calm, NEW t \in Threads, Sole(t),
           request[t].at \notin Unsettled
    PROVE  files \in Backed(events)
<1>1. \A u \in Threads : u # t => request[u].at = "idle"
    BY DEF ReviewInv, Typed, Alone, At, Sole, Serial, Calm
<1> QED BY <1>1 DEF Accounted, Unsettled

\* Such a step leaves them so if it begins no rewrite and writes no more than
\* a draft.
LEMMA PlainKeeps ==
    ASSUME ReviewInv, Accounted, NEW t \in Threads, NEW f,
           request' = [request EXCEPT ![t] = f], Sole(t), hazards' = hazards,
           request[t].at \notin Unsettled, f.at \notin Rewriting,
           files' \in DraftContents \cup {files}, events \subseteq events'
    PROVE  Accounted'
<1>1. ASSUME Calm PROVE files' \in Backed(events')
    BY <1>1, FilesBacked DEF Backed
<1> QED BY <1>1, AccountedKeeps DEF Rewriting

LEMMA PlainFinish ==
    ASSUME ReviewInv, Accounted, NEW t \in Threads, Finish(t), ~At(t, "idle"), hazards' = hazards,
           request[t].at \notin Unsettled, files' \in DraftContents \cup {files}, events \subseteq events'
    PROVE  Accounted'
<1>1. request' = [request EXCEPT ![t] = Idle] /\ Sole(t) /\ Idle.at \notin Rewriting
    BY IdleFacts DEF Finish, Sole, Rewriting
<1> QED BY <1>1, PlainKeeps

LEMMA PlainMove ==
    ASSUME ReviewInv, Accounted, NEW t \in Threads, NEW phase \in Phases, MoveTo(t, phase),
           ~At(t, "idle"), hazards' = hazards, phase \notin Rewriting,
           request[t].at \notin Unsettled, files' \in DraftContents \cup {files}, events \subseteq events'
    PROVE  Accounted'
<1> DEFINE new == [request[t] EXCEPT !.at = phase]
<1>1. request' = [request EXCEPT ![t] = new] /\ Sole(t)
    BY DEF MoveTo, Sole, ReviewInv, Typed
<1>2. new.at = phase
    BY DEF ReviewInv, Typed, Request
<1> HIDE DEF new
<1> QED BY <1>1, <1>2, PlainKeeps

LEMMA AskAccounted ==
    ASSUME ReviewInv, Accounted, NEW t \in Threads, Ask(t)
    PROVE  Accounted'
<1>1. ASSUME NEW f, Begin(t, f), f.at \notin Rewriting PROVE Accounted'
    <2>1. /\ request' = [request EXCEPT ![t] = f] /\ Sole(t) /\ At(t, "idle")
          /\ UNCHANGED <<files, events, hazards>>
        BY <1>1 DEF Begin, Sole, Serial, disk
    <2> QED BY <1>1, <2>1, PlainKeeps DEF At, Unsettled
<1>2. ASSUME NEW phase \in Phases \ Rewriting, NEW c \in Calls \cup {NoCall},
             BeginCall(t, c, phase)
      PROVE  Accounted'
    <2> DEFINE new == [Idle EXCEPT !.at = phase, !.call = c]
    <2>1. Begin(t, new)
        BY <1>2 DEF BeginCall
    <2>2. new.at = phase
        BY BegunFacts
    <2> HIDE DEF new
    <2> QED BY <1>1, <1>2, <2>1, <2>2
<1>3. CASE BeginDraft(t) \/ BeginBackfill(t)
    BY <1>2, <1>3 DEF BeginDraft, BeginBackfill, Phases, Rewriting
<1>4. ASSUME NEW c \in Calls,
             BeginRewrite(t, c) \/ BeginFinalization(t, c) \/ BeginStatusUpdate(t, c)
      PROVE  Accounted'
    BY <1>2, <1>4 DEF BeginRewrite, BeginFinalization, BeginStatusUpdate, Phases, Rewriting
<1>5. ASSUME NEW c \in Calls, NEW phase \in {"claim_write", "checklist_write"},
             NEW a \in SUBSET Calls, Begin(t, BegunWith(phase, c, a))
      PROVE  Accounted'
    <2>1. BegunWith(phase, c, a).at = phase
        BY BegunWithAnswersFacts DEF Phases
    <2> QED BY <1>1, <1>5, <2>1 DEF Rewriting
<1>6. review.answers \in SUBSET Calls
    BY DEF ReviewInv, Typed, ReviewRow
<1>7. ASSUME NEW c \in Calls, BeginClaim(t, c) PROVE Accounted'
    <2>1. Begin(t, BegunWith("claim_write", c, review.answers))
        BY <1>7 DEF BeginClaim, BegunWith
    <2> QED BY <1>5, <1>6, <2>1
<1>8. ASSUME NEW c \in Calls, BeginAnswer(t, c) PROVE Accounted'
    <2>1. Begin(t, BegunWith("checklist_write", c, review.answers \cup {c}))
        BY <1>8 DEF BeginAnswer, BegunWith
    <2>2. review.answers \cup {c} \in SUBSET Calls
        BY <1>6
    <2> QED BY <1>5, <2>1, <2>2
<1> QED BY <1>3, <1>4, <1>7, <1>8 DEF Ask

LEMMA DraftAccounted ==
    ASSUME ReviewInv, Accounted, NEW t \in Threads, Draft(t)
    PROVE  Accounted'
<1>1. CASE WriteDraft(t)
    <2>1. /\ MoveTo(t, "draft_record") /\ ~At(t, "idle") /\ request[t].at \notin Unsettled
          /\ files' \in DraftContents \cup {files} /\ UNCHANGED <<events, hazards>>
        BY <1>1, DraftFacts DEF WriteDraft, At, Unsettled, ReviewInv, Typed
    <2> QED BY <2>1, PlainMove DEF Phases, Rewriting
<1>2. CASE RecordDraft(t)
    <2>1. /\ MoveTo(t, "backfill") /\ ~At(t, "idle") /\ request[t].at \notin Unsettled
          /\ UNCHANGED <<files, events, hazards>>
        BY <1>2 DEF RecordDraft, At, Unsettled, disk
    <2> QED BY <2>1, PlainMove DEF Phases, Rewriting
<1>3. CASE WriteDraftFails(t)
    <2>1. /\ Finish(t) /\ ~At(t, "idle") /\ request[t].at \notin Unsettled
          /\ files' \in DraftContents \cup {files} /\ UNCHANGED <<events, hazards>>
        BY <1>3, DraftFacts DEF WriteDraftFails, At, Unsettled, ReviewInv, Typed
    <2> QED BY <2>1, PlainFinish
<1>4. CASE DraftFails(t) \/ Backfill(t)
    <2>1. /\ Finish(t) /\ ~At(t, "idle") /\ request[t].at \notin Unsettled
          /\ UNCHANGED <<files, events, hazards>>
        BY <1>4 DEF DraftFails, GiveUp, Backfill, At, Unsettled, disk
    <2> QED BY <2>1, PlainFinish
<1> QED BY <1>1, <1>2, <1>3, <1>4 DEF Draft

\* A step within a rewrite, which remembers what it remembered.
LEMMA RewriteMove ==
    ASSUME ReviewInv, Accounted, NEW t \in Threads,
           NEW phase \in {"rewrite_record", "restore", "finalize_read"}, MoveTo(t, phase),
           request[t].at \in Rewriting, hazards' = hazards, events \subseteq events',
           phase = "rewrite_record" => files' = Call(t),
           phase = "finalize_read" => (Calm => files' \in Backed(events'))
    PROVE  Accounted'
<1> DEFINE new == [request[t] EXCEPT !.at = phase]
<1>1. Call(t) \in Calls /\ phase \in Phases \ {"idle", "status_write"}
    BY DEF ReviewInv, Typed, Fits, Call, CallPhases, Rewriting, Phases
<1>2. /\ request' = [request EXCEPT ![t] = new]
      /\ new.at = phase /\ new.call = Call(t) /\ new.before = request[t].before
    BY <1>1, MovedFacts DEF ReviewInv
<1>3. Sole(t)
    BY DEF Sole, At, Rewriting
<1>4. Calm => request[t].before \in Backed(events')
    BY DEF Accounted, Backed
<1> HIDE DEF new
<1> QED BY <1>2, <1>3, <1>4, AccountedKeeps DEF Unsettled

LEMMA RewriteAccounted ==
    ASSUME ReviewInv, Accounted, NEW t \in Threads, Rewrite(t)
    PROVE  Accounted'
<1>1. CASE SnapshotArtifacts(t)
    <2> DEFINE new == [request[t] EXCEPT !.at = "rewrite_write", !.before = files]
    <2>1. /\ request[t].at = "snapshot" /\ Sole(t)
          /\ request' = [request EXCEPT ![t].at = "rewrite_write", ![t].before = files]
          /\ UNCHANGED <<files, events, hazards>>
        BY <1>1 DEF SnapshotArtifacts, At, Sole, disk
    <2>2. request' = [request EXCEPT ![t] = new]
        BY <2>1, Zenon DEF ReviewInv, Typed
    <2>3. new.at = "rewrite_write" /\ new.before = files
        BY DEF ReviewInv, Typed, Request
    <2>4. Calm => files' \in Backed(events')
        BY <2>1, FilesBacked DEF Unsettled
    <2> HIDE DEF new
    <2> QED BY <2>1, <2>2, <2>3, <2>4, AccountedKeeps
<1>2. CASE WriteRewrite(t)
    BY <1>2, RewriteMove DEF WriteRewrite, At, Rewriting
<1>3. CASE WriteRewriteFails(t)
    BY <1>3, RewriteMove DEF WriteRewriteFails, At, Rewriting
<1>4. CASE RecordRewrite(t)
    <2>1. /\ At(t, "rewrite_record") /\ MoveTo(t, "finalize_read") /\ Call(t) \in Calls
          /\ events' = events \cup {<<"rewritten", Call(t)>>}
          /\ UNCHANGED <<files, hazards>>
        BY <1>4 DEF RecordRewrite, At, ReviewInv, Typed, Fits, Call, CallPhases, disk
    <2>2. Calm => files' \in Backed(events')
        BY <2>1 DEF Accounted, Backed
    <2> QED BY <2>1, <2>2, RewriteMove DEF At, Rewriting
<1>5. CASE RecordRewriteFails(t)
    BY <1>5, RewriteMove DEF RecordRewriteFails, At, Rewriting
<1>6. CASE RestoreArtifacts(t)
    <2>1. /\ request' = [request EXCEPT ![t] = Idle] /\ Sole(t) /\ request[t].at = "restore"
          /\ files' = request[t].before /\ UNCHANGED <<events, hazards>>
        BY <1>6 DEF RestoreArtifacts, Finish, At, Sole
    <2>2. Calm => files' \in Backed(events')
        BY <2>1 DEF Accounted, Rewriting
    <2> QED BY <2>1, <2>2, IdleFacts, AccountedKeeps DEF Rewriting
<1> QED BY <1>1, <1>2, <1>3, <1>4, <1>5, <1>6 DEF Rewrite

LEMMA FinalizeAccounted ==
    ASSUME ReviewInv, Accounted, NEW t \in Threads, Finalize(t)
    PROVE  Accounted'
<1>1. CASE ReadForFinalization(t)
    <2>1. /\ ~At(t, "idle") /\ request[t].at \notin Unsettled
          /\ UNCHANGED <<files, events, hazards>>
          /\ Finish(t) \/ MoveTo(t, "manifest_write")
        BY <1>1 DEF ReadForFinalization, At, Unsettled, disk
    <2> QED BY <2>1, PlainFinish, PlainMove DEF Phases, Rewriting
<1>2. CASE FinalizationReadFails(t) \/ CommitFinalization(t) \/ FinalizationFails(t)
    <2>1. /\ Finish(t) /\ ~At(t, "idle") /\ request[t].at \notin Unsettled
          /\ events \subseteq events' /\ UNCHANGED <<files, hazards>>
        BY <1>2 DEF FinalizationReadFails, GiveUp, CommitFinalization, FinalizationFails,
                    At, Unsettled, disk
    <2> QED BY <2>1, PlainFinish
<1>3. CASE WriteManifest(t)
    <2> DEFINE had == Call(t) \in manifests
    <2> DEFINE new == [request[t] EXCEPT !.at = "finalize_commit", !.had = had]
    <2>1. request[t].at = "manifest_write" /\ Sole(t) /\ UNCHANGED <<files, events, hazards>>
        BY <1>3 DEF WriteManifest, At, Sole
    <2>2. request' = [request EXCEPT ![t] = new]
        BY <1>3, Zenon DEF WriteManifest, ReviewInv, Typed
    <2> HIDE DEF had
    <2>3. new.at = "finalize_commit"
        BY Zenon DEF ReviewInv, Typed, Request
    <2> HIDE DEF new
    <2> QED BY <2>1, <2>2, <2>3, PlainKeeps DEF Unsettled, Rewriting
<1> QED BY <1>1, <1>2, <1>3 DEF Finalize

LEMMA WriteReviewAccounted ==
    ASSUME ReviewInv, Accounted, NEW t \in Threads, WriteReview(t)
    PROVE  Accounted'
<1>1. ~At(t, "idle") /\ request[t].at \notin Unsettled
    BY DEF WriteReview, Claim, StatusUpdate, Answer, ReviewWriteFails, At, Unsettled
<1>2. Finish(t) /\ events \subseteq events' /\ UNCHANGED <<files, hazards>>
    BY DEF WriteReview, Claim, StatusUpdate, Answer, ReviewWriteFails, WriteOnce, GiveUp, disk
<1> QED BY <1>1, <1>2, PlainFinish

LEMMA AccountedStep == ReviewInv /\ Accounted /\ [Next]_vars => Accounted'
<1> SUFFICES ASSUME ReviewInv, Accounted, [Next]_vars PROVE Accounted'
    OBVIOUS
<1>1. ASSUME NEW t \in Threads, Ask(t) \/ Serve(t) PROVE Accounted'
    BY <1>1, AskAccounted, DraftAccounted, RewriteAccounted, FinalizeAccounted,
       WriteReviewAccounted DEF Serve
<1>2. CASE Crash
    BY <1>2 DEF Crash, Accounted, Calm
<1>3. CASE UNCHANGED vars
    BY <1>3 DEF vars, disk, Accounted, Calm, At, Call, Backed
<1> QED BY <1>1, <1>2, <1>3 DEF Next

-----------------------------------------------------------------------------
(***************************************************************************)
(* That they are all there                                                 *)
(*                                                                         *)
(* Drafts cut short leave a part; the paper goes on record after a draft   *)
(* that was not, and from then on nothing takes an artifact away: a draft  *)
(* fills gaps, a rewrite starts from what is there, and what a failed one  *)
(* puts back was whole.  This holds whatever overlaps or crashes.          *)
(***************************************************************************)
OnRecord == {"snapshot"} \cup Rewriting

Whole ==
    /\ drafted => Complete(files)
    /\ \A t \in Threads :
          /\ At(t, "draft_record") => Complete(files)
          /\ request[t].at \in OnRecord => drafted
          /\ request[t].at \in Rewriting => Complete(request[t].before)

LEMMA WholeContents == Complete(Mixed) /\ (\A c \in Calls : Complete(c))
BY ContentsAssumption DEF Complete, Mixed, NoFiles, PartDraft, DraftContents

LEMMA WholeInit == Init => Whole
<1> SUFFICES ASSUME Init PROVE Whole
    OBVIOUS
<1>1. ~drafted /\ \A t \in Threads : request[t].at = "idle"
    BY IdleFacts DEF Init
<1> QED BY <1>1 DEF Whole, At, OnRecord, Rewriting

\* A step that leaves thread t with request f and takes no artifact away.
LEMMA WholeKeeps ==
    ASSUME Typed, Whole, NEW t \in Threads, NEW f,
           request' = [request EXCEPT ![t] = f],
           drafted => drafted', Complete(files) => Complete(files'),
           drafted' => Complete(files'),
           f.at = "draft_record" => Complete(files'),
           f.at \in OnRecord => drafted',
           f.at \in Rewriting => Complete(f.before)
    PROVE  Whole'
<1>1. request'[t] = f /\ \A u \in Threads : u # t => request'[u] = request[u]
    BY DEF Typed
<1>2. \A u \in Threads : u # t =>
          /\ request'[u].at = "draft_record" => Complete(files')
          /\ request'[u].at \in OnRecord => drafted'
          /\ request'[u].at \in Rewriting => Complete(request'[u].before)
    BY <1>1 DEF Whole, At
<1> QED BY <1>1, <1>2 DEF Whole, At, Complete, OnRecord, Rewriting

\* A request ends, or moves on with what it remembers.
LEMMA WholeFinish ==
    ASSUME Typed, Whole, NEW t \in Threads, Finish(t), drafted' = drafted,
           Complete(files) => Complete(files')
    PROVE  Whole'
<1>1. request' = [request EXCEPT ![t] = Idle] /\ Idle.at = "idle"
    BY IdleFacts DEF Finish
<1>2. drafted' => Complete(files')
    BY DEF Whole
<1> QED BY <1>1, <1>2, WholeKeeps DEF OnRecord, Rewriting

LEMMA WholeMove ==
    ASSUME Typed, Whole, NEW t \in Threads, NEW phase, MoveTo(t, phase),
           drafted => drafted', Complete(files) => Complete(files'),
           drafted' => Complete(files'),
           phase = "draft_record" => Complete(files'),
           phase \in OnRecord => request[t].at \in Rewriting
    PROVE  Whole'
<1> DEFINE new == [request[t] EXCEPT !.at = phase]
<1>1. /\ request' = [request EXCEPT ![t] = new]
      /\ new.at = phase /\ new.before = request[t].before
    BY Zenon DEF MoveTo, Typed, Request
<1>2. phase \in OnRecord => drafted' /\ Complete(new.before)
    BY <1>1 DEF Whole, OnRecord
<1> HIDE DEF new
<1> QED BY <1>1, <1>2, WholeKeeps DEF OnRecord

LEMMA AskWhole ==
    ASSUME ReviewInv, Whole, NEW t \in Threads, Ask(t)
    PROVE  Whole'
<1>1. Typed
    BY DEF ReviewInv
<1>2. ASSUME NEW f, Begin(t, f), f.at \notin Rewriting \cup {"draft_record"},
             f.at = "snapshot" => drafted
      PROVE  Whole'
    <2>1. request' = [request EXCEPT ![t] = f] /\ UNCHANGED <<drafted, files>>
        BY <1>2 DEF Begin, disk
    <2> QED BY <1>1, <1>2, <2>1, WholeKeeps DEF OnRecord, Whole, Complete
<1>3. ASSUME NEW phase \in Phases \ (Rewriting \cup {"draft_record"}),
             NEW c \in Calls \cup {NoCall}, BeginCall(t, c, phase),
             phase = "snapshot" => drafted
      PROVE  Whole'
    <2> DEFINE new == [Idle EXCEPT !.at = phase, !.call = c]
    <2>1. Begin(t, new)
        BY <1>3 DEF BeginCall
    <2>2. new.at = phase
        BY BegunFacts
    <2> HIDE DEF new
    <2> QED BY <1>2, <1>3, <2>1, <2>2
<1>4. CASE BeginDraft(t) \/ BeginBackfill(t)
    BY <1>3, <1>4 DEF BeginDraft, BeginBackfill, Phases, Rewriting
<1>5. ASSUME NEW c \in Calls,
             BeginRewrite(t, c) \/ BeginFinalization(t, c) \/ BeginStatusUpdate(t, c)
      PROVE  Whole'
    BY <1>3, <1>5 DEF BeginRewrite, BeginFinalization, BeginStatusUpdate, Phases, Rewriting
<1>6. review.answers \in SUBSET Calls
    BY DEF ReviewInv, Typed, ReviewRow
<1>7. ASSUME NEW c \in Calls, NEW phase \in {"claim_write", "checklist_write"},
             NEW a \in SUBSET Calls, Begin(t, BegunWith(phase, c, a))
      PROVE  Whole'
    <2>1. BegunWith(phase, c, a).at = phase
        BY BegunWithAnswersFacts DEF Phases
    <2> QED BY <1>2, <1>7, <2>1 DEF Rewriting
<1>8. ASSUME NEW c \in Calls, BeginClaim(t, c) PROVE Whole'
    <2>1. Begin(t, BegunWith("claim_write", c, review.answers))
        BY <1>8 DEF BeginClaim, BegunWith
    <2> QED BY <1>6, <1>7, <2>1
<1>9. ASSUME NEW c \in Calls, BeginAnswer(t, c) PROVE Whole'
    <2>1. Begin(t, BegunWith("checklist_write", c, review.answers \cup {c}))
        BY <1>9 DEF BeginAnswer, BegunWith
    <2>2. review.answers \cup {c} \in SUBSET Calls
        BY <1>6
    <2> QED BY <1>7, <2>1, <2>2
<1> QED BY <1>4, <1>5, <1>8, <1>9 DEF Ask

LEMMA DraftWhole ==
    ASSUME ReviewInv, Whole, NEW t \in Threads, Draft(t)
    PROVE  Whole'
<1>1. Typed /\ files \in Contents
    BY DEF ReviewInv, Typed
<1>2. CASE WriteDraft(t)
    <2>1. MoveTo(t, "draft_record") /\ drafted' = drafted /\ Complete(files')
        BY <1>1, <1>2, DraftFacts DEF WriteDraft
    <2> QED BY <1>1, <2>1, WholeMove DEF OnRecord, Rewriting
<1>3. CASE WriteDraftFails(t)
    <2>1. Finish(t) /\ drafted' = drafted /\ (Complete(files) => files' = files)
        BY <1>1, <1>3, DraftFacts DEF WriteDraftFails
    <2> QED BY <1>1, <2>1, WholeFinish DEF Complete
<1>4. CASE RecordDraft(t)
    <2>1. MoveTo(t, "backfill") /\ drafted' = TRUE /\ files' = files /\ Complete(files)
        BY <1>4 DEF RecordDraft, disk, Whole
    <2> QED BY <1>1, <2>1, WholeMove DEF OnRecord, Rewriting, Complete
<1>5. CASE DraftFails(t) \/ Backfill(t)
    <2>1. Finish(t) /\ UNCHANGED <<drafted, files>>
        BY <1>5 DEF DraftFails, GiveUp, Backfill, disk
    <2> QED BY <1>1, <2>1, WholeFinish DEF Complete
<1> QED BY <1>2, <1>3, <1>4, <1>5 DEF Draft

LEMMA RewriteWhole ==
    ASSUME ReviewInv, Whole, NEW t \in Threads, Rewrite(t)
    PROVE  Whole'
<1>1. Typed /\ (request[t].at \in CallPhases => Call(t) \in Calls)
    BY DEF ReviewInv, Typed, Fits, Call
<1>2. request[t].at \in OnRecord => drafted /\ Complete(files)
    BY DEF Whole
<1>3. CASE SnapshotArtifacts(t)
    <2> DEFINE new == [request[t] EXCEPT !.at = "rewrite_write", !.before = files]
    <2>1. /\ request' = [request EXCEPT ![t].at = "rewrite_write", ![t].before = files]
          /\ UNCHANGED <<drafted, files>> /\ drafted /\ Complete(files)
        BY <1>2, <1>3 DEF SnapshotArtifacts, At, disk, OnRecord
    <2>2. request' = [request EXCEPT ![t] = new]
        BY <2>1, Zenon DEF ReviewInv, Typed
    <2>3. new.at = "rewrite_write" /\ new.before = files
        BY <1>1 DEF Typed, Request
    <2> HIDE DEF new
    <2> QED BY <1>1, <2>1, <2>2, <2>3, WholeKeeps DEF OnRecord, Rewriting, Complete
<1>4. CASE WriteRewrite(t)
    <2>1. request[t].at = "rewrite_write" /\ MoveTo(t, "rewrite_record") /\ drafted' = drafted
        BY <1>4 DEF WriteRewrite, At
    <2>2. Complete(files')
        BY <1>1, <1>4, <2>1, WholeContents DEF WriteRewrite, CallPhases
    <2> QED BY <1>1, <2>1, <2>2, WholeMove DEF Rewriting
<1>5. CASE WriteRewriteFails(t)
    <2>1. request[t].at = "rewrite_write" /\ MoveTo(t, "restore") /\ drafted' = drafted
        BY <1>5 DEF WriteRewriteFails, At
    <2>2. Complete(files')
        BY <1>2, <1>5, <2>1, WholeContents DEF WriteRewriteFails, OnRecord, Rewriting
    <2> QED BY <1>1, <2>1, <2>2, WholeMove DEF Rewriting
<1>6. CASE RecordRewrite(t) \/ RecordRewriteFails(t)
    <2>1. /\ request[t].at = "rewrite_record" /\ UNCHANGED <<drafted, files>>
          /\ MoveTo(t, "finalize_read") \/ MoveTo(t, "restore")
        BY <1>6 DEF RecordRewrite, RecordRewriteFails, At, disk
    <2>2. Complete(files')
        BY <1>2, <2>1 DEF OnRecord, Rewriting
    <2> QED BY <1>1, <2>1, <2>2, WholeMove DEF Rewriting
<1>7. CASE RestoreArtifacts(t)
    <2>1. Finish(t) /\ drafted' = drafted /\ Complete(files')
        BY <1>7 DEF RestoreArtifacts, At, Whole, Rewriting
    <2> QED BY <1>1, <2>1, WholeFinish
<1> QED BY <1>3, <1>4, <1>5, <1>6, <1>7 DEF Rewrite

LEMMA FinalizeWhole ==
    ASSUME ReviewInv, Whole, NEW t \in Threads, Finalize(t) \/ WriteReview(t)
    PROVE  Whole'
<1>1. Typed /\ (drafted => Complete(files))
    BY DEF ReviewInv, Whole
<1>2. CASE ReadForFinalization(t)
    <2>1. UNCHANGED <<drafted, files>> /\ (Finish(t) \/ MoveTo(t, "manifest_write"))
        BY <1>2 DEF ReadForFinalization, disk
    <2> QED BY <1>1, <2>1, WholeFinish, WholeMove DEF OnRecord, Rewriting, Complete
<1>3. CASE WriteManifest(t)
    <2> DEFINE had == Call(t) \in manifests
    <2> DEFINE new == [request[t] EXCEPT !.at = "finalize_commit", !.had = had]
    <2>1. UNCHANGED <<drafted, files>>
        BY <1>3 DEF WriteManifest
    <2>2. request' = [request EXCEPT ![t] = new]
        BY <1>1, <1>3, Zenon DEF WriteManifest, Typed
    <2> HIDE DEF had
    <2>3. new.at = "finalize_commit"
        BY <1>1, Zenon DEF Typed, Request
    <2> HIDE DEF new
    <2> QED BY <1>1, <2>1, <2>2, <2>3, WholeKeeps DEF OnRecord, Rewriting, Complete
<1>4. CASE ~ReadForFinalization(t) /\ ~WriteManifest(t)
    <2>1. Finish(t) /\ UNCHANGED <<drafted, files>>
        BY <1>4 DEF Finalize, FinalizationReadFails, CommitFinalization, FinalizationFails,
                    WriteReview, Claim, StatusUpdate, Answer, ReviewWriteFails, WriteOnce,
                    GiveUp, disk
    <2> QED BY <1>1, <2>1, WholeFinish DEF Complete
<1> QED BY <1>2, <1>3, <1>4

LEMMA WholeStep == ReviewInv /\ Whole /\ [Next]_vars => Whole'
<1> SUFFICES ASSUME ReviewInv, Whole, [Next]_vars PROVE Whole'
    OBVIOUS
<1>1. ASSUME NEW t \in Threads, Ask(t) \/ Serve(t) PROVE Whole'
    BY <1>1, AskWhole, DraftWhole, RewriteWhole, FinalizeWhole DEF Serve
<1>2. CASE Crash
    <2>1. /\ \A t \in Threads : request'[t].at = "idle"
          /\ drafted' = drafted
          /\ files' \in {files, Mixed} \cup DraftCutShort(files)
        BY <1>2, IdleFacts DEF Crash
    <2>2. files \in Contents /\ (drafted => Complete(files))
        BY DEF ReviewInv, Typed, Whole
    <2>3. drafted' => Complete(files')
        BY <2>1, <2>2, DraftFacts, WholeContents DEF Complete
    <2> QED BY <2>1, <2>3 DEF Whole, At, OnRecord, Rewriting
<1>3. CASE UNCHANGED vars
    BY <1>3 DEF vars, disk, Whole, At, Complete
<1> QED BY <1>1, <1>2, <1>3 DEF Next

\* Whatever fails, crashes or overlaps, a paper on record has its five
\* artifacts; and without overlap and crash those of a paper nobody works on
\* are of drafts or of a rewrite on record.
THEOREM ArtifactsOnRecord == Spec => []ArtifactsAccounted
<1>1. Accounted /\ Whole => ArtifactsAccounted
    BY DEF Accounted, Whole, ArtifactsAccounted, Calm, At, Unsettled, Backed, Recorded
<1>2. Spec => [](ReviewInv /\ Accounted /\ Whole)
    BY ReviewInit, ReviewStep, AccountedInit, AccountedStep, WholeInit, WholeStep, PTL
       DEF Spec
<1> QED BY <1>1, <1>2, PTL
=============================================================================
