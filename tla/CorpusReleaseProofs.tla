------------------------- MODULE CorpusReleaseProofs -------------------------
(***************************************************************************)
(* Proofs about CorpusRelease, for any papers, any number of repositories, *)
(* any limit, every option and every hazard.                               *)
(*                                                                         *)
(* The public repositories are changed one at a time, and a tick may end   *)
(* between any two of its steps.  What holds throughout is that a remote   *)
(* never has a paper that the corpus has not committed (Published), and    *)
(* that whoever commits does so on worktrees that agree and have passed    *)
(* the checks (Prepared).                                                  *)
(***************************************************************************)
EXTENDS CorpusRelease, TLAPS

Tick == [at : Phases, commits : SUBSET Repos, unpushed : SUBSET Repos]

HeadsAgree == \A r \in Repos : head[r] = head[Corpus]
WorktreesAgree == \A r \in Repos : worktree[r] = worktree[Corpus]

\* The corpus loses no paper it has committed, whatever is thrown away.
Published ==
    /\ head[Corpus] \subseteq worktree[Corpus]
    /\ \A r \in Repos : /\ remote[r] \subseteq head[r]
                        /\ remote[r] \subseteq head[Corpus]
                        /\ head[r] \cap setup.defective = {}

\* What a tick can rely on at each of its steps.
Prepared ==
    /\ tick.at \in {"dry_run", "preflight", "import", "push"} => Clean
    /\ At("sync") /\ Option("commit") => Clean
    /\ tick.at \in {"validate", "commit", "push"} => WorktreesAgree
    /\ tick.at \in {"commit", "push"} =>
          Option("commit") /\ worktree[Corpus] \cap setup.defective = {}

\* Without repairs, heads that disagree belong to a release cut short.
Agreement ==
    ~Hazard("repair") =>
        /\ HeadsAgree \/ ~Clean
        /\ tick.at \in {"dry_run", "preflight", "import", "rebuild", "validate"} =>
              HeadsAgree

ReleaseInv == TypeOK /\ Published /\ Prepared /\ Agreement /\ LedgerCommitted

LEMMA RepoFacts == Corpus \in Repos
BY DEF Repos

LEMMA CleanFacts ==
    ASSUME TypeOK
    PROVE  Clean <=> \A r \in Repos : worktree[r] = head[r]
BY DEF Clean, Dirty

LEMMA MovedFacts ==
    ASSUME TypeOK, NEW phase \in Phases \ {"idle"}, MoveTo(phase)
    PROVE  /\ tick' \in Tick /\ tick'.at = phase
           /\ tick'.commits = tick.commits /\ tick'.unpushed = tick.unpushed
BY Zenon DEF TypeOK, MoveTo, Tick

LEMMA ExitFacts ==
    Exit =>
        tick' = Idle /\ tick' \in Tick /\ tick'.at = "idle" /\ tick'.unpushed = {}
BY DEF Exit, Idle, Tick, Phases

LEMMA ReleaseInit == Init => ReleaseInv
<1> SUFFICES ASSUME Init PROVE ReleaseInv
    OBVIOUS
<1>1. TypeOK
    BY DEF Init, TypeOK, Idle, Phases, At
<1>2. \A r \in Repos : worktree[r] = {} /\ head[r] = {} /\ remote[r] = {}
    BY DEF Init
<1>3. Published
    BY <1>2, RepoFacts DEF Published
<1>4. Prepared /\ Agreement
    BY <1>2, RepoFacts DEF Init, Idle, Prepared, Agreement, HeadsAgree, At
<1>5. LedgerCommitted
    BY DEF Init, LedgerCommitted
<1> QED BY <1>1, <1>3, <1>4, <1>5 DEF ReleaseInv

\* A step that leaves the repositories and the ledger alone and moves on.
LEMMA MoveKeeps ==
    ASSUME ReleaseInv, NEW phase \in Phases \ {"idle"}, MoveTo(phase),
           UNCHANGED <<control, repos, ledger, setup>>,
           phase \in {"dry_run", "preflight", "push"} => Clean,
           phase = "sync" /\ Option("commit") => Clean,
           phase \in {"commit", "push"} =>
               /\ WorktreesAgree /\ Option("commit")
               /\ worktree[Corpus] \cap setup.defective = {},
           phase \in {"dry_run", "preflight", "import"} /\ ~Hazard("repair") =>
               HeadsAgree,
           phase \notin {"rebuild", "validate"}, phase = "import" => Clean
    PROVE  ReleaseInv'
<1>1. TypeOK'
    BY MovedFacts DEF ReleaseInv, TypeOK, Tick, control, repos, At
<1>2. tick'.at = phase
    BY MovedFacts DEF ReleaseInv
<1>3. Published' /\ LedgerCommitted'
    BY DEF ReleaseInv, Published, LedgerCommitted, Option, repos
<1>4. /\ Clean' = Clean /\ WorktreesAgree' = WorktreesAgree
      /\ HeadsAgree' = HeadsAgree
    BY DEF Clean, Dirty, WorktreesAgree, HeadsAgree, repos
<1>5. Prepared'
    BY <1>2, <1>4 DEF ReleaseInv, Prepared, At, Option, repos
<1>6. Agreement'
    BY <1>2, <1>4 DEF ReleaseInv, Agreement, Hazard
<1> QED BY <1>1, <1>3, <1>5, <1>6 DEF ReleaseInv

\* A tick ends, and may leave papers in the worktree of the corpus.
LEMMA ExitKeeps ==
    ASSUME ReleaseInv, Exit, UNCHANGED <<control, head, remote, setup>>,
           worktree' = worktree \/ (/\ worktree' \in [Repos -> SUBSET Papers]
                                    /\ worktree[Corpus] \subseteq worktree'[Corpus]
                                    /\ ~Hazard("repair") => HeadsAgree),
           ledger' \in SUBSET Papers, LedgerCommitted'
    PROVE  ReleaseInv'
<1>1. TypeOK'
    BY ExitFacts DEF ReleaseInv, TypeOK, Tick, control, At
<1>2. tick'.at = "idle"
    BY ExitFacts
<1>3. Published'
    BY DEF ReleaseInv, Published
<1>4. Prepared'
    BY <1>2 DEF Prepared, At
<1>5. HeadsAgree' = HeadsAgree /\ (worktree' = worktree => Clean' = Clean)
    BY DEF HeadsAgree, Clean, Dirty
<1>6. Agreement'
    BY <1>2, <1>5 DEF ReleaseInv, Agreement, Hazard
<1> QED BY <1>1, <1>3, <1>4, <1>6 DEF ReleaseInv

LEMMA ControlKeeps ==
    ASSUME ReleaseInv,
           (\E p \in Papers : Finalize(p)) \/ Hold \/ UNCHANGED vars
    PROVE  ReleaseInv'
<1>1. /\ UNCHANGED <<worktree, head, remote, ledger, tick, setup>>
      /\ finalized' \in SUBSET Papers /\ held' \in BOOLEAN
    BY
    DEF Finalize, Hold, vars, control, repos, ReleaseInv, TypeOK
<1>2. TypeOK'
    BY <1>1 DEF ReleaseInv, TypeOK, At
<1>3. Published' /\ LedgerCommitted'
    BY <1>1 DEF ReleaseInv, Published, LedgerCommitted, Option
<1>4. /\ Clean' = Clean /\ WorktreesAgree' = WorktreesAgree
      /\ HeadsAgree' = HeadsAgree
    BY <1>1 DEF Clean, Dirty, WorktreesAgree, HeadsAgree
<1>5. Prepared' /\ Agreement'
    BY <1>1, <1>4 DEF ReleaseInv, Prepared, Agreement, At, Option, Hazard
<1> QED BY <1>2, <1>3, <1>5 DEF ReleaseInv

LEMMA RepairKeeps ==
    ASSUME ReleaseInv, Repair
    PROVE  ReleaseInv'
<1>1. /\ worktree' = head /\ Hazard("repair") /\ tick.at = "idle"
      /\ UNCHANGED <<finalized, held, head, remote, ledger, tick, setup>>
    BY DEF Repair, At, control
<1>2. TypeOK'
    BY <1>1 DEF ReleaseInv, TypeOK, At
<1>3. Published' /\ LedgerCommitted'
    BY <1>1 DEF ReleaseInv, Published, LedgerCommitted, Option
<1>4. Prepared' /\ Agreement'
    BY <1>1 DEF Prepared, Agreement, At, Hazard
<1> QED BY <1>2, <1>3, <1>4 DEF ReleaseInv

LEMMA LiveImportKeeps ==
    ASSUME ReleaseInv, LiveImport
    PROVE  ReleaseInv'
<1>1. /\ tick.at = "import" /\ MoveTo("rebuild")
      /\ UNCHANGED <<finalized, held, head, remote, ledger, setup>>
    BY DEF LiveImport, At, control
<1>2. PICK s \in SUBSET finalized : worktree' = [worktree EXCEPT ![Corpus] = @ \cup s]
    BY DEF LiveImport, Importable
<1>3. tick' \in Tick /\ tick'.at = "rebuild" /\ tick'.unpushed \subseteq tick'.commits
    BY <1>1, MovedFacts DEF ReleaseInv, TypeOK, Phases
<1>4. TypeOK'
    BY <1>1, <1>2, <1>3 DEF ReleaseInv, TypeOK, Tick, At
<1>5. worktree[Corpus] \subseteq worktree'[Corpus]
    BY <1>2, RepoFacts DEF ReleaseInv, TypeOK
<1>6. Published' /\ LedgerCommitted'
    BY <1>1, <1>5 DEF ReleaseInv, Published, LedgerCommitted, Option
<1>7. Prepared' /\ Agreement'
    BY <1>1, <1>3 DEF ReleaseInv, Prepared, Agreement, At, Hazard, HeadsAgree
<1> QED BY <1>4, <1>6, <1>7 DEF ReleaseInv

LEMMA RebuildKeeps ==
    ASSUME ReleaseInv, Rebuild
    PROVE  ReleaseInv'
<1>1. /\ tick.at = "rebuild" /\ MoveTo("validate")
      /\ worktree' = [r \in Repos |-> worktree[Corpus]]
      /\ UNCHANGED <<finalized, held, head, remote, ledger, setup>>
    BY DEF Rebuild, At, control
<1>2. tick' \in Tick /\ tick'.at = "validate" /\ tick'.unpushed \subseteq tick'.commits
    BY <1>1, MovedFacts DEF ReleaseInv, TypeOK, Phases
<1>3. TypeOK' /\ WorktreesAgree' /\ worktree'[Corpus] = worktree[Corpus]
    BY <1>1, <1>2, RepoFacts DEF ReleaseInv, TypeOK, Tick, At, WorktreesAgree
<1>4. Published' /\ LedgerCommitted'
    BY <1>1, <1>3 DEF ReleaseInv, Published, LedgerCommitted, Option
<1>5. Prepared' /\ Agreement'
    BY <1>1, <1>2, <1>3
    DEF ReleaseInv, Prepared, Agreement, At, Hazard, HeadsAgree
<1> QED BY <1>3, <1>4, <1>5 DEF ReleaseInv

\* Worktrees agree and passed the checks when one of them is committed.
LEMMA CommitKeeps ==
    ASSUME ReleaseInv, NEW r \in Repos, CommitRepo(r)
    PROVE  ReleaseInv'
<1> DEFINE new == [tick EXCEPT !.commits = @ \cup {r}, !.unpushed = @ \cup {r}]
<1>1. /\ tick.at = "commit" /\ tick' = new
      /\ head' = [head EXCEPT ![r] = worktree[r]]
      /\ UNCHANGED <<finalized, held, worktree, remote, ledger, setup>>
    BY DEF CommitRepo, At, control
<1>2. /\ new \in Tick /\ new.at = "commit" /\ new.unpushed \subseteq new.commits
    BY <1>1 DEF ReleaseInv, TypeOK, Tick
<1> HIDE DEF new
<1>3. TypeOK'
    BY <1>1, <1>2 DEF ReleaseInv, TypeOK, Tick, At
<1>4. /\ WorktreesAgree /\ Option("commit")
      /\ worktree[Corpus] \cap setup.defective = {}
      /\ head[Corpus] \subseteq worktree[Corpus] /\ worktree[r] = worktree[Corpus]
      /\ \A s \in Repos : head'[s] = IF s = r THEN worktree[Corpus] ELSE head[s]
    BY <1>1 DEF ReleaseInv, Published, Prepared, WorktreesAgree, TypeOK
<1>5. head[Corpus] \subseteq head'[Corpus] /\ head'[Corpus] \subseteq worktree[Corpus]
    BY <1>4, RepoFacts
<1>6. Published'
    BY <1>1, <1>4, <1>5 DEF ReleaseInv, Published
<1>7. LedgerCommitted'
    BY <1>1, <1>5 DEF ReleaseInv, LedgerCommitted, Option
<1>8. Prepared' /\ WorktreesAgree'
    BY <1>1, <1>2, <1>4 DEF Prepared, WorktreesAgree, Option, At
<1>9. Agreement'
    <2>1. Clean' => HeadsAgree'
        BY <1>3, <1>8, RepoFacts DEF Clean, Dirty, HeadsAgree, WorktreesAgree
    <2> QED BY <1>1, <1>2, <2>1 DEF Agreement
<1> QED BY <1>3, <1>6, <1>7, <1>8, <1>9 DEF ReleaseInv

\* Repositories are clean and agree when one of them is pushed.
LEMMA PushKeeps ==
    ASSUME ReleaseInv, NEW r \in Repos, PushRepo(r) \/ PushFails(r)
    PROVE  ReleaseInv'
<1> DEFINE new == [tick EXCEPT !.unpushed = @ \ {r}]
<1>1. /\ tick.at = "push" /\ tick' = new
      /\ remote' = remote \/ remote' = [remote EXCEPT ![r] = head[r]]
      /\ UNCHANGED <<finalized, held, worktree, head, ledger, setup>>
    BY DEF PushRepo, PushFails, At, control, repos
<1>2. /\ new \in Tick /\ new.at = "push" /\ new.unpushed \subseteq new.commits
    BY <1>1 DEF ReleaseInv, TypeOK, Tick
<1> HIDE DEF new
<1>3. TypeOK'
    BY <1>1, <1>2 DEF ReleaseInv, TypeOK, Tick, At
<1>4. head[r] = head[Corpus]
    BY <1>1, CleanFacts, RepoFacts DEF ReleaseInv, Prepared, WorktreesAgree
<1>5. Published' /\ LedgerCommitted'
    BY <1>1, <1>4 DEF ReleaseInv, Published, LedgerCommitted, Option, TypeOK
<1>6. /\ Clean' = Clean /\ WorktreesAgree' = WorktreesAgree
      /\ HeadsAgree' = HeadsAgree
    BY <1>1 DEF Clean, Dirty, WorktreesAgree, HeadsAgree
<1>7. Prepared' /\ Agreement'
    BY <1>1, <1>2, <1>6
    DEF ReleaseInv, Prepared, Agreement, At, Option, Hazard
<1> QED BY <1>3, <1>5, <1>7 DEF ReleaseInv

\* The ledger becomes the index of the corpus, which is committed by then.
LEMMA SyncKeeps ==
    ASSUME ReleaseInv, SyncLedger
    PROVE  ReleaseInv' /\ (Option("commit") => ledger \subseteq ledger')
<1>1. /\ tick.at = "sync" /\ Exit
      /\ ledger' = ledger \/ ledger' = worktree[Corpus]
      /\ UNCHANGED <<control, worktree, head, remote, setup>>
    BY DEF SyncLedger, At, repos
<1>2. worktree[Corpus] \in SUBSET Papers /\ ledger \in SUBSET Papers
    BY RepoFacts DEF ReleaseInv, TypeOK
<1>3. Option("commit") => worktree[Corpus] = head[Corpus]
    BY <1>1, RepoFacts, CleanFacts DEF ReleaseInv, Prepared, At
<1>4. LedgerCommitted' /\ (Option("commit") => ledger \subseteq ledger')
    BY <1>1, <1>3 DEF ReleaseInv, LedgerCommitted, Option
<1>5. ledger' \in SUBSET Papers
    BY <1>1, <1>2
<1>6. ReleaseInv'
    BY <1>1, <1>4, <1>5, ExitKeeps
<1> QED BY <1>4, <1>6

\* A process that dies between two steps, or in the middle of an import.
LEMMA CrashKeeps ==
    ASSUME ReleaseInv, Crash
    PROVE  ReleaseInv'
<1>1. Exit /\ UNCHANGED <<control, head, remote, ledger, setup>>
    BY DEF Crash
<1>2. ledger' \in SUBSET Papers /\ LedgerCommitted'
    BY <1>1 DEF ReleaseInv, TypeOK, LedgerCommitted, Option
<1>3. CASE worktree' = worktree
    BY <1>1, <1>2, <1>3, ExitKeeps
<1>4. CASE worktree' # worktree
    <2>1. PICK s \in SUBSET finalized : worktree' = [worktree EXCEPT ![Corpus] = @ \cup s]
        BY <1>4 DEF Crash, Importable
    <2>2. /\ worktree' \in [Repos -> SUBSET Papers]
          /\ worktree[Corpus] \subseteq worktree'[Corpus]
        BY <2>1, RepoFacts DEF ReleaseInv, TypeOK
    <2>3. ~Hazard("repair") => HeadsAgree
        BY <1>4 DEF Crash, At, ReleaseInv, Agreement
    <2> QED BY <1>1, <1>2, <2>2, <2>3, ExitKeeps
<1> QED BY <1>3, <1>4

LEMMA StepKeeps == ReleaseInv /\ (BeginTick \/ Step) => ReleaseInv'
<1> SUFFICES ASSUME ReleaseInv, BeginTick \/ Step PROVE ReleaseInv'
    OBVIOUS
<1>1. CASE BeginTick
    <2>1. Clean /\ (~Hazard("repair") => HeadsAgree)
        BY <1>1 DEF BeginTick, ReleaseInv, Agreement
    <2> QED BY <1>1, <2>1, MoveKeeps DEF BeginTick, Phases
<1>2. ASSUME Exit, UNCHANGED <<control, repos, ledger, setup>>
      PROVE  ReleaseInv'
    <2>1. ledger' \in SUBSET Papers /\ LedgerCommitted'
        BY <1>2 DEF ReleaseInv, TypeOK, LedgerCommitted, Option, repos
    <2> QED BY <1>2, <2>1, ExitKeeps DEF repos
<1>3. CASE DryRun
    <2>1. Clean /\ (~Hazard("repair") => HeadsAgree)
        BY <1>3 DEF DryRun, ReleaseInv, Prepared, Agreement, At
    <2> QED BY <1>3, <2>1, MoveKeeps DEF DryRun, Phases
<1>4. CASE DryRunFails \/ RebuildFails
    BY <1>2, <1>4 DEF DryRunFails, RebuildFails
<1>5. CASE Preflight
    <2>1. Clean /\ (~Hazard("repair") => HeadsAgree)
        BY <1>5 DEF Preflight, ReleaseInv, Prepared, Agreement, At
    <2>2. MoveTo("import") \/ Exit
        BY <1>5 DEF Preflight
    <2>3. UNCHANGED <<control, repos, ledger, setup>>
        BY <1>5 DEF Preflight
    <2>4. CASE MoveTo("import")
        BY <2>1, <2>3, <2>4, MoveKeeps DEF Phases
    <2> QED BY <1>2, <2>2, <2>3, <2>4
<1>6. CASE Validate
    <2>1. WorktreesAgree /\ UNCHANGED <<control, repos, ledger, setup>>
        BY <1>6 DEF Validate, ReleaseInv, Prepared, At
    <2>2. CASE PassChecks(worktree[Corpus]) /\ Option("commit")
        <3>1. MoveTo("commit") /\ worktree[Corpus] \cap setup.defective = {}
            BY <1>6, <2>2 DEF Validate, PassChecks
        <3> QED BY <2>1, <2>2, <3>1, MoveKeeps DEF Phases
    <2>3. CASE PassChecks(worktree[Corpus]) /\ ~Option("commit")
        <3>1. MoveTo("sync")
            BY <1>6, <2>3 DEF Validate
        <3> QED BY <2>1, <2>3, <3>1, MoveKeeps DEF Phases
    <2> QED BY <1>2, <1>6, <2>1, <2>2, <2>3 DEF Validate
<1>7. CASE CommitsDone
    <2>1. /\ WorktreesAgree /\ Clean
          /\ UNCHANGED <<control, repos, ledger, setup>>
          /\ Option("commit") /\ worktree[Corpus] \cap setup.defective = {}
        BY <1>7 DEF CommitsDone, ReleaseInv, Prepared, At
    <2>2. MoveTo("push") \/ MoveTo("sync")
        BY <1>7 DEF CommitsDone
    <2>3. CASE MoveTo("push")
        BY <2>1, <2>3, MoveKeeps DEF Phases
    <2>4. CASE MoveTo("sync")
        BY <2>1, <2>4, MoveKeeps DEF Phases
    <2> QED BY <2>2, <2>3, <2>4
<1>8. CASE PushesDone
    <2>1. Clean
        BY <1>8 DEF PushesDone, ReleaseInv, Prepared, At
    <2> QED BY <1>8, <2>1, MoveKeeps DEF PushesDone, Phases
<1> QED BY <1>1, <1>3, <1>4, <1>5, <1>6, <1>7, <1>8, LiveImportKeeps, RebuildKeeps,
           CommitKeeps, PushKeeps, SyncKeeps DEF Step

LEMMA ReleaseStep == ReleaseInv /\ [Next]_vars => ReleaseInv'
BY ControlKeeps, RepairKeeps, StepKeeps, CrashKeeps DEF Next

LEMMA ReleaseInvariant == Spec => []ReleaseInv
BY ReleaseInit, ReleaseStep, PTL DEF Spec

-----------------------------------------------------------------------------
(* Theorems *)

\* Every reachable state of the autopilot is well typed; only a running tick has
\* commits to push.
THEOREM TypeCorrect == Spec => []TypeOK
BY ReleaseInvariant, PTL DEF ReleaseInv

\* No paper that fails the checks is committed or pushed, whatever the live
\* import chooses and wherever a tick ends.
THEOREM NothingUnchecked == Spec => []ReleaseChecked
<1>1. ReleaseInv => ReleaseChecked
    BY DEF ReleaseInv, Published, ReleaseChecked
<1> QED BY <1>1, ReleaseInvariant, PTL

\* Where the autopilot commits, the ledger names committed papers only.
THEOREM LedgerBacked == Spec => []LedgerCommitted
BY ReleaseInvariant, PTL DEF ReleaseInv

\* Between ticks clean repositories agree, unless half a release was thrown away.
THEOREM SurfacesInStep == Spec => []SurfacesAgree
<1>1. ReleaseInv => SurfacesAgree
    BY DEF ReleaseInv, Agreement, HeadsAgree, SurfacesAgree
<1> QED BY <1>1, ReleaseInvariant, PTL

\* Pruning takes no recorded paper back from the ledger.
THEOREM LedgerMonotonic == Spec => LedgerKept
<1>1. ReleaseInv /\ [Next]_vars =>
          [Option("commit") => ledger \subseteq ledger']_vars
    <2> SUFFICES ASSUME ReleaseInv, Next, Option("commit")
                 PROVE  ledger \subseteq ledger'
        OBVIOUS
    <2>1. CASE SyncLedger
        BY <2>1, SyncKeeps
    <2>2. CASE ~SyncLedger
        <3>1. ledger' = ledger
            BY <2>2
            DEF Next, Finalize, Hold, Repair, BeginTick, Step,
                DryRun, DryRunFails, Preflight, LiveImport, Rebuild,
                RebuildFails, Validate, CommitRepo, PushRepo, PushFails,
                CommitsDone, PushesDone, Crash
        <3> QED BY <3>1
    <2> QED BY <2>1, <2>2
<1> QED BY <1>1, ReleaseInvariant, PTL DEF Spec, LedgerKept
=============================================================================
