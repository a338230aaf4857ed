--------------------------- MODULE CorpusRelease ---------------------------
(***************************************************************************)
(* The corpus import autopilot: a timer runs it as a oneshot process that  *)
(* imports finalized papers into the public corpus repository, refreshes   *)
(* the counts on the other release repositories, validates, commits and    *)
(* pushes them, and records the corpus index in the control plane          *)
(* (corpus_imports, the ledger).                                           *)
(*                                                                         *)
(* A repository is what its worktree, its local head and its remote say of *)
(* the papers: a set of papers each.  The importer itself lives in the     *)
(* corpus repository and is external: it adds up to Limit finalized papers *)
(* that the corpus does not have, in an order that may change from one     *)
(* call to the next.  The refresh of promising signals is disabled, as it  *)
(* is without a database url.                                              *)
(***************************************************************************)
EXTENDS FiniteSets, Naturals

CONSTANTS
    Papers,
    Corpus,     \* the corpus repository
    Surfaces,   \* the other release repositories
    Limit,      \* papers per tick (ENOCH_CORPUS_IMPORT_LIMIT)
    Settings,   \* sets of options a behaviour may run under
    Defects,    \* sets of papers that fail the checks after an import
    Regimes     \* sets of hazards a behaviour may be exposed to

\*  preflight_only  stop after the preflight
\*  commit, push    AUTOCOMMIT, PUSH
\*  sync            SYNC_LEDGER
AllOptions == {"preflight_only", "commit", "push", "sync"}

\*  crash       the process dies between two steps
\*  push_fails  a push is refused
\*  transient   the dry run fails, retries included
\*  repair      the operator throws uncommitted changes away
AllHazards == {"crash", "push_fails", "transient", "repair"}

Repos == Surfaces \cup {Corpus}

ASSUME CorpusAssumption == Corpus \notin Surfaces
ASSUME LimitAssumption == Limit \in Nat \ {0}
ASSUME SettingsAssumption == Settings \subseteq SUBSET AllOptions
ASSUME DefectsAssumption == Defects \subseteq SUBSET Papers
ASSUME RegimesAssumption == Regimes \subseteq SUBSET AllHazards

VARIABLES
    finalized,  \* papers the control plane lists as finalized
    held,       \* the control plane is paused or in maintenance
    worktree,   \* papers in the worktree of each repository
    head,       \* papers in its last commit
    remote,     \* papers in what was pushed
    ledger,     \* papers recorded as imported
    tick,       \* what the running process is doing, and its commits
    setup       \* options, defective papers and hazards; never changes

repos == <<worktree, head, remote>>
control == <<finalized, held>>
vars == <<control, repos, ledger, tick, setup>>

Phases ==
    {"idle", "dry_run", "preflight", "import", "rebuild", "validate",
     "commit", "push", "sync"}

Idle == [at |-> "idle", commits |-> {}, unpushed |-> {}]

At(phase) == tick.at = phase
MoveTo(phase) == tick' = [tick EXCEPT !.at = phase]
Exit == tick' = Idle

Option(o) == o \in setup.options
Hazard(h) == h \in setup.hazards

\* Faulty variant: nobody looks for leftovers.
AssumeClean == TRUE

Dirty == {r \in Repos : worktree[r] # head[r]}
Clean == Dirty = {}

\* What the importer may add to a corpus that has the papers in index.
Importable(index) ==
    {s \in SUBSET (finalized \ index) : s # {} /\ Cardinality(s) <= Limit}

\* Faulty variant: the checks report, but do not stop the import.
PassAnyway(papers) == TRUE

PassChecks(papers) == papers \cap setup.defective = {}

Init ==
    /\ finalized = {}
    /\ held = FALSE
    /\ worktree = [r \in Repos |-> {}]
    /\ head = worktree
    /\ remote = worktree
    /\ ledger = {}
    /\ tick = Idle
    /\ setup \in [options : Settings, defective : Defects, hazards : Regimes]

(***************************************************************************)
(* The control plane and its operator                                      *)
(***************************************************************************)
Finalize(p) ==
    /\ p \notin finalized
    /\ finalized' = finalized \cup {p}
    /\ UNCHANGED <<held, repos, ledger, tick, setup>>

Hold ==
    /\ held' = ~held
    /\ UNCHANGED <<finalized, repos, ledger, tick, setup>>

Repair ==
    /\ Hazard("repair")
    /\ At("idle")
    /\ ~Clean
    /\ worktree' = head
    /\ UNCHANGED <<control, head, remote, ledger, tick, setup>>

(***************************************************************************)
(* One tick                                                                *)
(***************************************************************************)

\* A tick that finds a hold or a dirty repository ends at once.
BeginTick ==
    /\ At("idle")
    /\ ~held
    /\ Clean
    /\ MoveTo("dry_run")
    /\ UNCHANGED <<control, repos, ledger, setup>>

\* Nothing to import: only the ledger may be left to do.
DryRun ==
    /\ At("dry_run")
    /\ MoveTo(IF Importable(worktree[Corpus]) = {} THEN "sync" ELSE "preflight")
    /\ UNCHANGED <<control, repos, ledger, setup>>

DryRunFails ==
    /\ At("dry_run")
    /\ Hazard("transient")
    /\ Exit
    /\ UNCHANGED <<control, repos, ledger, setup>>

\* The whole import in a temporary copy of the repositories.
Preflight ==
    /\ At("preflight")
    /\ \E s \in Importable(worktree[Corpus]) :
          IF PassChecks(worktree[Corpus] \cup s) /\ ~Option("preflight_only")
          THEN MoveTo("import")
          ELSE Exit
    /\ UNCHANGED <<control, repos, ledger, setup>>

\* The importer is asked again, and may choose other papers.
LiveImport ==
    /\ At("import")
    /\ \E s \in Importable(worktree[Corpus]) :
          worktree' = [worktree EXCEPT ![Corpus] = @ \cup s]
    /\ MoveTo("rebuild")
    /\ UNCHANGED <<control, head, remote, ledger, setup>>

\* Faulty variant: the public counts are not refreshed.
RebuildCorpus ==
    /\ At("rebuild")
    /\ MoveTo("validate")
    /\ UNCHANGED <<control, repos, ledger, setup>>

\* Audit, quality scan and index of the corpus, then the public counts.
Rebuild ==
    /\ At("rebuild")
    /\ worktree' = [r \in Repos |-> worktree[Corpus]]
    /\ MoveTo("validate")
    /\ UNCHANGED <<control, head, remote, ledger, setup>>

\* A check that fails here leaves the worktree as it is.
RebuildFails ==
    /\ At("rebuild")
    /\ ~PassChecks(worktree[Corpus])
    /\ Exit
    /\ UNCHANGED <<control, repos, ledger, setup>>

\* Faulty variant: the ledger comes before the commits.
ValidateThenSync ==
    /\ At("validate")
    /\ IF PassChecks(worktree[Corpus]) THEN MoveTo("sync") ELSE Exit
    /\ UNCHANGED <<control, repos, ledger, setup>>

\* Trust checks and the validation of the release.
Validate ==
    /\ At("validate")
    /\ IF PassChecks(worktree[Corpus])
       THEN MoveTo(IF Option("commit") THEN "commit" ELSE "sync")
       ELSE Exit
    /\ UNCHANGED <<control, repos, ledger, setup>>

CommitRepo(r) ==
    /\ At("commit")
    /\ r \in Dirty
    /\ head' = [head EXCEPT ![r] = worktree[r]]
    /\ tick' = [tick EXCEPT !.commits = @ \cup {r}, !.unpushed = @ \cup {r}]
    /\ UNCHANGED <<control, worktree, remote, ledger, setup>>

CommitsDone ==
    /\ At("commit")
    /\ Clean
    /\ MoveTo(IF Option("push") THEN "push" ELSE "sync")
    /\ UNCHANGED <<control, repos, ledger, setup>>

PushRepo(r) ==
    /\ At("push")
    /\ r \in tick.unpushed
    /\ remote' = [remote EXCEPT ![r] = head[r]]
    /\ tick' = [tick EXCEPT !.unpushed = @ \ {r}]
    /\ UNCHANGED <<control, worktree, head, ledger, setup>>

\* A refused push is reported and skipped.
PushFails(r) ==
    /\ At("push")
    /\ Hazard("push_fails")
    /\ r \in tick.unpushed
    /\ tick' = [tick EXCEPT !.unpushed = @ \ {r}]
    /\ UNCHANGED <<control, repos, ledger, setup>>

PushesDone ==
    /\ At("push")
    /\ tick.unpushed = {}
    /\ MoveTo("sync")
    /\ UNCHANGED <<control, repos, ledger, setup>>

\* Faulty variant: the ledger waits for pushes that succeeded.
MaySyncPushed ==
    /\ Option("sync")
    /\ Option("push") => tick.commits # {} /\ \A r \in tick.commits : remote[r] = head[r]

\* Failed pushes are advisory; no push at all is an error.
MaySync ==
    /\ Option("sync")
    /\ Option("push") => Option("commit") /\ tick.commits # {}
    /\ worktree[Corpus] # {}

\* The rows become those of the index: new ones added, stale ones pruned.
SyncLedger ==
    /\ At("sync")
    /\ ledger' = IF MaySync THEN worktree[Corpus] ELSE ledger
    /\ Exit
    /\ UNCHANGED <<control, repos, setup>>

\* An import cut short leaves some of its papers.
Crash ==
    /\ Hazard("crash")
    /\ ~At("idle")
    /\ \/ worktree' = worktree
       \/ /\ At("import")
          /\ \E s \in Importable(worktree[Corpus]) :
                worktree' = [worktree EXCEPT ![Corpus] = @ \cup s]
    /\ Exit
    /\ UNCHANGED <<control, head, remote, ledger, setup>>

Step ==
    \/ DryRun \/ DryRunFails \/ Preflight
    \/ LiveImport \/ Rebuild \/ RebuildFails \/ Validate
    \/ \E r \in Repos : CommitRepo(r) \/ PushRepo(r) \/ PushFails(r)
    \/ CommitsDone \/ PushesDone \/ SyncLedger

Next ==
    \/ \E p \in Papers : Finalize(p)
    \/ Hold \/ Repair
    \/ BeginTick \/ Step \/ Crash

\* The timer fires again and again, and not always during a hold.
Fairness == SF_vars(BeginTick) /\ WF_vars(Step)

Spec == Init /\ [][Next]_vars
FairSpec == Spec /\ Fairness

(***************************************************************************)
(* Properties                                                              *)
(***************************************************************************)

\* Shape of the state; only a running tick has commits to push.
TypeOK ==
    /\ finalized \subseteq Papers
    /\ held \in BOOLEAN
    /\ worktree \in [Repos -> SUBSET Papers]
    /\ head \in [Repos -> SUBSET Papers]
    /\ remote \in [Repos -> SUBSET Papers]
    /\ ledger \subseteq Papers
    /\ tick \in [at : Phases, commits : SUBSET Repos, unpushed : SUBSET Repos]
    /\ tick.unpushed \subseteq tick.commits
    /\ At("idle") => tick = Idle
    /\ setup \in [options : Settings, defective : Defects, hazards : Regimes]

\* No paper that fails the checks is committed or pushed anywhere, although the
\* live import may choose papers its preflight has not seen, and although a
\* tick cut short leaves them in the worktree.
ReleaseChecked ==
    \A r \in Repos : /\ remote[r] \subseteq head[r]
                     /\ head[r] \cap setup.defective = {}

\* Where the autopilot commits, the ledger names committed papers only.
LedgerCommitted == Option("commit") => ledger \subseteq head[Corpus]

\* What the ledger has recorded, pruning does not take back, even when the
\* operator throws away what a tick cut short has left.
LedgerKept == [][Option("commit") => ledger \subseteq ledger']_vars

\* Between ticks, clean repositories agree on what is published, unless the
\* operator has thrown half a release away.
SurfacesAgree ==
    (At("idle") /\ Clean /\ ~Hazard("repair")) =>
        \A r \in Repos : head[r] = head[Corpus]

\* While papers pass the checks and no tick is cut short, every finalized paper
\* is recorded, whether or not its push succeeds.
PapersRecorded ==
    (/\ {"commit", "sync"} \subseteq setup.options
     /\ ~Option("preflight_only")
     /\ setup.defective = {}
     /\ setup.hazards \subseteq {"push_fails"}) =>
        \A p \in Papers : (p \in finalized) ~> (held \/ p \in ledger)
=============================================================================
