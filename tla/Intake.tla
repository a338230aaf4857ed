------------------------------- MODULE Intake -------------------------------
(***************************************************************************)
(* How rows get into the queue from outside: snapshots of queue rows that  *)
(* are imported, and ideas that are taken in, while dispatchers claim and  *)
(* runs report.                                                            *)
(*                                                                         *)
(* A request is one transaction at read committed: its event first, then   *)
(* for each of its rows a read and a later write.  A written row is locked *)
(* until the transaction ends, the others see what was committed.          *)
(*                                                                         *)
(* Every lane has one name here, and a run outlives the recording of its   *)
(* start; QueueLedger has what happens otherwise.  Papers of a snapshot    *)
(* are in the model as a reason to roll back.                              *)
(***************************************************************************)
EXTENDS FiniteSets, Integers

CONSTANTS
    Projects, Lanes, Dispatchers,
    Importers,  \* requests, each with an idempotency key of its own
    NoRun,
    Setups      \* scenarios: first rows, requests, number of claims, hazards

\*  undated   rows of snapshots carry no timestamp and count as new
\*  fails     the database, or the identity of a paper, fails a request
\*  lost      the answer to a committed request is lost, and it is repeated
AllHazards == {"undated", "fails", "lost"}

Runs == [of : Projects, number : Nat]
Statuses == {"absent", "queued", "dispatching", "awaiting_wake", "completed"}
Row == [status : Statuses, run : Runs \cup {NoRun}, lane : Lanes, updated : Nat]
Kinds == {"none", "import", "ideas"}

ASSUME RunAssumption == NoRun \notin Runs
ASSUME SetupAssumption ==
    Setups \subseteq
        [first : [Projects -> Row], kinds : [Importers -> Kinds], claims : Nat,
         hazards : SUBSET AllHazards]
\* The unique index holds of the first rows, and their runs precede all claims.
ASSUME FirstRowsAssumption ==
    \A s \in Setups : \A p \in Projects :
        /\ s.first[p].run # NoRun => s.first[p].run.number = 0
        /\ s.first[p].status = "dispatching" =>
              \A q \in Projects \ {p} :
                  s.first[q].status = "dispatching" => s.first[q].lane # s.first[p].lane

VARIABLES
    row,         \* committed queue rows
    stamps,      \* the latest updated_at of each row, as a number
    live,        \* runs alive on the worker of a lane
    owed,        \* runs that ended and have not reported
    claims,      \* number of claims so far, for run identities
    events,      \* requests whose event is committed
    request,     \* what is asked for
    importer,    \* the transaction of a request
    dispatcher,
    setup        \* the scenario; never changes

vars == <<row, stamps, live, owed, claims, events, request, importer, dispatcher, setup>>

ACTIVE_STATUSES == {"dispatching", "awaiting_wake"}
Active(r) == r.status \in ACTIVE_STATUSES
Hazard(h) == h \in setup.hazards

NoRequest == [rows |-> <<>>, override |-> FALSE]
Ended == [at |-> "ended", todo |-> {}, writes |-> <<>>, of |-> "none", seen |-> "none"]
Waiting == [Ended EXCEPT !.at = "waiting"]
Resting == [at |-> "idle", of |-> "none", lane |-> "none", run |-> NoRun]

Init ==
    /\ setup \in Setups
    /\ row = setup.first
    /\ stamps = [p \in Projects |-> row[p].updated]
    /\ live = [l \in Lanes |-> {}] /\ owed = {} /\ claims = 0 /\ events = {}
    /\ request = [i \in Importers |-> NoRequest]
    /\ importer = [i \in Importers |->
          IF setup.kinds[i] = "none" THEN Ended ELSE [Ended EXCEPT !.at = "asked"]]
    /\ dispatcher = [d \in Dispatchers |-> Resting]

-----------------------------------------------------------------------------
(* Rows, locks and stamps *)

Locked(p) == \E i \in Importers : p \in DOMAIN importer[i].writes

\* What transaction i sees of row p.
Sees(i, p) == IF p \in DOMAIN importer[i].writes THEN importer[i].writes[p] ELSE row[p]

\* Row r of p, if it is written now.
Stamped(p, r) == [r EXCEPT !.updated = stamps[p] + 1]

\* A statement of its own transaction writes row p.
Put(p, r) ==
    /\ ~Locked(p)
    /\ row' = [row EXCEPT ![p] = Stamped(p, r)]
    /\ stamps' = [stamps EXCEPT ![p] = @ + 1]

\* idx_queue_one_active_lane_per_machine
Dispatching(rows, p, l) ==
    \E q \in DOMAIN rows \ {p} : rows[q].status = "dispatching" /\ rows[q].lane = l
Duplicate(p, r) == r.status = "dispatching" /\ Dispatching(row, p, r.lane)
MayDuplicate(p, r) ==
    /\ r.status = "dispatching"
    /\ \E i \in Importers : Dispatching(importer[i].writes, p, r.lane)

-----------------------------------------------------------------------------
(* Requests *)

\* A snapshot of some rows is taken.  It is imported later.
TakeSnapshot(i) ==
    /\ importer[i].at = "asked"
    /\ setup.kinds[i] = "import"
    /\ \E ps \in SUBSET {p \in Projects : row[p].status # "absent"} :
          /\ ps # {}
          /\ request' = [request EXCEPT ![i].rows = [p \in ps |-> row[p]]]
    /\ importer' = [importer EXCEPT ![i] = Waiting]
    /\ UNCHANGED <<row, stamps, live, owed, claims, events, dispatcher, setup>>

\* Ideas name a lane; override_existing_dispatch_metadata lets them change it.
SubmitIdeas(i) ==
    /\ importer[i].at = "asked"
    /\ setup.kinds[i] = "ideas"
    /\ \E ps \in (SUBSET Projects) \ {{}}, l \in Lanes, o \in BOOLEAN :
          request' = [request EXCEPT ![i].rows =
              [p \in ps |-> [status |-> "queued", run |-> NoRun, lane |-> l, updated |-> 0]],
                                     ![i].override = o]
    /\ importer' = [importer EXCEPT ![i] = Waiting]
    /\ UNCHANGED <<row, stamps, live, owed, claims, events, dispatcher, setup>>

\* The event comes first; one that is there already makes it a repetition.
Begin(i) ==
    /\ importer[i].at = "waiting"
    /\ importer' = [importer EXCEPT ![i] =
          IF i \in events THEN Ended
          ELSE [Waiting EXCEPT !.at = "next", !.todo = DOMAIN request[i].rows]]
    /\ UNCHANGED <<row, stamps, live, owed, claims, events, request, dispatcher, setup>>

\* An older row of a snapshot is passed over.
Older(i, p) ==
    /\ setup.kinds[i] = "import"
    /\ ~Hazard("undated")
    /\ Sees(i, p).status # "absent"
    /\ request[i].rows[p].updated < Sees(i, p).updated

ReadRow(i, p) ==
    /\ importer[i].at = "next"
    /\ p \in importer[i].todo
    /\ \/ /\ Older(i, p)
          /\ importer' = [importer EXCEPT ![i].todo = @ \ {p}]
       \/ /\ ~Older(i, p)
          /\ importer' = [importer EXCEPT ![i].at = "read", ![i].todo = @ \ {p},
                                          ![i].of = p, ![i].seen = Sees(i, p)]
    /\ UNCHANGED <<row, stamps, live, owed, claims, events, request, dispatcher, setup>>

\* An active row keeps its status and run unless the snapshot has the same run
\* and an active status; all else is the snapshot's, its updated_at included.
ImportedRow(i) ==
    LET p == importer[i].of
        asked == request[i].rows[p]
        incoming == IF Hazard("undated") THEN Stamped(p, asked) ELSE asked
        seen == importer[i].seen
        preserve == Active(seen) /\ (incoming.run # seen.run \/ ~Active(incoming))
    IN  IF preserve THEN [incoming EXCEPT !.status = seen.status, !.run = seen.run]
        ELSE incoming

\* Faulty variant: the upsert trusts the row that was read.
ImportTrusting(now, new) == TRUE

\* The where-clause of the upsert, on the row as it is now.
MayImport(now, new) ==
    ~Active(now) \/ (Active(new) /\ new.run = now.run)

\* What the statement makes of the row; ideas change the lane at most, and
\* not of an active row.
Written(i) ==
    LET p == importer[i].of
        now == Sees(i, p)
        asked == request[i].rows[p]
    IN  IF setup.kinds[i] = "import"
        THEN IF MayImport(now, ImportedRow(i)) THEN ImportedRow(i) ELSE now
        ELSE IF Active(now) THEN now
        ELSE IF now.status = "absent" THEN Stamped(p, asked)
        ELSE IF request[i].override THEN Stamped(p, [now EXCEPT !.lane = asked.lane])
        ELSE Stamped(p, now)

\* Another request has created the row since this one looked.
Collision(i) ==
    /\ setup.kinds[i] = "ideas"
    /\ importer[i].seen.status = "absent"
    /\ Sees(i, importer[i].of).status # "absent"

WriteRow(i) ==
    LET p == importer[i].of
    IN  /\ importer[i].at = "read"
        /\ p \in DOMAIN importer[i].writes \/ ~Locked(p)
        /\ ~MayDuplicate(p, Written(i))
        /\ importer' = [importer EXCEPT ![i] =
              IF Collision(i) \/ Duplicate(p, Written(i)) THEN Waiting
              ELSE [importer[i] EXCEPT !.at = "next", !.of = "none", !.seen = "none",
                       !.writes = [q \in DOMAIN importer[i].writes \cup {p} |->
                           IF q = p THEN Written(i) ELSE importer[i].writes[q]]]]
        /\ UNCHANGED <<row, stamps, live, owed, claims, events, request, dispatcher, setup>>

Commit(i) ==
    LET writes == importer[i].writes
    IN  /\ importer[i].at = "next"
        /\ importer[i].todo = {}
        /\ row' = [p \in Projects |-> IF p \in DOMAIN writes THEN writes[p] ELSE row[p]]
        /\ stamps' = [p \in Projects |->
              IF row'[p].updated > stamps[p] THEN row'[p].updated ELSE stamps[p]]
        /\ events' = events \cup {i}
        /\ \E at \in {"ended"} \cup (IF Hazard("lost") THEN {"waiting"} ELSE {}) :
              importer' = [importer EXCEPT ![i] = [Ended EXCEPT !.at = at]]
        /\ UNCHANGED <<live, owed, claims, request, dispatcher, setup>>

\* The transaction is rolled back; the request may be tried again.
Rollback(i) ==
    /\ Hazard("fails")
    /\ importer[i].at \in {"next", "read"}
    /\ importer' = [importer EXCEPT ![i] = Waiting]
    /\ UNCHANGED <<row, stamps, live, owed, claims, events, request, dispatcher, setup>>

-----------------------------------------------------------------------------
(* Dispatch *)

OpenLane(l) == ~\E p \in Projects : Active(row[p]) /\ row[p].lane = l

\* A candidate is a copy of its row.
Select(d) ==
    /\ dispatcher[d].at = "idle"
    /\ claims < setup.claims
    /\ \E p \in Projects :
          /\ row[p].status = "queued"
          /\ OpenLane(row[p].lane)
          /\ dispatcher' = [dispatcher EXCEPT ![d] =
                [Resting EXCEPT !.at = "chosen", !.of = p, !.lane = row[p].lane]]
    /\ UNCHANGED <<row, stamps, live, owed, claims, events, request, importer, setup>>

\* The claim looks for active rows in the lane of the copy; what goes on from
\* here is the row as it was claimed.
Claim(d) ==
    LET p == dispatcher[d].of
        run == [of |-> p, number |-> claims + 1]
        claimed == [row[p] EXCEPT !.status = "dispatching", !.run = run]
    IN  /\ dispatcher[d].at = "chosen"
        /\ claims < setup.claims
        /\ row[p].status = "queued"
        /\ OpenLane(dispatcher[d].lane)
        /\ ~MayDuplicate(p, claimed) /\ ~Duplicate(p, claimed)
        /\ Put(p, claimed)
        /\ claims' = claims + 1
        /\ dispatcher' = [dispatcher EXCEPT ![d] =
              [at |-> "claimed", of |-> p, lane |-> row[p].lane, run |-> run]]
        /\ UNCHANGED <<live, owed, events, request, importer, setup>>

ClaimRefused(d) ==
    LET p == dispatcher[d].of
    IN  /\ dispatcher[d].at = "chosen"
        /\ ~Locked(p)
        /\ \/ claims = setup.claims
           \/ row[p].status # "queued"
           \/ ~OpenLane(dispatcher[d].lane)
           \/ Dispatching(row, p, row[p].lane)
        /\ dispatcher' = [dispatcher EXCEPT ![d] = Resting]
        /\ UNCHANGED <<row, stamps, live, owed, claims, events, request, importer, setup>>

\* Faulty variant: the worker is taken for idle.
PreflightForced(d) ==
    /\ dispatcher[d].at = "claimed"
    /\ dispatcher' = [dispatcher EXCEPT ![d].at = "clear"]
    /\ UNCHANGED <<row, stamps, live, owed, claims, events, request, importer, setup>>

PreflightOk(d) ==
    /\ dispatcher[d].at = "claimed"
    /\ live[dispatcher[d].lane] = {}
    /\ dispatcher' = [dispatcher EXCEPT ![d].at = "clear"]
    /\ UNCHANGED <<row, stamps, live, owed, claims, events, request, importer, setup>>

\* A busy worker: the claim is released.
PreflightRefused(d) ==
    LET p == dispatcher[d].of
        mine == row[p].status = "dispatching" /\ row[p].run = dispatcher[d].run
    IN  /\ dispatcher[d].at = "claimed"
        /\ live[dispatcher[d].lane] # {}
        /\ \/ mine /\ Put(p, [row[p] EXCEPT !.status = "queued", !.run = NoRun])
           \/ ~mine /\ ~Locked(p) /\ UNCHANGED <<row, stamps>>
        /\ dispatcher' = [dispatcher EXCEPT ![d] = Resting]
        /\ UNCHANGED <<live, owed, claims, events, request, importer, setup>>

Post(d) ==
    /\ dispatcher[d].at = "clear"
    /\ live' = [live EXCEPT ![dispatcher[d].lane] = @ \cup {dispatcher[d].run}]
    /\ dispatcher' = [dispatcher EXCEPT ![d].at = "posted"]
    /\ UNCHANGED <<row, stamps, owed, claims, events, request, importer, setup>>

\* The row is written whatever it holds meanwhile.
MarkStarted(d) ==
    LET p == dispatcher[d].of
    IN  /\ dispatcher[d].at = "posted"
        /\ Put(p, [row[p] EXCEPT !.status = "awaiting_wake", !.run = dispatcher[d].run])
        /\ dispatcher' = [dispatcher EXCEPT ![d] = Resting]
        /\ UNCHANGED <<live, owed, claims, events, request, importer, setup>>

EndRun(l, r) ==
    /\ r \in live[l]
    /\ \A d \in Dispatchers : dispatcher[d].run # r
    /\ live' = [live EXCEPT ![l] = @ \ {r}]
    /\ owed' = owed \cup {r}
    /\ UNCHANGED <<row, stamps, claims, events, request, importer, dispatcher, setup>>

ReportRun(r) ==
    LET p == r.of
    IN  /\ r \in owed
        /\ owed' = owed \ {r}
        /\ \/ /\ Active(row[p]) /\ row[p].run = r
              /\ Put(p, [row[p] EXCEPT !.status = "completed"])
           \/ /\ ~(Active(row[p]) /\ row[p].run = r)
              /\ ~Locked(p)
              /\ UNCHANGED <<row, stamps>>
        /\ UNCHANGED <<live, claims, events, request, importer, dispatcher, setup>>

-----------------------------------------------------------------------------

Request(i) ==
    \/ TakeSnapshot(i) \/ SubmitIdeas(i) \/ Begin(i) \/ WriteRow(i)
    \/ Commit(i) \/ Rollback(i)
    \/ \E p \in Projects : ReadRow(i, p)

Dispatch(d) ==
    \/ Select(d) \/ Claim(d) \/ ClaimRefused(d) \/ PreflightOk(d)
    \/ PreflightRefused(d) \/ Post(d) \/ MarkStarted(d)

Next ==
    \/ \E i \in Importers : Request(i)
    \/ \E d \in Dispatchers : Dispatch(d)
    \/ \E l \in Lanes : \E r \in live[l] : EndRun(l, r)
    \/ \E r \in owed : ReportRun(r)

Spec == Init /\ [][Next]_vars

-----------------------------------------------------------------------------
(* Properties *)

RowsOf(f) == DOMAIN f \subseteq Projects /\ \A p \in DOMAIN f : f[p] \in Row

TypeOK ==
    /\ row \in [Projects -> Row]
    /\ stamps \in [Projects -> Nat]
    /\ live \in [Lanes -> SUBSET Runs]
    /\ owed \in SUBSET Runs
    /\ claims \in Nat
    /\ events \in SUBSET Importers
    /\ \A i \in Importers :
          /\ RowsOf(request[i].rows)
          /\ request[i].override \in BOOLEAN
          /\ importer[i].at \in {"asked", "waiting", "next", "read", "ended"}
          /\ importer[i].todo \in SUBSET Projects
          /\ RowsOf(importer[i].writes)
    /\ \A d \in Dispatchers :
          /\ dispatcher[d].at \in {"idle", "chosen", "claimed", "clear", "posted"}
          /\ dispatcher[d].run \in Runs \cup {NoRun}
    /\ setup \in Setups

\* No import and no intake takes the row of a live run away from it, whatever
\* was read before the row became active, and none moves it to another lane
\* than the one of its worker while snapshots are dated.
LiveRunKept ==
    \A l \in Lanes : \A r \in live[l] :
        /\ Active(row[r.of]) /\ row[r.of].run = r
        /\ ~Hazard("undated") => row[r.of].lane = l

\* A worker has one live run at most, although intake may move a queued project
\* to another lane between its selection and its claim, which then looks at the
\* lane it left: the unique index or the preflight stops it.
WorkerExclusive ==
    ~Hazard("undated") => \A l \in Lanes : Cardinality(live[l]) <= 1
=============================================================================
