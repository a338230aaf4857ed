---------------------------- MODULE IntakeProofs ----------------------------
(***************************************************************************)
(* Proofs about Intake, for any projects, lanes, requests and dispatchers, *)
(* any number of claims and every hazard.                                  *)
(*                                                                         *)
(* A run is held from the claim that names it to its end (Held).  All that *)
(* is in the model of its project then keeps it (Keeps): the row, what     *)
(* uncommitted transactions have written, and snapshots, which know the    *)
(* run or are older than every version of the row that does (Newer).  Two  *)
(* dispatchers on one lane are kept apart by the unique index (Indexed):   *)
(* until its start is recorded the row of a run is the dispatching one of  *)
(* its lane (Pending); a run that is started is seen by the preflight      *)
(* (Exclusive).                                                            *)
(***************************************************************************)
EXTENDS Intake, FiniteSetTheorems, TLAPS

Tables == UNION {[D -> Row] : D \in SUBSET Projects}

Requests == [rows : Tables, override : BOOLEAN]

Transactions ==
    [at : {"asked", "waiting", "next", "read", "ended"}, todo : SUBSET Projects,
     writes : Tables, of : Projects \cup {"none"}, seen : Row \cup {"none"}]

Copies ==
    [at : {"idle", "chosen", "claimed", "clear", "posted"}, of : Projects \cup {"none"},
     lane : Lanes \cup {"none"}, run : Runs \cup {NoRun}]

\* A transaction works on rows it was asked for.
Asked(i) ==
    /\ importer[i].todo \subseteq DOMAIN request[i].rows
    /\ importer[i].at = "read" =>
          importer[i].of \in DOMAIN request[i].rows /\ importer[i].seen \in Row

\* A dispatcher has a run from its claim on.
Copied(d) ==
    /\ dispatcher[d].at # "idle" => dispatcher[d].of \in Projects /\ dispatcher[d].lane \in Lanes
    /\ dispatcher[d].at \in {"claimed", "clear", "posted"} =>
          dispatcher[d].run \in Runs /\ dispatcher[d].run.of = dispatcher[d].of
    /\ dispatcher[d].at \in {"idle", "chosen"} => dispatcher[d].run = NoRun

Typed ==
    /\ row \in [Projects -> Row]
    /\ stamps \in [Projects -> Nat]
    /\ live \in [Lanes -> SUBSET Runs]
    /\ owed \in SUBSET Runs
    /\ claims \in Nat
    /\ events \in SUBSET Importers
    /\ request \in [Importers -> Requests]
    /\ importer \in [Importers -> Transactions]
    /\ dispatcher \in [Dispatchers -> Copies]
    /\ setup \in Setups
    /\ \A i \in Importers : Asked(i)
    /\ \A d \in Dispatchers : Copied(d)

\* Runs are numbered by the claims.
Claimed(r) == r = NoRun \/ r.number <= claims

Numbered ==
    /\ \A p \in Projects : Claimed(row[p].run) /\ row[p].updated <= stamps[p]
    /\ \A i \in Importers :
          /\ \A p \in DOMAIN importer[i].writes : Claimed(importer[i].writes[p].run)
          /\ \A p \in DOMAIN request[i].rows :
                /\ Claimed(request[i].rows[p].run)
                /\ request[i].rows[p].updated <= stamps[p]
          /\ importer[i].at = "read" => Claimed(importer[i].seen.run)
    /\ \A d \in Dispatchers : Claimed(dispatcher[d].run)
    /\ \A l \in Lanes : \A r \in live[l] : Claimed(r)
    /\ \A r \in owed : Claimed(r)

\* The unique index, for committed rows and for what is about to be committed.
Clash(x, y) == x.status = "dispatching" /\ y.status = "dispatching" /\ x.lane = y.lane

Indexed ==
    \A p, q \in Projects : p # q =>
        /\ ~Clash(row[p], row[q])
        /\ \A i \in Importers : p \in DOMAIN importer[i].writes =>
              /\ ~Clash(importer[i].writes[p], row[q])
              /\ \A j \in Importers : q \in DOMAIN importer[j].writes =>
                    ~Clash(importer[i].writes[p], importer[j].writes[q])

\* Run r is a dispatcher's, or alive, on lane l.
Held(r, l) ==
    \/ r \in live[l]
    \/ \E d \in Dispatchers : dispatcher[d].run = r /\ dispatcher[d].lane = l

Dated == ~Hazard("undated")

Mine(x, r) == Active(x) /\ x.run = r
Keeps(x, r, l) == Mine(x, r) /\ (Dated => x.lane = l)

\* Request i is a snapshot that shows project p.
Shows(i, p) == setup.kinds[i] = "import" /\ p \in DOMAIN request[i].rows

\* Snapshots that do not know run r are older than version x of its row.
Newer(x, r) ==
    \A i \in Importers :
        Shows(i, r.of) /\ ~Mine(request[i].rows[r.of], r) =>
            request[i].rows[r.of].updated < x.updated

\* What a snapshot of request i may do to run r.
Harmless(i, r, l) ==
    Shows(i, r.of) =>
        LET s == request[i].rows[r.of] IN
        /\ s.run = r => s.lane = l
        /\ Mine(s, r) => Newer(s, r)
        /\ (/\ importer[i].at = "read" /\ importer[i].of = r.of
            /\ Mine(importer[i].seen, r))
              => Mine(s, r)

Kept(r, l) ==
    /\ r \notin owed
    /\ Keeps(row[r.of], r, l)
    /\ \A i \in Importers : r.of \in DOMAIN importer[i].writes =>
          Keeps(importer[i].writes[r.of], r, l)
    /\ Dated =>
          /\ Newer(row[r.of], r)
          /\ \A i \in Importers : Harmless(i, r, l)
          /\ \A i \in Importers : r.of \in DOMAIN importer[i].writes =>
                Newer(importer[i].writes[r.of], r)

HeldKept == \A r \in Runs, l \in Lanes : Held(r, l) => Kept(r, l)

\* A run is on one lane, at one dispatcher, and posted once.
OnePlace ==
    /\ \A r \in Runs, l, m \in Lanes : Held(r, l) /\ Held(r, m) => l = m
    /\ \A d, e \in Dispatchers :
          dispatcher[d].run \in Runs /\ dispatcher[d].run = dispatcher[e].run => d = e
    /\ \A d \in Dispatchers, l \in Lanes :
          dispatcher[d].at \in {"claimed", "clear"} => dispatcher[d].run \notin live[l]

IntakeInv == Typed /\ Numbered /\ HeldKept /\ OnePlace

\* While a dispatcher has run r, whoever knows it active knows it dispatching.
Started(x, r) == Mine(x, r) => x.status = "dispatching"

PendingAt(r) ==
    /\ Started(row[r.of], r)
    /\ \A i \in Importers :
          /\ r.of \in DOMAIN importer[i].writes => Started(importer[i].writes[r.of], r)
          /\ r.of \in DOMAIN request[i].rows => Started(request[i].rows[r.of], r)
          /\ importer[i].at = "read" /\ importer[i].of = r.of => Started(importer[i].seen, r)

Pending == \A d \in Dispatchers : dispatcher[d].run \in Runs => PendingAt(dispatcher[d].run)

\* A worker that was found idle stays so until its run is posted.
Exclusive ==
    Dated =>
        /\ \A l \in Lanes : \A r, s \in live[l] : r = s
        /\ \A d \in Dispatchers : dispatcher[d].at = "clear" => live[dispatcher[d].lane] = {}

-----------------------------------------------------------------------------
(* Records built field by field *)

LEMMA EmptyTable == <<>> \in Tables /\ DOMAIN <<>> = {}
<1>1. DOMAIN <<>> = {}
    OBVIOUS
<1>2. <<>> \in [{} -> Row]
    BY <1>1
<1> QED BY <1>1, <1>2 DEF Tables

LEMMA WaitingFacts ==
    /\ Ended \in Transactions /\ Ended.at = "ended" /\ Ended.todo = {} /\ Ended.writes = <<>>
    /\ Waiting \in Transactions /\ Waiting.at = "waiting" /\ Waiting.todo = {}
    /\ Waiting.writes = <<>>
BY EmptyTable DEF Ended, Waiting, Transactions

LEMMA TableFacts ==
    ASSUME NEW f \in Tables
    PROVE  DOMAIN f \subseteq Projects /\ \A p \in DOMAIN f : f[p] \in Row
BY DEF Tables

LEMMA StampedFacts ==
    ASSUME stamps \in [Projects -> Nat], NEW p \in Projects, NEW r \in Row
    PROVE  /\ Stamped(p, r) \in Row
           /\ Stamped(p, r).status = r.status /\ Stamped(p, r).run = r.run
           /\ Stamped(p, r).lane = r.lane /\ Stamped(p, r).updated = stamps[p] + 1
BY DEF Stamped, Row

LEMMA RestingFacts ==
    /\ Resting \in Copies /\ Resting.at = "idle" /\ Resting.run = NoRun
BY DEF Resting, Copies

LEMMA SetupFacts ==
    ASSUME setup \in Setups
    PROVE  /\ setup.first \in [Projects -> Row] /\ setup.kinds \in [Importers -> Kinds]
           /\ setup.claims \in Nat
BY SetupAssumption

\* What a request is about is one of its rows.
LEMMA SeesFacts ==
    ASSUME Typed, NEW i \in Importers, NEW p \in Projects
    PROVE  Sees(i, p) \in Row
<1>1. importer[i].writes \in Tables
    BY DEF Typed, Transactions
<1> QED BY <1>1, TableFacts DEF Sees, Typed

LEMMA ReadFacts ==
    ASSUME Typed, NEW i \in Importers, importer[i].at = "read"
    PROVE  /\ importer[i].of \in Projects /\ importer[i].of \in DOMAIN request[i].rows
           /\ request[i].rows[importer[i].of] \in Row
           /\ importer[i].seen \in Row
<1>1. request[i].rows \in Tables
    BY DEF Typed, Requests
<1> QED BY <1>1, TableFacts DEF Typed, Asked

\* The row an import brings: the snapshot's, but for what an active row keeps.
LEMMA ImportedFacts ==
    ASSUME Typed, NEW i \in Importers, importer[i].at = "read"
    PROVE  LET s == request[i].rows[importer[i].of]
               seen == importer[i].seen
               x == ImportedRow(i)
           IN  /\ x \in Row /\ x.lane = s.lane
               /\ Dated => x.updated = s.updated
               /\ \/ x.status = s.status /\ x.run = s.run
                  \/ /\ Active(seen) /\ ~Mine(s, seen.run)
                     /\ x.status = seen.status /\ x.run = seen.run
<1> DEFINE p == importer[i].of
           s == request[i].rows[p]
           seen == importer[i].seen
           brought == IF Hazard("undated") THEN Stamped(p, s) ELSE s
<1>1. p \in Projects /\ s \in Row /\ seen \in Row
    BY ReadFacts
<1>2. /\ brought \in Row /\ brought.status = s.status /\ brought.run = s.run
      /\ brought.lane = s.lane /\ (Dated => brought.updated = s.updated)
    BY <1>1, StampedFacts DEF Typed, Dated
<1>3. ImportedRow(i) =
         IF Active(seen) /\ (brought.run # seen.run \/ ~Active(brought))
         THEN [brought EXCEPT !.status = seen.status, !.run = seen.run]
         ELSE brought
    BY DEF ImportedRow
<1> HIDE DEF brought, s, seen
<1>4. CASE Active(seen) /\ (brought.run # seen.run \/ ~Active(brought))
    <2>1. ~Mine(s, seen.run)
        BY <1>2, <1>4 DEF Active, Mine
    <2>2. ImportedRow(i) = [brought EXCEPT !.status = seen.status, !.run = seen.run]
        BY <1>3, <1>4
    <2>3. /\ ImportedRow(i) \in Row /\ ImportedRow(i).lane = brought.lane
          /\ ImportedRow(i).updated = brought.updated
          /\ ImportedRow(i).status = seen.status /\ ImportedRow(i).run = seen.run
        BY <1>1, <1>2, <2>2 DEF Row
    <2> QED BY <1>2, <1>4, <2>1, <2>3 DEF s, seen
<1>5. CASE ~(Active(seen) /\ (brought.run # seen.run \/ ~Active(brought)))
    BY <1>2, <1>3, <1>5 DEF s, seen
<1> QED BY <1>4, <1>5

\* What a statement writes: the row as it is, the row in another lane, a new
\* one, or what an import brings where it may.
LEMMA WrittenFacts ==
    ASSUME Typed, NEW i \in Importers, importer[i].at = "read"
    PROVE  LET p == importer[i].of
               now == Sees(i, p)
               s == request[i].rows[p]
               x == Written(i)
           IN  /\ x \in Row
               /\ Active(now) => x = now \/ (MayImport(now, x) /\ x = ImportedRow(i)
                                             /\ setup.kinds[i] = "import")
               /\ \/ x.status = now.status /\ x.run = now.run
                  \/ x.status = s.status /\ x.run = s.run
                  \/ x = ImportedRow(i)
<1> DEFINE p == importer[i].of
           now == Sees(i, p)
           s == request[i].rows[p]
           moved == [now EXCEPT !.lane = s.lane]
<1>1. p \in Projects /\ s \in Row /\ now \in Row
    BY ReadFacts, SeesFacts
<1>2. ImportedRow(i) \in Row
    BY ImportedFacts
<1>3. moved \in Row /\ moved.status = now.status /\ moved.run = now.run
    BY <1>1 DEF Row
<1>4. /\ Stamped(p, s) \in Row /\ Stamped(p, s).status = s.status /\ Stamped(p, s).run = s.run
      /\ Stamped(p, now) \in Row /\ Stamped(p, now).status = now.status
      /\ Stamped(p, now).run = now.run
      /\ Stamped(p, moved) \in Row /\ Stamped(p, moved).status = now.status
      /\ Stamped(p, moved).run = now.run
    BY <1>1, <1>3, StampedFacts DEF Typed
<1>5. Written(i) =
        IF setup.kinds[i] = "import"
        THEN IF MayImport(now, ImportedRow(i)) THEN ImportedRow(i) ELSE now
        ELSE IF Active(now) THEN now
        ELSE IF now.status = "absent" THEN Stamped(p, s)
        ELSE IF request[i].override THEN Stamped(p, moved)
        ELSE Stamped(p, now)
    BY DEF Written
<1> HIDE DEF p, now, s, moved
<1>6. /\ Written(i) \in Row
      /\ Active(now) => Written(i) = now \/ (MayImport(now, Written(i)) /\ Written(i) = ImportedRow(i)
                                             /\ setup.kinds[i] = "import")
      /\ \/ Written(i).status = now.status /\ Written(i).run = now.run
         \/ Written(i).status = s.status /\ Written(i).run = s.run
         \/ Written(i) = ImportedRow(i)
    BY <1>1, <1>2, <1>4, <1>5
<1> QED BY <1>6 DEF p, now, s

-----------------------------------------------------------------------------
(* Types *)

\* Another transaction, or another state of it.
LEMMA TypedTransaction ==
    ASSUME Typed, NEW i \in Importers, NEW t \in Transactions,
           importer' = [importer EXCEPT ![i] = t],
           t.todo \subseteq DOMAIN request[i].rows,
           t.at = "read" => t.of \in DOMAIN request[i].rows /\ t.seen \in Row,
           row' \in [Projects -> Row], stamps' \in [Projects -> Nat],
           events' \in SUBSET Importers,
           UNCHANGED <<live, owed, claims, request, dispatcher, setup>>
    PROVE  Typed'
<1>1. importer' \in [Importers -> Transactions]
    BY DEF Typed
<1>2. \A j \in Importers : Asked(j)'
    <2> TAKE j \in Importers
    <2>1. importer'[j] = IF j = i THEN t ELSE importer[j]
        BY DEF Typed
    <2> QED BY <2>1 DEF Typed, Asked
<1>3. \A d \in Dispatchers : Copied(d)'
    BY DEF Typed, Copied
<1> QED BY <1>1, <1>2, <1>3 DEF Typed

\* Another request.
LEMMA TypedRequest ==
    ASSUME Typed, NEW i \in Importers, NEW q \in Requests,
           request' = [request EXCEPT ![i] = q],
           importer' = [importer EXCEPT ![i] = Waiting],
           UNCHANGED <<row, stamps, live, owed, claims, events, dispatcher, setup>>
    PROVE  Typed'
<1>1. importer' \in [Importers -> Transactions] /\ request' \in [Importers -> Requests]
    BY WaitingFacts DEF Typed
<1>2. \A j \in Importers : Asked(j)'
    <2> TAKE j \in Importers
    <2>1. importer'[j] = IF j = i THEN Waiting ELSE importer[j]
        BY DEF Typed
    <2>2. request'[j] = IF j = i THEN q ELSE request[j]
        BY DEF Typed
    <2> QED BY <2>1, <2>2, WaitingFacts DEF Typed, Asked
<1>3. \A d \in Dispatchers : Copied(d)'
    BY DEF Typed, Copied
<1> QED BY <1>1, <1>2, <1>3 DEF Typed

\* Another state of a dispatcher.
LEMMA TypedDispatcher ==
    ASSUME Typed, NEW d \in Dispatchers, NEW c \in Copies,
           dispatcher' = [dispatcher EXCEPT ![d] = c],
           c.at # "idle" => c.of \in Projects /\ c.lane \in Lanes,
           c.at \in {"claimed", "clear", "posted"} => c.run \in Runs /\ c.run.of = c.of,
           c.at \in {"idle", "chosen"} => c.run = NoRun,
           row' \in [Projects -> Row], stamps' \in [Projects -> Nat],
           live' \in [Lanes -> SUBSET Runs], claims' \in Nat,
           UNCHANGED <<owed, events, request, importer, setup>>
    PROVE  Typed'
<1>1. dispatcher' \in [Dispatchers -> Copies]
    BY DEF Typed
<1>2. \A i \in Importers : Asked(i)'
    BY DEF Typed, Asked
<1>3. \A e \in Dispatchers : Copied(e)'
    <2> TAKE e \in Dispatchers
    <2>1. dispatcher'[e] = IF e = d THEN c ELSE dispatcher[e]
        BY DEF Typed
    <2> QED BY <2>1 DEF Typed, Copied
<1> QED BY <1>1, <1>2, <1>3 DEF Typed

LEMMA PutFacts ==
    ASSUME Typed, NEW p \in Projects, NEW x \in Row, Put(p, x)
    PROVE  /\ row' \in [Projects -> Row] /\ stamps' \in [Projects -> Nat]
           /\ stamps'[p] = stamps[p] + 1
           /\ row'[p].status = x.status /\ row'[p].run = x.run /\ row'[p].lane = x.lane
           /\ row'[p].updated = stamps[p] + 1
           /\ \A q \in Projects : q # p => row'[q] = row[q] /\ stamps'[q] = stamps[q]
           /\ \A i \in Importers : p \notin DOMAIN importer[i].writes
<1>1. /\ Stamped(p, x) \in Row /\ Stamped(p, x).status = x.status
      /\ Stamped(p, x).run = x.run /\ Stamped(p, x).lane = x.lane
      /\ Stamped(p, x).updated = stamps[p] + 1
    BY StampedFacts DEF Typed
<1>2. row'[p] = Stamped(p, x) /\ \A q \in Projects : q # p => row'[q] = row[q]
    BY DEF Put, Typed
<1> QED BY <1>1, <1>2 DEF Put, Typed, Locked

-----------------------------------------------------------------------------
(* What the steps of a transaction do *)

\* Transaction i is as before or has given up: it has no more written and no
\* more read than it had.
Fewer(i) ==
    /\ DOMAIN importer'[i].writes \subseteq DOMAIN importer[i].writes
    /\ \A p \in DOMAIN importer'[i].writes : importer'[i].writes[p] = importer[i].writes[p]
    /\ importer'[i].at = "read" =>
          /\ importer[i].at = "read"
          /\ importer'[i].of = importer[i].of /\ importer'[i].seen = importer[i].seen

LEMMA SameFewer ==
    ASSUME NEW i \in Importers, importer'[i] = importer[i]
    PROVE  Fewer(i)
BY DEF Fewer

LEMMA GivenUpFewer ==
    ASSUME Typed, NEW i \in Importers, importer' \in [Importers -> Transactions],
           importer'[i].at # "read", importer'[i].writes = <<>>
    PROVE  Fewer(i)
BY EmptyTable DEF Fewer

\* The transactions after a step of i that gives up or ends.
LEMMA GivesUp ==
    ASSUME Typed, NEW i \in Importers, NEW t \in Transactions,
           importer' = [importer EXCEPT ![i] = t],
           t.writes = <<>> \/ t.writes = importer[i].writes, t.at # "read"
    PROVE  \A j \in Importers : Fewer(j)
<1> TAKE j \in Importers
<1>1. importer'[j] = IF j = i THEN t ELSE importer[j]
    BY DEF Typed
<1>2. CASE j # i
    BY <1>1, <1>2, SameFewer
<1>3. CASE j = i
    BY <1>1, <1>3, EmptyTable DEF Fewer
<1> QED BY <1>2, <1>3

LEMMA BeginFacts ==
    ASSUME Typed, NEW i \in Importers, Begin(i)
    PROVE  Typed' /\ \A j \in Importers : Fewer(j)
<1> DEFINE t == IF i \in events THEN Ended
                ELSE [Waiting EXCEPT !.at = "next", !.todo = DOMAIN request[i].rows]
<1>1. DOMAIN request[i].rows \in SUBSET Projects
    BY TableFacts DEF Typed, Requests
<1>2. /\ t \in Transactions /\ t.writes = <<>> /\ t.at # "read"
      /\ t.todo \subseteq DOMAIN request[i].rows
    BY <1>1, WaitingFacts DEF Transactions
<1>3. importer' = [importer EXCEPT ![i] = t]
    BY DEF Begin
<1> HIDE DEF t
<1>4. Typed'
    BY <1>2, <1>3, TypedTransaction DEF Begin, Typed
<1> QED BY <1>2, <1>3, <1>4, GivesUp

LEMMA RollbackFacts ==
    ASSUME Typed, NEW i \in Importers, Rollback(i)
    PROVE  Typed' /\ \A j \in Importers : Fewer(j)
<1>1. importer' = [importer EXCEPT ![i] = Waiting]
    BY DEF Rollback
<1>2. Typed'
    BY <1>1, WaitingFacts, TypedTransaction DEF Rollback, Typed
<1> QED BY <1>1, <1>2, WaitingFacts, GivesUp

LEMMA ReadRowFacts ==
    ASSUME Typed, NEW i \in Importers, NEW p \in Projects, ReadRow(i, p)
    PROVE  /\ Typed' /\ p \in DOMAIN request[i].rows
           /\ \A j \in Importers \ {i} : importer'[j] = importer[j]
           /\ importer'[i].writes = importer[i].writes
           /\ \/ \A j \in Importers : Fewer(j)
              \/ /\ ~Older(i, p)
                 /\ importer'[i].of = p /\ importer'[i].seen = Sees(i, p)
<1>0. UNCHANGED <<row, stamps, live, owed, claims, events, request, dispatcher, setup>>
    BY DEF ReadRow
<1>1. importer[i] \in Transactions /\ Sees(i, p) \in Row /\ importer[i].at = "next"
    BY SeesFacts DEF Typed, ReadRow
<1>2. p \in DOMAIN request[i].rows /\ importer[i].todo \subseteq DOMAIN request[i].rows
    BY DEF ReadRow, Typed, Asked
<1> DEFINE passes == [importer[i] EXCEPT !.todo = importer[i].todo \ {p}]
           reads == [importer[i] EXCEPT !.at = "read", !.todo = importer[i].todo \ {p},
                                        !.of = p, !.seen = Sees(i, p)]
<1>3. CASE Older(i, p)
    <2>1. importer' = [importer EXCEPT ![i] = passes]
        BY <1>3 DEF ReadRow, Typed
    <2>2. /\ passes \in Transactions /\ passes.writes = importer[i].writes
          /\ passes.todo = importer[i].todo \ {p} /\ passes.at = "next"
        BY <1>1 DEF Transactions
    <2> HIDE DEF passes
    <2>3. Typed'
        BY <1>0, <1>2, <2>1, <2>2, TypedTransaction DEF Typed
    <2>4. importer'[i] = passes /\ \A j \in Importers \ {i} : importer'[j] = importer[j]
        BY <2>1 DEF Typed
    <2>5. \A j \in Importers : Fewer(j)
        BY <2>1, <2>2, GivesUp
    <2> QED BY <1>2, <2>2, <2>3, <2>4, <2>5
<1>4. CASE ~Older(i, p)
    <2>1. importer' = [importer EXCEPT ![i] = reads]
        BY <1>4 DEF ReadRow, Typed
    <2>2. /\ reads \in Transactions /\ reads.writes = importer[i].writes
          /\ reads.todo = importer[i].todo \ {p} /\ reads.of = p /\ reads.seen = Sees(i, p)
        BY <1>1 DEF Transactions
    <2> HIDE DEF reads
    <2>3. Typed'
        BY <1>0, <1>1, <1>2, <2>1, <2>2, TypedTransaction DEF Typed
    <2>4. importer'[i] = reads /\ \A j \in Importers \ {i} : importer'[j] = importer[j]
        BY <2>1 DEF Typed
    <2> QED BY <1>2, <1>4, <2>2, <2>3, <2>4
<1> QED BY <1>3, <1>4

LEMMA WriteRowFacts ==
    ASSUME Typed, NEW i \in Importers, WriteRow(i)
    PROVE  /\ Typed'
           /\ \A j \in Importers \ {i} : importer'[j] = importer[j]
           /\ \/ \A j \in Importers : Fewer(j)
              \/ LET p == importer[i].of
                     old == importer[i].writes
                     new == importer'[i].writes
                 IN  /\ p \in Projects
                     /\ ~MayDuplicate(p, Written(i)) /\ ~Duplicate(p, Written(i))
                     /\ importer'[i].at = "next"
                     /\ DOMAIN new = DOMAIN old \cup {p}
                     /\ new[p] = Written(i) /\ Written(i) \in Row
                     /\ \A q \in DOMAIN old : q # p => new[q] = old[q]
<1> DEFINE p == importer[i].of
           old == importer[i].writes
           w == [q \in DOMAIN old \cup {p} |-> IF q = p THEN Written(i) ELSE old[q]]
           u == [importer[i] EXCEPT !.at = "next", !.of = "none", !.seen = "none", !.writes = w]
           stops == Collision(i) \/ Duplicate(p, Written(i))
           t == IF stops THEN Waiting ELSE u
<1>1. importer[i] \in Transactions /\ importer[i].at = "read" /\ old \in Tables
    BY DEF Typed, WriteRow, Transactions
<1>2. p \in Projects /\ Written(i) \in Row
    BY <1>1, ReadFacts, WrittenFacts
<1>3. DOMAIN old \subseteq Projects /\ \A q \in DOMAIN old : old[q] \in Row
    BY <1>1, TableFacts
<1>4. w \in [DOMAIN old \cup {p} -> Row] /\ DOMAIN old \cup {p} \in SUBSET Projects
    BY <1>2, <1>3
<1>5. w \in Tables
    BY <1>4 DEF Tables
<1>6. importer' = [importer EXCEPT ![i] = t]
    BY DEF WriteRow
<1>7. /\ DOMAIN w = DOMAIN old \cup {p} /\ w[p] = Written(i)
      /\ \A q \in DOMAIN old : q # p => w[q] = old[q]
    OBVIOUS
<1> HIDE DEF w
<1>8. u \in Transactions /\ u.writes = w /\ u.at = "next" /\ u.todo = importer[i].todo
    BY <1>1, <1>5 DEF Transactions
<1> HIDE DEF u, stops
<1>9. t \in Transactions /\ t.at # "read" /\ t.todo \subseteq DOMAIN request[i].rows
    BY <1>8, WaitingFacts DEF Typed, Asked
<1>10. Typed'
    BY <1>6, <1>9, TypedTransaction DEF WriteRow, Typed
<1>11. importer'[i] = t /\ \A j \in Importers \ {i} : importer'[j] = importer[j]
    BY <1>6 DEF Typed
<1>12. CASE stops
    <2>1. t = Waiting
        BY <1>12
    <2> QED BY <1>6, <1>10, <1>11, <2>1, WaitingFacts, GivesUp
<1>13. CASE ~stops
    <2>1. ~MayDuplicate(p, Written(i)) /\ ~Duplicate(p, Written(i))
        BY <1>13 DEF WriteRow, stops
    <2>2. t = u
        BY <1>13
    <2> QED BY <1>2, <1>7, <1>8, <1>10, <1>11, <2>1, <2>2
<1> QED BY <1>12, <1>13

LEMMA CommitFacts ==
    ASSUME Typed, NEW i \in Importers, Commit(i)
    PROVE  /\ Typed' /\ (\A j \in Importers : Fewer(j))
           /\ \A p \in Projects : row'[p] = Sees(i, p)
           /\ \A p \in Projects : stamps[p] <= stamps'[p] /\ row'[p].updated <= stamps'[p]
<1> DEFINE writes == importer[i].writes
<1>1. writes \in Tables
    BY DEF Typed, Transactions
<1>2. row' = [p \in Projects |-> Sees(i, p)]
    BY DEF Commit, Sees
<1>3. \A p \in Projects : Sees(i, p) \in Row
    BY SeesFacts
<1>4. row' \in [Projects -> Row]
    BY <1>2, <1>3
<1>5. /\ stamps' \in [Projects -> Nat]
      /\ \A p \in Projects : stamps[p] <= stamps'[p] /\ row'[p].updated <= stamps'[p]
    <2>1. \A p \in Projects : row'[p].updated \in Nat /\ stamps[p] \in Nat
        BY <1>4 DEF Row, Typed
    <2>2. stamps' = [p \in Projects |->
              IF row'[p].updated > stamps[p] THEN row'[p].updated ELSE stamps[p]]
        BY DEF Commit
    <2> QED BY <2>1, <2>2
<1>6. PICK at \in {"ended", "waiting"} : importer' = [importer EXCEPT ![i] = [Ended EXCEPT !.at = at]]
    BY DEF Commit
<1> DEFINE t == [Ended EXCEPT !.at = at]
<1>7. t \in Transactions /\ t.at # "read" /\ t.writes = <<>> /\ t.todo = {}
    BY WaitingFacts DEF Transactions
<1> HIDE DEF t
<1>8. importer' = [importer EXCEPT ![i] = t]
    BY <1>6 DEF t
<1>9. Typed'
    BY <1>4, <1>5, <1>7, <1>8, TypedTransaction DEF Commit, Typed
<1>10. \A j \in Importers : Fewer(j)
    BY <1>7, <1>8, GivesUp
<1> QED BY <1>2, <1>5, <1>9, <1>10

\* A request is made of rows as they are, or of queued rows without a run.
LEMMA AskFacts ==
    ASSUME Typed, NEW i \in Importers, TakeSnapshot(i) \/ SubmitIdeas(i)
    PROVE  /\ Typed' /\ (\A j \in Importers : Fewer(j))
           /\ \A j \in Importers \ {i} : request'[j] = request[j]
           /\ importer'[i].at = "waiting"
           /\ \A p \in DOMAIN request'[i].rows :
                 \/ setup.kinds[i] = "import" /\ request'[i].rows[p] = row[p]
                 \/ /\ setup.kinds[i] # "import"
                    /\ request'[i].rows[p].status = "queued"
                    /\ request'[i].rows[p].run = NoRun
                    /\ request'[i].rows[p].updated = 0
<1>1. importer' = [importer EXCEPT ![i] = Waiting]
    BY DEF TakeSnapshot, SubmitIdeas
<1>2. (\A j \in Importers : Fewer(j)) /\ importer'[i].at = "waiting"
    BY <1>1, WaitingFacts, GivesUp DEF Typed
<1>3. CASE TakeSnapshot(i)
    <2>1. PICK ps \in SUBSET Projects :
              request' = [request EXCEPT ![i].rows = [p \in ps |-> row[p]]]
        BY <1>3 DEF TakeSnapshot
    <2> DEFINE f == [p \in ps |-> row[p]]
               q == [request[i] EXCEPT !.rows = f]
    <2>2. f \in [ps -> Row]
        BY DEF Typed
    <2>3. f \in Tables
        BY <2>2 DEF Tables
    <2>4. q \in Requests /\ q.rows = f
        BY <2>3 DEF Typed, Requests
    <2>5. request' = [request EXCEPT ![i] = q]
        BY <2>1 DEF Typed
    <2>6. \A p \in DOMAIN q.rows : q.rows[p] = row[p]
        BY <2>4
    <2> HIDE DEF f, q
    <2>7. Typed'
        BY <1>1, <1>3, <2>4, <2>5, TypedRequest DEF TakeSnapshot
    <2>8. request'[i] = q /\ \A j \in Importers \ {i} : request'[j] = request[j]
        BY <2>5 DEF Typed
    <2> QED BY <1>2, <1>3, <2>6, <2>7, <2>8 DEF TakeSnapshot
<1>4. CASE SubmitIdeas(i)
    <2>1. PICK ps \in SUBSET Projects, l \in Lanes, o \in BOOLEAN :
              request' = [request EXCEPT ![i].rows =
                  [p \in ps |-> [status |-> "queued", run |-> NoRun, lane |-> l, updated |-> 0]],
                                         ![i].override = o]
        BY <1>4 DEF SubmitIdeas
    <2> DEFINE x == [status |-> "queued", run |-> NoRun, lane |-> l, updated |-> 0]
               f == [p \in ps |-> x]
               q == request'[i]
    <2>2. x \in Row /\ x.status = "queued" /\ x.run = NoRun /\ x.updated = 0
        BY DEF Row, Statuses
    <2> HIDE DEF x
    <2>3. f \in [ps -> Row] /\ \A p \in ps : f[p] = x
        BY <2>2
    <2>4. f \in Tables /\ DOMAIN f = ps
        BY <2>3 DEF Tables
    <2> HIDE DEF f
    <2>5. request' = [request EXCEPT ![i].rows = f, ![i].override = o]
        BY <2>1 DEF f, x
    <2>6. q \in Requests /\ q.rows = f /\ request' = [request EXCEPT ![i] = q]
        BY <2>4, <2>5 DEF Typed, Requests
    <2> HIDE DEF q
    <2>7. Typed'
        BY <1>1, <1>4, <2>6, TypedRequest DEF SubmitIdeas
    <2>8. request'[i] = q /\ \A j \in Importers \ {i} : request'[j] = request[j]
        BY <2>6 DEF Typed
    <2> QED BY <1>2, <1>4, <2>2, <2>3, <2>4, <2>6, <2>7, <2>8 DEF SubmitIdeas
<1> QED BY <1>3, <1>4

-----------------------------------------------------------------------------
(* What the steps of a dispatcher and of a run do *)

\* The other dispatchers stay as they are.
Others(d) == \A e \in Dispatchers : e # d => dispatcher'[e] = dispatcher[e]

LEMMA SelectFacts ==
    ASSUME Typed, NEW d \in Dispatchers, Select(d)
    PROVE  /\ Typed' /\ Others(d) /\ dispatcher'[d].run = NoRun
           /\ dispatcher'[d].at = "chosen"
<1>1. PICK p \in Projects : dispatcher' = [dispatcher EXCEPT ![d] =
          [Resting EXCEPT !.at = "chosen", !.of = p, !.lane = row[p].lane]]
    BY DEF Select
<1> DEFINE c == [Resting EXCEPT !.at = "chosen", !.of = p, !.lane = row[p].lane]
<1>2. row[p].lane \in Lanes
    BY DEF Typed, Row
<1>3. /\ c \in Copies /\ c.at = "chosen" /\ c.of = p /\ c.lane = row[p].lane
      /\ c.run = NoRun
    BY <1>2 DEF Resting, Copies
<1> HIDE DEF c
<1>4. dispatcher' = [dispatcher EXCEPT ![d] = c]
    BY <1>1 DEF c
<1>5. Typed'
    BY <1>2, <1>3, <1>4, TypedDispatcher DEF Select, Typed
<1> QED BY <1>3, <1>4, <1>5 DEF Others, Typed

LEMMA RefusedFacts ==
    ASSUME Typed, NEW d \in Dispatchers,
           dispatcher' = [dispatcher EXCEPT ![d] = Resting],
           row' \in [Projects -> Row], stamps' \in [Projects -> Nat],
           UNCHANGED <<live, owed, claims, events, request, importer, setup>>
    PROVE  /\ Typed' /\ Others(d) /\ dispatcher'[d].run = NoRun
           /\ dispatcher'[d].at = "idle"
<1>1. Typed'
    BY RestingFacts, TypedDispatcher DEF Typed
<1> QED BY <1>1, RestingFacts DEF Others, Typed

LEMMA PreflightOkFacts ==
    ASSUME Typed, NEW d \in Dispatchers, PreflightOk(d)
    PROVE  /\ Typed' /\ Others(d)
           /\ dispatcher'[d].run = dispatcher[d].run
           /\ dispatcher'[d].lane = dispatcher[d].lane
           /\ dispatcher'[d].at = "clear"
<1> DEFINE c == [dispatcher[d] EXCEPT !.at = "clear"]
<1>1. dispatcher[d] \in Copies /\ dispatcher[d].at = "claimed"
    BY DEF Typed, PreflightOk
<1>2. /\ c \in Copies /\ c.at = "clear" /\ c.of = dispatcher[d].of
      /\ c.lane = dispatcher[d].lane /\ c.run = dispatcher[d].run
    BY <1>1 DEF Copies
<1>3. dispatcher' = [dispatcher EXCEPT ![d] = c]
    BY DEF PreflightOk, Typed
<1>4. Copied(d)
    BY DEF Typed
<1> HIDE DEF c
<1>0. UNCHANGED <<row, stamps, live, owed, claims, events, request, importer, setup>>
    BY DEF PreflightOk
<1>5. Typed'
    <2>1. /\ c.of \in Projects /\ c.lane \in Lanes /\ c.run \in Runs /\ c.run.of = c.of
        BY <1>1, <1>2, <1>4 DEF Copied
    <2>2. /\ row' \in [Projects -> Row] /\ stamps' \in [Projects -> Nat]
          /\ live' \in [Lanes -> SUBSET Runs] /\ claims' \in Nat
        BY <1>0 DEF Typed
    <2> QED BY <1>0, <1>2, <1>3, <2>1, <2>2, TypedDispatcher
<1> QED BY <1>2, <1>3, <1>5 DEF Others, Typed

LEMMA PostFacts ==
    ASSUME Typed, NEW d \in Dispatchers, Post(d)
    PROVE  /\ Typed' /\ Others(d)
           /\ dispatcher[d].lane \in Lanes /\ dispatcher[d].run \in Runs
           /\ dispatcher'[d].run = dispatcher[d].run
           /\ dispatcher'[d].lane = dispatcher[d].lane
           /\ dispatcher'[d].at = "posted"
           /\ \A l \in Lanes : live'[l] =
                 IF l = dispatcher[d].lane THEN live[l] \cup {dispatcher[d].run} ELSE live[l]
<1> DEFINE c == [dispatcher[d] EXCEPT !.at = "posted"]
<1>1. dispatcher[d] \in Copies /\ dispatcher[d].at = "clear"
    BY DEF Typed, Post
<1>2. /\ c \in Copies /\ c.at = "posted" /\ c.of = dispatcher[d].of
      /\ c.lane = dispatcher[d].lane /\ c.run = dispatcher[d].run
    BY <1>1 DEF Copies
<1>3. dispatcher' = [dispatcher EXCEPT ![d] = c]
    BY DEF Post, Typed
<1>4. /\ dispatcher[d].lane \in Lanes /\ dispatcher[d].run \in Runs
      /\ dispatcher[d].of \in Projects /\ dispatcher[d].run.of = dispatcher[d].of
    BY <1>1 DEF Typed, Copied
<1> HIDE DEF c
<1>5. live' = [live EXCEPT ![dispatcher[d].lane] = @ \cup {dispatcher[d].run}]
    BY DEF Post
<1>6. live' \in [Lanes -> SUBSET Runs]
    BY <1>4, <1>5 DEF Typed
<1>7. Typed'
    BY <1>1, <1>2, <1>3, <1>4, <1>6, TypedDispatcher DEF Post, Typed
<1> QED BY <1>2, <1>3, <1>4, <1>5, <1>7 DEF Others, Typed

LEMMA ClaimFacts ==
    ASSUME Typed, NEW d \in Dispatchers, Claim(d)
    PROVE  LET p == dispatcher[d].of
               run == [of |-> p, number |-> claims + 1]
           IN  /\ Typed' /\ Others(d)
               /\ p \in Projects /\ run \in Runs /\ run.of = p /\ run.number = claims + 1
               /\ claims' = claims + 1
               /\ dispatcher[d].run = NoRun /\ row[p].status = "queued"
               /\ dispatcher'[d].run = run /\ dispatcher'[d].lane = row[p].lane
               /\ dispatcher'[d].at = "claimed"
               /\ \E x \in Row :
                     /\ Put(p, x) /\ x.status = "dispatching" /\ x.run = run
                     /\ x.lane = row[p].lane
                     /\ ~MayDuplicate(p, x) /\ ~Duplicate(p, x)
<1> DEFINE p == dispatcher[d].of
           run == [of |-> p, number |-> claims + 1]
           x == [row[p] EXCEPT !.status = "dispatching", !.run = run]
           c == [at |-> "claimed", of |-> p, lane |-> row[p].lane, run |-> run]
<1>1. p \in Projects /\ dispatcher[d].run = NoRun
    BY DEF Typed, Copied, Claim
<1>2. row[p] \in Row /\ claims \in Nat
    BY <1>1 DEF Typed
<1>3. run \in Runs /\ run.of = p /\ run.number = claims + 1
    BY <1>1, <1>2 DEF Runs
<1>4. /\ Put(p, x) /\ ~MayDuplicate(p, x) /\ ~Duplicate(p, x) /\ claims' = claims + 1
      /\ dispatcher' = [dispatcher EXCEPT ![d] = c] /\ row[p].status = "queued"
      /\ UNCHANGED <<live, owed, events, request, importer, setup>>
    BY DEF Claim
<1> HIDE DEF run
<1>5. x \in Row /\ x.status = "dispatching" /\ x.run = run /\ x.lane = row[p].lane
    BY <1>2, <1>3 DEF Row, Statuses
<1>6. /\ c \in Copies /\ c.at = "claimed" /\ c.of = p /\ c.lane = row[p].lane /\ c.run = run
      /\ row[p].lane \in Lanes
    BY <1>1, <1>2, <1>3 DEF Copies, Row
<1> HIDE DEF x, c
<1>7. row' \in [Projects -> Row] /\ stamps' \in [Projects -> Nat]
    BY <1>1, <1>4, <1>5, PutFacts
<1>8. Typed'
    <2>1. c.of \in Projects /\ c.lane \in Lanes /\ c.run \in Runs /\ c.run.of = c.of
        BY <1>1, <1>3, <1>6
    <2>2. live' \in [Lanes -> SUBSET Runs] /\ claims' \in Nat
        BY <1>2, <1>4 DEF Typed
    <2> QED BY <1>4, <1>6, <1>7, <2>1, <2>2, TypedDispatcher
<1>9. Others(d) /\ dispatcher'[d] = c
    BY <1>4 DEF Typed, Others
<1> QED BY <1>1, <1>3, <1>4, <1>5, <1>6, <1>8, <1>9 DEF run

LEMMA ClaimRefusedFacts ==
    ASSUME Typed, NEW d \in Dispatchers, ClaimRefused(d)
    PROVE  /\ Typed' /\ Others(d) /\ dispatcher'[d].run = NoRun
           /\ dispatcher'[d].at = "idle"
<1>1. /\ dispatcher' = [dispatcher EXCEPT ![d] = Resting]
      /\ UNCHANGED <<row, stamps, live, owed, claims, events, request, importer, setup>>
    BY DEF ClaimRefused
<1>2. row' \in [Projects -> Row] /\ stamps' \in [Projects -> Nat]
    BY <1>1 DEF Typed
<1> QED BY <1>1, <1>2, RefusedFacts

\* The claim is released, if the row still shows it.
LEMMA PreflightRefusedFacts ==
    ASSUME Typed, NEW d \in Dispatchers, PreflightRefused(d)
    PROVE  LET p == dispatcher[d].of IN
           /\ Typed' /\ Others(d) /\ dispatcher'[d].run = NoRun
           /\ dispatcher'[d].at = "idle"
           /\ p \in Projects /\ dispatcher[d].run \in Runs
           /\ dispatcher[d].lane \in Lanes /\ dispatcher[d].run.of = p
           /\ \/ UNCHANGED <<row, stamps>>
              \/ /\ row[p].run = dispatcher[d].run
                 /\ \E x \in Row : Put(p, x) /\ x.status = "queued" /\ x.run = NoRun
<1> DEFINE p == dispatcher[d].of
           mine == row[p].status = "dispatching" /\ row[p].run = dispatcher[d].run
           x == [row[p] EXCEPT !.status = "queued", !.run = NoRun]
<1>1. /\ p \in Projects /\ dispatcher[d].run \in Runs
      /\ dispatcher[d].lane \in Lanes /\ dispatcher[d].run.of = p
    BY DEF Typed, Copied, PreflightRefused
<1>2. row[p] \in Row
    BY <1>1 DEF Typed
<1>3. x \in Row /\ x.status = "queued" /\ x.run = NoRun
    BY <1>2 DEF Row, Statuses
<1>4. /\ dispatcher' = [dispatcher EXCEPT ![d] = Resting]
      /\ UNCHANGED <<live, owed, claims, events, request, importer, setup>>
      /\ UNCHANGED <<row, stamps>> \/ (mine /\ Put(p, x))
    BY DEF PreflightRefused
<1> HIDE DEF x
<1>5. row' \in [Projects -> Row] /\ stamps' \in [Projects -> Nat]
    <2>1. CASE UNCHANGED <<row, stamps>>
        BY <2>1 DEF Typed
    <2>2. CASE Put(p, x)
        BY <1>1, <1>3, <2>2, PutFacts
    <2> QED BY <1>4, <2>1, <2>2
<1>6. Typed' /\ Others(d) /\ dispatcher'[d].run = NoRun /\ dispatcher'[d].at = "idle"
    BY <1>4, <1>5, RefusedFacts
<1> QED BY <1>1, <1>3, <1>4, <1>6

LEMMA MarkStartedFacts ==
    ASSUME Typed, NEW d \in Dispatchers, MarkStarted(d)
    PROVE  LET p == dispatcher[d].of IN
           /\ Typed' /\ Others(d) /\ dispatcher'[d].run = NoRun
           /\ dispatcher'[d].at = "idle"
           /\ p \in Projects /\ dispatcher[d].run \in Runs
           /\ dispatcher[d].lane \in Lanes /\ dispatcher[d].run.of = p
           /\ \E x \in Row :
                 /\ Put(p, x) /\ x.status = "awaiting_wake"
                 /\ x.run = dispatcher[d].run /\ x.lane = row[p].lane
<1> DEFINE p == dispatcher[d].of
           x == [row[p] EXCEPT !.status = "awaiting_wake", !.run = dispatcher[d].run]
<1>1. /\ p \in Projects /\ dispatcher[d].run \in Runs
      /\ dispatcher[d].lane \in Lanes /\ dispatcher[d].run.of = p
    BY DEF Typed, Copied, MarkStarted
<1>2. row[p] \in Row
    BY <1>1 DEF Typed
<1>3. /\ x \in Row /\ x.status = "awaiting_wake" /\ x.run = dispatcher[d].run
      /\ x.lane = row[p].lane
    BY <1>1, <1>2 DEF Row, Statuses
<1>4. /\ dispatcher' = [dispatcher EXCEPT ![d] = Resting]
      /\ UNCHANGED <<live, owed, claims, events, request, importer, setup>>
      /\ Put(p, x)
    BY DEF MarkStarted
<1> HIDE DEF x
<1>5. row' \in [Projects -> Row] /\ stamps' \in [Projects -> Nat]
    BY <1>1, <1>3, <1>4, PutFacts
<1>6. Typed' /\ Others(d) /\ dispatcher'[d].run = NoRun /\ dispatcher'[d].at = "idle"
    BY <1>4, <1>5, RefusedFacts
<1> QED BY <1>1, <1>3, <1>4, <1>6

LEMMA EndRunFacts ==
    ASSUME Typed, NEW l \in Lanes, NEW r \in live[l], EndRun(l, r)
    PROVE  /\ Typed' /\ r \in Runs
           /\ \A m \in Lanes : live'[m] = IF m = l THEN live[m] \ {r} ELSE live[m]
<1>1. live' = [live EXCEPT ![l] = @ \ {r}] /\ owed' = owed \cup {r} /\ r \in Runs
    BY DEF EndRun, Typed
<1>2. live' \in [Lanes -> SUBSET Runs] /\ owed' \in SUBSET Runs
    BY <1>1 DEF Typed
<1>3. (\A i \in Importers : Asked(i)') /\ \A d \in Dispatchers : Copied(d)'
    BY DEF EndRun, Typed, Asked, Copied
<1> QED BY <1>1, <1>2, <1>3 DEF EndRun, Typed

LEMMA ReportRunFacts ==
    ASSUME Typed, NEW r \in owed, ReportRun(r)
    PROVE  /\ Typed' /\ r \in Runs /\ r.of \in Projects
           /\ \/ UNCHANGED <<row, stamps>>
              \/ /\ row[r.of].run = r
                 /\ \E x \in Row : Put(r.of, x) /\ x.status = "completed" /\ x.run = r
<1> DEFINE p == r.of
           x == [row[p] EXCEPT !.status = "completed"]
<1>1. r \in Runs /\ p \in Projects
    BY DEF Typed, Runs
<1>2. row[p] \in Row
    BY <1>1 DEF Typed
<1>3. x \in Row /\ x.status = "completed" /\ x.run = row[p].run
    BY <1>2 DEF Row, Statuses
<1>4. /\ UNCHANGED <<row, stamps>> \/ (row[p].run = r /\ Put(p, x))
      /\ owed' = owed \ {r}
      /\ UNCHANGED <<live, claims, events, request, importer, dispatcher, setup>>
    BY DEF ReportRun
<1> HIDE DEF x
<1>5. row' \in [Projects -> Row] /\ stamps' \in [Projects -> Nat]
    <2>1. CASE UNCHANGED <<row, stamps>>
        BY <2>1 DEF Typed
    <2>2. CASE Put(p, x)
        BY <1>1, <1>3, <2>2, PutFacts
    <2> QED BY <1>4, <2>1, <2>2
<1>6. (\A i \in Importers : Asked(i)') /\ \A d \in Dispatchers : Copied(d)'
    BY <1>4 DEF Typed, Asked, Copied
<1>7. owed' \in SUBSET Runs
    BY <1>4 DEF Typed
<1>8. Typed'
    BY <1>4, <1>5, <1>6, <1>7 DEF Typed
<1> QED BY <1>1, <1>3, <1>4, <1>8

-----------------------------------------------------------------------------

LEMMA TypedInit == Init => Typed
<1> SUFFICES ASSUME Init PROVE Typed
    OBVIOUS
<1>1. setup \in Setups /\ setup.first \in [Projects -> Row]
    BY SetupFacts DEF Init
<1>2. row \in [Projects -> Row] /\ stamps \in [Projects -> Nat]
    BY <1>1 DEF Init, Row
<1>3. request \in [Importers -> Requests] /\ \A i \in Importers : request[i].rows = <<>>
    BY EmptyTable DEF Init, NoRequest, Requests
<1>4. /\ importer \in [Importers -> Transactions]
      /\ \A i \in Importers : importer[i].todo = {} /\ importer[i].at # "read"
    <2> DEFINE t == [Ended EXCEPT !.at = "asked"]
    <2>1. t \in Transactions /\ t.todo = {} /\ t.at = "asked"
        BY WaitingFacts DEF Transactions
    <2> HIDE DEF t
    <2>2. importer = [i \in Importers |-> IF setup.kinds[i] = "none" THEN Ended ELSE t]
        BY DEF Init, t
    <2> QED BY <2>1, <2>2, WaitingFacts
<1>5. /\ dispatcher \in [Dispatchers -> Copies]
      /\ \A d \in Dispatchers : dispatcher[d] = Resting
    BY RestingFacts DEF Init
<1>6. \A i \in Importers : Asked(i)
    BY <1>3, <1>4, EmptyTable DEF Asked
<1>7. \A d \in Dispatchers : Copied(d)
    BY <1>5, RestingFacts DEF Copied
<1>8. live \in [Lanes -> SUBSET Runs] /\ owed \in SUBSET Runs /\ claims \in Nat
      /\ events \in SUBSET Importers
    BY DEF Init
<1> QED BY <1>1, <1>2, <1>3, <1>4, <1>5, <1>6, <1>7, <1>8 DEF Typed

\* Steps that touch neither requests nor transactions.
LEMMA RunSteps ==
    ASSUME NEW d \in Dispatchers, Dispatch(d)
    PROVE  UNCHANGED <<request, importer, setup, owed>>
BY DEF Dispatch, Select, Claim, ClaimRefused, PreflightOk, PreflightRefused, Post, MarkStarted

LEMMA TypedStep ==
    ASSUME Typed, [Next]_vars
    PROVE  Typed'
<1>1. CASE UNCHANGED vars
    BY <1>1 DEF vars, Typed, Asked, Copied
<1>2. ASSUME NEW i \in Importers, Request(i)
      PROVE  Typed'
    <2>1. CASE TakeSnapshot(i) \/ SubmitIdeas(i)
        BY <2>1, AskFacts
    <2>2. CASE Begin(i)
        BY <2>2, BeginFacts
    <2>3. CASE WriteRow(i)
        BY <2>3, WriteRowFacts
    <2>4. CASE Commit(i)
        BY <2>4, CommitFacts
    <2>5. CASE Rollback(i)
        BY <2>5, RollbackFacts
    <2>6. ASSUME NEW p \in Projects, ReadRow(i, p)
          PROVE  Typed'
        BY <2>6, ReadRowFacts
    <2> QED BY <1>2, <2>1, <2>2, <2>3, <2>4, <2>5, <2>6 DEF Request
<1>3. ASSUME NEW d \in Dispatchers, Dispatch(d)
      PROVE  Typed'
    BY <1>3, SelectFacts, ClaimFacts, ClaimRefusedFacts, PreflightOkFacts,
       PreflightRefusedFacts, PostFacts, MarkStartedFacts DEF Dispatch
<1>4. ASSUME NEW l \in Lanes, NEW r \in live[l], EndRun(l, r)
      PROVE  Typed'
    BY <1>4, EndRunFacts
<1>5. ASSUME NEW r \in owed, ReportRun(r)
      PROVE  Typed'
    BY <1>5, ReportRunFacts
<1> QED BY <1>1, <1>2, <1>3, <1>4, <1>5 DEF Next

\* Every reachable state is well typed, a request and what a transaction has
\* written being rows of some of the projects.
THEOREM TypeCorrect == Spec => []TypeOK
<1>1. Typed => TypeOK
    <2> SUFFICES ASSUME Typed PROVE TypeOK
        OBVIOUS
    <2>1. ASSUME NEW i \in Importers
          PROVE  /\ RowsOf(request[i].rows) /\ request[i].override \in BOOLEAN
                 /\ importer[i].at \in {"asked", "waiting", "next", "read", "ended"}
                 /\ importer[i].todo \in SUBSET Projects
                 /\ RowsOf(importer[i].writes)
        BY TableFacts DEF Typed, Requests, Transactions, RowsOf
    <2>2. ASSUME NEW d \in Dispatchers
          PROVE  /\ dispatcher[d].at \in {"idle", "chosen", "claimed", "clear", "posted"}
                 /\ dispatcher[d].run \in Runs \cup {NoRun}
        BY DEF Typed, Copies
    <2> QED BY <2>1, <2>2 DEF Typed, TypeOK
<1>2. Typed /\ [Next]_vars => Typed'
    BY TypedStep
<1> QED BY <1>1, <1>2, TypedInit, PTL DEF Spec

-----------------------------------------------------------------------------
(* Runs and stamps have numbers *)

LEMMA NumberedInit == Init => Numbered
<1> SUFFICES ASSUME Init PROVE Numbered
    OBVIOUS
<1>1. Typed /\ row = setup.first /\ claims = 0
    BY TypedInit DEF Init
<1>2. ASSUME NEW p \in Projects
      PROVE  Claimed(row[p].run) /\ row[p].updated <= stamps[p]
    <2>1. row[p].run # NoRun => row[p].run.number = 0
        BY <1>1, FirstRowsAssumption DEF Typed
    <2>2. row[p].updated \in Nat /\ stamps[p] = row[p].updated
        BY <1>1 DEF Init, Typed, Row
    <2> QED BY <1>1, <2>1, <2>2 DEF Claimed
<1>3. ASSUME NEW i \in Importers
      PROVE  /\ importer[i].writes = <<>> /\ importer[i].at # "read"
             /\ request[i].rows = <<>>
    BY WaitingFacts DEF Init, NoRequest, Transactions
<1>4. \A d \in Dispatchers : dispatcher[d].run = NoRun
    BY RestingFacts DEF Init
<1> QED BY <1>2, <1>3, <1>4, EmptyTable DEF Init, Numbered, Claimed

\* The runs and the rows a step leaves alone.
LEMMA NumberedFrame ==
    ASSUME Typed, Typed', Numbered,
           claims <= claims',
           \A p \in Projects : stamps[p] <= stamps'[p],
           \A p \in Projects : Claimed(row[p].run)' /\ row'[p].updated <= stamps'[p],
           \A i \in Importers : \A p \in DOMAIN importer'[i].writes :
               \/ p \in DOMAIN importer[i].writes /\ importer'[i].writes[p] = importer[i].writes[p]
               \/ Claimed(importer[i].writes[p].run)',
           \A i \in Importers : \A p \in DOMAIN request'[i].rows :
               \/ p \in DOMAIN request[i].rows /\ request'[i].rows[p] = request[i].rows[p]
               \/ Claimed(request[i].rows[p].run)' /\ request'[i].rows[p].updated <= stamps'[p],
           \A i \in Importers : importer'[i].at = "read" =>
               \/ importer[i].at = "read" /\ importer'[i].seen = importer[i].seen
               \/ Claimed(importer[i].seen.run)',
           \A d \in Dispatchers :
               dispatcher'[d].run = dispatcher[d].run \/ Claimed(dispatcher[d].run)',
           \A l \in Lanes : \A r \in live'[l] : r \in live[l] \/ Claimed(r)',
           \A r \in owed' : r \in owed \/ \E l \in Lanes : r \in live[l]
    PROVE  Numbered'
<1> DEFINE Good(r) == r = NoRun \/ r.number <= claims'
<1>1. ASSUME NEW r \in Runs \cup {NoRun}, Claimed(r)
      PROVE  Good(r)
    <2>1. CASE r = NoRun
        BY <2>1
    <2>2. CASE r \in Runs /\ r.number <= claims
        <3>1. r.number \in Nat /\ claims \in Nat /\ claims' \in Nat
            BY <2>2 DEF Typed, Runs
        <3> QED BY <2>2, <3>1
    <2> QED BY <1>1, <2>1, <2>2 DEF Claimed
<1> HIDE DEF Good
<1>2. ASSUME NEW i \in Importers, NEW p \in DOMAIN importer'[i].writes
      PROVE  Good(importer'[i].writes[p].run)
    <2>1. CASE p \in DOMAIN importer[i].writes /\ importer'[i].writes[p] = importer[i].writes[p]
        <3>1. importer[i].writes[p].run \in Runs \cup {NoRun}
            BY <2>1, TableFacts DEF Typed, Transactions, Row
        <3> QED BY <1>1, <2>1, <3>1 DEF Numbered
    <2>2. CASE Claimed(importer[i].writes[p].run)'
        BY <2>2 DEF Claimed, Good
    <2> QED BY <2>1, <2>2
<1>3. ASSUME NEW i \in Importers, NEW p \in DOMAIN request'[i].rows
      PROVE  Good(request'[i].rows[p].run) /\ request'[i].rows[p].updated <= stamps'[p]
    <2>1. CASE p \in DOMAIN request[i].rows /\ request'[i].rows[p] = request[i].rows[p]
        <3>1. p \in Projects /\ request[i].rows[p] \in Row
            BY <2>1, TableFacts DEF Typed, Requests
        <3>2. /\ request[i].rows[p].run \in Runs \cup {NoRun}
              /\ request[i].rows[p].updated \in Nat
              /\ stamps[p] \in Nat /\ stamps'[p] \in Nat
            BY <3>1 DEF Typed, Row
        <3>3. Claimed(request[i].rows[p].run) /\ request[i].rows[p].updated <= stamps[p]
              /\ stamps[p] <= stamps'[p]
            BY <2>1, <3>1 DEF Numbered
        <3>4. request'[i].rows[p].updated <= stamps'[p]
            BY <2>1, <3>2, <3>3
        <3> QED BY <1>1, <2>1, <3>2, <3>3, <3>4
    <2>2. CASE Claimed(request[i].rows[p].run)' /\ request'[i].rows[p].updated <= stamps'[p]
        BY <2>2 DEF Claimed, Good
    <2> QED BY <2>1, <2>2
<1>4. ASSUME NEW i \in Importers, importer'[i].at = "read"
      PROVE  Good(importer'[i].seen.run)
    <2>1. CASE importer[i].at = "read" /\ importer'[i].seen = importer[i].seen
        <3>1. importer[i].seen.run \in Runs \cup {NoRun}
            BY <2>1, ReadFacts DEF Row
        <3> QED BY <1>1, <2>1, <3>1 DEF Numbered
    <2>2. CASE Claimed(importer[i].seen.run)'
        BY <2>2 DEF Claimed, Good
    <2> QED BY <1>4, <2>1, <2>2
<1>5. ASSUME NEW d \in Dispatchers
      PROVE  Good(dispatcher'[d].run)
    <2>1. dispatcher[d].run \in Runs \cup {NoRun} /\ Claimed(dispatcher[d].run)
        BY DEF Typed, Copies, Numbered
    <2>2. CASE Claimed(dispatcher[d].run)'
        BY <2>2 DEF Claimed, Good
    <2> QED BY <1>1, <2>1, <2>2
<1>6. ASSUME NEW l \in Lanes, NEW r \in live[l]
      PROVE  Good(r)
    <2>1. r \in Runs \cup {NoRun} /\ Claimed(r)
        BY DEF Typed, Numbered
    <2> QED BY <1>1, <2>1
<1>7. ASSUME NEW r \in owed
      PROVE  Good(r)
    <2>1. r \in Runs \cup {NoRun} /\ Claimed(r)
        BY DEF Typed, Numbered
    <2> QED BY <1>1, <2>1
<1>8. ASSUME NEW l \in Lanes, NEW r \in live'[l]
      PROVE  Good(r)
    <2>1. CASE r \in live[l]
        BY <1>6, <2>1
    <2>2. CASE Claimed(r)'
        BY <2>2 DEF Claimed, Good
    <2> QED BY <2>1, <2>2
<1>9. \A r \in owed' : Good(r)
    BY <1>6, <1>7
<1>10. \A p \in Projects : Good(row'[p].run)
    BY DEF Claimed, Good
<1> QED BY <1>2, <1>3, <1>4, <1>5, <1>8, <1>9, <1>10 DEF Numbered, Claimed, Good

\* The same for a step in which no transaction reads or writes and no request
\* is made.
LEMMA NumberedFewer ==
    ASSUME Typed, Typed', Numbered, \A i \in Importers : Fewer(i), request' = request,
           claims <= claims',
           \A p \in Projects : stamps[p] <= stamps'[p],
           \A p \in Projects : Claimed(row[p].run)' /\ row'[p].updated <= stamps'[p],
           \A d \in Dispatchers :
               dispatcher'[d].run = dispatcher[d].run \/ Claimed(dispatcher[d].run)',
           \A l \in Lanes : \A r \in live'[l] : r \in live[l] \/ Claimed(r)',
           \A r \in owed' : r \in owed \/ \E l \in Lanes : r \in live[l]
    PROVE  Numbered'
BY NumberedFrame DEF Fewer

LEMMA NumberedSame ==
    ASSUME Typed, Numbered, UNCHANGED <<row, stamps, claims>>
    PROVE  /\ claims <= claims' /\ (\A p \in Projects : stamps[p] <= stamps'[p])
           /\ \A p \in Projects : Claimed(row[p].run)' /\ row'[p].updated <= stamps'[p]
BY DEF Typed, Numbered, Claimed

LEMMA NumberedPut ==
    ASSUME Typed, Numbered, NEW p \in Projects, NEW x \in Row, Put(p, x), claims <= claims',
           claims' \in Nat, x.run = NoRun \/ x.run.number <= claims'
    PROVE  /\ \A q \in Projects : stamps[q] <= stamps'[q]
           /\ \A q \in Projects : Claimed(row[q].run)' /\ row'[q].updated <= stamps'[q]
<1> SUFFICES ASSUME NEW q \in Projects
             PROVE  /\ stamps[q] <= stamps'[q] /\ Claimed(row[q].run)'
                    /\ row'[q].updated <= stamps'[q]
    OBVIOUS
<1>1. stamps[q] \in Nat /\ row[q].run \in Runs \cup {NoRun} /\ claims \in Nat
    BY DEF Typed, Row
<1>2. CASE q = p
    BY <1>1, <1>2, PutFacts DEF Claimed
<1>3. CASE q # p
    <2>1. Claimed(row[q].run) /\ row[q].updated <= stamps[q]
        BY DEF Numbered
    <2>2. row'[q] = row[q] /\ stamps'[q] = stamps[q]
        BY <1>3, PutFacts
    <2>3. row[q].run # NoRun => row[q].run.number \in Nat
        BY <1>1 DEF Runs
    <2> QED BY <1>1, <2>1, <2>2, <2>3 DEF Claimed
<1> QED BY <1>2, <1>3

LEMMA SeesNumbered ==
    ASSUME Typed, Numbered, NEW i \in Importers, NEW p \in Projects
    PROVE  Claimed(Sees(i, p).run)
BY DEF Sees, Numbered

LEMMA WrittenNumbered ==
    ASSUME Typed, Numbered, NEW i \in Importers, importer[i].at = "read"
    PROVE  Claimed(Written(i).run)
<1>1. importer[i].of \in DOMAIN request[i].rows /\ importer[i].of \in Projects
    BY ReadFacts
<1>2. /\ Claimed(request[i].rows[importer[i].of].run) /\ Claimed(importer[i].seen.run)
      /\ Claimed(Sees(i, importer[i].of).run)
    BY <1>1, SeesNumbered DEF Numbered
<1>3. Claimed(ImportedRow(i).run)
    BY <1>2, ImportedFacts
<1> QED BY <1>2, <1>3, WrittenFacts

LEMMA NumberedTransaction ==
    ASSUME Typed, Numbered, NEW i \in Importers, Request(i)
    PROVE  Numbered'
<1> USE DEF Request
<1>1. Typed'
    BY TypedStep DEF Next
<1>2. UNCHANGED <<live, owed, claims, dispatcher>>
    BY DEF TakeSnapshot, SubmitIdeas, Begin, WriteRow, Commit, Rollback, ReadRow
<1>3. CASE TakeSnapshot(i) \/ SubmitIdeas(i)
    <2>1. UNCHANGED <<row, stamps, claims>>
        BY <1>3 DEF TakeSnapshot, SubmitIdeas
    <2>2. ASSUME NEW j \in Importers, NEW p \in DOMAIN request'[j].rows
          PROVE  \/ p \in DOMAIN request[j].rows /\ request'[j].rows[p] = request[j].rows[p]
                 \/ Claimed(request[j].rows[p].run)' /\ request'[j].rows[p].updated <= stamps'[p]
        <3>1. CASE j = i
            <4>1. p \in Projects
                BY <1>1, TableFacts DEF Typed, Requests
            <4>2. stamps[p] \in Nat /\ Claimed(row[p].run) /\ row[p].updated <= stamps[p]
                BY <4>1 DEF Typed, Numbered
            <4> QED BY <1>3, <2>1, <3>1, <4>2, AskFacts DEF Claimed
        <3>2. CASE j # i
            BY <1>3, <3>2, AskFacts
        <3> QED BY <3>1, <3>2
    <2>3. \A j \in Importers : Fewer(j)
        BY <1>3, AskFacts
    <2> QED BY <1>1, <1>2, <2>1, <2>2, <2>3, NumberedFrame, NumberedSame DEF Fewer
<1>4. CASE Begin(i) \/ Rollback(i)
    <2>1. UNCHANGED <<row, stamps, claims, request>>
        BY <1>4 DEF Begin, Rollback
    <2>2. \A j \in Importers : Fewer(j)
        BY <1>4, BeginFacts, RollbackFacts
    <2> QED BY <1>1, <1>2, <2>1, <2>2, NumberedFewer, NumberedSame
<1>5. CASE WriteRow(i)
    <2>1. UNCHANGED <<row, stamps, claims, request>> /\ importer[i].at = "read"
        BY <1>5 DEF WriteRow
    <2>2. CASE \A j \in Importers : Fewer(j)
        BY <1>1, <1>2, <2>1, <2>2, NumberedFewer, NumberedSame
    <2>3. CASE ~\A j \in Importers : Fewer(j)
        <3>1. ASSUME NEW j \in Importers, NEW p \in DOMAIN importer'[j].writes
              PROVE  \/ /\ p \in DOMAIN importer[j].writes
                        /\ importer'[j].writes[p] = importer[j].writes[p]
                     \/ Claimed(importer[j].writes[p].run)'
            <4>1. CASE j = i /\ p = importer[i].of
                BY <1>5, <2>1, <2>3, <4>1, WriteRowFacts, WrittenNumbered DEF Claimed
            <4>2. CASE ~(j = i /\ p = importer[i].of)
                BY <1>5, <2>3, <4>2, WriteRowFacts
            <4> QED BY <4>1, <4>2
        <3>2. ASSUME NEW j \in Importers, importer'[j].at = "read"
              PROVE  importer[j].at = "read" /\ importer'[j].seen = importer[j].seen
            BY <1>5, <2>3, <3>2, WriteRowFacts
        <3> QED BY <1>1, <1>2, <2>1, <3>1, <3>2, NumberedFrame, NumberedSame
    <2> QED BY <2>2, <2>3
<1>6. CASE Commit(i)
    <2>1. /\ \A j \in Importers : Fewer(j)
          /\ \A p \in Projects : row'[p] = Sees(i, p)
          /\ \A p \in Projects : stamps[p] <= stamps'[p] /\ row'[p].updated <= stamps'[p]
        BY <1>6, CommitFacts
    <2>2. \A p \in Projects : Claimed(row[p].run)'
        BY <1>2, <2>1, SeesNumbered DEF Claimed
    <2>3. request' = request /\ claims <= claims'
        BY <1>2, <1>6 DEF Commit, Typed
    <2> QED BY <1>1, <1>2, <2>1, <2>2, <2>3, NumberedFewer
<1>7. ASSUME NEW p \in Projects, ReadRow(i, p)
      PROVE  Numbered'
    <2>1. UNCHANGED <<row, stamps, claims, request>>
        BY <1>7 DEF ReadRow
    <2>2. CASE \A j \in Importers : Fewer(j)
        BY <1>1, <1>2, <2>1, <2>2, NumberedFewer, NumberedSame
    <2>3. CASE ~\A j \in Importers : Fewer(j)
        <3>1. \A j \in Importers : importer'[j].writes = importer[j].writes
            BY <1>7, ReadRowFacts
        <3>2. ASSUME NEW j \in Importers, importer'[j].at = "read"
              PROVE  \/ importer[j].at = "read" /\ importer'[j].seen = importer[j].seen
                     \/ Claimed(importer[j].seen.run)'
            <4>1. CASE j = i
                BY <1>7, <2>1, <2>3, <4>1, ReadRowFacts, SeesNumbered DEF Claimed
            <4>2. CASE j # i
                BY <1>7, <3>2, <4>2, ReadRowFacts
            <4> QED BY <4>1, <4>2
        <3> QED BY <1>1, <1>2, <2>1, <3>1, <3>2, NumberedFrame, NumberedSame
    <2> QED BY <2>2, <2>3
<1> QED BY <1>3, <1>4, <1>5, <1>6, <1>7

LEMMA NumberedRun ==
    ASSUME Typed, Numbered,
           \/ \E d \in Dispatchers : Dispatch(d)
           \/ \E l \in Lanes : \E r \in live[l] : EndRun(l, r)
           \/ \E r \in owed : ReportRun(r)
    PROVE  Numbered'
<1>1. Typed'
    BY TypedStep DEF Next
<1>2. claims \in Nat /\ claims' \in Nat
    BY <1>1 DEF Typed
<1>3. ASSUME NEW d \in Dispatchers, Dispatch(d)
      PROVE  Numbered'
    <2>1. UNCHANGED <<request, importer, setup, owed>> /\ \A i \in Importers : Fewer(i)
        BY <1>3, RunSteps, SameFewer
    <2>2. Claimed(NoRun)'
        BY DEF Claimed
    <2>3. CASE Select(d) \/ ClaimRefused(d) \/ PreflightOk(d) \/ Post(d)
        <3>1. UNCHANGED <<row, stamps, claims>>
            BY <2>3 DEF Select, ClaimRefused, PreflightOk, Post
        <3>2. \A e \in Dispatchers :
                dispatcher'[e].run = dispatcher[e].run \/ Claimed(dispatcher[e].run)'
            BY <2>2, <2>3, SelectFacts, ClaimRefusedFacts, PreflightOkFacts, PostFacts
               DEF Others
        <3>3. ASSUME NEW l \in Lanes, NEW r \in live'[l]
              PROVE  r \in live[l] \/ Claimed(r)'
            <4>1. CASE Post(d)
                <5>0. live'[l] = IF l = dispatcher[d].lane
                                 THEN live[l] \cup {dispatcher[d].run} ELSE live[l]
                    BY <4>1, PostFacts
                <5>1. r \in live[l] \/ r = dispatcher[d].run
                    BY <3>3, <5>0
                <5>2. Claimed(dispatcher[d].run)
                    BY DEF Numbered
                <5> QED BY <3>1, <5>1, <5>2 DEF Claimed
            <4>2. CASE ~Post(d)
                BY <2>3, <3>3, <4>2 DEF Select, ClaimRefused, PreflightOk
            <4> QED BY <4>1, <4>2
        <3> QED BY <1>1, <2>1, <3>1, <3>2, <3>3, NumberedFewer, NumberedSame
    <2>4. CASE Claim(d)
        <3> DEFINE run == [of |-> dispatcher[d].of, number |-> claims + 1]
        <3>0. run.number = claims'
            BY <2>4 DEF Claim
        <3> HIDE DEF run
        <3>1. PICK x \in Row : Put(dispatcher[d].of, x) /\ x.run = run
            BY <2>4, ClaimFacts DEF run
        <3>2. dispatcher[d].of \in Projects /\ claims <= claims' /\ claims' <= claims'
            BY <1>2, <2>4 DEF Claim, Typed, Copied
        <3>3. \A e \in Dispatchers :
                dispatcher'[e].run = dispatcher[e].run \/ Claimed(dispatcher[e].run)'
            BY <2>4, <3>2, ClaimFacts DEF Others, Claimed
        <3>4. live' = live
            BY <2>4 DEF Claim
        <3>5. /\ \A p \in Projects : stamps[p] <= stamps'[p]
              /\ \A p \in Projects : Claimed(row[p].run)' /\ row'[p].updated <= stamps'[p]
            <4>1. x.run.number <= claims'
                BY <1>2, <3>0, <3>1
            <4> QED BY <1>2, <3>1, <3>2, <4>1, NumberedPut
        <3> QED BY <1>1, <2>1, <3>2, <3>3, <3>4, <3>5, NumberedFewer
    <2>5. CASE PreflightRefused(d) \/ MarkStarted(d)
        <3>1. claims' = claims /\ live' = live /\ claims <= claims'
            BY <1>2, <2>5 DEF PreflightRefused, MarkStarted
        <3>2. \A e \in Dispatchers :
                dispatcher'[e].run = dispatcher[e].run \/ Claimed(dispatcher[e].run)'
            BY <2>2, <2>5, PreflightRefusedFacts, MarkStartedFacts DEF Others
        <3>3. /\ \A p \in Projects : stamps[p] <= stamps'[p]
              /\ \A p \in Projects : Claimed(row[p].run)' /\ row'[p].updated <= stamps'[p]
            <4>1. CASE UNCHANGED <<row, stamps>>
                BY <3>1, <4>1, NumberedSame
            <4>2. CASE ~UNCHANGED <<row, stamps>>
                <5>1. PICK x \in Row : /\ Put(dispatcher[d].of, x)
                                       /\ x.run = NoRun \/ x.run = dispatcher[d].run
                    BY <2>5, <4>2, PreflightRefusedFacts, MarkStartedFacts
                <5>2. dispatcher[d].of \in Projects
                    BY <2>5, PreflightRefusedFacts, MarkStartedFacts
                <5>3. x.run = NoRun \/ x.run.number <= claims'
                    BY <3>1, <5>1 DEF Numbered, Claimed
                <5> QED BY <1>2, <3>1, <5>1, <5>2, <5>3, NumberedPut
            <4> QED BY <4>1, <4>2
        <3> QED BY <1>1, <2>1, <3>1, <3>2, <3>3, NumberedFewer
    <2> QED BY <1>3, <2>3, <2>4, <2>5 DEF Dispatch
<1>4. ASSUME NEW l \in Lanes, NEW r \in live[l], EndRun(l, r)
      PROVE  Numbered'
    <2>1. /\ UNCHANGED <<row, stamps, claims, request, importer, dispatcher>>
          /\ owed' = owed \cup {r}
        BY <1>4 DEF EndRun
    <2>2. \A m \in Lanes : live'[m] \subseteq live[m]
        BY <1>4, EndRunFacts
    <2> QED BY <1>1, <2>1, <2>2, SameFewer, NumberedFewer, NumberedSame
<1>5. ASSUME NEW r \in owed, ReportRun(r)
      PROVE  Numbered'
    <2>1. /\ UNCHANGED <<live, claims, request, importer, dispatcher>> /\ owed' \subseteq owed
          /\ claims <= claims'
        BY <1>2, <1>5 DEF ReportRun
    <2>2. /\ \A p \in Projects : stamps[p] <= stamps'[p]
          /\ \A p \in Projects : Claimed(row[p].run)' /\ row'[p].updated <= stamps'[p]
        <3>1. CASE UNCHANGED <<row, stamps>>
            BY <2>1, <3>1, NumberedSame
        <3>2. CASE ~UNCHANGED <<row, stamps>>
            <4>1. PICK x \in Row : Put(r.of, x) /\ x.run = r
                BY <1>5, <3>2, ReportRunFacts
            <4>2. r.of \in Projects /\ (x.run = NoRun \/ x.run.number <= claims')
                BY <1>5, <2>1, <4>1, ReportRunFacts DEF Numbered, Claimed
            <4> QED BY <1>2, <2>1, <4>1, <4>2, NumberedPut
        <3> QED BY <3>1, <3>2
    <2> QED BY <1>1, <2>1, <2>2, SameFewer, NumberedFewer
<1> QED BY <1>3, <1>4, <1>5

LEMMA NumberedStep ==
    ASSUME Typed, Numbered, [Next]_vars
    PROVE  Numbered'
<1>1. CASE UNCHANGED vars
    BY <1>1 DEF vars, Numbered, Claimed
<1>2. CASE Next
    BY <1>2, NumberedTransaction, NumberedRun DEF Next
<1> QED BY <1>1, <1>2

-----------------------------------------------------------------------------
(* A held run keeps its row *)

LEMMA RunFacts ==
    ASSUME NEW r \in Runs
    PROVE  r.of \in Projects /\ r.number \in Nat /\ r # NoRun
BY RunAssumption DEF Runs

\* A row is of one run: two held runs of one project are one run.
LEMMA OneHeld ==
    ASSUME HeldKept, NEW r \in Runs, NEW s \in Runs, NEW l \in Lanes, NEW m \in Lanes,
           Held(r, l), Held(s, m), r.of = s.of
    PROVE  r = s
BY DEF HeldKept, Kept, Keeps, Mine

\* The run of a dispatcher is held on its lane.
LEMMA DispatchedHeld ==
    ASSUME Typed, NEW d \in Dispatchers, dispatcher[d].run \in Runs
    PROVE  /\ dispatcher[d].lane \in Lanes /\ dispatcher[d].run.of = dispatcher[d].of
           /\ dispatcher[d].at \in {"claimed", "clear", "posted"}
           /\ Held(dispatcher[d].run, dispatcher[d].lane)
BY RunAssumption DEF Typed, Copied, Copies, Held

\* What a step leaves of a held run: nothing more is read or written, no request
\* is made, and the row stays or is written in the run's favour.
LEMMA KeptFrame ==
    ASSUME Typed, \A i \in Importers : Fewer(i), UNCHANGED <<request, setup>>,
           NEW r \in Runs, NEW l \in Lanes, Kept(r, l), r \notin owed',
           \/ row'[r.of] = row[r.of]
           \/ Keeps(row'[r.of], r, l) /\ (Dated => Newer(row'[r.of], r))
    PROVE  Kept(r, l)'
<1>1. Dated' = Dated
    BY DEF Dated, Hazard
<1>2. \A i \in Importers, p \in Projects : Shows(i, p)' = Shows(i, p)
    BY DEF Shows
<1>3. r.of \in Projects
    BY RunFacts
<1>4. Keeps(row[r.of], r, l)'
    BY <1>1 DEF Kept, Keeps, Mine, Active
<1>5. ASSUME NEW i \in Importers, r.of \in DOMAIN importer'[i].writes
      PROVE  /\ r.of \in DOMAIN importer[i].writes
             /\ importer'[i].writes[r.of] = importer[i].writes[r.of]
             /\ Keeps(importer[i].writes[r.of], r, l)'
    BY <1>1, <1>5 DEF Fewer, Kept, Keeps, Mine, Active
<1>6. ASSUME Dated
      PROVE  /\ Newer(row[r.of], r)'
             /\ \A i \in Importers : Harmless(i, r, l)'
             /\ \A i \in Importers : r.of \in DOMAIN importer'[i].writes =>
                   Newer(importer[i].writes[r.of], r)'
    <2>1. Newer(row[r.of], r)'
        BY <1>2, <1>3, <1>6 DEF Kept, Newer, Mine, Active
    <2>2. ASSUME NEW i \in Importers
          PROVE  Harmless(i, r, l)'
        <3>1. Harmless(i, r, l) /\ Fewer(i)
            BY <1>6 DEF Kept
        <3> QED BY <1>2, <1>3, <3>1 DEF Harmless, Fewer, Newer, Mine, Active
    <2>3. ASSUME NEW i \in Importers, r.of \in DOMAIN importer'[i].writes
          PROVE  Newer(importer[i].writes[r.of], r)'
        <3>1. Newer(importer[i].writes[r.of], r)
            BY <1>5, <1>6, <2>3 DEF Kept
        <3> QED BY <1>2, <1>3, <1>5, <2>3, <3>1 DEF Newer, Mine, Active
    <2> QED BY <2>1, <2>2, <2>3
<1> QED BY <1>1, <1>4, <1>5, <1>6 DEF Kept

\* What a statement makes of the row of a held run.
LEMMA WrittenKeeps ==
    ASSUME Typed, NEW i \in Importers, importer[i].at = "read",
           NEW r \in Runs, NEW l \in Lanes, Kept(r, l), importer[i].of = r.of
    PROVE  Keeps(Written(i), r, l) /\ (Dated => Newer(Written(i), r))
<1> DEFINE now == Sees(i, r.of)
           s == request[i].rows[r.of]
           x == Written(i)
<1>1. Keeps(now, r, l) /\ (Dated => Newer(now, r))
    BY DEF Kept, Sees
<1>2. CASE x = now
    BY <1>1, <1>2
<1>3. CASE x # now
    <2>1. /\ MayImport(now, x) /\ x = ImportedRow(i) /\ setup.kinds[i] = "import"
        BY <1>1, <1>3, WrittenFacts DEF Keeps, Mine
    <2>2. Mine(x, r)
        BY <1>1, <2>1 DEF MayImport, Keeps, Mine
    <2>3. ASSUME Dated
          PROVE  x.lane = l /\ Newer(x, r)
        <3>1. Shows(i, r.of)
            BY <2>1, ReadFacts DEF Shows
        <3>2. Harmless(i, r, l)
            BY <2>3 DEF Kept
        <3>3. x.lane = s.lane /\ x.updated = s.updated
            BY <2>1, <2>3, ImportedFacts
        <3>4. \/ x.status = s.status /\ x.run = s.run
              \/ Active(importer[i].seen) /\ ~Mine(s, importer[i].seen.run)
                 /\ x.run = importer[i].seen.run
            BY <2>1, ImportedFacts
        <3>5. Mine(s, r)
            <4>1. CASE x.status = s.status /\ x.run = s.run
                BY <2>2, <4>1 DEF Mine, Active
            <4>2. CASE Active(importer[i].seen) /\ ~Mine(s, importer[i].seen.run)
                       /\ x.run = importer[i].seen.run
                <5>1. Mine(importer[i].seen, r) /\ ~Mine(s, r)
                    BY <2>2, <4>2 DEF Mine
                <5> QED BY <3>1, <3>2, <5>1 DEF Harmless
            <4> QED BY <3>4, <4>1, <4>2
        <3>6. s.lane = l /\ Newer(s, r)
            BY <3>1, <3>2, <3>5 DEF Harmless, Mine
        <3> QED BY <3>3, <3>6 DEF Newer
    <2> QED BY <2>2, <2>3 DEF Keeps
<1> QED BY <1>2, <1>3

\* A row is read for the import of a snapshot only if no version that the
\* snapshot does not know is in it.
LEMMA ReadHarmless ==
    ASSUME Typed, NEW i \in Importers, NEW r \in Runs, NEW l \in Lanes, Kept(r, l), Dated,
           ~Older(i, r.of), Shows(i, r.of), Mine(Sees(i, r.of), r)
    PROVE  Mine(request[i].rows[r.of], r)
<1>1. Newer(Sees(i, r.of), r)
    BY DEF Kept, Sees
<1>2. Sees(i, r.of).status # "absent"
    BY DEF Mine, Active, ACTIVE_STATUSES
<1>3. ~(request[i].rows[r.of].updated < Sees(i, r.of).updated)
    BY <1>2 DEF Older, Shows, Dated
<1> QED BY <1>1, <1>3 DEF Newer

\* A new request shows the row of a held run as it is, or shows nothing of it.
LEMMA KeptAsk ==
    ASSUME Typed, NEW i \in Importers, TakeSnapshot(i) \/ SubmitIdeas(i),
           NEW r \in Runs, NEW l \in Lanes, Kept(r, l)
    PROVE  Kept(r, l)'
<1>1. /\ UNCHANGED <<row, live, owed, setup>>
      /\ \A j \in Importers : Fewer(j)
      /\ \A j \in Importers \ {i} : request'[j] = request[j]
      /\ importer'[i].at = "waiting"
    BY AskFacts DEF TakeSnapshot, SubmitIdeas
<1>2. r.of \in Projects /\ (Dated' = Dated)
    BY <1>1, RunFacts DEF Dated, Hazard
<1>3. ASSUME NEW j \in Importers, Shows(j, r.of)'
      PROVE  \/ j = i /\ request'[j].rows[r.of] = row[r.of]
             \/ j # i /\ Shows(j, r.of) /\ request'[j].rows[r.of] = request[j].rows[r.of]
    <2>1. CASE j = i
        BY <1>1, <1>3, <2>1, AskFacts DEF Shows
    <2>2. CASE j # i
        BY <1>1, <1>3, <2>2 DEF Shows
    <2> QED BY <2>1, <2>2
<1>4. Keeps(row[r.of], r, l)
    BY DEF Kept
<1>5. ASSUME NEW x, Newer(x, r)
      PROVE  \A j \in Importers : Shows(j, r.of)' /\ ~Mine(request'[j].rows[r.of], r) =>
                request'[j].rows[r.of].updated < x.updated
    BY <1>3, <1>4, <1>5 DEF Newer, Keeps
<1>6. ASSUME NEW j \in Importers, r.of \in DOMAIN importer'[j].writes
      PROVE  /\ r.of \in DOMAIN importer[j].writes
             /\ importer'[j].writes[r.of] = importer[j].writes[r.of]
             /\ Keeps(importer[j].writes[r.of], r, l)'
    BY <1>1, <1>2, <1>6 DEF Fewer, Kept, Keeps, Mine, Active
<1>7. ASSUME Dated
      PROVE  /\ Newer(row[r.of], r)'
             /\ \A j \in Importers : Harmless(j, r, l)'
             /\ \A j \in Importers : r.of \in DOMAIN importer'[j].writes =>
                   Newer(importer[j].writes[r.of], r)'
    <2>1. Newer(row[r.of], r)'
        <3>1. Newer(row[r.of], r)
            BY <1>7 DEF Kept
        <3> QED BY <1>1, <1>5, <3>1 DEF Newer, Mine, Active
    <2>2. ASSUME NEW j \in Importers
          PROVE  Harmless(j, r, l)'
        <3> DEFINE s == request'[j].rows[r.of]
        <3> SUFFICES ASSUME Shows(j, r.of)'
                     PROVE  /\ s.run = r => s.lane = l
                            /\ Mine(s, r) => Newer(request[j].rows[r.of], r)'
                            /\ (/\ importer'[j].at = "read" /\ importer'[j].of = r.of
                                /\ Mine(importer'[j].seen, r))
                                  => Mine(s, r)
            BY DEF Harmless, Mine, Active
        <3>1. CASE j = i
            <4>1. s = row[r.of]
                BY <1>3, <3>1
            <4>2. s.lane = l /\ Newer(s, r)
                BY <1>4, <1>7, <4>1 DEF Kept, Keeps
            <4>3. \A k \in Importers : Shows(k, r.of)' /\ ~Mine(request'[k].rows[r.of], r) =>
                     request'[k].rows[r.of].updated < s.updated
                BY <1>5, <4>2
            <4>4. Newer(request[j].rows[r.of], r)'
                BY <4>3 DEF Newer, Mine, Active
            <4> QED BY <1>1, <3>1, <4>2, <4>4
        <3>2. CASE j # i
            <4>1. Shows(j, r.of) /\ s = request[j].rows[r.of] /\ Harmless(j, r, l)
                BY <1>3, <1>7, <3>2 DEF Kept
            <4>2. /\ s.run = r => s.lane = l
                  /\ Mine(s, r) => Newer(s, r)
                BY <4>1 DEF Harmless
            <4>3. Mine(s, r) =>
                    \A k \in Importers : Shows(k, r.of)' /\ ~Mine(request'[k].rows[r.of], r) =>
                       request'[k].rows[r.of].updated < s.updated
                BY <1>5, <4>2
            <4>4. Mine(s, r) => Newer(request[j].rows[r.of], r)'
                BY <4>3 DEF Newer, Mine, Active
            <4>5. (/\ importer'[j].at = "read" /\ importer'[j].of = r.of
                   /\ Mine(importer'[j].seen, r)) => Mine(s, r)
                BY <1>1, <4>1 DEF Fewer, Harmless
            <4> QED BY <4>2, <4>4, <4>5
        <3> QED BY <3>1, <3>2
    <2>3. ASSUME NEW j \in Importers, r.of \in DOMAIN importer'[j].writes
          PROVE  Newer(importer[j].writes[r.of], r)'
        <3> DEFINE x == importer[j].writes[r.of]
        <3>1. importer'[j].writes[r.of] = x /\ Newer(x, r)
            BY <1>6, <1>7, <2>3 DEF Kept
        <3>2. \A k \in Importers : Shows(k, r.of)' /\ ~Mine(request'[k].rows[r.of], r) =>
                 request'[k].rows[r.of].updated < x.updated
            BY <1>5, <3>1
        <3> QED BY <3>1, <3>2 DEF Newer, Mine, Active
    <2> QED BY <2>1, <2>2, <2>3
<1>8. r \notin owed' /\ Keeps(row[r.of], r, l)'
    BY <1>1, <1>2 DEF Kept, Keeps, Mine, Active
<1> QED BY <1>2, <1>6, <1>7, <1>8 DEF Kept

\* What a transaction reads or writes leaves the held run its row, the
\* transaction's own writing included.
LEMMA KeptOwn ==
    ASSUME Typed, NEW i \in Importers, UNCHANGED <<row, owed, request, setup>>,
           \A j \in Importers \ {i} : importer'[j] = importer[j],
           NEW r \in Runs, NEW l \in Lanes, Kept(r, l),
           r.of \in DOMAIN importer'[i].writes =>
               /\ Keeps(importer'[i].writes[r.of], r, l)
               /\ Dated => Newer(importer'[i].writes[r.of], r),
           Dated /\ Shows(i, r.of) /\ importer'[i].at = "read" /\ importer'[i].of = r.of
               /\ Mine(importer'[i].seen, r) => Mine(request[i].rows[r.of], r)
    PROVE  Kept(r, l)'
<1>1. Dated' = Dated /\ \A j \in Importers, p \in Projects : Shows(j, p)' = Shows(j, p)
    BY DEF Dated, Hazard, Shows
<1>2. r.of \in Projects
    BY RunFacts
<1>3. ASSUME NEW j \in Importers, r.of \in DOMAIN importer'[j].writes
      PROVE  /\ Keeps(importer[j].writes[r.of], r, l)'
             /\ Dated => Newer(importer[j].writes[r.of], r)'
    <2>1. /\ Keeps(importer'[j].writes[r.of], r, l)
          /\ Dated => Newer(importer'[j].writes[r.of], r)
        <3>1. CASE j = i
            BY <1>3, <3>1
        <3>2. CASE j # i
            BY <1>3, <3>2 DEF Kept
        <3> QED BY <3>1, <3>2
    <2> QED BY <1>1, <1>2, <2>1 DEF Keeps, Newer, Mine, Active
<1>4. ASSUME Dated, NEW j \in Importers
      PROVE  Harmless(j, r, l)'
    <2>1. Harmless(j, r, l)
        BY <1>4 DEF Kept
    <2>2. Mine(request[j].rows[r.of], r) /\ Newer(request[j].rows[r.of], r)
             => Newer(request[j].rows[r.of], r)'
        BY <1>1, <1>2 DEF Newer, Mine, Active
    <2>3. CASE j = i
        BY <1>1, <1>2, <1>4, <2>1, <2>2, <2>3 DEF Harmless, Mine, Active
    <2>4. CASE j # i
        BY <1>1, <1>2, <2>1, <2>2, <2>4 DEF Harmless, Mine, Active
    <2> QED BY <2>3, <2>4
<1>5. r \notin owed' /\ Keeps(row[r.of], r, l)' /\ (Dated => Newer(row[r.of], r)')
    BY <1>1, <1>2 DEF Kept, Keeps, Newer, Mine, Active
<1> QED BY <1>1, <1>3, <1>4, <1>5 DEF Kept

LEMMA KeptTransaction ==
    ASSUME Typed, NEW i \in Importers, Request(i),
           NEW r \in Runs, NEW l \in Lanes, Kept(r, l)
    PROVE  Kept(r, l)'
<1>1. r.of \in Projects /\ r \notin owed
    BY RunFacts DEF Kept
<1>2. CASE TakeSnapshot(i) \/ SubmitIdeas(i)
    BY <1>2, KeptAsk
<1>3. CASE Begin(i) \/ Rollback(i)
    <2>1. UNCHANGED <<row, owed, request, setup>> /\ \A j \in Importers : Fewer(j)
        BY <1>3, BeginFacts, RollbackFacts DEF Begin, Rollback
    <2> QED BY <1>1, <2>1, KeptFrame
<1>4. CASE WriteRow(i)
    <2>1. UNCHANGED <<row, owed, request, setup>> /\ importer[i].at = "read"
        BY <1>4 DEF WriteRow
    <2>2. CASE \A j \in Importers : Fewer(j)
        BY <1>1, <2>1, <2>2, KeptFrame
    <2>3. CASE ~\A j \in Importers : Fewer(j)
        <3>1. /\ \A j \in Importers \ {i} : importer'[j] = importer[j]
              /\ importer'[i].at = "next"
              /\ DOMAIN importer'[i].writes = DOMAIN importer[i].writes \cup {importer[i].of}
              /\ importer'[i].writes[importer[i].of] = Written(i)
              /\ \A q \in DOMAIN importer[i].writes :
                    q # importer[i].of => importer'[i].writes[q] = importer[i].writes[q]
            BY <1>4, <2>3, WriteRowFacts
        <3>2. ASSUME r.of \in DOMAIN importer'[i].writes
              PROVE  /\ Keeps(importer'[i].writes[r.of], r, l)
                     /\ Dated => Newer(importer'[i].writes[r.of], r)
            <4>1. CASE importer[i].of = r.of
                BY <2>1, <3>1, <4>1, WrittenKeeps
            <4>2. CASE importer[i].of # r.of
                BY <3>1, <3>2, <4>2 DEF Kept
            <4> QED BY <4>1, <4>2
        <3> QED BY <2>1, <3>1, <3>2, KeptOwn
    <2> QED BY <2>2, <2>3
<1>5. CASE Commit(i)
    <2>1. /\ \A j \in Importers : Fewer(j)
          /\ row'[r.of] = Sees(i, r.of)
        BY <1>1, <1>5, CommitFacts
    <2>2. UNCHANGED <<owed, request, setup>>
        BY <1>5 DEF Commit
    <2>3. Keeps(row'[r.of], r, l) /\ (Dated => Newer(row'[r.of], r))
        BY <2>1 DEF Sees, Kept
    <2> QED BY <1>1, <2>1, <2>2, <2>3, KeptFrame
<1>6. ASSUME NEW p \in Projects, ReadRow(i, p)
      PROVE  Kept(r, l)'
    <2>1. UNCHANGED <<row, owed, request, setup>>
        BY <1>6 DEF ReadRow
    <2>2. CASE \A j \in Importers : Fewer(j)
        BY <1>1, <2>1, <2>2, KeptFrame
    <2>3. CASE ~\A j \in Importers : Fewer(j)
        <3>1. /\ \A j \in Importers \ {i} : importer'[j] = importer[j]
              /\ importer'[i].writes = importer[i].writes
              /\ ~Older(i, p) /\ importer'[i].of = p /\ importer'[i].seen = Sees(i, p)
            BY <1>6, <2>3, ReadRowFacts
        <3>2. ASSUME Dated, Shows(i, r.of), importer'[i].of = r.of, Mine(importer'[i].seen, r)
              PROVE  Mine(request[i].rows[r.of], r)
            BY <3>1, <3>2, ReadHarmless
        <3>3. ASSUME r.of \in DOMAIN importer'[i].writes
              PROVE  /\ Keeps(importer'[i].writes[r.of], r, l)
                     /\ Dated => Newer(importer'[i].writes[r.of], r)
            BY <3>1, <3>3 DEF Kept
        <3> QED BY <2>1, <3>1, <3>2, <3>3, KeptOwn
    <2> QED BY <2>2, <2>3
<1> QED BY <1>2, <1>3, <1>4, <1>5, <1>6 DEF Request

\* A statement that writes the row of another project, or of the run itself.
LEMMA KeptPut ==
    ASSUME Typed, Numbered, UNCHANGED <<request, importer, setup>>,
           NEW p \in Projects, NEW x \in Row, Put(p, x),
           NEW r \in Runs, NEW l \in Lanes, Kept(r, l), r \notin owed',
           r.of # p \/ Keeps(x, r, l)
    PROVE  Kept(r, l)'
<1>1. \A i \in Importers : Fewer(i)
    BY SameFewer
<1>2. r.of \in Projects
    BY RunFacts
<1>3. CASE r.of # p
    <2>1. row'[r.of] = row[r.of]
        BY <1>2, <1>3, PutFacts
    <2> QED BY <1>1, <2>1, KeptFrame
<1>4. CASE r.of = p
    <2>1. /\ row'[p].status = x.status /\ row'[p].run = x.run /\ row'[p].lane = x.lane
          /\ row'[p].updated = stamps[p] + 1
        BY PutFacts
    <2>2. Keeps(row'[p], r, l)
        BY <1>4, <2>1 DEF Keeps, Mine, Active
    <2>3. Dated => Newer(row'[p], r)
        <3>1. SUFFICES ASSUME NEW i \in Importers, Shows(i, p)
                       PROVE  request[i].rows[p].updated < row'[p].updated
            BY <1>4 DEF Newer
        <3>2. request[i].rows[p].updated <= stamps[p]
            BY <3>1 DEF Shows, Numbered
        <3>3. request[i].rows[p] \in Row /\ stamps[p] \in Nat
            BY <3>1, TableFacts DEF Shows, Typed, Requests
        <3> QED BY <2>1, <3>2, <3>3 DEF Row
    <2> QED BY <1>1, <1>4, <2>2, <2>3, KeptFrame
<1> QED BY <1>3, <1>4

\* No dispatcher takes up a run but in a claim, and no run comes alive but a
\* dispatcher's.
LEMMA HeldBack ==
    ASSUME Typed, NEW r \in Runs, NEW l \in Lanes, Held(r, l)',
           \/ \E i \in Importers : Request(i)
           \/ \E d \in Dispatchers : Dispatch(d) /\ ~Claim(d)
           \/ \E m \in Lanes : \E s \in live[m] : EndRun(m, s)
           \/ \E s \in owed : ReportRun(s)
    PROVE  Held(r, l)
<1>0. r # NoRun
    BY RunFacts
<1>1. CASE \E i \in Importers : Request(i)
    <2>1. UNCHANGED <<live, dispatcher>>
        BY <1>1 DEF Request, TakeSnapshot, SubmitIdeas, Begin, WriteRow, Commit, Rollback, ReadRow
    <2> QED BY <2>1 DEF Held
<1>2. ASSUME NEW d \in Dispatchers, Dispatch(d), ~Claim(d)
      PROVE  Held(r, l)
    <2>1. CASE PreflightOk(d)
        BY <2>1, PreflightOkFacts DEF Held, Others, PreflightOk
    <2>2. CASE Post(d)
        <3>1. live'[l] = IF l = dispatcher[d].lane
                         THEN live[l] \cup {dispatcher[d].run} ELSE live[l]
            BY <2>2, PostFacts
        <3>2. /\ Others(d) /\ dispatcher'[d].run = dispatcher[d].run
              /\ dispatcher'[d].lane = dispatcher[d].lane
            BY <2>2, PostFacts
        <3> QED BY <3>1, <3>2 DEF Held, Others
    <2>3. CASE Select(d) \/ ClaimRefused(d) \/ PreflightRefused(d) \/ MarkStarted(d)
        <3>1. live' = live
            BY <2>3 DEF Select, ClaimRefused, PreflightRefused, MarkStarted
        <3>2. Others(d) /\ dispatcher'[d].run = NoRun
            BY <2>3, SelectFacts, ClaimRefusedFacts, PreflightRefusedFacts, MarkStartedFacts
        <3> QED BY <1>0, <3>1, <3>2 DEF Held, Others
    <2> QED BY <1>2, <2>1, <2>2, <2>3 DEF Dispatch
<1>3. ASSUME NEW m \in Lanes, NEW s \in live[m], EndRun(m, s)
      PROVE  Held(r, l)
    <2>1. live'[l] \subseteq live[l] /\ dispatcher' = dispatcher
        BY <1>3, EndRunFacts DEF EndRun
    <2> QED BY <2>1 DEF Held
<1>4. CASE \E s \in owed : ReportRun(s)
    <2>1. UNCHANGED <<live, dispatcher>>
        BY <1>4 DEF ReportRun
    <2> QED BY <2>1 DEF Held
<1> QED BY <1>1, <1>2, <1>3, <1>4

\* The run of a claim is new.
LEMMA FreshRun ==
    ASSUME Typed, Numbered, NEW run \in Runs, run.number = claims + 1
    PROVE  /\ ~Claimed(run) /\ run \notin owed
           /\ \A l \in Lanes : ~Held(run, l)
           /\ \A d \in Dispatchers : dispatcher[d].run # run
<1>1. ~Claimed(run)
    BY RunFacts DEF Claimed, Typed
<1> QED BY <1>1 DEF Numbered, Held

\* What is held after a claim was held before, or is the claimed run.
LEMMA HeldClaim ==
    ASSUME Typed, Numbered, NEW d \in Dispatchers, Claim(d), NEW r \in Runs, NEW l \in Lanes,
           Held(r, l)'
    PROVE  \/ r # dispatcher'[d].run /\ Held(r, l)
           \/ r = dispatcher'[d].run /\ l = dispatcher'[d].lane
<1>1. live' = live /\ Others(d)
    BY ClaimFacts DEF Claim
<1>2. dispatcher'[d].run \in Runs /\ dispatcher'[d].run.number = claims + 1
    BY ClaimFacts
<1>3. ~Held(dispatcher'[d].run, l) /\ \A e \in Dispatchers : dispatcher[e].run # dispatcher'[d].run
    BY <1>2, FreshRun
<1> QED BY <1>1, <1>3 DEF Held, Others

LEMMA KeptClaim ==
    ASSUME Typed, Numbered, HeldKept, NEW d \in Dispatchers, Claim(d)
    PROVE  HeldKept'
<1> DEFINE p == dispatcher[d].of
           run == dispatcher'[d].run
<1>1. /\ p \in Projects /\ run \in Runs /\ run.of = p /\ run.number = claims + 1
      /\ row[p].status = "queued" /\ dispatcher'[d].lane = row[p].lane
    BY ClaimFacts
<1>2. PICK x \in Row : Put(p, x) /\ x.status = "dispatching" /\ x.run = run /\ x.lane = row[p].lane
    BY ClaimFacts
<1>3. UNCHANGED <<live, owed, request, importer, setup>>
    BY DEF Claim
<1> SUFFICES ASSUME NEW r \in Runs, NEW l \in Lanes, Held(r, l)'
             PROVE  Kept(r, l)'
    BY DEF HeldKept
<1>4. CASE r # run /\ Held(r, l)
    <2>1. Kept(r, l)
        BY <1>4 DEF HeldKept
    <2>2. r.of # p
        BY <1>1, <2>1 DEF Kept, Keeps, Mine, Active, ACTIVE_STATUSES
    <2>3. r \notin owed'
        BY <1>3, <2>1 DEF Kept
    <2> QED BY <1>1, <1>2, <1>3, <2>1, <2>2, <2>3, KeptPut
<1>5. CASE r = run /\ l = dispatcher'[d].lane
    <2>1. ~Claimed(r) /\ r \notin owed /\ r.of = p /\ p \in Projects
        BY <1>1, <1>5, FreshRun
    <2>2. /\ row'[r.of].status = "dispatching" /\ row'[r.of].run = r /\ row'[r.of].lane = l
          /\ row'[r.of].updated = stamps[r.of] + 1
          /\ \A i \in Importers : r.of \notin DOMAIN importer'[i].writes
        BY <1>1, <1>2, <1>3, <1>5, <2>1, PutFacts
    <2>3. ASSUME NEW i \in Importers, r.of \in DOMAIN request'[i].rows
          PROVE  /\ request'[i].rows[r.of].updated < row'[r.of].updated
                 /\ request'[i].rows[r.of].run # r
        <3>1. request'[i] = request[i] /\ r.of \in DOMAIN request[i].rows
            BY <1>3, <2>3
        <3>2. request[i].rows[r.of].updated <= stamps[r.of] /\ Claimed(request[i].rows[r.of].run)
            BY <3>1 DEF Numbered
        <3>3. request[i].rows[r.of].updated \in Nat /\ stamps[r.of] \in Nat
            BY <2>1, <3>1, TableFacts DEF Typed, Requests, Row
        <3> QED BY <2>1, <2>2, <3>1, <3>2, <3>3
    <2>4. ASSUME NEW i \in Importers, importer'[i].at = "read"
          PROVE  importer'[i].seen.run # r
        BY <1>3, <2>1, <2>4 DEF Numbered
    <2>5. Keeps(row[r.of], r, l)' /\ Newer(row[r.of], r)'
        BY <2>2, <2>3 DEF Keeps, Newer, Mine, Active, ACTIVE_STATUSES, Shows
    <2>6. \A i \in Importers : Harmless(i, r, l)'
        BY <2>3, <2>4 DEF Harmless, Shows, Mine
    <2>7. r \notin owed'
        BY <1>3, <2>1
    <2> QED BY <2>2, <2>5, <2>6, <2>7 DEF Kept
<1> QED BY <1>4, <1>5, HeldClaim

LEMMA KeptDispatch ==
    ASSUME IntakeInv, NEW d \in Dispatchers, Dispatch(d), ~Claim(d),
           NEW r \in Runs, NEW l \in Lanes, Held(r, l)'
    PROVE  Kept(r, l)'
<1> USE DEF IntakeInv
<1>1. Held(r, l) /\ Kept(r, l)
    BY HeldBack DEF HeldKept
<1>2. /\ UNCHANGED <<request, importer, setup, owed>> /\ r \notin owed'
      /\ \A i \in Importers : Fewer(i)
    BY <1>1, RunSteps, SameFewer DEF Kept
<1>3. CASE row' = row
    BY <1>1, <1>2, <1>3, KeptFrame
<1>4. CASE PreflightRefused(d) /\ row' # row
    <2> DEFINE p == dispatcher[d].of
               mine == dispatcher[d].run
    <2>1. PICK x \in Row : Put(p, x)
        BY <1>4, PreflightRefusedFacts
    <2>2. p \in Projects /\ row[p].run = mine /\ mine \in Runs
        BY <1>4, PreflightRefusedFacts
    <2>3. r.of # p
        <3>1. SUFFICES ASSUME r.of = p PROVE FALSE
            OBVIOUS
        <3>2. r = mine
            BY <1>1, <2>2, <3>1 DEF Kept, Keeps, Mine
        <3>3. live' = live /\ Others(d) /\ dispatcher'[d].run = NoRun
            BY <1>4, PreflightRefusedFacts DEF PreflightRefused
        <3>4. r \notin live[l]
            BY <1>4, <3>2 DEF OnePlace, PreflightRefused
        <3>5. PICK e \in Dispatchers : dispatcher'[e].run = r
            BY <3>3, <3>4 DEF Held
        <3>6. e # d /\ dispatcher[e].run = r
            BY <3>3, <3>5, RunFacts DEF Others
        <3> QED BY <2>2, <3>2, <3>6 DEF OnePlace
    <2> QED BY <1>1, <1>2, <2>1, <2>2, <2>3, KeptPut
<1>5. CASE MarkStarted(d)
    <2> DEFINE p == dispatcher[d].of
               mine == dispatcher[d].run
    <2>1. PICK x \in Row : /\ Put(p, x) /\ x.status = "awaiting_wake"
                           /\ x.run = mine /\ x.lane = row[p].lane
        BY <1>5, MarkStartedFacts
    <2>2. p \in Projects /\ mine \in Runs /\ mine.of = p /\ dispatcher[d].lane \in Lanes
        BY <1>5, MarkStartedFacts
    <2>3. ASSUME r.of = p
          PROVE  Keeps(x, r, l)
        <3>1. Held(mine, dispatcher[d].lane)
            BY DEF Held
        <3>2. r = mine
            BY <1>1, <2>2, <2>3, <3>1, OneHeld
        <3> QED BY <1>1, <2>1, <2>3, <3>2 DEF Kept, Keeps, Mine, Active, ACTIVE_STATUSES
    <2> QED BY <1>1, <1>2, <2>1, <2>2, <2>3, KeptPut
<1> QED BY <1>3, <1>4, <1>5
    DEF Dispatch, Select, ClaimRefused, PreflightOk, Post

LEMMA KeptEnd ==
    ASSUME IntakeInv, NEW m \in Lanes, NEW s \in live[m], EndRun(m, s),
           NEW r \in Runs, NEW l \in Lanes, Held(r, l)'
    PROVE  Kept(r, l)'
<1> USE DEF IntakeInv
<1>1. Held(r, l) /\ Kept(r, l)
    BY HeldBack DEF HeldKept
<1>2. /\ UNCHANGED <<row, request, importer, setup, dispatcher>> /\ owed' = owed \cup {s}
      /\ \A d \in Dispatchers : dispatcher[d].run # s
    BY DEF EndRun
<1>3. r # s
    <2>1. SUFFICES ASSUME r = s PROVE FALSE
        OBVIOUS
    <2>2. r \in live'[l]
        BY <1>2, <2>1 DEF Held
    <2>3. l # m /\ r \in live[l]
        BY <2>1, <2>2, EndRunFacts
    <2>4. Held(r, l) /\ Held(r, m)
        BY <2>1, <2>3 DEF Held
    <2> QED BY <2>3, <2>4 DEF OnePlace
<1>4. r \notin owed' /\ \A i \in Importers : Fewer(i)
    BY <1>1, <1>2, <1>3, SameFewer DEF Kept
<1> QED BY <1>1, <1>2, <1>4, KeptFrame

LEMMA KeptReport ==
    ASSUME IntakeInv, NEW s \in owed, ReportRun(s),
           NEW r \in Runs, NEW l \in Lanes, Held(r, l)'
    PROVE  Kept(r, l)'
<1> USE DEF IntakeInv
<1>1. Held(r, l) /\ Kept(r, l)
    BY HeldBack DEF HeldKept
<1>2. /\ UNCHANGED <<request, importer, setup>> /\ r \notin owed' /\ r # s
      /\ \A i \in Importers : Fewer(i)
    BY <1>1, SameFewer DEF ReportRun, Kept
<1>3. CASE row' = row
    BY <1>1, <1>2, <1>3, KeptFrame
<1>4. CASE row' # row
    <2>1. PICK x \in Row : Put(s.of, x)
        BY <1>4, ReportRunFacts
    <2>2. s.of \in Projects /\ row[s.of].run = s
        BY <1>4, ReportRunFacts
    <2>3. r.of # s.of
        BY <1>1, <1>2, <2>2 DEF Kept, Keeps, Mine
    <2> QED BY <1>1, <1>2, <2>1, <2>2, <2>3, KeptPut
<1> QED BY <1>3, <1>4

-----------------------------------------------------------------------------
(* A run is in one place *)

LEMMA OnePlaceFrame ==
    ASSUME OnePlace,
           \A r \in Runs, l \in Lanes : Held(r, l)' => Held(r, l),
           \A d \in Dispatchers : dispatcher'[d].run \in Runs =>
               dispatcher'[d].run = dispatcher[d].run,
           \A d \in Dispatchers, l \in Lanes : dispatcher'[d].at \in {"claimed", "clear"} =>
               dispatcher'[d].run \notin live'[l]
    PROVE  OnePlace'
BY DEF OnePlace

LEMMA OnePlaceStep ==
    ASSUME IntakeInv, Next
    PROVE  OnePlace'
<1> USE DEF IntakeInv
<1>1. ASSUME NEW i \in Importers, Request(i)
      PROVE  OnePlace'
    <2>1. UNCHANGED <<live, dispatcher>>
        BY <1>1 DEF Request, TakeSnapshot, SubmitIdeas, Begin, WriteRow, Commit, Rollback, ReadRow
    <2> QED BY <2>1 DEF OnePlace, Held
<1>2. ASSUME NEW d \in Dispatchers, Claim(d)
      PROVE  OnePlace'
    <2> DEFINE run == dispatcher'[d].run
    <2>1. run \in Runs /\ run.number = claims + 1 /\ live' = live /\ Others(d)
        BY <1>2, ClaimFacts DEF Claim
    <2>2. /\ \A l \in Lanes : ~Held(run, l)
          /\ \A e \in Dispatchers : dispatcher[e].run # run
        BY <2>1, FreshRun
    <2>3. ASSUME NEW r \in Runs, NEW l \in Lanes, NEW m \in Lanes, Held(r, l)', Held(r, m)'
          PROVE  l = m
        BY <1>2, <2>3, HeldClaim DEF OnePlace
    <2>4. ASSUME NEW e \in Dispatchers, NEW f \in Dispatchers, dispatcher'[e].run \in Runs,
                 dispatcher'[e].run = dispatcher'[f].run
          PROVE  e = f
        BY <2>1, <2>2, <2>4 DEF Others, OnePlace
    <2>5. ASSUME NEW e \in Dispatchers, NEW l \in Lanes, dispatcher'[e].at \in {"claimed", "clear"}
          PROVE  dispatcher'[e].run \notin live'[l]
        <3>1. CASE e = d
            BY <2>1, <2>2, <3>1 DEF Held
        <3>2. CASE e # d
            BY <2>1, <2>5, <3>2 DEF Others, OnePlace
        <3> QED BY <3>1, <3>2
    <2> QED BY <2>3, <2>4, <2>5 DEF OnePlace
<1>3. ASSUME NEW d \in Dispatchers, Dispatch(d), ~Claim(d)
      PROVE  OnePlace'
    <2>1. \A r \in Runs, l \in Lanes : Held(r, l)' => Held(r, l)
        BY <1>3, HeldBack
    <2>2. CASE PreflightOk(d)
        <3>1. /\ Others(d) /\ dispatcher'[d].run = dispatcher[d].run /\ live' = live
              /\ dispatcher[d].at = "claimed"
            BY <2>2, PreflightOkFacts DEF PreflightOk
        <3> QED BY <2>1, <3>1, OnePlaceFrame DEF Others, OnePlace
    <2>3. CASE Post(d)
        <3>1. /\ Others(d) /\ dispatcher'[d].run = dispatcher[d].run
              /\ dispatcher'[d].at = "posted" /\ dispatcher[d].run \in Runs
              /\ \A l \in Lanes : live'[l] =
                    IF l = dispatcher[d].lane THEN live[l] \cup {dispatcher[d].run} ELSE live[l]
            BY <2>3, PostFacts
        <3>2. ASSUME NEW e \in Dispatchers, NEW l \in Lanes, dispatcher'[e].at \in {"claimed", "clear"}
              PROVE  dispatcher'[e].run \notin live'[l]
            <4>1. e # d /\ dispatcher'[e] = dispatcher[e]
                BY <3>1, <3>2 DEF Others
            <4>2. dispatcher[e].run \notin live[l]
                BY <3>2, <4>1 DEF OnePlace
            <4>3. dispatcher[e].run # dispatcher[d].run
                BY <3>1, <4>1 DEF OnePlace
            <4>4. live'[l] \subseteq live[l] \cup {dispatcher[d].run}
                BY <3>1
            <4> QED BY <4>1, <4>2, <4>3, <4>4
        <3>3. \A e \in Dispatchers : dispatcher'[e].run = dispatcher[e].run
            BY <3>1 DEF Others
        <3> QED BY <2>1, <3>2, <3>3, OnePlaceFrame
    <2>4. CASE Select(d) \/ ClaimRefused(d) \/ PreflightRefused(d) \/ MarkStarted(d)
        <3>1. live' = live
            BY <2>4 DEF Select, ClaimRefused, PreflightRefused, MarkStarted
        <3>2. /\ Others(d) /\ dispatcher'[d].run = NoRun
              /\ dispatcher'[d].at \in {"idle", "chosen"}
            BY <2>4, SelectFacts, ClaimRefusedFacts, PreflightRefusedFacts, MarkStartedFacts
        <3>3. NoRun \notin Runs
            BY RunAssumption
        <3>4. ASSUME NEW e \in Dispatchers, NEW l \in Lanes, dispatcher'[e].at \in {"claimed", "clear"}
              PROVE  dispatcher'[e].run \notin live'[l]
            BY <3>1, <3>2, <3>4 DEF Others, OnePlace
        <3>5. \A e \in Dispatchers : dispatcher'[e].run \in Runs =>
                 dispatcher'[e].run = dispatcher[e].run
            BY <3>2, <3>3 DEF Others
        <3> QED BY <2>1, <3>4, <3>5, OnePlaceFrame
    <2> QED BY <1>3, <2>2, <2>3, <2>4 DEF Dispatch
<1>4. ASSUME NEW m \in Lanes, NEW s \in live[m], EndRun(m, s)
      PROVE  OnePlace'
    <2>1. \A r \in Runs, l \in Lanes : Held(r, l)' => Held(r, l)
        BY <1>4, HeldBack
    <2>2. dispatcher' = dispatcher /\ \A l \in Lanes : live'[l] \subseteq live[l]
        BY <1>4, EndRunFacts DEF EndRun
    <2> QED BY <2>1, <2>2, OnePlaceFrame DEF OnePlace
<1>5. ASSUME NEW s \in owed, ReportRun(s)
      PROVE  OnePlace'
    <2>1. UNCHANGED <<live, dispatcher>>
        BY <1>5 DEF ReportRun
    <2> QED BY <2>1 DEF OnePlace, Held
<1> QED BY <1>1, <1>2, <1>3, <1>4, <1>5 DEF Next, Dispatch

LEMMA IntakeInit == Init => IntakeInv
<1> SUFFICES ASSUME Init PROVE IntakeInv
    OBVIOUS
<1>1. /\ \A l \in Lanes : live[l] = {}
      /\ \A d \in Dispatchers : dispatcher[d].run = NoRun /\ dispatcher[d].at = "idle"
    BY RestingFacts DEF Init
<1>2. \A r \in Runs, l \in Lanes : ~Held(r, l)
    BY <1>1, RunAssumption DEF Held
<1>3. HeldKept /\ OnePlace
    BY <1>1, <1>2, RunAssumption DEF HeldKept, OnePlace
<1> QED BY <1>3, TypedInit, NumberedInit DEF IntakeInv

LEMMA IntakeStep ==
    ASSUME IntakeInv, [Next]_vars
    PROVE  IntakeInv'
<1>1. Typed' /\ Numbered'
    BY TypedStep, NumberedStep DEF IntakeInv
<1>2. CASE UNCHANGED vars
    BY <1>1, <1>2 DEF vars, IntakeInv, HeldKept, OnePlace, Held, Kept, Keeps, Newer, Harmless,
                      Shows, Mine, Active, Dated, Hazard
<1>3. CASE Next
    <2>1. ASSUME NEW i \in Importers, Request(i)
          PROVE  HeldKept'
        BY <2>1, HeldBack, KeptTransaction DEF HeldKept, IntakeInv
    <2>2. ASSUME NEW d \in Dispatchers, Claim(d)
          PROVE  HeldKept'
        BY <2>2, KeptClaim DEF IntakeInv
    <2>3. ASSUME NEW d \in Dispatchers, Dispatch(d), ~Claim(d)
          PROVE  HeldKept'
        BY <2>3, KeptDispatch DEF HeldKept
    <2>4. ASSUME NEW m \in Lanes, NEW s \in live[m], EndRun(m, s)
          PROVE  HeldKept'
        BY <2>4, KeptEnd DEF HeldKept
    <2>5. ASSUME NEW s \in owed, ReportRun(s)
          PROVE  HeldKept'
        BY <2>5, KeptReport DEF HeldKept
    <2>6. HeldKept'
        BY <1>3, <2>1, <2>2, <2>3, <2>4, <2>5 DEF Next
    <2> QED BY <1>1, <1>3, <2>6, OnePlaceStep DEF IntakeInv
<1> QED BY <1>2, <1>3

\* Whatever snapshots and ideas are taken in, when and how often, the row of a
\* live run stays active, with the run and, if snapshots are dated, on the lane
\* of its worker.
THEOREM LiveRunsKeepTheirRows == Spec => []LiveRunKept
<1>1. IntakeInv => LiveRunKept
    <2> SUFFICES ASSUME IntakeInv, NEW l \in Lanes, NEW r \in live[l]
                 PROVE  Keeps(row[r.of], r, l)
        BY DEF LiveRunKept, Keeps, Mine, Dated
    <2> QED BY DEF IntakeInv, Typed, Held, HeldKept, Kept
<1>2. IntakeInv /\ [Next]_vars => IntakeInv'
    BY IntakeStep
<1> QED BY <1>1, <1>2, IntakeInit, PTL DEF Spec

-----------------------------------------------------------------------------
(* The unique index *)

LEMMA IndexedInit == Init => Indexed
<1> SUFFICES ASSUME Init PROVE Indexed
    OBVIOUS
<1>1. row = setup.first /\ setup \in Setups
    BY DEF Init
<1>2. \A i \in Importers : DOMAIN importer[i].writes = {}
    BY WaitingFacts, EmptyTable DEF Init, Transactions
<1>3. ASSUME NEW p \in Projects, NEW q \in Projects, p # q
      PROVE  ~Clash(row[p], row[q])
    BY <1>1, <1>3, FirstRowsAssumption DEF Clash
<1> QED BY <1>2, <1>3 DEF Indexed

\* Rows and writes that were there before.
LEMMA IndexedFewer ==
    ASSUME Typed, Indexed, \A i \in Importers : Fewer(i), row' = row
    PROVE  Indexed'
<1>1. ASSUME NEW p \in Projects, NEW q \in Projects, p # q
      PROVE  /\ ~Clash(row'[p], row'[q])
             /\ \A i \in Importers : p \in DOMAIN importer'[i].writes =>
                   /\ ~Clash(importer'[i].writes[p], row'[q])
                   /\ \A j \in Importers : q \in DOMAIN importer'[j].writes =>
                         ~Clash(importer'[i].writes[p], importer'[j].writes[q])
    BY <1>1 DEF Indexed, Fewer
<1> QED BY <1>1 DEF Indexed, Clash

LEMMA IndexedCommit ==
    ASSUME Typed, Indexed, NEW i \in Importers, Commit(i)
    PROVE  Indexed'
<1>1. ASSUME NEW p \in Projects, NEW q \in Projects, p # q
      PROVE  /\ ~Clash(row'[p], row'[q])
             /\ \A j \in Importers : p \in DOMAIN importer'[j].writes =>
                   /\ ~Clash(importer'[j].writes[p], row'[q])
                   /\ \A k \in Importers : q \in DOMAIN importer'[k].writes =>
                         ~Clash(importer'[j].writes[p], importer'[k].writes[q])
    <2>1. row'[p] = Sees(i, p) /\ row'[q] = Sees(i, q) /\ \A j \in Importers : Fewer(j)
        BY CommitFacts
    <2>2. ~Clash(Sees(i, p), Sees(i, q))
        <3>1. /\ ~Clash(row[p], row[q])
              /\ p \in DOMAIN importer[i].writes => ~Clash(importer[i].writes[p], row[q])
              /\ q \in DOMAIN importer[i].writes => ~Clash(importer[i].writes[q], row[p])
              /\ p \in DOMAIN importer[i].writes /\ q \in DOMAIN importer[i].writes =>
                    ~Clash(importer[i].writes[p], importer[i].writes[q])
            BY <1>1 DEF Indexed
        <3> QED BY <3>1 DEF Sees, Clash
    <2>3. ASSUME NEW j \in Importers, p \in DOMAIN importer'[j].writes
          PROVE  /\ ~Clash(importer'[j].writes[p], row'[q])
                 /\ \A k \in Importers : q \in DOMAIN importer'[k].writes =>
                       ~Clash(importer'[j].writes[p], importer'[k].writes[q])
        <3>1. p \in DOMAIN importer[j].writes /\ importer'[j].writes[p] = importer[j].writes[p]
            BY <2>1, <2>3 DEF Fewer
        <3>2. ~Clash(importer[j].writes[p], Sees(i, q))
            BY <1>1, <3>1 DEF Indexed, Sees
        <3>3. \A k \in Importers : q \in DOMAIN importer'[k].writes =>
                 ~Clash(importer[j].writes[p], importer'[k].writes[q])
            BY <1>1, <2>1, <3>1 DEF Indexed, Fewer
        <3> QED BY <2>1, <3>1, <3>2, <3>3
    <2> QED BY <2>1, <2>2, <2>3
<1> QED BY <1>1 DEF Indexed, Clash

\* A statement that makes a row dispatching is refused what the index forbids.
LEMMA IndexedPut ==
    ASSUME Typed, Indexed, importer' = importer, NEW p \in Projects, NEW x \in Row, Put(p, x),
           x.status = "dispatching" => ~MayDuplicate(p, x) /\ ~Duplicate(p, x)
    PROVE  Indexed'
<1>1. /\ row'[p].status = x.status /\ row'[p].lane = x.lane
      /\ \A q \in Projects : q # p => row'[q] = row[q]
    BY PutFacts
<1>2. DOMAIN row = Projects
    BY DEF Typed
<1>3. ASSUME NEW q \in Projects, q # p
      PROVE  /\ ~Clash(row'[p], row[q])
             /\ \A i \in Importers : q \in DOMAIN importer[i].writes =>
                   ~Clash(row'[p], importer[i].writes[q])
    BY <1>1, <1>2, <1>3 DEF Clash, Duplicate, MayDuplicate, Dispatching
<1>4. ASSUME NEW q \in Projects, NEW s \in Projects, q # s
      PROVE  /\ ~Clash(row'[q], row'[s])
             /\ \A i \in Importers : q \in DOMAIN importer[i].writes =>
                   /\ ~Clash(importer[i].writes[q], row'[s])
                   /\ \A j \in Importers : s \in DOMAIN importer[j].writes =>
                         ~Clash(importer[i].writes[q], importer[j].writes[s])
    <2>1. CASE q = p
        BY <1>1, <1>3, <1>4, <2>1 DEF Indexed
    <2>2. CASE s = p
        BY <1>1, <1>3, <1>4, <2>2 DEF Indexed, Clash
    <2>3. CASE q # p /\ s # p
        BY <1>1, <1>4, <2>3 DEF Indexed
    <2> QED BY <2>1, <2>2, <2>3
<1> QED BY <1>4 DEF Indexed, Clash

LEMMA IndexedWrite ==
    ASSUME Typed, Indexed, NEW i \in Importers, WriteRow(i)
    PROVE  Indexed'
<1>1. row' = row
    BY DEF WriteRow
<1>2. CASE \A j \in Importers : Fewer(j)
    BY <1>1, <1>2, IndexedFewer
<1>3. CASE ~\A j \in Importers : Fewer(j)
    <2> DEFINE p == importer[i].of
               w == Written(i)
    <2>1. /\ p \in Projects /\ ~MayDuplicate(p, w) /\ ~Duplicate(p, w)
          /\ \A j \in Importers \ {i} : importer'[j] = importer[j]
          /\ DOMAIN importer'[i].writes = DOMAIN importer[i].writes \cup {p}
          /\ importer'[i].writes[p] = w
          /\ \A q \in DOMAIN importer[i].writes :
                q # p => importer'[i].writes[q] = importer[i].writes[q]
        BY <1>3, WriteRowFacts
    <2> HIDE DEF p, w
    <2>2. ASSUME NEW j \in Importers, NEW q \in DOMAIN importer'[j].writes
          PROVE  \/ j = i /\ q = p /\ importer'[j].writes[q] = w
                 \/ /\ q \in DOMAIN importer[j].writes
                    /\ importer'[j].writes[q] = importer[j].writes[q]
        BY <2>1, <2>2
    <2>3. ASSUME NEW q \in Projects, q # p
          PROVE  /\ ~Clash(w, row[q])
                 /\ \A j \in Importers : q \in DOMAIN importer[j].writes =>
                       ~Clash(w, importer[j].writes[q])
        BY <2>1, <2>3 DEF Clash, Duplicate, MayDuplicate, Dispatching, Typed
    <2>4. ASSUME NEW q \in Projects, NEW s \in Projects, q # s,
                 NEW j \in Importers, q \in DOMAIN importer'[j].writes
          PROVE  /\ ~Clash(importer'[j].writes[q], row[s])
                 /\ \A k \in Importers : s \in DOMAIN importer'[k].writes =>
                       ~Clash(importer'[j].writes[q], importer'[k].writes[s])
        <3>1. CASE j = i /\ q = p /\ importer'[j].writes[q] = w
            <4>1. ~Clash(w, row[s])
                BY <2>3, <2>4, <3>1
            <4>2. ASSUME NEW k \in Importers, s \in DOMAIN importer'[k].writes
                  PROVE  ~Clash(w, importer'[k].writes[s])
                <5>1. /\ s \in DOMAIN importer[k].writes
                      /\ importer'[k].writes[s] = importer[k].writes[s]
                    BY <2>2, <2>4, <3>1, <4>2
                <5> QED BY <2>3, <2>4, <3>1, <5>1
            <4> QED BY <3>1, <4>1, <4>2
        <3>2. CASE /\ q \in DOMAIN importer[j].writes
                   /\ importer'[j].writes[q] = importer[j].writes[q]
            <4>1. ~Clash(importer[j].writes[q], row[s])
                BY <2>4, <3>2 DEF Indexed
            <4>2. ASSUME NEW k \in Importers, s \in DOMAIN importer'[k].writes
                  PROVE  ~Clash(importer[j].writes[q], importer'[k].writes[s])
                <5>1. CASE s = p /\ importer'[k].writes[s] = w
                    BY <2>3, <2>4, <3>2, <5>1 DEF Clash
                <5>2. CASE /\ s \in DOMAIN importer[k].writes
                           /\ importer'[k].writes[s] = importer[k].writes[s]
                    BY <2>4, <3>2, <5>2 DEF Indexed
                <5> QED BY <2>2, <4>2, <5>1, <5>2
            <4> QED BY <3>2, <4>1, <4>2
        <3> QED BY <2>2, <2>4, <3>1, <3>2
    <2>5. \A q, s \in Projects : q # s => ~Clash(row[q], row[s])
        BY DEF Indexed
    <2> QED BY <1>1, <2>4, <2>5 DEF Indexed, Clash
<1> QED BY <1>2, <1>3

LEMMA IndexedStep ==
    ASSUME Typed, Indexed, [Next]_vars
    PROVE  Indexed'
<1>1. CASE UNCHANGED vars
    BY <1>1, SameFewer, IndexedFewer DEF vars
<1>2. ASSUME NEW i \in Importers, Request(i)
      PROVE  Indexed'
    <2>1. CASE TakeSnapshot(i) \/ SubmitIdeas(i)
        <3>1. row' = row
            BY <2>1 DEF TakeSnapshot, SubmitIdeas
        <3> QED BY <2>1, <3>1, AskFacts, IndexedFewer
    <2>2. CASE Begin(i) \/ Rollback(i)
        <3>1. row' = row
            BY <2>2 DEF Begin, Rollback
        <3> QED BY <2>2, <3>1, BeginFacts, RollbackFacts, IndexedFewer
    <2>3. CASE WriteRow(i)
        BY <2>3, IndexedWrite
    <2>4. CASE Commit(i)
        BY <2>4, IndexedCommit
    <2>5. ASSUME NEW p \in Projects, ReadRow(i, p)
          PROVE  Indexed'
        <3>1. row' = row /\ \A j \in Importers : importer'[j].writes = importer[j].writes
            BY <2>5, ReadRowFacts DEF ReadRow
        <3> QED BY <3>1 DEF Indexed, Clash
    <2> QED BY <1>2, <2>1, <2>2, <2>3, <2>4, <2>5 DEF Request
<1>3. ASSUME NEW d \in Dispatchers, Dispatch(d)
      PROVE  Indexed'
    <2>1. importer' = importer
        BY <1>3, RunSteps
    <2>2. CASE row' = row
        BY <2>1, <2>2, SameFewer, IndexedFewer
    <2>3. CASE row' # row
        <3>1. Claim(d) \/ PreflightRefused(d) \/ MarkStarted(d)
            BY <1>3, <2>3 DEF Dispatch, Select, ClaimRefused, PreflightOk, Post
        <3>2. dispatcher[d].of \in Projects
            BY <3>1, ClaimFacts, PreflightRefusedFacts, MarkStartedFacts
        <3>3. PICK x \in Row : /\ Put(dispatcher[d].of, x)
                               /\ x.status = "dispatching" =>
                                     /\ ~MayDuplicate(dispatcher[d].of, x)
                                     /\ ~Duplicate(dispatcher[d].of, x)
            <4>1. CASE Claim(d)
                BY <4>1, ClaimFacts
            <4>2. CASE PreflightRefused(d)
                BY <2>3, <4>2, PreflightRefusedFacts
            <4>3. CASE MarkStarted(d)
                BY <4>3, MarkStartedFacts
            <4> QED BY <3>1, <4>1, <4>2, <4>3
        <3> QED BY <2>1, <3>2, <3>3, IndexedPut
    <2> QED BY <2>2, <2>3
<1>4. ASSUME NEW m \in Lanes, NEW s \in live[m], EndRun(m, s)
      PROVE  Indexed'
    BY <1>4, SameFewer, IndexedFewer DEF EndRun
<1>5. ASSUME NEW s \in owed, ReportRun(s)
      PROVE  Indexed'
    <2>1. importer' = importer
        BY <1>5 DEF ReportRun
    <2>2. CASE row' = row
        BY <2>1, <2>2, SameFewer, IndexedFewer
    <2>3. CASE row' # row
        BY <1>5, <2>1, <2>3, ReportRunFacts, IndexedPut
    <2> QED BY <2>2, <2>3
<1> QED BY <1>1, <1>2, <1>3, <1>4, <1>5 DEF Next

-----------------------------------------------------------------------------
(* The row of a run whose start is not recorded *)

LEMMA PendingFewer ==
    ASSUME Typed, \A i \in Importers : Fewer(i), request' = request,
           NEW r \in Runs, PendingAt(r), Started(row'[r.of], r)
    PROVE  PendingAt(r)'
BY DEF PendingAt, Fewer, Started, Mine, Active

LEMMA PendingTransaction ==
    ASSUME Typed, NEW i \in Importers, Request(i), NEW r \in Runs, PendingAt(r)
    PROVE  PendingAt(r)'
<1>1. r.of \in Projects /\ r # NoRun
    BY RunFacts
<1>2. CASE TakeSnapshot(i) \/ SubmitIdeas(i)
    <2>1. row' = row /\ (\A j \in Importers : Fewer(j))
          /\ \A j \in Importers \ {i} : request'[j] = request[j]
        BY <1>2, AskFacts DEF TakeSnapshot, SubmitIdeas
    <2>2. ASSUME NEW j \in Importers, r.of \in DOMAIN request'[j].rows
          PROVE  Started(request'[j].rows[r.of], r)
        <3>1. CASE j = i
            BY <1>1, <1>2, <2>2, <3>1, AskFacts DEF PendingAt, Started, Mine
        <3>2. CASE j # i
            BY <2>1, <2>2, <3>2 DEF PendingAt
        <3> QED BY <3>1, <3>2
    <2>3. ASSUME NEW j \in Importers
          PROVE  /\ r.of \in DOMAIN importer'[j].writes => Started(importer'[j].writes[r.of], r)
                 /\ importer'[j].at = "read" /\ importer'[j].of = r.of
                       => Started(importer'[j].seen, r)
        BY <2>1 DEF Fewer, PendingAt
    <2> QED BY <2>1, <2>2, <2>3 DEF PendingAt, Started, Mine, Active
<1>3. CASE Begin(i) \/ Rollback(i)
    <2>1. UNCHANGED <<row, request>> /\ \A j \in Importers : Fewer(j)
        BY <1>3, BeginFacts, RollbackFacts DEF Begin, Rollback
    <2> QED BY <2>1, PendingFewer DEF PendingAt
<1>4. CASE WriteRow(i)
    <2>1. UNCHANGED <<row, request>> /\ importer[i].at = "read"
        BY <1>4 DEF WriteRow
    <2>2. CASE \A j \in Importers : Fewer(j)
        BY <2>1, <2>2, PendingFewer DEF PendingAt
    <2>3. CASE ~\A j \in Importers : Fewer(j)
        <3>1. /\ \A j \in Importers \ {i} : importer'[j] = importer[j]
              /\ importer'[i].at = "next"
              /\ DOMAIN importer'[i].writes = DOMAIN importer[i].writes \cup {importer[i].of}
              /\ importer'[i].writes[importer[i].of] = Written(i)
              /\ \A q \in DOMAIN importer[i].writes :
                    q # importer[i].of => importer'[i].writes[q] = importer[i].writes[q]
            BY <1>4, <2>3, WriteRowFacts
        <3>2. importer[i].of = r.of => Started(Written(i), r)
            <4>1. SUFFICES ASSUME importer[i].of = r.of PROVE Started(Written(i), r)
                OBVIOUS
            <4>2. /\ Started(Sees(i, r.of), r) /\ Started(importer[i].seen, r)
                  /\ Started(request[i].rows[r.of], r)
                BY <2>1, <4>1, ReadFacts DEF PendingAt, Sees
            <4>3. Started(ImportedRow(i), r)
                BY <2>1, <4>1, <4>2, ImportedFacts DEF Started, Mine, Active
            <4> QED BY <2>1, <4>1, <4>2, <4>3, WrittenFacts DEF Started, Mine, Active
        <3>3. ASSUME NEW j \in Importers
              PROVE  /\ r.of \in DOMAIN importer'[j].writes => Started(importer'[j].writes[r.of], r)
                     /\ importer'[j].at = "read" /\ importer'[j].of = r.of
                           => Started(importer'[j].seen, r)
            BY <3>1, <3>2 DEF PendingAt
        <3> QED BY <2>1, <3>3 DEF PendingAt, Started, Mine, Active
    <2> QED BY <2>2, <2>3
<1>5. CASE Commit(i)
    <2>1. /\ \A j \in Importers : Fewer(j)
          /\ row'[r.of] = Sees(i, r.of)
        BY <1>1, <1>5, CommitFacts
    <2>2. request' = request /\ Started(row'[r.of], r)
        BY <1>5, <2>1 DEF Commit, PendingAt, Sees
    <2> QED BY <2>1, <2>2, PendingFewer
<1>6. ASSUME NEW p \in Projects, ReadRow(i, p)
      PROVE  PendingAt(r)'
    <2>1. UNCHANGED <<row, request>>
        BY <1>6 DEF ReadRow
    <2>2. CASE \A j \in Importers : Fewer(j)
        BY <2>1, <2>2, PendingFewer DEF PendingAt
    <2>3. CASE ~\A j \in Importers : Fewer(j)
        <3>1. /\ \A j \in Importers \ {i} : importer'[j] = importer[j]
              /\ importer'[i].writes = importer[i].writes
              /\ importer'[i].of = p /\ importer'[i].seen = Sees(i, p)
            BY <1>6, <2>3, ReadRowFacts
        <3>2. ASSUME NEW j \in Importers
              PROVE  /\ r.of \in DOMAIN importer'[j].writes => Started(importer'[j].writes[r.of], r)
                     /\ importer'[j].at = "read" /\ importer'[j].of = r.of
                           => Started(importer'[j].seen, r)
            BY <3>1 DEF PendingAt, Sees
        <3> QED BY <2>1, <3>2 DEF PendingAt, Started, Mine, Active
    <2> QED BY <2>2, <2>3
<1> QED BY <1>2, <1>3, <1>4, <1>5, <1>6 DEF Request

LEMMA PendingClaim ==
    ASSUME IntakeInv, Pending, NEW d \in Dispatchers, Claim(d)
    PROVE  Pending'
<1> USE DEF IntakeInv
<1>1. /\ dispatcher[d].of \in Projects /\ row[dispatcher[d].of].status = "queued"
      /\ dispatcher'[d].run \in Runs /\ dispatcher'[d].run.of = dispatcher[d].of
      /\ dispatcher'[d].run.number = claims + 1
      /\ Others(d)
    BY ClaimFacts
<1>2. PICK x \in Row : Put(dispatcher[d].of, x) /\ x.status = "dispatching"
    BY ClaimFacts
<1>3. UNCHANGED <<importer, request>> /\ \A i \in Importers : Fewer(i)
    BY SameFewer DEF Claim
<1>4. ASSUME NEW e \in Dispatchers, dispatcher'[e].run \in Runs, NEW r \in Runs,
             r = dispatcher'[e].run
      PROVE  PendingAt(r)'
    <2>1. CASE e = d
        <3>1. ~Claimed(r) /\ r.of = dispatcher[d].of
            BY <1>1, <1>4, <2>1, FreshRun
        <3>2. row'[r.of].status = "dispatching"
            BY <1>1, <1>2, <3>1, PutFacts
        <3>3. ASSUME NEW i \in Importers
              PROVE  /\ r.of \notin DOMAIN importer'[i].writes
                     /\ r.of \in DOMAIN request'[i].rows => request'[i].rows[r.of].run # r
                     /\ importer'[i].at = "read" => importer'[i].seen.run # r
            BY <1>1, <1>2, <1>3, <3>1, PutFacts DEF Numbered
        <3> QED BY <3>2, <3>3 DEF PendingAt, Started, Mine
    <2>2. CASE e # d
        <3>1. dispatcher[e].run = r
            BY <1>1, <1>4, <2>2 DEF Others
        <3>2. PendingAt(r)
            BY <3>1 DEF Pending, PendingAt
        <3>3. Keeps(row[r.of], r, dispatcher[e].lane)
            BY <3>1, DispatchedHeld DEF HeldKept, Kept
        <3>4. r.of # dispatcher[d].of /\ r.of \in Projects
            BY <1>1, <3>3, RunFacts DEF Keeps, Mine, Active, ACTIVE_STATUSES
        <3>5. row'[r.of] = row[r.of]
            BY <1>1, <1>2, <3>4, PutFacts
        <3> QED BY <1>3, <3>2, <3>5, PendingFewer DEF PendingAt
    <2> QED BY <2>1, <2>2
<1> QED BY <1>4 DEF Pending, PendingAt

LEMMA PendingDispatch ==
    ASSUME IntakeInv, Pending, NEW d \in Dispatchers, Dispatch(d), ~Claim(d)
    PROVE  Pending'
<1> USE DEF IntakeInv
<1>1. UNCHANGED <<importer, request>> /\ \A i \in Importers : Fewer(i)
    BY RunSteps, SameFewer
<1>2. Others(d) /\ dispatcher'[d].run \in {NoRun, dispatcher[d].run}
    BY SelectFacts, ClaimRefusedFacts, PreflightOkFacts, PreflightRefusedFacts, PostFacts,
       MarkStartedFacts DEF Dispatch
<1>3. ASSUME NEW e \in Dispatchers, NEW r \in Runs, r = dispatcher'[e].run
      PROVE  PendingAt(r)'
    <2>1. dispatcher[e].run = r /\ r # NoRun /\ r.of \in Projects
        BY <1>2, <1>3, RunFacts DEF Others
    <2>2. PendingAt(r)
        BY <2>1 DEF Pending, PendingAt
    <2>3. Started(row'[r.of], r)
        <3>1. CASE row' = row
            BY <2>2, <3>1 DEF PendingAt
        <3>2. CASE PreflightRefused(d) /\ row' # row
            <4>1. PICK x \in Row : Put(dispatcher[d].of, x) /\ x.run = NoRun
                BY <3>2, PreflightRefusedFacts
            <4>2. dispatcher[d].of \in Projects
                BY <3>2, PreflightRefusedFacts
            <4>3. CASE r.of = dispatcher[d].of
                BY <2>1, <4>1, <4>3, PutFacts DEF Started, Mine
            <4>4. CASE r.of # dispatcher[d].of
                BY <2>1, <2>2, <4>1, <4>2, <4>4, PutFacts DEF PendingAt
            <4> QED BY <4>3, <4>4
        <3>3. CASE MarkStarted(d)
            <4>1. PICK x \in Row : Put(dispatcher[d].of, x)
                BY <3>3, MarkStartedFacts
            <4>2. /\ dispatcher[d].of \in Projects /\ dispatcher[d].run \in Runs
                  /\ dispatcher[d].run.of = dispatcher[d].of /\ dispatcher'[d].run = NoRun
                BY <3>3, MarkStartedFacts
            <4>3. r # dispatcher[d].run
                BY <1>3, <2>1, <4>2 DEF OnePlace
            <4>4. r.of # dispatcher[d].of
                BY <2>1, <4>2, <4>3, DispatchedHeld, OneHeld
            <4> QED BY <2>1, <2>2, <4>1, <4>2, <4>4, PutFacts DEF PendingAt
        <3> QED BY <3>1, <3>2, <3>3 DEF Dispatch, Select, ClaimRefused, PreflightOk, Post
    <2> QED BY <1>1, <2>2, <2>3, PendingFewer
<1> QED BY <1>3 DEF Pending, PendingAt

LEMMA PendingStep ==
    ASSUME IntakeInv, Pending, [Next]_vars
    PROVE  Pending'
<1> USE DEF IntakeInv
<1>1. CASE UNCHANGED vars
    BY <1>1 DEF vars, Pending, PendingAt, Started, Mine, Active
<1>2. ASSUME NEW i \in Importers, Request(i)
      PROVE  Pending'
    <2>1. dispatcher' = dispatcher
        BY <1>2 DEF Request, TakeSnapshot, SubmitIdeas, Begin, WriteRow, Commit, Rollback, ReadRow
    <2>2. ASSUME NEW d \in Dispatchers, NEW r \in Runs, r = dispatcher'[d].run
          PROVE  PendingAt(r)'
        <3>1. PendingAt(r)
            BY <2>1, <2>2 DEF Pending, PendingAt
        <3> QED BY <1>2, <3>1, PendingTransaction
    <2> QED BY <2>2 DEF Pending, PendingAt
<1>3. ASSUME NEW d \in Dispatchers, Dispatch(d)
      PROVE  Pending'
    BY <1>3, PendingClaim, PendingDispatch
<1>4. ASSUME NEW m \in Lanes, NEW s \in live[m], EndRun(m, s)
      PROVE  Pending'
    BY <1>4 DEF EndRun, Pending, PendingAt, Started, Mine, Active
<1>5. ASSUME NEW s \in owed, ReportRun(s)
      PROVE  Pending'
    <2>1. UNCHANGED <<importer, request, dispatcher>> /\ \A i \in Importers : Fewer(i)
        BY <1>5, SameFewer DEF ReportRun
    <2>2. ASSUME NEW d \in Dispatchers, NEW r \in Runs, r = dispatcher'[d].run
          PROVE  PendingAt(r)'
        <3>1. PendingAt(r) /\ r.of \in Projects
            BY <2>1, <2>2, RunFacts DEF Pending, PendingAt
        <3>2. Started(row'[r.of], r)
            <4>1. CASE row' = row
                BY <3>1, <4>1 DEF PendingAt
            <4>2. CASE row' # row
                <5>1. PICK x \in Row : Put(s.of, x) /\ x.status = "completed"
                    BY <1>5, <4>2, ReportRunFacts
                <5>2. s.of \in Projects
                    BY <1>5, ReportRunFacts
                <5>3. CASE r.of = s.of
                    BY <5>1, <5>2, <5>3, PutFacts DEF Started, Mine, Active, ACTIVE_STATUSES
                <5>4. CASE r.of # s.of
                    BY <3>1, <5>1, <5>2, <5>4, PutFacts DEF PendingAt
                <5> QED BY <5>3, <5>4
            <4> QED BY <4>1, <4>2
        <3> QED BY <2>1, <3>1, <3>2, PendingFewer
    <2> QED BY <2>2 DEF Pending, PendingAt
<1> QED BY <1>1, <1>2, <1>3, <1>4, <1>5 DEF Next

-----------------------------------------------------------------------------
(* One run on a worker *)

\* Two dispatchers with runs on one lane would have two dispatching rows on it.
LEMMA OneDispatcher ==
    ASSUME IntakeInv, Indexed, Pending, Dated,
           NEW d \in Dispatchers, NEW e \in Dispatchers,
           dispatcher[d].run \in Runs, dispatcher[e].run \in Runs,
           dispatcher[d].lane = dispatcher[e].lane
    PROVE  d = e
<1> USE DEF IntakeInv
<1> DEFINE r == dispatcher[d].run
           s == dispatcher[e].run
           l == dispatcher[d].lane
<1>1. l \in Lanes /\ Held(r, l) /\ Held(s, l) /\ r.of \in Projects /\ s.of \in Projects
    BY DispatchedHeld, RunFacts
<1>2. Keeps(row[r.of], r, l) /\ Keeps(row[s.of], s, l)
    BY <1>1 DEF HeldKept, Kept
<1>3. row[r.of].status = "dispatching" /\ row[s.of].status = "dispatching"
    BY <1>2 DEF Pending, PendingAt, Started, Keeps
<1>4. r.of = s.of
    BY <1>1, <1>2, <1>3 DEF Indexed, Clash, Keeps
<1>5. r = s
    BY <1>1, <1>4, OneHeld
<1> QED BY <1>5 DEF OnePlace

ExclusiveInv == IntakeInv /\ Indexed /\ Pending /\ Exclusive

LEMMA ExclusiveStep ==
    ASSUME ExclusiveInv, [Next]_vars
    PROVE  Exclusive'
<1> USE DEF ExclusiveInv, IntakeInv
<1>1. setup' = setup
    BY DEF Next, vars, Request, TakeSnapshot, SubmitIdeas, Begin, WriteRow, Commit, Rollback,
           ReadRow, Dispatch, Select, Claim, ClaimRefused, PreflightOk, PreflightRefused, Post,
           MarkStarted, EndRun, ReportRun
<1> SUFFICES ASSUME Dated
             PROVE  /\ \A l \in Lanes : \A r, s \in live'[l] : r = s
                    /\ \A d \in Dispatchers :
                          dispatcher'[d].at = "clear" => live'[dispatcher'[d].lane] = {}
    BY <1>1 DEF Exclusive, Dated, Hazard
<1>2. CASE UNCHANGED vars
    BY <1>2 DEF vars, Exclusive
<1>3. ASSUME NEW i \in Importers, Request(i)
      PROVE  UNCHANGED <<live, dispatcher>>
    BY <1>3 DEF Request, TakeSnapshot, SubmitIdeas, Begin, WriteRow, Commit, Rollback, ReadRow
<1>4. ASSUME NEW d \in Dispatchers, Dispatch(d)
      PROVE  /\ \A l \in Lanes : \A r, s \in live'[l] : r = s
             /\ \A e \in Dispatchers :
                   dispatcher'[e].at = "clear" => live'[dispatcher'[e].lane] = {}
    <2>1. CASE Post(d)
        <3>1. /\ Others(d) /\ dispatcher'[d].at = "posted"
              /\ dispatcher[d].lane \in Lanes /\ dispatcher[d].run \in Runs
              /\ \A l \in Lanes : live'[l] =
                    IF l = dispatcher[d].lane THEN live[l] \cup {dispatcher[d].run} ELSE live[l]
            BY <2>1, PostFacts
        <3>2. live[dispatcher[d].lane] = {}
            BY <2>1 DEF Exclusive, Post
        <3>3. ASSUME NEW l \in Lanes, NEW r \in live'[l], NEW s \in live'[l]
              PROVE  r = s
            <4>1. CASE l = dispatcher[d].lane
                <5>1. live'[l] = {dispatcher[d].run}
                    BY <3>1, <3>2, <4>1
                <5> QED BY <3>3, <5>1
            <4>2. CASE l # dispatcher[d].lane
                <5>1. live'[l] = live[l]
                    BY <3>1, <4>2
                <5> QED BY <3>3, <5>1 DEF Exclusive
            <4> QED BY <4>1, <4>2
        <3>4. ASSUME NEW e \in Dispatchers, dispatcher'[e].at = "clear"
              PROVE  live'[dispatcher'[e].lane] = {}
            <4>1. e # d /\ dispatcher'[e] = dispatcher[e]
                BY <3>1, <3>4 DEF Others
            <4>2. dispatcher[e].run \in Runs /\ dispatcher[e].lane \in Lanes
                BY <3>4, <4>1 DEF Typed, Copied
            <4>3. dispatcher[e].lane # dispatcher[d].lane
                BY <3>1, <4>1, <4>2, OneDispatcher
            <4> QED BY <3>1, <3>4, <4>1, <4>2, <4>3 DEF Exclusive
        <3> QED BY <3>3, <3>4
    <2>2. CASE PreflightOk(d)
        <3>1. /\ live' = live /\ live[dispatcher[d].lane] = {} /\ Others(d)
              /\ dispatcher'[d].lane = dispatcher[d].lane
            BY <2>2, PreflightOkFacts DEF PreflightOk
        <3> QED BY <3>1 DEF Exclusive, Others
    <2>3. CASE Select(d) \/ Claim(d) \/ ClaimRefused(d) \/ PreflightRefused(d) \/ MarkStarted(d)
        <3>1. live' = live
            BY <2>3 DEF Select, Claim, ClaimRefused, PreflightRefused, MarkStarted
        <3>2. Others(d) /\ dispatcher'[d].at # "clear"
            BY <2>3, SelectFacts, ClaimFacts, ClaimRefusedFacts, PreflightRefusedFacts,
               MarkStartedFacts
        <3> QED BY <3>1, <3>2 DEF Exclusive, Others
    <2> QED BY <1>4, <2>1, <2>2, <2>3 DEF Dispatch
<1>5. ASSUME NEW m \in Lanes, NEW s \in live[m], EndRun(m, s)
      PROVE  /\ \A l \in Lanes : \A r, t \in live'[l] : r = t
             /\ \A d \in Dispatchers :
                   dispatcher'[d].at = "clear" => live'[dispatcher'[d].lane] = {}
    <2>1. dispatcher' = dispatcher /\ \A l \in Lanes : live'[l] \subseteq live[l]
        BY <1>5, EndRunFacts DEF EndRun
    <2>2. \A d \in Dispatchers : dispatcher[d].at = "clear" => dispatcher[d].lane \in Lanes
        BY DEF Typed, Copied
    <2> QED BY <2>1, <2>2 DEF Exclusive
<1>6. ASSUME NEW s \in owed, ReportRun(s)
      PROVE  UNCHANGED <<live, dispatcher>>
    BY <1>6 DEF ReportRun
<1>7. UNCHANGED <<live, dispatcher>> =>
         /\ \A l \in Lanes : \A r, s \in live'[l] : r = s
         /\ \A d \in Dispatchers :
               dispatcher'[d].at = "clear" => live'[dispatcher'[d].lane] = {}
    BY DEF Exclusive
<1> QED BY <1>2, <1>3, <1>4, <1>5, <1>6, <1>7 DEF Next

\* However intake moves projects between lanes while dispatchers select and
\* claim them, a worker has one live run at most, if snapshots are dated.
THEOREM OneRunPerWorker == Spec => []WorkerExclusive
<1>1. ExclusiveInv => WorkerExclusive
    <2> SUFFICES ASSUME ExclusiveInv, Dated, NEW l \in Lanes
                 PROVE  Cardinality(live[l]) <= 1
        BY DEF WorkerExclusive, Dated
    <2>1. CASE live[l] = {}
        BY <2>1, FS_EmptySet
    <2>2. CASE live[l] # {}
        <3>1. PICK r \in live[l] : TRUE
            BY <2>2
        <3>2. live[l] = {r}
            BY <3>1 DEF ExclusiveInv, Exclusive
        <3>3. Cardinality({r}) = 1
            BY FS_Singleton
        <3> QED BY <3>2, <3>3
    <2> QED BY <2>1, <2>2
<1>2. Init => ExclusiveInv
    <2> SUFFICES ASSUME Init PROVE ExclusiveInv
        OBVIOUS
    <2>1. IntakeInv /\ Indexed
        BY IntakeInit, IndexedInit
    <2>2. /\ \A l \in Lanes : live[l] = {}
          /\ \A d \in Dispatchers : dispatcher[d].run \notin Runs /\ dispatcher[d].at # "clear"
        BY RestingFacts, RunAssumption DEF Init
    <2> QED BY <2>1, <2>2 DEF ExclusiveInv, Pending, Exclusive
<1>3. ExclusiveInv /\ [Next]_vars => ExclusiveInv'
    BY IntakeStep, IndexedStep, PendingStep, ExclusiveStep DEF ExclusiveInv, IntakeInv
<1> QED BY <1>1, <1>2, <1>3, PTL DEF Spec
=============================================================================
