-------------------------- MODULE HistoryStoreProofs --------------------------
(***************************************************************************)
(* Proofs about HistoryStore, for every set of rows and old schemas, every *)
(* retention period and any number of failing statements and crashes:      *)
(* whoever is served finds the schema the queries name, no migration loses *)
(* or changes a row, and nothing older than the retention period and the   *)
(* day between two prunings is shown while pruning works.  No execution    *)
(* has two rows, and the bounds of the model are those it states.          *)
(***************************************************************************)
EXTENDS HistoryStore, FiniteSetTheorems, TLAPS

AllRows == [id : Executions, at : Int, ip : IPs \cup {NULL}]

Typed == /\ clock \in Int
         /\ stage \in Starting \cup {"down", "pruning", "serving"}
         /\ schema \subseteq Columns
         /\ containers \subseteq AllRows
         /\ tx \subseteq AllRows
         /\ failures \subseteq [id : Failures, at : Int]
         /\ pruner \in [step : {"idle", "first", "second"}, cutoff : Int]
         /\ due \in Int

\* What each stage of the start has achieved.
Migrated == /\ stage = "ip" => Required \subseteq schema /\ schema \subseteq Minimal
            /\ stage \in {"failures", "pruning", "serving"} => schema = Minimal

\* Before the last step of the copy the new table has all the rows.
CopyComplete == /\ "ip" \notin schema => \A r \in containers : r.ip = NULL
                /\ stage = "swap" => tx = containers

\* The clock stands still from a pruning's reading of it to its end.
CutoffFresh == pruner.step # "idle" => /\ stage \in {"pruning", "serving"}
                                       /\ pruner.cutoff = clock - Retention

Since(rows, t) == \A r \in rows : r.at >= t

\* How old rows may be, by how far the pruning has come.
Ages == /\ pruner.step = "second" => Since(containers, pruner.cutoff)
        /\ stage = "serving" =>
             /\ due - Period <= clock /\ clock <= due
             /\ pruner.step # "idle" => clock = due - Period
             /\ ~pruneFailed /\ pruner.step = "idle"
                  => Since(containers \cup failures, due - Period - Retention)
             /\ ~pruneFailed /\ pruner.step # "idle"
                  => Since(containers \cup failures, due - 2 * Period - Retention)

StoreInv == Typed /\ Migrated /\ CopyComplete /\ CutoffFresh /\ Ages

LEMMA Numbers == /\ Retention \in Nat /\ Period \in Nat /\ MaxRun \in Nat
                 /\ MaxRun <= Retention
BY StoreAssumption DEF StoreAssumption

LEMMA InitInv == Init => StoreInv
<1> SUFFICES ASSUME Init PROVE StoreInv
    OBVIOUS
<1>1. schema \subseteq Columns
      BY StoreAssumption DEF Init, StoreAssumption, NoTable
<1>2. containers \subseteq AllRows /\ ("ip" \notin schema => \A r \in containers : r.ip = NULL)
  <2>1. CASE schema = NoTable /\ containers = {}
        BY <2>1
  <2>2. CASE \E r \in Rows(IF "ip" \in schema THEN IPs ELSE {NULL}) : containers = {r}
        BY <2>2, Numbers DEF Rows, AllRows
  <2> QED BY <2>1, <2>2 DEF Init
<1>3. /\ clock = 0 /\ stage = "down" /\ failures = {} /\ tx = {} /\ pruner = NoPrune
      /\ due = 0
      BY DEF Init
<1>4. Typed
      BY <1>1, <1>2, <1>3 DEF Typed, NoPrune
<1>5. Migrated /\ CopyComplete /\ CutoffFresh /\ Ages
      BY <1>2, <1>3 DEF Migrated, CopyComplete, CutoffFresh, Ages, NoPrune
<1> QED BY <1>4, <1>5 DEF StoreInv

\* Copying a row changes nothing in it: the address left out has no column.
LEMMA CopyKeepsRows == ASSUME Typed, CopyComplete
                       PROVE {Copied(r) : r \in containers} = containers
<1>1. ASSUME NEW r \in containers PROVE Copied(r) = r
  <2>1. r = [r EXCEPT !.ip = r.ip]
        BY DEF Typed, AllRows
  <2> QED BY <2>1 DEF CopyComplete, Copied
<1> QED BY <1>1

LEMMA MigrateKeeps == StoreInv /\ (Start \/ Migrate \/ StartFails) => StoreInv'
<1> SUFFICES ASSUME StoreInv, Start \/ Migrate \/ StartFails PROVE StoreInv'
    OBVIOUS
<1>a. stage \in Starting \cup {"down"} /\ pruner.step = "idle" /\ stage' # "serving"
      BY DEF StoreInv, CutoffFresh, Typed, Start, Migrate, StartFails, BaseSchema,
             SchemaIsMinimal, BeginCopy, CopyRows, CopyImpossible, CommitCopy, EnsureIPColumn,
             EnsureFailuresTable, Goto, Starting
<1>b. UNCHANGED <<clock, failures, pruner, due, pruneFailed>>
      BY DEF Start, Migrate, StartFails, BaseSchema, SchemaIsMinimal, BeginCopy, CopyRows,
             CopyImpossible, CommitCopy, EnsureIPColumn, EnsureFailuresTable, tables
<1>1. Typed' /\ Migrated' /\ CopyComplete'
  <2>1. CASE Start
        BY <2>1 DEF StoreInv, Typed, Migrated, CopyComplete, Start, Goto, tables, Starting
  <2>2. CASE BaseSchema
        BY <2>2 DEF StoreInv, Typed, Migrated, CopyComplete, BaseSchema, Goto, Starting,
                    Minimal, Columns, NoTable
  <2>3. CASE SchemaIsMinimal
        BY <2>3 DEF StoreInv, Typed, Migrated, CopyComplete, SchemaIsMinimal, Goto, tables,
                    Starting, NeedsCopy
  <2>4. CASE BeginCopy
        BY <2>4 DEF StoreInv, Typed, Migrated, CopyComplete, BeginCopy, Goto, tables, Starting
  <2>5. CASE CopyRows
        BY <2>5, CopyKeepsRows DEF StoreInv, Typed, Migrated, CopyComplete, CopyRows, Goto,
                                   tables, Starting
  <2>6. CASE CopyImpossible
        BY <2>6 DEF StoreInv, Typed, Migrated, CopyComplete, CopyImpossible, Goto, tables,
                    Starting
  <2>7. CASE CommitCopy
        BY <2>7 DEF StoreInv, Typed, Migrated, CopyComplete, CommitCopy, Goto, Starting,
                    Minimal, Columns, Required
  <2>8. CASE EnsureIPColumn
        BY <2>8 DEF StoreInv, Typed, Migrated, CopyComplete, EnsureIPColumn, Goto, Starting,
                    Minimal, Columns, Required
  <2>9. CASE EnsureFailuresTable
        BY <2>9 DEF StoreInv, Typed, Migrated, CopyComplete, EnsureFailuresTable, Goto, tables,
                    Starting
  <2>10. CASE StartFails
        BY <2>10 DEF StoreInv, Typed, Migrated, CopyComplete, StartFails, tables, Starting
  <2> QED BY <2>1, <2>2, <2>3, <2>4, <2>5, <2>6, <2>7, <2>8, <2>9, <2>10 DEF Migrate
<1>2. CutoffFresh' /\ Ages'
      BY <1>a, <1>b DEF CutoffFresh, Ages
<1> QED BY <1>1, <1>2 DEF StoreInv

\* The numbers of one pruning: the ticker's time becomes the last pruning's.
LEMMA SinceWeaker == ASSUME NEW rows, \A r \in rows : r.at \in Int,
                            NEW s \in Int, NEW t \in Int, t <= s, Since(rows, s)
                     PROVE  Since(rows, t)
BY DEF Since

LEMMA IntegerTimes == ASSUME Typed
                      PROVE  \A r \in containers \cup failures : r.at \in Int
BY DEF Typed, AllRows

LEMMA PruneKeeps == StoreInv /\ (Prune \/ PruneFails) => StoreInv'
<1> SUFFICES ASSUME StoreInv, Prune \/ PruneFails PROVE StoreInv'
    OBVIOUS
<1> USE Numbers
<1>0. /\ \A r \in containers \cup failures : r.at \in Int
      /\ clock \in Int /\ due \in Int /\ pruner.cutoff \in Int
      BY IntegerTimes DEF StoreInv, Typed
<1>1. CASE PruneAtStart
  <2>1. Typed' /\ Migrated' /\ CopyComplete' /\ CutoffFresh'
        BY <1>1 DEF StoreInv, Typed, Migrated, CopyComplete, CutoffFresh, PruneAtStart,
                    BeginPrune, tables
  <2>2. Ages'
        BY <1>1 DEF Ages, PruneAtStart, BeginPrune, tables
  <2> QED BY <2>1, <2>2 DEF StoreInv
<1>2. CASE PrunePeriodically
  <2>1. Typed' /\ Migrated' /\ CopyComplete' /\ CutoffFresh'
        BY <1>2 DEF StoreInv, Typed, Migrated, CopyComplete, CutoffFresh, PrunePeriodically,
                    BeginPrune, tables
  <2>2. /\ due' = due + Period /\ clock = due /\ UNCHANGED <<clock, containers, failures>>
        /\ pruner.step = "idle" /\ pruner'.step = "first" /\ UNCHANGED pruneFailed
        BY <1>2, <1>0 DEF StoreInv, Ages, PrunePeriodically, BeginPrune, tables
  <2>3. ~pruneFailed => Since(containers \cup failures, due - Period - Retention)
        BY <1>2, <2>2 DEF StoreInv, Ages, PrunePeriodically
  <2>4. due' - 2 * Period - Retention = due - Period - Retention
        BY <2>2, <1>0
  <2>5. Ages'
        BY <2>2, <2>3, <2>4, <1>0 DEF Ages
  <2> QED BY <2>1, <2>5 DEF StoreInv
<1>3. CASE PruneExecutions
  <2>1. Typed' /\ Migrated' /\ CopyComplete' /\ CutoffFresh'
        BY <1>3 DEF StoreInv, Typed, Migrated, CopyComplete, CutoffFresh, PruneExecutions, Kept
  <2>2. Since(containers', pruner'.cutoff)
        BY <1>3 DEF PruneExecutions, Kept, Since, StoreInv, Typed
  <2>3. /\ containers' \subseteq containers /\ UNCHANGED <<clock, stage, failures, due, pruneFailed>>
        /\ pruner.step # "idle" /\ pruner'.step = "second"
        BY <1>3 DEF PruneExecutions, Kept, StoreInv, Typed
  <2>4. Ages'
        BY <2>2, <2>3 DEF Ages, Since, StoreInv
  <2> QED BY <2>1, <2>4 DEF StoreInv
<1>4. CASE PruneFailures
  <2>0. stage \in {"pruning", "serving"} /\ stage' = "serving" /\ pruner' = NoPrune
        BY <1>4 DEF StoreInv, CutoffFresh, PruneFailures, PruneReturns
  <2>1. Typed' /\ Migrated' /\ CopyComplete' /\ CutoffFresh'
    <3>1. due' \in Int /\ failures' \subseteq failures
          BY <1>4, <1>0 DEF PruneFailures, PruneReturns, Kept
    <3>2. UNCHANGED <<clock, schema, containers, tx>>
          BY <1>4 DEF PruneFailures
    <3> QED BY <2>0, <3>1, <3>2 DEF StoreInv, Typed, Migrated, CopyComplete, CutoffFresh, NoPrune
  <2>2. /\ Since(containers', clock - Retention) /\ Since(failures', clock - Retention)
        /\ UNCHANGED clock /\ pruner'.step = "idle"
        BY <1>4 DEF StoreInv, Ages, CutoffFresh, PruneFailures, PruneReturns, Kept, NoPrune, Since
  <2>3. due' = clock + Period
    <3>1. CASE stage = "pruning"
          BY <1>4, <3>1 DEF PruneFailures, PruneReturns
    <3>2. CASE stage = "serving"
          BY <1>4, <3>2, <1>0 DEF PruneFailures, PruneReturns, StoreInv, Ages
    <3> QED BY <1>4, <3>1, <3>2 DEF PruneFailures, StoreInv, CutoffFresh
  <2>4. due' - Period = clock /\ due' - Period - Retention = clock - Retention
        BY <2>3, <1>0
  <2>5. Ages'
        BY <2>2, <2>3, <2>4, <1>0 DEF Ages, Since
  <2> QED BY <2>1, <2>5 DEF StoreInv
<1>5. CASE PruneFails
  <2>1. Typed' /\ Migrated' /\ CopyComplete' /\ CutoffFresh'
        BY <1>5 DEF StoreInv, Typed, Migrated, CopyComplete, CutoffFresh, PruneFails,
                    PruneReturns, tables, NoPrune
  <2>2. pruneFailed' /\ UNCHANGED clock /\ pruner'.step = "idle"
        BY <1>5 DEF PruneFails, PruneReturns, NoPrune
  <2>3. due' = clock + Period
    <3>1. CASE stage = "pruning"
          BY <1>5, <3>1 DEF PruneFails, PruneReturns
    <3>2. CASE stage = "serving"
          BY <1>5, <3>2, <1>0 DEF PruneFails, PruneReturns, StoreInv, Ages
    <3> QED BY <1>5, <3>1, <3>2 DEF PruneFails, StoreInv, CutoffFresh
  <2>4. Ages'
        BY <2>2, <2>3, <1>0 DEF Ages
  <2> QED BY <2>1, <2>4 DEF StoreInv
<1> QED BY <1>1, <1>2, <1>3, <1>4, <1>5 DEF Prune

\* A new row starts no earlier than the cutoff of any pruning it can meet.
LEMMA SaveKeeps == StoreInv /\ (\/ \E e \in Executions : SaveContainerRecord(e)
                                \/ \E f \in Failures : SaveAdminLoginFailure(f)) => StoreInv'
<1> SUFFICES ASSUME StoreInv,
                    \/ \E e \in Executions : SaveContainerRecord(e)
                    \/ \E f \in Failures : SaveAdminLoginFailure(f)
             PROVE  StoreInv'
    OBVIOUS
<1> USE Numbers
<1>0. /\ \A r \in containers \cup failures : r.at \in Int
      /\ clock \in Int /\ due \in Int /\ pruner.cutoff \in Int
      BY IntegerTimes DEF StoreInv, Typed
<1>1. /\ stage = "serving" /\ UNCHANGED <<clock, stage, schema, tx, pruner, due, pruneFailed>>
      /\ Since(containers' \ containers, clock - MaxRun)
      /\ Since(failures' \ failures, clock - MaxRun)
  <2>1. ASSUME NEW e \in Executions, SaveContainerRecord(e) PROVE <1>1!:
        BY <2>1, <1>0 DEF SaveContainerRecord, Since
  <2>2. ASSUME NEW f \in Failures, SaveAdminLoginFailure(f) PROVE <1>1!:
        BY <2>2, <1>0 DEF SaveAdminLoginFailure, Since
  <2> QED BY <2>1, <2>2
<1>2. Typed'
  <2>1. ASSUME NEW e \in Executions, SaveContainerRecord(e) PROVE Typed'
        BY <2>1, <1>0 DEF SaveContainerRecord, StoreInv, Typed, AllRows
  <2>2. ASSUME NEW f \in Failures, SaveAdminLoginFailure(f) PROVE Typed'
        BY <2>2, <1>0 DEF SaveAdminLoginFailure, StoreInv, Typed
  <2> QED BY <2>1, <2>2
<1>3. Migrated' /\ CopyComplete' /\ CutoffFresh'
      BY <1>1 DEF StoreInv, Migrated, CopyComplete, CutoffFresh, Minimal
<1>4. /\ due - Period <= clock /\ clock <= due
      /\ pruner.step # "idle" => clock = due - Period /\ pruner.cutoff = clock - Retention
      BY <1>1 DEF StoreInv, Ages, CutoffFresh
<1>5. ASSUME NEW rows, NEW more, NEW t \in Int, Since(rows, t), Since(more \ rows, clock - MaxRun),
             t <= clock - MaxRun, \A r \in more \ rows : r.at \in Int
      PROVE  Since(more, t)
      BY <1>5, <1>0 DEF Since
<1>6. \A r \in containers' \cup failures' : r.at \in Int
      BY <1>2 DEF Typed, AllRows
<1>7. pruner.step = "second" => Since(containers', pruner.cutoff)
      BY <1>0, <1>1, <1>4, <1>5, <1>6 DEF StoreInv, Ages
<1>8. ASSUME NEW t \in Int, Since(containers \cup failures, t), t <= clock - MaxRun
      PROVE  Since(containers' \cup failures', t)
  <2>1. Since(containers, t) /\ Since(failures, t)
        BY <1>8 DEF Since
  <2>2. Since(containers', t) /\ Since(failures', t)
        BY <2>1, <1>1, <1>5, <1>6, <1>8
  <2> QED BY <2>2 DEF Since
<1>9. /\ due - Period - Retention \in Int /\ due - Period - Retention <= clock - MaxRun
      /\ due - 2 * Period - Retention \in Int /\ due - 2 * Period - Retention <= clock - MaxRun
      BY <1>0, <1>4
<1>10. Ages'
       BY <1>1, <1>4, <1>7, <1>8, <1>9 DEF StoreInv, Ages
<1> QED BY <1>2, <1>3, <1>10 DEF StoreInv

\* A crash forgets the pruning; time passes while it can do no harm to it.
LEMMA CrashTickKeeps == StoreInv /\ (Crash \/ Tick \/ UNCHANGED vars) => StoreInv'
<1> SUFFICES ASSUME StoreInv, Crash \/ Tick \/ UNCHANGED vars PROVE StoreInv'
    OBVIOUS
<1>1. CASE Crash
      BY <1>1 DEF StoreInv, Typed, Migrated, CopyComplete, CutoffFresh, Ages, Crash, tables,
                  NoPrune
<1>2. CASE Tick
  <2>1. /\ clock' = clock + 1 /\ UNCHANGED <<stage, tables, tx, pruner, due, pruneFailed>>
        /\ stage = "down" \/ (stage = "serving" /\ clock < due)
        /\ stage = "serving" => pruner.step = "idle"
        /\ clock \in Int /\ due \in Int /\ Period \in Nat
        BY <1>2, Numbers DEF Tick, StoreInv, Typed
  <2>2. pruner.step = "idle"
        BY <2>1 DEF StoreInv, CutoffFresh
  <2>3. Typed' /\ Migrated' /\ CopyComplete' /\ CutoffFresh'
        BY <2>1, <2>2 DEF StoreInv, Typed, Migrated, CopyComplete, CutoffFresh, tables
  <2>4. Ages'
        BY <2>1, <2>2 DEF StoreInv, Ages, tables
  <2> QED BY <2>3, <2>4 DEF StoreInv
<1>3. CASE UNCHANGED vars
      BY <1>3 DEF StoreInv, Typed, Migrated, CopyComplete, CutoffFresh, Ages, vars, tables
<1> QED BY <1>1, <1>2, <1>3

\* The start, the prunings, the inserts and the crashes (db.go:24-260) keep
\* the invariant the results below rest on.
THEOREM StoreInvariant == Spec => []StoreInv
<1>1. StoreInv /\ [Next]_vars => StoreInv'
      BY MigrateKeeps, PruneKeeps, SaveKeeps, CrashTickKeeps DEF Next
<1> QED BY InitInv, <1>1, PTL DEF Spec

\* Whoever is served finds the columns the queries name and no others, from
\* whatever release the file came and wherever earlier starts broke off
\* (migrate, db.go:45-77).
THEOREM ServedSchemaReady == Spec => []SchemaReady
<1>1. StoreInv => SchemaReady
      BY DEF StoreInv, Migrated, SchemaReady
<1> QED BY StoreInvariant, <1>1, PTL

OldRowsGo == /\ \A r \in containers \ containers' : clock - r.at > Retention
             /\ \A r \in failures \ failures' : clock - r.at > Retention

LEMMA StepKeepsRows == ASSUME StoreInv, Next PROVE OldRowsGo
<1> USE Numbers
<1>0. /\ \A r \in containers \cup failures : r.at \in Int
      /\ clock \in Int /\ pruner.cutoff \in Int
      BY IntegerTimes DEF StoreInv, Typed
<1>1. CASE PruneExecutions \/ PruneFailures
  <2>1. pruner.cutoff = clock - Retention
        BY <1>1 DEF StoreInv, CutoffFresh, PruneExecutions, PruneFailures
  <2>2. /\ containers' = Kept(containers) \/ containers' = containers
        /\ failures' = Kept(failures) \/ failures' = failures
        BY <1>1 DEF PruneExecutions, PruneFailures
  <2>3. ASSUME NEW r \in containers \cup failures, ~(r.at >= pruner.cutoff)
        PROVE  clock - r.at > Retention
        BY <1>0, <2>1, <2>3
  <2> QED BY <2>2, <2>3 DEF Kept, OldRowsGo
<1>2. CASE CommitCopy
      BY <1>2 DEF StoreInv, CopyComplete, CommitCopy, Goto, OldRowsGo
<1>3. ASSUME UNCHANGED <<containers, failures>> PROVE OldRowsGo
      BY <1>3 DEF OldRowsGo
<1>4. CASE \/ Start \/ BaseSchema \/ SchemaIsMinimal \/ BeginCopy \/ CopyRows
           \/ CopyImpossible \/ EnsureIPColumn \/ EnsureFailuresTable \/ StartFails
           \/ PruneAtStart \/ PrunePeriodically \/ PruneFails \/ Crash \/ Tick
      BY <1>3, <1>4 DEF Start, BaseSchema, SchemaIsMinimal, BeginCopy, CopyRows,
                        CopyImpossible, EnsureIPColumn, EnsureFailuresTable, StartFails,
                        PruneAtStart, PrunePeriodically, PruneFails, Crash, Tick, tables
<1>5. ASSUME NEW e \in Executions, SaveContainerRecord(e) PROVE OldRowsGo
      BY <1>5 DEF SaveContainerRecord, OldRowsGo
<1>6. ASSUME NEW f \in Failures, SaveAdminLoginFailure(f) PROVE OldRowsGo
      BY <1>6 DEF SaveAdminLoginFailure, OldRowsGo
<1> QED BY <1>1, <1>2, <1>4, <1>5, <1>6 DEF Next, Migrate, Prune

\* A row leaves the database, or changes, only by growing older than the
\* retention period (ensureMinimalSchema and pruneOld, db.go:129-182,
\* 239-246).
THEOREM NoRowLost == Spec => RowsKept
<1>1. ASSUME StoreInv, [Next]_vars PROVE [OldRowsGo]_vars
      BY <1>1, StepKeepsRows
<1>2. [OldRowsGo]_vars <=> [ /\ \A r \in containers \ containers' : clock - r.at > Retention
                             /\ \A r \in failures \ failures' : clock - r.at > Retention ]_vars
      BY DEF OldRowsGo
<1> QED BY StoreInvariant, <1>1, <1>2, PTL DEF Spec, RowsKept

\* While pruning works nothing is shown that is older than the retention
\* period and the day between two prunings, after any time the server was
\* down (initDB and periodicPrune, db.go:38-41, 239-256).
THEOREM RetentionHolds == Spec => []RetentionEnforced
<1>1. ASSUME StoreInv PROVE RetentionEnforced
  <2> SUFFICES ASSUME stage = "serving", ~pruneFailed, NEW r \in containers \cup failures
               PROVE  clock - r.at <= Retention + Period
      BY DEF RetentionEnforced
  <2>1. r.at \in Int /\ clock \in Int /\ due \in Int /\ Retention \in Nat /\ Period \in Nat
        BY <1>1, IntegerTimes, Numbers DEF StoreInv, Typed
  <2>2. CASE pruner.step = "idle"
    <3>1. r.at >= due - Period - Retention /\ clock <= due
          BY <1>1, <2>2 DEF StoreInv, Ages, Since
    <3> QED BY <2>1, <3>1
  <2>3. CASE pruner.step # "idle"
    <3>1. r.at >= due - 2 * Period - Retention /\ clock = due - Period
          BY <1>1, <2>3 DEF StoreInv, Ages, Since
    <3> QED BY <2>1, <3>1
  <2> QED BY <2>2, <2>3
<1> QED BY StoreInvariant, <1>1, PTL

-----------------------------------------------------------------------------
(* One row for each execution, and the ranges of the numbers *)

\* An id names one row: an insert names a new one, a copy changes none.
OneRow == IsFiniteSet(containers) /\ \A r, q \in containers : r.id = q.id => r = q

Ranges == /\ clock \in 0 .. MaxClock
          /\ containers \subseteq ContainerRows /\ tx \subseteq ContainerRows
          /\ failures \subseteq [id : Failures, at : 0 .. MaxClock]
          /\ pruner.cutoff \in -Retention .. MaxClock
          /\ due \in 0 .. MaxClock + Period
          /\ pruneFailed \in BOOLEAN
          /\ mishaps \in [failures : 0 .. MaxFailures, crashes : 0 .. MaxCrashes]

LEMMA Bounds == /\ Retention \in Nat /\ Retention # 0 /\ Period \in Nat /\ MaxRun \in Nat
                /\ MaxRun <= Retention /\ MaxClock \in Nat /\ MaxFailures \in Nat
                /\ MaxCrashes \in Nat
BY StoreAssumption DEF StoreAssumption

\* Rows that their ids tell apart are as many as their ids.
LEMMA AsManyIds == ASSUME NEW rows, IsFiniteSet(rows), \A r, q \in rows : r.id = q.id => r = q
                   PROVE  Cardinality({r.id : r \in rows}) = Cardinality(rows)
<1> DEFINE ids == {r.id : r \in rows}
           id == [r \in rows |-> r.id]
<1>1. id \in Bijection(rows, ids)
      BY DEF Bijection, Injection, Surjection, IsInjective
<1>2. ExistsBijection(rows, ids)
      BY <1>1 DEF ExistsBijection
<1> QED BY <1>2, FS_Bijection

LEMMA InitRanges == Init => Ranges /\ OneRow
<1> SUFFICES ASSUME Init PROVE Ranges /\ OneRow
    OBVIOUS
<1> USE Bounds
<1>1. containers \subseteq ContainerRows /\ OneRow
  <2>1. CASE schema = NoTable /\ containers = {}
        BY <2>1, FS_EmptySet DEF OneRow
  <2>2. CASE \E r \in Rows(IF "ip" \in schema THEN IPs ELSE {NULL}) : containers = {r}
    <3>1. PICK r \in Rows(IF "ip" \in schema THEN IPs ELSE {NULL}) : containers = {r}
          BY <2>2
    <3>2. r \in ContainerRows
          BY <3>1 DEF Rows, ContainerRows
    <3> QED BY <3>1, <3>2, FS_Singleton DEF OneRow
  <2> QED BY <2>1, <2>2 DEF Init
<1>2. pruneFailed \in BOOLEAN
      BY DEF Init
<1>3. /\ clock = 0 /\ due = 0 /\ failures = {} /\ tx = {} /\ pruner.cutoff = 0
      /\ mishaps = [failures |-> 0, crashes |-> 0]
      BY DEF Init, NoPrune
<1> QED BY <1>1, <1>2, <1>3 DEF Ranges

\* Where rows only go, those that stay are still told apart.
LEMMA FewerRows == ASSUME OneRow, containers' \subseteq containers PROVE OneRow'
BY FS_Subset DEF OneRow

LEMMA RangesKept == StoreInv /\ Ranges /\ OneRow /\ [Next]_vars => Ranges' /\ OneRow'
<1> SUFFICES ASSUME StoreInv, Ranges, OneRow, [Next]_vars PROVE Ranges' /\ OneRow'
    OBVIOUS
<1> USE Bounds
<1>1. CASE Start \/ BaseSchema \/ SchemaIsMinimal \/ BeginCopy \/ CopyImpossible
           \/ EnsureIPColumn \/ EnsureFailuresTable \/ UNCHANGED vars
  <2>1. /\ UNCHANGED <<clock, containers, failures, pruner, due, pruneFailed, mishaps>>
        /\ tx' = tx \/ tx' = {}
        BY <1>1 DEF Start, BaseSchema, SchemaIsMinimal, BeginCopy, CopyImpossible, EnsureIPColumn,
                    EnsureFailuresTable, vars, tables
  <2> QED BY <2>1 DEF Ranges, OneRow
<1>2. CASE CopyRows
      BY <1>2, CopyKeepsRows DEF CopyRows, StoreInv, Ranges, OneRow, tables
<1>3. CASE CommitCopy
  <2>1. tx = containers
        BY <1>3 DEF CommitCopy, Goto, StoreInv, CopyComplete
  <2> QED BY <1>3, <2>1 DEF CommitCopy, Ranges, OneRow
<1>4. CASE StartFails \/ Crash
      BY <1>4 DEF StartFails, Crash, Ranges, OneRow, tables, NoPrune
<1>5. CASE PruneAtStart \/ PrunePeriodically
  <2>1. pruner'.cutoff = clock - Retention /\ due' \in 0 .. MaxClock + Period
    <3>1. CASE PruneAtStart
          BY <3>1 DEF PruneAtStart, BeginPrune, Ranges
    <3>2. CASE PrunePeriodically
          BY <3>2 DEF PrunePeriodically, BeginPrune, Ranges, StoreInv, Ages
    <3> QED BY <1>5, <3>1, <3>2
  <2> QED BY <1>5, <2>1 DEF PruneAtStart, PrunePeriodically, Ranges, OneRow, tables
<1>6. CASE PruneExecutions
  <2>1. containers' \subseteq containers /\ pruner'.cutoff = pruner.cutoff
        BY <1>6 DEF PruneExecutions, Kept, StoreInv, Typed
  <2> QED BY <1>6, <2>1, FewerRows DEF PruneExecutions, Ranges
<1>7. CASE PruneFailures \/ PruneFails
  <2>1. PruneReturns(FALSE) \/ PruneReturns(TRUE)
        BY <1>7 DEF PruneFailures, PruneFails
  <2>2. pruneFailed' \in BOOLEAN
        BY <2>1 DEF PruneReturns
  <2>3. due' \in 0 .. MaxClock + Period
        BY <2>1 DEF PruneReturns, Ranges
  <2>4. pruner'.cutoff = 0
        BY <2>1 DEF PruneReturns, NoPrune
  <2>5. failures' \subseteq failures /\ UNCHANGED <<clock, containers, tx>>
        BY <1>7 DEF PruneFailures, PruneFails, Kept, tables
  <2>6. mishaps' \in [failures : 0 .. MaxFailures, crashes : 0 .. MaxCrashes]
    <3>1. CASE PruneFailures
          BY <3>1 DEF PruneFailures, Ranges
    <3>2. CASE PruneFails
          BY <3>2 DEF PruneFails, Ranges
    <3> QED BY <1>7, <3>1, <3>2
  <2> QED BY <2>2, <2>3, <2>4, <2>5, <2>6 DEF Ranges, OneRow
<1>8. ASSUME NEW e \in Executions, SaveContainerRecord(e) PROVE Ranges' /\ OneRow'
  <2>1. PICK t \in clock - MaxRun .. clock, i \in IPs :
               containers' = containers \cup {[id |-> e, at |-> t, ip |-> i]}
        BY <1>8 DEF SaveContainerRecord
  <2>2. [id |-> e, at |-> t, ip |-> i] \in ContainerRows
        BY <2>1 DEF Ranges, ContainerRows
  <2>3. OneRow'
    <3>1. IsFiniteSet(containers')
          BY <2>1, FS_AddElement DEF OneRow
    <3> QED BY <1>8, <2>1, <3>1 DEF SaveContainerRecord, Stored, OneRow
  <2> QED BY <1>8, <2>1, <2>2, <2>3 DEF SaveContainerRecord, Ranges
<1>9. ASSUME NEW f \in Failures, SaveAdminLoginFailure(f) PROVE Ranges' /\ OneRow'
      BY <1>9 DEF SaveAdminLoginFailure, Ranges, OneRow
<1>10. CASE Tick
       BY <1>10 DEF Tick, Ranges, OneRow, tables, ContainerRows
<1> QED BY <1>1, <1>2, <1>3, <1>4, <1>5, <1>6, <1>7, <1>8, <1>9, <1>10
        DEF Next, Migrate, Prune

\* The types of the tables and of the server's state: the time a row names
\* is one the clock has passed or the retention period bounds, no execution
\* has two rows, and a row has an address only where there is a column
\* (db.go:45-256).
THEOREM StoreTyped == Spec => []TypeOK
<1>1. ASSUME StoreInv, Ranges, OneRow PROVE TypeOK
  <2>1. Cardinality(Stored) = Cardinality(containers)
        BY <1>1, AsManyIds DEF OneRow, Stored
  <2>2. pruner.cutoff \in -2 * Retention .. MaxClock
        BY <1>1, Bounds DEF Ranges
  <2>3. mishaps.failures \in 0 .. MaxFailures /\ mishaps.crashes \in 0 .. MaxCrashes
        BY <1>1 DEF Ranges
  <2> QED BY <1>1, <2>1, <2>2, <2>3 DEF TypeOK, StoreInv, Typed, CopyComplete, Ranges
<1> QED BY StoreInvariant, InitRanges, RangesKept, <1>1, PTL DEF Spec
=============================================================================
