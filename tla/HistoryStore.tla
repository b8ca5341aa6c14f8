---------------------------- MODULE HistoryStore ----------------------------
(***************************************************************************)
(* db.go: the SQLite tables containers and admin_login_failures, from the  *)
(* migration at the start of the server to the pruning of old rows.        *)
(*                                                                         *)
(* Statements are atomic and durable when they return, and so is the       *)
(* transaction of ensureMinimalSchema when it commits; the server may die  *)
(* between any two of them and is started again on the same file.  Of the  *)
(* columns only four groups are told apart.  Time is counted in ticks      *)
(* longer than any start or pruning takes.                                 *)
(***************************************************************************)
EXTENDS Integers, FiniteSets

CONSTANTS Executions,     \* rows for containers
          Failures,       \* rows for admin_login_failures
          IPs, NULL,
          OldSchemas,     \* tables an earlier release may have left, see Columns
          Retention,      \* ticks in retentionPeriod, 90 days
          Period,         \* ticks in a day
          MaxRun,         \* ticks between an execution's start and its insert
          MaxClock, MaxFailures, MaxCrashes       \* bounds

\* "core": id, container_id, the times; "text": code_executed, output,
\* error_message; "legacy": anything else.
Columns == {"core", "text", "ip", "legacy"}
Minimal == {"core", "text", "ip"}
Required == {"core", "text"}
NoTable == {}

ASSUME StoreAssumption == /\ OldSchemas \subseteq SUBSET Columns
                          /\ {Retention, Period, MaxRun, MaxClock, MaxFailures, MaxCrashes}
                               \subseteq Nat
                          /\ Retention # 0 /\ MaxRun <= Retention

VARIABLES clock,
          stage,          \* what the starting server is at, "serving" or "down"
          schema,         \* columns of containers, NoTable before there is one
          containers,     \* its rows: [id, at, ip]
          failures,       \* rows of admin_login_failures: [id, at]
          tx,             \* containers_new in the open transaction
          pruner,         \* pruneOld under way: [step, cutoff]
          due,            \* next tick of periodicPrune
          pruneFailed,    \* the last pruneOld to end returned an error
          mishaps         \* failed statements and crashes so far

tables == <<schema, containers, failures>>
vars == <<clock, stage, tables, tx, pruner, due, pruneFailed, mishaps>>

NoPrune == [step |-> "idle", cutoff |-> 0]
Starting == {"base", "minimal", "copy", "swap", "ip", "failures"}
Rows(old) == {[id |-> e, at |-> t, ip |-> i] : e \in Executions, t \in {-Retention, -1}, i \in old}

\* The file is missing or was left by an earlier release, with a row in it.
Init == /\ clock = 0
        /\ stage = "down"
        /\ \/ schema = NoTable /\ containers = {}
           \/ /\ schema \in OldSchemas
              /\ \E r \in Rows(IF "ip" \in schema THEN IPs ELSE {NULL}) : containers = {r}
        /\ failures = {}
        /\ tx = {}
        /\ pruner = NoPrune
        /\ due = 0
        /\ pruneFailed = FALSE
        /\ mishaps = [failures |-> 0, crashes |-> 0]

Goto(from, to) == stage = from /\ stage' = to

-----------------------------------------------------------------------------
(* initDB and migrate *)

Start == /\ Goto("down", "base")
         /\ UNCHANGED <<clock, tables, tx, pruner, due, pruneFailed, mishaps>>

BaseSchema == /\ Goto("base", "minimal")
              /\ schema' = IF schema = NoTable THEN Minimal ELSE schema
              /\ UNCHANGED <<clock, containers, failures, tx, pruner, due, pruneFailed, mishaps>>

\* Mutant of NeedsCopy: only extraneous columns count, and only the known one.
NeedsCopy_IfWide == schema = Columns

NeedsCopy == \/ schema \ Minimal # {}
             \/ Required \ schema # {}

SchemaIsMinimal == /\ ~NeedsCopy
                   /\ Goto("minimal", "ip")
                   /\ UNCHANGED <<clock, tables, tx, pruner, due, pruneFailed, mishaps>>

BeginCopy == /\ NeedsCopy
             /\ Goto("minimal", "copy")
             /\ tx' = {}
             /\ UNCHANGED <<clock, tables, pruner, due, pruneFailed, mishaps>>

\* Mutant of Copied: the ip column is left out of the copy.
Copied_NoIP(r) == [r EXCEPT !.ip = NULL]

Copied(r) == [r EXCEPT !.ip = IF "ip" \in schema THEN @ ELSE NULL]

\* Mutant of Copyable: the copy always names the ip column.
Copyable_WithIP == Minimal \subseteq schema

\* The copy names every required column; without one of them it fails.
Copyable == Required \subseteq schema

CopyRows == /\ Copyable
            /\ Goto("copy", "swap")
            /\ tx' = {Copied(r) : r \in containers}
            /\ UNCHANGED <<clock, tables, pruner, due, pruneFailed, mishaps>>

\* The error rolls the transaction back and ends the server.
CopyImpossible == /\ ~Copyable
                  /\ Goto("copy", "down")
                  /\ tx' = {}
                  /\ UNCHANGED <<clock, tables, pruner, due, pruneFailed, mishaps>>

\* Drop, rename and commit.
CommitCopy == /\ Goto("swap", "ip")
              /\ schema' = Minimal
              /\ containers' = tx
              /\ tx' = {}
              /\ UNCHANGED <<clock, failures, pruner, due, pruneFailed, mishaps>>

\* Mutant of EnsureIPColumn: the column is not added.
EnsureIPColumn_Skipped ==
  /\ Goto("ip", "failures")
  /\ UNCHANGED <<clock, tables, tx, pruner, due, pruneFailed, mishaps>>

EnsureIPColumn == /\ Goto("ip", "failures")
                  /\ schema' = schema \cup {"ip"}
                  /\ UNCHANGED <<clock, containers, failures, tx, pruner, due, pruneFailed,
                                 mishaps>>

EnsureFailuresTable == /\ Goto("failures", "pruning")
                       /\ UNCHANGED <<clock, tables, tx, pruner, due, pruneFailed, mishaps>>

\* A statement of the migration fails: main gives up, what was open is rolled
\* back.
StartFails == /\ stage \in Starting
              /\ mishaps.failures < MaxFailures
              /\ mishaps' = [mishaps EXCEPT !.failures = @ + 1]
              /\ stage' = "down"
              /\ tx' = {}
              /\ UNCHANGED <<clock, tables, pruner, due, pruneFailed>>

-----------------------------------------------------------------------------
(* pruneOld, at the start and once a period *)

BeginPrune(c) == /\ pruner.step = "idle"
                 /\ pruner' = [step |-> "first", cutoff |-> c]

PruneAtStart == /\ stage = "pruning"
                /\ BeginPrune(clock - Retention)
                /\ UNCHANGED <<clock, stage, tables, tx, due, pruneFailed, mishaps>>

\* Mutant of PrunePeriodically: the cutoff of the start is used again.
PrunePeriodically_OldCutoff ==
  /\ stage = "serving"
  /\ clock >= due
  /\ BeginPrune(due - Period - Retention)
  /\ due' = due + Period
  /\ UNCHANGED <<clock, stage, tables, tx, pruneFailed, mishaps>>

PrunePeriodically == /\ stage = "serving"
                     /\ clock >= due
                     /\ BeginPrune(clock - Retention)
                     /\ due' = due + Period
                     /\ UNCHANGED <<clock, stage, tables, tx, pruneFailed, mishaps>>

Kept(rows) == {r \in rows : r.at >= pruner.cutoff}

PruneExecutions == /\ pruner.step = "first"
                   /\ containers' = Kept(containers)
                   /\ pruner' = [pruner EXCEPT !.step = "second"]
                   /\ UNCHANGED <<clock, stage, schema, failures, tx, due, pruneFailed, mishaps>>

\* pruneOld returns; at the start the server goes on to serve, error or not.
PruneReturns(failed) == /\ pruner' = NoPrune
                        /\ pruneFailed' = failed
                        /\ stage' = "serving"
                        /\ due' = IF stage = "pruning" THEN clock + Period ELSE due

PruneFailures == /\ pruner.step = "second"
                 /\ failures' = Kept(failures)
                 /\ PruneReturns(FALSE)
                 /\ UNCHANGED <<clock, schema, containers, tx, mishaps>>

\* Either delete may fail; the first one's error skips the second.
PruneFails == /\ pruner.step # "idle"
              /\ mishaps.failures < MaxFailures
              /\ mishaps' = [mishaps EXCEPT !.failures = @ + 1]
              /\ PruneReturns(TRUE)
              /\ UNCHANGED <<clock, tables, tx>>

-----------------------------------------------------------------------------
(* While serving, and around the server *)

Stored == {r.id : r \in containers}

\* An execution is inserted when it has finished, under the time it started.
SaveContainerRecord(e) ==
  /\ stage = "serving"
  /\ e \notin Stored
  /\ \E t \in clock - MaxRun .. clock, i \in IPs :
       containers' = containers \cup {[id |-> e, at |-> t, ip |-> i]}
  /\ UNCHANGED <<clock, stage, schema, failures, tx, pruner, due, pruneFailed, mishaps>>

SaveAdminLoginFailure(f) ==
  /\ stage = "serving"
  /\ f \notin {r.id : r \in failures}
  /\ failures' = failures \cup {[id |-> f, at |-> clock]}
  /\ UNCHANGED <<clock, stage, schema, containers, tx, pruner, due, pruneFailed, mishaps>>

Crash == /\ stage # "down"
         /\ mishaps.crashes < MaxCrashes
         /\ mishaps' = [mishaps EXCEPT !.crashes = @ + 1]
         /\ stage' = "down"
         /\ tx' = {}
         /\ pruner' = NoPrune
         /\ UNCHANGED <<clock, tables, due, pruneFailed>>

\* Starting and pruning are done within a tick; being down may last.
Tick == /\ clock < MaxClock
        /\ \/ stage = "down"
           \/ stage = "serving" /\ pruner.step = "idle" /\ clock < due
        /\ clock' = clock + 1
        /\ UNCHANGED <<stage, tables, tx, pruner, due, pruneFailed, mishaps>>

Migrate == \/ BaseSchema \/ SchemaIsMinimal \/ BeginCopy \/ CopyRows \/ CopyImpossible
           \/ CommitCopy \/ EnsureIPColumn \/ EnsureFailuresTable

Prune == PruneAtStart \/ PrunePeriodically \/ PruneExecutions \/ PruneFailures

Next == \/ Start \/ Migrate \/ StartFails
        \/ Prune \/ PruneFails
        \/ \E e \in Executions : SaveContainerRecord(e)
        \/ \E f \in Failures : SaveAdminLoginFailure(f)
        \/ Crash \/ Tick

Spec == Init /\ [][Next]_vars

\* The service manager starts the server again and the server keeps going.
FairSpec == Spec /\ WF_vars(Start) /\ WF_vars(Migrate) /\ WF_vars(Prune)

-----------------------------------------------------------------------------
(* Properties *)

ContainerRows == [id : Executions, at : -Retention .. MaxClock, ip : IPs \cup {NULL}]

\* Types; a row has one copy, and an address only where there is a column.
TypeOK == /\ clock \in 0 .. MaxClock
          /\ stage \in Starting \cup {"down", "pruning", "serving"}
          /\ schema \subseteq Columns
          /\ containers \subseteq ContainerRows /\ tx \subseteq ContainerRows
          /\ failures \subseteq [id : Failures, at : 0 .. MaxClock]
          /\ Cardinality(Stored) = Cardinality(containers)
          /\ "ip" \notin schema => \A r \in containers : r.ip = NULL
          /\ pruner.step \in {"idle", "first", "second"}
          /\ pruner.cutoff \in -2 * Retention .. MaxClock
          /\ due \in 0 .. MaxClock + Period
          /\ pruneFailed \in BOOLEAN
          /\ mishaps.failures \in 0 .. MaxFailures /\ mishaps.crashes \in 0 .. MaxCrashes

\* Whenever requests are served the table has the columns the inserts and
\* queries name and no others, from whatever release it came and wherever
\* earlier attempts to migrate it broke off (migrate, db.go:45-77).
SchemaReady == stage = "serving" => schema = Minimal

\* A row leaves the database, or changes, only by growing older than the
\* retention period: not by a migration, an error or a crash in the middle
\* of either (db.go:129-182, 239-246).
RowsKept ==
  [][ /\ \A r \in containers \ containers' : clock - r.at > Retention
      /\ \A r \in failures \ failures' : clock - r.at > Retention ]_vars

\* Nothing is shown that is older than the retention period and the day
\* between two prunings, in either table, after any time the server was down,
\* while pruneOld does not fail (initDB prunes before it serves,
\* db.go:38-41, 239-256).
RetentionEnforced ==
  stage = "serving" /\ ~pruneFailed =>
    \A r \in containers \cup failures : clock - r.at <= Retention + Period

\* With finitely many failures and crashes the server comes up on a missing
\* table and on one that has every required column, whatever else it has or
\* lacks: no interrupted start leaves something the next one cannot get over
\* (ensureMinimalSchema, ensureIPColumn, db.go:80-213).
ComesUp == (stage = "down" /\ (schema = NoTable \/ Required \subseteq schema))
             ~> stage = "serving"
=============================================================================
