------------------------- MODULE ObservabilityStats -------------------------
(***************************************************************************)
(* The numbers of the observability page: parseObservabilityRange of       *)
(* main.go and getObservabilityStats of db.go, which asks the database one *)
(* query after the other while executions are stored and old rows pruned.  *)
(*                                                                         *)
(* Time is counted in ticks, Hour of them to an hour.  A row stands for    *)
(* several executions, or failed logins, of one kind that began in the     *)
(* same tick (n of them).                                                  *)
(***************************************************************************)
EXTENDS Integers, FiniteSets, Folds, Functions

CONSTANTS Hour,           \* ticks in an hour
          Retention,      \* ticks rows are kept, the length of the longest preset
          DayLength,      \* ticks of the shortest preset
          Start,          \* the clock at the start
          MaxClock,       \* bound on time
          MaxRows,        \* bound on rows stored
          MaxRun,         \* ticks an execution may take before it is stored
          IPs,            \* client addresses, NoIP for none
          NoIP,
          Executions,     \* kinds of execution, [ip, failed, n]
          RecentLimit     \* failed logins listed

ASSUME StatsAssumption == /\ Hour \in Nat \ {0}
                          /\ Retention \in Nat /\ DayLength \in 1..Retention
                          /\ Start \in Nat /\ MaxClock \in Nat
                          /\ Retention <= Start /\ Start <= MaxClock
                          /\ MaxRows \in Nat /\ MaxRun \in 0..Start
                          /\ NoIP \in IPs
                          /\ Executions \subseteq [ip : IPs, failed : BOOLEAN, n : Nat]
                          /\ RecentLimit \in Nat

VARIABLES clock,
          rows,           \* of both tables: [id, table, at, ip, failed, n]
          nextId

storeVars == <<clock, rows, nextId>>

\* One old execution is there that a pruning will soon remove.
OldRow == [id |-> 0, table |-> "containers", at |-> Start - Retention, ip |-> NoIP, failed |-> FALSE, n |-> 1]

StoreInit == /\ clock = Start
             /\ rows = {OldRow}
             /\ nextId = 1

-----------------------------------------------------------------------------
(* The range of a request: [range, from, to] of its query string, where    *)
(* from and to are NoTime when absent.                                     *)

NoTime == -1
PresetLength == [day |-> DayLength, all |-> Retention]
BadRange == [ok |-> FALSE, from |-> 0, to |-> 0]
Between(a, b) == [ok |-> TRUE, from |-> a, to |-> b]

ParsedRange(ask, now) ==
  CASE ask.range \in DOMAIN PresetLength -> Between(now - PresetLength[ask.range], now)
    [] ask.range = "custom" /\ NoTime \notin {ask.from, ask.to} /\ ask.from < ask.to
                                         -> Between(ask.from, ask.to)
    [] OTHER                             -> BadRange

-----------------------------------------------------------------------------
(* The queries, each over the rows of one moment *)

WeightOf(S) == SumFunction([r \in S |-> r.n])
In(table, from, to) == {r \in rows : r.table = table /\ from <= r.at /\ r.at < to}
WithIP(S) == {r \in S : r.ip # NoIP}
AddressesOf(S) == {r.ip : r \in WithIP(S)}

HourOf(t) == (t \div Hour) * Hour

\* counts maps the hours that have rows; the points run from the hour of
\* from, so that the first, partial hour has one, to the last before to.
\* Mutant: they start at from itself.
HourlyPoints_NotTruncated(from, to) ==
  LET inRange == In("containers", from, to)
      counts == [h \in {HourOf(r.at) : r \in inRange} |-> WeightOf({r \in inRange : HourOf(r.at) = h})]
      points == {t \in from..to - 1 : (t - from) % Hour = 0}
  IN  [t \in points |-> IF t \in DOMAIN counts THEN counts[t] ELSE 0]
HourlyPoints(from, to) ==
  LET inRange == In("containers", from, to)
      counts == [h \in {HourOf(r.at) : r \in inRange} |-> WeightOf({r \in inRange : HourOf(r.at) = h})]
      points == {t \in HourOf(from)..to - 1 : t % Hour = 0}
  IN  [t \in points |-> IF t \in DOMAIN counts THEN counts[t] ELSE 0]

Queries == <<"total", "ipCount", "success", "error", "average", "ips", "hourly",
             "failedTotal", "failedIPs", "recent">>

NoStats == [total |-> 0, ipCount |-> 0, success |-> 0, error |-> 0, average |-> 0,
            ips |-> << >>, hourly |-> << >>, failedTotal |-> 0, failedIPs |-> << >>, recent |-> 0]

Least(a, b) == IF a < b THEN a ELSE b
PerAddress(S) == [a \in AddressesOf(S) |-> WeightOf({r \in S : r.ip = a})]

\* The average matters here only as that of so many executions, 0 for none.
Answer(q, from, to, stats) ==
  LET S == In("containers", from, to)
      F == In("failures", from, to)
  IN  CASE q = "total"       -> [stats EXCEPT !.total = WeightOf(S)]
        [] q = "ipCount"     -> [stats EXCEPT !.ipCount = Cardinality(AddressesOf(S))]
        [] q = "success"     -> [stats EXCEPT !.success = WeightOf({r \in S : ~r.failed})]
        [] q = "error"       -> [stats EXCEPT !.error = WeightOf({r \in S : r.failed})]
        [] q = "average"     -> [stats EXCEPT !.average = WeightOf(S)]
        [] q = "ips"         -> [stats EXCEPT !.ips = PerAddress(S)]
        [] q = "hourly"      -> [stats EXCEPT !.hourly = HourlyPoints(from, to)]
        [] q = "failedTotal" -> [stats EXCEPT !.failedTotal = WeightOf(F)]
        [] q = "failedIPs"   -> [stats EXCEPT !.failedIPs = PerAddress(F)]
        [] q = "recent"      -> [stats EXCEPT !.recent = Least(RecentLimit, WeightOf(F))]

-----------------------------------------------------------------------------
(* What happens to the table meanwhile (HistoryStore has the details) *)

\* An execution is stored when it has ended, under the time it began, a
\* failed login at once.
Execution(at, kind) ==
  [id |-> nextId, table |-> "containers", at |-> at, ip |-> kind.ip, failed |-> kind.failed, n |-> kind.n]
FailedLogin(ip) ==
  [id |-> nextId, table |-> "failures", at |-> clock, ip |-> ip, failed |-> TRUE, n |-> 1]

Store(row) == /\ nextId <= MaxRows
              /\ rows' = rows \cup {row}
              /\ nextId' = nextId + 1
              /\ UNCHANGED clock

Kept == {r \in rows : r.at >= clock - Retention}
Prune == /\ Kept # rows
         /\ rows' = Kept
         /\ UNCHANGED <<clock, nextId>>

StoreTick == /\ clock < MaxClock
             /\ clock' = clock + 1
             /\ UNCHANGED <<rows, nextId>>
=============================================================================
