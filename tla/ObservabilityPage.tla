------------------------- MODULE ObservabilityPage -------------------------
(***************************************************************************)
(* observability.js with the handler behind it: the range buttons, the     *)
(* refresh every thirty seconds, requests whose answers arrive in any      *)
(* order, and what the page draws of an answer.                            *)
(*                                                                         *)
(* A request is "sent", then "running" its queries, then "answered".  Its  *)
(* fields stored and pruned only observe whether a row of its range came   *)
(* or went meanwhile; slot tells the requests under way apart.             *)
(***************************************************************************)
EXTENDS ObservabilityStats, Sequences

CONSTANTS CustomTimes,    \* what the two custom inputs may hold besides nothing
          MaxFetches,     \* bound on requests under way
          MaxFailedFetches, \* bound on requests that fail
          ObsEventSets,   \* candidate values of mayHappen
          Widths, Heights \* sizes the canvas may have

Ranges == DOMAIN PresetLength \cup {"custom"}
CustomInputs == CustomTimes \cup {NoTime}

ASSUME PageAssumption == /\ CustomTimes \subseteq Nat
                         /\ MaxFetches \in Nat \ {0} /\ MaxFailedFetches \in Nat
                         /\ Widths \subseteq Nat /\ Heights \subseteq Nat

VARIABLES place,          \* "observability", or "login" after a 401
          activeRange,
          custom,         \* the inputs customFrom and customTo
          status,         \* refreshStatus: "refreshing", "ok" or "error"
          latestData,     \* NoData, or the answer shown last: [ask, stats]
          fetches,        \* requests under way
          failuresLeft,   \* failures left
          mayHappen       \* kinds of event this behaviour may have

pageVars == <<place, activeRange, custom, status, latestData>>
obsVars == <<storeVars, pageVars, fetches, failuresLeft, mayHappen>>

NoData == [ask |-> [range |-> "none", from |-> NoTime, to |-> NoTime], stats |-> NoStats]

-----------------------------------------------------------------------------
(* Requests *)

\* buildURL: the inputs are read when the request is sent, applied or not,
\* and only for a custom range.
Ask(range, inputs) == [range |-> range,
                       from |-> IF range = "custom" THEN inputs.from ELSE NoTime,
                       to |-> IF range = "custom" THEN inputs.to ELSE NoTime]

Sent(slot, ask) == [slot |-> slot, ask |-> ask, at |-> "sent", from |-> 0, to |-> 0, done |-> 0, outcome |-> "none",
                    stats |-> NoStats, stored |-> FALSE, pruned |-> FALSE]

FreeSlots == (IF "overlap" \in mayHappen THEN 1..MaxFetches ELSE {1}) \ {r.slot : r \in fetches}

\* loadObservability up to its fetch, for the range and inputs it finds.
LoadObservability(range, inputs) ==
  /\ FreeSlots # {}
  /\ fetches' = fetches \cup {Sent(CHOOSE s \in FreeSlots : \A t \in FreeSlots : s <= t, Ask(range, inputs))}
  /\ status' = "refreshing"

\* defaultCustomValues: yesterday to now; the timer is set once.
DefaultCustom == [from |-> Start - DayLength, to |-> Start]

ObsInit == /\ StoreInit
           /\ place = "observability"
           /\ activeRange = "day"
           /\ custom = DefaultCustom
           /\ status = "refreshing"
           /\ latestData = NoData
           /\ fetches = {Sent(1, Ask("day", DefaultCustom))}
           /\ failuresLeft = MaxFailedFetches
           /\ mayHappen \in ObsEventSets

-----------------------------------------------------------------------------
(* The administrator *)

\* A range button; the one for the custom range and "Apply" do the same.
ChooseRange(range) == /\ place = "observability"
                      /\ "ranges" \in mayHappen
                      /\ activeRange' = range
                      /\ LoadObservability(range, custom)
                      /\ UNCHANGED <<storeVars, place, custom, latestData, failuresLeft, mayHappen>>

TypeCustom(from, to) == /\ place = "observability"
                        /\ "custom" \in mayHappen
                        /\ custom' = [from |-> from, to |-> to]
                        /\ UNCHANGED <<storeVars, place, activeRange, status, latestData, fetches, failuresLeft, mayHappen>>

\* "Refresh" and the timer.  Mutant: they ask for the default range.
Refresh_Default == /\ place = "observability"
                   /\ LoadObservability("day", custom)
                   /\ UNCHANGED <<storeVars, place, activeRange, custom, latestData, failuresLeft, mayHappen>>
Refresh == /\ place = "observability"
           /\ LoadObservability(activeRange, custom)
           /\ UNCHANGED <<storeVars, place, activeRange, custom, latestData, failuresLeft, mayHappen>>

\* After a 401 the administrator logs in and opens the page again.
Return == /\ place = "login"
          /\ place' = "observability"
          /\ activeRange' = "day"
          /\ custom' = DefaultCustom
          /\ LoadObservability("day", DefaultCustom)
          /\ latestData' = NoData
          /\ UNCHANGED <<storeVars, failuresLeft, mayHappen>>

-----------------------------------------------------------------------------
(* The handler *)

Replaced(r, new) == (fetches \ {r}) \cup {new}

Parse(r) == /\ r.at = "sent"
            /\ LET range == ParsedRange(r.ask, clock)
               IN  fetches' = Replaced(r,
                     IF range.ok THEN [r EXCEPT !.at = "running", !.from = range.from, !.to = range.to]
                                 ELSE [r EXCEPT !.at = "answered", !.outcome = "failed"])
            /\ UNCHANGED <<storeVars, pageVars, failuresLeft, mayHappen>>

RunQuery(r) == /\ r.at = "running"
               /\ r.done < Len(Queries)
               /\ fetches' = Replaced(r, [r EXCEPT !.done = @ + 1,
                                                    !.stats = Answer(Queries[r.done + 1], r.from, r.to, @)])
               /\ UNCHANGED <<storeVars, pageVars, failuresLeft, mayHappen>>

Reply(r) == /\ r.at = "running"
            /\ r.done = Len(Queries)
            /\ fetches' = Replaced(r, [r EXCEPT !.at = "answered", !.outcome = "ok"])
            /\ UNCHANGED <<storeVars, pageVars, failuresLeft, mayHappen>>

\* A query or the network fails; the token has expired.
Fail(r) == /\ "failures" \in mayHappen
           /\ failuresLeft > 0
           /\ r.at # "answered"
           /\ failuresLeft' = failuresLeft - 1
           /\ \E o \in {"failed", "unauthorized"} :
                fetches' = Replaced(r, [Sent(r.slot, r.ask) EXCEPT !.at = "answered", !.outcome = o])
           /\ UNCHANGED <<storeVars, pageVars, mayHappen>>

\* The rest of loadObservability.  An error leaves the numbers as they are.
DeliverStats(r) ==
  /\ r.at = "answered"
  /\ IF r.outcome = "unauthorized"
       THEN /\ place' = "login"
            /\ fetches' = {}
            /\ UNCHANGED <<status, latestData>>
       ELSE /\ fetches' = fetches \ {r}
            /\ status' = IF r.outcome = "ok" THEN "ok" ELSE "error"
            /\ latestData' = IF r.outcome = "ok" THEN [ask |-> r.ask, stats |-> r.stats] ELSE latestData
            /\ UNCHANGED place
  /\ UNCHANGED <<storeVars, activeRange, custom, failuresLeft, mayHappen>>

-----------------------------------------------------------------------------
(* The tables meanwhile *)

Touched(r, S) == r.at = "running" /\ \E x \in S : r.from <= x.at /\ x.at < r.to

StoreRow == /\ \/ "rows" \in mayHappen /\ \E at \in clock - MaxRun..clock, kind \in Executions : Store(Execution(at, kind))
               \/ "logins" \in mayHappen /\ \E ip \in IPs \ {NoIP} : Store(FailedLogin(ip))
            /\ fetches' = {[r EXCEPT !.stored = @ \/ Touched(r, rows' \ rows)] : r \in fetches}
            /\ UNCHANGED <<pageVars, failuresLeft, mayHappen>>

PruneRows == /\ "rows" \in mayHappen
             /\ Prune
             /\ fetches' = {[r EXCEPT !.pruned = @ \/ Touched(r, rows \ rows')] : r \in fetches}
             /\ UNCHANGED <<pageVars, failuresLeft, mayHappen>>

TimePasses == /\ mayHappen \cap {"rows", "logins"} # {}
              /\ StoreTick
              /\ UNCHANGED <<pageVars, fetches, failuresLeft, mayHappen>>

-----------------------------------------------------------------------------
ObsNext == \/ \E range \in Ranges : ChooseRange(range)
           \/ \E from, to \in CustomInputs : TypeCustom(from, to)
           \/ Refresh
           \/ Return
           \/ \E r \in fetches : Parse(r) \/ RunQuery(r) \/ Reply(r) \/ Fail(r)
           \/ \E r \in fetches : DeliverStats(r)
           \/ StoreRow
           \/ PruneRows
           \/ TimePasses

\* The interval fires, and the server and the network answer.
ObsFairness == /\ WF_obsVars(Refresh)
               /\ \A s \in 1..MaxFetches :
                    /\ WF_obsVars(\E r \in fetches : r.slot = s /\ (Parse(r) \/ RunQuery(r) \/ Reply(r)))
                    /\ WF_obsVars(\E r \in fetches : r.slot = s /\ DeliverStats(r))

ObsSpec == ObsInit /\ [][ObsNext]_obsVars /\ ObsFairness

-----------------------------------------------------------------------------
(* What render makes of an answer *)

\* Math.round(part * 100 / total), which rounds halves up.  The whole is the
\* sum of the two counts, not the total of the answer.
Percent(part, total) == IF total = 0 THEN 0 ELSE (200 * part + total) \div (2 * total)
\* Mutant: the total.
SuccessPct_OfTotal(stats) == Percent(stats.success, stats.total)
SuccessPct(stats) == Percent(stats.success, stats.success + stats.error)
ErrorPct(stats) == Percent(stats.error, stats.success + stats.error)

\* drawHourlyChart: the plot leaves a margin; hour i of n is drawn i / (n - 1)
\* of its width from the left, a count count / maxY of its height from below.
\* Lengths are multiplied by these denominators to keep them whole.
Pad == [left |-> 52, right |-> 18, top |-> 20, bottom |-> 42]
AtLeast1(n) == IF n < 1 THEN 1 ELSE n
PlotWidth(w) == AtLeast1(w - Pad.left - Pad.right)
PlotHeight(h) == AtLeast1(h - Pad.top - Pad.bottom)

Hours(points) == [i \in 0..Cardinality(DOMAIN points) - 1 |->
                   CHOOSE t \in DOMAIN points : Cardinality({u \in DOMAIN points : u < t}) = i]
MaxY(points) == CHOOSE m \in {1} \cup Range(points) : \A x \in {1} \cup Range(points) : x <= m

Steps(n) == IF n = 1 THEN 1 ELSE n - 1
XFor(i, n, w) == Pad.left * Steps(n) + (IF n = 1 THEN 0 ELSE PlotWidth(w) * i)
YFor(count, points, h) == (Pad.top + PlotHeight(h)) * MaxY(points) - count * PlotHeight(h)

LabelIndexes(n) == {0, n \div 2, n - 1}

-----------------------------------------------------------------------------
(* Properties *)

\* The type invariant of the page and of the store behind it.
ObsTypeOK == /\ clock \in Start..MaxClock
             /\ nextId \in 1..MaxRows + 1
             /\ Cardinality(rows) <= nextId
             /\ place \in {"observability", "login"}
             /\ activeRange \in Ranges
             /\ custom \in [from : CustomInputs, to : CustomInputs] \cup {DefaultCustom}
             /\ status \in {"refreshing", "ok", "error"}
             /\ \A r \in fetches : /\ r.ask.range \in Ranges
                                   /\ r.done \in 0..Len(Queries)
                                   /\ r.at \in {"sent", "running", "answered"}
                                   /\ r.at = "running" => r.from < r.to
             /\ Cardinality(fetches) <= MaxFetches
             /\ failuresLeft \in 0..MaxFailedFetches

\* The numbers of one answer, from queries at different moments
\* (db.go:353-399): an execution stored in between is in the later ones only,
\* so that no number falls short of an earlier one unless rows were pruned;
\* and when nothing of the range came or went they agree exactly, the hours
\* of the chart with the total, the addresses with their count and the
\* failures per address with their number.
NumbersAgree ==
  \A r \in fetches : r.outcome = "ok" =>
    LET s == r.stats
    IN  /\ ~r.pruned => /\ s.total <= s.success + s.error
                        /\ s.success + s.error <= s.average
                        /\ s.average <= SumFunction(s.hourly)
                        /\ s.ipCount <= Cardinality(DOMAIN s.ips)
                        /\ SumFunction(s.ips) <= SumFunction(s.hourly)
        /\ ~r.pruned /\ ~r.stored =>
             /\ s.total = s.success + s.error
             /\ s.total = SumFunction(s.hourly)
             /\ s.ipCount = Cardinality(DOMAIN s.ips)
             /\ s.failedTotal = SumFunction(s.failedIPs)
             /\ s.recent = Least(RecentLimit, s.failedTotal)

\* What is drawn stays in its place whatever the answer (observability.js:
\* 92-98, 135-202): the bars add up to 100, or 101 where both halves are
\* rounded up; the line begins at the left margin, ends at the right one,
\* goes from left to right and stays within the plot, also for one hour and
\* on a canvas smaller than its margins; labels name hours there are.
PictureFits ==
  latestData # NoData =>
    LET s == latestData.stats
        points == s.hourly
        n == Cardinality(DOMAIN points)
    IN  /\ SuccessPct(s) + ErrorPct(s) \in (IF s.success + s.error = 0 THEN {0} ELSE {100, 101})
        /\ n > 0
        /\ LabelIndexes(n) \subseteq DOMAIN Hours(points)
        /\ \A w \in Widths :
             /\ XFor(0, n, w) = Pad.left * Steps(n)
             /\ n > 1 => XFor(n - 1, n, w) = (Pad.left + PlotWidth(w)) * Steps(n)
             /\ \A i \in 1..n - 1 : /\ XFor(i - 1, n, w) < XFor(i, n, w)
                                   /\ Hours(points)[i - 1] < Hours(points)[i]
        /\ \A h \in Heights, t \in DOMAIN points :
             LET y == YFor(points[t], points, h)
             IN  Pad.top * MaxY(points) <= y /\ y <= (Pad.top + PlotHeight(h)) * MaxY(points)

\* The page settles: when the administrator stays with a range (the custom one
\* the page begins with included), its numbers are shown in the end and stay, whatever
\* answers of earlier ranges arrive late (observability.js:67-82, 204-207).
Wanted(ask) == place = "observability" /\ Ask(activeRange, custom) = ask
Acceptable == {ask \in {Ask(range, DefaultCustom) : range \in Ranges} : ParsedRange(ask, Start).ok}
RangeSettles ==
  \A ask \in Acceptable : <>[](Wanted(ask)) => <>[](latestData.ask = ask)
=============================================================================
