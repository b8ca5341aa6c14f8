----------------------------- MODULE AdminPanel -----------------------------
(***************************************************************************)
(* admin.js: the panel with its status and logs views, polled every five   *)
(* seconds, its filters, its two detail dialogs and the query parameters   *)
(* that restore it, together with the requests it has under way and the    *)
(* access they need.                                                       *)
(*                                                                         *)
(* The server's log and history are numbered entries; a list of them, as   *)
(* it is always shown newest first, is the set of its entries.             *)
(* Requests that are equal while under way count as one.  Rows are what    *)
(* the tables show; "current" is the index list a click on a row uses.     *)
(* Which kinds of event a behaviour may have is chosen at the start        *)
(* (happens), so that a run can take them a few at a time; a log that is   *)
(* not written to is full from the start.                                  *)
(***************************************************************************)
EXTENDS AdminAccess, AdminDetails, FiniteSets

CONSTANTS Levels,         \* options of the level filter, AllLevels among them
          Limits,         \* values the limit inputs may take
          DefaultLimit,   \* the value they have in the page
          MaxLimit,       \* most entries the server gives at once, 500
          FallbackLimit,  \* what it gives when asked for more, 100
          MaxRequests,    \* bound on requests under way
          MaxLogs,        \* bound on log entries
          HistorySize,    \* executions in the history
          MaxFailures,    \* bound on answers that fail
          EventSets       \* candidate values of happens

Views == {"status", "logs"}
NoView == "none"
AllLevels == "all"    \* the option whose value is empty
Kinds == {"stats", "history", "logs"}
Dialogs == {"history", "logs"}

ASSUME PanelAssumption == /\ AllLevels \in Levels
                          /\ Limits \subseteq Nat \ {0}
                          /\ DefaultLimit \in Limits
                          /\ MaxLimit \in Nat
                          /\ FallbackLimit \in Nat
                          /\ MaxRequests \in Nat
                          /\ MaxLogs \in Nat
                          /\ HistorySize \in Nat
                          /\ MaxFailures \in Nat

VARIABLES page,           \* "login" or "admin"
          hidden,         \* document.hidden
          view,           \* currentView
          timers,         \* intervals that run
          handle,         \* refreshTimer is set
          caption,        \* the view the refresh status names, or NoView
          picked,         \* the inputs: level, logsLimit, historyLimit
          url,            \* the query parameters, absent ones AllLevels, NoView or 0
          table,          \* per kind: body, rows, current, meta, first
          dialog,         \* per dialog: the entry it shows, or Closed
          scrollLocked,   \* body.style.overflow is 'hidden'
          requests,       \* requests under way, answered or not
          logCount,       \* entries in the server's log
          failures,       \* failures left
          happens         \* kinds of event this behaviour may have

polling == <<timers, handle, caption>>
screen == <<table, dialog, scrollLocked>>
server == <<logCount, failures, happens>>
vars == <<accessVars, page, hidden, view, polling, picked, url, screen, requests, server>>

Closed == 0
NoMeta == [count |-> -1, level |-> AllLevels]
NoUrl == [view |-> NoView, level |-> AllLevels, logsLimit |-> 0, historyLimit |-> 0]
DefaultPicked == [level |-> AllLevels, logsLimit |-> DefaultLimit, historyLimit |-> DefaultLimit]

\* A table before its first answer.
FreshTable == [body |-> "blank", rows |-> {}, current |-> {}, meta |-> NoMeta, first |-> TRUE]

\* What is left of the panel when another page has replaced it.
PanelGone == /\ view' = "status"
             /\ timers' = 0
             /\ handle' = FALSE
             /\ caption' = NoView
             /\ picked' = DefaultPicked
             /\ url' = NoUrl
             /\ table' = [k \in Kinds |-> FreshTable]
             /\ dialog' = [d \in Dialogs |-> Closed]
             /\ scrollLocked' = FALSE
             /\ requests' = {}

Init == /\ AccessInit
        /\ page = "login"
        /\ hidden = FALSE
        /\ view = "status"
        /\ timers = 0
        /\ handle = FALSE
        /\ caption = NoView
        /\ picked = DefaultPicked
        /\ url = NoUrl
        /\ table = [k \in Kinds |-> FreshTable]
        /\ dialog = [d \in Dialogs |-> Closed]
        /\ scrollLocked = FALSE
        /\ requests = {}
        /\ failures = MaxFailures
        /\ happens \in EventSets
        /\ logCount = IF "entries" \in happens THEN 0 ELSE MaxLogs

-----------------------------------------------------------------------------
(* What the server answers *)

Entries == 1..(MaxLogs + HistorySize)
LevelOf(entry) == IF entry % 2 = 0 THEN "error" ELSE "info"

\* A limit out of range, which the page's inputs may well name, is replaced.
ServerLimit(limit) == IF limit <= 0 \/ limit > MaxLimit THEN FallbackLimit ELSE limit
Newest(limit, S) == {e \in S : Cardinality({x \in S : x > e}) < ServerLimit(limit)}

RecentLogs(level, limit) ==
  Newest(limit, {e \in 1..logCount : level = AllLevels \/ LevelOf(e) = level})

AnswerRows(r) ==
  CASE r.kind = "logs"    -> RecentLogs(r.level, r.limit)
    [] r.kind = "history" -> Newest(r.limit, 1..HistorySize)
    [] r.kind = "stats"   -> {}

-----------------------------------------------------------------------------
(* Sending requests *)

Unanswered == [is |-> "none", rows |-> {}]

Request(k, p) == [kind |-> k,
                  level |-> IF k = "logs" THEN p.level ELSE AllLevels,
                  limit |-> CASE k = "logs" -> p.logsLimit
                              [] k = "history" -> p.historyLimit
                              [] k = "stats" -> 0,
                  token |-> PresentedToken(header, cookie),
                  answer |-> Unanswered]

\* loadStats, loadHistory and loadLogs up to their fetch, with the inputs p.
Load(kinds, p, reqs) == reqs \cup {Request(k, p) : k \in kinds}
Loading(kinds, tables) ==
  [k \in Kinds |-> IF k \in kinds /\ tables[k].first THEN [tables[k] EXCEPT !.body = "loading", !.rows = {}]
                                                     ELSE tables[k]]

KindsOf(v) == IF v = "status" THEN {"stats", "history"} ELSE {"logs"}
DialogOpen == \E d \in Dialogs : dialog[d] # Closed

\* Mutant of Refreshed: the second branch of unifiedRefresh is missing.
Refreshed_StatusOnly(v) == IF DialogOpen \/ v # "status" THEN {} ELSE KindsOf(v)
Refreshed(v) == IF DialogOpen THEN {} ELSE KindsOf(v)

Send(kinds, p) == /\ Cardinality(requests) + Cardinality(kinds) <= MaxRequests
                  /\ requests' = Load(kinds, p, requests)
                  /\ table' = Loading(kinds, table)

\* startUnifiedAutoRefresh without its refresh.  Mutant: it does not stop
\* the interval that runs.
RestartTimer_NoStop(v) == /\ timers' = timers + 1
                          /\ handle' = TRUE
                          /\ caption' = v
RestartTimer(v) == /\ timers' = (IF handle THEN timers - 1 ELSE timers) + 1
                   /\ handle' = TRUE
                   /\ caption' = v

StopTimer == /\ timers' = IF handle THEN timers - 1 ELSE timers
             /\ handle' = FALSE
             /\ UNCHANGED caption

-----------------------------------------------------------------------------
(* The page loads and goes *)

RestoredView(u) == IF u.view = "logs" THEN "logs" ELSE "status"

\* Mutant of Restored: it does not ask whether there is a limit to restore.
Restored_NotAsked(u) == [level |-> IF u.level \in Levels THEN u.level ELSE AllLevels,
                         logsLimit |-> u.logsLimit,
                         historyLimit |-> DefaultLimit]
Restored(u) == [level |-> IF u.level \in Levels THEN u.level ELSE AllLevels,
                logsLimit |-> IF u.logsLimit # 0 THEN u.logsLimit ELSE DefaultLimit,
                historyLimit |-> DefaultLimit]

\* initAdmin, then the second handler of DOMContentLoaded: the status view is
\* loaded first, whatever the parameters say, and the interval's caption is
\* not written again.  Nothing is restored of historyLimit.
LoadPage(u) ==
  LET p == Restored(u)
      v == RestoredView(u)
      kinds == KindsOf("status") \cup KindsOf(v)
  IN  /\ page' = "admin"
      /\ view' = v
      /\ timers' = 1
      /\ handle' = TRUE
      /\ caption' = "status"
      /\ picked' = p
      /\ url' = [u EXCEPT !.view = v, !.level = p.level, !.logsLimit = p.logsLimit]
      /\ table' = Loading(kinds, [k \in Kinds |-> FreshTable])
      /\ dialog' = [d \in Dialogs |-> Closed]
      /\ scrollLocked' = FALSE
      /\ requests' = Load(kinds, p, {})

\* GET /admin: served to a browser with a good cookie, else redirected.
OpenAdmin(u) ==
  /\ IF PageGranted THEN LoadPage(u) ELSE page' = "login" /\ PanelGone
  /\ UNCHANGED <<accessVars, hidden, server>>

Visit == page = "login" /\ OpenAdmin(NoUrl)
Reload == page = "admin" /\ OpenAdmin(url)

\* The login page's script goes on to /admin when it was let in.
LogInHere == /\ page = "login"
             /\ issued = 0 \/ "sessions" \in happens
             /\ LogIn
             /\ UNCHANGED <<page, hidden, view, polling, picked, url, screen, requests, server>>

-----------------------------------------------------------------------------
(* What the administrator does, on a page in front.  A dialog covers the   *)
(* rows, but the keyboard still reaches the controls behind it.            *)

AtHand == page = "admin" /\ ~hidden

SwitchTo(v) == /\ AtHand
               /\ view' = v
               /\ url' = [url EXCEPT !.view = v]
               /\ RestartTimer(v)
               /\ Send(Refreshed(v), picked)
               /\ UNCHANGED <<accessVars, page, hidden, picked, dialog, scrollLocked, server>>

Change(p, u, k) == /\ AtHand
                   /\ picked' = p
                   /\ url' = u
                   /\ Send({k}, p)
                   /\ UNCHANGED <<accessVars, page, hidden, view, polling, dialog, scrollLocked, server>>

\* Mutant of PickLevel: the second listener, which writes the parameter, is
\* not attached.
PickLevel_UrlForgotten(l) == /\ view = "logs"
                             /\ "levels" \in happens
                             /\ l # picked.level
                             /\ Change([picked EXCEPT !.level = l], url, "logs")
PickLevel(l) == /\ view = "logs"
                /\ "levels" \in happens
                /\ l # picked.level
                /\ Change([picked EXCEPT !.level = l], [url EXCEPT !.level = l], "logs")

PickLogsLimit(n) == /\ view = "logs"
                    /\ "limits" \in happens
                    /\ n # picked.logsLimit
                    /\ Change([picked EXCEPT !.logsLimit = n], [url EXCEPT !.logsLimit = n], "logs")

PickHistoryLimit(n) == /\ view = "status"
                       /\ "limits" \in happens
                       /\ n # picked.historyLimit
                       /\ Change([picked EXCEPT !.historyLimit = n], [url EXCEPT !.historyLimit = n], "history")

\* The refresh button of one table.
RefreshButton(k) == /\ k \in KindsOf(view)
                    /\ Change(picked, url, k)

\* The row of an entry is clicked: its place in the table picks the entry
\* from the list of the last answer, if that has so many.
Place(e, list) == Cardinality({x \in list : x > e})

ShowDetails(d, e) == /\ AtHand /\ ~DialogOpen
                     /\ d \in KindsOf(view)
                     /\ "dialogs" \in happens
                     /\ e \in table[d].rows
                     /\ \E x \in table[d].current :
                          /\ Place(x, table[d].current) = Place(e, table[d].rows)
                          /\ dialog' = [dialog EXCEPT ![d] = x]
                     /\ scrollLocked' = TRUE
                     /\ UNCHANGED <<accessVars, page, hidden, view, polling, picked, url, table, requests, server>>

\* Escape closes both dialogs, the cross or the backdrop the one in front.
CloseDialogs == /\ AtHand /\ DialogOpen
                /\ dialog' = [d \in Dialogs |-> Closed]
                /\ scrollLocked' = FALSE
                /\ UNCHANGED <<accessVars, page, hidden, view, polling, picked, url, table, requests, server>>

Hide == /\ "hiding" \in happens
        /\ ~hidden
        /\ hidden' = TRUE
        /\ StopTimer
        /\ UNCHANGED <<accessVars, page, view, picked, url, screen, requests, server>>

Show == /\ hidden
        /\ hidden' = FALSE
        /\ IF page = "admin"
             THEN RestartTimer(view) /\ Send(Refreshed(view), picked)
             ELSE UNCHANGED <<polling, table, requests>>
        /\ UNCHANGED <<accessVars, page, view, picked, url, dialog, scrollLocked, server>>

-----------------------------------------------------------------------------
(* The timer and the network *)

Tick == /\ page = "admin"
        /\ timers > 0
        /\ Send(Refreshed(view), picked)
        /\ UNCHANGED <<accessVars, page, hidden, view, polling, picked, url, dialog, scrollLocked, server>>

MayFail == "failures" \in happens /\ failures > 0
Outcomes(r) == IF Accepted(r.token) THEN {"ok"} \cup {o \in {"failed"} : MayFail}
                                    ELSE {"unauthorized"}

Serve(r) == /\ r.answer = Unanswered
            /\ \E o \in Outcomes(r) :
                 /\ requests' = (requests \ {r})
                      \cup {[r EXCEPT !.answer = [is |-> o, rows |-> IF o = "ok" THEN AnswerRows(r) ELSE {}]]}
                 /\ failures' = IF o = "failed" THEN failures - 1 ELSE failures
            /\ UNCHANGED <<accessVars, page, hidden, view, polling, picked, url, screen, logCount, happens>>

\* Mutants: the caption names the level selected when the answer arrives; the
\* index list is set only when there are rows.
Applied_SelectedLevel(k, r, t) ==
  [t EXCEPT !.body = "rows", !.rows = r.answer.rows, !.first = FALSE,
            !.current = IF k = "stats" THEN {} ELSE r.answer.rows,
            !.meta = [count |-> Cardinality(r.answer.rows), level |-> IF k = "logs" THEN picked.level ELSE AllLevels]]
Applied_ListKept(k, r, t) ==
  [t EXCEPT !.body = "rows", !.rows = r.answer.rows, !.first = FALSE,
            !.current = IF k = "stats" \/ r.answer.rows = {} THEN @ ELSE r.answer.rows,
            !.meta = [count |-> Cardinality(r.answer.rows), level |-> r.level]]

\* The part of the loaders after their fetch.  The caption of the log names
\* the filter of its request, not the one selected since; statistics keep no
\* index list.
Applied(k, r, t) ==
  [t EXCEPT !.body = "rows", !.rows = r.answer.rows, !.first = FALSE,
            !.current = IF k = "stats" THEN {} ELSE r.answer.rows,
            !.meta = [count |-> Cardinality(r.answer.rows), level |-> r.level]]

\* Their catch blocks: rows that were loaded stay on the screen, but no click
\* reaches an entry until the next answer.
NotApplied(k, t) ==
  [t EXCEPT !.body = IF t.first THEN "error" ELSE @,
            !.current = {},
            !.meta = IF k = "logs" THEN NoMeta ELSE @]

Deliver(r) ==
  /\ r.answer # Unanswered
  /\ IF r.answer.is = "unauthorized"
       THEN page' = "login" /\ PanelGone
       ELSE /\ requests' = requests \ {r}
            /\ table' = [table EXCEPT ![r.kind] = IF r.answer.is = "ok" THEN Applied(r.kind, r, @)
                                                                         ELSE NotApplied(r.kind, @)]
            /\ UNCHANGED <<page, view, polling, picked, url, dialog, scrollLocked>>
  /\ UNCHANGED <<accessVars, hidden, server>>

\* Anything the server does may write to its log.
WriteLog == /\ "entries" \in happens
            /\ logCount < MaxLogs
            /\ logCount' = logCount + 1
            /\ UNCHANGED <<accessVars, page, hidden, view, polling, picked, url, screen, requests, failures, happens>>

Sessions == /\ "sessions" \in happens
            /\ LogInElsewhere \/ Expire \/ (page = "login" /\ NewTab)
            /\ UNCHANGED <<page, hidden, view, polling, picked, url, screen, requests, server>>

-----------------------------------------------------------------------------
User == \/ \E v \in Views : SwitchTo(v)
        \/ \E l \in Levels : PickLevel(l)
        \/ \E n \in Limits : PickLogsLimit(n)
        \/ \E n \in Limits : PickHistoryLimit(n)
        \/ \E k \in Kinds : RefreshButton(k)
        \/ \E d \in Dialogs, e \in Entries : ShowDetails(d, e)
        \/ CloseDialogs
        \/ Hide
        \/ Show
        \/ LogInHere
        \/ Visit
        \/ Reload

Next == \/ User
        \/ Tick
        \/ \E r \in requests : Serve(r)
        \/ \E r \in requests : Deliver(r)
        \/ WriteLog
        \/ Sessions

\* The interval fires while it is set, and the server and the network answer.
Fairness == /\ WF_vars(Tick)
            /\ WF_vars(\E r \in requests : Serve(r))
            /\ WF_vars(\E r \in requests : Deliver(r))

Spec == Init /\ [][Next]_vars /\ Fairness

-----------------------------------------------------------------------------
(* Properties *)

\* The type invariant.
TypeOK == /\ AccessTypeOK
          /\ page \in {"login", "admin"}
          /\ hidden \in BOOLEAN /\ handle \in BOOLEAN /\ scrollLocked \in BOOLEAN
          /\ view \in Views /\ caption \in Views \cup {NoView}
          /\ timers \in Nat
          /\ picked \in [level : Levels, logsLimit : Limits, historyLimit : Limits]
          /\ url \in [view : Views \cup {NoView}, level : Levels,
                      logsLimit : Limits \cup {0}, historyLimit : Limits \cup {0}]
          /\ dialog \in [Dialogs -> Entries \cup {Closed}]
          /\ logCount \in 0..MaxLogs /\ failures \in 0..MaxFailures
          /\ \A k \in Kinds : table[k].rows \subseteq Entries /\ table[k].current \subseteq Entries
          /\ \A r \in requests : r.kind \in Kinds /\ r.answer.rows \subseteq Entries

\* Exactly one interval runs while the panel is in front: neither the view
\* buttons nor returning to the tab start a second one that nothing stops
\* (startUnifiedAutoRefresh stops first, admin.js:137), and a panel that was
\* hidden polls again (admin.js:262).
OneTimer == /\ handle = (timers = 1)
            /\ timers \in {0, 1}
            /\ page = "admin" /\ ~hidden => timers = 1
            /\ page = "login" => timers = 0

\* A click on a row shows that row's entry or nothing (admin.js:73,108,218):
\* rows and index list are those of the same answer although the answers of
\* overlapping requests arrive in any order and some fail; and the log's
\* caption gives the number and the filter of the rows below it, not of what
\* is selected (admin.js:105).
RowsAgree ==
  /\ \A k \in Dialogs : table[k].current \in {{}, table[k].rows}
  /\ LET t == table["logs"]
     IN  t.meta # NoMeta => /\ t.meta.count = Cardinality(t.rows)
                            /\ t.meta.level # AllLevels => \A e \in t.rows : LevelOf(e) = t.meta.level

\* Page and address agree (admin.js:278-305), so that a reload shows the view,
\* filter and limit it had.  The history's limit is the exception: it is
\* written to the address and never read.
UrlTells == page = "admin" => /\ url.view = view
                              /\ url.level = picked.level
                              /\ Restored(url).logsLimit = picked.logsLimit

\* A dialog shows every field of its entry once, whatever fields it has, and
\* says FAILED of exactly the executions with an error message
\* (admin.js:179-216); the page behind scrolls again when no dialog is open.
DialogsAgree ==
  /\ scrollLocked = DialogOpen
  /\ \A d \in Dialogs : dialog[d] # Closed =>
       LET failed == dialog[d] % 2 = 0
           record == IF d = "logs" THEN LogRecord(LevelOf(dialog[d])) ELSE HistoryRecord(failed, ~failed)
           shown  == IF d = "logs" THEN LogDetails(record) ELSE ContainerDetails(record)
       IN  /\ Keys(shown.fields) = Keys(record)
           /\ Len(shown.fields) = Len(record)
           /\ d = "history" => (shown.badge = "FAILED") = failed

\* What the page shows can be had again after a reload, and a dialog leaves
\* nothing of itself behind (admin.js:218-221, 266-306).
PageAgrees == UrlTells /\ DialogsAgree

\* A panel goes back to the login page only because a token has expired: its
\* own, which hides a newer cookie (jwt.go:62-73), or, in a tab that has none,
\* the cookie a request was sent with.
BouncedOnlyWhenExpired ==
  [][page = "admin" /\ page' = "login" => IF header # NoToken THEN header <= expired ELSE expired > 0]_vars

\* The log in front settles: when the administrator stays with one filter and
\* does not reload, the answers of earlier requests, however late, are
\* replaced by what the server has, as many entries as it gives for that limit
\* (admin.js:88-135, logger.go:185-201).
Attending(l, n) == /\ page = "admin" /\ ~hidden /\ ~DialogOpen /\ view = "logs"
                   /\ picked.level = l /\ picked.logsLimit = n
Settled(l, n) == LET t == table["logs"]
                 IN  t.body = "rows" /\ t.rows = RecentLogs(l, n) /\ t.current = t.rows
LogSettles == \A l \in Levels, n \in Limits :
                <>[](Attending(l, n)) /\ <>[][~Reload]_vars => <>[](Settled(l, n))
=============================================================================
