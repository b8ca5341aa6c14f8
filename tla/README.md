# compilerOnline, specified

TLA+ modules, TLC configurations and TLAPS proofs for compilerOnline: a Go
server that takes a program over HTTP, compiles and runs it in a Kata container
of its own, returns what it printed, keeps a history in SQLite and shows it on
an admin panel and an observability page; the pages it serves; and the runtime
library of the language the programs are written in.

Line numbers refer to the sources under `src/`.

## 1. The system

| Part | State | Operations | What makes it correct |
|---|---|---|---|
| Concurrency limiter (`concurrency_limiter.go`) | limits, running total, map of running calls per address | `tryAcquire`, one release closure per granted call | the counters are the slots really held; limits hold; a second release does nothing |
| Rate limiter (`rate_limiter.go`) | token bucket per address | `allow`, `cleanupLoop`, `rateLimitMiddleware` | never more admitted than burst plus rate; a denied client earns its token; idle buckets go |
| Sandbox (`compileit.go`) | containers and tasks in containerd, output buffers, timers; cached client and images | `execInKata`, `ensureBaseImage` | every run ends, nothing is left behind, the result says what happened |
| Compile handler (`main.go`) | one goroutine per request, the slot it holds | `compileHandler`, `execInKataWithHistory` | what runs stays within the limits; records, answers and slots agree |
| History store (`db.go`) | tables `containers`, `admin_login_failures` | migration, retention, inserts, lists | the schema fits the queries; rows go by age and for no other reason |
| Observability queries (`db.go`, `main.go`) | none | `parseObservabilityRange`, `getObservabilityStats` | numbers of one answer agree as far as queries without a common snapshot can |
| Log store (`logger.go`) | table `logs` | `Write`, retention, list | as the history store |
| Admin access (`jwt.go`, `adminLogin.html`) | signing secret; a cookie in the browser, a token in each tab | login, `requireAdmin` | only an unexpired admin token passes, and nobody is sent to the login without an expiry |
| Configuration, startup (`env.go`, `main.go`) | settings | `LoadConfig`, `main` | nothing is served before it is ready |
| Admin panel (`admin.js`) | view, filters, one interval, tables with index lists, two dialogs, query parameters, requests under way | refresh, view buttons, filters, dialogs, hiding the tab | one timer; rows, dialogs, caption and address belong together; the log settles |
| Observability page (`observability.js`) | range, custom inputs, last answer, requests under way | range buttons, refresh, drawing | the range chosen last is shown; the chart stays in its place |
| Compiler page (`compiler.js`, `compiler.html`) | editor, examples, status and output, panels | run, reset, load, search, zoom, tabs | status and output agree however runs overlap; one mark, of the active example |
| Home page (`examples.js`, `index.html`) | carousel with its interval, tab, code window | dots, tabs, expand, close | one interval although two scripts start it; the page is locked only under the window |
| Navigation (`shared.js`) | menu, its document listeners, focus | toggle, Escape, Tab, swipe, resize | whatever closes the menu undoes all of opening it |
| Library (`lang/liblang/*.lang`) | the break with its headers, thread ids | `brk`, `freeBrk`, thread creation and join, files, strings | blocks keep to themselves, memory goes back, a join waits |

How they interact. A request to `/compile` passes the middleware's rate
limiter, takes a slot of the concurrency limiter, runs `execInKata` in its own
goroutine, is stored in `containers` and answered; the slot goes back through
`defer`. containerd and the program in the container run on their own and are
seen only through the exit channel, the output buffers and the results of
calls. Background goroutines evict idle buckets every five minutes and prune
the tables every day. The admin panel polls the server every five seconds, the
observability page every thirty; their answers arrive in any order, and a 401
sends them to the login page. The header's menu hears clicks and keys on every
public page before the page does. The service manager restarts the server when it dies; SQLite and containerd keep
what they had.

What is hard here: goroutines that use a clock reading after waiting for a
mutex; two timers racing an exit that is reported by another goroutine;
deferred calls whose errors nobody sees; a crash that forgets the slots but not
the containers; a migration that may break off anywhere; statistics gathered
while rows come and go; pages whose answers, timers and listeners interleave. `PROJECT.json` lists each hazard at its line with the
properties that watch it.

## 2. Modules

| Module | Models | Extends or composes |
|---|---|---|
| `SlotPool` | what the concurrency limiter promises: a pool of slots without counters | |
| `ConcurrencyLimiter` | `concurrency_limiter.go` | implements `SlotPool` |
| `ConcurrencyLimiterProofs` | theorems about it | |
| `RateLimiter` | `rate_limiter.go` | |
| `RateLimiterProofs` | theorems about it | |
| `Sandbox` | `execInKata` and the containerd it relies on | |
| `SandboxProofs` | theorems about it | |
| `CompileService` | `POST /compile`, with crashes of the server | `ConcurrencyLimiter`, `Sandbox` |
| `CompileServiceProofs` | theorems about it | `ConcurrencyLimiterProofs`, `SandboxProofs` |
| `HistoryStore` | `db.go`: start, migration, retention, inserts | |
| `HistoryStoreProofs` | theorems about it | |
| `Heap` | what a program expects of `brk` and `freeBrk` | |
| `BrkHeap` | the allocator of `mem.lang` | implements `Heap` |
| `BrkHeapProofs` | theorems about it | |
| `AdminAccess` | `jwt.go`, the login page's script: tokens, cookie and header | |
| `AdminDetails` | `formatLogForDisplay`, `formatContainerForDisplay` of `admin.js` | |
| `AdminPanel` | `admin.js` with the handlers it asks | `AdminAccess`, `AdminDetails` |
| `ObservabilityStats` | range parsing and the queries of `db.go` | |
| `ObservabilityPage` | `observability.js` with the handler behind it | `ObservabilityStats` |
| `AdminPagesProofs` | theorems about the panel and the observability page | `AdminPanel`, `ObservabilityPage` |
| `Navigation` | `shared.js` | |
| `CompilerPage` | `compiler.js`, the script of `compiler.html` | |
| `HomePage` | `examples.js`, the script of `index.html` | |
| `Site` | the public pages in one window | `Navigation`, `CompilerPage`, `HomePage` |
| `SiteProofs` | theorems about it | |
| `MC...` | small instances of the module they are named after | |

In each module the operators named `<Definition>_<Slip>` are mutants: the
definition with a plausible slip in it. No specification uses them; putting one
in place of its definition must break the property `PROJECT.json` pairs it
with.

### ConcurrencyLimiter

`total`, `perIP`, `maxTotal` and `maxPerIP` are the fields of the struct.
`slot[c]` is what call `c` has in its hands: nothing yet, a release closure not
yet used, one used up, or nil; `key[c]` is the address the closure captured.
The code under the mutex is one action: `Grant`, `RefuseTotal`, `RefusePerIP`
(together `TryAcquire`) and `Release`, whose second form is the closure called
again. An empty address counts as "unknown", negative limits as none.
The numbers `tryAcquire` returns for the log are left out.

`SlotPool` has only the calls that hold a slot and lets a call be refused only
when a limit is reached by slots really held; `PoolSpec` says that the code with its
counters implements it.

### RateLimiter

`allow` and `cleanupLoop` read the clock before they take the mutex, so each is
two actions (`ReadClock`/`Allow`, `ReadCutoff`/`Evict`) and a reading may be
used late and after a newer one. Time is counted in ticks, tokens in fractions
of which a tick refills a whole number, so the arithmetic is exact where the
code uses `float64`. `MaxDelay` bounds how long a reading waits. Three history
variables count admissions from a chosen moment on; no action reads them.

Assumption: buckets are full again before they can be evicted. It holds for
every default in `env.go` and is the one thing the ten-minute eviction relies
on. A configuration with a burst above ten minutes' worth of tokens (burst 20
at one a minute) breaks `WindowBound`: `cleanupLoop` looks at the age of a
bucket only, so an idle address gets a fresh burst too early.

### Sandbox

`pc[e]` walks through `execInKata`; `box` is containerd's list of containers
with the state of each task, the last signal sent to it and the execution that
owns it. `faults` is the set of calls that may fail in a behaviour (creating,
waiting, starting, the exit channel, SIGKILL, the deferred deletes), chosen at
the start from `FaultSets`. A timer may expire at any moment, before or after the exit is
reported, and both cases of a `select` may be ready. A `return` fixes the
result; the deferred deletes follow as steps of their own, in the order of the
code, and containerd refuses them as it really does: no task that has not
stopped, no container that has a task. A delete may also fail of itself; its
error goes nowhere. A program ends well, badly (a script that fails, a program
killed at its memory or CPU-time limit) or by a signal. Snapshots have no place
of their own: a delete whose cleanup of the snapshot fails counts as failed. Output is written by the program, copied
by containerd's goroutines and read by `collect` without synchronisation:
`Collected` returns what was copied or one write more.

An execution may choose an id another one is using, as two readings of
`time.Now().UnixNano()` may agree.

### CompileService

`at[r]` is where the handler of request `r` is; `L` and `S` are instances of
the limiter and the sandbox on the same requests, and each action of the
handler is one of theirs with its own part added. `db` is the history,
`reply` the answer. What an execution knew is gone when its handler
leaves, and that of all of them after a crash. `Crash` ends every goroutine,
empties the limiter and leaves containers without an owner, and the database as
it was; `LeftBehind`
says that no request of a later process deletes, signals or takes over such a
container, although it may read its id from the clock again. The middleware
either lets a request in or not; when, is `RateLimiter`'s matter.

### HistoryStore

`stage` is what `initDB` is at; `tx` is the new table in the open transaction,
which a failure or a crash discards. Columns are told apart in four groups:
those every release had, the texts, the address, and anything else. `pruneOld`
is two deletes, each of which may fail, at the start and once a period, while
executions are inserted under the time they began. A tick is longer than a
start or a pruning takes; the server may be down for any number of ticks. The
retention is not zero and no run of a program takes longer.

### BrkHeap

Addresses are byte numbers. `piece` holds the headers that are in memory,
`live` the blocks the program holds; `kernelBreak` is the kernel's idea of the
break, the three globals are the library's. `brk` and `freeBrk` are one action
each, and each recursive call of `testFreeBrk` is a step.
The model has one thread: the library takes no lock, so a program with threads
has to keep `brk` to one of them.

### AdminAccess, AdminDetails, AdminPanel

Tokens are numbered; all are good for the same four hours, so they expire in
order and `expired` is the last that has. `PresentedToken` is `requireAdmin`'s
choice: the header before the cookie, so that a stale header hides a good
cookie (`jwt.go:62-73`). The cookie belongs to the browser, the header's token
to the tab.

In `AdminPanel`, `timers` counts the intervals that run and `handle` says
whether `refreshTimer` is set: the two drift apart if an interval is started
without stopping the last. `table[k]` is a table with its `first...Load` flag,
the rows it shows, the index list a click on a row uses (`currentLogs`,
`currentContainers`) and the caption. A loader is two actions: up to its
`fetch` (part of what starts it) and from its answer on (`Deliver`), with the
server between them (`Serve`). `Refreshed` is `unifiedRefresh`, which asks for
nothing while a dialog is open. A dialog covers the rows, but the keyboard still
reaches the controls behind it. The server replaces a limit out of range by
another (`ServerLimit`) and the caption names the one that was asked for.
`LoadPage` is everything both handlers of
`DOMContentLoaded` do. `AdminDetails` has the two formatters as operators on
the sequence of a record's fields; of the colours it keeps which is which. The
fields a formatter shows first are given by their places in the record
(`OrderedIn`, `OthersIn`, `AtPlaces`).

Requests that are equal while under way are one: which of them is answered
first makes no difference to the page. Lists are sets of numbered entries,
because they are always shown newest first.

### ObservabilityStats, ObservabilityPage

`Answer` is one query of `getObservabilityStats`, over the rows of its moment;
`Queries` is their order. A row stands for `n` executions of one kind that
began in one tick, so that percentages get interesting with few rows. Presets
are the shortest and the longest; the longest is also the retention, as 90 days
are. A request carries two observations no action reads: whether a row of its
range was stored, or pruned, while it ran. What `render` and
`drawHourlyChart` compute of an answer are operators: percentages rounded as
`Math.round` does, and the chart's coordinates as integers times a common
denominator. Each fetch under way has a slot of its own out of `MaxFetches`.
The assumptions are that at least one fetch may be under way and that the start
lies within the bound on the clock.

### Navigation, CompilerPage, HomePage, Site

A menu is a record and `OpenNav`, `CloseNav`, `OnDocClick` are functions on it,
so that an action of a page can have its click pass through the menu first:
`Clicked` is the capture listener, then the toggle's own. Tab stops stand for
the focusable elements; where the browser's own choice matters (`NextStop`,
what has the focus after a click) it is modelled as external and not fixed more
than needed. The timer that gives the focus back reads the element when it
fires.

In `CompilerPage` a program is the key of its example; requests are counted, as
nothing tells them apart for the page. In `HomePage` the carousel is a record as
well, because a dot's click runs two handlers in one step, one from each
initialisation. `CodeExamples` has the numbers of lines and characters of each
program, which decide what gets an Expand button. The highlighter is loaded from
another server and may not arrive (`prism`); then no program is highlighted.

`Site` has both pages in one window: each page's action is taken with what the
menu makes of the same click or key, and a link loads the other page afresh.
In `AdminPanel`, `ObservabilityPage` and `Site` the kinds of event a behaviour
may have are chosen at the start from a constant (`happens` from `EventSets`;
`mayHappen` from `ObsEventSets` on the observability page).

## 3. Runs

| Run | Asks |
|---|---|
| `limiter` | Are the counters exact, do limits hold, and does the code implement the pool, in every order of four calls? |
| `rate` | Do late and racing clock readings, evictions and fractions of tokens ever admit too much, deny without cause, or keep an idle bucket? |
| `sandbox` | Whatever call fails and however exit, timers and copying race: what is left behind, does a program run that nobody waits for, whose container is deleted? |
| `service` | Do the containers that run stay within the limits, each under a slot, and is every execution that was answered stored? |
| `service_crashes` | Do records, slots and answers agree with a crash at any step; are the containers it leaves touched by a later request; is every request served? |
| `history` | Is the schema right whenever requests are served, and do rows go by age only, across failures and crashes? |
| `heap` | Do blocks stay apart and does memory go back, for every order of allocations and frees? |
| `admin` | Do polling, filters, dialogs, hidden tabs, expiring tokens and late answers leave the panel with one timer and with rows, dialogs, caption and address that agree; does the log settle? |
| `observability` | What can be said of numbers from ten queries while rows come and go; is the range chosen last the one shown; does the chart stay in its place? |
| `site` | Does anything stay locked, listening, doubled or marked, whatever the order of clicks, keys, timers, answers and sizes of the window? |
| `sandbox_output` (violation) | Is all output returned? |
| `site_turned` (violation) | Are editor and output both visible on a desktop? |

Bounds and why they are enough.

- `limiter`: four calls from two addresses and the unnamed one, a total of -1,
  0, 2 or 3 and -1, 0, 1 or 2 per address: at least one call more than any
  limit in total and per address, so both refusals, the
  boundary of each, and two calls with the same key occur, each with its
  releases and second releases in every order.
- `rate`: two callers of one address, because buckets of different addresses
  share nothing but the mutex; 33 half-minute ticks reach the eviction of a
  bucket and the next one; admissions are counted from four moments, one of
  them just before the eviction. The settings cover both fallbacks of
  `newIPLimiter` and refills of half a token up to fifteen a tick.
- `sandbox`: two executions and two ids, so that ids collide and one execution
  could delete the other's container; one stream with one unit of output and a
  cap of 0, so that every output is over the cap (`sandbox_output` uses two
  streams below it). Fault sets are taken one family at a time; deletes fail
  together with SIGKILL, so that every pair of one failing and the other not
  occurs. Executions and ids are only compared, so the run uses symmetry.
- `service`: three requests from two addresses with two container ids, one slot
  in total or as many as one likes, one per address: more ids and addresses than
  slots, so that either limit can be exceeded by what runs and a request can be
  refused for either reason. Creating tasks fails, or the deletes do. Requests,
  addresses and ids are interchangeable, so the run uses symmetry.
- `service_crashes`: two requests, one slot, one crash at any step; nothing, the
  insert, the start or a delete fails. No symmetry, as it checks liveness.
- `history`: a missing table and five older ones, with a row in them; retention
  of three ticks, pruning every two, eight ticks in all, one failing statement
  and one crash. After the crash the server may be down until rows are
  older than anything it may show.
- `heap`: sizes 0, 1, 16 and 17 under a limit that holds up to seven blocks.
- `admin`: two levels, three log entries, a limit within the server's bound that
  cuts the log short and one beyond it, two
  executions, two tokens and up to three requests under way, so that two
  answers of different filters overtake each other while a third is sent; one
  answer may fail. A log that is not written to is full from the start. Events
  come a few kinds at a time: filters with new entries;
  filters with failures and hiding; entries with dialogs; limits with failures;
  expiry and logins elsewhere with hiding.
- `observability`: hours of two ticks, a retention of five, a clock that moves
  once; two rows may be stored, one may be pruned. The kinds of execution are
  seven good ones without an error and one with, so that both halves of a
  percentage are rounded up. Two requests overlap, where rows do not move.
  Canvases of width 0, 71 (one unit of plot) and 600.
- `site`: windows of 639, 640 and 1024, both sides of the menu's breakpoint and
  a desktop; two pending focus timers; two examples and searches that match
  both, one or none; two runs under way; three tabs, of which two are long; each
  time the home page is loaded the highlighter arrives or not.

Deadlock is checked where the system never stops (`limiter`, whose release
closures may be called again, `sandbox`, `heap`, `site`). The service serves
each request once, and in `rate` and `history` the bound on time ends the run;
in `admin` and `observability` the bounds on requests and tokens may leave a
page that nobody touches: these configurations say `CHECK_DEADLOCK FALSE`.

### Fairness

- `CompileService`: weak fairness of each goroutine past its start
  (the Go scheduler runs it, and a timer that is set expires), of the copying
  goroutines and the exit channel, and of the death of a program that was sent
  SIGKILL. Nothing makes a program end by itself or obey SIGTERM, no client has
  to send a request, and no crash has to happen.
- `HistoryStore`: weak fairness of being started again (`Restart=on-failure` in
  the service unit) and of the server's own steps. Failures and crashes are
  bounded, so they stop.
- `AdminPanel`, `ObservabilityPage`: weak fairness of the interval while one is
  set, of the server answering and of the browser running the continuation of
  an answered `fetch`. Nobody has to click, log in or come back. Both liveness
  properties are conditional on an administrator who in the end stays where he
  is.
- `Site`: weak fairness of the carousel's interval on the home page.

### What the violations show

- `sandbox_output` (`compileit.go:422`, against `README.md:9`): the exit is
  reported by one goroutine, the output copied by others, and nothing waits for
  these before `collect`; a successful result may lack the last output.
- `site_turned` (`compiler.html:59`, against `compiler.html:153`): a run on a
  narrow window hides the editor's panel; only the output's has a class that
  shows it on a desktop whatever has been hidden, and the tabs that would bring
  the editor back are for narrow windows.

Seen while modelling, and visible in the models without a run of their own:

- The error of the SIGKILL call is dropped and the wait after it has no timeout
  (`compileit.go:431`): if the call fails, the request and its slot are held for
  as long as the program runs. `EveryRequestServed` is checked where it works.
- After a crash nothing looks for the containers of the previous process
  (`main.go:439`), although `README.md:3` says everything is thrown away.
  `ContainersHoldSlots` is checked without crashes; with them, `LeftBehind` says
  that what is left stays.
- A table that lacks a required column is sent to the copying migration, which
  selects that very column (`db.go:167`); the server fails at every start.
  `ComesUp` excludes these tables.
- The exit status received from `statusC` is discarded (`compileit.go:419`), and
  the script ends in `./out || true` (`compileit.go:137`): a script that fails,
  or a program killed at its limit on CPU time or memory
  (`compileit.go:89-101`), returns no error, although `compileit.go:236-237` says
  "an error if execution failed". In `Sandbox` such a run returns `none` with the
  status `failed`.
- The page offers limits up to 1000 (`admin.html:162`), the server answers any above
  500 with 100 entries (`logger.go:186-188`, `db.go:280-282`) but echoes the limit
  asked for (`main.go:266`), so the caption reads "Showing 100 logs (limit=1000)"
  (`admin.js:105`) of a log that has more.
- An exit status that carries an error of the connection is taken for the end of
  the program (`compileit.go:419`), and the errors of the deferred deletes are
  discarded (`compileit.go:374, 385`), so a run reported successful may leave its
  container. `LeftoversExplained` names these and a failed wait or start as the
  only causes of leftovers. A failed delete leaves a container, never a program
  that runs (`RunsAwaited`).
- An answer to a run that was started before a reset or the load of another
  example is shown as if it were of the program now in the editor
  (`compiler.js:1005`). Requests are counted in `CompilerPage`, so no property
  speaks of it.
- The timer that gives the focus back after the menu was closed may fire after
  the menu has been opened again and take the focus out of it (`shared.js:113`);
  `FocusTrapped` is about a menu that stays open.
- The cap on output is applied when the buffers are read (`compileit.go:403`);
  until then they hold whatever the program prints.
- An insert that fails is logged and the request answered (`main.go:125`), so
  "each execution" of `README.md:11` has that exception.
- A tab whose header token has expired is sent to the login although the
  browser's cookie is good (`jwt.go:62-73`); `BouncedOnlyWhenExpired` names the
  header for that reason.
- A reload with `view=logs` shows the logs view under a caption that names the
  status view (`admin.js:259,288-291`), and `historyLimit` is written to the
  address and never read (`admin.js:298`).
- Percentages of a half each add up to 101 (`observability.js:93-94`).
- A click on the icon inside the open menu's toggle closes the menu in the
  capture phase and opens it again (`shared.js:132,138`).
- The menu closes on a swipe down; `shared.js:142` says up.
- 50 ms after a code window is opened Prism is called with the element of that
  example, which is null if the window has been closed (`examples.js:590`).
- Defaults differ between `README.md:54-62` and `env.go`, and `JWT_SECRET`,
  optional with a fallback in the README, is required by `LoadConfig`.

## 4. Proofs

TLAPS proves these for every value of the constants, under each module's named
assumption.

**ConcurrencyLimiterProofs.** `Typing`, `AccountingCorrect`, `LimitsHold` and
`LimiterImplementsPool`. `Accounting` as stated is not inductive on its own:
a release decrements counters, which is right only if a call that holds a slot
is counted in both, under the address it captured, and if the map has no entry
of zero. The invariant the proof carries is `TypeOK` with `Accounting`, with
lemmas about the cardinality of the set of holders when a call joins or leaves
it; `Limits` and each step of the refinement follow from it, because the guards
compare counters and the counters are cardinalities.

**BrkHeapProofs.** `HeapTyping`, `HeapKeepsBlocks`, `HeapGivesBack` and
`HeapImplemented`, under `HeapAssumption` (a start above 0, sizes that are
numbers). What the runs check is not inductive: nothing in `BlocksKept` says
that going back over a header lands on the header below. `HeapInv` adds
that headers lie apart (`HeadersApart`), that each remembers exactly the one
below it and the globals the last (`Chain`), that held blocks and unmarked
headers correspond one to one and a block reaches to the next header or the
break (`Held`), and that between calls the top is held (`TopHeld`). There is a
lemma for growing, for going back over the top piece (used by `freeBrk` and by
`testFreeBrk`) and for marking a piece below the top.

**SiteProofs.** `SiteInvariant` carries `SiteInv`, from which `SiteTyped`,
`MenuIsSafe` and `PagesDoAgree` follow; `FocusIsTrapped` is an action property
from the same invariant. The parts of the pages share no state but the window,
so `SiteInv` is one conjunct per part, each kept by a lemma about the steps of
that part (`NavStepKeeps`, `CompilerStepKeeps`, `HomeStepKeeps`), and
`StepOfParts` maps every action of `Site` to such a step of each. What the run
checks is strengthened in two places: the types of the records, and that the
carousel's handle is set, because `startCarouselTimer` would start a second
interval beside one it has no handle to.

**AdminPagesProofs.** On the panel, `PanelInvariant` carries `PanelInv`, five
conjuncts: `Typed`; `OneTimer`; `Rows`, which is `RowsAgree` together with what
an answered request holds (its rows are of its own level, so that applying it
late cannot break the caption); `UrlTells`; and `Access`, which says that the
cookie is the token issued last, that every request under way carries the tab's
token if the tab has one, and that a request is refused only when its token has
expired, which is what `BouncedOnlyWhenExpired` needs of the answer that sends
the panel away. `PanelTyped`, `OneTimerRuns`, `RowsDoAgree`, `AddressTells` and
`BouncedWhenExpired` follow. `PageDoesAgree` adds the dialogs: that the page
behind is locked exactly while one is open is inductive beside the invariant
(`ScrollKeeps`), and that a dialog shows every field of its record once is a fact
about the formatters (`DialogsTell`; for the history's, `FieldsOnce` has it for
every record whose keys are distinct, by the places at which the ordered and the
other keys occur).

On the observability page, `ObsInductive` carries `ObsInv`: the rows stored
(`Stored`), what the page holds (`Page`), what each fetch under way has gathered
so far (`FetchesSound`), that two fetches never share a slot (`SlotsApart`), and
that the answer shown can be drawn (`Shown`). What `NumbersAgree` says
of a finished answer is too weak for the queries still to come. A fetch is
therefore related, after each of the ten queries, to the rows there are now: the
counts are at most what those rows give while none of its range was pruned
(`AtMost`), and exactly that while none was stored either (`Exactly`). A row
that is stored or pruned either leaves these alone or sets the observation that
releases them. `ObsTyped`, `AnswersAgree` and `ChartFits` follow. Sums over sets
of rows are folds, which nothing here can induct over; `SumIsArea` shows
instead that a sum is the number of cells of an area, by a least set for which
it is not, and the rest is cardinalities (`WeightSplit`, `WeightByKey`).
`ChartFits` needs that the drawn maximum is one (`Highest`) and integer
arithmetic.

**RateLimiterProofs.** `RateInvariant` carries `RateInv`: the types, when the
cleaning goroutine last looked and how old its reading may be (`Timing`), how
long ago a bucket still in the map was refilled (`Recent`), and that it holds
what was earned since its address's last admission (`Earned`). `RateTyped`,
`IdleBucketsLeave` and `DenialsAreEarned` follow. `AdmissionsBounded` needs more:
`WindowBound` only counts, so `WindowInv` says what each address still has to
its credit, in its bucket or, when it has none, as a fresh burst it may be
given (`Paid`, `PaidUp`), and that a bucket that may be evicted would be full by
now (`EvictSafe`). The last is where the theorem has a hypothesis: for every
configuration the burst is earned in the eviction age less the delay of a
reading. The defaults of `env.go` satisfy it; the configuration named under
RateLimiter above does not, and there the bound is false.

**SandboxProofs.** `SandboxInvariant` carries `SandboxInv`. What the run checks
speaks of executions that have returned; the invariant says, for each place in
`execInKata`, what the execution owns and in which state (`Held`, `TaskFits`),
which deletes are still to come (`Clean`, `Explained`), that a program which runs
is listened to (`Attended`), and that no exit status is waiting before a task
runs (`Fresh`). These are about one execution and what it owns; `Ownership` says
that nobody owns two containers, so that a lemma (`Frame`) carries them over
every step another execution or containerd takes. That without late faults every
container has an owner (`NoOrphans`), and that one whose program runs has (`NoRunaways`),
are invariants of their own, kept apart because they are what a crash breaks.
`SandboxTyped`, `EverythingThrownAway`, `LeftoversAreExplained`,
`ProgramsAwaited` and `OwnContainersDeleted` follow, for any number of
executions, ids that collide and every set of faults.

**HistoryStoreProofs.** `StoreInvariant` carries `StoreInv`: which columns the
table has at each stage of the start (`Migrated`), that the copy holds every row
when the tables are swapped and that no address is lost with a column
(`CopyComplete`), and how old the cutoff of a pruning and the oldest row can be
(`CutoffFresh`, `Ages`). `ServedSchemaReady`, `NoRowLost` and `RetentionHolds`
follow. `StoreTyped` needs two more invariants: the ranges of the clock, of the
cutoff and of the ages of the rows (`Ranges`), and that a row has one copy over
migration and copying (`OneRow`). The assumption is that an execution takes less time than the retention
period (seconds against 90 days).

**CompileServiceProofs.** The module instantiates the two modules of proofs
above with the requests for the limiter's calls and for the executions, and
shows that every step of a handler or of containerd is a step of one part or
leaves it alone (`AcquireIs`, `ReleaseIs`, `StepIs`, `ContainerdIs`), so their
invariants hold of the whole. A crash is no step of either; for the limiter
`RestartAccounting` covers it. `ServiceInvariant` adds what ties the parts
together: the places of the handler where it holds a slot, and under which
address (`Slots`), that nothing is answered before the reply (`Unanswered`), what
a record says at each place (`Story`), and when it must be there (`Stored`).
`HistoryTellsTheTruth`, `AnsweredIsStored` and `NoSlotIsLost` follow, with any
number of crashes and failures. `WholeInvariant` adds the executions: the
sandbox's invariant holds over crashes too (`CrashedSandbox`), because it speaks
of what an execution owns, and after a crash nobody owns anything and no
execution is under way (`Awaited`: an execution that is has a handler that waits
for it). `ServiceTyped` and the action property `CrashedAreLeftBehind` follow.
`ServiceRunsItsParts` says that while the process lives the service implements
`ConcurrencyLimiter` and `Sandbox`, and `ServiceOffersPool` that it implements
`SlotPool`. `ContainersCounted` and `ProgramsWithinLimits` suppose only that
there is no crash, after which the limiter has forgotten what still runs; which
calls fail is part of what they say. `AliveInv` puts the invariants of the parts
together for a process that lives: a container that could be thrown away, and
any whose program runs, has an owner in the middle of its execution
(`NothingStays` and `RunningAttended`, from the sandbox), whose handler waits for
it and holds a slot (`Awaited`, `Slots`). Nobody owns two, so running programs
map one to one into the slots, which the limiter's `Limits` bounds.

Every invariant and every action property that a passing run checks is a
theorem; so is `ObsTypeOK`, the type invariant of the observability page, which
no run checks. Only model-checked is liveness (`EveryRequestServed`, `ComesUp`,
`LogSettles`, `RangeSettles`, `CarouselTurns`), which under fairness is out of
the prover's reach. The violations need no proof: TLC shows the behaviour.

## 5. Not modelled

- `lang/compiler` and `compilerOnline` are binaries; what the compiler accepts
  and generates cannot be read from the sources.
- The rest of the runtime library: threads, files, strings, network, floats.
  They are short sequences of system calls whose interesting outcomes are the
  kernel's (when a thread id is cleared, what lies behind a mapping) or the
  compiler's. `BrkHeap` has one thread: the library promises nothing for more.
- `logger.go`: the retention scheme of `db.go` again, on a table nothing else
  writes; its list is in `AdminPanel`.
- `env.go` and `main`: configuration is read once and startup is a line of
  steps that ends the process on an error. `HistoryStore` has the step that can
  be left half done.
- In `compileit.go`: the cached client and image, the script's text, mounts and
  OCI options. A setup that fails, for whatever reason, is in `Sandbox`.
- In `compiler.js`: Monaco's tokenizer, the texts of the examples, and the code
  for a custom cursor and a focus mode (`compiler.js:1024-1117`), which looks
  for elements that `compiler.html` does not have.
- Formats of numbers and times, colours and layout, the footer, the static
  pages, and the build and deployment scripts.
