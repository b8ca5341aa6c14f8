-------------------------- MODULE AdminPagesProofs --------------------------
(***************************************************************************)
(* Proofs about the two pages behind the login.  AdminPanel: its types,    *)
(* the one interval, the rows and the index list, the dialogs, the         *)
(* address, and why a panel goes back to the login page.                   *)
(* ObservabilityPage: its types, that the numbers of an answer agree       *)
(* whatever is stored or pruned between its queries, and that what is      *)
(* drawn of them stays in its place.                                       *)
(***************************************************************************)
EXTENDS AdminPanel, ObservabilityPage, FiniteSetTheorems, WellFoundedInduction,
        NaturalsInduction, TLAPS

(***************************************************************************)
(* Finite sets, sums and ranks                                             *)
(***************************************************************************)

\* Of subsets of a finite set there is a least one, for induction over them.
LEMMA MinimalSet == ASSUME NEW S, IsFiniteSet(S), NEW T, T \subseteq SUBSET S, T # {}
                    PROVE  \E u \in T : \A v \in T : v \subseteq u => v = u
<1>1. T \subseteq FiniteSubsetsOf(S)
      BY FS_Subset DEF FiniteSubsetsOf
<1>2. PICK u \in T : \A v \in T : <<v, u>> \notin StrictSubsetOrdering(S)
      BY <1>1, FS_StrictSubsetOrderingWellFounded, WFMin
<1>3. \A v \in T : v \subseteq u => v = u
      BY <1>2 DEF StrictSubsetOrdering
<1> QED BY <1>3

Column(f, x) == {p \in {x} \X Nat : p[2] \in 1..f[x]}
Area(f, S) == {p \in S \X Nat : p[2] \in 1..f[p[1]]}

\* One element weighs as many cells as its number says.
LEMMA ColumnSize == ASSUME NEW f, NEW x, f[x] \in Nat
                    PROVE  IsFiniteSet(Column(f, x)) /\ Cardinality(Column(f, x)) = f[x]
<1> DEFINE up == [k \in 1..f[x] |-> <<x, k>>]
<1>1. up \in Bijection(1..f[x], Column(f, x))
  <2>1. up \in [1..f[x] -> Column(f, x)]
        BY DEF Column
  <2>2. \A a, b \in 1..f[x] : up[a] = up[b] => a = b
        OBVIOUS
  <2>3. \A p \in Column(f, x) : p[2] \in 1..f[x] /\ up[p[2]] = p
        BY DEF Column
  <2> HIDE DEF up
  <2>4. up \in Injection(1..f[x], Column(f, x))
        BY <2>1, <2>2 DEF Injection, IsInjective
  <2>5. up \in Surjection(1..f[x], Column(f, x))
        BY <2>1, <2>3 DEF Surjection
  <2> QED BY <2>4, <2>5 DEF Bijection
<1>2. ExistsBijection(1..f[x], Column(f, x))
      BY <1>1 DEF ExistsBijection
<1>3. IsFiniteSet(1..f[x]) /\ Cardinality(1..f[x]) = f[x]
      BY FS_Interval
<1> QED BY <1>2, <1>3, FS_Bijection

\* The cells of a finite set are finitely many: a least set for which they
\* were not would lose one element and still have too many.
LEMMA AreaFinite == ASSUME NEW S, IsFiniteSet(S), NEW f, \A x \in S : f[x] \in Nat
                    PROVE  IsFiniteSet(Area(f, S))
<1> DEFINE bad == {T \in SUBSET S : ~IsFiniteSet(Area(f, T))}
<1> SUFFICES ASSUME bad # {} PROVE FALSE
    OBVIOUS
<1>1. PICK T \in bad : \A U \in bad : U \subseteq T => U = T
  <2>1. bad \subseteq SUBSET S
        OBVIOUS
  <2> HIDE DEF bad
  <2> QED BY <2>1, MinimalSet
<1>2. T # {}
  <2>1. Area(f, {}) = {}
        BY DEF Area
  <2> QED BY <1>1, <2>1, FS_EmptySet
<1>3. PICK x \in T : TRUE
      BY <1>2
<1>4. IsFiniteSet(Area(f, T \ {x}))
      BY <1>1, <1>3
<1>5. Area(f, T) = Area(f, T \ {x}) \cup Column(f, x)
      BY <1>3 DEF Area, Column
<1>6. IsFiniteSet(Area(f, T))
  <2>1. f[x] \in Nat
        BY <1>1, <1>3
  <2>2. IsFiniteSet(Column(f, x))
        BY <2>1, ColumnSize
  <2>3. IsFiniteSet(Area(f, T \ {x}) \cup Column(f, x))
        BY <1>4, <2>2, FS_Union
  <2> QED BY <1>5, <2>3
<1> QED BY <1>1, <1>6

\* What two sets without a common element have together.
LEMMA DisjointUnion == ASSUME NEW A, NEW B, IsFiniteSet(A), IsFiniteSet(B), A \cap B = {}
                       PROVE  /\ IsFiniteSet(A \cup B)
                              /\ Cardinality(A \cup B) = Cardinality(A) + Cardinality(B)
<1>1. Cardinality(A) \in Nat /\ Cardinality(B) \in Nat
      BY FS_CardinalityType
<1>2. Cardinality(A \cap B) = 0
      BY FS_EmptySet
<1>3. /\ IsFiniteSet(A \cup B)
      /\ Cardinality(A \cup B) = Cardinality(A) + Cardinality(B) - Cardinality(A \cap B)
      BY FS_Union
<1> QED BY <1>1, <1>2, <1>3

\* Taking one element out of a set takes its cells out.
LEMMA AreaStep == ASSUME NEW S, IsFiniteSet(S), NEW f, \A x \in S : f[x] \in Nat, NEW x \in S
                  PROVE  Cardinality(Area(f, S)) = f[x] + Cardinality(Area(f, S \ {x}))
<1>1. Area(f, S) = Area(f, S \ {x}) \cup Column(f, x)
      BY DEF Area, Column
<1>2. Area(f, S \ {x}) \cap Column(f, x) = {}
      BY DEF Area, Column
<1>3. IsFiniteSet(S \ {x}) /\ IsFiniteSet(Area(f, S \ {x}))
      BY AreaFinite, FS_RemoveElement
<1>4. Cardinality(Area(f, S \ {x})) \in Nat
      BY <1>3, FS_CardinalityType
<1>5. IsFiniteSet(Column(f, x)) /\ Cardinality(Column(f, x)) = f[x] /\ f[x] \in Nat
      BY ColumnSize
<1>6. Cardinality(Area(f, S \ {x}) \cup Column(f, x))
        = Cardinality(Area(f, S \ {x})) + Cardinality(Column(f, x))
      BY <1>2, <1>3, <1>5, DisjointUnion
<1> QED BY <1>1, <1>4, <1>5, <1>6

Chosen(s) == CHOOSE x \in s : TRUE
Step(f, S, g) == [s \in SUBSET S |-> IF s = {} THEN 0 ELSE f[Chosen(s)] + g[s \ {Chosen(s)}]]

LEMMA SumUnfold == ASSUME NEW f, NEW S
                   PROVE  SumFunctionOnSet(f, S) = (CHOOSE g : g = Step(f, S, g))[S]
BY DEF SumFunctionOnSet, FoldFunctionOnSet, MapThenFoldSet, Step, Chosen

\* A sum of numbers of things is the number of all of them.
LEMMA SumIsArea == ASSUME NEW S, IsFiniteSet(S), NEW f, \A x \in S : f[x] \in Nat
                   PROVE  SumFunctionOnSet(f, S) = Cardinality(Area(f, S))
<1> DEFINE area == [s \in SUBSET S |-> Cardinality(Area(f, s))]
<1>0. \A s \in SUBSET S : s # {} => Chosen(s) \in s
      BY DEF Chosen
<1>1. area = Step(f, S, area)
  <2>1. \A s \in SUBSET S : s # {} => area[s] = f[Chosen(s)] + area[s \ {Chosen(s)}]
        BY <1>0, AreaStep, FS_Subset
  <2>2. area[{}] = 0
    <3>1. Area(f, {}) = {}
          BY DEF Area
    <3> QED BY <3>1, FS_EmptySet
  <2> HIDE DEF area
  <2>3. area = [s \in SUBSET S |-> area[s]]
        BY DEF area
  <2> QED BY <2>1, <2>2, <2>3 DEF Step
<1> DEFINE iter == CHOOSE g : g = Step(f, S, g)
<1>2. iter = Step(f, S, iter)
      BY <1>1
<1> HIDE DEF iter, area
<1>3. iter[S] = area[S]
  <2> DEFINE bad == {s \in SUBSET S : iter[s] # area[s]}
  <2> SUFFICES ASSUME bad # {} PROVE FALSE
      OBVIOUS
  <2>1. PICK s \in bad : \A u \in bad : u \subseteq s => u = s
    <3>1. bad \subseteq SUBSET S
          OBVIOUS
    <3> HIDE DEF bad
    <3> QED BY <3>1, MinimalSet
  <2>2. /\ iter[s] = IF s = {} THEN 0 ELSE f[Chosen(s)] + iter[s \ {Chosen(s)}]
        /\ area[s] = IF s = {} THEN 0 ELSE f[Chosen(s)] + area[s \ {Chosen(s)}]
        BY <2>1, <1>1, <1>2 DEF Step
  <2>3. s # {} => iter[s \ {Chosen(s)}] = area[s \ {Chosen(s)}]
        BY <2>1, <1>0
  <2> QED BY <2>1, <2>2, <2>3
<1> QED BY <1>3, SumUnfold DEF iter, area

\* Of numbers there is a least one.
LEMMA LeastNumber == ASSUME NEW S \in SUBSET Nat, S # {}
                     PROVE  \E m \in S : \A n \in S : m <= n
<1>1. PICK m \in S : \A n \in S : <<n, m>> \notin OpToRel(<, Nat)
      BY NatLessThanWellFounded, WFMin
<1>2. \A n \in S : ~(n < m)
      BY <1>1 DEF OpToRel
<1>3. m \in S /\ m \in Nat /\ \A n \in S : n \in Nat
      BY <1>1
<1>4. \A n \in S : m <= n
      BY <1>2, <1>3
<1> QED BY <1>3, <1>4

\* A number added to those a fold has summed.
LEMMA SumStep == ASSUME NEW S, IsFiniteSet(S), NEW f, \A x \in S : f[x] \in Nat, NEW x \in S
                 PROVE  SumFunctionOnSet(f, S) = f[x] + SumFunctionOnSet(f, S \ {x})
<1>1. IsFiniteSet(S \ {x}) /\ \A y \in S \ {x} : f[y] \in Nat
      BY FS_RemoveElement
<1>2. SumFunctionOnSet(f, S \ {x}) = Cardinality(Area(f, S \ {x}))
      BY <1>1, SumIsArea
<1>3. SumFunctionOnSet(f, S) = Cardinality(Area(f, S))
      BY SumIsArea
<1>4. Cardinality(Area(f, S)) = f[x] + Cardinality(Area(f, S \ {x}))
      BY AreaStep
<1> QED BY <1>2, <1>3, <1>4

-----------------------------------------------------------------------------
(* Rows and what they stand for *)

(* The elements of a set of numbers, one after the other *)

Below(S, t) == {u \in S : u < t}
Nth(S, i) == CHOOSE t \in S : Cardinality(Below(S, t)) = i

\* Fewer numbers of a set are below one of its own than it has.
LEMMA RankOf == ASSUME NEW S \in SUBSET Nat, IsFiniteSet(S), NEW t \in S
                PROVE  /\ IsFiniteSet(Below(S, t))
                       /\ Cardinality(Below(S, t)) \in 0..Cardinality(S) - 1
<1>1. Below(S, t) \subseteq S \ {t}
      BY DEF Below
<1>2. /\ IsFiniteSet(S \ {t}) /\ Cardinality(S \ {t}) = Cardinality(S) - 1
      /\ Cardinality(S) \in Nat
      BY FS_RemoveElement, FS_CardinalityType
<1>3. IsFiniteSet(Below(S, t)) /\ Cardinality(Below(S, t)) <= Cardinality(S \ {t})
      BY <1>1, <1>2, FS_Subset
<1>4. Cardinality(Below(S, t)) \in Nat
      BY <1>3, FS_CardinalityType
<1> QED BY <1>2, <1>3, <1>4

\* A larger number has more below it.
LEMMA RanksGrow == ASSUME NEW S \in SUBSET Nat, IsFiniteSet(S), NEW s \in S, NEW t \in S, s < t
                   PROVE  Cardinality(Below(S, s)) < Cardinality(Below(S, t))
<1>1. IsFiniteSet(Below(S, s)) /\ IsFiniteSet(Below(S, t))
      BY RankOf
<1>0. s \in Nat /\ t \in Nat /\ \A u \in S : u \in Nat
      OBVIOUS
<1>2. Below(S, s) \subseteq Below(S, t) /\ s \in Below(S, t) /\ s \notin Below(S, s)
  <2>1. \A u \in S : u < s => u < t
        BY <1>0
  <2>2. ~(s < s)
        BY <1>0
  <2> QED BY <2>1, <2>2 DEF Below
<1>3. Below(S, s) \subseteq Below(S, t) \ {s}
      BY <1>2
<1>4. /\ IsFiniteSet(Below(S, t) \ {s})
      /\ Cardinality(Below(S, t) \ {s}) = Cardinality(Below(S, t)) - 1
      BY <1>1, <1>2, FS_RemoveElement
<1>5. Cardinality(Below(S, s)) <= Cardinality(Below(S, t) \ {s})
      BY <1>3, <1>4, FS_Subset
<1>6. Cardinality(Below(S, s)) \in Nat /\ Cardinality(Below(S, t)) \in Nat
      BY <1>1, FS_CardinalityType
<1> QED BY <1>4, <1>5, <1>6

\* A finite set of n numbers has one with i below it for each i less than n,
\* and these are in order.
LEMMA NthElement == ASSUME NEW S \in SUBSET Nat, IsFiniteSet(S), NEW i \in 0..Cardinality(S) - 1
                    PROVE  Nth(S, i) \in S /\ Cardinality(Below(S, Nth(S, i))) = i
<1> DEFINE rank == [t \in S |-> Cardinality(Below(S, t))]
           T == 0..Cardinality(S) - 1
<1>1. rank \in [S -> T]
      BY RankOf
<1>2. \A s, t \in S : rank[s] = rank[t] => s = t
  <2> SUFFICES ASSUME NEW s \in S, NEW t \in S, rank[s] = rank[t], s # t PROVE FALSE
      OBVIOUS
  <2>1. /\ s \in Nat /\ t \in Nat
        /\ Cardinality(Below(S, s)) \in Nat /\ Cardinality(Below(S, t)) \in Nat
        BY RankOf
  <2>2. s < t \/ t < s
        BY <2>1
  <2>3. Cardinality(Below(S, s)) < Cardinality(Below(S, t))
        \/ Cardinality(Below(S, t)) < Cardinality(Below(S, s))
        BY <2>2, RanksGrow
  <2> QED BY <2>1, <2>3
<1>3. IsFiniteSet(T) /\ Cardinality(T) = Cardinality(S)
  <2>1. Cardinality(S) \in Nat
        BY FS_CardinalityType
  <2> QED BY <2>1, FS_Interval
<1>4. \A j \in T : \E t \in S : rank[t] = j
  <2> HIDE DEF rank, T
  <2>1. rank \in Injection(S, T)
        BY <1>1, <1>2 DEF Injection, IsInjective
  <2>2. rank \in Surjection(S, T)
        BY <1>3, <2>1, FS_Injection
  <2> QED BY <2>2 DEF Surjection
<1>5. \E t \in S : Cardinality(Below(S, t)) = i
      BY <1>4
<1> QED BY <1>5 DEF Nth

\* The numbers of a set, counted from below, come in order.
LEMMA NthInOrder == ASSUME NEW S \in SUBSET Nat, IsFiniteSet(S),
                           NEW i \in 0..Cardinality(S) - 1, NEW j \in 0..Cardinality(S) - 1, i < j
                    PROVE  Nth(S, i) < Nth(S, j)
<1>1. /\ Nth(S, i) \in S /\ Cardinality(Below(S, Nth(S, i))) = i
      /\ Nth(S, j) \in S /\ Cardinality(Below(S, Nth(S, j))) = j
      BY NthElement
<1>0. \A u \in S : u \in Nat
      OBVIOUS
<1>2. Nth(S, i) \in Nat /\ Nth(S, j) \in Nat /\ i \in Int /\ j \in Int
  <2>1. Cardinality(S) \in Nat
        BY FS_CardinalityType
  <2>2. i \in Int /\ j \in Int
        BY <2>1
  <2> QED BY <1>0, <1>1, <2>2
<1>3. CASE Nth(S, j) < Nth(S, i)
  <2>1. j < i
        BY <1>1, <1>3, RanksGrow
  <2> QED BY <1>2, <2>1
<1>4. CASE Nth(S, i) = Nth(S, j)
      BY <1>1, <1>2, <1>4
<1> QED BY <1>2, <1>3, <1>4

(***************************************************************************)
(* The panel                                                               *)
(***************************************************************************)

Outcome == {"none", "ok", "failed", "unauthorized"}
Bodies == {"blank", "loading", "rows", "error"}
Picks == [level : Levels, logsLimit : Limits, historyLimit : Limits]
Urls == [view : Views \cup {NoView}, level : Levels,
         logsLimit : Limits \cup {0}, historyLimit : Limits \cup {0}]
Metas == [count : Int, level : Levels]
Tables == [body : Bodies, rows : SUBSET Entries, current : SUBSET Entries, meta : Metas, first : BOOLEAN]
Answers == [is : Outcome, rows : SUBSET Entries]
Requests == [kind : Kinds, level : Levels, limit : Int, token : Tokens, answer : Answers]

\* The types, with those of the records TypeOK only looks into.
Typed == /\ TypeOK
         /\ table \in [Kinds -> Tables]
         /\ requests \in SUBSET Requests

\* The rows of an answer pass the filter of its request; only the log has one.
AnswerTrue(r) == /\ r.level # AllLevels => \A e \in r.answer.rows : LevelOf(e) = r.level
                 /\ r.kind # "logs" => r.level = AllLevels

\* The index list of a table is that of its rows, or gone, its caption tells
\* of its rows, and before the first answer it has neither.
TableTrue(t) ==
  /\ t.current \in {{}, t.rows}
  /\ t.first => t.current = {} /\ t.meta = NoMeta
  /\ t.meta # NoMeta => /\ t.meta.count = Cardinality(t.rows)
                        /\ t.meta.level # AllLevels => \A e \in t.rows : LevelOf(e) = t.meta.level

Rows == /\ \A k \in Kinds : TableTrue(table[k])
        /\ \A r \in requests : AnswerTrue(r)

\* The cookie is the token issued last, so it outlives the one of the tab; a
\* request carries the tab's token if there is one, and is refused only when
\* its token has expired.
TokenTrue(r) == /\ r.token > 0
                /\ header # NoToken => r.token = header
                /\ r.answer.is = "unauthorized" => r.token <= expired

Access == /\ cookie = issued
          /\ page = "admin" => issued > 0
          /\ page = "login" => requests = {}
          /\ \A r \in requests : TokenTrue(r)

PanelInv == Typed /\ OneTimer /\ Rows /\ UrlTells /\ Access

(***************************************************************************)
(* Requests and answers                                                    *)
(***************************************************************************)

\* A request that is sent is well formed and has no rows yet.
LEMMA RequestTyped ==
    ASSUME Typed, NEW p \in Picks, NEW k \in Kinds
    PROVE  /\ Request(k, p) \in Requests
           /\ Request(k, p).answer = Unanswered
           /\ AnswerTrue(Request(k, p))
           /\ Request(k, p).token = PresentedToken(header, cookie)
<1>1. PresentedToken(header, cookie) \in Tokens
  BY DEF Typed, TypeOK, AccessTypeOK, PresentedToken
<1>2. (IF k = "logs" THEN p.level ELSE AllLevels) \in Levels
  BY PanelAssumption DEF Picks
<1>3. (CASE k = "logs" -> p.logsLimit [] k = "history" -> p.historyLimit [] k = "stats" -> 0) \in Int
  BY PanelAssumption DEF Picks, Kinds
<1>4. Unanswered \in Answers
  BY DEF Unanswered, Answers, Outcome
<1>5. /\ Request(k, p) \in Requests
      /\ Request(k, p).answer = Unanswered
      /\ Request(k, p).token = PresentedToken(header, cookie)
      /\ Request(k, p).kind = k
      /\ k # "logs" => Request(k, p).level = AllLevels
  BY <1>1, <1>2, <1>3, <1>4 DEF Request, Requests
<1>6. Unanswered.rows = {}
  BY DEF Unanswered
<1> QED BY <1>5, <1>6 DEF AnswerTrue

\* Sending keeps the requests well formed.
LEMMA LoadTyped ==
    ASSUME Typed, NEW p \in Picks, NEW kinds \in SUBSET Kinds, NEW reqs \in SUBSET Requests
    PROVE  Load(kinds, p, reqs) \in SUBSET Requests
BY RequestTyped DEF Load

\* The placeholder of a table that is loaded for the first time.
LEMMA LoadingTyped ==
    ASSUME NEW kinds, NEW tables \in [Kinds -> Tables]
    PROVE  Loading(kinds, tables) \in [Kinds -> Tables]
<1>1. ASSUME NEW k \in Kinds
      PROVE  [tables[k] EXCEPT !.body = "loading", !.rows = {}] \in Tables
  BY DEF Tables, Bodies
<1> QED BY <1>1 DEF Loading

\* A table that shows it is loading claims nothing about its rows.
LEMMA LoadingTrue ==
    ASSUME NEW kinds, NEW tables \in [Kinds -> Tables], \A k \in Kinds : TableTrue(tables[k])
    PROVE  \A k \in Kinds : TableTrue(Loading(kinds, tables)[k])
<1> TAKE k \in Kinds
<1>1. CASE k \in kinds /\ tables[k].first
  <2>1. Loading(kinds, tables)[k] = [tables[k] EXCEPT !.body = "loading", !.rows = {}]
    BY <1>1 DEF Loading
  <2>2. tables[k] \in Tables /\ TableTrue(tables[k])
    OBVIOUS
  <2>3. /\ Loading(kinds, tables)[k].rows = {}
        /\ Loading(kinds, tables)[k].current = tables[k].current
        /\ Loading(kinds, tables)[k].meta = tables[k].meta
        /\ Loading(kinds, tables)[k].first = tables[k].first
    BY <2>1, <2>2 DEF Tables
  <2> QED BY <1>1, <2>2, <2>3 DEF TableTrue
<1>2. CASE ~(k \in kinds /\ tables[k].first)
  <2>1. Loading(kinds, tables)[k] = tables[k]
    BY <1>2 DEF Loading
  <2> QED BY <2>1
<1> QED BY <1>1, <1>2

\* A table before its first answer.
LEMMA FreshTrue == FreshTable \in Tables /\ TableTrue(FreshTable)
<1>1. NoMeta \in Metas
  BY PanelAssumption DEF NoMeta, Metas
<1> QED BY <1>1 DEF FreshTable, Tables, Bodies, TableTrue

\* The rows of an answer are entries and pass the filter of the request.
LEMMA AnswerRowsTrue ==
    ASSUME Typed, NEW r \in Requests
    PROVE  /\ AnswerRows(r) \in SUBSET Entries
           /\ r.kind = "logs" /\ r.level # AllLevels => \A e \in AnswerRows(r) : LevelOf(e) = r.level
           /\ r.kind = "stats" => AnswerRows(r) = {}
<1> logCount \in 0..MaxLogs /\ MaxLogs \in Nat /\ HistorySize \in Nat
  BY PanelAssumption DEF Typed, TypeOK
<1>1. r.kind \in Kinds
  BY DEF Requests
<1>2. 1..logCount \subseteq Entries /\ 1..HistorySize \subseteq Entries
  BY DEF Entries
<1>3. ASSUME NEW limit, NEW S PROVE Newest(limit, S) \subseteq S
  BY DEF Newest
<1>4. /\ RecentLogs(r.level, r.limit) \subseteq 1..logCount
      /\ r.level # AllLevels => \A e \in RecentLogs(r.level, r.limit) : LevelOf(e) = r.level
  BY <1>3 DEF RecentLogs
<1>5. Newest(r.limit, 1..HistorySize) \subseteq 1..HistorySize
  BY <1>3
<1> QED BY <1>1, <1>2, <1>4, <1>5 DEF AnswerRows, Kinds

\* The table after an answer or a failed one.
LEMMA AppliedTrue ==
    ASSUME Typed, NEW k \in Kinds, NEW r \in Requests, NEW t \in Tables, AnswerTrue(r)
    PROVE  /\ Applied(k, r, t) \in Tables
           /\ TableTrue(Applied(k, r, t))
<1>1. /\ r.answer.rows \in SUBSET Entries
      /\ r.level \in Levels
  BY DEF Requests, Answers
<1>2. Cardinality(r.answer.rows) \in Int
  <2>1. MaxLogs + HistorySize \in Int
    BY PanelAssumption
  <2>2. IsFiniteSet(Entries)
    BY <2>1, FS_Interval DEF Entries
  <2>3. IsFiniteSet(r.answer.rows)
    BY <1>1, <2>2, FS_Subset
  <2> QED BY <2>3, FS_CardinalityType
<1> DEFINE list == IF k = "stats" THEN {} ELSE r.answer.rows
           meta == [count |-> Cardinality(r.answer.rows), level |-> r.level]
<1>3. meta \in Metas
  BY <1>1, <1>2 DEF Metas
<1>4. list \in SUBSET Entries /\ list \in {{}, r.answer.rows}
  BY <1>1
<1>5. /\ Applied(k, r, t).body = "rows"
      /\ Applied(k, r, t).rows = r.answer.rows
      /\ Applied(k, r, t).first = FALSE
      /\ Applied(k, r, t).current = list
      /\ Applied(k, r, t).meta = meta
      /\ Applied(k, r, t) \in Tables
  <2> HIDE DEF list, meta
  <2>1. Applied(k, r, t) = [t EXCEPT !.body = "rows", !.rows = r.answer.rows, !.first = FALSE,
                                     !.current = list, !.meta = meta]
    BY DEF Applied, list, meta
  <2> QED BY <2>1, <1>1, <1>3, <1>4 DEF Tables, Bodies
<1>6. meta.count = Cardinality(r.answer.rows) /\ meta.level = r.level
  OBVIOUS
<1> HIDE DEF list, meta
<1> QED BY <1>4, <1>5, <1>6 DEF TableTrue, AnswerTrue

\* A failed answer leaves rows and caption as they belong together.
LEMMA NotAppliedTrue ==
    ASSUME NEW k \in Kinds, NEW t \in Tables, TableTrue(t)
    PROVE  /\ NotApplied(k, t) \in Tables
           /\ TableTrue(NotApplied(k, t))
<1> DEFINE body == IF t.first THEN "error" ELSE t.body
           meta == IF k = "logs" THEN NoMeta ELSE t.meta
<1>1. body \in Bodies
  BY DEF Bodies, Tables
<1>2. meta \in Metas /\ meta \in {NoMeta, t.meta}
  BY PanelAssumption DEF NoMeta, Metas, Tables
<1>3. /\ NotApplied(k, t) \in Tables
      /\ NotApplied(k, t).rows = t.rows
      /\ NotApplied(k, t).current = {}
      /\ NotApplied(k, t).first = t.first
      /\ NotApplied(k, t).meta = meta
  <2> HIDE DEF body, meta
  <2>1. NotApplied(k, t) = [t EXCEPT !.body = body, !.current = {}, !.meta = meta]
    BY DEF NotApplied, body, meta
  <2> QED BY <2>1, <1>1, <1>2 DEF Tables
<1> HIDE DEF body, meta
<1> QED BY <1>2, <1>3 DEF TableTrue

\* A request that the server answers.
LEMMA ServedTrue ==
    ASSUME Typed, NEW r \in Requests, NEW o \in Outcomes(r), AnswerTrue(r)
    PROVE  LET s == [r EXCEPT !.answer = [is |-> o, rows |-> IF o = "ok" THEN AnswerRows(r) ELSE {}]]
           IN  /\ s \in Requests
               /\ s.token = r.token
               /\ s.answer.is = o
               /\ AnswerTrue(s)
<1> DEFINE answer == [is |-> o, rows |-> IF o = "ok" THEN AnswerRows(r) ELSE {}]
           s == [r EXCEPT !.answer = answer]
<1>1. o \in Outcome
  BY DEF Outcomes, Outcome
<1>2. /\ answer \in Answers
      /\ answer.is = o
      /\ answer.rows \in {{}, AnswerRows(r)}
  BY <1>1, AnswerRowsTrue DEF Answers
<1>3. /\ s \in Requests
      /\ s.kind = r.kind /\ s.token = r.token /\ s.level = r.level
      /\ s.answer = answer
  <2> HIDE DEF answer
  <2> QED BY <1>2 DEF Requests
<1> HIDE DEF answer
<1>4. AnswerTrue(s)
  BY <1>2, <1>3, AnswerRowsTrue DEF AnswerTrue
<1> QED BY <1>2, <1>3, <1>4 DEF answer

(***************************************************************************)
(* The steps                                                               *)
(***************************************************************************)

\* What every request of the panel has to satisfy.
Sound(reqs) == /\ reqs \in SUBSET Requests
               /\ \A r \in reqs : AnswerTrue(r) /\ TokenTrue(r)

\* A request that is sent carries the token it should.
LEMMA RequestSound ==
    ASSUME Typed, Access, issued > 0, NEW p \in Picks, NEW k \in Kinds
    PROVE  /\ Request(k, p) \in Requests
           /\ AnswerTrue(Request(k, p))
           /\ TokenTrue(Request(k, p))
<1>1. /\ PresentedToken(header, cookie) > 0
      /\ header # NoToken => PresentedToken(header, cookie) = header
  BY DEF PresentedToken, Access, NoToken, Typed, TypeOK, AccessTypeOK, Tokens
<1>2. Unanswered.is # "unauthorized"
  BY DEF Unanswered
<1> QED BY <1>1, <1>2, RequestTyped DEF TokenTrue

LEMMA LoadSound ==
    ASSUME Typed, Access, issued > 0, NEW p \in Picks, NEW kinds \in SUBSET Kinds,
           NEW reqs, Sound(reqs)
    PROVE  Sound(Load(kinds, p, reqs))
BY RequestSound DEF Sound, Load

\* What is sent is sound, and the tables of those asked for stay true.
LEMMA SendKeeps ==
    ASSUME Typed, Rows, Access, page = "admin", NEW p \in Picks, NEW kinds \in SUBSET Kinds,
           Send(kinds, p)
    PROVE  /\ Sound(requests')
           /\ table' \in [Kinds -> Tables]
           /\ \A k \in Kinds : TableTrue(table'[k])
<1>1. Sound(requests)
  BY DEF Typed, Rows, Access, Sound
<1>2. Sound(requests')
  BY <1>1, LoadSound DEF Access, Send
<1>3. table' = Loading(kinds, table)
  BY DEF Send
<1>4. table \in [Kinds -> Tables] /\ \A k \in Kinds : TableTrue(table[k])
  BY DEF Typed, Rows
<1> QED BY <1>2, <1>3, <1>4, LoadingTyped, LoadingTrue

\* The parts of PanelInv about the tables and the requests follow when the
\* tokens and the page stay.
LEMMA PanelKeeps ==
    ASSUME Access, Sound(requests'), table' \in [Kinds -> Tables],
           \A k \in Kinds : TableTrue(table'[k]),
           page' = "admin", issued > 0, TypeOK', OneTimer', UrlTells',
           UNCHANGED accessVars
    PROVE  PanelInv'
<1>1. Typed' /\ Rows'
  BY DEF Typed, Rows, Sound
<1>2. \A r \in requests' : TokenTrue(r)'
  BY DEF Sound, TokenTrue, accessVars
<1>3. Access'
  BY <1>2 DEF Access, accessVars
<1> QED BY <1>1, <1>3 DEF PanelInv

\* TypeOK of tables and requests follows from their typing.
LEMMA RecordsTyped ==
    ASSUME NEW tables \in [Kinds -> Tables], NEW reqs \in SUBSET Requests
    PROVE  /\ \A k \in Kinds : tables[k].rows \subseteq Entries /\ tables[k].current \subseteq Entries
           /\ \A r \in reqs : r.kind \in Kinds /\ r.answer.rows \subseteq Entries
BY DEF Tables, Requests, Answers

\* Starting the interval again leaves one, whether one was set or not.
LEMMA RestartOne ==
    ASSUME TypeOK, OneTimer, NEW v \in Views, RestartTimer(v)
    PROVE  timers' = 1 /\ handle' = TRUE /\ caption' = v
<1>1. CASE handle
  <2>1. timers = 1
    BY <1>1 DEF OneTimer
  <2> QED BY <1>1, <2>1 DEF RestartTimer
<1>2. CASE ~handle
  <2>1. timers # 1 /\ timers \in {0, 1}
    BY <1>2 DEF OneTimer, TypeOK
  <2>2. timers = 0
    BY <2>1
  <2> QED BY <1>2, <2>2 DEF RestartTimer
<1> QED BY <1>1, <1>2 DEF TypeOK

\* A click on a view button.
LEMMA SwitchKeeps ==
    ASSUME PanelInv, NEW v \in Views, SwitchTo(v)
    PROVE  PanelInv'
<1>1. page = "admin" /\ UNCHANGED accessVars /\ page' = "admin" /\ issued > 0
  BY DEF SwitchTo, AtHand, PanelInv, Access
<1>2. picked \in Picks /\ Refreshed(v) \in SUBSET Kinds
  BY DEF PanelInv, Typed, TypeOK, Picks, Refreshed, KindsOf, Kinds, Views
<1>3. /\ Sound(requests')
      /\ table' \in [Kinds -> Tables]
      /\ \A k \in Kinds : TableTrue(table'[k])
  BY <1>1, <1>2, SendKeeps DEF SwitchTo, PanelInv
<1>4. OneTimer'
  <2>1. timers' = 1 /\ handle' = TRUE
    BY RestartOne DEF SwitchTo, PanelInv, Typed
  <2> QED BY <1>1, <2>1 DEF OneTimer
<1>5. url \in Urls /\ url' = [url EXCEPT !.view = v] /\ view' = v /\ picked' = picked
  BY DEF SwitchTo, PanelInv, Typed, TypeOK, Urls
<1>6. url' \in Urls
  BY <1>5 DEF Urls
<1>7. UrlTells'
  BY <1>1, <1>5 DEF Urls, UrlTells, PanelInv, Restored
<1>8. TypeOK'
  <2>1. AccessTypeOK'
    BY <1>1 DEF accessVars, AccessTypeOK, TypeOK, PanelInv, Typed
  <2>2. timers' = 1 /\ handle' = TRUE /\ caption' = v
    BY RestartOne DEF SwitchTo, PanelInv, Typed
  <2>3. /\ hidden' \in BOOLEAN /\ scrollLocked' \in BOOLEAN
        /\ dialog' \in [Dialogs -> Entries \cup {Closed}]
        /\ logCount' \in 0..MaxLogs /\ failures' \in 0..MaxFailures
    BY DEF SwitchTo, server, TypeOK, PanelInv, Typed
  <2>4. /\ \A k \in Kinds : table'[k].rows \subseteq Entries /\ table'[k].current \subseteq Entries
        /\ \A r \in requests' : r.kind \in Kinds /\ r.answer.rows \subseteq Entries
    BY <1>3, RecordsTyped DEF Sound
  <2> QED BY <1>1, <1>2, <1>5, <1>6, <2>1, <2>2, <2>3, <2>4 DEF TypeOK, Urls, Picks
<1> QED BY <1>1, <1>3, <1>4, <1>7, <1>8, PanelKeeps DEF PanelInv

\* An input changes, or a table is asked for again.
LEMMA ChangeKeeps ==
    ASSUME PanelInv, NEW p \in Picks, NEW u \in Urls, NEW k \in Kinds, Change(p, u, k),
           u.view = url.view, u.level = p.level, Restored(u).logsLimit = p.logsLimit
    PROVE  PanelInv'
<1>1. page = "admin" /\ UNCHANGED accessVars /\ page' = "admin" /\ issued > 0
  BY DEF Change, AtHand, PanelInv, Access
<1>2. {k} \in SUBSET Kinds
  OBVIOUS
<1>3. /\ Sound(requests')
      /\ table' \in [Kinds -> Tables]
      /\ \A kind \in Kinds : TableTrue(table'[kind])
  BY <1>1, <1>2, SendKeeps DEF Change, PanelInv
<1>4. OneTimer'
  BY <1>1 DEF Change, polling, OneTimer, PanelInv
<1>5. url' = u /\ view' = view /\ picked' = p /\ page' = page
  BY DEF Change
<1>6. UrlTells'
  BY <1>1, <1>5 DEF UrlTells, PanelInv, Restored
<1>7. TypeOK'
  BY <1>1, <1>3, <1>4, <1>5, RecordsTyped
     DEF TypeOK, AccessTypeOK, accessVars, Picks, Urls, Change, polling, server, OneTimer, PanelInv, Typed, Sound
<1> QED BY <1>1, <1>3, <1>4, <1>6, <1>7, PanelKeeps DEF PanelInv

\* The address and the limit it stands for.
LEMMA AddressTyped ==
    ASSUME PanelInv, page = "admin"
    PROVE  /\ url \in Urls /\ picked \in Picks
           /\ url.level = picked.level
           /\ (IF url.logsLimit # 0 THEN url.logsLimit ELSE DefaultLimit) = picked.logsLimit
BY DEF PanelInv, Typed, TypeOK, Urls, Picks, UrlTells, Restored

\* Every input, and the refresh button.
LEMMA InputKeeps ==
    ASSUME PanelInv,
           \/ \E l \in Levels : PickLevel(l)
           \/ \E n \in Limits : PickLogsLimit(n)
           \/ \E n \in Limits : PickHistoryLimit(n)
           \/ \E k \in Kinds : RefreshButton(k)
    PROVE  PanelInv'
<1> page = "admin"
  BY DEF PickLevel, PickLogsLimit, PickHistoryLimit, RefreshButton, Change, AtHand
<1> /\ url \in Urls /\ picked \in Picks
    /\ url.level = picked.level
    /\ (IF url.logsLimit # 0 THEN url.logsLimit ELSE DefaultLimit) = picked.logsLimit
  BY AddressTyped
<1> "logs" \in Kinds /\ "history" \in Kinds
  BY DEF Kinds
<1>1. ASSUME NEW l \in Levels, PickLevel(l) PROVE PanelInv'
  <2> DEFINE p == [picked EXCEPT !.level = l]
             u == [url EXCEPT !.level = l]
  <2>1. p \in Picks /\ u \in Urls /\ u.view = url.view /\ u.level = p.level
        /\ p.logsLimit = picked.logsLimit /\ u.logsLimit = url.logsLimit
    BY DEF Picks, Urls
  <2>2. Change(p, u, "logs")
    BY <1>1 DEF PickLevel
  <2>3. Restored(u).logsLimit = p.logsLimit
    BY <2>1 DEF Restored
  <2> HIDE DEF p, u
  <2> QED BY <2>1, <2>2, <2>3, ChangeKeeps
<1>2. ASSUME NEW n \in Limits, PickLogsLimit(n) PROVE PanelInv'
  <2> DEFINE p == [picked EXCEPT !.logsLimit = n]
             u == [url EXCEPT !.logsLimit = n]
  <2>1. p \in Picks /\ u \in Urls /\ u.view = url.view /\ u.level = p.level
        /\ p.logsLimit = n /\ u.logsLimit = n
    BY DEF Picks, Urls
  <2>2. Change(p, u, "logs")
    BY <1>2 DEF PickLogsLimit
  <2>3. Restored(u).logsLimit = p.logsLimit
    BY <2>1, PanelAssumption DEF Restored
  <2> HIDE DEF p, u
  <2> QED BY <2>1, <2>2, <2>3, ChangeKeeps
<1>3. ASSUME NEW n \in Limits, PickHistoryLimit(n) PROVE PanelInv'
  <2> DEFINE p == [picked EXCEPT !.historyLimit = n]
             u == [url EXCEPT !.historyLimit = n]
  <2>1. p \in Picks /\ u \in Urls /\ u.view = url.view /\ u.level = p.level
        /\ p.logsLimit = picked.logsLimit /\ u.logsLimit = url.logsLimit
    BY DEF Picks, Urls
  <2>2. Change(p, u, "history")
    BY <1>3 DEF PickHistoryLimit
  <2>3. Restored(u).logsLimit = p.logsLimit
    BY <2>1 DEF Restored
  <2> HIDE DEF p, u
  <2> QED BY <2>1, <2>2, <2>3, ChangeKeeps
<1>4. ASSUME NEW k \in Kinds, RefreshButton(k) PROVE PanelInv'
  <2>1. Change(picked, url, k) /\ Restored(url).logsLimit = picked.logsLimit
    BY <1>4 DEF RefreshButton, Restored
  <2> QED BY <2>1, ChangeKeeps
<1> QED BY <1>1, <1>2, <1>3, <1>4

\* The dialogs and the server's log touch nothing else the invariant is about.
LEMMA AsideKeeps ==
    ASSUME PanelInv,
           \/ \E d \in Dialogs, e \in Entries : ShowDetails(d, e)
           \/ CloseDialogs
           \/ WriteLog
           \/ UNCHANGED vars
    PROVE  PanelInv'
<1>1. /\ UNCHANGED accessVars
      /\ UNCHANGED <<page, hidden, view, timers, handle, caption, picked, url, table, requests>>
  BY DEF ShowDetails, CloseDialogs, WriteLog, vars, polling, screen
<1>2. dialog' \in [Dialogs -> Entries \cup {Closed}] /\ scrollLocked' \in BOOLEAN
  <2>1. CASE \E d \in Dialogs, e \in Entries : ShowDetails(d, e)
    <3>1. PICK d \in Dialogs, e \in Entries : ShowDetails(d, e)
      BY <2>1
    <3>2. PICK x \in table[d].current : dialog' = [dialog EXCEPT ![d] = x]
      BY <3>1 DEF ShowDetails
    <3>3. d \in Kinds
      BY DEF Dialogs, Kinds
    <3>4. x \in Entries
      BY <3>2, <3>3 DEF PanelInv, Typed, TypeOK
    <3> QED BY <3>1, <3>2, <3>4 DEF ShowDetails, PanelInv, Typed, TypeOK
  <2>2. CASE CloseDialogs
    BY <2>2 DEF CloseDialogs
  <2>3. CASE WriteLog \/ UNCHANGED vars
    BY <2>3 DEF WriteLog, vars, screen, PanelInv, Typed, TypeOK
  <2> QED BY <2>1, <2>2, <2>3
<1>3. logCount' \in 0..MaxLogs /\ failures' \in 0..MaxFailures
  BY PanelAssumption DEF ShowDetails, CloseDialogs, WriteLog, vars, server, PanelInv, Typed, TypeOK
<1>4. TypeOK'
  BY <1>1, <1>2, <1>3 DEF accessVars, PanelInv, Typed, TypeOK, AccessTypeOK
<1>5. Typed' /\ OneTimer'
  BY <1>1, <1>4 DEF PanelInv, Typed, OneTimer
<1>6. Rows' /\ UrlTells'
  BY <1>1 DEF PanelInv, Rows, UrlTells, Restored
<1>7. Access'
  BY <1>1 DEF PanelInv, Access, TokenTrue, accessVars
<1> QED BY <1>5, <1>6, <1>7 DEF PanelInv

\* The tab goes to the back: its interval stops.
LEMMA HideKeeps ==
    ASSUME PanelInv, Hide
    PROVE  PanelInv'
<1>1. /\ UNCHANGED accessVars
      /\ UNCHANGED <<page, view, caption, picked, url, table, dialog, scrollLocked, requests>>
      /\ UNCHANGED <<logCount, failures>>
      /\ hidden' = TRUE /\ handle' = FALSE
  BY DEF Hide, StopTimer, screen, server
<1>2. timers' = 0
  <2>1. TypeOK /\ OneTimer
    BY DEF PanelInv, Typed
  <2>2. CASE handle
    <3>1. timers = 1
      BY <2>1, <2>2 DEF OneTimer
    <3>2. timers' = timers - 1
      BY <2>2 DEF Hide, StopTimer
    <3> QED BY <3>1, <3>2
  <2>3. CASE ~handle
    <3>1. timers # 1 /\ timers \in {0, 1}
      BY <2>1, <2>3 DEF OneTimer, TypeOK
    <3>2. timers' = timers
      BY <2>3 DEF Hide, StopTimer
    <3> QED BY <3>1, <3>2
  <2> QED BY <2>1, <2>2, <2>3 DEF TypeOK
<1>3. TypeOK'
  BY <1>1, <1>2 DEF accessVars, PanelInv, Typed, TypeOK, AccessTypeOK
<1>4. Typed'
  BY <1>1, <1>3 DEF PanelInv, Typed
<1>5. OneTimer'
  <2>1. timers' # 1 /\ timers' \in {0, 1} /\ ~handle'
    BY <1>1, <1>2
  <2> QED BY <1>1, <1>2, <2>1 DEF OneTimer
<1>6. Rows' /\ UrlTells'
  BY <1>1 DEF PanelInv, Rows, UrlTells, Restored
<1>7. Access'
  BY <1>1 DEF PanelInv, Access, TokenTrue, accessVars
<1> QED BY <1>4, <1>5, <1>6, <1>7 DEF PanelInv

\* The tab comes to the front: a panel polls again, a login page does not.
LEMMA ShowKeeps ==
    ASSUME PanelInv, Show
    PROVE  PanelInv'
<1>1. /\ UNCHANGED accessVars
      /\ UNCHANGED <<page, view, picked, url, dialog, scrollLocked, logCount, failures>>
      /\ hidden' = FALSE
  BY DEF Show, server
<1>2. CASE page = "admin"
  <2>1. RestartTimer(view) /\ Send(Refreshed(view), picked)
    BY <1>2 DEF Show
  <2>2. view \in Views /\ picked \in Picks /\ Refreshed(view) \in SUBSET Kinds
    BY DEF PanelInv, Typed, TypeOK, Picks, Refreshed, KindsOf, Kinds, Views
  <2>3. timers' = 1 /\ handle' = TRUE /\ caption' = view
    BY <2>1, <2>2, RestartOne DEF PanelInv, Typed
  <2>4. /\ Sound(requests')
        /\ table' \in [Kinds -> Tables]
        /\ \A k \in Kinds : TableTrue(table'[k])
    BY <1>2, <2>1, <2>2, SendKeeps DEF PanelInv
  <2>5. TypeOK'
    <3>1. /\ \A k \in Kinds : table'[k].rows \subseteq Entries /\ table'[k].current \subseteq Entries
          /\ \A r \in requests' : r.kind \in Kinds /\ r.answer.rows \subseteq Entries
      BY <2>4, RecordsTyped DEF Sound
    <3> QED BY <1>1, <2>2, <2>3, <3>1 DEF accessVars, PanelInv, Typed, TypeOK, AccessTypeOK
  <2>6. OneTimer' /\ UrlTells' /\ issued > 0
    BY <1>1, <1>2, <2>3 DEF PanelInv, OneTimer, UrlTells, Restored, Access
  <2> QED BY <1>1, <1>2, <2>4, <2>5, <2>6, PanelKeeps DEF PanelInv
<1>3. CASE page # "admin"
  <2>1. UNCHANGED <<timers, handle, caption, table, requests>>
    BY <1>3 DEF Show, polling
  <2>2. Typed'
    BY <1>1, <2>1 DEF accessVars, PanelInv, Typed, TypeOK, AccessTypeOK
  <2>3. OneTimer' /\ Rows' /\ UrlTells'
    BY <1>1, <1>3, <2>1 DEF PanelInv, OneTimer, Rows, UrlTells
  <2>4. Access'
    BY <1>1, <2>1 DEF PanelInv, Access, TokenTrue, accessVars
  <2> QED BY <2>2, <2>3, <2>4 DEF PanelInv
<1> QED BY <1>2, <1>3

\* A poll of the interval.
LEMMA TickKeeps ==
    ASSUME PanelInv, Tick
    PROVE  PanelInv'
<1>1. /\ page = "admin" /\ page' = "admin" /\ issued > 0
      /\ UNCHANGED accessVars
      /\ UNCHANGED <<hidden, view, timers, handle, caption, picked, url, dialog, scrollLocked, logCount, failures>>
  BY DEF Tick, polling, server, PanelInv, Access
<1>2. picked \in Picks /\ Refreshed(view) \in SUBSET Kinds
  BY DEF PanelInv, Typed, TypeOK, Picks, Refreshed, KindsOf, Kinds, Views
<1>3. /\ Sound(requests')
      /\ table' \in [Kinds -> Tables]
      /\ \A k \in Kinds : TableTrue(table'[k])
  BY <1>1, <1>2, SendKeeps DEF Tick, PanelInv
<1>4. TypeOK'
  <2>1. /\ \A k \in Kinds : table'[k].rows \subseteq Entries /\ table'[k].current \subseteq Entries
        /\ \A r \in requests' : r.kind \in Kinds /\ r.answer.rows \subseteq Entries
    BY <1>3, RecordsTyped DEF Sound
  <2> QED BY <1>1, <2>1 DEF accessVars, PanelInv, Typed, TypeOK, AccessTypeOK
<1>5. OneTimer' /\ UrlTells'
  BY <1>1 DEF PanelInv, OneTimer, UrlTells, Restored
<1> QED BY <1>1, <1>3, <1>4, <1>5, PanelKeeps DEF PanelInv

\* The server answers a request.
LEMMA ServeKeeps ==
    ASSUME PanelInv, NEW r \in requests, Serve(r)
    PROVE  PanelInv'
<1>1. /\ UNCHANGED accessVars
      /\ UNCHANGED <<page, hidden, view, timers, handle, caption, picked, url, table, dialog, scrollLocked, logCount>>
  BY DEF Serve, polling, screen
<1>2. PICK o \in Outcomes(r) :
        /\ requests' = (requests \ {r})
             \cup {[r EXCEPT !.answer = [is |-> o, rows |-> IF o = "ok" THEN AnswerRows(r) ELSE {}]]}
        /\ failures' = IF o = "failed" THEN failures - 1 ELSE failures
  BY DEF Serve
<1> DEFINE s == [r EXCEPT !.answer = [is |-> o, rows |-> IF o = "ok" THEN AnswerRows(r) ELSE {}]]
<1>3. /\ r \in Requests /\ AnswerTrue(r) /\ TokenTrue(r)
      /\ requests \in SUBSET Requests
      /\ \A x \in requests : AnswerTrue(x) /\ TokenTrue(x)
  BY DEF PanelInv, Typed, Rows, Access
<1>4. s \in Requests /\ s.token = r.token /\ s.answer.is = o /\ AnswerTrue(s)
  BY <1>3, ServedTrue DEF PanelInv
<1>5. requests' = (requests \ {r}) \cup {s}
  BY <1>2
<1> HIDE DEF s
<1>6. TokenTrue(s)
  <2>1. o = "unauthorized" => r.token <= expired
    BY <1>3 DEF Outcomes, Accepted, Requests, Tokens, PanelInv, Typed, TypeOK, AccessTypeOK
  <2> QED BY <1>3, <1>4, <2>1 DEF TokenTrue
<1>7. Sound(requests')
  BY <1>3, <1>4, <1>5, <1>6 DEF Sound
<1>8. failures' \in 0..MaxFailures
  <2>1. failures \in 0..MaxFailures /\ (o = "failed" => failures > 0)
    BY DEF PanelInv, Typed, TypeOK, Outcomes, MayFail
  <2> QED BY <1>2, <2>1, PanelAssumption
<1>9. TypeOK'
  <2>1. \A x \in requests' : x.kind \in Kinds /\ x.answer.rows \subseteq Entries
    BY <1>7 DEF Sound, Requests, Answers
  <2> QED BY <1>1, <1>8, <2>1 DEF accessVars, PanelInv, Typed, TypeOK, AccessTypeOK
<1>10. Typed' /\ Rows'
  BY <1>1, <1>7, <1>9 DEF PanelInv, Typed, Rows, Sound
<1>11. OneTimer' /\ UrlTells'
  BY <1>1 DEF PanelInv, OneTimer, UrlTells, Restored
<1>12. Access'
  <2>1. page = "admin" /\ issued > 0
    BY DEF PanelInv, Typed, TypeOK, Access
  <2>2. \A x \in requests' : TokenTrue(x)'
    BY <1>1, <1>7 DEF Sound, TokenTrue, accessVars
  <2> QED BY <1>1, <2>1, <2>2 DEF PanelInv, Access, accessVars
<1> QED BY <1>10, <1>11, <1>12 DEF PanelInv

\* Another page has replaced the panel.
LEMMA GoneKeeps ==
    ASSUME PanelInv, page' = "login", PanelGone, UNCHANGED <<accessVars, hidden, server>>
    PROVE  PanelInv'
<1>1. /\ view' = "status" /\ timers' = 0 /\ handle' = FALSE /\ caption' = NoView
      /\ picked' = DefaultPicked /\ url' = NoUrl /\ scrollLocked' = FALSE
      /\ table' = [k \in Kinds |-> FreshTable]
      /\ dialog' = [d \in Dialogs |-> Closed]
      /\ requests' = {}
      /\ UNCHANGED accessVars /\ UNCHANGED <<hidden, logCount, failures>>
  BY DEF PanelGone, server
<1>2. table' \in [Kinds -> Tables] /\ \A k \in Kinds : TableTrue(table'[k])
  BY <1>1, FreshTrue
<1>3. picked' \in [level : Levels, logsLimit : Limits, historyLimit : Limits]
  BY <1>1, PanelAssumption DEF DefaultPicked
<1>4. url' \in [view : Views \cup {NoView}, level : Levels,
                logsLimit : Limits \cup {0}, historyLimit : Limits \cup {0}]
  BY <1>1, PanelAssumption DEF NoUrl
<1>5. AccessTypeOK' /\ dialog' \in [Dialogs -> Entries \cup {Closed}]
  BY <1>1 DEF PanelInv, Typed, TypeOK, AccessTypeOK, accessVars
<1>6. /\ hidden' \in BOOLEAN /\ logCount' \in 0..MaxLogs /\ failures' \in 0..MaxFailures
      /\ view' \in Views /\ caption' \in Views \cup {NoView}
  BY <1>1 DEF PanelInv, Typed, TypeOK, Views
<1>7. TypeOK'
  BY <1>1, <1>2, <1>3, <1>4, <1>5, <1>6, RecordsTyped DEF TypeOK
<1>8. Typed' /\ Rows'
  BY <1>1, <1>2, <1>7 DEF Typed, Rows
<1>9. OneTimer' /\ UrlTells'
  <2>1. ~handle' /\ timers' # 1 /\ timers' \in {0, 1}
    BY <1>1
  <2> QED BY <1>1, <2>1 DEF OneTimer, UrlTells
<1>10. Access'
  BY <1>1 DEF PanelInv, Access, accessVars
<1> QED BY <1>8, <1>9, <1>10 DEF PanelInv

\* The panel is asked for: it loads, or the browser is sent to the login page.
LEMMA OpenKeeps ==
    ASSUME PanelInv, NEW u \in Urls, OpenAdmin(u)
    PROVE  PanelInv'
<1>1. UNCHANGED accessVars /\ UNCHANGED <<hidden, logCount, failures>>
  BY DEF OpenAdmin, server
<1>2. CASE ~PageGranted
  BY <1>2, GoneKeeps DEF OpenAdmin
<1>3. CASE PageGranted
  <2> DEFINE p == Restored(u)
             v == RestoredView(u)
             kinds == KindsOf("status") \cup KindsOf(v)
             fresh == [k \in Kinds |-> FreshTable]
  <2>1. /\ page' = "admin" /\ view' = v /\ timers' = 1 /\ handle' = TRUE /\ caption' = "status"
        /\ picked' = p
        /\ url' = [u EXCEPT !.view = v, !.level = p.level, !.logsLimit = p.logsLimit]
        /\ table' = Loading(kinds, fresh)
        /\ dialog' = [d \in Dialogs |-> Closed]
        /\ scrollLocked' = FALSE
        /\ requests' = Load(kinds, p, {})
    BY <1>3 DEF OpenAdmin, LoadPage
  <2>2. issued > 0
    BY <1>3 DEF PageGranted, Accepted, PresentedToken, NoToken, PanelInv, Typed, TypeOK, AccessTypeOK, Tokens, Access
  <2>3. p \in Picks
    BY PanelAssumption DEF Restored, Picks, Urls
  <2>4. v \in Views /\ kinds \in SUBSET Kinds
    BY DEF RestoredView, Views, KindsOf, Kinds
  <2>5. p.level \in Levels /\ p.logsLimit \in Limits
    BY <2>3 DEF Picks
  <2> HIDE DEF p, v, kinds
  <2>6. url' \in Urls /\ url'.view = v /\ url'.level = p.level /\ url'.logsLimit = p.logsLimit
    BY <2>1, <2>4, <2>5 DEF Urls
  <2>7. fresh \in [Kinds -> Tables] /\ \A k \in Kinds : TableTrue(fresh[k])
    BY FreshTrue
  <2> HIDE DEF fresh
  <2>8. table' \in [Kinds -> Tables] /\ \A k \in Kinds : TableTrue(table'[k])
    BY <2>1, <2>7, LoadingTyped, LoadingTrue
  <2>9. Sound(requests')
    <3>1. Sound({})
      BY DEF Sound
    <3> QED BY <2>1, <2>2, <2>3, <2>4, <3>1, LoadSound DEF PanelInv
  <2>10. TypeOK'
    <3>1. /\ \A k \in Kinds : table'[k].rows \subseteq Entries /\ table'[k].current \subseteq Entries
          /\ \A r \in requests' : r.kind \in Kinds /\ r.answer.rows \subseteq Entries
      BY <2>8, <2>9, RecordsTyped DEF Sound
    <3>2. AccessTypeOK' /\ hidden' \in BOOLEAN /\ logCount' \in 0..MaxLogs /\ failures' \in 0..MaxFailures
      BY <1>1 DEF PanelInv, Typed, TypeOK, AccessTypeOK, accessVars
    <3>3. caption' \in Views /\ dialog' \in [Dialogs -> Entries \cup {Closed}]
      BY <2>1 DEF Views
    <3> QED BY <2>1, <2>3, <2>4, <2>6, <3>1, <3>2, <3>3 DEF TypeOK, Urls, Picks
  <2>11. OneTimer'
    <3>1. handle' /\ timers' = 1 /\ timers' \in {0, 1}
      BY <2>1
    <3> QED BY <2>1, <3>1 DEF OneTimer
  <2>12. UrlTells'
    <3>1. p.logsLimit # 0
      BY <2>5, PanelAssumption
    <3> QED BY <2>1, <2>6, <3>1 DEF UrlTells, Restored
  <2> QED BY <1>1, <2>1, <2>2, <2>8, <2>9, <2>10, <2>11, <2>12, PanelKeeps DEF PanelInv
<1> QED BY <1>2, <1>3

\* An answer arrives.
LEMMA DeliverKeeps ==
    ASSUME PanelInv, NEW r \in requests, Deliver(r)
    PROVE  PanelInv'
<1>1. UNCHANGED accessVars /\ UNCHANGED <<hidden, logCount, failures>> /\ UNCHANGED <<accessVars, hidden, server>>
  BY DEF Deliver, server
<1>2. CASE r.answer.is = "unauthorized"
  <2>1. page' = "login" /\ PanelGone
    BY <1>2 DEF Deliver
  <2> QED BY <1>1, <2>1, GoneKeeps
<1>3. CASE r.answer.is # "unauthorized"
  <2>1. /\ requests' = requests \ {r}
        /\ UNCHANGED <<page, view, timers, handle, caption, picked, url, dialog, scrollLocked>>
    BY <1>3 DEF Deliver, polling
  <2>2. /\ page = "admin" /\ issued > 0
        /\ r \in Requests /\ r.kind \in Kinds /\ AnswerTrue(r)
        /\ table \in [Kinds -> Tables]
        /\ \A k \in Kinds : TableTrue(table[k])
    BY DEF PanelInv, Typed, TypeOK, Access, Rows
  <2> DEFINE t == IF r.answer.is = "ok" THEN Applied(r.kind, r, table[r.kind])
                                        ELSE NotApplied(r.kind, table[r.kind])
  <2>3. table' = [table EXCEPT ![r.kind] = t]
    BY <1>3, <2>2 DEF Deliver
  <2>4. t \in Tables /\ TableTrue(t)
    BY <2>2, AppliedTrue, NotAppliedTrue DEF PanelInv
  <2> HIDE DEF t
  <2>5. table' \in [Kinds -> Tables] /\ \A k \in Kinds : TableTrue(table'[k])
    BY <2>2, <2>3, <2>4
  <2>6. Sound(requests')
    BY <2>1 DEF Sound, PanelInv, Typed, Rows, Access
  <2>7. TypeOK'
    <3>1. /\ \A k \in Kinds : table'[k].rows \subseteq Entries /\ table'[k].current \subseteq Entries
          /\ \A x \in requests' : x.kind \in Kinds /\ x.answer.rows \subseteq Entries
      BY <2>5, <2>6, RecordsTyped DEF Sound
    <3> QED BY <1>1, <2>1, <3>1 DEF accessVars, PanelInv, Typed, TypeOK, AccessTypeOK
  <2>8. OneTimer' /\ UrlTells'
    BY <1>1, <2>1 DEF PanelInv, OneTimer, UrlTells, Restored
  <2> QED BY <1>1, <2>1, <2>2, <2>5, <2>6, <2>7, <2>8, PanelKeeps DEF PanelInv
<1> QED BY <1>2, <1>3

\* Logins, and tokens that expire.
LEMMA TokensKeep ==
    ASSUME PanelInv, LogInHere \/ Sessions
    PROVE  PanelInv'
<1>1. /\ UNCHANGED <<page, hidden, view, timers, handle, caption, picked, url, table, dialog>>
      /\ UNCHANGED <<scrollLocked, requests, logCount, failures>>
  BY DEF LogInHere, Sessions, polling, screen, server
<1>2. /\ AccessTypeOK' /\ cookie' = issued' /\ issued' >= issued /\ expired' >= expired
      /\ page = "admin" => header' = header
  <2>1. AccessTypeOK /\ cookie = issued
    BY DEF PanelInv, Typed, TypeOK, Access
  <2>2. CASE LogInHere
    BY <2>1, <2>2, AccessAssumption DEF LogInHere, LogIn, Issue, AccessTypeOK, Tokens
  <2>3. CASE Sessions /\ LogInElsewhere
    BY <2>1, <2>3, AccessAssumption DEF LogInElsewhere, Issue, AccessTypeOK, Tokens
  <2>4. CASE Sessions /\ Expire
    BY <2>1, <2>4, AccessAssumption DEF Expire, AccessTypeOK, Tokens
  <2>5. CASE Sessions /\ page = "login" /\ NewTab
    BY <2>1, <2>5, AccessAssumption DEF NewTab, NoToken, AccessTypeOK, Tokens
  <2> QED BY <2>2, <2>3, <2>4, <2>5 DEF Sessions
<1>3. TypeOK'
  BY <1>1, <1>2 DEF PanelInv, Typed, TypeOK
<1>4. Typed' /\ OneTimer' /\ Rows' /\ UrlTells'
  BY <1>1, <1>3 DEF PanelInv, Typed, OneTimer, Rows, UrlTells, Restored
<1>5. Access'
  <2>1. AccessTypeOK /\ \A r \in requests : r.token \in Tokens /\ TokenTrue(r)
    BY DEF PanelInv, Typed, TypeOK, Access, Requests
  <2>2. issued \in Int /\ issued' \in Int /\ expired \in Int /\ expired' \in Int /\ Tokens \subseteq Int
    BY <1>2, <2>1 DEF AccessTypeOK, Tokens
  <2>3. CASE page = "admin"
    <3>1. requests' = requests /\ header' = header /\ expired' >= expired
      BY <1>1, <1>2, <2>3
    <3>2. ASSUME NEW r \in requests PROVE TokenTrue(r)'
      <4>1. r.token \in Int /\ TokenTrue(r)
        BY <2>1, <2>2
      <4> QED BY <2>2, <3>1, <4>1 DEF TokenTrue
    <3>3. \A r \in requests' : TokenTrue(r)'
      BY <3>1, <3>2
    <3> QED BY <1>1, <1>2, <2>2, <2>3, <3>3 DEF PanelInv, Access
  <2>4. CASE page # "admin"
    <3>1. requests' = {}
      BY <1>1, <2>4 DEF PanelInv, Typed, TypeOK, Access
    <3> QED BY <1>1, <1>2, <2>4, <3>1 DEF PanelInv, Access
  <2> QED BY <2>3, <2>4
<1> QED BY <1>4, <1>5 DEF PanelInv

(***************************************************************************)
(* The invariant                                                           *)
(***************************************************************************)

\* A tab that is opened, with or without a cookie.
LEMMA PanelStarts ==
    ASSUME Init
    PROVE  PanelInv
<1>1. /\ page = "login" /\ hidden = FALSE /\ view = "status" /\ timers = 0 /\ handle = FALSE
      /\ caption = NoView /\ picked = DefaultPicked /\ url = NoUrl /\ scrollLocked = FALSE
      /\ table = [k \in Kinds |-> FreshTable]
      /\ dialog = [d \in Dialogs |-> Closed]
      /\ requests = {} /\ failures = MaxFailures
      /\ cookie = 0 /\ header = 0 /\ issued = 0 /\ expired = 0
  BY DEF Init, AccessInit, NoToken
<1>2. table \in [Kinds -> Tables] /\ \A k \in Kinds : TableTrue(table[k])
  BY <1>1, FreshTrue
<1>3. picked \in [level : Levels, logsLimit : Limits, historyLimit : Limits]
  BY <1>1, PanelAssumption DEF DefaultPicked
<1>4. url \in [view : Views \cup {NoView}, level : Levels,
               logsLimit : Limits \cup {0}, historyLimit : Limits \cup {0}]
  BY <1>1, PanelAssumption DEF NoUrl
<1>5. AccessTypeOK /\ dialog \in [Dialogs -> Entries \cup {Closed}]
  BY <1>1, AccessAssumption DEF AccessTypeOK, Tokens
<1>6. view \in Views /\ logCount \in 0..MaxLogs /\ failures \in 0..MaxFailures
  <2>1. logCount = IF "entries" \in happens THEN 0 ELSE MaxLogs
    BY DEF Init
  <2> QED BY <1>1, <2>1, PanelAssumption DEF Views
<1>7. TypeOK
  BY <1>1, <1>2, <1>3, <1>4, <1>5, <1>6, RecordsTyped DEF TypeOK
<1>8. Typed /\ Rows
  BY <1>1, <1>2, <1>7 DEF Typed, Rows
<1>9. OneTimer /\ UrlTells
  <2>1. ~handle /\ timers # 1 /\ timers \in {0, 1}
    BY <1>1
  <2> QED BY <1>1, <2>1 DEF OneTimer, UrlTells
<1>10. Access
  BY <1>1 DEF Access
<1> QED BY <1>8, <1>9, <1>10 DEF PanelInv

\* Each step of the panel, of the server and of the tokens.
LEMMA PanelSteps ==
    ASSUME PanelInv, [Next]_vars
    PROVE  PanelInv'
<1>1. CASE User
  <2>1. CASE \E v \in Views : SwitchTo(v)
    BY <2>1, SwitchKeeps
  <2>2. CASE \/ \E l \in Levels : PickLevel(l)
             \/ \E n \in Limits : PickLogsLimit(n)
             \/ \E n \in Limits : PickHistoryLimit(n)
             \/ \E k \in Kinds : RefreshButton(k)
    BY <2>2, InputKeeps
  <2>3. CASE (\E d \in Dialogs, e \in Entries : ShowDetails(d, e)) \/ CloseDialogs
    BY <2>3, AsideKeeps
  <2>4. CASE Hide
    BY <2>4, HideKeeps
  <2>5. CASE Show
    BY <2>5, ShowKeeps
  <2>6. CASE LogInHere
    BY <2>6, TokensKeep
  <2>7. CASE Visit
    <3>1. NoUrl \in Urls
      BY PanelAssumption DEF NoUrl, Urls
    <3> QED BY <2>7, <3>1, OpenKeeps DEF Visit
  <2>8. CASE Reload
    <3>1. url \in Urls
      BY DEF PanelInv, Typed, TypeOK, Urls
    <3> QED BY <2>8, <3>1, OpenKeeps DEF Reload
  <2> QED BY <1>1, <2>1, <2>2, <2>3, <2>4, <2>5, <2>6, <2>7, <2>8 DEF User
<1>2. CASE Tick
  BY <1>2, TickKeeps
<1>3. CASE \E r \in requests : Serve(r)
  BY <1>3, ServeKeeps
<1>4. CASE \E r \in requests : Deliver(r)
  BY <1>4, DeliverKeeps
<1>5. CASE WriteLog \/ UNCHANGED vars
  BY <1>5, AsideKeeps
<1>6. CASE Sessions
  BY <1>6, TokensKeep
<1> QED BY <1>1, <1>2, <1>3, <1>4, <1>5, <1>6 DEF Next

\* The invariant of the panel holds throughout.
THEOREM PanelInvariant == Spec => []PanelInv
<1>1. Init => PanelInv
  BY PanelStarts
<1>2. PanelInv /\ [Next]_vars => PanelInv'
  BY PanelSteps
<1> QED BY <1>1, <1>2, PTL DEF Spec

\* Every variable keeps its type, for any levels, limits and bounds.
THEOREM PanelTyped == Spec => []TypeOK
<1>1. PanelInv => TypeOK
  BY DEF PanelInv, Typed
<1> QED BY <1>1, PanelInvariant, PTL

\* The panel never runs a second interval, and one in front always runs one
\* (admin.js:137-165, 262).
THEOREM OneTimerRuns == Spec => []OneTimer
<1>1. PanelInv => OneTimer
  BY DEF PanelInv
<1> QED BY <1>1, PanelInvariant, PTL

\* Whatever order answers come in and whichever fail, a click on a row finds
\* the entry of that row or none, and the caption of the log is true of the
\* rows below it (admin.js:66-135).
THEOREM RowsDoAgree == Spec => []RowsAgree
<1>1. ASSUME PanelInv PROVE RowsAgree
  <2>1. \A k \in Kinds : TableTrue(table[k])
    BY <1>1 DEF PanelInv, Rows
  <2>2. "logs" \in Kinds /\ Dialogs \subseteq Kinds
    BY DEF Kinds, Dialogs
  <2> QED BY <2>1, <2>2 DEF RowsAgree, TableTrue
<1>2. PanelInv => RowsAgree
  BY <1>1
<1> QED BY <1>2, PanelInvariant, PTL

\* The address says which view, filter and limit the panel shows
\* (admin.js:278-305).
THEOREM AddressTells == Spec => []UrlTells
<1>1. PanelInv => UrlTells
  BY DEF PanelInv
<1> QED BY <1>1, PanelInvariant, PTL

(***************************************************************************)
(* Back to the login page                                                  *)
(***************************************************************************)

\* Why a step takes the panel away: a request was refused, or the page was
\* asked for with a cookie that has expired, and with it every token.
LEMMA Bounced ==
    ASSUME PanelInv, Next, page = "admin", page' = "login"
    PROVE  IF header # NoToken THEN header <= expired ELSE expired > 0
<1> AccessTypeOK
  BY DEF PanelInv, Typed, TypeOK
<1>1. CASE \E r \in requests : Deliver(r)
  <2>1. PICK r \in requests : Deliver(r)
    BY <1>1
  <2>2. r.answer.is = "unauthorized"
    BY <2>1 DEF Deliver
  <2>3. TokenTrue(r) /\ r.token \in Tokens
    BY DEF PanelInv, Access, Typed, Requests
  <2> QED BY <2>2, <2>3 DEF TokenTrue, AccessTypeOK, Tokens
<1>2. CASE Reload
  <2>1. ~PageGranted
    BY <1>2 DEF Reload, OpenAdmin, LoadPage
  <2>2. cookie <= expired
    BY <2>1 DEF PageGranted, Accepted, PresentedToken, NoToken, AccessTypeOK, Tokens
  <2>3. header <= issued /\ cookie = issued /\ issued > 0
    BY DEF PanelInv, Access, AccessTypeOK
  <2> QED BY <2>2, <2>3 DEF AccessTypeOK, Tokens
<1>3. CASE ~(\E r \in requests : Deliver(r)) /\ ~Reload
  <2>1. page' = page \/ Visit
    BY <1>3 DEF Next, User, SwitchTo, PickLevel, PickLogsLimit, PickHistoryLimit, RefreshButton, Change,
                ShowDetails, CloseDialogs, Hide, Show, LogInHere, Tick, Serve, WriteLog, Sessions
  <2> QED BY <2>1 DEF Visit
<1> QED BY <1>1, <1>2, <1>3

\* An administrator is sent back to the login page only by a token that is no
\* longer good: the tab's own if it has one (jwt.go:62-73, admin.js:22-28).
THEOREM BouncedWhenExpired == Spec => BouncedOnlyWhenExpired
<1>1. PanelInv /\ [Next]_vars
        => [page = "admin" /\ page' = "login" => IF header # NoToken THEN header <= expired ELSE expired > 0]_vars
  BY Bounced
<1> QED BY <1>1, PanelInvariant, PTL DEF Spec, BouncedOnlyWhenExpired

(***************************************************************************)
(* The dialogs                                                             *)
(***************************************************************************)

\* The elements at some places of a sequence are there, each place once.
LEMMA PlacesListed ==
  ASSUME NEW s, NEW P \in SUBSET Nat, IsFiniteSet(P)
  PROVE  /\ Cardinality(P) \in Nat
         /\ DOMAIN AtPlaces(s, P) = 1..Cardinality(P)
         /\ \A i \in 1..Cardinality(P) : \E p \in P : AtPlaces(s, P)[i] = s[p]
         /\ \A p \in P : \E i \in 1..Cardinality(P) : AtPlaces(s, P)[i] = s[p]
<1>1. Cardinality(P) \in Nat
      BY FS_CardinalityType
<1>2. AtPlaces(s, P) = [i \in 1..Cardinality(P) |-> s[Nth(P, i - 1)]]
      BY DEF AtPlaces, Nth, Below
<1>3. \A i \in 1..Cardinality(P) : Nth(P, i - 1) \in P
      BY <1>1, NthElement
<1>4. ASSUME NEW p \in P
      PROVE  \E i \in 1..Cardinality(P) : AtPlaces(s, P)[i] = s[p]
  <2> DEFINE r == Cardinality(Below(P, p))
  <2>1. r \in 0..Cardinality(P) - 1
        BY RankOf
  <2>2. Nth(P, r) \in P /\ Cardinality(Below(P, Nth(P, r))) = r
        BY <2>1, NthElement
  <2>3. ~(Nth(P, r) < p) /\ ~(p < Nth(P, r))
    <3>1. r \in Nat
          BY <1>1, <2>1
    <3>2. ASSUME Nth(P, r) < p PROVE FALSE
      <4>1. Cardinality(Below(P, Nth(P, r))) < Cardinality(Below(P, p))
            BY <2>2, <3>2, RanksGrow
      <4> QED BY <2>2, <3>1, <4>1
    <3>3. ASSUME p < Nth(P, r) PROVE FALSE
      <4>1. Cardinality(Below(P, p)) < Cardinality(Below(P, Nth(P, r)))
            BY <2>2, <3>3, RanksGrow
      <4> QED BY <2>2, <3>1, <4>1
    <3> QED BY <3>2, <3>3
  <2> HIDE DEF r
  <2>4. Nth(P, r) = p
    <3>1. p \in Nat /\ Nth(P, r) \in Nat
          BY <2>2
    <3>2. \A m, n \in Nat : ~(m < n) /\ ~(n < m) => m = n
          OBVIOUS
    <3> QED BY <2>3, <3>1, <3>2
  <2>5. r + 1 \in 1..Cardinality(P) /\ (r + 1) - 1 = r
        BY <1>1, <2>1
  <2>6. AtPlaces(s, P)[r + 1] = s[p]
        BY <1>2, <2>4, <2>5
  <2> QED BY <2>5, <2>6
<1> QED BY <1>1, <1>2, <1>3, <1>4

OnceEach(fields) == \A i, j \in DOMAIN fields : fields[i].key = fields[j].key => i = j

LEMMA OrderOfSeven == /\ DOMAIN FieldOrder = 1..7
                      /\ \A i, j \in 1..7 : FieldOrder[i] = FieldOrder[j] => i = j
BY DEF FieldOrder

LEMMA JoinedAt == ASSUME NEW V, NEW a \in Seq(V), NEW b \in Seq(V), NEW i \in 1..Len(b)
                  PROVE  Len(a) + i \in DOMAIN (a \o b) /\ (a \o b)[Len(a) + i] = b[i]
OBVIOUS

\* The keys of one list after another are the keys of both.
LEMMA KeysOfBoth == ASSUME NEW V, NEW a \in Seq(V), NEW b \in Seq(V)
                    PROVE  Keys(a \o b) = Keys(a) \cup Keys(b)
<1>1. /\ DOMAIN a = 1..Len(a) /\ DOMAIN b = 1..Len(b) /\ DOMAIN (a \o b) = 1..Len(a) + Len(b)
      /\ Len(a) \in Nat /\ Len(b) \in Nat
      OBVIOUS
<1>2. /\ \A i \in 1..Len(a) : (a \o b)[i] = a[i]
      /\ \A i \in 1..Len(b) : (a \o b)[Len(a) + i] = b[i]
      OBVIOUS
<1>3. \A i \in 1..Len(a) + Len(b) : i \in 1..Len(a) \/ \E j \in 1..Len(b) : i = Len(a) + j
  <2> SUFFICES ASSUME NEW i \in 1..Len(a) + Len(b), ~(i \in 1..Len(a))
               PROVE  \E j \in 1..Len(b) : i = Len(a) + j
      OBVIOUS
  <2>1. i - Len(a) \in 1..Len(b) /\ i = Len(a) + (i - Len(a))
        BY <1>1
  <2> QED BY <2>1
<1>4. \A i \in 1..Len(b) : Len(a) + i \in 1..Len(a) + Len(b)
      BY <1>1
<1>5. \A i \in 1..Len(a) : i \in 1..Len(a) + Len(b)
      BY <1>1
<1> DEFINE c == a \o b
<1> HIDE DEF c
<1>6. /\ DOMAIN c = 1..Len(a) + Len(b)
      /\ \A i \in 1..Len(a) : c[i] = a[i]
      /\ \A i \in 1..Len(b) : c[Len(a) + i] = b[i]
      BY <1>1, <1>2 DEF c
<1>7. Keys(c) \subseteq Keys(a) \cup Keys(b)
  <2> SUFFICES ASSUME NEW i \in 1..Len(a) + Len(b) PROVE c[i].key \in Keys(a) \cup Keys(b)
      BY <1>6 DEF Keys
  <2>1. CASE i \in 1..Len(a)
        BY <1>1, <1>6, <2>1 DEF Keys
  <2>2. CASE \E j \in 1..Len(b) : i = Len(a) + j
        BY <1>1, <1>6, <2>2 DEF Keys
  <2> QED BY <1>3, <2>1, <2>2
<1>8. Keys(a) \subseteq Keys(c)
      BY <1>1, <1>5, <1>6 DEF Keys
<1>9. Keys(b) \subseteq Keys(c)
  <2> SUFFICES ASSUME NEW i \in 1..Len(b) PROVE b[i].key \in Keys(c)
      BY <1>1 DEF Keys
  <2>1. Len(a) + i \in DOMAIN c /\ c[Len(a) + i] = b[i]
        BY <1>4, <1>6
  <2> QED BY <2>1 DEF Keys
<1> QED BY <1>7, <1>8, <1>9 DEF c

\* formatContainerForDisplay shows each field of a record once, listed in its
\* order or not, whatever fields the record has (admin.js:212-214).
LEMMA FieldsOnce ==
  ASSUME NEW V, NEW fields \in Seq(V), OnceEach(fields)
  PROVE  /\ Keys(ContainerFields(fields)) = Keys(fields)
         /\ Len(ContainerFields(fields)) = Len(fields)
         /\ ContainerFields(fields) \in Seq(V)
<1> DEFINE A == OrderedIn(fields)
           B == OthersIn(fields)
           L == {i \in DOMAIN fields : Listed(fields[i].key)}
           at == [i \in A |-> CHOOSE j \in DOMAIN fields : fields[j].key = FieldOrder[i]]
           listed == AtPlaces(FieldOrder, A)
           first == [i \in DOMAIN listed |-> FieldNamed(fields, listed[i])]
           rest == AtPlaces(fields, B)
<1>1. DOMAIN fields = 1..Len(fields) /\ Len(fields) \in Nat /\ \A i \in DOMAIN fields : fields[i] \in V
      OBVIOUS
<1>2. /\ A \in SUBSET Nat /\ IsFiniteSet(A) /\ A \subseteq 1..7
      /\ B \in SUBSET Nat /\ IsFiniteSet(B) /\ IsFiniteSet(L)
      /\ L \cup B = 1..Len(fields) /\ L \cap B = {}
  <2>1. A \subseteq 1..7 /\ B \subseteq 1..Len(fields) /\ L \subseteq 1..Len(fields)
    <3>1. A \subseteq DOMAIN FieldOrder
          BY DEF OrderedIn
    <3>2. B \subseteq DOMAIN fields /\ L \subseteq DOMAIN fields
          BY DEF OthersIn
    <3> HIDE DEF A, B, L
    <3>3. A \subseteq 1..7
          BY <3>1, OrderOfSeven
    <3>4. B \subseteq 1..Len(fields)
          BY <1>1, <3>2
    <3>5. L \subseteq 1..Len(fields)
          BY <1>1, <3>2
    <3> QED BY <3>3, <3>4, <3>5
  <2>2. IsFiniteSet(1..7) /\ IsFiniteSet(1..Len(fields))
    <3>1. 1 \in Int /\ 7 \in Int /\ Len(fields) \in Int
          BY <1>1
    <3> QED BY <3>1, FS_Interval
  <2>3. L \cup B = 1..Len(fields) /\ L \cap B = {}
        BY <1>1 DEF OthersIn
  <2>4. 1..7 \subseteq Nat /\ 1..Len(fields) \subseteq Nat
        BY <1>1
  <2> HIDE DEF A, B, L
  <2> QED BY <2>1, <2>2, <2>3, <2>4, FS_Subset
<1>3. \A i \in A : at[i] \in DOMAIN fields /\ fields[at[i]].key = FieldOrder[i]
      BY DEF OrderedIn, Keys
<1>4. Cardinality(A) = Cardinality(L)
  <2>1. at \in [A -> L]
        BY <1>2, <1>3, OrderOfSeven DEF Listed
  <2>2. \A i, j \in A : at[i] = at[j] => i = j
        BY <1>2, <1>3, OrderOfSeven
  <2>3. \A j \in L : \E i \in A : at[i] = j
    <3> SUFFICES ASSUME NEW j \in L PROVE \E i \in A : at[i] = j
        OBVIOUS
    <3>1. PICK i \in DOMAIN FieldOrder : FieldOrder[i] = fields[j].key
          BY DEF Listed
    <3>2. i \in A
          BY <3>1 DEF OrderedIn, Keys
    <3> QED BY <1>3, <3>1, <3>2 DEF OnceEach
  <2> HIDE DEF A, L, at
  <2>4. at \in Bijection(A, L)
        BY <2>1, <2>2, <2>3 DEF Bijection, Injection, Surjection, IsInjective
  <2> QED BY <1>2, <2>4, FS_Bijection DEF ExistsBijection
<1>5. /\ Cardinality(A) \in Nat /\ Cardinality(B) \in Nat
      /\ Cardinality(A) + Cardinality(B) = Len(fields)
  <2>1. Cardinality(1..Len(fields)) = Len(fields)
        BY <1>1, FS_Interval
  <2> HIDE DEF A, B, L
  <2>2. Cardinality(L \cup B) = Cardinality(L) + Cardinality(B)
        BY <1>2, DisjointUnion
  <2>3. Cardinality(A) \in Nat /\ Cardinality(B) \in Nat
        BY <1>2, FS_CardinalityType
  <2> QED BY <1>2, <1>4, <2>1, <2>2, <2>3
<1>6. /\ DOMAIN listed = 1..Cardinality(A)
      /\ \A i \in 1..Cardinality(A) : \E p \in A : listed[i] = FieldOrder[p]
      /\ \A p \in A : \E i \in 1..Cardinality(A) : listed[i] = FieldOrder[p]
  <2> HIDE DEF A
  <2> QED BY <1>2, PlacesListed
<1>7. /\ DOMAIN rest = 1..Cardinality(B)
      /\ \A i \in 1..Cardinality(B) : \E p \in B : rest[i] = fields[p]
      /\ \A p \in B : \E i \in 1..Cardinality(B) : rest[i] = fields[p]
  <2> HIDE DEF B
  <2> QED BY <1>2, PlacesListed
<1>8. \A k \in Keys(fields) : FieldNamed(fields, k) \in V /\ FieldNamed(fields, k).key = k
      BY <1>1 DEF Keys, FieldNamed
<1>9. \A i \in DOMAIN listed : listed[i] \in Keys(fields)
      BY <1>6 DEF OrderedIn
<1>10. /\ DOMAIN first = 1..Cardinality(A) /\ first \in [1..Cardinality(A) -> V]
       /\ \A i \in 1..Cardinality(A) : first[i].key = listed[i]
  <2> HIDE DEF listed, A
  <2> QED BY <1>6, <1>8, <1>9
<1>11. rest \in [1..Cardinality(B) -> V]
  <2>1. \A p \in B : fields[p] \in V
        BY <1>1 DEF OthersIn
  <2>2. rest = [i \in 1..Cardinality(B) |-> rest[i]]
        BY DEF AtPlaces
  <2> HIDE DEF rest, B
  <2> QED BY <1>7, <2>1, <2>2
<1>12. /\ first \in Seq(V) /\ Len(first) = Cardinality(A)
       /\ rest \in Seq(V) /\ Len(rest) = Cardinality(B)
  <2>1. ASSUME NEW n \in Nat, NEW f \in [1..n -> V] PROVE f \in Seq(V) /\ Len(f) = n
        OBVIOUS
  <2> HIDE DEF first, rest, A, B
  <2>2. first \in Seq(V) /\ Len(first) = Cardinality(A)
        BY <1>5, <1>10, <2>1
  <2>3. rest \in Seq(V) /\ Len(rest) = Cardinality(B)
        BY <1>5, <1>11, <2>1
  <2> QED BY <2>2, <2>3
<1>13. ContainerFields(fields) = first \o rest
      BY DEF ContainerFields
<1>14. Keys(first) = {FieldOrder[p] : p \in A}
  <2> HIDE DEF first, listed, A
  <2> QED BY <1>6, <1>10 DEF Keys
<1>15. Keys(rest) = {fields[p].key : p \in B}
  <2> HIDE DEF rest, B
  <2>1. \A i \in DOMAIN rest : \E p \in B : rest[i].key = fields[p].key
        BY <1>7
  <2>2. \A p \in B : \E i \in DOMAIN rest : rest[i].key = fields[p].key
        BY <1>7
  <2> QED BY <2>1, <2>2 DEF Keys
<1>16. Keys(fields) = {FieldOrder[p] : p \in A} \cup {fields[p].key : p \in B}
  <2>1. {FieldOrder[p] : p \in A} \subseteq Keys(fields)
        BY DEF OrderedIn
  <2>2. {fields[p].key : p \in B} \subseteq Keys(fields)
        BY DEF OthersIn, Keys
  <2>3. \A j \in DOMAIN fields : j \in B \/ \E p \in A : FieldOrder[p] = fields[j].key
        BY DEF OthersIn, Listed, OrderedIn, Keys
  <2> HIDE DEF A, B
  <2> QED BY <2>1, <2>2, <2>3 DEF Keys
<1> HIDE DEF first, rest, A, B
<1>17. Keys(first \o rest) = Keys(first) \cup Keys(rest)
      BY <1>12, KeysOfBoth
<1>18. first \o rest \in Seq(V) /\ Len(first \o rest) = Len(first) + Len(rest)
      BY <1>12
<1> QED BY <1>5, <1>12, <1>13, <1>14, <1>15, <1>16, <1>17, <1>18

\* Two lists without a key in common, each with its keys once, give one.
LEMMA JoinedFields ==
  ASSUME NEW V, NEW a \in Seq(V), NEW b \in Seq(V), OnceEach(a), OnceEach(b),
         Keys(a) \cap Keys(b) = {}
  PROVE  a \o b \in Seq(V) /\ OnceEach(a \o b)
<1>1. /\ DOMAIN a = 1..Len(a) /\ DOMAIN b = 1..Len(b) /\ DOMAIN (a \o b) = 1..Len(a) + Len(b)
      /\ Len(a) \in Nat /\ Len(b) \in Nat
      OBVIOUS
<1> DEFINE c == a \o b
<1>2. \A i \in DOMAIN c : \/ i \in DOMAIN a /\ c[i] = a[i]
                          \/ i - Len(a) \in DOMAIN b /\ c[i] = b[i - Len(a)]
      BY <1>1
<1>3. DOMAIN c \subseteq Int
      BY <1>1
<1> HIDE DEF c
<1>4. \A i \in DOMAIN a, j \in DOMAIN b : a[i].key # b[j].key
      BY DEF Keys
<1>5. \A i, j \in Int : i - Len(a) = j - Len(a) => i = j
      BY <1>1
<1>6. ASSUME NEW i \in DOMAIN c, NEW j \in DOMAIN c, c[i].key = c[j].key PROVE i = j
  <2>1. CASE i \in DOMAIN a /\ c[i] = a[i] /\ j \in DOMAIN a /\ c[j] = a[j]
        BY <1>6, <2>1 DEF OnceEach
  <2>2. CASE /\ i - Len(a) \in DOMAIN b /\ c[i] = b[i - Len(a)]
             /\ j - Len(a) \in DOMAIN b /\ c[j] = b[j - Len(a)]
    <3>1. i - Len(a) = j - Len(a)
          BY <1>6, <2>2 DEF OnceEach
    <3> QED BY <1>3, <1>5, <3>1
  <2>3. CASE i \in DOMAIN a /\ c[i] = a[i] /\ j - Len(a) \in DOMAIN b /\ c[j] = b[j - Len(a)]
        BY <1>4, <1>6, <2>3
  <2>4. CASE j \in DOMAIN a /\ c[j] = a[j] /\ i - Len(a) \in DOMAIN b /\ c[i] = b[i - Len(a)]
        BY <1>4, <1>6, <2>4
  <2> QED BY <1>2, <2>1, <2>2, <2>3, <2>4
<1> QED BY <1>6 DEF OnceEach, c

\* A container's record, with an error message exactly if its execution failed.
LEMMA RecordOfHistory ==
  ASSUME NEW failed \in BOOLEAN
  PROVE  LET r == HistoryRecord(failed, ~failed)
         IN  /\ \E V : r \in Seq(V)
             /\ OnceEach(r)
             /\ (FieldNamed(r, "error_message").class = "empty") = ~failed
<1> DEFINE a1 == Field("container_id", "text")
           a2 == Field("created_at", "text")
           a3 == Field("finished_at", "text")
           a4 == Field("execution_time", "number")
           b1 == Field("ip", "text")
           c1 == Field("code_executed", "lines")
           c2 == Field("output", "lines")
           m == Field("error_message", IF failed THEN "text" ELSE "empty")
           V == {a1, a2, a3, a4, b1, c1, c2, m}
           a == <<a1, a2, a3, a4>>
           b == IF ~failed THEN <<b1>> ELSE << >>
           c == <<c1, c2, m>>
<1>1. /\ a1.key = "container_id" /\ a2.key = "created_at" /\ a3.key = "finished_at"
      /\ a4.key = "execution_time" /\ b1.key = "ip" /\ c1.key = "code_executed"
      /\ c2.key = "output" /\ m.key = "error_message"
      BY DEF Field
<1>2. (m.class = "empty") = ~failed
  <2>1. m.class = IF failed THEN "text" ELSE "empty"
        BY DEF Field
  <2> HIDE DEF m
  <2>2. m.class = "empty" <=> ~failed
        BY <2>1
  <2> QED BY <2>2
<1> HIDE DEF a1, a2, a3, a4, b1, c1, c2, m
<1>3. /\ a \in Seq(V) /\ OnceEach(a)
      /\ Keys(a) = {"container_id", "created_at", "finished_at", "execution_time"}
  <2>1. DOMAIN a = {1, 2, 3, 4} /\ a[1] = a1 /\ a[2] = a2 /\ a[3] = a3 /\ a[4] = a4
        OBVIOUS
  <2>2. a \in Seq(V)
        OBVIOUS
  <2> HIDE DEF a, V
  <2> QED BY <1>1, <2>1, <2>2 DEF Keys, OnceEach
<1>4. b \in Seq(V) /\ OnceEach(b) /\ Keys(b) \subseteq {"ip"}
  <2>1. CASE failed
    <3>1. b = << >>
          BY <2>1
    <3> QED BY <3>1 DEF Keys, OnceEach
  <2>2. CASE ~failed
    <3>1. b = <<b1>>
          BY <2>2
    <3>2. DOMAIN b = {1} /\ b[1] = b1
          BY <3>1
    <3>3. b \in Seq(V)
      <4>1. <<b1>> \in Seq(V)
            OBVIOUS
      <4> HIDE DEF b
      <4> QED BY <3>1, <4>1
    <3> HIDE DEF b, V
    <3> QED BY <1>1, <3>2, <3>3 DEF Keys, OnceEach
  <2> QED BY <2>1, <2>2
<1>5. /\ c \in Seq(V) /\ OnceEach(c) /\ Len(c) = 3 /\ c[3] = m
      /\ Keys(c) = {"code_executed", "output", "error_message"}
  <2>1. DOMAIN c = {1, 2, 3} /\ Len(c) = 3 /\ c[1] = c1 /\ c[2] = c2 /\ c[3] = m
        OBVIOUS
  <2>2. c \in Seq(V)
        OBVIOUS
  <2> HIDE DEF c, V
  <2> QED BY <1>1, <2>1, <2>2 DEF Keys, OnceEach
<1>7. HistoryRecord(failed, ~failed) = (a \o b) \o c
      BY DEF HistoryRecord, m, a1, a2, a3, a4, b1, c1, c2
<1> HIDE DEF a, b, c, V
<1>6. Keys(a) \cap Keys(b) = {}
      BY <1>3, <1>4
<1>8. a \o b \in Seq(V) /\ OnceEach(a \o b)
      BY <1>3, <1>4, <1>6, JoinedFields
<1>9. Keys(a \o b) = Keys(a) \cup Keys(b)
      BY <1>3, <1>4, KeysOfBoth
<1> DEFINE ab == a \o b
           r == ab \o c
<1> HIDE DEF ab
<1>10. ab \in Seq(V) /\ OnceEach(ab) /\ Keys(ab) \cap Keys(c) = {}
      BY <1>3, <1>4, <1>5, <1>8, <1>9 DEF ab
<1>11. r \in Seq(V) /\ OnceEach(r)
      BY <1>5, <1>10, JoinedFields
<1>12. Len(ab) + 3 \in DOMAIN r /\ r[Len(ab) + 3] = m
  <2>1. 3 \in 1..Len(c) /\ ab \in Seq(V) /\ c \in Seq(V)
        BY <1>5, <1>10
  <2>2. Len(ab) + 3 \in DOMAIN (ab \o c) /\ (ab \o c)[Len(ab) + 3] = c[3]
        BY <2>1, JoinedAt
  <2> QED BY <1>5, <2>2
<1> HIDE DEF r
<1>13. FieldNamed(r, "error_message") = m
      BY <1>1, <1>11, <1>12 DEF FieldNamed, OnceEach
<1>14. HistoryRecord(failed, ~failed) = r
      BY <1>7 DEF r, ab
<1> QED BY <1>2, <1>11, <1>13, <1>14

\* Colours and labels do not change what a field is called.
LEMMA StyledKeepsKeys ==
  ASSUME NEW f, NEW g, DOMAIN g = DOMAIN f, \A i \in DOMAIN f : g[i].key = f[i].key
  PROVE  Keys(g) = Keys(f)
BY DEF Keys

\* Both formatters show every field once; only a failed execution is FAILED.
LEMMA DialogsTell ==
  ASSUME NEW d \in Dialogs, dialog[d] # Closed
  PROVE  LET failed == dialog[d] % 2 = 0
             record == IF d = "logs" THEN LogRecord(LevelOf(dialog[d])) ELSE HistoryRecord(failed, ~failed)
             shown  == IF d = "logs" THEN LogDetails(record) ELSE ContainerDetails(record)
         IN  /\ Keys(shown.fields) = Keys(record)
             /\ Len(shown.fields) = Len(record)
             /\ d = "history" => (shown.badge = "FAILED") = failed
<1> DEFINE failed == dialog[d] % 2 = 0
<1>1. CASE d = "logs"
  <2> DEFINE record == LogRecord(LevelOf(dialog[d]))
             g == LogDetails(record).fields
  <2>1. g = [i \in DOMAIN record |-> [key |-> record[i].key, style |-> LogStyle(record[i])]]
        BY DEF LogDetails, Styled
  <2>2. DOMAIN record = 1..6 /\ Len(record) = 6
        BY DEF LogRecord
  <2> HIDE DEF record, g
  <2>3. Keys(g) = Keys(record) /\ Len(g) = Len(record)
        BY <2>1, <2>2, StyledKeepsKeys
  <2> QED BY <1>1, <2>3 DEF record, g
<1>2. CASE d = "history"
  <2> DEFINE record == HistoryRecord(failed, ~failed)
             cf == ContainerFields(record)
             g == ContainerDetails(record).fields
             badge == ContainerDetails(record).badge
  <2>0. failed \in BOOLEAN
        OBVIOUS
  <2> HIDE DEF failed
  <2>1. /\ \E V : record \in Seq(V)
        /\ OnceEach(record)
        /\ (FieldNamed(record, "error_message").class = "empty") = ~failed
        BY <2>0, RecordOfHistory
  <2>2. g = [i \in DOMAIN cf |-> [key |-> cf[i].key, style |-> ContainerStyle(cf[i])]]
        BY DEF ContainerDetails, Styled
  <2>3. badge = IF FieldNamed(record, "error_message").class = "empty" THEN "SUCCESS" ELSE "FAILED"
        BY DEF ContainerDetails
  <2> HIDE DEF record, g, badge
  <2> PICK V : record \in Seq(V)
        BY <2>1
  <2>4. Keys(cf) = Keys(record) /\ Len(cf) = Len(record) /\ cf \in Seq(V)
        BY <2>1, FieldsOnce
  <2> HIDE DEF cf
  <2>5. Keys(g) = Keys(record)
        BY <2>2, <2>4, StyledKeepsKeys
  <2>6. Len(g) = Len(record)
        BY <2>2, <2>4
  <2>7. (badge = "FAILED") = failed
        BY <2>0, <2>1, <2>3
  <2> QED BY <1>2, <2>5, <2>6, <2>7 DEF record, g, badge, failed
<1> QED BY <1>1, <1>2 DEF Dialogs

\* The page is locked while a dialog is open.
Scroll == scrollLocked = DialogOpen

\* The page behind is locked exactly while a dialog is open.
LEMMA ScrollKeeps ==
  ASSUME PanelInv, Scroll, [Next]_vars
  PROVE  Scroll'
<1>1. CASE UNCHANGED <<dialog, scrollLocked>>
      BY <1>1 DEF Scroll, DialogOpen
<1>2. CASE dialog' = [d \in Dialogs |-> Closed] /\ scrollLocked' = FALSE
      BY <1>2 DEF Scroll, DialogOpen
<1>3. CASE \E d \in Dialogs, e \in Entries : ShowDetails(d, e)
  <2>1. PICK d \in Dialogs, e \in Entries : ShowDetails(d, e)
        BY <1>3
  <2>2. PICK x \in table[d].current : dialog' = [dialog EXCEPT ![d] = x]
        BY <2>1 DEF ShowDetails
  <2>3. x # Closed /\ dialog \in [Dialogs -> Entries \cup {Closed}]
    <3>1. table[d].current \subseteq Entries
          BY DEF PanelInv, Typed, TypeOK, Dialogs, Kinds
    <3> QED BY <2>2, <3>1 DEF PanelInv, Typed, TypeOK, Entries, Closed
  <2>4. scrollLocked' = TRUE
        BY <2>1 DEF ShowDetails
  <2>5. dialog'[d] # Closed
        BY <2>2, <2>3
  <2> QED BY <2>4, <2>5 DEF Scroll, DialogOpen
<1>4. CASE UNCHANGED vars
      BY <1>1, <1>4 DEF vars, screen
<1>5. CASE User
  <2>1. CASE \E v \in Views : SwitchTo(v)
        BY <1>1, <2>1 DEF SwitchTo
  <2>2. CASE \/ \E l \in Levels : PickLevel(l)
             \/ \E n \in Limits : PickLogsLimit(n)
             \/ \E n \in Limits : PickHistoryLimit(n)
             \/ \E k \in Kinds : RefreshButton(k)
        BY <1>1, <2>2 DEF PickLevel, PickLogsLimit, PickHistoryLimit, RefreshButton, Change
  <2>3. CASE CloseDialogs
        BY <1>2, <2>3 DEF CloseDialogs
  <2>4. CASE Hide \/ Show \/ LogInHere
        BY <1>1, <2>4 DEF Hide, Show, LogInHere, screen
  <2>5. CASE Visit \/ Reload
        BY <1>2, <2>5 DEF Visit, Reload, OpenAdmin, LoadPage, PanelGone
  <2> QED BY <1>3, <1>5, <2>1, <2>2, <2>3, <2>4, <2>5 DEF User
<1>6. CASE Tick \/ WriteLog \/ Sessions
      BY <1>1, <1>6 DEF Tick, WriteLog, Sessions, screen
<1>7. CASE \E r \in requests : Serve(r)
      BY <1>1, <1>7 DEF Serve, screen
<1>8. CASE \E r \in requests : Deliver(r)
      BY <1>1, <1>2, <1>8 DEF Deliver, PanelGone
<1> QED BY <1>4, <1>5, <1>6, <1>7, <1>8 DEF Next

\* What a dialog shows is its entry, whole and with the right badge, the page
\* behind it scrolls again when it is closed, and the address restores the
\* view and the filter (admin.js:148-221, 266-306).
THEOREM PageDoesAgree == Spec => []PageAgrees
<1>1. Init => Scroll
      BY DEF Init, Scroll, DialogOpen
<1>2. PanelInv /\ Scroll => PageAgrees
      BY DialogsTell DEF PanelInv, PageAgrees, DialogsAgree, Scroll
<1>3. PanelInv /\ Scroll /\ [Next]_vars => Scroll'
      BY ScrollKeeps
<1> QED BY <1>1, <1>2, <1>3, PanelInvariant, PTL DEF Spec

(***************************************************************************)
(* The observability page: executions and their numbers                    *)
(***************************************************************************)

Counting(S) == IsFiniteSet(S) /\ \A r \in S : r.n \in Nat
Units(S) == {p \in S \X Nat : p[2] \in 1..p[1].n}

\* A sum of rows is the number of executions they stand for.
LEMMA Weight == ASSUME NEW S, Counting(S)
                PROVE  /\ WeightOf(S) = Cardinality(Units(S))
                       /\ IsFiniteSet(Units(S))
                       /\ WeightOf(S) \in Nat
<1> DEFINE f == [r \in S |-> r.n]
<1>1. \A r \in S : f[r] \in Nat
      BY DEF Counting
<1>2. Area(f, S) = Units(S)
      BY DEF Area, Units
<1>3. WeightOf(S) = SumFunctionOnSet(f, S)
      BY DEF WeightOf, SumFunction
<1> HIDE DEF f
<1>4. IsFiniteSet(S)
      BY DEF Counting
<1> QED BY <1>1, <1>2, <1>3, <1>4, SumIsArea, AreaFinite, FS_CardinalityType

\* Rows apart from each other add up.
LEMMA WeightSplit == ASSUME NEW A, NEW B, Counting(A), Counting(B), A \cap B = {}
                     PROVE  WeightOf(A \cup B) = WeightOf(A) + WeightOf(B)
<1>1. Units(A \cup B) = Units(A) \cup Units(B) /\ Units(A) \cap Units(B) = {}
      BY DEF Units
<1>2. Counting(A \cup B)
      BY FS_Union DEF Counting
<1>3. Cardinality(Units(A) \cup Units(B)) = Cardinality(Units(A)) + Cardinality(Units(B))
      BY <1>1, Weight, DisjointUnion
<1>4. /\ WeightOf(A) = Cardinality(Units(A)) /\ WeightOf(B) = Cardinality(Units(B))
      /\ WeightOf(A \cup B) = Cardinality(Units(A \cup B))
      BY <1>2, Weight
<1> QED BY <1>1, <1>3, <1>4

LEMMA FewerCount == ASSUME NEW A, NEW B, Counting(B), A \subseteq B
                    PROVE  Counting(A)
BY FS_Subset DEF Counting

\* More rows stand for no fewer executions.
LEMMA WeightGrows == ASSUME NEW A, NEW B, Counting(B), A \subseteq B
                     PROVE  WeightOf(A) <= WeightOf(B)
<1>1. Units(A) \subseteq Units(B)
      BY DEF Units
<1> QED BY <1>1, Weight, FewerCount, FS_Subset

\* Rows counted one value of a key at a time are counted once each.
LEMMA WeightByKey == ASSUME NEW S, Counting(S), NEW K, IsFiniteSet(K), NEW key \in [S -> K],
                            NEW counts \in [K -> Nat],
                            \A k \in K : counts[k] = WeightOf({r \in S : key[r] = k})
                     PROVE  SumFunction(counts) = WeightOf(S)
<1> DEFINE Of(T) == {r \in S : key[r] \in T}
           bad == {T \in SUBSET K : SumFunctionOnSet(counts, T) # WeightOf(Of(T))}
<1>1. bad = {}
  <2> SUFFICES ASSUME bad # {} PROVE FALSE
      OBVIOUS
  <2>1. PICK T \in bad : \A U \in bad : U \subseteq T => U = T
    <3>1. bad \subseteq SUBSET K
          OBVIOUS
    <3> HIDE DEF bad
    <3> QED BY <3>1, MinimalSet
  <2>2. IsFiniteSet(T) /\ \A k \in T : counts[k] \in Nat
        BY FS_Subset
  <2>3. CASE T = {}
    <3>1. Area(counts, T) = {} /\ Of(T) = {} /\ Units({}) = {}
          BY <2>3 DEF Area, Units
    <3>2. SumFunctionOnSet(counts, T) = 0
          BY <2>2, <3>1, SumIsArea, FS_EmptySet
    <3>3. WeightOf({}) = 0
          BY <3>1, Weight, FS_EmptySet DEF Counting
    <3> QED BY <2>1, <3>1, <3>2, <3>3
  <2>4. CASE T # {}
    <3>1. PICK k \in T : TRUE
          BY <2>4
    <3>2. SumFunctionOnSet(counts, T) = counts[k] + SumFunctionOnSet(counts, T \ {k})
          BY <2>2, SumStep
    <3>3. SumFunctionOnSet(counts, T \ {k}) = WeightOf(Of(T \ {k}))
          BY <2>1, <3>1
    <3>4. Of(T) = Of({k}) \cup Of(T \ {k}) /\ Of({k}) \cap Of(T \ {k}) = {}
          BY <3>1
    <3>5. Counting(Of({k})) /\ Counting(Of(T \ {k}))
          BY FewerCount
    <3>6. WeightOf(Of(T)) = WeightOf(Of({k})) + WeightOf(Of(T \ {k}))
          BY <3>4, <3>5, WeightSplit
    <3>7. Of({k}) = {r \in S : key[r] = k}
          OBVIOUS
    <3>8. counts[k] = WeightOf(Of({k}))
          BY <3>7
    <3> QED BY <2>1, <3>2, <3>3, <3>6, <3>8
  <2> QED BY <2>3, <2>4
<1>2. SumFunctionOnSet(counts, K) = WeightOf(Of(K))
      BY <1>1
<1>3. Of(K) = S
      OBVIOUS
<1> QED BY <1>2, <1>3 DEF SumFunction

-----------------------------------------------------------------------------
(* The queries *)

\* Arithmetic of whole hours.
LEMMA Division == ASSUME NEW h \in Nat \ {0}, NEW t \in Nat
                  PROVE  t \div h \in Nat /\ (t \div h) * h <= t /\ t < (t \div h) * h + h
OBVIOUS

LEMMA Multiples == ASSUME NEW h \in Nat \ {0}, NEW q \in Nat
                   PROVE  (q * h) % h = 0
OBVIOUS

LEMMA MoreTimes == ASSUME NEW h \in Nat \ {0}, NEW p \in Nat, NEW q \in Nat, p <= q
                   PROVE  p * h <= q * h
OBVIOUS

LEMMA Quotients == ASSUME NEW h \in Nat \ {0}, NEW s \in Nat, NEW t \in Nat, s <= t
                   PROVE  s \div h <= t \div h
<1> DEFINE p == s \div h
           q == t \div h
<1>1. p \in Nat /\ q \in Nat /\ p * h <= s /\ t < q * h + h
      BY Division
<1> HIDE DEF p, q
<1>2. ASSUME q < p PROVE FALSE
  <2>1. (q + 1) * h <= p * h
        BY <1>1, <1>2, MoreTimes
  <2>2. (q + 1) * h = q * h + h
        BY <1>1
  <2> QED BY <1>1, <2>1, <2>2
<1> QED BY <1>1, <1>2 DEF p, q

\* The hour of an instant: a multiple of the hour's length, not after it, and
\* not before that of an earlier instant.
LEMMA HourOfInstant == ASSUME NEW t \in Nat
                       PROVE  HourOf(t) \in Nat /\ HourOf(t) <= t /\ HourOf(t) % Hour = 0
<1>1. Hour \in Nat \ {0}
      BY StatsAssumption DEF StatsAssumption
<1> DEFINE q == t \div Hour
<1>2. q \in Nat /\ q * Hour <= t
      BY <1>1, Division
<1> HIDE DEF q
<1>3. q * Hour \in Nat /\ (q * Hour) % Hour = 0
      BY <1>1, <1>2, Multiples
<1> QED BY <1>2, <1>3 DEF HourOf, q

\* A later instant lies in no earlier hour.
LEMMA HoursInOrder == ASSUME NEW s \in Nat, NEW t \in Nat, s <= t
                      PROVE  HourOf(s) <= HourOf(t)
<1>1. Hour \in Nat \ {0}
      BY StatsAssumption DEF StatsAssumption
<1>2. s \div Hour <= t \div Hour /\ s \div Hour \in Nat /\ t \div Hour \in Nat
      BY <1>1, Quotients, Division
<1> QED BY <1>1, <1>2, MoreTimes DEF HourOf

-----------------------------------------------------------------------------

Row == [id : Nat, table : {"containers", "failures"}, at : Nat, ip : IPs, failed : BOOLEAN, n : Nat]

InRows(R, name, from, to) == {r \in R : r.table = name /\ from <= r.at /\ r.at < to}
Points(from, to) == {t \in HourOf(from)..to - 1 : t % Hour = 0}

\* The points of the chart: there is one, they are finitely many, and the
\* hour of every instant of the range is among them.
LEMMA PointsOfRange == ASSUME NEW from \in Nat, NEW to \in Nat, from < to
                       PROVE  /\ IsFiniteSet(Points(from, to))
                              /\ Points(from, to) \subseteq Nat /\ Points(from, to) # {}
                              /\ \A t \in Nat : from <= t /\ t < to => HourOf(t) \in Points(from, to)
<1>1. HourOf(from) \in Nat
      BY HourOfInstant
<1>2. Points(from, to) \subseteq HourOf(from)..to - 1
      BY DEF Points
<1>3. IsFiniteSet(Points(from, to))
  <2>1. IsFiniteSet(HourOf(from)..to - 1)
        BY <1>1, FS_Interval
  <2> QED BY <1>2, <2>1, FS_Subset
<1>4. \A t \in Nat : from <= t /\ t < to => HourOf(t) \in Points(from, to)
      BY <1>1, HourOfInstant, HoursInOrder DEF Points
<1>5. HourOf(from) \in Points(from, to)
      BY <1>4
<1> QED BY <1>1, <1>2, <1>3, <1>4, <1>5

LEMMA NoWeight == WeightOf({}) = 0
<1>1. Units({}) = {}
      BY DEF Units
<1> QED BY <1>1, Weight, FS_EmptySet DEF Counting

\* The chart: a number for each of its points, together those of the range.
LEMMA ChartAddsUp ==
  ASSUME NEW from \in Nat, NEW to \in Nat, from < to, rows \subseteq Row, IsFiniteSet(rows)
  PROVE  /\ HourlyPoints(from, to) \in [Points(from, to) -> Nat]
         /\ SumFunction(HourlyPoints(from, to)) = WeightOf(In("containers", from, to))
<1> DEFINE S == In("containers", from, to)
           P == Points(from, to)
           key == [r \in S |-> HourOf(r.at)]
           hp == HourlyPoints(from, to)
<1>1. S \subseteq rows /\ Counting(S)
      BY FS_Subset DEF In, Counting, Row
<1>2. IsFiniteSet(P) /\ key \in [S -> P]
      BY <1>1, PointsOfRange DEF In, Row
<1>3. \A t \in P : hp[t] = WeightOf({r \in S : HourOf(r.at) = t})
  <2> SUFFICES ASSUME NEW t \in P PROVE hp[t] = WeightOf({r \in S : HourOf(r.at) = t})
      OBVIOUS
  <2>1. CASE \E r \in S : HourOf(r.at) = t
        BY <2>1 DEF HourlyPoints, Points
  <2>2. CASE ~\E r \in S : HourOf(r.at) = t
    <3>1. {r \in S : HourOf(r.at) = t} = {}
          BY <2>2
    <3>2. hp[t] = 0
          BY <2>2 DEF HourlyPoints, Points
    <3> QED BY <3>1, <3>2, NoWeight
  <2> QED BY <2>1, <2>2
<1>4. hp = [t \in P |-> hp[t]]
      BY DEF HourlyPoints, Points
<1> HIDE DEF S, P, hp
<1>5. \A t \in P : WeightOf({r \in S : HourOf(r.at) = t}) \in Nat
      BY <1>1, FewerCount, Weight
<1>6. hp \in [P -> Nat]
      BY <1>3, <1>4, <1>5
<1>7. \A t \in P : hp[t] = WeightOf({r \in S : key[r] = t})
      BY <1>3
<1> HIDE DEF key
<1>8. SumFunction(hp) = WeightOf(S)
      BY <1>1, <1>2, <1>6, <1>7, WeightByKey
<1> QED BY <1>6, <1>8 DEF S, P, hp

\* The addresses: together they have the rows that name one.
LEMMA AddressesAddUp ==
  ASSUME NEW S, Counting(S)
  PROVE  /\ PerAddress(S) \in [AddressesOf(S) -> Nat] /\ IsFiniteSet(AddressesOf(S))
         /\ SumFunction(PerAddress(S)) = WeightOf(WithIP(S))
<1> DEFINE W == WithIP(S)
           A == AddressesOf(S)
           key == [r \in W |-> r.ip]
           pa == PerAddress(S)
<1>1. W \subseteq S /\ Counting(W)
      BY FewerCount DEF WithIP
<1>2. key \in Surjection(W, A)
      BY DEF Surjection, AddressesOf
<1>3. IsFiniteSet(A)
      BY <1>1, <1>2, FS_Surjection DEF Counting
<1>4. pa = [a \in A |-> pa[a]] /\ \A a \in A : pa[a] = WeightOf({r \in S : r.ip = a})
      BY DEF PerAddress
<1>5. \A a \in A : {r \in S : r.ip = a} = {r \in W : key[r] = a}
      BY DEF AddressesOf, WithIP
<1>6. \A a \in A : WeightOf({r \in W : key[r] = a}) \in Nat
      BY <1>1, FewerCount, Weight
<1>7. key \in [W -> A]
      BY <1>2 DEF Surjection
<1> HIDE DEF W, A, key, pa
<1>8. pa \in [A -> Nat] /\ \A a \in A : pa[a] = WeightOf({r \in W : key[r] = a})
      BY <1>4, <1>5, <1>6
<1>9. SumFunction(pa) = WeightOf(W)
      BY <1>1, <1>3, <1>7, <1>8, WeightByKey
<1> QED BY <1>3, <1>8, <1>9 DEF W, A, pa

-----------------------------------------------------------------------------
(* The invariant *)

RowsTyped(R) == /\ R \subseteq Row /\ IsFiniteSet(R)
                /\ \A r \in R : r.table = "failures" => r.ip # NoIP

Passed(S) == {r \in S : ~r.failed}
Failed(S) == {r \in S : r.failed}

Times == Nat \cup {NoTime}
Asks == [range : Ranges, from : Times, to : Times]

IsStats(s) == s = [total |-> s.total, ipCount |-> s.ipCount, success |-> s.success,
                   error |-> s.error, average |-> s.average, ips |-> s.ips,
                   hourly |-> s.hourly, failedTotal |-> s.failedTotal,
                   failedIPs |-> s.failedIPs, recent |-> s.recent]

IsFetch(r) == r = [slot |-> r.slot, ask |-> r.ask, at |-> r.at, from |-> r.from, to |-> r.to,
                   done |-> r.done, outcome |-> r.outcome, stats |-> r.stats,
                   stored |-> r.stored, pruned |-> r.pruned]

FetchTyped(r) == /\ IsFetch(r) /\ IsStats(r.stats)
                 /\ r.slot \in 1..MaxFetches /\ r.ask \in Asks
                 /\ r.at \in {"sent", "running", "answered"}
                 /\ r.from \in Nat /\ r.to \in Nat
                 /\ r.at = "running" => r.from < r.to
                 /\ r.done \in 0..10 /\ (r.at = "sent" => r.done = 0)
                 /\ r.outcome \in {"none", "ok", "failed", "unauthorized"}
                 /\ r.outcome = "ok" => r.at = "answered"
                 /\ r.stored \in BOOLEAN /\ r.pruned \in BOOLEAN

Chart(h) == /\ IsFiniteSet(DOMAIN h) /\ DOMAIN h \subseteq Nat /\ DOMAIN h # {}
            /\ h \in [DOMAIN h -> Nat]

\* What the queries have answered are numbers and, from the seventh on, a chart.
Counts(s, d) == /\ s.total \in Nat /\ s.ipCount \in Nat /\ s.success \in Nat /\ s.error \in Nat
                /\ s.average \in Nat
                /\ d >= 6 => Cardinality(DOMAIN s.ips) \in Nat /\ SumFunction(s.ips) \in Nat
                /\ d >= 7 => Chart(s.hourly) /\ SumFunction(s.hourly) \in Nat

\* No number exceeds what is there now, nor a later one, if rows only come.
AtMost(s, d, S) ==
  /\ d >= 1 => s.total <= WeightOf(S)
  /\ d >= 2 => s.ipCount <= Cardinality(AddressesOf(S))
  /\ d >= 3 => s.success <= WeightOf(Passed(S)) /\ s.total <= s.success + WeightOf(Failed(S))
  /\ d >= 4 => s.total <= s.success + s.error /\ s.success + s.error <= WeightOf(S)
  /\ d >= 5 => s.success + s.error <= s.average /\ s.average <= WeightOf(S)
  /\ d >= 6 => s.ipCount <= Cardinality(DOMAIN s.ips) /\ SumFunction(s.ips) <= WeightOf(S)
  /\ d >= 7 => s.average <= SumFunction(s.hourly) /\ SumFunction(s.ips) <= SumFunction(s.hourly)

\* They are what is there now, if none come or go.
Exactly(s, d, S, F) ==
  /\ d >= 1 => s.total = WeightOf(S)
  /\ d >= 2 => s.ipCount = Cardinality(AddressesOf(S))
  /\ d >= 3 => s.success = WeightOf(Passed(S))
  /\ d >= 4 => s.error = WeightOf(Failed(S))
  /\ d >= 6 => DOMAIN s.ips = AddressesOf(S)
  /\ d >= 7 => SumFunction(s.hourly) = WeightOf(S)
  /\ d >= 8 => s.failedTotal = WeightOf(F)
  /\ d >= 9 => SumFunction(s.failedIPs) = WeightOf(F)
  /\ d >= 10 => s.recent = Least(RecentLimit, WeightOf(F))

Behind(r, R) ==
  r.at = "running" /\ ~r.pruned =>
    /\ AtMost(r.stats, r.done, InRows(R, "containers", r.from, r.to))
    /\ ~r.stored => Exactly(r.stats, r.done, InRows(R, "containers", r.from, r.to),
                            InRows(R, "failures", r.from, r.to))

\* NumbersAgree of one answer.
Agrees(r) ==
  LET s == r.stats
  IN  /\ ~r.pruned => /\ s.total <= s.success + s.error
                      /\ s.success + s.error <= s.average
                      /\ s.average <= SumFunction(s.hourly)
                      /\ s.ipCount <= Cardinality(DOMAIN s.ips)
                      /\ SumFunction(s.ips) <= SumFunction(s.hourly)
      /\ ~r.pruned /\ ~r.stored =>
           /\ s.total = s.success + s.error
           /\ s.total = SumFunction(s.hourly)
           /\ s.ipCount = Cardinality(DOMAIN s.ips)
           /\ s.failedTotal = SumFunction(s.failedIPs)
           /\ s.recent = Least(RecentLimit, s.failedTotal)

FetchSound(r, R) ==
  /\ FetchTyped(r)
  /\ Counts(r.stats, r.done)
  /\ Behind(r, R)
  /\ r.outcome = "ok" => r.done = 10 /\ Agrees(r)

-----------------------------------------------------------------------------
(* One query *)

\* What the queries find of a range at one moment.
LEMMA Moment ==
  ASSUME NEW R, RowsTyped(R), NEW from \in Nat, NEW to \in Nat,
         NEW S, S = InRows(R, "containers", from, to),
         NEW F, F = InRows(R, "failures", from, to)
  PROVE  /\ Counting(S) /\ Counting(F)
         /\ WeightOf(S) \in Nat /\ WeightOf(F) \in Nat
         /\ WeightOf(Passed(S)) \in Nat /\ WeightOf(Failed(S)) \in Nat
         /\ WeightOf(S) = WeightOf(Passed(S)) + WeightOf(Failed(S))
         /\ Cardinality(AddressesOf(S)) \in Nat
         /\ DOMAIN PerAddress(S) = AddressesOf(S)
         /\ SumFunction(PerAddress(S)) \in Nat /\ SumFunction(PerAddress(S)) <= WeightOf(S)
         /\ SumFunction(PerAddress(F)) = WeightOf(F)
<1>1. /\ S \subseteq Row /\ IsFiniteSet(S) /\ F \subseteq Row /\ IsFiniteSet(F)
      /\ \A r \in F : r.ip # NoIP
      BY FS_Subset DEF RowsTyped, InRows
<1>2. Counting(S) /\ Counting(F)
      BY <1>1 DEF Counting, Row
<1>3. Counting(Passed(S)) /\ Counting(Failed(S)) /\ Counting(WithIP(S))
      BY <1>2, FewerCount DEF Passed, Failed, WithIP
<1>4. Passed(S) \cup Failed(S) = S /\ Passed(S) \cap Failed(S) = {}
      BY DEF Passed, Failed
<1>5. WeightOf(S) = WeightOf(Passed(S)) + WeightOf(Failed(S))
      BY <1>3, <1>4, WeightSplit
<1>6. WithIP(F) = F /\ WithIP(S) \subseteq S
      BY <1>1 DEF WithIP
<1>7. /\ SumFunction(PerAddress(F)) = WeightOf(F)
      /\ SumFunction(PerAddress(S)) = WeightOf(WithIP(S))
      /\ Cardinality(AddressesOf(S)) \in Nat
      BY <1>2, <1>6, AddressesAddUp, FS_CardinalityType
<1>8. DOMAIN PerAddress(S) = AddressesOf(S)
      BY DEF PerAddress
<1> QED BY <1>2, <1>3, <1>5, <1>6, <1>7, <1>8, Weight, WeightGrows

\* The answer a of query d + 1, and those before it.
Answered(a, s, d, from, to, S, F) ==
  /\ IsStats(a)
  /\ a.total = IF d = 0 THEN WeightOf(S) ELSE s.total
  /\ a.ipCount = IF d = 1 THEN Cardinality(AddressesOf(S)) ELSE s.ipCount
  /\ a.success = IF d = 2 THEN WeightOf(Passed(S)) ELSE s.success
  /\ a.error = IF d = 3 THEN WeightOf(Failed(S)) ELSE s.error
  /\ a.average = IF d = 4 THEN WeightOf(S) ELSE s.average
  /\ a.ips = IF d = 5 THEN PerAddress(S) ELSE s.ips
  /\ a.hourly = IF d = 6 THEN HourlyPoints(from, to) ELSE s.hourly
  /\ a.failedTotal = IF d = 7 THEN WeightOf(F) ELSE s.failedTotal
  /\ a.failedIPs = IF d = 8 THEN PerAddress(F) ELSE s.failedIPs
  /\ a.recent = IF d = 9 THEN Least(RecentLimit, WeightOf(F)) ELSE s.recent

\* What one query puts into the answer, and what it leaves there.
LEMMA AnswerOf ==
  ASSUME NEW s, IsStats(s), NEW from, NEW to, NEW d \in 0..9
  PROVE  Answered(Answer(Queries[d + 1], from, to, s), s, d, from, to,
                  In("containers", from, to), In("failures", from, to))
<1> SUFFICES ASSUME NEW S, S = In("containers", from, to), NEW F, F = In("failures", from, to)
             PROVE  Answered(Answer(Queries[d + 1], from, to, s), s, d, from, to, S, F)
    OBVIOUS
<1> USE DEF Answered
<1>1. CASE d = 0
      BY <1>1 DEF Answer, Queries, IsStats
<1>2. CASE d = 1
      BY <1>2 DEF Answer, Queries, IsStats
<1>3. CASE d = 2
  <2>1. Queries[d + 1] = "success"
        BY <1>3 DEF Queries
  <2>2. Answer("success", from, to, s) = [s EXCEPT !.success = WeightOf(Passed(S))]
        BY DEF Answer, Passed
  <2> QED BY <1>3, <2>1, <2>2 DEF IsStats
<1>4. CASE d = 3
  <2>1. Queries[d + 1] = "error"
        BY <1>4 DEF Queries
  <2>2. Answer("error", from, to, s) = [s EXCEPT !.error = WeightOf(Failed(S))]
        BY DEF Answer, Failed
  <2> QED BY <1>4, <2>1, <2>2 DEF IsStats
<1>5. CASE d = 4
      BY <1>5 DEF Answer, Queries, IsStats
<1>6. CASE d = 5
      BY <1>6 DEF Answer, Queries, IsStats
<1>7. CASE d = 6
      BY <1>7 DEF Answer, Queries, IsStats
<1>8. CASE d = 7
      BY <1>8 DEF Answer, Queries, IsStats
<1>9. CASE d = 8
      BY <1>9 DEF Answer, Queries, IsStats
<1>10. CASE d = 9
       BY <1>10 DEF Answer, Queries, IsStats
<1> QED BY <1>1, <1>2, <1>3, <1>4, <1>5, <1>6, <1>7, <1>8, <1>9, <1>10

\* The next answer keeps what is known of the earlier ones.
LEMMA QueryCounts ==
  ASSUME RowsTyped(rows), NEW s, IsStats(s), NEW from \in Nat, NEW to \in Nat, from < to,
         NEW d \in 0..9, Counts(s, d)
  PROVE  Counts(Answer(Queries[d + 1], from, to, s), d + 1)
<1> DEFINE S == In("containers", from, to)
           F == In("failures", from, to)
           a == Answer(Queries[d + 1], from, to, s)
<1>1. S = InRows(rows, "containers", from, to) /\ F = InRows(rows, "failures", from, to)
      BY DEF In, InRows
<1>2. /\ WeightOf(S) \in Nat /\ WeightOf(Passed(S)) \in Nat /\ WeightOf(Failed(S)) \in Nat
      /\ Cardinality(AddressesOf(S)) \in Nat
      /\ DOMAIN PerAddress(S) = AddressesOf(S) /\ SumFunction(PerAddress(S)) \in Nat
      BY <1>1, Moment
<1>3. SumFunction(HourlyPoints(from, to)) = WeightOf(S) /\ Chart(HourlyPoints(from, to))
  <2>1. HourlyPoints(from, to) \in [Points(from, to) -> Nat]
        BY ChartAddsUp DEF RowsTyped
  <2>2. DOMAIN HourlyPoints(from, to) = Points(from, to)
        BY <2>1
  <2> QED BY <2>1, <2>2, ChartAddsUp, PointsOfRange DEF RowsTyped, Chart
<1>4. Answered(a, s, d, from, to, S, F)
      BY AnswerOf
<1> HIDE DEF S, F, a
<1>5. /\ a.total \in Nat /\ a.ipCount \in Nat /\ a.success \in Nat /\ a.error \in Nat
      /\ a.average \in Nat
      BY <1>2, <1>4 DEF Counts, Answered
<1>6. d + 1 >= 6 => Cardinality(DOMAIN a.ips) \in Nat /\ SumFunction(a.ips) \in Nat
      BY <1>2, <1>4 DEF Counts, Answered
<1>7. d + 1 >= 7 => Chart(a.hourly) /\ SumFunction(a.hourly) \in Nat
      BY <1>2, <1>3, <1>4 DEF Counts, Answered
<1> QED BY <1>5, <1>6, <1>7 DEF Counts, a

\* While rows are only stored, a query finds at most what a later one would.
LEMMA QueryAtMost ==
  ASSUME RowsTyped(rows), NEW s, IsStats(s), NEW from \in Nat, NEW to \in Nat, from < to,
         NEW d \in 0..9, Counts(s, d), AtMost(s, d, In("containers", from, to))
  PROVE  AtMost(Answer(Queries[d + 1], from, to, s), d + 1, In("containers", from, to))
<1> DEFINE S == In("containers", from, to)
           F == In("failures", from, to)
           a == Answer(Queries[d + 1], from, to, s)
<1>1. S = InRows(rows, "containers", from, to) /\ F = InRows(rows, "failures", from, to)
      BY DEF In, InRows
<1>2. /\ WeightOf(S) \in Nat /\ WeightOf(Passed(S)) \in Nat /\ WeightOf(Failed(S)) \in Nat
      /\ WeightOf(S) = WeightOf(Passed(S)) + WeightOf(Failed(S))
      /\ Cardinality(AddressesOf(S)) \in Nat
      /\ DOMAIN PerAddress(S) = AddressesOf(S)
      /\ SumFunction(PerAddress(S)) \in Nat /\ SumFunction(PerAddress(S)) <= WeightOf(S)
      BY <1>1, Moment
<1>3. SumFunction(HourlyPoints(from, to)) = WeightOf(S)
      BY ChartAddsUp DEF RowsTyped
<1>5. AtMost(s, d, S)
      OBVIOUS
<1>4. Answered(a, s, d, from, to, S, F)
      BY AnswerOf
<1> HIDE DEF S, F, a
<1>6. /\ d + 1 >= 1 => a.total <= WeightOf(S)
      /\ d + 1 >= 2 => a.ipCount <= Cardinality(AddressesOf(S))
      BY <1>2, <1>4, <1>5 DEF AtMost, Answered
<1>7. d + 1 >= 3 => /\ a.success <= WeightOf(Passed(S))
                    /\ a.total <= a.success + WeightOf(Failed(S))
      BY <1>2, <1>4, <1>5 DEF AtMost, Answered
<1>8. d + 1 >= 4 => a.total <= a.success + a.error /\ a.success + a.error <= WeightOf(S)
      BY <1>2, <1>4, <1>5 DEF AtMost, Counts, Answered
<1>9. d + 1 >= 5 => a.success + a.error <= a.average /\ a.average <= WeightOf(S)
      BY <1>2, <1>4, <1>5 DEF AtMost, Answered
<1>10. d + 1 >= 6 => /\ a.ipCount <= Cardinality(DOMAIN a.ips)
                     /\ SumFunction(a.ips) <= WeightOf(S)
       BY <1>2, <1>4, <1>5 DEF AtMost, Answered
<1>11. d + 1 >= 7 => /\ a.average <= SumFunction(a.hourly)
                     /\ SumFunction(a.ips) <= SumFunction(a.hourly)
       BY <1>2, <1>3, <1>4, <1>5 DEF AtMost, Answered
<1>12. AtMost(a, d + 1, S)
       BY <1>6, <1>7, <1>8, <1>9, <1>10, <1>11 DEF AtMost
<1> QED BY <1>12 DEF a, S

\* While nothing moves, every query counts the same rows.
LEMMA QueryExactly ==
  ASSUME RowsTyped(rows), NEW s, IsStats(s), NEW from \in Nat, NEW to \in Nat, from < to,
         NEW d \in 0..9,
         Exactly(s, d, In("containers", from, to), In("failures", from, to))
  PROVE  Exactly(Answer(Queries[d + 1], from, to, s), d + 1,
                 In("containers", from, to), In("failures", from, to))
<1> DEFINE S == In("containers", from, to)
           F == In("failures", from, to)
           a == Answer(Queries[d + 1], from, to, s)
<1>1. S = InRows(rows, "containers", from, to) /\ F = InRows(rows, "failures", from, to)
      BY DEF In, InRows
<1>2. /\ DOMAIN PerAddress(S) = AddressesOf(S)
      /\ SumFunction(PerAddress(F)) = WeightOf(F)
      BY <1>1, Moment
<1>3. SumFunction(HourlyPoints(from, to)) = WeightOf(S)
      BY ChartAddsUp DEF RowsTyped
<1>5. Exactly(s, d, S, F)
      OBVIOUS
<1>4. Answered(a, s, d, from, to, S, F)
      BY AnswerOf
<1> HIDE DEF S, F, a
<1>6. Exactly(a, d + 1, S, F)
      BY <1>2, <1>3, <1>4, <1>5 DEF Exactly, Answered
<1> QED BY <1>6 DEF a, S, F

-----------------------------------------------------------------------------
(* What happens to one fetch *)

\* The places of a fetch: sent, ended early, parsed, queried, answered.
LEMMA SentSound == ASSUME NEW R, NEW slot \in 1..MaxFetches, NEW ask \in Asks
                   PROVE  FetchSound(Sent(slot, ask), R)
BY DEF FetchSound, Sent, FetchTyped, IsFetch, IsStats, NoStats, Counts, Behind

LEMMA EndedSound ==
  ASSUME NEW R, NEW r, FetchSound(r, R), NEW o \in {"failed", "unauthorized"},
         NEW q, q = [r EXCEPT !.at = "answered", !.outcome = o]
  PROVE  FetchSound(q, R)
<1>1. /\ q.at = "answered" /\ q.outcome = o /\ q.slot = r.slot /\ q.ask = r.ask
      /\ q.from = r.from /\ q.to = r.to /\ q.done = r.done /\ q.stats = r.stats
      BY DEF FetchSound, FetchTyped, IsFetch
<1>2. q.stored \in BOOLEAN /\ q.pruned \in BOOLEAN /\ IsFetch(q)
      BY DEF FetchSound, FetchTyped, IsFetch
<1> QED BY <1>1, <1>2 DEF FetchSound, FetchTyped, Behind

LEMMA ParsedSound ==
  ASSUME NEW R, NEW r, FetchSound(r, R), r.at = "sent",
         NEW from \in Nat, NEW to \in Nat, from < to,
         NEW q, q = [r EXCEPT !.at = "running", !.from = from, !.to = to]
  PROVE  FetchSound(q, R)
<1>1. /\ q.at = "running" /\ q.outcome = r.outcome /\ q.slot = r.slot /\ q.ask = r.ask
      /\ q.from = from /\ q.to = to /\ q.done = r.done /\ q.stats = r.stats
      BY DEF FetchSound, FetchTyped, IsFetch
<1>2. q.stored \in BOOLEAN /\ q.pruned \in BOOLEAN /\ IsFetch(q)
      BY DEF FetchSound, FetchTyped, IsFetch
<1>3. r.done = 0 /\ r.outcome # "ok"
      BY DEF FetchSound, FetchTyped
<1>4. Behind(q, R)
      BY <1>1, <1>3 DEF Behind, AtMost, Exactly
<1> QED BY <1>1, <1>2, <1>3, <1>4 DEF FetchSound, FetchTyped

LEMMA QueriedSound ==
  ASSUME RowsTyped(rows), NEW r, FetchSound(r, rows), r.at = "running", r.done < 10,
         NEW q, q = [r EXCEPT !.done = @ + 1,
                              !.stats = Answer(Queries[r.done + 1], r.from, r.to, @)]
  PROVE  FetchSound(q, rows)
<1> DEFINE a == Answer(Queries[r.done + 1], r.from, r.to, r.stats)
<1>1. /\ q.at = r.at /\ q.outcome = r.outcome /\ q.slot = r.slot /\ q.ask = r.ask
      /\ q.from = r.from /\ q.to = r.to /\ q.done = r.done + 1 /\ q.stats = a
      BY DEF FetchSound, FetchTyped, IsFetch
<1>2. q.stored = r.stored /\ q.pruned = r.pruned /\ IsFetch(q)
      BY DEF FetchSound, FetchTyped, IsFetch
<1>3. r.done \in 0..9 /\ r.outcome # "ok" /\ r.from \in Nat /\ r.to \in Nat /\ r.from < r.to
      BY DEF FetchSound, FetchTyped
<1>4. IsStats(r.stats) /\ Counts(r.stats, r.done)
      BY DEF FetchSound, FetchTyped
<1>5. IsStats(a)
      BY <1>3, <1>4, AnswerOf DEF Answered
<1>6. Counts(a, r.done + 1)
      BY <1>3, <1>4, QueryCounts
<1>7. ASSUME NEW from, NEW to
      PROVE  /\ InRows(rows, "containers", from, to) = In("containers", from, to)
             /\ InRows(rows, "failures", from, to) = In("failures", from, to)
      BY DEF In, InRows
<1>8. Behind(q, rows)
  <2> SUFFICES ASSUME ~r.pruned
               PROVE  /\ AtMost(a, r.done + 1, In("containers", r.from, r.to))
                      /\ ~r.stored => Exactly(a, r.done + 1, In("containers", r.from, r.to),
                                              In("failures", r.from, r.to))
      BY <1>1, <1>2, <1>7 DEF Behind
  <2>1. /\ AtMost(r.stats, r.done, In("containers", r.from, r.to))
        /\ ~r.stored => Exactly(r.stats, r.done, In("containers", r.from, r.to),
                                In("failures", r.from, r.to))
        BY <1>7 DEF FetchSound, Behind
  <2> QED BY <2>1, <1>3, <1>4, QueryAtMost, QueryExactly
<1> HIDE DEF a
<1> QED BY <1>1, <1>2, <1>3, <1>5, <1>6, <1>8 DEF FetchSound, FetchTyped

LEMMA RepliedSound ==
  ASSUME NEW R, RowsTyped(R), NEW r, FetchSound(r, R), r.at = "running", r.done = 10,
         NEW q, q = [r EXCEPT !.at = "answered", !.outcome = "ok"]
  PROVE  FetchSound(q, R)
<1> DEFINE S == InRows(R, "containers", r.from, r.to)
           F == InRows(R, "failures", r.from, r.to)
<1>1. /\ q.at = "answered" /\ q.outcome = "ok" /\ q.slot = r.slot /\ q.ask = r.ask
      /\ q.from = r.from /\ q.to = r.to /\ q.done = r.done /\ q.stats = r.stats
      BY DEF FetchSound, FetchTyped, IsFetch
<1>2. q.stored = r.stored /\ q.pruned = r.pruned /\ IsFetch(q)
      BY DEF FetchSound, FetchTyped, IsFetch
<1>3. WeightOf(S) = WeightOf(Passed(S)) + WeightOf(Failed(S))
      BY Moment DEF FetchSound, FetchTyped
<1>4. ~r.pruned => AtMost(r.stats, 10, S)
      BY DEF FetchSound, Behind
<1>5. ~r.pruned /\ ~r.stored => Exactly(r.stats, 10, S, F)
      BY DEF FetchSound, Behind
<1> HIDE DEF S, F
<1>6. Agrees(q)
      BY <1>1, <1>2, <1>3, <1>4, <1>5 DEF Agrees, AtMost, Exactly
<1> QED BY <1>1, <1>2, <1>6 DEF FetchSound, FetchTyped, Behind

\* What was at most the rows of a moment is so once rows are added.
LEMMA AtMostGrows ==
  ASSUME NEW S, NEW T, S \subseteq T, Counting(T), NEW s, NEW d \in 0..10, Counts(s, d),
         AtMost(s, d, S)
  PROVE  AtMost(s, d, T)
<1>1. /\ WeightOf(S) <= WeightOf(T) /\ WeightOf(S) \in Nat /\ WeightOf(T) \in Nat
      BY FewerCount, Weight, WeightGrows
<1>2. /\ Passed(S) \subseteq Passed(T) /\ Failed(S) \subseteq Failed(T)
      /\ Passed(T) \subseteq T /\ Failed(T) \subseteq T
      BY DEF Passed, Failed
<1>3. /\ Counting(Passed(S)) /\ Counting(Passed(T)) /\ Counting(Failed(S)) /\ Counting(Failed(T))
      BY <1>2, FewerCount
<1>4. /\ WeightOf(Passed(S)) <= WeightOf(Passed(T)) /\ WeightOf(Failed(S)) <= WeightOf(Failed(T))
      /\ WeightOf(Passed(S)) \in Nat /\ WeightOf(Passed(T)) \in Nat
      /\ WeightOf(Failed(S)) \in Nat /\ WeightOf(Failed(T)) \in Nat
      BY <1>2, <1>3, Weight, WeightGrows
<1>5. /\ Cardinality(AddressesOf(S)) <= Cardinality(AddressesOf(T))
      /\ Cardinality(AddressesOf(S)) \in Nat /\ Cardinality(AddressesOf(T)) \in Nat
  <2>1. AddressesOf(S) \subseteq AddressesOf(T)
        BY DEF AddressesOf, WithIP
  <2>2. IsFiniteSet(AddressesOf(T))
        BY AddressesAddUp
  <2> QED BY <2>1, <2>2, FS_Subset, FS_CardinalityType
<1> QED BY <1>1, <1>4, <1>5 DEF AtMost, Counts

\* Where nothing of a range came or went it holds what it held.
LEMMA Untouched ==
  ASSUME NEW R, NEW T, NEW r, r.at = "running", R \subseteq T, ~Touched(r, T \ R)
  PROVE  /\ InRows(T, "containers", r.from, r.to) = InRows(R, "containers", r.from, r.to)
         /\ InRows(T, "failures", r.from, r.to) = InRows(R, "failures", r.from, r.to)
BY DEF Touched, InRows

\* A row stored, or pruned, during a fetch is observed by it.
LEMMA StoredSound ==
  ASSUME NEW R, NEW T, RowsTyped(R), RowsTyped(T), R \subseteq T, NEW r, FetchSound(r, R),
         NEW q, q = [r EXCEPT !.stored = @ \/ Touched(r, T \ R)]
  PROVE  FetchSound(q, T)
<1>1. /\ q.at = r.at /\ q.outcome = r.outcome /\ q.slot = r.slot /\ q.ask = r.ask
      /\ q.from = r.from /\ q.to = r.to /\ q.done = r.done /\ q.stats = r.stats
      BY DEF FetchSound, FetchTyped, IsFetch
<1>2. q.pruned = r.pruned /\ IsFetch(q)
      BY DEF FetchSound, FetchTyped, IsFetch
<1>3. q.stored = (r.stored \/ Touched(r, T \ R))
      BY DEF FetchSound, FetchTyped, IsFetch
<1>4. q.stored \in BOOLEAN /\ (~q.stored => ~r.stored /\ ~Touched(r, T \ R))
      BY <1>3
<1>6. r.outcome = "ok" => r.done = 10 /\ Agrees(q)
      BY <1>1, <1>2, <1>4 DEF FetchSound, Agrees
<1>7. Behind(q, T)
  <2> DEFINE S == InRows(R, "containers", r.from, r.to)
             F == InRows(R, "failures", r.from, r.to)
             S2 == InRows(T, "containers", r.from, r.to)
             F2 == InRows(T, "failures", r.from, r.to)
  <2> SUFFICES ASSUME r.at = "running", ~r.pruned
               PROVE  /\ AtMost(r.stats, r.done, S2)
                      /\ ~q.stored => Exactly(r.stats, r.done, S2, F2)
      BY <1>1, <1>2 DEF Behind
  <2>1. AtMost(r.stats, r.done, S) /\ (~r.stored => Exactly(r.stats, r.done, S, F))
        BY DEF FetchSound, Behind
  <2>2. S \subseteq S2 /\ Counting(S2)
    <3>1. S \subseteq S2
          BY DEF InRows
    <3>2. r.from \in Nat /\ r.to \in Nat
          BY DEF FetchSound, FetchTyped
    <3> QED BY <3>1, <3>2, Moment
  <2>3. ~q.stored => S2 = S /\ F2 = F /\ ~r.stored
    <3> SUFFICES ASSUME ~q.stored PROVE S2 = S /\ F2 = F /\ ~r.stored
        OBVIOUS
    <3>1. ~r.stored /\ ~Touched(r, T \ R)
          BY <1>4
    <3>2. S2 = S /\ F2 = F
          BY <3>1, Untouched
    <3> QED BY <3>1, <3>2
  <2>4. Counts(r.stats, r.done) /\ r.done \in 0..10
        BY DEF FetchSound, FetchTyped
  <2> HIDE DEF S, F, S2, F2
  <2>5. AtMost(r.stats, r.done, S2)
        BY <2>1, <2>2, <2>4, AtMostGrows
  <2> QED BY <2>1, <2>3, <2>5
<1> QED BY <1>1, <1>2, <1>4, <1>6, <1>7 DEF FetchSound, FetchTyped

LEMMA PrunedSound ==
  ASSUME NEW R, NEW T, T \subseteq R, NEW r, FetchSound(r, R),
         NEW q, q = [r EXCEPT !.pruned = @ \/ Touched(r, R \ T)]
  PROVE  FetchSound(q, T)
<1>1. /\ q.at = r.at /\ q.outcome = r.outcome /\ q.slot = r.slot /\ q.ask = r.ask
      /\ q.from = r.from /\ q.to = r.to /\ q.done = r.done /\ q.stats = r.stats
      BY DEF FetchSound, FetchTyped, IsFetch
<1>2. q.stored = r.stored /\ IsFetch(q)
      BY DEF FetchSound, FetchTyped, IsFetch
<1>3. q.pruned = (r.pruned \/ Touched(r, R \ T))
      BY DEF FetchSound, FetchTyped, IsFetch
<1>4. q.pruned \in BOOLEAN /\ (~q.pruned => ~r.pruned /\ ~Touched(r, R \ T))
      BY <1>3
<1>5. r.outcome = "ok" => r.done = 10 /\ Agrees(q)
      BY <1>1, <1>2, <1>4 DEF FetchSound, Agrees
<1>6. Behind(q, T)
  <2> SUFFICES ASSUME r.at = "running", ~q.pruned PROVE Behind(q, T)
      BY <1>1 DEF Behind
  <2>1. /\ InRows(R, "containers", r.from, r.to) = InRows(T, "containers", r.from, r.to)
        /\ InRows(R, "failures", r.from, r.to) = InRows(T, "failures", r.from, r.to)
        BY <1>4, Untouched
  <2> QED BY <1>1, <1>2, <1>4, <2>1 DEF FetchSound, Behind
<1> QED BY <1>1, <1>2, <1>4, <1>5, <1>6 DEF FetchSound, FetchTyped

-----------------------------------------------------------------------------
(* The page and the tables *)

Stored == /\ clock \in Start..MaxClock
          /\ nextId \in 1..MaxRows + 1
          /\ Cardinality(rows) <= nextId
          /\ RowsTyped(rows)

Page == /\ place \in {"observability", "login"}
        /\ activeRange \in Ranges
        /\ custom \in [from : CustomInputs, to : CustomInputs] \cup {DefaultCustom}
        /\ status \in {"refreshing", "ok", "error"}
        /\ failuresLeft \in 0..MaxFailedFetches

FetchesSound == \A r \in fetches : FetchSound(r, rows)
SlotsApart == \A r, q \in fetches : r.slot = q.slot => r = q

Drawable(s) == s.success \in Nat /\ s.error \in Nat /\ Chart(s.hourly)
Shown == latestData = NoData \/ Drawable(latestData.stats)

ObsInv == Stored /\ Page /\ FetchesSound /\ SlotsApart /\ Shown

LEMMA Constants == /\ Retention \in Nat /\ DayLength \in 1..Retention /\ Start \in Nat
                   /\ MaxClock \in Nat /\ Retention <= Start /\ Start <= MaxClock
                   /\ MaxRows \in Nat /\ MaxRun \in 0..Start /\ NoIP \in IPs
                   /\ MaxFetches \in Nat \ {0} /\ MaxFailedFetches \in Nat
                   /\ CustomTimes \subseteq Nat /\ Widths \subseteq Nat /\ Heights \subseteq Nat
                   /\ Executions \subseteq [ip : IPs, failed : BOOLEAN, n : Nat]
BY StatsAssumption, PageAssumption DEF StatsAssumption, PageAssumption

LEMMA TenQueries == Len(Queries) = 10
BY DEF Queries

LEMMA AskTyped == ASSUME NEW range \in Ranges, NEW inputs, inputs.from \in Times, inputs.to \in Times
                  PROVE  Ask(range, inputs) \in Asks
BY DEF Ask, Asks, Times

LEMMA DefaultTyped == /\ DefaultCustom \in [from : Times, to : Times]
                      /\ "day" \in Ranges
BY Constants DEF DefaultCustom, Times, Ranges, PresetLength

LEMMA InputsTyped == ASSUME Page PROVE custom.from \in Times /\ custom.to \in Times
<1>1. CASE custom \in [from : CustomInputs, to : CustomInputs]
      BY <1>1, Constants DEF CustomInputs, Times
<1>2. CASE custom = DefaultCustom
      BY <1>2, DefaultTyped
<1> QED BY <1>1, <1>2 DEF Page

\* What parseObservabilityRange lets through is a range of at least a tick.
LEMMA RangeParsed ==
  ASSUME Stored, NEW ask \in Asks, ParsedRange(ask, clock).ok
  PROVE  LET p == ParsedRange(ask, clock)
         IN  p.from \in Nat /\ p.to \in Nat /\ p.from < p.to
<1>1. clock \in Nat /\ Start <= clock
      BY Constants DEF Stored
<1>2. CASE ask.range \in DOMAIN PresetLength
  <2>1. PresetLength[ask.range] \in 1..Retention
    <3>1. /\ DOMAIN PresetLength = {"day", "all"}
          /\ PresetLength["day"] = DayLength /\ PresetLength["all"] = Retention
          BY DEF PresetLength
    <3> QED BY <1>2, <3>1, Constants
  <2>2. ParsedRange(ask, clock) = Between(clock - PresetLength[ask.range], clock)
    <3>1. ask.range # "custom"
          BY <1>2 DEF PresetLength
    <3> QED BY <1>2, <3>1 DEF ParsedRange
  <2> QED BY <1>1, <2>1, <2>2, Constants DEF Between
<1>3. CASE ask.range \notin DOMAIN PresetLength
  <2>1. ask.range = "custom"
        BY <1>3 DEF Asks, Ranges
  <2>2. CASE NoTime \notin {ask.from, ask.to} /\ ask.from < ask.to
    <3>1. ParsedRange(ask, clock) = Between(ask.from, ask.to)
          BY <1>3, <2>1, <2>2 DEF ParsedRange
    <3> QED BY <2>2, <3>1 DEF Between, Asks, Times
  <2>3. CASE ~(NoTime \notin {ask.from, ask.to} /\ ask.from < ask.to)
    <3>1. ParsedRange(ask, clock) = BadRange
          BY <1>3, <2>1, <2>3 DEF ParsedRange
    <3> QED BY <3>1 DEF BadRange
  <2> QED BY <2>2, <2>3
<1> QED BY <1>2, <1>3

\* One fetch moves and keeps its slot; a new one takes a free slot.
LEMMA ReplaceKeeps ==
  ASSUME FetchesSound, SlotsApart, NEW r \in fetches, NEW q, FetchSound(q, rows), q.slot = r.slot,
         fetches' = Replaced(r, q), rows' = rows
  PROVE  FetchesSound' /\ SlotsApart'
BY DEF FetchesSound, SlotsApart, Replaced

LEMMA LoadKeeps ==
  ASSUME FetchesSound, SlotsApart, NEW range \in Ranges, NEW inputs,
         inputs.from \in Times, inputs.to \in Times,
         LoadObservability(range, inputs), rows' = rows
  PROVE  FetchesSound' /\ SlotsApart' /\ status' = "refreshing"
<1> DEFINE slot == CHOOSE s \in FreeSlots : \A t \in FreeSlots : s <= t
           new == Sent(slot, Ask(range, inputs))
<1>1. FreeSlots \subseteq 1..MaxFetches /\ \A r \in fetches : r.slot \notin FreeSlots
      BY Constants DEF FreeSlots
<1>2. slot \in FreeSlots
  <2>1. FreeSlots \in SUBSET Nat /\ FreeSlots # {}
        BY <1>1 DEF LoadObservability
  <2>2. \E s \in FreeSlots : \A t \in FreeSlots : s <= t
        BY <2>1, LeastNumber
  <2> QED BY <2>2
<1>3. fetches' = fetches \cup {new} /\ status' = "refreshing"
      BY DEF LoadObservability
<1>4. new.slot = slot
      BY DEF Sent
<1> HIDE DEF slot
<1>5. FetchSound(new, rows)
      BY <1>1, <1>2, AskTyped, SentSound
<1> HIDE DEF new
<1>6. FetchesSound'
      BY <1>3, <1>5 DEF FetchesSound
<1>7. SlotsApart'
      BY <1>1, <1>2, <1>3, <1>4 DEF SlotsApart
<1> QED BY <1>3, <1>6, <1>7

LEMMA ObsInitInv == ObsInit => ObsInv
<1> SUFFICES ASSUME ObsInit PROVE ObsInv
    OBVIOUS
<1>1. Stored
  <2>1. OldRow \in Row /\ OldRow.table = "containers"
        BY Constants DEF OldRow, Row
  <2>2. rows = {OldRow} /\ IsFiniteSet(rows) /\ Cardinality(rows) = 1
        BY FS_Singleton DEF ObsInit, StoreInit
  <2> QED BY <2>1, <2>2, Constants DEF ObsInit, StoreInit, Stored, RowsTyped
<1>2. Page
      BY Constants, DefaultTyped DEF ObsInit, Page
<1>3. FetchesSound /\ SlotsApart
  <2>1. Ask("day", DefaultCustom) \in Asks
        BY DefaultTyped, AskTyped
  <2>2. FetchSound(Sent(1, Ask("day", DefaultCustom)), rows)
        BY <2>1, SentSound, Constants
  <2> QED BY <2>2 DEF ObsInit, FetchesSound, SlotsApart
<1>4. Shown
      BY DEF ObsInit, Shown
<1> QED BY <1>1, <1>2, <1>3, <1>4 DEF ObsInv

\* What the administrator does.
LEMMA UserKeeps ==
  ASSUME ObsInv,
         \/ \E range \in Ranges : ChooseRange(range)
         \/ \E from, to \in CustomInputs : TypeCustom(from, to)
         \/ Refresh \/ Return
  PROVE  ObsInv'
<1> USE DEF ObsInv
<1>1. ASSUME NEW range \in Ranges, ChooseRange(range) PROVE ObsInv'
  <2>1. LoadObservability(range, custom) /\ UNCHANGED <<clock, rows, nextId>>
        BY <1>1 DEF ChooseRange, storeVars
  <2>2. FetchesSound' /\ SlotsApart' /\ status' = "refreshing"
        BY <2>1, InputsTyped, LoadKeeps
  <2> QED BY <1>1, <2>1, <2>2 DEF ChooseRange, Stored, Page, Shown
<1>2. ASSUME NEW from \in CustomInputs, NEW to \in CustomInputs, TypeCustom(from, to) PROVE ObsInv'
      BY <1>2 DEF TypeCustom, Stored, Page, Shown, FetchesSound, SlotsApart, storeVars
<1>3. CASE Refresh
  <2>1. LoadObservability(activeRange, custom) /\ UNCHANGED <<clock, rows, nextId>>
        BY <1>3 DEF Refresh, storeVars
  <2>2. FetchesSound' /\ SlotsApart' /\ status' = "refreshing"
        BY <2>1, InputsTyped, LoadKeeps DEF Page
  <2> QED BY <1>3, <2>1, <2>2 DEF Refresh, Stored, Page, Shown
<1>4. CASE Return
  <2>1. LoadObservability("day", DefaultCustom) /\ UNCHANGED <<clock, rows, nextId>>
        BY <1>4 DEF Return, storeVars
  <2>2. FetchesSound' /\ SlotsApart' /\ status' = "refreshing"
        BY <2>1, DefaultTyped, LoadKeeps
  <2> QED BY <1>4, <2>1, <2>2, DefaultTyped DEF Return, Stored, Page, Shown
<1> QED BY <1>1, <1>2, <1>3, <1>4

\* What the handler and the network do.
LEMMA HandlerKeeps ==
  ASSUME ObsInv, NEW r \in fetches,
         Parse(r) \/ RunQuery(r) \/ Reply(r) \/ Fail(r) \/ DeliverStats(r)
  PROVE  ObsInv'
<1> USE DEF ObsInv
<1>0. FetchSound(r, rows) /\ IsFetch(r) /\ RowsTyped(rows)
      BY DEF FetchesSound, FetchSound, FetchTyped, Stored
<1>1. CASE Parse(r)
  <2> DEFINE range == ParsedRange(r.ask, clock)
             good == [r EXCEPT !.at = "running", !.from = range.from, !.to = range.to]
             bad == [r EXCEPT !.at = "answered", !.outcome = "failed"]
  <2>1. fetches' = Replaced(r, IF range.ok THEN good ELSE bad) /\ r.at = "sent"
        BY <1>1 DEF Parse
  <2>2. UNCHANGED <<clock, rows, nextId, place, activeRange, custom, status, latestData, failuresLeft>>
        BY <1>1 DEF Parse, storeVars, pageVars
  <2>3. good.slot = r.slot /\ bad.slot = r.slot
        BY <1>0 DEF IsFetch
  <2>4. FetchSound(bad, rows)
        BY <1>0, EndedSound
  <2>5. range.ok => FetchSound(good, rows)
    <3>1. r.ask \in Asks
          BY <1>0 DEF FetchSound, FetchTyped
    <3>2. range.ok => range.from \in Nat /\ range.to \in Nat /\ range.from < range.to
          BY <3>1, RangeParsed
    <3> HIDE DEF range
    <3> QED BY <1>0, <2>1, <3>2, ParsedSound
  <2> HIDE DEF range, good, bad
  <2>6. FetchesSound' /\ SlotsApart'
        BY <2>1, <2>2, <2>3, <2>4, <2>5, ReplaceKeeps
  <2> QED BY <2>2, <2>6 DEF Stored, Page, Shown
<1>2. CASE RunQuery(r)
  <2> DEFINE q == [r EXCEPT !.done = @ + 1,
                            !.stats = Answer(Queries[r.done + 1], r.from, r.to, @)]
  <2>1. fetches' = Replaced(r, q) /\ r.at = "running" /\ r.done < 10
        BY <1>2, TenQueries DEF RunQuery
  <2>2. UNCHANGED <<clock, rows, nextId, place, activeRange, custom, status, latestData, failuresLeft>>
        BY <1>2 DEF RunQuery, storeVars, pageVars
  <2>3. q.slot = r.slot
        BY <1>0 DEF IsFetch
  <2>4. FetchSound(q, rows)
        BY <1>0, <2>1, QueriedSound
  <2> HIDE DEF q
  <2>5. FetchesSound' /\ SlotsApart'
        BY <2>1, <2>2, <2>3, <2>4, ReplaceKeeps
  <2> QED BY <2>2, <2>5 DEF Stored, Page, Shown
<1>3. CASE Reply(r)
  <2> DEFINE q == [r EXCEPT !.at = "answered", !.outcome = "ok"]
  <2>1. fetches' = Replaced(r, q) /\ r.at = "running" /\ r.done = 10
        BY <1>3, TenQueries DEF Reply
  <2>2. UNCHANGED <<clock, rows, nextId, place, activeRange, custom, status, latestData, failuresLeft>>
        BY <1>3 DEF Reply, storeVars, pageVars
  <2>3. q.slot = r.slot
        BY <1>0 DEF IsFetch
  <2>4. FetchSound(q, rows)
        BY <1>0, <2>1, RepliedSound
  <2> HIDE DEF q
  <2>5. FetchesSound' /\ SlotsApart'
        BY <2>1, <2>2, <2>3, <2>4, ReplaceKeeps
  <2> QED BY <2>2, <2>5 DEF Stored, Page, Shown
<1>4. CASE Fail(r)
  <2> DEFINE p == Sent(r.slot, r.ask)
             Q(o) == [p EXCEPT !.at = "answered", !.outcome = o]
  <2>1. PICK o \in {"failed", "unauthorized"} : fetches' = Replaced(r, Q(o))
        BY <1>4 DEF Fail
  <2>2. /\ UNCHANGED <<clock, rows, nextId, place, activeRange, custom, status, latestData>>
        /\ failuresLeft > 0 /\ failuresLeft' = failuresLeft - 1
        BY <1>4 DEF Fail, storeVars, pageVars
  <2>3. FetchSound(p, rows)
        BY <1>0, SentSound DEF FetchSound, FetchTyped
  <2>4. p.slot = r.slot
        BY DEF Sent
  <2> HIDE DEF p
  <2>5. FetchSound(Q(o), rows)
        BY <2>3, EndedSound
  <2>6. Q(o).slot = r.slot
        BY <2>3, <2>4 DEF FetchSound, FetchTyped, IsFetch
  <2>7. FetchesSound' /\ SlotsApart'
        BY <2>1, <2>2, <2>5, <2>6, ReplaceKeeps
  <2> QED BY <2>2, <2>7, Constants DEF Stored, Page, Shown
<1>5. CASE DeliverStats(r)
  <2>1. /\ UNCHANGED <<clock, rows, nextId, activeRange, custom, failuresLeft>>
        /\ fetches' \subseteq fetches
        BY <1>5 DEF DeliverStats, storeVars
  <2>2. place' \in {"observability", "login"} /\ status' \in {"refreshing", "ok", "error"}
        BY <1>5 DEF DeliverStats, Page
  <2>3. Shown'
    <3>1. CASE latestData' = latestData
          BY <3>1 DEF Shown
    <3>2. CASE r.outcome = "ok" /\ latestData' = [ask |-> r.ask, stats |-> r.stats]
      <4>1. Drawable(r.stats)
            BY <1>0, <3>2 DEF FetchSound, Counts, Drawable
      <4>2. latestData'.stats = r.stats
            BY <3>2
      <4> QED BY <4>1, <4>2 DEF Shown, Drawable
    <3> QED BY <1>5, <3>1, <3>2 DEF DeliverStats
  <2>4. FetchesSound' /\ SlotsApart'
        BY <2>1 DEF FetchesSound, SlotsApart
  <2> QED BY <2>1, <2>2, <2>3, <2>4 DEF Stored, Page
<1> QED BY <1>1, <1>2, <1>3, <1>4, <1>5

LEMMA TablesKeep == ASSUME ObsInv, StoreRow \/ PruneRows \/ TimePasses PROVE ObsInv'
<1> USE DEF ObsInv
<1>1. CASE StoreRow
  <2>1. PICK row : Store(row) /\ (\/ \E at \in clock - MaxRun..clock, kind \in Executions : row = Execution(at, kind)
                                  \/ \E ip \in IPs \ {NoIP} : row = FailedLogin(ip))
        BY <1>1 DEF StoreRow
  <2>2. row \in Row /\ (row.table = "failures" => row.ip # NoIP)
    <3>1. clock \in Nat /\ Start <= clock /\ nextId \in Nat
          BY Constants DEF Stored
    <3>2. ASSUME NEW at \in clock - MaxRun..clock, NEW kind \in Executions, row = Execution(at, kind)
          PROVE  row \in Row /\ row.table = "containers"
          BY <3>1, <3>2, Constants DEF Execution, Row
    <3>3. ASSUME NEW ip \in IPs \ {NoIP}, row = FailedLogin(ip)
          PROVE  row \in Row /\ row.ip # NoIP
          BY <3>1, <3>3, Constants DEF FailedLogin, Row
    <3> QED BY <2>1, <3>2, <3>3
  <2>3. /\ rows' = rows \cup {row} /\ nextId <= MaxRows /\ nextId' = nextId + 1 /\ UNCHANGED clock
        /\ UNCHANGED <<place, activeRange, custom, status, latestData, failuresLeft>>
        BY <1>1, <2>1 DEF Store, StoreRow, pageVars
  <2>4. Stored'
    <3>1. IsFiniteSet(rows') /\ Cardinality(rows') <= Cardinality(rows) + 1 /\ Cardinality(rows) \in Nat
          BY <2>3, FS_AddElement, FS_CardinalityType DEF Stored, RowsTyped
    <3>2. RowsTyped(rows')
          BY <2>2, <2>3, <3>1 DEF Stored, RowsTyped
    <3>3. nextId \in Nat /\ MaxRows \in Nat /\ 1 <= nextId /\ Cardinality(rows) <= nextId
          BY Constants DEF Stored
    <3>4. Cardinality(rows') \in Nat
          BY <3>1, FS_CardinalityType
    <3>5. nextId' \in 1..MaxRows + 1 /\ Cardinality(rows') <= nextId'
          BY <2>3, <3>1, <3>3, <3>4
    <3> QED BY <2>3, <3>2, <3>5 DEF Stored
  <2> DEFINE New(r) == [r EXCEPT !.stored = @ \/ Touched(r, rows' \ rows)]
  <2>5. fetches' = {New(r) : r \in fetches}
        BY <1>1 DEF StoreRow
  <2>6. \A r \in fetches : FetchSound(New(r), rows') /\ New(r).slot = r.slot
    <3> SUFFICES ASSUME NEW r \in fetches PROVE FetchSound(New(r), rows') /\ New(r).slot = r.slot
        OBVIOUS
    <3>1. RowsTyped(rows) /\ RowsTyped(rows') /\ rows \subseteq rows' /\ FetchSound(r, rows)
          BY <2>3, <2>4 DEF Stored, FetchesSound
    <3>2. New(r).slot = r.slot
          BY <3>1 DEF FetchSound, FetchTyped, IsFetch
    <3> QED BY <3>1, <3>2, StoredSound
  <2> HIDE DEF New
  <2>7. FetchesSound' /\ SlotsApart'
        BY <2>5, <2>6 DEF FetchesSound, SlotsApart
  <2> QED BY <2>3, <2>4, <2>7 DEF Page, Shown
<1>2. CASE PruneRows
  <2>1. /\ rows' \subseteq rows /\ UNCHANGED <<clock, nextId>>
        /\ UNCHANGED <<place, activeRange, custom, status, latestData, failuresLeft>>
        BY <1>2 DEF PruneRows, Prune, Kept, pageVars
  <2>2. Stored'
    <3>1. IsFiniteSet(rows') /\ Cardinality(rows') <= Cardinality(rows)
          BY <2>1, FS_Subset DEF Stored, RowsTyped
    <3>2. Cardinality(rows') \in Nat /\ Cardinality(rows) \in Nat
          BY <3>1, FS_CardinalityType DEF Stored, RowsTyped
    <3> QED BY <2>1, <3>1, <3>2, Constants DEF Stored, RowsTyped
  <2> DEFINE New(r) == [r EXCEPT !.pruned = @ \/ Touched(r, rows \ rows')]
  <2>3. fetches' = {New(r) : r \in fetches}
        BY <1>2 DEF PruneRows
  <2>4. \A r \in fetches : FetchSound(New(r), rows') /\ New(r).slot = r.slot
    <3> SUFFICES ASSUME NEW r \in fetches PROVE FetchSound(New(r), rows') /\ New(r).slot = r.slot
        OBVIOUS
    <3>1. rows' \subseteq rows /\ FetchSound(r, rows)
          BY <2>1 DEF FetchesSound
    <3>2. New(r).slot = r.slot
          BY <3>1 DEF FetchSound, FetchTyped, IsFetch
    <3> QED BY <3>1, <3>2, PrunedSound
  <2> HIDE DEF New
  <2>5. FetchesSound' /\ SlotsApart'
        BY <2>3, <2>4 DEF FetchesSound, SlotsApart
  <2> QED BY <2>1, <2>2, <2>5 DEF Page, Shown
<1>3. CASE TimePasses
      BY <1>3, Constants DEF TimePasses, StoreTick, pageVars, Stored, Page, Shown, FetchesSound,
                             SlotsApart
<1> QED BY <1>1, <1>2, <1>3

LEMMA ObsNextKeeps == ObsInv /\ [ObsNext]_obsVars => ObsInv'
<1> SUFFICES ASSUME ObsInv, [ObsNext]_obsVars PROVE ObsInv'
    OBVIOUS
<1>1. CASE UNCHANGED obsVars
      BY <1>1 DEF obsVars, storeVars, pageVars, ObsInv, Stored, Page, Shown, FetchesSound,
                  SlotsApart
<1>2. CASE ObsNext
      BY <1>2, UserKeeps, HandlerKeeps, TablesKeep DEF ObsNext
<1> QED BY <1>1, <1>2
-----------------------------------------------------------------------------
(* What is drawn *)

\* A finite chart has a greatest count.
LEMMA Highest == ASSUME NEW f, IsFiniteSet(DOMAIN f), f \in [DOMAIN f -> Nat]
                 PROVE  /\ MaxY(f) \in Nat /\ 1 <= MaxY(f)
                        /\ \A t \in DOMAIN f : f[t] <= MaxY(f)
<1> DEFINE Of(T) == {1} \cup {f[t] : t \in T}
           Has(T) == \E m \in Of(T) : \A x \in Of(T) : x <= m
           bad == {T \in SUBSET DOMAIN f : ~Has(T)}
<1>1. bad = {}
  <2> SUFFICES ASSUME bad # {} PROVE FALSE
      OBVIOUS
  <2>1. PICK T \in bad : \A U \in bad : U \subseteq T => U = T
    <3>1. bad \subseteq SUBSET DOMAIN f
          OBVIOUS
    <3> HIDE DEF bad
    <3> QED BY <3>1, MinimalSet
  <2>2. T # {}
    <3>1. Has({})
          OBVIOUS
    <3> HIDE DEF Has
    <3> QED BY <2>1, <3>1
  <2>3. PICK t \in T : TRUE
        BY <2>2
  <2>4. Has(T \ {t})
    <3> HIDE DEF Has
    <3> QED BY <2>1, <2>3
  <2>5. PICK m \in Of(T \ {t}) : \A x \in Of(T \ {t}) : x <= m
        BY <2>4
  <2>6. Of(T) = Of(T \ {t}) \cup {f[t]} /\ Of(T) \subseteq Nat
        BY <2>1, <2>3
  <2>7. m \in Nat /\ f[t] \in Nat /\ \A x \in Of(T \ {t}) : x \in Nat
        BY <2>5, <2>6
  <2> HIDE DEF Of
  <2>8. Has(T)
    <3>1. CASE m <= f[t]
      <4>1. f[t] \in Of(T) /\ \A x \in Of(T) : x <= f[t]
            BY <2>5, <2>6, <2>7, <3>1
      <4> QED BY <4>1
    <3>2. CASE f[t] < m
      <4>1. m \in Of(T) /\ \A x \in Of(T) : x <= m
            BY <2>5, <2>6, <2>7, <3>2
      <4> QED BY <4>1
    <3> QED BY <2>7, <3>1, <3>2
  <2> HIDE DEF Has
  <2> QED BY <2>1, <2>8
<1>2. Has(DOMAIN f)
  <2> HIDE DEF Has
  <2> QED BY <1>1
<1>3. {1} \cup Range(f) = Of(DOMAIN f)
      BY DEF Range
<1>4. MaxY(f) \in Of(DOMAIN f) /\ \A x \in Of(DOMAIN f) : x <= MaxY(f)
  <2> HIDE DEF Of
  <2> QED BY <1>2, <1>3 DEF MaxY
<1>5. Of(DOMAIN f) \subseteq Nat
      OBVIOUS
<1> QED BY <1>4, <1>5

\* A count drawn lies between the bottom and the top of the plot.
LEMMA CountFits == ASSUME NEW h \in Nat, NEW f, NEW c \in Nat, MaxY(f) \in Nat, c <= MaxY(f)
                   PROVE  /\ Pad.top * MaxY(f) <= YFor(c, f, h)
                          /\ YFor(c, f, h) <= (Pad.top + PlotHeight(h)) * MaxY(f)
<1> DEFINE m == MaxY(f)
           p == PlotHeight(h)
<1>1. p \in Nat /\ m \in Nat /\ c <= m
      BY DEF PlotHeight, AtLeast1, Pad
<1>2. YFor(c, f, h) = (20 + p) * m - c * p /\ Pad.top = 20
      BY DEF YFor, Pad
<1> HIDE DEF m, p
<1>3. c * p <= m * p /\ 0 <= c * p
  <2>1. CASE p = 0
        BY <1>1, <2>1
  <2>2. CASE p # 0
    <3>1. p \in Nat \ {0}
          BY <1>1, <2>2
    <3>2. 0 * p <= c * p
          BY <1>1, <3>1, MoreTimes
    <3> QED BY <1>1, <3>1, <3>2, MoreTimes
  <2> QED BY <2>1, <2>2
<1>4. (20 + p) * m = 20 * m + m * p
      BY <1>1
<1>5. 20 * m \in Nat /\ m * p \in Nat /\ c * p \in Nat
      BY <1>1
<1>6. 20 * m <= (20 + p) * m - c * p /\ (20 + p) * m - c * p <= (20 + p) * m
      BY <1>3, <1>4, <1>5
<1> QED BY <1>2, <1>6 DEF m, p

\* The line starts at one margin, goes to the right, and ends at the other.
LEMMA HoursFit == ASSUME NEW w \in Nat, NEW n \in Nat \ {0}
                  PROVE  /\ XFor(0, n, w) = Pad.left * Steps(n)
                         /\ n > 1 => XFor(n - 1, n, w) = (Pad.left + PlotWidth(w)) * Steps(n)
                         /\ \A i \in 1..n - 1 : XFor(i - 1, n, w) < XFor(i, n, w)
<1> DEFINE p == PlotWidth(w)
           x == Pad.left * Steps(n)
<1>1. p \in Nat /\ 1 <= p
      BY DEF PlotWidth, AtLeast1, Pad
<1>2. x \in Nat /\ Steps(n) \in Nat /\ Pad.left = 52
      BY DEF Steps, Pad
<1>3. \A i \in 0..n - 1 : XFor(i, n, w) = x + (IF n = 1 THEN 0 ELSE p * i)
      BY DEF XFor
<1> HIDE DEF p
<1>4. p * 0 = 0
      BY <1>1
<1>5. \A i \in 1..n - 1 : p * (i - 1) \in Nat /\ p * i = p * (i - 1) + p
      BY <1>1
<1>6. XFor(0, n, w) = x
  <2> HIDE DEF x
  <2> QED BY <1>2, <1>3, <1>4
<1>7. n > 1 => XFor(n - 1, n, w) = (Pad.left + p) * Steps(n)
  <2> SUFFICES ASSUME n > 1 PROVE XFor(n - 1, n, w) = (Pad.left + p) * Steps(n)
      OBVIOUS
  <2>1. XFor(n - 1, n, w) = 52 * (n - 1) + p * (n - 1)
        BY <1>2, <1>3 DEF Steps
  <2>2. 52 * (n - 1) + p * (n - 1) = (52 + p) * (n - 1)
        BY <1>1
  <2> QED BY <1>2, <2>1, <2>2 DEF Steps
<1>8. \A i \in 1..n - 1 : XFor(i - 1, n, w) < XFor(i, n, w)
  <2> SUFFICES ASSUME NEW i \in 1..n - 1 PROVE XFor(i - 1, n, w) < XFor(i, n, w)
      OBVIOUS
  <2> HIDE DEF x
  <2>1. n # 1 /\ i \in 0..n - 1 /\ i - 1 \in 0..n - 1
        OBVIOUS
  <2>2. XFor(i, n, w) = x + p * i /\ XFor(i - 1, n, w) = x + p * (i - 1)
        BY <1>3, <2>1
  <2>3. p * (i - 1) \in Nat /\ p * i = p * (i - 1) + p
        BY <1>5
  <2> QED BY <1>1, <1>2, <2>2, <2>3
<1> QED BY <1>6, <1>7, <1>8 DEF p

\* The two bars fill the circle, or exceed it by one where both are halves.
LEMMA BarsFill == ASSUME NEW s, s.success \in Nat, s.error \in Nat
                  PROVE  SuccessPct(s) + ErrorPct(s)
                           \in (IF s.success + s.error = 0 THEN {0} ELSE {100, 101})
<1> DEFINE a == s.success
           b == s.error
<1>1. CASE a + b = 0
      BY <1>1 DEF SuccessPct, ErrorPct, Percent
<1>2. CASE a + b # 0
  <2> DEFINE d == 2 * (a + b)
             p == (200 * a + (a + b)) \div d
             q == (200 * b + (a + b)) \div d
  <2>1. d \in Nat \ {0}
        BY <1>2
  <2>2. SuccessPct(s) = p /\ ErrorPct(s) = q
        BY <1>2 DEF SuccessPct, ErrorPct, Percent
  <2>3. /\ p \in Nat /\ p * d <= 200 * a + (a + b) /\ 200 * a + (a + b) < p * d + d
        /\ q \in Nat /\ q * d <= 200 * b + (a + b) /\ 200 * b + (a + b) < q * d + d
    <3> HIDE DEF d
    <3>1. 200 * a + (a + b) \in Nat /\ 200 * b + (a + b) \in Nat
          OBVIOUS
    <3> QED BY <2>1, <3>1, Division
  <2> HIDE DEF p, q
  <2>4. (200 * a + (a + b)) + (200 * b + (a + b)) = 101 * d
        OBVIOUS
  <2> HIDE DEF d
  <2>5. (p + q) * d = p * d + q * d /\ (p + q + 2) * d = p * d + q * d + 2 * d
        BY <2>1, <2>3
  <2>6. p * d \in Nat /\ q * d \in Nat
        BY <2>1, <2>3
  <2>7. (p + q) * d <= 101 * d /\ 101 * d < (p + q + 2) * d
        BY <2>1, <2>3, <2>4, <2>5, <2>6
  <2>8. p + q <= 101
    <3> SUFFICES ASSUME 102 <= p + q PROVE FALSE
        BY <2>3
    <3>1. 102 * d <= (p + q) * d
          BY <2>1, <2>3, MoreTimes
    <3> QED BY <2>1, <2>6, <2>5, <2>7, <3>1
  <2>9. 100 <= p + q
    <3> SUFFICES ASSUME p + q + 2 <= 101 PROVE FALSE
        BY <2>3
    <3>1. (p + q + 2) * d <= 101 * d
          BY <2>1, <2>3, MoreTimes
    <3> QED BY <2>1, <2>6, <2>5, <2>7, <3>1
  <2>10. p + q \in {100, 101}
        BY <2>3, <2>8, <2>9
  <2> QED BY <1>2, <2>2, <2>10
<1> QED BY <1>1, <1>2

-----------------------------------------------------------------------------
(* The theorems *)

\* The invariant of the observability page holds throughout.
THEOREM ObsInductive == ObsSpec => []ObsInv
BY ObsInitInv, ObsNextKeeps, PTL DEF ObsSpec

\* No more requests than slots.
LEMMA FewFetches == ASSUME ObsInv PROVE Cardinality(fetches) <= MaxFetches
<1> DEFINE slot == [r \in fetches |-> r.slot]
<1>1. slot \in [fetches -> 1..MaxFetches]
      BY DEF ObsInv, FetchesSound, FetchSound, FetchTyped
<1>2. \A r, q \in fetches : slot[r] = slot[q] => r = q
      BY DEF ObsInv, SlotsApart
<1>3. IsFiniteSet(1..MaxFetches) /\ Cardinality(1..MaxFetches) = MaxFetches
      BY Constants, FS_Interval
<1> HIDE DEF slot
<1>4. slot \in Injection(fetches, 1..MaxFetches)
      BY <1>1, <1>2 DEF Injection, IsInjective
<1> QED BY <1>3, <1>4, FS_Injection

\* Every variable of the observability page keeps its type, and no more
\* requests are under way than there are slots, for any bounds.
THEOREM ObsTyped == ObsSpec => []ObsTypeOK
<1>1. ObsInv => ObsTypeOK
  <2> SUFFICES ASSUME ObsInv PROVE ObsTypeOK
      OBVIOUS
  <2>1. \A r \in fetches : /\ r.ask.range \in Ranges
                           /\ r.done \in 0..Len(Queries)
                           /\ r.at \in {"sent", "running", "answered"}
                           /\ r.at = "running" => r.from < r.to
        BY TenQueries DEF ObsInv, FetchesSound, FetchSound, FetchTyped, Asks
  <2> QED BY <2>1, FewFetches DEF ObsInv, Stored, Page, ObsTypeOK
<1> QED BY <1>1, ObsInductive, PTL

\* The numbers of an answer agree whatever is stored or pruned between the
\* ten queries (db.go:353-399): an execution stored meanwhile is counted by the
\* later queries only, and when no row of the range came or went the hours of
\* the chart, the addresses and the failures add up to their totals exactly.
THEOREM AnswersAgree == ObsSpec => []NumbersAgree
<1>1. ObsInv => NumbersAgree
      BY DEF ObsInv, FetchesSound, FetchSound, Agrees, NumbersAgree
<1> QED BY <1>1, ObsInductive, PTL

\* What is drawn of an answer stays in its place (observability.js:92-98,
\* 135-202): the bars add up to 100 or 101, the hours are in order from margin
\* to margin, and every count lies within the plot.
THEOREM ChartFits == ObsSpec => []PictureFits
<1>1. ObsInv => PictureFits
  <2> SUFFICES ASSUME ObsInv, latestData # NoData PROVE PictureFits
      BY DEF PictureFits
  <2> DEFINE s == latestData.stats
             points == s.hourly
             D == DOMAIN points
             n == Cardinality(D)
  <2>1. s.success \in Nat /\ s.error \in Nat /\ Chart(points)
        BY DEF ObsInv, Shown, Drawable
  <2>2. IsFiniteSet(D) /\ D \subseteq Nat /\ n \in Nat \ {0} /\ points \in [D -> Nat]
    <3>1. IsFiniteSet(D) /\ D \subseteq Nat /\ D # {} /\ points \in [D -> Nat]
          BY <2>1 DEF Chart
    <3>2. n \in Nat /\ n # 0
          BY <3>1, FS_CardinalityType, FS_EmptySet
    <3> QED BY <3>1, <3>2
  <2>3. Hours(points) = [i \in 0..n - 1 |-> Nth(D, i)]
        BY DEF Hours, Nth, Below
  <2>4. SuccessPct(s) + ErrorPct(s) \in (IF s.success + s.error = 0 THEN {0} ELSE {100, 101})
        BY <2>1, BarsFill
  <2> HIDE DEF n, D
  <2>5. LabelIndexes(n) \subseteq DOMAIN Hours(points)
        BY <2>2, <2>3 DEF LabelIndexes
  <2>6. \A i \in 1..n - 1 : Hours(points)[i - 1] < Hours(points)[i]
        BY <2>2, <2>3, NthInOrder DEF n
  <2>7. \A w \in Widths :
          /\ XFor(0, n, w) = Pad.left * Steps(n)
          /\ n > 1 => XFor(n - 1, n, w) = (Pad.left + PlotWidth(w)) * Steps(n)
          /\ \A i \in 1..n - 1 : XFor(i - 1, n, w) < XFor(i, n, w)
        BY <2>2, HoursFit, Constants
  <2>8. \A h \in Heights, t \in D :
          LET y == YFor(points[t], points, h)
          IN  Pad.top * MaxY(points) <= y /\ y <= (Pad.top + PlotHeight(h)) * MaxY(points)
    <3>1. MaxY(points) \in Nat /\ \A t \in D : points[t] <= MaxY(points)
          BY <2>2, Highest DEF D
    <3> QED BY <2>2, <3>1, CountFits, Constants
  <2> QED BY <2>2, <2>4, <2>5, <2>6, <2>7, <2>8 DEF PictureFits, n, D
<1> QED BY <1>1, ObsInductive, PTL
=============================================================================
