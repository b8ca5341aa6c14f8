------------------------ MODULE CompileServiceProofs ------------------------
(***************************************************************************)
(* Theorems about CompileService.  The limiter and the sandbox keep their  *)
(* own invariants, proved once in ConcurrencyLimiterProofs and             *)
(* SandboxProofs: what is added here is that each step of the handler is   *)
(* a step of its parts, and what ties the parts together.                  *)
(***************************************************************************)
EXTENDS CompileService, FiniteSetTheorems, TLAPS

LP == INSTANCE ConcurrencyLimiterProofs WITH Calls <- Requests
SP == INSTANCE SandboxProofs WITH Execs <- Requests

LEMMA LimiterConstants == LP!LimiterAssumption
BY ServiceAssumption DEF ServiceAssumption, LP!LimiterAssumption

LEMMA SandboxConstants == SP!SandboxAssumption
BY ServiceAssumption DEF ServiceAssumption, SP!SandboxAssumption, S!Nobody, SP!Nobody

LEMMA SameCount == ASSUME NEW T PROVE LP!Cardinality(T) = Cardinality(T)
BY DEF LP!Cardinality, Cardinality

LEMMA SameFinite == ASSUME NEW T PROVE LP!IsFiniteSet(T) <=> IsFiniteSet(T)
BY DEF LP!IsFiniteSet, IsFiniteSet

-----------------------------------------------------------------------------
(* The handler's steps are steps of the limiter *)

LEMMA AcquireIs == ASSUME NEW r \in Requests, NEW ip, L!TryAcquire(r, ip)
                   PROVE  LP!TryAcquire(r, ip)
BY DEF L!TryAcquire, L!Grant, L!RefuseTotal, L!RefusePerIP, L!Key, L!Put, L!Lookup, L!Answer,
       L!TotalFull, L!IPFull, L!counters, L!limits,
       LP!TryAcquire, LP!Grant, LP!RefuseTotal, LP!RefusePerIP, LP!Key, LP!Put, LP!Lookup, LP!Answer,
       LP!TotalFull, LP!IPFull, LP!counters, LP!limits

LEMMA ReleaseIs == ASSUME NEW r \in Requests, L!Release(r) PROVE LP!Release(r)
BY DEF L!Release, L!PerIPAfterRelease, L!Lookup, L!Without, L!Put, L!vars,
       LP!Release, LP!PerIPAfterRelease, LP!Lookup, LP!Without, LP!Put, LP!vars

LEMMA LimiterInit == L!Init => LP!AccInv /\ LP!Limits
<1>1. L!Init => LP!Init
      BY DEF L!Init, LP!Init, L!NonNegative, LP!NonNegative
<1> QED BY <1>1, LimiterConstants, LP!InitAccounting, LP!InitLimits

LEMMA LimiterStep == ASSUME LP!AccInv, LP!Next \/ UNCHANGED limiter
                     PROVE  LP!AccInv' /\ (LP!Limits => LP!Limits')
<1>1. [LP!Next]_(LP!vars)
      BY DEF limiter, LP!vars
<1> QED BY <1>1, LimiterConstants, LP!StepAccounting, LP!StepLimits

-----------------------------------------------------------------------------
(* What the handler keeps, whatever crashes and fails *)

Places == {"idle", "handler", "exec", "save", "reply", "release", "done"}
Executed == {"200", "400_limit", "500"}

Shapes == /\ at \in [Requests -> Places]
          /\ client \in [Requests -> IPs \cup {NoIP}]
          /\ reply \in [Requests -> Answers]
          /\ DOMAIN result = Requests
          /\ \A d \in db : d.req \in Requests

\* A handler holds a slot from the grant to its deferred release, under the
\* address of its client.
Slots(r) == /\ at[r] \in {"idle", "handler"} => slot[r] = "none"
            /\ at[r] \in {"exec", "save", "reply", "release"}
                 => slot[r] = "held" /\ key[r] = client[r]
            /\ at[r] = "done" => slot[r] # "held"
            /\ at[r] # "idle" => client[r] \in IPs

Unanswered(r) == at[r] \in {"idle", "handler", "exec", "save", "reply"} => reply[r] = "none"

\* What the record of a request says, from the insert on.
TrueOf(r, d) == /\ at[r] \in {"reply", "release", "done"}
                /\ d.ip = client[r]
                /\ at[r] = "reply" => d.err = result[r].err
                /\ at[r] # "reply" => reply[r] \in {"none", AnswerFor(d.err)}

Story(r) == \A d \in db : d.req = r => TrueOf(r, d)

OneRecord == \A c, d \in db : c.req = d.req => c = d

Stored(r) == "save" \notin faults =>
  (at[r] = "reply" \/ reply[r] \in Executed => \E d \in db : d.req = r /\ d.ip = client[r])

ServiceInv == /\ Shapes
              /\ LP!AccInv
              /\ OneRecord
              /\ \A r \in Requests : Slots(r) /\ Unanswered(r) /\ Story(r) /\ Stored(r)

LEMMA AnswersGiven == /\ \A e : AnswerFor(e) \in Executed
                      /\ Executed \subseteq Answers
                      /\ {"none", "429_rate", "400_empty", "429_busy"} \subseteq Answers
                      /\ {"none", "429_rate", "400_empty", "429_busy"} \cap Executed = {}
BY DEF AnswerFor, Executed, Answers

LEMMA ServiceInit == Init => ServiceInv
<1> SUFFICES ASSUME Init PROVE ServiceInv
    OBVIOUS
<1>1. LP!AccInv
      BY LimiterInit DEF Init
<1>2. Shapes /\ OneRecord
      BY AnswersGiven DEF Init, Shapes, OneRecord, S!Init, Places
<1>3. ASSUME NEW r \in Requests PROVE Slots(r) /\ Unanswered(r) /\ Story(r) /\ Stored(r)
      BY <1>3, AnswersGiven DEF Init, L!Init, Slots, Unanswered, Story, Stored
<1> QED BY <1>1, <1>2, <1>3 DEF ServiceInv

\* A request that a step neither moves nor answers, and whose slot, address,
\* result and records it leaves alone.
Apart(r) == /\ at'[r] = at[r] /\ client'[r] = client[r] /\ reply'[r] = reply[r]
            /\ slot'[r] = slot[r] /\ key'[r] = key[r] /\ result'[r] = result[r]
            /\ \A d : d.req = r => (d \in db' <=> d \in db)

LEMMA ApartKeeps ==
  ASSUME NEW r \in Requests, Slots(r), Unanswered(r), Story(r), Stored(r), Apart(r), UNCHANGED faults
  PROVE  (Slots(r) /\ Unanswered(r) /\ Story(r) /\ Stored(r))'
<1>1. Slots(r)' /\ Unanswered(r)'
      BY DEF Apart, Slots, Unanswered
<1>2. Story(r)'
      BY DEF Apart, Story, TrueOf
<1>3. Stored(r)'
      BY DEF Apart, Stored
<1> QED BY <1>1, <1>2, <1>3

LEMMA OneMoves ==
  ASSUME ServiceInv, NEW r \in Requests, UNCHANGED faults,
         \A q \in Requests \ {r} : Apart(q),
         Shapes', LP!AccInv', OneRecord',
         (Slots(r) /\ Unanswered(r) /\ Story(r) /\ Stored(r))'
  PROVE  ServiceInv'
<1>1. ASSUME NEW q \in Requests PROVE (Slots(q) /\ Unanswered(q) /\ Story(q) /\ Stored(q))'
      BY ApartKeeps DEF ServiceInv
<1> QED BY <1>1 DEF ServiceInv

LEMMA ArriveKeeps == ASSUME ServiceInv, NEW r \in Requests, Arrive(r) PROVE ServiceInv'
<1>1. UNCHANGED <<limiter, faults, result, db>>
      BY DEF Arrive, sandbox
<1>2. LP!AccInv'
      BY <1>1, LimiterStep DEF ServiceInv
<1>3. Shapes' /\ OneRecord'
      BY <1>1, AnswersGiven DEF ServiceInv, Shapes, OneRecord, Arrive, Goto, Reply, Places
<1>4. ASSUME NEW q \in Requests \ {r} PROVE Apart(q)
      BY <1>1 DEF Arrive, Goto, Reply, Apart, limiter, ServiceInv, Shapes
<1>5. Slots(r)'
      BY <1>1 DEF Arrive, Goto, limiter, ServiceInv, Shapes, Slots
<1>6. Unanswered(r)' /\ Story(r)'
      BY <1>1 DEF Arrive, Goto, Reply, ServiceInv, Shapes, Unanswered, Story, TrueOf
<1>7. Stored(r)'
      BY <1>1, AnswersGiven DEF Arrive, Goto, Reply, ServiceInv, Shapes, Unanswered, Stored
<1> QED BY <1>1, <1>2, <1>3, <1>4, <1>5, <1>6, <1>7, OneMoves

LEMMA RejectKeeps == ASSUME ServiceInv, NEW r \in Requests, RejectEmpty(r) PROVE ServiceInv'
<1>1. UNCHANGED <<limiter, faults, result, db>>
      BY DEF RejectEmpty, sandbox
<1>2. LP!AccInv'
      BY <1>1, LimiterStep DEF ServiceInv
<1>3. Shapes' /\ OneRecord'
      BY <1>1, AnswersGiven DEF ServiceInv, Shapes, OneRecord, RejectEmpty, Goto, Reply, Places
<1>4. ASSUME NEW q \in Requests \ {r} PROVE Apart(q)
      BY <1>1 DEF RejectEmpty, Goto, Reply, Apart, limiter, ServiceInv, Shapes
<1>5. Slots(r)'
      BY <1>1 DEF RejectEmpty, Goto, limiter, ServiceInv, Shapes, Slots
<1>6. Unanswered(r)' /\ Story(r)'
      BY <1>1 DEF RejectEmpty, Goto, Reply, ServiceInv, Shapes, Unanswered, Story, TrueOf
<1>7. Stored(r)'
      BY <1>1, AnswersGiven DEF RejectEmpty, Goto, Reply, ServiceInv, Shapes, Unanswered, Stored
<1> QED BY <1>1, <1>2, <1>3, <1>4, <1>5, <1>6, <1>7, OneMoves

LEMMA AcquireKeeps == ASSUME ServiceInv, NEW r \in Requests, Acquire(r) PROVE ServiceInv'
<1>1. UNCHANGED <<faults, result, db, client>> /\ at[r] = "handler" /\ client[r] \in IPs
      BY DEF Acquire, sandbox, ServiceInv, Slots
<1>2. LP!Next
      BY <1>1, AcquireIs DEF Acquire, LP!Next
<1>3. LP!AccInv'
      BY <1>2, LimiterStep DEF ServiceInv
<1>4. PICK a : slot' = [slot EXCEPT ![r] = a] /\ key' = [key EXCEPT ![r] = client[r]]
      BY <1>1, ServiceAssumption DEF ServiceAssumption, Acquire, L!TryAcquire, L!Grant, L!RefuseTotal,
         L!RefusePerIP, L!Answer, L!Key
<1>5. slot \in [Requests -> LP!SlotStates] /\ key \in [Requests -> LP!Keys \cup {NoIP}]
      BY DEF ServiceInv, LP!AccInv, LP!TypeOK
<1>6. \/ slot'[r] = "held" /\ at' = [at EXCEPT ![r] = "exec"] /\ reply' = reply
      \/ slot'[r] # "held" /\ at' = [at EXCEPT ![r] = "done"] /\ reply' = [reply EXCEPT ![r] = "429_busy"]
      BY DEF Acquire, Goto, Reply
<1>7. Shapes' /\ OneRecord'
      BY <1>1, <1>6, AnswersGiven DEF ServiceInv, Shapes, OneRecord, Places
<1>8. ASSUME NEW q \in Requests \ {r} PROVE Apart(q)
      BY <1>1, <1>4, <1>5, <1>6 DEF Apart, ServiceInv, Shapes
<1>9. Slots(r)'
      BY <1>1, <1>4, <1>5, <1>6 DEF ServiceInv, Shapes, Slots
<1>10. Unanswered(r)' /\ Story(r)'
      BY <1>1, <1>6 DEF ServiceInv, Shapes, Unanswered, Story, TrueOf
<1>11. Stored(r)'
      BY <1>1, <1>6, AnswersGiven DEF ServiceInv, Shapes, Unanswered, Stored
<1> QED BY <1>1, <1>3, <1>7, <1>8, <1>9, <1>10, <1>11, OneMoves

\* A step of one execution touches the result of no other.
LEMMA ExecutionAlone ==
  ASSUME NEW r \in Requests, S!Step(r)
  PROVE  /\ UNCHANGED faults
         /\ DOMAIN result' = DOMAIN result
         /\ \A q \in DOMAIN result \ {r} : result'[q] = result[q]
<1>1. UNCHANGED result \/ \E v : result' = [result EXCEPT ![r] = v]
      BY DEF S!Step, S!Prepare, S!NewContainer, S!NewTask, S!Wait, S!Start, S!Exited, S!TimeoutTerm,
         S!ExitedOnTerm, S!GraceOver, S!ExitedOnKill, S!Finish, S!DeleteTask, S!DeleteContainer, S!ReturnVia
<1>2. UNCHANGED faults
      BY DEF S!Step, S!Prepare, S!NewContainer, S!NewTask, S!Wait, S!Start, S!Exited, S!TimeoutTerm,
         S!ExitedOnTerm, S!GraceOver, S!ExitedOnKill, S!Finish, S!DeleteTask, S!DeleteContainer, S!program
<1> QED BY <1>1, <1>2

LEMMA ExecuteKeeps == ASSUME ServiceInv, NEW r \in Requests, Execute(r) PROVE ServiceInv'
<1>1. /\ UNCHANGED <<limiter, faults, db, client, reply>>
      /\ at[r] = "exec"
      /\ at' = [at EXCEPT ![r] = "save"] \/ at' = [at EXCEPT ![r] = "exec"]
      BY ExecutionAlone DEF Execute, ServiceInv, Shapes
<1>2. DOMAIN result' = Requests /\ \A q \in Requests \ {r} : result'[q] = result[q]
      BY ExecutionAlone DEF Execute, ServiceInv, Shapes
<1>3. LP!AccInv'
      BY <1>1, LimiterStep DEF ServiceInv
<1>4. Shapes' /\ OneRecord'
      BY <1>1, <1>2 DEF ServiceInv, Shapes, OneRecord, Places
<1>5. ASSUME NEW q \in Requests \ {r} PROVE Apart(q)
      BY <1>1, <1>2 DEF Apart, limiter, ServiceInv, Shapes
<1>6. Slots(r)'
      BY <1>1 DEF limiter, ServiceInv, Shapes, Slots
<1>7. Unanswered(r)' /\ Story(r)'
      BY <1>1 DEF ServiceInv, Shapes, Unanswered, Story, TrueOf
<1>8. Stored(r)'
      BY <1>1, AnswersGiven DEF ServiceInv, Shapes, Unanswered, Stored
<1> QED BY <1>1, <1>3, <1>4, <1>5, <1>6, <1>7, <1>8, OneMoves

LEMMA SaveKeeps == ASSUME ServiceInv, NEW r \in Requests, Save(r) PROVE ServiceInv'
<1>1. UNCHANGED <<limiter, faults, result, client, reply>> /\ at[r] = "save" /\ at' = [at EXCEPT ![r] = "reply"]
      BY DEF Save, Goto, sandbox
<1>2. LP!AccInv'
      BY <1>1, LimiterStep DEF ServiceInv
<1>3. \A d \in db : d.req # r
      BY <1>1 DEF ServiceInv, Story, TrueOf
<1>4. /\ RecordOf(r).req = r
      /\ RecordOf(r).ip = client[r]
      /\ RecordOf(r).err = result[r].err
      BY DEF RecordOf
<1>5. db' = db \cup {RecordOf(r)} \/ ("save" \in faults /\ db' = db)
      BY DEF Save, S!CanFail
<1>6. Shapes' /\ OneRecord'
      BY <1>1, <1>3, <1>4, <1>5 DEF ServiceInv, Shapes, OneRecord, Places
<1>7. ASSUME NEW q \in Requests \ {r} PROVE Apart(q)
      BY <1>1, <1>4, <1>5 DEF Apart, limiter, ServiceInv, Shapes
<1>8. Slots(r)' /\ Unanswered(r)'
      BY <1>1 DEF limiter, ServiceInv, Shapes, Slots, Unanswered
<1>9. Story(r)'
      BY <1>1, <1>3, <1>4, <1>5 DEF ServiceInv, Shapes, Story, TrueOf
<1>10. Stored(r)'
      BY <1>1, <1>4, <1>5 DEF ServiceInv, Stored
<1> QED BY <1>1, <1>2, <1>6, <1>7, <1>8, <1>9, <1>10, OneMoves

LEMMA RespondKeeps == ASSUME ServiceInv, NEW r \in Requests, Respond(r) PROVE ServiceInv'
<1>1. /\ UNCHANGED <<limiter, faults, result, client, db>>
      /\ at[r] = "reply" /\ at' = [at EXCEPT ![r] = "release"]
      /\ reply' = [reply EXCEPT ![r] = AnswerFor(result[r].err)]
      BY DEF Respond, Goto, Reply, sandbox
<1>2. LP!AccInv'
      BY <1>1, LimiterStep DEF ServiceInv
<1>3. Shapes' /\ OneRecord'
      BY <1>1, AnswersGiven DEF ServiceInv, Shapes, OneRecord, Places
<1>4. ASSUME NEW q \in Requests \ {r} PROVE Apart(q)
      BY <1>1 DEF Apart, limiter, ServiceInv, Shapes
<1>5. Slots(r)' /\ Unanswered(r)'
      BY <1>1 DEF limiter, ServiceInv, Shapes, Slots, Unanswered
<1>6. Story(r)'
      BY <1>1 DEF ServiceInv, Shapes, Story, TrueOf
<1>7. Stored(r)'
      BY <1>1 DEF ServiceInv, Stored
<1> QED BY <1>1, <1>2, <1>3, <1>4, <1>5, <1>6, <1>7, OneMoves

LEMMA LeaveKeeps == ASSUME ServiceInv, NEW r \in Requests, Leave(r) PROVE ServiceInv'
<1>1. /\ UNCHANGED <<faults, client, reply, db>>
      /\ at[r] = "release" /\ at' = [at EXCEPT ![r] = "done"]
      /\ result' = [result EXCEPT ![r] = S!NoResult]
      BY DEF Leave, Goto, S!Forget
<1>2. LP!AccInv'
      BY ReleaseIs, LimiterStep DEF Leave, ServiceInv, LP!Next
<1>3. slot' = [slot EXCEPT ![r] = "released"] /\ key' = key
      BY <1>1 DEF Leave, L!Release, ServiceInv, Slots
<1>4. slot \in [Requests -> LP!SlotStates]
      BY DEF ServiceInv, LP!AccInv, LP!TypeOK
<1>5. Shapes' /\ OneRecord'
      BY <1>1 DEF ServiceInv, Shapes, OneRecord, Places
<1>6. ASSUME NEW q \in Requests \ {r} PROVE Apart(q)
      BY <1>1, <1>3, <1>4 DEF Apart, ServiceInv, Shapes
<1>7. Slots(r)'
      BY <1>1, <1>3, <1>4 DEF ServiceInv, Shapes, Slots
<1>8. Unanswered(r)' /\ Story(r)'
      BY <1>1 DEF ServiceInv, Shapes, Unanswered, Story, TrueOf
<1>9. Stored(r)'
      BY <1>1, AnswersGiven DEF ServiceInv, Shapes, Stored
<1> QED BY <1>1, <1>2, <1>5, <1>6, <1>7, <1>8, <1>9, OneMoves

LEMMA ContainerdKeeps == ASSUME ServiceInv, Containerd PROVE ServiceInv'
<1>1. UNCHANGED <<limiter, at, client, reply, db, result, faults>>
      BY DEF Containerd, S!Deliver, S!Write, S!Copy, S!Exit, S!DieOfKill, S!Stop, S!program
<1>2. LP!AccInv' /\ Shapes' /\ OneRecord'
      BY <1>1, LimiterStep DEF ServiceInv, Shapes, OneRecord
<1>3. ASSUME NEW r \in Requests PROVE (Slots(r) /\ Unanswered(r) /\ Story(r) /\ Stored(r))'
      BY <1>1, ApartKeeps DEF ServiceInv, Apart, limiter
<1> QED BY <1>2, <1>3 DEF ServiceInv

LEMMA CrashKeeps == ASSUME ServiceInv, Crash PROVE ServiceInv'
<1>1. /\ UNCHANGED <<maxTotal, maxPerIP, key, client, reply, db, faults>>
      /\ DOMAIN result' = Requests
      /\ total' = 0 /\ perIP' = << >>
      /\ at' = [r \in Requests |-> IF InFlight(r) THEN "done" ELSE at[r]]
      /\ slot' = [r \in Requests |-> IF slot[r] = "held" THEN "released" ELSE slot[r]]
      BY DEF Crash
<1>2. slot \in [Requests -> LP!SlotStates]
      BY DEF ServiceInv, LP!AccInv, LP!TypeOK
<1>3. slot' \in [Requests -> LP!SlotStates \ {"held"}]
      BY <1>1, <1>2 DEF LP!SlotStates
<1>4. LP!AccInv'
      BY <1>1, <1>3, LimiterConstants, LP!RestartAccounting DEF ServiceInv
<1>5. Shapes' /\ OneRecord'
      BY <1>1 DEF ServiceInv, Shapes, OneRecord, Places
<1>6. ASSUME NEW r \in Requests PROVE (Slots(r) /\ Unanswered(r) /\ Story(r) /\ Stored(r))'
  <2>1. at'[r] = IF InFlight(r) THEN "done" ELSE at[r]
        BY <1>1, <1>6
  <2>2. Slots(r)' /\ Unanswered(r)'
        BY <1>1, <1>3, <2>1 DEF InFlight, ServiceInv, Shapes, Slots, Unanswered, Places
  <2>3. Story(r)'
        BY <1>1, <2>1 DEF InFlight, ServiceInv, Shapes, Story, TrueOf, Unanswered, Places
  <2>4. Stored(r)'
        BY <1>1, <2>1 DEF InFlight, ServiceInv, Shapes, Stored, Places
  <2> QED BY <2>2, <2>3, <2>4
<1> QED BY <1>4, <1>5, <1>6 DEF ServiceInv

LEMMA ServiceStep == ASSUME ServiceInv, [Next]_vars PROVE ServiceInv'
<1>1. CASE UNCHANGED vars
  <2>1. UNCHANGED <<limiter, at, client, reply, db, result, faults>>
        BY <1>1 DEF vars, sandbox
  <2>2. LP!AccInv' /\ Shapes' /\ OneRecord'
        BY <2>1, LimiterStep DEF ServiceInv, Shapes, OneRecord
  <2>3. ASSUME NEW r \in Requests PROVE (Slots(r) /\ Unanswered(r) /\ Story(r) /\ Stored(r))'
        BY <2>1, ApartKeeps DEF ServiceInv, Apart, limiter
  <2> QED BY <2>2, <2>3 DEF ServiceInv
<1>2. ASSUME NEW r \in Requests, Handler(r) PROVE ServiceInv'
      BY <1>2, RejectKeeps, AcquireKeeps, ExecuteKeeps, SaveKeeps, RespondKeeps, LeaveKeeps DEF Handler
<1> QED BY <1>1, <1>2, ArriveKeeps, ContainerdKeeps, CrashKeeps DEF Next

\* The requests from their arrival to the deferred release, the history and
\* the slots, over every crash and failing step (main.go:56-135).
THEOREM ServiceInvariant == Spec => []ServiceInv
BY ServiceInit, ServiceStep, PTL DEF Spec

\* A request has at most one record, with its own address, whose outcome is
\* the one answered, whatever crashes and saves fail (main.go:102-130).
THEOREM HistoryTellsTheTruth == Spec => []RecordsTrue
<1>1. ASSUME ServiceInv PROVE RecordsTrue
  <2> SUFFICES ASSUME NEW d \in db
               PROVE  /\ d.ip = client[d.req]
                      /\ reply[d.req] \in {"none", AnswerFor(d.err)}
                      /\ \A c \in db : c.req = d.req => c = d
      BY DEF RecordsTrue
  <2>1. d.req \in Requests /\ TrueOf(d.req, d) /\ Unanswered(d.req)
        BY <1>1 DEF ServiceInv, Shapes, Story
  <2>2. reply[d.req] \in {"none", AnswerFor(d.err)}
        BY <2>1 DEF TrueOf, Unanswered
  <2>3. \A c \in db : c.req = d.req => c = d
        BY <1>1 DEF ServiceInv, OneRecord
  <2> QED BY <2>1, <2>2, <2>3 DEF TrueOf
<1> QED BY ServiceInvariant, <1>1, PTL

\* An execution that is answered was recorded before, with its client's
\* address, unless the insert failed (README.md:11; main.go:102-130).
THEOREM AnsweredIsStored == Spec => []EveryExecutionStored
<1>1. ASSUME ServiceInv PROVE EveryExecutionStored
      BY <1>1 DEF ServiceInv, Stored, Executed, EveryExecutionStored, S!CanFail
<1> QED BY ServiceInvariant, <1>1, PTL

\* When no handler is under way no slot is: every path through the handler,
\* and every crash, leaves the limiter as it was made (main.go:65-99).
THEOREM NoSlotIsLost == Spec => []IdleMeansFree
<1>1. ASSUME ServiceInv PROVE IdleMeansFree
  <2> SUFFICES ASSUME \A r \in Requests : ~InFlight(r) PROVE total = 0 /\ DOMAIN perIP = {}
      BY DEF IdleMeansFree
  <2>1. LP!Holders = {}
        BY <1>1 DEF LP!Holders, InFlight, ServiceInv, Slots
  <2>2. LP!Accounting /\ maxPerIP \in Nat
        BY <1>1 DEF ServiceInv, LP!AccInv, LP!TypeOK
  <2>3. LP!Cardinality(LP!Holders) = 0
        BY <2>1, SameCount, FS_EmptySet
  <2>4. total = 0
        BY <2>2, <2>3 DEF LP!Accounting
  <2>5. maxPerIP > 0 => DOMAIN perIP = {}
        BY <2>1, <2>2 DEF LP!Accounting
  <2>6. maxPerIP = 0 => DOMAIN perIP = {}
        BY <2>2 DEF LP!Accounting
  <2> QED BY <2>2, <2>4, <2>5, <2>6
<1> QED BY ServiceInvariant, <1>1, PTL

-----------------------------------------------------------------------------
(* The steps of an execution and of containerd are steps of the sandbox *)

LEMMA PrepareIs == ASSUME NEW r \in Requests, S!Prepare(r) PROVE SP!Prepare(r)
BY DEF S!Prepare, S!Goto, S!ReturnVia, S!Failed, S!Nothing, S!CanFail, S!program,
       SP!Prepare, SP!Goto, SP!ReturnVia, SP!Failed, SP!Nothing, SP!CanFail, SP!program

LEMMA NewContainerIs == ASSUME NEW r \in Requests, S!NewContainer(r) PROVE SP!NewContainer(r)
BY DEF S!NewContainer, S!Goto, S!ReturnVia, S!Failed, S!Nothing, S!CanFail, S!program, S!SetBox,
       SP!NewContainer, SP!Goto, SP!ReturnVia, SP!Failed, SP!Nothing, SP!CanFail, SP!program, SP!SetBox

LEMMA NewTaskIs == ASSUME NEW r \in Requests, S!NewTask(r) PROVE SP!NewTask(r)
BY DEF S!NewTask, S!Goto, S!ReturnVia, S!Failed, S!Nothing, S!CanFail, S!program, S!SetBox, S!SetTask,
       SP!NewTask, SP!Goto, SP!ReturnVia, SP!Failed, SP!Nothing, SP!CanFail, SP!program, SP!SetBox, SP!SetTask

LEMMA WaitIs == ASSUME NEW r \in Requests, S!Wait(r) PROVE SP!Wait(r)
BY DEF S!Wait, S!Goto, S!ReturnVia, S!Failed, S!Nothing, S!CanFail, S!program,
       SP!Wait, SP!Goto, SP!ReturnVia, SP!Failed, SP!Nothing, SP!CanFail, SP!program

LEMMA StartIs == ASSUME NEW r \in Requests, S!Start(r) PROVE SP!Start(r)
BY DEF S!Start, S!Goto, S!ReturnVia, S!Failed, S!Nothing, S!CanFail, S!program, S!SetBox, S!SetTask,
       SP!Start, SP!Goto, SP!ReturnVia, SP!Failed, SP!Nothing, SP!CanFail, SP!program, SP!SetBox, SP!SetTask

LEMMA FinishIs == ASSUME NEW r \in Requests, NEW from, NEW err, S!Finish(r, from, err)
                  PROVE  SP!Finish(r, from, err)
BY DEF S!Finish, S!Collected, S!Least, S!ReturnVia, S!Goto, S!program,
       SP!Finish, SP!Collected, SP!Least, SP!ReturnVia, SP!Goto, SP!program

LEMMA KillIs == ASSUME NEW r \in Requests, NEW sig, S!Kill(r, sig) PROVE SP!Kill(r, sig)
BY DEF S!Kill, S!TaskIs, S!Owned, S!SetBox, S!CanFail,
       SP!Kill, SP!TaskIs, SP!Owned, SP!SetBox, SP!CanFail

LEMMA WaitingIs ==
  ASSUME NEW r \in Requests,
         S!Exited(r) \/ S!TimeoutTerm(r) \/ S!ExitedOnTerm(r) \/ S!GraceOver(r) \/ S!ExitedOnKill(r)
  PROVE  SP!Step(r)
BY FinishIs, KillIs
   DEF SP!Step, S!Exited, S!TimeoutTerm, S!ExitedOnTerm, S!GraceOver, S!ExitedOnKill, S!Goto, S!program,
       SP!Exited, SP!TimeoutTerm, SP!ExitedOnTerm, SP!GraceOver, SP!ExitedOnKill, SP!Goto, SP!program

LEMMA DeleteTaskIs == ASSUME NEW r \in Requests, S!DeleteTask(r) PROVE SP!DeleteTask(r)
BY DEF S!DeleteTask, S!Goto, S!TaskIs, S!Owned, S!SetTask, S!SetBox, S!CanFail, S!program,
       SP!DeleteTask, SP!Goto, SP!TaskIs, SP!Owned, SP!SetTask, SP!SetBox, SP!CanFail, SP!program

LEMMA DeleteContainerIs == ASSUME NEW r \in Requests, S!DeleteContainer(r) PROVE SP!DeleteContainer(r)
BY DEF S!DeleteContainer, S!Goto, S!HasTask, S!DropBox, S!CanFail, S!program,
       SP!DeleteContainer, SP!Goto, SP!HasTask, SP!DropBox, SP!CanFail, SP!program

LEMMA StepIs == ASSUME NEW r \in Requests, S!Step(r) PROVE SP!Step(r)
BY PrepareIs, NewContainerIs, NewTaskIs, WaitIs, StartIs, WaitingIs, DeleteTaskIs, DeleteContainerIs
   DEF S!Step, SP!Step

LEMMA ForgetIs == ASSUME NEW r \in Requests, S!Forget(r) PROVE SP!Forget(r)
BY DEF S!Forget, S!Goto, S!Nobody, S!NoId, S!Nothing, S!NoResult,
       SP!Forget, SP!Goto, SP!Nobody, SP!NoId, SP!Nothing, SP!NoResult

LEMMA DeliverIs == ASSUME NEW r \in Requests, S!Deliver(r) PROVE SP!Deliver(r)
BY DEF S!Deliver, S!Listening, S!TaskIs, S!Owned, S!CanFail, S!program,
       SP!Deliver, SP!Listening, SP!TaskIs, SP!Owned, SP!CanFail, SP!program

LEMMA OutputIs ==
  ASSUME NEW r \in Requests, NEW s \in Streams, S!Write(r, s) \/ S!Copy(r, s)
  PROVE  SP!Write(r, s) \/ SP!Copy(r, s)
BY DEF S!Write, S!Copy, S!TaskIs, S!Owned,
       SP!Write, SP!Copy, SP!TaskIs, SP!Owned

LEMMA EndIs == ASSUME NEW i \in DOMAIN box, S!Exit(i) \/ S!DieOfKill(i)
               PROVE  SP!Exit(i) \/ SP!DieOfKill(i)
BY DEF S!Exit, S!DieOfKill, S!Stop, S!program,
       SP!Exit, SP!DieOfKill, SP!Stop, SP!program

LEMMA ContainerdIs == ASSUME Containerd PROVE SP!Next
BY DeliverIs, OutputIs, EndIs DEF Containerd, SP!Next

LEMMA SandboxInit == S!Init => /\ SP!SandboxInv /\ SP!Output
                               /\ SP!NoOrphans /\ SP!NoRunaways
<1>1. S!Init => SP!Init
      BY DEF S!Init, S!NoId, S!Nothing, S!NoResult,
       SP!Init, SP!NoId, SP!Nothing, SP!NoResult
<1> QED BY <1>1, SandboxConstants, SP!InitInv, SP!OrphansInit, SP!RunawaysInit, SP!OutputInit

LEMMA SandboxStep ==
  ASSUME SP!SandboxInv, SP!Next \/ UNCHANGED sandbox
  PROVE  /\ SP!SandboxInv'
         /\ SP!NoOrphans => SP!NoOrphans'
         /\ SP!NoRunaways => SP!NoRunaways'
         /\ SP!Output => SP!Output'
         /\ SP!UnownedStay
<1>1. [SP!Next]_(SP!vars)
      BY DEF sandbox, SP!vars
<1> QED BY <1>1, SandboxConstants, SP!NextKeeps, SP!OrphansKeep, SP!RunawaysKeep, SP!OutputKeeps,
           SP!UnownedAlone

-----------------------------------------------------------------------------
(* The executions over crashes *)

\* An execution is under way only in a handler that waits for it.
Awaited(r) == pc[r] \notin {"idle", "returned"} => at[r] = "exec"

Recorded == \A d \in db : d \in [req : Requests, ip : IPs, err : S!Errors]

WholeInv == /\ ServiceInv
            /\ SP!SandboxInv
            /\ SP!Output
            /\ Recorded
            /\ crashes \in 0 .. MaxCrashes
            /\ \A r \in Requests : Awaited(r)

LEMMA WholeInit == Init => WholeInv
<1> SUFFICES ASSUME Init PROVE WholeInv
    OBVIOUS
<1>1. ServiceInv /\ SP!SandboxInv /\ SP!Output
      BY ServiceInit, SandboxInit DEF Init
<1>2. Recorded /\ crashes \in 0 .. MaxCrashes /\ \A r \in Requests : Awaited(r)
      BY ServiceAssumption DEF ServiceAssumption, Init, S!Init, Awaited, Recorded
<1> QED BY <1>1, <1>2 DEF WholeInv

LEMMA Moves == ASSUME Next, ~Crash
               PROVE  (\E r \in Requests : Arrive(r) \/ Handler(r)) \/ Containerd
BY DEF Next

LEMMA SandboxMoves == ASSUME Next, ~Crash PROVE SP!Next \/ UNCHANGED sandbox
<1>1. ASSUME NEW r \in Requests, Execute(r) PROVE SP!Next
      BY <1>1, StepIs DEF Execute, SP!Next
<1>2. ASSUME NEW r \in Requests, Leave(r) PROVE SP!Next
      BY <1>2, ForgetIs DEF Leave, SP!Next
<1>3. ASSUME NEW r \in Requests, Arrive(r) \/ RejectEmpty(r) \/ Acquire(r) \/ Save(r) \/ Respond(r)
      PROVE  UNCHANGED sandbox
      BY <1>3 DEF Arrive, RejectEmpty, Acquire, Save, Respond
<1> QED BY <1>1, <1>2, <1>3, ContainerdIs, Moves DEF Handler

LEMMA AwaitedKeeps ==
  ASSUME WholeInv, Next, ~Crash
  PROVE  /\ crashes' = crashes /\ faults' = faults
         /\ \A r \in Requests : Awaited(r)'
<1>1. DOMAIN pc = Requests /\ at \in [Requests -> Places] /\ \A q \in Requests : Awaited(q)
      BY DEF WholeInv, SP!SandboxInv, SP!Typed, ServiceInv, Shapes
<1>2. ASSUME NEW r \in Requests, Execute(r)
      PROVE  /\ crashes' = crashes /\ faults' = faults
             /\ \A q \in Requests : Awaited(q)'
  <2>1. \E v : pc' = [pc EXCEPT ![r] = v]
        BY <1>2 DEF Execute, S!Step, S!Prepare, S!NewContainer, S!NewTask, S!Wait, S!Start, S!Exited,
           S!TimeoutTerm, S!ExitedOnTerm, S!GraceOver, S!ExitedOnKill, S!Finish, S!DeleteTask,
           S!DeleteContainer, S!ReturnVia, S!Goto
  <2>2. at[r] = "exec" /\ at' = [at EXCEPT ![r] = IF pc'[r] = "returned" THEN "save" ELSE @]
        BY <1>2 DEF Execute
  <2>3. \A q \in Requests : Awaited(q)'
        BY <1>1, <2>1, <2>2 DEF Awaited
  <2> QED BY <1>2, <2>3, ExecutionAlone DEF Execute
<1>3. ASSUME NEW r \in Requests, Arrive(r) \/ RejectEmpty(r) \/ Acquire(r) \/ Save(r) \/ Respond(r)
      PROVE  /\ crashes' = crashes /\ faults' = faults
             /\ \A q \in Requests : Awaited(q)'
  <2>1. UNCHANGED <<pc, faults, crashes>> /\ at[r] # "exec" /\ \E p : at' = [at EXCEPT ![r] = p]
        BY <1>3 DEF Arrive, RejectEmpty, Acquire, Save, Respond, Goto, sandbox
  <2> QED BY <1>1, <2>1 DEF Awaited
<1>4. ASSUME NEW r \in Requests, Leave(r)
      PROVE  /\ crashes' = crashes /\ faults' = faults
             /\ \A q \in Requests : Awaited(q)'
  <2>1. /\ UNCHANGED <<faults, crashes>>
        /\ pc' = [pc EXCEPT ![r] = "idle"] /\ at' = [at EXCEPT ![r] = "done"]
        BY <1>4 DEF Leave, Goto, S!Forget, S!Goto
  <2> QED BY <1>1, <2>1 DEF Awaited
<1>5. CASE Containerd
  <2>1. UNCHANGED <<pc, faults, at, crashes>>
        BY <1>5 DEF Containerd, S!Deliver, S!Write, S!Copy, S!Exit, S!DieOfKill, S!Stop, S!program
  <2> QED BY <1>1, <2>1 DEF Awaited
<1> QED BY <1>2, <1>3, <1>4, <1>5, Moves DEF Handler

\* A record is well formed when it is made.
LEMMA RecordedKeeps == ASSUME WholeInv, [Next]_vars PROVE Recorded'
<1>1. ASSUME db' = db PROVE Recorded'
      BY <1>1 DEF WholeInv, Recorded
<1>2. ASSUME NEW r \in Requests, Save(r) PROVE Recorded'
  <2>1. at[r] = "save"
        BY <1>2 DEF Save, Goto
  <2>2. client[r] \in IPs
        BY <2>1 DEF WholeInv, ServiceInv, Slots
  <2>3. result[r].err \in S!Errors
        BY DEF WholeInv, SP!SandboxInv, SP!Typed, S!Errors, SP!Errors
  <2>4. RecordOf(r) \in [req : Requests, ip : IPs, err : S!Errors]
        BY <2>2, <2>3 DEF RecordOf
  <2>5. db' = db \/ db' = db \cup {RecordOf(r)}
        BY <1>2 DEF Save
  <2> QED BY <2>4, <2>5 DEF WholeInv, Recorded
<1>3. ASSUME NEW r \in Requests, Arrive(r) \/ Handler(r), ~Save(r) PROVE db' = db
      BY <1>3 DEF Arrive, Handler, RejectEmpty, Acquire, Execute, Respond, Leave
<1>4. Containerd \/ Crash \/ UNCHANGED vars => db' = db
      BY DEF Containerd, Crash, vars
<1> QED BY <1>1, <1>2, <1>3, <1>4 DEF Next

\* After a crash no execution is under way and no container has an owner.
LEMMA CrashedSandbox ==
  ASSUME WholeInv, Crash
  PROVE  SP!SandboxInv' /\ SP!Output' /\ \A r \in Requests : Awaited(r)'
<1>1. /\ pc' = [r \in Requests |-> "idle"]
      /\ name' = [r \in Requests |-> SP!NoId]
      /\ ready' = [r \in Requests |-> FALSE]
      /\ result' = [r \in Requests |-> SP!NoResult]
      /\ box' = [i \in DOMAIN box |-> [box[i] EXCEPT !.owner = SP!Nobody]]
      BY DEF Crash, S!Nobody, S!NoId, S!NoResult, S!Nothing, SP!Nobody, SP!NoId, SP!NoResult, SP!Nothing
<1>2. \A i \in DOMAIN box' : box'[i] \in SP!BoxType /\ box'[i].owner = SP!Nobody
  <2> SUFFICES ASSUME NEW i \in DOMAIN box
               PROVE  box'[i] \in SP!BoxType /\ box'[i].owner = SP!Nobody
      BY <1>1
  <2>1. box[i] \in SP!BoxType
        BY DEF WholeInv, SP!SandboxInv, SP!Typed
  <2>2. /\ [box[i] EXCEPT !.owner = SP!Nobody] \in SP!BoxType
        /\ [box[i] EXCEPT !.owner = SP!Nobody].owner = SP!Nobody
        BY <2>1 DEF SP!BoxType
  <2> QED BY <1>1, <2>2
<1>3. /\ SP!NoResult \in SP!ResultType
      /\ SP!Nothing \in [Streams -> 0 .. MaxOut] /\ \A t \in Streams : SP!Nothing[t] = 0
  <2>1. /\ SP!Nothing \in [Streams -> 0 .. Cap]
        /\ SP!Nothing \in [Streams -> 0 .. MaxOut] /\ \A t \in Streams : SP!Nothing[t] = 0
        BY ServiceAssumption DEF ServiceAssumption, SP!Nothing
  <2> QED BY <2>1 DEF SP!NoResult, SP!ResultType, SP!Errors, SP!Statuses
<1>4. SP!Typed'
  <2>1. DOMAIN box' \subseteq Ids
        BY <1>1 DEF WholeInv, SP!SandboxInv, SP!Typed
  <2>2. result' \in [Requests -> SP!ResultType]
        BY <1>1, <1>3
  <2> QED BY <1>1, <1>2, <2>1, <2>2 DEF SP!Typed, SP!Steps, SP!ResultType
<1>5. SP!Ownership'
      BY <1>2 DEF SP!Ownership
<1>6. ASSUME NEW r \in Requests PROVE SP!Local(r)'
  <2>1. ~SP!Mine(r)'
        BY <1>2, SandboxConstants, SP!Kinds DEF SP!Mine
  <2>2. SP!Held(r)' /\ SP!Fresh(r)'
        BY <1>1, <2>1 DEF SP!Held, SP!Busy, SP!Fresh
  <2> QED BY <2>1, <2>2 DEF SP!Local
<1>7. SP!Output'
  <2>1. /\ produced' = [r \in Requests |-> SP!Nothing]
        /\ copied' = [r \in Requests |-> SP!Nothing]
        BY DEF Crash, S!Nothing, SP!Nothing
  <2> QED BY <1>3, <2>1 DEF SP!Output
<1>8. \A r \in Requests : Awaited(r)'
      BY <1>1 DEF Awaited
<1> QED BY <1>4, <1>5, <1>6, <1>7, <1>8 DEF SP!SandboxInv

LEMMA WholeStep == ASSUME WholeInv, [Next]_vars PROVE WholeInv'
<1>1. ServiceInv' /\ Recorded'
      BY ServiceStep, RecordedKeeps DEF WholeInv
<1>2. CASE Next /\ ~Crash
  <2>1. SP!SandboxInv' /\ SP!Output'
        BY <1>2, SandboxMoves, SandboxStep DEF WholeInv
  <2> QED BY <1>1, <1>2, <2>1, AwaitedKeeps DEF WholeInv
<1>3. CASE Crash
  <2>1. crashes' \in 0 .. MaxCrashes
        BY <1>3, ServiceAssumption DEF WholeInv, Crash, ServiceAssumption
  <2> QED BY <1>1, <1>3, <2>1, CrashedSandbox DEF WholeInv
<1>4. CASE UNCHANGED vars
  <2>1. UNCHANGED sandbox /\ UNCHANGED <<pc, at, crashes>>
        BY <1>4 DEF vars, sandbox
  <2>2. SP!SandboxInv' /\ SP!Output'
        BY <2>1, SandboxStep DEF WholeInv
  <2> QED BY <1>1, <2>1, <2>2 DEF WholeInv, Awaited
<1> QED BY <1>2, <1>3, <1>4

\* The handlers, the limiter, the executions and containerd together, over
\* every crash and failing step (main.go:56-135, compileit.go:300-440).
THEOREM WholeInvariant == Spec => []WholeInv
<1>1. WholeInv /\ [Next]_vars => WholeInv'
      BY WholeStep
<1> QED BY WholeInit, <1>1, PTL DEF Spec

\* Every variable keeps its type, output is copied no further than it was
\* written, and a record names a request, an address and an outcome.
THEOREM ServiceTyped == Spec => []TypeOK
<1>1. ASSUME WholeInv PROVE TypeOK
  <2>1. L!TypeOK
        BY <1>1 DEF WholeInv, ServiceInv, LP!AccInv, LP!TypeOK, LP!SlotStates, LP!Keys, L!TypeOK,
           L!SlotStates, L!Keys
  <2>2. S!TypeOK
    <3>1. SP!TypeOK
          BY <1>1 DEF WholeInv, SP!SandboxInv, SP!Typed, SP!BoxType, SP!Output, SP!TypeOK
    <3> QED BY <3>1 DEF S!TypeOK, S!Steps, S!Errors, S!Statuses, S!NoId, S!Nobody,
               SP!TypeOK, SP!Steps, SP!Errors, SP!Statuses, SP!NoId, SP!Nobody
  <2>3. /\ at \in [Requests -> {"idle", "handler", "exec", "save", "reply", "release", "done"}]
        /\ client \in [Requests -> IPs \cup {NoIP}]
        /\ reply \in [Requests -> Answers]
        BY <1>1 DEF WholeInv, ServiceInv, Shapes, Places
  <2>4. db \subseteq [req : Requests, ip : IPs, err : S!Errors]
        BY <1>1 DEF WholeInv, Recorded
  <2>5. crashes \in 0 .. MaxCrashes
        BY <1>1 DEF WholeInv
  <2> QED BY <2>1, <2>2, <2>3, <2>4, <2>5 DEF TypeOK
<1> QED BY WholeInvariant, <1>1, PTL

\* What a crash left in containerd is refused to, and left alone by, every
\* request of the next process, equal ids or not (compileit.go:364-374).
THEOREM CrashedAreLeftBehind == Spec => LeftBehind
<1> DEFINE Left == \A i \in DOMAIN box : box[i].owner = S!Nobody =>
                     /\ i \in DOMAIN box'
                     /\ box'[i].owner = S!Nobody
                     /\ box'[i].signal = box[i].signal
<1>1. SP!UnownedStay => Left
      BY DEF SP!UnownedStay, SP!Nobody, S!Nobody
<1>2. ASSUME WholeInv, [Next]_vars PROVE [Left]_vars
  <2>1. CASE Next /\ ~Crash
        BY <1>1, <1>2, <2>1, SandboxMoves, SandboxStep DEF WholeInv
  <2>2. CASE Crash
    <3> SUFFICES ASSUME NEW i \in DOMAIN box, box[i].owner = S!Nobody
                 PROVE  /\ i \in DOMAIN box'
                        /\ box'[i].owner = S!Nobody
                        /\ box'[i].signal = box[i].signal
        OBVIOUS
    <3>1. box[i] \in SP!BoxType
          BY <1>2 DEF WholeInv, SP!SandboxInv, SP!Typed
    <3>2. i \in DOMAIN box' /\ box'[i] = [box[i] EXCEPT !.owner = S!Nobody]
          BY <2>2 DEF Crash
    <3> QED BY <3>1, <3>2 DEF SP!BoxType
  <2> QED BY <1>2, <2>1, <2>2
<1>3. [Left]_vars <=> [\A i \in DOMAIN box : box[i].owner = S!Nobody =>
                         /\ i \in DOMAIN box'
                         /\ box'[i].owner = S!Nobody
                         /\ box'[i].signal = box[i].signal]_vars
      OBVIOUS
<1> QED BY WholeInvariant, <1>2, <1>3, PTL DEF Spec, LeftBehind

-----------------------------------------------------------------------------
(* Programs and slots, while the server lives *)

\* What holds besides, as long as the server does not crash.
AliveInv == /\ WholeInv
            /\ LP!Limits
            /\ SP!NoOrphans
            /\ SP!NoRunaways
            /\ crashes = 0

LEMMA AliveInit == Init => AliveInv
<1> SUFFICES ASSUME Init PROVE AliveInv
    OBVIOUS
<1>1. WholeInv /\ LP!Limits /\ SP!NoOrphans /\ SP!NoRunaways
      BY WholeInit, LimiterInit, SandboxInit DEF Init
<1> QED BY <1>1 DEF Init, AliveInv

LEMMA LimiterMoves == ASSUME ServiceInv, Next, ~Crash PROVE LP!Next \/ UNCHANGED limiter
<1>1. ASSUME NEW r \in Requests, Acquire(r) PROVE LP!Next
  <2>1. client[r] \in IPs
        BY <1>1 DEF Acquire, ServiceInv, Slots
  <2> QED BY <1>1, <2>1, AcquireIs DEF Acquire, LP!Next
<1>2. ASSUME NEW r \in Requests, Leave(r) PROVE LP!Next
      BY <1>2, ReleaseIs DEF Leave, LP!Next
<1>3. ASSUME NEW r \in Requests, Arrive(r) \/ RejectEmpty(r) \/ Execute(r) \/ Save(r) \/ Respond(r)
      PROVE  UNCHANGED limiter
      BY <1>3 DEF Arrive, RejectEmpty, Execute, Save, Respond
<1>4. CASE Containerd
      BY <1>4 DEF Containerd
<1> QED BY <1>1, <1>2, <1>3, <1>4, Moves DEF Handler

LEMMA AliveStep == ASSUME MaxCrashes = 0, AliveInv, [Next]_vars PROVE AliveInv'
<1>1. WholeInv'
      BY WholeStep DEF AliveInv
<1>2. CASE Next
  <2>1. ~Crash
        BY DEF AliveInv, Crash
  <2>2. LP!Limits'
        BY <1>2, <2>1, LimiterMoves, LimiterStep DEF AliveInv, WholeInv, ServiceInv
  <2>3. SP!NoOrphans' /\ SP!NoRunaways'
        BY <1>2, <2>1, SandboxMoves, SandboxStep DEF AliveInv, WholeInv
  <2>4. crashes' = crashes
        BY <1>2, <2>1, AwaitedKeeps DEF AliveInv
  <2> QED BY <1>1, <2>2, <2>3, <2>4 DEF AliveInv
<1>3. CASE UNCHANGED vars
  <2>1. UNCHANGED limiter /\ UNCHANGED sandbox /\ UNCHANGED crashes
        BY <1>3 DEF vars, sandbox
  <2>2. LP!Limits' /\ SP!NoOrphans' /\ SP!NoRunaways'
        BY <2>1, LimiterStep, SandboxStep DEF AliveInv, WholeInv, ServiceInv
  <2> QED BY <1>1, <2>1, <2>2 DEF AliveInv
<1> QED BY <1>2, <1>3

LEMMA AliveInvariant == ASSUME MaxCrashes = 0 PROVE Spec => []AliveInv
<1>1. AliveInv /\ [Next]_vars => AliveInv'
      BY AliveStep
<1> QED BY AliveInit, <1>1, PTL DEF Spec

\* The owner of a container that can be thrown away, or whose program runs, is
\* in the middle of its execution.
LEMMA OwnersHold ==
  ASSUME AliveInv, NEW i \in DOMAIN box,
         \/ faults \cap S!LateFaults = {}
         \/ box[i].task = "running" /\ ~S!CanFail("stream")
  PROVE  /\ box[i].owner \in Requests
         /\ name[box[i].owner] = i
         /\ slot[box[i].owner] = "held"
         /\ key[box[i].owner] = client[box[i].owner]
<1>1. box[i].owner # SP!Nobody /\ pc[box[i].owner] \notin {"idle", "returned"}
  <2>1. CASE faults \cap S!LateFaults = {}
    <3>1. faults \cap SP!LateFaults = {}
          BY <2>1 DEF S!LateFaults, SP!LateFaults
    <3> QED BY <3>1, SandboxConstants, SP!NothingStays DEF AliveInv, WholeInv, SP!NothingLeft
  <2>2. CASE box[i].task = "running" /\ ~S!CanFail("stream")
    <3>1. ~SP!CanFail("stream")
          BY <2>2 DEF S!CanFail, SP!CanFail
    <3>2. box[i].owner # SP!Nobody /\ SP!Listening(box[i].owner)
          BY <2>2, <3>1, SandboxConstants, SP!RunningAttended DEF AliveInv, WholeInv, SP!RunsAwaited
    <3> QED BY <3>2 DEF SP!Listening
  <2> QED BY <2>1, <2>2
<1>2. box[i].owner \in Requests /\ name[box[i].owner] = i
      BY <1>1 DEF AliveInv, WholeInv, SP!SandboxInv, SP!Typed, SP!BoxType, SP!Ownership
<1>3. at[box[i].owner] = "exec"
      BY <1>1, <1>2 DEF AliveInv, WholeInv, Awaited
<1> QED BY <1>2, <1>3 DEF AliveInv, WholeInv, ServiceInv, Slots

\* While the server lives a container exists only while the request that
\* created it holds a slot, unless it could not be thrown away; if its program
\* runs, even then.  For any number of requests, addresses and ids
\* (compileHandler's deferred release, main.go:65-102).
THEOREM ContainersCounted == ASSUME MaxCrashes = 0 PROVE Spec => []ContainersHoldSlots
<1>1. ASSUME AliveInv PROVE ContainersHoldSlots
      BY <1>1, OwnersHold DEF ContainersHoldSlots
<1> QED BY AliveInvariant, <1>1, PTL

\* A set of containers is no larger than a set of requests that owns it.
LEMMA BoxesOfHolders ==
  ASSUME NEW B \in SUBSET DOMAIN box, NEW C, IsFiniteSet(C),
         \A i \in B : box[i].owner \in C /\ name[box[i].owner] = i
  PROVE  Cardinality(B) <= Cardinality(C) /\ Cardinality(B) \in Nat /\ Cardinality(C) \in Nat
<1> DEFINE f == [i \in B |-> box[i].owner]
<1>1. f \in Injection(B, C)
      BY DEF Injection, IsInjective
<1>2. IsFiniteSet(B) /\ Cardinality(B) <= Cardinality(C)
  <2> HIDE DEF f
  <2> QED BY <1>1, FS_Injection
<1> QED BY <1>2, FS_CardinalityType

\* While the server lives the programs that run, not just the slots, stay
\* within the limits, in total and for each address, whichever calls but the
\* exit stream fail (concurrency_limiter.go:40-81; main.go:65-102).
THEOREM ProgramsWithinLimits == ASSUME MaxCrashes = 0 PROVE Spec => []RunningWithinLimits
<1>1. ASSUME AliveInv, ~S!CanFail("stream")
      PROVE  /\ maxTotal > 0 => Cardinality(RunningBoxes) <= maxTotal
             /\ maxPerIP > 0 => \A ip \in IPs : Cardinality(RunningFor(ip)) <= maxPerIP
  <2>1. LP!IsFiniteSet(LP!Holders) /\ LP!Limits /\ maxTotal \in Nat /\ maxPerIP \in Nat
        BY <1>1 DEF AliveInv, WholeInv, ServiceInv, LP!AccInv, LP!TypeOK
  <2>2. IsFiniteSet(LP!Holders)
        BY <2>1, SameFinite
  <2>3. ASSUME maxTotal > 0 PROVE Cardinality(RunningBoxes) <= maxTotal
    <3>1. \A i \in RunningBoxes : box[i].owner \in LP!Holders /\ name[box[i].owner] = i
          BY <1>1, OwnersHold DEF RunningBoxes, LP!Holders
    <3>2. RunningBoxes \subseteq DOMAIN box
          BY DEF RunningBoxes
    <3>3. /\ Cardinality(RunningBoxes) <= Cardinality(LP!Holders)
          /\ Cardinality(RunningBoxes) \in Nat
          /\ Cardinality(LP!Holders) \in Nat
          BY <2>2, <3>1, <3>2, BoxesOfHolders
    <3>4. Cardinality(LP!Holders) <= maxTotal
          BY <2>1, <2>3, SameCount DEF LP!Limits
    <3> QED BY <2>1, <3>3, <3>4
  <2>4. ASSUME maxPerIP > 0, NEW ip \in IPs PROVE Cardinality(RunningFor(ip)) <= maxPerIP
    <3>1. \A i \in RunningFor(ip) : box[i].owner \in LP!HoldersOf(ip) /\ name[box[i].owner] = i
          BY <1>1, OwnersHold DEF RunningFor, RunningBoxes, LP!HoldersOf, LP!Holders
    <3>2. RunningFor(ip) \subseteq DOMAIN box
          BY DEF RunningFor, RunningBoxes
    <3>3. IsFiniteSet(LP!HoldersOf(ip))
          BY <2>2, FS_Subset DEF LP!HoldersOf
    <3>4. /\ Cardinality(RunningFor(ip)) <= Cardinality(LP!HoldersOf(ip))
          /\ Cardinality(RunningFor(ip)) \in Nat
          /\ Cardinality(LP!HoldersOf(ip)) \in Nat
          BY <3>1, <3>2, <3>3, BoxesOfHolders
    <3>5. Cardinality(LP!HoldersOf(ip)) <= maxPerIP
          BY <2>1, <2>4, SameCount DEF LP!Limits, LP!Keys
    <3> QED BY <2>1, <3>4, <3>5
  <2> QED BY <2>3, <2>4
<1>2. AliveInv => RunningWithinLimits
      BY <1>1 DEF RunningWithinLimits
<1> QED BY AliveInvariant, <1>2, PTL

-----------------------------------------------------------------------------
(* The service implements its parts *)

\* A step that is not a crash is one of the limiter's, or leaves it alone.
LEMMA LimiterSteps == ASSUME ServiceInv, [Next]_vars, ~Crash PROVE [L!Next]_(L!vars)
<1>1. ASSUME NEW r \in Requests, Acquire(r) PROVE L!Next
  <2>1. client[r] \in IPs
        BY <1>1 DEF Acquire, ServiceInv, Slots
  <2> QED BY <1>1, <2>1 DEF Acquire, L!Next
<1>2. ASSUME NEW r \in Requests, Leave(r) PROVE L!Next
      BY <1>2 DEF Leave, L!Next
<1>3. UNCHANGED limiter => UNCHANGED L!vars
      BY DEF limiter, L!vars
<1>4. ASSUME NEW r \in Requests, Arrive(r) \/ RejectEmpty(r) \/ Execute(r) \/ Save(r) \/ Respond(r)
      PROVE  UNCHANGED limiter
      BY <1>4 DEF Arrive, RejectEmpty, Execute, Save, Respond
<1>5. Containerd \/ UNCHANGED vars => UNCHANGED limiter
      BY DEF Containerd, vars
<1> QED BY <1>1, <1>2, <1>3, <1>4, <1>5, Moves DEF Handler

LEMMA SandboxSteps == ASSUME [Next]_vars, ~Crash PROVE [S!Next]_(S!vars)
<1>1. ASSUME NEW r \in Requests, Execute(r) PROVE S!Next
      BY <1>1 DEF Execute, S!Next
<1>2. Containerd => S!Next
      BY DEF Containerd, S!Next
<1>3. UNCHANGED sandbox => UNCHANGED S!vars
      BY DEF sandbox, S!vars
<1>4. ASSUME NEW r \in Requests, Leave(r) PROVE S!Next
      BY <1>4 DEF Leave, S!Next
<1>5. ASSUME NEW r \in Requests, Arrive(r) \/ RejectEmpty(r) \/ Acquire(r) \/ Save(r) \/ Respond(r)
      PROVE  UNCHANGED sandbox
      BY <1>5 DEF Arrive, RejectEmpty, Acquire, Save, Respond
<1>6. UNCHANGED vars => UNCHANGED sandbox
      BY DEF vars
<1> QED BY <1>1, <1>2, <1>3, <1>4, <1>5, <1>6, Moves DEF Handler

\* While the process lives the handlers use the limiter and run the executions
\* only as those modules specify: what holds of the parts alone holds of them
\* here (main.go:65-99).
THEOREM ServiceRunsItsParts == ASSUME MaxCrashes = 0 PROVE Spec => L!Spec /\ S!Spec
<1>1. Init => L!Init /\ S!Init
      BY DEF Init
<1>2. ASSUME WholeInv, [Next]_vars PROVE [L!Next]_(L!vars) /\ [S!Next]_(S!vars)
  <2>1. ~Crash
        BY <1>2 DEF WholeInv, Crash
  <2> QED BY <1>2, <2>1, LimiterSteps, SandboxSteps DEF WholeInv
<1> QED BY <1>1, <1>2, WholeInvariant, PTL DEF Spec, L!Spec, S!Spec

\* To its clients the service is a counterless pool of slots: a request is
\* turned away as busy only while the executions under way have reached a
\* limit (concurrency_limiter.go:32-84; main.go:65-76).
THEOREM ServiceOffersPool == ASSUME MaxCrashes = 0 PROVE Spec => LP!PoolSpec
<1>1. L!Spec => LP!Spec
  <2>1. L!Init => LP!Init
        BY DEF L!Init, LP!Init, L!NonNegative, LP!NonNegative
  <2>2. [L!Next]_(L!vars) => [LP!Next]_(LP!vars)
    <3>1. L!Next => LP!Next
          BY AcquireIs, ReleaseIs DEF L!Next, LP!Next
    <3>2. UNCHANGED L!vars => UNCHANGED LP!vars
          BY DEF L!vars, LP!vars
    <3> QED BY <3>1, <3>2
  <2> QED BY <2>1, <2>2, PTL DEF L!Spec, LP!Spec
<1> QED BY <1>1, ServiceRunsItsParts, LimiterConstants, LP!LimiterImplementsPool, PTL
=============================================================================
