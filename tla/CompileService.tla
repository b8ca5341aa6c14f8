--------------------------- MODULE CompileService ---------------------------
(***************************************************************************)
(* main.go: POST /compile from the rate-limit middleware to the reply.     *)
(* Each request is served by a goroutine of its own; it composes the       *)
(* concurrency limiter (ConcurrencyLimiter), the execution in a container  *)
(* (Sandbox) and the history table.  The server may crash, which loses     *)
(* its memory but neither the database nor what containerd runs.           *)
(***************************************************************************)
EXTENDS Integers, FiniteSets

CONSTANTS Requests,       \* requests, each served once
          IPs, NoIP, Unknown, MaxTotals, MaxPerIPs,       \* see ConcurrencyLimiter
          Ids, Streams, MaxOut, Cap, FaultSets,           \* see Sandbox; also "save"
          MaxCrashes      \* bound on crashes of the server

VARIABLES maxTotal, maxPerIP, total, perIP, slot, key,            \* the limiter
          pc, name, box, ready, produced, copied, result, faults, \* the executions
          at,             \* where each handler is
          client,         \* the address extractClientIP found
          reply,          \* the answer sent
          db,             \* container_records
          crashes

limiter == <<maxTotal, maxPerIP, total, perIP, slot, key>>
sandbox == <<pc, name, box, ready, produced, copied, result, faults>>
vars == <<limiter, sandbox, at, client, reply, db, crashes>>

L == INSTANCE ConcurrencyLimiter WITH Calls <- Requests
S == INSTANCE Sandbox WITH Execs <- Requests

ASSUME ServiceAssumption == /\ NoIP \notin IPs
                            /\ MaxTotals \subseteq Int
                            /\ MaxPerIPs \subseteq Int
                            /\ MaxOut \in Nat
                            /\ Cap \in Nat
                            /\ S!Nobody \notin Requests
                            /\ MaxCrashes \in Nat

Init == /\ L!Init
        /\ S!Init
        /\ at = [r \in Requests |-> "idle"]
        /\ client = [r \in Requests |-> NoIP]
        /\ reply = [r \in Requests |-> "none"]
        /\ db = {}
        /\ crashes = 0

Goto(r, from, to) == at[r] = from /\ at' = [at EXCEPT ![r] = to]
Reply(r, answer) == reply' = [reply EXCEPT ![r] = answer]

-----------------------------------------------------------------------------
(* The handler *)

\* The middleware turns the request away or lets it in; see RateLimiter for
\* when it does which.
Arrive(r) == /\ \E ip \in IPs : client' = [client EXCEPT ![r] = ip]
             /\ \/ Goto(r, "idle", "handler") /\ UNCHANGED reply
                \/ Goto(r, "idle", "done") /\ Reply(r, "429_rate")
             /\ UNCHANGED <<limiter, sandbox, db, crashes>>

RejectEmpty(r) == /\ Goto(r, "handler", "done")
                  /\ Reply(r, "400_empty")
                  /\ UNCHANGED <<limiter, sandbox, client, db, crashes>>

\* Mutant of Acquire: release() for defer release(), the slot is given back
\* before the execution begins.
Acquire_NotKept(r) == /\ ~L!TotalFull
                      /\ ~L!IPFull(client[r])
                      /\ slot' = [slot EXCEPT ![r] = "released"]
                      /\ Goto(r, "handler", "exec")
                      /\ UNCHANGED <<maxTotal, maxPerIP, total, perIP, key,
                                     sandbox, client, reply, db, crashes>>

Acquire(r) == /\ at[r] = "handler"
              /\ L!TryAcquire(r, client[r])
              /\ IF slot'[r] = "held"
                   THEN Goto(r, "handler", "exec") /\ UNCHANGED reply
                   ELSE Goto(r, "handler", "done") /\ Reply(r, "429_busy")
              /\ UNCHANGED <<sandbox, client, db, crashes>>

Execute(r) == /\ at[r] = "exec"
              /\ S!Step(r)
              /\ at' = [at EXCEPT ![r] = IF pc'[r] = "returned" THEN "save" ELSE @]
              /\ UNCHANGED <<limiter, client, reply, db, crashes>>

\* Mutants of RecordOf: the address, the error is not filled in.
RecordOf_NoAddress(r) == [req |-> r, ip |-> NoIP, err |-> result[r].err]
RecordOf_NoError(r) == [req |-> r, ip |-> client[r], err |-> "none"]

RecordOf(r) == [req |-> r, ip |-> client[r], err |-> result[r].err]

\* Mutant of Save: a failed execution is not stored.
Save_OnSuccess(r) == /\ Goto(r, "save", "reply")
                     /\ db' = IF result[r].err = "none" THEN db \cup {RecordOf(r)} ELSE db
                     /\ UNCHANGED <<limiter, sandbox, client, reply, crashes>>

\* A record that cannot be stored is logged and otherwise forgotten.
Save(r) == /\ Goto(r, "save", "reply")
           /\ \/ db' = db \cup {RecordOf(r)}
              \/ S!CanFail("save") /\ UNCHANGED db
           /\ UNCHANGED <<limiter, sandbox, client, reply, crashes>>

AnswerFor(err) == CASE err = "none"  -> "200"
                    [] err = "limit" -> "400_limit"
                    [] OTHER         -> "500"

\* Mutant of Respond: the error path returns without the deferred release.
Respond_ErrorReturns(r) ==
  /\ Goto(r, "reply", IF result[r].err = "none" THEN "release" ELSE "done")
  /\ Reply(r, AnswerFor(result[r].err))
  /\ UNCHANGED <<limiter, sandbox, client, db, crashes>>

Respond(r) == /\ Goto(r, "reply", "release")
              /\ Reply(r, AnswerFor(result[r].err))
              /\ UNCHANGED <<limiter, sandbox, client, db, crashes>>

\* The deferred release, and the goroutine is gone with what it knew of the
\* execution.
Leave(r) == /\ Goto(r, "release", "done")
            /\ L!Release(r)
            /\ S!Forget(r)
            /\ UNCHANGED <<client, reply, db, crashes>>

Handler(r) == \/ RejectEmpty(r) \/ Acquire(r) \/ Execute(r)
              \/ Save(r) \/ Respond(r) \/ Leave(r)

-----------------------------------------------------------------------------
(* containerd, and the server as a process *)

Containerd ==
  /\ \/ \E r \in Requests : S!Deliver(r) \/ \E s \in Streams : S!Write(r, s) \/ S!Copy(r, s)
     \/ \E i \in DOMAIN box : S!Exit(i) \/ S!DieOfKill(i)
  /\ UNCHANGED <<limiter, at, client, reply, db, crashes>>

InFlight(r) == at[r] \notin {"idle", "done"}

\* Every goroutine is gone, with the limiter and the deferred calls; the
\* containers stay, without an owner.  Nothing looks for them at the start.
Crash == /\ crashes < MaxCrashes
         /\ \E r \in Requests : InFlight(r)
         /\ crashes' = crashes + 1
         /\ at' = [r \in Requests |-> IF InFlight(r) THEN "done" ELSE at[r]]
         /\ total' = 0
         /\ perIP' = << >>
         /\ slot' = [r \in Requests |-> IF slot[r] = "held" THEN "released" ELSE slot[r]]
         /\ pc' = [r \in Requests |-> "idle"]
         /\ name' = [r \in Requests |-> S!NoId]
         /\ ready' = [r \in Requests |-> FALSE]
         /\ produced' = [r \in Requests |-> S!Nothing]
         /\ copied' = [r \in Requests |-> S!Nothing]
         /\ result' = [r \in Requests |-> S!NoResult]
         /\ box' = [i \in DOMAIN box |-> [box[i] EXCEPT !.owner = S!Nobody]]
         /\ UNCHANGED <<maxTotal, maxPerIP, key, faults, client, reply, db>>

Next == \/ \E r \in Requests : Arrive(r) \/ Handler(r)
        \/ Containerd
        \/ Crash

\* A handler that has a request keeps running, its timers expire, output is
\* copied, SIGKILL works and exits are reported.  Nothing makes a program end
\* by itself or obey SIGTERM, and no client has to send a request.
Fairness ==
  /\ \A r \in Requests : /\ WF_vars(Handler(r))
                         /\ WF_vars(S!Deliver(r) /\ Containerd)
                         /\ \A s \in Streams : WF_vars(S!Copy(r, s) /\ Containerd)
  /\ \A i \in Ids : WF_vars(i \in DOMAIN box /\ S!DieOfKill(i) /\ Containerd)

Spec == Init /\ [][Next]_vars
FairSpec == Spec /\ Fairness

-----------------------------------------------------------------------------
(* Properties *)

Answers == {"none", "429_rate", "400_empty", "429_busy", "200", "400_limit", "500"}

\* Types of the variables this module adds, and those of its parts.
TypeOK == /\ L!TypeOK
          /\ S!TypeOK
          /\ at \in [Requests -> {"idle", "handler", "exec", "save", "reply", "release", "done"}]
          /\ client \in [Requests -> IPs \cup {NoIP}]
          /\ reply \in [Requests -> Answers]
          /\ db \subseteq [req : Requests, ip : IPs, err : S!Errors]
          /\ crashes \in 0 .. MaxCrashes

RunningBoxes == {i \in DOMAIN box : box[i].task = "running"}
RunningFor(ip) == {i \in RunningBoxes : \E r \in Requests : box[i].owner = r /\ client[r] = ip}

\* The point of the limiter: the programs that really run in containerd, not
\* the slots, stay within the limits, in total and per address, whichever
\* calls fail, because a slot is kept until the program has stopped (the
\* deferred release runs after execInKata; main.go:65-102).  Not so if an exit
\* stream breaks: the handler then leaves while its program runs.
RunningWithinLimits == ~S!CanFail("stream") =>
  /\ maxTotal > 0 => Cardinality(RunningBoxes) <= maxTotal
  /\ maxPerIP > 0 => \A ip \in IPs : Cardinality(RunningFor(ip)) <= maxPerIP

\* A container that can be thrown away exists only while the request that
\* created it holds a slot, and one whose program runs does so even if the
\* deferred deletes fail: it never occupies the host without counting against
\* the limits (README.md:3 "Everything is thrown away after the run").
ContainersHoldSlots == \A i \in DOMAIN box :
  \/ faults \cap S!LateFaults = {}
  \/ box[i].task = "running" /\ ~S!CanFail("stream")
  => \E r \in Requests : box[i].owner = r /\ slot[r] = "held"

\* The history and the answers tell the same story, across crashes and saves
\* that fail: a request has at most one record, with its own address, whose
\* outcome is the one answered; a request turned away by either limiter has
\* none (main.go:102-130).
RecordsTrue == \A d \in db : /\ d.ip = client[d.req]
                             /\ reply[d.req] \in {"none", AnswerFor(d.err)}
                             /\ \A c \in db : c.req = d.req => c = d

\* What a crash leaves in containerd stays there for good: the ids are read
\* from the clock, and a request of the next process that chooses one of them
\* is refused, without deleting, signalling or taking over the container
\* (the deferred Delete is set up after the error check, compileit.go:364-374).
LeftBehind == [][\A i \in DOMAIN box : box[i].owner = S!Nobody =>
                   /\ i \in DOMAIN box'
                   /\ box'[i].owner = S!Nobody
                   /\ box'[i].signal = box[i].signal]_vars

\* Once every handler is done the limiter is as it was made: no path through
\* the handler and no failing step of the execution keeps a slot.
IdleMeansFree == (\A r \in Requests : ~InFlight(r)) => total = 0 /\ DOMAIN perIP = {}

\* Every request that reaches the handler is answered and gives its slot back,
\* whatever the program it carries does, unless the server dies or a SIGKILL
\* may fail.
EveryRequestServed == \A r \in Requests :
  at[r] = "handler" /\ ~S!CanFail("kill")
     ~> /\ at[r] = "done"
        /\ slot[r] # "held"
        /\ reply[r] # "none" \/ crashes > 0

\* README.md:11 "Each execution now stores the originating client IP": an
\* execution that is answered has a record with its client's address, stored
\* before the answer was sent, unless the insert failed.
EveryExecutionStored == ~S!CanFail("save") => \A r \in Requests :
  reply[r] \in {"200", "400_limit", "500"} => \E d \in db : d.req = r /\ d.ip = client[r]
=============================================================================
