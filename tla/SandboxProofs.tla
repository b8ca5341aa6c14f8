---------------------------- MODULE SandboxProofs ----------------------------
(***************************************************************************)
(* Proofs about Sandbox, for any number of executions, container ids and   *)
(* output streams, and whichever calls fail: what an execution leaves      *)
(* behind, whose containers are deleted, and that no program runs          *)
(* unattended.                                                             *)
(*                                                                         *)
(* The invariant speaks of one execution at a time.  A step of one         *)
(* execution leaves the container of every other one alone, because no     *)
(* two own the same (Ownership), so only its own part has to be shown      *)
(* again (Frame).                                                          *)
(***************************************************************************)
EXTENDS Sandbox, TLAPS

BoxType == [task : {"none", "created", "running", "stopped"},
            signal : {"none", "term", "kill"},
            status : Statuses, owner : Execs \cup {Nobody}]

Typed == /\ pc \in [Execs -> Steps]
         /\ name \in [Execs -> Ids \cup {NoId}]
         /\ DOMAIN box \subseteq Ids
         /\ \A i \in DOMAIN box : box[i] \in BoxType
         /\ ready \in [Execs -> BOOLEAN]
         /\ result \in [Execs -> [err : Errors, id : Ids \cup {NoId},
                                  out : [Streams -> 0 .. Cap], status : Statuses]]

\* A container belongs to the execution that still knows its name.
Ownership == \A i \in DOMAIN box : box[i].owner # Nobody => name[box[i].owner] = i

Mine(e) == name[e] \in DOMAIN box /\ box[name[e]].owner = e

Busy == {"newtask", "wait", "start", "run", "term", "kill", "deltask", "delbox"}

\* The container exists from its creation to the deferred delete.
Held(e) == /\ pc[e] = "create" => name[e] \in Ids
           /\ pc[e] \in Busy => Mine(e)
           /\ Mine(e) => pc[e] \in Busy \cup {"returned"}

\* The task's life, by the step of execInKata.
TaskFits(e, b) ==
  /\ pc[e] = "newtask" => b.task = "none"
  /\ pc[e] \in {"wait", "start"} => b.task = "created"
  /\ pc[e] \in {"run", "term", "kill"} => b.task \in {"running", "stopped"}
  /\ pc[e] \in {"newtask", "wait", "start"} => b.status = "none"
  /\ pc[e] \in {"run", "term", "kill"} /\ b.status # "none" => b.task = "stopped"

RunErrors == {"none", "term", "kill"}

\* Why a task or a container may survive its deferred delete.
Explained(e, b) ==
  /\ pc[e] = "deltask" => \/ result[e].err \in {"wait", "start"}
                          \/ /\ result[e].err \in RunErrors
                             /\ result[e].status = "none" \/ b.task = "stopped"
  /\ pc[e] = "delbox" => \/ CanFail("delete")
                         \/ result[e].err \in {"wait", "start"}
                         \/ result[e].err = "newtask" /\ b.task = "none"
                         \/ /\ result[e].err \in RunErrors
                            /\ result[e].status = "none" \/ b.task = "none"
  /\ pc[e] = "returned" => \/ CanFail("delete")
                           \/ result[e].err \in {"wait", "start"}
                           \/ result[e].err \in RunErrors /\ result[e].status = "none"

NoLate == faults \cap LateFaults = {}

\* A running program is waited for, and its exit is what the wait reports.
Attended(e, b) == ~CanFail("stream") => /\ Listening(e) /\ ready[e] => b.task = "stopped"
                                        /\ b.task = "running" => Listening(e)

\* Without late faults nothing survives.
Clean(e, b) == NoLate => /\ pc[e] = "deltask" => b.task = "stopped"
                         /\ pc[e] = "delbox" => b.task = "none"
                         /\ pc[e] # "returned"

\* What is claimed of the container b of execution e.
Fate(e, b) == TaskFits(e, b) /\ Explained(e, b) /\ Attended(e, b) /\ Clean(e, b)

\* An exit is reported only once there is a task to wait for.
Fresh(e) == pc[e] \in {"idle", "create", "newtask", "wait", "start"} => ~ready[e]

Local(e) == /\ Held(e)
            /\ Mine(e) => Fate(e, box[name[e]])
            /\ Fresh(e)

SandboxInv == Typed /\ Ownership /\ \A e \in Execs : Local(e)

LEMMA LateNames == NoLate => /\ ~CanFail("wait") /\ ~CanFail("start")
                             /\ ~CanFail("stream") /\ ~CanFail("delete")
BY DEF NoLate, LateFaults, CanFail

LEMMA InitInv == Init => SandboxInv
<1> SUFFICES ASSUME Init PROVE SandboxInv
    OBVIOUS
<1>1. DOMAIN box = {}
      BY DEF Init
<1>2. NoResult \in [err : Errors, id : Ids \cup {NoId},
                    out : [Streams -> 0 .. Cap], status : Statuses]
      BY SandboxAssumption DEF NoResult, SandboxAssumption, Errors, Statuses, Nothing
<1>3. Typed
      BY <1>1, <1>2 DEF Init, Typed, Steps
<1>4. \A e \in Execs : pc[e] = "idle" /\ ~Mine(e)
      BY <1>1 DEF Init, Mine
<1>5. \A e \in Execs : Local(e)
      BY <1>4 DEF Init, Local, Held, Busy, Fresh, NoResult
<1> QED BY <1>1, <1>3, <1>5 DEF SandboxInv, Ownership

\* Frame: what a step does not touch of an execution keeps its part.
LEMMA Frame == ASSUME NEW e \in Execs, Local(e),
                      pc'[e] = pc[e], ready'[e] = ready[e], result'[e] = result[e],
                      name'[e] = name[e], faults' = faults,
                      Mine(e)' <=> Mine(e), Mine(e) => box'[name[e]] = box[name[e]]
               PROVE  Local(e)'
<1>1. Held(e)' /\ Fresh(e)'
      BY DEF Local, Held, Fresh
<1>2. ASSUME Mine(e)' PROVE Fate(e, box[name[e]])'
  <2> DEFINE b == box[name[e]]
  <2>1. Mine(e) /\ Fate(e, b)
        BY <1>2 DEF Local
  <2>2. b' = b
        BY <2>1
  <2> HIDE DEF b
  <2>3. (NoLate' <=> NoLate) /\ \A step : CanFail(step)' <=> CanFail(step)
        BY DEF NoLate, CanFail
  <2>4. TaskFits(e, b)' /\ Explained(e, b)'
        BY <2>1, <2>2, <2>3 DEF Fate, TaskFits, Explained
  <2>5. Attended(e, b)' /\ Clean(e, b)'
        BY <2>1, <2>2, <2>3 DEF Fate, Attended, Clean, Listening
  <2> QED BY <2>4, <2>5 DEF Fate, b
<1> QED BY <1>1, <1>2 DEF Local

ResultType == [err : Errors, id : Ids \cup {NoId}, out : [Streams -> 0 .. Cap],
               status : Statuses]

\* A step of e alone: whatever it does to its own place and result.
Alone(e) == /\ pc' \in [Execs -> Steps] /\ \A x \in Execs \ {e} : pc'[x] = pc[x]
            /\ ready' \in [Execs -> BOOLEAN] /\ \A x \in Execs \ {e} : ready'[x] = ready[x]
            /\ result' \in [Execs -> ResultType]
            /\ \A x \in Execs \ {e} : result'[x] = result[x]
            /\ faults' = faults

\* e changes its own container, and no other, to b.
Changes(e, b) == /\ b \in BoxType /\ b.owner = e
                 /\ Mine(e)
                 /\ DOMAIN box' = DOMAIN box
                 /\ box'[name[e]] = b
                 /\ \A i \in DOMAIN box \ {name[e]} : box'[i] = box[i]
                 /\ name' = name

LEMMA ChangesOwn ==
  ASSUME SandboxInv, NEW e \in Execs, NEW b, Changes(e, b)
  PROVE  /\ DOMAIN box' = DOMAIN box
         /\ \A i \in DOMAIN box' : box'[i] \in BoxType
         /\ Ownership'
         /\ Mine(e)' /\ box'[name'[e]] = b
         /\ \A x \in Execs \ {e} : /\ Mine(x)' <=> Mine(x)
                                   /\ Mine(x) => box'[name[x]] = box[name[x]]
<1>1. /\ DOMAIN box' = DOMAIN box
      /\ box'[name[e]] = b
      /\ \A i \in DOMAIN box \ {name[e]} : box'[i] = box[i]
      BY DEF Changes
<1>2. \A i \in DOMAIN box : box'[i].owner = box[i].owner
      BY <1>1 DEF Changes, Mine
<1>3. \A i \in DOMAIN box' : box'[i] \in BoxType
      BY <1>1 DEF Changes, SandboxInv, Typed
<1>4. Ownership'
      BY <1>1, <1>2 DEF Ownership, SandboxInv, Changes
<1>5. Mine(e)' /\ box'[name'[e]] = b
      BY <1>1 DEF Mine, Changes
<1>6. ASSUME NEW x \in Execs \ {e}
      PROVE  (Mine(x)' <=> Mine(x)) /\ (Mine(x) => box'[name[x]] = box[name[x]])
  <2>1. Mine(x)' <=> Mine(x)
        BY <1>1, <1>2 DEF Mine, Changes
  <2>2. Mine(x) => name[x] # name[e]
        BY DEF Mine, Changes
  <2>3. Mine(x) => name[x] \in DOMAIN box
        BY DEF Mine
  <2> QED BY <1>1, <2>1, <2>2, <2>3
<1> QED BY <1>1, <1>3, <1>4, <1>5, <1>6

\* What remains to show of a step of e that changes its own container, or no
\* container, is e's own part.
LEMMA OwnTurn ==
  ASSUME SandboxInv, NEW e \in Execs, Alone(e), NEW b, Changes(e, b), Held(e)',
         Fate(e, b)', Fresh(e)'
  PROVE  SandboxInv'
<1>1. /\ DOMAIN box' = DOMAIN box
      /\ \A i \in DOMAIN box' : box'[i] \in BoxType
      /\ Ownership'
      /\ Mine(e)' /\ box'[name'[e]] = b
      /\ \A x \in Execs \ {e} : /\ Mine(x)' <=> Mine(x)
                                /\ Mine(x) => box'[name[x]] = box[name[x]]
      BY ChangesOwn
<1>2. Typed'
      BY <1>1 DEF SandboxInv, Typed, Alone, Changes, ResultType
<1>3. ASSUME NEW x \in Execs \ {e} PROVE Local(x)'
      BY <1>1, Frame DEF SandboxInv, Alone, Changes
<1>4. Local(e)'
      BY <1>1 DEF Local
<1> QED BY <1>1, <1>2, <1>3, <1>4 DEF SandboxInv

LEMMA BoxlessTurn ==
  ASSUME SandboxInv, NEW e \in Execs, Alone(e), box' = box,
         name' \in [Execs -> Ids \cup {NoId}], \A x \in Execs \ {e} : name'[x] = name[x],
         ~Mine(e), ~Mine(e)', Held(e)', Fresh(e)'
  PROVE  SandboxInv'
<1>1. Typed'
      BY DEF SandboxInv, Typed, Alone, ResultType
<1>2. Ownership'
  <2> SUFFICES ASSUME NEW i \in DOMAIN box, box[i].owner # Nobody
               PROVE  name'[box[i].owner] = i
      BY DEF Ownership
  <2>1. box[i].owner \in Execs /\ name[box[i].owner] = i
        BY DEF SandboxInv, Typed, Ownership, BoxType
  <2>2. box[i].owner # e
        BY <2>1 DEF Mine
  <2> QED BY <2>1, <2>2
<1>3. ASSUME NEW x \in Execs \ {e} PROVE Local(x)'
  <2>1. Mine(x)' <=> Mine(x)
        BY DEF Mine
  <2> QED BY <2>1, Frame DEF SandboxInv, Alone
<1>4. Local(e)'
      BY DEF Local
<1> QED BY <1>1, <1>2, <1>3, <1>4 DEF SandboxInv

LEMMA SetBoxChanges ==
  ASSUME NEW e \in Execs, Mine(e), NEW b \in BoxType, b.owner = e,
         box' = SetBox(name[e], b), name' = name
  PROVE  Changes(e, b)
BY DEF Changes, SetBox, Mine

LEMMA KeepingChanges ==
  ASSUME SandboxInv, NEW e \in Execs, Mine(e), NEW b, b = box[name[e]], box' = box, name' = name
  PROVE  Changes(e, b)
BY DEF Changes, Mine, SandboxInv, Typed

LEMMA Kinds == /\ \A e \in Execs : e # Nobody
               /\ Busy \subseteq Steps
               /\ {"idle", "create", "returned"} \subseteq Steps
BY SandboxAssumption DEF SandboxAssumption, Busy, Steps

\* A failure has a well-formed result.
LEMMA FailedType == ASSUME SandboxInv, NEW e \in Execs, NEW err \in Errors
                    PROVE  Failed(e, err) \in ResultType /\ Failed(e, err).err = err
                             /\ Failed(e, err).status = "none"
<1>1. name[e] \in Ids \cup {NoId}
      BY DEF SandboxInv, Typed
<1>2. Nothing \in [Streams -> 0 .. Cap] /\ "none" \in Statuses
      BY SandboxAssumption DEF Nothing, SandboxAssumption, Statuses
<1> QED BY <1>1, <1>2 DEF Failed, ResultType

\* Where an execution has no container.
LEMMA NotYetMine == ASSUME SandboxInv, NEW e \in Execs, pc[e] \in {"idle", "create"}
                    PROVE  ~Mine(e) /\ Fresh(e)
BY DEF SandboxInv, Local, Held, Busy

LEMMA BusyMine == ASSUME SandboxInv, NEW e \in Execs, pc[e] \in Busy
                  PROVE  /\ Mine(e) /\ Fresh(e)
                         /\ Fate(e, box[name[e]])
                         /\ box[name[e]] \in BoxType
BY DEF SandboxInv, Local, Held, Typed, Mine

LEMMA MovesAlone ==
  ASSUME SandboxInv, NEW e \in Execs, NEW to \in Steps, pc' = [pc EXCEPT ![e] = to],
         UNCHANGED <<ready, faults>>,
         \/ result' = result
         \/ \E r \in ResultType : result' = [result EXCEPT ![e] = r]
  PROVE  Alone(e) /\ pc'[e] = to /\ ready'[e] = ready[e]
<1>1. result \in [Execs -> ResultType] /\ pc \in [Execs -> Steps]
      BY DEF SandboxInv, Typed, ResultType
<1>2. result' \in [Execs -> ResultType] /\ \A x \in Execs \ {e} : result'[x] = result[x]
      BY <1>1
<1>3. pc' \in [Execs -> Steps] /\ pc'[e] = to /\ \A x \in Execs \ {e} : pc'[x] = pc[x]
      BY <1>1
<1> QED BY <1>2, <1>3 DEF Alone, SandboxInv, Typed

LEMMA PrepareKeeps == ASSUME SandboxInv, NEW e \in Execs, Prepare(e) PROVE SandboxInv'
<1> USE Kinds
<1>0. pc[e] = "idle" /\ ~Mine(e) /\ Fresh(e)
      BY NotYetMine DEF Prepare, Goto, ReturnVia
<1>1. CASE Goto(e, "idle", "create") /\ (\E i \in Ids : name' = [name EXCEPT ![e] = i])
             /\ UNCHANGED <<box, ready, produced, copied, result, faults>>
  <2>1. Alone(e) /\ pc'[e] = "create" /\ ready'[e] = ready[e]
        BY <1>1, MovesAlone DEF Goto
  <2>2. PICK i \in Ids : name' = [name EXCEPT ![e] = i]
        BY <1>1
  <2>3. name' \in [Execs -> Ids \cup {NoId}] /\ name'[e] = i
        /\ \A x \in Execs \ {e} : name'[x] = name[x]
        BY <2>2 DEF SandboxInv, Typed
  <2>4. ASSUME Mine(e)' PROVE FALSE
    <3>1. i \in DOMAIN box /\ box[i].owner = e
          BY <1>1, <2>3, <2>4 DEF Mine
    <3>2. name[e] = i
          BY <3>1 DEF SandboxInv, Ownership
    <3> QED BY <1>0, <3>1, <3>2 DEF Mine
  <2>5. Held(e)' /\ Fresh(e)'
        BY <1>0, <1>1, <2>1, <2>3, <2>4 DEF Held, Fresh, Busy
  <2> QED BY <1>0, <1>1, <2>1, <2>3, <2>4, <2>5, BoxlessTurn
<1>2. ASSUME NEW err \in {"limit", "setup"},
             ReturnVia(e, "idle", "returned", Failed(e, err)),
             UNCHANGED <<name, box, ready, produced, copied, faults>>
      PROVE  SandboxInv'
  <2>1. Failed(e, err) \in ResultType /\ Failed(e, err).err = err
        BY FailedType DEF Errors
  <2>2. Alone(e) /\ pc'[e] = "returned" /\ ready'[e] = ready[e]
        BY <1>2, <2>1, MovesAlone DEF Goto, ReturnVia
  <2>3. result'[e].err = err
        BY <1>2, <2>1 DEF ReturnVia, SandboxInv, Typed
  <2>4. ~Mine(e)' /\ Held(e)' /\ Fresh(e)'
        BY <1>0, <1>2, <2>2, <2>3 DEF Mine, Held, Fresh, Busy
  <2>5. name' \in [Execs -> Ids \cup {NoId}]
        BY <1>2 DEF SandboxInv, Typed
  <2> QED BY <1>0, <1>2, <2>2, <2>4, <2>5, BoxlessTurn
<1> QED BY <1>1, <1>2 DEF Prepare

\* The new container belongs to its creator and to nobody else.
LEMMA NewContainerKeeps == ASSUME SandboxInv, NEW e \in Execs, NewContainer(e)
                           PROVE  SandboxInv'
<1> USE Kinds
<1>0. pc[e] = "create" /\ ~Mine(e) /\ Fresh(e) /\ name' = name
      BY NotYetMine DEF NewContainer, Goto, ReturnVia, program
<1>1. CASE /\ Goto(e, "create", "newtask") /\ name[e] \notin DOMAIN box
           /\ box' = SetBox(name[e], [task |-> "none", signal |-> "none",
                                      status |-> "none", owner |-> e])
           /\ UNCHANGED <<program, ready, result>>
  <2> PICK b : b = [task |-> "none", signal |-> "none", status |-> "none", owner |-> e]
      OBVIOUS
  <2>1. b \in BoxType /\ b.owner = e /\ b.task = "none" /\ b.status = "none" /\ b.signal = "none"
        BY DEF BoxType, Statuses
  <2>2. Alone(e) /\ pc'[e] = "newtask" /\ ready'[e] = ready[e]
        BY <1>1, MovesAlone DEF Goto, program, Busy
  <2>3. /\ name[e] \notin DOMAIN box
        /\ DOMAIN box' = DOMAIN box \cup {name[e]}
        /\ box'[name[e]] = b
        /\ \A i \in DOMAIN box : box'[i] = box[i]
        BY <1>1 DEF SetBox
  <2>4. name[e] \in Ids
        BY <1>0 DEF SandboxInv, Local, Held
  <2>5. Typed'
        BY <1>0, <2>1, <2>2, <2>3, <2>4 DEF SandboxInv, Typed, Alone, ResultType
  <2>6. Ownership'
        BY <1>0, <2>1, <2>2, <2>3 DEF SandboxInv, Ownership
  <2>7. ASSUME NEW x \in Execs \ {e} PROVE Local(x)'
    <3>1. (Mine(x)' <=> Mine(x)) /\ (Mine(x) => box'[name[x]] = box[name[x]])
          BY <1>0, <2>1, <2>3 DEF Mine
    <3> QED BY <1>0, <2>2, <3>1, Frame DEF SandboxInv, Alone
  <2>8. Local(e)'
    <3>1. Mine(e)' /\ box'[name'[e]] = b
          BY <1>0, <2>1, <2>3 DEF Mine
    <3>2. Held(e)' /\ Fresh(e)'
          BY <1>0, <1>1, <2>2, <3>1 DEF Held, Fresh, Busy
    <3>3. Fate(e, b)'
          BY <2>1, <2>2 DEF Fate, TaskFits, Explained, Attended, Clean, Listening
    <3> QED BY <3>1, <3>2, <3>3 DEF Local
  <2> QED BY <2>5, <2>6, <2>7, <2>8 DEF SandboxInv
<1>2. CASE /\ ReturnVia(e, "create", "returned", Failed(e, "create"))
           /\ UNCHANGED <<program, box, ready>>
  <2>1. Failed(e, "create") \in ResultType /\ Failed(e, "create").err = "create"
        BY FailedType DEF Errors
  <2>2. Alone(e) /\ pc'[e] = "returned" /\ ready'[e] = ready[e]
        BY <1>2, <2>1, MovesAlone DEF Goto, ReturnVia, program
  <2>3. result'[e].err = "create"
        BY <1>2, <2>1 DEF ReturnVia, SandboxInv, Typed
  <2>4. ~Mine(e)' /\ Held(e)' /\ Fresh(e)'
        BY <1>0, <1>2, <2>2, <2>3 DEF Mine, Held, Fresh, Busy
  <2>5. name' \in [Execs -> Ids \cup {NoId}]
        BY <1>0 DEF SandboxInv, Typed
  <2> QED BY <1>0, <1>2, <2>2, <2>4, <2>5, BoxlessTurn
<1> QED BY <1>1, <1>2 DEF NewContainer

LEMMA SetTaskChanges ==
  ASSUME SandboxInv, NEW e \in Execs, Mine(e), name' = name,
         NEW t \in {"none", "created", "running", "stopped"}, box' = SetTask(e, t)
  PROVE  \E b : /\ Changes(e, b)
                /\ b.task = t /\ b.status = box[name[e]].status
<1>1. box[name[e]] \in BoxType /\ box[name[e]].owner = e
      BY DEF SandboxInv, Typed, Mine
<1> PICK b : b = [box[name[e]] EXCEPT !.task = t]
    OBVIOUS
<1>2. b \in BoxType /\ b.owner = e /\ b.task = t /\ b.status = box[name[e]].status
      BY <1>1 DEF BoxType
<1>3. Changes(e, b)
      BY <1>2, SetBoxChanges DEF SetTask
<1> QED BY <1>2, <1>3

LEMMA KillChanges ==
  ASSUME SandboxInv, NEW e \in Execs, Mine(e), name' = name,
         NEW sig \in {"term", "kill"}, Kill(e, sig)
  PROVE  \E b : /\ Changes(e, b)
                /\ b.task = box[name[e]].task /\ b.status = box[name[e]].status
<1>1. box[name[e]] \in BoxType /\ box[name[e]].owner = e
      BY DEF SandboxInv, Typed, Mine
<1>2. CASE box' = SetBox(name[e], [box[name[e]] EXCEPT !.signal = sig])
  <2> PICK b : b = [box[name[e]] EXCEPT !.signal = sig]
      OBVIOUS
  <2>1. /\ b \in BoxType /\ b.owner = e /\ b.signal = sig
        /\ b.task = box[name[e]].task /\ b.status = box[name[e]].status
        BY <1>1 DEF BoxType
  <2>2. Changes(e, b)
        BY <1>2, <2>1, SetBoxChanges
  <2> QED BY <2>1, <2>2
<1>3. CASE box' = box
  <2> PICK b : b = box[name[e]]
      OBVIOUS
  <2>1. Changes(e, b)
        BY <1>3, KeepingChanges
  <2> QED BY <2>1
<1> QED BY <1>2, <1>3 DEF Kill

\* A step of a busy execution that stays busy: only the fit of its task and
\* the reason it may survive are left to show.
LEMMA BusyTurn ==
  ASSUME SandboxInv, NEW e \in Execs, Alone(e), pc'[e] \in Busy, NEW b, Changes(e, b),
         Fate(e, b)', Fresh(e)'
  PROVE  SandboxInv'
<1>1. Mine(e)'
      BY ChangesOwn
<1>2. Held(e)'
      BY <1>1 DEF Held, Busy
<1> QED BY <1>2, OwnTurn

LEMMA NewTaskKeeps == ASSUME SandboxInv, NEW e \in Execs, NewTask(e) PROVE SandboxInv'
<1> USE Kinds
<1>0. /\ pc[e] = "newtask" /\ name' = name
      /\ Mine(e) /\ Fate(e, box[name[e]])
      /\ Fresh(e)
      BY BusyMine DEF NewTask, Goto, ReturnVia, program, Busy
<1>1. CASE Goto(e, "newtask", "wait") /\ box' = SetTask(e, "created")
             /\ UNCHANGED <<program, ready, result>>
  <2>1. Alone(e) /\ pc'[e] = "wait" /\ ready'[e] = ready[e]
        BY <1>1, MovesAlone DEF Goto, program, Busy
  <2> PICK b : /\ Changes(e, b) /\ b.task = "created"
               /\ b.status = box[name[e]].status
      BY <1>0, <1>1, SetTaskChanges
  <2>2. Fate(e, b)' /\ Fresh(e)'
        BY <1>0, <1>1, <2>1 DEF Fate, TaskFits, Explained, Attended, Clean, Listening, Fresh
  <2> QED BY <2>1, <2>2, BusyTurn DEF Busy
<1>2. CASE ReturnVia(e, "newtask", "delbox", Failed(e, "newtask"))
             /\ UNCHANGED <<program, box, ready>>
  <2>1. Failed(e, "newtask") \in ResultType /\ Failed(e, "newtask").err = "newtask"
        BY FailedType DEF Errors
  <2>2. Alone(e) /\ pc'[e] = "delbox" /\ ready'[e] = ready[e]
        BY <1>2, <2>1, MovesAlone DEF Goto, ReturnVia, program, Busy
  <2>3. result'[e].err = "newtask"
        BY <1>2, <2>1 DEF ReturnVia, SandboxInv, Typed
  <2> PICK b : b = box[name[e]] /\ Changes(e, b)
      BY <1>0, <1>2, KeepingChanges
  <2>4. Fate(e, b)' /\ Fresh(e)'
        BY <1>0, <2>2, <2>3 DEF Fate, TaskFits, Explained, Attended, Clean, Listening, Fresh
  <2> QED BY <2>2, <2>4, BusyTurn DEF Busy
<1> QED BY <1>1, <1>2 DEF NewTask

LEMMA WaitKeeps == ASSUME SandboxInv, NEW e \in Execs, Wait(e) PROVE SandboxInv'
<1> USE Kinds
<1>0. /\ pc[e] = "wait" /\ name' = name /\ box' = box
      /\ Mine(e) /\ Fate(e, box[name[e]])
      /\ Fresh(e)
      BY BusyMine DEF Wait, Goto, ReturnVia, program, Busy
<1> PICK b : b = box[name[e]] /\ Changes(e, b)
    BY <1>0, KeepingChanges
<1>1. CASE Goto(e, "wait", "start") /\ UNCHANGED <<program, box, ready, result>>
  <2>1. Alone(e) /\ pc'[e] = "start" /\ ready'[e] = ready[e]
        BY <1>1, MovesAlone DEF Goto, program, Busy
  <2>2. Fate(e, b)' /\ Fresh(e)'
        BY <1>0, <1>1, <2>1 DEF Fate, TaskFits, Explained, Attended, Clean, Listening, Fresh
  <2> QED BY <2>1, <2>2, BusyTurn DEF Busy
<1>2. CASE CanFail("wait") /\ ReturnVia(e, "wait", "deltask", Failed(e, "wait"))
             /\ UNCHANGED <<program, box, ready>>
  <2>1. Failed(e, "wait") \in ResultType /\ Failed(e, "wait").err = "wait"
        BY FailedType DEF Errors
  <2>2. Alone(e) /\ pc'[e] = "deltask" /\ ready'[e] = ready[e]
        BY <1>2, <2>1, MovesAlone DEF Goto, ReturnVia, program, Busy
  <2>3. result'[e].err = "wait"
        BY <1>2, <2>1 DEF ReturnVia, SandboxInv, Typed
  <2>4. ~NoLate'
        BY <1>2 DEF NoLate, LateFaults, CanFail, program
  <2>5. Fate(e, b)' /\ Fresh(e)'
        BY <1>0, <2>2, <2>3, <2>4 DEF Fate, TaskFits, Explained, Attended, Clean, Listening, Fresh
  <2> QED BY <2>2, <2>5, BusyTurn DEF Busy
<1> QED BY <1>1, <1>2 DEF Wait

LEMMA StartKeeps == ASSUME SandboxInv, NEW e \in Execs, Start(e) PROVE SandboxInv'
<1> USE Kinds
<1>0. /\ pc[e] = "start" /\ name' = name
      /\ Mine(e) /\ Fate(e, box[name[e]])
      /\ Fresh(e)
      BY BusyMine DEF Start, Goto, ReturnVia, program, Busy
<1>1. CASE Goto(e, "start", "run") /\ box' = SetTask(e, "running")
             /\ UNCHANGED <<program, ready, result>>
  <2>1. Alone(e) /\ pc'[e] = "run" /\ ready'[e] = ready[e]
        BY <1>1, MovesAlone DEF Goto, program, Busy
  <2> PICK b : /\ Changes(e, b) /\ b.task = "running"
               /\ b.status = box[name[e]].status
      BY <1>0, <1>1, SetTaskChanges
  <2>2. Fate(e, b)' /\ Fresh(e)'
        BY <1>0, <1>1, <2>1 DEF Fate, TaskFits, Explained, Attended, Clean, Listening, Fresh
  <2> QED BY <2>1, <2>2, BusyTurn DEF Busy
<1>2. CASE CanFail("start") /\ ReturnVia(e, "start", "deltask", Failed(e, "start"))
             /\ box' \in {box, SetTask(e, "stopped")} /\ UNCHANGED <<program, ready>>
  <2>1. Failed(e, "start") \in ResultType /\ Failed(e, "start").err = "start"
        BY FailedType DEF Errors
  <2>2. Alone(e) /\ pc'[e] = "deltask" /\ ready'[e] = ready[e]
        BY <1>2, <2>1, MovesAlone DEF Goto, ReturnVia, program, Busy
  <2>3. result'[e].err = "start"
        BY <1>2, <2>1 DEF ReturnVia, SandboxInv, Typed
  <2>4. ~NoLate'
        BY <1>2 DEF NoLate, LateFaults, CanFail, program
  <2>5. \E b : Changes(e, b) /\ b.task # "running" /\ b.status = box[name[e]].status
    <3>1. CASE box' = box
      <4> PICK b : b = box[name[e]]
          OBVIOUS
      <4> QED BY <1>0, <3>1, KeepingChanges DEF Fate, TaskFits
    <3>2. CASE box' = SetTask(e, "stopped")
          BY <1>0, <3>2, SetTaskChanges
    <3> QED BY <1>2, <3>1, <3>2
  <2> PICK b : Changes(e, b) /\ b.task # "running" /\ b.status = box[name[e]].status
      BY <2>5
  <2>6. Fate(e, b)' /\ Fresh(e)'
        BY <1>0, <2>2, <2>3, <2>4 DEF Fate, TaskFits, Explained, Attended, Clean, Listening, Fresh
  <2> QED BY <2>2, <2>6, BusyTurn DEF Busy
<1> QED BY <1>1, <1>2 DEF Start

\* The three ways to see the exit.
LEMMA FinishKeeps ==
  ASSUME SandboxInv, NEW e \in Execs,
         NEW from \in {"run", "term", "kill"}, NEW err \in RunErrors, Finish(e, from, err)
  PROVE  SandboxInv'
<1> USE Kinds
<1>0. /\ pc[e] = from /\ name' = name /\ box' = box /\ ready[e]
      /\ Mine(e) /\ Fate(e, box[name[e]])
      BY BusyMine DEF Finish, Goto, ReturnVia, program, Busy
<1> PICK out \in Collected(e) :
         ReturnVia(e, from, "deltask", [err |-> err, id |-> name[e], out |-> out,
                                        status |-> box[name[e]].status])
    BY DEF Finish
<1> PICK r : r = [err |-> err, id |-> name[e], out |-> out, status |-> box[name[e]].status]
    OBVIOUS
<1>1. r \in ResultType /\ r.err = err /\ r.status = box[name[e]].status
  <2>1. out \in [Streams -> 0 .. Cap] /\ err \in Errors
        BY DEF Collected, RunErrors, Errors
  <2>2. name[e] \in Ids \cup {NoId} /\ box[name[e]].status \in Statuses
        BY <1>0 DEF SandboxInv, Typed, Mine, BoxType
  <2> QED BY <2>1, <2>2 DEF ResultType
<1>2. pc' = [pc EXCEPT ![e] = "deltask"] /\ result' = [result EXCEPT ![e] = r]
      BY DEF ReturnVia, Goto
<1>3. Alone(e) /\ pc'[e] = "deltask" /\ ready'[e] = ready[e]
      BY <1>1, <1>2, MovesAlone DEF Finish, program, Busy
<1>4. result'[e] = r
      BY <1>2 DEF SandboxInv, Typed
<1> PICK b : b = box[name[e]] /\ Changes(e, b)
    BY <1>0, KeepingChanges
<1>5. Fresh(e)'
      BY <1>3 DEF Fresh
<1>6. TaskFits(e, b)' /\ Explained(e, b)'
      BY <1>0, <1>1, <1>3, <1>4 DEF Fate, TaskFits, Explained, RunErrors
<1>7. Attended(e, b)' /\ Clean(e, b)'
      BY <1>0, <1>3, LateNames DEF Fate, TaskFits, Attended, Clean, NoLate, CanFail, Alone, Listening
<1> QED BY <1>3, <1>5, <1>6, <1>7, BusyTurn DEF Busy, Fate

LEMMA TimerKeeps == ASSUME SandboxInv, NEW e \in Execs, TimeoutTerm(e) \/ GraceOver(e)
                    PROVE  SandboxInv'
<1> USE Kinds
<1>0. /\ pc[e] \in {"run", "term"} /\ name' = name /\ UNCHANGED <<ready, result, faults>>
      /\ Mine(e) /\ Fate(e, box[name[e]])
      BY BusyMine DEF TimeoutTerm, GraceOver, Goto, program, Busy
<1> PICK to \in {"term", "kill"} : pc' = [pc EXCEPT ![e] = to] /\ Kill(e, to)
    BY DEF TimeoutTerm, GraceOver, Goto
<1>1. Alone(e) /\ pc'[e] = to /\ ready'[e] = ready[e]
      BY <1>0, MovesAlone DEF Busy
<1> PICK b : /\ Changes(e, b)
             /\ b.task = box[name[e]].task /\ b.status = box[name[e]].status
    BY <1>0, KillChanges
<1>2. TaskFits(e, b)' /\ Explained(e, b)' /\ Fresh(e)'
      BY <1>0, <1>1 DEF Fate, TaskFits, Explained, Fresh
<1>3. Attended(e, b)' /\ Clean(e, b)'
      BY <1>0, <1>1 DEF Fate, Attended, Clean, NoLate, CanFail, Listening
<1> QED BY <1>1, <1>2, <1>3, BusyTurn DEF Busy, Fate

LEMMA DeleteTaskKeeps == ASSUME SandboxInv, NEW e \in Execs, DeleteTask(e) PROVE SandboxInv'
<1> USE Kinds
<1>0. /\ pc[e] = "deltask" /\ name' = name /\ UNCHANGED <<ready, result, faults>>
      /\ Mine(e) /\ Fate(e, box[name[e]])
      BY BusyMine DEF DeleteTask, Goto, program, Busy, SandboxInv, Local
<1>1. Alone(e) /\ pc'[e] = "delbox" /\ ready'[e] = ready[e]
      BY <1>0, MovesAlone DEF DeleteTask, Goto, Busy
<1>2. CASE TaskIs(e, "stopped") /\ box' = SetTask(e, "none")
  <2> PICK b : Changes(e, b) /\ b.task = "none" /\ b.status = box[name[e]].status
      BY <1>0, <1>2, SetTaskChanges
  <2>1. TaskFits(e, b)' /\ Explained(e, b)' /\ Fresh(e)'
        BY <1>0, <1>1 DEF Fate, TaskFits, Explained, Fresh
  <2>2. Attended(e, b)' /\ Clean(e, b)'
        BY <1>1 DEF Attended, Clean, Listening
  <2> QED BY <1>1, <2>1, <2>2, BusyTurn DEF Busy, Fate
<1>3. CASE (~TaskIs(e, "stopped") \/ CanFail("delete")) /\ box' = box
  <2> PICK b : b = box[name[e]] /\ Changes(e, b)
      BY <1>0, <1>3, KeepingChanges
  <2>1. b.task # "stopped" \/ CanFail("delete")
        BY <1>0, <1>3 DEF TaskIs, Owned, Mine
  <2>2. TaskFits(e, b)' /\ Fresh(e)'
        BY <1>0, <1>1 DEF Fate, TaskFits, Fresh
  <2>3. Explained(e, b)'
        BY <1>0, <1>1, <2>1 DEF Fate, Explained, CanFail
  <2>4. Attended(e, b)' /\ Clean(e, b)'
        BY <1>0, <1>1, <2>1, LateNames DEF Fate, Attended, Clean, NoLate, CanFail, Listening
  <2> QED BY <1>1, <2>2, <2>3, <2>4, BusyTurn DEF Busy, Fate
<1> QED BY <1>2, <1>3 DEF DeleteTask

LEMMA DeleteContainerKeeps == ASSUME SandboxInv, NEW e \in Execs, DeleteContainer(e)
                              PROVE  SandboxInv'
<1> USE Kinds
<1>0. /\ pc[e] = "delbox" /\ name' = name /\ UNCHANGED <<ready, result, faults>>
      /\ Mine(e) /\ Fate(e, box[name[e]])
      BY BusyMine DEF DeleteContainer, Goto, program, Busy, SandboxInv, Local
<1>1. Alone(e) /\ pc'[e] = "returned" /\ ready'[e] = ready[e]
      BY <1>0, MovesAlone DEF DeleteContainer, Goto
<1>2. Fresh(e)'
      BY <1>0, <1>1 DEF Fresh
<1>3. CASE (HasTask(name[e]) \/ CanFail("delete")) /\ box' = box
  <2> PICK b : b = box[name[e]] /\ Changes(e, b)
      BY <1>0, <1>3, KeepingChanges
  <2>1. b.task # "none" \/ CanFail("delete")
        BY <1>3 DEF HasTask
  <2>2. Held(e)'
        BY <1>1, ChangesOwn DEF Held, Busy
  <2>3. TaskFits(e, b)' /\ Explained(e, b)'
        BY <1>0, <1>1, <2>1 DEF Fate, TaskFits, Explained, CanFail
  <2>4. Attended(e, b)' /\ Clean(e, b)'
        BY <1>0, <1>1, <2>1, LateNames DEF Fate, Attended, Clean, NoLate, CanFail, Listening
  <2> QED BY <1>1, <1>2, <2>2, <2>3, <2>4, OwnTurn DEF Fate
<1>4. CASE box' = DropBox(name[e])
  <2>1. /\ DOMAIN box' = DOMAIN box \ {name[e]}
        /\ \A i \in DOMAIN box' : box'[i] = box[i]
        BY <1>4 DEF DropBox
  <2>2. Typed'
        BY <1>0, <1>1, <2>1 DEF SandboxInv, Typed, Alone, ResultType
  <2>3. Ownership'
        BY <1>0, <2>1 DEF SandboxInv, Ownership
  <2>4. ASSUME NEW x \in Execs \ {e} PROVE Local(x)'
    <3>1. Mine(x) => name[x] # name[e]
          BY <1>0 DEF Mine
    <3>2. (Mine(x)' <=> Mine(x)) /\ (Mine(x) => box'[name[x]] = box[name[x]])
          BY <1>0, <2>1, <3>1 DEF Mine
    <3> QED BY <1>0, <1>1, <3>2, Frame DEF SandboxInv, Alone
  <2>5. Local(e)'
    <3>1. ~Mine(e)'
          BY <1>0, <2>1 DEF Mine
    <3>2. Held(e)'
          BY <1>1, <3>1 DEF Held, Busy
    <3> QED BY <1>2, <3>1, <3>2 DEF Local
  <2> QED BY <2>2, <2>3, <2>4, <2>5 DEF SandboxInv
<1> QED BY <1>3, <1>4 DEF DeleteContainer

LEMMA StepKeeps == ASSUME SandboxInv, NEW e \in Execs, Step(e) PROVE SandboxInv'
<1>1. CASE Exited(e)
      BY <1>1, FinishKeeps DEF Exited, RunErrors
<1>2. CASE ExitedOnTerm(e)
      BY <1>2, FinishKeeps DEF ExitedOnTerm, RunErrors
<1>3. CASE ExitedOnKill(e)
      BY <1>3, FinishKeeps DEF ExitedOnKill, RunErrors
<1> QED BY <1>1, <1>2, <1>3, PrepareKeeps, NewContainerKeeps, NewTaskKeeps, WaitKeeps,
           StartKeeps, TimerKeeps, DeleteTaskKeeps, DeleteContainerKeeps DEF Step

\* The caller takes the result: what is left has no owner any more.
LEMMA ForgetKeeps == ASSUME SandboxInv, NEW e \in Execs, Forget(e) PROVE SandboxInv'
<1> USE Kinds
<1>1. /\ pc[e] = "returned" /\ pc' = [pc EXCEPT ![e] = "idle"] /\ faults' = faults
      /\ name' = [name EXCEPT ![e] = NoId] /\ ready' = [ready EXCEPT ![e] = FALSE]
      /\ result' = [result EXCEPT ![e] = NoResult]
      BY DEF Forget, Goto
<1>2. NoResult \in ResultType
  <2>1. Nothing \in [Streams -> 0 .. Cap] /\ "none" \in Statuses /\ "none" \in Errors
        BY SandboxAssumption DEF Nothing, SandboxAssumption, Statuses, Errors
  <2> QED BY <2>1 DEF NoResult, ResultType
<1>a. ~ready'[e]
      BY <1>1 DEF SandboxInv, Typed
<1>3. /\ Alone(e) /\ pc'[e] = "idle" /\ name'[e] = NoId
      /\ \A x \in Execs \ {e} : name'[x] = name[x]
      /\ name' \in [Execs -> Ids \cup {NoId}]
      BY <1>1, <1>2 DEF Alone, SandboxInv, Typed, ResultType
<1>4. /\ DOMAIN box' = DOMAIN box
      /\ \A i \in DOMAIN box : box[i].owner # e => box'[i] = box[i]
      /\ \A i \in DOMAIN box : box[i].owner = e => box'[i] = [box[i] EXCEPT !.owner = Nobody]
      BY DEF Forget
<1>5. \A i \in DOMAIN box : /\ box[i] \in BoxType /\ box'[i] \in BoxType
                            /\ box'[i].owner = IF box[i].owner = e THEN Nobody ELSE box[i].owner
  <2> SUFFICES ASSUME NEW i \in DOMAIN box
               PROVE  /\ box[i] \in BoxType /\ box'[i] \in BoxType
                      /\ box'[i].owner = IF box[i].owner = e THEN Nobody ELSE box[i].owner
      OBVIOUS
  <2>1. box[i] \in BoxType
        BY DEF SandboxInv, Typed
  <2>2. [box[i] EXCEPT !.owner = Nobody] \in BoxType
        /\ [box[i] EXCEPT !.owner = Nobody].owner = Nobody
        BY <2>1 DEF BoxType
  <2> QED BY <1>4, <2>1, <2>2
<1>6. Typed'
  <2>1. DOMAIN box' \subseteq Ids /\ \A i \in DOMAIN box' : box'[i] \in BoxType
        BY <1>4, <1>5 DEF SandboxInv, Typed
  <2> QED BY <1>3, <2>1 DEF Typed, Alone, ResultType
<1>7. Ownership'
      BY <1>3, <1>4, <1>5 DEF SandboxInv, Ownership, BoxType
<1>8. ASSUME NEW x \in Execs \ {e} PROVE Local(x)'
  <2>1. Mine(x)' <=> Mine(x)
        BY <1>3, <1>4, <1>5 DEF Mine
  <2>2. Mine(x) => box'[name[x]] = box[name[x]]
        BY <1>4 DEF Mine
  <2> QED BY <1>3, <2>1, <2>2, Frame DEF SandboxInv, Alone
<1>9. Local(e)'
  <2>1. ~Mine(e)'
        BY <1>4, <1>5 DEF Mine
  <2>2. result'[e].status = "none"
        BY <1>1 DEF SandboxInv, Typed, NoResult
  <2>3. Held(e)' /\ Fresh(e)'
        BY <1>a, <1>3, <2>1, <2>2 DEF Held, Busy, Fresh
  <2> QED BY <2>1, <2>3 DEF Local
<1> QED BY <1>6, <1>7, <1>8, <1>9 DEF SandboxInv

\* The program ends and its task stops.
LEMMA StopKeeps ==
  ASSUME SandboxInv, NEW i \in DOMAIN box, NEW status \in Statuses \ {"none"}, Stop(i, status)
  PROVE  SandboxInv'
<1> USE Kinds
<1>1. UNCHANGED <<pc, name, ready, result, faults>> /\ box[i].task = "running"
      BY DEF Stop, program
<1>2. box[i] \in BoxType
      BY DEF SandboxInv, Typed
<1> PICK b : b = [[box[i] EXCEPT !.task = "stopped"] EXCEPT !.status = status]
    OBVIOUS
<1>3. /\ b \in BoxType /\ b.owner = box[i].owner /\ b.task = "stopped"
      /\ b.status = status
      BY <1>2 DEF BoxType
<1>4. /\ DOMAIN box' = DOMAIN box /\ box'[i] = b
      /\ \A j \in DOMAIN box \ {i} : box'[j] = box[j]
      BY DEF Stop
<1>5. CASE box[i].owner = Nobody
  <2>1. Typed'
        BY <1>1, <1>3, <1>4 DEF SandboxInv, Typed
  <2>2. Ownership'
        BY <1>1, <1>3, <1>4, <1>5 DEF SandboxInv, Ownership
  <2>3. ASSUME NEW x \in Execs PROVE Local(x)'
    <3>1. (Mine(x)' <=> Mine(x)) /\ (Mine(x) => box'[name[x]] = box[name[x]])
          BY <1>1, <1>3, <1>4, <1>5 DEF Mine
    <3> QED BY <1>1, <3>1, Frame DEF SandboxInv
  <2> QED BY <2>1, <2>2, <2>3 DEF SandboxInv
<1>6. CASE box[i].owner # Nobody
  <2> PICK e \in Execs : e = box[i].owner /\ name[e] = i
      BY <1>2, <1>6 DEF SandboxInv, Ownership, BoxType
  <2>1. Mine(e)
        BY DEF Mine
  <2>2. Changes(e, b)
        BY <1>1, <1>3, <1>4, <2>1 DEF Changes
  <2>3. Alone(e)
        BY <1>1 DEF Alone, SandboxInv, Typed, ResultType
  <2>4. Held(e) /\ Fate(e, box[name[e]]) /\ Fresh(e)
        BY <2>1 DEF SandboxInv, Local
  <2>5. Mine(e)'
        BY <2>2, ChangesOwn
  <2>6. Held(e)' /\ Fresh(e)'
        BY <1>1, <2>1, <2>4, <2>5 DEF Held, Fresh
  <2>7. TaskFits(e, b)' /\ Explained(e, b)'
        BY <1>1, <1>3, <2>4 DEF Fate, TaskFits, Explained, CanFail
  <2>8. Attended(e, b)' /\ Clean(e, b)'
        BY <1>1, <1>3, <2>4 DEF Fate, Attended, Clean, NoLate, CanFail, Listening
  <2> QED BY <2>2, <2>3, <2>6, <2>7, <2>8, OwnTurn DEF Fate
<1> QED BY <1>5, <1>6

LEMMA ProgramKeeps == ASSUME SandboxInv, NEW i \in DOMAIN box, Exit(i) \/ DieOfKill(i)
                      PROVE  SandboxInv'
BY StopKeeps DEF Exit, DieOfKill, Statuses

\* The exit is reported once the task has stopped, or when the stream fails.
LEMMA DeliverKeeps == ASSUME SandboxInv, NEW e \in Execs, Deliver(e) PROVE SandboxInv'
<1> USE Kinds
<1>1. /\ UNCHANGED <<pc, name, box, result, faults>>
      /\ pc[e] \in {"run", "term", "kill"}
      BY DEF Deliver, program, Listening
<1>2. ready' = [ready EXCEPT ![e] = TRUE]
      BY DEF Deliver
<1>3. Mine(e) /\ Fate(e, box[name[e]])
      BY <1>1, BusyMine DEF Busy, SandboxInv, Local
<1>4. Alone(e)
      BY <1>1, <1>2 DEF Alone, SandboxInv, Typed, ResultType
<1> PICK b : b = box[name[e]] /\ Changes(e, b)
    BY <1>1, <1>3, KeepingChanges
<1>5. TaskFits(e, b)' /\ Explained(e, b)'
      BY <1>1, <1>3 DEF Fate, TaskFits, Explained, CanFail
<1>6. Fresh(e)'
      BY <1>1 DEF Fresh
<1>7. ~CanFail("stream") => b.task = "stopped"
      BY DEF Deliver, TaskIs
<1>8. Attended(e, b)' /\ Clean(e, b)'
      BY <1>1, <1>3, <1>7 DEF Fate, Attended, Clean, NoLate, CanFail, Listening
<1> QED BY <1>1, <1>4, <1>5, <1>6, <1>8, BusyTurn DEF Busy, Fate

LEMMA StillKeeps == ASSUME SandboxInv, UNCHANGED <<pc, name, box, ready, result, faults>>
                    PROVE  SandboxInv'
<1>1. Typed' /\ Ownership'
      BY DEF SandboxInv, Typed, Ownership
<1>2. ASSUME NEW x \in Execs PROVE Local(x)'
      BY Frame DEF SandboxInv, Mine
<1> QED BY <1>1, <1>2 DEF SandboxInv

LEMMA NextKeeps == ASSUME SandboxInv, [Next]_vars PROVE SandboxInv'
<1>1. ASSUME NEW e \in Execs, NEW s \in Streams, Write(e, s) \/ Copy(e, s) PROVE SandboxInv'
      BY <1>1, StillKeeps DEF Write, Copy
<1>2. CASE UNCHANGED vars
      BY <1>2, StillKeeps DEF vars
<1> QED BY <1>1, <1>2, StepKeeps, ForgetKeeps, DeliverKeeps, ProgramKeeps DEF Next

\* Every step of the executions and of containerd (compileit.go:300-440).
THEOREM SandboxInvariant == Spec => []SandboxInv
BY InitInv, NextKeeps, PTL DEF Spec

-----------------------------------------------------------------------------
(* Containers nobody owns *)

\* Of a step of execution e: it leaves every container but its own alone, and
\* what it makes or changes is its own.
OnlyOwn(e) == /\ \A i \in DOMAIN box : box[i].owner # e
                    => i \in DOMAIN box' /\ box'[i] = box[i]
              /\ \A i \in DOMAIN box' : \/ box'[i].owner = e
                                        \/ i \in DOMAIN box /\ box'[i] = box[i]

LEMMA SetBoxOwn ==
  ASSUME NEW e \in Execs, Mine(e) \/ name[e] \notin DOMAIN box,
         NEW b, b.owner = e, box' = SetBox(name[e], b)
  PROVE  OnlyOwn(e)
BY DEF SetBox, OnlyOwn, Mine

LEMMA SetTaskOwn ==
  ASSUME SandboxInv, NEW e \in Execs, pc[e] \in Busy, NEW t, box' = SetTask(e, t)
  PROVE  OnlyOwn(e)
<1>1. Mine(e) /\ box[name[e]] \in BoxType
      BY BusyMine
<1>2. [box[name[e]] EXCEPT !.task = t].owner = e
      BY <1>1 DEF Mine, BoxType
<1> QED BY <1>1, <1>2, SetBoxOwn DEF SetTask

LEMMA StepOwn == ASSUME SandboxInv, NEW e \in Execs, Step(e) PROVE OnlyOwn(e)
<1>1. box' = box => OnlyOwn(e)
      BY DEF OnlyOwn
<1>2. CASE Prepare(e) \/ Wait(e) \/ Exited(e) \/ ExitedOnTerm(e) \/ ExitedOnKill(e)
      BY <1>1, <1>2 DEF Prepare, Wait, Exited, ExitedOnTerm, ExitedOnKill, Finish
<1>3. CASE NewContainer(e)
  <2> PICK b : b = [task |-> "none", signal |-> "none", status |-> "none", owner |-> e]
      OBVIOUS
  <2>1. box' = box \/ (name[e] \notin DOMAIN box /\ box' = SetBox(name[e], b))
        BY <1>3 DEF NewContainer
  <2>2. b.owner = e
        OBVIOUS
  <2> QED BY <1>1, <2>1, <2>2, SetBoxOwn
<1>4. CASE NewTask(e) \/ Start(e) \/ DeleteTask(e)
  <2>1. pc[e] \in Busy
        BY <1>4 DEF NewTask, Start, DeleteTask, Goto, ReturnVia, Busy
  <2>2. box' = box \/ \E t : box' = SetTask(e, t)
        BY <1>4 DEF NewTask, Start, DeleteTask
  <2> QED BY <1>1, <2>1, <2>2, SetTaskOwn
<1>5. CASE TimeoutTerm(e) \/ GraceOver(e)
  <2>1. Mine(e) /\ box[name[e]] \in BoxType
        BY <1>5, BusyMine DEF TimeoutTerm, GraceOver, Goto, Busy
  <2> PICK sig : Kill(e, sig)
      BY <1>5 DEF TimeoutTerm, GraceOver
  <2>2. [box[name[e]] EXCEPT !.signal = sig].owner = e
        BY <2>1 DEF Mine, BoxType
  <2> QED BY <1>1, <2>1, <2>2, SetBoxOwn DEF Kill
<1>6. CASE DeleteContainer(e)
  <2>1. Mine(e)
        BY <1>6, BusyMine DEF DeleteContainer, Goto, Busy
  <2> QED BY <1>1, <1>6, <2>1 DEF DeleteContainer, DropBox, OnlyOwn, Mine
<1> QED BY <1>2, <1>3, <1>4, <1>5, <1>6 DEF Step

\* A program ends and the task stops: the container keeps its owner and the
\* signal it was sent.
LEMMA StopOwn ==
  ASSUME SandboxInv, NEW i \in DOMAIN box, NEW status, Stop(i, status)
  PROVE  /\ DOMAIN box' = DOMAIN box
         /\ \A j \in DOMAIN box : box'[j].owner = box[j].owner /\ box'[j].signal = box[j].signal
<1>1. /\ DOMAIN box' = DOMAIN box
      /\ \A j \in DOMAIN box \ {i} : box'[j] = box[j]
      /\ box'[i] = [[box[i] EXCEPT !.task = "stopped"] EXCEPT !.status = status]
      BY DEF Stop
<1>2. box[i] \in BoxType
      BY DEF SandboxInv, Typed
<1>3. box'[i].owner = box[i].owner /\ box'[i].signal = box[i].signal
      BY <1>1, <1>2 DEF BoxType
<1> QED BY <1>1, <1>3

\* A container without an owner stays, without an owner and unsignalled.
UnownedStay == \A i \in DOMAIN box : box[i].owner = Nobody
  => i \in DOMAIN box' /\ box'[i].owner = Nobody /\ box'[i].signal = box[i].signal

LEMMA UnownedAlone == ASSUME SandboxInv, [Next]_vars PROVE UnownedStay
<1>1. box' = box => UnownedStay
      BY DEF UnownedStay
<1>2. ASSUME NEW e \in Execs, Step(e) PROVE UnownedStay
      BY <1>2, StepOwn, Kinds DEF OnlyOwn, UnownedStay
<1>3. ASSUME NEW e \in Execs, Forget(e) PROVE UnownedStay
      BY <1>3, Kinds DEF Forget, UnownedStay
<1>4. ASSUME NEW e \in Execs, Deliver(e) PROVE UnownedStay
      BY <1>1, <1>4 DEF Deliver
<1>5. ASSUME NEW e \in Execs, NEW s \in Streams, Write(e, s) \/ Copy(e, s) PROVE UnownedStay
      BY <1>1, <1>5 DEF Write, Copy
<1>6. ASSUME NEW i \in DOMAIN box, Exit(i) \/ DieOfKill(i) PROVE UnownedStay
      BY <1>6, StopOwn DEF Exit, DieOfKill, UnownedStay
<1>7. CASE UNCHANGED vars
      BY <1>1, <1>7 DEF vars
<1> QED BY <1>2, <1>3, <1>4, <1>5, <1>6, <1>7 DEF Next

\* Without late faults every container has an owner, as long as the process
\* that runs the executions lives.
NoOrphans == NoLate => \A i \in DOMAIN box : box[i].owner # Nobody

LEMMA OrphansInit == Init => NoOrphans
BY DEF Init, NoOrphans

LEMMA OrphansKeep == ASSUME SandboxInv, NoOrphans, [Next]_vars PROVE NoOrphans'
<1>1. ASSUME box' = box, faults' = faults PROVE NoOrphans'
      BY <1>1 DEF NoOrphans, NoLate
<1>2. ASSUME NEW e \in Execs, Step(e) PROVE NoOrphans'
  <2>1. faults' = faults
        BY <1>2 DEF Step, Prepare, NewContainer, NewTask, Wait, Start, Exited, TimeoutTerm,
           ExitedOnTerm, GraceOver, ExitedOnKill, Finish, DeleteTask, DeleteContainer, program
  <2> QED BY <1>2, <2>1, StepOwn, Kinds DEF OnlyOwn, NoOrphans, NoLate
<1>3. ASSUME NEW e \in Execs, Forget(e) PROVE NoOrphans'
  <2> SUFFICES ASSUME NoLate, NEW i \in DOMAIN box PROVE box'[i].owner # Nobody
      BY <1>3 DEF Forget, NoOrphans, NoLate
  <2>1. box[i].owner # Nobody /\ name[box[i].owner] = i /\ box[i].owner \in Execs
        BY DEF SandboxInv, NoOrphans, Typed, Ownership, BoxType
  <2>2. box[i].owner # e
        BY <1>3, <2>1 DEF Forget, Goto, SandboxInv, Local, Fate, Clean, Mine
  <2>3. box'[i] = box[i]
        BY <1>3, <2>2 DEF Forget
  <2> QED BY <2>1, <2>3
<1>4. ASSUME NEW e \in Execs, Deliver(e) PROVE NoOrphans'
      BY <1>1, <1>4 DEF Deliver, program
<1>5. ASSUME NEW e \in Execs, NEW s \in Streams, Write(e, s) \/ Copy(e, s) PROVE NoOrphans'
      BY <1>1, <1>5 DEF Write, Copy
<1>6. ASSUME NEW i \in DOMAIN box, Exit(i) \/ DieOfKill(i) PROVE NoOrphans'
  <2> PICK status : Stop(i, status)
      BY <1>6 DEF Exit, DieOfKill
  <2>1. faults' = faults
        BY DEF Stop, program
  <2> QED BY <2>1, StopOwn DEF NoOrphans, NoLate
<1>7. CASE UNCHANGED vars
      BY <1>1, <1>7 DEF vars
<1> QED BY <1>2, <1>3, <1>4, <1>5, <1>6, <1>7 DEF Next

LEMMA OrphansInvariant == Spec => []NoOrphans
<1>1. SandboxInv /\ NoOrphans /\ [Next]_vars => NoOrphans'
      BY OrphansKeep
<1> QED BY OrphansInit, SandboxInvariant, <1>1, PTL DEF Spec

\* Unless the exit stream breaks no running program is without an owner, as
\* long as the process that runs the executions lives.
NoRunaways == ~CanFail("stream") =>
  \A i \in DOMAIN box : box[i].task = "running" => box[i].owner # Nobody

LEMMA RunawaysInit == Init => NoRunaways
BY DEF Init, NoRunaways

LEMMA RunawaysKeep == ASSUME SandboxInv, NoRunaways, [Next]_vars PROVE NoRunaways'
<1>1. ASSUME box' = box, faults' = faults PROVE NoRunaways'
      BY <1>1 DEF NoRunaways, CanFail
<1>2. ASSUME NEW e \in Execs, Step(e) PROVE NoRunaways'
  <2>1. faults' = faults
        BY <1>2 DEF Step, Prepare, NewContainer, NewTask, Wait, Start, Exited, TimeoutTerm,
           ExitedOnTerm, GraceOver, ExitedOnKill, Finish, DeleteTask, DeleteContainer, program
  <2> QED BY <1>2, <2>1, StepOwn, Kinds DEF OnlyOwn, NoRunaways, CanFail
<1>3. ASSUME NEW e \in Execs, Forget(e) PROVE NoRunaways'
  <2> SUFFICES ASSUME ~CanFail("stream"), NEW i \in DOMAIN box, box'[i].task = "running"
               PROVE  box'[i].owner # Nobody
      BY <1>3 DEF Forget, NoRunaways, CanFail
  <2>1. CASE box[i].owner = e
    <3>1. name[e] = i /\ Mine(e) /\ ~Listening(e)
          BY <1>3, <2>1, Kinds DEF SandboxInv, Ownership, Mine, Forget, Goto, Listening
    <3>2. box[i].task # "running"
          BY <3>1 DEF SandboxInv, Local, Fate, Attended
    <3>3. box[i] \in BoxType /\ box'[i] = [box[i] EXCEPT !.owner = Nobody]
          BY <1>3, <2>1 DEF Forget, SandboxInv, Typed
    <3> QED BY <3>2, <3>3 DEF BoxType
  <2>2. CASE box[i].owner # e
    <3>1. box'[i] = box[i]
          BY <1>3, <2>2 DEF Forget
    <3> QED BY <3>1 DEF NoRunaways
  <2> QED BY <2>1, <2>2
<1>4. ASSUME NEW e \in Execs, Deliver(e) PROVE NoRunaways'
      BY <1>1, <1>4 DEF Deliver, program
<1>5. ASSUME NEW e \in Execs, NEW s \in Streams, Write(e, s) \/ Copy(e, s) PROVE NoRunaways'
      BY <1>1, <1>5 DEF Write, Copy
<1>6. ASSUME NEW i \in DOMAIN box, Exit(i) \/ DieOfKill(i) PROVE NoRunaways'
  <2> PICK status : Stop(i, status)
      BY <1>6 DEF Exit, DieOfKill
  <2>1. /\ faults' = faults /\ DOMAIN box' = DOMAIN box /\ box[i].task = "running"
        /\ \A j \in DOMAIN box \ {i} : box'[j] = box[j]
        BY DEF Stop, program
  <2>2. box'[i].owner = box[i].owner
        BY StopOwn
  <2> QED BY <2>1, <2>2 DEF NoRunaways, CanFail
<1>7. CASE UNCHANGED vars
      BY <1>1, <1>7 DEF vars
<1> QED BY <1>2, <1>3, <1>4, <1>5, <1>6, <1>7 DEF Next

LEMMA RunawaysInvariant == Spec => []NoRunaways
<1>1. SandboxInv /\ NoRunaways /\ [Next]_vars => NoRunaways'
      BY RunawaysKeep
<1> QED BY RunawaysInit, SandboxInvariant, <1>1, PTL DEF Spec

-----------------------------------------------------------------------------
(* What a program has printed *)

Output == /\ produced \in [Execs -> [Streams -> 0 .. MaxOut]]
          /\ copied \in [Execs -> [Streams -> 0 .. MaxOut]]
          /\ \A e \in Execs, s \in Streams : copied[e][s] <= produced[e][s]

LEMMA OutputInit == Init => Output
<1>1. Nothing \in [Streams -> 0 .. MaxOut] /\ \A s \in Streams : Nothing[s] = 0
      BY SandboxAssumption DEF Nothing, SandboxAssumption
<1> QED BY <1>1 DEF Init, Output

LEMMA WriteKeeps == ASSUME Output, NEW e \in Execs, NEW s \in Streams, Write(e, s) PROVE Output'
<1>1. produced[e][s] + 1 \in 0 .. MaxOut
      BY SandboxAssumption DEF Output, Write, SandboxAssumption
<1>2. produced' \in [Execs -> [Streams -> 0 .. MaxOut]]
      BY <1>1 DEF Output, Write
<1>3. \A d \in Execs, t \in Streams : produced[d][t] <= produced'[d][t] /\ produced[d][t] \in Int
      BY SandboxAssumption DEF Output, Write, SandboxAssumption
<1>4. copied' = copied /\ \A d \in Execs, t \in Streams : copied[d][t] \in Int
      BY DEF Output, Write
<1>5. \A d \in Execs, t \in Streams : copied'[d][t] <= produced'[d][t]
  <2> TAKE d \in Execs, t \in Streams
  <2>1. produced'[d][t] \in Int
        BY <1>2
  <2> QED BY <1>3, <1>4, <2>1 DEF Output
<1> QED BY <1>2, <1>4, <1>5 DEF Output

LEMMA CopyKeeps == ASSUME Output, NEW e \in Execs, NEW s \in Streams, Copy(e, s) PROVE Output'
<1>1. copied[e][s] + 1 \in 0 .. MaxOut /\ copied[e][s] + 1 <= produced[e][s]
      BY SandboxAssumption DEF Output, Copy, SandboxAssumption
<1>2. copied' \in [Execs -> [Streams -> 0 .. MaxOut]] /\ produced' = produced
      BY <1>1 DEF Output, Copy
<1>3. \A d \in Execs, t \in Streams :
        copied'[d][t] = IF d = e /\ t = s THEN copied[e][s] + 1 ELSE copied[d][t]
      BY DEF Output, Copy
<1>4. \A d \in Execs, t \in Streams : copied'[d][t] <= produced'[d][t]
      BY <1>1, <1>2, <1>3 DEF Output
<1> QED BY <1>2, <1>4 DEF Output

LEMMA OutputKeeps == ASSUME Output, [Next]_vars PROVE Output'
<1>1. ASSUME NEW e \in Execs, Forget(e) PROVE Output'
  <2>1. Nothing \in [Streams -> 0 .. MaxOut] /\ \A s \in Streams : Nothing[s] = 0
        BY SandboxAssumption DEF Nothing, SandboxAssumption
  <2> QED BY <1>1, <2>1 DEF Forget, Output
<1>2. ASSUME NEW e \in Execs, Step(e) \/ Deliver(e) PROVE Output'
  <2>1. UNCHANGED <<produced, copied>>
        BY <1>2 DEF Step, Prepare, NewContainer, NewTask, Wait, Start, Exited, TimeoutTerm, ExitedOnTerm,
           GraceOver, ExitedOnKill, Finish, DeleteTask, DeleteContainer, Deliver, program
  <2> QED BY <2>1 DEF Output
<1>3. ASSUME NEW i, Exit(i) \/ DieOfKill(i) PROVE Output'
      BY <1>3 DEF Exit, DieOfKill, Stop, program, Output
<1>4. CASE UNCHANGED vars
      BY <1>4 DEF vars, Output
<1> QED BY <1>1, <1>2, <1>3, <1>4, WriteKeeps, CopyKeeps DEF Next

\* Output is copied no further than it was written, and every variable keeps
\* its type (compileit.go:300-440).
THEOREM SandboxTyped == Spec => []TypeOK
<1>1. Init => Output
      BY OutputInit
<1>2. Output /\ [Next]_vars => Output'
      BY OutputKeeps
<1>3. SandboxInv /\ Output => TypeOK
      BY DEF SandboxInv, Typed, BoxType, Output, TypeOK
<1> QED BY <1>1, <1>2, <1>3, SandboxInvariant, PTL DEF Spec

-----------------------------------------------------------------------------
LEMMA NothingStays == ASSUME SandboxInv, NoOrphans PROVE NothingLeft
<1> SUFFICES ASSUME NoLate, NEW i \in DOMAIN box
             PROVE  /\ box[i].owner # Nobody
                    /\ pc[box[i].owner] \notin {"idle", "create", "returned"}
    BY DEF NothingLeft, NoLate
<1>1. box[i].owner # Nobody /\ name[box[i].owner] = i /\ box[i].owner \in Execs
      BY DEF SandboxInv, NoOrphans, Ownership, Typed, BoxType
<1>2. Mine(box[i].owner)
      BY <1>1 DEF Mine
<1> QED BY <1>1, <1>2 DEF SandboxInv, Local, Held, Busy, Fate, Clean

\* README.md:3 "Everything is thrown away after the run": as long as a task
\* can be waited for, started and listened to and neither deferred delete
\* fails of itself, no container outlives its execution (compileit.go:364-385).
THEOREM EverythingThrownAway == Spec => []NothingLeft
BY SandboxInvariant, OrphansInvariant, NothingStays, PTL

\* Whatever fails, what stays behind has a task that was never started, or an
\* exit that was not one, or a deferred delete that failed of itself
\* (compileit.go:374-437).
THEOREM LeftoversAreExplained == Spec => []LeftoversExplained
<1>1. ASSUME SandboxInv PROVE LeftoversExplained
  <2> SUFFICES ASSUME NEW e \in Execs, pc[e] = "returned", NEW i \in DOMAIN box, box[i].owner = e
               PROVE  \/ CanFail("delete")
                      \/ result[e].err \in {"wait", "start"}
                      \/ result[e].err \in RunErrors /\ result[e].status = "none"
      BY DEF LeftoversExplained, Owned, RunErrors
  <2>1. Mine(e)
        BY <1>1, Kinds DEF SandboxInv, Ownership, Mine
  <2> QED BY <1>1, <2>1 DEF SandboxInv, Local, Fate, Explained
<1> QED BY SandboxInvariant, <1>1, PTL

LEMMA RunningAttended == ASSUME SandboxInv, NoRunaways PROVE RunsAwaited
<1> SUFFICES ASSUME ~CanFail("stream"), NEW i \in DOMAIN box, box[i].task = "running"
             PROVE  box[i].owner # Nobody /\ Listening(box[i].owner)
    BY DEF RunsAwaited
<1>1. box[i].owner # Nobody /\ name[box[i].owner] = i /\ box[i].owner \in Execs
      BY DEF SandboxInv, NoRunaways, Ownership, Typed, BoxType
<1>2. Mine(box[i].owner)
      BY <1>1 DEF Mine
<1> QED BY <1>1, <1>2 DEF SandboxInv, Local, Fate, Attended

\* Whatever else fails, a kill or a delete included, no program runs that its
\* execution does not wait for (compileit.go:417-437).
THEOREM ProgramsAwaited == Spec => []RunsAwaited
BY SandboxInvariant, RunawaysInvariant, RunningAttended, PTL

\* Only the second deferred call makes a container disappear.
OwnGoes == \A i \in DOMAIN box \ DOMAIN box' :
             \E e \in Execs : /\ box[i].owner = e
                              /\ name[e] = i
                              /\ pc[e] = "delbox"
                              /\ ~HasTask(i)

LEMMA OnlyDeleteShrinks == ASSUME SandboxInv, Next PROVE OwnGoes
<1>1. ASSUME DOMAIN box \subseteq DOMAIN box' PROVE OwnGoes
      BY <1>1 DEF OwnGoes
<1>2. ASSUME NEW e \in Execs, DeleteContainer(e) PROVE OwnGoes
  <2>1. pc[e] = "delbox" /\ Mine(e)
        BY <1>2, BusyMine DEF DeleteContainer, Goto, Busy
  <2>2. CASE box' = box
        BY <1>1, <2>2
  <2>3. CASE ~HasTask(name[e]) /\ box' = DropBox(name[e])
        BY <1>2, <2>1, <2>3 DEF DropBox, OwnGoes, Mine
  <2> QED BY <1>2, <2>2, <2>3 DEF DeleteContainer
<1>3. ASSUME NEW e \in Execs, Step(e), ~DeleteContainer(e)
      PROVE  DOMAIN box \subseteq DOMAIN box'
  <2>1. \A t : box' = SetTask(e, t) => DOMAIN box \subseteq DOMAIN box'
        BY DEF SetTask, SetBox
  <2>2. \A b : box' = SetBox(name[e], b) => DOMAIN box \subseteq DOMAIN box'
        BY DEF SetBox
  <2>3. CASE Prepare(e) \/ Wait(e) \/ Exited(e) \/ ExitedOnTerm(e) \/ ExitedOnKill(e)
        BY <2>3 DEF Prepare, Wait, Exited, ExitedOnTerm, ExitedOnKill, Finish
  <2>4. CASE NewContainer(e)
        BY <2>2, <2>4 DEF NewContainer
  <2>5. CASE NewTask(e) \/ Start(e) \/ DeleteTask(e)
        BY <2>1, <2>5 DEF NewTask, Start, DeleteTask
  <2>6. CASE TimeoutTerm(e) \/ GraceOver(e)
        BY <2>2, <2>6 DEF TimeoutTerm, GraceOver, Kill
  <2> QED BY <1>3, <2>3, <2>4, <2>5, <2>6 DEF Step
<1>4. ASSUME NEW e \in Execs, Forget(e) \/ Deliver(e) PROVE DOMAIN box \subseteq DOMAIN box'
      BY <1>4 DEF Forget, Deliver
<1>5. ASSUME NEW e \in Execs, NEW s \in Streams, Write(e, s) \/ Copy(e, s)
      PROVE  DOMAIN box \subseteq DOMAIN box'
      BY <1>5 DEF Write, Copy
<1>6. ASSUME NEW i \in DOMAIN box, Exit(i) \/ DieOfKill(i)
      PROVE  DOMAIN box \subseteq DOMAIN box'
      BY <1>6 DEF Exit, DieOfKill, Stop
<1> QED BY <1>1, <1>2, <1>3, <1>4, <1>5, <1>6 DEF Next

\* Two executions may read the same nanosecond: the one refused leaves the
\* other's container alone (compileit.go:364-374).
THEOREM OwnContainersDeleted == Spec => OnlyOwnDeleted
<1>1. ASSUME SandboxInv, [Next]_vars PROVE [OwnGoes]_vars
      BY <1>1, OnlyDeleteShrinks
<1>2. [OwnGoes]_vars <=> [\A i \in DOMAIN box \ DOMAIN box' :
                            \E e \in Execs : /\ box[i].owner = e
                                             /\ name[e] = i
                                             /\ pc[e] = "delbox"
                                             /\ ~HasTask(i)]_vars
      BY DEF OwnGoes
<1> QED BY SandboxInvariant, <1>1, <1>2, PTL DEF Spec, OnlyOwnDeleted
=============================================================================
