------------------------------ MODULE Sandbox ------------------------------
(***************************************************************************)
(* compileit.go: execInKata, the life of one execution in a fresh Kata     *)
(* container, with the parts of containerd it relies on.                   *)
(*                                                                         *)
(* Several executions run at once.  Each walks through the code with a     *)
(* program counter; containers, tasks and the program inside live in       *)
(* containerd and move on their own.  The clock is abstract: a timer may   *)
(* expire at any moment after it is set.                                   *)
(***************************************************************************)
EXTENDS Integers

CONSTANTS Execs,          \* goroutines that may be in execInKata together
          Ids,            \* container ids: readings of time.Now().UnixNano()
          Streams,        \* the program's output streams
          MaxOut,         \* bound on what a program writes to a stream
          Cap,            \* what is returned of a stream at most (64 KiB)
          FaultSets       \* candidate sets of calls that may fail, see CanFail

VARIABLES pc,             \* where each execution is in execInKata
          name,           \* uniqueID, once chosen
          box,            \* containers that exist, by id
          ready,          \* statusC holds a value
          produced,       \* written by the program, per stream
          copied,         \* of that, copied to stdoutBuf or stderrBuf
          result,         \* what execInKata returned or is about to return
          faults          \* the calls that may fail in this behaviour

program == <<name, produced, copied, faults>>
vars == <<pc, name, box, ready, produced, copied, result, faults>>

NoId == "no id"
Nobody == "nobody"

ASSUME SandboxAssumption == /\ MaxOut \in Nat
                            /\ Cap \in Nat
                            /\ Nobody \notin Execs

Nothing == [s \in Streams |-> 0]
NoResult == [err |-> "none", id |-> NoId, out |-> Nothing, status |-> "none"]
Least(a, b) == IF a < b THEN a ELSE b

\* Fault names: "setup" (client, image, lang directory), "create"
\* (NewContainer), "newtask", "wait", "start", "stream" (the exit status
\* arrives as an error while the task runs), "kill" (the Kill call), "delete"
\* (either deferred Delete).
CanFail(step) == step \in faults

Owned(e) == {i \in DOMAIN box : box[i].owner = e}
HasTask(i) == i \in DOMAIN box /\ box[i].task # "none"
TaskIs(e, state) == name[e] \in Owned(e) /\ box[name[e]].task = state

SetBox(i, b) == [x \in DOMAIN box \cup {i} |-> IF x = i THEN b ELSE box[x]]
DropBox(i) == [x \in DOMAIN box \ {i} |-> box[x]]
SetTask(e, state) == SetBox(name[e], [box[name[e]] EXCEPT !.task = state])

Init == /\ pc = [e \in Execs |-> "idle"]
        /\ name = [e \in Execs |-> NoId]
        /\ box = << >>
        /\ ready = [e \in Execs |-> FALSE]
        /\ produced = [e \in Execs |-> Nothing]
        /\ copied = [e \in Execs |-> Nothing]
        /\ result = [e \in Execs |-> NoResult]
        /\ faults \in FaultSets

Goto(e, from, to) == pc[e] = from /\ pc' = [pc EXCEPT ![e] = to]

-----------------------------------------------------------------------------
(* Up to the running task *)

\* A return statement: the result is fixed here, the deferred calls follow
\* from the label to.
ReturnVia(e, from, to, r) == /\ Goto(e, from, to)
                             /\ result' = [result EXCEPT ![e] = r]

Failed(e, err) == [err |-> err, id |-> name[e], out |-> Nothing, status |-> "none"]

\* The script, the client, the image and the lang directory; too long a
\* program and a failure here return before there is an id.
Prepare(e) == \/ /\ Goto(e, "idle", "create")
                 /\ \E i \in Ids : name' = [name EXCEPT ![e] = i]
                 /\ UNCHANGED <<box, ready, produced, copied, result, faults>>
              \/ /\ \/ ReturnVia(e, "idle", "returned", Failed(e, "limit"))
                    \/ /\ CanFail("setup")
                       /\ ReturnVia(e, "idle", "returned", Failed(e, "setup"))
                 /\ UNCHANGED <<name, box, ready, produced, copied, faults>>

\* Mutant of NewContainer: the delete is deferred before the error check.
NewContainer_DeferFirst(e) ==
  \/ /\ Goto(e, "create", "newtask")
     /\ name[e] \notin DOMAIN box
     /\ box' = SetBox(name[e], [task |-> "none", signal |-> "none",
                                status |-> "none", owner |-> e])
     /\ UNCHANGED <<program, ready, result>>
  \/ /\ name[e] \in DOMAIN box
     /\ ReturnVia(e, "create", "delbox", Failed(e, "create"))
     /\ UNCHANGED <<program, box, ready>>

\* An id in use is refused by containerd.
NewContainer(e) ==
  \/ /\ Goto(e, "create", "newtask")
     /\ name[e] \notin DOMAIN box
     /\ box' = SetBox(name[e], [task |-> "none", signal |-> "none",
                                status |-> "none", owner |-> e])
     /\ UNCHANGED <<program, ready, result>>
  \/ /\ name[e] \in DOMAIN box \/ CanFail("create")
     /\ ReturnVia(e, "create", "returned", Failed(e, "create"))
     /\ UNCHANGED <<program, box, ready>>

\* Mutant of NewTask: its failure returns before any delete is deferred.
NewTask_DeferLast(e) ==
  \/ /\ Goto(e, "newtask", "wait")
     /\ box' = SetTask(e, "created")
     /\ UNCHANGED <<program, ready, result>>
  \/ /\ CanFail("newtask")
     /\ ReturnVia(e, "newtask", "returned", Failed(e, "newtask"))
     /\ UNCHANGED <<program, box, ready>>

NewTask(e) == \/ /\ Goto(e, "newtask", "wait")
                 /\ box' = SetTask(e, "created")
                 /\ UNCHANGED <<program, ready, result>>
              \/ /\ CanFail("newtask")
                 /\ ReturnVia(e, "newtask", "delbox", Failed(e, "newtask"))
                 /\ UNCHANGED <<program, box, ready>>

Wait(e) == \/ /\ Goto(e, "wait", "start")
              /\ UNCHANGED <<program, box, ready, result>>
           \/ /\ CanFail("wait")
              /\ ReturnVia(e, "wait", "deltask", Failed(e, "wait"))
              /\ UNCHANGED <<program, box, ready>>

\* A start that fails leaves the task created, or already stopped.
Start(e) == \/ /\ Goto(e, "start", "run")
               /\ box' = SetTask(e, "running")
               /\ UNCHANGED <<program, ready, result>>
            \/ /\ CanFail("start")
               /\ ReturnVia(e, "start", "deltask", Failed(e, "start"))
               /\ box' \in {box, SetTask(e, "stopped")}
               /\ UNCHANGED <<program, ready>>

-----------------------------------------------------------------------------
(* Waiting for the end *)

\* collect reads the buffers while the copying goroutines may still write
\* them, without synchronisation: what it finds of a stream is what has been
\* copied, or already counts the write under way.
Collected(e) ==
  {out \in [Streams -> 0 .. Cap] :
     \A s \in Streams :
       \E n \in copied[e][s] .. Least(copied[e][s] + 1, produced[e][s]) :
         out[s] = Least(n, Cap)}

\* The value received from statusC is not looked at: result.status, how the
\* script ended, is what execInKata could have told its caller and does not.
Finish(e, from, err) ==
  /\ ready[e]
  /\ \E out \in Collected(e) :
       ReturnVia(e, from, "deltask",
                 [err |-> err, id |-> name[e], out |-> out,
                  status |-> box[name[e]].status])
  /\ UNCHANGED <<program, box, ready>>

Exited(e) == Finish(e, "run", "none")

ExitedOnTerm(e) == Finish(e, "term", "term")
ExitedOnKill(e) == Finish(e, "kill", "kill")

\* The error of Kill is ignored; a task that has stopped refuses it too.
Kill(e, sig) == \/ /\ TaskIs(e, "running")
                   /\ box' = SetBox(name[e], [box[name[e]] EXCEPT !.signal = sig])
                \/ /\ CanFail("kill") \/ ~TaskIs(e, "running")
                   /\ UNCHANGED box

TimeoutTerm(e) == /\ Goto(e, "run", "term")
                  /\ Kill(e, "term")
                  /\ UNCHANGED <<program, ready, result>>

\* Mutant of GraceOver: after SIGKILL statusC is not waited for any more.
GraceOver_NoWait(e) ==
  /\ ReturnVia(e, "term", "deltask", Failed(e, "kill"))
  /\ Kill(e, "kill")
  /\ UNCHANGED <<program, ready>>

GraceOver(e) == /\ Goto(e, "term", "kill")
                /\ Kill(e, "kill")
                /\ UNCHANGED <<program, ready, result>>

-----------------------------------------------------------------------------
(* The deferred calls; the error of either is discarded *)

\* Mutant of DeleteTask: only a successful run deletes its task.
DeleteTask_OnSuccess(e) ==
  /\ Goto(e, "deltask", "delbox")
  /\ \/ /\ TaskIs(e, "stopped") /\ result[e].err = "none"
        /\ box' = SetTask(e, "none")
     \/ /\ ~TaskIs(e, "stopped") \/ result[e].err # "none"
        /\ UNCHANGED box
  /\ UNCHANGED <<program, ready, result>>

\* containerd deletes a task only once it has stopped, after its output has
\* been copied to the end.
DeleteTask(e) == /\ Goto(e, "deltask", "delbox")
                 /\ \/ /\ TaskIs(e, "stopped") /\ copied[e] = produced[e]
                       /\ box' = SetTask(e, "none")
                    \/ /\ ~TaskIs(e, "stopped") \/ CanFail("delete")
                       /\ UNCHANGED box
                 /\ UNCHANGED <<program, ready, result>>

\* containerd deletes a container only while it has no task.
DeleteContainer(e) == /\ Goto(e, "delbox", "returned")
                      /\ \/ /\ ~HasTask(name[e])
                            /\ box' = DropBox(name[e])
                         \/ /\ HasTask(name[e]) \/ CanFail("delete")
                            /\ UNCHANGED box
                      /\ UNCHANGED <<program, ready, result>>

\* The caller takes the result; what is still there has no owner any more.
Forget(e) == /\ Goto(e, "returned", "idle")
             /\ box' = [i \in DOMAIN box |->
                          IF box[i].owner = e THEN [box[i] EXCEPT !.owner = Nobody]
                                              ELSE box[i]]
             /\ name' = [name EXCEPT ![e] = NoId]
             /\ ready' = [ready EXCEPT ![e] = FALSE]
             /\ produced' = [produced EXCEPT ![e] = Nothing]
             /\ copied' = [copied EXCEPT ![e] = Nothing]
             /\ result' = [result EXCEPT ![e] = NoResult]
             /\ UNCHANGED faults

-----------------------------------------------------------------------------
(* The program in the container, and containerd *)

Write(e, s) == /\ TaskIs(e, "running")
               /\ produced[e][s] < MaxOut
               /\ produced' = [produced EXCEPT ![e][s] = @ + 1]
               /\ UNCHANGED <<pc, name, box, ready, copied, result, faults>>

Copy(e, s) == /\ copied[e][s] < produced[e][s]
              /\ copied' = [copied EXCEPT ![e][s] = @ + 1]
              /\ UNCHANGED <<pc, name, box, ready, produced, result, faults>>

Stop(i, status) == /\ box[i].task = "running"
                   /\ box' = [box EXCEPT ![i].task = "stopped", ![i].status = status]
                   /\ UNCHANGED <<pc, program, ready, result>>

\* The script ends by itself, well or not (a program killed at its memory or
\* CPU-time limit has failed), or on a SIGTERM it need not obey.
Exit(i) == \/ \E status \in {"ok", "failed"} : Stop(i, status)
           \/ box[i].signal = "term" /\ Stop(i, "signalled")

DieOfKill(i) == box[i].signal = "kill" /\ Stop(i, "signalled")

\* The goroutine behind Wait sends to statusC when the task has stopped, or
\* when its own connection fails.
Listening(e) == pc[e] \in {"run", "term", "kill"}

Deliver(e) == /\ Listening(e)
              /\ ~ready[e]
              /\ TaskIs(e, "stopped") \/ (CanFail("stream") /\ TaskIs(e, "running"))
              /\ ready' = [ready EXCEPT ![e] = TRUE]
              /\ UNCHANGED <<pc, program, box, result>>

-----------------------------------------------------------------------------
Step(e) == \/ Prepare(e) \/ NewContainer(e) \/ NewTask(e) \/ Wait(e) \/ Start(e)
           \/ Exited(e) \/ TimeoutTerm(e) \/ ExitedOnTerm(e) \/ GraceOver(e) \/ ExitedOnKill(e)
           \/ DeleteTask(e) \/ DeleteContainer(e)

Next == \/ \E e \in Execs : \/ Step(e) \/ Forget(e) \/ Deliver(e)
                            \/ \E s \in Streams : Write(e, s) \/ Copy(e, s)
        \/ \E i \in DOMAIN box : Exit(i) \/ DieOfKill(i)

Spec == Init /\ [][Next]_vars

-----------------------------------------------------------------------------
(* Properties *)

Steps == {"idle", "create", "newtask", "wait", "start", "run", "term", "kill",
          "deltask", "delbox", "returned"}
Errors == {"none", "limit", "setup", "create", "newtask", "wait", "start", "term", "kill"}
Statuses == {"none", "ok", "failed", "signalled"}

\* Types of all variables; output is copied no further than it was written.
TypeOK == /\ pc \in [Execs -> Steps]
          /\ name \in [Execs -> Ids \cup {NoId}]
          /\ DOMAIN box \subseteq Ids
          /\ \A i \in DOMAIN box :
               box[i] \in [task : {"none", "created", "running", "stopped"},
                           signal : {"none", "term", "kill"},
                           status : Statuses, owner : Execs \cup {Nobody}]
          /\ ready \in [Execs -> BOOLEAN]
          /\ produced \in [Execs -> [Streams -> 0 .. MaxOut]]
          /\ copied \in [Execs -> [Streams -> 0 .. MaxOut]]
          /\ \A e \in Execs, s \in Streams : copied[e][s] <= produced[e][s]
          /\ result \in [Execs -> [err : Errors, id : Ids \cup {NoId},
                                   out : [Streams -> 0 .. Cap], status : Statuses]]

\* README.md:3 "Everything is thrown away after the run": when execInKata has
\* returned, no container or task of that execution is left, in whatever order
\* the deferred deletes, the exit and the copying of output fall, as long as
\* the task can be waited for and started and neither delete fails of itself
\* (compileit.go:374, 385).
LateFaults == {"wait", "start", "stream", "delete"}
NothingLeft == faults \cap LateFaults = {} =>
  \A i \in DOMAIN box : /\ box[i].owner # Nobody
                        /\ pc[box[i].owner] \notin {"idle", "create", "returned"}

\* Whatever calls fail, what an execution leaves behind is explained: its task
\* was created but not started, or the exit status it acted on was not one, or
\* a deferred delete failed of itself.  In particular a run that really ended
\* is thrown away if it can be, timed out or not.
LeftoversExplained == \A e \in Execs :
  pc[e] = "returned" /\ Owned(e) # {}
     => \/ CanFail("delete")
        \/ result[e].err \in {"wait", "start"}
        \/ result[e].err \in {"none", "term", "kill"} /\ result[e].status = "none"

\* A program runs only while the execution that started it waits for its exit:
\* it is neither forgotten by an error return nor left behind by a timeout,
\* even if Kill fails, SIGTERM is ignored or a delete fails, unless the exit
\* stream broke (the selects, compileit.go:417-437).
RunsAwaited == ~CanFail("stream") =>
  \A i \in DOMAIN box : box[i].task = "running"
     => box[i].owner # Nobody /\ Listening(box[i].owner)

\* Two executions may read the same nanosecond and choose one id; the second
\* is refused and must leave the first one's container alone: a container is
\* deleted only by the execution that created it, when its task is gone
\* (the deferred Delete is set up after the error check, compileit.go:364-374).
OnlyOwnDeleted ==
  [][\A i \in DOMAIN box \ DOMAIN box' :
       \E e \in Execs : /\ box[i].owner = e
                        /\ name[e] = i
                        /\ pc[e] = "delbox"
                        /\ ~HasTask(i)]_vars

\* README.md:9 "Stdout + stderr are captured (size capped) and returned": a
\* successful run returns all of its output, up to the cap.
OutputComplete == \A e \in Execs :
  pc[e] = "returned" /\ result[e].err = "none"
     => \A s \in Streams : result[e].out[s] = Least(produced[e][s], Cap)
=============================================================================
