------------------------------- MODULE Routines -------------------------------
(***************************************************************************)
(* Routines: scripts that a session keeps in the store and runs on request *)
(* (server/routines.mjs, the POST /routines route and the routine tables   *)
(* of the store).                                                          *)
(*                                                                         *)
(* A request, a script's run and a session's deletion are tasks that await *)
(* one store operation at a time, served in the order of `queue`; a step   *)
(* of a task is the operation at its head with the JavaScript that follows *)
(* it.  Progress, logs and views are left out: they decide nothing.        *)
(* A definition created under a new name, or again under an old one, has a *)
(* new id: the routines here are those that exist at the start.            *)
(* SessionDeletion composes this module.                                   *)
(***************************************************************************)
EXTENDS Naturals, Sequences, FiniteSets

CONSTANTS Routines,   \* ids of routine definitions
          MaxRuns,    \* bound on script processes spawned
          Requests,   \* slots for concurrent POST /routines
          Deletions   \* slots for DELETE /session, which stop routines too

ASSUME RoutinesAssumption == MaxRuns \in Nat /\ Requests \cap Deletions = {}

VARIABLES
  def,      \* the routines table: absent, free, or bound to the session
  script,   \* each script process, its routine_runs row and its runScript
  runtime,  \* state.routineRuntime: the process of each active routine
  request,  \* what each caller is doing
  owner,    \* the id of the session's app_sessions row
  queue     \* the tasks that await the store

routineVars == <<def, script, runtime, request, owner, queue>>

Scripts == 1..MaxRuns
Callers == Requests \cup Deletions
None == 0        \* no process, no owner
OwnerIds == 1..2 \* the session's first owner row, and one created after it

Unborn == [os |-> "unborn", of |-> "none", mode |-> "run", row |-> "none", step |-> "no"]
Idle == [op |-> "no", step |-> "no", of |-> "none", bind |-> FALSE, owner |-> None,
         script |-> None, run |-> None]

RoutinesInit ==
  /\ def = [r \in Routines |-> "bound"]
  /\ script = [p \in Scripts |-> Unborn]
  /\ runtime = [r \in Routines |-> None]
  /\ request = [q \in Callers |-> Idle]
  /\ owner = 1
  /\ queue = <<>>

-----------------------------------------------------------------------------
(* Helpers *)

Turn(task) == queue # <<>> /\ Head(queue) = task
Awaits(task) == queue' = Append(Tail(queue), task)
Ends == queue' = Tail(queue)
Starts(task) == queue' = Append(queue, task)

Alive(p) == script[p].os \in {"live", "told"}
Active(r) == runtime[r] # None
Settled == {"done", "failed", "idle", "stopped", "interrupted"}

\* A foreign key to an owner that no longer exists makes the statement fail.
OwnerExists(id) == id = None \/ id = owner

\* The latest run of a routine: runs are created in the order of their spawns.
RunsOf(r) == {p \in Scripts : script[p].of = r /\ script[p].row \notin {"none", "deleted"}}
Latest(r) == IF RunsOf(r) = {} THEN None
             ELSE CHOOSE p \in RunsOf(r) : \A q \in RunsOf(r) : q <= p

\* Deleting a definition deletes its runs with it.
Cascade(R) == [p \in Scripts |-> IF script[p].of \in R /\ script[p].row # "none"
                                 THEN [script[p] EXCEPT !.row = "deleted"] ELSE script[p]]

Signalled(S) == [p \in Scripts |-> IF p \in S /\ script[p].os = "live"
                                   THEN [script[p] EXCEPT !.os = "told"] ELSE script[p]]

\* A caller continues with another step, or returns: a deletion goes on.
Continue(q, new) == request' = [request EXCEPT ![q] = new] /\ Awaits(<<"request", q>>)
Return(q) ==
  /\ request' = [request EXCEPT ![q] = Idle]
  /\ IF q \in Deletions THEN Awaits(<<"deletion", q>>) ELSE Ends

At(q, op, step) == Turn(<<"request", q>>) /\ request[q].op = op /\ request[q].step = step

-----------------------------------------------------------------------------
(* runScript: spawn a process, then create its run *)

NextScript == CHOOSE p \in Scripts : /\ script[p].os = "unborn"
                                     /\ \A q \in 1..(p - 1) : script[q].os # "unborn"

\* The model lets a request spawn only what it has a process left for.
Budget == Cardinality({p \in Scripts : script[p].os = "unborn"})
            > Cardinality({q \in Requests : request[q].op \in {"start", "teardown"}})

\* The new process replaces what the runtime map holds for the routine, and
\* its run is awaited before any listener but the close one is attached.
Launch(q, mode) ==
  LET p == NextScript
      r == request[q].of
  IN  /\ script' = [script EXCEPT ![p] =
           [os |-> "live", of |-> r, mode |-> mode, row |-> "none", step |-> "create"]]
      /\ runtime' = [runtime EXCEPT ![r] = p]
      /\ request' = [request EXCEPT ![q] = Idle]
      /\ Awaits(<<"script", p>>)

ScriptStep(p, from) == Turn(<<"script", p>>) /\ script[p].step = from

\* Mutant: the early close remembered before the listeners is not replayed.
AttachedAfterClose(p) == "listen"

\* Once the listeners are attached, a close that came earlier is replayed.
Attached(p) == IF Alive(p) THEN "listen" ELSE "closed"

\* The run's row is created, unless the definition is gone: then runScript
\* throws, its listeners are never attached and its completion stays pending.
CreateRun(p) ==
  /\ ScriptStep(p, "create")
  /\ LET r == script[p].of
         teardown == script[p].mode = "teardown"
     IN  IF def[r] = "absent"
         THEN script' = [script EXCEPT ![p].step = "lost"] /\ Ends
         ELSE /\ script' = [script EXCEPT
                   ![p].row = IF teardown THEN "teardown" ELSE "running",
                   ![p].step = IF teardown THEN Attached(p) ELSE "progress"]
              /\ IF teardown THEN Ends ELSE Awaits(<<"script", p>>)
  /\ UNCHANGED <<def, runtime, request, owner>>

FirstProgress(p) ==
  /\ ScriptStep(p, "progress")
  /\ script' = [script EXCEPT ![p].step = Attached(p)]
  /\ Ends
  /\ UNCHANGED <<def, runtime, request, owner>>

\* The process exits and its output has drained.
Closes(p) ==
  /\ Alive(p)
  /\ script' = [script EXCEPT ![p].os = "dead",
                              ![p].step = IF @ = "listen" THEN "closed" ELSE @]
  /\ UNCHANGED <<def, runtime, request, owner, queue>>

\* The completion is resolved.
Completed(p) == [script EXCEPT ![p].step = "end"]

\* The deletion that awaits the completion of p.
Waiting(p) == {d \in Deletions : request[d].op = "await" /\ request[d].script = p}

\* finalizeClose: when the last output is recorded the runtime is cleared; a
\* process that another one replaced, or that a deletion detached, records nothing.
ClearRuntime(p) ==
  /\ script[p].step = "closed"
  /\ LET r == script[p].of
         mine == runtime[r] = p
     IN  /\ runtime' = IF mine THEN [runtime EXCEPT ![r] = None] ELSE runtime
         /\ script' = IF mine THEN [script EXCEPT ![p].step = "find"] ELSE Completed(p)
         /\ IF mine THEN Starts(<<"script", p>>) /\ UNCHANGED request
            ELSE \/ \E d \in Waiting(p) : /\ request' = [request EXCEPT ![d] = Idle]
                                          /\ Starts(<<"deletion", d>>)
                 \/ Waiting(p) = {} /\ UNCHANGED <<request, queue>>
  /\ UNCHANGED <<def, owner>>

\* finishRoutineProcess reads the run to tell a stop from another exit.
FindRun(p) ==
  /\ ScriptStep(p, "find")
  /\ script' = [script EXCEPT ![p].step = IF script[p].row = "stopping" THEN "stopped" ELSE "finish"]
  /\ Awaits(<<"script", p>>)
  /\ UNCHANGED <<def, runtime, request, owner>>

\* Mutant: the reason sent to the clients is recorded as the status.
ReasonAsOutcome(p) == {"finished"}

\* The status that the run is settled with.
Outcomes(p) == IF script[p].step = "stopped" THEN {"stopped"}
               ELSE {IF script[p].mode = "teardown" THEN "idle" ELSE "done", "failed"}

FinishRun(p) ==
  /\ Turn(<<"script", p>>) /\ script[p].step \in {"stopped", "finish"}
  /\ \E outcome \in Outcomes(p) :
       script' = [Completed(p) EXCEPT ![p].row = IF @ = "deleted" THEN @ ELSE outcome]
  /\ Ends
  /\ UNCHANGED <<def, runtime, request, owner>>

ScriptSteps(p) == CreateRun(p) \/ FirstProgress(p) \/ FindRun(p) \/ FinishRun(p)

-----------------------------------------------------------------------------
(* The requests; each looks the definition up first *)

\* A request finds the session it names when it asks; its owner is then upserted.
Ask(q, op, r, bind) ==
  /\ request[q] = Idle
  /\ op \in {"start", "teardown"} => Budget
  /\ request' = [request EXCEPT ![q] = [Idle EXCEPT !.op = op, !.of = r, !.bind = bind,
                                          !.step = IF bind THEN "look" ELSE "find"]]
  /\ IF bind THEN UNCHANGED queue ELSE Starts(<<"request", q>>)
  /\ UNCHANGED <<def, script, runtime, owner>>

\* The catalog has found the session, or its directory.
Resolve(q) ==
  /\ request[q].step \in {"look", "cwd"}
  /\ request' = [request EXCEPT ![q].step = IF @ = "look" THEN "owner" ELSE "find"]
  /\ Starts(<<"request", q>>)
  /\ UNCHANGED <<def, script, runtime, owner>>

\* ensureSessionOwner inserts the row again when the session's owner is gone;
\* SQLite may or may not give it the id of the deleted row.
Upsert == IF owner # None THEN UNCHANGED owner ELSE \E id \in OwnerIds : owner' = id

EnsureOwner(q) ==
  /\ Turn(<<"request", q>>) /\ request[q].step = "owner"
  /\ Upsert
  /\ request' = [request EXCEPT ![q].step = "cwd", ![q].owner = owner']
  /\ Ends
  /\ UNCHANGED <<def, script, runtime>>

RequestFrame == UNCHANGED <<script, runtime, owner>>

\* createRoutine overwrites a definition; without a session it keeps the owner
\* that it found.
CreateFind(q) ==
  /\ At(q, "create", "find")
  /\ LET r == request[q].of IN
     IF Active(r) \/ def[r] = "absent" THEN Return(q)
     ELSE Continue(q, [request[q] EXCEPT !.step = "upsert",
                         !.owner = IF request[q].bind \/ def[r] = "free" THEN @ ELSE owner])
  /\ UNCHANGED def /\ RequestFrame

CreateUpsert(q) ==
  /\ At(q, "create", "upsert")
  /\ def' = IF OwnerExists(request[q].owner)
            THEN [def EXCEPT ![request[q].of] = IF request[q].owner = None THEN "free" ELSE "bound"]
            ELSE def
  /\ Return(q) /\ RequestFrame

\* startRoutine binds the routine to the session, or only sets its directory,
\* and reads it again before it runs the script.
StartFind(q) ==
  /\ At(q, "start", "find")
  /\ IF def[request[q].of] = "absent" \/ Active(request[q].of) THEN Return(q)
     ELSE Continue(q, [request[q] EXCEPT !.step = "bind"])
  /\ UNCHANGED def /\ RequestFrame

StartBind(q) ==
  LET r == request[q].of
      exists == def[r] # "absent"
      ok == OwnerExists(request[q].owner) \/ ~exists
  IN  /\ At(q, "start", "bind")
      /\ def' = IF ok /\ exists /\ request[q].bind THEN [def EXCEPT ![r] = "bound"] ELSE def
      /\ IF ok THEN Continue(q, [request[q] EXCEPT !.step = "again"]) ELSE Return(q)
      /\ RequestFrame

\* The runtime was tested before the binding, and is not tested again.
StartAgain(q) ==
  /\ At(q, "start", "again")
  /\ IF def[request[q].of] = "absent" THEN Return(q) /\ UNCHANGED <<script, runtime>>
                                      ELSE Launch(q, "run")
  /\ UNCHANGED <<def, owner>>

TeardownFind(q) ==
  LET r == request[q].of IN
  /\ At(q, "teardown", "find")
  /\ IF def[r] = "absent" \/ Active(r) THEN Return(q) /\ UNCHANGED <<script, runtime>>
                                       ELSE Launch(q, "teardown")
  /\ UNCHANGED <<def, owner>>

\* stopRoutine marks the latest run and then signals the process it had found.
StopFind(q) ==
  LET r == request[q].of IN
  /\ At(q, "stop", "find")
  /\ IF def[r] = "absent" \/ ~Active(r) THEN Return(q)
     ELSE Continue(q, [request[q] EXCEPT !.step = "latest", !.script = runtime[r]])
  /\ UNCHANGED def /\ RequestFrame

\* Mutant: the run is read twice before it is marked.
StopLatestTwice(q) ==
  /\ At(q, "stop", "latest")
  /\ LET p == Latest(request[q].of)
     IN  Continue(q, [request[q] EXCEPT !.run = p,
                        !.step = IF p = None THEN "kill"
                                 ELSE IF request[q].run = p THEN "mark" ELSE "latest"])
  /\ UNCHANGED def /\ RequestFrame

\* There may be no run any more.
StopLatest(q) ==
  /\ At(q, "stop", "latest")
  /\ LET p == Latest(request[q].of)
     IN  Continue(q, [request[q] EXCEPT !.step = IF p = None THEN "kill" ELSE "mark", !.run = p])
  /\ UNCHANGED def /\ RequestFrame

StopMark(q) ==
  /\ At(q, "stop", "mark")
  /\ script' = [script EXCEPT ![request[q].run].row = IF @ = "deleted" THEN @ ELSE "stopping"]
  /\ Continue(q, [request[q] EXCEPT !.step = "kill"])
  /\ UNCHANGED <<def, runtime, owner>>

\* SIGTERM now and SIGKILL after the grace period.
StopKill(q) ==
  /\ At(q, "stop", "kill")
  /\ script' = Signalled({request[q].script})
  /\ Return(q)
  /\ UNCHANGED <<def, runtime, owner>>

ReleaseFind(q) ==
  /\ At(q, "release", "find")
  /\ IF def[request[q].of] = "absent" \/ Active(request[q].of) THEN Return(q)
     ELSE Continue(q, [request[q] EXCEPT !.step = "release"])
  /\ UNCHANGED def /\ RequestFrame

Release(q) ==
  /\ At(q, "release", "release")
  /\ def' = [def EXCEPT ![request[q].of] = IF @ = "bound" THEN "free" ELSE @]
  /\ Return(q) /\ RequestFrame

DeleteFind(q) ==
  /\ At(q, "delete", "find")
  /\ IF def[request[q].of] = "absent" \/ Active(request[q].of) THEN Return(q)
     ELSE Continue(q, [request[q] EXCEPT !.step = "view"])
  /\ UNCHANGED def /\ RequestFrame

DeleteView(q) ==
  /\ At(q, "delete", "view")
  /\ Continue(q, [request[q] EXCEPT !.step = "delete"])
  /\ UNCHANGED def /\ RequestFrame

Delete(q) ==
  /\ At(q, "delete", "delete")
  /\ def' = [def EXCEPT ![request[q].of] = "absent"]
  /\ script' = Cascade({request[q].of})
  /\ Return(q)
  /\ UNCHANGED <<runtime, owner>>

RequestSteps(q) ==
  \/ EnsureOwner(q) \/ CreateFind(q) \/ CreateUpsert(q) \/ StartFind(q) \/ StartBind(q)
  \/ StartAgain(q) \/ TeardownFind(q) \/ StopFind(q) \/ StopLatest(q) \/ StopMark(q)
  \/ StopKill(q) \/ ReleaseFind(q) \/ Release(q) \/ DeleteFind(q) \/ DeleteView(q) \/ Delete(q)

=============================================================================
