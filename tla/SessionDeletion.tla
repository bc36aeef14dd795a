---------------------------- MODULE SessionDeletion ----------------------------
(***************************************************************************)
(* DELETE /session (http/routes/sessionRoutes.mjs), its journalled work-   *)
(* flow (persistence/sessionDeletion.mjs) and the reconciliation at the    *)
(* next start (persistence/sessionDeletionReconciler.mjs), over the        *)
(* session's routines, its owner row, its runner and the agent's file.     *)
(*                                                                         *)
(* The stages recorded in the journal are read by nobody and left out: a   *)
(* stage's update and its first operation are one.  The runner and the     *)
(* hublots appear only through what they report; RunnerLifecycle and       *)
(* Hublots model them.                                                     *)
(***************************************************************************)
EXTENDS Routines

CONSTANTS MaxCalls,   \* bound on routine requests and deletions together
          MaxCrashes  \* bound on crashes of the server

ASSUME SessionDeletionAssumption == MaxCalls \in Nat /\ MaxCrashes \in Nat

VARIABLES
  agent,    \* whether the agent's session file exists
  runner,   \* the session's runner; "orphan" is a process without a runner
  op,       \* the delete_session rows of the operations table
  deleter,  \* the workflow of each request
  recover,  \* the reconciliation of the deletions found at the start
  calls,
  crashes

vars == <<routineVars, agent, runner, op, deleter, recover, calls, crashes>>

NoOp == [status |-> "none", owner |-> None, error |-> "none"]
NoDeleter == [step |-> "no", owner |-> None, runner |-> FALSE, todo |-> {}]
Recovered == [todo |-> {}, step |-> "match"]

Init ==
  /\ RoutinesInit
  /\ agent = "present"
  /\ runner = "live"
  /\ op = [d \in Deletions |-> NoOp]
  /\ deleter = [d \in Deletions |-> NoDeleter]
  /\ recover = Recovered
  /\ calls = 0
  /\ crashes = 0

\* The first activation, which reconciles, is over before the server listens.
Accepting == recover.todo = {}

Call == Accepting /\ calls < MaxCalls /\ calls' = calls + 1

deletionVars == <<agent, runner, op, deleter, recover, calls, crashes>>
-----------------------------------------------------------------------------
(* Routines and prompts while sessions are deleted *)

\* Slots are alike: a request takes the one CHOOSE picks.
FreeSlot == CHOOSE q \in Requests : request[q] = Idle

\* A request that binds a routine finds the session through its runner or file.
SessionKnown == runner \in {"live", "stopped"} \/ agent = "present"

AskRoutine(q) ==
  /\ Call /\ request[q] = Idle /\ q = FreeSlot
  /\ \E r \in Routines :
       \/ \E action \in {"create", "start"}, bind \in BOOLEAN :
            (bind => SessionKnown) /\ Ask(q, action, r, bind)
       \/ \E action \in {"stop", "teardown", "release", "delete"} : Ask(q, action, r, FALSE)
  /\ UNCHANGED <<agent, runner, op, deleter, recover, crashes>>

\* A prompt starts the stopped runner again, deletion or not.
Prompt ==
  /\ Accepting /\ runner = "stopped"
  /\ runner' = "live"
  /\ UNCHANGED <<routineVars, agent, op, deleter, recover, calls, crashes>>

-----------------------------------------------------------------------------
(* The workflow *)

FreeDeletion == CHOOSE d \in Deletions : op[d].status = "none" /\ deleter[d].step = "no"

\* The route captures the session's runners; it does not ask whether the
\* session exists.
DeleteSession(d) ==
  /\ Call /\ op[d].status = "none" /\ deleter[d].step = "no" /\ d = FreeDeletion
  /\ deleter' = [deleter EXCEPT ![d].step = "owner",
                                ![d].runner = runner \in {"live", "stopped"}]
  /\ Starts(<<"deletion", d>>)
  /\ UNCHANGED <<def, script, runtime, request, owner, agent, runner, op, recover, crashes>>

To(d, step) == deleter' = [deleter EXCEPT ![d].step = step]
StepOf(d, step) == Turn(<<"deletion", d>>) /\ deleter[d].step = step
Frame == UNCHANGED <<recover, calls, crashes>>

EnsureDeletedOwner(d) ==
  /\ StepOf(d, "owner")
  /\ Upsert
  /\ deleter' = [deleter EXCEPT ![d].step = "journal", ![d].owner = owner']
  /\ Awaits(<<"deletion", d>>)
  /\ UNCHANGED <<def, script, runtime, request, agent, runner, op>> /\ Frame

\* The operation is created and the owner marked, or neither.
Journal(d) ==
  /\ StepOf(d, "journal")
  /\ IF owner = deleter[d].owner
     THEN /\ op' = [op EXCEPT ![d] = [NoOp EXCEPT !.status = "running", !.owner = owner]]
          /\ To(d, "runners") /\ Awaits(<<"deletion", d>>)
     ELSE deleter' = [deleter EXCEPT ![d] = NoDeleter] /\ Ends /\ UNCHANGED op
  /\ UNCHANGED <<def, script, runtime, request, owner, agent, runner>> /\ Frame

StopRunners(d) ==
  /\ StepOf(d, "runners")
  /\ runner' = IF deleter[d].runner /\ runner = "live" THEN "stopped" ELSE runner
  /\ To(d, "list") /\ Awaits(<<"deletion", d>>)
  /\ UNCHANGED <<def, script, runtime, request, owner, agent, op>> /\ Frame

Bound == {r \in Routines : def[r] = "bound"}

\* stopSessionRoutines calls stopRoutine for each active routine in turn.
StopNext(d, todo) ==
  LET active == {r \in todo : Active(r)} IN
  IF active = {}
  THEN /\ To(d, "agent") /\ Awaits(<<"deletion", d>>) /\ UNCHANGED request
  ELSE LET r == CHOOSE r \in active : TRUE IN
       /\ deleter' = [deleter EXCEPT ![d].step = "stopping", ![d].todo = active \ {r}]
       /\ request' = [request EXCEPT ![d] = [Idle EXCEPT !.op = "stop", !.step = "find", !.of = r]]
       /\ Awaits(<<"request", d>>)

ListToStop(d) ==
  /\ StepOf(d, "list") /\ StopNext(d, Bound)
  /\ UNCHANGED <<def, script, runtime, owner, agent, runner, op>> /\ Frame

StopAnother(d) ==
  /\ StepOf(d, "stopping") /\ StopNext(d, deleter[d].todo)
  /\ UNCHANGED <<def, script, runtime, owner, agent, runner, op>> /\ Frame

\* The stage is recorded; the agent's repository and the hublots take their time.
BeginExternal(d) ==
  /\ Turn(<<"deletion", d>>) /\ deleter[d].step \in {"agent", "hublots"}
  /\ To(d, IF deleter[d].step = "agent" THEN "deleting" ELSE "closing")
  /\ Ends
  /\ UNCHANGED <<def, script, runtime, request, owner, agent, runner, op>> /\ Frame

\* Mutant: a session file that could not be deleted is passed over.
PassedOver(d) == "hublots"

\* What follows a failure: the operation is recorded failed.
AfterFailure(d) == "fail"

\* deleteSession removes the file or throws, as it may when the file is gone.
DeleteAgentSession(d) ==
  /\ deleter[d].step = "deleting"
  /\ \/ agent' = "gone" /\ To(d, "hublots")
     \/ UNCHANGED agent /\ To(d, AfterFailure(d))
  /\ Starts(<<"deletion", d>>)
  /\ UNCHANGED <<def, script, runtime, request, owner, runner, op>> /\ Frame

\* closeSessionHublots throws when a process of theirs would not stop.
CloseHublots(d) ==
  /\ deleter[d].step = "closing"
  /\ To(d, "list2") \/ To(d, "fail")
  /\ Starts(<<"deletion", d>>)
  /\ UNCHANGED <<def, script, runtime, request, owner, agent, runner, op>> /\ Frame

\* Mutant: the process of a deleted routine is detached but not signalled.
NotSignalled(p) == script

\* SIGKILL, whatever the grace period of an earlier stop.
Killed(p) == Signalled({p})

\* deleteSessionRoutines detaches and kills what it finds running, awaits its
\* completion, and deletes the definition after another read.
DeleteNext(d, todo) ==
  IF todo = {}
  THEN /\ To(d, "commit") /\ Awaits(<<"deletion", d>>)
       /\ UNCHANGED <<runtime, request>> /\ script' = script
  ELSE LET r == CHOOSE r \in todo : TRUE
           p == runtime[r]
       IN  /\ deleter' = [deleter EXCEPT ![d].step = "view", ![d].todo = todo]
           /\ IF p # None
              THEN /\ script' = Killed(p)
                   /\ runtime' = [runtime EXCEPT ![r] = None]
                   /\ request' = [request EXCEPT ![d] = [Idle EXCEPT !.op = "await", !.script = p]]
                   /\ Ends
              ELSE /\ Awaits(<<"deletion", d>>)
                   /\ UNCHANGED <<runtime, request>> /\ script' = script

\* The bound routines are listed once and deleted one after the other.
ListToDelete(d) ==
  /\ Turn(<<"deletion", d>>) /\ deleter[d].step \in {"list2", "next"}
  /\ DeleteNext(d, IF deleter[d].step = "list2" THEN Bound ELSE deleter[d].todo)
  /\ UNCHANGED <<def, owner, agent, runner, op>> /\ Frame

ViewDeleted(d) ==
  /\ StepOf(d, "view")
  /\ To(d, "delete") /\ Awaits(<<"deletion", d>>)
  /\ UNCHANGED <<def, script, runtime, request, owner, agent, runner, op>> /\ Frame

Subject(d) == CHOOSE r \in deleter[d].todo : TRUE

DeleteDefinition(d) ==
  LET rest == deleter[d].todo \ {Subject(d)} IN
  /\ StepOf(d, "delete")
  /\ def' = [def EXCEPT ![Subject(d)] = "absent"]
  /\ script' = Cascade({Subject(d)})
  /\ deleter' = [deleter EXCEPT ![d].step = IF rest = {} THEN "commit" ELSE "next",
                                ![d].todo = rest]
  /\ Awaits(<<"deletion", d>>)
  /\ UNCHANGED <<runtime, request, owner, agent, runner, op>> /\ Frame

\* Deleting the owner's row deletes the routines bound to it and detaches the
\* operations of its deletions.
OwnerDeleted ==
  /\ owner' = None
  /\ def' = [r \in Routines |-> IF r \in Bound THEN "absent" ELSE def[r]]
  /\ script' = Cascade(Bound)

Detached == [d \in Deletions |-> IF op[d].owner = owner THEN [op[d] EXCEPT !.owner = None] ELSE op[d]]

\* The owner must still be there; then the runners are removed from the runtime.
Commit(d) ==
  /\ StepOf(d, "commit")
  /\ IF owner = deleter[d].owner
     THEN /\ OwnerDeleted /\ op' = Detached
          /\ runner' = IF ~deleter[d].runner THEN runner
                       ELSE IF runner = "live" THEN "orphan" ELSE "removed"
          /\ To(d, "complete")
     ELSE To(d, "fail") /\ UNCHANGED <<def, script, owner, op, runner>>
  /\ Awaits(<<"deletion", d>>)
  /\ UNCHANGED <<runtime, request, agent>> /\ Frame

Finish(d, status, error) ==
  /\ op' = [op EXCEPT ![d].status = status, ![d].error = error]
  /\ deleter' = [deleter EXCEPT ![d] = NoDeleter]
  /\ Ends
  /\ UNCHANGED <<def, script, runtime, request, owner, agent, runner>> /\ Frame

Complete(d) == StepOf(d, "complete") /\ Finish(d, "completed", "none")
RecordFailure(d) == StepOf(d, "fail") /\ Finish(d, "failed", "workflow")

-----------------------------------------------------------------------------
(* Crash and reconciliation *)

\* Runs and operations in progress are marked interrupted at the next start; a
\* script has its own process group and may outlive the server, unattended.
Crash ==
  /\ crashes < MaxCrashes
  /\ crashes' = crashes + 1
  /\ \E survivors \in SUBSET {p \in Scripts : Alive(p)} :
       script' = [p \in Scripts |->
         [script[p] EXCEPT
            !.os = IF @ = "unborn" \/ p \in survivors THEN @ ELSE "dead",
            !.row = IF @ \in {"running", "teardown", "stopping"} THEN "interrupted" ELSE @,
            !.step = IF @ = "no" THEN @ ELSE IF p \in survivors THEN "outlived" ELSE "end"]]
  /\ runtime' = [r \in Routines |-> None]
  /\ request' = [q \in Callers |-> Idle]
  /\ queue' = <<>>
  /\ runner' = IF runner = "orphan" THEN "orphan" ELSE "removed"
  /\ deleter' = [d \in Deletions |-> NoDeleter]
  /\ op' = [d \in Deletions |->
              IF op[d].status = "running" THEN [op[d] EXCEPT !.status = "interrupted"] ELSE op[d]]
  /\ recover' = [Recovered EXCEPT !.todo = {d \in Deletions : op[d].status \notin {"none", "completed"}}]
  /\ UNCHANGED <<def, owner, agent, calls>>

Recovering(step) == ~Accepting /\ recover.step = step
Current == CHOOSE d \in recover.todo : TRUE
NextOp == [todo |-> recover.todo \ {Current}, step |-> "match"]
RecoverFrame == UNCHANGED <<runtime, request, queue, runner, deleter, calls, crashes>>

\* Mutant: a missing owner never matches.
SameOwner == op[Current].owner = owner

\* requireMatchingOwner: an operation whose owner row is gone passes.
Matches == op[Current].owner \in {None, owner}

RecoverFails(error) ==
  /\ op' = [op EXCEPT ![Current].status = "failed", ![Current].error = error]
  /\ recover' = NextOp

\* The agent's session is deleted if it still exists.
RecoverAgent ==
  /\ Recovering("match")
  /\ \/ ~Matches /\ RecoverFails("owner") /\ UNCHANGED agent
     \/ /\ Matches
        /\ agent' = "gone" /\ recover' = [recover EXCEPT !.step = "resources"] /\ UNCHANGED op
     \/ Matches /\ agent = "present" /\ RecoverFails("external") /\ UNCHANGED agent
  /\ UNCHANGED <<def, script, owner>> /\ RecoverFrame

\* The hublots are closed, or one will not stop, and the routines deleted.
RecoverResources ==
  /\ Recovering("resources")
  /\ \/ /\ def' = [r \in Routines |-> IF r \in Bound THEN "absent" ELSE def[r]]
        /\ script' = Cascade(Bound)
        /\ recover' = [recover EXCEPT !.step = "commit"] /\ UNCHANGED op
     \/ RecoverFails("external") /\ UNCHANGED <<def, script>>
  /\ UNCHANGED <<owner, agent>> /\ RecoverFrame

\* The owner is matched again and deleted, if it is there, and the operation
\* completed in the same transaction.
RecoverCommit ==
  /\ Recovering("commit")
  /\ \/ /\ Matches
        /\ OwnerDeleted
        /\ op' = [Detached EXCEPT ![Current].status = "completed", ![Current].error = "none"]
        /\ recover' = NextOp
     \/ ~Matches /\ RecoverFails("owner") /\ UNCHANGED <<def, script, owner>>
  /\ UNCHANGED agent /\ RecoverFrame

-----------------------------------------------------------------------------

DeletionSteps(d) ==
  \/ EnsureDeletedOwner(d) \/ Journal(d) \/ StopRunners(d) \/ ListToStop(d) \/ StopAnother(d)
  \/ BeginExternal(d) \/ ListToDelete(d) \/ ViewDeleted(d) \/ DeleteDefinition(d)
  \/ Commit(d) \/ Complete(d) \/ RecordFailure(d)

\* The store serves the first task in its queue.
Store == \/ \E p \in Scripts : ScriptSteps(p) /\ UNCHANGED deletionVars
         \/ \E q \in Callers : RequestSteps(q) /\ UNCHANGED deletionVars
         \/ \E d \in Deletions : DeletionSteps(d)

\* What ends without the store: the handling of a close, a catalog's answer,
\* the stages of a deletion that others do.
Handled == \E p \in Scripts : ClearRuntime(p) /\ UNCHANGED deletionVars
Found == \E q \in Requests : Resolve(q) /\ UNCHANGED deletionVars
External == \E d \in Deletions : DeleteAgentSession(d) \/ CloseHublots(d)

Exit == \E p \in Scripts : Closes(p) /\ UNCHANGED deletionVars

\* A signalled process exits, at the latest when its kill timer fires.
Kill == \E p \in Scripts : /\ script[p].os = "told" /\ script[p].step # "outlived"
                           /\ Closes(p) /\ UNCHANGED deletionVars

Recover == RecoverAgent \/ RecoverResources \/ RecoverCommit

Next ==
  \/ Store \/ Handled \/ Found \/ External \/ Exit \/ Recover
  \/ \E q \in Requests : AskRoutine(q)
  \/ \E d \in Deletions : DeleteSession(d)
  \/ Prompt \/ Crash

Spec == Init /\ [][Next]_vars

\* The store answers, closes are handled and a kill timer fires; nobody has to
\* send a request.
Fairness == WF_vars(Store) /\ WF_vars(Handled) /\ WF_vars(Kill)

FairSpec == Spec /\ Fairness

-----------------------------------------------------------------------------
(* Properties *)

\* Every variable keeps its type.
TypeOK ==
  /\ def \in [Routines -> {"absent", "free", "bound"}]
  /\ script \in [Scripts -> [os : {"unborn", "live", "told", "dead"}, of : Routines \cup {"none"},
                             mode : {"run", "teardown"},
                             row : Settled \cup {"none", "running", "teardown", "stopping", "deleted"},
                             step : {"no", "create", "progress", "listen", "lost", "closed", "find",
                                     "stopped", "finish", "end", "outlived"}]]
  /\ runtime \in [Routines -> Scripts \cup {None}]
  /\ request \in [Callers -> [op : {"no", "create", "start", "stop", "teardown", "release", "delete", "await"},
                               step : {"no", "look", "owner", "cwd", "find", "upsert", "bind", "again",
                                       "latest", "mark", "kill", "release", "view", "delete"},
                               of : Routines \cup {"none"}, bind : BOOLEAN, owner : OwnerIds \cup {None},
                               script : Scripts \cup {None}, run : Scripts \cup {None}]]
  /\ owner \in OwnerIds \cup {None}
  /\ runner \in {"live", "stopped", "removed", "orphan"}
  /\ op \in [Deletions -> [status : {"none", "running", "failed", "interrupted", "completed"},
                           owner : OwnerIds \cup {None}, error : {"none", "workflow", "owner", "external"}]]
  /\ recover.todo \subseteq Deletions
  /\ \A i \in 1..Len(queue) : \A j \in 1..(i - 1) : queue[i] # queue[j]

\* Another process of the same routine was spawned while p was active.
Replaced(p) == \E q \in Scripts : q > p /\ script[q].of = script[p].of

\* A script that this server runs and has not told to exit is the one its
\* runtime map holds, so that the shutdown reaches it, and stopRoutine and the
\* deletion as long as its definition is there.  Only a second start that was
\* already past its test replaces it (runScript).
TrackedUntilDead ==
  \A p \in Scripts :
    script[p].os = "live" /\ script[p].step # "outlived"
      => runtime[script[p].of] = p \/ Replaced(p)

\* A settled run stays as it was settled: a stop that read the run before it
\* finished cannot mark it stopping afterwards, because the store serves the
\* operations of stopRoutine and finishRoutineProcess in the order of issue.
SettledStays ==
  [][\A p \in Scripts : script[p].row \in Settled => script'[p].row \in {script[p].row, "deleted"}]_vars

\* A run that is being stopped is settled in the end, even if its script ended
\* before runScript attached its listeners; a replaced one is left stopping.
StoppingSettles ==
  \A p \in Scripts : script[p].row = "stopping" ~> script[p].row # "stopping" \/ Replaced(p)

\* While the agent still has the session, its owner row - and with it every
\* resource bound to it - is kept and no deletion counts as completed: a
\* failure or a crash before the agent's deletion loses nothing.
AgentGoneFirst ==
  agent = "present" => owner = 1 /\ \A d \in Deletions : op[d].status # "completed"

\* When the server accepts requests again, every deletion that the stop found
\* at whatever stage is completed, or failed for a refusal of the agent's
\* repository or of a hublot: its owner never fails to match, also after
\* another deletion or a late request removed or recreated it.
DeletionRecovered ==
  /\ \A d \in Deletions : op[d].error # "owner"
  /\ Accepting => \A d \in Deletions : op[d].status # "interrupted"

\* A deleted session has no agent process: stopRunners comes first, but a
\* prompt may start the runner again before removeRuntime drops it.
DeletedSessionHasNoAgent == runner # "orphan"

=============================================================================
