------------------------ MODULE SessionDeletion_proofs ------------------------
(***************************************************************************)
(* Proofs about SessionDeletion: a session's deletion loses nothing while  *)
(* the agent still has it, one that a stop of the server cut short is      *)
(* always taken up, and the routines beside it keep their processes and    *)
(* their settled runs.                                                     *)
(*                                                                         *)
(* The first two need the same two facts.  Whoever is past the agent's     *)
(* deletion, the workflow or the reconciliation, knows that the file is    *)
(* gone; and an operation names the owner row that is there or none,       *)
(* because the deletion of a row detaches the operations that named it.    *)
(*                                                                         *)
(* The routines need the order in which the store serves the operations:   *)
(* everybody waits for at most one, and what a stop found (FoundByStop)    *)
(* and read (ReadByStop) is settled by operations that wait behind its     *)
(* own.                                                                    *)
(***************************************************************************)
EXTENDS SessionDeletion, FiniteSetTheorems, TLAPS

\* The steps of the workflow that follow the agent's deletion.
AgentDone == {"hublots", "closing", "list2", "next", "view", "delete", "commit", "complete"}
DeletionStepNames ==
  {"no", "owner", "journal", "runners", "list", "stopping", "agent", "deleting", "fail"} \cup AgentDone
Owners == OwnerIds \cup {None}

Deleters == [step : DeletionStepNames, owner : Owners, runner : BOOLEAN, todo : SUBSET Routines]
Operations == [status : {"none", "running", "failed", "interrupted", "completed"},
               owner : Owners, error : {"none", "workflow", "owner", "external"}]
Recoveries == [todo : SUBSET Deletions, step : {"match", "resources", "commit"}]

Typed ==
  /\ owner \in Owners
  /\ agent \in {"present", "gone"}
  /\ op \in [Deletions -> Operations]
  /\ deleter \in [Deletions -> Deleters]
  /\ recover \in Recoveries

\* While the agent has the session, nobody is past its deletion.
NobodyAhead ==
  agent = "present" => /\ owner = 1
                       /\ recover.step = "match"
                       /\ \A d \in Deletions : /\ deleter[d].step \notin AgentDone
                                               /\ op[d].status # "completed"

\* What is known of an operation, given the owner row and what is to recover.
Known(o, id) == o.owner \in {None, id} /\ o.error # "owner"
Recalled(o, d, todo) == o.status = "interrupted" => d \in todo

Inv ==
  /\ Typed
  /\ NobodyAhead
  /\ \A d \in Deletions : Known(op[d], owner) /\ Recalled(op[d], d, recover.todo)

-----------------------------------------------------------------------------
(* Steps of one request, or of nobody here *)

LEMMA Upserted ==
  ASSUME Inv, Upsert \/ UNCHANGED owner
  PROVE  /\ owner' \in Owners
         /\ owner' = owner \/ owner = None
BY DEF Upsert, Inv, Typed, Owners

\* A deletion moves on and may write its own operation.
LEMMA OneMoves ==
  ASSUME Inv, NEW d \in Deletions, NEW n \in Deleters, NEW o \in Operations,
         deleter' = [deleter EXCEPT ![d] = n], op' = [op EXCEPT ![d] = o],
         UNCHANGED recover, Upsert \/ UNCHANGED owner,
         UNCHANGED agent \/ agent' = "gone",
         agent' = "present" => n.step \notin AgentDone /\ o.status # "completed",
         Known(o, owner'), Recalled(o, d, recover.todo)
  PROVE  Inv'
<1>1. owner' \in Owners /\ (owner' = owner \/ owner = None)
  BY Upserted
<1>2. /\ op \in [Deletions -> Operations] /\ deleter \in [Deletions -> Deleters]
      /\ recover \in Recoveries /\ agent \in {"present", "gone"}
  BY DEF Inv, Typed
<1>3. Typed'
  BY <1>1, <1>2 DEF Typed
<1>4. ASSUME NEW c \in Deletions
      PROVE  /\ c = d => deleter'[c] = n /\ op'[c] = o
             /\ c # d => deleter'[c] = deleter[c] /\ op'[c] = op[c]
  BY <1>2
<1>5. NobodyAhead'
  <2> SUFFICES ASSUME agent' = "present"
               PROVE  /\ owner' = 1 /\ recover'.step = "match"
                      /\ \A c \in Deletions : /\ deleter'[c].step \notin AgentDone
                                              /\ op'[c].status # "completed"
    BY DEF NobodyAhead
  <2>1. agent = "present"
    OBVIOUS
  <2>2. /\ owner = 1 /\ recover.step = "match"
        /\ \A c \in Deletions : deleter[c].step \notin AgentDone /\ op[c].status # "completed"
    BY <2>1 DEF Inv, NobodyAhead
  <2>3. owner' = 1
    BY <1>1, <2>2 DEF None
  <2> QED BY <1>4, <2>2, <2>3
<1>6. ASSUME NEW c \in Deletions
      PROVE  Known(op'[c], owner') /\ Recalled(op'[c], c, recover'.todo)
  <2>1. CASE c = d
    BY <1>4, <2>1
  <2>2. CASE c # d
    <3>1. Known(op[c], owner) /\ Recalled(op[c], c, recover.todo)
      BY DEF Inv
    <3>2. op'[c] = op[c] /\ recover' = recover
      BY <1>4, <2>2
    <3> QED BY <1>1, <3>1, <3>2 DEF Known, Recalled
  <2> QED BY <2>1, <2>2
<1> QED BY <1>3, <1>5, <1>6 DEF Inv

\* Only the workflow of d changes.
LEMMA Moves ==
  ASSUME Inv, NEW d \in Deletions, NEW n \in Deleters,
         deleter' = [deleter EXCEPT ![d] = n], UNCHANGED <<op, recover>>,
         Upsert \/ UNCHANGED owner, UNCHANGED agent \/ agent' = "gone",
         agent' = "present" => n.step \notin AgentDone
  PROVE  Inv'
<1>1. op[d] \in Operations /\ op' = [op EXCEPT ![d] = op[d]]
  BY DEF Inv, Typed
<1>2. Known(op[d], owner) /\ Recalled(op[d], d, recover.todo)
  BY DEF Inv
<1>3. Known(op[d], owner')
  BY <1>2, Upserted DEF Known
<1>4. agent' = "present" => op[d].status # "completed"
  BY DEF Inv, NobodyAhead
<1> QED BY <1>1, <1>2, <1>3, <1>4, OneMoves

LEMMA StepsTo ==
  ASSUME Inv, NEW d \in Deletions, NEW step \in DeletionStepNames, To(d, step),
         UNCHANGED <<op, recover, owner>>, UNCHANGED agent \/ agent' = "gone",
         agent' = "present" => step \notin AgentDone
  PROVE  Inv'
<1> DEFINE n == [deleter[d] EXCEPT !.step = step]
<1>1. deleter \in [Deletions -> Deleters]
  BY DEF Inv, Typed
<1>2. deleter' = [deleter EXCEPT ![d] = n]
  BY <1>1 DEF To
<1>3. n \in Deleters /\ n.step = step
  <2> DEFINE r == deleter[d]
  <2>1. r \in Deleters
    BY <1>1
  <2> HIDE DEF r
  <2>2. [r EXCEPT !.step = step] \in Deleters /\ [r EXCEPT !.step = step].step = step
    BY <2>1 DEF Deleters
  <2> QED BY <2>2 DEF r
<1> HIDE DEF n
<1> QED BY <1>2, <1>3, Moves

\* The steps that also change what is left to do.
LEMMA StepsWith ==
  ASSUME Inv, NEW d \in Deletions, NEW step \in DeletionStepNames, NEW todo \in SUBSET Routines,
         deleter' = [deleter EXCEPT ![d].step = step, ![d].todo = todo],
         UNCHANGED <<op, recover, owner, agent>>,
         agent = "present" => step \notin AgentDone
  PROVE  Inv'
<1> DEFINE n == [deleter[d] EXCEPT !.step = step, !.todo = todo]
<1>1. deleter \in [Deletions -> Deleters]
  BY DEF Inv, Typed
<1>2. deleter' = [deleter EXCEPT ![d] = n]
  BY <1>1
<1>3. n \in Deleters /\ n.step = step
  <2> DEFINE r == deleter[d]
  <2>1. r \in Deleters
    BY <1>1
  <2> HIDE DEF r
  <2>2. /\ [r EXCEPT !.step = step, !.todo = todo] \in Deleters
        /\ [r EXCEPT !.step = step, !.todo = todo].step = step
    BY <2>1 DEF Deleters
  <2> QED BY <2>2 DEF r
<1> HIDE DEF n
<1> QED BY <1>2, <1>3, Moves

\* Somebody past the agent's deletion is a witness of it.
LEMMA Witness ==
  ASSUME Inv, NEW d \in Deletions, deleter[d].step \in AgentDone
  PROVE  agent # "present"
BY DEF Inv, NobodyAhead

LEMMA QuietKeeps ==
  ASSUME Inv, UNCHANGED <<agent, op, deleter, recover>>, Upsert \/ UNCHANGED owner
  PROVE  Inv'
<1>1. owner' \in Owners /\ (owner' = owner \/ owner = None)
  BY Upserted
<1>2. Typed'
  BY <1>1 DEF Inv, Typed
<1>3. NobodyAhead'
  BY <1>1 DEF Inv, NobodyAhead, None
<1>4. \A d \in Deletions : Known(op[d], owner')
  BY <1>1 DEF Inv, Known
<1> QED BY <1>2, <1>3, <1>4 DEF Inv
-----------------------------------------------------------------------------
(* The workflow *)

LEMMA Begins ==
  ASSUME Inv, NEW d \in Deletions, DeleteSession(d) \/ EnsureDeletedOwner(d)
  PROVE  Inv'
<1>1. deleter \in [Deletions -> Deleters] /\ deleter[d] \in Deleters
  BY DEF Inv, Typed
<1> DEFINE r == deleter[d]
           known == runner \in {"live", "stopped"}
<1>2. CASE DeleteSession(d)
  <2> DEFINE n == [r EXCEPT !.step = "owner", !.runner = known]
  <2>1. deleter' = [deleter EXCEPT ![d] = n] /\ UNCHANGED <<op, recover, owner, agent>>
    BY <1>1, <1>2 DEF DeleteSession
  <2>2. known \in BOOLEAN
    OBVIOUS
  <2>3. n \in Deleters /\ n.step \notin AgentDone
    <3> HIDE DEF r, known
    <3> QED BY <1>1, <2>2 DEF Deleters, DeletionStepNames, AgentDone, r
  <2> QED BY <2>1, <2>3, Moves
<1>3. CASE EnsureDeletedOwner(d)
  <2> DEFINE n == [r EXCEPT !.step = "journal", !.owner = owner']
  <2>1. /\ deleter' = [deleter EXCEPT ![d] = n] /\ UNCHANGED <<op, recover, agent>> /\ Upsert
    BY <1>1, <1>3 DEF EnsureDeletedOwner, Frame
  <2>2. owner' \in Owners
    BY <2>1, Upserted
  <2>3. n \in Deleters /\ n.step \notin AgentDone
    <3> HIDE DEF r
    <3> QED BY <1>1, <2>2 DEF Deleters, DeletionStepNames, AgentDone, r
  <2> HIDE DEF n
  <2> QED BY <2>1, <2>3, Moves
<1> QED BY <1>2, <1>3

LEMMA NoDeleterTyped == NoDeleter \in Deleters /\ NoDeleter.step \notin AgentDone
<1> DEFINE no == FALSE
           none == {}
           nobody == 0
           n == [step |-> "no", owner |-> nobody, runner |-> no, todo |-> none]
<1>1. no \in BOOLEAN /\ none \in SUBSET Routines /\ nobody \in Owners
  BY DEF Owners, None
<1> HIDE DEF no, none, nobody
<1>2. n \in Deleters /\ n.step = "no"
  BY <1>1 DEF Deleters, DeletionStepNames
<1>3. NoDeleter = n
  BY DEF NoDeleter, None, no, none, nobody
<1> HIDE DEF n
<1> QED BY <1>2, <1>3 DEF AgentDone

LEMMA NoOpTyped ==
  NoOp \in Operations /\ NoOp.status = "none" /\ NoOp.error = "none" /\ NoOp.owner = None
<1> DEFINE nobody == None
           o == [status |-> "none", owner |-> nobody, error |-> "none"]
<1>1. nobody \in Owners /\ nobody = None
  BY DEF Owners
<1> HIDE DEF nobody
<1>2. o \in Operations /\ o.status = "none" /\ o.error = "none" /\ o.owner = nobody
  BY <1>1 DEF Operations
<1>3. NoOp = o
  BY DEF NoOp, nobody
<1> HIDE DEF o
<1> QED BY <1>1, <1>2, <1>3

LEMMA Journals ==
  ASSUME Inv, NEW d \in Deletions, Journal(d)
  PROVE  Inv'
<1>1. deleter \in [Deletions -> Deleters] /\ owner \in Owners
  BY DEF Inv, Typed
<1>2. UNCHANGED <<owner, agent, recover>>
  BY DEF Journal, Frame
<1>3. CASE op' = [op EXCEPT ![d] = [NoOp EXCEPT !.status = "running", !.owner = owner]]
             /\ To(d, "runners")
  <2> DEFINE r == deleter[d]
             n == [r EXCEPT !.step = "runners"]
             o == [NoOp EXCEPT !.status = "running", !.owner = owner]
  <2>1. deleter' = [deleter EXCEPT ![d] = n] /\ op' = [op EXCEPT ![d] = o]
    BY <1>1, <1>3 DEF To
  <2>2. n \in Deleters /\ n.step \notin AgentDone
    <3>1. r \in Deleters
      BY <1>1
    <3> HIDE DEF r
    <3> QED BY <3>1 DEF Deleters, DeletionStepNames, AgentDone
  <2>3. /\ o \in Operations /\ o.owner = owner /\ o.error = "none" /\ o.status = "running"
    <3> DEFINE id == owner
    <3>1. id \in Owners
      BY <1>1
    <3>2. NoOp \in Operations /\ NoOp.error = "none"
      BY NoOpTyped
    <3> HIDE DEF id
    <3>3. /\ [NoOp EXCEPT !.status = "running", !.owner = id] \in Operations
          /\ [NoOp EXCEPT !.status = "running", !.owner = id].owner = id
          /\ [NoOp EXCEPT !.status = "running", !.owner = id].error = "none"
          /\ [NoOp EXCEPT !.status = "running", !.owner = id].status = "running"
      BY <3>1, <3>2 DEF Operations
    <3> QED BY <3>3 DEF id
  <2> HIDE DEF n, o
  <2>4. Known(o, owner') /\ Recalled(o, d, recover.todo)
    BY <1>2, <2>3 DEF Known, Recalled
  <2> QED BY <1>2, <2>1, <2>2, <2>3, <2>4, OneMoves
<1>4. CASE deleter' = [deleter EXCEPT ![d] = NoDeleter] /\ UNCHANGED op
  BY <1>2, <1>4, NoDeleterTyped, Moves
<1> QED BY <1>3, <1>4 DEF Journal

\* Up to the agent's deletion, and the stages after it that change no table.
LEMMA Stages ==
  ASSUME Inv, NEW d \in Deletions,
         \/ StopRunners(d) \/ BeginExternal(d) \/ DeleteAgentSession(d) \/ CloseHublots(d)
         \/ ViewDeleted(d)
  PROVE  Inv'
<1>1. CASE StopRunners(d)
  BY <1>1, StepsTo DEF StopRunners, Frame, DeletionStepNames, AgentDone
<1>2. CASE BeginExternal(d)
  <2>1. UNCHANGED <<op, recover, owner, agent>>
    BY <1>2 DEF BeginExternal, Frame
  <2>2. CASE deleter[d].step = "agent"
    <3>1. To(d, "deleting")
      BY <1>2, <2>2 DEF BeginExternal
    <3> QED BY <2>1, <3>1, StepsTo DEF DeletionStepNames, AgentDone
  <2>3. CASE deleter[d].step = "hublots"
    <3>1. To(d, "closing")
      BY <1>2, <2>3 DEF BeginExternal
    <3>2. agent # "present"
      BY <2>3, Witness DEF AgentDone
    <3> QED BY <2>1, <3>1, <3>2, StepsTo DEF DeletionStepNames, AgentDone
  <2> QED BY <1>2, <2>2, <2>3 DEF BeginExternal
<1>3. CASE DeleteAgentSession(d)
  <2>1. UNCHANGED <<op, recover, owner>>
    BY <1>3 DEF DeleteAgentSession, Frame
  <2>2. CASE agent' = "gone" /\ To(d, "hublots")
    BY <2>1, <2>2, StepsTo DEF DeletionStepNames, AgentDone
  <2>3. CASE UNCHANGED agent /\ To(d, "fail")
    BY <2>1, <2>3, StepsTo DEF DeletionStepNames, AgentDone
  <2> QED BY <1>3, <2>2, <2>3 DEF DeleteAgentSession, AfterFailure
<1>4. CASE CloseHublots(d)
  <2>1. UNCHANGED <<op, recover, owner, agent>>
    BY <1>4 DEF CloseHublots, Frame
  <2>2. agent # "present"
    BY <1>4, Witness DEF CloseHublots, AgentDone
  <2>3. CASE To(d, "list2")
    BY <2>1, <2>2, <2>3, StepsTo DEF DeletionStepNames, AgentDone
  <2>4. CASE To(d, "fail")
    BY <2>1, <2>4, StepsTo DEF DeletionStepNames, AgentDone
  <2> QED BY <1>4, <2>3, <2>4 DEF CloseHublots
<1>5. CASE ViewDeleted(d)
  <2>1. UNCHANGED <<op, recover, owner, agent>> /\ To(d, "delete")
    BY <1>5 DEF ViewDeleted, Frame
  <2>2. agent # "present"
    BY <1>5, Witness DEF ViewDeleted, StepOf, AgentDone
  <2> QED BY <2>1, <2>2, StepsTo DEF DeletionStepNames, AgentDone
<1> QED BY <1>1, <1>2, <1>3, <1>4, <1>5

LEMMA RoutineStages ==
  ASSUME Inv, NEW d \in Deletions,
         ListToStop(d) \/ StopAnother(d) \/ ListToDelete(d) \/ DeleteDefinition(d)
  PROVE  Inv'
<1>1. UNCHANGED <<op, recover, owner, agent>>
  BY DEF ListToStop, StopAnother, ListToDelete, DeleteDefinition, Frame
<1>2. deleter[d].todo \in SUBSET Routines
  BY DEF Inv, Typed, Deleters
<1>3. Bound \in SUBSET Routines
  BY DEF Bound
<1>4. ASSUME NEW todo \in SUBSET Routines, StopNext(d, todo)
      PROVE  Inv'
  <2> DEFINE active == {r \in todo : Active(r)}
             rest == active \ {CHOOSE r \in active : TRUE}
  <2>1. CASE To(d, "agent")
    BY <1>1, <2>1, StepsTo DEF DeletionStepNames, AgentDone
  <2>2. CASE deleter' = [deleter EXCEPT ![d].step = "stopping", ![d].todo = rest]
    <3>1. rest \in SUBSET Routines
      OBVIOUS
    <3>2. "stopping" \in DeletionStepNames /\ "stopping" \notin AgentDone
      BY DEF DeletionStepNames, AgentDone
    <3> HIDE DEF rest
    <3> QED BY <1>1, <2>2, <3>1, <3>2, StepsWith
  <2> QED BY <1>4, <2>1, <2>2 DEF StopNext
<1>5. ASSUME NEW todo \in SUBSET Routines, DeleteNext(d, todo), agent # "present"
      PROVE  Inv'
  <2>1. CASE To(d, "commit")
    BY <1>1, <1>5, <2>1, StepsTo DEF DeletionStepNames, AgentDone
  <2>2. CASE deleter' = [deleter EXCEPT ![d].step = "view", ![d].todo = todo]
    BY <1>1, <1>5, <2>2, StepsWith DEF DeletionStepNames, AgentDone
  <2> QED BY <1>5, <2>1, <2>2 DEF DeleteNext
<1>6. CASE ListToStop(d)
  BY <1>3, <1>4, <1>6 DEF ListToStop
<1>7. CASE StopAnother(d)
  BY <1>2, <1>4, <1>7 DEF StopAnother
<1>8. CASE ListToDelete(d)
  <2>1. agent # "present"
    BY <1>8, Witness DEF ListToDelete, AgentDone
  <2>2. \/ DeleteNext(d, Bound)
        \/ DeleteNext(d, deleter[d].todo)
    BY <1>8 DEF ListToDelete
  <2> QED BY <1>2, <1>3, <1>5, <2>1, <2>2
<1>9. CASE DeleteDefinition(d)
  <2> DEFINE rest == deleter[d].todo \ {Subject(d)}
             step == IF rest = {} THEN "commit" ELSE "next"
  <2>1. deleter' = [deleter EXCEPT ![d].step = step, ![d].todo = rest]
    BY <1>9 DEF DeleteDefinition
  <2>2. agent # "present"
    BY <1>9, Witness DEF DeleteDefinition, StepOf, AgentDone
  <2>3. rest \in SUBSET Routines /\ step \in DeletionStepNames
    BY <1>2 DEF DeletionStepNames, AgentDone
  <2> HIDE DEF rest, step
  <2> QED BY <1>1, <2>1, <2>2, <2>3, StepsWith
<1> QED BY <1>6, <1>7, <1>8, <1>9

\* The deletion of the owner's row detaches every operation that names it.
LEMMA DetachedKnown ==
  ASSUME Inv
  PROVE  /\ Detached \in [Deletions -> Operations]
         /\ \A d \in Deletions : /\ Known(Detached[d], None)
                                 /\ Detached[d].status = op[d].status
<1> SUFFICES ASSUME NEW d \in Deletions
             PROVE  LET e == IF op[d].owner = owner THEN [op[d] EXCEPT !.owner = None] ELSE op[d]
                    IN  e \in Operations /\ Known(e, None) /\ e.status = op[d].status
  BY DEF Detached
<1> DEFINE o == op[d]
           id == None
<1>1. o \in Operations /\ Known(o, owner) /\ id \in Owners /\ id = None
  BY DEF Inv, Typed, Owners
<1> HIDE DEF o
<1>2. CASE o.owner = owner
  <2> HIDE DEF id
  <2>1. /\ [o EXCEPT !.owner = id] \in Operations
        /\ [o EXCEPT !.owner = id].owner = id
        /\ [o EXCEPT !.owner = id].error = o.error
        /\ [o EXCEPT !.owner = id].status = o.status
    BY <1>1 DEF Operations
  <2> QED BY <1>1, <1>2, <2>1 DEF Known, o, id
<1>3. CASE o.owner # owner
  BY <1>1, <1>3 DEF Known, o
<1> QED BY <1>2, <1>3

LEMMA Commits ==
  ASSUME Inv, NEW d \in Deletions, Commit(d)
  PROVE  Inv'
<1>1. UNCHANGED <<agent, recover>>
  BY DEF Commit, Frame
<1>2. agent # "present" /\ agent \in {"present", "gone"}
  BY Witness DEF Commit, StepOf, AgentDone, Inv, Typed
<1>3. CASE OwnerDeleted /\ op' = Detached /\ To(d, "complete")
  <2> DEFINE n == [deleter[d] EXCEPT !.step = "complete"]
  <2>1. deleter \in [Deletions -> Deleters] /\ recover \in Recoveries
    BY DEF Inv, Typed
  <2>2. deleter' = [deleter EXCEPT ![d] = n]
    BY <1>3, <2>1 DEF To
  <2>3. n \in Deleters
    <3> DEFINE r == deleter[d]
    <3>1. r \in Deleters
      BY <2>1
    <3> HIDE DEF r
    <3>2. [r EXCEPT !.step = "complete"] \in Deleters
      BY <3>1 DEF Deleters, DeletionStepNames, AgentDone
    <3> QED BY <3>2 DEF r
  <2> HIDE DEF n
  <2>4. deleter' \in [Deletions -> Deleters]
    BY <2>1, <2>2, <2>3
  <2>5. owner' = None /\ owner' \in Owners
    BY <1>3 DEF OwnerDeleted, Owners
  <2>6. Typed'
    BY <1>1, <1>2, <1>3, <2>1, <2>4, <2>5, DetachedKnown DEF Typed
  <2>7. NobodyAhead'
    BY <1>1, <1>2 DEF NobodyAhead
  <2>8. ASSUME NEW c \in Deletions
        PROVE  Known(op'[c], owner') /\ Recalled(op'[c], c, recover'.todo)
    <3>1. Recalled(op[c], c, recover.todo) /\ op'[c].status = op[c].status
      BY <1>3, DetachedKnown DEF Inv
    <3> QED BY <1>1, <1>3, <2>5, <3>1, DetachedKnown DEF Recalled
  <2> QED BY <2>6, <2>7, <2>8 DEF Inv
<1>4. CASE To(d, "fail") /\ UNCHANGED <<owner, op>>
  BY <1>1, <1>4, StepsTo DEF DeletionStepNames, AgentDone
<1> QED BY <1>3, <1>4 DEF Commit

\* A workflow ends: only one past the agent's deletion says it completed.
LEMMA Finishes ==
  ASSUME Inv, NEW d \in Deletions, Complete(d) \/ RecordFailure(d)
  PROVE  Inv'
<1>1. \E status \in {"completed", "failed"}, error \in {"none", "workflow"} :
        /\ Finish(d, status, error)
        /\ status = "completed" => agent # "present"
  BY Witness DEF Complete, RecordFailure, StepOf, AgentDone
<1>2. PICK status \in {"completed", "failed"}, error \in {"none", "workflow"} :
        /\ Finish(d, status, error)
        /\ status = "completed" => agent # "present"
  BY <1>1
<1> DEFINE o == op[d]
           e == [o EXCEPT !.status = status, !.error = error]
<1>3. op \in [Deletions -> Operations] /\ o \in Operations /\ o.owner \in {None, owner}
  BY DEF Inv, Typed, Known
<1>4. op' = [op EXCEPT ![d] = e] /\ deleter' = [deleter EXCEPT ![d] = NoDeleter]
        /\ UNCHANGED <<agent, owner, recover>>
  BY <1>2, <1>3 DEF Finish, Frame
<1> HIDE DEF o
<1>5. e \in Operations /\ e.status = status /\ e.owner = o.owner /\ e.error = error
  BY <1>3 DEF Operations
<1> HIDE DEF e
<1>6. Known(e, owner') /\ Recalled(e, d, recover.todo)
  BY <1>3, <1>4, <1>5 DEF Known, Recalled
<1> QED BY <1>2, <1>4, <1>5, <1>6, NoDeleterTyped, OneMoves
-----------------------------------------------------------------------------
(* Crash and reconciliation *)

LEMMA CrashKeeps ==
  ASSUME Inv, Crash
  PROVE  Inv'
<1> DEFINE todo == {d \in Deletions : op[d].status \notin {"none", "completed"}}
           stopped(d) == IF op[d].status = "running" THEN [op[d] EXCEPT !.status = "interrupted"]
                                                     ELSE op[d]
<1>1. /\ op' = [d \in Deletions |-> stopped(d)]
      /\ deleter' = [d \in Deletions |-> NoDeleter]
      /\ recover' = [todo |-> todo, step |-> "match"]
      /\ UNCHANGED <<owner, agent>>
  <2>1. recover' = [Recovered EXCEPT !.todo = todo]
    BY DEF Crash
  <2>2. [Recovered EXCEPT !.todo = todo] = [todo |-> todo, step |-> "match"]
    <3> DEFINE none == {}
               r == [todo |-> none, step |-> "match"]
    <3>1. Recovered = r
      BY DEF Recovered
    <3> HIDE DEF none, todo
    <3>2. [r EXCEPT !.todo = todo] = [todo |-> todo, step |-> "match"]
      OBVIOUS
    <3> HIDE DEF r
    <3> QED BY <3>1, <3>2
  <2> QED BY <2>1, <2>2 DEF Crash
<1>2. ASSUME NEW d \in Deletions
      PROVE  /\ stopped(d) \in Operations
             /\ Known(stopped(d), owner)
             /\ Recalled(stopped(d), d, todo)
             /\ stopped(d).status = "completed" => op[d].status = "completed"
  <2> DEFINE o == op[d]
             e == [o EXCEPT !.status = "interrupted"]
  <2>1. o \in Operations /\ Known(o, owner)
    BY DEF Inv, Typed
  <2>2. o.status \notin {"none", "completed"} => d \in todo
    OBVIOUS
  <2> HIDE DEF todo, o
  <2>3. e \in Operations /\ e.owner = o.owner /\ e.error = o.error /\ e.status = "interrupted"
    BY <2>1 DEF Operations
  <2> HIDE DEF e
  <2>4. CASE o.status = "running"
    <3>1. stopped(d) = e
      BY <2>4 DEF o, e
    <3> HIDE DEF stopped
    <3> QED BY <2>1, <2>2, <2>3, <2>4, <3>1 DEF Known, Recalled
  <2>5. CASE o.status # "running"
    <3>1. stopped(d) = o
      BY <2>5 DEF o
    <3> HIDE DEF stopped
    <3> QED BY <2>1, <2>2, <2>5, <3>1 DEF Recalled, o
  <2> QED BY <2>4, <2>5
<1> HIDE DEF stopped
<1>3. todo \in SUBSET Deletions
  OBVIOUS
<1> HIDE DEF todo
<1>4. recover' \in Recoveries /\ recover'.todo = todo /\ recover'.step = "match"
  BY <1>1, <1>3 DEF Recoveries
<1>5. op' \in [Deletions -> Operations] /\ deleter' \in [Deletions -> Deleters]
  BY <1>1, <1>2, NoDeleterTyped
<1>6. Typed'
  BY <1>1, <1>4, <1>5 DEF Inv, Typed
<1>7. NobodyAhead'
  <2> SUFFICES ASSUME agent' = "present"
               PROVE  /\ owner' = 1 /\ recover'.step = "match"
                      /\ \A d \in Deletions : /\ deleter'[d].step \notin AgentDone
                                              /\ op'[d].status # "completed"
    BY DEF NobodyAhead
  <2>1. owner = 1 /\ \A d \in Deletions : op[d].status # "completed"
    BY <1>1 DEF Inv, NobodyAhead
  <2> QED BY <1>1, <1>2, <1>4, <2>1, NoDeleterTyped
<1>8. \A d \in Deletions : Known(op'[d], owner') /\ Recalled(op'[d], d, recover'.todo)
  BY <1>1, <1>2, <1>4
<1> QED BY <1>6, <1>7, <1>8 DEF Inv

\* The reconciliation settles one operation and goes on with the next.
LEMMA Settles ==
  ASSUME Inv, ~Accepting, NEW o \in Operations, NEW rest,
         rest \in [Deletions -> Operations],
         \A d \in Deletions : /\ Known(rest[d], owner')
                              /\ rest[d].status = op[d].status,
         op' = [rest EXCEPT ![Current] = o], recover' = NextOp, UNCHANGED <<agent, deleter>>,
         owner' \in Owners,
         agent = "present" => UNCHANGED owner /\ o.status # "completed",
         o.status \in {"failed", "completed"}, Known(o, owner')
  PROVE  Inv'
<1>1. recover \in Recoveries /\ recover.todo \subseteq Deletions
  BY DEF Inv, Typed, Recoveries
<1>2. Current \in recover.todo
  BY DEF Accepting, Current
<1> DEFINE todo == recover.todo \ {Current}
<1>3. recover' \in Recoveries /\ recover'.todo = todo /\ recover'.step = "match"
  <2>1. todo \in SUBSET Deletions /\ recover' = [todo |-> todo, step |-> "match"]
    BY <1>1 DEF NextOp
  <2> HIDE DEF todo
  <2> QED BY <2>1 DEF Recoveries
<1>4. op' \in [Deletions -> Operations]
  OBVIOUS
<1>5. Typed'
  BY <1>3, <1>4 DEF Inv, Typed
<1>6. ASSUME NEW d \in Deletions
      PROVE  /\ d = Current => op'[d] = o
             /\ d # Current => op'[d] = rest[d]
  OBVIOUS
<1>7. NobodyAhead'
  <2> SUFFICES ASSUME agent' = "present"
               PROVE  /\ owner' = 1 /\ recover'.step = "match"
                      /\ \A d \in Deletions : /\ deleter'[d].step \notin AgentDone
                                              /\ op'[d].status # "completed"
    BY DEF NobodyAhead
  <2>1. /\ owner = 1
        /\ \A d \in Deletions : deleter[d].step \notin AgentDone /\ op[d].status # "completed"
    BY DEF Inv, NobodyAhead
  <2>2. agent = "present" /\ owner' = owner /\ o.status # "completed"
    OBVIOUS
  <2>3. \A d \in Deletions : op'[d].status # "completed"
    BY <1>6, <2>1, <2>2
  <2> QED BY <1>3, <2>1, <2>2, <2>3
<1>8. ASSUME NEW d \in Deletions
      PROVE  Known(op'[d], owner') /\ Recalled(op'[d], d, recover'.todo)
  <2>1. CASE d = Current
    BY <1>6, <2>1 DEF Recalled
  <2>2. CASE d # Current
    <3>1. Recalled(op[d], d, recover.todo)
      BY DEF Inv
    <3> QED BY <1>3, <1>6, <2>2, <3>1 DEF Recalled
  <2> QED BY <2>1, <2>2
<1> QED BY <1>5, <1>7, <1>8 DEF Inv

LEMMA FailsKeeps ==
  ASSUME Inv, ~Accepting, NEW error \in {"owner", "external"}, RecoverFails(error),
         error = "owner" => ~Matches, UNCHANGED <<agent, deleter, owner>>
  PROVE  Inv'
<1>1. Current \in Deletions
  BY DEF Accepting, Current, Inv, Typed, Recoveries
<1> DEFINE o == op[Current]
           e == [o EXCEPT !.status = "failed", !.error = error]
<1>2. op \in [Deletions -> Operations] /\ o \in Operations /\ Known(o, owner)
  BY <1>1 DEF Inv, Typed
\* The owner matches: an operation names the row that is there, or none.
<1>3. error # "owner"
  BY <1>2 DEF Known, Matches
<1>4. op' = [op EXCEPT ![Current] = e] /\ recover' = NextOp
  BY <1>2 DEF RecoverFails
<1> HIDE DEF o
<1>5. e \in Operations /\ e.status = "failed" /\ e.owner = o.owner /\ e.error = error
  BY <1>2 DEF Operations
<1> HIDE DEF e
<1>6. Known(e, owner')
  BY <1>2, <1>3, <1>5 DEF Known
<1>7. \A d \in Deletions : Known(op[d], owner') /\ op[d].status = op[d].status
  BY DEF Inv
<1>8. owner' \in Owners
  BY DEF Inv, Typed
<1> QED BY <1>2, <1>4, <1>5, <1>6, <1>7, <1>8, Settles

LEMMA RecoverKeeps ==
  ASSUME Inv, Recover
  PROVE  Inv'
<1>1. ~Accepting /\ UNCHANGED deleter
  BY DEF Recover, RecoverAgent, RecoverResources, RecoverCommit, Recovering, RecoverFrame
<1>2. recover \in Recoveries /\ agent \in {"present", "gone"} /\ op \in [Deletions -> Operations]
  BY DEF Inv, Typed
\* The step goes on once the agent's file is gone.
<1>3. ASSUME NEW step \in {"resources", "commit"}, recover' = [recover EXCEPT !.step = step],
             agent' = "gone", UNCHANGED <<op, owner>>
      PROVE  Inv'
  <2>1. recover' \in Recoveries /\ recover'.todo = recover.todo
    BY <1>2, <1>3 DEF Recoveries
  <2>2. Typed'
    BY <1>1, <1>3, <2>1 DEF Inv, Typed
  <2>3. NobodyAhead'
    BY <1>3 DEF NobodyAhead
  <2>4. \A d \in Deletions : Known(op'[d], owner') /\ Recalled(op'[d], d, recover'.todo)
    BY <1>3, <2>1 DEF Inv
  <2> QED BY <2>2, <2>3, <2>4 DEF Inv
<1>4. recover.step # "match" => agent = "gone"
  BY <1>2 DEF Inv, NobodyAhead
<1>5. CASE RecoverAgent
  <2>1. UNCHANGED owner
    BY <1>5 DEF RecoverAgent
  <2>2. CASE agent' = "gone" /\ recover' = [recover EXCEPT !.step = "resources"] /\ UNCHANGED op
    BY <1>3, <2>1, <2>2
  <2>3. CASE ~Matches /\ RecoverFails("owner") /\ UNCHANGED agent
    BY <1>1, <2>1, <2>3, FailsKeeps
  <2>4. CASE RecoverFails("external") /\ UNCHANGED agent
    BY <1>1, <2>1, <2>4, FailsKeeps
  <2> QED BY <1>5, <2>2, <2>3, <2>4 DEF RecoverAgent
<1>6. CASE RecoverResources
  <2>1. UNCHANGED <<owner, agent>> /\ agent = "gone"
    BY <1>4, <1>6 DEF RecoverResources, Recovering
  <2>2. CASE recover' = [recover EXCEPT !.step = "commit"] /\ UNCHANGED op
    BY <1>3, <2>1, <2>2
  <2>3. CASE RecoverFails("external")
    BY <1>1, <2>1, <2>3, FailsKeeps
  <2> QED BY <1>6, <2>2, <2>3 DEF RecoverResources
<1>7. CASE RecoverCommit
  <2>1. UNCHANGED agent /\ agent = "gone"
    BY <1>4, <1>7 DEF RecoverCommit, Recovering
  <2>2. CASE /\ OwnerDeleted
             /\ op' = [Detached EXCEPT ![Current].status = "completed", ![Current].error = "none"]
             /\ recover' = NextOp
    <3>1. Current \in Deletions
      BY <1>1 DEF Accepting, Current, Inv, Typed, Recoveries
    <3> DEFINE o == Detached[Current]
               e == [o EXCEPT !.status = "completed", !.error = "none"]
    <3>2. o \in Operations /\ Known(o, None)
      BY <3>1, DetachedKnown
    <3>3. op' = [Detached EXCEPT ![Current] = e]
      BY <2>2, <3>1, DetachedKnown
    <3> HIDE DEF o
    <3>4. e \in Operations /\ e.status = "completed" /\ e.owner = o.owner /\ e.error = "none"
      BY <3>2 DEF Operations
    <3> HIDE DEF e
    <3>5. owner' = None /\ owner' \in Owners
      BY <2>2 DEF OwnerDeleted, Owners
    <3>6. Known(e, owner')
      BY <3>2, <3>4, <3>5 DEF Known
    <3>7. agent # "present"
      BY <2>1
    <3>8. \A d \in Deletions : Known(Detached[d], owner') /\ Detached[d].status = op[d].status
      BY <3>5, DetachedKnown
    <3>9. PICK rest \in [Deletions -> Operations] : rest = Detached
      BY DetachedKnown
    <3>10. /\ op' = [rest EXCEPT ![Current] = e]
           /\ \A d \in Deletions : Known(rest[d], owner') /\ rest[d].status = op[d].status
      BY <3>3, <3>8, <3>9
    <3>11. e.status \in {"failed", "completed"} /\ (agent = "present" => UNCHANGED owner /\ e.status # "completed")
      BY <3>4, <3>7
    <3>12. UNCHANGED <<agent, deleter>> /\ recover' = NextOp /\ e \in Operations /\ owner' \in Owners
      BY <1>1, <2>1, <2>2, <3>4, <3>5
    <3> QED BY <1>1, <3>6, <3>10, <3>11, <3>12, Settles
  <2>3. CASE ~Matches /\ RecoverFails("owner") /\ UNCHANGED owner
    BY <1>1, <2>1, <2>3, FailsKeeps
  <2> QED BY <1>7, <2>2, <2>3 DEF RecoverCommit
<1> QED BY <1>5, <1>6, <1>7 DEF Recover

-----------------------------------------------------------------------------
(* The invariant and the theorems *)

LEMMA InitKeeps ==
  ASSUME Init
  PROVE  Inv
<1>1. NoOp \in Operations /\ NoOp.status = "none" /\ Known(NoOp, 1)
  BY NoOpTyped DEF Known
<1>2. Recovered \in Recoveries /\ Recovered.step = "match"
  <2> DEFINE none == {}
             r == [todo |-> none, step |-> "match"]
  <2>1. none \in SUBSET Deletions
    OBVIOUS
  <2> HIDE DEF none
  <2>2. r \in Recoveries /\ r.step = "match"
    BY <2>1 DEF Recoveries
  <2>3. Recovered = r
    BY DEF Recovered, none
  <2> HIDE DEF r
  <2> QED BY <2>2, <2>3
<1>3. /\ owner = 1 /\ agent = "present" /\ recover = Recovered
      /\ op = [d \in Deletions |-> NoOp] /\ deleter = [d \in Deletions |-> NoDeleter]
  BY DEF Init, RoutinesInit
<1>4. owner \in Owners
  BY <1>3 DEF Owners, OwnerIds
<1>5. Typed
  BY <1>1, <1>2, <1>3, <1>4, NoDeleterTyped DEF Typed
<1>6. NobodyAhead
  BY <1>1, <1>2, <1>3, NoDeleterTyped DEF NobodyAhead
<1>7. \A d \in Deletions : Known(op[d], owner) /\ Recalled(op[d], d, recover.todo)
  BY <1>1, <1>3 DEF Recalled
<1> QED BY <1>5, <1>6, <1>7 DEF Inv

\* The routines' own steps leave the session alone, or find its owner again.
LEMMA ScriptsQuiet ==
  ASSUME NEW p, ScriptSteps(p) \/ ClearRuntime(p) \/ Closes(p)
  PROVE  UNCHANGED owner
BY DEF ScriptSteps, CreateRun, FirstProgress, FindRun, FinishRun, ClearRuntime, Closes

LEMMA RequestsQuiet ==
  ASSUME NEW q, RequestSteps(q) \/ Resolve(q)
  PROVE  Upsert \/ UNCHANGED owner
BY DEF RequestSteps, Resolve, EnsureOwner, CreateFind, CreateUpsert, StartFind, StartBind, StartAgain,
       TeardownFind, StopFind, StopLatest, StopMark, StopKill, ReleaseFind, Release, DeleteFind,
       DeleteView, Delete, RequestFrame

LEMMA NextKeeps ==
  ASSUME Inv, [Next]_vars
  PROVE  Inv'
<1>1. CASE UNCHANGED vars
  BY <1>1, QuietKeeps DEF vars, routineVars
<1>2. ASSUME NEW p \in Scripts, ScriptSteps(p) \/ ClearRuntime(p) \/ Closes(p), UNCHANGED deletionVars
      PROVE  Inv'
  BY <1>2, ScriptsQuiet, QuietKeeps DEF deletionVars
<1>3. ASSUME NEW q, RequestSteps(q) \/ Resolve(q), UNCHANGED deletionVars
      PROVE  Inv'
  BY <1>3, RequestsQuiet, QuietKeeps DEF deletionVars
<1>4. ASSUME NEW d \in Deletions, DeletionSteps(d)  PROVE Inv'
  BY <1>4, Begins, Journals, Stages, RoutineStages, Commits, Finishes DEF DeletionSteps
<1>5. ASSUME NEW d \in Deletions, DeleteAgentSession(d) \/ CloseHublots(d) \/ DeleteSession(d)
      PROVE  Inv'
  BY <1>5, Begins, Stages
<1>6. ASSUME NEW q \in Requests, AskRoutine(q)  PROVE Inv'
  BY <1>6, QuietKeeps DEF AskRoutine, Ask
<1>7. CASE Prompt
  BY <1>7, QuietKeeps DEF Prompt, routineVars
<1>8. CASE Recover
  BY <1>8, RecoverKeeps
<1>9. CASE Crash
  BY <1>9, CrashKeeps
<1>10. CASE Store
  BY <1>2, <1>3, <1>4, <1>10 DEF Store
<1>11. CASE Handled \/ Found \/ External \/ Exit
  BY <1>2, <1>3, <1>5, <1>11 DEF Handled, Found, External, Exit
<1> QED BY <1>1, <1>5, <1>6, <1>7, <1>8, <1>9, <1>10, <1>11 DEF Next

LEMMA Invariant == Spec => []Inv
BY InitKeeps, NextKeeps, PTL DEF Spec

\* While the agent has the session its owner row is there and no deletion
\* counts as completed: for any number of requests, deletions, failures and
\* crashes, wherever deleteOwnedSession is cut off.
THEOREM NothingLostFirst == Spec => []AgentGoneFirst
<1>1. Inv => AgentGoneFirst
  BY DEF Inv, NobodyAhead, AgentGoneFirst
<1> QED BY <1>1, Invariant, PTL

\* reconcileSessionDeletions leaves no interrupted deletion behind, and never
\* refuses one because its owner does not match.
THEOREM AllRecovered == Spec => []DeletionRecovered
<1>1. Inv => DeletionRecovered
  BY DEF Inv, Known, Recalled, Accepting, DeletionRecovered
<1> QED BY <1>1, Invariant, PTL

-----------------------------------------------------------------------------
(* The routines: who waits for what, in which order *)

Tasks == ({"script"} \X Scripts) \cup ({"request"} \X Callers) \cup ({"deletion"} \X Deletions)
Nobody == <<"nobody", 0>>

Single == \A i \in 1..Len(queue) : \A j \in 1..(i - 1) : queue[i] # queue[j]
Queues(t) == \E i \in 1..Len(queue) : queue[i] = t
Ahead(s, t) == \E i, j \in 1..Len(queue) : i < j /\ queue[i] = s /\ queue[j] = t
InOrder == queue \in Seq(Tasks) /\ Single

\* What a step does to the queue: g is served, if anybody, and t begins to wait.
Moved(g, t) ==
  /\ g \in Tasks \cup {Nobody}
  /\ t \in Tasks \cup {Nobody}
  /\ \A u \in Tasks : Queues(u)' <=> (Queues(u) /\ u # g) \/ u = t
  /\ \A u, v \in Tasks : Ahead(u, v)' <=> \/ Ahead(u, v) /\ u # g /\ v # g
                                          \/ v = t /\ u # t /\ Queues(u) /\ u # g

LEMMA NobodyNoTask == Nobody \notin Tasks
BY DEF Nobody, Tasks

LEMMA HeadFirst ==
  ASSUME InOrder, queue # <<>>
  PROVE  /\ Head(queue) \in Tasks /\ Queues(Head(queue))
         /\ \A u \in Tasks : Queues(u) /\ u # Head(queue) => Ahead(Head(queue), u)
         /\ \A u \in Tasks : ~Ahead(u, Head(queue))
<1>1. queue \in Seq(Tasks) /\ Len(queue) \in Nat /\ Len(queue) >= 1 /\ Head(queue) = queue[1]
  BY DEF InOrder
<1>2. 1 \in 1..Len(queue) /\ Head(queue) \in Tasks
  BY <1>1
<1>3. Queues(Head(queue))
  BY <1>1, <1>2 DEF Queues
<1>4. ASSUME NEW u \in Tasks, Queues(u), u # Head(queue)
      PROVE  Ahead(Head(queue), u)
  <2>1. PICK i \in 1..Len(queue) : queue[i] = u
    BY <1>4 DEF Queues
  <2>2. 1 < i
    BY <1>1, <1>4, <2>1
  <2> QED BY <1>1, <1>2, <2>1, <2>2 DEF Ahead
<1>5. ASSUME NEW u \in Tasks, Ahead(u, Head(queue))
      PROVE  FALSE
  <2>1. PICK i \in 1..Len(queue), j \in 1..Len(queue) : i < j /\ queue[j] = queue[1]
    BY <1>1, <1>5 DEF Ahead
  <2>2. 1 \in 1..(j - 1)
    BY <1>1, <2>1
  <2> QED BY <2>1, <2>2 DEF InOrder, Single
<1> QED BY <1>2, <1>3, <1>4, <1>5

LEMMA EndsMoves ==
  ASSUME InOrder, queue # <<>>, Ends
  PROVE  InOrder' /\ Moved(Head(queue), Nobody)
<1> DEFINE n == Len(queue)
           g == Head(queue)
<1>1. /\ queue \in Seq(Tasks) /\ n \in Nat /\ n >= 1 /\ g = queue[1]
      /\ queue' = Tail(queue)
  BY DEF InOrder, Ends
<1>2. queue' \in Seq(Tasks) /\ Len(queue') = n - 1
  BY <1>1
<1>3. \A i \in 1..Len(queue') : queue'[i] = queue[i + 1]
  BY <1>1
<1>4. \A i \in 1..n, j \in 1..n : i # j => queue[i] # queue[j]
  <2> SUFFICES ASSUME NEW i \in 1..n, NEW j \in 1..n, i # j
               PROVE  queue[i] # queue[j]
    OBVIOUS
  <2>1. i \in 1..(j - 1) \/ j \in 1..(i - 1)
    BY <1>1
  <2> QED BY <2>1 DEF InOrder, Single
<1>5. Single'
  <2> SUFFICES ASSUME NEW i \in 1..Len(queue'), NEW j \in 1..(i - 1)
               PROVE  queue'[i] # queue'[j]
    BY DEF Single
  <2>1. j \in 1..Len(queue') /\ i + 1 \in 1..n /\ j + 1 \in 1..n /\ i # j
    BY <1>1, <1>2
  <2> QED BY <1>3, <1>4, <2>1
<1>6. ASSUME NEW u \in Tasks
      PROVE  Queues(u)' <=> Queues(u) /\ u # g
  <2>1. ASSUME NEW i \in 1..Len(queue'), queue'[i] = u
        PROVE  Queues(u) /\ u # g
    <3>1. i + 1 \in 1..n /\ 1 \in 1..n /\ i + 1 # 1 /\ queue[i + 1] = u
      BY <1>1, <1>2, <1>3, <2>1
    <3> QED BY <1>1, <1>4, <3>1 DEF Queues
  <2>2. ASSUME NEW i \in 1..n, queue[i] = u, u # g
        PROVE  Queues(u)'
    <3>1. i - 1 \in 1..Len(queue') /\ (i - 1) + 1 = i
      BY <1>1, <1>2, <2>2
    <3>2. queue'[i - 1] = u
      BY <1>3, <2>2, <3>1
    <3> QED BY <3>1, <3>2 DEF Queues
  <2> QED BY <2>1, <2>2 DEF Queues
<1>7. ASSUME NEW u \in Tasks, NEW v \in Tasks
      PROVE  Ahead(u, v)' <=> Ahead(u, v) /\ u # g /\ v # g
  <2>1. ASSUME NEW i \in 1..Len(queue'), NEW j \in 1..Len(queue'), i < j, queue'[i] = u, queue'[j] = v
        PROVE  Ahead(u, v) /\ u # g /\ v # g
    <3>1. /\ i + 1 \in 1..n /\ j + 1 \in 1..n /\ 1 \in 1..n /\ i + 1 # 1 /\ j + 1 # 1 /\ i + 1 < j + 1
          /\ queue[i + 1] = u /\ queue[j + 1] = v
      BY <1>1, <1>2, <1>3, <2>1
    <3> QED BY <1>1, <1>4, <3>1 DEF Ahead
  <2>2. ASSUME NEW i \in 1..n, NEW j \in 1..n, i < j, queue[i] = u, queue[j] = v, u # g, v # g
        PROVE  Ahead(u, v)'
    <3>1. /\ i - 1 \in 1..Len(queue') /\ j - 1 \in 1..Len(queue') /\ i - 1 < j - 1
          /\ (i - 1) + 1 = i /\ (j - 1) + 1 = j
      BY <1>1, <1>2, <2>2
    <3>2. queue'[i - 1] = u /\ queue'[j - 1] = v
      BY <1>3, <2>2, <3>1
    <3> QED BY <3>1, <3>2 DEF Ahead
  <2> QED BY <2>1, <2>2 DEF Ahead
<1>8. g \in Tasks
  BY <1>1
<1> QED BY <1>2, <1>5, <1>6, <1>7, <1>8, NobodyNoTask DEF InOrder, Moved

\* A task that does not wait is put at the end of q.
LEMMA Appended ==
  ASSUME InOrder, NEW t \in Tasks, ~Queues(t), queue' = Append(queue, t)
  PROVE  InOrder' /\ Moved(Nobody, t)
<1> DEFINE n == Len(queue)
<1>1. queue \in Seq(Tasks) /\ n \in Nat
  BY DEF InOrder
<1>2. queue' \in Seq(Tasks) /\ Len(queue') = n + 1 /\ n + 1 \in 1..Len(queue')
  BY <1>1
<1>3. (\A i \in 1..n : i \in 1..Len(queue') /\ queue'[i] = queue[i]) /\ queue'[n + 1] = t
  BY <1>1
<1>4. \A i \in 1..Len(queue') : i \in 1..n \/ i = n + 1
  BY <1>1, <1>2
<1>5. \A i \in 1..n : queue[i] # t
  BY DEF Queues
<1>6. Single'
  <2> SUFFICES ASSUME NEW i \in 1..Len(queue'), NEW j \in 1..(i - 1)
               PROVE  queue'[i] # queue'[j]
    BY DEF Single
  <2>1. j \in 1..n
    BY <1>1, <1>2
  <2>2. CASE i \in 1..n
    BY <1>3, <2>1, <2>2 DEF InOrder, Single
  <2>3. CASE i = n + 1
    BY <1>3, <1>5, <2>1, <2>3
  <2> QED BY <1>4, <2>2, <2>3
<1>7. ASSUME NEW u \in Tasks
      PROVE  Queues(u)' <=> Queues(u) \/ u = t
  BY <1>2, <1>3, <1>4 DEF Queues
<1>8. ASSUME NEW u \in Tasks, NEW v \in Tasks
      PROVE  Ahead(u, v)' <=> Ahead(u, v) \/ (v = t /\ u # t /\ Queues(u))
  <2>1. ASSUME NEW i \in 1..Len(queue'), NEW j \in 1..Len(queue'), i < j, queue'[i] = u, queue'[j] = v
        PROVE  Ahead(u, v) \/ (v = t /\ u # t /\ Queues(u))
    <3>1. i \in 1..n
      BY <1>1, <1>2, <2>1
    <3>2. queue[i] = u /\ u # t
      BY <1>3, <1>5, <2>1, <3>1
    <3>3. CASE j \in 1..n
      BY <1>3, <2>1, <3>1, <3>2, <3>3 DEF Ahead
    <3>4. CASE j = n + 1
      BY <1>3, <2>1, <3>1, <3>2, <3>4 DEF Queues
    <3> QED BY <1>4, <3>3, <3>4
  <2>2. ASSUME NEW i \in 1..n, NEW j \in 1..n, i < j, queue[i] = u, queue[j] = v
        PROVE  Ahead(u, v)'
    BY <1>3, <2>2 DEF Ahead
  <2>3. ASSUME v = t, NEW i \in 1..n, queue[i] = u
        PROVE  Ahead(u, v)'
    <3>1. i < n + 1
      BY <1>1
    <3> QED BY <1>2, <1>3, <2>3, <3>1 DEF Ahead
  <2> QED BY <2>1, <2>2, <2>3 DEF Ahead, Queues
<1>9. Nobody \notin Tasks
  BY NobodyNoTask
<1> QED BY <1>2, <1>6, <1>7, <1>8, <1>9 DEF InOrder, Moved

\* The task at the head of the queue, or another one that does not wait, is put
\* at its end when the head is served.
LEMMA AwaitsMoves ==
  ASSUME InOrder, queue # <<>>, NEW t \in Tasks, ~Queues(t) \/ t = Head(queue), Awaits(t)
  PROVE  InOrder' /\ Moved(Head(queue), t)
<1> DEFINE n == Len(queue)
           g == Head(queue)
<1>1. /\ queue \in Seq(Tasks) /\ n \in Nat /\ n >= 1 /\ g = queue[1] /\ g \in Tasks
      /\ queue' = Append(Tail(queue), t)
  BY DEF InOrder, Awaits
<1>2. Tail(queue) \in Seq(Tasks) /\ Len(Tail(queue)) = n - 1
  BY <1>1
<1>3. queue' \in Seq(Tasks) /\ Len(queue') = n /\ n \in 1..Len(queue')
  BY <1>1, <1>2
<1>4. \A i \in 1..(n - 1) : i \in 1..Len(queue') /\ i + 1 \in 1..n /\ queue'[i] = queue[i + 1]
  BY <1>1, <1>2, <1>3
<1>5. queue'[n] = t
  BY <1>1, <1>2
<1>6. /\ \A i \in 1..Len(queue') : i \in 1..(n - 1) \/ i = n
      /\ \A i, j \in 1..Len(queue') : i < j => i \in 1..(n - 1)
  <2>1. Len(queue') = n /\ n \in Nat
    BY <1>1, <1>3
  <2> HIDE DEF n
  <2> QED BY <2>1
<1>7. \A i \in 1..n, j \in 1..n : i # j => queue[i] # queue[j]
  <2> SUFFICES ASSUME NEW i \in 1..n, NEW j \in 1..n, i # j
               PROVE  queue[i] # queue[j]
    OBVIOUS
  <2>1. i \in 1..(j - 1) \/ j \in 1..(i - 1)
    BY <1>1
  <2> QED BY <2>1 DEF InOrder, Single
<1>8. \A i \in 1..(n - 1) : queue[i + 1] # t /\ queue[i + 1] # g
  <2> SUFFICES ASSUME NEW i \in 1..(n - 1)
               PROVE  queue[i + 1] # t /\ queue[i + 1] # g
    OBVIOUS
  <2>1. i + 1 \in 1..n /\ 1 \in 1..n /\ i + 1 # 1
    BY <1>1
  <2>2. queue[i + 1] # g
    BY <1>1, <1>7, <2>1
  <2> QED BY <2>1, <2>2 DEF Queues
<1>9. \A i \in 1..n : queue[i] # g => i - 1 \in 1..(n - 1) /\ (i - 1) + 1 = i /\ queue'[i - 1] = queue[i]
  <2> SUFFICES ASSUME NEW i \in 1..n, queue[i] # g
               PROVE  i - 1 \in 1..(n - 1) /\ (i - 1) + 1 = i /\ queue'[i - 1] = queue[i]
    OBVIOUS
  <2>1. i # 1
    BY <1>1
  <2>2. i - 1 \in 1..(n - 1) /\ (i - 1) + 1 = i
    BY <1>1, <2>1
  <2> QED BY <1>4, <2>2
<1>10. Single'
  <2> SUFFICES ASSUME NEW i \in 1..Len(queue'), NEW j \in 1..(i - 1)
               PROVE  queue'[i] # queue'[j]
    BY DEF Single
  <2>1. j \in 1..(n - 1) /\ j + 1 \in 1..n
    BY <1>1, <1>3
  <2>2. CASE i \in 1..(n - 1)
    <3>1. i + 1 \in 1..n /\ i + 1 # j + 1
      BY <1>1, <2>2
    <3> QED BY <1>4, <1>7, <2>1, <2>2, <3>1
  <2>3. CASE i = n
    BY <1>4, <1>5, <1>8, <2>1, <2>3
  <2> QED BY <1>6, <2>2, <2>3
<1>11. ASSUME NEW u \in Tasks
       PROVE  Queues(u)' <=> (Queues(u) /\ u # g) \/ u = t
  <2>1. ASSUME NEW i \in 1..Len(queue'), queue'[i] = u
        PROVE  (Queues(u) /\ u # g) \/ u = t
    <3>1. CASE i \in 1..(n - 1)
      BY <1>4, <1>8, <2>1, <3>1 DEF Queues
    <3>2. CASE i = n
      BY <1>5, <2>1, <3>2
    <3> QED BY <1>6, <3>1, <3>2
  <2>2. ASSUME NEW i \in 1..n, queue[i] = u, u # g
        PROVE  Queues(u)'
    <3>1. i - 1 \in 1..Len(queue') /\ queue'[i - 1] = u
      BY <1>4, <1>9, <2>2
    <3> QED BY <3>1 DEF Queues
  <2> QED BY <1>3, <1>5, <2>1, <2>2 DEF Queues
<1>12. ASSUME NEW u \in Tasks, NEW v \in Tasks
       PROVE  Ahead(u, v)' <=> \/ Ahead(u, v) /\ u # g /\ v # g
                               \/ v = t /\ u # t /\ Queues(u) /\ u # g
  <2>1. ASSUME NEW i \in 1..Len(queue'), NEW j \in 1..Len(queue'), i < j, queue'[i] = u, queue'[j] = v
        PROVE  \/ Ahead(u, v) /\ u # g /\ v # g
               \/ v = t /\ u # t /\ Queues(u) /\ u # g
    <3>1. i \in 1..(n - 1)
      BY <1>6, <2>1
    <3>2. i + 1 \in 1..n /\ queue[i + 1] = u /\ u # t /\ u # g
      BY <1>4, <1>8, <2>1, <3>1
    <3>3. CASE j \in 1..(n - 1)
      <4>1. j + 1 \in 1..n /\ queue[j + 1] = v /\ v # g /\ i + 1 < j + 1
        BY <1>1, <1>4, <1>8, <2>1, <3>1, <3>3
      <4> QED BY <3>2, <4>1 DEF Ahead
    <3>4. CASE j = n
      BY <1>5, <2>1, <3>2, <3>4 DEF Queues
    <3> QED BY <1>6, <3>3, <3>4
  <2>2. ASSUME NEW i \in 1..n, NEW j \in 1..n, i < j, queue[i] = u, queue[j] = v, u # g, v # g
        PROVE  Ahead(u, v)'
    <3>1. /\ i - 1 \in 1..Len(queue') /\ queue'[i - 1] = u
          /\ j - 1 \in 1..Len(queue') /\ queue'[j - 1] = v
      BY <1>4, <1>9, <2>2
    <3>2. i - 1 < j - 1
      BY <1>1, <2>2
    <3> QED BY <3>1, <3>2 DEF Ahead
  <2>3. ASSUME v = t, NEW i \in 1..n, queue[i] = u, u # g
        PROVE  Ahead(u, v)'
    <3>1. i - 1 \in 1..Len(queue') /\ queue'[i - 1] = u /\ i - 1 < n
      BY <1>1, <1>4, <1>9, <2>3
    <3> QED BY <1>3, <1>5, <2>3, <3>1 DEF Ahead
  <2> QED BY <2>1, <2>2, <2>3 DEF Ahead, Queues
<1> QED BY <1>1, <1>3, <1>10, <1>11, <1>12 DEF InOrder, Moved

LEMMA StartsMoves ==
  ASSUME InOrder, NEW t \in Tasks, ~Queues(t), Starts(t)
  PROVE  InOrder' /\ Moved(Nobody, t)
BY Appended DEF Starts

LEMMA StaysMoves ==
  ASSUME InOrder, UNCHANGED queue
  PROVE  InOrder' /\ Moved(Nobody, Nobody)
<1>1. InOrder'
  BY DEF InOrder, Single
<1>2. \A u : Queues(u)' <=> Queues(u)
  BY DEF Queues
<1>3. \A u, v : Ahead(u, v)' <=> Ahead(u, v)
  BY DEF Ahead
<1> QED BY <1>1, <1>2, <1>3, NobodyNoTask DEF Moved

-----------------------------------------------------------------------------
(* The invariant of the routines *)

ScriptTask(p) == <<"script", p>>
RequestTask(q) == <<"request", q>>
DeletionTask(d) == <<"deletion", d>>

ScriptWaits(p) == script[p].step \in {"create", "progress", "find", "stopped", "finish"}
RequestWaits(q) == request[q].step \notin {"no", "look", "cwd"}
DeletionWaits(d) == deleter[d].step \notin {"no", "deleting", "closing"} /\ request[d].op = "no"

\* Nobody waits for two operations, and a task waits when its step says so.
Served ==
  /\ InOrder
  /\ \A p \in Scripts : Queues(ScriptTask(p)) <=> ScriptWaits(p)
  /\ \A q \in Callers : Queues(RequestTask(q)) <=> RequestWaits(q)
  /\ \A d \in Deletions : Queues(DeletionTask(d)) => DeletionWaits(d)

ScriptRecords ==
  [os : {"unborn", "live", "told", "dead"}, of : Routines \cup {"none"}, mode : {"run", "teardown"},
   row : Settled \cup {"none", "running", "teardown", "stopping", "deleted"},
   step : {"no", "create", "progress", "listen", "lost", "closed", "find", "stopped", "finish",
           "end", "outlived"}]
RequestRecords ==
  [op : {"no", "create", "start", "stop", "teardown", "release", "delete", "await"},
   step : {"no", "look", "owner", "cwd", "find", "upsert", "bind", "again", "latest", "mark",
           "kill", "release", "view", "delete"},
   of : Routines \cup {"none"}, bind : BOOLEAN, owner : Owners,
   script : Scripts \cup {None}, run : Scripts \cup {None}]

Shaped ==
  /\ def \in [Routines -> {"absent", "free", "bound"}]
  /\ script \in [Scripts -> ScriptRecords]
  /\ runtime \in [Routines -> Scripts \cup {None}]
  /\ request \in [Callers -> RequestRecords]
  /\ runner \in {"live", "stopped", "removed", "orphan"}

Born(p) == script[p].step # "no"
NoRun == {"none", "deleted"}
HasRun == {"running", "teardown", "stopping", "deleted"}

\* Deletions take the runs of older scripts too, and rows are created in the
\* order of the spawns.
ScriptFits(p) ==
  LET s == script[p] IN
  /\ s.os = "unborn" <=> s.step = "no"
  /\ Born(p) => s.of \in Routines
  /\ s.step \in {"no", "create", "lost"} => s.row = "none"
  /\ s.step \in {"progress", "listen", "closed", "find", "stopped", "finish"} => s.row \in HasRun
  /\ s.step \in {"closed", "find", "stopped", "finish"} => s.os = "dead"
  /\ Born(p) /\ def[s.of] = "absent" => s.row \in NoRun
  /\ s.step = "lost" \/ s.row = "deleted" =>
        \A z \in Scripts : z < p /\ Born(z) /\ script[z].of = s.of => script[z].row \in NoRun
  /\ s.step = "create" =>
        \A y \in Scripts : p < y /\ Born(y) =>
          script[y].step = "create" /\ Ahead(ScriptTask(p), ScriptTask(y))

RequestFits(q) ==
  LET t == request[q] IN
  /\ t.op \in {"no", "await"} <=> t.step = "no"
  /\ t.op \notin {"no", "await"} => t.of \in Routines
  /\ q \in Requests => t.op # "await"
  /\ q \in Deletions => /\ t.op \in {"no", "stop", "await"}
                        /\ t.op = "stop" => deleter[q].step = "stopping"
                        /\ t.op = "await" => deleter[q].step = "view"

\* There is a process for every request that is going to spawn one.
Starting == {q \in Requests : request[q].op \in {"start", "teardown"}}
Spawned ==
  \E n \in 0..MaxRuns :
    /\ \A p \in Scripts : Born(p) <=> p <= n
    /\ IsFiniteSet(Starting) /\ Cardinality(Starting) <= MaxRuns - n

\* The runtime holds the latest process of a routine, until its close is handled.
HoldsLatest(r) ==
  LET p == runtime[r] IN
  p # None => /\ script[p].of = r
              /\ script[p].step \in {"create", "progress", "listen", "lost", "closed"}
              /\ \A y \in Scripts : Born(y) /\ script[y].of = r => y <= p

\* What a stop knows of the process it found, before it reads the latest run:
\* its row is created first and is settled later, and a process that replaced
\* it has no row yet.
FoundByStop(x, q, r) ==
  /\ x \in Scripts /\ script[x].of = r
  /\ script[x].step \in {"create", "progress", "listen", "lost", "closed", "find", "end"}
  /\ script[x].row \in HasRun \cup {"none"}
  /\ script[x].row = "none" => script[x].step \in {"create", "lost"}
  /\ script[x].step = "create" => Ahead(ScriptTask(x), RequestTask(q))
  /\ script[x].step = "find" => ~Ahead(ScriptTask(x), RequestTask(q))
  /\ \A y \in Scripts : Born(y) /\ script[y].of = r /\ y > x =>
       script[y].step = "create" /\ ~Ahead(ScriptTask(y), RequestTask(q))

\* The run that a stop is going to mark is settled after the mark.
ReadByStop(p, q) ==
  /\ p \in Scripts
  /\ script[p].row \in HasRun
  /\ script[p].step \in {"progress", "listen", "closed", "find", "stopped", "finish", "end"}
  /\ script[p].step \in {"stopped", "finish"} => ~Ahead(ScriptTask(p), RequestTask(q))

StopKnows(q) ==
  /\ request[q].op = "stop" /\ request[q].step = "latest"
       => FoundByStop(request[q].script, q, request[q].of)
  /\ request[q].step = "mark" => ReadByStop(request[q].run, q)

LiveTracked(p) ==
  script[p].os = "live" /\ script[p].step # "outlived" =>
    \/ runtime[script[p].of] = p
    \/ \E y \in Scripts : y > p /\ Born(y) /\ script[y].of = script[p].of

Orderly ==
  /\ Inv
  /\ Shaped
  /\ Served
  /\ Spawned
  /\ \A p \in Scripts : ScriptFits(p) /\ LiveTracked(p)
  /\ \A q \in Callers : RequestFits(q) /\ StopKnows(q)
  /\ \A r \in Routines : HoldsLatest(r)

LEMMA TasksDiffer ==
  /\ \A p \in Scripts : ScriptTask(p) \in Tasks /\ ScriptTask(p) # Nobody
  /\ \A q \in Callers : RequestTask(q) \in Tasks /\ RequestTask(q) # Nobody
  /\ \A d \in Deletions : DeletionTask(d) \in Tasks /\ DeletionTask(d) # Nobody
  /\ \A p, q : ScriptTask(p) # RequestTask(q) /\ ScriptTask(p) # DeletionTask(q)
               /\ RequestTask(p) # DeletionTask(q)
  /\ \A p, q : /\ ScriptTask(p) = ScriptTask(q) => p = q
               /\ RequestTask(p) = RequestTask(q) => p = q
               /\ DeletionTask(p) = DeletionTask(q) => p = q
BY DEF Tasks, ScriptTask, RequestTask, DeletionTask, Nobody

-----------------------------------------------------------------------------
(* Steps that leave every script where it is *)

\* A script may be signalled, its run marked stopping or deleted with the
\* routine's definition, which takes all runs of the routine.
Mild ==
  /\ script' \in [Scripts -> ScriptRecords]
  /\ \A p \in Scripts :
       /\ script'[p].step = script[p].step
       /\ script'[p].of = script[p].of
       /\ \/ script'[p].os = script[p].os
          \/ script[p].os = "live" /\ script'[p].os = "told"
       /\ \/ script'[p].row = script[p].row
          \/ script[p].row # "none" /\ script'[p].row = "deleted"
          \/ script[p].row \in HasRun \ {"deleted"} /\ script'[p].row = "stopping"
       /\ \/ Born(p) /\ def'[script[p].of] = "absent"
          \/ script'[p].row = "deleted" /\ script[p].row # "deleted"
          => \A z \in Scripts : Born(z) /\ script[z].of = script[p].of => script'[z].row \in NoRun

NoScript(t) == \A p \in Scripts : t # ScriptTask(p)

LEMMA MildFits ==
  ASSUME Orderly, Mild, NEW g, NEW t, Moved(g, t), NoScript(g), NoScript(t), NEW p \in Scripts
  PROVE  ScriptFits(p)'
<1>1. ScriptFits(p)
  BY DEF Orderly
<1>2. ASSUME NEW y \in Scripts, Ahead(ScriptTask(p), ScriptTask(y))
      PROVE  Ahead(ScriptTask(p), ScriptTask(y))'
  BY <1>2, TasksDiffer DEF Moved, NoScript
<1>3. ASSUME NEW z \in Scripts, script[z].row \in NoRun
      PROVE  script'[z].row \in NoRun
  BY <1>3 DEF Mild, NoRun, HasRun
<1>4. script'[p].row \in HasRun \/ script[p].row \notin HasRun
  BY DEF Mild, HasRun
<1>5. script'[p].os = "dead" \/ script[p].os # "dead"
  BY DEF Mild
<1>6. script'[p].os = "unborn" <=> script[p].os = "unborn"
  BY DEF Mild
<1>7. script'[p].row = "none" \/ script[p].row # "none"
  BY DEF Mild, HasRun
<1>8. \A z \in Scripts : Born(z)' <=> Born(z)
  BY DEF Mild, Born
<1>9. (Born(p) /\ def[script[p].of] = "absent" => script[p].row \in NoRun)'
  <2> SUFFICES ASSUME Born(p), def'[script[p].of] = "absent"
               PROVE  script'[p].row \in NoRun
    BY <1>8 DEF Mild
  <2> QED BY DEF Mild
<1>10. (script[p].step = "lost" \/ script[p].row = "deleted" =>
          \A z \in Scripts : z < p /\ Born(z) /\ script[z].of = script[p].of => script[z].row \in NoRun)'
  <2> SUFFICES ASSUME script[p].step = "lost" \/ script'[p].row = "deleted",
                      NEW z \in Scripts, z < p, Born(z), script[z].of = script[p].of
               PROVE  script'[z].row \in NoRun
    BY <1>8 DEF Mild
  <2>1. CASE script[p].step = "lost" \/ script[p].row = "deleted"
    BY <1>1, <1>3, <2>1 DEF ScriptFits
  <2>2. CASE script'[p].row = "deleted" /\ script[p].row # "deleted"
    BY <2>2 DEF Mild
  <2> QED BY <2>1, <2>2
<1>11. (script[p].step = "create" => \A y \in Scripts : p < y /\ Born(y) =>
          script[y].step = "create" /\ Ahead(ScriptTask(p), ScriptTask(y)))'
  BY <1>1, <1>2, <1>8 DEF ScriptFits, Mild
<1>12. script'[p].step = script[p].step /\ script'[p].of = script[p].of
  BY DEF Mild
<1> QED BY <1>1, <1>4, <1>5, <1>6, <1>7, <1>8, <1>9, <1>10, <1>11, <1>12 DEF ScriptFits

\* The runtime may let go of a process that was told to exit.
LetsGo ==
  \A r \in Routines : \/ runtime'[r] = runtime[r]
                      \/ /\ runtime'[r] = None /\ runtime[r] \in Scripts
                         /\ script'[runtime[r]].os # "live"

LEMMA MildHeld ==
  ASSUME Orderly, Mild, LetsGo
  PROVE  /\ \A p \in Scripts : LiveTracked(p)'
         /\ \A r \in Routines : HoldsLatest(r)'
<1>1. \A z \in Scripts : (Born(z)' <=> Born(z)) /\ script'[z].of = script[z].of
  BY DEF Mild, Born
<1>2. ASSUME NEW p \in Scripts
      PROVE  LiveTracked(p)'
  <2> SUFFICES ASSUME script'[p].os = "live", script'[p].step # "outlived"
               PROVE  \/ runtime'[script'[p].of] = p
                      \/ \E y \in Scripts : y > p /\ Born(y)' /\ script'[y].of = script'[p].of
    BY DEF LiveTracked
  <2>1. script[p].os = "live" /\ script[p].step # "outlived" /\ script'[p].of = script[p].of
    BY DEF Mild
  <2>2. script[p].of \in Routines
    BY <2>1 DEF Orderly, ScriptFits, Born
  <2>3. CASE runtime[script[p].of] = p
    BY <2>1, <2>2, <2>3 DEF LetsGo
  <2>4. CASE \E y \in Scripts : y > p /\ Born(y) /\ script[y].of = script[p].of
    BY <1>1, <2>4
  <2> QED BY <2>1, <2>3, <2>4 DEF Orderly, LiveTracked
<1>3. ASSUME NEW r \in Routines
      PROVE  HoldsLatest(r)'
  <2> SUFFICES ASSUME runtime'[r] # None
               PROVE  HoldsLatest(r)'
    BY DEF HoldsLatest
  <2>1. runtime'[r] = runtime[r] /\ HoldsLatest(r) /\ runtime[r] \in Scripts
    BY DEF LetsGo, Orderly, Shaped
  <2>2. script'[runtime[r]].step = script[runtime[r]].step
    BY <2>1 DEF Mild
  <2> QED BY <1>1, <2>1, <2>2 DEF HoldsLatest
<1> QED BY <1>2, <1>3

LEMMA MildStops ==
  ASSUME Orderly, Mild, NEW g, NEW t, Moved(g, t), NoScript(g), NoScript(t),
         NEW q \in Callers, UNCHANGED request[q], g # RequestTask(q), t # RequestTask(q)
  PROVE  StopKnows(q)'
<1>1. \A x \in Scripts : Ahead(ScriptTask(x), RequestTask(q))' <=> Ahead(ScriptTask(x), RequestTask(q))
  BY TasksDiffer DEF Moved, NoScript
<1>2. \A z \in Scripts : (Born(z)' <=> Born(z)) /\ script'[z].of = script[z].of /\ script'[z].step = script[z].step
  BY DEF Mild, Born
<1>3. \A z \in Scripts : /\ script[z].row \in HasRun => script'[z].row \in HasRun
                         /\ script[z].row = "none" <=> script'[z].row = "none"
  BY DEF Mild, HasRun
<1>4. StopKnows(q)
  BY DEF Orderly
<1>5. ASSUME NEW x, NEW r, FoundByStop(x, q, r)
      PROVE  FoundByStop(x, q, r)'
  BY <1>1, <1>2, <1>3, <1>5 DEF FoundByStop
<1>6. ASSUME NEW p, ReadByStop(p, q)
      PROVE  ReadByStop(p, q)'
  BY <1>1, <1>2, <1>3, <1>6 DEF ReadByStop
<1> QED BY <1>4, <1>5, <1>6 DEF StopKnows

LEMMA NoneSpawned ==
  ASSUME Spawned, \A p \in Scripts : Born(p)' <=> Born(p), Starting' \subseteq Starting
  PROVE  Spawned'
<1>1. PICK n \in 0..MaxRuns : /\ \A p \in Scripts : Born(p) <=> p <= n
                              /\ IsFiniteSet(Starting) /\ Cardinality(Starting) <= MaxRuns - n
  BY DEF Spawned
<1>2. IsFiniteSet(Starting') /\ Cardinality(Starting') <= Cardinality(Starting)
  BY <1>1, FS_Subset
<1>3. Cardinality(Starting') \in Nat /\ Cardinality(Starting) \in Nat
  BY <1>1, <1>2, FS_CardinalityType
<1>4. Cardinality(Starting') <= MaxRuns - n
  BY <1>1, <1>2, <1>3, RoutinesAssumption
<1>5. \A p \in Scripts : Born(p)' <=> p <= n
  BY <1>1
<1> QED BY <1>2, <1>4, <1>5 DEF Spawned

\* What becomes of a caller in a step that serves g and lets t wait: it is not
\* concerned, or it moves on as its part of the invariant demands.
Untouched(c, g, t) ==
  /\ UNCHANGED request[c]
  /\ g # RequestTask(c) /\ t # RequestTask(c)
  /\ c \in Deletions => UNCHANGED deleter[c] /\ g # DeletionTask(c) /\ t # DeletionTask(c)

Acted(c, g, t) ==
  /\ RequestFits(c)' /\ StopKnows(c)'
  /\ RequestWaits(c)' <=> (RequestWaits(c) /\ g # RequestTask(c)) \/ t = RequestTask(c)
  /\ request'[c].op \in {"start", "teardown"} => request[c].op \in {"start", "teardown"}
  /\ c \in Deletions =>
       ((DeletionWaits(c) /\ g # DeletionTask(c)) \/ t = DeletionTask(c) => DeletionWaits(c)')

LEMMA CallersKeep ==
  ASSUME Orderly, NEW g, NEW t, Moved(g, t), \A c \in Callers : Untouched(c, g, t) \/ Acted(c, g, t)
  PROVE  /\ \A q \in Callers : Queues(RequestTask(q))' <=> RequestWaits(q)'
         /\ \A d \in Deletions : Queues(DeletionTask(d))' => DeletionWaits(d)'
         /\ \A q \in Callers : RequestFits(q)'
         /\ Starting' \subseteq Starting
<1>1. ASSUME NEW q \in Callers
      PROVE  /\ Queues(RequestTask(q))' <=> RequestWaits(q)'
             /\ RequestFits(q)'
             /\ request'[q].op \in {"start", "teardown"} => request[q].op \in {"start", "teardown"}
  <2>1. RequestFits(q) /\ (Queues(RequestTask(q)) <=> RequestWaits(q))
    BY DEF Orderly, Served
  <2>2. Queues(RequestTask(q))' <=> (RequestWaits(q) /\ g # RequestTask(q)) \/ t = RequestTask(q)
    BY <2>1, TasksDiffer DEF Moved
  <2>3. CASE Untouched(q, g, t)
    <3>1. RequestFits(q)'
      BY <2>1, <2>3 DEF RequestFits, Untouched
    <3> QED BY <2>2, <2>3, <3>1 DEF Untouched, RequestWaits
  <2>4. CASE Acted(q, g, t)
    BY <2>2, <2>4 DEF Acted
  <2> QED BY <2>3, <2>4
<1>2. ASSUME NEW d \in Deletions, Queues(DeletionTask(d))'
      PROVE  DeletionWaits(d)'
  <2>1. d \in Callers
    BY DEF Callers
  <2>2. (DeletionWaits(d) /\ g # DeletionTask(d)) \/ t = DeletionTask(d)
    BY <1>2, TasksDiffer DEF Moved, Orderly, Served
  <2>3. CASE Untouched(d, g, t)
    BY <2>2, <2>3 DEF Untouched, DeletionWaits
  <2>4. CASE Acted(d, g, t)
    BY <2>2, <2>4 DEF Acted
  <2> QED BY <2>1, <2>3, <2>4
<1>3. Starting' \subseteq Starting
  BY <1>1 DEF Starting, Callers
<1> QED BY <1>1, <1>2, <1>3

LEMMA MildKeeps ==
  ASSUME Orderly, Mild, LetsGo, Inv', Shaped', InOrder', NEW g, NEW t, Moved(g, t),
         NoScript(g), NoScript(t), \A c \in Callers : Untouched(c, g, t) \/ Acted(c, g, t)
  PROVE  Orderly'
<1>1. \A p \in Scripts : ScriptFits(p)'
  BY MildFits
<1>2. /\ \A p \in Scripts : LiveTracked(p)'
      /\ \A r \in Routines : HoldsLatest(r)'
  BY MildHeld
<1>3. \A p \in Scripts : (Born(p)' <=> Born(p)) /\ (ScriptWaits(p)' <=> ScriptWaits(p))
  BY DEF Mild, Born, ScriptWaits
<1>4. \A p \in Scripts : Queues(ScriptTask(p))' <=> ScriptWaits(p)'
  BY <1>3, TasksDiffer DEF Moved, NoScript, Orderly, Served
<1>5. /\ \A q \in Callers : Queues(RequestTask(q))' <=> RequestWaits(q)'
      /\ \A d \in Deletions : Queues(DeletionTask(d))' => DeletionWaits(d)'
      /\ \A q \in Callers : RequestFits(q)'
      /\ Starting' \subseteq Starting
  BY CallersKeep
<1>6. Spawned'
  BY <1>3, <1>5, NoneSpawned DEF Orderly
<1>7. \A q \in Callers : StopKnows(q)'
  BY MildStops DEF Untouched, Acted
<1>8. Served'
  BY <1>4, <1>5 DEF Served
<1> QED BY <1>1, <1>2, <1>5, <1>6, <1>7, <1>8 DEF Orderly

LEMMA ScriptsStay ==
  ASSUME Orderly, UNCHANGED script, \A r \in Routines : def'[r] = "absent" => def[r] = "absent"
  PROVE  Mild
<1>1. script \in [Scripts -> ScriptRecords]
  BY DEF Orderly, Shaped
<1>2. ASSUME NEW p \in Scripts, Born(p), def'[script[p].of] = "absent",
             NEW z \in Scripts, Born(z), script[z].of = script[p].of
      PROVE  script[z].row \in NoRun
  BY <1>2 DEF Orderly, ScriptFits
<1> QED BY <1>1, <1>2 DEF Mild

LEMMA SignalsAreMild ==
  ASSUME Orderly, NEW S, script' = Signalled(S), UNCHANGED def
  PROVE  Mild
<1>1. ASSUME NEW p \in Scripts
      PROVE  /\ script'[p] \in ScriptRecords
             /\ script'[p].step = script[p].step /\ script'[p].of = script[p].of
             /\ script'[p].row = script[p].row
             /\ script'[p].os = script[p].os \/ (script[p].os = "live" /\ script'[p].os = "told")
             /\ p \in S => script'[p].os # "live"
  <2> DEFINE s == script[p]
  <2>1. s \in ScriptRecords
    BY DEF Orderly, Shaped
  <2>2. script'[p] = IF p \in S /\ s.os = "live" THEN [s EXCEPT !.os = "told"] ELSE s
    BY DEF Signalled
  <2> HIDE DEF s
  <2>3. /\ [s EXCEPT !.os = "told"] \in ScriptRecords
        /\ [s EXCEPT !.os = "told"].os = "told"
        /\ [s EXCEPT !.os = "told"].step = s.step
        /\ [s EXCEPT !.os = "told"].of = s.of
        /\ [s EXCEPT !.os = "told"].row = s.row
    BY <2>1 DEF ScriptRecords
  <2> QED BY <2>1, <2>2, <2>3 DEF s
<1>2. script' \in [Scripts -> ScriptRecords]
  BY <1>1 DEF Signalled
<1>3. ASSUME NEW p \in Scripts, Born(p), def'[script[p].of] = "absent",
             NEW z \in Scripts, Born(z), script[z].of = script[p].of
      PROVE  script'[z].row \in NoRun
  BY <1>1, <1>3 DEF Orderly, ScriptFits
<1> QED BY <1>1, <1>2, <1>3 DEF Mild

LEMMA CascadesAreMild ==
  ASSUME Orderly, NEW R, script' = Cascade(R),
         \A r \in Routines : def'[r] = "absent" => r \in R \/ def[r] = "absent"
  PROVE  Mild
<1>1. ASSUME NEW p \in Scripts
      PROVE  /\ script'[p] \in ScriptRecords
             /\ script'[p].step = script[p].step /\ script'[p].of = script[p].of
             /\ script'[p].os = script[p].os
             /\ script[p].of \in R /\ script[p].row # "none" => script'[p].row = "deleted"
             /\ ~(script[p].of \in R /\ script[p].row # "none") => script'[p].row = script[p].row
  <2> DEFINE s == script[p]
  <2>1. s \in ScriptRecords
    BY DEF Orderly, Shaped
  <2>2. script'[p] = IF s.of \in R /\ s.row # "none" THEN [s EXCEPT !.row = "deleted"] ELSE s
    BY DEF Cascade
  <2> HIDE DEF s
  <2>3. /\ [s EXCEPT !.row = "deleted"] \in ScriptRecords
        /\ [s EXCEPT !.row = "deleted"].row = "deleted"
        /\ [s EXCEPT !.row = "deleted"].step = s.step
        /\ [s EXCEPT !.row = "deleted"].of = s.of
        /\ [s EXCEPT !.row = "deleted"].os = s.os
    BY <2>1 DEF ScriptRecords
  <2> QED BY <2>1, <2>2, <2>3 DEF s
<1>2. script' \in [Scripts -> ScriptRecords]
  BY <1>1 DEF Cascade
<1>3. ASSUME NEW p \in Scripts,
             \/ Born(p) /\ def'[script[p].of] = "absent"
             \/ script'[p].row = "deleted" /\ script[p].row # "deleted",
             NEW z \in Scripts, Born(z), script[z].of = script[p].of
      PROVE  script'[z].row \in NoRun
  <2>1. script[z].of \in Routines /\ (def[script[z].of] = "absent" => script[z].row \in NoRun)
    BY <1>3 DEF Orderly, ScriptFits
  <2>2. script[z].of \in R \/ def[script[z].of] = "absent"
    BY <1>1, <1>3, <2>1
  <2> QED BY <1>1, <2>1, <2>2 DEF NoRun
<1> QED BY <1>1, <1>2, <1>3 DEF Mild

-----------------------------------------------------------------------------
(* The requests *)

\* Only q moves, among the callers.
LEMMA OneActs ==
  ASSUME Orderly, Mild, LetsGo, Inv', InOrder', NEW g, NEW t, Moved(g, t), NEW q \in Callers,
         g \in {RequestTask(q), Nobody} \/ (q \in Deletions /\ g = DeletionTask(q)),
         t \in {RequestTask(q), Nobody} \/ (q \in Deletions /\ t = DeletionTask(q)),
         NEW n \in RequestRecords, request' = [request EXCEPT ![q] = n],
         def' \in [Routines -> {"absent", "free", "bound"}],
         runtime' \in [Routines -> Scripts \cup {None}],
         runner' \in {"live", "stopped", "removed", "orphan"},
         \A d \in Deletions \ {q} : UNCHANGED deleter[d],
         Acted(q, g, t)
  PROVE  Orderly'
<1>1. request \in [Callers -> RequestRecords]
  BY DEF Orderly, Shaped
<1>2. \A c \in Callers \ {q} : UNCHANGED request[c]
  BY <1>1
<1>3. Shaped'
  BY <1>1 DEF Shaped, Mild
<1>4. NoScript(g) /\ NoScript(t)
  BY TasksDiffer DEF NoScript
<1>5. \A c \in Callers \ {q} : Untouched(c, g, t)
  BY <1>2, TasksDiffer DEF Untouched
<1> QED BY <1>3, <1>4, <1>5, MildKeeps

\* The request at the head of the queue.
LEMMA AtHead ==
  ASSUME Orderly, NEW q \in Callers, Turn(<<"request", q>>)
  PROVE  /\ queue # <<>> /\ Head(queue) = RequestTask(q) /\ InOrder
         /\ RequestWaits(q) /\ request[q] \in RequestRecords /\ request[q].of \in Routines
         /\ request[q].op \notin {"no", "await"}
         /\ \A p \in Scripts : ~Ahead(ScriptTask(p), RequestTask(q))
         /\ q \in Deletions => /\ request[q].op = "stop" /\ deleter[q].step = "stopping"
                               /\ ~Queues(DeletionTask(q))
<1>1. queue # <<>> /\ Head(queue) = RequestTask(q) /\ InOrder
  BY DEF Turn, RequestTask, Orderly, Served
<1>2. Queues(RequestTask(q)) /\ \A u \in Tasks : ~Ahead(u, RequestTask(q))
  BY <1>1, HeadFirst
<1>3. RequestWaits(q) /\ request[q] \in RequestRecords /\ RequestFits(q)
  BY <1>2 DEF Orderly, Served, Shaped
<1>4. request[q].op \notin {"no", "await"} /\ request[q].of \in Routines
  BY <1>3 DEF RequestFits, RequestWaits
<1>5. q \in Deletions => request[q].op = "stop" /\ deleter[q].step = "stopping"
  BY <1>3, <1>4 DEF RequestFits
<1>6. q \in Deletions => ~Queues(DeletionTask(q))
  BY <1>5 DEF Orderly, Served, DeletionWaits
<1>7. \A p \in Scripts : ~Ahead(ScriptTask(p), RequestTask(q))
  BY <1>2, TasksDiffer
<1> QED BY <1>1, <1>3, <1>4, <1>5, <1>6, <1>7

LEMMA HeadMoves ==
  ASSUME Orderly, NEW q \in Callers, Turn(<<"request", q>>)
  PROVE  /\ Awaits(<<"request", q>>) => InOrder' /\ Moved(RequestTask(q), RequestTask(q))
         /\ Ends => InOrder' /\ Moved(RequestTask(q), Nobody)
         /\ q \in Deletions /\ Awaits(<<"deletion", q>>)
              => InOrder' /\ Moved(RequestTask(q), DeletionTask(q))
<1>1. queue # <<>> /\ Head(queue) = RequestTask(q) /\ InOrder
  BY AtHead
<1>2. q \in Deletions => ~Queues(DeletionTask(q))
  BY AtHead
<1>3. RequestTask(q) \in Tasks /\ (q \in Deletions => DeletionTask(q) \in Tasks)
  BY TasksDiffer
<1>4. Awaits(<<"request", q>>) => Awaits(RequestTask(q))
  BY DEF RequestTask
<1>5. Awaits(<<"deletion", q>>) => Awaits(DeletionTask(q))
  BY DEF DeletionTask
<1> QED BY <1>1, <1>2, <1>3, <1>4, <1>5, AwaitsMoves, EndsMoves

\* What a request step that spawns nothing leaves alone.
Still ==
  /\ UNCHANGED <<runtime, deleter, runner>>
  /\ def' \in [Routines -> {"absent", "free", "bound"}]
  /\ Mild

\* The request goes on to another step.
LEMMA GoesOn ==
  ASSUME Orderly, Inv', NEW q \in Callers, Turn(<<"request", q>>), Still, NEW n \in RequestRecords,
         Continue(q, n), n.op = request[q].op, n.of = request[q].of,
         n.step \notin {"no", "look", "cwd"}, StopKnows(q)'
  PROVE  Orderly'
<1>1. InOrder' /\ Moved(RequestTask(q), RequestTask(q))
  BY HeadMoves DEF Continue
<1>2. /\ request[q].op \notin {"no", "await"} /\ request[q].of \in Routines
      /\ q \in Deletions => /\ request[q].op = "stop" /\ deleter[q].step = "stopping"
                            /\ ~Queues(DeletionTask(q))
  BY AtHead
<1>3. request' = [request EXCEPT ![q] = n] /\ request'[q] = n
  BY DEF Continue, Orderly, Shaped
<1>4. RequestFits(q)'
  BY <1>2, <1>3 DEF RequestFits, Still, Orderly
<1>5. RequestWaits(q) /\ RequestWaits(q)'
  BY <1>3, AtHead DEF RequestWaits
<1>6. q \in Deletions => ~DeletionWaits(q) /\ RequestTask(q) # DeletionTask(q)
  BY <1>2, TasksDiffer DEF DeletionWaits
<1>7. Acted(q, RequestTask(q), RequestTask(q))
  BY <1>3, <1>4, <1>5, <1>6 DEF Acted
<1>8. LetsGo /\ runtime' \in [Routines -> Scripts \cup {None}] /\ runner' \in {"live", "stopped", "removed", "orphan"}
  BY DEF LetsGo, Still, Orderly, Shaped
<1> QED BY <1>1, <1>3, <1>7, <1>8, OneActs DEF Still

LEMMA IdleTyped ==
  Idle \in RequestRecords /\ Idle.op = "no" /\ Idle.step = "no" /\ Idle.of = "none"
<1> DEFINE nobody == None
           no == FALSE
           of == "none"
           n == [op |-> "no", step |-> "no", of |-> of, bind |-> no, owner |-> nobody,
                 script |-> nobody, run |-> nobody]
<1>1. nobody \in Owners /\ nobody \in Scripts \cup {None} /\ no \in BOOLEAN /\ of \in Routines \cup {"none"}
  BY DEF Owners
<1>2. Idle = n
  BY DEF Idle
<1>3. of = "none"
  OBVIOUS
<1> HIDE DEF nobody, no, of
<1>4. n \in RequestRecords /\ n.op = "no" /\ n.step = "no" /\ n.of = of
  BY <1>1 DEF RequestRecords
<1> HIDE DEF n
<1> QED BY <1>2, <1>3, <1>4

\* The request ends, or the deletion that stopped a routine goes on.
LEMMA ReturnKeeps ==
  ASSUME Orderly, Inv', NEW q \in Callers, Turn(<<"request", q>>), Still, Return(q)
  PROVE  Orderly'
<1> DEFINE t == IF q \in Deletions THEN DeletionTask(q) ELSE Nobody
<1>1. InOrder' /\ Moved(RequestTask(q), t)
  BY HeadMoves DEF Return
<1>2. /\ q \in Deletions => /\ request[q].op = "stop" /\ deleter[q].step = "stopping"
                            /\ ~Queues(DeletionTask(q))
  BY AtHead
<1>3. request' = [request EXCEPT ![q] = Idle] /\ request'[q] = Idle
  BY DEF Return, Orderly, Shaped
<1>4. RequestFits(q)'
  BY <1>3, IdleTyped DEF RequestFits
<1>5. RequestWaits(q) /\ ~RequestWaits(q)'
  BY <1>3, AtHead, IdleTyped DEF RequestWaits
<1>6. q \in Deletions => DeletionWaits(q)'
  BY <1>2, <1>3, IdleTyped DEF DeletionWaits, Still
<1>7. StopKnows(q)'
  BY <1>3, IdleTyped DEF StopKnows
<1>8. t # RequestTask(q)
  BY TasksDiffer
<1>9. Acted(q, RequestTask(q), t)
  BY <1>3, <1>4, <1>5, <1>6, <1>7, <1>8, IdleTyped DEF Acted
<1>10. LetsGo /\ runtime' \in [Routines -> Scripts \cup {None}] /\ runner' \in {"live", "stopped", "removed", "orphan"}
  BY DEF LetsGo, Still, Orderly, Shaped
<1>11. t \in {RequestTask(q), Nobody} \/ (q \in Deletions /\ t = DeletionTask(q))
  OBVIOUS
<1> HIDE DEF t
<1> QED BY <1>1, <1>3, <1>9, <1>10, <1>11, IdleTyped, OneActs DEF Still

\* Only the step of the request changes.
LEMMA StepGoesOn ==
  ASSUME Orderly, Inv', NEW q \in Callers, Turn(<<"request", q>>), Still,
         NEW step \in {"upsert", "bind", "again", "kill", "release", "view", "delete"},
         Continue(q, [request[q] EXCEPT !.step = step])
  PROVE  Orderly'
<1> DEFINE t == request[q]
           n == [t EXCEPT !.step = step]
<1>1. t \in RequestRecords
  BY AtHead
<1>2. Continue(q, n) /\ request' = [request EXCEPT ![q] = n]
  BY DEF Continue
<1> HIDE DEF t
<1>3. n \in RequestRecords /\ n.step = step /\ n.op = t.op /\ n.of = t.of
  BY <1>1 DEF RequestRecords
<1> HIDE DEF n
<1>4. request'[q] = n
  BY <1>2 DEF Orderly, Shaped
<1>5. StopKnows(q)'
  BY <1>3, <1>4 DEF StopKnows
<1> QED BY <1>2, <1>3, <1>5, GoesOn DEF t

LEMMA FrameStill ==
  ASSUME Orderly, RequestFrame, UNCHANGED deletionVars,
         def' \in [Routines -> {"absent", "free", "bound"}],
         \A r \in Routines : def'[r] = "absent" => def[r] = "absent"
  PROVE  Still
BY ScriptsStay DEF Still, RequestFrame, deletionVars

LEMMA FindsKeep ==
  ASSUME Orderly, Inv', NEW q \in Callers, UNCHANGED deletionVars,
         \/ StartFind(q) \/ ReleaseFind(q) \/ DeleteFind(q) \/ DeleteView(q)
  PROVE  Orderly'
<1>1. Still
  BY FrameStill DEF StartFind, ReleaseFind, DeleteFind, DeleteView, Orderly, Shaped
<1>2. Turn(<<"request", q>>)
  BY DEF StartFind, ReleaseFind, DeleteFind, DeleteView, At
<1>3. \/ Return(q)
      \/ \E step \in {"bind", "release", "view", "delete"} :
           Continue(q, [request[q] EXCEPT !.step = step])
  BY DEF StartFind, ReleaseFind, DeleteFind, DeleteView
<1> QED BY <1>1, <1>2, <1>3, ReturnKeeps, StepGoesOn

LEMMA BindKeeps ==
  ASSUME Orderly, Inv', NEW q \in Callers, UNCHANGED deletionVars, StartBind(q)
  PROVE  Orderly'
<1>1. def \in [Routines -> {"absent", "free", "bound"}]
  BY DEF Orderly, Shaped
<1>2. def' = def \/ def' = [def EXCEPT ![request[q].of] = "bound"]
  BY DEF StartBind
<1>3. /\ def' \in [Routines -> {"absent", "free", "bound"}]
      /\ \A r \in Routines : def'[r] = "absent" => def[r] = "absent"
  BY <1>1, <1>2
<1>4. Still
  BY <1>3, FrameStill DEF StartBind
<1>5. Turn(<<"request", q>>) /\ (Return(q) \/ Continue(q, [request[q] EXCEPT !.step = "again"]))
  BY DEF StartBind, At
<1> QED BY <1>4, <1>5, ReturnKeeps, StepGoesOn

LEMMA CreateKeeps ==
  ASSUME Orderly, Inv', NEW q \in Callers, UNCHANGED deletionVars, CreateFind(q) \/ CreateUpsert(q)
  PROVE  Orderly'
<1>1. def \in [Routines -> {"absent", "free", "bound"}] /\ owner \in Owners
  BY DEF Orderly, Shaped, Inv, Typed
<1>2. Turn(<<"request", q>>) /\ request[q] \in RequestRecords
  BY AtHead DEF CreateFind, CreateUpsert, At
<1>3. CASE CreateUpsert(q)
  <2>1. \/ def' = def
        \/ def' = [def EXCEPT ![request[q].of] = "free"]
        \/ def' = [def EXCEPT ![request[q].of] = "bound"]
    BY <1>3 DEF CreateUpsert
  <2>2. /\ def' \in [Routines -> {"absent", "free", "bound"}]
        /\ \A r \in Routines : def'[r] = "absent" => def[r] = "absent"
    BY <1>1, <2>1
  <2>3. Still
    BY <1>3, <2>2, FrameStill DEF CreateUpsert
  <2>4. Return(q)
    BY <1>3 DEF CreateUpsert
  <2> QED BY <1>2, <2>3, <2>4, ReturnKeeps
<1>4. CASE CreateFind(q)
  <2>1. Still
    BY <1>1, <1>4, FrameStill DEF CreateFind
  <2>2. CASE Return(q)
    BY <1>2, <2>1, <2>2, ReturnKeeps
  <2>3. CASE ~Return(q)
    <3> DEFINE t == request[q]
               id == IF t.bind \/ def[t.of] = "free" THEN t.owner ELSE owner
               n == [t EXCEPT !.step = "upsert", !.owner = id]
    <3>1. Continue(q, n) /\ request' = [request EXCEPT ![q] = n]
      BY <1>4, <2>3 DEF CreateFind, Continue
    <3>2. id \in Owners
      BY <1>1, <1>2 DEF RequestRecords
    <3>3. t \in RequestRecords
      BY <1>2
    <3> HIDE DEF t, id
    <3>4. n \in RequestRecords /\ n.step = "upsert" /\ n.op = t.op /\ n.of = t.of
      BY <3>2, <3>3 DEF RequestRecords
    <3> HIDE DEF n
    <3>5. request'[q] = n
      BY <3>1 DEF Orderly, Shaped
    <3>6. StopKnows(q)'
      BY <3>4, <3>5 DEF StopKnows
    <3> QED BY <1>2, <2>1, <3>1, <3>4, <3>6, GoesOn DEF t
  <2> QED BY <2>2, <2>3
<1> QED BY <1>3, <1>4

LEMMA ReleaseKeeps ==
  ASSUME Orderly, Inv', NEW q \in Callers, UNCHANGED deletionVars, Release(q)
  PROVE  Orderly'
<1>1. def \in [Routines -> {"absent", "free", "bound"}]
  BY DEF Orderly, Shaped
<1>2. def' = def \/ def' = [def EXCEPT ![request[q].of] = "free"]
  BY <1>1, AtHead DEF Release, At
<1>3. /\ def' \in [Routines -> {"absent", "free", "bound"}]
      /\ \A r \in Routines : def'[r] = "absent" => def[r] = "absent"
  BY <1>1, <1>2
<1>4. Still
  BY <1>3, FrameStill DEF Release
<1> QED BY <1>4, ReturnKeeps DEF Release, At

LEMMA DeleteKeeps ==
  ASSUME Orderly, Inv', NEW q \in Callers, UNCHANGED deletionVars, Delete(q)
  PROVE  Orderly'
<1>1. def \in [Routines -> {"absent", "free", "bound"}]
  BY DEF Orderly, Shaped
<1>2. /\ def' \in [Routines -> {"absent", "free", "bound"}]
      /\ \A r \in Routines : def'[r] = "absent" => r = request[q].of \/ def[r] = "absent"
  BY <1>1 DEF Delete
<1>3. Mild
  BY <1>2, CascadesAreMild DEF Delete
<1>4. Still
  BY <1>2, <1>3 DEF Delete, Still, deletionVars
<1> QED BY <1>4, ReturnKeeps DEF Delete, At

LEMMA StopFindKeeps ==
  ASSUME Orderly, Inv', NEW q \in Callers, UNCHANGED deletionVars, StopFind(q)
  PROVE  Orderly'
<1>1. Still
  BY FrameStill DEF StopFind, Orderly, Shaped
<1>2. Turn(<<"request", q>>) /\ request[q] \in RequestRecords /\ request[q].of \in Routines /\ request[q].op = "stop"
  BY AtHead DEF StopFind, At
<1>3. CASE Return(q)
  BY <1>1, <1>2, <1>3, ReturnKeeps
<1>4. CASE ~Return(q)
  <2>0. runtime[request[q].of] \in Scripts
    BY <1>2, <1>4 DEF StopFind, Active, Orderly, Shaped
  <2> PICK r \in Routines : r = request[q].of
    BY <1>2
  <2> PICK x \in Scripts : x = runtime[r]
    BY <2>0
  <2> DEFINE t == request[q]
             n == [t EXCEPT !.step = "latest", !.script = x]
  <2>1. Continue(q, n) /\ request' = [request EXCEPT ![q] = n] /\ x # None
    BY <1>4 DEF StopFind, Continue, Active
  <2>2. x \in Scripts /\ t \in RequestRecords /\ t.of = r
    BY <1>2
  <2>3. HoldsLatest(r) /\ x = runtime[r]
    BY DEF Orderly
  <2>4. n \in RequestRecords /\ n.step = "latest" /\ n.op = t.op /\ n.of = r /\ n.script = x
    <3> HIDE DEF t
    <3> QED BY <2>2 DEF RequestRecords
  <2> HIDE DEF n
  <2>5. request'[q] = n
    BY <2>1 DEF Orderly, Shaped
  <2>6. ScriptFits(x) /\ (script[x].step = "create" => Queues(ScriptTask(x)))
    BY <2>2 DEF Orderly, Served, ScriptWaits
  <2>7. Moved(RequestTask(q), RequestTask(q))
    BY <1>2, <2>1, HeadMoves DEF Continue
  <2>8. script[x].step = "create" => Ahead(ScriptTask(x), RequestTask(q))'
    BY <2>2, <2>6, <2>7, TasksDiffer DEF Moved
  <2>9. script' = script
    BY DEF StopFind, RequestFrame
  <2>10. /\ script[x].of = r
         /\ script[x].step \in {"create", "progress", "listen", "lost", "closed"}
         /\ \A y \in Scripts : Born(y) /\ script[y].of = r => y <= x
    BY <2>1, <2>3 DEF HoldsLatest
  <2>11. script[x].row \in HasRun \cup {"none"} /\ (script[x].row = "none" => script[x].step \in {"create", "lost"})
    BY <2>6, <2>10 DEF ScriptFits, HasRun
  <2>12. \A y \in Scripts : Born(y) /\ script[y].of = r => ~(y > x)
    BY <2>2, <2>10, RoutinesAssumption DEF Scripts
  <2>13. FoundByStop(x, q, r)'
    BY <2>2, <2>8, <2>9, <2>10, <2>11, <2>12 DEF FoundByStop, Born
  <2>14. StopKnows(q)'
    BY <2>4, <2>5, <2>13 DEF StopKnows
  <2> QED BY <1>1, <1>2, <2>1, <2>2, <2>4, <2>14, GoesOn
<1> QED BY <1>3, <1>4

\* The latest run is the one of the process that the stop found: it has a row
\* by now, unless its definition went and took the older runs with it, and a
\* process that replaced it has none.
LEMMA LatestIsFound ==
  ASSUME Orderly, NEW q \in Callers, At(q, "stop", "latest")
  PROVE  \/ Latest(request[q].of) = None
         \/ /\ Latest(request[q].of) = request[q].script
            /\ ReadByStop(request[q].script, q)
            /\ script[request[q].script].step \notin {"stopped", "finish"}
<1> DEFINE r == request[q].of
           x == request[q].script
<1>1. /\ Turn(<<"request", q>>) /\ FoundByStop(x, q, r) /\ x \in Scripts /\ r \in Routines
      /\ \A p \in Scripts : ~Ahead(ScriptTask(p), RequestTask(q))
  BY AtHead DEF At, Orderly, StopKnows, FoundByStop
<1> HIDE DEF r, x
<1>2. /\ script[x].of = r /\ script[x].step # "create"
      /\ script[x].step \in {"progress", "listen", "lost", "closed", "find", "end"}
      /\ script[x].row \in HasRun \cup {"none"}
      /\ script[x].row = "none" => script[x].step = "lost"
      /\ \A y \in Scripts : Born(y) /\ script[y].of = r /\ y > x => script[y].step = "create"
  BY <1>1 DEF FoundByStop
<1>3. ASSUME NEW z \in RunsOf(r)
      PROVE  z \in Scripts /\ script[z].of = r /\ script[z].row \notin NoRun /\ Born(z) /\ z <= x
  <2>1. z \in Scripts /\ script[z].of = r /\ script[z].row \notin NoRun
    BY DEF RunsOf, NoRun
  <2>2. ScriptFits(z)
    BY <2>1 DEF Orderly
  <2>3. Born(z) /\ script[z].step # "create"
    BY <2>1, <2>2 DEF ScriptFits, Born, NoRun
  <2>4. ~(z > x)
    BY <1>2, <2>1, <2>3
  <2> QED BY <1>1, <2>1, <2>3, <2>4, RoutinesAssumption DEF Scripts
<1>4. ASSUME RunsOf(r) # {}
      PROVE  x \in RunsOf(r)
  <2>1. PICK z \in RunsOf(r) : TRUE
    BY <1>4
  <2>2. z \in Scripts /\ script[z].of = r /\ script[z].row \notin NoRun /\ Born(z) /\ z <= x
    BY <1>3
  <2>3. CASE z = x
    BY <2>1, <2>3
  <2>4. CASE z # x
    <3>1. z < x
      BY <1>1, <2>2, <2>4, RoutinesAssumption DEF Scripts
    <3>2. ScriptFits(x)
      BY <1>1 DEF Orderly
    <3>3. script[x].step # "lost" /\ script[x].row # "deleted"
      BY <1>2, <2>2, <3>1, <3>2 DEF ScriptFits
    <3>4. script[x].row \notin {"none", "deleted"}
      BY <1>2, <3>3
    <3> QED BY <1>1, <1>2, <3>4 DEF RunsOf
  <2> QED BY <2>3, <2>4
<1>5. CASE RunsOf(r) = {}
  BY <1>5 DEF Latest, r
<1>6. CASE RunsOf(r) # {}
  <2>1. Latest(r) = CHOOSE p \in RunsOf(r) : \A z \in RunsOf(r) : z <= p
    BY <1>6 DEF Latest
  <2>2. x \in RunsOf(r) /\ \A z \in RunsOf(r) : z <= x
    BY <1>3, <1>4, <1>6
  <2>3. Latest(r) \in RunsOf(r) /\ \A z \in RunsOf(r) : z <= Latest(r)
    BY <2>1, <2>2
  <2>4. Latest(r) <= x /\ x <= Latest(r) /\ Latest(r) \in Scripts
    BY <1>3, <2>2, <2>3
  <2>5. Latest(r) = x
    BY <1>1, <2>4, RoutinesAssumption DEF Scripts
  <2>6. script[x].row \in HasRun /\ script[x].row \notin NoRun
    BY <1>2, <1>3, <2>2 DEF NoRun
  <2>7. script[x].step # "lost"
    <3>1. ScriptFits(x)
      BY <1>1 DEF Orderly
    <3> QED BY <2>6, <3>1 DEF ScriptFits, NoRun
  <2>8. ReadByStop(x, q) /\ script[x].step \notin {"stopped", "finish"}
    BY <1>1, <1>2, <2>6, <2>7 DEF ReadByStop
  <2> QED BY <2>5, <2>8 DEF r, x
<1> QED BY <1>5, <1>6

LEMMA StopLatestKeeps ==
  ASSUME Orderly, Inv', NEW q \in Callers, UNCHANGED deletionVars, StopLatest(q)
  PROVE  Orderly'
<1>1. Still
  BY FrameStill DEF StopLatest, Orderly, Shaped
<1>2. Turn(<<"request", q>>) /\ request[q] \in RequestRecords /\ request[q].of \in Routines
  BY AtHead DEF StopLatest, At
<1>3. At(q, "stop", "latest")
  BY DEF StopLatest
<1> DEFINE t == request[q]
<1>4. PICK p : p = Latest(t.of)
  OBVIOUS
<1>5. p = None \/ /\ p \in Scripts /\ ReadByStop(p, q)
                  /\ script[p].step \notin {"stopped", "finish"}
  BY <1>3, <1>4, LatestIsFound DEF ReadByStop
<1> DEFINE step == IF p = None THEN "kill" ELSE "mark"
           n == [t EXCEPT !.step = step, !.run = p]
<1>6. Continue(q, n) /\ request' = [request EXCEPT ![q] = n]
  BY <1>4 DEF StopLatest, Continue
<1>7. n \in RequestRecords /\ n.step = step /\ n.op = t.op /\ n.of = t.of /\ n.run = p
  <2>1. p \in Scripts \cup {None} /\ step \in {"kill", "mark"} /\ t \in RequestRecords
    BY <1>2, <1>5
  <2> HIDE DEF t, step
  <2> QED BY <2>1 DEF RequestRecords
<1>8. step \in {"kill", "mark"} /\ (step = "mark" => p # None)
  OBVIOUS
<1> HIDE DEF n, step
<1>9. request'[q] = n
  BY <1>6 DEF Orderly, Shaped
<1>10. script' = script
  BY DEF StopLatest, RequestFrame
<1>11. step = "mark" => ReadByStop(p, q)'
  BY <1>5, <1>8, <1>10 DEF ReadByStop
<1>12. StopKnows(q)'
  BY <1>7, <1>8, <1>9, <1>11 DEF StopKnows
<1> QED BY <1>1, <1>2, <1>6, <1>7, <1>8, <1>12, GoesOn

LEMMA StopMarkKeeps ==
  ASSUME Orderly, Inv', NEW q \in Callers, UNCHANGED deletionVars, StopMark(q)
  PROVE  Orderly'
<1>1. Turn(<<"request", q>>) /\ request[q].step = "mark"
  BY DEF StopMark, At
<1>2. PICK p \in Scripts : p = request[q].run /\ ReadByStop(p, q)
  BY <1>1 DEF Orderly, StopKnows, ReadByStop
<1> DEFINE s == script[p]
           row == IF s.row = "deleted" THEN "deleted" ELSE "stopping"
           e == [s EXCEPT !.row = row]
<1>3. script \in [Scripts -> ScriptRecords] /\ s \in ScriptRecords /\ s.row \in HasRun
  BY <1>2 DEF Orderly, Shaped, ReadByStop
<1>4. script' = [script EXCEPT ![p] = e]
  BY <1>2, <1>3 DEF StopMark
<1> HIDE DEF s
<1>5. row \in {"deleted", "stopping"} /\ (row = "deleted" <=> s.row = "deleted")
  OBVIOUS
<1> HIDE DEF row
<1>6. e \in ScriptRecords /\ e.row = row /\ e.os = s.os /\ e.of = s.of /\ e.step = s.step
  BY <1>3, <1>5 DEF ScriptRecords
<1> HIDE DEF e
<1>7. script' \in [Scripts -> ScriptRecords] /\ script'[p] = e /\ \A z \in Scripts \ {p} : script'[z] = script[z]
  BY <1>3, <1>4, <1>6
<1>8. UNCHANGED <<def, runtime, deleter, runner>>
  BY DEF StopMark, deletionVars
<1>9. ASSUME NEW z \in Scripts
      PROVE  /\ script'[z].step = script[z].step /\ script'[z].of = script[z].of
             /\ script'[z].os = script[z].os
             /\ \/ script'[z].row = script[z].row
                \/ script[z].row \in HasRun \ {"deleted"} /\ script'[z].row = "stopping"
  BY <1>3, <1>5, <1>6, <1>7 DEF s
<1>10. ASSUME NEW y \in Scripts, \/ Born(y) /\ def'[script[y].of] = "absent"
                                 \/ script'[y].row = "deleted" /\ script[y].row # "deleted",
              NEW z \in Scripts, Born(z), script[z].of = script[y].of
       PROVE  script'[z].row \in NoRun
  <2>1. script[z].row \in NoRun
    BY <1>8, <1>9, <1>10 DEF Orderly, ScriptFits
  <2> QED BY <1>9, <2>1 DEF NoRun, HasRun
<1>11. Mild
  BY <1>7, <1>9, <1>10 DEF Mild
<1>12. Still
  BY <1>8, <1>11 DEF Still, Orderly, Shaped
<1>13. Continue(q, [request[q] EXCEPT !.step = "kill"])
  BY DEF StopMark
<1> QED BY <1>1, <1>12, <1>13, StepGoesOn

LEMMA StopKillKeeps ==
  ASSUME Orderly, Inv', NEW q \in Callers, UNCHANGED deletionVars, StopKill(q)
  PROVE  Orderly'
<1>1. Mild
  BY SignalsAreMild DEF StopKill
<1>2. Still
  BY <1>1 DEF StopKill, Still, deletionVars, Orderly, Shaped
<1> QED BY <1>2, ReturnKeeps DEF StopKill, At

LEMMA EnsureOwnerKeeps ==
  ASSUME Orderly, Inv', NEW q \in Callers, UNCHANGED deletionVars, EnsureOwner(q)
  PROVE  Orderly'
<1>1. Turn(<<"request", q>>) /\ request[q] \in RequestRecords /\ request[q].op \notin {"no", "await"}
      /\ RequestFits(q) /\ owner' \in Owners
  BY AtHead DEF EnsureOwner, Orderly, Inv, Typed
<1>2. PICK id \in Owners : id = owner'
  BY <1>1
<1> DEFINE t == request[q]
           n == [t EXCEPT !.step = "cwd", !.owner = id]
<1>3. request' = [request EXCEPT ![q] = n] /\ Ends
  BY <1>2 DEF EnsureOwner
<1>4. n \in RequestRecords /\ n.step = "cwd" /\ n.op = t.op /\ n.of = t.of
  <2>1. t \in RequestRecords
    BY <1>1
  <2> HIDE DEF t
  <2> QED BY <2>1 DEF RequestRecords
<1> HIDE DEF n
<1>5. request'[q] = n
  BY <1>3 DEF Orderly, Shaped
<1>6. InOrder' /\ Moved(RequestTask(q), Nobody)
  BY <1>1, <1>3, HeadMoves
<1>7. UNCHANGED <<def, script, runtime, deleter, runner>>
  BY DEF EnsureOwner, deletionVars
<1>8. Mild /\ LetsGo
  BY <1>7, ScriptsStay DEF LetsGo
<1>9. RequestFits(q)'
  BY <1>1, <1>4, <1>5, <1>7 DEF RequestFits
<1>10. StopKnows(q)'
  BY <1>4, <1>5 DEF StopKnows
<1>11. /\ ~RequestWaits(q)' /\ Nobody # RequestTask(q)
       /\ q \in Deletions => ~DeletionWaits(q) /\ Nobody # DeletionTask(q)
  BY <1>1, <1>4, <1>5, TasksDiffer, AtHead DEF RequestWaits, DeletionWaits
<1>12. Acted(q, RequestTask(q), Nobody)
  BY <1>4, <1>5, <1>9, <1>10, <1>11 DEF Acted
<1>13. /\ def' \in [Routines -> {"absent", "free", "bound"}]
       /\ runtime' \in [Routines -> Scripts \cup {None}]
       /\ runner' \in {"live", "stopped", "removed", "orphan"}
  BY <1>7 DEF Orderly, Shaped
<1> QED BY <1>3, <1>4, <1>6, <1>7, <1>8, <1>12, <1>13, OneActs

LEMMA ResolveKeeps ==
  ASSUME Orderly, Inv', NEW q \in Requests, UNCHANGED deletionVars, Resolve(q)
  PROVE  Orderly'
<1>1. /\ q \in Callers /\ q \notin Deletions /\ request[q] \in RequestRecords /\ RequestFits(q)
      /\ request[q].step \in {"look", "cwd"}
  BY RoutinesAssumption DEF Resolve, Callers, Orderly, Shaped
<1> DEFINE t == request[q]
           step == IF t.step = "look" THEN "owner" ELSE "find"
           n == [t EXCEPT !.step = step]
<1>2. request' = [request EXCEPT ![q] = n] /\ Starts(RequestTask(q))
  BY <1>1 DEF Resolve, RequestTask, Orderly, Shaped
<1>3. n \in RequestRecords /\ n.step \in {"owner", "find"} /\ n.op = t.op /\ n.of = t.of
  <2>1. t \in RequestRecords /\ step \in {"owner", "find"}
    BY <1>1
  <2> HIDE DEF t, step
  <2> QED BY <2>1 DEF RequestRecords
<1> HIDE DEF n
<1>4. request'[q] = n
  BY <1>1, <1>2 DEF Orderly, Shaped
<1>5. ~Queues(RequestTask(q)) /\ ~RequestWaits(q) /\ RequestWaits(q)'
  BY <1>1, <1>3, <1>4 DEF Orderly, Served, RequestWaits
<1>6. InOrder' /\ Moved(Nobody, RequestTask(q))
  BY <1>1, <1>2, <1>5, StartsMoves, TasksDiffer DEF Orderly, Served
<1>7. UNCHANGED <<def, script, runtime, deleter, runner>>
  BY DEF Resolve, deletionVars
<1>8. Mild /\ LetsGo
  BY <1>7, ScriptsStay DEF LetsGo
<1>9. RequestFits(q)'
  BY <1>1, <1>3, <1>4, <1>7 DEF RequestFits
<1>10. StopKnows(q)'
  BY <1>3, <1>4 DEF StopKnows
<1>11. Acted(q, Nobody, RequestTask(q))
  BY <1>1, <1>3, <1>4, <1>5, <1>9, <1>10 DEF Acted
<1>12. /\ def' \in [Routines -> {"absent", "free", "bound"}]
       /\ runtime' \in [Routines -> Scripts \cup {None}]
       /\ runner' \in {"live", "stopped", "removed", "orphan"}
  BY <1>7 DEF Orderly, Shaped
<1> QED BY <1>1, <1>2, <1>3, <1>6, <1>7, <1>8, <1>11, <1>12, OneActs

\* A new request may need a process, and finds one in the budget.
LEMMA AskKeeps ==
  ASSUME Orderly, Inv', NEW q \in Requests, AskRoutine(q)
  PROVE  Orderly'
<1>1. PICK r \in Routines, a \in {"create", "start", "stop", "teardown", "release", "delete"}, bind \in BOOLEAN :
        Ask(q, a, r, bind)
  BY DEF AskRoutine
<1>2. /\ q \in Callers /\ q \notin Deletions /\ request[q] = Idle
      /\ UNCHANGED <<def, script, runtime, deleter, runner>>
  BY <1>1, RoutinesAssumption DEF Ask, AskRoutine, Callers
<1> DEFINE step == IF bind THEN "look" ELSE "find"
           n == [Idle EXCEPT !.op = a, !.of = r, !.bind = bind, !.step = step]
<1>3. request' = [request EXCEPT ![q] = n]
  BY <1>1 DEF Ask
<1>4. step \in {"look", "find"} /\ (step = "look" <=> bind)
  OBVIOUS
<1> HIDE DEF step
<1>5. n \in RequestRecords /\ n.step = step /\ n.op = a /\ n.of = r
  BY <1>4, IdleTyped DEF RequestRecords
<1> HIDE DEF n
<1>6. request'[q] = n /\ \A c \in Callers \ {q} : request'[c] = request[c]
  BY <1>2, <1>3 DEF Orderly, Shaped
<1>7. ~Queues(RequestTask(q)) /\ ~RequestWaits(q) /\ InOrder /\ RequestTask(q) \in Tasks
  BY <1>2, IdleTyped, TasksDiffer DEF Orderly, Served, RequestWaits
<1> DEFINE t == IF bind THEN Nobody ELSE RequestTask(q)
<1>8. InOrder' /\ Moved(Nobody, t)
  <2>1. CASE bind
    BY <1>1, <1>7, <2>1, StaysMoves DEF Ask
  <2>2. CASE ~bind
    BY <1>1, <1>7, <2>2, StartsMoves DEF Ask, RequestTask
  <2> QED BY <2>1, <2>2
<1>9. t = RequestTask(q) \/ t = Nobody
  OBVIOUS
<1>10. t = RequestTask(q) <=> ~bind
  BY <1>2, TasksDiffer
<1> HIDE DEF t
<1>11. Mild
  BY <1>2, ScriptsStay
<1>12. NoScript(Nobody) /\ NoScript(t)
  BY <1>9, TasksDiffer DEF NoScript
<1>13. \A p \in Scripts : ScriptFits(p)'
  BY <1>8, <1>11, <1>12, MildFits
<1>14. /\ \A p \in Scripts : LiveTracked(p)'
       /\ \A z \in Routines : HoldsLatest(z)'
  BY <1>2, <1>11, MildHeld DEF LetsGo
<1>15. \A p \in Scripts : Queues(ScriptTask(p))' <=> ScriptWaits(p)'
  BY <1>2, <1>8, <1>12, TasksDiffer DEF Moved, NoScript, Orderly, Served, ScriptWaits
<1>16. ASSUME NEW c \in Callers
       PROVE  (Queues(RequestTask(c))' <=> RequestWaits(c)') /\ RequestFits(c)' /\ StopKnows(c)'
  <2>1. CASE c = q
    <3>1. RequestWaits(c)' <=> ~bind
      BY <1>4, <1>5, <1>6, <2>1 DEF RequestWaits
    <3>2. RequestFits(c)' /\ StopKnows(c)'
      BY <1>2, <1>4, <1>5, <1>6, <2>1 DEF RequestFits, StopKnows
    <3>3. Queues(RequestTask(c))' <=> ~bind
      BY <1>7, <1>8, <1>10, <2>1 DEF Moved
    <3> QED BY <3>1, <3>2, <3>3
  <2>2. CASE c # q
    <3>1. request'[c] = request[c] /\ t # RequestTask(c) /\ Nobody # RequestTask(c)
      BY <1>6, <1>9, <2>2, TasksDiffer
    <3>2. StopKnows(c)'
      BY <1>8, <1>11, <1>12, <3>1, MildStops
    <3>3. RequestFits(c) /\ (Queues(RequestTask(c)) <=> RequestWaits(c))
      BY DEF Orderly, Served
    <3>4. Queues(RequestTask(c))' <=> RequestWaits(c)'
      BY <1>8, <3>1, <3>3, TasksDiffer DEF Moved, RequestWaits
    <3>5. RequestFits(c)'
      BY <1>2, <3>1, <3>3 DEF RequestFits
    <3> QED BY <3>2, <3>4, <3>5
  <2> QED BY <2>1, <2>2
<1>17. ASSUME NEW d \in Deletions, Queues(DeletionTask(d))'
       PROVE  DeletionWaits(d)'
  <2>1. d \in Callers /\ d # q
    BY <1>2 DEF Callers
  <2>2. Queues(DeletionTask(d))
    BY <1>8, <1>9, <1>17, TasksDiffer DEF Moved
  <2> QED BY <1>2, <1>6, <2>1, <2>2 DEF Orderly, Served, DeletionWaits
<1>18. Spawned'
  <2>1. PICK m \in 0..MaxRuns : /\ \A p \in Scripts : Born(p) <=> p <= m
                                /\ IsFiniteSet(Starting) /\ Cardinality(Starting) <= MaxRuns - m
    BY DEF Orderly, Spawned
  <2>2. \A p \in Scripts : Born(p)' <=> p <= m
    BY <1>2, <2>1 DEF Born
  <2>3. CASE a \in {"start", "teardown"}
    <3>1. Budget
      BY <1>1, <2>3 DEF Ask
    <3>2. {p \in Scripts : script[p].os = "unborn"} = (m + 1)..MaxRuns
      <4>1. \A p \in Scripts : script[p].os = "unborn" <=> ~(p <= m)
        BY <2>1 DEF Orderly, ScriptFits, Born
      <4>2. Scripts = 1..MaxRuns /\ MaxRuns \in Nat /\ m \in Nat
        BY RoutinesAssumption DEF Scripts
      <4>3. \A p : p \in (m + 1)..MaxRuns <=> p \in 1..MaxRuns /\ ~(p <= m)
        BY <4>2
      <4> QED BY <4>1, <4>2, <4>3
    <3>3. Cardinality({p \in Scripts : script[p].os = "unborn"}) = MaxRuns - m
      <4>1. m + 1 \in Int /\ MaxRuns \in Int /\ MaxRuns - (m + 1) + 1 = MaxRuns - m
            /\ (m + 1 > MaxRuns => MaxRuns - m = 0)
        BY RoutinesAssumption
      <4> QED BY <3>2, <4>1, FS_Interval
    <3>4. Cardinality(Starting) < MaxRuns - m
      <4>1. Cardinality(Starting) \in Nat
        BY <2>1, FS_CardinalityType
      <4> QED BY <3>1, <3>3, <4>1, RoutinesAssumption DEF Budget, Starting
    <3>5. Starting' = Starting \cup {q}
      BY <1>2, <1>5, <1>6, <2>3, IdleTyped DEF Starting, Callers
    <3>6. q \notin Starting
      BY <1>2, IdleTyped DEF Starting
    <3>7. IsFiniteSet(Starting') /\ Cardinality(Starting') = Cardinality(Starting) + 1
      BY <2>1, <3>5, <3>6, FS_AddElement
    <3>8. Cardinality(Starting') <= MaxRuns - m
      <4>1. Cardinality(Starting) \in Nat
        BY <2>1, FS_CardinalityType
      <4> QED BY <3>4, <3>7, <4>1, RoutinesAssumption
    <3> QED BY <2>2, <3>7, <3>8 DEF Spawned
  <2>4. CASE a \notin {"start", "teardown"}
    <3>1. Starting' \subseteq Starting
      BY <1>5, <1>6, <2>4 DEF Starting, Callers
    <3>2. \A p \in Scripts : Born(p)' <=> Born(p)
      BY <1>2 DEF Born
    <3> QED BY <3>1, <3>2, NoneSpawned DEF Orderly
  <2> QED BY <2>3, <2>4
<1>19. Shaped'
  BY <1>2, <1>3, <1>5 DEF Orderly, Shaped
<1>20. Served'
  BY <1>8, <1>15, <1>16, <1>17 DEF Served
<1> QED BY <1>13, <1>14, <1>16, <1>18, <1>19, <1>20 DEF Orderly

LEMMA AheadQueues ==
  ASSUME NEW u, NEW v, Ahead(u, v)
  PROVE  Queues(u) /\ Queues(v)
BY DEF Ahead, Queues

\* A request that is going to spawn a process has one left, the first unborn.
LEMMA NextIsUnborn ==
  ASSUME Orderly, NEW q \in Callers, request[q].op \in {"start", "teardown"}
  PROVE  \E m \in 0..(MaxRuns - 1) :
           /\ \A p \in Scripts : Born(p) <=> p <= m
           /\ NextScript = m + 1 /\ m + 1 \in Scripts
           /\ IsFiniteSet(Starting) /\ Cardinality(Starting \ {q}) <= MaxRuns - (m + 1)
<1>1. PICK m \in 0..MaxRuns : /\ \A p \in Scripts : Born(p) <=> p <= m
                              /\ IsFiniteSet(Starting) /\ Cardinality(Starting) <= MaxRuns - m
  BY DEF Orderly, Spawned
<1>2. q \in Starting
  BY DEF Starting, Callers, Orderly, RequestFits
<1>3. /\ Cardinality(Starting) \in Nat /\ Cardinality(Starting) # 0
      /\ Cardinality(Starting \ {q}) = Cardinality(Starting) - 1
  BY <1>1, <1>2, FS_CardinalityType, FS_EmptySet, FS_RemoveElement
<1>4. m < MaxRuns /\ Cardinality(Starting \ {q}) <= MaxRuns - (m + 1)
  BY <1>1, <1>3, RoutinesAssumption
<1>5. m \in 0..(MaxRuns - 1) /\ m + 1 \in Scripts
  BY <1>4, RoutinesAssumption DEF Scripts
<1>6. \A p \in Scripts : script[p].os = "unborn" <=> ~(p <= m)
  BY <1>1 DEF Orderly, ScriptFits, Born
<1>7. script[m + 1].os = "unborn" /\ \A y \in 1..((m + 1) - 1) : script[y].os # "unborn"
  <2>1. ~(m + 1 <= m) /\ \A y \in 1..((m + 1) - 1) : y \in Scripts /\ y <= m
    BY <1>4, RoutinesAssumption DEF Scripts
  <2> QED BY <1>5, <1>6, <2>1
<1>8. ASSUME NEW p \in Scripts, script[p].os = "unborn", \A y \in 1..(p - 1) : script[y].os # "unborn"
      PROVE  p = m + 1
  <2>1. ~(p <= m)
    BY <1>6, <1>8
  <2>2. m + 1 \notin 1..(p - 1)
    BY <1>7, <1>8
  <2> QED BY <2>1, <2>2, RoutinesAssumption DEF Scripts
<1>9. NextScript = m + 1
  BY <1>5, <1>7, <1>8 DEF NextScript
<1> QED BY <1>1, <1>4, <1>5, <1>9

\* A process is spawned for the request, and its row is created behind the
\* operations that wait.
LEMMA LaunchKeeps ==
  ASSUME Orderly, Inv', NEW q \in Callers, Turn(<<"request", q>>), NEW mode \in {"run", "teardown"},
         request[q].op \in {"start", "teardown"}, Launch(q, mode), UNCHANGED <<def, deleter, runner>>
  PROVE  Orderly'
<1>1. PICK m \in 0..(MaxRuns - 1) :
           /\ \A p \in Scripts : Born(p) <=> p <= m
           /\ NextScript = m + 1 /\ m + 1 \in Scripts
           /\ IsFiniteSet(Starting) /\ Cardinality(Starting \ {q}) <= MaxRuns - (m + 1)
  BY NextIsUnborn
<1>2. PICK p \in Scripts : p = m + 1
  BY <1>1
<1>3. PICK r \in Routines : r = request[q].of
  BY AtHead
<1>4. q \notin Deletions /\ queue # <<>> /\ Head(queue) = RequestTask(q) /\ InOrder /\ RequestWaits(q)
  BY AtHead
<1>5. \A z \in Scripts : Born(z) <=> z < p
  BY <1>1, <1>2, RoutinesAssumption DEF Scripts
<1>6. ~Born(p) /\ ~Queues(ScriptTask(p)) /\ script[p].step = "no"
  <2>1. ~Born(p)
    BY <1>5, RoutinesAssumption DEF Scripts
  <2> QED BY <2>1 DEF Born, Orderly, Served, ScriptWaits
<1> DEFINE s == [os |-> "live", of |-> r, mode |-> mode, row |-> "none", step |-> "create"]
<1>7. /\ script' = [script EXCEPT ![p] = s]
      /\ runtime' = [runtime EXCEPT ![r] = p]
      /\ request' = [request EXCEPT ![q] = Idle]
      /\ Awaits(ScriptTask(p))
  BY <1>1, <1>2, <1>3 DEF Launch, ScriptTask
<1>8. s \in ScriptRecords /\ s.os = "live" /\ s.of = r /\ s.row = "none" /\ s.step = "create"
  BY DEF ScriptRecords
<1> HIDE DEF s
<1>9. /\ script'[p] = s /\ \A z \in Scripts \ {p} : script'[z] = script[z]
      /\ runtime'[r] = p /\ \A z \in Routines \ {r} : runtime'[z] = runtime[z]
      /\ request'[q] = Idle /\ \A c \in Callers \ {q} : request'[c] = request[c]
  BY <1>7 DEF Orderly, Shaped
<1>10. Shaped'
  BY <1>7, <1>8, IdleTyped DEF Orderly, Shaped
<1>11. InOrder' /\ Moved(RequestTask(q), ScriptTask(p))
  BY <1>4, <1>6, <1>7, AwaitsMoves, TasksDiffer
<1>12. \A z \in Scripts : Born(z)' <=> z < p \/ z = p
  BY <1>5, <1>8, <1>9 DEF Born
<1>13. \A z \in Scripts : z < p => ~(p < z) /\ z # p
  BY RoutinesAssumption DEF Scripts
<1>14. ASSUME NEW z \in Scripts
       PROVE  ScriptFits(z)'
  <2>1. CASE z = p
    <3>1. \A y \in Scripts : p < y => ~Born(y)'
      BY <1>12, RoutinesAssumption DEF Scripts
    <3> QED BY <1>8, <1>9, <2>1, <3>1 DEF ScriptFits, Born, NoRun
  <2>2. CASE z # p
    <3>1. script'[z] = script[z] /\ ScriptFits(z) /\ (Born(z)' <=> Born(z)) /\ def' = def
      BY <1>9, <2>2 DEF Orderly, Born
    <3>2. script[z].step = "create" => \A y \in Scripts : z < y /\ Born(y)' =>
            script'[y].step = "create" /\ Ahead(ScriptTask(z), ScriptTask(y))'
      <4> SUFFICES ASSUME script[z].step = "create", NEW y \in Scripts, z < y, Born(y)'
                   PROVE  script'[y].step = "create" /\ Ahead(ScriptTask(z), ScriptTask(y))'
        OBVIOUS
      <4>1. CASE y = p
        <5>1. Queues(ScriptTask(z))
          BY DEF Orderly, Served, ScriptWaits
        <5> QED BY <1>8, <1>9, <1>11, <2>2, <4>1, <5>1, TasksDiffer DEF Moved
      <4>2. CASE y # p
        <5>1. script'[y] = script[y] /\ Born(y)
          BY <1>9, <4>2 DEF Born
        <5>2. script[y].step = "create" /\ Ahead(ScriptTask(z), ScriptTask(y))
          BY <3>1, <5>1 DEF ScriptFits
        <5> QED BY <1>11, <5>1, <5>2, TasksDiffer DEF Moved
      <4> QED BY <4>1, <4>2
    <3>3. script[z].step = "lost" \/ script[z].row = "deleted" =>
            \A y \in Scripts : y < z /\ Born(y)' /\ script'[y].of = script[z].of => script'[y].row \in NoRun
      <4> SUFFICES ASSUME script[z].step = "lost" \/ script[z].row = "deleted",
                          NEW y \in Scripts, y < z, Born(y)', script'[y].of = script[z].of
                   PROVE  script'[y].row \in NoRun
        OBVIOUS
      <4>1. CASE y = p
        BY <1>8, <1>9, <4>1 DEF NoRun
      <4>2. CASE y # p
        <5>1. script'[y] = script[y] /\ Born(y)
          BY <1>9, <4>2 DEF Born
        <5> QED BY <3>1, <5>1 DEF ScriptFits
      <4> QED BY <4>1, <4>2
    <3> QED BY <3>1, <3>2, <3>3 DEF ScriptFits
  <2> QED BY <2>1, <2>2
<1>15. ASSUME NEW z \in Scripts
       PROVE  LiveTracked(z)'
  <2>1. CASE z = p
    BY <1>8, <1>9, <2>1 DEF LiveTracked
  <2>2. CASE z # p
    <3> SUFFICES ASSUME script[z].os = "live", script[z].step # "outlived"
                 PROVE  \/ runtime'[script[z].of] = z
                        \/ \E y \in Scripts : y > z /\ Born(y)' /\ script'[y].of = script[z].of
      BY <1>9, <2>2 DEF LiveTracked
    <3>1. ScriptFits(z) /\ LiveTracked(z)
      BY DEF Orderly
    <3>2. Born(z) /\ script[z].of \in Routines /\ z < p
      BY <1>5, <3>1 DEF ScriptFits, Born
    <3>3. CASE script[z].of = r
      <4>1. p > z /\ Born(p)' /\ script'[p].of = script[z].of
        BY <1>8, <1>9, <1>12, <3>2, <3>3, RoutinesAssumption DEF Scripts
      <4> QED BY <4>1
    <3>4. CASE runtime[script[z].of] = z /\ script[z].of # r
      BY <1>9, <3>2, <3>4
    <3>5. CASE \E y \in Scripts : y > z /\ Born(y) /\ script[y].of = script[z].of
      <4>1. PICK y \in Scripts : y > z /\ Born(y) /\ script[y].of = script[z].of
        BY <3>5
      <4>2. y # p /\ script'[y] = script[y]
        BY <1>6, <1>9, <4>1
      <4> QED BY <4>1, <4>2 DEF Born
    <3> QED BY <3>1, <3>3, <3>4, <3>5 DEF LiveTracked
  <2> QED BY <2>1, <2>2
<1>16. ASSUME NEW z \in Routines
       PROVE  HoldsLatest(z)'
  <2>1. CASE z = r
    <3>1. \A y \in Scripts : Born(y)' => y <= p
      BY <1>12, RoutinesAssumption DEF Scripts
    <3> QED BY <1>8, <1>9, <2>1, <3>1 DEF HoldsLatest
  <2>2. CASE z # r
    <3>1. runtime'[z] = runtime[z] /\ HoldsLatest(z)
      BY <1>9, <2>2 DEF Orderly
    <3> SUFFICES ASSUME runtime[z] # None
                 PROVE  HoldsLatest(z)'
      BY <3>1 DEF HoldsLatest
    <3>2. runtime[z] \in Scripts /\ script[runtime[z]].of = z
          /\ script[runtime[z]].step \in {"create", "progress", "listen", "lost", "closed"}
          /\ \A y \in Scripts : Born(y) /\ script[y].of = z => y <= runtime[z]
      BY <3>1 DEF HoldsLatest, Orderly, Shaped
    <3>3. runtime[z] # p /\ script'[runtime[z]] = script[runtime[z]]
      BY <1>6, <1>9, <3>2
    <3>4. \A y \in Scripts : Born(y)' /\ script'[y].of = z => Born(y) /\ script[y].of = z
      BY <1>8, <1>9, <2>2 DEF Born
    <3> QED BY <3>1, <3>2, <3>3, <3>4 DEF HoldsLatest
  <2> QED BY <2>1, <2>2
<1>17. ASSUME NEW c \in Callers \ {q}
       PROVE  StopKnows(c)'
  <2>1. \A x \in Scripts \ {p} : Ahead(ScriptTask(x), RequestTask(c))' <=> Ahead(ScriptTask(x), RequestTask(c))
    BY <1>11, TasksDiffer DEF Moved
  <2>2. ~Ahead(ScriptTask(p), RequestTask(c))'
    BY <1>6, <1>11, TasksDiffer, AheadQueues DEF Moved
  <2>3. StopKnows(c) /\ request'[c] = request[c]
    BY <1>9 DEF Orderly
  <2>4. ASSUME NEW x, NEW of, FoundByStop(x, c, of)
        PROVE  FoundByStop(x, c, of)'
    <3>1. x \in Scripts /\ x # p /\ script'[x] = script[x]
      BY <1>6, <1>9, <2>4 DEF FoundByStop
    <3>2. ASSUME NEW y \in Scripts, Born(y)', script'[y].of = of, y > x
          PROVE  script'[y].step = "create" /\ ~Ahead(ScriptTask(y), RequestTask(c))'
      <4>1. CASE y = p
        BY <1>8, <1>9, <2>2, <4>1
      <4>2. CASE y # p
        <5>1. script'[y] = script[y] /\ Born(y)
          BY <1>9, <3>2, <4>2 DEF Born
        <5> QED BY <2>1, <2>4, <3>2, <4>2, <5>1 DEF FoundByStop
      <4> QED BY <4>1, <4>2
    <3> QED BY <2>1, <2>4, <3>1, <3>2 DEF FoundByStop
  <2>5. ASSUME NEW x, ReadByStop(x, c)
        PROVE  ReadByStop(x, c)'
    <3>1. x \in Scripts /\ x # p /\ script'[x] = script[x]
      BY <1>6, <1>9, <2>5 DEF ReadByStop
    <3> QED BY <2>1, <2>5, <3>1 DEF ReadByStop
  <2> QED BY <2>3, <2>4, <2>5 DEF StopKnows
<1>18. RequestFits(q)' /\ StopKnows(q)' /\ ~RequestWaits(q)'
  BY <1>9, IdleTyped DEF RequestFits, StopKnows, RequestWaits
<1>19. Acted(q, RequestTask(q), ScriptTask(p))
  BY <1>4, <1>9, <1>18, TasksDiffer, IdleTyped DEF Acted
<1>20. \A c \in Callers \ {q} : Untouched(c, RequestTask(q), ScriptTask(p))
  BY <1>9, TasksDiffer DEF Untouched
<1>21. /\ \A c \in Callers : Queues(RequestTask(c))' <=> RequestWaits(c)'
       /\ \A d \in Deletions : Queues(DeletionTask(d))' => DeletionWaits(d)'
       /\ \A c \in Callers : RequestFits(c)'
       /\ Starting' \subseteq Starting
  BY <1>11, <1>19, <1>20, CallersKeep
<1>22. ASSUME NEW z \in Scripts
       PROVE  Queues(ScriptTask(z))' <=> ScriptWaits(z)'
  <2>1. CASE z = p
    BY <1>8, <1>9, <1>11, <2>1, TasksDiffer DEF Moved, ScriptWaits
  <2>2. CASE z # p
    BY <1>9, <1>11, <2>2, TasksDiffer DEF Moved, ScriptWaits, Orderly, Served
  <2> QED BY <2>1, <2>2
<1>23. Spawned'
  <2>1. q \notin Starting'
    BY <1>9, IdleTyped DEF Starting
  <2>2. Starting' \subseteq Starting \ {q} /\ IsFiniteSet(Starting \ {q})
    BY <1>1, <1>21, <2>1, FS_RemoveElement
  <2>3. /\ IsFiniteSet(Starting') /\ Cardinality(Starting') <= Cardinality(Starting \ {q})
    BY <2>2, FS_Subset
  <2>4. Cardinality(Starting') \in Nat /\ Cardinality(Starting \ {q}) \in Nat
    BY <2>2, <2>3, FS_CardinalityType
  <2>5. m + 1 \in 0..MaxRuns /\ Cardinality(Starting') <= MaxRuns - (m + 1)
    BY <1>1, <2>3, <2>4, RoutinesAssumption
  <2>6. \A z \in Scripts : Born(z)' <=> z <= m + 1
    BY <1>2, <1>12, RoutinesAssumption DEF Scripts
  <2> QED BY <2>3, <2>5, <2>6 DEF Spawned
<1>24. Served'
  BY <1>11, <1>21, <1>22 DEF Served
<1> QED BY <1>10, <1>14, <1>15, <1>16, <1>17, <1>18, <1>21, <1>23, <1>24 DEF Orderly

LEMMA StartsKeep ==
  ASSUME Orderly, Inv', NEW q \in Callers, UNCHANGED deletionVars, StartAgain(q) \/ TeardownFind(q)
  PROVE  Orderly'
<1>1. /\ Turn(<<"request", q>>) /\ request[q].op \in {"start", "teardown"}
      /\ UNCHANGED <<def, owner, deleter, runner>>
  BY DEF StartAgain, TeardownFind, At, deletionVars
<1>2. CASE Launch(q, "run") \/ Launch(q, "teardown")
  BY <1>1, <1>2, LaunchKeeps
<1>3. CASE Return(q) /\ UNCHANGED <<script, runtime>>
  <2>1. Still
    BY <1>1, <1>3, ScriptsStay DEF Still, Orderly, Shaped
  <2> QED BY <1>1, <1>3, <2>1, ReturnKeeps
<1> QED BY <1>2, <1>3 DEF StartAgain, TeardownFind

LEMMA RequestsKeep ==
  ASSUME Orderly, Inv', NEW q \in Callers, UNCHANGED deletionVars, RequestSteps(q)
  PROVE  Orderly'
BY EnsureOwnerKeeps, CreateKeeps, FindsKeep, BindKeeps, StartsKeep, StopFindKeeps, StopLatestKeeps,
   StopMarkKeeps, StopKillKeeps, ReleaseKeeps, DeleteKeeps DEF RequestSteps

-----------------------------------------------------------------------------
(* The scripts *)

\* The store serves p, whose record becomes s.
Served1(p, s) ==
  LET o == script[p] IN
  /\ s \in ScriptRecords /\ s.of = o.of /\ s.os = o.os
  /\ s.step = "closed" => s.os = "dead"
  /\ \/ o.step = "create" /\ s.step = "lost" /\ s.row = "none" /\ def[o.of] = "absent"
     \/ /\ o.step = "create" /\ s.step \in {"progress", "listen", "closed"}
        /\ s.row \in {"running", "teardown"} /\ def[o.of] # "absent"
     \/ o.step = "progress" /\ s.step \in {"listen", "closed"} /\ s.row = o.row
     \/ o.step = "find" /\ s.step \in {"stopped", "finish"} /\ s.row = o.row
     \/ /\ o.step \in {"stopped", "finish"} /\ s.step = "end"
        /\ \/ o.row = "deleted" /\ s.row = "deleted"
           \/ o.row # "deleted" /\ s.row \in Settled

LEMMA ScriptAtHead ==
  ASSUME Orderly, NEW p \in Scripts, Turn(<<"script", p>>)
  PROVE  /\ queue # <<>> /\ Head(queue) = ScriptTask(p) /\ InOrder
         /\ ScriptWaits(p) /\ Born(p) /\ script[p].of \in Routines
         /\ \A q \in Callers : RequestWaits(q) => Ahead(ScriptTask(p), RequestTask(q))
         /\ \A z \in Scripts : ~Ahead(ScriptTask(z), ScriptTask(p))
<1>1. queue # <<>> /\ Head(queue) = ScriptTask(p) /\ InOrder
  BY DEF Turn, ScriptTask, Orderly, Served
<1>2. Queues(ScriptTask(p))
  BY <1>1, HeadFirst
<1>3. ScriptWaits(p) /\ Born(p) /\ script[p].of \in Routines
  BY <1>2 DEF Orderly, Served, ScriptWaits, Born, ScriptFits
<1>4. \A q \in Callers : RequestWaits(q) => Queues(RequestTask(q)) /\ RequestTask(q) # ScriptTask(p)
  BY TasksDiffer DEF Orderly, Served
<1>5. \A q \in Callers : RequestWaits(q) => Ahead(ScriptTask(p), RequestTask(q))
  BY <1>1, <1>4, HeadFirst, TasksDiffer
<1> QED BY <1>1, <1>3, <1>5, HeadFirst, TasksDiffer

\* The process has a new record and keeps its place in the runtime; nobody
\* else is concerned.
LEMMA ServedFits ==
  ASSUME Orderly, NEW p \in Scripts, Turn(<<"script", p>>), NEW s, Served1(p, s),
         script' = [script EXCEPT ![p] = s], UNCHANGED def,
         NEW t \in {ScriptTask(p), Nobody}, Moved(ScriptTask(p), t), NEW z \in Scripts
  PROVE  ScriptFits(z)'
<1>1. /\ script'[p] = s /\ \A y \in Scripts \ {p} : script'[y] = script[y]
  BY DEF Orderly, Shaped
<1>2. ScriptFits(z) /\ ScriptFits(p) /\ ScriptWaits(p) /\ Born(p)
  BY ScriptAtHead DEF Orderly
<1>3. \A y \in Scripts : (Born(y)' <=> Born(y)) /\ script'[y].of = script[y].of
  BY <1>1, <1>2 DEF Born, Served1
<1>4. s.row \in NoRun => script[p].row \in NoRun
  BY <1>2 DEF Served1, ScriptFits, NoRun, Settled
<1>5. script[p].row \in NoRun => s.row \in NoRun \/ script[p].step = "create"
  BY <1>2 DEF Served1, ScriptFits, NoRun, HasRun
<1>6. CASE z = p
  <2>1. s.step # "create" /\ s.step # "no"
    BY DEF Served1
  <2>2. s.os # "unborn"
    BY <1>2 DEF Served1, ScriptFits, Born
  <2>3. /\ s.step = "lost" => s.row = "none"
        /\ s.step \in {"progress", "listen", "closed", "find", "stopped", "finish"} => s.row \in HasRun
        /\ s.step \in {"closed", "find", "stopped", "finish"} => s.os = "dead"
    BY <1>2 DEF Served1, ScriptFits, HasRun
  <2>4. def[s.of] = "absent" => s.row \in NoRun
    BY <1>2 DEF Served1, ScriptFits, NoRun, HasRun
  <2>5. ASSUME s.step = "lost" \/ s.row = "deleted",
               NEW y \in Scripts, y < p, Born(y)', script'[y].of = s.of
        PROVE  script'[y].row \in NoRun
    <3>1. y # p /\ Born(y) /\ script'[y] = script[y] /\ script[y].of = script[p].of
      BY <1>1, <1>3, <2>5, RoutinesAssumption DEF Scripts, Served1
    <3>2. def[script[p].of] = "absent" \/ script[p].row = "deleted"
      BY <2>5 DEF Served1, Settled
    <3>3. ScriptFits(y)
      BY DEF Orderly
    <3> QED BY <1>2, <2>5, <3>1, <3>2, <3>3 DEF ScriptFits
  <2> QED BY <1>1, <1>2, <1>6, <2>1, <2>2, <2>3, <2>4, <2>5 DEF ScriptFits, Served1, Born
<1>7. CASE z # p
  <2>1. script'[z] = script[z] /\ (Born(z)' <=> Born(z)) /\ def' = def
    BY <1>1, <1>3, <1>7
  <2>2. ASSUME script[z].step = "lost" \/ script[z].row = "deleted",
               NEW y \in Scripts, y < z, Born(y)', script'[y].of = script[z].of
        PROVE  script'[y].row \in NoRun
    <3>1. Born(y) /\ script[y].of = script[z].of /\ script[y].row \in NoRun
      BY <1>2, <1>3, <2>2 DEF ScriptFits
    <3>2. CASE y = p
      <4>1. Born(z) /\ script[z].step # "create"
        BY <1>2, <2>2 DEF ScriptFits, Born
      <4>2. script[p].step # "create"
        BY <1>2, <2>2, <3>2, <4>1 DEF ScriptFits
      <4> QED BY <1>1, <1>5, <3>1, <3>2, <4>2
    <3>3. CASE y # p
      BY <1>1, <3>1, <3>3
    <3> QED BY <3>2, <3>3
  <2>3. ASSUME script[z].step = "create", NEW y \in Scripts, z < y, Born(y)'
        PROVE  script'[y].step = "create" /\ Ahead(ScriptTask(z), ScriptTask(y))'
    <3>1. script[y].step = "create" /\ Ahead(ScriptTask(z), ScriptTask(y))
      BY <1>2, <1>3, <2>3 DEF ScriptFits
    <3>2. y # p
      BY <3>1, ScriptAtHead
    <3> QED BY <1>1, <1>7, <3>1, <3>2, TasksDiffer DEF Moved
  <2> QED BY <1>2, <2>1, <2>2, <2>3 DEF ScriptFits
<1> QED BY <1>6, <1>7

LEMMA ServedStops ==
  ASSUME Orderly, NEW p \in Scripts, Turn(<<"script", p>>), NEW s, Served1(p, s),
         script' = [script EXCEPT ![p] = s], UNCHANGED request,
         NEW t \in {ScriptTask(p), Nobody}, Moved(ScriptTask(p), t), NEW q \in Callers
  PROVE  StopKnows(q)'
<1>1. /\ script'[p] = s /\ \A y \in Scripts \ {p} : script'[y] = script[y]
  BY DEF Orderly, Shaped
<1>2. StopKnows(q) /\ ScriptFits(p) /\ Born(p)
  BY ScriptAtHead DEF Orderly
<1>3. \A y \in Scripts : (Born(y)' <=> Born(y)) /\ script'[y].of = script[y].of
  BY <1>1, <1>2 DEF Born, Served1
<1>4. \A y \in Scripts \ {p} : Ahead(ScriptTask(y), RequestTask(q))' <=> Ahead(ScriptTask(y), RequestTask(q))
  BY TasksDiffer DEF Moved
<1>5. ~Ahead(ScriptTask(p), RequestTask(q))'
  BY TasksDiffer DEF Moved
<1>6. ASSUME NEW x, NEW of, FoundByStop(x, q, of), RequestWaits(q)
      PROVE  FoundByStop(x, q, of)'
  <2>1. Ahead(ScriptTask(p), RequestTask(q)) /\ x \in Scripts
    BY <1>6, ScriptAtHead DEF FoundByStop
  <2>2. ASSUME NEW y \in Scripts, Born(y)', script'[y].of = of, y > x
        PROVE  script'[y].step = "create" /\ ~Ahead(ScriptTask(y), RequestTask(q))'
    <3>1. script[y].step = "create" /\ ~Ahead(ScriptTask(y), RequestTask(q))
      BY <1>3, <1>6, <2>2 DEF FoundByStop
    <3>2. y # p
      BY <2>1, <3>1
    <3> QED BY <1>1, <1>4, <3>1, <3>2
  <2>3. CASE x = p
    <3>1. script[p].step \in {"create", "progress"}
      BY <1>6, <2>1, <2>3, ScriptAtHead DEF FoundByStop, ScriptWaits
    <3>2. /\ s.step \in {"progress", "listen", "lost", "closed"} /\ s.row \in HasRun \cup {"none"}
          /\ s.row = "none" => s.step = "lost"
      BY <1>2, <3>1 DEF Served1, ScriptFits, HasRun
    <3>3. s.of = of
      BY <1>6, <2>3 DEF FoundByStop, Served1
    <3> QED BY <1>1, <2>1, <2>2, <2>3, <3>2, <3>3 DEF FoundByStop
  <2>4. CASE x # p
    BY <1>1, <1>4, <1>6, <2>1, <2>2, <2>4 DEF FoundByStop
  <2> QED BY <2>3, <2>4
<1>7. ASSUME NEW x, ReadByStop(x, q), RequestWaits(q)
      PROVE  ReadByStop(x, q)'
  <2>1. Ahead(ScriptTask(p), RequestTask(q)) /\ x \in Scripts
    BY <1>7, ScriptAtHead DEF ReadByStop
  <2>2. CASE x = p
    <3>1. script[p].step \in {"progress", "find"} /\ script[p].row \in HasRun
      BY <1>7, <2>1, <2>2, ScriptAtHead DEF ReadByStop, ScriptWaits
    <3>2. s.step \in {"listen", "closed", "stopped", "finish"} /\ s.row \in HasRun
      BY <3>1 DEF Served1
    <3> QED BY <1>1, <1>5, <2>1, <2>2, <3>2 DEF ReadByStop
  <2>3. CASE x # p
    BY <1>1, <1>4, <1>7, <2>1, <2>3 DEF ReadByStop
  <2> QED BY <2>2, <2>3
<1> QED BY <1>2, <1>6, <1>7 DEF StopKnows, RequestWaits

LEMMA ServedKeeps ==
  ASSUME Orderly, Inv', NEW p \in Scripts, Turn(<<"script", p>>), NEW s, Served1(p, s),
         script' = [script EXCEPT ![p] = s], UNCHANGED <<def, runtime, request, deleter, runner>>,
         \/ s.step \in {"progress", "stopped", "finish"} /\ Awaits(<<"script", p>>)
         \/ s.step \notin {"progress", "stopped", "finish"} /\ Ends
  PROVE  Orderly'
<1> DEFINE t == IF s.step \in {"progress", "stopped", "finish"} THEN ScriptTask(p) ELSE Nobody
<1>1. /\ script'[p] = s /\ \A y \in Scripts \ {p} : script'[y] = script[y]
  BY DEF Orderly, Shaped
<1>2. queue # <<>> /\ Head(queue) = ScriptTask(p) /\ InOrder /\ ScriptTask(p) \in Tasks
  BY ScriptAtHead, TasksDiffer
<1>3. InOrder' /\ Moved(ScriptTask(p), t)
  BY <1>2, AwaitsMoves, EndsMoves DEF ScriptTask
<1>4. t \in {ScriptTask(p), Nobody} /\ (t = ScriptTask(p) <=> s.step \in {"progress", "stopped", "finish"})
  BY TasksDiffer
<1> HIDE DEF t
<1>5. Born(p) /\ ScriptFits(p) /\ ScriptWaits(p)
  BY ScriptAtHead DEF Orderly
<1>6. \A y \in Scripts : (Born(y)' <=> Born(y)) /\ script'[y].of = script[y].of /\ script'[y].os = script[y].os
  BY <1>1, <1>5 DEF Born, Served1
<1>7. \A z \in Scripts : ScriptFits(z)'
  BY <1>3, <1>4, ServedFits
<1>8. \A q \in Callers : StopKnows(q)'
  BY <1>3, <1>4, ServedStops
<1>9. ASSUME NEW z \in Scripts
      PROVE  LiveTracked(z)'
  <2>1. script'[z].step = "outlived" <=> script[z].step = "outlived"
    BY <1>1, <1>5 DEF Served1, ScriptWaits
  <2>2. LiveTracked(z)
    BY DEF Orderly
  <2> QED BY <1>6, <2>1, <2>2 DEF LiveTracked
<1>10. ASSUME NEW r \in Routines
       PROVE  HoldsLatest(r)'
  <2>1. HoldsLatest(r) /\ runtime' = runtime /\ (runtime[r] # None => runtime[r] \in Scripts)
    BY DEF Orderly, Shaped
  <2>2. script[p].step \in {"create", "progress"} => s.step \in {"progress", "listen", "lost", "closed"}
    BY DEF Served1
  <2>3. runtime[r] # None => script'[runtime[r]].step \in {"create", "progress", "listen", "lost", "closed"}
    BY <1>1, <1>5, <2>1, <2>2 DEF HoldsLatest, ScriptWaits
  <2> QED BY <1>6, <2>1, <2>3 DEF HoldsLatest
<1>11. \A c \in Callers : Untouched(c, ScriptTask(p), t)
  BY <1>4, TasksDiffer DEF Untouched
<1>12. /\ \A q \in Callers : Queues(RequestTask(q))' <=> RequestWaits(q)'
       /\ \A d \in Deletions : Queues(DeletionTask(d))' => DeletionWaits(d)'
       /\ \A q \in Callers : RequestFits(q)'
       /\ Starting' \subseteq Starting
  BY <1>3, <1>11, CallersKeep
<1>13. ASSUME NEW z \in Scripts
       PROVE  Queues(ScriptTask(z))' <=> ScriptWaits(z)'
  <2>1. CASE z = p
    <3>1. ScriptWaits(p)' <=> s.step \in {"progress", "stopped", "finish"}
      BY <1>1 DEF ScriptWaits, Served1
    <3> QED BY <1>3, <1>4, <2>1, <3>1, TasksDiffer DEF Moved
  <2>2. CASE z # p
    BY <1>1, <1>3, <1>4, <2>2, TasksDiffer DEF Moved, ScriptWaits, Orderly, Served
  <2> QED BY <2>1, <2>2
<1>14. Spawned'
  BY <1>6, <1>12, NoneSpawned DEF Orderly
<1>15. Shaped' /\ Served'
  BY <1>3, <1>12, <1>13 DEF Orderly, Shaped, Served, Served1
<1> QED BY <1>7, <1>8, <1>9, <1>10, <1>12, <1>14, <1>15 DEF Orderly

LEMMA ScriptsKeep ==
  ASSUME Orderly, Inv', NEW p \in Scripts, UNCHANGED deletionVars, ScriptSteps(p)
  PROVE  Orderly'
<1>1. /\ Turn(<<"script", p>>) /\ script \in [Scripts -> ScriptRecords] /\ script[p] \in ScriptRecords
      /\ UNCHANGED <<def, runtime, request, deleter, runner>> /\ ScriptFits(p)
  BY DEF ScriptSteps, CreateRun, FirstProgress, FindRun, FinishRun, ScriptStep, deletionVars, Orderly, Shaped
<1>2. Born(p)
  BY <1>1, ScriptAtHead
<1>3. Attached(p) \in {"listen", "closed"} /\ (Attached(p) = "closed" => script[p].os = "dead")
  BY <1>1, <1>2 DEF Attached, Alive, ScriptFits, Born, ScriptRecords
<1> DEFINE o == script[p]
<1>4. CASE CreateRun(p)
  <2>1. CASE def[o.of] = "absent"
    <3> DEFINE s == [o EXCEPT !.step = "lost"]
    <3>1. script' = [script EXCEPT ![p] = s] /\ Ends /\ o.step = "create" /\ o \in ScriptRecords /\ o.row = "none"
      BY <1>1, <1>4, <2>1 DEF CreateRun, ScriptStep, ScriptFits
    <3>2. s \in ScriptRecords /\ s.step = "lost" /\ s.row = o.row /\ s.of = o.of /\ s.os = o.os
      <4> HIDE DEF o
      <4> QED BY <3>1 DEF ScriptRecords
    <3> HIDE DEF s
    <3>3. Served1(p, s)
      BY <2>1, <3>1, <3>2 DEF Served1
    <3> QED BY <1>1, <3>1, <3>2, <3>3, ServedKeeps
  <2>2. CASE def[o.of] # "absent"
    <3> DEFINE row == IF o.mode = "teardown" THEN "teardown" ELSE "running"
               step == IF o.mode = "teardown" THEN Attached(p) ELSE "progress"
               s == [o EXCEPT !.row = row, !.step = step]
    <3>1. script' = [script EXCEPT ![p] = s] /\ o.step = "create" /\ o \in ScriptRecords
      BY <1>1, <1>4, <2>2 DEF CreateRun, ScriptStep
    <3>2. IF o.mode = "teardown" THEN Ends ELSE Awaits(<<"script", p>>)
      BY <1>4, <2>2 DEF CreateRun
    <3>3. /\ row \in {"running", "teardown"} /\ step \in {"progress", "listen", "closed"}
          /\ step = "closed" => o.os = "dead"
          /\ step = "progress" <=> o.mode # "teardown"
      BY <1>3
    <3> HIDE DEF row, step
    <3>4. s \in ScriptRecords /\ s.step = step /\ s.row = row /\ s.of = o.of /\ s.os = o.os
      <4> HIDE DEF o
      <4> QED BY <3>1, <3>3 DEF ScriptRecords
    <3> HIDE DEF s
    <3>5. Served1(p, s)
      BY <2>2, <3>1, <3>3, <3>4 DEF Served1
    <3> QED BY <1>1, <3>1, <3>2, <3>3, <3>4, <3>5, ServedKeeps
  <2> QED BY <2>1, <2>2
<1>5. CASE FirstProgress(p)
  <2> DEFINE step == Attached(p)
             s == [o EXCEPT !.step = step]
  <2>1. script' = [script EXCEPT ![p] = s] /\ Ends /\ o.step = "progress" /\ o \in ScriptRecords
    BY <1>1, <1>5 DEF FirstProgress, ScriptStep
  <2>2. step \in {"listen", "closed"} /\ (step = "closed" => o.os = "dead")
    BY <1>3
  <2> HIDE DEF step
  <2>3. s \in ScriptRecords /\ s.step = step /\ s.row = o.row /\ s.of = o.of /\ s.os = o.os
    <3> HIDE DEF o
    <3> QED BY <2>1, <2>2 DEF ScriptRecords
  <2> HIDE DEF s
  <2>4. Served1(p, s)
    BY <2>1, <2>2, <2>3 DEF Served1
  <2> QED BY <1>1, <2>1, <2>2, <2>3, <2>4, ServedKeeps
<1>6. CASE FindRun(p)
  <2> DEFINE step == IF o.row = "stopping" THEN "stopped" ELSE "finish"
             s == [o EXCEPT !.step = step]
  <2>1. script' = [script EXCEPT ![p] = s] /\ Awaits(<<"script", p>>) /\ o.step = "find" /\ o \in ScriptRecords
    BY <1>1, <1>6 DEF FindRun, ScriptStep
  <2>2. step \in {"stopped", "finish"}
    OBVIOUS
  <2> HIDE DEF step
  <2>3. s \in ScriptRecords /\ s.step = step /\ s.row = o.row /\ s.of = o.of /\ s.os = o.os
    <3> HIDE DEF o
    <3> QED BY <2>1, <2>2 DEF ScriptRecords
  <2> HIDE DEF s
  <2>4. Served1(p, s)
    BY <2>1, <2>2, <2>3 DEF Served1
  <2> QED BY <1>1, <2>1, <2>2, <2>3, <2>4, ServedKeeps
<1>7. CASE FinishRun(p)
  <2>1. PICK outcome \in Outcomes(p) :
          script' = [Completed(p) EXCEPT ![p].row = IF @ = "deleted" THEN @ ELSE outcome]
    BY <1>7 DEF FinishRun
  <2>2. outcome \in Settled
    BY DEF Outcomes, Settled
  <2> DEFINE row == IF o.row = "deleted" THEN "deleted" ELSE outcome
             s == [o EXCEPT !.step = "end", !.row = row]
  <2>3. script' = [script EXCEPT ![p] = s]
    <3> DEFINE e == [o EXCEPT !.step = "end"]
    <3>1. Completed(p) = [script EXCEPT ![p] = e]
      BY <1>1 DEF Completed
    <3>2. o \in ScriptRecords
      BY <1>1
    <3>3. script' = [script EXCEPT ![p] = [e EXCEPT !.row = IF @ = "deleted" THEN @ ELSE outcome]]
      <4> HIDE DEF e
      <4> QED BY <1>1, <2>1, <3>1
    <3>4. [e EXCEPT !.row = IF @ = "deleted" THEN @ ELSE outcome] = s
      <4> HIDE DEF o
      <4> QED BY <3>2 DEF ScriptRecords
    <3> QED BY <3>3, <3>4
  <2>4. Ends /\ o.step \in {"stopped", "finish"} /\ o \in ScriptRecords
    BY <1>1, <1>7 DEF FinishRun
  <2>5. row \in Settled \cup {"deleted"} /\ (o.row = "deleted" => row = "deleted") /\ (o.row # "deleted" => row \in Settled)
    BY <2>2
  <2> HIDE DEF row
  <2>6. s \in ScriptRecords /\ s.step = "end" /\ s.row = row /\ s.of = o.of /\ s.os = o.os
    <3> HIDE DEF o
    <3> QED BY <2>4, <2>5 DEF ScriptRecords
  <2> HIDE DEF s
  <2>7. Served1(p, s)
    BY <2>4, <2>5, <2>6 DEF Served1
  <2> QED BY <1>1, <2>3, <2>4, <2>6, <2>7, ServedKeeps
<1> QED BY <1>4, <1>5, <1>6, <1>7 DEF ScriptSteps

\* The process p exits, or its close is handled: nothing is recorded yet.
Shut(p, s) ==
  LET o == script[p] IN
  /\ s \in ScriptRecords /\ s.of = o.of /\ s.row = o.row /\ s.os = "dead" /\ Born(p)
  /\ \/ s.step = o.step
     \/ o.step = "listen" /\ s.step = "closed"
     \/ o.step = "closed" /\ s.step \in {"find", "end"}

\* Who waits behind the others when a close is handled.
Behind(p, s, t) ==
  /\ t \in Tasks \cup {Nobody}
  /\ \A z \in Scripts : t = ScriptTask(z) <=> z = p /\ script[p].step = "closed" /\ s.step = "find"
  /\ \A q \in Callers : t # RequestTask(q)

LEMMA ShutFits ==
  ASSUME Orderly, NEW p \in Scripts, NEW s, Shut(p, s), script' = [script EXCEPT ![p] = s],
         UNCHANGED def, NEW t, Behind(p, s, t), Moved(Nobody, t), NEW z \in Scripts
  PROVE  ScriptFits(z)'
<1>1. /\ script'[p] = s /\ \A y \in Scripts \ {p} : script'[y] = script[y]
  BY DEF Orderly, Shaped
<1>2. ScriptFits(z)
  BY DEF Orderly
<1>3. \A y \in Scripts : /\ Born(y)' <=> Born(y)
                         /\ script'[y].of = script[y].of /\ script'[y].row = script[y].row
                         /\ script'[y].step = "create" <=> script[y].step = "create"
                         /\ script'[y].step = "lost" <=> script[y].step = "lost"
  BY <1>1 DEF Born, Shut
<1>4. \A y \in Scripts : Ahead(ScriptTask(z), ScriptTask(y)) => Ahead(ScriptTask(z), ScriptTask(y))'
  BY TasksDiffer DEF Moved
<1>5. (script'[z].step = script[z].step /\ script'[z].os = script[z].os) \/ z = p
  BY <1>1
<1>6. CASE z = p
  <2>1. /\ s.os # "unborn" /\ s.step # "no"
        /\ s.step \in {"no", "create", "lost"} => s.row = "none"
        /\ s.step \in {"progress", "listen", "closed", "find", "stopped", "finish"} => s.row \in HasRun
    BY <1>2, <1>6 DEF Shut, ScriptFits, Born
  <2> QED BY <1>1, <1>2, <1>3, <1>4, <1>6, <2>1 DEF ScriptFits, Shut
<1>7. CASE z # p
  <2>1. script'[z] = script[z]
    BY <1>1, <1>7
  <2> QED BY <1>2, <1>3, <1>4, <2>1 DEF ScriptFits
<1> QED BY <1>6, <1>7

LEMMA ShutStops ==
  ASSUME Orderly, NEW p \in Scripts, NEW s, Shut(p, s), script' = [script EXCEPT ![p] = s],
         NEW t, Behind(p, s, t), Moved(Nobody, t), NEW q \in Callers, UNCHANGED request[q]
  PROVE  StopKnows(q)'
<1>1. /\ script'[p] = s /\ \A y \in Scripts \ {p} : script'[y] = script[y]
  BY DEF Orderly, Shaped
<1>2. \A y \in Scripts : Ahead(ScriptTask(y), RequestTask(q))' <=> Ahead(ScriptTask(y), RequestTask(q))
  BY TasksDiffer DEF Moved, Behind
<1>3. \A y \in Scripts : /\ Born(y)' <=> Born(y)
                         /\ script'[y].of = script[y].of /\ script'[y].row = script[y].row
                         /\ script'[y].step = "create" <=> script[y].step = "create"
                         /\ script'[y].step = "lost" <=> script[y].step = "lost"
                         /\ script'[y].step \in {"stopped", "finish"} <=> script[y].step \in {"stopped", "finish"}
  BY <1>1 DEF Born, Shut
<1>4. script[p].step = "closed" => ~Ahead(ScriptTask(p), RequestTask(q))
  BY AheadQueues DEF Orderly, Served, ScriptWaits
<1>5. StopKnows(q)
  BY DEF Orderly
<1>6. ASSUME NEW x, NEW of, FoundByStop(x, q, of)
      PROVE  FoundByStop(x, q, of)'
  <2>1. /\ x \in Scripts /\ script'[x].of = of
        /\ script'[x].row \in HasRun \cup {"none"}
        /\ script'[x].row = "none" => script'[x].step \in {"create", "lost"}
        /\ script'[x].step = "create" => Ahead(ScriptTask(x), RequestTask(q))'
        /\ \A y \in Scripts : Born(y)' /\ script'[y].of = of /\ y > x =>
              script'[y].step = "create" /\ ~Ahead(ScriptTask(y), RequestTask(q))'
    BY <1>2, <1>3, <1>6 DEF FoundByStop
  <2>2. script'[x].step \in {"create", "progress", "listen", "lost", "closed", "find", "end"}
    BY <1>1, <1>6 DEF FoundByStop, Shut
  <2>3. script'[x].step = "find" => ~Ahead(ScriptTask(x), RequestTask(q))'
    BY <1>1, <1>2, <1>4, <1>6 DEF FoundByStop, Shut
  <2> QED BY <2>1, <2>2, <2>3 DEF FoundByStop
<1>7. ASSUME NEW x, ReadByStop(x, q)
      PROVE  ReadByStop(x, q)'
  <2>1. x \in Scripts /\ script'[x].row \in HasRun
        /\ (script'[x].step \in {"stopped", "finish"} => ~Ahead(ScriptTask(x), RequestTask(q))')
    BY <1>2, <1>3, <1>7 DEF ReadByStop
  <2>2. script'[x].step \in {"progress", "listen", "closed", "find", "stopped", "finish", "end"}
    BY <1>1, <1>7 DEF ReadByStop, Shut
  <2> QED BY <2>1, <2>2 DEF ReadByStop
<1> QED BY <1>5, <1>6, <1>7 DEF StopKnows

LEMMA ShutKeeps ==
  ASSUME Orderly, Inv', NEW p \in Scripts, NEW s, Shut(p, s), script' = [script EXCEPT ![p] = s],
         UNCHANGED <<def, runner>>, request' \in [Callers -> RequestRecords],
         runtime' \in [Routines -> Scripts \cup {None}],
         \A r \in Routines : \/ runtime'[r] = runtime[r]
                             \/ runtime'[r] = None /\ runtime[r] = p,
         \A r \in Routines : runtime'[r] = p => s.step \notin {"find", "end"} \/ script[p].step = s.step,
         NEW t, Behind(p, s, t), Moved(Nobody, t), InOrder',
         \A c \in Callers : Untouched(c, Nobody, t) \/ Acted(c, Nobody, t)
  PROVE  Orderly'
<1>1. /\ script'[p] = s /\ \A y \in Scripts \ {p} : script'[y] = script[y]
  BY DEF Orderly, Shaped
<1>2. \A y \in Scripts : (Born(y)' <=> Born(y)) /\ script'[y].of = script[y].of
  BY <1>1 DEF Born, Shut
<1>3. \A z \in Scripts : ScriptFits(z)'
  BY ShutFits
<1>4. \A q \in Callers : StopKnows(q)'
  BY ShutStops DEF Untouched, Acted
<1>5. ASSUME NEW z \in Scripts
      PROVE  LiveTracked(z)'
  <2>1. CASE z = p
    BY <1>1, <2>1 DEF LiveTracked, Shut
  <2>2. CASE z # p
    <3>1. script'[z] = script[z] /\ LiveTracked(z) /\ ScriptFits(z)
      BY <1>1, <2>2 DEF Orderly
    <3>2. script[z].os = "live" => script[z].of \in Routines
      BY <3>1 DEF ScriptFits, Born
    <3> QED BY <1>2, <2>2, <3>1, <3>2 DEF LiveTracked
  <2> QED BY <2>1, <2>2
<1>6. ASSUME NEW r \in Routines
      PROVE  HoldsLatest(r)'
  <2> SUFFICES ASSUME runtime'[r] # None
               PROVE  HoldsLatest(r)'
    BY DEF HoldsLatest
  <2>1. runtime'[r] = runtime[r] /\ HoldsLatest(r) /\ runtime[r] \in Scripts
    BY DEF Orderly, Shaped
  <2>2. script'[runtime[r]].step \in {"create", "progress", "listen", "lost", "closed"}
    BY <1>1, <2>1 DEF HoldsLatest, Shut
  <2> QED BY <1>2, <2>1, <2>2 DEF HoldsLatest
<1>7. /\ \A q \in Callers : Queues(RequestTask(q))' <=> RequestWaits(q)'
      /\ \A d \in Deletions : Queues(DeletionTask(d))' => DeletionWaits(d)'
      /\ \A q \in Callers : RequestFits(q)'
      /\ Starting' \subseteq Starting
  BY CallersKeep
<1>8. ASSUME NEW z \in Scripts
      PROVE  Queues(ScriptTask(z))' <=> ScriptWaits(z)'
  <2>1. Queues(ScriptTask(z))' <=> Queues(ScriptTask(z)) \/ t = ScriptTask(z)
    BY TasksDiffer DEF Moved
  <2>2. Queues(ScriptTask(z)) <=> ScriptWaits(z)
    BY DEF Orderly, Served
  <2>3. CASE z = p
    BY <1>1, <2>1, <2>2, <2>3 DEF ScriptWaits, Shut, Behind
  <2>4. CASE z # p
    BY <1>1, <2>1, <2>2, <2>4 DEF ScriptWaits, Behind
  <2> QED BY <2>3, <2>4
<1>9. Spawned'
  BY <1>2, <1>7, NoneSpawned DEF Orderly
<1>10. Shaped'
  BY DEF Orderly, Shaped, Shut
<1>11. Served'
  BY <1>7, <1>8 DEF Served
<1> QED BY <1>3, <1>4, <1>5, <1>6, <1>7, <1>9, <1>10, <1>11 DEF Orderly

LEMMA ClosesKeep ==
  ASSUME Orderly, Inv', NEW p \in Scripts, UNCHANGED deletionVars, Closes(p)
  PROVE  Orderly'
<1> DEFINE o == script[p]
           step == IF o.step = "listen" THEN "closed" ELSE o.step
           s == [o EXCEPT !.os = "dead", !.step = step]
<1>1. o \in ScriptRecords /\ script \in [Scripts -> ScriptRecords]
  BY DEF Orderly, Shaped
<1>2. Born(p)
  BY DEF Closes, Alive, Orderly, ScriptFits, Born
<1>3. script' = [script EXCEPT ![p] = s] /\ UNCHANGED <<def, runtime, request, queue, deleter, runner>>
  BY <1>1 DEF Closes, deletionVars
<1>4. s \in ScriptRecords /\ s.of = o.of /\ s.row = o.row /\ s.os = "dead" /\ s.step = step
  <2>1. step \in {o.step, "closed"}
    OBVIOUS
  <2> HIDE DEF o, step
  <2> QED BY <1>1, <2>1 DEF ScriptRecords
<1>5. step = o.step \/ (o.step = "listen" /\ step = "closed")
  OBVIOUS
<1>6. o.step = "closed" => step = "closed"
  OBVIOUS
<1> HIDE DEF s, step
<1>7. Shut(p, s)
  BY <1>2, <1>4, <1>5 DEF Shut
<1>8. Behind(p, s, Nobody)
  BY <1>4, <1>6, TasksDiffer DEF Behind
<1>9. InOrder' /\ Moved(Nobody, Nobody)
  BY <1>3, StaysMoves DEF Orderly, Served
<1>10. \A c \in Callers : Untouched(c, Nobody, Nobody)
  BY <1>3, TasksDiffer DEF Untouched
<1>11. request' \in [Callers -> RequestRecords] /\ runtime' \in [Routines -> Scripts \cup {None}]
  BY <1>3 DEF Orderly, Shaped
<1>12. s.step \notin {"find", "end"} \/ script[p].step = s.step
  BY <1>4, <1>5
<1> QED BY <1>3, <1>7, <1>8, <1>9, <1>10, <1>11, <1>12, ShutKeeps

\* The record of the process does not change but for its step.
LEMMA StepTyped ==
  ASSUME Orderly, NEW p \in Scripts, NEW step \in {"find", "end"}
  PROVE  LET s == [script[p] EXCEPT !.step = step]
         IN  /\ s \in ScriptRecords /\ s.of = script[p].of /\ s.row = script[p].row
             /\ s.os = script[p].os /\ s.step = step
<1> DEFINE o == script[p]
<1>1. o \in ScriptRecords
  BY DEF Orderly, Shaped
<1> HIDE DEF o
<1>2. LET s == [o EXCEPT !.step = step]
      IN  s \in ScriptRecords /\ s.of = o.of /\ s.row = o.row /\ s.os = o.os /\ s.step = step
  BY <1>1 DEF ScriptRecords
<1> QED BY <1>2 DEF o

LEMMA ClearKeeps ==
  ASSUME Orderly, Inv', NEW p \in Scripts, UNCHANGED deletionVars, ClearRuntime(p)
  PROVE  Orderly'
<1>1. /\ script[p].step = "closed" /\ script[p].os = "dead" /\ Born(p) /\ script[p].of \in Routines
      /\ ~Queues(ScriptTask(p)) /\ InOrder
  BY DEF ClearRuntime, Orderly, Served, ScriptFits, ScriptWaits, Born
<1>2. UNCHANGED <<def, deleter, runner>>
  BY DEF ClearRuntime, deletionVars
<1>3. /\ request \in [Callers -> RequestRecords] /\ runtime \in [Routines -> Scripts \cup {None}]
      /\ script \in [Scripts -> ScriptRecords]
  BY DEF Orderly, Shaped
<1>4. \A r \in Routines : runtime[r] = p => r = script[p].of
  BY DEF Orderly, HoldsLatest, Scripts, None
<1>5. CASE runtime[script[p].of] = p
  <2> DEFINE s == [script[p] EXCEPT !.step = "find"]
  <2>1. /\ script' = [script EXCEPT ![p] = s] /\ Starts(ScriptTask(p)) /\ UNCHANGED request
        /\ runtime' = [runtime EXCEPT ![script[p].of] = None]
    BY <1>3, <1>5 DEF ClearRuntime, ScriptTask
  <2>2. s \in ScriptRecords /\ s.of = script[p].of /\ s.row = script[p].row /\ s.os = script[p].os /\ s.step = "find"
    BY StepTyped
  <2> HIDE DEF s
  <2>3. Shut(p, s)
    BY <1>1, <2>2 DEF Shut
  <2>4. Behind(p, s, ScriptTask(p))
    BY <1>1, <2>2, TasksDiffer DEF Behind
  <2>5. InOrder' /\ Moved(Nobody, ScriptTask(p))
    BY <1>1, <2>1, StartsMoves, TasksDiffer
  <2>6. \A c \in Callers : Untouched(c, Nobody, ScriptTask(p))
    BY <1>2, <2>1, TasksDiffer DEF Untouched
  <2>7. /\ \A r \in Routines : runtime'[r] = runtime[r] \/ (runtime'[r] = None /\ runtime[r] = p)
        /\ \A r \in Routines : runtime'[r] # p
        /\ runtime' \in [Routines -> Scripts \cup {None}]
    <3>1. None # p
      BY RoutinesAssumption DEF Scripts, None
    <3> QED BY <1>3, <1>4, <1>5, <2>1, <3>1
  <2> QED BY <1>2, <1>3, <2>1, <2>3, <2>4, <2>5, <2>6, <2>7, ShutKeeps
<1>6. CASE runtime[script[p].of] # p
  <2> DEFINE s == [script[p] EXCEPT !.step = "end"]
  <2>1. script' = [script EXCEPT ![p] = s] /\ UNCHANGED runtime
    BY <1>3, <1>6 DEF ClearRuntime, Completed
  <2>2. s \in ScriptRecords /\ s.of = script[p].of /\ s.row = script[p].row /\ s.os = script[p].os /\ s.step = "end"
    BY StepTyped
  <2> HIDE DEF s
  <2>3. Shut(p, s)
    BY <1>1, <2>2 DEF Shut
  <2>4. \A t \in Tasks \cup {Nobody} : (\A z \in Scripts : t # ScriptTask(z)) /\ (\A q \in Callers : t # RequestTask(q))
          => Behind(p, s, t)
    BY <2>2 DEF Behind
  <2>5. \A r \in Routines : runtime'[r] # p
    BY <1>4, <1>6, <2>1
  <2>6. CASE UNCHANGED <<request, queue>>
    <3>1. InOrder' /\ Moved(Nobody, Nobody)
      BY <1>1, <2>6, StaysMoves
    <3>2. \A c \in Callers : Untouched(c, Nobody, Nobody)
      BY <1>2, <2>6, TasksDiffer DEF Untouched
    <3>3. Behind(p, s, Nobody)
      BY <2>4, TasksDiffer
    <3> QED BY <1>2, <1>3, <2>1, <2>3, <2>5, <2>6, <3>1, <3>2, <3>3, ShutKeeps
  <2>7. CASE \E d \in Waiting(p) : request' = [request EXCEPT ![d] = Idle] /\ Starts(<<"deletion", d>>)
    <3>1. PICK d \in Waiting(p) : request' = [request EXCEPT ![d] = Idle] /\ Starts(<<"deletion", d>>)
      BY <2>7
    <3>2. d \in Deletions /\ d \in Callers /\ request[d].op = "await"
      BY <3>1 DEF Waiting, Callers
    <3>3. deleter[d].step = "view" /\ request[d].step = "no"
      BY <3>2 DEF Orderly, RequestFits
    <3>4. Starts(DeletionTask(d)) /\ DeletionTask(d) \in Tasks /\ ~Queues(DeletionTask(d))
      BY <3>1, <3>2, TasksDiffer DEF DeletionTask, Orderly, Served, DeletionWaits
    <3>5. InOrder' /\ Moved(Nobody, DeletionTask(d))
      BY <1>1, <3>4, StartsMoves
    <3>6. request'[d] = Idle /\ \A c \in Callers \ {d} : request'[c] = request[c]
      BY <1>3, <3>1, <3>2
    <3>7. request' \in [Callers -> RequestRecords]
      BY <1>3, <3>1, IdleTyped
    <3>8. Behind(p, s, DeletionTask(d))
      BY <2>4, <3>2, TasksDiffer
    <3>9. Acted(d, Nobody, DeletionTask(d))
      <4>1. RequestFits(d)' /\ StopKnows(d)'
        BY <3>6, IdleTyped DEF RequestFits, StopKnows
      <4>2. ~RequestWaits(d) /\ ~RequestWaits(d)' /\ DeletionTask(d) # RequestTask(d)
        BY <3>3, <3>6, IdleTyped, TasksDiffer DEF RequestWaits
      <4>3. DeletionWaits(d)'
        BY <1>2, <3>3, <3>6, IdleTyped DEF DeletionWaits
      <4> QED BY <3>6, <4>1, <4>2, <4>3, IdleTyped DEF Acted
    <3>10. \A c \in Callers \ {d} : Untouched(c, Nobody, DeletionTask(d))
      BY <1>2, <3>2, <3>6, TasksDiffer DEF Untouched
    <3> QED BY <1>2, <1>3, <2>1, <2>3, <2>5, <3>5, <3>7, <3>8, <3>9, <3>10, ShutKeeps
  <2> QED BY <1>6, <2>6, <2>7 DEF ClearRuntime
<1> QED BY <1>5, <1>6

-----------------------------------------------------------------------------
(* The deletions *)

\* The workflow of d goes on to a step, the others stay.
Goes(d, step) ==
  /\ deleter'[d].step = step
  /\ \A c \in Deletions \ {d} : UNCHANGED deleter[c]

LEMMA DeleterGoes ==
  ASSUME Inv, NEW d \in Deletions, NEW step
  PROVE  /\ To(d, step) => Goes(d, step)
         /\ \A todo : deleter' = [deleter EXCEPT ![d].step = step, ![d].todo = todo] => Goes(d, step)
         /\ \A id : deleter' = [deleter EXCEPT ![d].step = step, ![d].owner = id] => Goes(d, step)
         /\ \A b : deleter' = [deleter EXCEPT ![d].step = step, ![d].runner = b] => Goes(d, step)
         /\ deleter' = [deleter EXCEPT ![d] = NoDeleter] => Goes(d, "no")
<1> DEFINE r == deleter[d]
<1>1. deleter \in [Deletions -> Deleters] /\ r \in Deleters
  BY DEF Inv, Typed
<1>2. ASSUME NEW n, deleter' = [deleter EXCEPT ![d] = n]
      PROVE  Goes(d, n.step)
  BY <1>1, <1>2 DEF Goes
<1>3. NoDeleter.step = "no"
  BY DEF NoDeleter
<1>4. ASSUME To(d, step)
      PROVE  Goes(d, step)
  <2> DEFINE n == [r EXCEPT !.step = step]
  <2>1. deleter' = [deleter EXCEPT ![d] = n]
    BY <1>1, <1>4 DEF To
  <2> HIDE DEF r
  <2>2. n.step = step
    BY <1>1 DEF Deleters
  <2> HIDE DEF n
  <2> QED BY <1>2, <2>1, <2>2
<1>5. ASSUME NEW todo, deleter' = [deleter EXCEPT ![d].step = step, ![d].todo = todo]
      PROVE  Goes(d, step)
  <2> DEFINE n == [r EXCEPT !.step = step, !.todo = todo]
  <2>1. deleter' = [deleter EXCEPT ![d] = n]
    BY <1>1, <1>5
  <2> HIDE DEF r
  <2>2. n.step = step
    BY <1>1 DEF Deleters
  <2> HIDE DEF n
  <2> QED BY <1>2, <2>1, <2>2
<1>6. ASSUME NEW id, deleter' = [deleter EXCEPT ![d].step = step, ![d].owner = id]
      PROVE  Goes(d, step)
  <2> DEFINE n == [r EXCEPT !.step = step, !.owner = id]
  <2>1. deleter' = [deleter EXCEPT ![d] = n]
    BY <1>1, <1>6
  <2> HIDE DEF r
  <2>2. n.step = step
    BY <1>1 DEF Deleters
  <2> HIDE DEF n
  <2> QED BY <1>2, <2>1, <2>2
<1>7. ASSUME NEW b, deleter' = [deleter EXCEPT ![d].step = step, ![d].runner = b]
      PROVE  Goes(d, step)
  <2> DEFINE n == [r EXCEPT !.step = step, !.runner = b]
  <2>1. deleter' = [deleter EXCEPT ![d] = n]
    BY <1>1, <1>7
  <2> HIDE DEF r
  <2>2. n.step = step
    BY <1>1 DEF Deleters
  <2> HIDE DEF n
  <2> QED BY <1>2, <2>1, <2>2
<1> QED BY <1>2, <1>3, <1>4, <1>5, <1>6, <1>7

\* A workflow at the head of the queue, or one that waits for nothing yet.
LEMMA DeletionAtHead ==
  ASSUME Orderly, NEW d \in Deletions, Turn(<<"deletion", d>>)
  PROVE  /\ queue # <<>> /\ Head(queue) = DeletionTask(d) /\ InOrder
         /\ d \in Callers /\ request[d].op = "no" /\ request[d].step = "no"
         /\ ~Queues(RequestTask(d)) /\ RequestTask(d) # DeletionTask(d)
<1>1. queue # <<>> /\ Head(queue) = DeletionTask(d) /\ InOrder
  BY DEF Turn, DeletionTask, Orderly, Served
<1>2. DeletionWaits(d)
  BY <1>1, HeadFirst DEF Orderly, Served
<1>3. d \in Callers /\ request[d].op = "no" /\ request[d].step = "no"
  BY <1>2 DEF DeletionWaits, Callers, Orderly, RequestFits
<1>4. ~Queues(RequestTask(d)) /\ RequestTask(d) # DeletionTask(d)
  BY <1>3, TasksDiffer DEF Orderly, Served, RequestWaits
<1> QED BY <1>1, <1>3, <1>4

LEMMA DeletionMoves ==
  ASSUME Orderly, NEW d \in Deletions, Turn(<<"deletion", d>>)
  PROVE  /\ Awaits(<<"deletion", d>>) => InOrder' /\ Moved(DeletionTask(d), DeletionTask(d))
         /\ Awaits(<<"request", d>>) => InOrder' /\ Moved(DeletionTask(d), RequestTask(d))
         /\ Ends => InOrder' /\ Moved(DeletionTask(d), Nobody)
<1>1. /\ queue # <<>> /\ Head(queue) = DeletionTask(d) /\ InOrder /\ ~Queues(RequestTask(d))
      /\ d \in Callers
  BY DeletionAtHead
<1>2. RequestTask(d) \in Tasks /\ DeletionTask(d) \in Tasks
  BY <1>1, TasksDiffer
<1>3. Awaits(<<"request", d>>) => Awaits(RequestTask(d))
  BY DEF RequestTask
<1>4. Awaits(<<"deletion", d>>) => Awaits(DeletionTask(d))
  BY DEF DeletionTask
<1> QED BY <1>1, <1>2, <1>3, <1>4, AwaitsMoves, EndsMoves

\* What a step of a workflow leaves typed.
Tidy ==
  /\ Mild /\ LetsGo
  /\ def' \in [Routines -> {"absent", "free", "bound"}]
  /\ runtime' \in [Routines -> Scripts \cup {None}]
  /\ runner' \in {"live", "stopped", "removed", "orphan"}

\* The workflow waits for the store again, or for something else.
LEMMA DeletionGoesOn ==
  ASSUME Orderly, Inv', Tidy, NEW d \in Deletions, NEW step, Goes(d, step), UNCHANGED request,
         \/ /\ Turn(<<"deletion", d>>)
            /\ Ends \/ (Awaits(<<"deletion", d>>) /\ step \notin {"no", "deleting", "closing"})
         \/ /\ deleter[d].step \in {"no", "deleting", "closing"}
            /\ Starts(<<"deletion", d>>) /\ step \notin {"no", "deleting", "closing"}
  PROVE  Orderly'
<1>1. d \in Callers /\ request[d].op = "no" /\ request[d].step = "no"
  <2>1. CASE Turn(<<"deletion", d>>)
    BY <2>1, DeletionAtHead
  <2>2. CASE deleter[d].step \in {"no", "deleting", "closing"}
    BY <2>2 DEF Callers, Orderly, RequestFits
  <2> QED BY <2>1, <2>2
<1>2. DeletionTask(d) \in Tasks /\ RequestTask(d) # DeletionTask(d) /\ Nobody # DeletionTask(d)
      /\ RequestTask(d) # Nobody
  BY <1>1, TasksDiffer
<1>3. PICK n \in RequestRecords : n = request[d]
  BY <1>1 DEF Orderly, Shaped
<1>4. request' = [request EXCEPT ![d] = n] /\ request'[d] = n /\ n.op = "no" /\ n.step = "no"
  BY <1>1, <1>3 DEF Orderly, Shaped
<1>5. RequestFits(d)' /\ StopKnows(d)' /\ ~RequestWaits(d) /\ ~RequestWaits(d)'
  BY <1>1, <1>4 DEF RequestFits, StopKnows, RequestWaits
<1>6. step \notin {"no", "deleting", "closing"} => DeletionWaits(d)'
  BY <1>4 DEF DeletionWaits, Goes
<1>7. /\ Acted(d, DeletionTask(d), Nobody)
      /\ step \notin {"no", "deleting", "closing"} =>
            Acted(d, DeletionTask(d), DeletionTask(d)) /\ Acted(d, Nobody, DeletionTask(d))
  BY <1>2, <1>4, <1>5, <1>6 DEF Acted
<1>8. /\ def' \in [Routines -> {"absent", "free", "bound"}]
      /\ runtime' \in [Routines -> Scripts \cup {None}]
      /\ runner' \in {"live", "stopped", "removed", "orphan"}
      /\ Mild /\ LetsGo
      /\ \A c \in Deletions \ {d} : UNCHANGED deleter[c]
  BY DEF Tidy, Goes
<1>9. CASE Turn(<<"deletion", d>>) /\ Ends
  <2>1. InOrder' /\ Moved(DeletionTask(d), Nobody)
    BY <1>9, DeletionMoves
  <2> QED BY <1>1, <1>4, <1>7, <1>8, <2>1, OneActs
<1>10. CASE Turn(<<"deletion", d>>) /\ Awaits(<<"deletion", d>>) /\ step \notin {"no", "deleting", "closing"}
  <2>1. InOrder' /\ Moved(DeletionTask(d), DeletionTask(d))
    BY <1>10, DeletionMoves
  <2> QED BY <1>1, <1>4, <1>7, <1>8, <1>10, <2>1, OneActs
<1>11. CASE /\ deleter[d].step \in {"no", "deleting", "closing"}
            /\ Starts(<<"deletion", d>>) /\ step \notin {"no", "deleting", "closing"}
  <2>1. ~Queues(DeletionTask(d)) /\ InOrder /\ Starts(DeletionTask(d))
    BY <1>11 DEF Orderly, Served, DeletionWaits, DeletionTask
  <2>2. InOrder' /\ Moved(Nobody, DeletionTask(d))
    BY <1>2, <2>1, StartsMoves
  <2> QED BY <1>1, <1>4, <1>7, <1>8, <1>11, <2>2, OneActs
<1> QED BY <1>9, <1>10, <1>11

LEMMA QuietTidy ==
  ASSUME Orderly, UNCHANGED <<def, script, runtime>>, UNCHANGED runner \/ runner' = "stopped"
  PROVE  Tidy
BY ScriptsStay DEF Tidy, LetsGo, Orderly, Shaped

\* The stages that leave the routines alone.
LEMMA QuietStages ==
  ASSUME Orderly, Inv', NEW d \in Deletions,
         \/ EnsureDeletedOwner(d) \/ Journal(d) \/ StopRunners(d) \/ BeginExternal(d) \/ ViewDeleted(d)
         \/ Complete(d) \/ RecordFailure(d)
  PROVE  Orderly'
<1>1. UNCHANGED <<def, script, runtime, request>> /\ Turn(<<"deletion", d>>)
  BY DEF EnsureDeletedOwner, Journal, StopRunners, BeginExternal, ViewDeleted, Complete, RecordFailure,
         Finish, StepOf
<1>2. UNCHANGED runner \/ runner' = "stopped"
  BY DEF EnsureDeletedOwner, Journal, StopRunners, BeginExternal, ViewDeleted, Complete, RecordFailure, Finish
<1>3. Tidy
  BY <1>1, <1>2, QuietTidy
<1>4. Inv
  BY DEF Orderly
<1>5. \/ Awaits(<<"deletion", d>>) /\ (\E step \in {"journal", "runners", "list", "delete"} : Goes(d, step))
      \/ Ends /\ \E step : Goes(d, step)
  <2>1. CASE EnsureDeletedOwner(d)
    BY <1>4, <2>1, DeleterGoes DEF EnsureDeletedOwner
  <2>2. CASE Journal(d)
    BY <1>4, <2>2, DeleterGoes DEF Journal
  <2>3. CASE StopRunners(d)
    BY <1>4, <2>3, DeleterGoes DEF StopRunners
  <2>4. CASE BeginExternal(d)
    BY <1>4, <2>4, DeleterGoes DEF BeginExternal
  <2>5. CASE ViewDeleted(d)
    BY <1>4, <2>5, DeleterGoes DEF ViewDeleted
  <2>6. CASE Complete(d) \/ RecordFailure(d)
    BY <1>4, <2>6, DeleterGoes DEF Complete, RecordFailure, Finish
  <2> QED BY <2>1, <2>2, <2>3, <2>4, <2>5, <2>6
<1> QED BY <1>1, <1>3, <1>5, DeletionGoesOn

\* The answers of the agent's repository and of the hublots, and the route.
LEMMA ReturnsKeep ==
  ASSUME Orderly, Inv', NEW d \in Deletions,
         DeleteAgentSession(d) \/ CloseHublots(d) \/ DeleteSession(d)
  PROVE  Orderly'
<1>1. /\ UNCHANGED <<def, script, runtime, request, runner>> /\ Starts(<<"deletion", d>>)
      /\ deleter[d].step \in {"no", "deleting", "closing"} /\ Inv
  BY DEF DeleteAgentSession, CloseHublots, DeleteSession, Orderly
<1>2. Tidy
  BY <1>1, QuietTidy
<1>3. \E step \in {"owner", "hublots", "list2", "fail"} : Goes(d, step)
  <2>1. CASE DeleteAgentSession(d)
    BY <1>1, <2>1, DeleterGoes DEF DeleteAgentSession, AfterFailure
  <2>2. CASE CloseHublots(d)
    BY <1>1, <2>2, DeleterGoes DEF CloseHublots
  <2>3. CASE DeleteSession(d)
    <3> DEFINE known == runner \in {"live", "stopped"}
    <3>1. deleter' = [deleter EXCEPT ![d].step = "owner", ![d].runner = known]
      BY <2>3 DEF DeleteSession
    <3> HIDE DEF known
    <3> QED BY <1>1, <3>1, DeleterGoes
  <2> QED BY <2>1, <2>2, <2>3
<1> QED BY <1>1, <1>2, <1>3, DeletionGoesOn

\* stopSessionRoutines calls stopRoutine, and goes on when it returns.
LEMMA StopNextKeeps ==
  ASSUME Orderly, Inv', NEW d \in Deletions, Turn(<<"deletion", d>>), NEW todo \in SUBSET Routines,
         StopNext(d, todo), UNCHANGED <<def, script, runtime, runner>>
  PROVE  Orderly'
<1>1. Tidy /\ Inv
  BY QuietTidy DEF Orderly
<1> DEFINE active == {r \in todo : Active(r)}
<1>2. CASE active = {}
  <2>1. To(d, "agent") /\ Awaits(<<"deletion", d>>) /\ UNCHANGED request
    BY <1>2 DEF StopNext
  <2>2. Goes(d, "agent")
    BY <1>1, <2>1, DeleterGoes
  <2> QED BY <1>1, <2>1, <2>2, DeletionGoesOn
<1>3. CASE active # {}
  <2>1. PICK r : r = CHOOSE x \in active : TRUE
    OBVIOUS
  <2>2. r \in Routines
    BY <1>3, <2>1
  <2> DEFINE rest == active \ {r}
             n == [Idle EXCEPT !.op = "stop", !.step = "find", !.of = r]
  <2>3. /\ deleter' = [deleter EXCEPT ![d].step = "stopping", ![d].todo = rest]
        /\ request' = [request EXCEPT ![d] = n]
        /\ Awaits(<<"request", d>>)
    BY <1>3, <2>1 DEF StopNext
  <2>4. n \in RequestRecords /\ n.op = "stop" /\ n.step = "find" /\ n.of = r
    BY <2>2, IdleTyped DEF RequestRecords
  <2> HIDE DEF rest, n
  <2>5. Goes(d, "stopping")
    BY <1>1, <2>3, DeleterGoes
  <2>6. /\ d \in Callers /\ request[d].op = "no" /\ request[d].step = "no" /\ d \notin Requests
        /\ RequestTask(d) # DeletionTask(d)
    BY DeletionAtHead, RoutinesAssumption
  <2>7. request'[d] = n
    BY <2>3, <2>6 DEF Orderly, Shaped
  <2>8. RequestFits(d)' /\ StopKnows(d)' /\ RequestWaits(d)'
    BY <2>2, <2>4, <2>5, <2>6, <2>7 DEF RequestFits, StopKnows, RequestWaits, Goes
  <2>9. Acted(d, DeletionTask(d), RequestTask(d))
    BY <2>4, <2>6, <2>7, <2>8 DEF Acted
  <2>10. InOrder' /\ Moved(DeletionTask(d), RequestTask(d))
    BY <2>3, DeletionMoves
  <2> QED BY <1>1, <2>3, <2>4, <2>5, <2>6, <2>9, <2>10, OneActs DEF Tidy, Goes
<1> QED BY <1>2, <1>3

LEMMA StopListsKeep ==
  ASSUME Orderly, Inv', NEW d \in Deletions, ListToStop(d) \/ StopAnother(d)
  PROVE  Orderly'
<1>1. Turn(<<"deletion", d>>) /\ UNCHANGED <<def, script, runtime, runner>>
  BY DEF ListToStop, StopAnother, StepOf
<1>2. \E todo \in SUBSET Routines : StopNext(d, todo)
  BY DEF ListToStop, StopAnother, Bound, Orderly, Inv, Typed, Deleters
<1> QED BY <1>1, <1>2, StopNextKeeps

\* deleteSessionRoutines detaches the process it finds, kills it and awaits its
\* completion, or goes on to the definition.
LEMMA DeleteNextKeeps ==
  ASSUME Orderly, Inv', NEW d \in Deletions, Turn(<<"deletion", d>>), NEW todo \in SUBSET Routines,
         DeleteNext(d, todo), UNCHANGED <<def, runner>>
  PROVE  Orderly'
<1>1. Inv /\ runtime \in [Routines -> Scripts \cup {None}] /\ script \in [Scripts -> ScriptRecords]
  BY DEF Orderly, Shaped
<1>2. CASE todo = {}
  <2>1. To(d, "commit") /\ Awaits(<<"deletion", d>>) /\ UNCHANGED <<runtime, request, script>>
    BY <1>2 DEF DeleteNext
  <2>2. Goes(d, "commit") /\ Tidy
    BY <1>1, <2>1, DeleterGoes, QuietTidy
  <2> QED BY <2>1, <2>2, DeletionGoesOn
<1>3. CASE todo # {}
  <2>1. PICK r \in todo : r = CHOOSE x \in todo : TRUE
    BY <1>3
  <2>2. PICK p \in Scripts \cup {None} : p = runtime[r]
    BY <1>1
  <2>3. /\ deleter' = [deleter EXCEPT ![d].step = "view", ![d].todo = todo]
        /\ IF p # None
           THEN /\ script' = Killed(p)
                /\ runtime' = [runtime EXCEPT ![r] = None]
                /\ request' = [request EXCEPT ![d] = [Idle EXCEPT !.op = "await", !.script = p]]
                /\ Ends
           ELSE Awaits(<<"deletion", d>>) /\ UNCHANGED <<runtime, request, script>>
    BY <1>3, <2>1, <2>2 DEF DeleteNext
  <2>4. Goes(d, "view")
    BY <1>1, <2>3, DeleterGoes
  <2>5. CASE p = None
    <3>1. Awaits(<<"deletion", d>>) /\ UNCHANGED <<runtime, request, script>>
      BY <2>3, <2>5
    <3>2. Tidy
      BY <3>1, QuietTidy
    <3> QED BY <2>4, <3>1, <3>2, DeletionGoesOn
  <2>6. CASE p # None
    <3> DEFINE n == [Idle EXCEPT !.op = "await", !.script = p]
    <3>1. /\ script' = Signalled({p}) /\ runtime' = [runtime EXCEPT ![r] = None]
          /\ request' = [request EXCEPT ![d] = n] /\ Ends
      BY <2>3, <2>6 DEF Killed
    <3>2. n \in RequestRecords /\ n.op = "await" /\ n.step = "no"
      BY <2>2, IdleTyped DEF RequestRecords
    <3> HIDE DEF n
    <3>3. script'[p].os # "live"
      <4> DEFINE s == script[p]
      <4>1. s \in ScriptRecords /\ script'[p] = IF s.os = "live" THEN [s EXCEPT !.os = "told"] ELSE s
        BY <1>1, <2>2, <2>6, <3>1 DEF Signalled
      <4> HIDE DEF s
      <4>2. [s EXCEPT !.os = "told"].os = "told"
        BY <4>1 DEF ScriptRecords
      <4> QED BY <4>1, <4>2
    <3>4. LetsGo /\ runtime' \in [Routines -> Scripts \cup {None}]
      BY <1>1, <2>1, <2>2, <2>6, <3>1, <3>3 DEF LetsGo
    <3>5. Mild
      BY <3>1, SignalsAreMild
    <3>6. /\ d \in Callers /\ d \notin Requests /\ request[d].op = "no" /\ request[d].step = "no"
          /\ RequestTask(d) # DeletionTask(d) /\ Nobody # RequestTask(d) /\ Nobody # DeletionTask(d)
      BY DeletionAtHead, TasksDiffer, RoutinesAssumption
    <3>7. request'[d] = n
      BY <3>1, <3>6 DEF Orderly, Shaped
    <3>8. RequestFits(d)' /\ StopKnows(d)' /\ ~RequestWaits(d) /\ ~RequestWaits(d)'
      BY <2>4, <3>2, <3>6, <3>7 DEF RequestFits, StopKnows, RequestWaits, Goes
    <3>9. Acted(d, DeletionTask(d), Nobody)
      BY <3>2, <3>6, <3>7, <3>8 DEF Acted
    <3>10. InOrder' /\ Moved(DeletionTask(d), Nobody)
      BY <3>1, DeletionMoves
    <3>11. /\ def' \in [Routines -> {"absent", "free", "bound"}]
           /\ runner' \in {"live", "stopped", "removed", "orphan"}
           /\ \A c \in Deletions \ {d} : UNCHANGED deleter[c]
      BY <2>4 DEF Orderly, Shaped, Goes
    <3> QED BY <3>1, <3>2, <3>4, <3>5, <3>6, <3>9, <3>10, <3>11, OneActs
  <2> QED BY <2>5, <2>6
<1> QED BY <1>2, <1>3

LEMMA ListToDeleteKeeps ==
  ASSUME Orderly, Inv', NEW d \in Deletions, ListToDelete(d)
  PROVE  Orderly'
<1>1. Turn(<<"deletion", d>>) /\ UNCHANGED <<def, runner>>
  BY DEF ListToDelete
<1>2. \E todo \in SUBSET Routines : DeleteNext(d, todo)
  BY DEF ListToDelete, Bound, Orderly, Inv, Typed, Deleters
<1> QED BY <1>1, <1>2, DeleteNextKeeps

\* A definition, or all that are bound to the owner, is deleted with its runs.
LEMMA DefinitionsKeep ==
  ASSUME Orderly, Inv', NEW d \in Deletions, DeleteDefinition(d) \/ Commit(d)
  PROVE  Orderly'
<1>1. /\ Turn(<<"deletion", d>>) /\ Awaits(<<"deletion", d>>) /\ UNCHANGED <<runtime, request>> /\ Inv
      /\ def \in [Routines -> {"absent", "free", "bound"}]
      /\ runner \in {"live", "stopped", "removed", "orphan"}
      /\ runtime \in [Routines -> Scripts \cup {None}]
  BY DEF DeleteDefinition, Commit, StepOf, Orderly, Shaped
<1>2. CASE DeleteDefinition(d)
  <2> DEFINE s == Subject(d)
             rest == deleter[d].todo \ {s}
             step == IF rest = {} THEN "commit" ELSE "next"
  <2>1. /\ def' = [def EXCEPT ![s] = "absent"] /\ script' = Cascade({s}) /\ UNCHANGED runner
        /\ deleter' = [deleter EXCEPT ![d].step = step, ![d].todo = rest]
    BY <1>2 DEF DeleteDefinition
  <2>2. step \in {"commit", "next"}
    OBVIOUS
  <2> HIDE DEF s, rest, step
  <2>3. /\ def' \in [Routines -> {"absent", "free", "bound"}]
        /\ \A r \in Routines : def'[r] = "absent" => r \in {s} \/ def[r] = "absent"
    BY <1>1, <2>1
  <2>4. Mild
    BY <2>1, <2>3, CascadesAreMild
  <2>5. Tidy
    BY <1>1, <2>1, <2>3, <2>4 DEF Tidy, LetsGo
  <2>6. Goes(d, step)
    BY <1>1, <2>1, DeleterGoes
  <2> QED BY <1>1, <2>2, <2>5, <2>6, DeletionGoesOn
<1>3. CASE Commit(d)
  <2>1. CASE OwnerDeleted /\ To(d, "complete")
    <3>1. runner' \in {"live", "stopped", "removed", "orphan"}
      BY <1>1, <1>3 DEF Commit
    <3>2. Goes(d, "complete")
      BY <1>1, <2>1, DeleterGoes
    <3>3. /\ def' \in [Routines -> {"absent", "free", "bound"}]
          /\ \A r \in Routines : def'[r] = "absent" => r \in Bound \/ def[r] = "absent"
      BY <1>1, <2>1 DEF OwnerDeleted
    <3>4. Mild
      BY <2>1, <3>3, CascadesAreMild DEF OwnerDeleted
    <3>5. Tidy
      BY <1>1, <3>1, <3>3, <3>4 DEF Tidy, LetsGo
    <3> QED BY <1>1, <3>2, <3>5, DeletionGoesOn
  <2>2. CASE To(d, "fail") /\ UNCHANGED <<def, script, owner, op, runner>>
    <3>1. Goes(d, "fail") /\ Tidy
      BY <1>1, <2>2, DeleterGoes, QuietTidy
    <3> QED BY <1>1, <3>1, DeletionGoesOn
  <2> QED BY <1>3, <2>1, <2>2 DEF Commit
<1> QED BY <1>2, <1>3

LEMMA DeletionsKeep ==
  ASSUME Orderly, Inv', NEW d \in Deletions, DeletionSteps(d)
  PROVE  Orderly'
BY QuietStages, StopListsKeep, ListToDeleteKeeps, DefinitionsKeep DEF DeletionSteps

-----------------------------------------------------------------------------
(* Prompts, recovery and crashes *)

LEMMA NobodyActs ==
  ASSUME Orderly, Inv', Tidy, UNCHANGED <<request, queue, deleter>>
  PROVE  Orderly'
<1>1. InOrder' /\ Moved(Nobody, Nobody)
  BY StaysMoves DEF Orderly, Served
<1>2. \A c \in Callers : Untouched(c, Nobody, Nobody)
  BY TasksDiffer DEF Untouched
<1>3. NoScript(Nobody)
  BY TasksDiffer DEF NoScript
<1>4. Shaped'
  BY DEF Tidy, Mild, Orderly, Shaped
<1> QED BY <1>1, <1>2, <1>3, <1>4, MildKeeps DEF Tidy

LEMMA PromptKeeps ==
  ASSUME Orderly, Inv', Prompt
  PROVE  Orderly'
<1>1. UNCHANGED <<def, script, runtime, request, queue, deleter>> /\ runner' = "live"
  BY DEF Prompt, routineVars
<1>2. Tidy
  BY <1>1, ScriptsStay DEF Tidy, LetsGo, Orderly, Shaped
<1> QED BY <1>1, <1>2, NobodyActs

LEMMA StutterKeeps ==
  ASSUME Orderly, Inv', UNCHANGED vars
  PROVE  Orderly'
<1>1. UNCHANGED <<def, script, runtime, request, queue, deleter, runner>>
  BY DEF vars, routineVars
<1>2. Tidy
  BY <1>1, QuietTidy
<1> QED BY <1>1, <1>2, NobodyActs

\* The reconciliation deletes the definitions bound to the owner.
LEMMA RecoversKeep ==
  ASSUME Orderly, Inv', Recover
  PROVE  Orderly'
<1>1. /\ UNCHANGED <<runtime, request, queue, deleter, runner>>
      /\ def \in [Routines -> {"absent", "free", "bound"}]
      /\ runner \in {"live", "stopped", "removed", "orphan"}
      /\ runtime \in [Routines -> Scripts \cup {None}]
  BY DEF Recover, RecoverAgent, RecoverResources, RecoverCommit, RecoverFrame, Orderly, Shaped
<1>2. \/ UNCHANGED <<def, script>>
      \/ /\ def' = [r \in Routines |-> IF r \in Bound THEN "absent" ELSE def[r]]
         /\ script' = Cascade(Bound)
  BY DEF Recover, RecoverAgent, RecoverResources, RecoverCommit, OwnerDeleted
<1>3. CASE UNCHANGED <<def, script>>
  <2>1. Tidy
    BY <1>1, <1>3, QuietTidy
  <2> QED BY <1>1, <2>1, NobodyActs
<1>4. CASE /\ def' = [r \in Routines |-> IF r \in Bound THEN "absent" ELSE def[r]]
           /\ script' = Cascade(Bound)
  <2>1. /\ def' \in [Routines -> {"absent", "free", "bound"}]
        /\ \A r \in Routines : def'[r] = "absent" => r \in Bound \/ def[r] = "absent"
    BY <1>1, <1>4
  <2>2. Mild
    BY <1>4, <2>1, CascadesAreMild
  <2>3. Tidy
    BY <1>1, <2>1, <2>2 DEF Tidy, LetsGo
  <2> QED BY <1>1, <2>3, NobodyActs
<1> QED BY <1>2, <1>3, <1>4

\* A process's record stays well formed when its life, its row and its step are set.
LEMMA ScriptUpdated ==
  ASSUME NEW o \in ScriptRecords, NEW os \in {"unborn", "live", "told", "dead"},
         NEW row \in Settled \cup {"none", "running", "teardown", "stopping", "deleted"},
         NEW step \in {"no", "outlived", "end"}
  PROVE  [o EXCEPT !.os = os, !.row = row, !.step = step] \in ScriptRecords
BY DEF ScriptRecords

\* What the next start finds of a process.
LEMMA Outlives ==
  ASSUME Orderly, NEW survivors \in SUBSET {p \in Scripts : Alive(p)}, NEW p \in Scripts,
         script' = [z \in Scripts |->
           [script[z] EXCEPT
              !.os = IF @ = "unborn" \/ z \in survivors THEN @ ELSE "dead",
              !.row = IF @ \in {"running", "teardown", "stopping"} THEN "interrupted" ELSE @,
              !.step = IF @ = "no" THEN @ ELSE IF z \in survivors THEN "outlived" ELSE "end"]]
  PROVE  LET o == script[p]
             s == script'[p]
         IN  /\ s \in ScriptRecords /\ s.of = o.of
             /\ s.os = "unborn" <=> o.os = "unborn"
             /\ s.os = "live" => s.step \in {"no", "outlived"}
             /\ s.row = o.row \/ (o.row \in {"running", "teardown", "stopping"} /\ s.row = "interrupted")
             /\ s.step \in {"no", "outlived", "end"}
             /\ s.step = "no" <=> o.step = "no"
<1> DEFINE o == script[p]
           os == IF o.os = "unborn" \/ p \in survivors THEN o.os ELSE "dead"
           row == IF o.row \in {"running", "teardown", "stopping"} THEN "interrupted" ELSE o.row
           step == IF o.step = "no" THEN "no" ELSE IF p \in survivors THEN "outlived" ELSE "end"
           s == [o EXCEPT !.os = os, !.row = row, !.step = step]
<1>1. o \in ScriptRecords /\ (o.os = "unborn" <=> o.step = "no")
  BY DEF Orderly, Shaped, ScriptFits
<1>2. script'[p] = s
  <2>1. script'[p] = [o EXCEPT !.os = IF @ = "unborn" \/ p \in survivors THEN @ ELSE "dead",
                               !.row = IF @ \in {"running", "teardown", "stopping"} THEN "interrupted" ELSE @,
                               !.step = IF @ = "no" THEN @ ELSE IF p \in survivors THEN "outlived" ELSE "end"]
    OBVIOUS
  <2> HIDE DEF o
  <2> QED BY <1>1, <2>1 DEF ScriptRecords
<1>3. /\ os \in {"unborn", "live", "told", "dead"}
      /\ os = "unborn" <=> o.os = "unborn"
      /\ os = "live" => step \in {"no", "outlived"}
      /\ row = o.row \/ (o.row \in {"running", "teardown", "stopping"} /\ row = "interrupted")
      /\ row \in Settled \cup {"none", "running", "teardown", "stopping", "deleted"}
      /\ step \in {"no", "outlived", "end"}
      /\ step = "no" <=> o.step = "no"
  <2> HIDE DEF o
  <2> QED BY <1>1 DEF ScriptRecords, Settled
<1> HIDE DEF os, row, step
<1>4. s \in ScriptRecords /\ s.os = os /\ s.row = row /\ s.step = step /\ s.of = o.of
  <2> HIDE DEF o
  <2>1. DOMAIN o = {"os", "of", "mode", "row", "step"}
    BY <1>1 DEF ScriptRecords
  <2>2. s.os = os /\ s.row = row /\ s.step = step /\ s.of = o.of
    BY <2>1
  <2>3. s \in ScriptRecords
    BY <1>1, <1>3, ScriptUpdated
  <2> QED BY <2>2, <2>3
<1> HIDE DEF s
<1> QED BY <1>2, <1>3, <1>4

LEMMA CrashOrderly ==
  ASSUME Orderly, Inv', Crash
  PROVE  Orderly'
<1>1. /\ runtime' = [r \in Routines |-> None] /\ request' = [q \in Callers |-> Idle]
      /\ queue' = <<>> /\ UNCHANGED def /\ runner' \in {"live", "stopped", "removed", "orphan"}
      /\ script' \in [Scripts -> ScriptRecords]
  <2>1. script' \in [Scripts -> ScriptRecords]
    <3>1. PICK survivors \in SUBSET {p \in Scripts : Alive(p)} :
             script' = [z \in Scripts |->
           [script[z] EXCEPT
              !.os = IF @ = "unborn" \/ z \in survivors THEN @ ELSE "dead",
              !.row = IF @ \in {"running", "teardown", "stopping"} THEN "interrupted" ELSE @,
              !.step = IF @ = "no" THEN @ ELSE IF z \in survivors THEN "outlived" ELSE "end"]]
      BY DEF Crash
    <3>2. \A p \in Scripts : script'[p] \in ScriptRecords
      BY <3>1, Outlives
    <3>3. DOMAIN script' = Scripts /\ script' = [z \in Scripts |-> script'[z]]
      BY <3>1
    <3> QED BY <3>2, <3>3
  <2> QED BY <2>1 DEF Crash
<1>2. ASSUME NEW p \in Scripts
      PROVE  /\ script'[p].of = script[p].of
             /\ script'[p].os = "unborn" <=> script[p].os = "unborn"
             /\ script'[p].os = "live" => script'[p].step \in {"no", "outlived"}
             /\ \/ script'[p].row = script[p].row
                \/ /\ script[p].row \in {"running", "teardown", "stopping"}
                   /\ script'[p].row = "interrupted"
             /\ script'[p].step \in {"no", "outlived", "end"}
             /\ script'[p].step = "no" <=> script[p].step = "no"
  <2>1. PICK survivors \in SUBSET {x \in Scripts : Alive(x)} :
           script' = [z \in Scripts |->
         [script[z] EXCEPT
            !.os = IF @ = "unborn" \/ z \in survivors THEN @ ELSE "dead",
            !.row = IF @ \in {"running", "teardown", "stopping"} THEN "interrupted" ELSE @,
            !.step = IF @ = "no" THEN @ ELSE IF z \in survivors THEN "outlived" ELSE "end"]]
    BY DEF Crash
  <2> QED
    BY <2>1, Outlives
<1>3. \A p \in Scripts : Born(p)' <=> Born(p)
  BY <1>2 DEF Born
<1>4. ASSUME NEW p \in Scripts
      PROVE  ScriptFits(p)' /\ LiveTracked(p)'
  <2>1. ScriptFits(p)
    BY DEF Orderly
  <2>2. \A z \in Scripts : /\ script'[z].row \in NoRun <=> script[z].row \in NoRun
                           /\ script'[z].row = "none" <=> script[z].row = "none"
                           /\ script'[z].row = "deleted" <=> script[z].row = "deleted"
    BY <1>2 DEF NoRun
  <2>3. (Born(p) => script[p].os # "unborn") /\ (script'[p].step = "no" => script'[p].os # "live")
    BY <1>2, <2>1 DEF ScriptFits, Born
  <2>4. LiveTracked(p)'
    BY <1>2, <2>3 DEF LiveTracked
  <2>5. (script[p].os = "unborn" <=> script[p].step = "no")'
    BY <1>2, <2>1 DEF ScriptFits
  <2>6. (Born(p) => script[p].of \in Routines)'
    BY <1>2, <1>3, <2>1 DEF ScriptFits
  <2>7. script'[p].step = "no" => script'[p].row = "none"
    BY <1>2, <2>1, <2>2 DEF ScriptFits
  <2>8. (Born(p) /\ def[script[p].of] = "absent" => script[p].row \in NoRun)'
    BY <1>1, <1>2, <1>3, <2>1, <2>2 DEF ScriptFits
  <2>9. (script[p].row = "deleted" =>
          \A z \in Scripts : z < p /\ Born(z) /\ script[z].of = script[p].of => script[z].row \in NoRun)'
    BY <1>2, <1>3, <2>1, <2>2 DEF ScriptFits
  <2> QED BY <1>2, <2>4, <2>5, <2>6, <2>7, <2>8, <2>9 DEF ScriptFits
<1>5. ASSUME NEW q \in Callers
      PROVE  RequestFits(q)' /\ StopKnows(q)' /\ ~RequestWaits(q)'
  BY <1>1, IdleTyped DEF RequestFits, StopKnows, RequestWaits
<1>6. \A r \in Routines : HoldsLatest(r)'
  BY <1>1 DEF HoldsLatest
<1>7. Spawned'
  <2>1. Starting' \subseteq Starting
    BY <1>1, IdleTyped DEF Starting, Callers
  <2> QED BY <1>3, <2>1, NoneSpawned DEF Orderly
<1>8. Served'
  <2>1. \A u : ~Queues(u)'
    BY <1>1 DEF Queues
  <2>2. InOrder'
    BY <1>1 DEF InOrder, Single
  <2>3. \A p \in Scripts : ~ScriptWaits(p)'
    BY <1>2 DEF ScriptWaits
  <2> QED BY <1>5, <2>1, <2>2, <2>3 DEF Served
<1>9. Shaped'
  <2>1. request' \in [Callers -> RequestRecords]
    BY <1>1, IdleTyped
  <2>2. runtime' \in [Routines -> Scripts \cup {None}]
    BY <1>1
  <2> QED BY <1>1, <2>1, <2>2 DEF Orderly, Shaped
<1> QED BY <1>4, <1>5, <1>6, <1>7, <1>8, <1>9 DEF Orderly

-----------------------------------------------------------------------------
(* The invariant of the routines, and its theorems *)

LEMMA InitOrderly ==
  ASSUME Init
  PROVE  Orderly
<1>1. /\ def = [r \in Routines |-> "bound"] /\ script = [p \in Scripts |-> Unborn]
      /\ runtime = [r \in Routines |-> None] /\ request = [q \in Callers |-> Idle]
      /\ queue = <<>> /\ runner = "live"
  BY DEF Init, RoutinesInit
<1>2. Unborn \in ScriptRecords /\ Unborn.os = "unborn" /\ Unborn.row = "none" /\ Unborn.step = "no"
  <2> DEFINE of == "none"
             s == [os |-> "unborn", of |-> of, mode |-> "run", row |-> "none", step |-> "no"]
  <2>1. of \in Routines \cup {"none"}
    OBVIOUS
  <2>2. Unborn = s
    BY DEF Unborn
  <2> HIDE DEF of
  <2>3. s \in ScriptRecords /\ s.os = "unborn" /\ s.row = "none" /\ s.step = "no"
    BY <2>1 DEF ScriptRecords
  <2> HIDE DEF s
  <2> QED BY <2>2, <2>3
<1>3. Inv
  BY InitKeeps
<1>4. Shaped
  BY <1>1, <1>2, IdleTyped DEF Shaped
<1>5. Served
  <2>1. \A u : ~Queues(u)
    BY <1>1 DEF Queues
  <2>2. InOrder
    BY <1>1 DEF InOrder, Single
  <2>3. (\A p \in Scripts : ~ScriptWaits(p)) /\ \A q \in Callers : ~RequestWaits(q)
    BY <1>1, <1>2, IdleTyped DEF ScriptWaits, RequestWaits
  <2> QED BY <2>1, <2>2, <2>3 DEF Served
<1>6. Spawned
  <2>1. Starting = {}
    BY <1>1, IdleTyped DEF Starting, Callers
  <2>2. IsFiniteSet(Starting) /\ Cardinality(Starting) = 0
    BY <2>1, FS_EmptySet
  <2>3. 0 \in 0..MaxRuns /\ 0 <= MaxRuns - 0
    BY RoutinesAssumption
  <2>4. \A p \in Scripts : Born(p) <=> p <= 0
    BY <1>1, <1>2, RoutinesAssumption DEF Born, Scripts
  <2> QED BY <2>2, <2>3, <2>4 DEF Spawned
<1>7. \A p \in Scripts : ScriptFits(p) /\ LiveTracked(p)
  BY <1>1, <1>2 DEF ScriptFits, LiveTracked, Born
<1>8. \A q \in Callers : RequestFits(q) /\ StopKnows(q)
  BY <1>1, IdleTyped DEF RequestFits, StopKnows
<1>9. \A r \in Routines : HoldsLatest(r)
  BY <1>1 DEF HoldsLatest
<1> QED BY <1>3, <1>4, <1>5, <1>6, <1>7, <1>8, <1>9 DEF Orderly

LEMMA NextOrderly ==
  ASSUME Orderly, [Next]_vars
  PROVE  Orderly'
<1>0. Inv'
  BY NextKeeps DEF Orderly
<1>1. CASE UNCHANGED vars
  BY <1>0, <1>1, StutterKeeps
<1>2. ASSUME NEW p \in Scripts, ScriptSteps(p) \/ ClearRuntime(p) \/ Closes(p), UNCHANGED deletionVars
      PROVE  Orderly'
  BY <1>0, <1>2, ScriptsKeep, ClearKeeps, ClosesKeep
<1>3. ASSUME NEW q \in Callers, RequestSteps(q), UNCHANGED deletionVars
      PROVE  Orderly'
  BY <1>0, <1>3, RequestsKeep
<1>4. ASSUME NEW q \in Requests, Resolve(q), UNCHANGED deletionVars
      PROVE  Orderly'
  BY <1>0, <1>4, ResolveKeeps
<1>5. ASSUME NEW d \in Deletions,
             DeletionSteps(d) \/ DeleteAgentSession(d) \/ CloseHublots(d) \/ DeleteSession(d)
      PROVE  Orderly'
  BY <1>0, <1>5, DeletionsKeep, ReturnsKeep
<1>6. ASSUME NEW q \in Requests, AskRoutine(q)
      PROVE  Orderly'
  BY <1>0, <1>6, AskKeeps
<1>7. CASE Prompt \/ Recover \/ Crash
  BY <1>0, <1>7, PromptKeeps, RecoversKeep, CrashOrderly
<1>8. CASE Store
  BY <1>2, <1>3, <1>5, <1>8 DEF Store
<1>9. CASE Handled \/ Found \/ External \/ Exit
  BY <1>2, <1>4, <1>5, <1>9 DEF Handled, Found, External, Exit
<1> QED BY <1>1, <1>5, <1>6, <1>7, <1>8, <1>9 DEF Next

LEMMA Order == Spec => []Orderly
BY InitOrderly, NextOrderly, PTL DEF Spec

\* The routine tables, the runtime map and the queue of operations keep their
\* types, and no request, script or deletion awaits two operations at once.
THEOREM TypeCorrect == Spec => []TypeOK
<1>1. Orderly => TypeOK
  <2> SUFFICES ASSUME Orderly
               PROVE  TypeOK
    OBVIOUS
  <2>1. /\ Typed /\ Shaped /\ Single
    BY DEF Orderly, Inv, Served, InOrder
  <2>2. recover.todo \subseteq Deletions
    BY <2>1 DEF Typed, Recoveries
  <2>3. op \in [Deletions -> [status : {"none", "running", "failed", "interrupted", "completed"},
                              owner : OwnerIds \cup {None}, error : {"none", "workflow", "owner", "external"}]]
    BY <2>1 DEF Typed, Operations, Owners
  <2>4. owner \in OwnerIds \cup {None}
    BY <2>1 DEF Typed, Owners
  <2> QED BY <2>1, <2>2, <2>3, <2>4 DEF TypeOK, Shaped, ScriptRecords, RequestRecords, Single, Owners
<1> QED BY <1>1, Order, PTL

\* A script that this server runs and has not told to exit is the one that its
\* runtime map holds, unless runScript spawned another one for the routine
\* since: whatever requests, deletions and crashes come between.
THEOREM NoScriptLost == Spec => []TrackedUntilDead
<1>1. Orderly => TrackedUntilDead
  BY DEF Orderly, LiveTracked, TrackedUntilDead, Replaced
<1> QED BY <1>1, Order, PTL

\* A run settled before the step is settled the same after it, or deleted.
Kept(p) == script[p].row \in Settled => script'[p].row \in {script[p].row, "deleted"}

LEMMA OthersKept ==
  ASSUME Orderly, NEW p \in Scripts, script[p].row \notin Settled,
         \A z \in Scripts \ {p} : script'[z] = script[z]
  PROVE  \A z \in Scripts : Kept(z)
BY DEF Kept

LEMMA StepsKept ==
  ASSUME Orderly, NEW p \in Scripts,
         \/ \E step : script' = [script EXCEPT ![p].step = step]
         \/ \E os, step : script' = [script EXCEPT ![p].os = os, ![p].step = step]
  PROVE  \A z \in Scripts : Kept(z)
<1> DEFINE o == script[p]
<1>1. script \in [Scripts -> ScriptRecords] /\ o \in ScriptRecords
  BY DEF Orderly, Shaped
<1>2. ASSUME NEW step, script' = [script EXCEPT ![p].step = step]
      PROVE  script'[p].row = o.row
  <2>1. script'[p] = [o EXCEPT !.step = step]
    BY <1>1, <1>2
  <2> HIDE DEF o
  <2> QED BY <1>1, <2>1 DEF ScriptRecords
<1>3. ASSUME NEW os, NEW step, script' = [script EXCEPT ![p].os = os, ![p].step = step]
      PROVE  script'[p].row = o.row
  <2>1. script'[p] = [o EXCEPT !.os = os, !.step = step]
    BY <1>1, <1>3
  <2> HIDE DEF o
  <2> QED BY <1>1, <2>1 DEF ScriptRecords
<1>4. script'[p].row = o.row
  BY <1>2, <1>3
<1>5. \A z \in Scripts \ {p} : script'[z] = script[z]
  BY <1>1
<1> QED BY <1>4, <1>5 DEF Kept

LEMMA TablesKept ==
  ASSUME Orderly, \/ UNCHANGED script
                  \/ \E S : script' = Signalled(S)
                  \/ \E R : script' = Cascade(R)
  PROVE  \A z \in Scripts : Kept(z)
<1> SUFFICES ASSUME NEW z \in Scripts
             PROVE  script'[z].row \in {script[z].row, "deleted"}
  BY DEF Kept
<1> DEFINE o == script[z]
<1>1. o \in ScriptRecords
  BY DEF Orderly, Shaped
<1>2. script'[z] \in {o, [o EXCEPT !.os = "told"], [o EXCEPT !.row = "deleted"]}
  BY DEF Signalled, Cascade
<1> HIDE DEF o
<1>3. [o EXCEPT !.os = "told"].row = o.row /\ [o EXCEPT !.row = "deleted"].row = "deleted"
  BY <1>1 DEF ScriptRecords
<1> QED BY <1>2, <1>3 DEF o

LEMMA ScriptsKept ==
  ASSUME Orderly, NEW p \in Scripts, ScriptSteps(p) \/ ClearRuntime(p) \/ Closes(p)
  PROVE  \A z \in Scripts : Kept(z)
<1>1. ScriptFits(p) /\ script \in [Scripts -> ScriptRecords]
  BY DEF Orderly, Shaped
<1>2. CASE CreateRun(p) \/ FinishRun(p)
  <2>1. script[p].step \in {"create", "stopped", "finish"}
    BY <1>2 DEF CreateRun, FinishRun, ScriptStep
  <2>2. script[p].row \notin Settled
    BY <1>1, <2>1 DEF ScriptFits, Settled, HasRun
  <2>3. \A z \in Scripts \ {p} : script'[z] = script[z]
    BY <1>1, <1>2 DEF CreateRun, FinishRun, Completed
  <2> QED BY <2>2, <2>3, OthersKept
<1>3. CASE FirstProgress(p)
  BY <1>3, StepsKept DEF FirstProgress
<1>4. CASE FindRun(p)
  BY <1>4, StepsKept DEF FindRun
<1>5. CASE ClearRuntime(p)
  <2>1. \/ script' = [script EXCEPT ![p].step = "find"]
        \/ script' = [script EXCEPT ![p].step = "end"]
    BY <1>5 DEF ClearRuntime, Completed
  <2> QED BY <2>1, StepsKept
<1>6. CASE Closes(p)
  <2> DEFINE step == IF script[p].step = "listen" THEN "closed" ELSE script[p].step
  <2>1. script' = [script EXCEPT ![p].os = "dead", ![p].step = step]
    BY <1>1, <1>6 DEF Closes
  <2> HIDE DEF step
  <2> QED BY <2>1, StepsKept
<1> QED BY <1>2, <1>3, <1>4, <1>5, <1>6 DEF ScriptSteps

LEMMA RequestsKept ==
  ASSUME Orderly, NEW q \in Callers, RequestSteps(q)
  PROVE  \A z \in Scripts : Kept(z)
<1>1. script \in [Scripts -> ScriptRecords]
  BY DEF Orderly, Shaped
<1>2. CASE \E mode : Launch(q, mode) /\ request[q].op \in {"start", "teardown"}
  <2>1. PICK p \in Scripts : p = NextScript /\ ~Born(p)
    <3>1. PICK m \in 0..(MaxRuns - 1) : /\ \A p \in Scripts : Born(p) <=> p <= m
                                        /\ NextScript = m + 1 /\ m + 1 \in Scripts
      BY <1>2, NextIsUnborn
    <3>2. ~Born(m + 1)
      <4>1. ~(m + 1 <= m)
        BY RoutinesAssumption
      <4> QED BY <3>1, <4>1
    <3> QED BY <3>1, <3>2
  <2>2. script[p].row \notin Settled
    BY <2>1 DEF Orderly, ScriptFits, Born, Settled
  <2>3. \A z \in Scripts \ {p} : script'[z] = script[z]
    BY <1>1, <1>2, <2>1 DEF Launch
  <2> QED BY <2>2, <2>3, OthersKept
<1>3. CASE StopMark(q)
  <2>1. PICK p \in Scripts : p = request[q].run /\ script[p].row \in HasRun
    BY <1>3 DEF StopMark, At, Orderly, StopKnows, ReadByStop
  <2>2. script[p].row \notin Settled
    BY <2>1 DEF HasRun, Settled
  <2>3. \A z \in Scripts \ {p} : script'[z] = script[z]
    BY <1>1, <1>3, <2>1 DEF StopMark
  <2> QED BY <2>2, <2>3, OthersKept
<1>4. CASE \/ UNCHANGED script
           \/ \E S : script' = Signalled(S)
           \/ \E R : script' = Cascade(R)
  BY <1>4, TablesKept
<1> QED
  BY <1>2, <1>3, <1>4 DEF RequestSteps, EnsureOwner, CreateFind, CreateUpsert, StartFind, StartBind, StartAgain,
     TeardownFind, StopFind, StopLatest, StopKill, ReleaseFind, Release, DeleteFind, DeleteView, Delete,
     RequestFrame, At

LEMMA DeletionsKept ==
  ASSUME Orderly, NEW d \in Deletions,
         DeletionSteps(d) \/ DeleteAgentSession(d) \/ CloseHublots(d) \/ DeleteSession(d)
  PROVE  \A z \in Scripts : Kept(z)
<1>1. ASSUME NEW todo, StopNext(d, todo), UNCHANGED script
      PROVE  \A z \in Scripts : Kept(z)
  BY <1>1, TablesKept
<1>2. ASSUME NEW todo, DeleteNext(d, todo)
      PROVE  \A z \in Scripts : Kept(z)
  BY <1>2, TablesKept DEF DeleteNext, Killed
<1>3. CASE ListToDelete(d)
  BY <1>2, <1>3 DEF ListToDelete
<1>4. CASE Commit(d) \/ DeleteDefinition(d)
  BY <1>4, TablesKept DEF Commit, DeleteDefinition, OwnerDeleted
<1>5. CASE UNCHANGED script
  BY <1>5, TablesKept
<1> QED BY <1>3, <1>4, <1>5 DEF DeletionSteps, EnsureDeletedOwner, Journal, StopRunners, ListToStop, StopAnother,
        BeginExternal, ViewDeleted, Complete, RecordFailure, Finish, DeleteAgentSession, CloseHublots, DeleteSession

LEMMA AllKept ==
  ASSUME Orderly, [Next]_vars
  PROVE  \A z \in Scripts : Kept(z)
<1>1. CASE UNCHANGED vars \/ Prompt \/ (\E q \in Requests : AskRoutine(q) \/ Resolve(q))
  <2>1. UNCHANGED script
    BY <1>1 DEF vars, routineVars, Prompt, AskRoutine, Ask, Resolve
  <2> QED BY <2>1, TablesKept
<1>2. CASE Recover
  BY <1>2, TablesKept DEF Recover, RecoverAgent, RecoverResources, RecoverCommit, OwnerDeleted
<1>3. CASE Crash
  <2>1. \A z \in Scripts : \/ script'[z].row = script[z].row
                           \/ script[z].row \in {"running", "teardown", "stopping"}
    BY <1>3, Outlives DEF Crash
  <2> QED BY <2>1 DEF Kept, Settled
<1>4. CASE Store
  BY <1>4, ScriptsKept, RequestsKept, DeletionsKept DEF Store
<1>5. CASE Handled \/ Exit
  BY <1>5, ScriptsKept DEF Handled, Exit
<1>6. CASE External \/ \E d \in Deletions : DeleteSession(d)
  BY <1>6, DeletionsKept DEF External
<1> QED BY <1>1, <1>2, <1>3, <1>4, <1>5, <1>6 DEF Next, Found

\* A settled run stays as finishRoutineProcess settled it until its definition
\* is deleted: stopRoutine cannot mark it stopping afterwards, however the
\* store's operations of stops, ends, deletions and crashes interleave.
THEOREM SettledForGood == Spec => SettledStays
<1>1. Orderly /\ [Next]_vars =>
        [\A p \in Scripts : script[p].row \in Settled => script'[p].row \in {script[p].row, "deleted"}]_vars
  BY AllKept DEF Kept
<1> QED BY <1>1, Order, PTL DEF Spec, SettledStays
=============================================================================
