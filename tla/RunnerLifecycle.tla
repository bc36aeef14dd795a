-------------------------- MODULE RunnerLifecycle --------------------------
(***************************************************************************)
(* The runner manager of server/runners.mjs: one durable descriptor per    *)
(* session, an agent process launched on demand, and the asynchronous      *)
(* start, stop, exit, send, resume, watchdog and reaper paths.             *)
(*                                                                         *)
(* JavaScript runs each stretch of code between two awaits atomically, so  *)
(* one action is one such stretch.  Every await of the manager is on the   *)
(* application store, whose operations run one at a time in the order they *)
(* were issued (appStore.enqueue); `writes` is that queue, and StoreWrite  *)
(* performs its head and runs the code that was waiting for it.            *)
(***************************************************************************)
EXTENDS Naturals, Sequences

CONSTANTS Runners,     \* the descriptors of state.runners
          Commands,    \* client commands, each sent at most once
          Ops,         \* the requests and periodic tasks of an instance
          MaxStarts,   \* bound on start attempts per runner
          MaxWrites,   \* operations begin while fewer writes are pending
          MaxReloads,  \* bound on hot reloads
          MaxCrashes,  \* bound on crashes of the server
          SlowStore    \* may a write outlast RUNNER_RESPAWN_DEBOUNCE_MS?

Operation == {"send", "stop", "restart", "delete", "deleteEmpty", "watchdog", "reap"}
StartupCommand == {"switch_session", "get_state"}
Tag == {"none", "restart", "remove", "service"}

ASSUME ConstantsAssumption ==
  /\ MaxStarts \in Nat /\ MaxWrites \in Nat
  /\ MaxReloads \in Nat /\ MaxCrashes \in Nat
  /\ Ops \subseteq Operation
  /\ SlowStore \in BOOLEAN
  /\ Commands \cap (StartupCommand \cup Tag) = {}

VARIABLES
  runner,    \* the runtime record of each runner
  process,   \* the agent process of each start attempt
  writes,    \* the store's queue of runner updates
  row,       \* the persisted runner rows
  view,      \* the last lifecycle event published to a runner's clients
  command,   \* what became of each client command
  returned,  \* calls of the restart service that have returned to it
  reloads, crashes

vars == <<runner, process, writes, row, view, command, returned, reloads, crashes>>

Attempt == 1..MaxStarts

\* A runner as createRunnerManager restores it.  resumeId names the start
\* attempt whose resume response is awaited, sessionRef says whether the driver
\* has a session to resume, unanswered counts the health probes sent since the
\* last line (probeSentAt, lastLineAt and probeMisses).
Restored(known, starts, hasRef) ==
  [registered |-> known, proc |-> 0, startCount |-> starts, recent |-> FALSE,
   startTimer |-> "none", restartTimer |-> FALSE, removing |-> FALSE,
   resumeId |-> 0, resumeTimer |-> FALSE, resumeQueue |-> <<>>,
   sessionRef |-> hasRef, watchdogOk |-> FALSE, unanswered |-> 0]

Unborn == [os |-> "unborn", onExit |-> "runner", killTimer |-> "none",
           reader |-> FALSE, stdin |-> <<>>]

Init ==
  /\ \E refs \in [Runners -> BOOLEAN] :
       runner = [r \in Runners |-> Restored(TRUE, 0, refs[r])]
  /\ process = [r \in Runners |-> [k \in Attempt |-> Unborn]]
  /\ writes = <<>>
  /\ row = [r \in Runners |-> [present |-> TRUE, desired |-> "stopped",
                               status |-> "stopped", startCount |-> 0]]
  /\ view = [r \in Runners |-> "none"]
  /\ command = [c \in Commands |-> "new"]
  /\ returned = {}
  /\ reloads = 0 /\ crashes = 0

\* An update issued for runner r about start attempt k; `then` is the caller
\* that awaits the startRunner or stopRunner call it belongs to.
Update(o, r, k, then) == [op |-> o, r |-> r, k |-> k, then |-> then]

Pending(r, o) == \E i \in 1..Len(writes) : writes[i].op = o /\ writes[i].r = r

CallReturns(r, then) ==
  returned' = IF then = "service" THEN returned \cup {r} ELSE returned

Mark(cs, outcome) == [c \in Commands |-> IF c \in cs THEN outcome ELSE command[c]]

QueueOf(r) == {runner[r].resumeQueue[i] : i \in 1..Len(runner[r].resumeQueue)}

-----------------------------------------------------------------------------
(* Starting *)

\* Mutant: no crash-loop guard.
NeverDebounced(r) == FALSE

\* The crash-loop guard: lastSpawnAt is younger than RUNNER_RESPAWN_DEBOUNCE_MS.
Debounced(r) == runner[r].recent

\* startRunner up to its first await, from the runner records rs.  A command
\* whose start is debounced finds no process when the call returns.
StartRunner(rs, r, then) ==
  /\ UNCHANGED <<process, row, view, reloads, crashes>>
  /\ \/ /\ rs[r].proc # 0
        /\ runner' = rs
        /\ CallReturns(r, then)
        /\ UNCHANGED <<writes, command>>
     \/ /\ rs[r].proc = 0 /\ Debounced(r)
        /\ runner' = [rs EXCEPT ![r].startTimer = IF @ = "none" THEN "armed" ELSE @]
        /\ command' = Mark({then}, "refused")
        /\ CallReturns(r, then)
        /\ UNCHANGED writes
     \/ /\ rs[r].proc = 0 /\ ~Debounced(r) /\ rs[r].startCount < MaxStarts
        /\ runner' = [rs EXCEPT ![r].recent = TRUE, ![r].startCount = @ + 1]
        /\ writes' = Append(writes, Update("starting", r, rs[r].startCount + 1, then))
        /\ command' = Mark({then}, "starting")
        /\ UNCHANGED returned

\* RUNNER_RESPAWN_DEBOUNCE_MS pass since lastSpawnAt.  A failed spawn is
\* reported at once, and unless SlowStore the store has answered by then.
DebounceElapses(r) ==
  /\ runner[r].recent
  /\ \A k \in Attempt : process[r][k].os # "failing"
  /\ SlowStore \/ ~Pending(r, "starting")
  /\ runner' = [runner EXCEPT ![r].recent = FALSE]
  /\ UNCHANGED <<process, writes, row, view, command, returned, reloads, crashes>>

\* The timer of deferRunnerStart.  Its callback is guarded by the generation
\* that armed it: after a reload it is inert, and startTimer stays set.
DeferredStart(r) ==
  /\ runner[r].startTimer = "armed"
  /\ LET fired == [runner EXCEPT ![r].startTimer = "none"]
     IN  \/ runner[r].registered /\ StartRunner(fired, r, "none")
         \/ /\ ~runner[r].registered
            /\ runner' = fired
            /\ UNCHANGED <<process, writes, row, view, command, returned, reloads, crashes>>

\* The timer of POST /restart.
RestartTimer(r) ==
  /\ runner[r].restartTimer
  /\ LET fired == [runner EXCEPT ![r].restartTimer = FALSE]
     IN  \/ runner[r].registered /\ StartRunner(fired, r, "none")
         \/ /\ ~runner[r].registered
            /\ runner' = fired
            /\ UNCHANGED <<process, writes, row, view, command, returned, reloads, crashes>>

-----------------------------------------------------------------------------
(* Sending *)

\* sendToRunner with a process: held while a resume is in flight, else written.
Deliver(r, c) ==
  LET k == runner[r].proc
  IN  \/ /\ runner[r].resumeId # 0
         /\ runner' = [runner EXCEPT ![r].resumeQueue = Append(@, c)]
         /\ command' = Mark({c}, "held")
         /\ UNCHANGED process
      \/ /\ runner[r].resumeId = 0
         /\ process[r][k].os = "alive"
         /\ process' = [process EXCEPT ![r][k].stdin = Append(@, c)]
         /\ command' = Mark({c}, "delivered")
         /\ UNCHANGED runner
      \/ /\ runner[r].resumeId = 0
         /\ process[r][k].os # "alive"
         /\ command' = Mark({c}, "refused")
         /\ UNCHANGED <<runner, process>>

\* sendToRunner once the startRunner call it made has returned.
AfterStart(r, then) ==
  \/ then \in Commands /\ runner[r].proc # 0 /\ Deliver(r, then)
  \/ /\ then \notin Commands \/ runner[r].proc = 0
     /\ command' = Mark({then}, "refused")
     /\ UNCHANGED <<runner, process>>

\* Mutant: the flushed queue is not cleared.
FlushKeepsQueue(r) ==
  LET k == runner[r].proc
      flushed == k # 0 /\ process[r][k].os = "alive"
  IN  /\ runner' = [runner EXCEPT ![r].resumeId = 0, ![r].resumeTimer = FALSE]
      /\ process' = IF flushed
                    THEN [process EXCEPT ![r][k].stdin = @ \o runner[r].resumeQueue]
                    ELSE process
      /\ command' = Mark(QueueOf(r), IF flushed THEN "delivered" ELSE "dropped")

\* finishResume: the held commands go to whatever process there is.
FinishResume(r) ==
  LET k == runner[r].proc
      flushed == k # 0 /\ process[r][k].os = "alive"
  IN  /\ runner' = [runner EXCEPT ![r].resumeId = 0, ![r].resumeTimer = FALSE,
                                  ![r].resumeQueue = <<>>]
      /\ process' = IF flushed
                    THEN [process EXCEPT ![r][k].stdin = @ \o runner[r].resumeQueue]
                    ELSE process
      /\ command' = Mark(QueueOf(r), IF flushed THEN "delivered" ELSE "dropped")

\* The safety valve RESUME_WAIT_TIMEOUT_MS after startup.
ResumeTimer(r) ==
  /\ runner[r].resumeTimer
  /\ \/ runner[r].resumeId # 0 /\ FinishResume(r)
     \/ /\ runner[r].resumeId = 0
        /\ runner' = [runner EXCEPT ![r].resumeTimer = FALSE]
        /\ UNCHANGED <<process, command>>
  /\ UNCHANGED <<writes, row, view, returned, reloads, crashes>>

-----------------------------------------------------------------------------
(* What the store's answers continue *)

Patch(r, new) == row' = IF row[r].present THEN [row EXCEPT ![r] = new] ELSE row

\* startRunner launches: the driver throws, or returns a process, which the
\* system may still fail to spawn.
Launch(r, k, then) ==
  /\ Patch(r, [row[r] EXCEPT !.desired = "running", !.status = "starting", !.startCount = k])
  /\ UNCHANGED <<view, command, returned>>
  /\ \/ \E os \in {"alive", "failing"} :
          /\ runner' = [runner EXCEPT ![r].proc = k]
          /\ process' = [process EXCEPT ![r][k].os = os]
          /\ writes' = Append(Tail(writes), Update("running", r, k, then))
     \/ /\ writes' = Append(Tail(writes), Update("launchFailed", r, k, then))
        /\ UNCHANGED <<runner, process>>

LaunchFailed(r, then) ==
  /\ Patch(r, [row[r] EXCEPT !.status = "dead"])
  /\ view' = [view EXCEPT ![r] = "pi_error"]
  /\ writes' = Tail(writes)
  /\ AfterStart(r, then)
  /\ CallReturns(r, then)

\* Mutant: a resume arms no safety valve.
NoValve(resumes, armed) == armed

\* A resume arms the safety valve; one that is still armed stays so.
SafetyValve(resumes, armed) == resumes \/ armed

\* startRunner attaches the reader, writes the startup command and, when the
\* driver resumes a session, holds later commands until the response.
Startup(r, k, then) ==
  LET resumes == runner[r].sessionRef
      held == resumes /\ then \in Commands
      startup == <<IF resumes THEN "switch_session" ELSE "get_state">>
      input == IF then \in Commands /\ ~resumes THEN Append(startup, then) ELSE startup
      writable == process[r][k].os = "alive"
  IN  /\ runner' = [runner EXCEPT
           ![r].watchdogOk = TRUE, ![r].unanswered = 0,
           ![r].resumeId = IF resumes THEN k ELSE 0,
           ![r].resumeTimer = SafetyValve(resumes, @),
           ![r].resumeQueue = IF held THEN Append(@, then) ELSE @]
      /\ process' = [process EXCEPT ![r][k].reader = TRUE,
                                    ![r][k].stdin = IF writable THEN @ \o input ELSE @]
      /\ command' = Mark({then}, IF held THEN "held" ELSE IF writable THEN "delivered" ELSE "refused")

Running(r, k, then) ==
  /\ Patch(r, [row[r] EXCEPT !.status = "running"])
  /\ writes' = Tail(writes)
  /\ CallReturns(r, then)
  /\ \/ /\ runner[r].proc = k
        /\ Startup(r, k, then)
        /\ view' = [view EXCEPT ![r] = "pi_started"]
     \/ /\ runner[r].proc # k
        /\ AfterStart(r, then)
        /\ UNCHANGED view

\* stopRunner: the process it saw before its await is detached and signalled,
\* and whatever the resume held is discarded.
Stopped(r, k, then) ==
  /\ Patch(r, [row[r] EXCEPT !.desired = "stopped", !.status = "stopped"])
  /\ writes' = Tail(writes)
  /\ CallReturns(r, then)
  /\ UNCHANGED view
  /\ LET called == [runner EXCEPT ![r].startTimer = "none",
                                  ![r].restartTimer = @ \/ then = "restart",
                                  ![r].removing = @ \/ then = "remove"]
     IN  \/ k = 0 /\ runner' = called /\ UNCHANGED <<process, command>>
         \/ /\ k # 0
            /\ runner' = [called EXCEPT ![r].proc = 0, ![r].resumeId = 0,
                                        ![r].resumeTimer = FALSE, ![r].resumeQueue = <<>>]
            /\ process' = IF process[r][k].os = "alive"
                          THEN [process EXCEPT ![r][k].onExit = "stop", ![r][k].killTimer = "armed"]
                          ELSE process
            /\ command' = Mark(QueueOf(r), "dropped")

\* Mutant: the death is published but not persisted.
DiedUnrecorded(r) ==
  /\ view' = [view EXCEPT ![r] = "pi_exit"]
  /\ writes' = Tail(writes)
  /\ UNCHANGED <<runner, process, row, command, returned>>

\* The exit handler's persisted death, and the event it then publishes.
Died(r) ==
  /\ Patch(r, [row[r] EXCEPT !.status = "dead"])
  /\ view' = [view EXCEPT ![r] = "pi_exit"]
  /\ writes' = Tail(writes)
  /\ UNCHANGED <<runner, process, command, returned>>

SpawnFailed(r) ==
  /\ Patch(r, [row[r] EXCEPT !.status = "dead"])
  /\ writes' = Tail(writes)
  /\ UNCHANGED <<runner, process, view, command, returned>>

\* DELETE /runner/empty once the row is gone.
Deleted(r) ==
  /\ row' = [row EXCEPT ![r].present = FALSE]
  /\ runner' = [runner EXCEPT ![r].registered = FALSE]
  /\ writes' = Tail(writes)
  /\ UNCHANGED <<process, view, command, returned>>

\* The store performs the oldest update and the code awaiting it runs on.
StoreWrite ==
  /\ writes # <<>>
  /\ UNCHANGED <<reloads, crashes>>
  /\ LET w == Head(writes)
     IN  \/ w.op = "starting" /\ Launch(w.r, w.k, w.then)
         \/ w.op = "launchFailed" /\ LaunchFailed(w.r, w.then)
         \/ w.op = "running" /\ Running(w.r, w.k, w.then)
         \/ w.op = "stopped" /\ Stopped(w.r, w.k, w.then)
         \/ w.op = "dead" /\ Died(w.r)
         \/ w.op = "error" /\ SpawnFailed(w.r)
         \/ w.op = "delete" /\ Deleted(w.r)

-----------------------------------------------------------------------------
(* The agent process *)

\* Mutant: every exit of a stopped process is reported.
EveryExitReported(r) == FALSE

\* The exit event.  stopRunner replaced the first handler by one that reports
\* the death only while no replacement is running.
StaleExit(r) == runner[r].proc # 0

Exit(r, k) ==
  /\ process[r][k].os \in {"alive", "killed"}
  /\ process' = [process EXCEPT ![r][k].os = "dead", ![r][k].killTimer = "none"]
  /\ UNCHANGED <<row, command, returned, reloads, crashes>>
  /\ \/ /\ process[r][k].onExit = "runner" /\ runner[r].proc = k
        /\ runner' = [runner EXCEPT ![r].proc = 0]
        /\ writes' = Append(writes, Update("dead", r, k, "none"))
        /\ UNCHANGED view
     \/ /\ process[r][k].onExit = "runner" /\ runner[r].proc # k
        /\ UNCHANGED <<runner, writes, view>>
     \/ /\ process[r][k].onExit = "stop"
        /\ view' = IF StaleExit(r) THEN view ELSE [view EXCEPT ![r] = "pi_exit"]
        /\ UNCHANGED <<runner, writes>>

\* The error event of a process the system could not spawn.
SpawnError(r, k) ==
  /\ process[r][k].os = "failing"
  /\ process' = [process EXCEPT ![r][k].os = "dead"]
  /\ runner' = [runner EXCEPT ![r].proc = IF @ = k THEN 0 ELSE @]
  /\ view' = [view EXCEPT ![r] = "pi_error"]
  /\ writes' = Append(writes, Update("error", r, k, "none"))
  /\ UNCHANGED <<row, command, returned, reloads, crashes>>

\* Mutant: the escalation asks whether a signal was sent, not whether the
\* process is gone.
EscalateUnlessSignalled(r, k) ==
  /\ process[r][k].killTimer = "armed"
  /\ process' = [process EXCEPT ![r][k].killTimer = "none"]
  /\ UNCHANGED <<runner, writes, row, view, command, returned, reloads, crashes>>

\* The escalation RUNNER_RESTART_DELAY_MS after SIGTERM.
KillTimer(r, k) ==
  /\ process[r][k].killTimer = "armed"
  /\ process' = [process EXCEPT ![r][k].killTimer = "none",
                                ![r][k].os = IF @ = "alive" THEN "killed" ELSE @]
  /\ UNCHANGED <<runner, writes, row, view, command, returned, reloads, crashes>>

\* The runner reads its process's output: the reader is attached, and the
\* process is still the runner's.
Reading(r) ==
  /\ runner[r].proc # 0
  /\ process[r][runner[r].proc].os = "alive"
  /\ process[r][runner[r].proc].reader

\* The response to the resume command.
ResumeResponse(r) ==
  /\ Reading(r) /\ runner[r].resumeId = runner[r].proc
  /\ FinishResume(r)
  /\ UNCHANGED <<writes, row, view, returned, reloads, crashes>>

\* A line of output: any answers the health probe, and a get_state response
\* also tells the session.
Line(r) ==
  /\ Reading(r)
  /\ \E tells \in BOOLEAN :
       runner' = [runner EXCEPT ![r].unanswered = 0, ![r].sessionRef = @ \/ tells]
  /\ UNCHANGED <<process, writes, row, view, command, returned, reloads, crashes>>

-----------------------------------------------------------------------------
(* Requests, watchdog, reaper *)

\* stopRunner up to its first await.
StopRunner(r, then) ==
  writes' = Append(writes, Update("stopped", r, runner[r].proc, then))

Request(r, op) ==
  /\ op \in Ops
  /\ runner[r].registered
  /\ Len(writes) < MaxWrites

\* POST /rpc
Send(r, c) ==
  /\ Request(r, "send")
  /\ command[c] = "new"
  /\ \/ runner[r].proc = 0 /\ StartRunner(runner, r, c)
     \/ /\ runner[r].proc # 0
        /\ Deliver(r, c)
        /\ UNCHANGED <<writes, row, view, returned, reloads, crashes>>

\* DELETE /runners
Stop(r) ==
  /\ Request(r, "stop")
  /\ StopRunner(r, "none")
  /\ UNCHANGED <<runner, process, row, view, command, returned, reloads, crashes>>

\* POST /restart; at most one is outstanding per runner.
Restart(r) ==
  /\ Request(r, "restart")
  /\ ~runner[r].restartTimer
  /\ \A i \in 1..Len(writes) : writes[i].then # "restart"
  /\ StopRunner(r, "restart")
  /\ UNCHANGED <<runner, process, row, view, command, returned, reloads, crashes>>

\* DELETE /session stops the session's runner and later removes it.
DeleteSession(r) ==
  /\ Request(r, "delete")
  /\ runner[r].sessionRef /\ ~runner[r].removing
  /\ \A i \in 1..Len(writes) : writes[i].then # "remove"
  /\ StopRunner(r, "remove")
  /\ UNCHANGED <<runner, process, row, view, command, returned, reloads, crashes>>

RemoveRuntime(r) ==
  /\ runner[r].removing
  /\ runner' = [runner EXCEPT ![r].registered = FALSE, ![r].removing = FALSE]
  /\ row' = [row EXCEPT ![r].present = FALSE]
  /\ UNCHANGED <<process, writes, view, command, returned, reloads, crashes>>

\* DELETE /runner/empty refuses a runner with a process, or with a session the
\* catalog still has; missing says that it has not.
DeleteEmpty(r, missing) ==
  /\ Request(r, "deleteEmpty")
  /\ runner[r].proc = 0
  /\ runner[r].sessionRef => missing
  /\ ~Pending(r, "delete")
  /\ writes' = Append(writes, Update("delete", r, 0, "none"))
  /\ UNCHANGED <<runner, process, row, view, command, returned, reloads, crashes>>

\* Mutant: one probe too many.
OneMissTooMany == 3

\* WATCHDOG_MAX_MISSES
MaxMisses == 2

\* One runner's turn of watchdogTick.  After the second silent probe it calls
\* stopRunner and, without awaiting it, startRunner, which returns at its first
\* guard because stopRunner has not yet cleared runner.proc.
WatchdogTick(r, subscribed) ==
  /\ Request(r, "watchdog")
  /\ runner[r].proc # 0 /\ runner[r].watchdogOk /\ runner[r].resumeId = 0
  /\ UNCHANGED <<process, row, command, returned, reloads, crashes>>
  /\ \/ /\ ~subscribed
        /\ runner' = [runner EXCEPT ![r].unanswered = 0]
        /\ UNCHANGED <<view, writes>>
     \/ /\ subscribed /\ runner[r].unanswered < MaxMisses
        /\ runner' = [runner EXCEPT ![r].unanswered = @ + 1]
        /\ UNCHANGED <<view, writes>>
     \/ /\ subscribed /\ runner[r].unanswered = MaxMisses
        /\ runner' = [runner EXCEPT ![r].unanswered = 0]
        /\ view' = [view EXCEPT ![r] = "runner_unhealthy"]
        /\ StopRunner(r, "none")

\* reaperTick stops a runner that is idle, an hour old and never earned a name.
\* Idleness and name are what its agent last reported, so any may be found so.
Reap(r) ==
  /\ Request(r, "reap")
  /\ runner[r].proc # 0 /\ ~runner[r].recent
  /\ StopRunner(r, "none")
  /\ UNCHANGED <<runner, process, row, view, command, returned, reloads, crashes>>

\* A hot reload retires the generation whose scope guards the start and kill
\* timers: they stay scheduled but their callbacks do nothing.
Inert(timer) == IF timer = "armed" THEN "inert" ELSE timer

Reload ==
  /\ reloads < MaxReloads
  /\ reloads' = reloads + 1
  /\ runner' = [r \in Runners |-> [runner[r] EXCEPT !.startTimer = Inert(@)]]
  /\ process' = [r \in Runners |-> [k \in Attempt |->
                   [process[r][k] EXCEPT !.killTimer = Inert(@)]]]
  /\ UNCHANGED <<writes, row, view, command, returned, crashes>>

\* Mutant: rows of runners that were live are restored as they are.
StillLive(w) == w

\* The server dies with its pending writes; the agents end with their pipes.
\* loadPersistedRunners restores the rows and marks the live ones interrupted.
Interrupted(w) ==
  IF w.present /\ w.status \in {"starting", "running"}
  THEN [w EXCEPT !.desired = "stopped", !.status = "interrupted"]
  ELSE w

Crash ==
  /\ crashes < MaxCrashes
  /\ crashes' = crashes + 1
  /\ row' = [r \in Runners |-> Interrupted(row[r])]
  /\ runner' = [r \in Runners |->
                  Restored(row[r].present, row[r].startCount, runner[r].sessionRef)]
  /\ process' = [r \in Runners |-> [k \in Attempt |->
                   IF process[r][k].os = "unborn" THEN process[r][k]
                   ELSE [process[r][k] EXCEPT !.os = "dead", !.killTimer = "none"]]]
  /\ writes' = <<>>
  /\ view' = [r \in Runners |-> "none"]
  /\ command' = [c \in Commands |->
                   IF command[c] \in {"starting", "held"} THEN "dropped" ELSE command[c]]
  /\ returned' = {}
  /\ UNCHANGED reloads

-----------------------------------------------------------------------------
Timers(r) == DebounceElapses(r) \/ DeferredStart(r) \/ RestartTimer(r) \/ ResumeTimer(r)

Requests(r) ==
  \/ \E c \in Commands : Send(r, c)
  \/ Stop(r) \/ Restart(r) \/ DeleteSession(r) \/ RemoveRuntime(r)
  \/ \E missing \in BOOLEAN : DeleteEmpty(r, missing)

Agent(r) ==
  \/ \E k \in Attempt : Exit(r, k) \/ SpawnError(r, k) \/ KillTimer(r, k)
  \/ ResumeResponse(r) \/ Line(r)

Next ==
  \/ StoreWrite
  \/ \E r \in Runners :
       \/ Timers(r) \/ Requests(r) \/ Agent(r)
       \/ \E subscribed \in BOOLEAN : WatchdogTick(r, subscribed)
       \/ Reap(r)
  \/ Reload
  \/ Crash

Spec == Init /\ [][Next]_vars

\* The store answers, timers fire, a failed spawn is reported and a killed
\* process exits.  Clients and healthy agents owe nothing.
Fairness ==
  /\ WF_vars(StoreWrite)
  /\ \A r \in Runners :
       /\ WF_vars(DebounceElapses(r)) /\ WF_vars(DeferredStart(r))
       /\ WF_vars(RestartTimer(r)) /\ WF_vars(ResumeTimer(r))
       /\ \A k \in Attempt :
            /\ WF_vars(KillTimer(r, k)) /\ WF_vars(SpawnError(r, k))
            /\ WF_vars(process[r][k].os = "killed" /\ Exit(r, k))

FairSpec == Spec /\ Fairness

-----------------------------------------------------------------------------
(* Properties *)

OsState == {"unborn", "alive", "failing", "killed", "dead"}
TimerState == {"none", "armed", "inert"}
WriteOp == {"starting", "running", "launchFailed", "stopped", "dead", "error", "delete"}
Outcome == {"new", "starting", "held", "delivered", "refused", "dropped"}
Caller == Commands \cup Tag
StartOf == 0..MaxStarts

RunnerType ==
  [registered : BOOLEAN, proc : StartOf, startCount : StartOf, recent : BOOLEAN,
   startTimer : TimerState, restartTimer : BOOLEAN, removing : BOOLEAN,
   resumeId : StartOf, resumeTimer : BOOLEAN, resumeQueue : Seq(Commands),
   sessionRef : BOOLEAN, watchdogOk : BOOLEAN, unanswered : 0..2]

ProcessType ==
  [os : OsState, onExit : {"runner", "stop"}, killTimer : TimerState,
   reader : BOOLEAN, stdin : Seq(Commands \cup StartupCommand)]

UpdateType == [op : WriteOp, r : Runners, k : StartOf, then : Caller]

RowType ==
  [present : BOOLEAN, desired : {"stopped", "running"}, startCount : StartOf,
   status : {"stopped", "starting", "running", "dead", "interrupted"}]

\* Every part of the manager's state has its shape.
TypeOK ==
  /\ runner \in [Runners -> RunnerType]
  /\ process \in [Runners -> [Attempt -> ProcessType]]
  /\ writes \in Seq(UpdateType)
  /\ row \in [Runners -> RowType]
  /\ view \in [Runners -> {"none", "pi_started", "pi_exit", "pi_error", "runner_unhealthy"}]
  /\ command \in [Commands -> Outcome]
  /\ returned \subseteq Runners
  /\ reloads \in Nat /\ crashes \in Nat

\* No agent is orphaned: a process no stop has been asked of is the one its
\* runner tracks, so stop, watchdog, reaper and shutdown can all reach it.  Two
\* startRunner calls may both pass the `runner.proc` guard before either has
\* launched; only the respawn debounce, while the store answers within it,
\* keeps the second from launching a process that replaces the first.
NoUntrackedProcess ==
  ~SlowStore =>
    \A r \in Runners, k \in Attempt :
      process[r][k].os = "alive" /\ process[r][k].onExit = "runner" => runner[r].proc = k

\* Once the store has caught up, the persisted row says what the runtime record
\* says: last_status is running for a runner with a process and is neither
\* starting nor running without one, whatever the order in which start, stop,
\* exit, spawn failure and restart wrote it.
StatusAgrees ==
  ~SlowStore =>
    \A r \in Runners :
      (\A i \in 1..Len(writes) : writes[i].r # r) /\ row[r].present =>
        IF runner[r].proc # 0 THEN row[r].status = "running"
                              ELSE row[r].status \notin {"starting", "running"}

\* Nothing about runner r is still on its way.
Settled(r) ==
  /\ \A i \in 1..Len(writes) : writes[i].r # r
  /\ \A k \in Attempt : process[r][k].os \in {"alive", "killed", "failing"} => runner[r].proc = k

\* The last lifecycle event a client saw is true: a late exit of a replaced
\* process never tells it that the replacement is gone, and no death goes unreported.
ClientsAgree ==
  ~SlowStore =>
    \A r \in Runners : Settled(r) =>
      IF runner[r].proc # 0 THEN view[r] = "pi_started"
                            ELSE view[r] \in {"none", "pi_exit", "pi_error"}

\* Where command c was written: runner, process and position in its input.
Places(c) ==
  UNION {{<<r, k, i>> : i \in {j \in 1..Len(process[r][k].stdin) : process[r][k].stdin[j] = c}}
         : r \in Runners, k \in Attempt}

\* Where command c is held.
Holds(c) ==
  UNION {{<<r, i>> : i \in {j \in 1..Len(runner[r].resumeQueue) : runner[r].resumeQueue[j] = c}}
         : r \in Runners}

\* Every client command is accounted for: a delivered one reached one process
\* once, a held one waits in one resume queue once, and one that was refused or
\* dropped by a stop reached no process, across resumes, stops, replacement
\* processes and the safety valve.
DeliveryAccounted ==
  \A c \in Commands :
    /\ \A p, q \in Places(c) : p = q
    /\ \A p, q \in Holds(c) : p = q
    /\ (Places(c) # {}) <=> (command[c] = "delivered")
    /\ (Holds(c) # {}) <=> (command[c] = "held")

\* A command held behind a session resume does not wait forever, whether the
\* response comes, the process dies first or a reload comes between.
HeldCommandsReleased ==
  \A c \in Commands : command[c] = "held" ~> command[c] # "held"

\* stopRunner escalates: a process it signalled is gone in the end, even one
\* that ignores SIGTERM, unless a reload retires the escalation.
StopEscalates ==
  \A r \in Runners, k \in Attempt :
    process[r][k].killTimer = "armed" ~>
      process[r][k].os = "dead" \/ process[r][k].killTimer = "inert"

\* runners.mjs:43: two consecutive silent probes restart the runner.
WatchdogRestarts ==
  \A r \in Runners, n \in 1..(MaxStarts - 1) :
    (view[r] = "runner_unhealthy" /\ runner[r].startCount = n) ~> runner[r].startCount > n

\* runners.mjs:879: while a session resume is in flight commands are delivered
\* after it completes, so none is written ahead of the resume command.
ResumeFirst ==
  \A r \in Runners, k \in Attempt :
    \A i \in 1..Len(process[r][k].stdin) :
      process[r][k].stdin[i] = "switch_session" => i = 1

\* runnerRoutes.mjs:439: only stopped runners can be deleted, so a deleted one
\* leaves no tracked process behind.
DeletedRunnerIsStopped ==
  \A r \in Runners : ~runner[r].registered => runner[r].proc = 0
=============================================================================
