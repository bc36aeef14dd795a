---------------------- MODULE RunnerLifecycle_proofs ----------------------
(* Theorems about RunnerLifecycle, for any runners, commands and bounds. *)
EXTENDS RunnerLifecycle, TLAPS

-----------------------------------------------------------------------------
(* Type correctness *)

\* Marking commands with an outcome keeps the ledger of outcomes well formed.
LEMMA MarkType ==
  ASSUME TypeOK, NEW cs, NEW outcome \in Outcome
  PROVE  Mark(cs, outcome) \in [Commands -> Outcome]
BY DEF TypeOK, Mark

\* Issuing an update keeps the store's queue well formed.
LEMMA AppendType ==
  ASSUME NEW q \in Seq(UpdateType), NEW o \in WriteOp, NEW r \in Runners,
         NEW k \in StartOf, NEW then \in Caller
  PROVE  Append(q, Update(o, r, k, then)) \in Seq(UpdateType)
BY DEF Update, UpdateType

\* Performing the oldest update leaves a queue, and that update is well formed.
LEMMA TailType ==
  ASSUME TypeOK, writes # <<>>
  PROVE  Tail(writes) \in Seq(UpdateType) /\ Head(writes) \in UpdateType
BY DEF TypeOK

\* The record and the processes of a runner.
LEMMA ParameterTypes ==
  ASSUME TypeOK, NEW r \in Runners
  PROVE  /\ runner[r] \in RunnerType
         /\ \A k \in Attempt : process[r][k] \in ProcessType
         /\ row[r] \in RowType
BY DEF TypeOK

\* The answered calls of the restart service are calls about runners.
LEMMA CallReturnsType ==
  ASSUME TypeOK, NEW r \in Runners, NEW then, CallReturns(r, then)
  PROVE  returned' \subseteq Runners
BY DEF TypeOK, CallReturns

\* startRunner up to its first await, from any well-formed runner records.
LEMMA StartRunnerType ==
  ASSUME TypeOK, ConstantsAssumption,
         NEW rs \in [Runners -> RunnerType], NEW r \in Runners, NEW then \in Caller,
         StartRunner(rs, r, then)
  PROVE  TypeOK'
<1>1. UNCHANGED <<process, row, view, reloads, crashes>>
  BY DEF StartRunner
<1>2. returned' \subseteq Runners
  BY CallReturnsType DEF TypeOK, StartRunner
<1>3. rs[r] \in RunnerType
  OBVIOUS
<1>4. CASE rs[r].proc # 0
  BY <1>1, <1>2, <1>4 DEF TypeOK, StartRunner
<1>5. CASE rs[r].proc = 0 /\ Debounced(r)
  <2> DEFINE timer == IF rs[r].startTimer = "none" THEN "armed" ELSE rs[r].startTimer
  <2>1. /\ runner' = [rs EXCEPT ![r].startTimer = timer]
        /\ command' = Mark({then}, "refused")
        /\ writes' = writes
    BY <1>5 DEF StartRunner
  <2>2. [rs[r] EXCEPT !.startTimer = timer] \in RunnerType
    BY <1>3 DEF RunnerType, TimerState
  <2> HIDE DEF timer
  <2>3. runner' \in [Runners -> RunnerType]
    BY <2>1, <2>2
  <2>4. command' \in [Commands -> Outcome]
    BY <2>1, MarkType DEF Outcome
  <2> QED
    BY <1>1, <1>2, <2>1, <2>3, <2>4 DEF TypeOK
<1>6. CASE rs[r].proc = 0 /\ ~Debounced(r)
  <2> DEFINE k == rs[r].startCount + 1
  <2>1. /\ runner' = [rs EXCEPT ![r].recent = TRUE, ![r].startCount = k]
        /\ writes' = Append(writes, Update("starting", r, k, then))
        /\ command' = Mark({then}, "starting")
        /\ rs[r].startCount < MaxStarts
    BY <1>6 DEF StartRunner
  <2>2. rs[r].startCount \in StartOf
    BY <1>3 DEF RunnerType
  <2>3. k \in StartOf
    BY <2>1, <2>2 DEF StartOf, ConstantsAssumption
  <2> HIDE DEF k
  <2>4. [rs[r] EXCEPT !.recent = TRUE, !.startCount = k] \in RunnerType
    BY <1>3, <2>3 DEF RunnerType
  <2>5. runner' \in [Runners -> RunnerType]
    BY <2>1, <2>4
  <2>6. writes' \in Seq(UpdateType)
    BY <2>1, <2>3, AppendType DEF TypeOK, WriteOp
  <2>7. command' \in [Commands -> Outcome]
    BY <2>1, MarkType DEF Outcome
  <2> QED
    BY <1>1, <1>2, <2>5, <2>6, <2>7 DEF TypeOK
<1> QED
  BY <1>4, <1>5, <1>6

\* sendToRunner with a process.
LEMMA DeliverType ==
  ASSUME TypeOK, NEW r \in Runners, NEW c \in Commands, runner[r].proc # 0, Deliver(r, c)
  PROVE  /\ runner' \in [Runners -> RunnerType]
         /\ process' \in [Runners -> [Attempt -> ProcessType]]
         /\ command' \in [Commands -> Outcome]
<1> DEFINE k == runner[r].proc
<1>1. k \in Attempt
  BY ParameterTypes DEF RunnerType, StartOf, Attempt
<1>2. command' \in [Commands -> Outcome]
  BY MarkType DEF Deliver, Outcome
<1>3. CASE runner' = [runner EXCEPT ![r].resumeQueue = Append(@, c)] /\ UNCHANGED process
  <2>1. runner[r] \in RunnerType
    BY ParameterTypes
  <2> DEFINE q == Append(runner[r].resumeQueue, c)
  <2>2. q \in Seq(Commands)
    BY <2>1 DEF RunnerType
  <2>3. runner' = [runner EXCEPT ![r].resumeQueue = q]
    BY <1>3
  <2> HIDE DEF q
  <2>4. [runner[r] EXCEPT !.resumeQueue = q] \in RunnerType
    BY <2>1, <2>2 DEF RunnerType
  <2> QED
    BY <1>2, <1>3, <2>3, <2>4 DEF TypeOK
<1>4. CASE process' = [process EXCEPT ![r][k].stdin = Append(@, c)] /\ UNCHANGED runner
  <2>1. process[r][k] \in ProcessType
    BY <1>1, ParameterTypes
  <2> DEFINE s == Append(process[r][k].stdin, c)
  <2> HIDE DEF k
  <2>2. s \in Seq(Commands \cup StartupCommand)
    BY <2>1 DEF ProcessType
  <2>3. process' = [process EXCEPT ![r][k].stdin = s]
    BY <1>4
  <2> HIDE DEF s
  <2>4. [process[r][k] EXCEPT !.stdin = s] \in ProcessType
    BY <2>1, <2>2 DEF ProcessType
  <2>5. process' \in [Runners -> [Attempt -> ProcessType]]
    BY <1>1, <2>3, <2>4 DEF TypeOK
  <2> QED
    BY <1>2, <1>4, <2>5 DEF TypeOK
<1>5. CASE UNCHANGED <<runner, process>>
  BY <1>2, <1>5 DEF TypeOK
<1> QED
  BY <1>3, <1>4, <1>5 DEF Deliver

\* sendToRunner once the startRunner call it made has returned.
LEMMA AfterStartType ==
  ASSUME TypeOK, NEW r \in Runners, NEW then \in Caller, AfterStart(r, then)
  PROVE  /\ runner' \in [Runners -> RunnerType]
         /\ process' \in [Runners -> [Attempt -> ProcessType]]
         /\ command' \in [Commands -> Outcome]
<1>1. CASE then \in Commands /\ runner[r].proc # 0 /\ Deliver(r, then)
  BY <1>1, DeliverType
<1>2. CASE command' = Mark({then}, "refused") /\ UNCHANGED <<runner, process>>
  <2>1. command' \in [Commands -> Outcome]
    BY <1>2, MarkType DEF Outcome
  <2> QED
    BY <1>2, <2>1 DEF TypeOK
<1> QED
  BY <1>1, <1>2 DEF AfterStart

\* A record whose resume is over.
LEMMA ResumeOverType ==
  ASSUME NEW x \in RunnerType, NEW k \in StartOf, NEW q \in Seq(Commands)
  PROVE  [x EXCEPT !.resumeId = k, !.resumeTimer = FALSE, !.resumeQueue = q] \in RunnerType
BY DEF RunnerType

\* finishResume.
LEMMA FinishResumeType ==
  ASSUME TypeOK, ConstantsAssumption, NEW r \in Runners, FinishResume(r)
  PROVE  /\ runner' \in [Runners -> RunnerType]
         /\ process' \in [Runners -> [Attempt -> ProcessType]]
         /\ command' \in [Commands -> Outcome]
<1> DEFINE k == runner[r].proc
           flushed == k # 0 /\ process[r][k].os = "alive"
           x == [runner[r] EXCEPT !.resumeId = 0, !.resumeTimer = FALSE, !.resumeQueue = <<>>]
<1>1. runner' \in [Runners -> RunnerType]
  <2>0. runner[r] \in RunnerType /\ 0 \in StartOf /\ <<>> \in Seq(Commands)
    BY ParameterTypes DEF StartOf, ConstantsAssumption
  <2>1. x \in RunnerType
    BY <2>0, ResumeOverType
  <2>2. runner' = [runner EXCEPT ![r] = x]
    BY DEF FinishResume, TypeOK
  <2> QED
    BY <2>1, <2>2 DEF TypeOK
<1>2. command' \in [Commands -> Outcome]
  BY MarkType DEF FinishResume, Outcome
<1>3. CASE flushed
  <2>1. k \in Attempt
    BY <1>3, ParameterTypes DEF RunnerType, StartOf, Attempt
  <2>2. process' = [process EXCEPT ![r][k].stdin = @ \o runner[r].resumeQueue]
    BY <1>3 DEF FinishResume
  <2>3. runner[r].resumeQueue \in Seq(Commands)
    BY ParameterTypes DEF RunnerType
  <2>4. [process[r][k] EXCEPT !.stdin = @ \o runner[r].resumeQueue] \in ProcessType
    <3>1. process[r][k] \in ProcessType /\ process[r][k].stdin \in Seq(Commands \cup StartupCommand)
      BY <2>1, ParameterTypes DEF ProcessType
    <3>2. runner[r].resumeQueue \in Seq(Commands \cup StartupCommand)
      BY <2>3
    <3>3. process[r][k].stdin \o runner[r].resumeQueue \in Seq(Commands \cup StartupCommand)
      BY <3>1, <3>2
    <3> HIDE DEF k
    <3> QED
      BY <3>1, <3>3 DEF ProcessType
  <2> HIDE DEF k
  <2> QED
    BY <1>1, <1>2, <2>1, <2>2, <2>4 DEF TypeOK
<1>4. CASE ~flushed
  BY <1>1, <1>2, <1>4 DEF FinishResume, TypeOK
<1> QED
  BY <1>3, <1>4

\* startRunner launches.
LEMMA LaunchType ==
  ASSUME TypeOK, NEW r \in Runners, NEW k \in StartOf, NEW then \in Caller,
         writes # <<>>, UNCHANGED <<reloads, crashes>>, Launch(r, k, then)
  PROVE  TypeOK'
<1>1. row' \in [Runners -> RowType]
  <2>1. [row[r] EXCEPT !.desired = "running", !.status = "starting", !.startCount = k] \in RowType
    BY ParameterTypes DEF RowType
  <2> QED
    BY <2>1 DEF Launch, Patch, TypeOK
<1>2. UNCHANGED <<view, command, returned, reloads, crashes>>
  BY DEF Launch
<1>3. ASSUME NEW os \in {"alive", "failing"},
             runner' = [runner EXCEPT ![r].proc = k],
             process' = [process EXCEPT ![r][k].os = os],
             writes' = Append(Tail(writes), Update("running", r, k, then))
      PROVE  TypeOK'
  <2>1. runner' \in [Runners -> RunnerType]
    <3>1. [runner[r] EXCEPT !.proc = k] \in RunnerType
      BY ParameterTypes DEF RunnerType
    <3> QED
      BY <1>3, <3>1 DEF TypeOK
  <2>2. process' \in [Runners -> [Attempt -> ProcessType]]
    <3>1. ASSUME NEW p \in ProcessType PROVE [p EXCEPT !.os = os] \in ProcessType
      BY DEF ProcessType, OsState
    <3> QED
      BY <1>3, <3>1 DEF TypeOK
  <2>3. writes' \in Seq(UpdateType)
    BY <1>3, TailType, AppendType DEF WriteOp
  <2> QED
    BY <1>1, <1>2, <2>1, <2>2, <2>3 DEF TypeOK
<1>4. CASE /\ writes' = Append(Tail(writes), Update("launchFailed", r, k, then))
           /\ UNCHANGED <<runner, process>>
  <2>1. writes' \in Seq(UpdateType)
    BY <1>4, TailType, AppendType DEF WriteOp
  <2> QED
    BY <1>1, <1>2, <1>4, <2>1 DEF TypeOK
<1> QED
  BY <1>3, <1>4 DEF Launch

\* A launch that threw.
LEMMA LaunchFailedType ==
  ASSUME TypeOK, NEW r \in Runners, NEW then \in Caller,
         writes # <<>>, UNCHANGED <<reloads, crashes>>, LaunchFailed(r, then)
  PROVE  TypeOK'
<1>1. row' \in [Runners -> RowType]
  <2>1. [row[r] EXCEPT !.status = "dead"] \in RowType
    BY ParameterTypes DEF RowType
  <2> QED
    BY <2>1 DEF LaunchFailed, Patch, TypeOK
<1>2. writes' \in Seq(UpdateType)
  BY TailType DEF LaunchFailed
<1>3. returned' \subseteq Runners
  BY CallReturnsType DEF LaunchFailed
<1> QED
  BY <1>1, <1>2, <1>3, AfterStartType DEF LaunchFailed, TypeOK

\* A record whose process has started.
LEMMA StartedType ==
  ASSUME NEW x \in RunnerType, NEW n \in 0..2, NEW k \in StartOf, NEW valve \in BOOLEAN,
         NEW q \in Seq(Commands)
  PROVE  [x EXCEPT !.watchdogOk = TRUE, !.unanswered = n, !.resumeId = k,
                   !.resumeTimer = valve, !.resumeQueue = q] \in RunnerType
BY DEF RunnerType

\* startRunner after its last await.
LEMMA StartupType ==
  ASSUME TypeOK, ConstantsAssumption, NEW r \in Runners, NEW k \in StartOf, NEW then \in Caller,
         Startup(r, k, then)
  PROVE  /\ runner' \in [Runners -> RunnerType]
         /\ process' \in [Runners -> [Attempt -> ProcessType]]
         /\ command' \in [Commands -> Outcome]
<1> DEFINE resumes == runner[r].sessionRef
           held == resumes /\ then \in Commands
           startup == <<IF resumes THEN "switch_session" ELSE "get_state">>
           input == IF then \in Commands /\ ~resumes THEN Append(startup, then) ELSE startup
           writable == process[r][k].os = "alive"
           id == IF resumes THEN k ELSE 0
           valve == resumes \/ runner[r].resumeTimer
           queue == IF held THEN Append(runner[r].resumeQueue, then) ELSE runner[r].resumeQueue
<1>0. runner[r] \in RunnerType
  BY ParameterTypes
<1>1. runner' = [runner EXCEPT ![r].watchdogOk = TRUE, ![r].unanswered = 0, ![r].resumeId = id,
                               ![r].resumeTimer = valve, ![r].resumeQueue = queue]
  BY DEF Startup, SafetyValve
<1>2. id \in StartOf /\ valve \in BOOLEAN /\ queue \in Seq(Commands)
  <2>1. 0 \in StartOf
    BY DEF StartOf, ConstantsAssumption
  <2>2. runner[r].resumeQueue \in Seq(Commands)
    BY <1>0 DEF RunnerType
  <2>3. queue \in Seq(Commands)
    BY <2>2
  <2> QED
    BY <2>1, <2>3
<1>3. runner' \in [Runners -> RunnerType]
  <2> HIDE DEF id, valve, queue
  <2>1. [runner[r] EXCEPT !.watchdogOk = TRUE, !.unanswered = 0, !.resumeId = id,
                          !.resumeTimer = valve, !.resumeQueue = queue] \in RunnerType
    <3>1. 0 \in 0..2
      OBVIOUS
    <3> QED
      BY <1>0, <1>2, <3>1, StartedType
  <2> QED
    BY <1>1, <2>1 DEF TypeOK
<1>4. input \in Seq(Commands \cup StartupCommand)
  <2>1. startup \in Seq(Commands \cup StartupCommand)
    BY DEF StartupCommand
  <2> HIDE DEF startup
  <2> QED
    BY <2>1
<1>5. process' \in [Runners -> [Attempt -> ProcessType]]
  <2> HIDE DEF input, writable
  <2>1. process' = [process EXCEPT ![r][k].reader = TRUE,
                                   ![r][k].stdin = IF writable THEN @ \o input ELSE @]
    BY DEF Startup, input, writable, startup, resumes
  <2> DEFINE s == IF writable THEN process[r][k].stdin \o input ELSE process[r][k].stdin
  <2>2. process' = [process EXCEPT ![r][k].reader = TRUE, ![r][k].stdin = s]
    BY <2>1
  <2>3. CASE k \in Attempt
    <3>1. process[r][k] \in ProcessType
      BY <2>3, ParameterTypes
    <3>2. process[r][k].stdin \in Seq(Commands \cup StartupCommand)
      BY <3>1 DEF ProcessType
    <3>3. s \in Seq(Commands \cup StartupCommand)
      BY <1>4, <3>2
    <3> HIDE DEF s
    <3>4. [process[r][k] EXCEPT !.reader = TRUE, !.stdin = s] \in ProcessType
      BY <3>1, <3>3 DEF ProcessType
    <3> QED
      BY <2>2, <2>3, <3>4 DEF TypeOK
  <2>4. CASE k \notin Attempt
    <3> HIDE DEF s
    <3> QED
      BY <2>2, <2>4 DEF TypeOK
  <2> QED
    BY <2>3, <2>4
<1>6. command' \in [Commands -> Outcome]
  BY MarkType DEF Startup, Outcome
<1> QED
  BY <1>3, <1>5, <1>6

\* The store's answer to status running.
LEMMA RunningType ==
  ASSUME TypeOK, ConstantsAssumption, NEW r \in Runners, NEW k \in StartOf, NEW then \in Caller,
         writes # <<>>, UNCHANGED <<reloads, crashes>>, Running(r, k, then)
  PROVE  TypeOK'
<1>1. row' \in [Runners -> RowType]
  <2>1. [row[r] EXCEPT !.status = "running"] \in RowType
    BY ParameterTypes DEF RowType
  <2> QED
    BY <2>1 DEF Running, Patch, TypeOK
<1>2. writes' \in Seq(UpdateType)
  BY TailType DEF Running
<1>3. returned' \subseteq Runners
  BY CallReturnsType DEF Running
<1>4. view' \in [Runners -> {"none", "pi_started", "pi_exit", "pi_error", "runner_unhealthy"}]
  BY DEF Running, TypeOK
<1>5. UNCHANGED <<reloads, crashes>>
  OBVIOUS
<1> QED
  BY <1>1, <1>2, <1>3, <1>4, <1>5, StartupType, AfterStartType DEF Running, TypeOK

\* The store's answer to stopRunner.
LEMMA StoppedType ==
  ASSUME TypeOK, ConstantsAssumption, NEW r \in Runners, NEW k \in StartOf, NEW then \in Caller,
         writes # <<>>, UNCHANGED <<reloads, crashes>>, Stopped(r, k, then)
  PROVE  TypeOK'
<1> DEFINE called == [runner EXCEPT ![r].startTimer = "none",
                                    ![r].restartTimer = @ \/ then = "restart",
                                    ![r].removing = @ \/ then = "remove"]
<1>1. row' \in [Runners -> RowType]
  <2>1. [row[r] EXCEPT !.desired = "stopped", !.status = "stopped"] \in RowType
    BY ParameterTypes DEF RowType
  <2> QED
    BY <2>1 DEF Stopped, Patch, TypeOK
<1>2. writes' \in Seq(UpdateType)
  BY TailType DEF Stopped
<1>3. returned' \subseteq Runners
  BY CallReturnsType DEF Stopped
<1>4. UNCHANGED <<view, reloads, crashes>>
  BY DEF Stopped
<1>5. called \in [Runners -> RunnerType]
  <2>1. ASSUME NEW x \in RunnerType
        PROVE  [x EXCEPT !.startTimer = "none", !.restartTimer = @ \/ then = "restart",
                         !.removing = @ \/ then = "remove"] \in RunnerType
    BY DEF RunnerType, TimerState
  <2> QED
    BY <2>1 DEF TypeOK
<1>6. CASE k = 0 /\ runner' = called /\ UNCHANGED <<process, command>>
  <2> HIDE DEF called
  <2> QED
    BY <1>1, <1>2, <1>3, <1>4, <1>5, <1>6 DEF TypeOK
<1>7. CASE k # 0
  <2>1. /\ runner' = [called EXCEPT ![r].proc = 0, ![r].resumeId = 0,
                                    ![r].resumeTimer = FALSE, ![r].resumeQueue = <<>>]
        /\ process' = IF process[r][k].os = "alive"
                      THEN [process EXCEPT ![r][k].onExit = "stop", ![r][k].killTimer = "armed"]
                      ELSE process
        /\ command' = Mark(QueueOf(r), "dropped")
    BY <1>7 DEF Stopped
  <2>2. runner' \in [Runners -> RunnerType]
    <3> HIDE DEF called
    <3>1. 0 \in StartOf /\ <<>> \in Seq(Commands)
      BY DEF StartOf, ConstantsAssumption
    <3>2. [called[r] EXCEPT !.proc = 0] \in RunnerType
      BY <1>5, <3>1 DEF RunnerType
    <3>3. [[called[r] EXCEPT !.proc = 0] EXCEPT !.resumeId = 0, !.resumeTimer = FALSE,
                                               !.resumeQueue = <<>>] \in RunnerType
      BY <3>1, <3>2, ResumeOverType
    <3>4. runner' = [called EXCEPT ![r] = [[called[r] EXCEPT !.proc = 0] EXCEPT
                       !.resumeId = 0, !.resumeTimer = FALSE, !.resumeQueue = <<>>]]
      BY <1>5, <2>1
    <3> QED
      BY <1>5, <3>3, <3>4
  <2>3. process' \in [Runners -> [Attempt -> ProcessType]]
    <3>1. ASSUME NEW x \in ProcessType
          PROVE  [x EXCEPT !.onExit = "stop", !.killTimer = "armed"] \in ProcessType
      BY DEF ProcessType, TimerState
    <3>2. [process EXCEPT ![r][k].onExit = "stop", ![r][k].killTimer = "armed"]
            \in [Runners -> [Attempt -> ProcessType]]
      BY <3>1 DEF TypeOK
    <3> QED
      BY <2>1, <3>2 DEF TypeOK
  <2>4. command' \in [Commands -> Outcome]
    BY <2>1, MarkType DEF Outcome
  <2> HIDE DEF called
  <2> QED
    BY <1>1, <1>2, <1>3, <1>4, <2>2, <2>3, <2>4 DEF TypeOK
<1> QED
  BY <1>6, <1>7 DEF Stopped

\* The store performs its oldest update, whichever it is.
LEMMA StoreWriteType ==
  ASSUME TypeOK, ConstantsAssumption, StoreWrite
  PROVE  TypeOK'
<1> DEFINE w == Head(writes)
<1>1. w \in UpdateType /\ Tail(writes) \in Seq(UpdateType) /\ writes # <<>>
  BY TailType DEF StoreWrite
<1>2. w.r \in Runners /\ w.k \in StartOf /\ w.then \in Caller
  BY <1>1 DEF UpdateType
<1>3. UNCHANGED <<reloads, crashes>>
  BY DEF StoreWrite
<1>4. [row[w.r] EXCEPT !.status = "dead"] \in RowType
  BY <1>2, ParameterTypes DEF RowType
<1> HIDE DEF w
<1>5. CASE Launch(w.r, w.k, w.then)
  BY <1>1, <1>2, <1>3, <1>5, LaunchType
<1>6. CASE LaunchFailed(w.r, w.then)
  BY <1>1, <1>2, <1>3, <1>6, LaunchFailedType
<1>7. CASE Running(w.r, w.k, w.then)
  BY <1>1, <1>2, <1>3, <1>7, RunningType
<1>8. CASE Stopped(w.r, w.k, w.then)
  BY <1>1, <1>2, <1>3, <1>8, StoppedType
<1>9. CASE Died(w.r)
  BY <1>1, <1>2, <1>3, <1>4, <1>9 DEF Died, Patch, TypeOK
<1>10. CASE SpawnFailed(w.r)
  BY <1>1, <1>2, <1>3, <1>4, <1>10 DEF SpawnFailed, Patch, TypeOK
<1>11. CASE Deleted(w.r)
  <2>1. [row[w.r] EXCEPT !.present = FALSE] \in RowType
    BY <1>2, ParameterTypes DEF RowType
  <2>2. runner[w.r] \in RunnerType
    BY <1>2, ParameterTypes
  <2>3. [runner[w.r] EXCEPT !.registered = FALSE] \in RunnerType
    BY <2>2 DEF RunnerType
  <2> QED
    BY <1>1, <1>2, <1>3, <1>11, <2>1, <2>3 DEF Deleted, TypeOK
<1> QED
  BY <1>5, <1>6, <1>7, <1>8, <1>9, <1>10, <1>11 DEF StoreWrite, w

\* The timers of a runner.
LEMMA TimersType ==
  ASSUME TypeOK, ConstantsAssumption, NEW r \in Runners, Timers(r)
  PROVE  TypeOK'
<1>0. runner[r] \in RunnerType
  BY ParameterTypes
<1>1. CASE DebounceElapses(r)
  <2>1. [runner[r] EXCEPT !.recent = FALSE] \in RunnerType
    BY <1>0 DEF RunnerType
  <2> QED
    BY <1>1, <2>1 DEF DebounceElapses, TypeOK
<1>2. CASE DeferredStart(r)
  <2> DEFINE fired == [runner EXCEPT ![r].startTimer = "none"]
  <2>1. [runner[r] EXCEPT !.startTimer = "none"] \in RunnerType
    BY <1>0 DEF RunnerType, TimerState
  <2>2. fired \in [Runners -> RunnerType]
    BY <2>1 DEF TypeOK
  <2>3. CASE StartRunner(fired, r, "none")
    BY <2>2, <2>3, StartRunnerType DEF Caller, Tag
  <2>4. CASE runner' = fired /\ UNCHANGED <<process, writes, row, view, command, returned, reloads, crashes>>
    BY <2>2, <2>4 DEF TypeOK
  <2> QED
    BY <1>2, <2>3, <2>4 DEF DeferredStart
<1>3. CASE RestartTimer(r)
  <2> DEFINE fired == [runner EXCEPT ![r].restartTimer = FALSE]
  <2>1. [runner[r] EXCEPT !.restartTimer = FALSE] \in RunnerType
    BY <1>0 DEF RunnerType
  <2>2. fired \in [Runners -> RunnerType]
    BY <2>1 DEF TypeOK
  <2>3. CASE StartRunner(fired, r, "none")
    BY <2>2, <2>3, StartRunnerType DEF Caller, Tag
  <2>4. CASE runner' = fired /\ UNCHANGED <<process, writes, row, view, command, returned, reloads, crashes>>
    BY <2>2, <2>4 DEF TypeOK
  <2> QED
    BY <1>3, <2>3, <2>4 DEF RestartTimer
<1>4. CASE ResumeTimer(r)
  <2>1. CASE FinishResume(r)
    BY <1>4, <2>1, FinishResumeType DEF ResumeTimer, TypeOK
  <2>2. CASE runner' = [runner EXCEPT ![r].resumeTimer = FALSE] /\ UNCHANGED <<process, command>>
    <3>1. [runner[r] EXCEPT !.resumeTimer = FALSE] \in RunnerType
      BY <1>0 DEF RunnerType
    <3> QED
      BY <1>4, <2>2, <3>1 DEF ResumeTimer, TypeOK
  <2> QED
    BY <1>4, <2>1, <2>2 DEF ResumeTimer
<1> QED
  BY <1>1, <1>2, <1>3, <1>4 DEF Timers

\* What the agent process does, and what its signals do to it.
LEMMA AgentType ==
  ASSUME TypeOK, ConstantsAssumption, NEW r \in Runners, Agent(r)
  PROVE  TypeOK'
<1>0. runner[r] \in RunnerType /\ "none" \in Caller
  BY ParameterTypes DEF Caller, Tag
<1>1. ASSUME NEW k \in Attempt, Exit(r, k)
      PROVE  TypeOK'
  <2>1. process' \in [Runners -> [Attempt -> ProcessType]]
    <3>1. process[r][k] \in ProcessType
      BY ParameterTypes
    <3>2. [process[r][k] EXCEPT !.os = "dead", !.killTimer = "none"] \in ProcessType
      BY <3>1 DEF ProcessType, OsState, TimerState
    <3>3. process' = [process EXCEPT ![r][k].os = "dead", ![r][k].killTimer = "none"]
      BY <1>1 DEF Exit
    <3> QED
      BY <3>2, <3>3 DEF TypeOK
  <2>2. k \in StartOf
    BY DEF StartOf, Attempt, ConstantsAssumption
  <2>3. CASE /\ runner' = [runner EXCEPT ![r].proc = 0]
             /\ writes' = Append(writes, Update("dead", r, k, "none"))
             /\ UNCHANGED view
    <3>1. 0 \in StartOf
      BY DEF StartOf, ConstantsAssumption
    <3>2. [runner[r] EXCEPT !.proc = 0] \in RunnerType
      BY <1>0, <3>1 DEF RunnerType
    <3>3. runner' \in [Runners -> RunnerType]
      BY <2>3, <3>2 DEF TypeOK
    <3>4. writes' \in Seq(UpdateType)
      BY <1>0, <2>2, <2>3, AppendType DEF TypeOK, WriteOp
    <3> QED
      BY <1>1, <2>1, <2>3, <3>3, <3>4 DEF Exit, TypeOK
  <2>4. CASE UNCHANGED <<runner, writes, view>>
    BY <1>1, <2>1, <2>4 DEF Exit, TypeOK
  <2>5. CASE /\ view' = IF StaleExit(r) THEN view ELSE [view EXCEPT ![r] = "pi_exit"]
             /\ UNCHANGED <<runner, writes>>
    BY <1>1, <2>1, <2>5 DEF Exit, TypeOK
  <2> QED
    BY <1>1, <2>3, <2>4, <2>5 DEF Exit
<1>2. ASSUME NEW k \in Attempt, SpawnError(r, k)
      PROVE  TypeOK'
  <2>1. process' \in [Runners -> [Attempt -> ProcessType]]
    <3>1. [process[r][k] EXCEPT !.os = "dead"] \in ProcessType
      BY ParameterTypes DEF ProcessType, OsState
    <3> QED
      BY <1>2, <3>1 DEF SpawnError, TypeOK
  <2>2. k \in StartOf /\ 0 \in StartOf
    BY DEF StartOf, Attempt, ConstantsAssumption
  <2>3. [runner[r] EXCEPT !.proc = IF @ = k THEN 0 ELSE @] \in RunnerType
    BY <1>0, <2>2 DEF RunnerType
  <2>4. runner' \in [Runners -> RunnerType]
    BY <1>2, <2>3 DEF SpawnError, TypeOK
  <2>5. writes' \in Seq(UpdateType)
    BY <1>0, <1>2, <2>2, AppendType DEF SpawnError, TypeOK, WriteOp
  <2> QED
    BY <1>2, <2>1, <2>4, <2>5 DEF SpawnError, TypeOK
<1>3. ASSUME NEW k \in Attempt, KillTimer(r, k)
      PROVE  TypeOK'
  <2>1. [process[r][k] EXCEPT !.killTimer = "none", !.os = IF @ = "alive" THEN "killed" ELSE @]
          \in ProcessType
    BY ParameterTypes DEF ProcessType, OsState, TimerState
  <2> QED
    BY <1>3, <2>1 DEF KillTimer, TypeOK
<1>4. CASE ResumeResponse(r)
  BY <1>4, FinishResumeType DEF ResumeResponse, TypeOK
<1>5. CASE Line(r)
  <2>1. PICK tells \in BOOLEAN :
          runner' = [runner EXCEPT ![r].unanswered = 0, ![r].sessionRef = @ \/ tells]
    BY <1>5 DEF Line
  <2>2. ASSUME NEW n \in 0..2
        PROVE  [runner[r] EXCEPT !.unanswered = n, !.sessionRef = @ \/ tells] \in RunnerType
    BY <1>0 DEF RunnerType
  <2>3. 0 \in 0..2
    OBVIOUS
  <2> QED
    BY <1>5, <2>1, <2>2, <2>3 DEF Line, TypeOK
<1> QED
  BY <1>1, <1>2, <1>3, <1>4, <1>5 DEF Agent

\* stopRunner up to its first await.
LEMMA StopRunnerType ==
  ASSUME TypeOK, NEW r \in Runners, NEW then \in Caller, StopRunner(r, then)
  PROVE  writes' \in Seq(UpdateType)
<1>1. runner[r].proc \in StartOf
  BY ParameterTypes DEF RunnerType
<1> QED
  BY <1>1, AppendType DEF StopRunner, TypeOK, WriteOp

\* The clients' requests and what follows from them.
LEMMA RequestsType ==
  ASSUME TypeOK, ConstantsAssumption, NEW r \in Runners, Requests(r)
  PROVE  TypeOK'
<1>0. runner[r] \in RunnerType /\ Tag \subseteq Caller /\ Commands \subseteq Caller
  BY ParameterTypes DEF Caller
<1>1. ASSUME NEW c \in Commands, Send(r, c)
      PROVE  TypeOK'
  <2>1. CASE StartRunner(runner, r, c)
    BY <1>0, <2>1, StartRunnerType DEF TypeOK
  <2>2. CASE /\ runner[r].proc # 0
             /\ Deliver(r, c)
             /\ UNCHANGED <<writes, row, view, returned, reloads, crashes>>
    BY <2>2, DeliverType DEF TypeOK
  <2> QED
    BY <1>1, <2>1, <2>2 DEF Send
<1>2. ASSUME NEW then \in {"none", "restart", "remove"}, StopRunner(r, then),
             UNCHANGED <<runner, process, row, view, command, returned, reloads, crashes>>
      PROVE  TypeOK'
  <2>1. then \in Caller
    BY <1>0 DEF Tag
  <2> QED
    BY <1>2, <2>1, StopRunnerType DEF TypeOK
<1>3. CASE RemoveRuntime(r)
  <2>1. [runner[r] EXCEPT !.registered = FALSE, !.removing = FALSE] \in RunnerType
    BY <1>0 DEF RunnerType
  <2>2. [row[r] EXCEPT !.present = FALSE] \in RowType
    BY ParameterTypes DEF RowType
  <2> QED
    BY <1>3, <2>1, <2>2 DEF RemoveRuntime, TypeOK
<1>4. ASSUME NEW missing \in BOOLEAN, DeleteEmpty(r, missing)
      PROVE  TypeOK'
  <2>1. 0 \in StartOf /\ "none" \in Caller
    BY <1>0 DEF StartOf, ConstantsAssumption, Tag
  <2>2. writes' \in Seq(UpdateType)
    BY <1>4, <2>1, AppendType DEF DeleteEmpty, TypeOK, WriteOp
  <2> QED
    BY <1>4, <2>2 DEF DeleteEmpty, TypeOK
<1> QED
  BY <1>1, <1>2, <1>3, <1>4 DEF Requests, Stop, Restart, DeleteSession

\* The periodic tasks.
LEMMA PeriodicType ==
  ASSUME TypeOK, ConstantsAssumption, NEW r \in Runners,
         Reap(r) \/ \E subscribed \in BOOLEAN : WatchdogTick(r, subscribed)
  PROVE  TypeOK'
<1>0. runner[r] \in RunnerType /\ "none" \in Caller
  BY ParameterTypes DEF Caller, Tag
<1>1. CASE Reap(r)
  BY <1>0, <1>1, StopRunnerType DEF Reap, TypeOK
<1>2. ASSUME NEW subscribed \in BOOLEAN, WatchdogTick(r, subscribed)
      PROVE  TypeOK'
  <2>1. ASSUME NEW n \in 0..2
        PROVE  [runner EXCEPT ![r].unanswered = n] \in [Runners -> RunnerType]
    <3>1. [runner[r] EXCEPT !.unanswered = n] \in RunnerType
      BY <1>0 DEF RunnerType
    <3> QED
      BY <3>1 DEF TypeOK
  <2>2. runner[r].unanswered \in 0..2
    BY <1>0 DEF RunnerType
  <2>3. runner' \in [Runners -> RunnerType]
    <3>1. CASE runner' = [runner EXCEPT ![r].unanswered = 0]
      <4>1. 0 \in 0..2
        OBVIOUS
      <4> QED
        BY <2>1, <3>1, <4>1
    <3>2. CASE runner' = [runner EXCEPT ![r].unanswered = @ + 1] /\ runner[r].unanswered < MaxMisses
      <4>1. runner[r].unanswered + 1 \in 0..2
        BY <2>2, <3>2 DEF MaxMisses
      <4> QED
        BY <2>1, <3>2, <4>1
    <3> QED
      BY <1>2, <3>1, <3>2 DEF WatchdogTick
  <2>4. writes' \in Seq(UpdateType) /\ view' \in [Runners -> {"none", "pi_started", "pi_exit", "pi_error", "runner_unhealthy"}]
    BY <1>0, <1>2, StopRunnerType DEF WatchdogTick, TypeOK
  <2> QED
    BY <1>2, <2>3, <2>4 DEF WatchdogTick, TypeOK
<1> QED
  BY <1>1, <1>2

\* A hot reload, and a crash of the server.
LEMMA ReloadType ==
  ASSUME TypeOK, Reload
  PROVE  TypeOK'
<1>1. \A x \in RunnerType : [x EXCEPT !.startTimer = Inert(@)] \in RunnerType
  BY DEF RunnerType, Inert, TimerState
<1>2. \A x \in ProcessType : [x EXCEPT !.killTimer = Inert(@)] \in ProcessType
  BY DEF ProcessType, Inert, TimerState
<1> QED
  BY <1>1, <1>2 DEF Reload, TypeOK

\* A runner as it is restored is well formed.
LEMMA RestoredType ==
  ASSUME ConstantsAssumption, NEW known \in BOOLEAN, NEW n \in StartOf, NEW ref \in BOOLEAN
  PROVE  Restored(known, n, ref) \in RunnerType
<1>1. 0 \in StartOf /\ <<>> \in Seq(Commands) /\ 0 \in 0..2
  BY DEF StartOf, ConstantsAssumption
<1> QED
  BY <1>1 DEF Restored, RunnerType, TimerState

\* A crash of the server, and the manager restored after it.
LEMMA CrashType ==
  ASSUME TypeOK, ConstantsAssumption, Crash
  PROVE  TypeOK'
<1>1. \A x \in RowType : Interrupted(x) \in RowType
  BY DEF RowType, Interrupted
<1>2. row' \in [Runners -> RowType]
  BY <1>1 DEF Crash, TypeOK
<1>3. runner' \in [Runners -> RunnerType]
  <2>1. ASSUME NEW r \in Runners
        PROVE  /\ row[r].present \in BOOLEAN /\ row[r].startCount \in StartOf
               /\ runner[r].sessionRef \in BOOLEAN
    BY ParameterTypes DEF RowType, RunnerType
  <2>2. \A r \in Runners :
          Restored(row[r].present, row[r].startCount, runner[r].sessionRef) \in RunnerType
    BY <2>1, RestoredType
  <2> QED
    BY <2>2 DEF Crash
<1>4. process' \in [Runners -> [Attempt -> ProcessType]]
  <2>1. \A x \in ProcessType : [x EXCEPT !.os = "dead", !.killTimer = "none"] \in ProcessType
    BY DEF ProcessType, OsState, TimerState
  <2> QED
    BY <2>1 DEF Crash, TypeOK
<1>5. command' \in [Commands -> Outcome]
  BY DEF Crash, TypeOK, Outcome
<1>6. writes' \in Seq(UpdateType) /\ crashes' \in Nat /\ reloads' \in Nat /\ returned' \subseteq Runners
  <2>1. <<>> \in Seq(UpdateType)
    OBVIOUS
  <2>2. crashes' = crashes + 1 /\ crashes \in Nat /\ reloads' = reloads /\ reloads \in Nat
    BY DEF Crash, TypeOK
  <2>3. writes' = <<>> /\ returned' = {}
    BY DEF Crash
  <2> QED
    BY <2>1, <2>2, <2>3
<1>7. view' \in [Runners -> {"none", "pi_started", "pi_exit", "pi_error", "runner_unhealthy"}]
  BY DEF Crash
<1> QED
  BY <1>2, <1>3, <1>4, <1>5, <1>6, <1>7 DEF TypeOK

\* The manager starts with well-formed state.
LEMMA InitType ==
  ASSUME ConstantsAssumption, Init
  PROVE  TypeOK
<1>1. runner \in [Runners -> RunnerType]
  <2>1. PICK refs \in [Runners -> BOOLEAN] :
          runner = [r \in Runners |-> Restored(TRUE, 0, refs[r])]
    BY DEF Init
  <2>2. 0 \in StartOf
    BY DEF StartOf, ConstantsAssumption
  <2>3. \A r \in Runners : Restored(TRUE, 0, refs[r]) \in RunnerType
    BY <2>2, RestoredType
  <2> QED
    BY <2>1, <2>3
<1>2. process \in [Runners -> [Attempt -> ProcessType]]
  <2>1. Unborn \in ProcessType
    BY DEF Unborn, ProcessType, OsState, TimerState
  <2> QED
    BY <2>1 DEF Init
<1>3. row \in [Runners -> RowType]
  <2>1. 0 \in StartOf
    BY DEF StartOf, ConstantsAssumption
  <2> QED
    BY <2>1 DEF Init, RowType
<1>4. writes \in Seq(UpdateType)
  <2>1. <<>> \in Seq(UpdateType)
    OBVIOUS
  <2> QED
    BY <2>1 DEF Init
<1> QED
  BY <1>1, <1>2, <1>3, <1>4 DEF Init, TypeOK, Outcome

\* Every step of the manager preserves the types.
LEMMA StepType ==
  ASSUME TypeOK, ConstantsAssumption, [Next]_vars
  PROVE  TypeOK'
<1>1. CASE UNCHANGED vars
  BY <1>1 DEF vars, TypeOK
<1> QED
  BY <1>1, StoreWriteType, TimersType, RequestsType, AgentType, PeriodicType, ReloadType, CrashType
  DEF Next

\* TypeOK is an invariant: every path of runners.mjs leaves well-formed records.
THEOREM TypeCorrect == Spec => []TypeOK
<1>1. Init => TypeOK
  BY InitType, ConstantsAssumption
<1>2. TypeOK /\ [Next]_vars => TypeOK'
  BY StepType, ConstantsAssumption
<1> QED
  BY <1>1, <1>2, PTL DEF Spec
-----------------------------------------------------------------------------
(* No agent is orphaned *)

\* Process k of runner r runs and nothing has asked it to stop.
Live(r, k) == process[r][k].os = "alive" /\ process[r][k].onExit = "runner"

Tracked == \A r \in Runners, k \in Attempt : Live(r, k) => runner[r].proc = k

Waiting == 1..Len(writes)

\* Between the two awaits of startRunner the runner has no process, is debounced
\* and no other start of it waits.
StartsAlone ==
  \A i \in Waiting : writes[i].op = "starting" =>
    /\ runner[writes[i].r].proc = 0 /\ runner[writes[i].r].recent
    /\ \A j \in Waiting : writes[j].op = "starting" /\ writes[j].r = writes[i].r => j = i

\* A waiting stop is about the process its runner still has, if any.
StopsCurrent ==
  \A i \in Waiting : writes[i].op = "stopped" /\ writes[i].k # 0 =>
    runner[writes[i].r].proc \in {0, writes[i].k}

\* A stop that waits behind a start of its runner saw no process.
StopsBehindStart ==
  \A i, j \in Waiting :
    /\ i < j /\ writes[i].op = "starting" /\ writes[j].op = "stopped"
    /\ writes[i].r = writes[j].r
    => writes[j].k = 0

StartsExclude == Tracked /\ StartsAlone /\ StopsCurrent /\ StopsBehindStart

IInv == TypeOK /\ (SlowStore \/ StartsExclude)

\* Every start and stop of the queue q waits in the present queue, d places on.
Carried(q, d) ==
  \A i \in 1..Len(q) : q[i].op \in {"starting", "stopped"} =>
    i + d \in Waiting /\ q[i] = writes[i + d]

\* Issuing an update puts it behind those that wait.
LEMMA AppendElements ==
  ASSUME NEW q \in Seq(UpdateType), NEW w \in UpdateType
  PROVE  /\ Len(Append(q, w)) = Len(q) + 1
         /\ \A i \in 1..Len(q) : Append(q, w)[i] = q[i]
         /\ Append(q, w)[Len(q) + 1] = w
OBVIOUS

\* Performing the oldest update moves the others up.
LEMMA TailElements ==
  ASSUME TypeOK, writes # <<>>
  PROVE  /\ Len(Tail(writes)) = Len(writes) - 1
         /\ \A i \in 1..(Len(writes) - 1) : Tail(writes)[i] = writes[i + 1]
BY DEF TypeOK

\* Performing the oldest update carries the rest of the queue along.
LEMMA CarriedTail ==
  ASSUME TypeOK, writes # <<>>
  PROVE  Carried(Tail(writes), 1)
<1>1. Len(writes) \in Nat
  BY DEF TypeOK
<1> QED
  BY <1>1, TailElements DEF Carried, Waiting

\* An update that is neither a start nor a stop carries the queue along.
LEMMA CarriedAppend ==
  ASSUME TypeOK, NEW q \in Seq(UpdateType), NEW d \in {0, 1}, Carried(q, d),
         NEW o \in WriteOp \ {"starting", "stopped"}, NEW r \in Runners, NEW k \in StartOf,
         NEW then \in Caller
  PROVE  Carried(Append(q, Update(o, r, k, then)), d)
<1> DEFINE w == Update(o, r, k, then)
<1>1. w \in UpdateType /\ w.op = o
  BY DEF Update, UpdateType
<1> HIDE DEF w
<1>2. Len(q) \in Nat
  OBVIOUS
<1>3. ASSUME NEW i \in 1..Len(Append(q, w)), Append(q, w)[i].op \in {"starting", "stopped"}
      PROVE  i + d \in Waiting /\ Append(q, w)[i] = writes[i + d]
  <2>1. i \in 1..Len(q) \/ i = Len(q) + 1
    BY <1>1, <1>2, <1>3, AppendElements
  <2>2. i # Len(q) + 1
    BY <1>1, <1>3, AppendElements
  <2> QED
    BY <1>1, <1>3, <2>1, <2>2, AppendElements DEF Carried
<1> QED
  BY <1>3 DEF Carried, w

\* A step that issues no start or stop, gives no runner a process and ends no
\* debounce while a start waits.
LEMMA QuietQueue ==
  ASSUME TypeOK, StartsAlone, StopsCurrent, StopsBehindStart,
         NEW d \in {0, 1}, writes' \in Seq(UpdateType), Carried(writes', d),
         \A r \in Runners : runner'[r].proc \in {0, runner[r].proc},
         \A r \in Runners : runner[r].recent /\ Pending(r, "starting") => runner'[r].recent
  PROVE  StartsAlone' /\ StopsCurrent' /\ StopsBehindStart'
<1>1. Len(writes) \in Nat /\ Len(writes') \in Nat
  BY DEF TypeOK
<1>2. ASSUME NEW i \in 1..Len(writes'), writes'[i].op \in {"starting", "stopped"}
      PROVE  i + d \in Waiting /\ writes'[i] = writes[i + d] /\ writes[i + d].r \in Runners
  <2>1. i + d \in Waiting /\ writes'[i] = writes[i + d]
    BY <1>2 DEF Carried
  <2>2. writes[i + d] \in UpdateType
    BY <2>1 DEF Waiting, TypeOK
  <2> QED
    BY <2>1, <2>2 DEF UpdateType
<1>3. StartsAlone'
  <2>1. ASSUME NEW i \in Waiting', writes'[i].op = "starting"
        PROVE  /\ runner'[writes'[i].r].proc = 0 /\ runner'[writes'[i].r].recent
               /\ \A j \in Waiting' : writes'[j].op = "starting" /\ writes'[j].r = writes'[i].r => j = i
    <3>1. /\ i + d \in Waiting /\ writes'[i] = writes[i + d] /\ writes[i + d].r \in Runners
          /\ writes[i + d].op = "starting"
      BY <1>2, <2>1 DEF Waiting
    <3>2. Pending(writes[i + d].r, "starting")
      BY <3>1 DEF Pending, Waiting
    <3>3. runner[writes[i + d].r].proc = 0 /\ runner[writes[i + d].r].recent
      BY <3>1 DEF StartsAlone
    <3>4. ASSUME NEW j \in Waiting', writes'[j].op = "starting", writes'[j].r = writes'[i].r
          PROVE  j = i
      <4>1. j + d \in Waiting /\ writes'[j] = writes[j + d]
        BY <1>2, <3>4 DEF Waiting
      <4>2. j + d = i + d
        BY <3>1, <3>4, <4>1 DEF StartsAlone
      <4> QED
        BY <1>1, <4>2 DEF Waiting
    <3>5. runner'[writes[i + d].r].proc = 0 /\ runner'[writes[i + d].r].recent
      <4> DEFINE s == writes[i + d].r
      <4>1. s \in Runners /\ Pending(s, "starting") /\ runner[s].proc = 0 /\ runner[s].recent
        BY <3>1, <3>2, <3>3
      <4> HIDE DEF s
      <4>2. runner'[s].proc = 0 /\ runner'[s].recent
        BY <4>1
      <4> QED
        BY <4>2 DEF s
    <3> QED
      BY <3>1, <3>4, <3>5
  <2> QED
    BY <2>1 DEF StartsAlone
<1>4. StopsCurrent'
  <2>1. ASSUME NEW i \in Waiting', writes'[i].op = "stopped", writes'[i].k # 0
        PROVE  runner'[writes'[i].r].proc \in {0, writes'[i].k}
    <3>1. i + d \in Waiting /\ writes'[i] = writes[i + d] /\ writes[i + d].r \in Runners
      BY <1>2, <2>1 DEF Waiting
    <3>2. runner[writes[i + d].r].proc \in {0, writes[i + d].k}
      BY <2>1, <3>1 DEF StopsCurrent
    <3>3. runner'[writes[i + d].r].proc \in {0, writes[i + d].k}
      <4> DEFINE s == writes[i + d].r
      <4>1. s \in Runners /\ runner[s].proc \in {0, writes[i + d].k}
        BY <3>1, <3>2
      <4> HIDE DEF s
      <4>2. runner'[s].proc \in {0, writes[i + d].k}
        BY <4>1
      <4> QED
        BY <4>2 DEF s
    <3> QED
      BY <3>1, <3>3
  <2> QED
    BY <2>1 DEF StopsCurrent
<1>5. StopsBehindStart'
  <2>1. ASSUME NEW i \in Waiting', NEW j \in Waiting', i < j, writes'[i].op = "starting",
               writes'[j].op = "stopped", writes'[i].r = writes'[j].r
        PROVE  writes'[j].k = 0
    <3>1. /\ i + d \in Waiting /\ writes'[i] = writes[i + d]
          /\ j + d \in Waiting /\ writes'[j] = writes[j + d]
      BY <1>2, <2>1 DEF Waiting
    <3>2. i + d < j + d
      BY <1>1, <2>1 DEF Waiting
    <3> QED
      BY <2>1, <3>1, <3>2 DEF StopsBehindStart
  <2> QED
    BY <2>1 DEF StopsBehindStart
<1> QED
  BY <1>3, <1>4, <1>5

\* stopRunner remembers the process it saw.
LEMMA StopAppended ==
  ASSUME TypeOK, StartsAlone, StopsCurrent, StopsBehindStart,
         NEW r \in Runners, NEW then \in Caller, StopRunner(r, then),
         \A s \in Runners : runner'[s].proc = runner[s].proc /\ runner'[s].recent = runner[s].recent
  PROVE  StartsAlone' /\ StopsCurrent' /\ StopsBehindStart'
<1> DEFINE w == Update("stopped", r, runner[r].proc, then)
           n == Len(writes)
<1>1. w \in UpdateType /\ w.op = "stopped" /\ w.r = r /\ w.k = runner[r].proc
  <2>1. runner[r].proc \in StartOf
    BY ParameterTypes DEF RunnerType
  <2> QED
    BY <2>1 DEF Update, UpdateType, WriteOp
<1>2. writes' = Append(writes, w) /\ writes \in Seq(UpdateType) /\ n \in Nat
  BY DEF StopRunner, TypeOK
<1> HIDE DEF w
<1>3. /\ Len(writes') = n + 1 /\ writes'[n + 1] = w
      /\ \A i \in 1..n : writes'[i] = writes[i] /\ writes[i].r \in Runners
  <2>1. \A i \in 1..n : writes[i] \in UpdateType
    BY <1>2
  <2> QED
    BY <1>1, <1>2, <2>1, AppendElements DEF UpdateType
<1>4. \A i \in Waiting' : i \in Waiting \/ i = n + 1
  BY <1>2, <1>3 DEF Waiting
<1> HIDE DEF n
<1>5. StartsAlone'
  BY <1>1, <1>3, <1>4 DEF StartsAlone, Waiting, n
<1>6. StopsCurrent'
  BY <1>1, <1>3, <1>4 DEF StopsCurrent, Waiting, n
<1>7. StopsBehindStart'
  <2>1. ASSUME NEW i \in Waiting', NEW j \in Waiting', i < j, writes'[i].op = "starting",
               writes'[j].op = "stopped", writes'[i].r = writes'[j].r
        PROVE  writes'[j].k = 0
    <3>1. i # n + 1 /\ i \in Waiting
      BY <1>1, <1>3, <1>4, <2>1
    <3>2. CASE j \in Waiting
      BY <1>3, <2>1, <3>1, <3>2 DEF StopsBehindStart, Waiting, n
    <3>3. CASE j = n + 1
      BY <1>1, <1>3, <2>1, <3>1, <3>3 DEF StartsAlone, Waiting, n
    <3> QED
      BY <1>4, <3>2, <3>3
  <2> QED
    BY <2>1 DEF StopsBehindStart
<1> QED
  BY <1>5, <1>6, <1>7

\* The runners keep their processes and debounces.
SameRunners ==
  \A r \in Runners : runner'[r].proc = runner[r].proc /\ runner'[r].recent = runner[r].recent

\* No process begins to run unasked.
NoNewLive ==
  \A r \in Runners, k \in Attempt :
    process'[r][k].os = "alive" /\ process'[r][k].onExit = "runner" => Live(r, k)

\* A step that touches neither processes' lives, nor which one a runner has, nor
\* the waiting starts and stops.
LEMMA Frame ==
  ASSUME TypeOK, StartsExclude, SameRunners, NoNewLive,
         NEW d \in {0, 1}, writes' \in Seq(UpdateType), Carried(writes', d)
  PROVE  StartsExclude'
<1>1. \A r \in Runners : runner'[r].proc \in {0, runner[r].proc}
  BY DEF SameRunners
<1>2. \A r \in Runners : runner[r].recent /\ Pending(r, "starting") => runner'[r].recent
  BY DEF SameRunners
<1>3. StartsAlone' /\ StopsCurrent' /\ StopsBehindStart'
  BY <1>1, <1>2, QuietQueue DEF StartsExclude
<1>4. Tracked'
  BY DEF SameRunners, NoNewLive, StartsExclude, Tracked, Live
<1> QED
  BY <1>3, <1>4 DEF StartsExclude

\* A queue that is left alone is carried along.
LEMMA UnchangedWrites ==
  ASSUME TypeOK, UNCHANGED writes
  PROVE  writes' \in Seq(UpdateType) /\ Carried(writes', 0)
<1>1. Len(writes) \in Nat /\ writes' = writes /\ writes \in Seq(UpdateType)
  BY DEF TypeOK
<1>2. \A i \in Waiting : i + 0 = i
  BY <1>1 DEF Waiting
<1> QED
  BY <1>1, <1>2 DEF Carried, Waiting

\* startRunner passes its guards only when no start of the runner waits.
LEMMA StartRunnerExcludes ==
  ASSUME TypeOK, ConstantsAssumption, StartsExclude,
         NEW rs \in [Runners -> RunnerType], NEW r \in Runners, NEW then \in Caller,
         \A s \in Runners : rs[s].proc = runner[s].proc /\ rs[s].recent = runner[s].recent,
         StartRunner(rs, r, then)
  PROVE  StartsExclude'
<1>1. NoNewLive
  BY DEF StartRunner, NoNewLive, Live
<1>2. CASE rs[r].proc # 0
  <2>1. SameRunners /\ UNCHANGED writes
    BY <1>2 DEF StartRunner, SameRunners
  <2> QED
    BY <1>1, <2>1, UnchangedWrites, Frame
<1>3. CASE rs[r].proc = 0 /\ Debounced(r)
  <2>1. PICK t : runner' = [rs EXCEPT ![r].startTimer = t]
    BY <1>3 DEF StartRunner
  <2>2. SameRunners
    BY <2>1 DEF SameRunners, RunnerType
  <2>3. UNCHANGED writes
    BY <1>3 DEF StartRunner
  <2> QED
    BY <1>1, <2>2, <2>3, UnchangedWrites, Frame
<1>4. CASE rs[r].proc = 0 /\ ~Debounced(r)
  <2> DEFINE k == rs[r].startCount + 1
             w == Update("starting", r, k, then)
             n == Len(writes)
  <2>1. /\ runner' = [rs EXCEPT ![r].recent = TRUE, ![r].startCount = k]
        /\ writes' = Append(writes, w)
        /\ rs[r].startCount < MaxStarts
    BY <1>4 DEF StartRunner
  <2>2. rs[r].startCount \in StartOf
    BY DEF RunnerType
  <2>3. k \in StartOf
    BY <2>1, <2>2 DEF StartOf, ConstantsAssumption
  <2>4. w \in UpdateType /\ w.op = "starting" /\ w.r = r
    BY <2>3 DEF Update, UpdateType, WriteOp
  <2>5. writes \in Seq(UpdateType) /\ n \in Nat
    BY DEF TypeOK
  <2> HIDE DEF k, w
  <2>6. /\ Len(writes') = n + 1 /\ writes'[n + 1] = w
        /\ \A i \in 1..n : writes'[i] = writes[i] /\ writes[i].r \in Runners
    <3>1. \A i \in 1..n : writes[i] \in UpdateType
      BY <2>5
    <3> QED
      BY <2>1, <2>4, <2>5, <3>1, AppendElements DEF UpdateType
  <2>7. \A i \in Waiting' : i \in Waiting \/ i = n + 1
    BY <2>5, <2>6 DEF Waiting
  <2>8. \A i \in Waiting : ~(writes[i].op = "starting" /\ writes[i].r = r)
    BY <1>4 DEF StartsExclude, StartsAlone, Debounced
  <2>9. /\ \A s \in Runners : runner'[s].proc = runner[s].proc
        /\ \A s \in Runners : runner[s].recent => runner'[s].recent
        /\ runner'[r].proc = 0 /\ runner'[r].recent
    BY <1>4, <2>1 DEF RunnerType
  <2> HIDE DEF n
  <2>10. StartsAlone'
    <3>1. ASSUME NEW i \in Waiting', writes'[i].op = "starting"
          PROVE  /\ runner'[writes'[i].r].proc = 0 /\ runner'[writes'[i].r].recent
                 /\ \A j \in Waiting' : writes'[j].op = "starting" /\ writes'[j].r = writes'[i].r => j = i
      <4>1. CASE i = n + 1
        BY <2>4, <2>6, <2>7, <2>8, <2>9, <4>1 DEF Waiting, n
      <4>2. CASE i \in Waiting
        <5>1. writes'[i] = writes[i] /\ writes[i].r \in Runners /\ writes[i].r # r
          BY <2>6, <2>8, <3>1, <4>2 DEF Waiting, n
        <5>2. runner'[writes[i].r].proc = 0 /\ runner'[writes[i].r].recent
          BY <2>9, <3>1, <4>2, <5>1 DEF StartsExclude, StartsAlone
        <5>3. ASSUME NEW j \in Waiting', writes'[j].op = "starting", writes'[j].r = writes'[i].r
              PROVE  j = i
          <6>1. j # n + 1
            BY <2>4, <2>6, <5>1, <5>3
          <6>2. j \in Waiting /\ writes'[j] = writes[j]
            BY <2>6, <2>7, <6>1 DEF Waiting, n
          <6> QED
            BY <3>1, <4>2, <5>1, <5>3, <6>2 DEF StartsExclude, StartsAlone
        <5> QED
          BY <5>1, <5>2, <5>3
      <4> QED
        BY <2>7, <4>1, <4>2
    <3> QED
      BY <3>1 DEF StartsAlone
  <2>11. StopsCurrent'
    <3>1. ASSUME NEW i \in Waiting', writes'[i].op = "stopped", writes'[i].k # 0
          PROVE  runner'[writes'[i].r].proc \in {0, writes'[i].k}
      <4>1. i \in Waiting /\ writes'[i] = writes[i] /\ writes[i].r \in Runners
        BY <2>4, <2>6, <2>7, <3>1 DEF Waiting, n
      <4> QED
        BY <2>9, <3>1, <4>1 DEF StartsExclude, StopsCurrent
    <3> QED
      BY <3>1 DEF StopsCurrent
  <2>12. StopsBehindStart'
    <3>1. ASSUME NEW i \in Waiting', NEW j \in Waiting', i < j, writes'[i].op = "starting",
                 writes'[j].op = "stopped", writes'[i].r = writes'[j].r
          PROVE  writes'[j].k = 0
      <4>1. j # n + 1
        BY <2>4, <2>6, <3>1
      <4>2. j \in Waiting /\ writes'[j] = writes[j]
        BY <2>6, <2>7, <4>1 DEF Waiting, n
      <4>3. i \in Waiting /\ writes'[i] = writes[i]
        BY <2>5, <2>6, <2>7, <3>1, <4>2 DEF Waiting, n
      <4> QED
        BY <3>1, <4>2, <4>3 DEF StartsExclude, StopsBehindStart
    <3> QED
      BY <3>1 DEF StopsBehindStart
  <2>13. Tracked'
    BY <1>1, <2>9 DEF NoNewLive, StartsExclude, Tracked, Live
  <2> QED
    BY <2>10, <2>11, <2>12, <2>13 DEF StartsExclude
<1> QED
  BY <1>2, <1>3, <1>4

\* The launch of the oldest waiting start: no process of the runner is live, no
\* other start of it waits, and the stops behind it saw no process.
LEMMA LaunchExcludes ==
  ASSUME TypeOK, StartsExclude, writes # <<>>,
         NEW r \in Runners, NEW k \in StartOf, NEW then \in Caller,
         Head(writes).op = "starting", Head(writes).r = r, Launch(r, k, then)
  PROVE  StartsExclude'
<1>1. CASE /\ writes' = Append(Tail(writes), Update("launchFailed", r, k, then))
           /\ UNCHANGED <<runner, process>>
  <2>1. writes' \in Seq(UpdateType)
    BY <1>1, TailType, AppendType DEF WriteOp
  <2>2. Carried(writes', 1)
    BY <1>1, TailType, CarriedTail, CarriedAppend DEF WriteOp
  <2>3. SameRunners /\ NoNewLive
    BY <1>1 DEF SameRunners, NoNewLive, Live
  <2> QED
    BY <2>1, <2>2, <2>3, Frame
<1>2. ASSUME NEW os \in {"alive", "failing"},
             runner' = [runner EXCEPT ![r].proc = k],
             process' = [process EXCEPT ![r][k].os = os],
             writes' = Append(Tail(writes), Update("running", r, k, then))
      PROVE  StartsExclude'
  <2>1. writes' \in Seq(UpdateType) /\ Len(writes') \in Nat /\ Len(writes) \in Nat
    <3>1. writes' \in Seq(UpdateType)
      BY <1>2, TailType, AppendType DEF WriteOp
    <3> QED
      BY <3>1 DEF TypeOK
  <2>2. Carried(writes', 1)
    BY <1>2, TailType, CarriedTail, CarriedAppend DEF WriteOp
  <2>3. 1 \in Waiting /\ writes[1].op = "starting" /\ writes[1].r = r
    BY DEF Waiting, TypeOK
  <2>4. runner[r].proc = 0
    BY <2>3 DEF StartsExclude, StartsAlone
  <2>5. ASSUME NEW i \in Waiting', writes'[i].op \in {"starting", "stopped"}
        PROVE  /\ i + 1 \in Waiting /\ writes'[i] = writes[i + 1] /\ writes[i + 1].r \in Runners
               /\ i + 1 > 1
    <3>1. i + 1 \in Waiting /\ writes'[i] = writes[i + 1]
      BY <2>2, <2>5 DEF Carried, Waiting
    <3>2. writes[i + 1] \in UpdateType
      BY <3>1 DEF Waiting, TypeOK
    <3> QED
      BY <2>1, <3>1, <3>2 DEF UpdateType, Waiting
  <2>6. /\ \A s \in Runners : s # r => runner'[s].proc = runner[s].proc
        /\ \A s \in Runners : runner'[s].recent = runner[s].recent
    BY <1>2 DEF TypeOK, RunnerType
  <2>7. StartsAlone'
    <3>1. ASSUME NEW i \in Waiting', writes'[i].op = "starting"
          PROVE  /\ runner'[writes'[i].r].proc = 0 /\ runner'[writes'[i].r].recent
                 /\ \A j \in Waiting' : writes'[j].op = "starting" /\ writes'[j].r = writes'[i].r => j = i
      <4>1. /\ i + 1 \in Waiting /\ writes'[i] = writes[i + 1] /\ writes[i + 1].r \in Runners
            /\ i + 1 > 1 /\ writes[i + 1].op = "starting"
        BY <2>5, <3>1
      <4>2. writes[i + 1].r # r
        BY <2>3, <4>1 DEF StartsExclude, StartsAlone
      <4>3. runner'[writes[i + 1].r].proc = 0 /\ runner'[writes[i + 1].r].recent
        <5> DEFINE s == writes[i + 1].r
        <5>1. s \in Runners /\ s # r /\ runner[s].proc = 0 /\ runner[s].recent
          BY <4>1, <4>2 DEF StartsExclude, StartsAlone
        <5> HIDE DEF s
        <5>2. runner'[s].proc = 0 /\ runner'[s].recent
          BY <2>6, <5>1
        <5> QED
          BY <5>2 DEF s
      <4>4. ASSUME NEW j \in Waiting', writes'[j].op = "starting", writes'[j].r = writes'[i].r
            PROVE  j = i
        <5>1. j + 1 \in Waiting /\ writes'[j] = writes[j + 1]
          BY <2>5, <4>4
        <5>2. j + 1 = i + 1
          BY <4>1, <4>4, <5>1 DEF StartsExclude, StartsAlone
        <5> QED
          BY <2>1, <5>2 DEF Waiting
      <4> QED
        BY <4>1, <4>3, <4>4
    <3> QED
      BY <3>1 DEF StartsAlone
  <2>8. StopsCurrent'
    <3>1. ASSUME NEW i \in Waiting', writes'[i].op = "stopped", writes'[i].k # 0
          PROVE  runner'[writes'[i].r].proc \in {0, writes'[i].k}
      <4>1. /\ i + 1 \in Waiting /\ writes'[i] = writes[i + 1] /\ writes[i + 1].r \in Runners
            /\ i + 1 > 1
        BY <2>5, <3>1
      <4>2. writes[i + 1].r # r
        BY <2>3, <3>1, <4>1 DEF StartsExclude, StopsBehindStart
      <4> DEFINE s == writes[i + 1].r
      <4>3. s \in Runners /\ s # r /\ runner[s].proc \in {0, writes[i + 1].k}
        BY <3>1, <4>1, <4>2 DEF StartsExclude, StopsCurrent
      <4> HIDE DEF s
      <4>4. runner'[s].proc \in {0, writes[i + 1].k}
        BY <2>6, <4>3
      <4> QED
        BY <4>1, <4>4 DEF s
    <3> QED
      BY <3>1 DEF StopsCurrent
  <2>9. StopsBehindStart'
    <3>1. ASSUME NEW i \in Waiting', NEW j \in Waiting', i < j, writes'[i].op = "starting",
                 writes'[j].op = "stopped", writes'[i].r = writes'[j].r
          PROVE  writes'[j].k = 0
      <4>1. /\ i + 1 \in Waiting /\ writes'[i] = writes[i + 1]
            /\ j + 1 \in Waiting /\ writes'[j] = writes[j + 1]
        BY <2>5, <3>1
      <4>2. i + 1 < j + 1
        BY <2>1, <3>1 DEF Waiting
      <4> QED
        BY <3>1, <4>1, <4>2 DEF StartsExclude, StopsBehindStart
    <3> QED
      BY <3>1 DEF StopsBehindStart
  <2>10. Tracked'
    <3>1. ASSUME NEW s \in Runners, NEW n \in Attempt,
                 process'[s][n].os = "alive", process'[s][n].onExit = "runner"
          PROVE  runner'[s].proc = n
      <4>1. CASE s # r
        <5>1. process'[s] = process[s]
          BY <1>2, <4>1 DEF TypeOK
        <5> QED
          BY <2>6, <3>1, <4>1, <5>1 DEF StartsExclude, Tracked, Live
      <4>2. CASE s = r /\ n = k
        <5>1. runner[r] \in RunnerType
          BY ParameterTypes
        <5> QED
          BY <1>2, <4>2, <5>1 DEF TypeOK, RunnerType
      <4>3. CASE s = r /\ n # k
        <5>1. process'[s][n] = process[s][n]
          BY <1>2, <4>3 DEF TypeOK
        <5>2. runner[r].proc = n /\ n # 0
          <6>1. Live(r, n)
            BY <3>1, <4>3, <5>1 DEF Live
          <6> QED
            BY <4>3, <6>1 DEF StartsExclude, Tracked, Attempt
        <5> QED
          BY <2>4, <5>2
      <4> QED
        BY <4>1, <4>2, <4>3
    <3> QED
      BY <3>1 DEF Tracked, Live
  <2> QED
    BY <2>7, <2>8, <2>9, <2>10 DEF StartsExclude
<1> QED
  BY <1>1, <1>2 DEF Launch

\* The process a stop detaches is the only one of its runner that is live.
LEMMA StoppedExcludes ==
  ASSUME TypeOK, StartsExclude, writes # <<>>,
         NEW r \in Runners, NEW k \in StartOf, NEW then \in Caller,
         Head(writes).op = "stopped", Head(writes).r = r, Head(writes).k = k, Stopped(r, k, then)
  PROVE  StartsExclude'
<1> DEFINE called == [runner EXCEPT ![r].startTimer = "none",
                                    ![r].restartTimer = @ \/ then = "restart",
                                    ![r].removing = @ \/ then = "remove"]
<1>1. writes' \in Seq(UpdateType) /\ Carried(writes', 1)
  BY TailType, CarriedTail DEF Stopped
<1>2. \A s \in Runners : called[s].proc = runner[s].proc /\ called[s].recent = runner[s].recent
  BY DEF TypeOK, RunnerType
<1>3. CASE k = 0 /\ runner' = called /\ UNCHANGED <<process, command>>
  <2>1. SameRunners /\ NoNewLive
    BY <1>2, <1>3 DEF SameRunners, NoNewLive, Live
  <2> QED
    BY <1>1, <2>1, Frame
<1>4. CASE k # 0
  <2>1. /\ runner' = [called EXCEPT ![r].proc = 0, ![r].resumeId = 0,
                                    ![r].resumeTimer = FALSE, ![r].resumeQueue = <<>>]
        /\ process' = IF process[r][k].os = "alive"
                      THEN [process EXCEPT ![r][k].onExit = "stop", ![r][k].killTimer = "armed"]
                      ELSE process
    BY <1>4 DEF Stopped
  <2>2. /\ \A s \in Runners : s # r => runner'[s].proc = runner[s].proc
        /\ \A s \in Runners : runner'[s].recent = runner[s].recent
        /\ runner'[r].proc = 0
    BY <1>2, <2>1, SMTT(30) DEF TypeOK, RunnerType
  <2>3. StartsAlone' /\ StopsCurrent' /\ StopsBehindStart'
    <3>1. \A s \in Runners : runner'[s].proc \in {0, runner[s].proc}
      BY <2>2
    <3>2. \A s \in Runners : runner[s].recent /\ Pending(s, "starting") => runner'[s].recent
      BY <2>2
    <3> QED
      BY <1>1, <3>1, <3>2, QuietQueue DEF StartsExclude
  <2>4. Tracked'
    <3>1. runner[r].proc \in {0, k}
      <4>1. 1 \in Waiting /\ writes[1].op = "stopped" /\ writes[1].r = r /\ writes[1].k = k
        BY DEF Waiting, TypeOK
      <4> QED
        BY <1>4, <4>1 DEF StartsExclude, StopsCurrent
    <3>2. ASSUME NEW s \in Runners, NEW n \in Attempt,
                 process'[s][n].os = "alive", process'[s][n].onExit = "runner"
          PROVE  runner'[s].proc = n
      <4>1. Live(s, n)
        BY <2>1, <3>2 DEF TypeOK, ProcessType, Live
      <4>2. runner[s].proc = n /\ n # 0
        BY <4>1 DEF StartsExclude, Tracked, Attempt
      <4>3. CASE s # r
        BY <2>2, <4>2, <4>3
      <4>4. CASE s = r
        <5>1. n = k
          BY <3>1, <4>2, <4>4
        <5>2. process'[r][k].onExit = "stop"
          <6>1. process[r][k] \in ProcessType /\ process[r][k].os = "alive"
            BY <4>1, <4>4, <5>1, ParameterTypes DEF Live
          <6> QED
            BY <2>1, <5>1, <6>1 DEF TypeOK, ProcessType
        <5> QED
          BY <3>2, <4>4, <5>1, <5>2
      <4> QED
        BY <4>3, <4>4
    <3> QED
      BY <3>2 DEF Tracked, Live
  <2> QED
    BY <2>3, <2>4 DEF StartsExclude
<1> QED
  BY <1>3, <1>4 DEF Stopped

\* Delivering, flushing and starting up write to processes and runner records,
\* but end no process and leave each runner its own.
LEMMA DeliverFrame ==
  ASSUME TypeOK, NEW r \in Runners, NEW c, Deliver(r, c)
  PROVE  SameRunners /\ NoNewLive
<1> DEFINE k == runner[r].proc
<1>1. CASE runner' = [runner EXCEPT ![r].resumeQueue = Append(@, c)] /\ UNCHANGED process
  BY <1>1 DEF SameRunners, NoNewLive, Live, TypeOK, RunnerType
<1>2. CASE process' = [process EXCEPT ![r][k].stdin = Append(@, c)] /\ UNCHANGED runner
  BY <1>2 DEF SameRunners, NoNewLive, Live, TypeOK, ProcessType
<1>3. CASE UNCHANGED <<runner, process>>
  BY <1>3 DEF SameRunners, NoNewLive, Live
<1> QED
  BY <1>1, <1>2, <1>3 DEF Deliver

\* The end of a send, whether its start gave it a process or not.
LEMMA AfterStartFrame ==
  ASSUME TypeOK, NEW r \in Runners, NEW then, AfterStart(r, then)
  PROVE  SameRunners /\ NoNewLive
<1>1. CASE Deliver(r, then)
  BY <1>1, DeliverFrame
<1>2. CASE UNCHANGED <<runner, process>>
  BY <1>2 DEF SameRunners, NoNewLive, Live
<1> QED
  BY <1>1, <1>2 DEF AfterStart

\* Flushing what a resume held starts no process.
LEMMA FinishResumeFrame ==
  ASSUME TypeOK, NEW r \in Runners, FinishResume(r)
  PROVE  SameRunners /\ NoNewLive
<1>1. SameRunners
  BY DEF FinishResume, SameRunners, TypeOK, RunnerType
<1>2. NoNewLive
  <2> DEFINE k == runner[r].proc
  <2>1. PICK input : process' = process \/ process' = [process EXCEPT ![r][k].stdin = input]
    BY DEF FinishResume
  <2>2. CASE process' = process
    BY <2>2 DEF NoNewLive, Live
  <2>3. CASE process' = [process EXCEPT ![r][k].stdin = input]
    BY <2>3 DEF NoNewLive, Live, TypeOK, ProcessType
  <2> QED
    BY <2>1, <2>2, <2>3
<1> QED
  BY <1>1, <1>2

\* The startup commands start no process.
LEMMA StartupFrame ==
  ASSUME TypeOK, NEW r \in Runners, NEW k, NEW then, Startup(r, k, then)
  PROVE  SameRunners /\ NoNewLive
<1>1. SameRunners
  <2>1. PICK id, valve, queue :
          runner' = [runner EXCEPT ![r].watchdogOk = TRUE, ![r].unanswered = 0, ![r].resumeId = id,
                                   ![r].resumeTimer = valve, ![r].resumeQueue = queue]
    BY DEF Startup
  <2> QED
    BY <2>1 DEF SameRunners, TypeOK, RunnerType
<1>2. NoNewLive
  <2>1. PICK input :
          process' = [process EXCEPT ![r][k].reader = TRUE, ![r][k].stdin = input]
    BY DEF Startup
  <2> QED
    BY <2>1 DEF NoNewLive, Live, TypeOK, ProcessType
<1> QED
  BY <1>1, <1>2

\* The store performs its oldest update.
LEMMA StoreWriteExcludes ==
  ASSUME TypeOK, ConstantsAssumption, StartsExclude, StoreWrite
  PROVE  StartsExclude'
<1> DEFINE w == Head(writes)
<1>1. w \in UpdateType /\ writes # <<>>
  BY TailType DEF StoreWrite
<1>2. w.r \in Runners /\ w.k \in StartOf /\ w.then \in Caller
  BY <1>1 DEF UpdateType
<1>3. writes' = Tail(writes) => writes' \in Seq(UpdateType) /\ Carried(writes', 1)
  BY <1>1, TailType, CarriedTail
<1>4. CASE w.op = "starting" /\ Launch(w.r, w.k, w.then)
  BY <1>1, <1>2, <1>4, LaunchExcludes
<1>5. CASE w.op = "stopped" /\ Stopped(w.r, w.k, w.then)
  BY <1>1, <1>2, <1>5, StoppedExcludes
<1> HIDE DEF w
<1>6. CASE LaunchFailed(w.r, w.then)
  <2>1. SameRunners /\ NoNewLive
    BY <1>2, <1>6, AfterStartFrame DEF LaunchFailed
  <2> QED
    BY <1>3, <1>6, <2>1, Frame DEF LaunchFailed
<1>7. CASE Running(w.r, w.k, w.then)
  <2>1. SameRunners /\ NoNewLive
    BY <1>2, <1>7, AfterStartFrame, StartupFrame DEF Running
  <2> QED
    BY <1>3, <1>7, <2>1, Frame DEF Running
<1>8. CASE Died(w.r) \/ SpawnFailed(w.r)
  <2>1. SameRunners /\ NoNewLive /\ writes' = Tail(writes)
    BY <1>8 DEF Died, SpawnFailed, SameRunners, NoNewLive, Live
  <2> QED
    BY <1>3, <2>1, Frame
<1>9. CASE Deleted(w.r)
  <2>1. SameRunners /\ NoNewLive /\ writes' = Tail(writes)
    BY <1>2, <1>9 DEF Deleted, SameRunners, NoNewLive, Live, TypeOK, RunnerType
  <2> QED
    BY <1>3, <2>1, Frame
<1> QED
  BY <1>4, <1>5, <1>6, <1>7, <1>8, <1>9 DEF StoreWrite, w

\* The timers of a runner; its debounce outlasts a waiting start.
LEMMA TimersExclude ==
  ASSUME TypeOK, ConstantsAssumption, StartsExclude, ~SlowStore, NEW r \in Runners, Timers(r)
  PROVE  StartsExclude'
<1>1. CASE DebounceElapses(r)
  <2>1. /\ \A s \in Runners : runner'[s].proc = runner[s].proc
        /\ \A s \in Runners : s # r => runner'[s].recent = runner[s].recent
    BY <1>1 DEF DebounceElapses, TypeOK, RunnerType
  <2>2. ~Pending(r, "starting") /\ UNCHANGED <<writes, process>>
    BY <1>1 DEF DebounceElapses
  <2>3. \A s \in Runners : runner'[s].proc \in {0, runner[s].proc}
    BY <2>1
  <2>4. \A s \in Runners : runner[s].recent /\ Pending(s, "starting") => runner'[s].recent
    BY <2>1, <2>2
  <2>5. StartsAlone' /\ StopsCurrent' /\ StopsBehindStart'
    BY <2>2, <2>3, <2>4, UnchangedWrites, QuietQueue DEF StartsExclude
  <2>6. Tracked'
    BY <2>1, <2>2 DEF StartsExclude, Tracked, Live
  <2> QED
    BY <2>5, <2>6 DEF StartsExclude
<1>2. CASE DeferredStart(r)
  <2> DEFINE fired == [runner EXCEPT ![r].startTimer = "none"]
  <2>1. [runner[r] EXCEPT !.startTimer = "none"] \in RunnerType
    BY ParameterTypes DEF RunnerType, TimerState
  <2>2. fired \in [Runners -> RunnerType]
    BY <2>1 DEF TypeOK
  <2>3. \A s \in Runners : fired[s].proc = runner[s].proc /\ fired[s].recent = runner[s].recent
    BY DEF TypeOK, RunnerType
  <2>4. CASE StartRunner(fired, r, "none")
    BY <2>2, <2>3, <2>4, StartRunnerExcludes DEF Caller, Tag
  <2>5. CASE runner' = fired /\ UNCHANGED <<process, writes>>
    <3>1. SameRunners /\ NoNewLive
      BY <2>3, <2>5 DEF SameRunners, NoNewLive, Live
    <3> QED
      BY <2>5, <3>1, UnchangedWrites, Frame
  <2> QED
    BY <1>2, <2>4, <2>5 DEF DeferredStart
<1>3. CASE RestartTimer(r)
  <2> DEFINE fired == [runner EXCEPT ![r].restartTimer = FALSE]
  <2>1. [runner[r] EXCEPT !.restartTimer = FALSE] \in RunnerType
    BY ParameterTypes DEF RunnerType
  <2>2. fired \in [Runners -> RunnerType]
    BY <2>1 DEF TypeOK
  <2>3. \A s \in Runners : fired[s].proc = runner[s].proc /\ fired[s].recent = runner[s].recent
    BY DEF TypeOK, RunnerType
  <2>4. CASE StartRunner(fired, r, "none")
    BY <2>2, <2>3, <2>4, StartRunnerExcludes DEF Caller, Tag
  <2>5. CASE runner' = fired /\ UNCHANGED <<process, writes>>
    <3>1. SameRunners /\ NoNewLive
      BY <2>3, <2>5 DEF SameRunners, NoNewLive, Live
    <3> QED
      BY <2>5, <3>1, UnchangedWrites, Frame
  <2> QED
    BY <1>3, <2>4, <2>5 DEF RestartTimer
<1>4. CASE ResumeTimer(r)
  <2>1. UNCHANGED writes
    BY <1>4 DEF ResumeTimer
  <2>2. CASE FinishResume(r)
    BY <2>1, <2>2, FinishResumeFrame, UnchangedWrites, Frame
  <2>3. CASE runner' = [runner EXCEPT ![r].resumeTimer = FALSE] /\ UNCHANGED <<process, command>>
    <3>1. SameRunners /\ NoNewLive
      BY <2>3 DEF SameRunners, NoNewLive, Live, TypeOK, RunnerType
    <3> QED
      BY <2>1, <3>1, UnchangedWrites, Frame
  <2> QED
    BY <1>4, <2>2, <2>3 DEF ResumeTimer
<1> QED
  BY <1>1, <1>2, <1>3, <1>4 DEF Timers

\* What the agent process does: it may end, it never begins.
LEMMA AgentExcludes ==
  ASSUME TypeOK, ConstantsAssumption, StartsExclude, NEW r \in Runners, Agent(r)
  PROVE  StartsExclude'
<1>0. \A k \in Attempt : k \in StartOf
  BY DEF StartOf, Attempt, ConstantsAssumption
<1>1. ASSUME NEW k \in Attempt, NEW o \in {"dead", "error"},
             process'[r][k].os = "dead",
             \A s \in Runners, n \in Attempt : s # r \/ n # k => process'[s][n] = process[s][n],
             runner' = [runner EXCEPT ![r].proc = IF @ = k THEN 0 ELSE @],
             writes' = Append(writes, Update(o, r, k, "none"))
      PROVE  StartsExclude'
  <2>1. /\ \A s \in Runners : s # r => runner'[s].proc = runner[s].proc
        /\ runner'[r].proc = IF runner[r].proc = k THEN 0 ELSE runner[r].proc
        /\ \A s \in Runners : runner'[s].recent = runner[s].recent
    BY <1>1 DEF TypeOK, RunnerType
  <2>2. \A s \in Runners : runner'[s].proc \in {0, runner[s].proc}
    BY <2>1
  <2>3. \A s \in Runners : runner[s].recent /\ Pending(s, "starting") => runner'[s].recent
    BY <2>1
  <2>4. writes \in Seq(UpdateType) /\ Carried(writes, 0)
    <3>1. Len(writes) \in Nat /\ \A i \in Waiting : i + 0 = i
      BY DEF TypeOK, Waiting
    <3> QED
      BY <3>1 DEF TypeOK, Carried, Waiting
  <2>5. o \in WriteOp \ {"starting", "stopped"} /\ "none" \in Caller
    BY DEF WriteOp, Caller, Tag
  <2>6. writes' \in Seq(UpdateType) /\ Carried(writes', 0)
    BY <1>0, <1>1, <2>4, <2>5, AppendType, CarriedAppend
  <2>7. StartsAlone' /\ StopsCurrent' /\ StopsBehindStart'
    BY <2>2, <2>3, <2>6, QuietQueue DEF StartsExclude
  <2>8. Tracked'
    <3>1. ASSUME NEW s \in Runners, NEW n \in Attempt,
                 process'[s][n].os = "alive", process'[s][n].onExit = "runner"
          PROVE  runner'[s].proc = n
      <4>1. s # r \/ n # k
        BY <1>1, <3>1
      <4>2. runner[s].proc = n
        BY <1>1, <3>1, <4>1 DEF StartsExclude, Tracked, Live
      <4> QED
        BY <2>1, <4>1, <4>2
    <3> QED
      BY <3>1 DEF Tracked, Live
  <2> QED
    BY <2>7, <2>8 DEF StartsExclude
<1>2. ASSUME NEW k \in Attempt, Exit(r, k)
      PROVE  StartsExclude'
  <2>1. process' = [process EXCEPT ![r][k].os = "dead", ![r][k].killTimer = "none"]
    BY <1>2 DEF Exit
  <2>2. /\ process'[r][k].os = "dead"
        /\ \A s \in Runners, n \in Attempt : s # r \/ n # k => process'[s][n] = process[s][n]
    BY <2>1 DEF TypeOK, ProcessType
  <2>3. CASE /\ runner[r].proc = k
             /\ runner' = [runner EXCEPT ![r].proc = 0]
             /\ writes' = Append(writes, Update("dead", r, k, "none"))
    <3>1. runner' = [runner EXCEPT ![r].proc = IF @ = k THEN 0 ELSE @]
      BY <2>3
    <3> QED
      BY <1>1, <2>2, <2>3, <3>1
  <2>4. CASE UNCHANGED <<runner, writes>>
    <3>1. SameRunners /\ NoNewLive
      BY <2>2, <2>4 DEF SameRunners, NoNewLive, Live
    <3> QED
      BY <2>4, <3>1, UnchangedWrites, Frame
  <2> QED
    BY <1>2, <2>3, <2>4 DEF Exit
<1>3. ASSUME NEW k \in Attempt, SpawnError(r, k)
      PROVE  StartsExclude'
  <2>1. /\ process'[r][k].os = "dead"
        /\ \A s \in Runners, n \in Attempt : s # r \/ n # k => process'[s][n] = process[s][n]
    BY <1>3 DEF SpawnError, TypeOK, ProcessType
  <2> QED
    BY <1>1, <1>3, <2>1 DEF SpawnError
<1>4. ASSUME NEW k \in Attempt, KillTimer(r, k)
      PROVE  StartsExclude'
  <2>1. NoNewLive
    BY <1>4 DEF KillTimer, NoNewLive, Live, TypeOK, ProcessType
  <2>2. SameRunners /\ UNCHANGED writes
    BY <1>4 DEF KillTimer, SameRunners
  <2> QED
    BY <2>1, <2>2, UnchangedWrites, Frame
<1>5. CASE ResumeResponse(r)
  BY <1>5, FinishResumeFrame, UnchangedWrites, Frame DEF ResumeResponse
<1>6. CASE Line(r)
  <2>1. PICK tells \in BOOLEAN :
          runner' = [runner EXCEPT ![r].unanswered = 0, ![r].sessionRef = @ \/ tells]
    BY <1>6 DEF Line
  <2>2. SameRunners /\ NoNewLive
    BY <1>6, <2>1 DEF Line, SameRunners, NoNewLive, Live, TypeOK, RunnerType
  <2> QED
    BY <1>6, <2>2, UnchangedWrites, Frame DEF Line
<1> QED
  BY <1>2, <1>3, <1>4, <1>5, <1>6 DEF Agent

\* stopRunner issued by a request or a periodic task.
LEMMA StopExcludes ==
  ASSUME TypeOK, StartsExclude, NEW r \in Runners, NEW then \in Caller, StopRunner(r, then),
         SameRunners, UNCHANGED process
  PROVE  StartsExclude'
<1>1. StartsAlone' /\ StopsCurrent' /\ StopsBehindStart'
  BY StopAppended DEF StartsExclude, SameRunners
<1>2. Tracked'
  BY DEF StartsExclude, Tracked, Live, SameRunners
<1> QED
  BY <1>1, <1>2 DEF StartsExclude

\* The clients' requests.
LEMMA RequestsExclude ==
  ASSUME TypeOK, ConstantsAssumption, StartsExclude, NEW r \in Runners, Requests(r)
  PROVE  StartsExclude'
<1>0. Tag \subseteq Caller /\ Commands \subseteq Caller
  BY DEF Caller
<1>1. ASSUME NEW c \in Commands, Send(r, c)
      PROVE  StartsExclude'
  <2>1. CASE StartRunner(runner, r, c)
    <3>1. runner \in [Runners -> RunnerType]
      BY DEF TypeOK
    <3> QED
      BY <1>0, <2>1, <3>1, StartRunnerExcludes
  <2>2. CASE /\ runner[r].proc # 0
             /\ Deliver(r, c)
             /\ UNCHANGED writes
    BY <2>2, DeliverFrame, UnchangedWrites, Frame
  <2> QED
    BY <1>1, <2>1, <2>2 DEF Send
<1>2. ASSUME NEW then \in {"none", "restart", "remove"}, StopRunner(r, then),
             UNCHANGED <<runner, process>>
      PROVE  StartsExclude'
  <2>1. then \in Caller /\ SameRunners
    BY <1>0, <1>2 DEF Tag, SameRunners
  <2> QED
    BY <1>2, <2>1, StopExcludes
<1>3. CASE RemoveRuntime(r)
  <2>1. SameRunners /\ NoNewLive
    BY <1>3 DEF RemoveRuntime, SameRunners, NoNewLive, Live, TypeOK, RunnerType
  <2> QED
    BY <1>3, <2>1, UnchangedWrites, Frame DEF RemoveRuntime
<1>4. ASSUME NEW missing \in BOOLEAN, DeleteEmpty(r, missing)
      PROVE  StartsExclude'
  <2>1. SameRunners /\ NoNewLive /\ writes' = Append(writes, Update("delete", r, 0, "none"))
    BY <1>4 DEF DeleteEmpty, SameRunners, NoNewLive, Live
  <2>2. 0 \in StartOf /\ "none" \in Caller /\ "delete" \in WriteOp \ {"starting", "stopped"}
    BY <1>0 DEF StartOf, ConstantsAssumption, Tag, WriteOp
  <2>3. writes \in Seq(UpdateType) /\ Carried(writes, 0)
    <3>1. Len(writes) \in Nat /\ \A i \in Waiting : i + 0 = i
      BY DEF TypeOK, Waiting
    <3> QED
      BY <3>1 DEF TypeOK, Carried, Waiting
  <2> QED
    BY <2>1, <2>2, <2>3, AppendType, CarriedAppend, Frame
<1> QED
  BY <1>1, <1>2, <1>3, <1>4 DEF Requests, Stop, Restart, DeleteSession

\* The periodic tasks.
LEMMA PeriodicExclude ==
  ASSUME TypeOK, StartsExclude, NEW r \in Runners,
         Reap(r) \/ \E subscribed \in BOOLEAN : WatchdogTick(r, subscribed)
  PROVE  StartsExclude'
<1>0. "none" \in Caller
  BY DEF Caller, Tag
<1>1. CASE Reap(r)
  BY <1>0, <1>1, StopExcludes DEF Reap, SameRunners
<1>2. ASSUME NEW subscribed \in BOOLEAN, WatchdogTick(r, subscribed)
      PROVE  StartsExclude'
  <2>0. PICK n : runner' = [runner EXCEPT ![r].unanswered = n]
    BY <1>2 DEF WatchdogTick
  <2>1. SameRunners /\ UNCHANGED process
    BY <1>2, <2>0 DEF WatchdogTick, SameRunners, TypeOK, RunnerType
  <2>2. CASE UNCHANGED writes
    <3>1. NoNewLive
      BY <2>1 DEF NoNewLive, Live
    <3> QED
      BY <2>1, <2>2, <3>1, UnchangedWrites, Frame
  <2>3. CASE StopRunner(r, "none")
    BY <1>0, <2>1, <2>3, StopExcludes
  <2> QED
    BY <1>2, <2>2, <2>3 DEF WatchdogTick
<1> QED
  BY <1>1, <1>2

\* A reload keeps processes and queue; a crash ends every process and the queue.
LEMMA ReloadExcludes ==
  ASSUME TypeOK, StartsExclude, Reload
  PROVE  StartsExclude'
<1>1. /\ \A x \in RunnerType : \A t : [x EXCEPT !.startTimer = t].proc = x.proc
      /\ \A x \in RunnerType : \A t : [x EXCEPT !.startTimer = t].recent = x.recent
  BY DEF RunnerType
<1>2. /\ \A x \in ProcessType : \A t : [x EXCEPT !.killTimer = t].os = x.os
      /\ \A x \in ProcessType : \A t : [x EXCEPT !.killTimer = t].onExit = x.onExit
  BY DEF ProcessType
<1>3. SameRunners
  BY <1>1, ParameterTypes DEF Reload, SameRunners
<1>4. NoNewLive
  BY <1>2, ParameterTypes DEF Reload, NoNewLive, Live
<1> QED
  BY <1>3, <1>4, UnchangedWrites, Frame DEF Reload

\* After a crash no process lives and no update waits.
LEMMA CrashExcludes ==
  ASSUME TypeOK, Crash
  PROVE  StartsExclude'
<1>1. writes' = <<>>
  BY DEF Crash
<1>2. ASSUME NEW r \in Runners, NEW k \in Attempt
      PROVE  process'[r][k].os # "alive"
  <2>1. process'[r][k] = IF process[r][k].os = "unborn" THEN process[r][k]
                         ELSE [process[r][k] EXCEPT !.os = "dead", !.killTimer = "none"]
    BY DEF Crash
  <2>2. process[r][k] \in ProcessType
    BY ParameterTypes
  <2> QED
    BY <2>1, <2>2 DEF ProcessType
<1>3. Waiting' = {}
  BY <1>1 DEF Waiting
<1> QED
  BY <1>2, <1>3 DEF StartsExclude, StartsAlone, StopsCurrent, StopsBehindStart, Tracked, Live

\* Every step keeps starts exclusive.
LEMMA StepExcludes ==
  ASSUME TypeOK, ConstantsAssumption, ~SlowStore, StartsExclude, [Next]_vars
  PROVE  StartsExclude'
<1>1. CASE UNCHANGED vars
  BY <1>1 DEF vars, StartsExclude, StartsAlone, StopsCurrent, StopsBehindStart, Tracked, Live, Waiting
<1> QED
  BY <1>1, StoreWriteExcludes, TimersExclude, RequestsExclude, AgentExcludes, PeriodicExclude,
     ReloadExcludes, CrashExcludes
  DEF Next

\* At first no process lives and no update waits.
LEMMA InitExcludes ==
  ASSUME Init
  PROVE  StartsExclude
<1>1. Waiting = {}
  BY DEF Init, Waiting
<1>2. \A r \in Runners, k \in Attempt : process[r][k].os # "alive"
  BY DEF Init, Unborn
<1> QED
  BY <1>1, <1>2 DEF StartsExclude, StartsAlone, StopsCurrent, StopsBehindStart, Tracked, Live

\* The invariant holds from the start and is kept by every step.
THEOREM Exclusive == Spec => []IInv
<1>1. Init => IInv
  BY InitType, InitExcludes, ConstantsAssumption DEF IInv
<1>2. IInv /\ [Next]_vars => IInv'
  BY StepType, StepExcludes, ConstantsAssumption DEF IInv
<1> QED
  BY <1>1, <1>2, PTL DEF Spec

\* No orphans: while the store answers within the respawn debounce, every agent
\* that runs and was not asked to stop is the process its runner tracks, however
\* starts, stops, exits, reloads, crashes and deletions interleave.
THEOREM NoOrphans == Spec => []NoUntrackedProcess
<1>1. IInv => NoUntrackedProcess
  BY DEF IInv, StartsExclude, Tracked, Live, NoUntrackedProcess
<1> QED
  BY <1>1, Exclusive, PTL
=============================================================================
