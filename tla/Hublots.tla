------------------------------- MODULE Hublots -------------------------------
(***************************************************************************)
(* Hublots: public tunnels to a local port (server/tunnels.mjs), their     *)
(* supervisor (persistence/hublotSupervisor.mjs) and their routes.         *)
(*                                                                         *)
(* Every task - an opener, an exit listener, a request, a sweep of the     *)
(* supervisor, the shutdown - awaits one store operation at a time and the *)
(* store serves them in the order they were issued, so `queue` holds the   *)
(* waiting tasks and a step of a task is its operation with the JavaScript *)
(* that follows up to the next await.  Operations that nothing here tells  *)
(* apart are merged.  All hublots here want the same port.                 *)
(***************************************************************************)
EXTENDS Naturals, Sequences, FiniteSets

CONSTANTS Hublots,      \* the hublot rows that may be created
          MaxTunnels,   \* bound on tunnel processes spawned
          MaxRestarts   \* bound on crashes and shutdowns

ASSUME HublotsAssumption == MaxTunnels \in Nat /\ MaxRestarts \in Nat

VARIABLES
  row,       \* the hublots table
  tunnel,    \* each tunnel process, its persisted row and its live handle
  opener,    \* openTunnel's progress with each process
  exit,      \* the exit listener of each process
  request,   \* a POST or a reopen of each hublot that has not spawned yet
  reopens,   \* state.hublotReopens
  closer,    \* a DELETE of each hublot
  sweep,     \* the supervisor's reconcile()
  shutdown,  \* shutdownHublots()
  queue,     \* the tasks that await the store
  restarts

volatile == <<opener, exit, request, reopens, closer, sweep, shutdown>>
vars == <<row, tunnel, volatile, queue, restarts>>

Tunnels == 1..MaxTunnels
NoTunnel == 0

Absent == [status |-> "absent", desired |-> "closed", url |-> NoTunnel]
\* os is what the process is: "told" once a signal was sent to it.
Unborn == [os |-> "unborn", rec |-> "none", handle |-> FALSE, reopen |-> FALSE, of |-> "none"]
NoExit == [step |-> "no", desired |-> "open"]
NoSweep == [step |-> "no", all |-> FALSE, todo |-> {}, seen |-> [h \in Hublots |-> "absent"],
            lost |-> {}, healthy |-> FALSE]
\* The startup reconciliation is issued before the server listens.
FirstSweep == [NoSweep EXCEPT !.step = "list", !.all = TRUE]
Serving == [step |-> "no", todo |-> {}, targets |-> {}, remaining |-> {}]

Init ==
  /\ row = [h \in Hublots |-> Absent]
  /\ tunnel = [p \in Tunnels |-> Unborn]
  /\ opener = [p \in Tunnels |-> "no"]
  /\ exit = [p \in Tunnels |-> NoExit]
  /\ request = [h \in Hublots |-> "no"]
  /\ reopens = {}
  /\ closer = [h \in Hublots |-> "no"]
  /\ sweep = FirstSweep
  /\ shutdown = Serving
  /\ queue = <<<<"sweep">>>>
  /\ restarts = 0

-----------------------------------------------------------------------------
(* Helpers *)

Turn(task) == queue # <<>> /\ Head(queue) = task
Awaits(task) == queue' = Append(Tail(queue), task)
Ends == queue' = Tail(queue)
Starts(task) == queue' = Append(queue, task)

Of(h) == {p \in Tunnels : tunnel[p].of = h}
Alive(p) == tunnel[p].os \in {"live", "told"}
Recorded(h) == {p \in Of(h) : tunnel[p].rec # "none"}
Current(h) == {p \in Of(h) : tunnel[p].rec = "running"}
IsLatest(p, S) == p \in S /\ \A q \in S : q <= p

\* currentHublotTunnelProcessIsHealthy
Healthy(h) == \E p \in Current(h) : IsLatest(p, Current(h)) /\ Alive(p)

\* The unique index on the ports of rows that are not closed.
PortFree(h) == \A g \in Hublots \ {h} : row[g].status \in {"absent", "closed"}

\* What signalling the processes of S leaves of a tunnel.
Told(S) == [p \in Tunnels |-> IF p \in S /\ tunnel[p].os = "live"
                              THEN [tunnel[p] EXCEPT !.os = "told"] ELSE tunnel[p]]

\* recordHublotTransition: the row and its lifecycle event in one transaction,
\* which the index makes fail when the row was closed and its port is taken.
Admits(h, status) == status = "closed" \/ PortFree(h)
Transition(h, status, desired, url) ==
  row' = IF Admits(h, status)
         THEN [row EXCEPT ![h] = [status |-> status, desired |-> desired, url |-> url]]
         ELSE row

\* The model lets a request start only while it could still spawn a process.
Budget == Cardinality({p \in Tunnels : tunnel[p].os = "unborn"})
            > Cardinality({h \in Hublots : request[h] # "no"})

Accepting == shutdown.step = "no"

-----------------------------------------------------------------------------
(* POST /tunnels and POST /tunnels/reopen, up to the spawn *)

Ask(h, step) ==
  /\ Accepting /\ Budget /\ request[h] = "no"
  /\ request' = [request EXCEPT ![h] = step]
  /\ Starts(<<"request", h>>)
  /\ UNCHANGED <<row, tunnel, opener, exit, closer, sweep, shutdown, restarts>>

Post(h) == row[h].status = "absent" /\ Ask(h, "reserve") /\ UNCHANGED reopens

\* A second reopen of the same hublot is refused while one is pending.
Reopen(h) ==
  h \notin reopens /\ row[h].status # "absent" /\ Ask(h, "reopen") /\ reopens' = reopens \cup {h}

\* A step of the request of h: it awaits again, or ends.
RequestStep(h, from, to) ==
  /\ Turn(<<"request", h>>) /\ request[h] = from
  /\ request' = [request EXCEPT ![h] = to]
  /\ IF to = "no" THEN Ends /\ reopens' = reopens \ {h}
                  ELSE Awaits(<<"request", h>>) /\ UNCHANGED reopens
  /\ UNCHANGED <<opener, exit, closer, sweep, shutdown, restarts>>

\* The row is created "opening", unless the port is in use.
Reserve(h) ==
  /\ RequestStep(h, "reserve", IF PortFree(h) THEN "spawn" ELSE "no")
  /\ IF PortFree(h) THEN Transition(h, "opening", "open", NoTunnel) ELSE UNCHANGED row
  /\ UNCHANGED tunnel

\* reopenHublot refuses a hublot that is active and one whose port is taken.
ReopenCheck(h) ==
  LET refused == \/ row[h].status \in {"absent", "opening", "closing"}
                 \/ row[h].status = "open" /\ Healthy(h)
                 \/ ~PortFree(h)
  IN  /\ RequestStep(h, "reopen", IF refused THEN "no" ELSE "retire")
      /\ UNCHANGED <<row, tunnel>>

\* Old tunnels whose identity verifies are signalled and their rows finished.
Retired(S) ==
  [p \in Tunnels |-> IF p \in S THEN [Told(S)[p] EXCEPT !.rec = "ended"] ELSE tunnel[p]]

Retire(h) ==
  /\ RequestStep(h, "retire", "mark")
  /\ tunnel' = Retired({p \in Recorded(h) : tunnel[p].rec # "ended"})
  /\ UNCHANGED row

Mark(h) ==
  /\ RequestStep(h, "mark", IF PortFree(h) THEN "check" ELSE "no")
  /\ Transition(h, "opening", "open", NoTunnel)
  /\ UNCHANGED tunnel

\* A DELETE between the transition and this read cancels the reopening.
Check(h) ==
  /\ RequestStep(h, "check", IF row[h].status = "opening" /\ row[h].desired = "open"
                             THEN "spawn" ELSE "no")
  /\ UNCHANGED <<row, tunnel>>

-----------------------------------------------------------------------------
(* openTunnel *)

FirstUnborn(p) == \A q \in 1..p : tunnel[q].os = "unborn" <=> q = p

\* The row is read again and the process spawned, or its binary is missing.
Spawn(h) ==
  /\ Turn(<<"request", h>>) /\ request[h] = "spawn"
  /\ request' = [request EXCEPT ![h] = "no"]
  /\ \/ /\ row[h].status = "opening"
        /\ \E p \in Tunnels, started \in BOOLEAN :
             /\ FirstUnborn(p)
             /\ tunnel' = [tunnel EXCEPT ![p] =
                  [Unborn EXCEPT !.os = IF started THEN "live" ELSE "dead",
                                 !.of = h, !.reopen = h \in reopens]]
             /\ opener' = [opener EXCEPT ![p] = IF started THEN "spawned" ELSE "fail"]
             /\ Awaits(<<"open", p>>)
        /\ UNCHANGED reopens
     \/ /\ row[h].status # "opening"
        /\ reopens' = reopens \ {h} /\ Ends
        /\ UNCHANGED <<tunnel, opener>>
  /\ UNCHANGED <<row, exit, closer, sweep, shutdown, restarts>>

OpenerFrame == UNCHANGED <<exit, request, closer, sweep, shutdown, restarts>>

\* persistHublotProcessIdentity looks for the row before it writes it.
Identify(p) ==
  /\ Turn(<<"open", p>>) /\ opener[p] = "spawned"
  /\ opener' = [opener EXCEPT ![p] = "persist"]
  /\ Awaits(<<"open", p>>)
  /\ UNCHANGED <<row, tunnel, reopens>> /\ OpenerFrame

\* Mutant: a process whose identity cannot be persisted is left running.
PersistFailedQuietly(p) == tunnel' = [tunnel EXCEPT ![p].handle = FALSE]

\* The process is signalled when its identity cannot be persisted.
PersistFailed(p) == tunnel' = Told({p})

\* The listeners and the URL timer exist once the identity is persisted.
Persist(p) ==
  /\ Turn(<<"open", p>>) /\ opener[p] = "persist"
  /\ \/ /\ tunnel' = [tunnel EXCEPT ![p].rec = "running", ![p].handle = TRUE]
        /\ opener' = [opener EXCEPT ![p] = "url"]
        /\ Ends
     \/ /\ PersistFailed(p)
        /\ opener' = [opener EXCEPT ![p] = "fail"]
        /\ Awaits(<<"open", p>>)
  /\ UNCHANGED <<row, reopens>> /\ OpenerFrame

UrlTimeout(p) ==
  /\ opener[p] = "url"
  /\ tunnel' = Told({p})
  /\ opener' = [opener EXCEPT ![p] = "fail"]
  /\ Starts(<<"open", p>>)
  /\ UNCHANGED <<row, reopens>> /\ OpenerFrame

\* cloudflared prints its URL.
Output(p) ==
  /\ opener[p] = "url" /\ Alive(p)
  /\ opener' = [opener EXCEPT ![p] = "confirm"]
  /\ Starts(<<"open", p>>)
  /\ UNCHANGED <<row, tunnel, reopens>> /\ OpenerFrame

\* confirmSpawnedTunnelProcess; a signalled process may still pass it.
Confirm(p) ==
  /\ Turn(<<"open", p>>) /\ opener[p] = "confirm"
  /\ \/ /\ Alive(p)
        /\ opener' = [opener EXCEPT ![p] = "poll"] /\ Ends
     \/ /\ tunnel[p].os # "live"
        /\ opener' = [opener EXCEPT ![p] = "fail"] /\ Awaits(<<"open", p>>)
  /\ UNCHANGED <<row, tunnel, reopens>> /\ OpenerFrame

\* waitForPublicHublot: a probe answers, maybe one that is already stale.
PollAnswers(p) ==
  /\ opener[p] = "poll"
  /\ opener' = [opener EXCEPT ![p] = "open"]
  /\ Starts(<<"open", p>>)
  /\ UNCHANGED <<row, tunnel, reopens>> /\ OpenerFrame

PollFails(p) ==
  /\ opener[p] = "poll"
  /\ tunnel' = Told({p})
  /\ opener' = [opener EXCEPT ![p] = "fail"]
  /\ Starts(<<"open", p>>)
  /\ UNCHANGED <<row, reopens>> /\ OpenerFrame

EndOpening(p, step) ==
  /\ opener' = [opener EXCEPT ![p] = step]
  /\ reopens' = IF tunnel[p].reopen /\ step = "done" THEN reopens \ {tunnel[p].of} ELSE reopens
  /\ Ends

\* Mutant: the desired state stays what the row says.
OpenedAsDesired(p) ==
  LET h == tunnel[p].of IN Transition(h, "open", row[h].desired, p)

\* The tunnel is public: the row is recorded open whatever became of it.
Opened(p) == Transition(tunnel[p].of, "open", "open", p)

\* When the port was taken meanwhile the promise is left pending for ever.
RecordOpen(p) ==
  /\ Turn(<<"open", p>>) /\ opener[p] = "open"
  /\ Opened(p)
  /\ EndOpening(p, IF PortFree(tunnel[p].of) THEN "done" ELSE "hung")
  /\ UNCHANGED tunnel /\ OpenerFrame

\* failOpeningHublot reads the row, and records the failure.
FindOpening(p) ==
  /\ Turn(<<"open", p>>) /\ opener[p] = "fail"
  /\ IF row[tunnel[p].of].status = "opening"
     THEN /\ opener' = [opener EXCEPT ![p] = "failed"]
          /\ Awaits(<<"open", p>>) /\ UNCHANGED reopens
     ELSE EndOpening(p, "done")
  /\ UNCHANGED <<row, tunnel>> /\ OpenerFrame

RecordFailed(p) ==
  /\ Turn(<<"open", p>>) /\ opener[p] = "failed"
  /\ Transition(tunnel[p].of, "failed", row[tunnel[p].of].desired, NoTunnel)
  /\ EndOpening(p, "done")
  /\ UNCHANGED tunnel /\ OpenerFrame

-----------------------------------------------------------------------------
(* A process exits *)

\* Its listener runs if this server spawned it and attached one.
Dies(p) ==
  /\ Alive(p)
  /\ tunnel' = [tunnel EXCEPT ![p].os = "dead", ![p].handle = FALSE]
  /\ IF tunnel[p].handle
     THEN /\ exit' = [exit EXCEPT ![p] = [NoExit EXCEPT !.step = "finish"]]
          /\ Starts(<<"exit", p>>)
     ELSE UNCHANGED <<exit, queue>>
  /\ UNCHANGED <<row, opener, request, reopens, closer, sweep, shutdown, restarts>>

ExitFrame == UNCHANGED <<request, reopens, closer, sweep, shutdown, restarts>>

ExitStep(p, from) == Turn(<<"exit", p>>) /\ exit[p].step = from

\* The process row is finished, and an opening still under way fails.
ExitFinish(p) ==
  LET unsettled == opener[p] \in {"url", "confirm", "poll"}
  IN  /\ ExitStep(p, "finish")
      /\ tunnel' = [tunnel EXCEPT ![p].rec = "ended"]
      /\ exit' = [exit EXCEPT ![p].step = IF unsettled THEN "no" ELSE "look"]
      /\ opener' = [opener EXCEPT ![p] = IF unsettled THEN "fail" ELSE @]
      /\ IF unsettled THEN IF opener[p] = "confirm" THEN Ends ELSE Awaits(<<"open", p>>)
                      ELSE Awaits(<<"exit", p>>)
      /\ UNCHANGED row /\ ExitFrame

ExitLook(p) ==
  LET r == row[tunnel[p].of]
      over == r.status \in {"failed", "closed"}
  IN  /\ ExitStep(p, "look")
      /\ exit' = [exit EXCEPT ![p] = IF over THEN NoExit ELSE [step |-> "list", desired |-> r.desired]]
      /\ IF over THEN Ends ELSE Awaits(<<"exit", p>>)
      /\ UNCHANGED <<row, tunnel, opener>> /\ ExitFrame

\* Only the latest tunnel of a hublot that nobody is reopening decides.
ExitList(p) ==
  LET h == tunnel[p].of
      mine == h \notin reopens /\ IsLatest(p, Recorded(h))
  IN  /\ ExitStep(p, "list")
      /\ exit' = [exit EXCEPT ![p] = IF mine THEN [@ EXCEPT !.step = "record"] ELSE NoExit]
      /\ IF mine THEN Awaits(<<"exit", p>>) ELSE Ends
      /\ UNCHANGED <<row, tunnel, opener>> /\ ExitFrame

\* The desired state recorded is the one read two operations ago.
ExitRecord(p) ==
  /\ ExitStep(p, "record")
  /\ Transition(tunnel[p].of, IF exit[p].desired = "closed" THEN "closed" ELSE "interrupted",
                exit[p].desired, NoTunnel)
  /\ exit' = [exit EXCEPT ![p] = NoExit]
  /\ Ends
  /\ UNCHANGED <<tunnel, opener>> /\ ExitFrame

-----------------------------------------------------------------------------
(* DELETE /tunnels: closeTunnel *)

Delete(h) ==
  /\ Accepting /\ closer[h] = "no" /\ row[h].status # "absent"
  /\ closer' = [closer EXCEPT ![h] = "find"]
  /\ Starts(<<"close", h>>)
  /\ UNCHANGED <<row, tunnel, opener, exit, request, reopens, sweep, shutdown, restarts>>

CloseStep(h, from, to) ==
  /\ Turn(<<"close", h>>) /\ closer[h] = from
  /\ closer' = [closer EXCEPT ![h] = to]
  /\ IF to = "no" THEN Ends ELSE Awaits(<<"close", h>>)
  /\ UNCHANGED <<opener, exit, request, reopens, sweep, shutdown, restarts>>

CloseFind(h) ==
  /\ CloseStep(h, "find", IF row[h].status \in {"absent", "closed"} THEN "no" ELSE "mark")
  /\ UNCHANGED <<row, tunnel>>

CloseMark(h) ==
  /\ CloseStep(h, "mark", IF PortFree(h) THEN "kill" ELSE "no")
  /\ Transition(h, "closing", "closed", NoTunnel)
  /\ UNCHANGED tunnel

\* Mutant: only an open hublot is believed to have a tunnel to signal.
HandledIfOpen(h) == {p \in Recorded(h) : tunnel[p].handle /\ row[h].status = "open"}

\* Every tunnel of the hublot whose live handle this server holds.
Handled(h) == {p \in Recorded(h) : tunnel[p].handle}

\* A kill timer follows; without any handle the row is closed at once.
CloseKill(h) ==
  /\ CloseStep(h, "kill", IF Handled(h) = {} THEN "close" ELSE "no")
  /\ tunnel' = Told(Handled(h))
  /\ UNCHANGED row

CloseEnd(h) ==
  /\ CloseStep(h, "close", "no")
  /\ Transition(h, "closed", "closed", NoTunnel)
  /\ UNCHANGED tunnel

-----------------------------------------------------------------------------
(* The supervisor *)

\* Mutant: ticks do not wait for the reconciliation in progress.
NeverReconciling == FALSE

Reconciling == sweep.step # "no"

\* The interval ticks; it is cleared when the shutdown begins.
Sweep ==
  /\ ~Reconciling /\ Accepting
  /\ sweep' = [NoSweep EXCEPT !.step = "list"]
  /\ Starts(<<"sweep">>)
  /\ UNCHANGED <<row, tunnel, opener, exit, request, reopens, closer, shutdown, restarts>>

\* The sweep goes on with the hublots of todo, or ends.
SweepGoesOn(new) ==
  /\ sweep' = IF new.todo = {} THEN NoSweep ELSE [new EXCEPT !.step = "procs"]
  /\ IF new.todo = {} THEN Ends ELSE Awaits(<<"sweep">>)

SweepAwaits(new) ==
  /\ sweep' = new /\ Awaits(<<"sweep">>)

SweepStep(from) ==
  /\ Turn(<<"sweep">>) /\ sweep.step = from
  /\ UNCHANGED <<opener, exit, request, reopens, closer, shutdown, restarts>>

\* Mutant: the startup reconciliation passes over opening hublots too.
NotOpening(h) == row[h].status # "opening"

\* Openings in progress are left alone, but not those of an earlier process.
InScope(h) == sweep.all \/ row[h].status # "opening"

SweepList ==
  /\ SweepStep("list")
  /\ SweepGoesOn([sweep EXCEPT
       !.todo = {h \in Hublots : /\ row[h].desired = "open"
                                 /\ row[h].status \notin {"closing", "closed"}
                                 /\ InScope(h)},
       !.seen = [h \in Hublots |-> row[h].status]])
  /\ UNCHANGED <<row, tunnel>>

Subject == CHOOSE h \in sweep.todo : TRUE
Next1 == [sweep EXCEPT !.todo = @ \ {Subject}]

\* The identities of the recorded processes are verified.
SweepProcs ==
  /\ SweepStep("procs")
  /\ SweepAwaits([sweep EXCEPT !.step = "find",
                    !.lost = {p \in Current(Subject) : ~Alive(p)},
                    !.healthy = \E p \in Current(Subject) : Alive(p)])
  /\ UNCHANGED <<row, tunnel>>

\* Mutant: only a process seen to be lost retires the hublot.
LostNow == /\ sweep.lost # {}
           /\ row[Subject].status = sweep.seen[Subject]
           /\ row[Subject].desired = "open"

\* A hublot that a request closed or reopened meanwhile is left alone; the
\* rows have no updated_at, so a status that came back goes unnoticed.
Unattended == /\ ~sweep.healthy
              /\ row[Subject].status = sweep.seen[Subject]
              /\ row[Subject].desired = "open"

\* The lost processes are recorded, and the row is read again.
SweepFind ==
  /\ SweepStep("find")
  /\ tunnel' = [p \in Tunnels |-> IF p \in sweep.lost THEN [tunnel[p] EXCEPT !.rec = "ended"]
                                                      ELSE tunnel[p]]
  /\ IF Unattended THEN SweepAwaits([sweep EXCEPT !.step = "close"]) ELSE SweepGoesOn(Next1)
  /\ UNCHANGED row

SweepClose ==
  /\ SweepStep("close")
  /\ Transition(Subject, "closed", "closed", NoTunnel)
  /\ SweepGoesOn(Next1)
  /\ UNCHANGED tunnel

-----------------------------------------------------------------------------
(* Shutdown, crash and restart *)

ShutdownFrame == UNCHANGED <<opener, exit, request, reopens, closer, sweep, restarts>>

\* A signal: no more requests and sweeps begin, those in progress go on.
Signal ==
  /\ Accepting /\ restarts < MaxRestarts
  /\ shutdown' = [Serving EXCEPT !.step = "list"]
  /\ Starts(<<"shutdown">>)
  /\ UNCHANGED <<row, tunnel>> /\ ShutdownFrame

ShutdownStep(from) == Turn(<<"shutdown">>) /\ shutdown.step = from /\ ShutdownFrame

\* Once every row is marked its targets are signalled and waited for.
ShutdownGoesOn(new) ==
  IF new.todo = {}
  THEN /\ shutdown' = [new EXCEPT !.step = "wait"]
       /\ tunnel' = Told(new.targets) /\ Ends
  ELSE /\ shutdown' = [new EXCEPT !.step = "mark"]
       /\ Awaits(<<"shutdown">>) /\ UNCHANGED tunnel

ShutdownList ==
  /\ ShutdownStep("list")
  /\ ShutdownGoesOn([shutdown EXCEPT !.todo = {h \in Hublots : row[h].desired = "open"}])
  /\ UNCHANGED row

NextRow == CHOOSE h \in shutdown.todo : TRUE

\* A row that is wanted open is marked closing and its live processes listed.
ShutdownMark ==
  /\ ShutdownStep("mark")
  /\ Transition(NextRow, "closing", "closed", NoTunnel)
  /\ ShutdownGoesOn([shutdown EXCEPT !.todo = @ \ {NextRow},
                       !.targets = @ \cup {p \in Current(NextRow) : Alive(p)}])

\* The wait ends when the targets are gone, killed or given up.
ShutdownWaits ==
  /\ shutdown.step = "wait"
  /\ shutdown' = [shutdown EXCEPT !.step = "settle",
                     !.remaining = {p \in shutdown.targets : Alive(p)}]
  /\ Starts(<<"shutdown">>)
  /\ UNCHANGED <<row, tunnel>> /\ ShutdownFrame

\* The rows of the processes that stopped are finished, and closing hublots
\* closed, or interrupted when a process would not stop.
ShutdownSettle ==
  /\ ShutdownStep("settle")
  /\ tunnel' = [p \in Tunnels |-> IF p \in shutdown.targets \ shutdown.remaining
                                  THEN [tunnel[p] EXCEPT !.rec = "ended"] ELSE tunnel[p]]
  /\ row' = [h \in Hublots |->
       IF row[h].status # "closing" THEN row[h]
       ELSE [row[h] EXCEPT !.status = IF Of(h) \cap shutdown.remaining # {} THEN "interrupted"
                                                                            ELSE "closed"]]
  /\ shutdown' = [Serving EXCEPT !.step = "done"]
  /\ Ends

\* The server process ends; its tunnels may outlive it, without handles.
ServerEnds(survivors) ==
  /\ restarts' = restarts + 1
  /\ tunnel' = [p \in Tunnels |->
       [tunnel[p] EXCEPT !.handle = FALSE, !.reopen = FALSE,
                         !.os = IF @ = "unborn" \/ p \in survivors THEN @ ELSE "dead"]]
  /\ opener' = [p \in Tunnels |-> IF p \in survivors THEN "outlived" ELSE "no"]
  /\ exit' = [p \in Tunnels |-> NoExit]
  /\ request' = [h \in Hublots |-> "no"]
  /\ reopens' = {}
  /\ closer' = [h \in Hublots |-> "no"]
  /\ sweep' = FirstSweep
  /\ shutdown' = Serving
  /\ queue' = <<<<"sweep">>>>
  /\ UNCHANGED row

Survivors == SUBSET {p \in Tunnels : Alive(p)}

\* It exits after a shutdown or dies at any time, and is started again.
Exits == shutdown.step = "done" /\ \E S \in Survivors : ServerEnds(S)
Crash == restarts < MaxRestarts /\ \E S \in Survivors : ServerEnds(S)

-----------------------------------------------------------------------------

RequestSteps(h) == \/ Reserve(h) \/ ReopenCheck(h) \/ Retire(h)
                   \/ Mark(h) \/ Check(h) \/ Spawn(h)
OpenerSteps(p) == \/ Identify(p) \/ Persist(p) \/ Confirm(p) \/ RecordOpen(p)
                  \/ FindOpening(p) \/ RecordFailed(p)
ExitSteps(p) == ExitFinish(p) \/ ExitLook(p) \/ ExitList(p) \/ ExitRecord(p)
CloseSteps(h) == CloseFind(h) \/ CloseMark(h) \/ CloseKill(h) \/ CloseEnd(h)
SweepSteps == SweepList \/ SweepProcs \/ SweepFind \/ SweepClose
ShutdownSteps == ShutdownList \/ ShutdownMark \/ ShutdownSettle

\* The store serves the first task in its queue.
Store == \/ \E h \in Hublots : RequestSteps(h) \/ CloseSteps(h)
         \/ \E p \in Tunnels : OpenerSteps(p) \/ ExitSteps(p)
         \/ SweepSteps \/ ShutdownSteps

\* What ends without the store: the timers of openTunnel and of the shutdown.
Timers == \/ \E p \in Tunnels : UrlTimeout(p) \/ PollAnswers(p) \/ PollFails(p)
          \/ ShutdownWaits \/ Exits

Next ==
  \/ Store
  \/ \E h \in Hublots : Post(h) \/ Reopen(h) \/ Delete(h)
  \/ \E p \in Tunnels : Output(p) \/ Dies(p)
  \/ Timers \/ Sweep \/ Signal \/ Crash

Spec == Init /\ [][Next]_vars

\* The store answers, the supervisor ticks, timers fire and probes end; each
\* of them is awaited at most once per process, so that none can starve another.
\* Nobody has to send a request, and a process need not die when it is told to.
Fairness == WF_vars(Store) /\ WF_vars(Sweep) /\ WF_vars(Timers)

FairSpec == Spec /\ Fairness

-----------------------------------------------------------------------------
(* Properties *)

Tasks == ({"request", "close"} \X Hublots) \cup ({"open", "exit"} \X Tunnels)
           \cup {<<"sweep">>, <<"shutdown">>}

\* Every variable keeps its type, and no task waits for two operations.
TypeOK ==
  /\ row \in [Hublots -> [status : {"absent", "opening", "open", "closing", "closed",
                                    "failed", "interrupted"},
                          desired : {"open", "closed"}, url : Tunnels \cup {NoTunnel}]]
  /\ tunnel \in [Tunnels -> [os : {"unborn", "live", "told", "dead"},
                             rec : {"none", "running", "ended"}, handle : BOOLEAN,
                             reopen : BOOLEAN, of : Hublots \cup {"none"}]]
  /\ opener \in [Tunnels -> {"no", "spawned", "persist", "url", "confirm", "poll", "open", "fail",
                             "failed", "done", "hung", "outlived"}]
  /\ exit \in [Tunnels -> [step : {"no", "finish", "look", "list", "record"},
                           desired : {"open", "closed"}]]
  /\ request \in [Hublots -> {"no", "reserve", "reopen", "retire", "mark", "check", "spawn"}]
  /\ closer \in [Hublots -> {"no", "find", "mark", "kill", "close"}]
  /\ sweep.step \in {"no", "list", "procs", "find", "close"}
  /\ shutdown.step \in {"no", "list", "mark", "wait", "settle", "done"}
  /\ reopens \subseteq Hublots
  /\ \A i \in 1..Len(queue) : queue[i] \in Tasks /\ \A j \in 1..(i - 1) : queue[i] # queue[j]

\* A tunnel process nobody has told to exit is never forgotten: its row says it
\* runs, so that a reopen, the supervisor and the shutdown find it, or its
\* opener is about to write that row (openTunnel and persistHublotProcessIdentity).
\* Only a server that dies between the spawn and that write loses one.
NoForgottenTunnel ==
  \A p \in Tunnels :
    tunnel[p].os = "live" => \/ tunnel[p].rec = "running"
                             \/ tunnel[p].rec = "none" /\ opener[p] \in {"spawned", "persist", "outlived"}

\* While the server accepts requests, a tunnel it has opened to the end and not
\* told to exit is never behind a closed row: closeTunnel signals every tunnel
\* of the hublot, the supervisor closes only a hublot without a live one, and
\* the exit of an older tunnel does not close the row of a newer one.
ClosedIsStopped ==
  \A p \in Tunnels :
    Accepting /\ tunnel[p].os = "live" /\ tunnel[p].handle /\ opener[p] = "done"
      => row[tunnel[p].of].status # "closed"

\* What a row says is wanted agrees with what it says is: an open or opening
\* hublot is one the supervisor and the shutdown look at, and a closing or
\* closed one is not, although openers, exit listeners and DELETEs overwrite
\* each other with desired states they read earlier.
DesiredAgrees ==
  \A h \in Hublots :
    /\ row[h].status \in {"open", "opening"} => row[h].desired = "open"
    /\ row[h].status \in {"closing", "closed"} => row[h].desired = "closed"

\* An open hublot whose tunnels are all gone does not stay open: the exit
\* listener or, after a restart or a stale probe, the supervisor retires it.
DeadTunnelRetired ==
  \A h \in Hublots :
    (row[h].status = "open" /\ \A p \in Of(h) : ~Alive(p)) ~> row[h].status # "open"

\* A tunnel of h outlived the server process that spawned it.
Adopted(h) == \E p \in Of(h) : opener[p] = "outlived"

\* No hublot stays "opening" for ever: the URL timer and the public probe bound
\* openTunnel, and the startup reconciliation retires what a crash left.  Only
\* a tunnel that outlived the server that was opening it keeps its row so.
OpeningSettles ==
  \A h \in Hublots : row[h].status = "opening" ~> row[h].status # "opening" \/ Adopted(h)

\* A shutdown has told every tunnel to exit before the server exits, as the
\* plan asks of shutdownHublots; it misses a tunnel whose opener has spawned it
\* and not yet recorded it when the rows are read.
ShutdownStopsTunnels ==
  shutdown.step = "done" => \A p \in Tunnels : tunnel[p].os # "live"

=============================================================================
