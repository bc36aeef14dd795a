------------------------------ MODULE HotReload ------------------------------
(***************************************************************************)
(* Hot reload: the stable core of server/server.mjs watches the module     *)
(* files, loads a candidate application (app.mjs), swaps it in, and        *)
(* retires the one it replaces; a signal shuts the process down.           *)
(*                                                                         *)
(* A candidate's resources and its request count are those of              *)
(* createDisposableScope and createRequestLifecycle.  One action is one    *)
(* stretch of JavaScript between two awaits of something that takes time.  *)
(***************************************************************************)
EXTENDS Naturals

CONSTANTS Requests,  \* requests that may be in their handlers at once
          MaxEdits   \* bound on saved changes of the module files

ASSUME ConstantsAssumption == MaxEdits \in Nat

VARIABLES
  disk,           \* the version of the module files
  pendingReload,  \* a change the core has noticed and not yet loaded
  reloadTimer,    \* the debounce timer is armed
  generation,     \* the last generation token allocated
  loading,        \* the loadApp call in progress
  candidate,      \* the application of each generation
  app,            \* the active generation
  serving,        \* the generation whose handler a request is in, 0 for none
  shutdown        \* how far shutdown() has come

vars == <<disk, pendingReload, reloadTimer, generation, loading, candidate, app,
          serving, shutdown>>

Generations == 1..(MaxEdits + 1)

\* What activation acquires, in this order; cleanups run in the reverse order.
\* They are the session catalog, the watchdog and reaper intervals, and the
\* OAuth flows with the credential refreshes.
Resources == {"catalog", "timers", "flows"}
Order == [catalog |-> 1, timers |-> 2, flows |-> 3]
Acquired(n) == {x \in Resources : Order[x] <= n}

Idle == [step |-> "idle", gen |-> 0, target |-> 0, todo |-> {}, retries |-> 0]

\* code is the disk version a candidate was loaded from, active that its
\* handlers exist, accepting and started are the flags of its request
\* lifecycle and of its scope, cleanups what the scope has still to release.
Unborn == [code |-> 0, active |-> FALSE, accepting |-> TRUE, started |-> FALSE,
           cleanups |-> {}]

\* The first application is loaded before the core watches or listens.
Init ==
  /\ disk = 0
  /\ pendingReload = FALSE /\ reloadTimer = FALSE
  /\ generation = 1
  /\ loading = Idle
  /\ candidate = [g \in Generations |->
       IF g = 1 THEN [Unborn EXCEPT !.active = TRUE, !.cleanups = Resources] ELSE Unborn]
  /\ app = 1
  /\ serving = [q \in Requests |-> 0]
  /\ shutdown = "no"

Busy == loading.step # "idle"

Serves(g) == \E q \in Requests : serving[q] = g

-----------------------------------------------------------------------------
(* Noticing changes *)

\* A change is saved and the directory watcher, unless closed, schedules it.
Edit ==
  /\ disk < MaxEdits
  /\ disk' = disk + 1
  /\ \/ shutdown = "no" /\ pendingReload' = TRUE /\ reloadTimer' = TRUE
     \/ shutdown # "no" /\ UNCHANGED <<pendingReload, reloadTimer>>
  /\ UNCHANGED <<generation, loading, candidate, app, serving, shutdown>>

\* Mutant: a second load starts while one is in progress.
NeverBusy == FALSE

\* drainReloads lets one load run at a time.
ReloadInProgress == Busy

ReloadTimer ==
  /\ reloadTimer
  /\ reloadTimer' = FALSE
  /\ \/ /\ ~ReloadInProgress /\ pendingReload
        /\ pendingReload' = FALSE
        /\ generation' = generation + 1
        /\ loading' = [Idle EXCEPT !.step = "build", !.gen = generation + 1]
        /\ candidate' = [candidate EXCEPT ![generation + 1].code = disk]
     \/ /\ ReloadInProgress \/ ~pendingReload
        /\ UNCHANGED <<pendingReload, generation, loading, candidate>>
  /\ UNCHANGED <<disk, app, serving, shutdown>>

\* Mutant: a change that came during the load waits for the next one.
EndWithoutRearming ==
  /\ loading' = Idle
  /\ UNCHANGED <<pendingReload, reloadTimer>>

\* Mutant: a change counts as pending until a load of it succeeds.
EndReschedules ==
  /\ loading' = Idle
  /\ pendingReload' = TRUE /\ reloadTimer' = TRUE

\* The end of drainReloads: a change that came during the load is scheduled.
LoadEnds ==
  /\ loading' = Idle
  /\ reloadTimer' = (reloadTimer \/ (pendingReload /\ shutdown = "no"))
  /\ UNCHANGED pendingReload

-----------------------------------------------------------------------------
(* Building and activating the candidate *)

\* The modules do not import, or buildCandidate rejects.
BuildFails ==
  /\ loading.step = "build"
  /\ LoadEnds
  /\ UNCHANGED <<disk, generation, candidate, app, serving, shutdown>>

\* Mutant: the failure disposes the active application.
DiscardActive(g, held, retries) ==
  /\ candidate' = [candidate EXCEPT ![app].accepting = FALSE, ![app].started = TRUE]
  /\ loading' = [loading EXCEPT !.step = "dispose", !.target = app, !.todo = held,
                                !.retries = retries]
  /\ UNCHANGED <<pendingReload, reloadTimer>>

\* Dispose candidate g, which holds the resources held: its callbacks are inert
\* from now on, and the cleanups are tried retries + 1 times.
Discard(g, held, retries) ==
  /\ candidate' = [candidate EXCEPT ![g].accepting = FALSE, ![g].started = TRUE,
                                    ![g].cleanups = held]
  /\ loading' = [loading EXCEPT !.step = "dispose", !.target = g, !.todo = held,
                                !.retries = retries]
  /\ UNCHANGED <<pendingReload, reloadTimer>>

Built ==
  /\ loading.step = "build"
  /\ \/ shutdown # "no" /\ Discard(loading.gen, {}, 0)
     \/ /\ shutdown = "no"
        /\ loading' = [loading EXCEPT !.step = "activate"]
        /\ UNCHANGED <<pendingReload, reloadTimer, candidate>>
  /\ UNCHANGED <<disk, generation, app, serving, shutdown>>

\* The first part of activation, up to the runner manager's own awaits.
OpenCatalog ==
  /\ loading.step = "activate" /\ candidate[loading.gen].cleanups = {}
  /\ candidate' = [candidate EXCEPT ![loading.gen].cleanups = {"catalog"}]
  /\ UNCHANGED <<disk, pendingReload, reloadTimer, generation, loading, app, serving, shutdown>>

\* Activation throws with any of its resources acquired.  activate() disposes
\* the scope and so, once more, does the core's disposeFailedCandidate.
ActivationFails ==
  /\ loading.step = "activate"
  /\ \E n \in 0..3 :
       /\ candidate[loading.gen].cleanups \subseteq Acquired(n)
       /\ Discard(loading.gen, Acquired(n), 1)
  /\ UNCHANGED <<disk, generation, app, serving, shutdown>>

RETIREMENT_MAX_ATTEMPTS == 3

\* Mutant: the replaced application is disposed without waiting for its requests.
SwapWithoutDrain(g) ==
  /\ app' = g
  /\ candidate' = [candidate EXCEPT
       ![g].active = TRUE, ![g].cleanups = Resources,
       ![app].accepting = FALSE, ![app].started = TRUE]
  /\ loading' = [loading EXCEPT !.step = "dispose", !.target = app,
       !.todo = candidate[app].cleanups, !.retries = RETIREMENT_MAX_ATTEMPTS - 1]

\* The commit point.  The replaced application refuses requests at once, and
\* its scope is disposed when the last of its requests has left its handler.
Swap(g) ==
  /\ app' = g
  /\ candidate' = [candidate EXCEPT
       ![g].active = TRUE, ![g].cleanups = Resources,
       ![app].accepting = FALSE, ![app].started = ~Serves(app)]
  /\ loading' = [loading EXCEPT
       !.step = IF Serves(app) THEN "drain" ELSE "dispose", !.target = app,
       !.todo = candidate[app].cleanups, !.retries = RETIREMENT_MAX_ATTEMPTS - 1]

\* Mutant: shutdown is not looked at again once the candidate is active.
NeverCancelled == FALSE

Cancelled == shutdown # "no"

\* The runner manager's awaits are over: the rest of activation runs through to
\* the swap, unless shutdown began meanwhile.
Activated ==
  /\ loading.step = "activate" /\ candidate[loading.gen].cleanups # {}
  /\ \/ Cancelled /\ Discard(loading.gen, Resources, 0) /\ UNCHANGED app
     \/ ~Cancelled /\ Swap(loading.gen) /\ UNCHANGED <<pendingReload, reloadTimer>>
  /\ UNCHANGED <<disk, generation, serving, shutdown>>

-----------------------------------------------------------------------------
(* Disposing *)

\* One cleanup settles; one that fails is kept for another attempt.  Clearing
\* an interval does not fail.
Cleanup ==
  /\ loading.step = "dispose"
  /\ \E x \in loading.todo :
       /\ \A y \in loading.todo : Order[y] <= Order[x]
       /\ loading' = [loading EXCEPT !.todo = @ \ {x}]
       /\ \/ candidate' = [candidate EXCEPT ![loading.target].cleanups = @ \ {x}]
          \/ x # "timers" /\ UNCHANGED candidate
  /\ UNCHANGED <<disk, pendingReload, reloadTimer, generation, app, serving, shutdown>>

\* Mutant: attempts are not counted.
RetryForever == TRUE

MayRetry == loading.retries > 0

\* Every cleanup was tried.  Retirement retries the failed ones after a delay
\* (disposeFailedCandidate at once), a bounded number of times.
Disposed ==
  /\ loading.step = "dispose" /\ loading.todo = {}
  /\ LET left == candidate[loading.target].cleanups
     IN  \/ /\ left # {} /\ MayRetry
            /\ loading' = [loading EXCEPT !.todo = left, !.retries = IF @ > 0 THEN @ - 1 ELSE @]
            /\ UNCHANGED <<pendingReload, reloadTimer>>
         \/ left = {} /\ LoadEnds
         \/ left # {} /\ ~MayRetry /\ LoadEnds
  /\ UNCHANGED <<disk, generation, candidate, app, serving, shutdown>>

-----------------------------------------------------------------------------
(* Requests and shutdown *)

\* The HTTP callback reads `app` once and enters its handler.
Admit(q) ==
  /\ serving[q] = 0
  /\ shutdown \notin {"closing", "exited"}
  /\ candidate[app].accepting
  /\ serving' = [serving EXCEPT ![q] = app]
  /\ UNCHANGED <<disk, pendingReload, reloadTimer, generation, loading, candidate, app, shutdown>>

\* A handler settles.  The last one of a draining generation releases its scope.
Settle(q) ==
  /\ serving[q] # 0 /\ shutdown # "exited"
  /\ serving' = [serving EXCEPT ![q] = 0]
  /\ LET last == loading.step = "drain" /\ serving[q] = loading.target
                 /\ \A p \in Requests \ {q} : serving[p] # loading.target
     IN  \/ /\ last
            /\ candidate' = [candidate EXCEPT ![loading.target].started = TRUE]
            /\ loading' = [loading EXCEPT !.step = "dispose"]
         \/ ~last /\ UNCHANGED <<candidate, loading>>
  /\ UNCHANGED <<disk, pendingReload, reloadTimer, generation, app, shutdown>>

\* Mutant: the debounce timer is left armed.
ShutdownLeavesTimer ==
  /\ shutdown = "no"
  /\ shutdown' = "waiting"
  /\ UNCHANGED <<disk, pendingReload, reloadTimer, generation, loading, candidate, app, serving>>

\* SIGINT or SIGTERM: watchers and debounce timer are closed, and the reload in
\* progress is awaited.
Shutdown ==
  /\ shutdown = "no"
  /\ shutdown' = "waiting"
  /\ pendingReload' = FALSE /\ reloadTimer' = FALSE
  /\ UNCHANGED <<disk, generation, loading, candidate, app, serving>>

StopApplication ==
  /\ shutdown = "waiting" /\ ~Busy
  /\ shutdown' = "stopping"
  /\ UNCHANGED <<disk, pendingReload, reloadTimer, generation, loading, candidate, app, serving>>

\* The stop hooks have settled or timed out; connections are closed.
HooksSettle ==
  /\ shutdown = "stopping"
  /\ shutdown' = "closing"
  /\ UNCHANGED <<disk, pendingReload, reloadTimer, generation, loading, candidate, app, serving>>

\* The store is flushed and closed, and the process exits.
CloseStore ==
  /\ shutdown = "closing"
  /\ shutdown' = "exited"
  /\ UNCHANGED <<disk, pendingReload, reloadTimer, generation, loading, candidate, app, serving>>

-----------------------------------------------------------------------------
Load ==
  \/ BuildFails \/ Built \/ OpenCatalog \/ ActivationFails \/ Activated
  \/ Cleanup \/ Disposed

Stop == Shutdown \/ StopApplication \/ HooksSettle \/ CloseStore

Next ==
  \/ Edit \/ ReloadTimer \/ Load \/ Stop
  \/ \E q \in Requests : Admit(q) \/ Settle(q)

Spec == Init /\ [][Next]_vars

\* Timers fire, imports and cleanups settle, handlers finish, and a shutdown
\* that began runs on.  Nobody owes an edit, a request or a signal.
Fairness ==
  /\ WF_vars(ReloadTimer)
  /\ WF_vars(Load)
  /\ WF_vars(StopApplication \/ HooksSettle \/ CloseStore)
  /\ \A q \in Requests : WF_vars(Settle(q))

FairSpec == Spec /\ Fairness

-----------------------------------------------------------------------------
(* Properties *)

CandidateType ==
  [code : 0..MaxEdits, active : BOOLEAN, accepting : BOOLEAN, started : BOOLEAN,
   cleanups : SUBSET Resources]

LoadingType ==
  [step : {"idle", "build", "activate", "drain", "dispose"}, gen : Generations \cup {0},
   target : Generations \cup {0}, todo : SUBSET Resources,
   retries : 0..(RETIREMENT_MAX_ATTEMPTS - 1)]

\* Every part of the core's and the candidates' state has its shape.
TypeOK ==
  /\ disk \in 0..MaxEdits
  /\ pendingReload \in BOOLEAN /\ reloadTimer \in BOOLEAN
  /\ generation \in Generations
  /\ loading \in LoadingType
  /\ candidate \in [Generations -> CandidateType]
  /\ app \in Generations
  /\ serving \in [Requests -> Generations \cup {0}]
  /\ shutdown \in {"no", "waiting", "stopping", "closing", "exited"}

\* A request in its handler has every resource of the generation it entered,
\* however many reloads, failed candidates and cleanup retries go by.
RequestsKeepResources ==
  \A q \in Requests : serving[q] # 0 =>
    /\ ~candidate[serving[q]].started
    /\ candidate[serving[q]].cleanups = Resources

\* The active application can take the next request: it is activated, not
\* retired, and holds all its resources, whatever became of later candidates.
ActiveIsWhole ==
  /\ candidate[app].active /\ candidate[app].accepting /\ ~candidate[app].started
  /\ candidate[app].cleanups = Resources

\* The watchdog and reaper intervals of generation g run.
Ticks(g) == "timers" \in candidate[g].cleanups /\ ~candidate[g].started

\* Between reloads only the active generation runs: a failed or replaced one has
\* no interval, no request, and no callback that is not inert.
OnlyActiveRuns ==
  ~Busy => \A g \in Generations \ {app} :
    /\ "timers" \notin candidate[g].cleanups
    /\ candidate[g].cleanups # {} => candidate[g].started
    /\ ~Serves(g)

\* Once shutdown stops the application no candidate is being built, activated
\* or retired: nothing of a reload runs against the store it closes.
TeardownIsAlone ==
  shutdown \in {"stopping", "closing", "exited"} => ~Busy

\* Once shutdown has begun, the application it will stop stays the active one.
NoSwapInShutdown == [][shutdown # "no" => app' = app]_vars

\* Every saved change is loaded by an attempt that started after it, also when
\* it is saved during a reload, unless the process shuts down.
EditsLoaded ==
  \A v \in 1..MaxEdits :
    disk >= v ~> (\E g \in Generations : candidate[g].code >= v) \/ shutdown # "no"

\* A shutdown ends, also one that begins during a reload whose cleanups fail.
ShutdownCompletes == shutdown = "waiting" ~> shutdown = "exited"

\* The generations a server has active or still draining.
Live == {g \in Generations : candidate[g].active /\ ~candidate[g].started}

Application ==
  INSTANCE ApplicationGenerations WITH current <- app, live <- Live

\* The core and its candidates keep the promise of ApplicationGenerations.
ImplementsGenerations == Application!Spec

\* runners.mjs:1011: one interval, cleared on hot reload so that ticks never
\* double up.
TicksNeverDoubleUp == \A g, h \in Generations : Ticks(g) /\ Ticks(h) => g = h
=============================================================================
