--------------------------- MODULE HotReload_proofs ---------------------------
(* Theorems about HotReload, for any number of requests and of changes. *)
EXTENDS HotReload, TLAPS

(* The inductive invariant *)

\* A load is started only for a change noticed since the last one was started,
\* so there are never more generations than saved changes and the first one.
LoadsFollowEdits ==
  /\ generation <= disk + 1
  /\ pendingReload => generation <= disk

\* A generation that no load has been started for has acquired nothing.
Untouched == \A g \in Generations : g > generation => candidate[g] = Unborn

Loading == loading.step \in {"build", "activate"}
Retiring == loading.step \in {"drain", "dispose"}

\* The candidate being loaded is newer than the active application, is not yet
\* the application of any request, and acquires nothing before it is activated.
CandidateIsNew ==
  /\ app <= generation
  /\ Loading =>
       /\ loading.gen = generation /\ app < generation
       /\ ~candidate[generation].active /\ ~candidate[generation].started
       /\ candidate[generation].accepting
       /\ ~Serves(generation)
       /\ loading.step = "build" => candidate[generation].cleanups = {}

\* The application being retired or discarded is not the active one.  While it
\* drains it has everything; when its cleanups run it has no request, and its
\* intervals are among what is still to be released.
RetiredIsDone ==
  Retiring =>
    /\ loading.target \in Generations \ {app}
    /\ loading.target <= generation
    /\ loading.step = "drain" =>
         /\ candidate[loading.target].active /\ ~candidate[loading.target].started
         /\ candidate[loading.target].cleanups = Resources
         /\ loading.todo = Resources
    /\ loading.step = "dispose" =>
         /\ candidate[loading.target].started
         /\ ~Serves(loading.target)
         /\ "timers" \in candidate[loading.target].cleanups => "timers" \in loading.todo

\* The generation that the load in progress works on, besides the active one.
Involved(g) ==
  \/ Loading /\ g = loading.gen
  \/ Retiring /\ g = loading.target

\* Every other generation is at rest.
OthersRest ==
  \A g \in Generations \ {app} : ~Involved(g) =>
    /\ "timers" \notin candidate[g].cleanups
    /\ candidate[g].cleanups # {} \/ candidate[g].active => candidate[g].started
    /\ ~Serves(g)

\* Shutdown leaves no timer that could start another load.
NothingScheduled == shutdown # "no" => ~pendingReload /\ ~reloadTimer

\* What the generations are doing, apart from the shape of the state.
Orderly ==
  /\ LoadsFollowEdits /\ Untouched /\ CandidateIsNew /\ RetiredIsDone /\ OthersRest
  /\ ActiveIsWhole
  /\ NothingScheduled /\ TeardownIsAlone

IInv == TypeOK /\ Orderly

-----------------------------------------------------------------------------
(* Type correctness *)

\* A load in progress stays well formed whatever step it goes to.
LEMMA LoadingTypes ==
  ASSUME NEW x \in LoadingType, NEW todo \in SUBSET Resources,
         NEW n \in 0..(RETIREMENT_MAX_ATTEMPTS - 1), NEW g \in Generations
  PROVE  /\ [x EXCEPT !.step = "activate"] \in LoadingType
         /\ [x EXCEPT !.step = "dispose"] \in LoadingType
         /\ [x EXCEPT !.todo = todo] \in LoadingType
         /\ [x EXCEPT !.todo = todo, !.retries = n] \in LoadingType
         /\ \A step \in {"dispose", "drain"} :
              [x EXCEPT !.step = step, !.target = g, !.todo = todo, !.retries = n] \in LoadingType
BY DEF LoadingType

\* A candidate stays well formed when it is activated, retired or discarded.
LEMMA CandidateTypes ==
  ASSUME NEW x \in CandidateType, NEW a \in BOOLEAN, NEW b \in BOOLEAN, NEW held \in SUBSET Resources
  PROVE  /\ [x EXCEPT !.active = a, !.cleanups = held] \in CandidateType
         /\ [x EXCEPT !.accepting = a, !.started = b] \in CandidateType
         /\ [x EXCEPT !.accepting = a, !.started = b, !.cleanups = held] \in CandidateType
BY DEF CandidateType

\* No load, and a load that has just been started, are well formed.
LEMMA IdleType ==
  /\ Idle \in LoadingType
  /\ \A g \in Generations : [Idle EXCEPT !.step = "build", !.gen = g] \in LoadingType
<1>1. 0 \in 0..(RETIREMENT_MAX_ATTEMPTS - 1) /\ {} \in SUBSET Resources
  BY DEF RETIREMENT_MAX_ATTEMPTS
<1>2. ASSUME NEW z \in 0..(RETIREMENT_MAX_ATTEMPTS - 1), NEW o \in Generations \cup {0},
             NEW e \in SUBSET Resources, NEW x,
             x = [step |-> "idle", gen |-> o, target |-> o, todo |-> e, retries |-> z]
      PROVE  x \in LoadingType /\ \A g \in Generations : [x EXCEPT !.step = "build", !.gen = g] \in LoadingType
  BY <1>2 DEF LoadingType
<1>3. 0 \in Generations \cup {0}
  OBVIOUS
<1> QED
  BY <1>1, <1>2, <1>3 DEF Idle

\* The end of a load.
LEMMA LoadEndsType ==
  ASSUME TypeOK, LoadEnds
  PROVE  loading' \in LoadingType /\ pendingReload' \in BOOLEAN /\ reloadTimer' \in BOOLEAN
BY IdleType DEF LoadEnds, TypeOK

\* The disposal of a failed candidate.
LEMMA DiscardType ==
  ASSUME TypeOK, NEW g \in Generations, NEW held \in SUBSET Resources,
         NEW n \in 0..(RETIREMENT_MAX_ATTEMPTS - 1), Discard(g, held, n)
  PROVE  /\ loading' \in LoadingType /\ candidate' \in [Generations -> CandidateType]
         /\ pendingReload' \in BOOLEAN /\ reloadTimer' \in BOOLEAN
<1>1. loading' \in LoadingType
  <2>1. loading \in LoadingType
    BY DEF TypeOK
  <2>2. loading' = [loading EXCEPT !.step = "dispose", !.target = g, !.todo = held, !.retries = n]
    BY DEF Discard
  <2> QED
    BY <2>1, <2>2, LoadingTypes
<1>2. candidate' \in [Generations -> CandidateType]
  <2> DEFINE x == [candidate[g] EXCEPT !.accepting = FALSE, !.started = TRUE, !.cleanups = held]
  <2>1. candidate \in [Generations -> CandidateType]
    BY DEF TypeOK
  <2>2. x \in CandidateType
    BY <2>1, CandidateTypes
  <2>3. candidate' = [candidate EXCEPT ![g] = x]
    BY <2>1 DEF Discard
  <2> HIDE DEF x
  <2> QED
    BY <2>1, <2>2, <2>3
<1> QED
  BY <1>1, <1>2 DEF Discard, TypeOK

\* The commit point.
LEMMA SwapType ==
  ASSUME TypeOK, NEW g \in Generations, Swap(g)
  PROVE  /\ app' \in Generations
         /\ loading' \in LoadingType /\ candidate' \in [Generations -> CandidateType]
<1>1. RETIREMENT_MAX_ATTEMPTS - 1 \in 0..(RETIREMENT_MAX_ATTEMPTS - 1)
  BY DEF RETIREMENT_MAX_ATTEMPTS
<1>2. candidate[app].cleanups \in SUBSET Resources
  BY DEF TypeOK, CandidateType
<1>3. loading' \in LoadingType
  BY <1>1, <1>2, LoadingTypes DEF Swap, TypeOK
<1>4. ASSUME NEW a \in BOOLEAN, NEW b \in BOOLEAN, NEW e \in BOOLEAN,
             NEW held \in SUBSET Resources, NEW c,
             c = [candidate EXCEPT ![g].active = a, ![g].cleanups = held,
                                   ![app].accepting = e, ![app].started = b]
      PROVE  c \in [Generations -> CandidateType]
  <2>1. app \in Generations /\ candidate \in [Generations -> CandidateType]
    BY DEF TypeOK
  <2>2. DOMAIN c = Generations
    BY <1>4, <2>1
  <2>3. \A h \in Generations : c[h] \in CandidateType
    <3> DEFINE x == [candidate[g] EXCEPT !.active = a, !.cleanups = held]
               y == IF app = g THEN x ELSE candidate[app]
    <3>1. x \in CandidateType /\ y \in CandidateType
      BY <2>1, CandidateTypes
    <3>2. c[app] = [y EXCEPT !.accepting = e, !.started = b]
      BY <1>4, <2>1
    <3>3. \A h \in Generations \ {app} : c[h] = IF h = g THEN x ELSE candidate[h]
      BY <1>4, <2>1
    <3> HIDE DEF x, y
    <3>4. c[app] \in CandidateType
      BY <3>1, <3>2, CandidateTypes
    <3> QED
      BY <2>1, <3>1, <3>3, <3>4
  <2> QED
    BY <1>4, <2>1, <2>2, <2>3
<1>5. TRUE \in BOOLEAN /\ FALSE \in BOOLEAN /\ Resources \in SUBSET Resources
  OBVIOUS
<1>6. (~Serves(app)) \in BOOLEAN
  BY DEF Serves
<1>7. candidate' \in [Generations -> CandidateType]
  BY <1>4, <1>5, <1>6 DEF Swap
<1> QED
  BY <1>3, <1>7 DEF Swap, TypeOK

\* Every step of the core keeps its state and the candidates' well formed.
LEMMA StepType ==
  ASSUME TypeOK, LoadsFollowEdits, CandidateIsNew, RetiredIsDone, Next
  PROVE  TypeOK'
<1>1. CASE Edit
  <2>1. disk' \in 0..MaxEdits
    BY <1>1, ConstantsAssumption DEF Edit, TypeOK
  <2>2. pendingReload' \in BOOLEAN /\ reloadTimer' \in BOOLEAN
    BY <1>1, Zenon DEF Edit, TypeOK
  <2> QED
    BY <1>1, <2>1, <2>2 DEF Edit, TypeOK
<1>2. CASE ReloadTimer
  <2>1. ASSUME pendingReload, generation' = generation + 1
        PROVE  generation' \in Generations
    BY <2>1, ConstantsAssumption DEF TypeOK, LoadsFollowEdits, Generations
  <2>2. ASSUME NEW g \in Generations, candidate' = [candidate EXCEPT ![g].code = disk]
        PROVE  candidate' \in [Generations -> CandidateType]
    BY <2>2 DEF TypeOK, CandidateType
  <2> QED
    BY <1>2, <2>1, <2>2, IdleType DEF ReloadTimer, TypeOK
<1>3. CASE BuildFails
  BY <1>3, LoadEndsType DEF BuildFails, TypeOK
<1>4. loading.step \in {"build", "activate"} => loading.gen \in Generations
  BY DEF CandidateIsNew, Loading, TypeOK
<1>5. /\ 0 \in 0..(RETIREMENT_MAX_ATTEMPTS - 1) /\ 1 \in 0..(RETIREMENT_MAX_ATTEMPTS - 1)
      /\ {} \in SUBSET Resources /\ Resources \in SUBSET Resources
      /\ \A n \in 0..3 : Acquired(n) \in SUBSET Resources
  BY DEF RETIREMENT_MAX_ATTEMPTS, Acquired
<1>6. CASE Built
  BY <1>4, <1>5, <1>6, DiscardType, LoadingTypes DEF Built, TypeOK
<1>7. CASE OpenCatalog
  <2>1. candidate' \in [Generations -> CandidateType]
    BY <1>4, <1>7 DEF OpenCatalog, TypeOK, CandidateType, Resources
  <2> QED
    BY <1>7, <2>1 DEF OpenCatalog, TypeOK
<1>8. CASE ActivationFails
  BY <1>4, <1>5, <1>8, DiscardType DEF ActivationFails, TypeOK
<1>9. CASE Activated
  BY <1>4, <1>5, <1>9, DiscardType, SwapType DEF Activated, TypeOK
<1>10. CASE Cleanup
  <2>1. loading.target \in Generations
    BY <1>10 DEF Cleanup, RetiredIsDone, Retiring
  <2>2. PICK x \in loading.todo :
          /\ loading' = [loading EXCEPT !.todo = @ \ {x}]
          /\ \/ candidate' = [candidate EXCEPT ![loading.target].cleanups = @ \ {x}]
             \/ UNCHANGED candidate
    BY <1>10 DEF Cleanup
  <2>3. candidate' \in [Generations -> CandidateType]
    BY <2>1, <2>2 DEF TypeOK, CandidateType
  <2>4. loading' \in LoadingType
    BY <2>2 DEF TypeOK, LoadingType
  <2> QED
    BY <1>10, <2>3, <2>4 DEF Cleanup, TypeOK
<1>11. CASE Disposed
  <2>1. loading.target \in Generations
    BY <1>11 DEF Disposed, RetiredIsDone, Retiring
  <2>2. candidate[loading.target].cleanups \in SUBSET Resources
    BY <2>1 DEF TypeOK, CandidateType
  <2>3. loading.retries \in 0..(RETIREMENT_MAX_ATTEMPTS - 1)
    BY DEF TypeOK, LoadingType
  <2>4. (IF loading.retries > 0 THEN loading.retries - 1 ELSE loading.retries)
          \in 0..(RETIREMENT_MAX_ATTEMPTS - 1)
    BY <2>3 DEF RETIREMENT_MAX_ATTEMPTS
  <2>5. \/ LoadEnds
        \/ /\ loading' = [loading EXCEPT
                !.todo = candidate[loading.target].cleanups,
                !.retries = IF loading.retries > 0 THEN loading.retries - 1 ELSE loading.retries]
           /\ UNCHANGED <<pendingReload, reloadTimer>>
    BY <1>11 DEF Disposed
  <2>6. CASE LoadEnds
    BY <1>11, <2>6, LoadEndsType DEF Disposed, TypeOK
  <2>7. CASE ~LoadEnds
    <3>1. \A n \in 0..(RETIREMENT_MAX_ATTEMPTS - 1), todo \in SUBSET Resources :
            [loading EXCEPT !.todo = todo, !.retries = n] \in LoadingType
      <4>1. loading \in LoadingType
        BY DEF TypeOK
      <4>2. ASSUME NEW n \in 0..(RETIREMENT_MAX_ATTEMPTS - 1), NEW todo \in SUBSET Resources
            PROVE  [loading EXCEPT !.todo = todo, !.retries = n] \in LoadingType
        BY <2>1, <4>1, LoadingTypes
      <4> QED
        BY <4>2
    <3>2. loading' \in LoadingType
      BY <2>2, <2>4, <2>5, <2>7, <3>1
    <3> QED
      BY <1>11, <2>5, <2>7, <3>2 DEF Disposed, TypeOK
  <2> QED
    BY <2>6, <2>7
<1>12. CASE Stop
  BY <1>12 DEF Stop, Shutdown, StopApplication, HooksSettle, CloseStore, TypeOK
<1>13. ASSUME NEW q \in Requests, Admit(q)
       PROVE  TypeOK'
  BY <1>13 DEF Admit, TypeOK
<1>14. ASSUME NEW q \in Requests, Settle(q)
       PROVE  TypeOK'
  <2>1. serving' \in [Requests -> Generations \cup {0}]
    BY <1>14 DEF Settle, TypeOK
  <2>2. \/ UNCHANGED <<candidate, loading>>
        \/ /\ loading.step = "drain"
           /\ candidate' = [candidate EXCEPT ![loading.target].started = TRUE]
           /\ loading' = [loading EXCEPT !.step = "dispose"]
    BY <1>14 DEF Settle
  <2>3. loading.step = "drain" => loading.target \in Generations
    BY DEF RetiredIsDone, Retiring
  <2>4. loading' \in LoadingType
    BY <2>2 DEF TypeOK, LoadingType
  <2>5. ASSUME NEW b \in BOOLEAN, NEW g \in Generations
        PROVE  [candidate EXCEPT ![g].started = b] \in [Generations -> CandidateType]
    BY DEF TypeOK, CandidateType
  <2>6. ASSUME loading.step = "drain",
               candidate' = [candidate EXCEPT ![loading.target].started = TRUE]
        PROVE  candidate' \in [Generations -> CandidateType]
    BY <2>3, <2>5, <2>6
  <2>7. candidate' \in [Generations -> CandidateType]
    BY <2>2, <2>6 DEF TypeOK
  <2> QED
    BY <1>14, <2>1, <2>4, <2>7 DEF Settle, TypeOK
<1> QED
  BY <1>1, <1>2, <1>3, <1>6, <1>7, <1>8, <1>9, <1>10, <1>11, <1>12, <1>13, <1>14 DEF Next, Load

-----------------------------------------------------------------------------
(* Generations stay orderly *)

\* The debounce timer starts a load of a generation nobody has touched, or nothing.
LEMMA ReloadTimerOrderly ==
  ASSUME IInv, ReloadTimer
  PROVE  Orderly'
<1> USE DEF IInv, Orderly
<1>1. CASE UNCHANGED <<pendingReload, generation, loading, candidate>>
  BY <1>1
  DEF ReloadTimer, LoadsFollowEdits, Untouched, CandidateIsNew, RetiredIsDone, OthersRest,
      ActiveIsWhole, NothingScheduled, TeardownIsAlone, Busy, Loading, Retiring, Involved, Serves
<1>2. CASE ~ReloadInProgress /\ pendingReload /\ generation' = generation + 1
  <2> DEFINE new == generation + 1
  <2>1. /\ loading.step = "idle" /\ shutdown = "no"
        /\ new \in Generations /\ app < new /\ disk' = disk /\ generation <= disk
    BY <1>2, ConstantsAssumption
    DEF ReloadTimer, ReloadInProgress, Busy, NothingScheduled, LoadsFollowEdits, CandidateIsNew,
        TypeOK, Generations
  <2>2. /\ loading' = [Idle EXCEPT !.step = "build", !.gen = new]
        /\ candidate' = [candidate EXCEPT ![new].code = disk]
        /\ pendingReload' = FALSE /\ reloadTimer' = FALSE
        /\ UNCHANGED <<disk, app, serving, shutdown>>
    BY <1>2 DEF ReloadTimer
  <2>3. loading'.step = "build" /\ loading'.gen = new
    BY <2>2 DEF Idle
  <2>4. \A g \in Generations \ {new} : candidate'[g] = candidate[g]
    BY <2>2 DEF TypeOK
  <2>5. /\ ~candidate'[new].active /\ ~candidate'[new].started /\ candidate'[new].accepting
        /\ candidate'[new].cleanups = {}
    <3>1. candidate[new] = Unborn
      BY <2>1 DEF Untouched, TypeOK, Generations
    <3> QED
      BY <2>1, <2>2, <3>1 DEF TypeOK, Unborn
  <2>6. \A g \in Generations \ {app} :
          /\ "timers" \notin candidate[g].cleanups
          /\ candidate[g].cleanups # {} \/ candidate[g].active => candidate[g].started
          /\ ~Serves(g)
    BY <2>1 DEF OthersRest, Involved, Loading, Retiring
  <2>7. \A g \in Generations : Serves(g)' <=> Serves(g)
    BY <2>2 DEF Serves
  <2>8. CandidateIsNew'
    BY <1>2, <2>1, <2>2, <2>3, <2>5, <2>6, <2>7 DEF CandidateIsNew, Loading, TypeOK, Generations
  <2>9. Untouched'
    BY <1>2, <2>1, <2>4 DEF Untouched, TypeOK, Generations
  <2>10. RetiredIsDone' /\ OthersRest'
    BY <2>2, <2>3, <2>4, <2>6, <2>7 DEF RetiredIsDone, OthersRest, Involved, Loading, Retiring
  <2>11. ActiveIsWhole'
    BY <2>1, <2>2, <2>4 DEF ActiveIsWhole, TypeOK, Generations
  <2>12. LoadsFollowEdits' /\ NothingScheduled' /\ TeardownIsAlone'
    BY <1>2, <2>1, <2>2 DEF LoadsFollowEdits, NothingScheduled, TeardownIsAlone, TypeOK, Generations
  <2> QED
    BY <2>8, <2>9, <2>10, <2>11, <2>12
<1> QED
  BY <1>1, <1>2 DEF ReloadTimer

\* A failed candidate is not active and serves nothing: discarding it leaves the
\* active application and the other generations alone.
LEMMA DiscardOrderly ==
  ASSUME IInv, Loading, NEW n, NEW held, Discard(loading.gen, held, n),
         UNCHANGED <<disk, generation, app, serving, shutdown>>
  PROVE  Orderly'
<1> USE DEF IInv, Orderly
<1>1. /\ loading.gen = generation /\ generation \in Generations \ {app}
      /\ ~candidate[generation].active /\ ~Serves(generation)
  BY DEF CandidateIsNew, TypeOK, Generations
<1>2. /\ loading'.step = "dispose" /\ loading'.target = generation /\ loading'.todo = held
      /\ candidate'[generation].started /\ candidate'[generation].cleanups = held
      /\ \A g \in Generations \ {generation} : candidate'[g] = candidate[g]
  BY <1>1 DEF Discard, TypeOK, LoadingType, CandidateType
<1>3. \A g \in Generations : Serves(g)' <=> Serves(g)
  BY DEF Serves
<1>4. LoadsFollowEdits' /\ NothingScheduled'
  BY DEF LoadsFollowEdits, NothingScheduled, Discard
<1>5. Untouched'
  BY <1>1, <1>2 DEF Untouched, TypeOK, Generations
<1>6. CandidateIsNew' /\ RetiredIsDone'
  BY <1>1, <1>2, <1>3 DEF CandidateIsNew, RetiredIsDone, Loading, Retiring, TypeOK, Generations
<1>7. OthersRest'
  BY <1>1, <1>2, <1>3 DEF OthersRest, Involved, Loading, Retiring
<1>8. ActiveIsWhole'
  BY <1>1, <1>2 DEF ActiveIsWhole, TypeOK
<1>9. TeardownIsAlone'
  BY DEF TeardownIsAlone, Busy, Loading
<1> QED
  BY <1>4, <1>5, <1>6, <1>7, <1>8, <1>9

\* A built candidate goes on to its activation, or is discarded when shutdown began.
LEMMA BuiltOrderly ==
  ASSUME IInv, Built
  PROVE  Orderly'
<1>1. CASE shutdown # "no"
  BY <1>1, DiscardOrderly DEF Built, Loading
<1>2. CASE shutdown = "no"
  <2>1. loading'.step = "activate" /\ loading'.gen = loading.gen /\ loading.step = "build"
    BY <1>2 DEF Built, IInv, TypeOK, LoadingType
  <2>2. UNCHANGED <<disk, pendingReload, reloadTimer, generation, candidate, app, serving, shutdown>>
    BY <1>2 DEF Built
  <2> QED
    BY <1>2, <2>1, <2>2
    DEF IInv, Orderly, LoadsFollowEdits, Untouched, CandidateIsNew, RetiredIsDone, OthersRest,
        ActiveIsWhole, NothingScheduled, TeardownIsAlone, Busy, Loading, Retiring, Involved, Serves
<1> QED
  BY <1>1, <1>2

\* A failed activation discards the candidate with whatever it had acquired.
LEMMA ActivationFailsOrderly ==
  ASSUME IInv, ActivationFails
  PROVE  Orderly'
BY DiscardOrderly DEF ActivationFails, Loading

\* The commit point: the candidate becomes the active application, and the one
\* it replaces is retired with its resources, its requests or neither.
LEMMA SwapOrderly ==
  ASSUME IInv, loading.step = "activate", shutdown = "no", Swap(loading.gen),
         UNCHANGED <<disk, pendingReload, reloadTimer, generation, serving, shutdown>>
  PROVE  Orderly'
<1> USE DEF IInv, Orderly
<1>1. /\ loading.gen = generation /\ generation \in Generations \ {app} /\ app \in Generations
      /\ app < generation /\ ~candidate[generation].started /\ candidate[generation].accepting
      /\ ~Serves(generation)
  BY DEF CandidateIsNew, Loading, TypeOK, Generations
<1>2. app' = generation
  BY <1>1 DEF Swap
<1>3. /\ candidate'[generation].active /\ candidate'[generation].accepting
      /\ ~candidate'[generation].started /\ candidate'[generation].cleanups = Resources
  BY <1>1 DEF Swap, TypeOK, CandidateType
<1>4. /\ candidate'[app].active /\ candidate'[app].cleanups = Resources
      /\ candidate'[app].started <=> ~Serves(app)
  BY <1>1 DEF Swap, TypeOK, CandidateType, ActiveIsWhole
<1>5. \A g \in Generations \ {app, generation} : candidate'[g] = candidate[g]
  BY <1>1 DEF Swap, TypeOK
<1>6. /\ loading'.target = app /\ loading'.todo = Resources
      /\ loading'.step = IF Serves(app) THEN "drain" ELSE "dispose"
  BY DEF Swap, TypeOK, LoadingType, ActiveIsWhole
<1>7. \A g \in Generations : Serves(g)' <=> Serves(g)
  BY DEF Serves
<1>8. LoadsFollowEdits' /\ NothingScheduled' /\ TeardownIsAlone'
  BY DEF LoadsFollowEdits, NothingScheduled, TeardownIsAlone
<1>9. Untouched'
  BY <1>1, <1>5 DEF Untouched, TypeOK, Generations
<1>10. CandidateIsNew'
  BY <1>1, <1>2, <1>6 DEF CandidateIsNew, Loading, TypeOK, Generations
<1>11. RetiredIsDone'
  BY <1>1, <1>2, <1>4, <1>6, <1>7 DEF RetiredIsDone, TypeOK, Generations, Resources
<1>12. OthersRest'
  BY <1>1, <1>2, <1>5, <1>6, <1>7 DEF OthersRest, Involved, Loading, Retiring
<1>13. ActiveIsWhole'
  BY <1>2, <1>3 DEF ActiveIsWhole
<1> QED
  BY <1>8, <1>9, <1>10, <1>11, <1>12, <1>13

\* An activated candidate is swapped in, or discarded when shutdown began.
LEMMA ActivatedOrderly ==
  ASSUME IInv, Activated
  PROVE  Orderly'
<1>1. CASE Cancelled
  BY <1>1, DiscardOrderly DEF Activated, Loading
<1>2. CASE ~Cancelled
  BY <1>2, SwapOrderly DEF Activated, Cancelled
<1> QED
  BY <1>1, <1>2

\* One cleanup: an interval that is cleared is not among those still held.
LEMMA CleanupOrderly ==
  ASSUME IInv, Cleanup
  PROVE  Orderly'
<1> USE DEF IInv, Orderly
<1>1. PICK x \in loading.todo :
        /\ loading' = [loading EXCEPT !.todo = @ \ {x}]
        /\ \/ candidate' = [candidate EXCEPT ![loading.target].cleanups = @ \ {x}]
           \/ x # "timers" /\ UNCHANGED candidate
  BY DEF Cleanup
<1>2. /\ loading.step = "dispose" /\ loading.target \in Generations \ {app}
      /\ loading.target <= generation
      /\ candidate[loading.target].started /\ ~Serves(loading.target)
      /\ "timers" \in candidate[loading.target].cleanups => "timers" \in loading.todo
  BY DEF Cleanup, RetiredIsDone, Retiring
<1>3. /\ loading'.step = loading.step /\ loading'.target = loading.target
      /\ loading'.todo = loading.todo \ {x}
  BY <1>1 DEF TypeOK, LoadingType
<1>4. /\ \A g \in Generations \ {loading.target} : candidate'[g] = candidate[g]
      /\ candidate'[loading.target].started
      /\ candidate'[loading.target].cleanups \subseteq candidate[loading.target].cleanups
      /\ x = "timers" => "timers" \notin candidate'[loading.target].cleanups
  BY <1>1, <1>2 DEF TypeOK, CandidateType
<1>5. UNCHANGED <<disk, pendingReload, reloadTimer, generation, app, serving, shutdown>>
  BY DEF Cleanup
<1>6. \A g \in Generations : Serves(g)' <=> Serves(g)
  BY <1>5 DEF Serves
<1>7. LoadsFollowEdits' /\ NothingScheduled' /\ TeardownIsAlone'
  BY <1>2, <1>3, <1>5 DEF LoadsFollowEdits, NothingScheduled, TeardownIsAlone, Busy
<1>8. Untouched' /\ CandidateIsNew'
  BY <1>2, <1>3, <1>4, <1>5 DEF Untouched, CandidateIsNew, Loading, TypeOK, Generations
<1>9. RetiredIsDone'
  BY <1>2, <1>3, <1>4, <1>5, <1>6 DEF RetiredIsDone
<1>10. OthersRest' /\ ActiveIsWhole'
  BY <1>2, <1>3, <1>4, <1>5, <1>6
  DEF OthersRest, ActiveIsWhole, Involved, Loading, Retiring, TypeOK
<1> QED
  BY <1>7, <1>8, <1>9, <1>10

\* When every cleanup has been tried no interval is left, whether the load ends
\* or the failed cleanups are tried again.
LEMMA DisposedOrderly ==
  ASSUME IInv, Disposed
  PROVE  Orderly'
<1> USE DEF IInv, Orderly
<1>1. /\ loading.step = "dispose" /\ loading.target \in Generations \ {app}
      /\ loading.target <= generation
      /\ candidate[loading.target].started /\ ~Serves(loading.target)
      /\ "timers" \notin candidate[loading.target].cleanups
  BY DEF Disposed, RetiredIsDone, Retiring
<1>2. UNCHANGED <<disk, generation, candidate, app, serving, shutdown, pendingReload>>
  BY DEF Disposed, LoadEnds
<1>3. \A g \in Generations : Serves(g)' <=> Serves(g)
  BY <1>2 DEF Serves
<1>4. CASE LoadEnds
  <2>1. loading'.step = "idle"
    BY <1>4 DEF LoadEnds, Idle
  <2>2. LoadsFollowEdits' /\ TeardownIsAlone'
    BY <1>2, <2>1 DEF LoadsFollowEdits, TeardownIsAlone, Busy
  <2>3. NothingScheduled'
    BY <1>2, <1>4 DEF LoadEnds, NothingScheduled, TypeOK
  <2>4. Untouched' /\ CandidateIsNew' /\ RetiredIsDone' /\ ActiveIsWhole'
    BY <1>2, <2>1
    DEF Untouched, CandidateIsNew, RetiredIsDone, ActiveIsWhole, Loading, Retiring
  <2>5. OthersRest'
    BY <1>1, <1>2, <1>3, <2>1 DEF OthersRest, Involved, Loading, Retiring
  <2> QED
    BY <2>2, <2>3, <2>4, <2>5
<1>5. CASE ~LoadEnds
  <2>1. reloadTimer' = reloadTimer
    BY <1>5 DEF Disposed
  <2>2. loading'.step = "dispose" /\ loading'.target = loading.target
    BY <1>1, <1>5 DEF Disposed, TypeOK, LoadingType
  <2>3. LoadsFollowEdits' /\ NothingScheduled' /\ TeardownIsAlone'
    BY <1>1, <1>2, <2>1, <2>2 DEF LoadsFollowEdits, NothingScheduled, TeardownIsAlone, Busy
  <2>4. Untouched' /\ CandidateIsNew' /\ ActiveIsWhole'
    BY <1>2, <2>2 DEF Untouched, CandidateIsNew, ActiveIsWhole, Loading
  <2>5. RetiredIsDone'
    BY <1>1, <1>2, <1>3, <2>2 DEF RetiredIsDone
  <2>6. OthersRest'
    BY <1>1, <1>2, <1>3, <2>2 DEF OthersRest, Involved, Loading, Retiring
  <2> QED
    BY <2>3, <2>4, <2>5, <2>6
<1> QED
  BY <1>4, <1>5

\* A shutdown waits for the load in progress before it stops the application.
LEMMA StopOrderly ==
  ASSUME IInv, Stop
  PROVE  Orderly'
<1> USE DEF IInv, Orderly
<1>1. UNCHANGED <<disk, generation, loading, candidate, app, serving>>
  BY DEF Stop, Shutdown, StopApplication, HooksSettle, CloseStore
<1>2. LoadsFollowEdits' /\ NothingScheduled'
  BY <1>1
  DEF Stop, Shutdown, StopApplication, HooksSettle, CloseStore, LoadsFollowEdits, NothingScheduled
<1>3. TeardownIsAlone'
  BY <1>1 DEF Stop, Shutdown, StopApplication, HooksSettle, CloseStore, TeardownIsAlone, Busy
<1>4. /\ Untouched' /\ CandidateIsNew' /\ RetiredIsDone' /\ OthersRest' /\ ActiveIsWhole'
  BY <1>1
  DEF Untouched, CandidateIsNew, RetiredIsDone, OthersRest, ActiveIsWhole, Loading, Retiring,
      Involved, Serves
<1> QED
  BY <1>2, <1>3, <1>4

\* A request enters the active application.
LEMMA AdmitOrderly ==
  ASSUME IInv, NEW q \in Requests, Admit(q)
  PROVE  Orderly'
<1> USE DEF IInv, Orderly
<1>1. /\ UNCHANGED <<disk, pendingReload, reloadTimer, generation, loading, candidate, app, shutdown>>
      /\ \A g \in Generations \ {app} : Serves(g)' => Serves(g)
  BY DEF Admit, Serves, TypeOK
<1>2. app \in Generations /\ app <= generation /\ (Loading => app < generation)
      /\ generation \in Generations
  BY DEF TypeOK, CandidateIsNew
<1>3. CandidateIsNew' /\ RetiredIsDone' /\ OthersRest'
  BY <1>1, <1>2
  DEF CandidateIsNew, RetiredIsDone, OthersRest, Loading, Retiring, Involved, Generations
<1> QED
  BY <1>1, <1>3 DEF LoadsFollowEdits, Untouched, ActiveIsWhole, NothingScheduled, TeardownIsAlone, Busy

\* A request leaves its handler; the last of a draining generation starts its
\* cleanups, and then nothing serves it any more.
LEMMA SettleOrderly ==
  ASSUME IInv, NEW q \in Requests, Settle(q)
  PROVE  Orderly'
<1> USE DEF IInv, Orderly
<1>1. /\ UNCHANGED <<disk, pendingReload, reloadTimer, generation, app, shutdown>>
      /\ serving' = [serving EXCEPT ![q] = 0]
  BY DEF Settle
<1>2. \A g \in Generations : Serves(g)' => Serves(g)
  BY <1>1 DEF Serves, TypeOK, Generations
<1>3. LoadsFollowEdits' /\ NothingScheduled'
  BY <1>1 DEF LoadsFollowEdits, NothingScheduled
<1>4. CASE UNCHANGED <<candidate, loading>>
  BY <1>1, <1>2, <1>3, <1>4
  DEF Untouched, CandidateIsNew, RetiredIsDone, OthersRest, ActiveIsWhole, TeardownIsAlone, Busy,
      Loading, Retiring, Involved, TypeOK
<1>5. CASE ~UNCHANGED <<candidate, loading>>
  <2>1. /\ loading.step = "drain" /\ serving[q] = loading.target
        /\ \A p \in Requests \ {q} : serving[p] # loading.target
        /\ candidate' = [candidate EXCEPT ![loading.target].started = TRUE]
        /\ loading' = [loading EXCEPT !.step = "dispose"]
    BY <1>5 DEF Settle
  <2>2. /\ loading.target \in Generations \ {app} /\ loading.target <= generation
        /\ loading.todo = Resources
    BY <2>1 DEF RetiredIsDone, Retiring
  <2>3. loading'.step = "dispose" /\ loading'.target = loading.target /\ loading'.todo = Resources
    BY <2>1, <2>2 DEF TypeOK, LoadingType
  <2>4. /\ candidate'[loading.target].started
        /\ \A g \in Generations \ {loading.target} : candidate'[g] = candidate[g]
    BY <2>1, <2>2 DEF TypeOK, CandidateType
  <2>5. ~Serves(loading.target)'
    BY <1>1, <2>1, <2>2, <2>3 DEF Serves, TypeOK, Generations
  <2>6. Untouched' /\ CandidateIsNew' /\ TeardownIsAlone'
    BY <1>1, <2>1, <2>2, <2>3, <2>4
    DEF Untouched, CandidateIsNew, TeardownIsAlone, Busy, Loading, TypeOK, Generations
  <2>7. RetiredIsDone'
    BY <1>1, <2>2, <2>3, <2>4, <2>5 DEF RetiredIsDone, Resources
  <2>8. OthersRest'
    BY <1>1, <1>2, <2>1, <2>2, <2>3, <2>4 DEF OthersRest, Involved, Loading, Retiring
  <2>9. ActiveIsWhole'
    BY <1>1, <2>2, <2>4 DEF ActiveIsWhole, TypeOK
  <2> QED
    BY <1>3, <2>6, <2>7, <2>8, <2>9
<1> QED
  BY <1>4, <1>5

\* Noticing a change and a failed import or build touch no candidate that has
\* acquired anything.
LEMMA QuietOrderly ==
  ASSUME IInv, Edit \/ BuildFails \/ OpenCatalog
  PROVE  Orderly'
<1> USE DEF IInv, Orderly
<1>1. CASE Edit
  BY <1>1
  DEF Edit, LoadsFollowEdits, Untouched, CandidateIsNew, RetiredIsDone, OthersRest, ActiveIsWhole,
      NothingScheduled, TeardownIsAlone, Busy, Loading, Retiring, Involved, Serves, TypeOK, Generations
<1>2. CASE BuildFails
  BY <1>2
  DEF BuildFails, LoadEnds, Idle, LoadsFollowEdits, Untouched, CandidateIsNew, RetiredIsDone,
      OthersRest, ActiveIsWhole, NothingScheduled, TeardownIsAlone, Busy, Loading, Retiring,
      Involved, Serves, TypeOK
<1>3. CASE OpenCatalog
  <2>1. /\ loading.step = "activate" /\ loading.gen = generation /\ generation \in Generations \ {app}
        /\ app < generation
    BY <1>3 DEF OpenCatalog, CandidateIsNew, Loading, TypeOK, Generations
  <2>2. /\ \A g \in Generations \ {generation} : candidate'[g] = candidate[g]
        /\ candidate'[generation].active = candidate[generation].active
        /\ candidate'[generation].started = candidate[generation].started
        /\ candidate'[generation].accepting = candidate[generation].accepting
    BY <1>3, <2>1 DEF OpenCatalog, TypeOK, CandidateType
  <2>3. UNCHANGED <<disk, pendingReload, reloadTimer, generation, loading, app, serving, shutdown>>
    BY <1>3 DEF OpenCatalog
  <2> QED
    BY <2>1, <2>2, <2>3
    DEF LoadsFollowEdits, Untouched, CandidateIsNew, RetiredIsDone, OthersRest, ActiveIsWhole,
        NothingScheduled, TeardownIsAlone, Busy, Loading, Retiring, Involved, Serves, TypeOK,
        Generations
<1> QED
  BY <1>1, <1>2, <1>3

-----------------------------------------------------------------------------
(* The theorems *)

\* The core starts with one whole generation and nothing scheduled.
LEMMA InitIInv == ASSUME Init PROVE IInv
<1>1. candidate \in [Generations -> CandidateType]
  <2>1. ASSUME NEW z \in 0..MaxEdits, NEW e \in SUBSET Resources, NEW b \in BOOLEAN
        PROVE  [code |-> z, active |-> b, accepting |-> TRUE, started |-> FALSE, cleanups |-> e]
                 \in CandidateType
    BY <2>1 DEF CandidateType
  <2>2. 0 \in 0..MaxEdits /\ {} \in SUBSET Resources /\ Resources \in SUBSET Resources
    BY ConstantsAssumption
  <2>3. Unborn \in CandidateType
    BY <2>1, <2>2 DEF Unborn
  <2>4. [Unborn EXCEPT !.active = TRUE, !.cleanups = Resources] \in CandidateType
    BY <2>2, <2>3 DEF CandidateType
  <2> QED
    BY <2>3, <2>4 DEF Init
<1>2. 1 \in Generations
  BY ConstantsAssumption DEF Generations
<1>3. TypeOK
  <2>1. disk \in 0..MaxEdits /\ generation \in Generations /\ app \in Generations
    BY <1>2, ConstantsAssumption DEF Init
  <2>2. serving \in [Requests -> Generations \cup {0}]
    BY DEF Init
  <2> QED
    BY <1>1, <2>1, <2>2, IdleType DEF Init, TypeOK
<1>4. /\ candidate[1].active /\ candidate[1].accepting /\ ~candidate[1].started
      /\ candidate[1].cleanups = Resources
      /\ \A g \in Generations \ {1} : candidate[g] = Unborn
  BY <1>2 DEF Init, Unborn
<1>5. loading.step = "idle"
  BY DEF Init, Idle
<1>6. LoadsFollowEdits /\ NothingScheduled /\ TeardownIsAlone
  BY DEF Init, LoadsFollowEdits, NothingScheduled, TeardownIsAlone
<1>7. Untouched /\ CandidateIsNew /\ RetiredIsDone /\ ActiveIsWhole
  BY <1>4, <1>5
  DEF Init, Untouched, CandidateIsNew, RetiredIsDone, ActiveIsWhole, Loading, Retiring, Generations
<1>8. OthersRest
  BY <1>4 DEF Init, OthersRest, Unborn, Serves, Generations
<1> QED
  BY <1>3, <1>6, <1>7, <1>8 DEF IInv, Orderly

\* Every step keeps the generations orderly.
LEMMA StepIInv == ASSUME IInv, [Next]_vars PROVE IInv'
<1>1. CASE Next
  <2>1. TypeOK'
    BY <1>1, StepType DEF IInv, Orderly
  <2>2. Orderly'
    BY <1>1, QuietOrderly, ReloadTimerOrderly, BuiltOrderly, ActivationFailsOrderly,
       ActivatedOrderly, CleanupOrderly, DisposedOrderly, StopOrderly, AdmitOrderly, SettleOrderly
    DEF Next, Load
  <2> QED
    BY <2>1, <2>2 DEF IInv
<1>2. CASE UNCHANGED vars
  BY <1>2
  DEF vars, IInv, Orderly, TypeOK, LoadsFollowEdits, Untouched, CandidateIsNew, RetiredIsDone,
      OthersRest, ActiveIsWhole, NothingScheduled, TeardownIsAlone, Busy, Loading, Retiring,
      Involved, Serves
<1> QED
  BY <1>1, <1>2

\* The inductive invariant: at any time at most one generation besides the
\* active one is being built, drained or disposed of, and every other is at rest.
THEOREM GenerationsOrderly == Spec => []IInv
BY InitIInv, StepIInv, PTL DEF Spec

\* The state of core and candidates keeps its shape; the generations never
\* outnumber the saved changes by more than the first.
THEOREM TypeCorrect == Spec => []TypeOK
BY GenerationsOrderly, PTL DEF IInv

\* A request is answered with every resource of its generation, for any number
\* of requests and reloads and whatever cleanups fail.
THEOREM RequestsKeep == Spec => []RequestsKeepResources
<1>1. IInv => RequestsKeepResources
  <2> SUFFICES ASSUME IInv, NEW q \in Requests, serving[q] # 0
               PROVE  /\ ~candidate[serving[q]].started
                      /\ candidate[serving[q]].cleanups = Resources
    BY DEF RequestsKeepResources
  <2> USE DEF IInv, Orderly
  <2>1. serving[q] \in Generations /\ Serves(serving[q])
    BY DEF TypeOK, Serves
  <2>2. CASE serving[q] = app
    BY <2>2 DEF ActiveIsWhole
  <2>3. CASE serving[q] # app
    <3>1. Involved(serving[q])
      BY <2>1, <2>3 DEF OthersRest
    <3>2. loading.step = "drain" /\ serving[q] = loading.target
      BY <2>1, <3>1 DEF Involved, CandidateIsNew, RetiredIsDone, Retiring
    <3> QED
      BY <3>2 DEF RetiredIsDone, Retiring
  <2> QED
    BY <2>2, <2>3
<1> QED
  BY <1>1, GenerationsOrderly, PTL

\* No failed candidate, retirement or retry ever takes anything from the active
\* application.
THEOREM ActiveStaysWhole == Spec => []ActiveIsWhole
BY GenerationsOrderly, PTL DEF IInv, Orderly

\* Between reloads nothing of a failed or replaced generation runs.
THEOREM OthersStandStill == Spec => []OnlyActiveRuns
<1>1. IInv => OnlyActiveRuns
  BY DEF IInv, Orderly, OthersRest, OnlyActiveRuns, Busy, Involved, Loading, Retiring
<1> QED
  BY <1>1, GenerationsOrderly, PTL

\* No reload runs against a store that shutdown is about to close.
THEOREM TeardownAlone == Spec => []TeardownIsAlone
BY GenerationsOrderly, PTL DEF IInv, Orderly

\* Once shutdown has begun the active application is not replaced any more: the
\* commit point is reached in the step that looks at shuttingDown for the last time.
THEOREM ShutdownKeepsApplication == Spec => NoSwapInShutdown
<1>1. [Next]_vars => (shutdown # "no" => app' = app)
  BY DEF Next, vars, Edit, ReloadTimer, Load, BuildFails, Built, OpenCatalog, ActivationFails,
         Activated, Cancelled, Cleanup, Disposed, Stop, Shutdown, StopApplication, HooksSettle,
         CloseStore, Admit, Settle
<1>2. [Next]_vars => [shutdown # "no" => app' = app]_vars
  BY <1>1
<1> QED
  BY <1>2, PTL DEF Spec, NoSwapInShutdown

-----------------------------------------------------------------------------
(* The core implements ApplicationGenerations *)

\* Steps that neither activate nor retire a generation.
LEMMA StutterSteps ==
  ASSUME IInv,
         Edit \/ ReloadTimer \/ BuildFails \/ Built \/ OpenCatalog \/ ActivationFails \/ Cleanup
           \/ Disposed \/ Stop
  PROVE  UNCHANGED <<app, Live, serving>>
<1> USE DEF IInv, Orderly
<1>1. UNCHANGED <<app, serving>>
  BY DEF Edit, ReloadTimer, BuildFails, Built, OpenCatalog, ActivationFails, Cleanup, Disposed,
         Stop, Shutdown, StopApplication, HooksSettle, CloseStore
<1>2. Loading => loading.gen \in Generations /\ ~candidate[loading.gen].active
  BY DEF CandidateIsNew, TypeOK
<1>3. \/ UNCHANGED candidate
      \/ candidate' = [candidate EXCEPT ![generation + 1].code = disk]
      \/ \E held : candidate' = [candidate EXCEPT ![loading.target].cleanups = held]
      \/ \E held : candidate' = [candidate EXCEPT ![loading.gen].cleanups = held]
      \/ Loading /\ \E held, n : Discard(loading.gen, held, n)
  <2>1. ASSUME ReloadTimer
        PROVE  UNCHANGED candidate \/ candidate' = [candidate EXCEPT ![generation + 1].code = disk]
    BY <2>1 DEF ReloadTimer
  <2>2. ASSUME Built \/ ActivationFails
        PROVE  UNCHANGED candidate \/ (Loading /\ \E held, n : Discard(loading.gen, held, n))
    BY <2>2 DEF Built, ActivationFails, Loading
  <2>3. ASSUME Cleanup
        PROVE  \/ UNCHANGED candidate
               \/ \E held : candidate' = [candidate EXCEPT ![loading.target].cleanups = held]
    BY <2>3 DEF Cleanup
  <2>4. ASSUME OpenCatalog
        PROVE  \E held : candidate' = [candidate EXCEPT ![loading.gen].cleanups = held]
    BY <2>4 DEF OpenCatalog
  <2>5. ASSUME Edit \/ BuildFails \/ Disposed \/ Stop
        PROVE  UNCHANGED candidate
    BY <2>5 DEF Edit, BuildFails, Disposed, Stop, Shutdown, StopApplication, HooksSettle, CloseStore
  <2> QED
    BY <2>1, <2>2, <2>3, <2>4, <2>5
<1>4. ASSUME NEW g \in Generations
      PROVE  (candidate'[g].active /\ ~candidate'[g].started)
               <=> (candidate[g].active /\ ~candidate[g].started)
  <2>1. CASE UNCHANGED candidate
    BY <2>1
  <2>2. CASE candidate' = [candidate EXCEPT ![generation + 1].code = disk]
    BY <2>2 DEF TypeOK, CandidateType
  <2>3. ASSUME NEW h, NEW held, candidate' = [candidate EXCEPT ![h].cleanups = held]
        PROVE  candidate'[g].active = candidate[g].active /\ candidate'[g].started = candidate[g].started
    BY <2>3 DEF TypeOK, CandidateType
  <2>4. ASSUME Loading, NEW held, NEW n, Discard(loading.gen, held, n)
        PROVE  /\ candidate'[g].active = candidate[g].active
               /\ candidate[g].active => candidate'[g].started = candidate[g].started
    BY <1>2, <2>4 DEF Discard, TypeOK, CandidateType
  <2> QED
    BY <1>3, <2>1, <2>2, <2>3, <2>4
<1>5. Live' = Live
  BY <1>4 DEF Live
<1> QED
  BY <1>1, <1>5

\* The discard of a cancelled candidate, too.
LEMMA CancelledStutters ==
  ASSUME IInv, Activated, Cancelled
  PROVE  UNCHANGED <<app, Live, serving>>
<1> USE DEF IInv, Orderly
<1>1. loading.gen \in Generations /\ ~candidate[loading.gen].active
  BY DEF Activated, CandidateIsNew, Loading, TypeOK
<1>2. /\ Discard(loading.gen, Resources, 0)
      /\ UNCHANGED <<app, serving>>
  BY DEF Activated
<1>3. /\ ~candidate'[loading.gen].active
      /\ \A g \in Generations \ {loading.gen} : candidate'[g] = candidate[g]
  BY <1>1, <1>2 DEF Discard, TypeOK, CandidateType
<1>4. Live' = Live
  BY <1>1, <1>3 DEF Live
<1> QED
  BY <1>2, <1>4

\* The swap replaces the current generation by a newer one, and retires it at
\* once when it serves nothing.
LEMMA SwapReplaces ==
  ASSUME IInv, Activated, ~Cancelled
  PROVE  Application!Replace(loading.gen) /\ loading.gen \in Generations
<1> USE DEF IInv, Orderly
<1>1. /\ loading.gen = generation /\ generation \in Generations /\ app \in Generations
      /\ app < generation /\ ~candidate[generation].started
  BY DEF Activated, CandidateIsNew, Loading, TypeOK
<1>2. Swap(generation) /\ UNCHANGED serving
  BY <1>1 DEF Activated
<1>3. generation # app
  BY <1>1 DEF Generations
<1>4. /\ candidate'[generation].active /\ ~candidate'[generation].started
      /\ candidate'[app].active /\ (candidate'[app].started <=> ~Serves(app))
      /\ \A g \in Generations \ {app, generation} : candidate'[g] = candidate[g]
  BY <1>1, <1>2, <1>3 DEF Swap, TypeOK, CandidateType, ActiveIsWhole
<1>5. CASE Serves(app)
  <2>1. Live' = Live \cup {generation}
    BY <1>1, <1>3, <1>4, <1>5 DEF Live, ActiveIsWhole
  <2> QED
    BY <1>1, <1>2, <2>1 DEF Application!Replace, Swap, Generations
<1>6. CASE ~Serves(app)
  <2>1. Live' = (Live \ {app}) \cup {generation}
    BY <1>1, <1>3, <1>4, <1>6 DEF Live
  <2>2. \A q \in Requests : serving[q] # app
    BY <1>6 DEF Serves
  <2> QED
    BY <1>1, <1>2, <2>1, <2>2 DEF Application!Replace, Swap, Generations
<1> QED
  BY <1>5, <1>6

\* The last answer of a draining generation retires it.
LEMMA SettleRetires ==
  ASSUME IInv, NEW q \in Requests, Settle(q)
  PROVE  Application!Settle(q)
<1> USE DEF IInv, Orderly
<1>1. serving[q] # 0 /\ serving' = [serving EXCEPT ![q] = 0] /\ UNCHANGED app
  BY DEF Settle
<1>2. CASE UNCHANGED <<candidate, loading>>
  <2>1. Live' = Live
    BY <1>2 DEF Live
  <2> QED
    BY <1>1, <2>1 DEF Application!Settle
<1>3. CASE ~UNCHANGED <<candidate, loading>>
  <2>1. /\ loading.step = "drain" /\ serving[q] = loading.target
        /\ \A p \in Requests \ {q} : serving[p] # loading.target
        /\ candidate' = [candidate EXCEPT ![loading.target].started = TRUE]
    BY <1>3 DEF Settle
  <2>2. loading.target \in Generations \ {app}
    BY <2>1 DEF RetiredIsDone, Retiring
  <2>3. /\ candidate'[loading.target].started
        /\ \A g \in Generations \ {loading.target} : candidate'[g] = candidate[g]
    BY <2>1, <2>2 DEF TypeOK, CandidateType
  <2>4. Live' = Live \ {serving[q]}
    BY <2>1, <2>2, <2>3 DEF Live
  <2>5. \A p \in Requests : serving'[p] # serving[q]
    BY <1>1, <2>1 DEF TypeOK
  <2> QED
    BY <1>1, <2>1, <2>2, <2>4, <2>5 DEF Application!Settle
<1> QED
  BY <1>2, <1>3

\* A request is admitted by the current generation.
LEMMA AdmitAdmits ==
  ASSUME IInv, NEW q \in Requests, Admit(q)
  PROVE  Application!Admit(q)
<1>1. Live' = Live
  BY DEF Admit, Live
<1> QED
  BY <1>1 DEF Admit, Application!Admit

\* Hot reload keeps the promise of ApplicationGenerations: every request is
\* answered from start to end by the generation that was current when it came,
\* which is retired only when it is neither current nor answering, and only
\* newer generations take over, for any number of requests and changes and
\* whatever builds, activations and cleanups fail.
THEOREM Implementation == Spec => ImplementsGenerations
<1>1. ASSUME Init PROVE Application!Init
  <2>1. IInv /\ app = 1 /\ loading.step = "idle" /\ serving = [q \in Requests |-> 0]
    BY <1>1, InitIInv DEF Init, Idle
  <2>2. Live = {1}
    BY <2>1
    DEF IInv, Orderly, TypeOK, Live, ActiveIsWhole, OthersRest, Involved, Loading, Retiring
  <2> QED
    BY <2>1, <2>2 DEF Application!Init
<1>2. ASSUME IInv, [Next]_vars PROVE [Application!Next]_(Application!vars)
  <2>1. CASE UNCHANGED vars
    BY <2>1 DEF vars, Application!vars, Live
  <2>2. CASE Edit \/ ReloadTimer \/ BuildFails \/ Built \/ OpenCatalog \/ ActivationFails
               \/ Cleanup \/ Disposed \/ Stop
    BY <1>2, <2>2, StutterSteps DEF Application!vars
  <2>3. CASE Activated /\ Cancelled
    BY <1>2, <2>3, CancelledStutters DEF Application!vars
  <2>4. CASE Activated /\ ~Cancelled
    BY <1>2, <2>4, SwapReplaces DEF Application!Next
  <2>5. CASE \E q \in Requests : Admit(q) \/ Settle(q)
    BY <1>2, <2>5, AdmitAdmits, SettleRetires DEF Application!Next
  <2> QED
    BY <1>2, <2>1, <2>2, <2>3, <2>4, <2>5 DEF Next, Load
<1> QED
  BY <1>1, <1>2, GenerationsOrderly, PTL DEF Spec, ImplementsGenerations, Application!Spec
=============================================================================
