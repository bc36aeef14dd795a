---------------------------- MODULE Hublots_proofs ----------------------------
(***************************************************************************)
(* No tunnel is forgotten, a hublot's row says what is wanted of it, and   *)
(* one that says closed has no open tunnel: proofs about Hublots.          *)
(*                                                                         *)
(* A tunnel's process and its row change in different steps, of different  *)
(* tasks that decided a step earlier.  NoForgottenTunnel is inductive only *)
(* together with what those tasks rely on: whoever ends the row of a       *)
(* process without a signal knows a process that is dead, and stays so.    *)
(*                                                                         *)
(* ClosedIsStopped needs the order in which the store serves them as well. *)
(* Orderly adds to that invariant who waits and who waits ahead of whom,   *)
(* and what a DELETE, an exit listener and the supervisor that are about   *)
(* to close a row know: an opener they did not see cannot reach a public   *)
(* tunnel before they are served.                                          *)
(***************************************************************************)
EXTENDS Hublots, TLAPS

RowStatuses == {"absent", "opening", "open", "closing", "closed", "failed", "interrupted"}
Desires == {"open", "closed"}
Openers == {"no", "spawned", "persist", "url", "confirm", "poll", "open", "fail",
            "failed", "done", "hung", "outlived"}

\* A row that says what is wanted.
Agrees(r) == /\ r.status \in {"open", "opening"} => r.desired = "open"
             /\ r.status \in {"closing", "closed"} => r.desired = "closed"
Rows == {r \in [status : RowStatuses, desired : Desires, url : Tunnels \cup {NoTunnel}] : Agrees(r)}

Processes == [os : {"unborn", "live", "told", "dead"}, rec : {"none", "running", "ended"},
              handle : BOOLEAN, reopen : BOOLEAN, of : Hublots \cup {"none"}]
ExitSteps_ == [step : {"no", "finish", "look", "list", "record"}, desired : Desires]
Sweeps == [step : {"no", "list", "procs", "find", "close"}, all : BOOLEAN, todo : SUBSET Hublots,
           seen : [Hublots -> RowStatuses], lost : SUBSET Tunnels, healthy : BOOLEAN]
Shutdowns == [step : {"no", "list", "mark", "wait", "settle", "done"}, todo : SUBSET Hublots,
              targets : SUBSET Tunnels, remaining : SUBSET Tunnels]

Typed ==
  /\ row \in [Hublots -> Rows]
  /\ tunnel \in [Tunnels -> Processes]
  /\ opener \in [Tunnels -> Openers]
  /\ exit \in [Tunnels -> ExitSteps_]
  /\ sweep \in Sweeps
  /\ shutdown \in Shutdowns

\* A process with its opener and its exit listener.
Followed(t, o, e) ==
  /\ t.os = "live" => t.rec = "running" \/ (t.rec = "none" /\ o \in {"spawned", "persist", "outlived"})
  /\ t.os = "unborn" => t.rec = "none" /\ o = "no"
  /\ t.os # "unborn" => t.of \in Hublots
  /\ e.step # "no" => t.os = "dead"

\* What the supervisor and the shutdown know of the processes they looked at.
Looked ==
  /\ \A p \in sweep.lost : tunnel[p].os = "dead"
  /\ \A p \in shutdown.targets : tunnel[p].os # "unborn"
  /\ shutdown.step = "settle"
       => \A p \in shutdown.targets \ shutdown.remaining : tunnel[p].os = "dead"

Inv ==
  /\ Typed
  /\ \A p \in Tunnels : Followed(tunnel[p], opener[p], exit[p])
  /\ Looked

-----------------------------------------------------------------------------
(* What a step has to keep *)

\* A process that is dead stays dead, and one that was born stays born.
Aged(t, u) == /\ t.os = "dead" => u.os = "dead"
              /\ t.os # "unborn" => u.os # "unborn"

RowKept == row' \in [Hublots -> Rows]
TunnelsKept ==
  /\ tunnel' \in [Tunnels -> Processes]
  /\ opener' \in [Tunnels -> Openers]
  /\ exit' \in [Tunnels -> ExitSteps_]
  /\ \A q \in Tunnels : Followed(tunnel'[q], opener'[q], exit'[q])
  /\ \A q \in Tunnels : Aged(tunnel[q], tunnel'[q])
LookersTyped == sweep' \in Sweeps /\ shutdown' \in Shutdowns

LEMMA Together ==
  ASSUME RowKept, TunnelsKept, LookersTyped, Looked'
  PROVE  Inv'
BY DEF RowKept, TunnelsKept, LookersTyped, Inv, Typed

\* A row written by recordHublotTransition agrees with itself when its
\* arguments do, whether or not there is such a hublot.
LEMMA Rewritten ==
  ASSUME NEW r \in [Hublots -> Rows], NEW h, NEW new \in Rows
  PROVE  [r EXCEPT ![h] = new] \in [Hublots -> Rows]
OBVIOUS

LEMMA TransitionKeeps ==
  ASSUME Inv, NEW h, NEW status \in RowStatuses, NEW desired \in Desires,
         NEW url \in Tunnels \cup {NoTunnel},
         status \in {"open", "opening"} => desired = "open",
         status \in {"closing", "closed"} => desired = "closed",
         Transition(h, status, desired, url)
  PROVE  RowKept
<1> DEFINE new == [status |-> status, desired |-> desired, url |-> url]
<1>1. new \in Rows
  BY DEF Rows, Agrees
<1>2. row \in [Hublots -> Rows]
  BY DEF Inv, Typed
<1>3. row' = [row EXCEPT ![h] = new] \/ row' = row
  BY DEF Transition
<1> QED BY <1>1, <1>2, <1>3, Rewritten DEF RowKept

LEMMA RowStays ==
  ASSUME Inv, UNCHANGED row
  PROVE  RowKept
BY DEF Inv, Typed, RowKept

\* What the supervisor and the shutdown know of processes outlasts a step
\* that is not theirs.
LEMMA LookedStays ==
  ASSUME Inv, TunnelsKept, UNCHANGED <<sweep, shutdown>>
  PROVE  LookersTyped /\ Looked'
<1>1. sweep.lost \subseteq Tunnels /\ shutdown.targets \subseteq Tunnels
  BY DEF Inv, Typed, Sweeps, Shutdowns
<1>2. \A q \in Tunnels : Aged(tunnel[q], tunnel'[q])
  BY DEF TunnelsKept
<1>3. Looked /\ sweep \in Sweeps /\ shutdown \in Shutdowns
  BY DEF Inv, Typed
<1>4. sweep' = sweep /\ shutdown' = shutdown
  OBVIOUS
<1>5. LookersTyped
  BY <1>3, <1>4 DEF LookersTyped
<1>6. \A q \in sweep.lost : tunnel'[q].os = "dead"
  BY <1>1, <1>2, <1>3 DEF Looked, Aged
<1>7. \A q \in shutdown.targets : tunnel'[q].os # "unborn"
  BY <1>1, <1>2, <1>3 DEF Looked, Aged
<1>8. shutdown.step = "settle"
        => \A q \in shutdown.targets \ shutdown.remaining : tunnel'[q].os = "dead"
  BY <1>1, <1>2, <1>3 DEF Looked, Aged
<1> QED BY <1>4, <1>5, <1>6, <1>7, <1>8 DEF Looked

LEMMA TunnelsStay ==
  ASSUME Inv, UNCHANGED <<tunnel, opener, exit>>
  PROVE  TunnelsKept
BY DEF Inv, Typed, TunnelsKept, Aged

\* A step about one process.
LEMMA OneProcess ==
  ASSUME Inv, NEW p \in Tunnels, NEW t \in Processes, NEW o \in Openers, NEW e \in ExitSteps_,
         Followed(t, o, e), Aged(tunnel[p], t),
         tunnel' = [tunnel EXCEPT ![p] = t],
         opener' = [opener EXCEPT ![p] = o],
         exit' = [exit EXCEPT ![p] = e]
  PROVE  TunnelsKept
<1>1. /\ tunnel \in [Tunnels -> Processes]
      /\ opener \in [Tunnels -> Openers]
      /\ exit \in [Tunnels -> ExitSteps_]
  BY DEF Inv, Typed
<1>2. /\ tunnel' \in [Tunnels -> Processes]
      /\ opener' \in [Tunnels -> Openers]
      /\ exit' \in [Tunnels -> ExitSteps_]
  BY <1>1
<1>3. ASSUME NEW q \in Tunnels
      PROVE  /\ Followed(tunnel'[q], opener'[q], exit'[q])
             /\ Aged(tunnel[q], tunnel'[q])
  <2>1. CASE q = p
    <3>1. tunnel'[q] = t /\ opener'[q] = o /\ exit'[q] = e
      BY <1>1, <2>1
    <3> QED BY <2>1, <3>1
  <2>2. CASE q # p
    <3>1. tunnel'[q] = tunnel[q] /\ opener'[q] = opener[q] /\ exit'[q] = exit[q]
      BY <1>1, <2>2
    <3>2. Followed(tunnel[q], opener[q], exit[q])
      BY DEF Inv
    <3> QED BY <3>1, <3>2 DEF Aged
  <2> QED BY <2>1, <2>2
<1> QED BY <1>2, <1>3 DEF TunnelsKept
\* Signalling the processes of S: those that ran have been told to exit.
LEMMA ToldEach ==
  ASSUME Inv, NEW S
  PROVE  /\ Told(S) \in [Tunnels -> Processes]
         /\ \A q \in Tunnels :
              /\ Told(S)[q].rec = tunnel[q].rec /\ Told(S)[q].of = tunnel[q].of
              /\ q \in S => Told(S)[q].os # "live"
              /\ \/ Told(S)[q] = tunnel[q]
                 \/ tunnel[q].os = "live" /\ Told(S)[q].os = "told"
<1>1. tunnel \in [Tunnels -> Processes]
  BY DEF Inv, Typed
<1> DEFINE each(q) == IF q \in S /\ tunnel[q].os = "live"
                      THEN [tunnel[q] EXCEPT !.os = "told"] ELSE tunnel[q]
<1>2. ASSUME NEW q \in Tunnels
      PROVE  /\ each(q) \in Processes
             /\ each(q).rec = tunnel[q].rec /\ each(q).of = tunnel[q].of
             /\ q \in S => each(q).os # "live"
             /\ \/ each(q) = tunnel[q]
                \/ tunnel[q].os = "live" /\ each(q).os = "told"
  <2> DEFINE t == tunnel[q]
  <2>1. t \in Processes
    BY <1>1
  <2> HIDE DEF t
  <2>2. [t EXCEPT !.os = "told"] \in Processes /\ [t EXCEPT !.os = "told"].os = "told"
          /\ [t EXCEPT !.os = "told"].rec = t.rec /\ [t EXCEPT !.os = "told"].of = t.of
    BY <2>1 DEF Processes
  <2>3. CASE q \in S /\ t.os = "live"
    BY <2>1, <2>2, <2>3 DEF t
  <2>4. CASE ~(q \in S /\ t.os = "live")
    BY <2>1, <2>4 DEF t
  <2> QED BY <2>3, <2>4
<1>3. Told(S) = [q \in Tunnels |-> each(q)]
  BY DEF Told
<1> HIDE DEF each
<1> QED BY <1>2, <1>3

LEMMA Signalled ==
  ASSUME Inv, NEW S, tunnel' = Told(S), UNCHANGED exit,
         opener' \in [Tunnels -> Openers],
         \A q \in Tunnels : opener'[q] = opener[q] \/ (q \in S /\ opener[q] # "no")
  PROVE  TunnelsKept
<1>1. exit' \in [Tunnels -> ExitSteps_] /\ tunnel' \in [Tunnels -> Processes]
  BY ToldEach DEF Inv, Typed
<1>2. ASSUME NEW q \in Tunnels
      PROVE  /\ Followed(tunnel'[q], opener'[q], exit'[q])
             /\ Aged(tunnel[q], tunnel'[q])
  <2>1. /\ tunnel'[q].rec = tunnel[q].rec /\ tunnel'[q].of = tunnel[q].of
        /\ q \in S => tunnel'[q].os # "live"
        /\ \/ tunnel'[q] = tunnel[q]
           \/ tunnel[q].os = "live" /\ tunnel'[q].os = "told"
    BY ToldEach
  <2>2. Followed(tunnel[q], opener[q], exit[q])
    BY DEF Inv
  <2>3. exit'[q] = exit[q]
    OBVIOUS
  <2>4. opener'[q] = opener[q] \/ (q \in S /\ opener[q] # "no")
    OBVIOUS
  <2> QED BY <2>1, <2>2, <2>3, <2>4 DEF Followed, Aged
<1> QED BY <1>1, <1>2 DEF TunnelsKept

\* openTunnel goes on without touching its process: it may no longer rely on
\* being about to write the row.
LEMMA OpenerMoves ==
  ASSUME Inv, NEW p \in Tunnels, NEW o \in Openers,
         opener' = [opener EXCEPT ![p] = o], UNCHANGED <<tunnel, exit>>,
         opener[p] # "no",
         opener[p] = "outlived" => o = "outlived",
         opener[p] \in {"spawned", "persist"} => o \in {"spawned", "persist"}
  PROVE  TunnelsKept
<1>1. /\ tunnel[p] \in Processes /\ exit[p] \in ExitSteps_
      /\ tunnel' = [tunnel EXCEPT ![p] = tunnel[p]]
      /\ exit' = [exit EXCEPT ![p] = exit[p]]
  BY DEF Inv, Typed
<1>2. Followed(tunnel[p], opener[p], exit[p])
  BY DEF Inv
<1>3. Followed(tunnel[p], o, exit[p])
  BY <1>2 DEF Followed
<1>4. Aged(tunnel[p], tunnel[p])
  BY DEF Aged
<1> QED BY <1>1, <1>3, <1>4, OneProcess

-----------------------------------------------------------------------------
(* The opener of a tunnel *)

LEMMA SpawnKeeps ==
  ASSUME Inv, NEW h \in Hublots, Spawn(h)
  PROVE  TunnelsKept
<1>1. CASE UNCHANGED <<tunnel, opener>>
  BY <1>1, TunnelsStay DEF Spawn
<1>2. CASE \E p \in Tunnels, started \in BOOLEAN :
             /\ FirstUnborn(p)
             /\ tunnel' = [tunnel EXCEPT ![p] =
                  [Unborn EXCEPT !.os = IF started THEN "live" ELSE "dead",
                                 !.of = h, !.reopen = h \in reopens]]
             /\ opener' = [opener EXCEPT ![p] = IF started THEN "spawned" ELSE "fail"]
  <2>1. PICK p \in Tunnels, started \in BOOLEAN :
             /\ FirstUnborn(p)
             /\ tunnel' = [tunnel EXCEPT ![p] =
                  [Unborn EXCEPT !.os = IF started THEN "live" ELSE "dead",
                                 !.of = h, !.reopen = h \in reopens]]
             /\ opener' = [opener EXCEPT ![p] = IF started THEN "spawned" ELSE "fail"]
    BY <1>2
  <2> DEFINE os == IF started THEN "live" ELSE "dead"
             again == h \in reopens
             t == [Unborn EXCEPT !.os = os, !.of = h, !.reopen = again]
             o == IF started THEN "spawned" ELSE "fail"
  <2>2. tunnel[p].os = "unborn"
    BY <2>1 DEF FirstUnborn, Tunnels
  <2>o. os \in {"live", "dead"} /\ again \in BOOLEAN
    OBVIOUS
  <2>3. /\ t \in Processes
        /\ t.os = os /\ t.rec = "none" /\ t.of = h
    <3> HIDE DEF os, again
    <3> QED BY <2>o DEF Unborn, Processes
  <2>5. exit[p] \in ExitSteps_ /\ exit' = [exit EXCEPT ![p] = exit[p]]
    BY DEF Spawn, Inv, Typed
  <2>6. exit[p].step = "no"
    BY <2>2 DEF Inv, Followed
  <2>7. Followed(t, o, exit[p]) /\ Aged(tunnel[p], t)
    <3> HIDE DEF t
    <3> QED BY <2>2, <2>3, <2>6 DEF Followed, Aged
  <2>8. tunnel' = [tunnel EXCEPT ![p] = t] /\ opener' = [opener EXCEPT ![p] = o]
    BY <2>1
  <2>9. o \in Openers
    BY DEF Openers
  <2> QED BY <2>3, <2>5, <2>7, <2>8, <2>9, OneProcess
<1> QED BY <1>1, <1>2 DEF Spawn
\* Signalling one process whose opener goes on to report the failure.
LEMMA FailureSignals ==
  ASSUME Inv, NEW p \in Tunnels, tunnel' = Told({p}), UNCHANGED exit,
         opener' = [opener EXCEPT ![p] = "fail"], opener[p] # "no"
  PROVE  TunnelsKept
<1>1. opener \in [Tunnels -> Openers]
  BY DEF Inv, Typed
<1>2. opener' \in [Tunnels -> Openers]
  BY <1>1 DEF Openers
<1>3. \A q \in Tunnels : opener'[q] = opener[q] \/ (q \in {p} /\ opener[q] # "no")
  BY <1>1
<1> QED BY <1>2, <1>3, Signalled

LEMMA PersistKeeps ==
  ASSUME Inv, NEW p \in Tunnels, Persist(p)
  PROVE  TunnelsKept
<1>1. CASE tunnel' = Told({p}) /\ opener' = [opener EXCEPT ![p] = "fail"]
  BY <1>1, FailureSignals DEF Persist, OpenerFrame
<1>2. CASE /\ tunnel' = [tunnel EXCEPT ![p].rec = "running", ![p].handle = TRUE]
           /\ opener' = [opener EXCEPT ![p] = "url"]
  <2> DEFINE t == [tunnel[p] EXCEPT !.rec = "running", !.handle = TRUE]
  <2>1. tunnel \in [Tunnels -> Processes] /\ exit \in [Tunnels -> ExitSteps_]
    BY DEF Inv, Typed
  <2>2. t \in Processes /\ t.os = tunnel[p].os /\ t.rec = "running" /\ t.of = tunnel[p].of
    <3> DEFINE u == tunnel[p]
    <3>1. u \in Processes
      BY <2>1
    <3> HIDE DEF u
    <3>2. /\ [u EXCEPT !.rec = "running", !.handle = TRUE] \in Processes
          /\ [u EXCEPT !.rec = "running", !.handle = TRUE].os = u.os
          /\ [u EXCEPT !.rec = "running", !.handle = TRUE].rec = "running"
          /\ [u EXCEPT !.rec = "running", !.handle = TRUE].of = u.of
      BY <3>1 DEF Processes
    <3> QED BY <3>2 DEF u
  <2>3. tunnel' = [tunnel EXCEPT ![p] = t]
    BY <1>2, <2>1
  <2> HIDE DEF t
  <2>4. exit[p] \in ExitSteps_ /\ exit' = [exit EXCEPT ![p] = exit[p]]
    BY <2>1 DEF Persist, OpenerFrame
  <2>5. Followed(tunnel[p], opener[p], exit[p]) /\ opener[p] = "persist"
    BY DEF Inv, Persist
  <2>6. Followed(t, "url", exit[p]) /\ Aged(tunnel[p], t)
    BY <2>2, <2>5 DEF Followed, Aged
  <2> QED BY <1>2, <2>2, <2>3, <2>4, <2>6, OneProcess DEF Openers
<1> QED BY <1>1, <1>2 DEF Persist, PersistFailed

LEMMA RequestKeeps ==
  ASSUME Inv, NEW h \in Hublots, RequestSteps(h)
  PROVE  RowKept /\ TunnelsKept /\ UNCHANGED <<sweep, shutdown>>
<1>1. UNCHANGED <<sweep, shutdown>>
  BY DEF RequestSteps, Reserve, ReopenCheck, Retire, Mark, Check, Spawn, RequestStep
<1>2. ASSUME Transition(h, "opening", "open", NoTunnel)  PROVE RowKept
  BY <1>2, TransitionKeeps DEF RowStatuses, Desires
<1>3. CASE Reserve(h)
  <2>1. RowKept
    BY <1>2, <1>3, RowStays DEF Reserve
  <2>2. TunnelsKept
    BY <1>3, TunnelsStay DEF Reserve, RequestStep
  <2> QED BY <1>1, <2>1, <2>2
<1>4. CASE ReopenCheck(h)
  BY <1>1, <1>4, RowStays, TunnelsStay DEF ReopenCheck, RequestStep
<1>5. CASE Retire(h)
  <2> DEFINE old == {p \in Recorded(h) : tunnel[p].rec # "ended"}
  <2>1. tunnel' = Retired(old) /\ UNCHANGED <<row, opener, exit>>
    BY <1>5 DEF Retire, RequestStep
  <2>2. old \subseteq Tunnels
    BY DEF Recorded, Of
  <2>t. opener \in [Tunnels -> Openers] /\ exit \in [Tunnels -> ExitSteps_]
    BY DEF Inv, Typed
  <2> HIDE DEF old
  <2>3. ASSUME NEW q \in Tunnels
        PROVE  /\ tunnel'[q] \in Processes
               /\ Followed(tunnel'[q], opener'[q], exit'[q])
               /\ Aged(tunnel[q], tunnel'[q])
    <3>1. Followed(tunnel[q], opener[q], exit[q]) /\ tunnel[q] \in Processes
      BY DEF Inv, Typed
    <3>2. opener'[q] = opener[q] /\ exit'[q] = exit[q]
      BY <2>1
    <3>3. CASE q \in old
      <4> DEFINE u == Told(old)[q]
      <4>1. /\ u \in Processes
            /\ u.os # "live" /\ u.of = tunnel[q].of
            /\ u = tunnel[q] \/ (tunnel[q].os = "live" /\ u.os = "told")
        BY <3>3, ToldEach
      <4>2. tunnel'[q] = [u EXCEPT !.rec = "ended"]
        BY <2>1, <3>3 DEF Retired
      <4> HIDE DEF u
      <4>3. tunnel'[q] \in Processes /\ tunnel'[q].os = u.os /\ tunnel'[q].rec = "ended"
             /\ tunnel'[q].of = u.of
        BY <4>1, <4>2 DEF Processes
      <4>4. u.os # "unborn" /\ u.of \in Hublots
        BY <1>5, <3>1, <3>3, <4>1 DEF Followed, old, Recorded
      <4>5. exit[q].step # "no" => u.os = "dead"
        BY <3>1, <4>1 DEF Followed
      <4>6. tunnel[q].os = "dead" => u.os = "dead"
        BY <4>1
      <4> QED BY <3>2, <4>1, <4>3, <4>4, <4>5, <4>6 DEF Followed, Aged
    <3>4. CASE q \notin old
      <4>1. tunnel'[q] = tunnel[q]
        BY <2>1, <3>4 DEF Retired
      <4> QED BY <3>1, <3>2, <4>1 DEF Aged
    <3> QED BY <3>3, <3>4
  <2>4. tunnel' \in [Tunnels -> Processes]
    <3>1. tunnel' = [q \in Tunnels |-> tunnel'[q]]
      BY <2>1 DEF Retired
    <3> QED BY <2>3, <3>1
  <2>5. TunnelsKept
    BY <2>1, <2>3, <2>4, <2>t DEF TunnelsKept
  <2> QED BY <1>1, <2>1, <2>5, RowStays
<1>6. CASE Mark(h)
  <2>1. RowKept
    BY <1>2, <1>6 DEF Mark
  <2>2. TunnelsKept
    BY <1>6, TunnelsStay DEF Mark, RequestStep
  <2> QED BY <1>1, <2>1, <2>2
<1>7. CASE Check(h)
  BY <1>1, <1>7, RowStays, TunnelsStay DEF Check, RequestStep
<1>8. CASE Spawn(h)
  <2>1. RowKept
    BY <1>8, RowStays DEF Spawn
  <2> QED BY <1>1, <1>8, <2>1, SpawnKeeps
<1> QED BY <1>3, <1>4, <1>5, <1>6, <1>7, <1>8 DEF RequestSteps
\* What an opener records about its own hublot.
OpenerMoved(p) ==
  \/ OpenerSteps(p) \/ UrlTimeout(p) \/ Output(p) \/ PollAnswers(p) \/ PollFails(p)

LEMMA OpenerKeeps ==
  ASSUME Inv, NEW p \in Tunnels, OpenerMoved(p)
  PROVE  RowKept /\ TunnelsKept /\ UNCHANGED <<sweep, shutdown>>
<1>1. UNCHANGED <<sweep, shutdown>>
  BY DEF OpenerMoved, OpenerSteps, OpenerFrame, Identify, Persist, Confirm, RecordOpen,
         FindOpening, RecordFailed, UrlTimeout, Output, PollAnswers, PollFails
<1>2. CASE Identify(p)
  <2>1. opener' = [opener EXCEPT ![p] = "persist"] /\ opener[p] = "spawned"
    BY <1>2 DEF Identify
  <2>2. TunnelsKept
    BY <1>2, <2>1, OpenerMoves DEF Identify, OpenerFrame, Openers
  <2> QED BY <1>1, <1>2, <2>2, RowStays DEF Identify
<1>3. CASE Persist(p)
  BY <1>1, <1>3, PersistKeeps, RowStays DEF Persist
<1>4. CASE Confirm(p)
  <2>1. opener[p] = "confirm" /\ UNCHANGED <<row, tunnel, exit>>
    BY <1>4 DEF Confirm, OpenerFrame
  <2>2. \E o \in {"poll", "fail"} : opener' = [opener EXCEPT ![p] = o]
    BY <1>4 DEF Confirm
  <2>3. TunnelsKept
    BY <2>1, <2>2, OpenerMoves DEF Openers
  <2> QED BY <1>1, <2>1, <2>3, RowStays
<1>5. CASE RecordOpen(p)
  <2>1. p \in Tunnels \cup {NoTunnel} /\ Transition(tunnel[p].of, "open", "open", p)
    BY <1>5 DEF RecordOpen, Opened
  <2>2. RowKept
    BY <2>1, TransitionKeeps DEF RowStatuses, Desires
  <2>3. opener[p] = "open" /\ UNCHANGED <<tunnel, exit>>
    BY <1>5 DEF RecordOpen, OpenerFrame
  <2>4. \E o \in {"done", "hung"} : opener' = [opener EXCEPT ![p] = o]
    BY <1>5 DEF RecordOpen, EndOpening
  <2>5. TunnelsKept
    BY <2>3, <2>4, OpenerMoves DEF Openers
  <2> QED BY <1>1, <2>2, <2>5
<1>6. CASE FindOpening(p)
  <2>1. opener[p] = "fail" /\ UNCHANGED <<row, tunnel, exit>>
    BY <1>6 DEF FindOpening, OpenerFrame
  <2>2. \E o \in {"failed", "done"} : opener' = [opener EXCEPT ![p] = o]
    BY <1>6 DEF FindOpening, EndOpening
  <2>3. TunnelsKept
    BY <2>1, <2>2, OpenerMoves DEF Openers
  <2> QED BY <1>1, <2>1, <2>3, RowStays
<1>7. CASE RecordFailed(p)
  <2> DEFINE h == tunnel[p].of
  <2>1. Transition(h, "failed", row[h].desired, NoTunnel) /\ opener[p] = "failed"
    BY <1>7 DEF RecordFailed
  <2>2. h \in Hublots
    BY <2>1 DEF Inv, Typed, Processes, Followed
  <2>3. row[h].desired \in Desires
    BY <2>2 DEF Inv, Typed, Rows
  <2>4. RowKept
    BY <2>1, <2>3, TransitionKeeps DEF RowStatuses
  <2>5. opener[p] = "failed" /\ opener' = [opener EXCEPT ![p] = "done"] /\ UNCHANGED <<tunnel, exit>>
    BY <1>7 DEF RecordFailed, OpenerFrame, EndOpening
  <2>6. TunnelsKept
    BY <2>5, OpenerMoves DEF Openers
  <2> QED BY <1>1, <2>4, <2>6
<1>8. CASE UrlTimeout(p)
  BY <1>1, <1>8, FailureSignals, RowStays DEF UrlTimeout, OpenerFrame
<1>9. CASE Output(p) \/ PollAnswers(p)
  <2>1. opener[p] \in {"url", "poll"} /\ UNCHANGED <<row, tunnel, exit>>
    BY <1>9 DEF Output, PollAnswers, OpenerFrame
  <2>2. \E o \in {"confirm", "open"} : opener' = [opener EXCEPT ![p] = o]
    BY <1>9 DEF Output, PollAnswers
  <2>3. TunnelsKept
    BY <2>1, <2>2, OpenerMoves DEF Openers
  <2> QED BY <1>1, <2>1, <2>3, RowStays
<1>10. CASE PollFails(p)
  BY <1>1, <1>10, FailureSignals, RowStays DEF PollFails, OpenerFrame
<1> QED BY <1>2, <1>3, <1>4, <1>5, <1>6, <1>7, <1>8, <1>9, <1>10 DEF OpenerMoved, OpenerSteps

-----------------------------------------------------------------------------
(* Exits and DELETEs *)

LEMMA DiesKeeps ==
  ASSUME Inv, NEW p \in Tunnels, Dies(p)
  PROVE  RowKept /\ TunnelsKept /\ UNCHANGED <<sweep, shutdown>>
<1> DEFINE u == tunnel[p]
           t == [u EXCEPT !.os = "dead", !.handle = FALSE]
           e == IF u.handle THEN [NoExit EXCEPT !.step = "finish"] ELSE exit[p]
<1>1. u \in Processes /\ exit[p] \in ExitSteps_ /\ opener[p] \in Openers
  BY DEF Inv, Typed
<1>2. /\ tunnel' = [tunnel EXCEPT ![p] = t]
      /\ opener' = [opener EXCEPT ![p] = opener[p]]
      /\ exit' = [exit EXCEPT ![p] = e]
  BY DEF Dies, Inv, Typed
<1>3. e \in ExitSteps_
  BY <1>1 DEF NoExit, ExitSteps_, Desires
<1>4. u.os # "unborn" /\ u.of \in Hublots /\ UNCHANGED <<row, sweep, shutdown>>
  BY DEF Dies, Alive, Inv, Followed
<1> HIDE DEF u, e
<1>5. t \in Processes /\ t.os = "dead" /\ t.of = u.of
  <2> DEFINE no == FALSE
             v == [u EXCEPT !.os = "dead", !.handle = no]
  <2>2. no \in BOOLEAN
    OBVIOUS
  <2> HIDE DEF no
  <2>3. v \in Processes /\ v.os = "dead" /\ v.of = u.of
    BY <1>1, <2>2 DEF Processes
  <2> QED BY <2>3 DEF no
<1> HIDE DEF t
<1>6. Followed(t, opener[p], e) /\ Aged(tunnel[p], t)
  BY <1>4, <1>5 DEF Followed, Aged, u
<1> QED BY <1>1, <1>2, <1>3, <1>4, <1>5, <1>6, OneProcess, RowStays

LEMMA ExitKeeps ==
  ASSUME Inv, NEW p \in Tunnels, ExitSteps(p)
  PROVE  RowKept /\ TunnelsKept /\ UNCHANGED <<sweep, shutdown>>
<1>t. /\ tunnel \in [Tunnels -> Processes] /\ tunnel[p] \in Processes
      /\ opener \in [Tunnels -> Openers] /\ opener[p] \in Openers
      /\ exit \in [Tunnels -> ExitSteps_] /\ exit[p] \in ExitSteps_
      /\ Followed(tunnel[p], opener[p], exit[p])
  BY DEF Inv, Typed
<1>d. exit[p].step # "no"
  BY DEF ExitSteps, ExitFinish, ExitLook, ExitList, ExitRecord, ExitStep
<1>e. tunnel[p].os = "dead" /\ tunnel[p].of \in Hublots
  BY <1>t, <1>d DEF Followed
<1>f. UNCHANGED <<sweep, shutdown>>
  BY DEF ExitSteps, ExitFinish, ExitLook, ExitList, ExitRecord, ExitFrame
\* The process is dead, so its listener may do as it likes with its own state.
<1>g. ASSUME NEW t \in Processes, NEW o \in Openers, NEW e \in ExitSteps_, t.os = "dead", t.of = tunnel[p].of,
             tunnel' = [tunnel EXCEPT ![p] = t],
             opener' = [opener EXCEPT ![p] = o], exit' = [exit EXCEPT ![p] = e]
      PROVE  TunnelsKept
  <2>1. Followed(t, o, e) /\ Aged(tunnel[p], t)
    BY <1>e, <1>g DEF Followed, Aged
  <2> QED BY <1>g, <2>1, OneProcess
<1>h. ASSUME NEW e \in ExitSteps_, exit' = [exit EXCEPT ![p] = e], UNCHANGED <<tunnel, opener>>
      PROVE  TunnelsKept
  <2>1. /\ tunnel' = [tunnel EXCEPT ![p] = tunnel[p]]
        /\ opener' = [opener EXCEPT ![p] = opener[p]]
    BY <1>t, <1>h
  <2> QED BY <1>t, <1>e, <1>g, <1>h, <2>1
<1>1. CASE ExitFinish(p)
  <2> DEFINE unsettled == opener[p] \in {"url", "confirm", "poll"}
             u == tunnel[p]
             t == [u EXCEPT !.rec = "ended"]
             o == IF unsettled THEN "fail" ELSE opener[p]
             x == exit[p]
             e == [x EXCEPT !.step = IF unsettled THEN "no" ELSE "look"]
  <2>1. /\ tunnel' = [tunnel EXCEPT ![p] = t]
        /\ opener' = [opener EXCEPT ![p] = o]
        /\ exit' = [exit EXCEPT ![p] = e]
        /\ UNCHANGED row
    BY <1>1, <1>t DEF ExitFinish
  <2>2. o \in Openers
    BY <1>t DEF Openers
  <2> HIDE DEF u, x, unsettled
  <2>3. e \in ExitSteps_
    BY <1>t DEF ExitSteps_, x
  <2>4. t \in Processes /\ t.os = "dead" /\ t.of = tunnel[p].of
    BY <1>t, <1>e DEF Processes, u
  <2> HIDE DEF t, o, e
  <2> QED BY <1>f, <1>g, <2>1, <2>2, <2>3, <2>4, RowStays
<1>2. CASE ExitLook(p)
  <2> DEFINE h == tunnel[p].of
  <2>1. UNCHANGED <<row, tunnel, opener>>
    BY <1>2 DEF ExitLook
  <2>2. CASE exit' = [exit EXCEPT ![p] = NoExit]
    BY <1>f, <1>h, <2>1, <2>2, RowStays DEF NoExit, ExitSteps_, Desires
  <2>3. CASE /\ row[h].status \notin {"failed", "closed"}
             /\ exit' = [exit EXCEPT ![p] = [step |-> "list", desired |-> row[h].desired]]
    <3>2. row[h].desired \in Desires
      BY <1>e DEF Inv, Typed, Rows
    <3>3. [step |-> "list", desired |-> row[h].desired] \in ExitSteps_
      BY <3>2 DEF ExitSteps_
    <3> QED BY <1>f, <1>h, <2>1, <2>3, <3>3, RowStays
  <2> QED BY <1>2, <2>2, <2>3 DEF ExitLook
<1>3. CASE ExitList(p)
  <2> DEFINE x == exit[p]
  <2>1. UNCHANGED <<row, tunnel, opener>>
    BY <1>3 DEF ExitList
  <2>2. CASE exit' = [exit EXCEPT ![p] = NoExit]
    BY <1>f, <1>h, <2>1, <2>2, RowStays DEF NoExit, ExitSteps_, Desires
  <2>3. CASE exit' = [exit EXCEPT ![p] = [x EXCEPT !.step = "record"]]
    <3>1. [x EXCEPT !.step = "record"] \in ExitSteps_
      <4> HIDE DEF x
      <4> QED BY <1>t DEF ExitSteps_, x
    <3> QED BY <1>f, <1>h, <2>1, <2>3, <3>1, RowStays
  <2>4. exit' = [exit EXCEPT ![p] = [x EXCEPT !.step = "record"]] \/ exit' = [exit EXCEPT ![p] = NoExit]
    BY <1>3, <1>t DEF ExitList
  <2> QED BY <2>2, <2>3, <2>4
<1>4. CASE ExitRecord(p)
  <2> DEFINE d == exit[p].desired
             status == IF d = "closed" THEN "closed" ELSE "interrupted"
  <2>1. Transition(tunnel[p].of, status, d, NoTunnel) /\ d \in Desires
    BY <1>4, <1>t DEF ExitRecord, ExitSteps_
  <2>2. status \in RowStatuses /\ status \notin {"open", "opening", "closing"}
          /\ (status = "closed" => d = "closed")
    BY DEF RowStatuses
  <2> HIDE DEF d, status
  <2>3. RowKept
    BY <2>1, <2>2, TransitionKeeps
  <2>4. NoExit \in ExitSteps_ /\ exit' = [exit EXCEPT ![p] = NoExit] /\ UNCHANGED <<tunnel, opener>>
    BY <1>4 DEF ExitRecord, NoExit, ExitSteps_, Desires
  <2> QED BY <1>f, <1>h, <2>3, <2>4
<1> QED BY <1>1, <1>2, <1>3, <1>4 DEF ExitSteps

LEMMA CloseKeeps ==
  ASSUME Inv, NEW h \in Hublots, CloseSteps(h)
  PROVE  RowKept /\ TunnelsKept /\ UNCHANGED <<sweep, shutdown>>
<1>1. UNCHANGED <<sweep, shutdown, opener, exit>>
  BY DEF CloseSteps, CloseFind, CloseMark, CloseKill, CloseEnd, CloseStep
<1>2. CASE CloseFind(h)
  BY <1>1, <1>2, RowStays, TunnelsStay DEF CloseFind
<1>3. CASE CloseMark(h)
  <2>1. RowKept
    BY <1>3, TransitionKeeps DEF CloseMark, RowStatuses, Desires
  <2> QED BY <1>1, <1>3, <2>1, TunnelsStay DEF CloseMark
<1>4. CASE CloseKill(h)
  <2>1. opener' \in [Tunnels -> Openers] /\ \A q \in Tunnels : opener'[q] = opener[q]
    BY <1>1 DEF Inv, Typed
  <2>2. TunnelsKept
    BY <1>1, <1>4, <2>1, Signalled DEF CloseKill
  <2> QED BY <1>1, <1>4, <2>2, RowStays DEF CloseKill
<1>5. CASE CloseEnd(h)
  <2>1. RowKept
    BY <1>5, TransitionKeeps DEF CloseEnd, RowStatuses, Desires
  <2> QED BY <1>1, <1>5, <2>1, TunnelsStay DEF CloseEnd
<1> QED BY <1>2, <1>3, <1>4, <1>5 DEF CloseSteps
-----------------------------------------------------------------------------
(* The supervisor *)

\* The supervisor and the shutdown finish the rows of processes known dead.
LEMMA FinishedRows ==
  ASSUME Inv, NEW S, \A p \in S : tunnel[p].os = "dead",
         tunnel' = [p \in Tunnels |-> IF p \in S THEN [tunnel[p] EXCEPT !.rec = "ended"]
                                                 ELSE tunnel[p]],
         UNCHANGED <<opener, exit>>
  PROVE  TunnelsKept /\ \A p \in Tunnels : tunnel'[p].os = tunnel[p].os
<1>1. /\ tunnel \in [Tunnels -> Processes]
      /\ opener \in [Tunnels -> Openers] /\ exit \in [Tunnels -> ExitSteps_]
  BY DEF Inv, Typed
<1>2. ASSUME NEW p \in Tunnels
      PROVE  /\ tunnel'[p] \in Processes
             /\ tunnel'[p].os = tunnel[p].os /\ tunnel'[p].of = tunnel[p].of
             /\ tunnel'[p].rec = tunnel[p].rec \/ tunnel[p].os = "dead"
  <2> DEFINE t == tunnel[p]
  <2>1. t \in Processes
    BY <1>1
  <2>2. tunnel'[p] = IF p \in S THEN [t EXCEPT !.rec = "ended"] ELSE t
    OBVIOUS
  <2>3. p \in S => t.os = "dead"
    OBVIOUS
  <2>4. t = tunnel[p]
    OBVIOUS
  <2> HIDE DEF t
  <2>5. CASE p \in S
    <3>1. [t EXCEPT !.rec = "ended"] \in Processes /\ [t EXCEPT !.rec = "ended"].os = t.os
            /\ [t EXCEPT !.rec = "ended"].of = t.of
      BY <2>1 DEF Processes
    <3> QED BY <2>2, <2>3, <2>4, <2>5, <3>1
  <2>6. CASE p \notin S
    BY <2>1, <2>2, <2>4, <2>6
  <2> QED BY <2>5, <2>6
<1>3. tunnel' \in [Tunnels -> Processes]
  <2>1. tunnel' = [p \in Tunnels |-> tunnel'[p]]
    OBVIOUS
  <2> QED BY <1>2, <2>1
<1>4. ASSUME NEW p \in Tunnels
      PROVE  Followed(tunnel'[p], opener'[p], exit'[p]) /\ Aged(tunnel[p], tunnel'[p])
  <2>1. Followed(tunnel[p], opener[p], exit[p]) /\ opener'[p] = opener[p] /\ exit'[p] = exit[p]
    BY DEF Inv
  <2> QED BY <1>2, <2>1 DEF Followed, Aged
<1> QED BY <1>1, <1>2, <1>3, <1>4 DEF TunnelsKept

\* Its sweep decides about one hublot at a time.
LEMMA SweepTypes ==
  ASSUME Inv, NEW new \in Sweeps, SweepGoesOn(new)
  PROVE  /\ sweep' \in Sweeps
         /\ sweep'.lost \subseteq new.lost
<1>1. NoSweep \in Sweeps /\ NoSweep.lost = {}
  <2> DEFINE none == {}
             seen == [h \in Hublots |-> "absent"]
             no == FALSE
             s == [step |-> "no", all |-> no, todo |-> none, seen |-> seen, lost |-> none,
                   healthy |-> no]
  <2>1. no \in BOOLEAN /\ seen \in [Hublots -> RowStatuses]
          /\ none \in SUBSET Hublots /\ none \in SUBSET Tunnels
    BY DEF RowStatuses
  <2> HIDE DEF none, seen, no
  <2>2. s \in Sweeps /\ s.lost = none
    BY <2>1 DEF Sweeps
  <2> QED BY <2>2 DEF NoSweep, none, seen, no
<1>2. [new EXCEPT !.step = "procs"] \in Sweeps /\ [new EXCEPT !.step = "procs"].lost = new.lost
  BY DEF Sweeps
<1>3. CASE new.todo = {}
  BY <1>1, <1>3 DEF SweepGoesOn
<1>4. CASE new.todo # {}
  BY <1>2, <1>4 DEF SweepGoesOn
<1> QED BY <1>3, <1>4

\* A step that looks at no new process.
LEMMA SweepLooks ==
  ASSUME Inv, TunnelsKept, sweep' \in Sweeps, UNCHANGED shutdown,
         \A p \in sweep'.lost : tunnel'[p].os = "dead"
  PROVE  LookersTyped /\ Looked'
<1>1. shutdown.targets \subseteq Tunnels /\ shutdown \in Shutdowns /\ Looked
  BY DEF Inv, Typed, Shutdowns
<1>2. \A q \in Tunnels : Aged(tunnel[q], tunnel'[q])
  BY DEF TunnelsKept
<1>3. LookersTyped
  BY <1>1 DEF LookersTyped
<1>4. \A q \in shutdown.targets : tunnel'[q].os # "unborn"
  BY <1>1, <1>2 DEF Looked, Aged
<1>5. shutdown.step = "settle"
        => \A q \in shutdown.targets \ shutdown.remaining : tunnel'[q].os = "dead"
  BY <1>1, <1>2 DEF Looked, Aged
<1> QED BY <1>3, <1>4, <1>5 DEF Looked

LEMMA SweepKeeps ==
  ASSUME Inv, SweepSteps
  PROVE  Inv'
<1>1. UNCHANGED <<opener, exit, shutdown>>
  BY DEF SweepSteps, SweepList, SweepProcs, SweepFind, SweepClose, SweepStep
<1>2. /\ sweep \in Sweeps /\ sweep.lost \subseteq Tunnels
      /\ \A p \in sweep.lost : tunnel[p].os = "dead"
      /\ row \in [Hublots -> Rows] /\ tunnel \in [Tunnels -> Processes]
      /\ opener \in [Tunnels -> Openers] /\ exit \in [Tunnels -> ExitSteps_]
  BY DEF Inv, Typed, Looked, Sweeps
<1>3. ASSUME UNCHANGED tunnel, RowKept, sweep' \in Sweeps, sweep'.lost \subseteq sweep.lost
      PROVE  Inv'
  <2>1. TunnelsKept
    BY <1>1, <1>3, TunnelsStay
  <2>2. \A p \in sweep'.lost : tunnel'[p].os = "dead"
    BY <1>2, <1>3
  <2>3. LookersTyped /\ Looked'
    BY <1>1, <1>3, <2>1, <2>2, SweepLooks
  <2> QED BY <1>3, <2>1, <2>3, Together
<1>4. CASE SweepList
  <2> DEFINE todo == {h \in Hublots : /\ row[h].desired = "open"
                                      /\ row[h].status \notin {"closing", "closed"}
                                      /\ InScope(h)}
             seen == [h \in Hublots |-> row[h].status]
             new == [sweep EXCEPT !.todo = todo, !.seen = seen]
  <2>1. todo \in SUBSET Hublots /\ seen \in [Hublots -> RowStatuses]
    BY <1>2 DEF Rows
  <2>2. SweepGoesOn(new) /\ UNCHANGED <<row, tunnel>>
    BY <1>4 DEF SweepList
  <2> HIDE DEF todo, seen
  <2>3. new \in Sweeps /\ new.lost = sweep.lost
    BY <1>2, <2>1 DEF Sweeps
  <2> HIDE DEF new
  <2>4. sweep' \in Sweeps /\ sweep'.lost \subseteq sweep.lost
    BY <2>2, <2>3, SweepTypes
  <2> QED BY <1>3, <2>2, <2>4, RowStays
<1>n. Next1 \in Sweeps /\ Next1.lost = sweep.lost
  BY <1>2 DEF Next1, Sweeps
<1>5. CASE SweepProcs
  <2> DEFINE lost == {p \in Current(Subject) : ~Alive(p)}
             healthy == \E p \in Current(Subject) : Alive(p)
             new == [sweep EXCEPT !.step = "find", !.lost = lost, !.healthy = healthy]
  <2>1. UNCHANGED <<row, tunnel>> /\ sweep' = new
    BY <1>5 DEF SweepProcs, SweepAwaits
  <2>2. lost \in SUBSET Tunnels /\ healthy \in BOOLEAN
    BY DEF Current, Of
  <2>3. \A p \in lost : tunnel[p].os = "dead"
    <3> SUFFICES ASSUME NEW p \in lost PROVE tunnel[p].os = "dead"
      OBVIOUS
    <3>1. p \in Tunnels /\ tunnel[p].rec = "running" /\ ~Alive(p)
      BY DEF Current, Of
    <3>2. Followed(tunnel[p], opener[p], exit[p]) /\ tunnel[p] \in Processes
      BY <3>1 DEF Inv, Typed
    <3>3. tunnel[p].os # "unborn"
      BY <3>1, <3>2 DEF Followed
    <3> QED BY <3>1, <3>2, <3>3 DEF Alive, Processes
  <2> HIDE DEF lost, healthy
  <2>4. new \in Sweeps /\ new.lost = lost
    BY <1>2, <2>2 DEF Sweeps
  <2> HIDE DEF new
  <2>5. TunnelsKept
    BY <1>1, <2>1, TunnelsStay
  <2>6. LookersTyped /\ Looked'
    BY <1>1, <2>1, <2>3, <2>4, <2>5, SweepLooks
  <2> QED BY <2>1, <2>5, <2>6, RowStays, Together
<1>6. CASE SweepFind
  <2>1. /\ tunnel' = [p \in Tunnels |-> IF p \in sweep.lost THEN [tunnel[p] EXCEPT !.rec = "ended"]
                                                            ELSE tunnel[p]]
        /\ UNCHANGED row
    BY <1>6 DEF SweepFind
  <2>2. sweep' \in Sweeps /\ sweep'.lost \subseteq sweep.lost
    <3>1. CASE SweepAwaits([sweep EXCEPT !.step = "close"])
      <4>1. sweep' = [sweep EXCEPT !.step = "close"]
        BY <3>1 DEF SweepAwaits
      <4> QED BY <1>2, <4>1 DEF Sweeps
    <3>2. CASE SweepGoesOn(Next1)
      BY <1>n, <3>2, SweepTypes
    <3> QED BY <1>6, <3>1, <3>2 DEF SweepFind
  <2>4. TunnelsKept /\ \A p \in Tunnels : tunnel'[p].os = tunnel[p].os
    BY <1>1, <1>2, <2>1, FinishedRows
  <2>5. \A p \in sweep'.lost : tunnel'[p].os = "dead"
    BY <1>2, <2>2, <2>4
  <2>6. LookersTyped /\ Looked'
    BY <1>1, <2>2, <2>4, <2>5, SweepLooks
  <2> QED BY <2>1, <2>4, <2>6, RowStays, Together
<1>7. CASE SweepClose
  <2>1. RowKept
    BY <1>7, TransitionKeeps DEF SweepClose, RowStatuses, Desires
  <2>2. SweepGoesOn(Next1) /\ UNCHANGED tunnel
    BY <1>7 DEF SweepClose
  <2>3. sweep' \in Sweeps /\ sweep'.lost \subseteq sweep.lost
    BY <1>n, <2>2, SweepTypes
  <2> QED BY <1>3, <2>1, <2>2, <2>3
<1> QED BY <1>4, <1>5, <1>6, <1>7 DEF SweepSteps
-----------------------------------------------------------------------------
(* Shutdown, crash and restart *)

LEMMA ServingTyped ==
  /\ Serving \in Shutdowns /\ Serving.targets = {} /\ Serving.step = "no"
  /\ \A step \in {"list", "done"} :
       /\ [Serving EXCEPT !.step = step] \in Shutdowns
       /\ [Serving EXCEPT !.step = step].targets = {}
<1> DEFINE hublots == {}
           tunnels == {}
           s == [step |-> "no", todo |-> hublots, targets |-> tunnels, remaining |-> tunnels]
<1>1. hublots \in SUBSET Hublots /\ tunnels \in SUBSET Tunnels
  OBVIOUS
<1> HIDE DEF hublots, tunnels
<1>2. s \in Shutdowns /\ s.targets = tunnels /\ s.step = "no"
  BY <1>1 DEF Shutdowns
<1>3. \A step \in {"list", "done"} :
        [s EXCEPT !.step = step] \in Shutdowns /\ [s EXCEPT !.step = step].targets = tunnels
  BY <1>1 DEF Shutdowns
<1>4. Serving = s
  BY DEF Serving, hublots, tunnels
<1>5. tunnels = {}
  BY DEF tunnels
<1> HIDE DEF s
<1> QED BY <1>2, <1>3, <1>4, <1>5

\* Its targets are processes that were born, and a step that settles knows
\* that those it does not wait for are dead.
LEMMA ShutdownLooks ==
  ASSUME Inv, TunnelsKept, shutdown' \in Shutdowns, UNCHANGED sweep,
         \A p \in shutdown'.targets : tunnel'[p].os # "unborn",
         shutdown'.step = "settle"
           => \A p \in shutdown'.targets \ shutdown'.remaining : tunnel'[p].os = "dead"
  PROVE  LookersTyped /\ Looked'
<1>1. sweep.lost \subseteq Tunnels /\ sweep \in Sweeps /\ Looked
  BY DEF Inv, Typed, Sweeps
<1>2. \A q \in Tunnels : Aged(tunnel[q], tunnel'[q])
  BY DEF TunnelsKept
<1>3. \A p \in sweep.lost : tunnel'[p].os = "dead"
  BY <1>1, <1>2 DEF Looked, Aged
<1> QED BY <1>1, <1>3 DEF Looked, LookersTyped

LEMMA GoesOnKeeps ==
  ASSUME Inv, NEW new \in Shutdowns, ShutdownGoesOn(new),
         \A p \in new.targets : tunnel[p].os # "unborn",
         UNCHANGED <<opener, exit, sweep>>
  PROVE  TunnelsKept /\ LookersTyped /\ Looked'
<1>1. opener' \in [Tunnels -> Openers] /\ \A q \in Tunnels : opener'[q] = opener[q]
  BY DEF Inv, Typed
<1>2. TunnelsKept
  <2>1. CASE tunnel' = Told(new.targets)
    BY <1>1, <2>1, Signalled
  <2>2. CASE UNCHANGED tunnel
    BY <2>2, TunnelsStay
  <2> QED BY <2>1, <2>2 DEF ShutdownGoesOn
<1>3. \A step \in {"wait", "mark"} :
        /\ [new EXCEPT !.step = step] \in Shutdowns
        /\ [new EXCEPT !.step = step].targets = new.targets
        /\ [new EXCEPT !.step = step].step = step
  BY DEF Shutdowns
<1>4. \E step \in {"wait", "mark"} : shutdown' = [new EXCEPT !.step = step]
  BY DEF ShutdownGoesOn
<1>5. shutdown' \in Shutdowns /\ shutdown'.targets = new.targets /\ shutdown'.step # "settle"
  BY <1>3, <1>4
<1>6. \A p \in new.targets : tunnel'[p].os # "unborn"
  <2>1. new.targets \subseteq Tunnels
    BY DEF Shutdowns
  <2>2. \A q \in Tunnels : Aged(tunnel[q], tunnel'[q])
    BY <1>2 DEF TunnelsKept
  <2> QED BY <2>1, <2>2 DEF Aged
<1> QED BY <1>2, <1>5, <1>6, ShutdownLooks

LEMMA ShutdownKeeps ==
  ASSUME Inv, ShutdownSteps \/ ShutdownWaits
  PROVE  Inv'
<1>1. UNCHANGED <<opener, exit, sweep>>
  BY DEF ShutdownSteps, ShutdownList, ShutdownMark, ShutdownSettle, ShutdownWaits, ShutdownStep,
         ShutdownFrame
<1>2. /\ shutdown \in Shutdowns /\ shutdown.targets \subseteq Tunnels
      /\ \A p \in shutdown.targets : tunnel[p].os # "unborn"
      /\ row \in [Hublots -> Rows] /\ tunnel \in [Tunnels -> Processes]
      /\ \A p \in Tunnels : Followed(tunnel[p], opener[p], exit[p])
  BY DEF Inv, Typed, Looked, Shutdowns
<1>3. CASE ShutdownList
  <2> DEFINE todo == {h \in Hublots : row[h].desired = "open"}
             new == [shutdown EXCEPT !.todo = todo]
  <2>1. ShutdownGoesOn(new) /\ UNCHANGED row
    BY <1>3 DEF ShutdownList
  <2>2. todo \in SUBSET Hublots
    OBVIOUS
  <2> HIDE DEF todo
  <2>3. new \in Shutdowns /\ new.targets = shutdown.targets
    BY <1>2, <2>2 DEF Shutdowns
  <2> HIDE DEF new
  <2>4. TunnelsKept /\ LookersTyped /\ Looked'
    BY <1>1, <1>2, <2>1, <2>3, GoesOnKeeps
  <2> QED BY <2>1, <2>4, RowStays, Together
<1>4. CASE ShutdownMark
  <2> DEFINE todo == shutdown.todo \ {NextRow}
             targets == shutdown.targets \cup {p \in Current(NextRow) : Alive(p)}
             new == [shutdown EXCEPT !.todo = todo, !.targets = targets]
  <2>1. ShutdownGoesOn(new) /\ Transition(NextRow, "closing", "closed", NoTunnel)
    BY <1>4 DEF ShutdownMark
  <2>2. todo \in SUBSET Hublots /\ targets \in SUBSET Tunnels
    BY <1>2 DEF Shutdowns, Current, Of
  <2>3. \A p \in targets : tunnel[p].os # "unborn"
    BY <1>2 DEF Alive
  <2> HIDE DEF todo, targets
  <2>4. new \in Shutdowns /\ new.targets = targets
    BY <1>2, <2>2 DEF Shutdowns
  <2> HIDE DEF new
  <2>5. TunnelsKept /\ LookersTyped /\ Looked'
    BY <1>1, <2>1, <2>3, <2>4, GoesOnKeeps
  <2>6. RowKept
    BY <2>1, TransitionKeeps DEF RowStatuses, Desires
  <2> QED BY <2>5, <2>6, Together
<1>5. CASE ShutdownWaits
  <2> DEFINE alive == {p \in shutdown.targets : Alive(p)}
             new == [shutdown EXCEPT !.step = "settle", !.remaining = alive]
  <2>1. shutdown' = new /\ UNCHANGED <<row, tunnel>>
    BY <1>5 DEF ShutdownWaits
  <2>2. alive \in SUBSET Tunnels
    BY <1>2
  <2>3. \A p \in shutdown.targets \ alive : tunnel[p].os = "dead"
    BY <1>2 DEF Alive, Processes
  <2> HIDE DEF alive
  <2>4. new \in Shutdowns /\ new.targets = shutdown.targets /\ new.remaining = alive
    BY <1>2, <2>2 DEF Shutdowns
  <2> HIDE DEF new
  <2>5. TunnelsKept
    BY <1>1, <2>1, TunnelsStay
  <2>6. LookersTyped /\ Looked'
    BY <1>1, <1>2, <2>1, <2>3, <2>4, <2>5, ShutdownLooks
  <2> QED BY <2>1, <2>5, <2>6, RowStays, Together
<1>6. CASE ShutdownSettle
  <2> DEFINE stopped == shutdown.targets \ shutdown.remaining
  <2>1. /\ tunnel' = [p \in Tunnels |-> IF p \in stopped THEN [tunnel[p] EXCEPT !.rec = "ended"]
                                                         ELSE tunnel[p]]
        /\ shutdown' = [Serving EXCEPT !.step = "done"]
    BY <1>6 DEF ShutdownSettle
  <2>2. shutdown.step = "settle"
    BY <1>6 DEF ShutdownSettle, ShutdownStep
  <2>3. \A p \in stopped : tunnel[p].os = "dead"
    BY <2>2 DEF Inv, Looked
  <2> HIDE DEF stopped
  <2>4. TunnelsKept
    BY <1>1, <2>1, <2>3, FinishedRows
  <2>5. shutdown' \in Shutdowns /\ shutdown'.targets = {} /\ shutdown'.step = "done"
    <3>1. [Serving EXCEPT !.step = "done"].step = "done"
      BY DEF Serving
    <3> QED BY <2>1, <3>1, ServingTyped
  <2>6. LookersTyped /\ Looked'
    BY <1>1, <2>4, <2>5, ShutdownLooks
  <2>7. RowKept
    <3> DEFINE status(h) == IF Of(h) \cap shutdown.remaining # {} THEN "interrupted" ELSE "closed"
               new(h) == IF row[h].status # "closing" THEN row[h] ELSE [row[h] EXCEPT !.status = status(h)]
    <3>1. ASSUME NEW h \in Hublots  PROVE new(h) \in Rows
      <4>1. CASE row[h].status # "closing"
        BY <1>2, <4>1
      <4>2. CASE row[h].status = "closing"
        <5> DEFINE r == row[h]
        <5>1. r \in Rows /\ r.status = "closing"
          BY <1>2, <4>2
        <5>2. \A s \in {"interrupted", "closed"} : [r EXCEPT !.status = s] \in Rows
          <6> HIDE DEF r
          <6> QED BY <5>1 DEF Rows, RowStatuses, Agrees
        <5>3. status(h) \in {"interrupted", "closed"}
          OBVIOUS
        <5> HIDE DEF status
        <5> QED BY <4>2, <5>2, <5>3
      <4> QED BY <4>1, <4>2
    <3>2. row' = [h \in Hublots |-> new(h)]
      BY <1>6 DEF ShutdownSettle
    <3> HIDE DEF new
    <3> QED BY <3>1, <3>2 DEF RowKept
  <2> QED BY <2>4, <2>6, <2>7, Together
<1> QED BY <1>3, <1>4, <1>5, <1>6 DEF ShutdownSteps

LEMMA FirstSweepTyped ==
  /\ FirstSweep \in Sweeps /\ FirstSweep.lost = {}
  /\ [NoSweep EXCEPT !.step = "list"] \in Sweeps /\ [NoSweep EXCEPT !.step = "list"].lost = {}
<1> DEFINE none == {}
           seen == [h \in Hublots |-> "absent"]
           no == FALSE
           yes == TRUE
           s == [step |-> "no", all |-> no, todo |-> none, seen |-> seen, lost |-> none, healthy |-> no]
<1>1. no \in BOOLEAN /\ yes \in BOOLEAN /\ seen \in [Hublots -> RowStatuses]
        /\ none \in SUBSET Hublots /\ none \in SUBSET Tunnels
  BY DEF RowStatuses
<1> HIDE DEF none, seen, no, yes
<1>2. /\ [s EXCEPT !.step = "list"] \in Sweeps /\ [s EXCEPT !.step = "list"].lost = none
      /\ [s EXCEPT !.step = "list", !.all = yes] \in Sweeps
      /\ [s EXCEPT !.step = "list", !.all = yes].lost = none
  BY <1>1 DEF Sweeps
<1>3. NoSweep = s
  BY DEF NoSweep, none, seen, no
<1> HIDE DEF s
<1> QED BY <1>2, <1>3 DEF FirstSweep, none, yes

\* The server ends: what runs on has nobody who follows it.
LEMMA ServerEndsKeeps ==
  ASSUME Inv, NEW survivors \in Survivors, ServerEnds(survivors)
  PROVE  Inv'
<1>1. /\ tunnel \in [Tunnels -> Processes]
      /\ \A p \in survivors : p \in Tunnels /\ Alive(p)
  BY DEF Inv, Typed, Survivors
<1> DEFINE ended(p) == [tunnel[p] EXCEPT !.handle = FALSE, !.reopen = FALSE,
                          !.os = IF @ = "unborn" \/ p \in survivors THEN @ ELSE "dead"]
<1>2. /\ tunnel' = [p \in Tunnels |-> ended(p)]
      /\ opener' = [p \in Tunnels |-> IF p \in survivors THEN "outlived" ELSE "no"]
      /\ exit' = [p \in Tunnels |-> NoExit]
      /\ sweep' = FirstSweep /\ shutdown' = Serving /\ UNCHANGED row
  BY DEF ServerEnds
<1>3. NoExit \in ExitSteps_ /\ NoExit.step = "no"
  BY DEF NoExit, ExitSteps_, Desires
<1>4. ASSUME NEW p \in Tunnels
      PROVE  /\ ended(p) \in Processes
             /\ ended(p).rec = tunnel[p].rec /\ ended(p).of = tunnel[p].of
             /\ ended(p).os = IF tunnel[p].os = "unborn" \/ p \in survivors THEN tunnel[p].os ELSE "dead"
  <2> DEFINE t == tunnel[p]
             no == FALSE
             os == IF t.os = "unborn" \/ p \in survivors THEN t.os ELSE "dead"
             u == [t EXCEPT !.handle = no, !.reopen = no, !.os = os]
  <2>1. t \in Processes /\ no \in BOOLEAN
    BY <1>1
  <2>2. os \in {"unborn", "live", "told", "dead"}
    BY <1>1 DEF Processes
  <2>3. ended(p) = u
    OBVIOUS
  <2> HIDE DEF t, no, os, ended
  <2>4. u \in Processes /\ u.rec = t.rec /\ u.of = t.of /\ u.os = os
    BY <2>1, <2>2 DEF Processes
  <2> HIDE DEF u
  <2> QED BY <2>3, <2>4 DEF t, os
<1> HIDE DEF ended
<1>5. ASSUME NEW p \in Tunnels
      PROVE  Followed(tunnel'[p], opener'[p], exit'[p])
  <2>1. /\ tunnel'[p] = ended(p) /\ exit'[p] = NoExit
        /\ opener'[p] = IF p \in survivors THEN "outlived" ELSE "no"
    BY <1>2
  <2>2. Followed(tunnel[p], opener[p], exit[p]) /\ tunnel[p] \in Processes
    BY DEF Inv, Typed
  <2>3. p \in survivors => tunnel[p].os # "unborn"
    BY <1>1 DEF Alive
  <2>4. tunnel[p].rec \in {"none", "running", "ended"}
    BY <2>2 DEF Processes
  <2> QED BY <1>3, <1>4, <2>1, <2>2, <2>3, <2>4 DEF Followed
<1>6. /\ tunnel' \in [Tunnels -> Processes]
      /\ opener' \in [Tunnels -> Openers]
      /\ exit' \in [Tunnels -> ExitSteps_]
  BY <1>2, <1>3, <1>4 DEF Openers
<1>7. Typed'
  <2>1. row' \in [Hublots -> Rows]
    BY <1>2 DEF Inv, Typed
  <2> QED BY <1>2, <1>6, <2>1, FirstSweepTyped, ServingTyped DEF Typed
<1>8. Looked'
  BY <1>2, FirstSweepTyped, ServingTyped DEF Looked
<1> QED BY <1>5, <1>7, <1>8 DEF Inv

-----------------------------------------------------------------------------
(* The invariant and the theorems *)

LEMMA InitKeeps ==
  ASSUME Init
  PROVE  Inv
<1>1. Absent \in Rows
  BY DEF Absent, Rows, RowStatuses, Desires, Agrees, NoTunnel
<1>2. /\ Unborn \in Processes
      /\ Unborn.os = "unborn" /\ Unborn.rec = "none"
  BY DEF Unborn, Processes
<1>3. NoExit \in ExitSteps_ /\ NoExit.step = "no"
  BY DEF NoExit, ExitSteps_, Desires
<1>4. Typed
  BY <1>1, <1>2, <1>3, FirstSweepTyped, ServingTyped DEF Init, Typed, Openers
<1>5. \A p \in Tunnels : Followed(tunnel[p], opener[p], exit[p])
  BY <1>2, <1>3 DEF Init, Followed
<1>6. Looked
  BY FirstSweepTyped, ServingTyped DEF Init, Looked
<1> QED BY <1>4, <1>5, <1>6 DEF Inv

LEMMA NextKeeps ==
  ASSUME Inv, [Next]_vars
  PROVE  Inv'
\* A task that leaves what the supervisor and the shutdown know alone.
<1>1. ASSUME RowKept, TunnelsKept, UNCHANGED <<sweep, shutdown>>
      PROVE  Inv'
  BY <1>1, LookedStays, Together
<1>2. CASE UNCHANGED vars
  BY <1>1, <1>2, RowStays, TunnelsStay DEF vars, volatile
<1>3. ASSUME NEW h \in Hublots, RequestSteps(h) \/ CloseSteps(h)  PROVE Inv'
  BY <1>1, <1>3, RequestKeeps, CloseKeeps
<1>4. ASSUME NEW p \in Tunnels, OpenerMoved(p)  PROVE Inv'
  BY <1>1, <1>4, OpenerKeeps
<1>5. ASSUME NEW p \in Tunnels, ExitSteps(p) \/ Dies(p)  PROVE Inv'
  BY <1>1, <1>5, ExitKeeps, DiesKeeps
<1>6. ASSUME NEW h \in Hublots, Post(h) \/ Reopen(h) \/ Delete(h)  PROVE Inv'
  BY <1>1, <1>6, RowStays, TunnelsStay DEF Post, Reopen, Delete, Ask
<1>7. CASE SweepSteps
  BY <1>7, SweepKeeps
<1>8. CASE ShutdownSteps \/ ShutdownWaits
  BY <1>8, ShutdownKeeps
<1>9. CASE Exits \/ Crash
  BY <1>9, ServerEndsKeeps DEF Exits, Crash
<1>10. CASE Sweep
  <2>1. TunnelsKept /\ RowKept
    BY <1>10, TunnelsStay, RowStays DEF Sweep
  <2>2. UNCHANGED shutdown /\ sweep' = [NoSweep EXCEPT !.step = "list"]
    BY <1>10 DEF Sweep
  <2>3. LookersTyped /\ Looked'
    BY <2>1, <2>2, FirstSweepTyped, SweepLooks
  <2> QED BY <2>1, <2>3, Together
<1>11. CASE Signal
  <2>1. TunnelsKept /\ RowKept
    BY <1>11, TunnelsStay, RowStays DEF Signal, ShutdownFrame
  <2>2. UNCHANGED sweep /\ shutdown' = [Serving EXCEPT !.step = "list"]
    BY <1>11 DEF Signal, ShutdownFrame
  <2>3. [Serving EXCEPT !.step = "list"].step = "list"
    BY DEF Serving
  <2>4. LookersTyped /\ Looked'
    BY <2>1, <2>2, <2>3, ServingTyped, ShutdownLooks
  <2> QED BY <2>1, <2>4, Together
<1> QED BY <1>2, <1>3, <1>4, <1>5, <1>6, <1>7, <1>8, <1>9, <1>10, <1>11
        DEF Next, Store, Timers, OpenerMoved

LEMMA Invariant == Spec => []Inv
BY InitKeeps, NextKeeps, PTL DEF Spec

\* A tunnel process that runs and was not told to exit has a row that says so,
\* an opener about to write it, or a server that died before it could: for any
\* number of hublots, processes, requests, sweeps, shutdowns and crashes.
THEOREM NoneForgotten == Spec => []NoForgottenTunnel
<1>1. Inv => NoForgottenTunnel
  BY DEF Inv, Followed, NoForgottenTunnel
<1> QED BY <1>1, Invariant, PTL

\* Whatever stale reads openers, exit listeners, DELETEs, the supervisor and
\* the shutdown act on, a row that says a hublot is open or opening also says
\* that it is wanted open, and one that is closing or closed that it is not.
THEOREM RowsAgree == Spec => []DesiredAgrees
<1>1. Inv => DesiredAgrees
  BY DEF Inv, Typed, Rows, Agrees, DesiredAgrees
<1> QED BY <1>1, Invariant, PTL

-----------------------------------------------------------------------------
(* Who waits for the store, in which order *)

Nobody == <<"nobody", 0>>

Single == \A i \in 1..Len(queue) : \A j \in 1..(i - 1) : queue[i] # queue[j]
Queues(t) == \E i \in 1..Len(queue) : queue[i] = t
Ahead(s, t) == \E i, j \in 1..Len(queue) : i < j /\ queue[i] = s /\ queue[j] = t
InOrder == queue \in Seq(Tasks) /\ Single

\* What a step does to the queue: g is served, if anybody, and t begins to wait.
Moved(g, t) ==
  /\ g \in Tasks \cup {Nobody}
  /\ t \in Tasks \cup {Nobody}
  /\ g \in Tasks => \A u \in Tasks : ~Ahead(u, g)
  /\ \A u \in Tasks : Queues(u)' <=> (Queues(u) /\ u # g) \/ u = t
  /\ \A u, v \in Tasks : Ahead(u, v)' <=> \/ Ahead(u, v) /\ u # g /\ v # g
                                          \/ v = t /\ u # t /\ Queues(u) /\ u # g

LEMMA NobodyNoTask == Nobody \notin Tasks
BY DEF Nobody, Tasks

LEMMA HeadFirst ==
  ASSUME InOrder, queue # <<>>
  PROVE  /\ Head(queue) \in Tasks /\ Queues(Head(queue))
         /\ \A u \in Tasks : Queues(u) /\ u # Head(queue) => Ahead(Head(queue), u)
         /\ \A u \in Tasks : ~Ahead(u, Head(queue))
<1>1. queue \in Seq(Tasks) /\ Len(queue) \in Nat /\ Len(queue) >= 1 /\ Head(queue) = queue[1]
  BY DEF InOrder
<1>2. 1 \in 1..Len(queue) /\ Head(queue) \in Tasks
  BY <1>1
<1>3. Queues(Head(queue))
  BY <1>1, <1>2 DEF Queues
<1>4. ASSUME NEW u \in Tasks, Queues(u), u # Head(queue)
      PROVE  Ahead(Head(queue), u)
  <2>1. PICK i \in 1..Len(queue) : queue[i] = u
    BY <1>4 DEF Queues
  <2>2. 1 < i
    BY <1>1, <1>4, <2>1
  <2> QED BY <1>1, <1>2, <2>1, <2>2 DEF Ahead
<1>5. ASSUME NEW u \in Tasks, Ahead(u, Head(queue))
      PROVE  FALSE
  <2>1. PICK i \in 1..Len(queue), j \in 1..Len(queue) : i < j /\ queue[j] = queue[1]
    BY <1>1, <1>5 DEF Ahead
  <2>2. 1 \in 1..(j - 1)
    BY <1>1, <2>1
  <2> QED BY <2>1, <2>2 DEF InOrder, Single
<1> QED BY <1>2, <1>3, <1>4, <1>5

LEMMA EndsMoves ==
  ASSUME InOrder, queue # <<>>, Ends
  PROVE  InOrder' /\ Moved(Head(queue), Nobody)
<1> DEFINE n == Len(queue)
           g == Head(queue)
<1>1. /\ queue \in Seq(Tasks) /\ n \in Nat /\ n >= 1 /\ g = queue[1]
      /\ queue' = Tail(queue)
  BY DEF InOrder, Ends
<1>2. queue' \in Seq(Tasks) /\ Len(queue') = n - 1
  BY <1>1
<1>3. \A i \in 1..Len(queue') : queue'[i] = queue[i + 1]
  BY <1>1
<1>4. \A i \in 1..n, j \in 1..n : i # j => queue[i] # queue[j]
  <2> SUFFICES ASSUME NEW i \in 1..n, NEW j \in 1..n, i # j
               PROVE  queue[i] # queue[j]
    OBVIOUS
  <2>1. i \in 1..(j - 1) \/ j \in 1..(i - 1)
    BY <1>1
  <2> QED BY <2>1 DEF InOrder, Single
<1>5. Single'
  <2> SUFFICES ASSUME NEW i \in 1..Len(queue'), NEW j \in 1..(i - 1)
               PROVE  queue'[i] # queue'[j]
    BY DEF Single
  <2>1. j \in 1..Len(queue') /\ i + 1 \in 1..n /\ j + 1 \in 1..n /\ i # j
    BY <1>1, <1>2
  <2> QED BY <1>3, <1>4, <2>1
<1>6. ASSUME NEW u \in Tasks
      PROVE  Queues(u)' <=> Queues(u) /\ u # g
  <2>1. ASSUME NEW i \in 1..Len(queue'), queue'[i] = u
        PROVE  Queues(u) /\ u # g
    <3>1. i + 1 \in 1..n /\ 1 \in 1..n /\ i + 1 # 1 /\ queue[i + 1] = u
      BY <1>1, <1>2, <1>3, <2>1
    <3> QED BY <1>1, <1>4, <3>1 DEF Queues
  <2>2. ASSUME NEW i \in 1..n, queue[i] = u, u # g
        PROVE  Queues(u)'
    <3>1. i - 1 \in 1..Len(queue') /\ (i - 1) + 1 = i
      BY <1>1, <1>2, <2>2
    <3>2. queue'[i - 1] = u
      BY <1>3, <2>2, <3>1
    <3> QED BY <3>1, <3>2 DEF Queues
  <2> QED BY <2>1, <2>2 DEF Queues
<1>7. ASSUME NEW u \in Tasks, NEW v \in Tasks
      PROVE  Ahead(u, v)' <=> Ahead(u, v) /\ u # g /\ v # g
  <2>1. ASSUME NEW i \in 1..Len(queue'), NEW j \in 1..Len(queue'), i < j, queue'[i] = u, queue'[j] = v
        PROVE  Ahead(u, v) /\ u # g /\ v # g
    <3>1. /\ i + 1 \in 1..n /\ j + 1 \in 1..n /\ 1 \in 1..n /\ i + 1 # 1 /\ j + 1 # 1 /\ i + 1 < j + 1
          /\ queue[i + 1] = u /\ queue[j + 1] = v
      BY <1>1, <1>2, <1>3, <2>1
    <3> QED BY <1>1, <1>4, <3>1 DEF Ahead
  <2>2. ASSUME NEW i \in 1..n, NEW j \in 1..n, i < j, queue[i] = u, queue[j] = v, u # g, v # g
        PROVE  Ahead(u, v)'
    <3>1. /\ i - 1 \in 1..Len(queue') /\ j - 1 \in 1..Len(queue') /\ i - 1 < j - 1
          /\ (i - 1) + 1 = i /\ (j - 1) + 1 = j
      BY <1>1, <1>2, <2>2
    <3>2. queue'[i - 1] = u /\ queue'[j - 1] = v
      BY <1>3, <2>2, <3>1
    <3> QED BY <3>1, <3>2 DEF Ahead
  <2> QED BY <2>1, <2>2 DEF Ahead
<1>8. g \in Tasks /\ \A u \in Tasks : ~Ahead(u, g)
  BY <1>1, HeadFirst
<1>9. Moved(g, Nobody)
  <2> HIDE DEF g
  <2> QED BY <1>6, <1>7, <1>8, NobodyNoTask DEF Moved
<1> QED BY <1>2, <1>5, <1>9 DEF InOrder

\* A task that does not wait is put at the end of q.
LEMMA Appended ==
  ASSUME InOrder, NEW t \in Tasks, ~Queues(t), queue' = Append(queue, t)
  PROVE  InOrder' /\ Moved(Nobody, t)
<1> DEFINE n == Len(queue)
<1>1. queue \in Seq(Tasks) /\ n \in Nat
  BY DEF InOrder
<1>2. queue' \in Seq(Tasks) /\ Len(queue') = n + 1 /\ n + 1 \in 1..Len(queue')
  BY <1>1
<1>3. (\A i \in 1..n : i \in 1..Len(queue') /\ queue'[i] = queue[i]) /\ queue'[n + 1] = t
  BY <1>1
<1>4. \A i \in 1..Len(queue') : i \in 1..n \/ i = n + 1
  BY <1>1, <1>2
<1>5. \A i \in 1..n : queue[i] # t
  BY DEF Queues
<1>6. Single'
  <2> SUFFICES ASSUME NEW i \in 1..Len(queue'), NEW j \in 1..(i - 1)
               PROVE  queue'[i] # queue'[j]
    BY DEF Single
  <2>1. j \in 1..n
    BY <1>1, <1>2
  <2>2. CASE i \in 1..n
    BY <1>3, <2>1, <2>2 DEF InOrder, Single
  <2>3. CASE i = n + 1
    BY <1>3, <1>5, <2>1, <2>3
  <2> QED BY <1>4, <2>2, <2>3
<1>7. ASSUME NEW u \in Tasks
      PROVE  Queues(u)' <=> Queues(u) \/ u = t
  BY <1>2, <1>3, <1>4 DEF Queues
<1>8. ASSUME NEW u \in Tasks, NEW v \in Tasks
      PROVE  Ahead(u, v)' <=> Ahead(u, v) \/ (v = t /\ u # t /\ Queues(u))
  <2>1. ASSUME NEW i \in 1..Len(queue'), NEW j \in 1..Len(queue'), i < j, queue'[i] = u, queue'[j] = v
        PROVE  Ahead(u, v) \/ (v = t /\ u # t /\ Queues(u))
    <3>1. i \in 1..n
      BY <1>1, <1>2, <2>1
    <3>2. queue[i] = u /\ u # t
      BY <1>3, <1>5, <2>1, <3>1
    <3>3. CASE j \in 1..n
      BY <1>3, <2>1, <3>1, <3>2, <3>3 DEF Ahead
    <3>4. CASE j = n + 1
      BY <1>3, <2>1, <3>1, <3>2, <3>4 DEF Queues
    <3> QED BY <1>4, <3>3, <3>4
  <2>2. ASSUME NEW i \in 1..n, NEW j \in 1..n, i < j, queue[i] = u, queue[j] = v
        PROVE  Ahead(u, v)'
    BY <1>3, <2>2 DEF Ahead
  <2>3. ASSUME v = t, NEW i \in 1..n, queue[i] = u
        PROVE  Ahead(u, v)'
    <3>1. i < n + 1
      BY <1>1
    <3> QED BY <1>2, <1>3, <2>3, <3>1 DEF Ahead
  <2> QED BY <2>1, <2>2, <2>3 DEF Ahead, Queues
<1>9. Nobody \notin Tasks
  BY NobodyNoTask
<1> QED BY <1>2, <1>6, <1>7, <1>8, <1>9 DEF InOrder, Moved

\* The task at the head of the queue, or another one that does not wait, is put
\* at its end when the head is served.
LEMMA AwaitsMoves ==
  ASSUME InOrder, queue # <<>>, NEW t \in Tasks, ~Queues(t) \/ t = Head(queue), Awaits(t)
  PROVE  InOrder' /\ Moved(Head(queue), t)
<1> DEFINE n == Len(queue)
           g == Head(queue)
<1>1. /\ queue \in Seq(Tasks) /\ n \in Nat /\ n >= 1 /\ g = queue[1] /\ g \in Tasks
      /\ queue' = Append(Tail(queue), t)
  BY DEF InOrder, Awaits
<1>2. Tail(queue) \in Seq(Tasks) /\ Len(Tail(queue)) = n - 1
  BY <1>1
<1>3. queue' \in Seq(Tasks) /\ Len(queue') = n /\ n \in 1..Len(queue')
  BY <1>1, <1>2
<1>4. \A i \in 1..(n - 1) : i \in 1..Len(queue') /\ i + 1 \in 1..n /\ queue'[i] = queue[i + 1]
  BY <1>1, <1>2, <1>3
<1>5. queue'[n] = t
  BY <1>1, <1>2
<1>6. /\ \A i \in 1..Len(queue') : i \in 1..(n - 1) \/ i = n
      /\ \A i, j \in 1..Len(queue') : i < j => i \in 1..(n - 1)
  <2>1. Len(queue') = n /\ n \in Nat
    BY <1>1, <1>3
  <2> HIDE DEF n
  <2> QED BY <2>1
<1>7. \A i \in 1..n, j \in 1..n : i # j => queue[i] # queue[j]
  <2> SUFFICES ASSUME NEW i \in 1..n, NEW j \in 1..n, i # j
               PROVE  queue[i] # queue[j]
    OBVIOUS
  <2>1. i \in 1..(j - 1) \/ j \in 1..(i - 1)
    BY <1>1
  <2> QED BY <2>1 DEF InOrder, Single
<1>8. \A i \in 1..(n - 1) : queue[i + 1] # t /\ queue[i + 1] # g
  <2> SUFFICES ASSUME NEW i \in 1..(n - 1)
               PROVE  queue[i + 1] # t /\ queue[i + 1] # g
    OBVIOUS
  <2>1. i + 1 \in 1..n /\ 1 \in 1..n /\ i + 1 # 1
    BY <1>1
  <2>2. queue[i + 1] # g
    BY <1>1, <1>7, <2>1
  <2> QED BY <2>1, <2>2 DEF Queues
<1>9. \A i \in 1..n : queue[i] # g => i - 1 \in 1..(n - 1) /\ (i - 1) + 1 = i /\ queue'[i - 1] = queue[i]
  <2> SUFFICES ASSUME NEW i \in 1..n, queue[i] # g
               PROVE  i - 1 \in 1..(n - 1) /\ (i - 1) + 1 = i /\ queue'[i - 1] = queue[i]
    OBVIOUS
  <2>1. i # 1
    BY <1>1
  <2>2. i - 1 \in 1..(n - 1) /\ (i - 1) + 1 = i
    BY <1>1, <2>1
  <2> QED BY <1>4, <2>2
<1>10. Single'
  <2> SUFFICES ASSUME NEW i \in 1..Len(queue'), NEW j \in 1..(i - 1)
               PROVE  queue'[i] # queue'[j]
    BY DEF Single
  <2>1. j \in 1..(n - 1) /\ j + 1 \in 1..n
    BY <1>1, <1>3
  <2>2. CASE i \in 1..(n - 1)
    <3>1. i + 1 \in 1..n /\ i + 1 # j + 1
      BY <1>1, <2>2
    <3> QED BY <1>4, <1>7, <2>1, <2>2, <3>1
  <2>3. CASE i = n
    BY <1>4, <1>5, <1>8, <2>1, <2>3
  <2> QED BY <1>6, <2>2, <2>3
<1>11. ASSUME NEW u \in Tasks
       PROVE  Queues(u)' <=> (Queues(u) /\ u # g) \/ u = t
  <2>1. ASSUME NEW i \in 1..Len(queue'), queue'[i] = u
        PROVE  (Queues(u) /\ u # g) \/ u = t
    <3>1. CASE i \in 1..(n - 1)
      BY <1>4, <1>8, <2>1, <3>1 DEF Queues
    <3>2. CASE i = n
      BY <1>5, <2>1, <3>2
    <3> QED BY <1>6, <3>1, <3>2
  <2>2. ASSUME NEW i \in 1..n, queue[i] = u, u # g
        PROVE  Queues(u)'
    <3>1. i - 1 \in 1..Len(queue') /\ queue'[i - 1] = u
      BY <1>4, <1>9, <2>2
    <3> QED BY <3>1 DEF Queues
  <2> QED BY <1>3, <1>5, <2>1, <2>2 DEF Queues
<1>12. ASSUME NEW u \in Tasks, NEW v \in Tasks
       PROVE  Ahead(u, v)' <=> \/ Ahead(u, v) /\ u # g /\ v # g
                               \/ v = t /\ u # t /\ Queues(u) /\ u # g
  <2>1. ASSUME NEW i \in 1..Len(queue'), NEW j \in 1..Len(queue'), i < j, queue'[i] = u, queue'[j] = v
        PROVE  \/ Ahead(u, v) /\ u # g /\ v # g
               \/ v = t /\ u # t /\ Queues(u) /\ u # g
    <3>1. i \in 1..(n - 1)
      BY <1>6, <2>1
    <3>2. i + 1 \in 1..n /\ queue[i + 1] = u /\ u # t /\ u # g
      BY <1>4, <1>8, <2>1, <3>1
    <3>3. CASE j \in 1..(n - 1)
      <4>1. j + 1 \in 1..n /\ queue[j + 1] = v /\ v # g /\ i + 1 < j + 1
        BY <1>1, <1>4, <1>8, <2>1, <3>1, <3>3
      <4> QED BY <3>2, <4>1 DEF Ahead
    <3>4. CASE j = n
      BY <1>5, <2>1, <3>2, <3>4 DEF Queues
    <3> QED BY <1>6, <3>3, <3>4
  <2>2. ASSUME NEW i \in 1..n, NEW j \in 1..n, i < j, queue[i] = u, queue[j] = v, u # g, v # g
        PROVE  Ahead(u, v)'
    <3>1. /\ i - 1 \in 1..Len(queue') /\ queue'[i - 1] = u
          /\ j - 1 \in 1..Len(queue') /\ queue'[j - 1] = v
      BY <1>4, <1>9, <2>2
    <3>2. i - 1 < j - 1
      BY <1>1, <2>2
    <3> QED BY <3>1, <3>2 DEF Ahead
  <2>3. ASSUME v = t, NEW i \in 1..n, queue[i] = u, u # g
        PROVE  Ahead(u, v)'
    <3>1. i - 1 \in 1..Len(queue') /\ queue'[i - 1] = u /\ i - 1 < n
      BY <1>1, <1>4, <1>9, <2>3
    <3> QED BY <1>3, <1>5, <2>3, <3>1 DEF Ahead
  <2> QED BY <2>1, <2>2, <2>3 DEF Ahead, Queues
<1>13. \A u \in Tasks : ~Ahead(u, g)
  BY HeadFirst
<1> QED BY <1>1, <1>3, <1>10, <1>11, <1>12, <1>13 DEF InOrder, Moved

LEMMA StartsMoves ==
  ASSUME InOrder, NEW t \in Tasks, ~Queues(t), Starts(t)
  PROVE  InOrder' /\ Moved(Nobody, t)
BY Appended DEF Starts

LEMMA StaysMoves ==
  ASSUME InOrder, UNCHANGED queue
  PROVE  InOrder' /\ Moved(Nobody, Nobody)
<1>1. InOrder'
  BY DEF InOrder, Single
<1>2. \A u : Queues(u)' <=> Queues(u)
  BY DEF Queues
<1>3. \A u, v : Ahead(u, v)' <=> Ahead(u, v)
  BY DEF Ahead
<1> QED BY <1>1, <1>2, <1>3, NobodyNoTask DEF Moved

-----------------------------------------------------------------------------
(* What the tasks that close a row know of the tunnels behind it *)

RequestTask(h) == <<"request", h>>
CloseTask(h) == <<"close", h>>
OpenTask(p) == <<"open", p>>
ExitTask(p) == <<"exit", p>>
SweepTask == <<"sweep">>
ShutdownTask == <<"shutdown">>

OpenWaits(o) == o \in {"spawned", "persist", "confirm", "open", "fail", "failed"}

\* Nobody waits for two operations, and a task waits when its step says so.
Served ==
  /\ InOrder
  /\ \A h \in Hublots : Queues(RequestTask(h)) <=> request[h] # "no"
  /\ \A h \in Hublots : Queues(CloseTask(h)) <=> closer[h] # "no"
  /\ \A p \in Tunnels : Queues(OpenTask(p)) <=> OpenWaits(opener[p])
  /\ \A p \in Tunnels : Queues(ExitTask(p)) <=> exit[p].step # "no"
  /\ Queues(SweepTask) <=> sweep.step # "no"
  /\ Queues(ShutdownTask) <=> shutdown.step \in {"list", "mark", "settle"}

RequestNames == {"no", "reserve", "reopen", "retire", "mark", "check", "spawn"}
CloserNames == {"no", "find", "mark", "kill", "close"}
Shaped ==
  /\ request \in [Hublots -> RequestNames]
  /\ closer \in [Hublots -> CloserNames]
  /\ reopens \subseteq Hublots

Born(p) == tunnel[p].os # "unborn"
\* A process of h that nobody told to exit.
Lives(p, h) == tunnel[p].os = "live" /\ tunnel[p].of = h

BornInOrder == \A p, q \in Tunnels : p < q /\ Born(q) => Born(p)

\* A process that lives is not one whose opening failed, and once its opener
\* has written its row this server has its handle.
OpenerFits(p) ==
  tunnel[p].os = "live" =>
    /\ opener[p] \notin {"no", "fail", "failed"}
    /\ opener[p] \in {"url", "confirm", "poll", "open", "done", "hung"} => tunnel[p].handle

\* A hublot's older processes are gone when it gets another one, but for those
\* that outlived a server.
OlderGone ==
  \A p, q \in Tunnels :
    p < q /\ Born(q) /\ Lives(p, tunnel[q].of) => opener[p] = "outlived"

\* The retirement of the old processes misses none whose row is not written,
\* since it comes later in the queue.
RequestKnows(h) ==
  /\ row[h].status = "absent" => request[h] \in {"no", "reserve"}
  /\ row[h].status = "absent" \/ request[h] = "reserve"
       => \A p \in Tunnels : ~(Born(p) /\ tunnel[p].of = h)
  /\ request[h] = "reopen"
       => \A p \in Tunnels : Lives(p, h) /\ opener[p] = "spawned"
                                => Ahead(OpenTask(p), RequestTask(h))
  /\ request[h] = "retire"
       => \A p \in Tunnels : /\ ~(Lives(p, h) /\ opener[p] = "spawned")
                             /\ Lives(p, h) /\ opener[p] = "persist"
                                  => Ahead(OpenTask(p), RequestTask(h))
  /\ request[h] \in {"mark", "check", "spawn"}
       => \A p \in Tunnels : Lives(p, h) => opener[p] = "outlived"

\* The opener of p cannot get as far as a public tunnel before t is served,
\* or before it is served twice.
Early(p, t) == \/ opener[p] \in {"spawned", "persist", "url", "outlived"}
               \/ opener[p] = "confirm" /\ Ahead(t, OpenTask(p))
Early2(p, t) == \/ opener[p] \in {"spawned", "persist", "url", "confirm", "poll", "outlived"}
                \/ opener[p] = "open" /\ Ahead(t, OpenTask(p))

CloserKnows(h) ==
  closer[h] = "close" => \A p \in Tunnels : Lives(p, h) => Early(p, CloseTask(h))
ListenerKnows(p) ==
  exit[p].step = "record"
    => \A q \in Tunnels : Lives(q, tunnel[p].of) => Early(q, ExitTask(p))
SweepKnows ==
  /\ sweep.step = "find" /\ ~sweep.healthy
       => \A p \in Tunnels : Lives(p, Subject) => Early(p, SweepTask)
  /\ sweep.step = "close" => \A p \in Tunnels : Lives(p, Subject) => Early2(p, SweepTask)

Aware ==
  /\ Shaped /\ Served /\ BornInOrder /\ OlderGone
  /\ \A p \in Tunnels : OpenerFits(p) /\ ListenerKnows(p)
  /\ \A h \in Hublots : RequestKnows(h) /\ CloserKnows(h)
  /\ SweepKnows
  /\ ClosedIsStopped
Orderly == Inv /\ Aware

LEMMA TasksDiffer ==
  /\ \A h \in Hublots : RequestTask(h) \in Tasks /\ CloseTask(h) \in Tasks
  /\ \A p \in Tunnels : OpenTask(p) \in Tasks /\ ExitTask(p) \in Tasks
  /\ SweepTask \in Tasks /\ ShutdownTask \in Tasks
BY DEF Tasks, RequestTask, CloseTask, OpenTask, ExitTask, SweepTask, ShutdownTask

-----------------------------------------------------------------------------
(* What a step leaves of what the others know *)

\* What a step may do to a process while g is served and u begins to wait: one
\* that lives after it is new, or lived before and its opener went on.
Goes(p, g, u) ==
  /\ Born(p) => tunnel'[p].os # "unborn" /\ tunnel'[p].of = tunnel[p].of
  /\ tunnel'[p].os = "live" =>
       \/ ~Born(p) /\ opener'[p] = "spawned"
       \/ /\ tunnel[p].os = "live"
          /\ tunnel'[p].handle = tunnel[p].handle \/ (opener'[p] = "url" /\ tunnel'[p].handle)
          /\ \/ opener'[p] = opener[p] /\ g # OpenTask(p)
             \/ /\ g = OpenTask(p)
                /\ \/ opener[p] = "spawned" /\ opener'[p] = "persist"
                   \/ opener[p] = "persist" /\ opener'[p] = "url" /\ tunnel'[p].handle
                   \/ opener[p] = "confirm" /\ opener'[p] = "poll"
                   \/ opener[p] = "open" /\ opener'[p] \in {"done", "hung"}
             \/ /\ g = Nobody /\ u = OpenTask(p)
                /\ \/ opener[p] = "url" /\ opener'[p] = "confirm"
                   \/ opener[p] = "poll" /\ opener'[p] = "open"
NoneBorn == \A p \in Tunnels : tunnel'[p].os # "unborn" => Born(p)

LEMMA EarlyKept ==
  ASSUME NEW g, NEW u, Moved(g, u), NEW t \in Tasks, t # g, Queues(t),
         NEW p \in Tunnels, t # OpenTask(p), Goes(p, g, u), tunnel'[p].os = "live"
  PROVE  /\ Early(p, t) => Early(p, t)'
         /\ Early2(p, t) => Early2(p, t)'
         /\ ~Born(p) => Early(p, t)' /\ Early2(p, t)'
<1>1. OpenTask(p) \in Tasks
  BY TasksDiffer
<1>2. Ahead(t, OpenTask(p)) /\ g # OpenTask(p) => Ahead(t, OpenTask(p))'
  BY <1>1 DEF Moved
<1>3. u = OpenTask(p) => Ahead(t, OpenTask(p))'
  BY <1>1 DEF Moved
<1>4. ~Born(p) => opener'[p] = "spawned"
  BY DEF Goes, Born
<1>5. CASE ~Born(p)
  BY <1>4, <1>5 DEF Early, Early2, Goes, Born
<1>6. CASE Born(p)
  <2>1. /\ tunnel[p].os = "live"
        /\ \/ opener'[p] = opener[p] /\ g # OpenTask(p)
           \/ g = OpenTask(p) /\ opener[p] = "spawned" /\ opener'[p] = "persist"
           \/ g = OpenTask(p) /\ opener[p] = "persist" /\ opener'[p] = "url"
           \/ g = OpenTask(p) /\ opener[p] = "confirm" /\ opener'[p] = "poll"
           \/ g = OpenTask(p) /\ opener[p] = "open"
           \/ u = OpenTask(p) /\ opener[p] = "url" /\ opener'[p] = "confirm"
           \/ u = OpenTask(p) /\ opener[p] = "poll" /\ opener'[p] = "open"
    BY <1>6 DEF Goes
  <2>2. ~(Ahead(t, OpenTask(p)) /\ g = OpenTask(p))
    BY <1>1 DEF Moved
  <2>3. Early(p, t) => Early(p, t)'
    BY <1>2, <1>3, <2>1, <2>2 DEF Early
  <2>4. Early2(p, t) => Early2(p, t)'
    BY <1>2, <1>3, <2>1, <2>2 DEF Early2
  <2> QED BY <1>6, <2>3, <2>4
<1> QED BY <1>5, <1>6

LEMMA LivedBefore ==
  ASSUME NEW g, NEW u, NEW p \in Tunnels, Goes(p, g, u), NEW h, Lives(p, h)', Born(p)
  PROVE  Lives(p, h)
BY DEF Goes, Lives, Born

\* A head that is served has nobody ahead of it.
LEMMA AheadOfHead ==
  ASSUME Aware, NEW t \in Tasks, Turn(t)
  PROVE  queue # <<>> /\ Head(queue) = t /\ InOrder /\ Queues(t) /\ \A v \in Tasks : ~Ahead(v, t)
<1>1. queue # <<>> /\ Head(queue) = t /\ InOrder
  BY DEF Aware, Served, Turn
<1> QED BY <1>1, HeadFirst

LEMMA CloserStays ==
  ASSUME Orderly, NEW g, NEW u, Moved(g, u), \A p \in Tunnels : Goes(p, g, u),
         NEW h \in Hublots, closer'[h] = closer[h], g # CloseTask(h)
  PROVE  CloserKnows(h)'
<1> SUFFICES ASSUME closer[h] = "close", NEW p \in Tunnels, Lives(p, h)'
             PROVE  Early(p, CloseTask(h))'
  BY DEF CloserKnows, Lives, Early
<1>1. CloseTask(h) \in Tasks /\ Queues(CloseTask(h)) /\ CloseTask(h) # OpenTask(p)
  BY TasksDiffer DEF Orderly, Aware, Served, CloseTask, OpenTask
<1>2. tunnel'[p].os = "live"
  BY DEF Lives
<1>3. CASE ~Born(p)
  BY <1>1, <1>2, <1>3, EarlyKept
<1>4. CASE Born(p)
  <2>1. Lives(p, h)
    BY <1>4, LivedBefore
  <2>2. Early(p, CloseTask(h))
    BY <2>1 DEF Orderly, Aware, CloserKnows
  <2> QED BY <1>1, <1>2, <2>2, EarlyKept
<1> QED BY <1>3, <1>4

LEMMA ListenerStays ==
  ASSUME Orderly, NEW g, NEW u, Moved(g, u), \A p \in Tunnels : Goes(p, g, u),
         NEW p \in Tunnels, exit'[p] = exit[p], g # ExitTask(p)
  PROVE  ListenerKnows(p)'
<1>o. PICK h : h = tunnel[p].of
  OBVIOUS
<1> SUFFICES ASSUME exit[p].step = "record"
             PROVE  \A q \in Tunnels : Lives(q, tunnel[p].of)' => Early(q, ExitTask(p))'
  BY DEF ListenerKnows
<1>3. tunnel[p].os = "dead"
  BY DEF Orderly, Inv, Followed
<1>4. tunnel'[p].of = h
  BY <1>o, <1>3 DEF Goes, Born
<1> SUFFICES ASSUME NEW q \in Tunnels, Lives(q, h)'
             PROVE  Early(q, ExitTask(p))'
  BY <1>4 DEF Lives
<1>1. ExitTask(p) \in Tasks /\ Queues(ExitTask(p)) /\ ExitTask(p) # OpenTask(q)
  BY TasksDiffer DEF Orderly, Aware, Served, ExitTask, OpenTask
<1>2. tunnel'[q].os = "live"
  BY DEF Lives
<1>5. CASE ~Born(q)
  BY <1>1, <1>2, <1>5, EarlyKept
<1>6. CASE Born(q)
  <2>1. Lives(q, h)
    BY <1>6, LivedBefore
  <2>2. Early(q, ExitTask(p))
    BY <1>o, <2>1 DEF Orderly, Aware, ListenerKnows
  <2> QED BY <1>1, <1>2, <2>2, EarlyKept
<1> QED BY <1>5, <1>6

LEMMA SweepStays ==
  ASSUME Orderly, NEW g, NEW u, Moved(g, u), \A p \in Tunnels : Goes(p, g, u),
         UNCHANGED sweep, g # SweepTask
  PROVE  SweepKnows'
<1>1. Subject' = Subject
  BY DEF Subject
<1>2. ASSUME NEW p \in Tunnels, Lives(p, Subject)', sweep.step \in {"find", "close"}
      PROVE  /\ Early(p, SweepTask) \/ ~Born(p) => Early(p, SweepTask)'
             /\ Early2(p, SweepTask) \/ ~Born(p) => Early2(p, SweepTask)'
             /\ Born(p) => Lives(p, Subject)
  <2>1. SweepTask \in Tasks /\ Queues(SweepTask) /\ SweepTask # OpenTask(p)
    BY <1>2, TasksDiffer DEF Orderly, Aware, Served, SweepTask, OpenTask
  <2>2. tunnel'[p].os = "live"
    BY <1>2 DEF Lives
  <2>3. Born(p) => Lives(p, Subject)
    BY <1>1, <1>2 DEF Goes, Lives, Born
  <2> QED BY <2>1, <2>2, <2>3, EarlyKept
<1>3. SweepKnows
  BY DEF Orderly, Aware
<1>4. ASSUME sweep.step = "find", ~sweep.healthy, NEW p \in Tunnels, Lives(p, Subject)'
      PROVE  Early(p, SweepTask)'
  BY <1>2, <1>3, <1>4 DEF SweepKnows
<1>5. ASSUME sweep.step = "close", NEW p \in Tunnels, Lives(p, Subject)'
      PROVE  Early2(p, SweepTask)'
  BY <1>2, <1>3, <1>5 DEF SweepKnows
<1> QED BY <1>1, <1>4, <1>5 DEF SweepKnows, Lives, Early, Early2

LEMMA RequestStays ==
  ASSUME Orderly, NEW g, NEW u, Moved(g, u), \A p \in Tunnels : Goes(p, g, u),
         NEW h \in Hublots, request'[h] = request[h], g # RequestTask(h),
         row'[h].status = "absent" => row[h].status = "absent",
         \A p \in Tunnels : tunnel'[p].os # "unborn" /\ tunnel'[p].of = h => Born(p)
  PROVE  RequestKnows(h)'
<1>1. RequestKnows(h)
  BY DEF Orderly, Aware
<1>2. ASSUME NEW p \in Tunnels
      PROVE  /\ Born(p)' /\ tunnel'[p].of = h => Born(p) /\ tunnel[p].of = h
             /\ Lives(p, h)' => Lives(p, h)
  BY DEF Goes, Born, Lives
<1>3. ASSUME NEW p \in Tunnels, Ahead(OpenTask(p), RequestTask(h)), g # OpenTask(p)
      PROVE  Ahead(OpenTask(p), RequestTask(h))'
  BY <1>3, TasksDiffer DEF Moved
<1>4. ASSUME row'[h].status = "absent" \/ request'[h] = "reserve", NEW p \in Tunnels
      PROVE  ~(Born(p)' /\ tunnel'[p].of = h)
  BY <1>1, <1>2, <1>4 DEF RequestKnows
<1>5. ASSUME request'[h] = "reopen", NEW p \in Tunnels, Lives(p, h)', opener'[p] = "spawned"
      PROVE  Ahead(OpenTask(p), RequestTask(h))'
  <2>1. Lives(p, h) /\ Born(p)
    BY <1>2, <1>5 DEF Lives, Born
  <2>2. opener[p] = "spawned" /\ g # OpenTask(p)
    BY <1>5, <2>1 DEF Goes, Lives
  <2> QED BY <1>1, <1>3, <1>5, <2>1, <2>2 DEF RequestKnows
<1>6. ASSUME request'[h] = "retire", NEW p \in Tunnels, Lives(p, h)'
      PROVE  /\ opener'[p] # "spawned"
             /\ opener'[p] = "persist" => Ahead(OpenTask(p), RequestTask(h))'
  <2>1. Lives(p, h) /\ Born(p)
    BY <1>2, <1>6 DEF Lives, Born
  <2>2. opener[p] # "spawned"
    BY <1>1, <1>6, <2>1 DEF RequestKnows
  <2>3. opener'[p] # "spawned"
    BY <1>6, <2>1, <2>2 DEF Goes, Lives
  <2>4. opener'[p] = "persist" => opener[p] = "persist" /\ g # OpenTask(p)
    BY <1>6, <2>1, <2>2 DEF Goes, Lives
  <2> QED BY <1>1, <1>3, <1>6, <2>1, <2>3, <2>4 DEF RequestKnows
<1>7. ASSUME request'[h] \in {"mark", "check", "spawn"}, NEW p \in Tunnels, Lives(p, h)'
      PROVE  opener'[p] = "outlived"
  <2>1. Lives(p, h) /\ Born(p)
    BY <1>2, <1>7 DEF Lives, Born
  <2>2. opener[p] = "outlived"
    BY <1>1, <1>7, <2>1 DEF RequestKnows
  <2> QED BY <1>7, <2>1, <2>2 DEF Goes, Lives
<1>8. row'[h].status = "absent" => request'[h] \in {"no", "reserve"}
  BY <1>1 DEF RequestKnows
<1> QED BY <1>4, <1>5, <1>6, <1>7, <1>8 DEF RequestKnows

\* Whoever was served no longer waits, unless it waits again.
Serves(g, u) ==
  /\ \A h \in Hublots : request'[h] # "no"
                          <=> (request[h] # "no" /\ g # RequestTask(h)) \/ u = RequestTask(h)
  /\ \A h \in Hublots : closer'[h] # "no"
                          <=> (closer[h] # "no" /\ g # CloseTask(h)) \/ u = CloseTask(h)
  /\ \A p \in Tunnels : OpenWaits(opener'[p])
                          <=> (OpenWaits(opener[p]) /\ g # OpenTask(p)) \/ u = OpenTask(p)
  /\ \A p \in Tunnels : exit'[p].step # "no"
                          <=> (exit[p].step # "no" /\ g # ExitTask(p)) \/ u = ExitTask(p)
  /\ sweep'.step # "no" <=> (sweep.step # "no" /\ g # SweepTask) \/ u = SweepTask
  /\ shutdown'.step \in {"list", "mark", "settle"}
       <=> (shutdown.step \in {"list", "mark", "settle"} /\ g # ShutdownTask) \/ u = ShutdownTask

LEMMA ServedStays ==
  ASSUME Aware, NEW g, NEW u, InOrder', Moved(g, u), Serves(g, u)
  PROVE  Served'
<1>1. Served
  BY DEF Aware
<1>2. ASSUME NEW t \in Tasks
      PROVE  Queues(t)' <=> (Queues(t) /\ t # g) \/ t = u
  BY DEF Moved
<1>3. ASSUME NEW h \in Hublots
      PROVE  Queues(RequestTask(h))' <=> request'[h] # "no"
  <2>1. Queues(RequestTask(h))' <=> (Queues(RequestTask(h)) /\ RequestTask(h) # g) \/ RequestTask(h) = u
    BY <1>2, TasksDiffer
  <2> QED BY <1>1, <2>1 DEF Served, Serves
<1>4. ASSUME NEW h \in Hublots
      PROVE  Queues(CloseTask(h))' <=> closer'[h] # "no"
  <2>1. Queues(CloseTask(h))' <=> (Queues(CloseTask(h)) /\ CloseTask(h) # g) \/ CloseTask(h) = u
    BY <1>2, TasksDiffer
  <2> QED BY <1>1, <2>1 DEF Served, Serves
<1>5. ASSUME NEW p \in Tunnels
      PROVE  Queues(OpenTask(p))' <=> OpenWaits(opener'[p])
  <2>1. Queues(OpenTask(p))' <=> (Queues(OpenTask(p)) /\ OpenTask(p) # g) \/ OpenTask(p) = u
    BY <1>2, TasksDiffer
  <2> QED BY <1>1, <2>1 DEF Served, Serves
<1>6. ASSUME NEW p \in Tunnels
      PROVE  Queues(ExitTask(p))' <=> exit'[p].step # "no"
  <2>1. Queues(ExitTask(p))' <=> (Queues(ExitTask(p)) /\ ExitTask(p) # g) \/ ExitTask(p) = u
    BY <1>2, TasksDiffer
  <2> QED BY <1>1, <2>1 DEF Served, Serves
<1>7. Queues(SweepTask)' <=> sweep'.step # "no"
  <2>1. Queues(SweepTask)' <=> (Queues(SweepTask) /\ SweepTask # g) \/ SweepTask = u
    BY <1>2, TasksDiffer
  <2> QED BY <1>1, <2>1 DEF Served, Serves
<1>8. Queues(ShutdownTask)' <=> shutdown'.step \in {"list", "mark", "settle"}
  <2>1. Queues(ShutdownTask)' <=> (Queues(ShutdownTask) /\ ShutdownTask # g) \/ ShutdownTask = u
    BY <1>2, TasksDiffer
  <2> QED BY <1>1, <2>1 DEF Served, Serves
<1> QED BY <1>3, <1>4, <1>5, <1>6, <1>7, <1>8 DEF Served

\* What a step has to keep of the rows.
RowSafe ==
  /\ \A h \in Hublots : row'[h].status = "absent" => row[h].status = "absent"
  /\ \A h \in Hublots : row'[h].status = "closed" =>
       \/ row[h].status = "closed"
       \/ shutdown'.step # "no"
       \/ \A p \in Tunnels : Lives(p, h)' => opener'[p] # "done"
  /\ \A p \in Tunnels : opener[p] # "done" /\ opener'[p] = "done" /\ tunnel'[p].os = "live"
       => row'[tunnel[p].of].status # "closed"
  /\ shutdown'.step = "no" => shutdown.step = "no"

LEMMA ClosedStays ==
  ASSUME Orderly, NEW g, NEW u, \A p \in Tunnels : Goes(p, g, u), RowSafe
  PROVE  ClosedIsStopped'
<1> SUFFICES ASSUME NEW p \in Tunnels, shutdown'.step = "no", tunnel'[p].os = "live",
                    tunnel'[p].handle, opener'[p] = "done", row'[tunnel'[p].of].status = "closed"
             PROVE  FALSE
  BY DEF ClosedIsStopped, Accepting
<1>1. /\ tunnel[p].os = "live" /\ tunnel'[p].of = tunnel[p].of /\ tunnel[p].handle
  BY DEF Goes, Born
<1>o. PICK h : h = tunnel[p].of
  OBVIOUS
<1>2. h \in Hublots /\ Lives(p, h)'
  BY <1>1, <1>o DEF Orderly, Inv, Followed, Lives
<1>3. opener[p] = "done"
  BY <1>1 DEF RowSafe
<1>4. row[h].status = "closed"
  BY <1>1, <1>2, <1>o DEF RowSafe
<1> QED BY <1>1, <1>3, <1>4, <1>o DEF RowSafe, Orderly, Aware, ClosedIsStopped, Accepting

LEMMA OpenersFit ==
  ASSUME Orderly, NEW g, NEW u, NEW p \in Tunnels, Goes(p, g, u)
  PROVE  OpenerFits(p)'
<1>1. OpenerFits(p)
  BY DEF Orderly, Aware
<1> SUFFICES ASSUME tunnel'[p].os = "live"
             PROVE  /\ opener'[p] \notin {"no", "fail", "failed"}
                    /\ opener'[p] \in {"url", "confirm", "poll", "open", "done", "hung"} => tunnel'[p].handle
  BY DEF OpenerFits
<1>2. CASE ~Born(p)
  BY <1>2 DEF Goes, Born
<1>3. CASE Born(p)
  BY <1>1, <1>3 DEF Goes, OpenerFits
<1> QED BY <1>2, <1>3

LEMMA OlderStay ==
  ASSUME Orderly, NEW g, NEW u, \A p \in Tunnels : Goes(p, g, u), NoneBorn
  PROVE  OlderGone' /\ BornInOrder'
<1>1. OlderGone /\ BornInOrder
  BY DEF Orderly, Aware
<1>2. BornInOrder'
  BY <1>1 DEF BornInOrder, NoneBorn, Goes, Born
<1>3. OlderGone'
  <2> SUFFICES ASSUME NEW p \in Tunnels, NEW q \in Tunnels, p < q, tunnel'[q].os # "unborn",
                      tunnel'[p].os = "live", tunnel'[p].of = tunnel'[q].of
               PROVE  opener'[p] = "outlived"
    BY DEF OlderGone, Lives, Born
  <2>1. Born(p) /\ Born(q)
    BY DEF NoneBorn
  <2>2. tunnel'[q].of = tunnel[q].of /\ Lives(p, tunnel[q].of)
    BY <2>1 DEF Goes, Lives, Born
  <2>3. opener[p] = "outlived"
    BY <1>1, <2>1, <2>2 DEF OlderGone
  <2> QED BY <2>1, <2>3 DEF Goes
<1> QED BY <1>2, <1>3

\* A step keeps the invariant when whoever acts knows afterwards what it should.
LEMMA SpawnCombines ==
  ASSUME Orderly, Inv', Shaped', NEW g, NEW u, InOrder', Moved(g, u), Serves(g, u),
         \A p \in Tunnels : Goes(p, g, u), OlderGone', BornInOrder', RowSafe,
         \A h \in Hublots :
           \/ /\ request'[h] = request[h] /\ g # RequestTask(h)
              /\ \A p \in Tunnels : tunnel'[p].os # "unborn" /\ tunnel'[p].of = h => Born(p)
           \/ RequestKnows(h)',
         \A h \in Hublots : (closer'[h] = closer[h] /\ g # CloseTask(h)) \/ CloserKnows(h)',
         \A p \in Tunnels : (exit'[p] = exit[p] /\ g # ExitTask(p)) \/ ListenerKnows(p)',
         (UNCHANGED sweep /\ g # SweepTask) \/ SweepKnows'
  PROVE  Orderly'
<1>1. Served'
  BY ServedStays DEF Orderly
<1>2. ClosedIsStopped'
  BY ClosedStays
<1>3. ASSUME NEW h \in Hublots
      PROVE  RequestKnows(h)' /\ CloserKnows(h)'
  <2>1. CloserKnows(h)'
    BY CloserStays
  <2>2. row'[h].status = "absent" => row[h].status = "absent"
    BY DEF RowSafe
  <2>3. RequestKnows(h)'
    BY <2>2, RequestStays
  <2> QED BY <2>1, <2>3
<1>4. ASSUME NEW p \in Tunnels
      PROVE  OpenerFits(p)' /\ ListenerKnows(p)'
  BY ListenerStays, OpenersFit
<1>5. SweepKnows'
  BY SweepStays
<1> QED BY <1>1, <1>2, <1>3, <1>4, <1>5 DEF Orderly, Aware

LEMMA Combines ==
  ASSUME Orderly, Inv', Shaped', NEW g, NEW u, InOrder', Moved(g, u), Serves(g, u),
         \A p \in Tunnels : Goes(p, g, u), NoneBorn, RowSafe,
         \A h \in Hublots : (request'[h] = request[h] /\ g # RequestTask(h)) \/ RequestKnows(h)',
         \A h \in Hublots : (closer'[h] = closer[h] /\ g # CloseTask(h)) \/ CloserKnows(h)',
         \A p \in Tunnels : (exit'[p] = exit[p] /\ g # ExitTask(p)) \/ ListenerKnows(p)',
         (UNCHANGED sweep /\ g # SweepTask) \/ SweepKnows'
  PROVE  Orderly'
<1>1. OlderGone' /\ BornInOrder'
  BY OlderStay
<1>2. \A p \in Tunnels : tunnel'[p].os # "unborn" => Born(p)
  BY DEF NoneBorn
<1> QED BY <1>1, <1>2, SpawnCombines

-----------------------------------------------------------------------------
(* Steps that the invariant takes *)

LEMMA HeadServed ==
  ASSUME Orderly, NEW t \in Tasks, Turn(t)
  PROVE  /\ Awaits(t) => InOrder' /\ Moved(t, t)
         /\ Ends => InOrder' /\ Moved(t, Nobody)
         /\ \A s \in Tasks : ~Queues(s) /\ Awaits(s) => InOrder' /\ Moved(t, s)
         /\ Queues(t) /\ \A v \in Tasks : ~Ahead(v, t)
<1>1. queue # <<>> /\ Head(queue) = t /\ InOrder /\ Queues(t) /\ \A v \in Tasks : ~Ahead(v, t)
  BY AheadOfHead DEF Orderly
<1> QED BY <1>1, AwaitsMoves, EndsMoves

LEMMA LaterServed ==
  ASSUME Orderly, NEW t \in Tasks, ~Queues(t), Starts(t)
  PROVE  InOrder' /\ Moved(Nobody, t)
BY StartsMoves DEF Orderly, Aware, Served

\* Processes whose openers stand still.
LEMMA OpenersStand ==
  ASSUME UNCHANGED <<tunnel, opener>>, NEW g, NEW u, \A p \in Tunnels : g # OpenTask(p)
  PROVE  (\A p \in Tunnels : Goes(p, g, u)) /\ NoneBorn
BY DEF Goes, NoneBorn, Born

LEMMA ToldGoes ==
  ASSUME Inv, NEW S, tunnel' = Told(S), NEW g, NEW u,
         \A p \in Tunnels : p \in S \/ (opener'[p] = opener[p] /\ g # OpenTask(p))
  PROVE  (\A p \in Tunnels : Goes(p, g, u)) /\ NoneBorn
<1>1. ASSUME NEW p \in Tunnels
      PROVE  Goes(p, g, u) /\ (tunnel'[p].os # "unborn" => Born(p))
  <2>1. /\ tunnel'[p].of = tunnel[p].of
        /\ p \in S => tunnel'[p].os # "live"
        /\ \/ tunnel'[p] = tunnel[p]
           \/ tunnel[p].os = "live" /\ tunnel'[p].os = "told"
    BY ToldEach
  <2> QED BY <2>1 DEF Goes, Born
<1> QED BY <1>1 DEF NoneBorn

LEMMA RowsSafe ==
  ASSUME Orderly, NEW h, NEW status \in RowStatuses \ {"absent"}, NEW desired, NEW url,
         Transition(h, status, desired, url),
         status = "closed" => \A p \in Tunnels : Lives(p, h)' => opener'[p] # "done",
         \A p \in Tunnels : opener'[p] = "done" /\ tunnel'[p].os = "live" => opener[p] = "done",
         shutdown'.step = "no" => shutdown.step = "no"
  PROVE  RowSafe
<1>1. row \in [Hublots -> Rows]
  BY DEF Orderly, Inv, Typed
<1>2. ASSUME NEW k \in Hublots
      PROVE  row'[k] = row[k] \/ (k = h /\ row'[k].status = status)
  <2>1. CASE row' = row
    BY <2>1
  <2>2. CASE row' = [row EXCEPT ![h] = [status |-> status, desired |-> desired, url |-> url]]
    BY <1>1, <2>2
  <2> QED BY <2>1, <2>2 DEF Transition
<1>3. ASSUME NEW k \in Hublots, row'[k].status = "closed", row[k].status # "closed",
             NEW p \in Tunnels, Lives(p, k)'
      PROVE  opener'[p] # "done"
  <2>1. k = h /\ status = "closed"
    BY <1>2, <1>3
  <2> QED BY <1>3, <2>1
<1> QED BY <1>2, <1>3 DEF RowSafe

LEMMA RowsStay ==
  ASSUME UNCHANGED row,
         \A p \in Tunnels : opener'[p] = "done" /\ tunnel'[p].os = "live" => opener[p] = "done",
         shutdown'.step = "no" => shutdown.step = "no"
  PROVE  RowSafe
BY DEF RowSafe

\* A request that stands for h alone.
LEMMA RequestActs ==
  ASSUME Orderly, Inv', NEW h \in Hublots, NEW n \in RequestNames, request' = [request EXCEPT ![h] = n],
         UNCHANGED <<closer, opener, exit, sweep, shutdown>>, reopens' \subseteq Hublots,
         NEW g \in {Nobody, RequestTask(h)}, NEW u \in {Nobody, RequestTask(h)},
         InOrder', Moved(g, u), n # "no" <=> u = RequestTask(h), request[h] # "no" <=> g = RequestTask(h),
         \A p \in Tunnels : Goes(p, g, u), NoneBorn, RowSafe, RequestKnows(h)'
  PROVE  Orderly'
<1>1. Shaped /\ Shaped'
  BY DEF Orderly, Aware, Shaped
<1>2. \A k \in Hublots : k # h => request'[k] = request[k] /\ g # RequestTask(k) /\ u # RequestTask(k)
  BY <1>1 DEF Shaped, RequestTask, Nobody
<1>3. request'[h] = n
  BY <1>1 DEF Shaped
<1>4. /\ \A k \in Hublots : g # CloseTask(k) /\ u # CloseTask(k)
      /\ \A p \in Tunnels : g # OpenTask(p) /\ u # OpenTask(p) /\ g # ExitTask(p) /\ u # ExitTask(p)
      /\ g # SweepTask /\ u # SweepTask /\ g # ShutdownTask /\ u # ShutdownTask
  BY DEF RequestTask, CloseTask, OpenTask, ExitTask, SweepTask, ShutdownTask, Nobody
<1>5. Serves(g, u)
  BY <1>2, <1>3, <1>4 DEF Serves
<1>6. \A k \in Hublots : (request'[k] = request[k] /\ g # RequestTask(k)) \/ RequestKnows(k)'
  BY <1>2
<1> QED BY <1>1, <1>4, <1>5, <1>6, Combines

LEMMA CloserActs ==
  ASSUME Orderly, Inv', NEW h \in Hublots, NEW n \in CloserNames, closer' = [closer EXCEPT ![h] = n],
         UNCHANGED <<request, reopens, opener, exit, sweep, shutdown>>,
         NEW g \in {Nobody, CloseTask(h)}, NEW u \in {Nobody, CloseTask(h)},
         InOrder', Moved(g, u), n # "no" <=> u = CloseTask(h), closer[h] # "no" <=> g = CloseTask(h),
         \A p \in Tunnels : Goes(p, g, u), NoneBorn, RowSafe, CloserKnows(h)'
  PROVE  Orderly'
<1>1. Shaped /\ Shaped'
  BY DEF Orderly, Aware, Shaped
<1>2. \A k \in Hublots : k # h => closer'[k] = closer[k] /\ g # CloseTask(k) /\ u # CloseTask(k)
  BY <1>1 DEF Shaped, CloseTask, Nobody
<1>3. closer'[h] = n
  BY <1>1 DEF Shaped
<1>4. /\ \A k \in Hublots : g # RequestTask(k) /\ u # RequestTask(k)
      /\ \A p \in Tunnels : g # OpenTask(p) /\ u # OpenTask(p) /\ g # ExitTask(p) /\ u # ExitTask(p)
      /\ g # SweepTask /\ u # SweepTask /\ g # ShutdownTask /\ u # ShutdownTask
  BY DEF RequestTask, CloseTask, OpenTask, ExitTask, SweepTask, ShutdownTask, Nobody
<1>5. Serves(g, u)
  BY <1>2, <1>3, <1>4 DEF Serves
<1>6. \A k \in Hublots : (closer'[k] = closer[k] /\ g # CloseTask(k)) \/ CloserKnows(k)'
  BY <1>2
<1> QED BY <1>1, <1>4, <1>5, <1>6, Combines

\* The opener of p goes on; its tunnel may change with it.
LEMMA OpenerActs ==
  ASSUME Orderly, Inv', NEW p \in Tunnels, NEW o \in Openers, opener' = [opener EXCEPT ![p] = o],
         UNCHANGED <<request, closer, exit, sweep, shutdown>>, reopens' \subseteq Hublots,
         NEW g \in {Nobody, OpenTask(p)}, NEW u \in {Nobody, OpenTask(p)},
         InOrder', Moved(g, u), OpenWaits(o) <=> u = OpenTask(p), OpenWaits(opener[p]) <=> g = OpenTask(p),
         \A q \in Tunnels : Goes(q, g, u), NoneBorn, RowSafe
  PROVE  Orderly'
<1>1. Shaped /\ Shaped' /\ opener \in [Tunnels -> Openers]
  BY DEF Orderly, Aware, Shaped, Inv, Typed
<1>2. \A q \in Tunnels : q # p => opener'[q] = opener[q] /\ g # OpenTask(q) /\ u # OpenTask(q)
  BY <1>1 DEF OpenTask, Nobody
<1>3. opener'[p] = o
  BY <1>1
<1>4. /\ \A k \in Hublots : /\ g # RequestTask(k) /\ u # RequestTask(k)
                            /\ g # CloseTask(k) /\ u # CloseTask(k)
      /\ \A q \in Tunnels : g # ExitTask(q) /\ u # ExitTask(q)
      /\ g # SweepTask /\ u # SweepTask /\ g # ShutdownTask /\ u # ShutdownTask
  BY DEF RequestTask, CloseTask, OpenTask, ExitTask, SweepTask, ShutdownTask, Nobody
<1>5. Serves(g, u)
  BY <1>2, <1>3, <1>4 DEF Serves
<1> QED BY <1>1, <1>4, <1>5, Combines

LEMMA ListenerActs ==
  ASSUME Orderly, Inv', NEW p \in Tunnels, NEW e \in ExitSteps_, exit' = [exit EXCEPT ![p] = e],
         UNCHANGED <<request, reopens, closer, opener, sweep, shutdown>>,
         NEW g \in {Nobody, ExitTask(p)}, NEW u \in {Nobody, ExitTask(p)},
         InOrder', Moved(g, u), e.step # "no" <=> u = ExitTask(p), exit[p].step # "no" <=> g = ExitTask(p),
         \A q \in Tunnels : Goes(q, g, u), NoneBorn, RowSafe, ListenerKnows(p)'
  PROVE  Orderly'
<1>1. Shaped /\ Shaped' /\ exit \in [Tunnels -> ExitSteps_]
  BY DEF Orderly, Aware, Shaped, Inv, Typed
<1>2. \A q \in Tunnels : q # p => exit'[q] = exit[q] /\ g # ExitTask(q) /\ u # ExitTask(q)
  BY <1>1 DEF ExitTask, Nobody
<1>3. exit'[p] = e
  BY <1>1
<1>4. /\ \A k \in Hublots : /\ g # RequestTask(k) /\ u # RequestTask(k)
                            /\ g # CloseTask(k) /\ u # CloseTask(k)
      /\ \A q \in Tunnels : g # OpenTask(q) /\ u # OpenTask(q)
      /\ g # SweepTask /\ u # SweepTask /\ g # ShutdownTask /\ u # ShutdownTask
  BY DEF RequestTask, CloseTask, OpenTask, ExitTask, SweepTask, ShutdownTask, Nobody
<1>5. Serves(g, u)
  BY <1>2, <1>3, <1>4 DEF Serves
<1>6. \A q \in Tunnels : (exit'[q] = exit[q] /\ g # ExitTask(q)) \/ ListenerKnows(q)'
  BY <1>2
<1> QED BY <1>1, <1>4, <1>5, <1>6, Combines

\* The supervisor, the shutdown.
LEMMA LookerActs ==
  ASSUME Orderly, Inv', UNCHANGED <<request, reopens, closer, opener, exit>>,
         NEW g \in {Nobody, SweepTask, ShutdownTask}, NEW u \in {Nobody, SweepTask, ShutdownTask},
         InOrder', Moved(g, u),
         \/ /\ UNCHANGED shutdown /\ g # ShutdownTask /\ u # ShutdownTask
            /\ sweep'.step # "no" <=> u = SweepTask
            /\ sweep.step # "no" <=> g = SweepTask
            /\ SweepKnows'
         \/ /\ UNCHANGED sweep /\ g # SweepTask /\ u # SweepTask
            /\ shutdown'.step \in {"list", "mark", "settle"} <=> u = ShutdownTask
            /\ shutdown.step \in {"list", "mark", "settle"} <=> g = ShutdownTask,
         \A q \in Tunnels : Goes(q, g, u), NoneBorn, RowSafe
  PROVE  Orderly'
<1>1. Shaped /\ Shaped'
  BY DEF Orderly, Aware, Shaped
<1>2. /\ \A k \in Hublots : /\ g # RequestTask(k) /\ u # RequestTask(k)
                            /\ g # CloseTask(k) /\ u # CloseTask(k)
      /\ \A q \in Tunnels : g # OpenTask(q) /\ u # OpenTask(q) /\ g # ExitTask(q) /\ u # ExitTask(q)
  BY DEF RequestTask, CloseTask, OpenTask, ExitTask, SweepTask, ShutdownTask, Nobody
<1>3. Serves(g, u)
  BY <1>2 DEF Serves
<1> QED BY <1>1, <1>2, <1>3, Combines

-----------------------------------------------------------------------------
(* The requests *)

LEMMA RequestMoves ==
  ASSUME Orderly, Inv', NEW h \in Hublots, NEW from \in RequestNames \ {"no"}, NEW to \in RequestNames,
         RequestStep(h, from, to), RowSafe,
         (\A p \in Tunnels : \A u : Goes(p, RequestTask(h), u)) /\ NoneBorn,
         (to # "no" /\ Moved(RequestTask(h), RequestTask(h))) \/ to = "no" => RequestKnows(h)'
  PROVE  Orderly'
<1>1. Turn(RequestTask(h)) /\ request[h] = from /\ RequestTask(h) \in Tasks
  BY TasksDiffer DEF RequestStep, RequestTask
<1>2. CASE to = "no"
  <2>1. Ends
    BY <1>2 DEF RequestStep
  <2>2. InOrder' /\ Moved(RequestTask(h), Nobody)
    BY <1>1, <2>1, HeadServed
  <2>3. RequestTask(h) # Nobody /\ reopens' \subseteq Hublots
    BY <1>2 DEF RequestTask, Nobody, RequestStep, Orderly, Aware, Shaped
  <2> QED BY <1>1, <1>2, <2>2, <2>3, RequestActs DEF RequestStep
<1>3. CASE to # "no"
  <2>1. Awaits(RequestTask(h))
    BY <1>3 DEF RequestStep, RequestTask
  <2>2. InOrder' /\ Moved(RequestTask(h), RequestTask(h))
    BY <1>1, <2>1, HeadServed
  <2>3. reopens' \subseteq Hublots
    BY <1>3 DEF RequestStep, Orderly, Aware, Shaped
  <2> QED BY <1>1, <1>3, <2>2, <2>3, RequestActs DEF RequestStep
<1> QED BY <1>2, <1>3

\* A request that only looks leaves the processes as they are.
LEMMA RequestLooks ==
  ASSUME NEW h \in Hublots, NEW from, NEW to, RequestStep(h, from, to), UNCHANGED tunnel
  PROVE  /\ (\A p \in Tunnels : \A u : Goes(p, RequestTask(h), u)) /\ NoneBorn
         /\ \A p \in Tunnels : opener'[p] = opener[p]
         /\ shutdown' = shutdown
         /\ \A p \in Tunnels : /\ Born(p)' <=> Born(p)
                               /\ tunnel'[p].of = tunnel[p].of
                               /\ Lives(p, h)' <=> Lives(p, h)
<1>1. \A p \in Tunnels : RequestTask(h) # OpenTask(p)
  BY DEF RequestTask, OpenTask
<1>2. UNCHANGED <<opener, shutdown>>
  BY DEF RequestStep
<1> QED BY <1>1, <1>2, OpenersStand DEF Born, Lives

LEMMA ReserveActs ==
  ASSUME Orderly, Inv', NEW h \in Hublots, Reserve(h)
  PROVE  Orderly'
<1>1. PICK to : to = IF PortFree(h) THEN "spawn" ELSE "no"
  OBVIOUS
<1>2. RequestStep(h, "reserve", to) /\ UNCHANGED tunnel /\ to \in {"spawn", "no"}
  BY <1>1 DEF Reserve
<1>3. RequestKnows(h) /\ request[h] = "reserve" /\ request'[h] = to
  BY <1>2 DEF RequestStep, Orderly, Aware, Shaped
<1>4. \A p \in Tunnels : ~(Born(p) /\ tunnel[p].of = h)
  BY <1>3 DEF RequestKnows
<1>5. RowSafe
  <2>1. CASE PortFree(h)
    <3>1. Transition(h, "opening", "open", NoTunnel)
      BY <2>1 DEF Reserve
    <3> QED BY <1>2, <3>1, RowsSafe, RequestLooks DEF RowStatuses
  <2>2. CASE ~PortFree(h)
    BY <1>2, <2>2, RowsStay, RequestLooks DEF Reserve
  <2> QED BY <2>1, <2>2
<1>6. to = "spawn" => row'[h].status # "absent"
  <2>1. row \in [Hublots -> Rows]
    BY DEF Orderly, Inv, Typed
  <2> QED BY <1>1, <2>1 DEF Reserve, Transition, Admits
<1>7. RequestKnows(h)'
  BY <1>2, <1>3, <1>4, <1>6, RequestLooks DEF RequestKnows, Lives, Born
<1> QED BY <1>2, <1>5, <1>7, RequestLooks, RequestMoves DEF RequestNames

\* A reopening sees in what state the row is, and its openers ahead of it go on.
LEMMA ReopenCheckActs ==
  ASSUME Orderly, Inv', NEW h \in Hublots, ReopenCheck(h)
  PROVE  Orderly'
<1>1. PICK to \in {"no", "retire"} :
        /\ RequestStep(h, "reopen", to) /\ UNCHANGED <<row, tunnel>>
        /\ row[h].status = "absent" => to = "no"
  BY DEF ReopenCheck
<1>2. RequestKnows(h) /\ request[h] = "reopen" /\ request'[h] = to
  BY <1>1 DEF RequestStep, Orderly, Aware, Shaped
<1>3. RowSafe
  BY <1>1, RowsStay, RequestLooks
<1>4. row[h].status # "absent"
  BY <1>2 DEF RequestKnows
<1>5. ASSUME to = "retire", Moved(RequestTask(h), RequestTask(h)), NEW p \in Tunnels, Lives(p, h)'
      PROVE  /\ opener'[p] # "spawned"
             /\ opener'[p] = "persist" => Ahead(OpenTask(p), RequestTask(h))'
  <2>1. Lives(p, h) /\ opener'[p] = opener[p]
    BY <1>1, <1>5, RequestLooks
  <2>2. RequestTask(h) \in Tasks /\ OpenTask(p) \in Tasks /\ OpenTask(p) # RequestTask(h)
    BY TasksDiffer DEF OpenTask, RequestTask
  <2>3. ~Ahead(OpenTask(p), RequestTask(h))
    BY <1>5, <2>2 DEF Moved
  <2>4. opener[p] # "spawned"
    BY <1>2, <2>1, <2>3 DEF RequestKnows
  <2>5. opener[p] = "persist" => Queues(OpenTask(p))
    BY DEF Orderly, Aware, Served, OpenWaits
  <2>6. Queues(OpenTask(p)) => Ahead(OpenTask(p), RequestTask(h))'
    BY <1>5, <2>2 DEF Moved
  <2> QED BY <2>1, <2>4, <2>5, <2>6
<1>6. row'[h].status # "absent"
  BY <1>1, <1>4
<1>7. ASSUME to = "no" \/ Moved(RequestTask(h), RequestTask(h))
      PROVE  RequestKnows(h)'
  <2>1. CASE to = "no"
    BY <1>2, <1>6, <2>1 DEF RequestKnows
  <2>2. CASE to = "retire"
    BY <1>2, <1>5, <1>6, <1>7, <2>2 DEF RequestKnows
  <2> QED BY <2>1, <2>2
<1> QED BY <1>1, <1>3, <1>7, RequestLooks, RequestMoves DEF RequestNames

\* The retirement tells every process whose row is written.
LEMMA RetireActs ==
  ASSUME Orderly, Inv', NEW h \in Hublots, Retire(h)
  PROVE  Orderly'
<1> DEFINE old == {p \in Recorded(h) : tunnel[p].rec # "ended"}
<1>1. RequestStep(h, "retire", "mark") /\ tunnel' = Retired(old) /\ UNCHANGED row
  BY DEF Retire
<1>2. RequestKnows(h) /\ request[h] = "retire" /\ request'[h] = "mark" /\ UNCHANGED <<opener, shutdown>>
  BY <1>1 DEF RequestStep, Orderly, Aware, Shaped
<1>3. ASSUME NEW p \in Tunnels
      PROVE  /\ tunnel'[p].of = tunnel[p].of
             /\ tunnel'[p].os # "unborn" <=> Born(p)
             /\ tunnel'[p].os = "live" => p \notin old /\ tunnel'[p] = tunnel[p]
  <2>1. CASE p \notin old
    BY <1>1, <2>1 DEF Retired, Born
  <2>2. CASE p \in old
    <3> DEFINE v == Told(old)[p]
    <3>1. /\ v \in Processes /\ v.of = tunnel[p].of /\ v.os # "live"
          /\ v = tunnel[p] \/ (tunnel[p].os = "live" /\ v.os = "told")
      BY <2>2, ToldEach DEF Orderly
    <3>2. tunnel'[p] = [v EXCEPT !.rec = "ended"]
      BY <1>1, <2>2 DEF Retired
    <3> HIDE DEF v
    <3>3. tunnel'[p].of = v.of /\ tunnel'[p].os = v.os
      BY <3>1, <3>2 DEF Processes
    <3> QED BY <3>1, <3>3 DEF Born
  <2> QED BY <2>1, <2>2
<1> HIDE DEF old
<1>4. (\A p \in Tunnels : \A u : Goes(p, RequestTask(h), u)) /\ NoneBorn
  <2>1. \A p \in Tunnels : RequestTask(h) # OpenTask(p)
    BY DEF RequestTask, OpenTask
  <2> QED BY <1>2, <1>3, <2>1 DEF Goes, NoneBorn, Born
<1>5. RowSafe
  BY <1>1, <1>2, RowsStay
<1>6. RequestTask(h) \in Tasks /\ \A p \in Tunnels : OpenTask(p) \in Tasks
  BY TasksDiffer
<1>7. Turn(RequestTask(h))
  BY <1>1 DEF RequestStep, RequestTask
<1>8. \A p \in Tunnels : ~Ahead(OpenTask(p), RequestTask(h))
  BY <1>6, <1>7, HeadServed
<1>9. ASSUME NEW p \in Tunnels, Lives(p, h)'
      PROVE  opener'[p] = "outlived"
  <2>1. Lives(p, h) /\ p \notin old
    BY <1>3, <1>9 DEF Lives
  <2>2. opener[p] \notin {"spawned", "persist"}
    BY <1>2, <1>8, <2>1 DEF RequestKnows
  <2>3. tunnel[p].rec # "running"
    BY <2>1 DEF old, Recorded, Of, Lives
  <2>4. opener[p] = "outlived"
    BY <2>1, <2>2, <2>3 DEF Orderly, Inv, Followed, Lives
  <2> QED BY <1>2, <2>4
<1>10. row'[h].status # "absent"
  BY <1>1, <1>2 DEF RequestKnows
<1>11. RequestKnows(h)'
  BY <1>2, <1>9, <1>10 DEF RequestKnows
<1> QED BY <1>1, <1>4, <1>5, <1>11, RequestMoves DEF RequestNames

LEMMA MarkActs ==
  ASSUME Orderly, Inv', NEW h \in Hublots, Mark(h)
  PROVE  Orderly'
<1>1. PICK to : to = IF PortFree(h) THEN "check" ELSE "no"
  OBVIOUS
<1>2. RequestStep(h, "mark", to) /\ UNCHANGED tunnel /\ to \in {"check", "no"}
        /\ Transition(h, "opening", "open", NoTunnel)
  BY <1>1 DEF Mark
<1>3. RequestKnows(h) /\ request[h] = "mark" /\ request'[h] = to
  BY <1>2 DEF RequestStep, Orderly, Aware, Shaped
<1>5. RowSafe
  BY <1>2, RowsSafe, RequestLooks DEF RowStatuses
<1>6. row'[h].status # "absent"
  <2>1. row[h].status # "absent"
    BY <1>3 DEF RequestKnows
  <2> QED BY <1>5, <2>1 DEF RowSafe
<1>7. RequestKnows(h)'
  BY <1>2, <1>3, <1>6, RequestLooks DEF RequestKnows
<1> QED BY <1>2, <1>5, <1>7, RequestLooks, RequestMoves DEF RequestNames

LEMMA CheckActs ==
  ASSUME Orderly, Inv', NEW h \in Hublots, Check(h)
  PROVE  Orderly'
<1>1. PICK to \in {"spawn", "no"} : RequestStep(h, "check", to) /\ UNCHANGED <<row, tunnel>>
  BY DEF Check
<1>3. RequestKnows(h) /\ request[h] = "check" /\ request'[h] = to
  BY <1>1 DEF RequestStep, Orderly, Aware, Shaped
<1>5. RowSafe
  BY <1>1, RowsStay, RequestLooks
<1>6. row'[h].status # "absent"
  BY <1>1, <1>3 DEF RequestKnows
<1>7. RequestKnows(h)'
  BY <1>1, <1>3, <1>6, RequestLooks DEF RequestKnows
<1> QED BY <1>1, <1>5, <1>7, RequestLooks, RequestMoves DEF RequestNames

\* The process that is spawned is the youngest, and the older ones of its hublot
\* are gone.
LEMMA SpawnActs ==
  ASSUME Orderly, Inv', NEW h \in Hublots, Spawn(h)
  PROVE  Orderly'
<1>1. Turn(RequestTask(h)) /\ request[h] = "spawn" /\ request' = [request EXCEPT ![h] = "no"]
        /\ UNCHANGED <<row, exit, closer, sweep, shutdown>>
  BY DEF Spawn, RequestTask
<1>2. RequestTask(h) \in Tasks /\ RequestTask(h) # Nobody
  BY TasksDiffer DEF RequestTask, Nobody
<1>3. RequestKnows(h) /\ request'[h] = "no" /\ Shaped
  BY <1>1 DEF Orderly, Aware, Shaped
<1>4. row[h].status # "absent"
  BY <1>1, <1>3 DEF RequestKnows
<1>5. RequestKnows(h)'
  BY <1>1, <1>3, <1>4 DEF RequestKnows
<1>6. CASE row[h].status # "opening"
  <2>1. UNCHANGED <<tunnel, opener>> /\ Ends /\ reopens' = reopens \ {h}
    BY <1>6 DEF Spawn
  <2>2. InOrder' /\ Moved(RequestTask(h), Nobody)
    BY <1>1, <1>2, <2>1, HeadServed
  <2>3. RowSafe
    BY <1>1, <2>1, RowsStay
  <2>4. reopens' \subseteq Hublots
    BY <1>3, <2>1 DEF Shaped
  <2>5. \A p \in Tunnels : RequestTask(h) # OpenTask(p)
    BY DEF RequestTask, OpenTask
  <2>6. (\A p \in Tunnels : Goes(p, RequestTask(h), Nobody)) /\ NoneBorn
    BY <2>1, <2>5, OpenersStand
  <2> QED BY <1>1, <1>2, <1>5, <2>1, <2>2, <2>3, <2>4, <2>6, RequestActs DEF RequestNames
<1>7. CASE row[h].status = "opening"
  <2>1. PICK p \in Tunnels, started \in BOOLEAN :
          /\ FirstUnborn(p)
          /\ tunnel' = [tunnel EXCEPT ![p] =
               [Unborn EXCEPT !.os = IF started THEN "live" ELSE "dead",
                              !.of = h, !.reopen = h \in reopens]]
          /\ opener' = [opener EXCEPT ![p] = IF started THEN "spawned" ELSE "fail"]
          /\ Awaits(<<"open", p>>)
          /\ UNCHANGED reopens
    BY <1>7 DEF Spawn
  <2>2. PICK o \in {"spawned", "fail"} : opener' = [opener EXCEPT ![p] = o]
                /\ o = IF started THEN "spawned" ELSE "fail"
    BY <2>1
  <2>3. tunnel \in [Tunnels -> Processes] /\ opener \in [Tunnels -> Openers]
    BY DEF Orderly, Inv, Typed
  <2>4. /\ \A q \in Tunnels : q # p => tunnel'[q] = tunnel[q] /\ opener'[q] = opener[q]
        /\ opener'[p] = o
    BY <2>1, <2>2, <2>3
  <2>5. /\ tunnel'[p].of = h
        /\ tunnel'[p].os = IF started THEN "live" ELSE "dead"
    <3> DEFINE os == IF started THEN "live" ELSE "dead"
               again == h \in reopens
               t == [Unborn EXCEPT !.os = os, !.of = h, !.reopen = again]
    <3>1. tunnel'[p] = t
      BY <2>1, <2>3
    <3>2. t.of = h /\ t.os = os
      <4> HIDE DEF os, again
      <4> QED BY DEF Unborn
    <3> HIDE DEF t
    <3> QED BY <3>1, <3>2
  <2>6. tunnel[p].os = "unborn" /\ ~Born(p)
    BY <2>1 DEF FirstUnborn, Tunnels, Born
  <2>7. opener[p] = "no"
    BY <2>6 DEF Orderly, Inv, Followed
  <2>8. OpenTask(p) \in Tasks /\ ~Queues(OpenTask(p)) /\ Awaits(OpenTask(p)) /\ OpenTask(p) # RequestTask(h)
    BY <2>1, <2>7, TasksDiffer DEF Orderly, Aware, Served, OpenWaits, OpenTask, RequestTask
  <2>9. InOrder' /\ Moved(RequestTask(h), OpenTask(p))
    BY <1>1, <1>2, <2>8, HeadServed
  <2>10. \A q \in Tunnels : Goes(q, RequestTask(h), OpenTask(p))
    <3> SUFFICES ASSUME NEW q \in Tunnels
                 PROVE  Goes(q, RequestTask(h), OpenTask(p))
      OBVIOUS
    <3>1. RequestTask(h) # OpenTask(q)
      BY DEF RequestTask, OpenTask
    <3>2. CASE q = p
      BY <2>2, <2>4, <2>5, <2>6, <3>2 DEF Goes
    <3>3. CASE q # p
      BY <2>4, <3>1, <3>3 DEF Goes, Born
    <3> QED BY <3>2, <3>3
  <2>11. \A q \in Tunnels : q < p => Born(q)
    <3> SUFFICES ASSUME NEW q \in Tunnels, q < p
                 PROVE  Born(q)
      OBVIOUS
    <3>1. q \in 1..p
      BY DEF Tunnels
    <3> QED BY <2>1, <3>1 DEF FirstUnborn, Born
  <2>12. \A q \in Tunnels : q > p => ~Born(q)
    BY <2>6 DEF Orderly, Aware, BornInOrder, Tunnels
  <2>13. BornInOrder'
    <3> SUFFICES ASSUME NEW q \in Tunnels, NEW r \in Tunnels, q < r, tunnel'[r].os # "unborn"
                 PROVE  tunnel'[q].os # "unborn"
      BY DEF BornInOrder, Born
    <3>1. CASE q = p
      BY <2>5, <3>1
    <3>2. CASE q # p /\ r = p
      BY <2>4, <2>11, <3>2 DEF Born
    <3>3. CASE q # p /\ r # p
      BY <2>4, <3>3 DEF Orderly, Aware, BornInOrder, Born
    <3> QED BY <3>1, <3>2, <3>3
  <2>14. \A q \in Tunnels : Lives(q, h) => opener[q] = "outlived"
    BY <1>1, <1>3 DEF RequestKnows
  <2>15. OlderGone'
    <3> SUFFICES ASSUME NEW q \in Tunnels, NEW r \in Tunnels, q < r, tunnel'[r].os # "unborn",
                        tunnel'[q].os = "live", tunnel'[q].of = tunnel'[r].of
                 PROVE  opener'[q] = "outlived"
      BY DEF OlderGone, Lives, Born
    <3>1. CASE q = p
      <4>1. ~Born(r) /\ r # p
        BY <2>12, <3>1 DEF Tunnels
      <4> QED BY <2>4, <4>1 DEF Born
    <3>2. CASE q # p /\ r = p
      BY <2>4, <2>5, <2>14, <3>2 DEF Lives
    <3>3. CASE q # p /\ r # p
      BY <2>4, <3>3 DEF Orderly, Aware, OlderGone, Lives, Born
    <3> QED BY <3>1, <3>2, <3>3
  <2>16. RowSafe
    <3>1. \A q \in Tunnels : opener'[q] = "done" /\ tunnel'[q].os = "live" => opener[q] = "done"
      BY <2>2, <2>4
    <3> QED BY <1>1, <3>1, RowsStay
  <2>17. \A k \in Hublots :
           \/ /\ request'[k] = request[k] /\ RequestTask(h) # RequestTask(k)
              /\ \A q \in Tunnels : tunnel'[q].os # "unborn" /\ tunnel'[q].of = k => Born(q)
           \/ RequestKnows(k)'
    <3> SUFFICES ASSUME NEW k \in Hublots, k # h
                 PROVE  /\ request'[k] = request[k] /\ RequestTask(h) # RequestTask(k)
                        /\ \A q \in Tunnels : tunnel'[q].os # "unborn" /\ tunnel'[q].of = k => Born(q)
      BY <1>5
    <3>1. request'[k] = request[k] /\ RequestTask(h) # RequestTask(k)
      BY <1>1 DEF RequestTask
    <3>2. \A q \in Tunnels : tunnel'[q].os # "unborn" /\ tunnel'[q].of = k => Born(q)
      BY <2>4, <2>5 DEF Born
    <3> QED BY <3>1, <3>2
  <2>18. Shaped'
    BY <1>1, <1>3, <2>1 DEF Shaped, RequestNames
  <2>19. /\ \A k \in Hublots : RequestTask(h) # CloseTask(k) /\ OpenTask(p) # CloseTask(k)
                               /\ OpenTask(p) # RequestTask(k)
                               /\ (k # h => RequestTask(h) # RequestTask(k))
         /\ \A q \in Tunnels : RequestTask(h) # OpenTask(q) /\ RequestTask(h) # ExitTask(q)
                               /\ OpenTask(p) # ExitTask(q) /\ (q # p => OpenTask(p) # OpenTask(q))
         /\ RequestTask(h) # SweepTask /\ OpenTask(p) # SweepTask
         /\ RequestTask(h) # ShutdownTask /\ OpenTask(p) # ShutdownTask
    BY DEF RequestTask, CloseTask, OpenTask, ExitTask, SweepTask, ShutdownTask
  <2>20. \A k \in Hublots : k # h => request'[k] = request[k]
    BY <1>1
  <2>21. Serves(RequestTask(h), OpenTask(p))
    BY <1>1, <1>3, <2>2, <2>4, <2>7, <2>19, <2>20 DEF Serves, OpenWaits
  <2> QED BY <1>1, <2>9, <2>10, <2>13, <2>15, <2>16, <2>17, <2>18, <2>19, <2>21, SpawnCombines
<1> QED BY <1>6, <1>7

LEMMA RequestsKeep ==
  ASSUME Orderly, NEW h \in Hublots, RequestSteps(h), Inv'
  PROVE  Orderly'
BY ReserveActs, ReopenCheckActs, RetireActs, MarkActs, CheckActs, SpawnActs DEF RequestSteps

-----------------------------------------------------------------------------
(* The openers *)

\* The opener of p is served, and goes on or ends.
LEMMA OpenerMovesOn ==
  ASSUME Orderly, Inv', NEW p \in Tunnels, NEW o \in Openers, opener' = [opener EXCEPT ![p] = o],
         Turn(OpenTask(p)), OpenWaits(opener[p]),
         (OpenWaits(o) /\ Awaits(OpenTask(p))) \/ (~OpenWaits(o) /\ Ends),
         UNCHANGED <<request, closer, exit, sweep, shutdown>>, reopens' \subseteq Hublots,
         \A q \in Tunnels : q # p => tunnel'[q] = tunnel[q],
         \A u : Goes(p, OpenTask(p), u), tunnel'[p].os # "unborn" => Born(p), RowSafe
  PROVE  Orderly'
<1>1. OpenTask(p) \in Tasks /\ OpenTask(p) # Nobody
  BY TasksDiffer DEF OpenTask, Nobody
<1>2. PICK u \in {Nobody, OpenTask(p)} : /\ InOrder' /\ Moved(OpenTask(p), u)
                                         /\ OpenWaits(o) <=> u = OpenTask(p)
  BY <1>1, HeadServed
<1>3. ASSUME NEW q \in Tunnels
      PROVE  Goes(q, OpenTask(p), u) /\ (tunnel'[q].os # "unborn" => Born(q))
  <2>1. CASE q = p
    BY <2>1
  <2>2. CASE q # p
    <3>1. opener'[q] = opener[q] /\ OpenTask(p) # OpenTask(q)
      BY <2>2 DEF OpenTask, Orderly, Inv, Typed
    <3> QED BY <2>2, <3>1 DEF Goes, Born
  <2> QED BY <2>1, <2>2
<1>4. NoneBorn
  BY <1>3 DEF NoneBorn
<1> QED BY <1>1, <1>2, <1>3, <1>4, OpenerActs

\* The opener of p did not wait and does so now.
LEMMA OpenerWaits ==
  ASSUME Orderly, Inv', NEW p \in Tunnels, NEW o \in Openers, opener' = [opener EXCEPT ![p] = o],
         ~OpenWaits(opener[p]), OpenWaits(o), Starts(OpenTask(p)),
         UNCHANGED <<row, request, closer, exit, sweep, shutdown, reopens>>,
         \/ tunnel' = Told({p})
         \/ UNCHANGED tunnel /\ opener[p] = "url" /\ o = "confirm"
         \/ UNCHANGED tunnel /\ opener[p] = "poll" /\ o = "open"
  PROVE  Orderly'
<1>1. OpenTask(p) \in Tasks /\ OpenTask(p) # Nobody /\ ~Queues(OpenTask(p))
  BY TasksDiffer DEF OpenTask, Nobody, Orderly, Aware, Served
<1>2. InOrder' /\ Moved(Nobody, OpenTask(p))
  BY <1>1, LaterServed
<1>3. opener \in [Tunnels -> Openers] /\ opener'[p] = o /\ reopens \subseteq Hublots
  BY DEF Orderly, Inv, Typed, Aware, Shaped
<1>4. \A q \in Tunnels : Nobody # OpenTask(q)
  BY DEF OpenTask, Nobody
<1>5. (\A q \in Tunnels : Goes(q, Nobody, OpenTask(p))) /\ NoneBorn
  <2>1. CASE tunnel' = Told({p})
    <3>1. \A q \in Tunnels : q \in {p} \/ (opener'[q] = opener[q] /\ Nobody # OpenTask(q))
      BY <1>3, <1>4
    <3> QED BY <2>1, <3>1, ToldGoes DEF Orderly
  <2>2. CASE /\ UNCHANGED tunnel
             /\ (opener[p] = "url" /\ o = "confirm") \/ (opener[p] = "poll" /\ o = "open")
    <3>1. ASSUME NEW q \in Tunnels
          PROVE  Goes(q, Nobody, OpenTask(p))
      <4>1. CASE q = p
        BY <1>3, <2>2, <4>1 DEF Goes, Born
      <4>2. CASE q # p
        <5>1. opener'[q] = opener[q]
          BY <1>3, <4>2
        <5> QED BY <1>4, <2>2, <5>1 DEF Goes, Born
      <4> QED BY <4>1, <4>2
    <3> QED BY <2>2, <3>1 DEF NoneBorn, Born
  <2> QED BY <2>1, <2>2
<1>6. RowSafe
  <2>1. \A q \in Tunnels : opener'[q] = "done" => opener[q] = "done"
    BY <1>3 DEF OpenWaits
  <2> QED BY <2>1, RowsStay
<1> QED BY <1>1, <1>2, <1>3, <1>5, <1>6, OpenerActs

\* Nothing but the opener of p changes, for a process that does not live.
LEMMA DeadOpener ==
  ASSUME UNCHANGED tunnel, NEW p \in Tunnels, tunnel[p].os # "live"
  PROVE  /\ \A q \in Tunnels : q # p => tunnel'[q] = tunnel[q]
         /\ \A u : Goes(p, OpenTask(p), u)
         /\ tunnel'[p].os # "unborn" => Born(p)
BY DEF Goes, Born

LEMMA OpeningEnds ==
  ASSUME Orderly, NEW p \in Tunnels, NEW step, EndOpening(p, step)
  PROVE  opener' = [opener EXCEPT ![p] = step] /\ reopens' \subseteq Hublots /\ Ends
BY DEF EndOpening, Orderly, Aware, Shaped

LEMMA PersistActs ==
  ASSUME Orderly, Inv', NEW p \in Tunnels, Persist(p)
  PROVE  Orderly'
<1>1. Turn(OpenTask(p)) /\ opener[p] = "persist" /\ OpenWaits(opener[p])
        /\ UNCHANGED <<row, reopens, request, closer, exit, sweep, shutdown>>
  BY DEF Persist, OpenTask, OpenerFrame, OpenWaits
<1>2. /\ tunnel \in [Tunnels -> Processes] /\ opener \in [Tunnels -> Openers]
      /\ reopens' \subseteq Hublots
  BY <1>1 DEF Orderly, Inv, Typed, Aware, Shaped
<1>3. ASSUME NEW o \in {"url", "fail"}, opener' = [opener EXCEPT ![p] = o]
      PROVE  RowSafe
  <2>1. \A q \in Tunnels : opener'[q] = "done" => opener[q] = "done"
    BY <1>2, <1>3
  <2> QED BY <1>1, <2>1, RowsStay
<1>4. CASE /\ tunnel' = [tunnel EXCEPT ![p].rec = "running", ![p].handle = TRUE]
           /\ opener' = [opener EXCEPT ![p] = "url"]
           /\ Ends
  <2>1. /\ \A q \in Tunnels : q # p => tunnel'[q] = tunnel[q]
        /\ tunnel'[p].os = tunnel[p].os /\ tunnel'[p].of = tunnel[p].of /\ tunnel'[p].handle
    <3> DEFINE v == tunnel[p]
               w == [v EXCEPT !.rec = "running", !.handle = TRUE]
    <3>1. tunnel' = [tunnel EXCEPT ![p] = w] /\ v \in Processes
      BY <1>2, <1>4
    <3> HIDE DEF v
    <3>2. w.os = v.os /\ w.of = v.of /\ w.handle
      BY <3>1 DEF Processes
    <3> HIDE DEF w
    <3> QED BY <1>2, <3>1, <3>2 DEF v
  <2>2. \A u : Goes(p, OpenTask(p), u)
    BY <1>1, <1>2, <1>4, <2>1 DEF Goes, Born
  <2>3. tunnel'[p].os # "unborn" => Born(p)
    BY <2>1 DEF Born
  <2>4. ~OpenWaits("url") /\ "url" \in Openers
    BY DEF OpenWaits, Openers
  <2> QED BY <1>1, <1>2, <1>3, <1>4, <2>1, <2>2, <2>3, <2>4, OpenerMovesOn
<1>5. CASE /\ tunnel' = Told({p})
           /\ opener' = [opener EXCEPT ![p] = "fail"]
           /\ Awaits(<<"open", p>>)
  <2>1. /\ \A q \in Tunnels : q # p => tunnel'[q] = tunnel[q]
        /\ tunnel'[p].of = tunnel[p].of /\ tunnel'[p].os # "live"
        /\ tunnel'[p] = tunnel[p] \/ (tunnel[p].os = "live" /\ tunnel'[p].os = "told")
    <3>1. \A q \in Tunnels : q # p => tunnel'[q] = tunnel[q]
      <4> SUFFICES ASSUME NEW q \in Tunnels, q # p
                   PROVE  Told({p})[q] = tunnel[q]
        BY <1>5
      <4> DEFINE each(r) == IF r \in {p} /\ tunnel[r].os = "live"
                            THEN [tunnel[r] EXCEPT !.os = "told"] ELSE tunnel[r]
      <4>1. each(q) = tunnel[q]
        OBVIOUS
      <4>2. Told({p}) = [r \in Tunnels |-> each(r)]
        BY DEF Told
      <4> HIDE DEF each
      <4> QED BY <4>1, <4>2
    <3>2. Inv /\ p \in {p}
      BY DEF Orderly
    <3> DEFINE s == {p}
    <3> HIDE DEF s
    <3>3. /\ Told(s)[p].of = tunnel[p].of /\ (p \in s => Told(s)[p].os # "live")
          /\ Told(s)[p] = tunnel[p] \/ (tunnel[p].os = "live" /\ Told(s)[p].os = "told")
      BY <3>2, ToldEach
    <3> QED BY <1>5, <3>1, <3>2, <3>3 DEF s
  <2>2. (\A u : Goes(p, OpenTask(p), u)) /\ (tunnel'[p].os # "unborn" => Born(p))
    BY <2>1 DEF Goes, Born
  <2>3. OpenWaits("fail") /\ "fail" \in Openers /\ Awaits(OpenTask(p))
    BY <1>5 DEF OpenWaits, Openers, OpenTask
  <2> QED BY <1>1, <1>2, <1>3, <1>5, <2>1, <2>2, <2>3, OpenerMovesOn
<1> QED BY <1>4, <1>5 DEF Persist, PersistFailed

LEMMA RecordOpenActs ==
  ASSUME Orderly, Inv', NEW p \in Tunnels, RecordOpen(p)
  PROVE  Orderly'
<1>h. PICK h : h = tunnel[p].of
  OBVIOUS
<1>1. PICK o \in {"done", "hung"} : /\ EndOpening(p, o)
                                    /\ o = IF PortFree(h) THEN "done" ELSE "hung"
  BY <1>h DEF RecordOpen
<1>2. Turn(OpenTask(p)) /\ opener[p] = "open" /\ OpenWaits(opener[p])
        /\ UNCHANGED <<tunnel, request, closer, exit, sweep, shutdown>>
        /\ Transition(h, "open", "open", p)
  BY <1>h DEF RecordOpen, OpenTask, OpenerFrame, OpenWaits, Opened
<1>3. row \in [Hublots -> Rows] /\ opener \in [Tunnels -> Openers]
  BY DEF Orderly, Inv, Typed
<1>4. opener' = [opener EXCEPT ![p] = o] /\ reopens' \subseteq Hublots /\ Ends
  BY <1>1, OpeningEnds
<1>5. \A k \in Hublots : row'[k] = row[k] \/ (k = h /\ row'[k].status = "open")
  BY <1>2, <1>3 DEF Transition
<1>6. tunnel[p].os = "live" => h \in Hublots
  BY <1>h DEF Orderly, Inv, Followed
<1>7. o = "done" /\ h \in Hublots => row'[h].status = "open"
  BY <1>1, <1>2, <1>3 DEF Transition, Admits
<1>8. \A q \in Tunnels : opener[q] # "done" /\ opener'[q] = "done" => q = p /\ o = "done"
  BY <1>3, <1>4
<1>9. RowSafe
  <2>1. \A k \in Hublots : row'[k].status \in {"absent", "closed"} => row'[k] = row[k]
    BY <1>5
  <2>2. \A q \in Tunnels : opener[q] # "done" /\ opener'[q] = "done" /\ tunnel'[q].os = "live"
          => row'[tunnel[q].of].status # "closed"
    BY <1>2, <1>6, <1>7, <1>8, <1>h
  <2> QED BY <1>2, <2>1, <2>2 DEF RowSafe
<1>10. \A u : Goes(p, OpenTask(p), u)
  BY <1>2, <1>3, <1>4 DEF Goes, Born
<1>11. ~OpenWaits(o) /\ o \in Openers /\ (tunnel'[p].os # "unborn" => Born(p))
  BY <1>2 DEF OpenWaits, Openers, Born
<1> QED BY <1>2, <1>4, <1>9, <1>10, <1>11, OpenerMovesOn

LEMMA OpenersKeep ==
  ASSUME Orderly, NEW p \in Tunnels, OpenerMoved(p), Inv'
  PROVE  Orderly'
<1>1. reopens \subseteq Hublots /\ opener \in [Tunnels -> Openers]
  BY DEF Orderly, Aware, Shaped, Inv, Typed
<1>2. UNCHANGED <<request, closer, sweep, shutdown>>
  BY DEF OpenerMoved, OpenerSteps, OpenerFrame, Identify, Persist, Confirm, RecordOpen,
         FindOpening, RecordFailed, UrlTimeout, Output, PollAnswers, PollFails
<1>3. CASE Identify(p)
  <2>1. /\ Turn(OpenTask(p)) /\ opener[p] = "spawned" /\ Awaits(OpenTask(p))
        /\ opener' = [opener EXCEPT ![p] = "persist"]
        /\ UNCHANGED <<row, tunnel, exit, reopens>>
    BY <1>3 DEF Identify, OpenTask, OpenerFrame
  <2>2. RowSafe
    BY <1>1, <1>2, <2>1, RowsStay
  <2>3. \A u : Goes(p, OpenTask(p), u)
    BY <1>1, <2>1 DEF Goes, Born
  <2>4. OpenWaits(opener[p]) /\ OpenWaits("persist") /\ "persist" \in Openers
    BY <2>1 DEF OpenWaits, Openers
  <2> QED BY <1>1, <1>2, <2>1, <2>2, <2>3, <2>4, OpenerMovesOn DEF Born
<1>4. CASE Persist(p)
  BY <1>4, PersistActs
<1>5. CASE Confirm(p)
  <2>1. /\ Turn(OpenTask(p)) /\ opener[p] = "confirm"
        /\ UNCHANGED <<row, tunnel, exit, reopens>>
    BY <1>5 DEF Confirm, OpenTask, OpenerFrame
  <2>2. PICK o \in {"poll", "fail"} :
          /\ opener' = [opener EXCEPT ![p] = o]
          /\ o = "poll" => Ends
          /\ o = "fail" => Awaits(OpenTask(p)) /\ tunnel[p].os # "live"
    BY <1>5 DEF Confirm, OpenTask
  <2>3. RowSafe
    BY <1>1, <1>2, <2>1, <2>2, RowsStay
  <2>4. \A u : Goes(p, OpenTask(p), u)
    BY <1>1, <2>1, <2>2 DEF Goes, Born
  <2>5. OpenWaits(opener[p]) /\ (OpenWaits(o) <=> o = "fail") /\ o \in Openers
    BY <2>1 DEF OpenWaits, Openers
  <2> QED BY <1>1, <1>2, <2>1, <2>2, <2>3, <2>4, <2>5, OpenerMovesOn DEF Born
<1>6. CASE RecordOpen(p)
  BY <1>6, RecordOpenActs
<1>7. CASE FindOpening(p) \/ RecordFailed(p)
  <2>1. /\ Turn(OpenTask(p)) /\ opener[p] \in {"fail", "failed"}
        /\ UNCHANGED <<tunnel, exit>>
    BY <1>7 DEF FindOpening, RecordFailed, OpenTask, OpenerFrame
  <2>2. tunnel[p].os # "live"
    BY <2>1 DEF Orderly, Aware, OpenerFits
  <2>3. PICK o \in {"failed", "done"} :
          /\ opener' = [opener EXCEPT ![p] = o] /\ reopens' \subseteq Hublots
          /\ o = "failed" => Awaits(OpenTask(p))
          /\ o = "done" => Ends
    BY <1>1, <1>7, OpeningEnds DEF FindOpening, RecordFailed, OpenTask
  <2>4. \A q \in Tunnels : opener'[q] = "done" /\ tunnel'[q].os = "live" => opener[q] = "done"
    BY <1>1, <2>1, <2>2, <2>3
  <2>5. RowSafe
    <3>1. CASE UNCHANGED row
      BY <1>2, <2>4, <3>1, RowsStay
    <3>2. CASE Transition(tunnel[p].of, "failed", row[tunnel[p].of].desired, NoTunnel)
      BY <1>2, <2>4, <3>2, RowsSafe DEF RowStatuses
    <3> QED BY <1>7, <3>1, <3>2 DEF FindOpening, RecordFailed
  <2>6. OpenWaits(opener[p]) /\ (OpenWaits(o) <=> o = "failed") /\ o \in Openers
    BY <2>1 DEF OpenWaits, Openers
  <2> QED BY <1>2, <2>1, <2>2, <2>3, <2>5, <2>6, DeadOpener, OpenerMovesOn
<1>8. CASE UrlTimeout(p) \/ PollFails(p)
  <2>1. /\ opener' = [opener EXCEPT ![p] = "fail"] /\ tunnel' = Told({p}) /\ Starts(OpenTask(p))
        /\ UNCHANGED <<row, exit, reopens>> /\ opener[p] \in {"url", "poll"}
    BY <1>8 DEF UrlTimeout, PollFails, OpenTask, OpenerFrame
  <2>2. ~OpenWaits(opener[p]) /\ OpenWaits("fail") /\ "fail" \in Openers
    BY <2>1 DEF OpenWaits, Openers
  <2> QED BY <1>2, <2>1, <2>2, OpenerWaits
<1>9. CASE Output(p) \/ PollAnswers(p)
  <2>1. PICK o \in {"confirm", "open"} :
          /\ opener' = [opener EXCEPT ![p] = o] /\ Starts(OpenTask(p))
          /\ (opener[p] = "url" /\ o = "confirm") \/ (opener[p] = "poll" /\ o = "open")
          /\ UNCHANGED <<row, tunnel, exit, reopens>>
    BY <1>9 DEF Output, PollAnswers, OpenTask, OpenerFrame
  <2>2. ~OpenWaits(opener[p]) /\ OpenWaits(o) /\ o \in Openers
    BY <2>1 DEF OpenWaits, Openers
  <2> QED BY <1>2, <2>1, <2>2, OpenerWaits
<1> QED BY <1>3, <1>4, <1>5, <1>6, <1>7, <1>8, <1>9 DEF OpenerMoved, OpenerSteps

-----------------------------------------------------------------------------
(* Exits *)

\* A listener that is served, and goes on or ends.
LEMMA ListenerMovesOn ==
  ASSUME Orderly, Inv', NEW p \in Tunnels, NEW e \in ExitSteps_, exit' = [exit EXCEPT ![p] = e],
         Turn(ExitTask(p)), exit[p].step # "no",
         (e.step # "no" /\ Awaits(ExitTask(p))) \/ (e.step = "no" /\ Ends),
         UNCHANGED <<request, reopens, closer, opener, sweep, shutdown>>,
         \A q \in Tunnels : /\ tunnel'[q].os = tunnel[q].os /\ tunnel'[q].of = tunnel[q].of
                            /\ tunnel'[q].handle = tunnel[q].handle,
         RowSafe, ListenerKnows(p)'
  PROVE  Orderly'
<1>1. ExitTask(p) \in Tasks /\ ExitTask(p) # Nobody
  BY TasksDiffer DEF ExitTask, Nobody
<1>2. PICK u \in {Nobody, ExitTask(p)} : /\ InOrder' /\ Moved(ExitTask(p), u)
                                         /\ e.step # "no" <=> u = ExitTask(p)
  BY <1>1, HeadServed
<1>3. \A q \in Tunnels : ExitTask(p) # OpenTask(q)
  BY DEF ExitTask, OpenTask
<1>4. (\A q \in Tunnels : Goes(q, ExitTask(p), u)) /\ NoneBorn
  BY <1>3 DEF Goes, NoneBorn, Born
<1> QED BY <1>1, <1>2, <1>4, ListenerActs

LEMMA DiesActs ==
  ASSUME Orderly, Inv', NEW p \in Tunnels, Dies(p)
  PROVE  Orderly'
<1>1. tunnel \in [Tunnels -> Processes] /\ exit \in [Tunnels -> ExitSteps_]
  BY DEF Orderly, Inv, Typed
<1>2. tunnel[p].os \in {"live", "told"} /\ exit[p].step = "no"
  BY DEF Dies, Alive, Orderly, Inv, Followed
<1>3. UNCHANGED <<row, opener, request, reopens, closer, sweep, shutdown>>
  BY DEF Dies
<1>4. /\ \A q \in Tunnels : q # p => tunnel'[q] = tunnel[q]
      /\ tunnel'[p].os = "dead" /\ tunnel'[p].of = tunnel[p].of
  <2> DEFINE v == tunnel[p]
             w == [v EXCEPT !.os = "dead", !.handle = FALSE]
  <2>1. tunnel' = [tunnel EXCEPT ![p] = w] /\ v \in Processes
    BY <1>1 DEF Dies
  <2> HIDE DEF v
  <2>2. w.os = "dead" /\ w.of = v.of
    BY <2>1 DEF Processes
  <2> HIDE DEF w
  <2> QED BY <1>1, <2>1, <2>2 DEF v
<1>5. ExitTask(p) \in Tasks /\ ~Queues(ExitTask(p)) /\ ExitTask(p) # Nobody
  BY <1>2, TasksDiffer DEF Orderly, Aware, Served, ExitTask, Nobody
<1>6. \A q \in Tunnels : Nobody # OpenTask(q)
  BY DEF OpenTask, Nobody
<1>7. ASSUME NEW u  PROVE (\A q \in Tunnels : Goes(q, Nobody, u)) /\ NoneBorn
  BY <1>2, <1>3, <1>4, <1>6 DEF Goes, NoneBorn, Born
<1>8. RowSafe
  BY <1>3, RowsStay
<1>9. PICK e \in ExitSteps_, u \in {Nobody, ExitTask(p)} :
        /\ exit' = [exit EXCEPT ![p] = e] /\ e.step # "record"
        /\ e.step # "no" <=> u = ExitTask(p)
        /\ InOrder' /\ Moved(Nobody, u)
  <2>1. CASE tunnel[p].handle
    <3> DEFINE e == [NoExit EXCEPT !.step = "finish"]
    <3>1. e \in ExitSteps_ /\ e.step = "finish"
      BY DEF NoExit, ExitSteps_, Desires
    <3>2. exit' = [exit EXCEPT ![p] = e] /\ Starts(ExitTask(p))
      BY <2>1 DEF Dies, ExitTask
    <3>3. InOrder' /\ Moved(Nobody, ExitTask(p))
      BY <1>5, <3>2, LaterServed
    <3> HIDE DEF e
    <3> QED BY <3>1, <3>2, <3>3
  <2>2. CASE ~tunnel[p].handle
    <3>1. UNCHANGED <<exit, queue>>
      BY <2>2 DEF Dies
    <3>2. exit' = [exit EXCEPT ![p] = exit[p]] /\ exit[p] \in ExitSteps_
      BY <1>1, <3>1
    <3>3. InOrder' /\ Moved(Nobody, Nobody)
      BY <3>1, StaysMoves DEF Orderly, Aware, Served
    <3> QED BY <1>2, <1>5, <3>2, <3>3
  <2> QED BY <2>1, <2>2
<1>10. exit'[p].step # "record"
  BY <1>1, <1>9
<1>11. ListenerKnows(p)'
  BY <1>10 DEF ListenerKnows
<1> QED BY <1>2, <1>3, <1>5, <1>7, <1>8, <1>9, <1>11, ListenerActs

LEMMA ExitFinishActs ==
  ASSUME Orderly, Inv', NEW p \in Tunnels, ExitFinish(p)
  PROVE  Orderly'
<1>1. /\ tunnel \in [Tunnels -> Processes] /\ exit \in [Tunnels -> ExitSteps_]
      /\ opener \in [Tunnels -> Openers] /\ reopens \subseteq Hublots
  BY DEF Orderly, Inv, Typed, Aware, Shaped
<1>2. Turn(ExitTask(p)) /\ exit[p].step = "finish"
        /\ UNCHANGED <<row, request, reopens, closer, sweep, shutdown>>
  BY DEF ExitFinish, ExitStep, ExitTask, ExitFrame
<1>3. /\ \A q \in Tunnels : q # p => tunnel'[q] = tunnel[q]
      /\ tunnel'[p].os = tunnel[p].os /\ tunnel'[p].of = tunnel[p].of
      /\ tunnel'[p].handle = tunnel[p].handle
  <2> DEFINE v == tunnel[p]
             w == [v EXCEPT !.rec = "ended"]
  <2>1. tunnel' = [tunnel EXCEPT ![p] = w] /\ v \in Processes
    BY <1>1 DEF ExitFinish
  <2> HIDE DEF v
  <2>2. w.os = v.os /\ w.of = v.of /\ w.handle = v.handle
    BY <2>1 DEF Processes
  <2> HIDE DEF w
  <2> QED BY <1>1, <2>1, <2>2 DEF v
<1>4. ExitTask(p) \in Tasks /\ OpenTask(p) \in Tasks /\ ExitTask(p) # Nobody /\ OpenTask(p) # Nobody
        /\ tunnel[p].os = "dead"
  BY <1>2, TasksDiffer DEF ExitTask, OpenTask, Nobody, Orderly, Inv, Followed
<1> DEFINE x == exit[p]
<1>5. x \in ExitSteps_
  BY <1>1
<1>6. \A step \in {"no", "look"} : [x EXCEPT !.step = step] \in ExitSteps_ /\ [x EXCEPT !.step = step].step = step
  <2> HIDE DEF x
  <2> QED BY <1>5 DEF ExitSteps_
<1>7. CASE opener[p] \notin {"url", "confirm", "poll"}
  <2>1. /\ exit' = [exit EXCEPT ![p] = [x EXCEPT !.step = "look"]]
        /\ opener' = opener /\ Awaits(ExitTask(p))
    BY <1>1, <1>7 DEF ExitFinish, ExitTask
  <2>2. PICK e \in ExitSteps_ : exit' = [exit EXCEPT ![p] = e] /\ e.step = "look"
    <3> HIDE DEF x
    <3> QED BY <1>6, <2>1
  <2>3. exit'[p].step # "record"
    BY <1>1, <2>2
  <2>4. RowSafe
    BY <1>2, <2>1, RowsStay
  <2>5. ListenerKnows(p)'
    BY <2>3 DEF ListenerKnows
  <2>6. \A q \in Tunnels : /\ tunnel'[q].os = tunnel[q].os /\ tunnel'[q].of = tunnel[q].of
                           /\ tunnel'[q].handle = tunnel[q].handle
    BY <1>3
  <2> QED BY <1>2, <2>1, <2>2, <2>4, <2>5, <2>6, ListenerMovesOn
<1>8. CASE opener[p] \in {"url", "confirm", "poll"}
  <2>1. /\ exit' = [exit EXCEPT ![p] = [x EXCEPT !.step = "no"]]
        /\ opener' = [opener EXCEPT ![p] = "fail"]
        /\ IF opener[p] = "confirm" THEN Ends ELSE Awaits(OpenTask(p))
    BY <1>1, <1>8 DEF ExitFinish, OpenTask
  <2>2. exit'[p].step = "no" /\ \A q \in Tunnels : q # p => exit'[q] = exit[q]
    <3>1. exit'[p] = [x EXCEPT !.step = "no"] /\ \A q \in Tunnels : q # p => exit'[q] = exit[q]
      BY <1>1, <2>1
    <3> HIDE DEF x
    <3> QED BY <1>6, <3>1
  <2>3. opener'[p] = "fail" /\ \A q \in Tunnels : q # p => opener'[q] = opener[q]
    BY <1>1, <2>1
  <2>4. opener[p] # "confirm" => ~Queues(OpenTask(p))
    BY <1>8 DEF Orderly, Aware, Served, OpenWaits
  <2>5. PICK u \in {Nobody, OpenTask(p)} : /\ InOrder' /\ Moved(ExitTask(p), u)
                                           /\ u = OpenTask(p) <=> opener[p] # "confirm"
    BY <1>2, <1>4, <2>1, <2>4, HeadServed
  <2>6. /\ \A k \in Hublots : /\ ExitTask(p) # RequestTask(k) /\ u # RequestTask(k)
                              /\ ExitTask(p) # CloseTask(k) /\ u # CloseTask(k)
        /\ \A q \in Tunnels : /\ ExitTask(p) # OpenTask(q) /\ u # ExitTask(q)
                              /\ q # p => ExitTask(p) # ExitTask(q) /\ u # OpenTask(q)
        /\ ExitTask(p) # SweepTask /\ u # SweepTask /\ ExitTask(p) # ShutdownTask /\ u # ShutdownTask
    BY DEF RequestTask, CloseTask, OpenTask, ExitTask, SweepTask, ShutdownTask, Nobody
  <2>7. Serves(ExitTask(p), u)
    BY <1>2, <1>8, <2>2, <2>3, <2>5, <2>6 DEF Serves, OpenWaits
  <2>8. (\A q \in Tunnels : Goes(q, ExitTask(p), u)) /\ NoneBorn
    BY <1>3, <1>4, <2>3, <2>6 DEF Goes, NoneBorn, Born
  <2>9. RowSafe
    <3>1. \A q \in Tunnels : opener'[q] = "done" => opener[q] = "done"
      BY <2>3
    <3> QED BY <1>2, <3>1, RowsStay
  <2>10. ListenerKnows(p)'
    BY <2>2 DEF ListenerKnows
  <2>11. Shaped'
    BY <1>2 DEF Orderly, Aware, Shaped
  <2>12. \A q \in Tunnels : (exit'[q] = exit[q] /\ ExitTask(p) # ExitTask(q)) \/ ListenerKnows(q)'
    BY <2>2, <2>6, <2>10
  <2> QED BY <1>2, <2>5, <2>6, <2>7, <2>8, <2>9, <2>11, <2>12, Combines
<1> QED BY <1>7, <1>8

\* The latest recorded tunnel of a hublot has exited: those that live have not
\* written their rows, or outlived a server.
LEMMA LatestKnows ==
  ASSUME Orderly, NEW p \in Tunnels, tunnel[p].os = "dead", IsLatest(p, Recorded(tunnel[p].of)),
         NEW q \in Tunnels, Lives(q, tunnel[p].of)
  PROVE  opener[q] \in {"spawned", "persist", "outlived"}
<1>1. Followed(tunnel[q], opener[q], exit[q])
  BY DEF Orderly, Inv
<1>2. CASE q \in Recorded(tunnel[p].of)
  <2>1. q < p
    BY <1>2 DEF IsLatest, Lives, Tunnels
  <2> QED BY <2>1 DEF Orderly, Aware, OlderGone, Born
<1>3. CASE q \notin Recorded(tunnel[p].of)
  <2>1. tunnel[q].rec = "none"
    BY <1>3 DEF Recorded, Of, Lives
  <2> QED BY <1>1, <2>1 DEF Followed, Lives
<1> QED BY <1>2, <1>3

LEMMA ExitsKeep ==
  ASSUME Orderly, NEW p \in Tunnels, ExitSteps(p) \/ Dies(p), Inv'
  PROVE  Orderly'
<1>1. CASE Dies(p)
  BY <1>1, DiesActs
<1>2. CASE ExitFinish(p)
  BY <1>2, ExitFinishActs
<1>3. ASSUME ExitLook(p) \/ ExitList(p) \/ ExitRecord(p)
      PROVE  Orderly'
  <2>h. PICK h : h = tunnel[p].of
    OBVIOUS
  <2>1. exit \in [Tunnels -> ExitSteps_] /\ exit[p] \in ExitSteps_ /\ NoExit \in ExitSteps_ /\ NoExit.step = "no"
    BY DEF Orderly, Inv, Typed, NoExit, ExitSteps_, Desires
  <2>2. /\ Turn(ExitTask(p)) /\ exit[p].step # "no"
        /\ UNCHANGED <<tunnel, opener, request, reopens, closer, sweep, shutdown>>
    BY <1>3 DEF ExitLook, ExitList, ExitRecord, ExitStep, ExitTask, ExitFrame
  <2>3. tunnel[p].os = "dead" /\ h \in Hublots
    BY <2>2, <2>h DEF Orderly, Inv, Followed
  <2>4. PICK e \in ExitSteps_ :
          /\ exit' = [exit EXCEPT ![p] = e]
          /\ (e.step # "no" /\ Awaits(ExitTask(p))) \/ (e.step = "no" /\ Ends)
          /\ e.step = "record" => IsLatest(p, Recorded(h))
    <3>1. CASE ExitLook(p)
      <4>1. CASE exit' = [exit EXCEPT ![p] = NoExit] /\ Ends
        BY <2>1, <4>1
      <4>2. CASE /\ exit' = [exit EXCEPT ![p] = [step |-> "list", desired |-> row[h].desired]]
                 /\ Awaits(ExitTask(p))
        <5> DEFINE e == [step |-> "list", desired |-> row[h].desired]
        <5>1. row[h].desired \in Desires
          BY <2>3 DEF Orderly, Inv, Typed, Rows
        <5>2. e \in ExitSteps_ /\ e.step = "list"
          BY <5>1 DEF ExitSteps_
        <5> HIDE DEF e
        <5> QED BY <4>2, <5>2 DEF e
      <4> QED BY <2>h, <3>1, <4>1, <4>2 DEF ExitLook, ExitTask
    <3>2. CASE ExitList(p)
      <4> DEFINE x == exit[p]
                 e == [x EXCEPT !.step = "record"]
      <4>1. e \in ExitSteps_ /\ e.step = "record"
        <5>1. x \in ExitSteps_
          BY <2>1
        <5> HIDE DEF x
        <5> QED BY <5>1 DEF ExitSteps_
      <4>2. \/ exit' = [exit EXCEPT ![p] = NoExit] /\ Ends
            \/ exit' = [exit EXCEPT ![p] = e] /\ Awaits(ExitTask(p)) /\ IsLatest(p, Recorded(h))
        BY <2>1, <2>h, <3>2 DEF ExitList, ExitTask
      <4> HIDE DEF e
      <4> QED BY <2>1, <4>1, <4>2
    <3>3. CASE ExitRecord(p)
      BY <2>1, <3>3 DEF ExitRecord
    <3> QED BY <1>3, <3>1, <3>2, <3>3
  <2>5. ListenerKnows(p)'
    <3> SUFFICES ASSUME exit'[p].step = "record", NEW q \in Tunnels, Lives(q, h)
                 PROVE  opener[q] \in {"spawned", "persist", "outlived"}
      BY <2>2, <2>h DEF ListenerKnows, Lives, Early
    <3>1. IsLatest(p, Recorded(tunnel[p].of))
      BY <2>1, <2>4, <2>h
    <3> QED BY <2>3, <2>h, <3>1, LatestKnows
  <2>6. RowSafe
    <3>1. CASE UNCHANGED row
      BY <2>2, <3>1, RowsStay
    <3>2. CASE ExitRecord(p)
      <4>1. PICK status \in {"closed", "interrupted"} : Transition(h, status, exit[p].desired, NoTunnel)
        BY <2>h, <3>2 DEF ExitRecord
      <4>2. exit[p].step = "record"
        BY <3>2 DEF ExitRecord, ExitStep
      <4>3. ASSUME NEW q \in Tunnels, Lives(q, h)'  PROVE opener'[q] # "done"
        <5>1. Lives(q, h)
          BY <2>2, <4>3 DEF Lives
        <5>2. Early(q, ExitTask(p))
          BY <2>h, <4>2, <5>1 DEF Orderly, Aware, ListenerKnows
        <5> QED BY <2>2, <5>2 DEF Early
      <4> QED BY <2>2, <4>1, <4>3, RowsSafe DEF RowStatuses
    <3> QED BY <1>3, <3>1, <3>2 DEF ExitLook, ExitList
  <2>7. \A q \in Tunnels : /\ tunnel'[q].os = tunnel[q].os /\ tunnel'[q].of = tunnel[q].of
                           /\ tunnel'[q].handle = tunnel[q].handle
    BY <2>2
  <2> QED BY <2>2, <2>4, <2>5, <2>6, <2>7, ListenerMovesOn
<1> QED BY <1>1, <1>2, <1>3 DEF ExitSteps

-----------------------------------------------------------------------------
(* DELETEs, and requests that begin *)

LEMMA CloserMovesOn ==
  ASSUME Orderly, Inv', NEW h \in Hublots, NEW from \in CloserNames \ {"no"}, NEW to \in CloserNames,
         CloseStep(h, from, to), RowSafe,
         (\A p \in Tunnels : \A u : Goes(p, CloseTask(h), u)) /\ NoneBorn,
         CloserKnows(h)'
  PROVE  Orderly'
<1>1. /\ Turn(CloseTask(h)) /\ closer[h] = from /\ CloseTask(h) \in Tasks /\ CloseTask(h) # Nobody
      /\ to = "no" => Ends
      /\ to # "no" => Awaits(CloseTask(h))
  BY TasksDiffer DEF CloseStep, CloseTask, Nobody
<1>2. PICK u \in {Nobody, CloseTask(h)} : /\ InOrder' /\ Moved(CloseTask(h), u)
                                          /\ to # "no" <=> u = CloseTask(h)
  BY <1>1, HeadServed
<1> QED BY <1>1, <1>2, CloserActs DEF CloseStep

\* When nobody of h has a handle, those that live have not written their rows.
LEMMA NobodyHandled ==
  ASSUME Orderly, NEW h \in Hublots, Handled(h) = {}, NEW p \in Tunnels, Lives(p, h)
  PROVE  opener[p] \in {"spawned", "persist", "outlived"}
<1>1. Followed(tunnel[p], opener[p], exit[p]) /\ OpenerFits(p) /\ opener[p] \in Openers
  BY DEF Orderly, Inv, Typed, Aware
<1>2. CASE tunnel[p].rec = "none"
  BY <1>1, <1>2 DEF Followed, Lives
<1>3. CASE tunnel[p].rec # "none"
  <2>1. ~tunnel[p].handle
    BY <1>3 DEF Handled, Recorded, Of, Lives
  <2> QED BY <1>1, <2>1 DEF OpenerFits, Lives, Openers
<1> QED BY <1>2, <1>3

LEMMA ClosersKeep ==
  ASSUME Orderly, NEW h \in Hublots, CloseSteps(h), Inv'
  PROVE  Orderly'
<1>0. \A p \in Tunnels : CloseTask(h) # OpenTask(p)
  BY DEF CloseTask, OpenTask
<1>1. UNCHANGED <<opener, shutdown>>
  BY DEF CloseSteps, CloseFind, CloseMark, CloseKill, CloseEnd, CloseStep
<1>2. \A from, to : CloseStep(h, from, to) => closer'[h] = to /\ closer[h] = from
  BY DEF CloseStep, Orderly, Aware, Shaped
<1>3. UNCHANGED tunnel => (\A p \in Tunnels : \A u : Goes(p, CloseTask(h), u)) /\ NoneBorn
  BY <1>0, <1>1, OpenersStand
<1>4. CASE CloseFind(h)
  <2>1. PICK to \in {"no", "mark"} : CloseStep(h, "find", to) /\ UNCHANGED <<row, tunnel>>
    BY <1>4 DEF CloseFind
  <2>2. RowSafe
    BY <1>1, <2>1, RowsStay
  <2>3. CloserKnows(h)'
    BY <1>2, <2>1 DEF CloserKnows
  <2> QED BY <1>3, <2>1, <2>2, <2>3, CloserMovesOn DEF CloserNames
<1>5. CASE CloseMark(h)
  <2>1. PICK to \in {"no", "kill"} : CloseStep(h, "mark", to) /\ UNCHANGED tunnel
                                     /\ Transition(h, "closing", "closed", NoTunnel)
    BY <1>5 DEF CloseMark
  <2>2. RowSafe
    BY <1>1, <2>1, RowsSafe DEF RowStatuses
  <2>3. CloserKnows(h)'
    BY <1>2, <2>1 DEF CloserKnows
  <2> QED BY <1>3, <2>1, <2>2, <2>3, CloserMovesOn DEF CloserNames
<1>6. CASE CloseKill(h)
  <2>1. PICK to \in {"no", "close"} :
          /\ CloseStep(h, "kill", to) /\ UNCHANGED row
          /\ tunnel' = Told(Handled(h))
          /\ to = "close" => Handled(h) = {}
    BY <1>6 DEF CloseKill
  <2>2. RowSafe
    BY <1>1, <2>1, RowsStay
  <2>3. (\A p \in Tunnels : \A u : Goes(p, CloseTask(h), u)) /\ NoneBorn
    BY <1>0, <1>1, <2>1, ToldGoes DEF Orderly
  <2>4. CloserKnows(h)'
    <3> SUFFICES ASSUME closer'[h] = "close", NEW p \in Tunnels, Lives(p, h)'
                 PROVE  opener[p] \in {"spawned", "persist", "outlived"}
      BY <1>1 DEF CloserKnows, Early
    <3>1. Handled(h) = {}
      BY <1>2, <2>1
    <3>2. Born(p)
      BY <2>3 DEF NoneBorn, Lives
    <3>3. Lives(p, h)
      BY <2>3, <3>2, LivedBefore
    <3> QED BY <3>1, <3>3, NobodyHandled
  <2> QED BY <2>1, <2>2, <2>3, <2>4, CloserMovesOn DEF CloserNames
<1>7. CASE CloseEnd(h)
  <2>1. CloseStep(h, "close", "no") /\ UNCHANGED tunnel
                                     /\ Transition(h, "closed", "closed", NoTunnel)
    BY <1>7 DEF CloseEnd
  <2>2. ASSUME NEW p \in Tunnels, Lives(p, h)'  PROVE opener'[p] # "done"
    <3>1. Lives(p, h)
      BY <2>1, <2>2 DEF Lives
    <3>2. Early(p, CloseTask(h))
      BY <1>2, <2>1, <3>1 DEF Orderly, Aware, CloserKnows
    <3> QED BY <1>1, <3>2 DEF Early
  <2>3. RowSafe
    BY <1>1, <2>1, <2>2, RowsSafe DEF RowStatuses
  <2>4. CloserKnows(h)'
    BY <1>2, <2>1 DEF CloserKnows
  <2> QED BY <1>3, <2>1, <2>3, <2>4, CloserMovesOn DEF CloserNames
<1> QED BY <1>4, <1>5, <1>6, <1>7 DEF CloseSteps

LEMMA AsksKeep ==
  ASSUME Orderly, NEW h \in Hublots, Post(h) \/ Reopen(h) \/ Delete(h), Inv'
  PROVE  Orderly'
<1>0. /\ \A p \in Tunnels : Nobody # OpenTask(p)
      /\ RequestTask(h) # Nobody /\ CloseTask(h) # Nobody
      /\ RequestTask(h) \in Tasks /\ CloseTask(h) \in Tasks
      /\ \A p \in Tunnels : OpenTask(p) \in Tasks /\ OpenTask(p) # RequestTask(h)
  BY TasksDiffer DEF OpenTask, RequestTask, CloseTask, Nobody
<1>1. UNCHANGED <<row, tunnel, opener, exit, sweep, shutdown>>
  BY DEF Post, Reopen, Delete, Ask
<1>2. (\A p \in Tunnels : \A u : Goes(p, Nobody, u)) /\ NoneBorn
  BY <1>0, <1>1, OpenersStand
<1>3. RowSafe
  BY <1>1, RowsStay
<1>4. CASE Delete(h)
  <2>1. closer[h] = "no" /\ closer' = [closer EXCEPT ![h] = "find"] /\ Starts(CloseTask(h))
          /\ UNCHANGED <<request, reopens>>
    BY <1>4 DEF Delete, CloseTask
  <2>2. ~Queues(CloseTask(h)) /\ closer'[h] = "find"
    BY <2>1 DEF Orderly, Aware, Served, Shaped
  <2>3. InOrder' /\ Moved(Nobody, CloseTask(h))
    BY <1>0, <2>1, <2>2, LaterServed
  <2>4. CloserKnows(h)'
    BY <2>2 DEF CloserKnows
  <2> QED BY <1>0, <1>1, <1>2, <1>3, <2>1, <2>3, <2>4, CloserActs DEF CloserNames
<1>5. CASE Post(h) \/ Reopen(h)
  <2>1. PICK n \in {"reserve", "reopen"} :
          /\ request[h] = "no" /\ request' = [request EXCEPT ![h] = n] /\ Starts(RequestTask(h))
          /\ closer' = closer /\ reopens' \in {reopens, reopens \cup {h}}
          /\ n = "reserve" <=> row[h].status = "absent"
    BY <1>5 DEF Post, Reopen, Ask, RequestTask
  <2>2. ~Queues(RequestTask(h)) /\ request'[h] = n /\ reopens' \subseteq Hublots /\ RequestKnows(h)
    BY <2>1 DEF Orderly, Aware, Served, Shaped
  <2>3. InOrder' /\ Moved(Nobody, RequestTask(h))
    BY <1>0, <2>1, <2>2, LaterServed
  <2>4. ASSUME NEW p \in Tunnels, opener'[p] = "spawned"
        PROVE  Ahead(OpenTask(p), RequestTask(h))'
    <3>1. Queues(OpenTask(p))
      BY <1>1, <2>4 DEF Orderly, Aware, Served, OpenWaits
    <3> QED BY <1>0, <2>3, <3>1 DEF Moved
  <2>5. RequestKnows(h)'
    BY <1>1, <2>1, <2>2, <2>4 DEF RequestKnows, Born, Lives
  <2> QED BY <1>0, <1>1, <1>2, <1>3, <2>1, <2>2, <2>3, <2>5, RequestActs DEF RequestNames
<1> QED BY <1>4, <1>5

-----------------------------------------------------------------------------
(* The supervisor *)

\* The supervisor is served, and its sweep goes on or ends.
LEMMA SweepMovesOn ==
  ASSUME Orderly, Inv', Turn(SweepTask), sweep.step # "no",
         (sweep'.step # "no" /\ Awaits(SweepTask)) \/ (sweep'.step = "no" /\ Ends),
         UNCHANGED <<request, reopens, closer, opener, exit, shutdown>>,
         \A p \in Tunnels : /\ tunnel'[p].os = tunnel[p].os /\ tunnel'[p].of = tunnel[p].of
                            /\ tunnel'[p].handle = tunnel[p].handle,
         RowSafe, Moved(SweepTask, SweepTask) \/ sweep'.step = "no" => SweepKnows'
  PROVE  Orderly'
<1>1. SweepTask \in Tasks /\ SweepTask # Nobody /\ SweepTask # ShutdownTask /\ Nobody # ShutdownTask
  BY TasksDiffer DEF SweepTask, ShutdownTask, Nobody
<1>2. PICK u \in {Nobody, SweepTask} : /\ InOrder' /\ Moved(SweepTask, u)
                                       /\ sweep'.step # "no" <=> u = SweepTask
  BY <1>1, HeadServed
<1>3. \A q \in Tunnels : SweepTask # OpenTask(q)
  BY DEF SweepTask, OpenTask
<1>4. (\A q \in Tunnels : Goes(q, SweepTask, u)) /\ NoneBorn
  BY <1>3 DEF Goes, NoneBorn, Born
<1>5. SweepKnows'
  BY <1>2
<1> QED BY <1>1, <1>2, <1>4, <1>5, LookerActs

LEMMA GoesOnTo ==
  ASSUME NEW new \in Sweeps, SweepGoesOn(new)
  PROVE  \/ sweep'.step = "procs" /\ Awaits(SweepTask)
         \/ sweep'.step = "no" /\ Ends
<1>1. CASE new.todo = {}
  <2>1. NoSweep.step = "no"
    BY DEF NoSweep
  <2> QED BY <1>1, <2>1 DEF SweepGoesOn
<1>2. CASE new.todo # {}
  BY <1>2 DEF SweepGoesOn, Sweeps, SweepTask
<1> QED BY <1>1, <1>2

LEMMA SweepFields ==
  ASSUME NEW s \in Sweeps, NEW step, NEW lost, NEW healthy
  PROVE  /\ [s EXCEPT !.step = step, !.lost = lost, !.healthy = healthy].step = step
         /\ [s EXCEPT !.step = step, !.lost = lost, !.healthy = healthy].healthy = healthy
         /\ [s EXCEPT !.step = step, !.lost = lost, !.healthy = healthy].todo = s.todo
         /\ [s EXCEPT !.step = step].step = step
         /\ [s EXCEPT !.step = step].todo = s.todo
BY DEF Sweeps

LEMMA SweepsKeep ==
  ASSUME Orderly, SweepSteps, Inv'
  PROVE  Orderly'
<1>1. /\ Turn(SweepTask) /\ sweep.step \in {"list", "procs", "find", "close"}
      /\ UNCHANGED <<opener, exit, request, reopens, closer, shutdown>>
  BY DEF SweepSteps, SweepList, SweepProcs, SweepFind, SweepClose, SweepStep, SweepTask
<1>2. sweep \in Sweeps /\ row \in [Hublots -> Rows]
  BY DEF Orderly, Inv, Typed
<1>3. SweepKnows
  BY DEF Orderly, Aware
<1>4. UNCHANGED row => RowSafe
  BY <1>1, RowsStay
<1>6. sweep'.step \in {"procs", "no"} => SweepKnows'
  BY DEF SweepKnows
<1>7. CASE SweepList
  <2> DEFINE todo == {h \in Hublots : /\ row[h].desired = "open"
                                      /\ row[h].status \notin {"closing", "closed"}
                                      /\ InScope(h)}
             seen == [h \in Hublots |-> row[h].status]
             new == [sweep EXCEPT !.todo = todo, !.seen = seen]
  <2>1. todo \in SUBSET Hublots /\ seen \in [Hublots -> RowStatuses]
    BY <1>2 DEF Rows
  <2>2. SweepGoesOn(new) /\ UNCHANGED <<row, tunnel>>
    BY <1>7 DEF SweepList
  <2> HIDE DEF todo, seen
  <2>3. new \in Sweeps
    BY <1>2, <2>1 DEF Sweeps
  <2> HIDE DEF new
  <2>4. \/ sweep'.step = "procs" /\ Awaits(SweepTask)
        \/ sweep'.step = "no" /\ Ends
    BY <2>2, <2>3, GoesOnTo
  <2> QED BY <1>1, <1>4, <1>6, <2>2, <2>4, SweepMovesOn
<1>8. CASE SweepProcs
  <2> DEFINE lost == {p \in Current(Subject) : ~Alive(p)}
             healthy == \E p \in Current(Subject) : Alive(p)
  <2>1. /\ sweep' = [sweep EXCEPT !.step = "find", !.lost = lost, !.healthy = healthy]
        /\ Awaits(SweepTask) /\ UNCHANGED <<row, tunnel>>
    BY <1>8 DEF SweepProcs, SweepAwaits, SweepTask
  <2>2. ASSUME ~healthy, NEW p \in Tunnels, Lives(p, Subject)
        PROVE  opener[p] \in {"spawned", "persist", "outlived"}
    <3>1. Followed(tunnel[p], opener[p], exit[p])
      BY DEF Orderly, Inv
    <3>2. tunnel[p].rec # "running"
      BY <2>2 DEF Current, Of, Lives, Alive
    <3> QED BY <2>2, <3>1, <3>2 DEF Followed, Lives
  <2> HIDE DEF lost, healthy
  <2>3. sweep'.step = "find" /\ sweep'.healthy = healthy /\ sweep'.todo = sweep.todo
    BY <1>2, <2>1, SweepFields
  <2>4. Subject' = Subject
    BY <2>3 DEF Subject
  <2>5. SweepKnows'
    BY <1>1, <2>1, <2>2, <2>3, <2>4 DEF SweepKnows, Lives, Early
  <2> QED BY <1>1, <1>4, <2>1, <2>3, <2>5, SweepMovesOn
<1>n. Next1 \in Sweeps
  BY <1>2 DEF Next1, Sweeps
<1>9. CASE SweepFind
  <2>1. /\ sweep.step = "find" /\ UNCHANGED row
        /\ tunnel' = [p \in Tunnels |-> IF p \in sweep.lost THEN [tunnel[p] EXCEPT !.rec = "ended"]
                                                            ELSE tunnel[p]]
    BY <1>9 DEF SweepFind, SweepStep
  <2>2. ASSUME NEW p \in Tunnels
        PROVE  /\ tunnel'[p].os = tunnel[p].os /\ tunnel'[p].of = tunnel[p].of
               /\ tunnel'[p].handle = tunnel[p].handle
    <3> DEFINE t == tunnel[p]
    <3>1. t \in Processes /\ (tunnel'[p] = t \/ tunnel'[p] = [t EXCEPT !.rec = "ended"])
      BY <2>1 DEF Orderly, Inv, Typed
    <3>2. t.os = tunnel[p].os /\ t.of = tunnel[p].of /\ t.handle = tunnel[p].handle
      OBVIOUS
    <3> HIDE DEF t
    <3> QED BY <3>1, <3>2 DEF Processes
  <2>3. CASE ~Unattended
    <3>1. SweepGoesOn(Next1)
      BY <1>9, <2>3 DEF SweepFind
    <3> HIDE DEF Next1
    <3>2. \/ sweep'.step = "procs" /\ Awaits(SweepTask)
          \/ sweep'.step = "no" /\ Ends
      BY <1>n, <3>1, GoesOnTo
    <3> QED BY <1>1, <1>4, <1>6, <2>1, <2>2, <3>2, SweepMovesOn
  <2>4. CASE Unattended
    <3>1. sweep' = [sweep EXCEPT !.step = "close"] /\ Awaits(SweepTask) /\ ~sweep.healthy
      BY <1>9, <2>4 DEF SweepFind, SweepAwaits, SweepTask, Unattended
    <3>2. sweep'.step = "close" /\ sweep'.todo = sweep.todo
      BY <1>2, <3>1, SweepFields
    <3>3. Subject' = Subject
      BY <3>2 DEF Subject
    <3>4. ASSUME NEW p \in Tunnels, Lives(p, Subject)'
          PROVE  opener'[p] \in {"spawned", "persist", "url", "confirm", "outlived"}
      <4>1. Lives(p, Subject)
        BY <2>2, <3>3, <3>4 DEF Lives
      <4>2. Early(p, SweepTask)
        BY <1>3, <2>1, <3>1, <4>1 DEF SweepKnows
      <4> QED BY <1>1, <4>2 DEF Early
    <3>5. SweepKnows'
      BY <3>2, <3>4 DEF SweepKnows, Early2
    <3> QED BY <1>1, <1>4, <2>1, <2>2, <3>1, <3>2, <3>5, SweepMovesOn
  <2> QED BY <2>3, <2>4
<1>10. CASE SweepClose
  <2>1. /\ sweep.step = "close" /\ UNCHANGED tunnel
        /\ Transition(Subject, "closed", "closed", NoTunnel) /\ SweepGoesOn(Next1)
    BY <1>10 DEF SweepClose, SweepStep
  <2> HIDE DEF Next1
  <2>2. \/ sweep'.step = "procs" /\ Awaits(SweepTask)
        \/ sweep'.step = "no" /\ Ends
    BY <1>n, <2>1, GoesOnTo
  <2>h. PICK h : h = Subject
    OBVIOUS
  <2>3. ASSUME NEW p \in Tunnels, Lives(p, h)'
        PROVE  opener'[p] # "done"
    <3>1. Lives(p, Subject)
      BY <2>1, <2>h, <2>3 DEF Lives
    <3>2. Early2(p, SweepTask)
      BY <1>3, <2>1, <3>1 DEF SweepKnows
    <3> QED BY <1>1, <3>2 DEF Early2
  <2>4. RowSafe
    BY <1>1, <2>1, <2>3, <2>h, RowsSafe DEF RowStatuses
  <2> QED BY <1>1, <1>6, <2>1, <2>2, <2>4, SweepMovesOn
<1> QED BY <1>7, <1>8, <1>9, <1>10 DEF SweepSteps

\* The interval ticks.
LEMMA SweepTicks ==
  ASSUME Orderly, Sweep, Inv'
  PROVE  Orderly'
<1>1. /\ sweep.step = "no" /\ sweep' = [NoSweep EXCEPT !.step = "list"] /\ Starts(SweepTask)
      /\ UNCHANGED <<row, tunnel, opener, exit, request, reopens, closer, shutdown>>
  BY DEF Sweep, Reconciling, SweepTask
<1>2. ~Queues(SweepTask) /\ SweepTask \in Tasks /\ Nobody # SweepTask /\ Nobody # ShutdownTask
        /\ SweepTask # ShutdownTask
  BY <1>1, TasksDiffer DEF Orderly, Aware, Served, Nobody, SweepTask, ShutdownTask
<1>3. InOrder' /\ Moved(Nobody, SweepTask)
  BY <1>1, <1>2, LaterServed
<1>4. \A p \in Tunnels : Nobody # OpenTask(p)
  BY DEF Nobody, OpenTask
<1>5. (\A p \in Tunnels : Goes(p, Nobody, SweepTask)) /\ NoneBorn
  BY <1>1, <1>4, OpenersStand
<1>6. sweep'.step = "list"
  BY <1>1 DEF NoSweep
<1>7. SweepKnows'
  BY <1>6 DEF SweepKnows
<1>8. RowSafe
  BY <1>1, RowsStay
<1> QED BY <1>1, <1>2, <1>3, <1>5, <1>6, <1>7, <1>8, LookerActs

-----------------------------------------------------------------------------
(* Shutdown, crash and restart *)

LEMMA ShutdownFields ==
  ASSUME NEW s \in Shutdowns, NEW step, NEW remaining
  PROVE  /\ [s EXCEPT !.step = step].step = step
         /\ [s EXCEPT !.step = step, !.remaining = remaining].step = step
BY DEF Shutdowns

\* The shutdown is served: it goes on, or it ends.
LEMMA ShutdownMovesOn ==
  ASSUME Orderly, Inv', Turn(ShutdownTask), shutdown.step \in {"list", "mark", "settle"}, ShutdownFrame,
         \/ shutdown'.step = "mark" /\ Awaits(ShutdownTask)
         \/ shutdown'.step \in {"wait", "done"} /\ Ends,
         (\A p \in Tunnels : \A u : Goes(p, ShutdownTask, u)) /\ NoneBorn, RowSafe
  PROVE  Orderly'
<1>1. ShutdownTask \in Tasks /\ ShutdownTask # Nobody /\ SweepTask # ShutdownTask /\ Nobody # SweepTask
  BY TasksDiffer DEF SweepTask, ShutdownTask, Nobody
<1>2. PICK u \in {Nobody, ShutdownTask} : /\ InOrder' /\ Moved(ShutdownTask, u)
                                          /\ shutdown'.step \in {"list", "mark", "settle"}
                                               <=> u = ShutdownTask
  BY <1>1, HeadServed
<1> QED BY <1>1, <1>2, LookerActs DEF ShutdownFrame

LEMMA ShutdownGoes ==
  ASSUME Orderly, Inv', Turn(ShutdownTask), shutdown.step \in {"list", "mark"}, ShutdownFrame,
         NEW new \in Shutdowns, ShutdownGoesOn(new),
         UNCHANGED row \/ Transition(NextRow, "closing", "closed", NoTunnel)
  PROVE  Orderly'
<1>1. UNCHANGED opener
  BY DEF ShutdownFrame
<1>2. \A p \in Tunnels : ShutdownTask # OpenTask(p)
  BY DEF ShutdownTask, OpenTask
<1>3. (\A p \in Tunnels : \A u : Goes(p, ShutdownTask, u)) /\ NoneBorn
  <2>1. CASE tunnel' = Told(new.targets)
    <3> DEFINE S == new.targets
    <3>1. tunnel' = Told(S)
      BY <2>1
    <3> HIDE DEF S
    <3> QED BY <1>1, <1>2, <3>1, ToldGoes DEF Orderly
  <2>2. CASE UNCHANGED tunnel
    BY <1>1, <1>2, <2>2, OpenersStand
  <2> QED BY <2>1, <2>2 DEF ShutdownGoesOn
<1>4. \/ shutdown'.step = "mark" /\ Awaits(ShutdownTask)
      \/ shutdown'.step = "wait" /\ Ends
  <2>1. \A step : [new EXCEPT !.step = step].step = step
    BY ShutdownFields
  <2>2. CASE new.todo = {}
    <3>1. shutdown' = [new EXCEPT !.step = "wait"] /\ Ends
      BY <2>2 DEF ShutdownGoesOn
    <3> QED BY <2>1, <3>1
  <2>3. CASE new.todo # {}
    <3>1. shutdown' = [new EXCEPT !.step = "mark"] /\ Awaits(ShutdownTask)
      BY <2>3 DEF ShutdownGoesOn, ShutdownTask
    <3> QED BY <2>1, <3>1
  <2> QED BY <2>2, <2>3
<1>5. RowSafe
  <2>1. CASE UNCHANGED row
    BY <1>1, <1>4, <2>1, RowsStay
  <2>2. CASE Transition(NextRow, "closing", "closed", NoTunnel)
    <3>h. PICK h : h = NextRow
      OBVIOUS
    <3> QED BY <1>1, <1>4, <2>2, <3>h, RowsSafe DEF RowStatuses
  <2> QED BY <2>1, <2>2
<1> QED BY <1>3, <1>4, <1>5, ShutdownMovesOn

LEMMA ShutdownsKeep ==
  ASSUME Orderly, ShutdownSteps, Inv'
  PROVE  Orderly'
<1>1. Turn(ShutdownTask) /\ ShutdownFrame
  BY DEF ShutdownSteps, ShutdownList, ShutdownMark, ShutdownSettle, ShutdownStep, ShutdownTask
<1>2. shutdown \in Shutdowns /\ row \in [Hublots -> Rows] /\ tunnel \in [Tunnels -> Processes]
  BY DEF Orderly, Inv, Typed
<1>3. CASE ShutdownList
  <2> DEFINE todo == {h \in Hublots : row[h].desired = "open"}
             new == [shutdown EXCEPT !.todo = todo]
  <2>1. ShutdownGoesOn(new) /\ UNCHANGED row /\ shutdown.step = "list"
    BY <1>3 DEF ShutdownList, ShutdownStep
  <2>2. todo \in SUBSET Hublots
    OBVIOUS
  <2> HIDE DEF todo
  <2>3. new \in Shutdowns
    BY <1>2, <2>2 DEF Shutdowns
  <2> HIDE DEF new
  <2> QED BY <1>1, <2>1, <2>3, ShutdownGoes
<1>4. CASE ShutdownMark
  <2> DEFINE todo == shutdown.todo \ {NextRow}
             targets == shutdown.targets \cup {p \in Current(NextRow) : Alive(p)}
             new == [shutdown EXCEPT !.todo = todo, !.targets = targets]
  <2>1. ShutdownGoesOn(new) /\ Transition(NextRow, "closing", "closed", NoTunnel)
          /\ shutdown.step = "mark"
    BY <1>4 DEF ShutdownMark, ShutdownStep
  <2>2. todo \in SUBSET Hublots /\ targets \in SUBSET Tunnels
    BY <1>2 DEF Shutdowns, Current, Of
  <2> HIDE DEF todo, targets
  <2>3. new \in Shutdowns
    BY <1>2, <2>2 DEF Shutdowns
  <2> HIDE DEF new
  <2> QED BY <1>1, <2>1, <2>3, ShutdownGoes
<1>5. CASE ShutdownSettle
  <2> DEFINE stopped == shutdown.targets \ shutdown.remaining
  <2>1. /\ tunnel' = [p \in Tunnels |-> IF p \in stopped THEN [tunnel[p] EXCEPT !.rec = "ended"]
                                                         ELSE tunnel[p]]
        /\ shutdown' = [Serving EXCEPT !.step = "done"] /\ Ends
        /\ shutdown.step = "settle"
    BY <1>5 DEF ShutdownSettle, ShutdownStep
  <2> HIDE DEF stopped
  <2>2. shutdown'.step = "done"
    BY <2>1 DEF Serving
  <2>3. ASSUME NEW p \in Tunnels
        PROVE  /\ tunnel'[p].os = tunnel[p].os /\ tunnel'[p].of = tunnel[p].of
               /\ tunnel'[p].handle = tunnel[p].handle
    <3> DEFINE t == tunnel[p]
    <3>1. t \in Processes /\ (tunnel'[p] = t \/ tunnel'[p] = [t EXCEPT !.rec = "ended"])
      BY <1>2, <2>1
    <3>2. t.os = tunnel[p].os /\ t.of = tunnel[p].of /\ t.handle = tunnel[p].handle
      OBVIOUS
    <3> HIDE DEF t
    <3> QED BY <3>1, <3>2 DEF Processes
  <2>4. UNCHANGED opener
    BY <1>1 DEF ShutdownFrame
  <2>5. (\A p \in Tunnels : \A u : Goes(p, ShutdownTask, u)) /\ NoneBorn
    <3>1. \A p \in Tunnels : ShutdownTask # OpenTask(p)
      BY DEF ShutdownTask, OpenTask
    <3> QED BY <2>3, <2>4, <3>1 DEF Goes, NoneBorn, Born
  <2>6. ASSUME NEW h \in Hublots
        PROVE  row'[h].status = "absent" => row[h].status = "absent"
    <3>1. PICK s \in {"interrupted", "closed"} :
            row'[h] = IF row[h].status # "closing" THEN row[h] ELSE [row[h] EXCEPT !.status = s]
      BY <1>5 DEF ShutdownSettle
    <3> DEFINE r == row[h]
    <3>2. r \in Rows /\ row'[h] = IF r.status # "closing" THEN r ELSE [r EXCEPT !.status = s]
      BY <1>2, <3>1
    <3>3. r = row[h]
      OBVIOUS
    <3> HIDE DEF r
    <3>4. [r EXCEPT !.status = s].status = s
      BY <3>2 DEF Rows
    <3> QED BY <3>2, <3>3, <3>4
  <2>7. RowSafe
    BY <2>2, <2>4, <2>6 DEF RowSafe
  <2> QED BY <1>1, <2>1, <2>2, <2>5, <2>7, ShutdownMovesOn
<1> QED BY <1>3, <1>4, <1>5 DEF ShutdownSteps

\* A signal, and the end of the wait for the targets.
LEMMA ShutdownBegins ==
  ASSUME Orderly, Signal \/ ShutdownWaits, Inv'
  PROVE  Orderly'
<1>1. /\ shutdown.step \in {"no", "wait"} /\ shutdown'.step \in {"list", "settle"}
      /\ Starts(ShutdownTask) /\ UNCHANGED <<row, tunnel>> /\ ShutdownFrame
  <2>1. CASE Signal
    <3>1. [Serving EXCEPT !.step = "list"].step = "list"
      BY DEF Serving
    <3> QED BY <2>1, <3>1 DEF Signal, Accepting, ShutdownTask
  <2>2. CASE ShutdownWaits
    <3>1. shutdown \in Shutdowns
      BY DEF Orderly, Inv, Typed
    <3> QED BY <2>2, <3>1, ShutdownFields DEF ShutdownWaits, ShutdownTask
  <2> QED BY <2>1, <2>2
<1>2. ~Queues(ShutdownTask) /\ ShutdownTask \in Tasks /\ Nobody # SweepTask /\ Nobody # ShutdownTask
        /\ SweepTask # ShutdownTask
  BY <1>1, TasksDiffer DEF Orderly, Aware, Served, Nobody, SweepTask, ShutdownTask
<1>3. InOrder' /\ Moved(Nobody, ShutdownTask)
  BY <1>1, <1>2, LaterServed
<1>4. UNCHANGED <<request, reopens, closer, opener, exit, sweep>>
  BY <1>1 DEF ShutdownFrame
<1>5. \A p \in Tunnels : Nobody # OpenTask(p)
  BY DEF Nobody, OpenTask
<1>6. (\A p \in Tunnels : Goes(p, Nobody, ShutdownTask)) /\ NoneBorn
  BY <1>1, <1>4, <1>5, OpenersStand
<1>7. RowSafe
  BY <1>1, <1>4, RowsStay
<1> QED BY <1>1, <1>2, <1>3, <1>4, <1>6, <1>7, LookerActs

\* The next server starts with a reconciliation and nobody else.
LEMMA Alone ==
  ASSUME queue = <<SweepTask>>
  PROVE  /\ InOrder /\ Queues(SweepTask)
         /\ \A t \in Tasks : Queues(t) => t = SweepTask
<1>1. Len(queue) = 1 /\ queue[1] = SweepTask /\ SweepTask \in Tasks
  BY TasksDiffer
<1>2. queue \in Seq(Tasks)
  BY <1>1
<1>3. \A i \in 1..Len(queue) : i = 1
  BY <1>1
<1>4. Single
  BY <1>1, <1>3 DEF Single
<1>5. Queues(SweepTask)
  BY <1>1 DEF Queues
<1>6. \A t \in Tasks : Queues(t) => t = SweepTask
  BY <1>1, <1>3 DEF Queues
<1> QED BY <1>2, <1>4, <1>5, <1>6 DEF InOrder

Restarted ==
  /\ queue = <<SweepTask>> /\ sweep = FirstSweep /\ shutdown = Serving
  /\ request = [h \in Hublots |-> "no"] /\ closer = [h \in Hublots |-> "no"]
  /\ exit = [p \in Tunnels |-> NoExit] /\ reopens = {}
  /\ opener \in [Tunnels -> {"no", "outlived"}]
Idle ==
  /\ Served /\ Shaped /\ SweepKnows
  /\ \A h \in Hublots : request[h] = "no" /\ CloserKnows(h)
  /\ \A p \in Tunnels : ListenerKnows(p)

LEMMA OthersIdle == Restarted => Idle
<1> SUFFICES ASSUME Restarted  PROVE Idle
  OBVIOUS
<1>0. /\ queue = <<SweepTask>> /\ sweep = FirstSweep /\ shutdown = Serving
      /\ request = [h \in Hublots |-> "no"] /\ closer = [h \in Hublots |-> "no"]
      /\ exit = [p \in Tunnels |-> NoExit] /\ reopens = {}
      /\ opener \in [Tunnels -> {"no", "outlived"}]
  BY DEF Restarted
<1>1. sweep.step = "list" /\ shutdown.step = "no"
  BY <1>0 DEF FirstSweep, NoSweep, Serving
<1>2. \A p \in Tunnels : exit[p].step = "no" /\ ~OpenWaits(opener[p])
  BY <1>0 DEF NoExit, OpenWaits
<1>3. InOrder /\ Queues(SweepTask) /\ \A t \in Tasks : Queues(t) => t = SweepTask
  BY <1>0, Alone
<1>4. /\ \A h \in Hublots : RequestTask(h) # SweepTask /\ CloseTask(h) # SweepTask
      /\ \A p \in Tunnels : OpenTask(p) # SweepTask /\ ExitTask(p) # SweepTask
      /\ ShutdownTask # SweepTask
  BY DEF RequestTask, CloseTask, OpenTask, ExitTask, SweepTask, ShutdownTask
<1>5. Served
  BY <1>0, <1>1, <1>2, <1>3, <1>4, TasksDiffer DEF Served
<1>6. Shaped /\ SweepKnows
  BY <1>0, <1>1 DEF Shaped, SweepKnows, RequestNames, CloserNames
<1>7. \A h \in Hublots : request[h] = "no" /\ CloserKnows(h)
  BY <1>0 DEF CloserKnows
<1>8. \A p \in Tunnels : ListenerKnows(p)
  BY <1>2 DEF ListenerKnows
<1> QED BY <1>5, <1>6, <1>7, <1>8 DEF Idle

LEMMA OthersIdleNext == Restarted' => Idle'
BY OthersIdle, PTL

LEMMA ServerEndsActs ==
  ASSUME Orderly, NEW survivors \in Survivors, ServerEnds(survivors), Inv'
  PROVE  Orderly'
<1>1. /\ tunnel \in [Tunnels -> Processes]
      /\ survivors \subseteq Tunnels
  BY DEF Orderly, Inv, Typed, Survivors
<1>2. /\ opener' = [p \in Tunnels |-> IF p \in survivors THEN "outlived" ELSE "no"]
      /\ exit' = [p \in Tunnels |-> NoExit]
      /\ request' = [h \in Hublots |-> "no"] /\ reopens' = {}
      /\ closer' = [h \in Hublots |-> "no"]
      /\ sweep' = FirstSweep /\ shutdown' = Serving
      /\ queue' = <<SweepTask>> /\ UNCHANGED row
  BY DEF ServerEnds, SweepTask
<1>3. ASSUME NEW p \in Tunnels
      PROVE  /\ tunnel'[p].of = tunnel[p].of /\ tunnel'[p].handle = FALSE
             /\ tunnel'[p].os # "unborn" <=> Born(p)
             /\ tunnel'[p].os = "live" => tunnel[p].os = "live" /\ opener'[p] = "outlived"
  <2> DEFINE t == tunnel[p]
             no == FALSE
             os == IF t.os = "unborn" \/ p \in survivors THEN t.os ELSE "dead"
             u == [t EXCEPT !.handle = no, !.reopen = no, !.os = os]
  <2>1. t \in Processes /\ no = FALSE /\ t = tunnel[p]
    BY <1>1
  <2>2. /\ os = "unborn" <=> t.os = "unborn"
        /\ os = "live" => t.os = "live" /\ p \in survivors
    OBVIOUS
  <2>3. tunnel'[p] = u
    BY DEF ServerEnds
  <2> HIDE DEF t, no, os
  <2>4. u.of = t.of /\ u.handle = no /\ u.os = os
    BY <2>1 DEF Processes
  <2> HIDE DEF u
  <2> QED BY <1>2, <2>1, <2>2, <2>3, <2>4 DEF Born
<1>4. opener' \in [Tunnels -> {"no", "outlived"}]
  BY <1>2
<1>5. /\ Served' /\ Shaped' /\ SweepKnows'
      /\ \A h \in Hublots : request'[h] = "no" /\ CloserKnows(h)'
      /\ \A p \in Tunnels : ListenerKnows(p)'
  <2>1. Restarted'
    BY <1>2, <1>4 DEF Restarted
  <2> QED BY <2>1, OthersIdleNext DEF Idle
<1>6. BornInOrder' /\ OlderGone'
  <2>1. BornInOrder'
    BY <1>3 DEF Orderly, Aware, BornInOrder, Born
  <2>2. OlderGone'
    BY <1>3 DEF OlderGone, Lives
  <2> QED BY <2>1, <2>2
<1>7. \A p \in Tunnels : OpenerFits(p)'
  BY <1>3 DEF OpenerFits
<1>8. ASSUME NEW h \in Hublots
      PROVE  RequestKnows(h)'
  <2>1. RequestKnows(h) /\ request'[h] = "no" /\ row' = row
    BY <1>2, <1>5 DEF Orderly, Aware
  <2>2. \A p \in Tunnels : Born(p)' /\ tunnel'[p].of = h => Born(p) /\ tunnel[p].of = h
    BY <1>3 DEF Born
  <2> QED BY <2>1, <2>2 DEF RequestKnows
<1>9. ClosedIsStopped'
  BY <1>3 DEF ClosedIsStopped
<1> QED BY <1>5, <1>6, <1>7, <1>8, <1>9 DEF Orderly, Aware

-----------------------------------------------------------------------------
(* Whatever waits is served in order, and a closed hublot is stopped *)

LEMMA InitOrderly ==
  ASSUME Init
  PROVE  Orderly
<1>1. Inv
  BY InitKeeps
<1>2. /\ Served /\ Shaped /\ SweepKnows
      /\ \A h \in Hublots : request[h] = "no" /\ CloserKnows(h)
      /\ \A p \in Tunnels : ListenerKnows(p)
  <2>1. opener \in [Tunnels -> {"no", "outlived"}]
    BY DEF Init
  <2>2. Restarted
    BY <2>1 DEF Init, Restarted, SweepTask
  <2> QED BY <2>2, OthersIdle DEF Idle
<1>3. \A p \in Tunnels : tunnel[p].os = "unborn"
  BY DEF Init, Unborn
<1> QED BY <1>1, <1>2, <1>3 DEF Orderly, Aware, BornInOrder, OlderGone, OpenerFits, RequestKnows,
                                ClosedIsStopped, Born, Lives

LEMMA StutterOrderly ==
  ASSUME Orderly, UNCHANGED vars
  PROVE  Orderly'
<1>1. UNCHANGED <<row, tunnel, opener, exit, request, reopens, closer, sweep, shutdown, queue>>
  BY DEF vars, volatile
<1>2. Inv'
  BY NextKeeps DEF Orderly
<1>3. InOrder' /\ Moved(Nobody, Nobody)
  BY <1>1, StaysMoves DEF Orderly, Aware, Served
<1>4. /\ \A h \in Hublots : Nobody # RequestTask(h) /\ Nobody # CloseTask(h)
      /\ \A p \in Tunnels : Nobody # OpenTask(p) /\ Nobody # ExitTask(p)
      /\ Nobody # SweepTask /\ Nobody # ShutdownTask
  BY DEF Nobody, RequestTask, CloseTask, OpenTask, ExitTask, SweepTask, ShutdownTask
<1>5. (\A p \in Tunnels : Goes(p, Nobody, Nobody)) /\ NoneBorn
  BY <1>1, <1>4, OpenersStand
<1>6. RowSafe
  BY <1>1, RowsStay
<1>7. Shaped'
  BY <1>1 DEF Orderly, Aware, Shaped
<1>8. Serves(Nobody, Nobody)
  BY <1>1, <1>4 DEF Serves
<1> QED BY <1>1, <1>2, <1>3, <1>4, <1>5, <1>6, <1>7, <1>8, Combines

LEMMA NextOrderly ==
  ASSUME Orderly, [Next]_vars
  PROVE  Orderly'
<1>1. Inv'
  BY NextKeeps DEF Orderly
<1>2. CASE UNCHANGED vars
  BY <1>2, StutterOrderly
<1>3. ASSUME NEW h \in Hublots, RequestSteps(h) \/ CloseSteps(h)  PROVE Orderly'
  BY <1>1, <1>3, RequestsKeep, ClosersKeep
<1>4. ASSUME NEW p \in Tunnels, OpenerMoved(p)  PROVE Orderly'
  BY <1>1, <1>4, OpenersKeep
<1>5. ASSUME NEW p \in Tunnels, ExitSteps(p) \/ Dies(p)  PROVE Orderly'
  BY <1>1, <1>5, ExitsKeep
<1>6. ASSUME NEW h \in Hublots, Post(h) \/ Reopen(h) \/ Delete(h)  PROVE Orderly'
  BY <1>1, <1>6, AsksKeep
<1>7. CASE SweepSteps \/ Sweep
  BY <1>1, <1>7, SweepsKeep, SweepTicks
<1>8. CASE ShutdownSteps \/ ShutdownWaits \/ Signal
  BY <1>1, <1>8, ShutdownsKeep, ShutdownBegins
<1>9. CASE Exits \/ Crash
  BY <1>1, <1>9, ServerEndsActs DEF Exits, Crash
<1> QED BY <1>2, <1>3, <1>4, <1>5, <1>6, <1>7, <1>8, <1>9 DEF Next, Store, Timers, OpenerMoved

LEMMA Order == Spec => []Orderly
BY InitOrderly, NextOrderly, PTL DEF Spec

\* Every variable keeps its type, and no task of the server - an opener, an
\* exit listener, a request, the supervisor, the shutdown - ever waits for two
\* operations of the store.
THEOREM TypeCorrect == Spec => []TypeOK
<1>1. Orderly => TypeOK
  <2> SUFFICES ASSUME Orderly  PROVE TypeOK
    OBVIOUS
  <2>1. Typed /\ Shaped /\ InOrder
    BY DEF Orderly, Inv, Aware, Served
  <2>2. row \in [Hublots -> [status : RowStatuses, desired : Desires, url : Tunnels \cup {NoTunnel}]]
    BY <2>1 DEF Typed, Rows
  <2>3. sweep.step \in {"no", "list", "procs", "find", "close"}
    BY <2>1 DEF Typed, Sweeps
  <2>4. shutdown.step \in {"no", "list", "mark", "wait", "settle", "done"}
    BY <2>1 DEF Typed, Shutdowns
  <2>5. \A i \in 1..Len(queue) : queue[i] \in Tasks /\ \A j \in 1..(i - 1) : queue[i] # queue[j]
    BY <2>1 DEF InOrder, Single
  <2>6. /\ tunnel \in [Tunnels -> Processes] /\ opener \in [Tunnels -> Openers]
        /\ exit \in [Tunnels -> ExitSteps_]
    BY <2>1 DEF Typed
  <2>7. /\ request \in [Hublots -> RequestNames] /\ closer \in [Hublots -> CloserNames]
        /\ reopens \subseteq Hublots
    BY <2>1 DEF Shaped
  <2> QED BY <2>2, <2>3, <2>4, <2>5, <2>6, <2>7
          DEF TypeOK, RowStatuses, Desires, Processes, Openers, ExitSteps_, RequestNames, CloserNames
<1> QED BY <1>1, Order, PTL

\* A tunnel that was opened to the end, and that nobody told to exit, is never
\* behind a row that says closed while the server accepts requests: neither
\* closeTunnel, nor the supervisor, nor the exit listener of an older tunnel
\* writes "closed" over a hublot whose newer tunnel has got that far since they
\* looked, for any number of hublots, processes, requests, sweeps and crashes.
THEOREM ClosedStopped == Spec => []ClosedIsStopped
<1>1. Orderly => ClosedIsStopped
  BY DEF Orderly, Aware
<1> QED BY <1>1, Order, PTL
=============================================================================
