----------------------- MODULE RunnerAgreement_proofs -----------------------
(* What the manager tells others agrees with what it does, for any runners, *)
(* commands and bounds: the rows it persists, the events its clients see,   *)
(* and what became of every command.                                        *)
EXTENDS RunnerLifecycle_proofs

-----------------------------------------------------------------------------
(* Queues of updates *)

\* Update w writes the status of runner r.
Tells(w, r) == w.r = r /\ w.op # "delete"

Told(q, r) == {w \in {q[i] : i \in 1..Len(q)} : Tells(w, r)}

\* The last update of r's status in q, if there is one.
Last(q, r) ==
  {q[i] : i \in {j \in 1..Len(q) : /\ Tells(q[j], r)
                                   /\ \A m \in 1..Len(q) : j < m => ~Tells(q[m], r)}}

\* Behind a start waits nothing but stops that saw no process; behind a stop
\* that saw one no process comes to run.
Fits(v, w) ==
  /\ v.op = "starting" => w.op = "stopped" /\ w.k = 0
  /\ v.op = "stopped" /\ v.k # 0 => w.op # "running"

Ordered(q) ==
  \A i, j \in 1..Len(q) :
    i < j /\ Tells(q[i], q[i].r) /\ Tells(q[j], q[i].r) => Fits(q[i], q[j])

\* What issuing an update does to the updates of a runner.
LEMMA AppendTold ==
  ASSUME NEW q \in Seq(UpdateType), NEW w \in UpdateType, NEW r \in Runners
  PROVE  /\ Told(Append(q, w), r) = IF Tells(w, r) THEN Told(q, r) \cup {w} ELSE Told(q, r)
         /\ Last(Append(q, w), r) = IF Tells(w, r) THEN {w} ELSE Last(q, r)
<1> DEFINE n == Len(q)
           p == Append(q, w)
<1>1. n \in Nat /\ Len(p) = n + 1 /\ p[n + 1] = w /\ \A i \in 1..n : p[i] = q[i]
  BY AppendElements
<1>2. \A i : i \in 1..Len(p) <=> i \in 1..n \/ i = n + 1
  BY <1>1
<1> HIDE DEF n, p
<1>3. Told(p, r) = IF Tells(w, r) THEN Told(q, r) \cup {w} ELSE Told(q, r)
  <2>1. \A v : v \in Told(p, r) <=> v \in Told(q, r) \/ (v = w /\ Tells(w, r))
    BY <1>1, <1>2 DEF Told, n
  <2> QED
    BY <2>1
<1>4. CASE Tells(w, r)
  <2>1. \A i \in 1..Len(p) :
          (Tells(p[i], r) /\ \A m \in 1..Len(p) : i < m => ~Tells(p[m], r)) <=> i = n + 1
    BY <1>1, <1>2, <1>4
  <2>2. Last(p, r) = {w}
    BY <1>1, <1>2, <2>1 DEF Last
  <2> QED
    BY <1>3, <1>4, <2>2 DEF p
<1>5. CASE ~Tells(w, r)
  <2>1. \A i \in 1..n :
          (\A m \in 1..Len(p) : i < m => ~Tells(p[m], r))
            <=> (\A m \in 1..n : i < m => ~Tells(q[m], r))
    BY <1>1, <1>2, <1>5
  <2>2. \A v : v \in Last(p, r) <=> v \in Last(q, r)
    BY <1>1, <1>2, <1>5, <2>1 DEF Last, n
  <2>3. Last(p, r) = Last(q, r)
    BY <2>2
  <2> QED
    BY <1>3, <1>5, <2>3 DEF p
<1> QED
  BY <1>4, <1>5

\* An update that fits behind those that wait keeps the queue ordered.
LEMMA AppendOrdered ==
  ASSUME NEW q \in Seq(UpdateType), NEW w \in UpdateType, Ordered(q),
         w.op # "delete" => \A v \in Told(q, w.r) : Fits(v, w)
  PROVE  Ordered(Append(q, w))
<1> DEFINE n == Len(q)
           p == Append(q, w)
<1>1. n \in Nat /\ Len(p) = n + 1 /\ p[n + 1] = w /\ \A i \in 1..n : p[i] = q[i]
  BY AppendElements
<1> HIDE DEF n, p
<1>2. ASSUME NEW i \in 1..Len(p), NEW j \in 1..Len(p), i < j,
             Tells(p[i], p[i].r), Tells(p[j], p[i].r)
      PROVE  Fits(p[i], p[j])
  <2>1. i \in 1..n /\ p[i] = q[i]
    BY <1>1, <1>2
  <2>2. CASE j \in 1..n
    BY <1>1, <1>2, <2>1, <2>2 DEF Ordered, n
  <2>3. CASE j = n + 1
    <3>1. p[j] = w /\ w.r = q[i].r /\ w.op # "delete"
      BY <1>1, <1>2, <2>1, <2>3 DEF Tells
    <3>2. q[i] \in Told(q, w.r)
      BY <1>2, <2>1, <3>1 DEF Told, Tells, n
    <3> QED
      BY <2>1, <3>1, <3>2
  <2> QED
    BY <1>1, <2>2, <2>3
<1> QED
  BY <1>2 DEF Ordered, p

\* What performing the oldest update does to the updates of a runner.
LEMMA TailTold ==
  ASSUME NEW q \in Seq(UpdateType), q # <<>>, NEW r \in Runners
  PROVE  /\ Told(q, r) = IF Tells(Head(q), r) THEN Told(Tail(q), r) \cup {Head(q)}
                                              ELSE Told(Tail(q), r)
         /\ \/ Last(Tail(q), r) = Last(q, r)
            \/ /\ Last(Tail(q), r) = {}
               /\ Last(q, r) = {Head(q)} /\ Tells(Head(q), r)
         /\ Told(Tail(q), r) = {} /\ Tells(Head(q), r) => Last(q, r) = {Head(q)}
<1> DEFINE n == Len(q)
           p == Tail(q)
<1>1. n \in Nat /\ n > 0 /\ Len(p) = n - 1 /\ \A i \in 1..(n - 1) : p[i] = q[i + 1]
  OBVIOUS
<1>2. Head(q) = q[1]
  OBVIOUS
<1> HIDE DEF n, p
<1>3. \A i \in 1..n : i = 1 \/ (i - 1 \in 1..(n - 1) /\ p[i - 1] = q[i])
  BY <1>1
<1>4. \A i \in 1..(n - 1) : i + 1 \in 1..n /\ p[i] = q[i + 1]
  BY <1>1
<1>5. Told(q, r) = IF Tells(Head(q), r) THEN Told(p, r) \cup {Head(q)} ELSE Told(p, r)
  <2>1. \A v : v \in Told(q, r) <=> v \in Told(p, r) \/ (v = Head(q) /\ Tells(Head(q), r))
    <3>1. \A v \in Told(q, r) : v \in Told(p, r) \/ (v = Head(q) /\ Tells(Head(q), r))
      BY <1>1, <1>2, <1>3 DEF Told, n
    <3>2. \A v \in Told(p, r) : v \in Told(q, r)
      BY <1>1, <1>4 DEF Told, n
    <3>3. Tells(Head(q), r) => Head(q) \in Told(q, r)
      BY <1>1, <1>2 DEF Told, n
    <3> QED
      BY <3>1, <3>2, <3>3
  <2> QED
    BY <2>1
<1> DEFINE Final(s, i) == Tells(s[i], r) /\ \A m \in 1..Len(s) : i < m => ~Tells(s[m], r)
<1>6. \A i \in 1..(n - 1) : Final(p, i) <=> Final(q, i + 1)
  <2>1. ASSUME NEW i \in 1..(n - 1), Final(p, i)
        PROVE  Final(q, i + 1)
    <3>1. ASSUME NEW m \in 1..n, i + 1 < m
          PROVE  ~Tells(q[m], r)
      <4>1. m - 1 \in 1..(n - 1) /\ p[m - 1] = q[m] /\ i < m - 1
        BY <1>1, <1>3, <3>1
      <4> QED
        BY <1>1, <2>1, <4>1
    <3> QED
      BY <1>1, <1>4, <2>1, <3>1 DEF n
  <2>2. ASSUME NEW i \in 1..(n - 1), Final(q, i + 1)
        PROVE  Final(p, i)
    <3>1. ASSUME NEW m \in 1..(n - 1), i < m
          PROVE  ~Tells(p[m], r)
      <4>1. m + 1 \in 1..n /\ p[m] = q[m + 1] /\ i + 1 < m + 1
        BY <1>1, <1>4, <3>1
      <4> QED
        BY <2>2, <4>1 DEF n
    <3> QED
      BY <1>1, <1>4, <2>2, <3>1
  <2> QED
    BY <2>1, <2>2
<1>7. /\ \A v : v \in Last(q, r) <=> \E i \in 1..n : v = q[i] /\ Final(q, i)
      /\ \A v : v \in Last(p, r) <=> \E i \in 1..(n - 1) : v = p[i] /\ Final(p, i)
  BY <1>1 DEF Last, n
<1>8. Told(p, r) = {} /\ Tells(Head(q), r) => Final(q, 1)
  <2>1. ASSUME Told(p, r) = {}, NEW m \in 1..n, 1 < m
        PROVE  ~Tells(q[m], r)
    <3>1. m - 1 \in 1..Len(p) /\ p[m - 1] = q[m]
      BY <1>1, <1>3, <2>1
    <3>2. Tells(p[m - 1], r) => p[m - 1] \in Told(p, r)
      BY <3>1 DEF Told
    <3> QED
      BY <2>1, <3>1, <3>2
  <2> QED
    BY <1>2, <2>1 DEF n
<1>9. CASE Final(q, 1)
  <2>1. \A i \in 1..n : Final(q, i) => i = 1
    BY <1>1, <1>9 DEF n
  <2> HIDE DEF Final
  <2>2. \A i \in 1..(n - 1) : ~Final(p, i)
    BY <1>1, <1>4, <1>6, <2>1
  <2>3. Last(p, r) = {}
    BY <1>7, <2>2
  <2>4. Last(q, r) = {Head(q)}
    <3>1. 1 \in 1..n
      BY <1>1
    <3> QED
      BY <1>2, <1>7, <1>9, <2>1, <3>1
  <2>5. Tells(Head(q), r)
    BY <1>2, <1>9 DEF Final
  <2> QED
    BY <1>5, <2>3, <2>4, <2>5 DEF p
<1>10. CASE ~Final(q, 1)
  <2> HIDE DEF Final
  <2>1. \A v \in Last(q, r) : v \in Last(p, r)
    <3>1. ASSUME NEW i \in 1..n, Final(q, i)
          PROVE  q[i] \in Last(p, r)
      <4>1. i # 1
        BY <1>10, <3>1
      <4>2. i - 1 \in 1..(n - 1) /\ p[i - 1] = q[i] /\ (i - 1) + 1 = i
        BY <1>1, <1>3, <4>1
      <4>3. Final(p, i - 1)
        BY <1>6, <3>1, <4>2
      <4> QED
        BY <1>7, <4>2, <4>3
    <3> QED
      BY <1>7, <3>1
  <2>2. \A v \in Last(p, r) : v \in Last(q, r)
    BY <1>4, <1>6, <1>7
  <2>3. Last(p, r) = Last(q, r)
    BY <2>1, <2>2
  <2> QED
    BY <1>5, <1>8, <1>10, <2>3 DEF p
<1> QED
  BY <1>9, <1>10

\* The oldest update fits before the others, which stay ordered without it.
LEMMA TailOrdered ==
  ASSUME NEW q \in Seq(UpdateType), q # <<>>, Ordered(q)
  PROVE  /\ Ordered(Tail(q))
         /\ Head(q).op # "delete" => \A v \in Told(Tail(q), Head(q).r) : Fits(Head(q), v)
<1> DEFINE n == Len(q)
           p == Tail(q)
<1>1. n \in Nat /\ n > 0 /\ Len(p) = n - 1 /\ Head(q) = q[1]
  OBVIOUS
<1>2. \A i \in 1..(n - 1) : i + 1 \in 1..n /\ p[i] = q[i + 1]
  OBVIOUS
<1> HIDE DEF n, p
<1>3. Ordered(p)
  <2>1. ASSUME NEW i \in 1..Len(p), NEW j \in 1..Len(p), i < j,
               Tells(p[i], p[i].r), Tells(p[j], p[i].r)
        PROVE  Fits(p[i], p[j])
    <3>1. /\ i + 1 \in 1..n /\ p[i] = q[i + 1]
          /\ j + 1 \in 1..n /\ p[j] = q[j + 1] /\ i + 1 < j + 1
      BY <1>1, <1>2, <2>1
    <3> QED
      BY <2>1, <3>1 DEF Ordered, n
  <2> QED
    BY <2>1 DEF Ordered
<1>4. ASSUME Head(q).op # "delete", NEW v \in Told(p, Head(q).r)
      PROVE  Fits(Head(q), v)
  <2>1. PICK i \in 1..Len(p) : v = p[i]
    BY DEF Told
  <2>2. i + 1 \in 1..n /\ v = q[i + 1] /\ 1 \in 1..n /\ 1 < i + 1
    BY <1>1, <1>2, <2>1
  <2>3. Tells(q[i + 1], q[1].r) /\ Tells(q[1], q[1].r)
    BY <1>1, <1>4, <2>2 DEF Told, Tells
  <2> QED
    BY <1>1, <2>2, <2>3 DEF Ordered, n
<1> QED
  BY <1>3, <1>4 DEF p

-----------------------------------------------------------------------------
(* The invariant *)

Born(r, k) == process[r][k].os # "unborn"

\* A start is numbered above the attempts made so far, and the persisted count
\* lets the numbering go on after a restart of the server.
AttemptsFresh(r) ==
  /\ \A w \in Told(writes, r) :
       /\ w.op \in {"starting", "running"} => w.k \in Attempt
       /\ w.op = "starting" => \A k \in Attempt : Born(r, k) => k < w.k
       /\ w.op = "starting" /\ runner[r].registered => w.k <= runner[r].startCount
  /\ \A k \in Attempt : Born(r, k) =>
       /\ runner[r].registered => k <= runner[r].startCount
       /\ row[r].present => k <= row[r].startCount

\* An update that reports an end waits only while the runner has no process.
EndingsCurrent(r) ==
  \A w \in Told(writes, r) : w.op \in {"dead", "error", "launchFailed"} => runner[r].proc = 0

\* What the event handlers and timers of process k believe agrees with what
\* the runner believes: the tracked process is the one whose exit the runner
\* hears, only a stopped one is signalled, and one that could not be spawned
\* keeps any other start away.
HandlersMatch(r) ==
  \A k \in Attempt :
    /\ runner[r].proc = k => process[r][k].os \in {"alive", "failing"} /\ process[r][k].onExit = "runner"
    /\ ~Born(r, k) => process[r][k].onExit = "runner"
    /\ process[r][k].killTimer = "armed" \/ process[r][k].os = "killed" => process[r][k].onExit = "stop"
    /\ process[r][k].os = "failing" =>
         /\ runner[r].recent /\ runner[r].proc \in {0, k}
         /\ \A w \in Told(writes, r) : w.op # "starting"

\* The last status on its way, or else the persisted one, is that of the runner.
RowFollows(r) ==
  row[r].present =>
    /\ Told(writes, r) = {} =>
         IF runner[r].proc # 0 THEN row[r].status = "running"
                               ELSE row[r].status \notin {"starting", "running"}
    /\ \A w \in Last(writes, r) :
         IF runner[r].proc = 0 THEN w.op # "running"
                               ELSE w.op = "running" \/ (w.op = "stopped" /\ w.k = runner[r].proc)

\* A client's last event is true, or the step that will correct it is due.
ViewFollows(r) ==
  /\ runner[r].proc # 0 =>
       \/ view[r] = "pi_started"
       \/ \E w \in Told(writes, r) : w.op \in {"running", "stopped"} /\ w.k = runner[r].proc
  /\ runner[r].proc = 0 =>
       \/ view[r] \in {"none", "pi_exit", "pi_error"}
       \/ \E w \in Told(writes, r) : w.op \in {"dead", "launchFailed"}
       \/ \E k \in Attempt : process[r][k].os \in {"alive", "killed", "failing"}

Good(r) ==
  AttemptsFresh(r) /\ EndingsCurrent(r) /\ HandlersMatch(r) /\ RowFollows(r) /\ ViewFollows(r)

Agreement == Ordered(writes) /\ \A r \in Runners : Good(r)

AInv == IInv /\ (SlowStore \/ Agreement)

-----------------------------------------------------------------------------
(* What a step leaves alone *)

\* The status updates of runner s are those that waited before.
SameQueue(s) == Told(writes', s) = Told(writes, s) /\ Last(writes', s) = Last(writes, s)

\* Process k of runner s lives on as it did, though its escalation may be disarmed.
SameProcess(s, k) ==
  /\ process'[s][k].os = process[s][k].os /\ process'[s][k].onExit = process[s][k].onExit
  /\ process'[s][k].killTimer = "armed" => process[s][k].killTimer = "armed"

\* Runner s is left alone, but it may be deleted and its debounce may elapse.
Kept(s) ==
  /\ runner'[s].proc = runner[s].proc /\ runner'[s].startCount = runner[s].startCount
  /\ runner'[s].registered => runner[s].registered
  /\ runner'[s].recent = runner[s].recent \/ \A k \in Attempt : process[s][k].os # "failing"
  /\ \A k \in Attempt : SameProcess(s, k)
  /\ row'[s] = row[s] \/ ~row'[s].present
  /\ view'[s] = view[s]

\* Every runner but r is left alone.
OthersKept(r) == \A s \in Runners \ {r} : Kept(s)

\* Runner s keeps its process, its attempts and its guards.
SameCore(s) ==
  /\ runner'[s].proc = runner[s].proc /\ runner'[s].startCount = runner[s].startCount
  /\ runner'[s].registered = runner[s].registered /\ runner'[s].recent = runner[s].recent
  /\ \A k \in Attempt : SameProcess(s, k)

\* A runner that is left alone stays good.
LEMMA KeptGood ==
  ASSUME NEW s \in Runners, Good(s), Kept(s), SameQueue(s)
  PROVE  Good(s)'
<1>1. AttemptsFresh(s)'
  BY DEF Good, AttemptsFresh, Kept, SameQueue, SameProcess, Born
<1>2. EndingsCurrent(s)'
  BY DEF Good, EndingsCurrent, Kept, SameQueue
<1>3. HandlersMatch(s)'
  BY DEF Good, HandlersMatch, Kept, SameQueue, SameProcess, Born
<1>4. RowFollows(s)'
  BY DEF Good, RowFollows, Kept, SameQueue
<1>5. ViewFollows(s)'
  BY DEF Good, ViewFollows, Kept, SameQueue, SameProcess
<1> QED
  BY <1>1, <1>2, <1>3, <1>4, <1>5 DEF Good

\* A step about one runner has to answer only for that one.
LEMMA StepOfOne ==
  ASSUME Agreement, NEW r \in Runners, OthersKept(r), Ordered(writes'), Good(r)',
         \A s \in Runners \ {r} : SameQueue(s)
  PROVE  Agreement'
<1>1. \A s \in Runners \ {r} : Good(s)'
  BY KeptGood DEF Agreement, OthersKept
<1> QED
  BY <1>1 DEF Agreement

\* A step that leaves every runner alone.
LEMMA QuietStep ==
  ASSUME Agreement, Ordered(writes'), \A s \in Runners : Kept(s) /\ SameQueue(s)
  PROVE  Agreement'
BY KeptGood DEF Agreement

\* A step about runner r that issues no update, performs none and leaves it alone.
LEMMA QuietOne ==
  ASSUME Agreement, NEW r \in Runners, OthersKept(r), Kept(r), UNCHANGED writes
  PROVE  Agreement'
<1>1. Ordered(writes') /\ \A s \in Runners : SameQueue(s)
  BY DEF Agreement, SameQueue
<1>2. \A s \in Runners : Kept(s)
  BY DEF OthersKept
<1> QED
  BY <1>1, <1>2, QuietStep

\* The waiting updates of a runner and what excludes its starts says of them.
LEMMA Excluded ==
  ASSUME TypeOK, StartsExclude, NEW r \in Runners, NEW w \in Told(writes, r)
  PROVE  /\ w \in UpdateType /\ w.r = r
         /\ w.op = "starting" => runner[r].proc = 0 /\ runner[r].recent
         /\ w.op = "stopped" /\ w.k # 0 => runner[r].proc \in {0, w.k}
<1>1. PICK i \in Waiting : w = writes[i]
  BY DEF Told, Waiting
<1>2. w \in UpdateType /\ w.r = r
  BY <1>1 DEF Told, Tells, TypeOK, Waiting
<1> QED
  BY <1>1, <1>2 DEF StartsExclude, StartsAlone, StopsCurrent

\* Issuing an update leaves the queues of the other runners alone.
LEMMA AppendElsewhere ==
  ASSUME TypeOK, NEW w \in UpdateType, writes' = Append(writes, w)
  PROVE  \A s \in Runners \ {w.r} : SameQueue(s)
<1>1. writes \in Seq(UpdateType)
  BY DEF TypeOK
<1> QED
  BY <1>1, AppendTold DEF SameQueue, Tells

\* So does performing one.
LEMMA TailElsewhere ==
  ASSUME TypeOK, writes # <<>>, writes' = Tail(writes)
  PROVE  \A s \in Runners \ {Head(writes).r} : SameQueue(s)
<1>1. writes \in Seq(UpdateType)
  BY DEF TypeOK
<1> QED
  BY <1>1, TailTold DEF SameQueue, Tells

-----------------------------------------------------------------------------
(* Starting and stopping *)

\* startRunner up to its first await: the new attempt has a number of its own.
LEMMA StartRunnerAgrees ==
  ASSUME TypeOK, ConstantsAssumption, StartsExclude, Agreement,
         NEW rs \in [Runners -> RunnerType], NEW r \in Runners, NEW then \in Caller,
         \A s \in Runners \ {r} : rs[s] = runner[s],
         rs[r].proc = runner[r].proc, rs[r].recent = runner[r].recent,
         rs[r].startCount = runner[r].startCount, rs[r].registered = runner[r].registered,
         runner[r].registered, StartRunner(rs, r, then)
  PROVE  Agreement'
<1>0. UNCHANGED <<process, row, view>>
  BY DEF StartRunner
<1>1. CASE rs[r].proc # 0
  <2>1. OthersKept(r) /\ Kept(r) /\ UNCHANGED writes
    BY <1>0, <1>1 DEF StartRunner, OthersKept, Kept, SameProcess
  <2> QED
    BY <2>1, QuietOne
<1>2. CASE rs[r].proc = 0 /\ Debounced(r)
  <2>1. PICK t : runner' = [rs EXCEPT ![r].startTimer = t]
    BY <1>2 DEF StartRunner
  <2>2. OthersKept(r) /\ Kept(r)
    BY <1>0, <2>1 DEF OthersKept, Kept, SameProcess, RunnerType
  <2>3. UNCHANGED writes
    BY <1>2 DEF StartRunner
  <2> QED
    BY <2>2, <2>3, QuietOne
<1>3. CASE rs[r].proc = 0 /\ ~Debounced(r)
  <2> DEFINE k == rs[r].startCount + 1
             w == Update("starting", r, k, then)
  <2>1. /\ runner' = [rs EXCEPT ![r].recent = TRUE, ![r].startCount = k]
        /\ writes' = Append(writes, w)
        /\ rs[r].startCount < MaxStarts
    BY <1>3 DEF StartRunner
  <2>2. rs[r].startCount \in StartOf
    BY DEF RunnerType
  <2>3. k \in StartOf /\ k \in Attempt /\ k > runner[r].startCount
    BY <2>1, <2>2 DEF StartOf, Attempt, ConstantsAssumption
  <2>4. w \in UpdateType /\ w.op = "starting" /\ w.r = r /\ w.k = k /\ Tells(w, r)
    BY <2>3 DEF Update, UpdateType, WriteOp, Tells
  <2>5. writes \in Seq(UpdateType)
    BY DEF TypeOK
  <2>6. /\ runner'[r].proc = 0 /\ runner'[r].recent /\ runner'[r].startCount = k
        /\ runner[r].proc = 0 /\ ~runner[r].recent
    BY <1>3, <2>1 DEF RunnerType, Debounced
  <2>7. OthersKept(r)
    BY <1>0, <2>1 DEF OthersKept, Kept, SameProcess
  <2> HIDE DEF k, w
  <2>8. /\ Told(writes', r) = Told(writes, r) \cup {w} /\ Last(writes', r) = {w}
        /\ \A s \in Runners \ {r} : SameQueue(s)
    BY <2>1, <2>4, <2>5, AppendTold, AppendElsewhere
  <2>9. \A v \in Told(writes, r) : v.op # "starting"
    BY <2>6, Excluded
  <2>10. Ordered(writes')
    <3>1. \A v \in Told(writes, r) : Fits(v, w)
      BY <2>4, <2>9 DEF Fits
    <3> QED
      BY <2>1, <2>4, <2>5, <3>1, AppendOrdered DEF Agreement
  <2>11. Good(r)'
    <3>0. Good(r)
      BY DEF Agreement
    <3>1. AttemptsFresh(r)'
      <4>1. runner[r].startCount \in Nat /\ \A n \in Attempt : n \in Nat
        BY <2>2 DEF StartOf, Attempt, ConstantsAssumption
      <4>2. \A n \in Attempt : Born(r, n) => n < k
        <5>1. \A n \in Attempt : Born(r, n) => n <= runner[r].startCount
          BY <3>0 DEF Good, AttemptsFresh
        <5>2. k \in Nat /\ runner[r].startCount < k
          BY <2>3, <4>1 DEF StartOf
        <5>3. ASSUME NEW n \in Attempt, Born(r, n)
              PROVE  n < k
          <6>1. n \in Nat /\ n <= runner[r].startCount
            BY <4>1, <5>1, <5>3
          <6> QED
            BY <4>1, <5>2, <6>1
        <5> QED
          BY <5>3
      <4>3. \A n \in Attempt : Born(r, n)' = Born(r, n)
        BY <1>0 DEF Born
      <4>4. k <= k
        BY <2>3, <4>1
      <4>5. ASSUME NEW v \in Told(writes', r)
            PROVE  /\ v.op \in {"starting", "running"} => v.k \in Attempt
                   /\ v.op = "starting" => \A n \in Attempt : Born(r, n)' => n < v.k
                   /\ v.op = "starting" /\ runner'[r].registered => v.k <= runner'[r].startCount
        <5>1. CASE v = w
          BY <2>3, <2>4, <2>6, <4>2, <4>3, <4>4, <5>1
        <5>2. CASE v \in Told(writes, r)
          BY <2>9, <3>0, <5>2 DEF Good, AttemptsFresh
        <5> QED
          BY <2>8, <5>1, <5>2
      <4>6. ASSUME NEW n \in Attempt, Born(r, n)'
            PROVE  /\ runner'[r].registered => n <= runner'[r].startCount
                   /\ row'[r].present => n <= row'[r].startCount
        <5>1. n < k
          BY <4>2, <4>3, <4>6
        <5>2. n <= k
          BY <2>3, <4>1, <5>1
        <5> QED
          BY <1>0, <2>6, <3>0, <4>3, <4>6, <5>2 DEF Good, AttemptsFresh
      <4> QED
        BY <4>5, <4>6 DEF AttemptsFresh
    <3>2. EndingsCurrent(r)'
      BY <2>6 DEF EndingsCurrent
    <3>3. HandlersMatch(r)'
      BY <1>0, <2>6, <3>0 DEF Good, HandlersMatch, Born
    <3>4. RowFollows(r)'
      BY <2>4, <2>6, <2>8 DEF RowFollows
    <3>5. ViewFollows(r)'
      BY <1>0, <2>6, <2>8, <3>0 DEF Good, ViewFollows
    <3> QED
      BY <3>1, <3>2, <3>3, <3>4, <3>5 DEF Good
  <2> QED
    BY <2>7, <2>8, <2>10, <2>11, StepOfOne
<1> QED
  BY <1>1, <1>2, <1>3

\* stopRunner up to its first await: it will be the last to write the status,
\* and until then the watchdog may have called the process unhealthy.
LEMMA StopRunnerAgrees ==
  ASSUME TypeOK, ConstantsAssumption, StartsExclude, Agreement,
         NEW r \in Runners, NEW then \in Caller, StopRunner(r, then), OthersKept(r),
         runner'[r].proc = runner[r].proc, runner'[r].recent = runner[r].recent,
         runner'[r].startCount = runner[r].startCount,
         runner'[r].registered = runner[r].registered,
         UNCHANGED <<process, row>>, view'[r] = view[r] \/ runner[r].proc # 0
  PROVE  Agreement'
<1> DEFINE w == Update("stopped", r, runner[r].proc, then)
<1>1. w \in UpdateType /\ w.op = "stopped" /\ w.r = r /\ w.k = runner[r].proc /\ Tells(w, r)
  <2>1. runner[r].proc \in StartOf
    BY ParameterTypes DEF RunnerType
  <2> QED
    BY <2>1 DEF Update, UpdateType, WriteOp, Tells
<1>2. writes' = Append(writes, w) /\ writes \in Seq(UpdateType)
  BY DEF StopRunner, TypeOK
<1> HIDE DEF w
<1>3. /\ Told(writes', r) = Told(writes, r) \cup {w} /\ Last(writes', r) = {w}
      /\ \A s \in Runners \ {r} : SameQueue(s)
  BY <1>1, <1>2, AppendTold, AppendElsewhere
<1>4. Ordered(writes')
  <2>1. \A v \in Told(writes, r) : Fits(v, w)
    BY <1>1, Excluded DEF Fits
  <2> QED
    BY <1>1, <1>2, <2>1, AppendOrdered DEF Agreement
<1>5. Good(r)'
  <2>0. Good(r)
    BY DEF Agreement
  <2>1. AttemptsFresh(r)'
    BY <1>1, <1>3, <2>0 DEF Good, AttemptsFresh, Born
  <2>2. EndingsCurrent(r)'
    BY <1>1, <1>3, <2>0 DEF Good, EndingsCurrent
  <2>3. HandlersMatch(r)'
    BY <1>1, <1>3, <2>0 DEF Good, HandlersMatch, Born
  <2>4. RowFollows(r)'
    BY <1>1, <1>3 DEF RowFollows
  <2>5. ViewFollows(r)'
    BY <1>1, <1>3, <2>0 DEF Good, ViewFollows
  <2> QED
    BY <2>1, <2>2, <2>3, <2>4, <2>5 DEF Good
<1> QED
  BY <1>3, <1>4, <1>5, StepOfOne

-----------------------------------------------------------------------------
(* The store performs the oldest update *)

\* Sending, flushing and starting up write to inputs and queues only.
LEMMA DeliverCore ==
  ASSUME TypeOK, NEW r \in Runners, NEW c, Deliver(r, c)
  PROVE  \A s \in Runners : SameCore(s)
<1> DEFINE k == runner[r].proc
<1>1. CASE runner' = [runner EXCEPT ![r].resumeQueue = Append(@, c)] /\ UNCHANGED process
  BY <1>1 DEF SameCore, SameProcess, TypeOK, RunnerType
<1>2. CASE process' = [process EXCEPT ![r][k].stdin = Append(@, c)] /\ UNCHANGED runner
  BY <1>2 DEF SameCore, SameProcess, TypeOK, ProcessType
<1>3. CASE UNCHANGED <<runner, process>>
  BY <1>3 DEF SameCore, SameProcess
<1> QED
  BY <1>1, <1>2, <1>3 DEF Deliver

\* The end of a send.
LEMMA AfterStartCore ==
  ASSUME TypeOK, NEW r \in Runners, NEW then, AfterStart(r, then)
  PROVE  \A s \in Runners : SameCore(s)
<1>1. CASE Deliver(r, then)
  BY <1>1, DeliverCore
<1>2. CASE UNCHANGED <<runner, process>>
  BY <1>2 DEF SameCore, SameProcess
<1> QED
  BY <1>1, <1>2 DEF AfterStart

\* finishResume.
LEMMA FinishResumeCore ==
  ASSUME TypeOK, NEW r \in Runners, FinishResume(r)
  PROVE  \A s \in Runners : SameCore(s)
<1> DEFINE k == runner[r].proc
<1>1. PICK input : process' = process \/ process' = [process EXCEPT ![r][k].stdin = input]
  BY DEF FinishResume
<1>2. \A s \in Runners, n \in Attempt : SameProcess(s, n)
  <2>1. CASE process' = process
    BY <2>1 DEF SameProcess
  <2>2. CASE process' = [process EXCEPT ![r][k].stdin = input]
    BY <2>2 DEF SameProcess, TypeOK, ProcessType
  <2> QED
    BY <1>1, <2>1, <2>2
<1>3. runner' = [runner EXCEPT ![r].resumeId = 0, ![r].resumeTimer = FALSE, ![r].resumeQueue = <<>>]
  BY DEF FinishResume
<1> QED
  BY <1>2, <1>3 DEF SameCore, TypeOK, RunnerType

\* The startup command.
LEMMA StartupCore ==
  ASSUME TypeOK, NEW r \in Runners, NEW k, NEW then, Startup(r, k, then)
  PROVE  \A s \in Runners : SameCore(s)
<1>1. PICK id, valve, queue :
        runner' = [runner EXCEPT ![r].watchdogOk = TRUE, ![r].unanswered = 0, ![r].resumeId = id,
                                 ![r].resumeTimer = valve, ![r].resumeQueue = queue]
  BY DEF Startup
<1>2. PICK input : process' = [process EXCEPT ![r][k].reader = TRUE, ![r][k].stdin = input]
  BY DEF Startup
<1>3. \A s \in Runners, n \in Attempt : SameProcess(s, n)
  BY <1>2 DEF SameProcess, TypeOK, ProcessType
<1> QED
  BY <1>1, <1>3 DEF SameCore, TypeOK, RunnerType

\* What performing the oldest update, about runner r's status, leaves waiting.
LEMMA Performed ==
  ASSUME TypeOK, Agreement, writes # <<>>, Head(writes).op # "delete",
         NEW r \in Runners, Head(writes).r = r
  PROVE  /\ Tail(writes) \in Seq(UpdateType) /\ Ordered(Tail(writes))
         /\ Told(writes, r) = Told(Tail(writes), r) \cup {Head(writes)}
         /\ \/ Last(Tail(writes), r) = Last(writes, r)
            \/ Last(Tail(writes), r) = {}
         /\ Told(Tail(writes), r) = {} => Last(writes, r) = {Head(writes)}
         /\ \A v \in Told(Tail(writes), r) : Fits(Head(writes), v)
         /\ \A s \in Runners \ {r} :
              Told(Tail(writes), s) = Told(writes, s) /\ Last(Tail(writes), s) = Last(writes, s)
<1>1. writes \in Seq(UpdateType) /\ Tail(writes) \in Seq(UpdateType)
  BY TailType DEF TypeOK
<1>2. Tells(Head(writes), r) /\ \A s \in Runners \ {r} : ~Tells(Head(writes), s)
  BY DEF Tells
<1> QED
  BY <1>1, <1>2, TailTold, TailOrdered DEF Agreement

\* The last updates wait, too.
LEMMA LastTold == ASSUME NEW q, NEW r PROVE Last(q, r) \subseteq Told(q, r)
BY DEF Last, Told

\* With fewer updates waiting, what concerns attempts, ends and handlers stays.
LEMMA FewerWaiting ==
  ASSUME NEW r \in Runners, Good(r), SameCore(r), Told(writes', r) \subseteq Told(writes, r),
         row'[r].present = row[r].present, row'[r].startCount = row[r].startCount
  PROVE  AttemptsFresh(r)' /\ EndingsCurrent(r)' /\ HandlersMatch(r)'
<1>1. AttemptsFresh(r)'
  BY DEF Good, AttemptsFresh, SameCore, SameProcess, Born
<1>2. EndingsCurrent(r)'
  BY DEF Good, EndingsCurrent, SameCore
<1>3. HandlersMatch(r)'
  BY DEF Good, HandlersMatch, SameCore, SameProcess, Born
<1> QED
  BY <1>1, <1>2, <1>3

\* A patch of a row that is there replaces it; one of a row that is gone does nothing.
LEMMA Patched ==
  ASSUME TypeOK, NEW r \in Runners, NEW new, Patch(r, new)
  PROVE  /\ row'[r] = IF row[r].present THEN new ELSE row[r]
         /\ \A s \in Runners \ {r} : row'[s] = row[s]
BY DEF Patch, TypeOK

\* The persisted death, of an exit, of a failed spawn or of a failed launch: the
\* runner has no process, and unless more is on its way its row is right.
LEMMA EndingAgrees ==
  ASSUME TypeOK, StartsExclude, Agreement, writes # <<>>, NEW r \in Runners, Head(writes).r = r,
         Head(writes).op \in {"dead", "error", "launchFailed"},
         Patch(r, [row[r] EXCEPT !.status = "dead"]), writes' = Tail(writes),
         \A s \in Runners : SameCore(s), \A s \in Runners \ {r} : view'[s] = view[s],
         \/ view'[r] \in {"pi_exit", "pi_error"}
         \/ view'[r] = view[r] /\ Head(writes).op = "error"
  PROVE  Agreement'
<1> DEFINE w == Head(writes)
<1>1. /\ Ordered(writes') /\ Told(writes, r) = Told(writes', r) \cup {w}
      /\ Last(writes', r) = Last(writes, r) \/ Last(writes', r) = {}
      /\ \A s \in Runners \ {r} : SameQueue(s)
  BY Performed DEF SameQueue
<1>2. Good(r) /\ w \in Told(writes, r)
  BY <1>1 DEF Agreement
<1>3. runner[r].proc = 0 /\ runner'[r].proc = 0
  BY <1>2 DEF Good, EndingsCurrent, SameCore
<1>4. /\ row'[r].present = row[r].present /\ row'[r].startCount = row[r].startCount
      /\ row[r].present => row'[r].status = "dead"
  BY Patched, ParameterTypes DEF RowType
<1>5. OthersKept(r)
  BY Patched DEF OthersKept, Kept, SameCore
<1> HIDE DEF w
<1>6. AttemptsFresh(r)' /\ EndingsCurrent(r)' /\ HandlersMatch(r)'
  BY <1>1, <1>2, <1>4, FewerWaiting
<1>7. RowFollows(r)'
  BY <1>1, <1>2, <1>3, <1>4 DEF Good, RowFollows
<1>8. ViewFollows(r)'
  BY <1>1, <1>2, <1>3 DEF Good, ViewFollows, SameCore, SameProcess, w
<1> QED
  BY <1>1, <1>5, <1>6, <1>7, <1>8, StepOfOne DEF Good

\* The answer to status running.
LEMMA RunningAgrees ==
  ASSUME TypeOK, StartsExclude, Agreement, writes # <<>>,
         NEW r \in Runners, NEW k, NEW then, Head(writes).r = r,
         Head(writes).op = "running", Head(writes).k = k, Running(r, k, then)
  PROVE  Agreement'
<1> DEFINE w == Head(writes)
<1>1. /\ Ordered(writes') /\ Told(writes, r) = Told(writes', r) \cup {w}
      /\ Last(writes', r) \subseteq Last(writes, r)
      /\ Told(writes', r) = {} => Last(writes, r) = {w}
      /\ \A s \in Runners \ {r} : SameQueue(s)
  <2>1. writes' = Tail(writes) /\ Head(writes).op # "delete"
    BY DEF Running
  <2> QED
    BY <2>1, Performed DEF SameQueue
<1>2. Good(r) /\ w \in Told(writes, r)
  BY <1>1 DEF Agreement
<1>3. k # 0
  BY <1>2 DEF Good, AttemptsFresh, Attempt
<1>4. \A s \in Runners : SameCore(s)
  BY StartupCore, AfterStartCore DEF Running
<1>5. /\ row'[r].present = row[r].present /\ row'[r].startCount = row[r].startCount
      /\ row[r].present => row'[r].status = "running"
      /\ \A s \in Runners \ {r} : row'[s] = row[s]
  BY Patched, ParameterTypes DEF Running, RowType
<1>6. /\ \A s \in Runners \ {r} : view'[s] = view[s]
      /\ runner[r].proc = k => view'[r] = "pi_started"
      /\ runner[r].proc # k => view'[r] = view[r]
  BY DEF Running, TypeOK
<1>7. OthersKept(r)
  BY <1>4, <1>5, <1>6 DEF OthersKept, Kept, SameCore
<1> HIDE DEF w
<1>8. AttemptsFresh(r)' /\ EndingsCurrent(r)' /\ HandlersMatch(r)'
  BY <1>1, <1>2, <1>4, <1>5, FewerWaiting
<1>9. RowFollows(r)'
  <2>1. runner'[r].proc = runner[r].proc /\ w.op = "running"
    BY <1>4 DEF SameCore, w
  <2>2. RowFollows(r)
    BY <1>2 DEF Good
  <2>3. ASSUME row[r].present, Told(writes', r) = {}
        PROVE  runner[r].proc # 0
    BY <1>1, <2>1, <2>2, <2>3 DEF RowFollows
  <2> QED
    BY <1>1, <1>5, <2>1, <2>2, <2>3 DEF RowFollows
<1>10. ViewFollows(r)'
  <2>1. CASE runner[r].proc = k
    BY <1>3, <1>4, <1>6, <2>1 DEF ViewFollows, SameCore
  <2>2. CASE runner[r].proc # k
    BY <1>1, <1>2, <1>4, <1>6, <2>2 DEF Good, ViewFollows, SameCore, SameProcess, w
  <2> QED
    BY <2>1, <2>2
<1> QED
  BY <1>1, <1>7, <1>8, <1>9, <1>10, StepOfOne DEF Good

\* The answer to a stop: the process it saw is detached and signalled, and what
\* it does to the view its exit or its failed spawn will tell.
LEMMA StoppedAgrees ==
  ASSUME TypeOK, ConstantsAssumption, StartsExclude, Agreement, writes # <<>>,
         NEW r \in Runners, NEW k \in StartOf, NEW then, Head(writes).r = r,
         Head(writes).op = "stopped", Head(writes).k = k, Stopped(r, k, then)
  PROVE  Agreement'
<1> DEFINE w == Head(writes)
<1>1. /\ Ordered(writes') /\ Told(writes, r) = Told(writes', r) \cup {w}
      /\ Last(writes', r) \subseteq Last(writes, r)
      /\ Told(writes', r) = {} => Last(writes, r) = {w}
      /\ \A v \in Told(writes', r) : Fits(w, v)
      /\ \A s \in Runners \ {r} : SameQueue(s)
  <2>1. writes' = Tail(writes) /\ Head(writes).op # "delete"
    BY DEF Stopped
  <2> QED
    BY <2>1, Performed DEF SameQueue
<1>2. Good(r) /\ w \in Told(writes, r) /\ w.op = "stopped" /\ w.k = k
  BY <1>1 DEF Agreement
<1>3. /\ row'[r].present = row[r].present /\ row'[r].startCount = row[r].startCount
      /\ row[r].present => row'[r].status = "stopped"
      /\ \A s \in Runners \ {r} : row'[s] = row[s]
  <2> DEFINE new == [row[r] EXCEPT !.desired = "stopped", !.status = "stopped"]
  <2>1. Patch(r, new)
    BY DEF Stopped
  <2>2. new.present = row[r].present /\ new.startCount = row[r].startCount /\ new.status = "stopped"
    BY ParameterTypes DEF RowType
  <2> HIDE DEF new
  <2> QED
    BY <2>1, <2>2, Patched
<1>4. view' = view
  BY DEF Stopped
<1> DEFINE called == [runner EXCEPT ![r].startTimer = "none",
                                    ![r].restartTimer = @ \/ then = "restart",
                                    ![r].removing = @ \/ then = "remove"]
<1> HIDE DEF w
<1>5. CASE k = 0
  <2>1. runner' = called /\ UNCHANGED process
    BY <1>5 DEF Stopped
  <2>2. \A s \in Runners : SameCore(s)
    BY <2>1 DEF SameCore, SameProcess, TypeOK, RunnerType
  <2>3. OthersKept(r)
    BY <1>3, <1>4, <2>2 DEF OthersKept, Kept, SameCore
  <2>4. AttemptsFresh(r)' /\ EndingsCurrent(r)' /\ HandlersMatch(r)'
    BY <1>1, <1>2, <1>3, <2>2, FewerWaiting
  <2>5. RowFollows(r)'
    <3>1. runner'[r].proc = runner[r].proc /\ RowFollows(r)
      BY <1>2, <2>2 DEF SameCore, Good
    <3>2. ASSUME row[r].present, Told(writes', r) = {}
          PROVE  runner[r].proc = 0
      BY <1>1, <1>2, <1>5, <3>1, <3>2 DEF RowFollows
    <3> QED
      BY <1>1, <1>3, <3>1, <3>2 DEF RowFollows
  <2>6. ViewFollows(r)'
    BY <1>1, <1>2, <1>4, <1>5, <2>2 DEF Good, ViewFollows, SameCore, SameProcess
  <2> QED
    BY <1>1, <2>3, <2>4, <2>5, <2>6, StepOfOne DEF Good
<1>6. CASE k # 0
  <2>1. /\ runner' = [called EXCEPT ![r].proc = 0, ![r].resumeId = 0,
                                    ![r].resumeTimer = FALSE, ![r].resumeQueue = <<>>]
        /\ process' = IF process[r][k].os = "alive"
                      THEN [process EXCEPT ![r][k].onExit = "stop", ![r][k].killTimer = "armed"]
                      ELSE process
    BY <1>6 DEF Stopped
  <2>2. /\ runner'[r].proc = 0 /\ runner'[r].startCount = runner[r].startCount
        /\ runner'[r].registered = runner[r].registered /\ runner'[r].recent = runner[r].recent
        /\ \A s \in Runners \ {r} : runner'[s] = runner[s]
    BY <2>1 DEF TypeOK, RunnerType
  <2>3. k \in Attempt /\ runner[r].proc \in {0, k}
    <3>1. k \in Attempt
      BY <1>6 DEF StartOf, Attempt, ConstantsAssumption
    <3> QED
      BY <1>2, <1>6, <3>1, Excluded
  <2>4. /\ \A s \in Runners, n \in Attempt : process'[s][n].os = process[s][n].os
        /\ \A s \in Runners, n \in Attempt : s # r \/ n # k => process'[s][n] = process[s][n]
        /\ \/ process'[r][k] = process[r][k]
           \/ process'[r][k].os = "alive" /\ process'[r][k].onExit = "stop"
    <3>1. process[r][k] \in ProcessType
      BY <2>3, ParameterTypes
    <3>2. CASE process[r][k].os = "alive"
      <4> DEFINE stopped == [process[r][k] EXCEPT !.onExit = "stop", !.killTimer = "armed"]
      <4>1. stopped.os = "alive" /\ stopped.onExit = "stop"
        BY <3>1, <3>2 DEF ProcessType
      <4>2. process'[r][k] = stopped
        BY <2>1, <2>3, <3>2 DEF TypeOK
      <4>3. \A s \in Runners, n \in Attempt : s # r \/ n # k => process'[s][n] = process[s][n]
        BY <2>1, <3>2 DEF TypeOK
      <4> HIDE DEF stopped
      <4> QED
        BY <3>2, <4>1, <4>2, <4>3
    <3>3. CASE process[r][k].os # "alive"
      BY <2>1, <3>3
    <3> QED
      BY <3>2, <3>3
  <2>5. OthersKept(r)
    BY <1>3, <1>4, <2>2, <2>4 DEF OthersKept, Kept, SameProcess
  <2>6. AttemptsFresh(r)'
    BY <1>1, <1>2, <1>3, <2>2, <2>4 DEF Good, AttemptsFresh, Born
  <2>7. EndingsCurrent(r)'
    BY <2>2 DEF EndingsCurrent
  <2>8. HandlersMatch(r)'
    <3>1. \A n \in Attempt : n # 0
      BY DEF Attempt
    <3> QED
      BY <1>1, <1>2, <2>2, <2>4, <3>1 DEF Good, HandlersMatch, Born
  <2>9. RowFollows(r)'
    <3>1. \A v \in Last(writes', r) : v.op # "running"
      BY <1>1, <1>2, <1>6, LastTold DEF Fits
    <3> QED
      BY <1>3, <2>2, <3>1 DEF RowFollows
  <2>10. ViewFollows(r)'
    <3>1. CASE runner[r].proc = 0
      BY <1>1, <1>2, <1>4, <2>2, <2>4, <3>1 DEF Good, ViewFollows
    <3>2. CASE runner[r].proc = k
      BY <1>2, <2>2, <2>3, <2>4, <3>2 DEF Good, HandlersMatch, ViewFollows
    <3> QED
      BY <2>3, <3>1, <3>2
  <2> QED
    BY <1>1, <2>5, <2>6, <2>7, <2>8, <2>9, <2>10, StepOfOne DEF Good
<1> QED
  BY <1>5, <1>6

\* The answer to status starting: behind a start wait only stops that saw no
\* process, so what the launch reports is what the row will say.
LEMMA LaunchAgrees ==
  ASSUME TypeOK, ConstantsAssumption, StartsExclude, Agreement, writes # <<>>,
         NEW r \in Runners, NEW k \in StartOf, NEW then \in Caller, Head(writes).r = r,
         Head(writes).op = "starting", Head(writes).k = k, Launch(r, k, then)
  PROVE  Agreement'
<1> DEFINE w == Head(writes)
           q == Tail(writes)
<1>1. /\ q \in Seq(UpdateType) /\ Ordered(q)
      /\ Told(writes, r) = Told(q, r) \cup {w}
      /\ \A v \in Told(q, r) : Fits(w, v)
      /\ \A s \in Runners \ {r} : Told(q, s) = Told(writes, s) /\ Last(q, s) = Last(writes, s)
  BY Performed
<1>2. Good(r) /\ w \in Told(writes, r) /\ w.op = "starting" /\ w.k = k
  BY <1>1 DEF Agreement
<1>3. runner[r].proc = 0 /\ runner[r].recent
  BY <1>2, Excluded
<1>4. \A v \in Told(q, r) : v.op = "stopped" /\ v.k = 0
  BY <1>1, <1>2 DEF Fits
<1>5. /\ k \in Attempt /\ \A n \in Attempt : Born(r, n) => n < k /\ n <= k
      /\ runner[r].registered => k <= runner[r].startCount
  <2>1. k \in Attempt /\ \A n \in Attempt : Born(r, n) => n < k
    BY <1>2 DEF Good, AttemptsFresh
  <2>2. \A n \in Attempt : n < k => n <= k
    BY <2>1 DEF Attempt, ConstantsAssumption
  <2> QED
    BY <1>2, <2>1, <2>2 DEF Good, AttemptsFresh
<1>6. k # 0 /\ k <= k /\ ~Born(r, k)
  BY <1>5 DEF Attempt, ConstantsAssumption
<1>7. process[r][k].onExit = "runner" /\ process[r][k].killTimer # "armed"
  BY <1>2, <1>5, <1>6 DEF Good, HandlersMatch
<1>8. \A n \in Attempt : process[r][n].os # "failing"
  BY <1>2 DEF Good, HandlersMatch
<1>9. /\ row'[r].present = row[r].present
      /\ row[r].present => row'[r].startCount = k
      /\ \A s \in Runners \ {r} : row'[s] = row[s]
  <2> DEFINE new == [row[r] EXCEPT !.desired = "running", !.status = "starting", !.startCount = k]
  <2>1. Patch(r, new)
    BY DEF Launch
  <2>2. new.present = row[r].present /\ new.startCount = k
    BY ParameterTypes DEF RowType
  <2> HIDE DEF new
  <2> QED
    BY <2>1, <2>2, Patched
<1>10. view' = view
  BY DEF Launch
<1>11. ASSUME NEW o \in {"running", "launchFailed"}, writes' = Append(q, Update(o, r, k, then))
       PROVE  /\ Ordered(writes') /\ \A s \in Runners \ {r} : SameQueue(s)
              /\ Update(o, r, k, then).op = o /\ Update(o, r, k, then).k = k
              /\ Told(writes', r) = Told(q, r) \cup {Update(o, r, k, then)}
              /\ Last(writes', r) = {Update(o, r, k, then)}
  <2> DEFINE u == Update(o, r, k, then)
  <2>1. u \in UpdateType /\ u.op = o /\ u.r = r /\ u.k = k /\ o # "delete"
    BY DEF Update, UpdateType, WriteOp
  <2>2. Tells(u, r) /\ \A s \in Runners \ {r} : ~Tells(u, s)
    BY <2>1 DEF Tells
  <2> HIDE DEF u, q
  <2>3. \A v \in Told(q, u.r) : Fits(v, u)
    BY <1>4, <2>1 DEF Fits
  <2>4. writes' = Append(q, u)
    BY <1>11 DEF u
  <2>5. Ordered(writes')
    BY <1>1, <2>1, <2>3, <2>4, AppendOrdered
  <2>6. /\ Told(writes', r) = Told(q, r) \cup {u} /\ Last(writes', r) = {u}
        /\ \A s \in Runners \ {r} : Told(writes', s) = Told(q, s) /\ Last(writes', s) = Last(q, s)
    BY <1>1, <2>1, <2>2, <2>4, AppendTold
  <2> QED
    BY <1>1, <2>1, <2>5, <2>6 DEF SameQueue, u
<1> HIDE DEF w, q
<1>12. ASSUME NEW os \in {"alive", "failing"},
              runner' = [runner EXCEPT ![r].proc = k],
              process' = [process EXCEPT ![r][k].os = os],
              writes' = Append(q, Update("running", r, k, then))
       PROVE  Agreement'
  <2> DEFINE u == Update("running", r, k, then)
  <2>1. /\ Ordered(writes') /\ \A s \in Runners \ {r} : SameQueue(s)
        /\ u.op = "running" /\ u.k = k
        /\ Told(writes', r) = Told(q, r) \cup {u} /\ Last(writes', r) = {u}
    BY <1>11, <1>12
  <2> HIDE DEF u
  <2>2. /\ runner'[r].proc = k /\ runner'[r].startCount = runner[r].startCount
        /\ runner'[r].registered = runner[r].registered /\ runner'[r].recent = runner[r].recent
        /\ \A s \in Runners \ {r} : runner'[s] = runner[s]
    BY <1>12 DEF TypeOK, RunnerType
  <2>3. /\ \A s \in Runners, n \in Attempt : s # r \/ n # k => process'[s][n] = process[s][n]
        /\ process'[r][k].os = os /\ process'[r][k].onExit = process[r][k].onExit
        /\ process'[r][k].killTimer = process[r][k].killTimer
    BY <1>5, <1>12 DEF TypeOK, ProcessType
  <2>4. OthersKept(r)
    BY <1>9, <1>10, <2>2, <2>3 DEF OthersKept, Kept, SameProcess
  <2>5. AttemptsFresh(r)'
    <3>1. \A n \in Attempt : Born(r, n)' => n <= k
      BY <1>5, <1>6, <2>3 DEF Born
    <3>2. \A n \in Attempt : Born(r, n)' /\ runner[r].registered => n <= runner[r].startCount
      BY <1>2, <1>5, <2>3 DEF Good, AttemptsFresh, Born
    <3> QED
      BY <1>4, <1>5, <1>9, <2>1, <2>2, <3>1, <3>2 DEF AttemptsFresh
  <2>6. EndingsCurrent(r)'
    BY <1>4, <2>1 DEF EndingsCurrent
  <2>7. HandlersMatch(r)'
    BY <1>2, <1>3, <1>4, <1>7, <1>8, <2>1, <2>2, <2>3 DEF Good, HandlersMatch, Born
  <2>8. RowFollows(r)'
    BY <1>6, <2>1, <2>2 DEF RowFollows
  <2>9. ViewFollows(r)'
    BY <1>6, <2>1, <2>2 DEF ViewFollows
  <2> QED
    BY <2>1, <2>4, <2>5, <2>6, <2>7, <2>8, <2>9, StepOfOne DEF Good
<1>13. ASSUME UNCHANGED <<runner, process>>,
              writes' = Append(q, Update("launchFailed", r, k, then))
       PROVE  Agreement'
  <2> DEFINE u == Update("launchFailed", r, k, then)
  <2>1. /\ Ordered(writes') /\ \A s \in Runners \ {r} : SameQueue(s)
        /\ u.op = "launchFailed" /\ u.k = k
        /\ Told(writes', r) = Told(q, r) \cup {u} /\ Last(writes', r) = {u}
    BY <1>11, <1>13
  <2> HIDE DEF u
  <2>2. OthersKept(r)
    BY <1>9, <1>10, <1>13 DEF OthersKept, Kept, SameProcess
  <2>3. AttemptsFresh(r)'
    BY <1>2, <1>4, <1>5, <1>9, <1>13, <2>1 DEF Good, AttemptsFresh, Born
  <2>4. EndingsCurrent(r)'
    BY <1>3, <1>13 DEF EndingsCurrent
  <2>5. HandlersMatch(r)'
    BY <1>2, <1>8, <1>13 DEF Good, HandlersMatch, Born
  <2>6. RowFollows(r)'
    BY <1>3, <1>13, <2>1 DEF RowFollows
  <2>7. ViewFollows(r)'
    BY <1>3, <1>13, <2>1 DEF ViewFollows
  <2> QED
    BY <2>1, <2>2, <2>3, <2>4, <2>5, <2>6, <2>7, StepOfOne DEF Good
<1> QED
  BY <1>12, <1>13 DEF Launch, q

-----------------------------------------------------------------------------
(* The agent process ends *)

\* The runner is told of its process's end: it is left without one, no start of
\* it waits, and the update it issues will say so.
LEMMA EndAgrees ==
  ASSUME TypeOK, StartsExclude, Agreement, NEW r \in Runners, NEW k \in Attempt,
         NEW o \in {"dead", "error"}, k \in StartOf,
         \A v \in Told(writes, r) : v.op # "starting",
         Born(r, k), process'[r][k].os = "dead", process'[r][k].onExit = process[r][k].onExit,
         process'[r][k].killTimer = "armed" => process[r][k].killTimer = "armed",
         \A s \in Runners, n \in Attempt : s # r \/ n # k => process'[s][n] = process[s][n],
         runner'[r].proc = 0, runner'[r].startCount = runner[r].startCount,
         runner'[r].registered = runner[r].registered, runner'[r].recent = runner[r].recent,
         \A s \in Runners \ {r} : runner'[s] = runner[s],
         writes' = Append(writes, Update(o, r, k, "none")), UNCHANGED row,
         \A s \in Runners \ {r} : view'[s] = view[s],
         view'[r] = "pi_error" \/ o = "dead"
  PROVE  Agreement'
<1> DEFINE u == Update(o, r, k, "none")
<1>1. u \in UpdateType /\ u.op = o /\ u.r = r /\ Tells(u, r)
  BY DEF Update, UpdateType, WriteOp, Caller, Tag, Tells
<1>2. writes' = Append(writes, u) /\ writes \in Seq(UpdateType)
  BY DEF TypeOK
<1> HIDE DEF u
<1>3. /\ Told(writes', r) = Told(writes, r) \cup {u} /\ Last(writes', r) = {u}
      /\ \A s \in Runners \ {r} : SameQueue(s)
  BY <1>1, <1>2, AppendTold, AppendElsewhere
<1>4. Ordered(writes')
  <2>1. \A v \in Told(writes, r) : Fits(v, u)
    BY <1>1 DEF Fits
  <2> QED
    BY <1>1, <1>2, <2>1, AppendOrdered DEF Agreement
<1>5. OthersKept(r)
  BY DEF OthersKept, Kept, SameProcess
<1>6. Good(r)
  BY DEF Agreement
<1>7. AttemptsFresh(r)'
  BY <1>1, <1>3, <1>6 DEF Good, AttemptsFresh, Born
<1>8. EndingsCurrent(r)'
  BY DEF EndingsCurrent
<1>9. HandlersMatch(r)'
  <2>1. ASSUME NEW n \in Attempt
        PROVE  /\ runner'[r].proc # n
               /\ ~Born(r, n)' => process'[r][n].onExit = "runner"
               /\ process'[r][n].killTimer = "armed" \/ process'[r][n].os = "killed"
                    => process'[r][n].onExit = "stop"
    BY <1>6 DEF Good, HandlersMatch, Born, Attempt
  <2>2. ASSUME NEW n \in Attempt, process'[r][n].os = "failing"
        PROVE  runner'[r].recent /\ \A v \in Told(writes', r) : v.op # "starting"
    BY <1>1, <1>3, <1>6, <2>2 DEF Good, HandlersMatch
  <2> QED
    BY <2>1, <2>2 DEF HandlersMatch
<1>10. RowFollows(r)'
  BY <1>1, <1>3 DEF RowFollows
<1>11. ViewFollows(r)'
  BY <1>1, <1>3 DEF ViewFollows
<1> QED
  BY <1>3, <1>4, <1>5, <1>7, <1>8, <1>9, <1>10, <1>11, StepOfOne DEF Good

\* A process that a stop was asked of lives on in its own way: what it does is
\* nothing to the runner, which has another process or none.
LEMMA DetachedAgrees ==
  ASSUME TypeOK, Agreement, NEW r \in Runners, NEW k \in Attempt,
         process[r][k].onExit = "stop",
         process'[r][k].onExit = "stop",
         process'[r][k].os \in {process[r][k].os, "killed", "dead"}, Born(r, k),
         \A s \in Runners, n \in Attempt : s # r \/ n # k => process'[s][n] = process[s][n],
         UNCHANGED <<runner, writes, row>>, \A s \in Runners \ {r} : view'[s] = view[s],
         \/ view'[r] = view[r] /\ (runner[r].proc # 0 \/ process'[r][k].os \in {"alive", "killed"}
                                     \/ process'[r][k].os = process[r][k].os)
         \/ runner[r].proc = 0 /\ view'[r] = "pi_exit"
  PROVE  Agreement'
<1>1. Ordered(writes') /\ \A s \in Runners : SameQueue(s)
  BY DEF Agreement, SameQueue
<1>2. OthersKept(r)
  BY DEF OthersKept, Kept, SameProcess
<1>3. Good(r)
  BY DEF Agreement
<1>4. AttemptsFresh(r)'
  BY <1>3 DEF Good, AttemptsFresh, Born
<1>5. EndingsCurrent(r)'
  BY <1>3 DEF Good, EndingsCurrent
<1>6. HandlersMatch(r)'
  BY <1>3 DEF Good, HandlersMatch, Born
<1>7. RowFollows(r)'
  BY <1>3 DEF Good, RowFollows
<1>8. ViewFollows(r)'
  BY <1>3 DEF Good, ViewFollows
<1> QED
  BY <1>1, <1>2, <1>4, <1>5, <1>6, <1>7, <1>8, StepOfOne DEF Good

\* The exit event.
LEMMA ExitAgrees ==
  ASSUME TypeOK, ConstantsAssumption, StartsExclude, Agreement,
         NEW r \in Runners, NEW k \in Attempt, Exit(r, k)
  PROVE  Agreement'
<1>1. Good(r) /\ k \in StartOf /\ k # 0
  BY DEF Agreement, Attempt, StartOf, ConstantsAssumption
<1>2. process[r][k].os \in {"alive", "killed"}
  BY DEF Exit
<1>3. /\ \A s \in Runners, n \in Attempt : s # r \/ n # k => process'[s][n] = process[s][n]
      /\ process'[r][k].os = "dead" /\ process'[r][k].killTimer = "none"
      /\ process'[r][k].onExit = process[r][k].onExit
  <2> DEFINE ended == [process[r][k] EXCEPT !.os = "dead", !.killTimer = "none"]
  <2>1. ended.os = "dead" /\ ended.killTimer = "none" /\ ended.onExit = process[r][k].onExit
    BY ParameterTypes DEF ProcessType
  <2>2. process'[r][k] = ended
    BY DEF Exit, TypeOK
  <2>3. \A s \in Runners, n \in Attempt : s # r \/ n # k => process'[s][n] = process[s][n]
    BY DEF Exit, TypeOK
  <2> HIDE DEF ended
  <2> QED
    BY <2>1, <2>2, <2>3
<1>4. CASE process[r][k].onExit = "runner"
  <2>1. runner[r].proc = k
    BY <1>1, <1>2, <1>4 DEF Good, HandlersMatch, StartsExclude, Tracked, Live
  <2>2. /\ runner' = [runner EXCEPT ![r].proc = 0]
        /\ writes' = Append(writes, Update("dead", r, k, "none"))
        /\ UNCHANGED <<row, view>>
    BY <1>4, <2>1 DEF Exit
  <2>3. \A v \in Told(writes, r) : v.op # "starting"
    BY <1>1, <2>1, Excluded
  <2>4. /\ runner'[r].proc = 0 /\ runner'[r].startCount = runner[r].startCount
        /\ runner'[r].registered = runner[r].registered /\ runner'[r].recent = runner[r].recent
        /\ \A s \in Runners \ {r} : runner'[s] = runner[s]
    BY <2>2 DEF TypeOK, RunnerType
  <2> QED
    BY <1>1, <1>2, <1>3, <2>2, <2>3, <2>4, EndAgrees DEF Born
<1>5. CASE process[r][k].onExit = "stop"
  <2>1. UNCHANGED <<runner, writes, row>>
    BY <1>5 DEF Exit
  <2>2. /\ runner[r].proc # 0 => view'[r] = view[r]
        /\ runner[r].proc = 0 => view'[r] = "pi_exit"
        /\ \A s \in Runners \ {r} : view'[s] = view[s]
    BY <1>5 DEF Exit, StaleExit, TypeOK
  <2> QED
    BY <1>2, <1>3, <1>5, <2>1, <2>2, DetachedAgrees DEF Born
<1> QED
  BY <1>4, <1>5 DEF Exit

\* The error event of a process that could not be spawned.
LEMMA SpawnErrorAgrees ==
  ASSUME TypeOK, ConstantsAssumption, StartsExclude, Agreement,
         NEW r \in Runners, NEW k \in Attempt, SpawnError(r, k)
  PROVE  Agreement'
<1>1. Good(r) /\ k \in StartOf
  BY DEF Agreement, Attempt, StartOf, ConstantsAssumption
<1>2. runner[r].proc \in {0, k} /\ \A v \in Told(writes, r) : v.op # "starting"
  BY <1>1 DEF SpawnError, Good, HandlersMatch
<1>3. /\ \A s \in Runners, n \in Attempt : s # r \/ n # k => process'[s][n] = process[s][n]
      /\ process'[r][k].os = "dead" /\ process'[r][k].killTimer = process[r][k].killTimer
      /\ process'[r][k].onExit = process[r][k].onExit
  BY DEF SpawnError, TypeOK, ProcessType
<1>4. /\ runner'[r].proc = 0 /\ runner'[r].startCount = runner[r].startCount
      /\ runner'[r].registered = runner[r].registered /\ runner'[r].recent = runner[r].recent
      /\ \A s \in Runners \ {r} : runner'[s] = runner[s]
  BY <1>2 DEF SpawnError, TypeOK, RunnerType
<1>5. /\ writes' = Append(writes, Update("error", r, k, "none")) /\ UNCHANGED row
      /\ view'[r] = "pi_error" /\ \A s \in Runners \ {r} : view'[s] = view[s]
      /\ Born(r, k)
  BY DEF SpawnError, TypeOK, Born
<1> QED
  BY <1>1, <1>2, <1>3, <1>4, <1>5, EndAgrees

\* The escalation.
LEMMA KillTimerAgrees ==
  ASSUME TypeOK, Agreement, NEW r \in Runners, NEW k \in Attempt, KillTimer(r, k)
  PROVE  Agreement'
<1>1. Good(r) /\ process[r][k].killTimer = "armed"
  BY DEF Agreement, KillTimer
<1>2. process[r][k].onExit = "stop" /\ Born(r, k)
  BY <1>1 DEF Good, HandlersMatch
<1>3. /\ \A s \in Runners, n \in Attempt : s # r \/ n # k => process'[s][n] = process[s][n]
      /\ process'[r][k].os = IF process[r][k].os = "alive" THEN "killed" ELSE process[r][k].os
      /\ process'[r][k].onExit = "stop"
  <2> DEFINE ended == [process[r][k] EXCEPT !.killTimer = "none",
                                            !.os = IF @ = "alive" THEN "killed" ELSE @]
  <2>1. /\ ended.os = IF process[r][k].os = "alive" THEN "killed" ELSE process[r][k].os
        /\ ended.onExit = "stop"
    BY <1>2, ParameterTypes DEF ProcessType
  <2>2. process'[r][k] = ended
    BY DEF KillTimer, TypeOK
  <2>3. \A s \in Runners, n \in Attempt : s # r \/ n # k => process'[s][n] = process[s][n]
    BY DEF KillTimer, TypeOK
  <2> HIDE DEF ended
  <2> QED
    BY <2>1, <2>2, <2>3
<1>4. UNCHANGED <<runner, writes, row, view>>
  BY DEF KillTimer
<1> QED
  BY <1>2, <1>3, <1>4, DetachedAgrees

-----------------------------------------------------------------------------
(* Every step *)

\* A step that writes to inputs, queues and probes only.
LEMMA CoreQuiet ==
  ASSUME Agreement, \A s \in Runners : SameCore(s), UNCHANGED <<writes, row, view>>
  PROVE  Agreement'
<1>1. Ordered(writes') /\ \A s \in Runners : SameQueue(s)
  BY DEF Agreement, SameQueue
<1>2. \A s \in Runners : Kept(s)
  BY DEF SameCore, Kept
<1> QED
  BY <1>1, <1>2, QuietStep

\* A delete says nothing of a status.
LEMMA DeleteTellsNothing ==
  ASSUME TypeOK, Agreement, NEW w \in UpdateType, w.op = "delete",
         \/ writes' = Append(writes, w)
         \/ writes # <<>> /\ w = Head(writes) /\ writes' = Tail(writes)
  PROVE  Ordered(writes') /\ \A s \in Runners : SameQueue(s)
<1>1. writes \in Seq(UpdateType) /\ \A s \in Runners : ~Tells(w, s)
  BY DEF TypeOK, Tells
<1>2. CASE writes' = Append(writes, w)
  BY <1>1, <1>2, AppendTold, AppendOrdered DEF Agreement, SameQueue
<1>3. CASE writes # <<>> /\ w = Head(writes) /\ writes' = Tail(writes)
  BY <1>1, <1>3, TailTold, TailOrdered DEF Agreement, SameQueue
<1> QED
  BY <1>2, <1>3

\* The store performs its oldest update, whichever it is.
LEMMA StoreWriteAgrees ==
  ASSUME TypeOK, ConstantsAssumption, StartsExclude, Agreement, StoreWrite
  PROVE  Agreement'
<1> DEFINE w == Head(writes)
<1>1. w \in UpdateType /\ writes # <<>>
  BY TailType DEF StoreWrite
<1>2. w.r \in Runners /\ w.k \in StartOf /\ w.then \in Caller
  BY <1>1 DEF UpdateType
<1>3. CASE w.op = "starting" /\ Launch(w.r, w.k, w.then)
  BY <1>1, <1>2, <1>3, LaunchAgrees
<1>4. CASE w.op = "launchFailed" /\ LaunchFailed(w.r, w.then)
  <2>1. /\ \A s \in Runners : SameCore(s)
        /\ view'[w.r] = "pi_error" /\ \A s \in Runners \ {w.r} : view'[s] = view[s]
        /\ Patch(w.r, [row[w.r] EXCEPT !.status = "dead"]) /\ writes' = Tail(writes)
    BY <1>2, <1>4, AfterStartCore DEF LaunchFailed, TypeOK
  <2> QED
    BY <1>1, <1>2, <1>4, <2>1, EndingAgrees
<1>5. CASE w.op = "running" /\ Running(w.r, w.k, w.then)
  BY <1>1, <1>2, <1>5, RunningAgrees
<1>6. CASE w.op = "stopped" /\ Stopped(w.r, w.k, w.then)
  BY <1>1, <1>2, <1>6, StoppedAgrees
<1>7. CASE w.op = "dead" /\ Died(w.r)
  <2>1. /\ \A s \in Runners : SameCore(s)
        /\ view'[w.r] = "pi_exit" /\ \A s \in Runners \ {w.r} : view'[s] = view[s]
        /\ Patch(w.r, [row[w.r] EXCEPT !.status = "dead"]) /\ writes' = Tail(writes)
    BY <1>2, <1>7 DEF Died, TypeOK, SameCore, SameProcess
  <2> QED
    BY <1>1, <1>2, <1>7, <2>1, EndingAgrees
<1>8. CASE w.op = "error" /\ SpawnFailed(w.r)
  <2>1. /\ \A s \in Runners : SameCore(s) /\ view'[s] = view[s]
        /\ Patch(w.r, [row[w.r] EXCEPT !.status = "dead"]) /\ writes' = Tail(writes)
    BY <1>2, <1>8 DEF SpawnFailed, SameCore, SameProcess
  <2> QED
    BY <1>1, <1>2, <1>8, <2>1, EndingAgrees
<1>9. CASE w.op = "delete" /\ Deleted(w.r)
  <2>1. \A s \in Runners : Kept(s)
    BY <1>2, <1>9 DEF Deleted, Kept, SameProcess, TypeOK, RunnerType, RowType
  <2>2. Ordered(writes') /\ \A s \in Runners : SameQueue(s)
    <3>1. writes' = Tail(writes)
      BY <1>9 DEF Deleted
    <3> QED
      BY <1>1, <1>9, <3>1, DeleteTellsNothing
  <2> QED
    BY <2>1, <2>2, QuietStep
<1> QED
  BY <1>3, <1>4, <1>5, <1>6, <1>7, <1>8, <1>9 DEF StoreWrite

\* The timers of a runner.
LEMMA TimersAgree ==
  ASSUME TypeOK, ConstantsAssumption, StartsExclude, Agreement, NEW r \in Runners, Timers(r)
  PROVE  Agreement'
<1>1. CASE DebounceElapses(r)
  <2>1. \A s \in Runners : Kept(s)
    BY <1>1 DEF DebounceElapses, Kept, SameProcess, TypeOK, RunnerType
  <2> QED
    BY <1>1, <2>1, QuietOne DEF DebounceElapses, OthersKept
<1>2. ASSUME NEW fired \in [Runners -> RunnerType],
             \A s \in Runners \ {r} : fired[s] = runner[s],
             fired[r].proc = runner[r].proc, fired[r].recent = runner[r].recent,
             fired[r].startCount = runner[r].startCount,
             fired[r].registered = runner[r].registered,
             \/ runner[r].registered /\ StartRunner(fired, r, "none")
             \/ runner' = fired /\ UNCHANGED <<process, writes, row, view>>
      PROVE  Agreement'
  <2>1. CASE runner[r].registered /\ StartRunner(fired, r, "none")
    BY <1>2, <2>1, StartRunnerAgrees DEF Caller, Tag
  <2>2. CASE runner' = fired /\ UNCHANGED <<process, writes, row, view>>
    <3>1. \A s \in Runners : SameCore(s)
      BY <1>2, <2>2 DEF SameCore, SameProcess
    <3> QED
      BY <2>2, <3>1, CoreQuiet
  <2> QED
    BY <1>2, <2>1, <2>2
<1>3. CASE DeferredStart(r)
  <2> DEFINE fired == [runner EXCEPT ![r].startTimer = "none"]
  <2>1. [runner[r] EXCEPT !.startTimer = "none"] \in RunnerType
    BY ParameterTypes DEF RunnerType, TimerState
  <2>2. /\ fired \in [Runners -> RunnerType] /\ \A s \in Runners \ {r} : fired[s] = runner[s]
        /\ fired[r].proc = runner[r].proc /\ fired[r].recent = runner[r].recent
        /\ fired[r].startCount = runner[r].startCount
        /\ fired[r].registered = runner[r].registered
    BY <2>1 DEF TypeOK, RunnerType
  <2>3. \/ runner[r].registered /\ StartRunner(fired, r, "none")
        \/ runner' = fired /\ UNCHANGED <<process, writes, row, view>>
    BY <1>3 DEF DeferredStart
  <2> HIDE DEF fired
  <2> QED
    BY <1>2, <2>2, <2>3
<1>4. CASE RestartTimer(r)
  <2> DEFINE fired == [runner EXCEPT ![r].restartTimer = FALSE]
  <2>1. [runner[r] EXCEPT !.restartTimer = FALSE] \in RunnerType
    BY ParameterTypes DEF RunnerType
  <2>2. /\ fired \in [Runners -> RunnerType] /\ \A s \in Runners \ {r} : fired[s] = runner[s]
        /\ fired[r].proc = runner[r].proc /\ fired[r].recent = runner[r].recent
        /\ fired[r].startCount = runner[r].startCount
        /\ fired[r].registered = runner[r].registered
    BY <2>1 DEF TypeOK, RunnerType
  <2>3. \/ runner[r].registered /\ StartRunner(fired, r, "none")
        \/ runner' = fired /\ UNCHANGED <<process, writes, row, view>>
    BY <1>4 DEF RestartTimer
  <2> HIDE DEF fired
  <2> QED
    BY <1>2, <2>2, <2>3
<1>5. CASE ResumeTimer(r)
  <2>1. \A s \in Runners : SameCore(s)
    <3>1. CASE runner' = [runner EXCEPT ![r].resumeTimer = FALSE] /\ UNCHANGED process
      BY <3>1 DEF SameCore, SameProcess, TypeOK, RunnerType
    <3> QED
      BY <1>5, <3>1, FinishResumeCore DEF ResumeTimer
  <2> QED
    BY <1>5, <2>1, CoreQuiet DEF ResumeTimer
<1> QED
  BY <1>1, <1>3, <1>4, <1>5 DEF Timers

\* What the agent process does.
LEMMA AgentAgrees ==
  ASSUME TypeOK, ConstantsAssumption, StartsExclude, Agreement, NEW r \in Runners, Agent(r)
  PROVE  Agreement'
<1>1. CASE ResumeResponse(r)
  BY <1>1, FinishResumeCore, CoreQuiet DEF ResumeResponse
<1>2. CASE Line(r)
  <2>1. PICK tells \in BOOLEAN :
          runner' = [runner EXCEPT ![r].unanswered = 0, ![r].sessionRef = @ \/ tells]
    BY <1>2 DEF Line
  <2>2. UNCHANGED <<process, writes, row, view>>
    BY <1>2 DEF Line
  <2>3. \A s \in Runners : SameCore(s)
    BY <2>1, <2>2 DEF SameCore, SameProcess, TypeOK, RunnerType
  <2> QED
    BY <2>2, <2>3, CoreQuiet
<1> QED
  BY <1>1, <1>2, ExitAgrees, SpawnErrorAgrees, KillTimerAgrees DEF Agent

\* The clients' requests.
LEMMA RequestsAgree ==
  ASSUME TypeOK, ConstantsAssumption, StartsExclude, Agreement, NEW r \in Runners, Requests(r)
  PROVE  Agreement'
<1>0. Tag \subseteq Caller /\ Commands \subseteq Caller
  BY DEF Caller
<1>1. ASSUME NEW c \in Commands, Send(r, c)
      PROVE  Agreement'
  <2>1. CASE StartRunner(runner, r, c)
    <3>1. runner \in [Runners -> RunnerType] /\ runner[r].registered
      BY <1>1 DEF TypeOK, Send, Request
    <3> QED
      BY <1>0, <2>1, <3>1, StartRunnerAgrees
  <2>2. CASE Deliver(r, c) /\ UNCHANGED <<writes, row, view>>
    BY <2>2, DeliverCore, CoreQuiet
  <2> QED
    BY <1>1, <2>1, <2>2 DEF Send
<1>2. ASSUME NEW then \in {"none", "restart", "remove"}, StopRunner(r, then),
             UNCHANGED <<runner, process, row, view>>
      PROVE  Agreement'
  <2>1. then \in Caller /\ OthersKept(r)
    BY <1>0, <1>2 DEF Tag, OthersKept, Kept, SameProcess
  <2> QED
    BY <1>2, <2>1, StopRunnerAgrees
<1>3. CASE RemoveRuntime(r)
  <2>1. \A s \in Runners : Kept(s)
    BY <1>3 DEF RemoveRuntime, Kept, SameProcess, TypeOK, RunnerType, RowType
  <2> QED
    BY <1>3, <2>1, QuietOne DEF RemoveRuntime, OthersKept
<1>4. ASSUME NEW missing \in BOOLEAN, DeleteEmpty(r, missing)
      PROVE  Agreement'
  <2> DEFINE w == Update("delete", r, 0, "none")
  <2>1. w \in UpdateType /\ w.op = "delete"
    BY <1>0 DEF Update, UpdateType, WriteOp, StartOf, ConstantsAssumption, Tag
  <2>2. writes' = Append(writes, w) /\ UNCHANGED <<runner, process, row, view>>
    BY <1>4 DEF DeleteEmpty
  <2>3. Ordered(writes') /\ \A s \in Runners : SameQueue(s)
    BY <2>1, <2>2, DeleteTellsNothing
  <2>4. \A s \in Runners : Kept(s)
    BY <2>2 DEF Kept, SameProcess
  <2> QED
    BY <2>3, <2>4, QuietStep
<1> QED
  BY <1>1, <1>2, <1>3, <1>4 DEF Requests, Stop, Restart, DeleteSession

\* The periodic tasks.
LEMMA PeriodicAgree ==
  ASSUME TypeOK, ConstantsAssumption, StartsExclude, Agreement, NEW r \in Runners,
         Reap(r) \/ \E subscribed \in BOOLEAN : WatchdogTick(r, subscribed)
  PROVE  Agreement'
<1>0. "none" \in Caller
  BY DEF Caller, Tag
<1>1. CASE Reap(r)
  <2>1. StopRunner(r, "none") /\ UNCHANGED <<runner, process, row, view>>
    BY <1>1 DEF Reap
  <2>2. OthersKept(r)
    BY <2>1 DEF OthersKept, Kept, SameProcess
  <2> QED
    BY <1>0, <2>1, <2>2, StopRunnerAgrees
<1>2. ASSUME NEW subscribed \in BOOLEAN, WatchdogTick(r, subscribed)
      PROVE  Agreement'
  <2>0. PICK n : runner' = [runner EXCEPT ![r].unanswered = n]
    BY <1>2 DEF WatchdogTick
  <2>1. (\A s \in Runners : SameCore(s)) /\ UNCHANGED <<process, row>> /\ runner[r].proc # 0
    BY <1>2, <2>0 DEF WatchdogTick, SameCore, SameProcess, TypeOK, RunnerType
  <2>2. CASE UNCHANGED <<writes, view>>
    BY <2>1, <2>2, CoreQuiet
  <2>3. CASE StopRunner(r, "none") /\ view' = [view EXCEPT ![r] = "runner_unhealthy"]
    <3>1. OthersKept(r)
      BY <2>1, <2>3 DEF OthersKept, Kept, SameCore, TypeOK
    <3>2. /\ runner'[r].proc = runner[r].proc /\ runner'[r].startCount = runner[r].startCount
          /\ runner'[r].registered = runner[r].registered /\ runner'[r].recent = runner[r].recent
      BY <2>1 DEF SameCore
    <3> QED
      BY <1>0, <2>1, <2>3, <3>1, <3>2, StopRunnerAgrees
  <2> QED
    BY <1>2, <2>2, <2>3 DEF WatchdogTick
<1> QED
  BY <1>1, <1>2

\* A reload only retires timers.
LEMMA ReloadAgrees ==
  ASSUME TypeOK, Agreement, Reload
  PROVE  Agreement'
<1>1. \A x \in RunnerType : \A t :
        /\ [x EXCEPT !.startTimer = t].proc = x.proc
        /\ [x EXCEPT !.startTimer = t].recent = x.recent
        /\ [x EXCEPT !.startTimer = t].startCount = x.startCount
        /\ [x EXCEPT !.startTimer = t].registered = x.registered
  BY DEF RunnerType
<1>2. \A x \in ProcessType :
        /\ [x EXCEPT !.killTimer = Inert(@)].os = x.os
        /\ [x EXCEPT !.killTimer = Inert(@)].onExit = x.onExit
        /\ [x EXCEPT !.killTimer = Inert(@)].killTimer # "armed"
  BY DEF ProcessType, Inert
<1>3. \A s \in Runners : SameCore(s)
  BY <1>1, <1>2, ParameterTypes DEF Reload, SameCore, SameProcess
<1> QED
  BY <1>3, CoreQuiet DEF Reload

\* After a crash nothing waits, nothing runs and no row says otherwise.
LEMMA CrashAgrees ==
  ASSUME TypeOK, Agreement, Crash
  PROVE  Agreement'
<1>1. writes' = <<>>
  BY DEF Crash
<1>2. Ordered(writes') /\ \A r \in Runners : Told(writes', r) = {} /\ Last(writes', r) = {}
  BY <1>1 DEF Ordered, Told, Last
<1>3. ASSUME NEW r \in Runners
      PROVE  Good(r)'
  <2>0. Good(r)
    BY DEF Agreement
  <2>1. /\ runner'[r].proc = 0 /\ runner'[r].registered = row[r].present
        /\ runner'[r].startCount = row[r].startCount
    BY DEF Crash, Restored
  <2>2. /\ row'[r].present = row[r].present /\ row'[r].startCount = row[r].startCount
        /\ row[r].present => row'[r].status \notin {"starting", "running"}
    <3> DEFINE new == [row[r] EXCEPT !.desired = "stopped", !.status = "interrupted"]
    <3>1. /\ new.present = row[r].present /\ new.startCount = row[r].startCount
          /\ new.status = "interrupted"
      BY ParameterTypes DEF RowType
    <3>2. row'[r] = IF row[r].present /\ row[r].status \in {"starting", "running"} THEN new ELSE row[r]
      BY DEF Crash, Interrupted
    <3> HIDE DEF new
    <3> QED
      BY <3>1, <3>2
  <2>3. view'[r] = "none"
    BY DEF Crash
  <2>4. ASSUME NEW k \in Attempt
        PROVE  /\ Born(r, k)' = Born(r, k) /\ process'[r][k].os \in {"unborn", "dead"}
               /\ process'[r][k].onExit = process[r][k].onExit
               /\ process'[r][k].killTimer \in {"none", process[r][k].killTimer}
    <3> DEFINE ended == [process[r][k] EXCEPT !.os = "dead", !.killTimer = "none"]
    <3>1. ended.os = "dead" /\ ended.killTimer = "none" /\ ended.onExit = process[r][k].onExit
      BY ParameterTypes DEF ProcessType
    <3>2. process'[r][k] = IF process[r][k].os = "unborn" THEN process[r][k] ELSE ended
      BY DEF Crash
    <3> HIDE DEF ended
    <3> QED
      BY <3>1, <3>2 DEF Born
  <2>5. AttemptsFresh(r)'
    BY <1>2, <2>0, <2>1, <2>2, <2>4 DEF Good, AttemptsFresh
  <2>6. EndingsCurrent(r)'
    BY <1>2 DEF EndingsCurrent
  <2>7. HandlersMatch(r)'
    BY <2>0, <2>1, <2>4 DEF Good, HandlersMatch, Attempt
  <2>8. RowFollows(r)'
    BY <1>2, <2>1, <2>2 DEF RowFollows
  <2>9. ViewFollows(r)'
    BY <2>1, <2>3 DEF ViewFollows
  <2> QED
    BY <2>5, <2>6, <2>7, <2>8, <2>9 DEF Good
<1> QED
  BY <1>2, <1>3 DEF Agreement

\* At first nothing waits, nothing runs and every row says stopped.
LEMMA InitAgrees ==
  ASSUME Init
  PROVE  Agreement
<1>1. Ordered(writes) /\ \A r \in Runners : Told(writes, r) = {} /\ Last(writes, r) = {}
  BY DEF Init, Ordered, Told, Last
<1>2. ASSUME NEW r \in Runners
      PROVE  Good(r)
  <2>1. runner[r].proc = 0
    BY DEF Init, Restored
  <2>2. \A k \in Attempt : process[r][k] = Unborn
    BY DEF Init
  <2>3. row[r].status = "stopped" /\ view[r] = "none"
    BY DEF Init
  <2> QED
    BY <1>1, <2>1, <2>2, <2>3
    DEF Good, AttemptsFresh, EndingsCurrent, HandlersMatch, RowFollows, ViewFollows, Born, Unborn, Attempt
<1> QED
  BY <1>1, <1>2 DEF Agreement

\* Every step keeps the agreement.
LEMMA StepAgrees ==
  ASSUME TypeOK, ConstantsAssumption, StartsExclude, Agreement, [Next]_vars
  PROVE  Agreement'
<1>1. CASE UNCHANGED vars
  <2>1. (\A s \in Runners : SameCore(s)) /\ UNCHANGED <<writes, row, view>>
    BY <1>1 DEF vars, SameCore, SameProcess
  <2> QED
    BY <2>1, CoreQuiet
<1> QED
  BY <1>1, StoreWriteAgrees, TimersAgree, RequestsAgree, AgentAgrees, PeriodicAgree,
     ReloadAgrees, CrashAgrees
  DEF Next

-----------------------------------------------------------------------------
(* What follows *)

\* While the store answers within the respawn debounce, what the manager tells
\* agrees with what it does, from the start and after every step.
THEOREM Agrees == Spec => []AInv
<1>1. Init => AInv
  BY InitType, InitExcludes, InitAgrees, ConstantsAssumption DEF AInv, IInv
<1>2. AInv /\ [Next]_vars => AInv'
  BY StepType, StepExcludes, StepAgrees, ConstantsAssumption DEF AInv, IInv
<1> QED
  BY <1>1, <1>2, PTL DEF Spec

\* The persisted rows: once no update of a runner waits, its row says running
\* exactly when the runner has a process, however the starts, stops, exits and
\* spawn failures that wrote it overtook each other.
THEOREM RowsTellTruth == Spec => []StatusAgrees
<1>1. ASSUME AInv, ~SlowStore, NEW r \in Runners,
             \A i \in 1..Len(writes) : writes[i].r # r, row[r].present
      PROVE  IF runner[r].proc # 0 THEN row[r].status = "running"
                                   ELSE row[r].status \notin {"starting", "running"}
  <2>1. RowFollows(r)
    BY <1>1 DEF AInv, Agreement, Good
  <2>2. Told(writes, r) = {}
    BY <1>1 DEF Told, Tells
  <2> QED
    BY <1>1, <2>1, <2>2 DEF RowFollows
<1>2. AInv => StatusAgrees
  BY <1>1 DEF StatusAgrees
<1> QED
  BY <1>2, Agrees, PTL

\* The clients' last event: once no update of a runner waits and no process but
\* the one it tracks lives, the clients were told of the one it has, or of the
\* end of the last it had.
THEOREM ClientsToldTruth == Spec => []ClientsAgree
<1>1. ASSUME AInv, ~SlowStore, NEW r \in Runners, Settled(r)
      PROVE  IF runner[r].proc # 0 THEN view[r] = "pi_started"
                                   ELSE view[r] \in {"none", "pi_exit", "pi_error"}
  <2>1. ViewFollows(r)
    BY <1>1 DEF AInv, Agreement, Good
  <2>2. Told(writes, r) = {}
    BY <1>1 DEF Told, Tells, Settled
  <2>3. \A k \in Attempt : process[r][k].os \in {"alive", "killed", "failing"} => runner[r].proc # 0
    BY <1>1 DEF Settled, Attempt
  <2> QED
    BY <2>1, <2>2, <2>3 DEF ViewFollows
<1>2. AInv => ClientsAgree
  BY <1>1 DEF ClientsAgree
<1> QED
  BY <1>2, Agrees, PTL

-----------------------------------------------------------------------------
(* What became of every command *)

Occurs(q, c) == \E i \in 1..Len(q) : q[i] = c

Once(q, c) == \A i, j \in 1..Len(q) : q[i] = c /\ q[j] = c => i = j

Input(r, k) == process[r][k].stdin

\* A command was written to at most one process, once, and then it is delivered.
Inputs(c) ==
  /\ \A r \in Runners, k \in Attempt : Once(Input(r, k), c)
  /\ \A r, s \in Runners, k, n \in Attempt :
       Occurs(Input(r, k), c) /\ Occurs(Input(s, n), c) => r = s /\ k = n
  /\ (\E r \in Runners, k \in Attempt : Occurs(Input(r, k), c)) <=> command[c] = "delivered"

\* A command is held for at most one runner, once, and then it is held.
Queues(c) ==
  /\ \A r \in Runners : Once(runner[r].resumeQueue, c)
  /\ \A r, s \in Runners :
       Occurs(runner[r].resumeQueue, c) /\ Occurs(runner[s].resumeQueue, c) => r = s
  /\ (\E r \in Runners : Occurs(runner[r].resumeQueue, c)) <=> command[c] = "held"

Accounted == \A c \in Commands : Inputs(c) /\ Queues(c)

\* Command c waits for the start it asked for.
Asks(q, c) == \E i \in 1..Len(q) : q[i].then = c

\* A command asks for one start, and every attempt has a number.
WellCalled(q) ==
  /\ \A i \in 1..Len(q) : q[i].op \in {"starting", "running"} => q[i].k # 0
  /\ \A i, j \in 1..Len(q) : q[i].then = q[j].then /\ q[i].then \in Commands => i = j

Books ==
  /\ WellCalled(writes)
  /\ \A c \in Commands : Asks(writes, c) => command[c] = "starting"
  /\ Accounted

\* No input or held queue changes.
SameInputs == \A r \in Runners, k \in Attempt : process'[r][k].stdin = process[r][k].stdin

SameQueues == \A r \in Runners : runner'[r].resumeQueue = runner[r].resumeQueue

\* The commands other than c that wait for a start go on waiting.
OthersWait(c) ==
  \A d \in Commands \ {c} : command[d] = "starting" => command'[d] = "starting"

\* Issuing an update.
LEMMA AppendCalled ==
  ASSUME NEW q \in Seq(UpdateType), NEW u \in UpdateType, WellCalled(q),
         u.then \in Commands => ~Asks(q, u.then), u.op \in {"starting", "running"} => u.k # 0
  PROVE  /\ WellCalled(Append(q, u))
         /\ \A c \in Commands : Asks(Append(q, u), c) => Asks(q, c) \/ c = u.then
<1> DEFINE n == Len(q)
           p == Append(q, u)
<1>1. n \in Nat /\ Len(p) = n + 1 /\ p[n + 1] = u /\ \A i \in 1..n : p[i] = q[i]
  BY AppendElements
<1>2. \A i : i \in 1..Len(p) <=> i \in 1..n \/ i = n + 1
  BY <1>1
<1> HIDE DEF n, p
<1>3. ASSUME NEW i \in 1..Len(p), NEW j \in 1..Len(p), p[i].then = p[j].then, p[i].then \in Commands
      PROVE  i = j
  <2>1. CASE i \in 1..n /\ j \in 1..n
    BY <1>1, <1>3, <2>1 DEF WellCalled, n
  <2>2. CASE i = n + 1 \/ j = n + 1
    BY <1>1, <1>2, <1>3, <2>2 DEF Asks, n
  <2> QED
    BY <1>2, <2>1, <2>2
<1>4. \A i \in 1..Len(p) : p[i].op \in {"starting", "running"} => p[i].k # 0
  BY <1>1, <1>2 DEF WellCalled, n
<1>5. \A c \in Commands : Asks(p, c) => Asks(q, c) \/ c = u.then
  BY <1>1, <1>2 DEF Asks, n
<1> QED
  BY <1>3, <1>4, <1>5 DEF WellCalled, p

\* Performing the oldest one.
LEMMA TailCalled ==
  ASSUME NEW q \in Seq(UpdateType), q # <<>>, WellCalled(q)
  PROVE  /\ WellCalled(Tail(q))
         /\ \A c \in Commands : Asks(Tail(q), c) => Asks(q, c) /\ c # Head(q).then
         /\ Asks(q, Head(q).then)
         /\ Head(q).op \in {"starting", "running"} => Head(q).k # 0
<1> DEFINE n == Len(q)
           p == Tail(q)
<1>1. n \in Nat /\ n > 0 /\ Len(p) = n - 1 /\ Head(q) = q[1]
  OBVIOUS
<1>2. \A i \in 1..(n - 1) : i + 1 \in 1..n /\ i + 1 # 1 /\ p[i] = q[i + 1]
  BY <1>1
<1>3. 1 \in 1..n
  BY <1>1
<1> HIDE DEF n, p
<1>4. ASSUME NEW i \in 1..Len(p), NEW j \in 1..Len(p), p[i].then = p[j].then, p[i].then \in Commands
      PROVE  i = j
  <2>1. i + 1 = j + 1
    BY <1>1, <1>2, <1>4 DEF WellCalled, n
  <2> QED
    BY <1>1, <2>1
<1>5. \A i \in 1..Len(p) : p[i].op \in {"starting", "running"} => p[i].k # 0
  BY <1>1, <1>2 DEF WellCalled, n
<1>6. ASSUME NEW c \in Commands, NEW i \in 1..Len(p), p[i].then = c
      PROVE  Asks(q, c) /\ c # Head(q).then
  BY <1>1, <1>2, <1>3, <1>6 DEF WellCalled, Asks, n
<1>7. Asks(q, Head(q).then) /\ (Head(q).op \in {"starting", "running"} => Head(q).k # 0)
  BY <1>1, <1>3 DEF WellCalled, Asks, n
<1> QED
  BY <1>4, <1>5, <1>6, <1>7 DEF WellCalled, Asks, p

\* What stands in a sequence that another is put behind.
LEMMA Concatenated ==
  ASSUME NEW S, NEW p \in Seq(S), NEW x \in Seq(S), NEW c
  PROVE  /\ Occurs(p \o x, c) <=> Occurs(p, c) \/ Occurs(x, c)
         /\ Once(p, c) /\ Once(x, c) /\ ~(Occurs(p, c) /\ Occurs(x, c)) => Once(p \o x, c)
<1> DEFINE m == Len(p)
           n == Len(x)
           y == p \o x
<1>1. m \in Nat /\ n \in Nat /\ Len(y) = m + n
  OBVIOUS
<1>2. \A i \in 1..m : y[i] = p[i]
  OBVIOUS
<1>3. \A i \in 1..n : y[i + m] = x[i]
  OBVIOUS
<1> HIDE DEF m, n, y
<1>4. \A i \in 1..(m + n) : i \in 1..m \/ (i - m \in 1..n /\ i = (i - m) + m)
  BY <1>1
<1>5. (\A i \in 1..m : i \in 1..(m + n)) /\ (\A i \in 1..n : i + m \in 1..(m + n))
  BY <1>1
<1>6. \A i \in 1..(m + n) : i \in 1..m \/ (i - m \in 1..n /\ y[i] = x[i - m])
  BY <1>3, <1>4
<1>7. Occurs(y, c) <=> Occurs(p, c) \/ Occurs(x, c)
  BY <1>1, <1>2, <1>3, <1>5, <1>6 DEF Occurs, m, n
<1>8. ASSUME Once(p, c), Once(x, c), ~(Occurs(p, c) /\ Occurs(x, c)),
             NEW i \in 1..Len(y), NEW j \in 1..Len(y), y[i] = c, y[j] = c
      PROVE  i = j
  <2>1. i \in 1..(m + n) /\ j \in 1..(m + n)
    BY <1>1
  <2>2. ASSUME NEW l \in 1..(m + n), y[l] = c
        PROVE  \/ l \in 1..m /\ p[l] = c /\ Occurs(p, c)
               \/ l - m \in 1..n /\ x[l - m] = c /\ Occurs(x, c)
    BY <1>2, <1>6, <2>2 DEF Occurs, m, n
  <2>3. CASE i \in 1..m /\ p[i] = c /\ Occurs(p, c)
    BY <1>8, <2>1, <2>2, <2>3 DEF Once, m
  <2>4. CASE i - m \in 1..n /\ x[i - m] = c /\ Occurs(x, c)
    <3>1. j - m \in 1..n /\ x[j - m] = c
      BY <1>8, <2>1, <2>2, <2>4
    <3>2. i - m = j - m
      BY <1>8, <2>4, <3>1 DEF Once, n
    <3> QED
      BY <1>1, <2>1, <3>2
  <2> QED
    BY <1>8, <2>1, <2>2, <2>3, <2>4
<1> QED
  BY <1>7, <1>8 DEF Once, y

\* A sequence of one.
LEMMA Single ==
  ASSUME NEW d, NEW c
  PROVE  Once(<<d>>, c) /\ (Occurs(<<d>>, c) <=> c = d)
BY DEF Once, Occurs

LEMMA AppendIsSingle ==
  ASSUME NEW S, NEW q \in Seq(S), NEW c \in S
  PROVE  Append(q, c) = q \o <<c>> /\ <<c>> \in Seq(S)
OBVIOUS

\* What stands in the inputs and held queues.
LEMMA InputTypes ==
  ASSUME TypeOK, NEW r \in Runners
  PROVE  /\ runner[r].resumeQueue \in Seq(Commands)
         /\ \A k \in Attempt : Input(r, k) \in Seq(Commands \cup StartupCommand)
BY ParameterTypes DEF RunnerType, ProcessType, Input

\* Writing x to a process.
LEMMA InputsGrow ==
  ASSUME TypeOK, NEW c \in Commands, Inputs(c), NEW r \in Runners, NEW k \in Attempt,
         NEW x \in Seq(Commands \cup StartupCommand), Once(x, c),
         process'[r][k].stdin = process[r][k].stdin \o x,
         \A s \in Runners, n \in Attempt :
           s # r \/ n # k => process'[s][n].stdin = process[s][n].stdin,
         Occurs(x, c) => command[c] # "delivered" /\ command'[c] = "delivered",
         ~Occurs(x, c) => (command'[c] = "delivered" <=> command[c] = "delivered")
  PROVE  Inputs(c)'
<1> DEFINE y == Input(r, k) \o x
<1>1. /\ Occurs(y, c) <=> Occurs(Input(r, k), c) \/ Occurs(x, c)
      /\ Once(Input(r, k), c) /\ Once(x, c) /\ ~(Occurs(Input(r, k), c) /\ Occurs(x, c))
           => Once(y, c)
  BY InputTypes, Concatenated
<1>2. Input(r, k)' = y
  BY DEF Input
<1>3. \A s \in Runners, n \in Attempt : s # r \/ n # k => Input(s, n)' = Input(s, n)
  BY DEF Input
<1> HIDE DEF y
<1>4. Occurs(x, c) => \A s \in Runners, n \in Attempt : ~Occurs(Input(s, n), c)
  BY DEF Inputs
<1>5. \A s \in Runners, n \in Attempt : Once(Input(s, n)', c)
  BY <1>1, <1>2, <1>3, <1>4 DEF Inputs
<1>6. \A s \in Runners, n \in Attempt :
        Occurs(Input(s, n)', c) <=> Occurs(Input(s, n), c) \/ (s = r /\ n = k /\ Occurs(x, c))
  BY <1>1, <1>2, <1>3
<1>7. \A s, t \in Runners, m, n \in Attempt :
        Occurs(Input(s, m)', c) /\ Occurs(Input(t, n)', c) => s = t /\ m = n
  BY <1>4, <1>6 DEF Inputs
<1>8. (\E s \in Runners, n \in Attempt : Occurs(Input(s, n)', c)) <=> command'[c] = "delivered"
  BY <1>6 DEF Inputs
<1> QED
  BY <1>5, <1>7, <1>8 DEF Inputs

\* No input changes.
LEMMA InputsStay ==
  ASSUME NEW c \in Commands, Inputs(c), SameInputs,
         command'[c] = "delivered" <=> command[c] = "delivered"
  PROVE  Inputs(c)'
<1>1. \A s \in Runners, n \in Attempt : Input(s, n)' = Input(s, n)
  BY DEF SameInputs, Input
<1> QED
  BY <1>1 DEF Inputs

\* Holding d for a runner.
LEMMA QueueGrows ==
  ASSUME TypeOK, NEW c \in Commands, Queues(c), NEW r \in Runners, NEW d \in Commands,
         runner'[r].resumeQueue = Append(runner[r].resumeQueue, d),
         \A s \in Runners \ {r} : runner'[s].resumeQueue = runner[s].resumeQueue,
         command[d] # "held", command'[d] = "held",
         c # d => (command'[c] = "held" <=> command[c] = "held")
  PROVE  Queues(c)'
<1> DEFINE q == runner[r].resumeQueue
           y == q \o <<d>>
<1>1. q \in Seq(Commands) /\ <<d>> \in Seq(Commands) /\ runner'[r].resumeQueue = y
  BY InputTypes, AppendIsSingle
<1>2. Once(<<d>>, c) /\ (Occurs(<<d>>, c) <=> c = d)
  BY Single
<1>3. /\ Occurs(y, c) <=> Occurs(q, c) \/ c = d
      /\ Once(q, c) /\ ~(Occurs(q, c) /\ c = d) => Once(y, c)
  <2> DEFINE z == <<d>>
  <2>1. q \in Seq(Commands) /\ z \in Seq(Commands) /\ y = q \o z
    BY <1>1
  <2>2. Once(z, c) /\ (Occurs(z, c) <=> c = d)
    BY <1>2
  <2> HIDE DEF q, y, z
  <2>3. Occurs(y, c) <=> Occurs(q, c) \/ Occurs(z, c)
    BY <2>1, Concatenated
  <2>4. Once(q, c) /\ Once(z, c) /\ ~(Occurs(q, c) /\ Occurs(z, c)) => Once(y, c)
    BY <2>1, Concatenated
  <2> QED
    BY <2>2, <2>3, <2>4
<1> HIDE DEF q, y
<1>4. c = d => \A s \in Runners : ~Occurs(runner[s].resumeQueue, c)
  BY DEF Queues
<1>5. \A s \in Runners : Once(runner'[s].resumeQueue, c)
  BY <1>1, <1>3, <1>4 DEF Queues, q
<1>6. \A s \in Runners :
        Occurs(runner'[s].resumeQueue, c)
          <=> Occurs(runner[s].resumeQueue, c) \/ (s = r /\ c = d)
  BY <1>1, <1>3 DEF q
<1>7. \A s, t \in Runners :
        Occurs(runner'[s].resumeQueue, c) /\ Occurs(runner'[t].resumeQueue, c) => s = t
  BY <1>4, <1>6 DEF Queues
<1>8. (\E s \in Runners : Occurs(runner'[s].resumeQueue, c)) <=> command'[c] = "held"
  BY <1>6 DEF Queues
<1> QED
  BY <1>5, <1>7, <1>8 DEF Queues

\* No held queue changes.
LEMMA QueuesStay ==
  ASSUME NEW c \in Commands, Queues(c), SameQueues,
         command'[c] = "held" <=> command[c] = "held"
  PROVE  Queues(c)'
BY DEF SameQueues, Queues

\* Emptying the held queue of a runner.
LEMMA QueueEmptied ==
  ASSUME NEW c \in Commands, Queues(c), NEW r \in Runners,
         runner'[r].resumeQueue = <<>>,
         \A s \in Runners \ {r} : runner'[s].resumeQueue = runner[s].resumeQueue,
         Occurs(runner[r].resumeQueue, c) => command'[c] # "held",
         ~Occurs(runner[r].resumeQueue, c) => (command'[c] = "held" <=> command[c] = "held")
  PROVE  Queues(c)'
<1>1. ~Occurs(<<>>, c) /\ Once(<<>>, c)
  BY DEF Occurs, Once
<1>2. \A s \in Runners : Once(runner'[s].resumeQueue, c)
  BY <1>1 DEF Queues
<1>3. \A s \in Runners :
        Occurs(runner'[s].resumeQueue, c) <=> Occurs(runner[s].resumeQueue, c) /\ s # r
  BY <1>1
<1>4. (\E s \in Runners : Occurs(runner'[s].resumeQueue, c)) <=> command'[c] = "held"
  BY <1>3 DEF Queues
<1> QED
  BY <1>2, <1>3, <1>4 DEF Queues

\* The commands a runner holds are those of its queue.
LEMMA HeldThere ==
  ASSUME NEW r \in Runners, NEW c \in Commands
  PROVE  c \in QueueOf(r) <=> Occurs(runner[r].resumeQueue, c)
BY DEF QueueOf, Occurs

\* Marking commands with an outcome.
LEMMA Marked ==
  ASSUME TypeOK, NEW cs, NEW outcome, command' = Mark(cs, outcome), NEW c \in Commands
  PROVE  command'[c] = IF c \in cs THEN outcome ELSE command[c]
BY DEF Mark

\* A step that moves no command.
LEMMA NothingMoved ==
  ASSUME Accounted, SameInputs, SameQueues,
         \A c \in Commands : \/ command'[c] = command[c]
                             \/ /\ command[c] \notin {"delivered", "held"}
                                /\ command'[c] \notin {"delivered", "held"}
  PROVE  Accounted'
BY InputsStay, QueuesStay DEF Accounted

-----------------------------------------------------------------------------
\* sendToRunner with a process.
LEMMA DeliverAccounts ==
  ASSUME TypeOK, Accounted, NEW r \in Runners, NEW c \in Commands,
         runner[r].proc # 0, command[c] \notin {"delivered", "held"}, Deliver(r, c)
  PROVE  Accounted' /\ OthersWait(c)
<1> DEFINE k == runner[r].proc
<1>0. k \in Attempt
  BY ParameterTypes DEF RunnerType, StartOf, Attempt
<1>1. CASE /\ runner' = [runner EXCEPT ![r].resumeQueue = Append(@, c)]
           /\ command' = Mark({c}, "held") /\ UNCHANGED process
  <2>1. /\ runner'[r].resumeQueue = Append(runner[r].resumeQueue, c)
        /\ \A s \in Runners \ {r} : runner'[s].resumeQueue = runner[s].resumeQueue
    BY <1>1 DEF TypeOK, RunnerType
  <2>2. command'[c] = "held" /\ \A d \in Commands \ {c} : command'[d] = command[d]
    BY <1>1, Marked
  <2>3. SameInputs
    BY <1>1 DEF SameInputs
  <2>4. \A d \in Commands : Inputs(d)'
    BY <2>2, <2>3, InputsStay DEF Accounted
  <2>5. \A d \in Commands : Queues(d)'
    BY <2>1, <2>2, QueueGrows DEF Accounted
  <2> QED
    BY <2>2, <2>4, <2>5 DEF Accounted, OthersWait
<1>2. CASE /\ process' = [process EXCEPT ![r][k].stdin = Append(@, c)]
           /\ command' = Mark({c}, "delivered") /\ UNCHANGED runner
  <2>1. /\ process'[r][k].stdin = Append(process[r][k].stdin, c)
        /\ \A s \in Runners, n \in Attempt :
             s # r \/ n # k => process'[s][n].stdin = process[s][n].stdin
    BY <1>0, <1>2 DEF TypeOK, ProcessType
  <2>2. command'[c] = "delivered" /\ \A d \in Commands \ {c} : command'[d] = command[d]
    BY <1>2, Marked
  <2>3. SameQueues
    BY <1>2 DEF SameQueues
  <2>4. \A d \in Commands : Queues(d)'
    BY <2>2, <2>3, QueuesStay DEF Accounted
  <2>5. /\ process[r][k].stdin \in Seq(Commands \cup StartupCommand)
        /\ c \in Commands \cup StartupCommand
    BY <1>0, InputTypes DEF Input
  <2> HIDE DEF k
  <2> DEFINE x == <<c>>
  <2>6. process'[r][k].stdin = process[r][k].stdin \o x /\ x \in Seq(Commands \cup StartupCommand)
    BY <2>1, <2>5, AppendIsSingle
  <2>7. ASSUME NEW d \in Commands
        PROVE  Inputs(d)'
    <3>1. Once(x, d) /\ (Occurs(x, d) <=> d = c)
      BY Single
    <3> HIDE DEF x
    <3>2. Inputs(d)
      BY DEF Accounted
    <3>3. /\ Occurs(x, d) => command[d] # "delivered" /\ command'[d] = "delivered"
          /\ ~Occurs(x, d) => (command'[d] = "delivered" <=> command[d] = "delivered")
      BY <2>2, <3>1
    <3> QED
      BY <1>0, <2>1, <2>6, <3>1, <3>2, <3>3, InputsGrow
  <2> QED
    BY <2>2, <2>4, <2>7 DEF Accounted, OthersWait
<1>3. CASE command' = Mark({c}, "refused") /\ UNCHANGED <<runner, process>>
  <2>1. command'[c] = "refused" /\ \A d \in Commands \ {c} : command'[d] = command[d]
    BY <1>3, Marked
  <2>2. SameInputs /\ SameQueues
    BY <1>3 DEF SameInputs, SameQueues
  <2> QED
    BY <2>1, <2>2, NothingMoved DEF OthersWait
<1> QED
  BY <1>1, <1>2, <1>3 DEF Deliver

\* sendToRunner once its startRunner call has returned.
LEMMA AfterStartAccounts ==
  ASSUME TypeOK, Accounted, NEW r \in Runners, NEW then,
         then \in Commands => command[then] \notin {"delivered", "held"}, AfterStart(r, then)
  PROVE  Accounted' /\ OthersWait(then)
<1>1. CASE then \in Commands /\ runner[r].proc # 0 /\ Deliver(r, then)
  BY <1>1, DeliverAccounts
<1>2. CASE command' = Mark({then}, "refused") /\ UNCHANGED <<runner, process>>
  <2>1. \A d \in Commands : command'[d] = IF d = then THEN "refused" ELSE command[d]
    BY <1>2, Marked
  <2>2. SameInputs /\ SameQueues
    BY <1>2 DEF SameInputs, SameQueues
  <2> QED
    BY <2>1, <2>2, NothingMoved DEF OthersWait
<1> QED
  BY <1>1, <1>2 DEF AfterStart

\* No command that waits for a start stops waiting.
AllWait == \A d \in Commands : command[d] = "starting" => command'[d] = "starting"

\* finishResume: what the runner held goes to its process, or nowhere.
LEMMA FinishResumeAccounts ==
  ASSUME TypeOK, Accounted, NEW r \in Runners, FinishResume(r)
  PROVE  Accounted' /\ AllWait
<1> DEFINE k == runner[r].proc
           q == runner[r].resumeQueue
           flushed == k # 0 /\ process[r][k].os = "alive"
           outcome == IF flushed THEN "delivered" ELSE "dropped"
<1>1. runner'[r].resumeQueue = <<>> /\ \A s \in Runners \ {r} : runner'[s].resumeQueue = runner[s].resumeQueue
  <2>1. runner' = [runner EXCEPT ![r].resumeId = 0, ![r].resumeTimer = FALSE, ![r].resumeQueue = <<>>]
    BY DEF FinishResume
  <2> QED
    BY <2>1 DEF TypeOK, RunnerType
<1>2. command' = Mark(QueueOf(r), outcome)
  BY DEF FinishResume
<1>3. process' = IF flushed THEN [process EXCEPT ![r][k].stdin = @ \o q] ELSE process
  BY DEF FinishResume
<1>4. /\ outcome \in {"delivered", "dropped"} /\ outcome # "held"
      /\ flushed => outcome = "delivered" /\ k \in Attempt
      /\ ~flushed => outcome = "dropped"
  BY ParameterTypes DEF RunnerType, StartOf, Attempt
<1> HIDE DEF outcome, flushed
<1>5. ASSUME NEW d \in Commands
      PROVE  /\ Occurs(q, d) => command[d] = "held" /\ command'[d] = outcome
             /\ ~Occurs(q, d) => command'[d] = command[d]
  BY <1>2, <1>5, HeldThere, Marked DEF Accounted, Queues
<1>6. ASSUME NEW d \in Commands
      PROVE  Queues(d)'
  BY <1>1, <1>4, <1>5, QueueEmptied DEF Accounted
<1>7. ASSUME NEW d \in Commands, flushed
      PROVE  Inputs(d)'
  <2>1. /\ process'[r][k].stdin = process[r][k].stdin \o q
        /\ \A s \in Runners, n \in Attempt :
             s # r \/ n # k => process'[s][n].stdin = process[s][n].stdin
    <3> DEFINE y == process[r][k].stdin \o q
    <3>1. process' = [process EXCEPT ![r][k].stdin = y]
      BY <1>3, <1>7
    <3> HIDE DEF y, k
    <3>2. /\ process'[r][k].stdin = y
          /\ \A s \in Runners, n \in Attempt :
               s # r \/ n # k => process'[s][n].stdin = process[s][n].stdin
      BY <1>4, <1>7, <3>1 DEF TypeOK, ProcessType
    <3> QED
      BY <3>2 DEF y
  <2>2. q \in Seq(Commands \cup StartupCommand)
    BY InputTypes
  <2>3. Inputs(d) /\ Once(q, d)
    BY DEF Accounted, Queues
  <2> HIDE DEF q, k
  <2>4. /\ Occurs(q, d) => command[d] # "delivered" /\ command'[d] = "delivered"
        /\ ~Occurs(q, d) => (command'[d] = "delivered" <=> command[d] = "delivered")
    BY <1>4, <1>5, <1>7
  <2> QED
    BY <1>4, <1>7, <2>1, <2>2, <2>3, <2>4, InputsGrow
<1>8. ASSUME NEW d \in Commands, ~flushed
      PROVE  Inputs(d)'
  <2>1. SameInputs
    BY <1>3, <1>8 DEF SameInputs
  <2>2. command'[d] = "delivered" <=> command[d] = "delivered"
    BY <1>4, <1>5, <1>8
  <2> QED
    BY <2>1, <2>2, InputsStay DEF Accounted
<1> QED
  BY <1>5, <1>6, <1>7, <1>8 DEF Accounted, AllWait

\* startRunner after its last await: behind the startup command goes the command
\* that asked for the start, unless a resume holds it.
LEMMA StartupAccounts ==
  ASSUME TypeOK, ConstantsAssumption, Accounted, NEW r \in Runners, NEW k \in Attempt, NEW then,
         then \in Commands => command[then] \notin {"delivered", "held"}, Startup(r, k, then)
  PROVE  Accounted' /\ OthersWait(then)
<1> DEFINE resumes == runner[r].sessionRef
           held == resumes /\ then \in Commands
           first == IF resumes THEN "switch_session" ELSE "get_state"
           input == IF then \in Commands /\ ~resumes THEN Append(<<first>>, then) ELSE <<first>>
           writable == process[r][k].os = "alive"
           outcome == IF held THEN "held" ELSE IF writable THEN "delivered" ELSE "refused"
           queue == IF held THEN Append(runner[r].resumeQueue, then) ELSE runner[r].resumeQueue
           All == Commands \cup StartupCommand
<1>1. runner'[r].resumeQueue = queue /\ \A s \in Runners \ {r} : runner'[s].resumeQueue = runner[s].resumeQueue
  <2> HIDE DEF queue
  <2>1. PICK id, valve :
          runner' = [runner EXCEPT ![r].watchdogOk = TRUE, ![r].unanswered = 0, ![r].resumeId = id,
                                   ![r].resumeTimer = valve, ![r].resumeQueue = queue]
    BY DEF Startup, queue
  <2> QED
    BY <2>1 DEF TypeOK, RunnerType
<1>2. command' = Mark({then}, outcome)
  BY DEF Startup
<1>3. process' = [process EXCEPT ![r][k].reader = TRUE,
                                 ![r][k].stdin = IF writable THEN @ \o input ELSE @]
  BY DEF Startup
<1>4. \A d \in Commands : command'[d] = IF d = then THEN outcome ELSE command[d]
  BY <1>2, Marked
<1>5. /\ process'[r][k].stdin = IF writable THEN process[r][k].stdin \o input ELSE process[r][k].stdin
      /\ \A s \in Runners, n \in Attempt :
           s # r \/ n # k => process'[s][n].stdin = process[s][n].stdin
  <2> HIDE DEF input, writable
  <2> DEFINE y == IF writable THEN process[r][k].stdin \o input ELSE process[r][k].stdin
  <2>1. process' = [process EXCEPT ![r][k].reader = TRUE, ![r][k].stdin = y]
    BY <1>3
  <2> HIDE DEF y
  <2>2. /\ process'[r][k].stdin = y
        /\ \A s \in Runners, n \in Attempt :
             s # r \/ n # k => process'[s][n].stdin = process[s][n].stdin
    BY <2>1 DEF TypeOK, ProcessType
  <2> QED
    BY <2>2 DEF y
<1>6. first \in StartupCommand /\ first \notin Commands
  BY DEF StartupCommand, ConstantsAssumption
<1> HIDE DEF first
<1>7. /\ input \in Seq(All)
      /\ \A d \in Commands : /\ Once(input, d)
                             /\ Occurs(input, d) <=> d = then /\ ~resumes
  <2>1. <<first>> \in Seq(All) /\ \A d \in Commands : Once(<<first>>, d) /\ ~Occurs(<<first>>, d)
    BY <1>6, Single
  <2>2. CASE then \in Commands /\ ~resumes
    <3>1. input = <<first>> \o <<then>> /\ <<then>> \in Seq(All)
      BY <2>1, <2>2, AppendIsSingle
    <3>2. ASSUME NEW d \in Commands
          PROVE  Once(input, d) /\ (Occurs(input, d) <=> d = then)
      <4>1. Once(<<then>>, d) /\ (Occurs(<<then>>, d) <=> d = then)
        BY Single
      <4> HIDE DEF input
      <4> QED
        BY <2>1, <3>1, <4>1, Concatenated
    <3> HIDE DEF input, All
    <3>3. input \in Seq(All)
      BY <2>1, <3>1
    <3> QED
      BY <2>2, <3>2, <3>3
  <2>3. CASE ~(then \in Commands /\ ~resumes)
    BY <2>1, <2>3
  <2> QED
    BY <2>2, <2>3
<1>8. /\ held => then \in Commands /\ resumes /\ outcome = "held"
      /\ ~held => outcome \in {"delivered", "refused"} /\ (then \in Commands => ~resumes)
      /\ ~held => (outcome = "delivered" <=> writable)
  OBVIOUS
<1> HIDE DEF input
<1>9. ASSUME NEW d \in Commands
      PROVE  Inputs(d)'
  <2>1. Inputs(d)
    BY DEF Accounted
  <2>2. CASE writable
    <3>1. /\ Occurs(input, d) => command[d] # "delivered" /\ command'[d] = "delivered"
          /\ ~Occurs(input, d) => (command'[d] = "delivered" <=> command[d] = "delivered")
      BY <1>4, <1>7, <1>8, <2>2
    <3>2. process'[r][k].stdin = process[r][k].stdin \o input
      BY <1>5, <2>2
    <3> HIDE DEF writable, held, outcome, queue, resumes
    <3> QED
      BY <1>5, <1>7, <2>1, <3>1, <3>2, InputsGrow
  <2>3. CASE ~writable
    <3>1. SameInputs
      BY <1>5, <2>3 DEF SameInputs
    <3>2. command'[d] = "delivered" <=> command[d] = "delivered"
      BY <1>4, <1>8, <2>3
    <3> QED
      BY <2>1, <3>1, <3>2, InputsStay
  <2> QED
    BY <2>2, <2>3
<1>10. ASSUME NEW d \in Commands
       PROVE  Queues(d)'
  <2>1. Queues(d)
    BY DEF Accounted
  <2>2. CASE held
    <3>1. runner'[r].resumeQueue = Append(runner[r].resumeQueue, then)
      BY <1>1, <2>2
    <3>2. /\ then \in Commands /\ command[then] # "held" /\ command'[then] = "held"
          /\ d # then => (command'[d] = "held" <=> command[d] = "held")
      BY <1>4, <1>8, <2>2
    <3> HIDE DEF writable, held, outcome, queue, resumes
    <3> QED
      BY <1>1, <2>1, <3>1, <3>2, QueueGrows
  <2>3. CASE ~held
    <3>1. SameQueues
      BY <1>1, <2>3 DEF SameQueues
    <3>2. command'[d] = "held" <=> command[d] = "held"
      BY <1>4, <1>8, <2>3
    <3> QED
      BY <2>1, <3>1, <3>2, QueuesStay
  <2> QED
    BY <2>2, <2>3
<1> QED
  BY <1>4, <1>9, <1>10 DEF Accounted, OthersWait

-----------------------------------------------------------------------------
(* Every step keeps the books *)

\* A step that issues and performs no update.
LEMMA BooksUncalled ==
  ASSUME Books, UNCHANGED writes, Accounted', AllWait
  PROVE  Books'
BY DEF Books, AllWait

\* One that leaves inputs, held queues and commands alone, too.
LEMMA BooksClosed ==
  ASSUME Books, UNCHANGED <<writes, command>>, SameInputs, SameQueues
  PROVE  Books'
<1>1. Accounted'
  BY NothingMoved DEF Books
<1> QED
  BY <1>1 DEF Books

\* One that issues an update of no command and no attempt's start.
LEMMA BooksAppended ==
  ASSUME TypeOK, Books, NEW u \in UpdateType, u.then \notin Commands,
         u.op \notin {"starting", "running"}, writes' = Append(writes, u),
         UNCHANGED command, SameInputs, SameQueues
  PROVE  Books'
<1>1. Accounted'
  BY NothingMoved DEF Books
<1>2. WellCalled(writes') /\ \A c \in Commands : Asks(writes', c) => Asks(writes, c)
  BY AppendCalled DEF Books, TypeOK
<1> QED
  BY <1>1, <1>2 DEF Books

\* One that performs the oldest update.
LEMMA BooksPerformed ==
  ASSUME TypeOK, Books, writes # <<>>, writes' = Tail(writes),
         Accounted', OthersWait(Head(writes).then)
  PROVE  Books'
<1>1. /\ WellCalled(writes')
      /\ \A c \in Commands : Asks(writes', c) => Asks(writes, c) /\ c # Head(writes).then
  BY TailCalled DEF Books, TypeOK
<1> QED
  BY <1>1 DEF Books, OthersWait

\* startRunner up to its first await, for a command that is new or for none.
LEMMA StartRunnerBooks ==
  ASSUME TypeOK, ConstantsAssumption, Books,
         NEW rs \in [Runners -> RunnerType], NEW r \in Runners, NEW then \in Caller,
         \A s \in Runners : rs[s].resumeQueue = runner[s].resumeQueue,
         then \in Commands => command[then] = "new",
         then \in Commands => rs[r].proc = 0, StartRunner(rs, r, then)
  PROVE  Books'
<1>1. SameInputs
  BY DEF StartRunner, SameInputs
<1>2. then \in Commands => ~Asks(writes, then)
  BY DEF Books
<1>3. CASE rs[r].proc # 0
  <2>1. SameQueues /\ UNCHANGED <<writes, command>>
    BY <1>3 DEF StartRunner, SameQueues
  <2> QED
    BY <1>1, <2>1, BooksClosed
<1>4. CASE rs[r].proc = 0 /\ Debounced(r)
  <2>1. PICK t : runner' = [rs EXCEPT ![r].startTimer = t]
    BY <1>4 DEF StartRunner
  <2>2. SameQueues
    BY <2>1 DEF SameQueues, RunnerType
  <2>3. command' = Mark({then}, "refused") /\ UNCHANGED writes
    BY <1>4 DEF StartRunner
  <2>4. ASSUME NEW c \in Commands
        PROVE  command'[c] = IF c = then THEN "refused" ELSE command[c]
    <3>1. command'[c] = IF c \in {then} THEN "refused" ELSE command[c]
      BY <2>3, Marked
    <3> QED
      BY <3>1
  <2>5. \A c \in Commands : command'[c] = command[c] \/ (command[c] = "new" /\ command'[c] = "refused")
    BY <2>4
  <2>6. Accounted' /\ AllWait
    <3>1. Accounted'
      BY <1>1, <2>2, <2>5, NothingMoved DEF Books
    <3> QED
      BY <2>5, <3>1 DEF AllWait
  <2> QED
    BY <2>3, <2>6, BooksUncalled
<1>5. CASE rs[r].proc = 0 /\ ~Debounced(r)
  <2> DEFINE k == rs[r].startCount + 1
             u == Update("starting", r, k, then)
  <2>1. /\ runner' = [rs EXCEPT ![r].recent = TRUE, ![r].startCount = k]
        /\ writes' = Append(writes, u)
        /\ command' = Mark({then}, "starting")
        /\ rs[r].startCount < MaxStarts
    BY <1>5 DEF StartRunner
  <2>2. k \in StartOf /\ k # 0
    BY <2>1 DEF RunnerType, StartOf, ConstantsAssumption
  <2>3. u \in UpdateType /\ u.then = then /\ u.k # 0
    BY <2>2 DEF Update, UpdateType, WriteOp
  <2>4. SameQueues
    BY <2>1 DEF SameQueues, RunnerType
  <2>5. ASSUME NEW c \in Commands
        PROVE  command'[c] = IF c = then THEN "starting" ELSE command[c]
    <3>1. command'[c] = IF c \in {then} THEN "starting" ELSE command[c]
      BY <2>1, Marked
    <3> QED
      BY <3>1
  <2> HIDE DEF k, u
  <2>6. Accounted'
    <3>1. \A c \in Commands : command'[c] = command[c] \/ (command[c] = "new" /\ command'[c] = "starting")
      BY <2>5
    <3> QED
      BY <1>1, <2>4, <3>1, NothingMoved DEF Books
  <2>7. WellCalled(writes') /\ \A c \in Commands : Asks(writes', c) => Asks(writes, c) \/ c = then
    BY <1>2, <2>1, <2>3, AppendCalled DEF Books, TypeOK
  <2> QED
    BY <2>5, <2>6, <2>7 DEF Books
<1> QED
  BY <1>3, <1>4, <1>5

\* startRunner launches: the command goes on waiting, now for the answer to
\* what the launch came to.
LEMMA LaunchBooks ==
  ASSUME TypeOK, Books, writes # <<>>, NEW r \in Runners, NEW k \in StartOf,
         NEW then \in Caller, k # 0, Head(writes).then = then, Launch(r, k, then)
  PROVE  Books'
<1> DEFINE q == Tail(writes)
<1>1. UNCHANGED command
  BY DEF Launch
<1>2. SameQueues
  BY DEF Launch, SameQueues, TypeOK, RunnerType
<1>3. SameInputs
  <2>1. CASE UNCHANGED process
    BY <2>1 DEF SameInputs
  <2>2. ASSUME NEW os, process' = [process EXCEPT ![r][k].os = os]
        PROVE  SameInputs
    BY <2>2 DEF SameInputs, TypeOK, ProcessType
  <2> QED
    BY <2>1, <2>2 DEF Launch
<1>4. PICK o \in {"running", "launchFailed"} : writes' = Append(q, Update(o, r, k, then))
  BY DEF Launch
<1> DEFINE u == Update(o, r, k, then)
<1>5. u \in UpdateType /\ u.then = then /\ u.k # 0
  BY DEF Update, UpdateType, WriteOp
<1>6. /\ q \in Seq(UpdateType) /\ WellCalled(q) /\ Asks(writes, then)
      /\ \A c \in Commands : Asks(q, c) => Asks(writes, c) /\ c # then
  BY TailType, TailCalled DEF Books, TypeOK
<1> HIDE DEF q, u
<1>7. /\ WellCalled(Append(q, u))
      /\ \A c \in Commands : Asks(Append(q, u), c) => Asks(q, c) \/ c = then
  BY <1>5, <1>6, AppendCalled
<1>8. Accounted'
  BY <1>1, <1>2, <1>3, NothingMoved DEF Books
<1> QED
  BY <1>1, <1>4, <1>6, <1>7, <1>8 DEF Books, u

\* The answer to a stop drops what the runner held.
LEMMA StoppedBooks ==
  ASSUME TypeOK, Books, writes # <<>>, NEW r \in Runners, NEW k, NEW then, Stopped(r, k, then)
  PROVE  Books'
<1> DEFINE called == [runner EXCEPT ![r].startTimer = "none",
                                    ![r].restartTimer = @ \/ then = "restart",
                                    ![r].removing = @ \/ then = "remove"]
<1>1. writes' = Tail(writes)
  BY DEF Stopped
<1>2. CASE k = 0
  <2>1. runner' = called /\ UNCHANGED <<process, command>>
    BY <1>2 DEF Stopped
  <2>2. SameInputs /\ SameQueues
    BY <2>1 DEF SameInputs, SameQueues, TypeOK, RunnerType
  <2>3. Accounted' /\ OthersWait(Head(writes).then)
    BY <2>1, <2>2, NothingMoved DEF Books, OthersWait
  <2> QED
    BY <1>1, <2>3, BooksPerformed
<1>3. CASE k # 0
  <2>1. /\ runner' = [called EXCEPT ![r].proc = 0, ![r].resumeId = 0,
                                    ![r].resumeTimer = FALSE, ![r].resumeQueue = <<>>]
        /\ process' = IF process[r][k].os = "alive"
                      THEN [process EXCEPT ![r][k].onExit = "stop", ![r][k].killTimer = "armed"]
                      ELSE process
        /\ command' = Mark(QueueOf(r), "dropped")
    BY <1>3 DEF Stopped
  <2>2. /\ runner'[r].resumeQueue = <<>>
        /\ \A s \in Runners \ {r} : runner'[s].resumeQueue = runner[s].resumeQueue
    BY <2>1 DEF TypeOK, RunnerType
  <2>3. SameInputs
    <3>1. CASE process' = process
      BY <3>1 DEF SameInputs
    <3>2. CASE process' = [process EXCEPT ![r][k].onExit = "stop", ![r][k].killTimer = "armed"]
      BY <3>2 DEF SameInputs, TypeOK, ProcessType
    <3> QED
      BY <2>1, <3>1, <3>2
  <2>4. ASSUME NEW d \in Commands
        PROVE  /\ Occurs(runner[r].resumeQueue, d) => command[d] = "held" /\ command'[d] = "dropped"
               /\ ~Occurs(runner[r].resumeQueue, d) => command'[d] = command[d]
    BY <2>1, <2>4, HeldThere, Marked DEF Books, Accounted, Queues
  <2>5. \A d \in Commands : Queues(d)'
    BY <2>2, <2>4, QueueEmptied DEF Books, Accounted
  <2>6. \A d \in Commands : Inputs(d)'
    BY <2>3, <2>4, InputsStay DEF Books, Accounted
  <2>7. Accounted' /\ OthersWait(Head(writes).then)
    BY <2>4, <2>5, <2>6 DEF Accounted, OthersWait
  <2> QED
    BY <1>1, <2>7, BooksPerformed
<1> QED
  BY <1>2, <1>3

\* The store performs its oldest update, whichever it is.
LEMMA StoreWriteBooks ==
  ASSUME TypeOK, ConstantsAssumption, Books, StoreWrite
  PROVE  Books'
<1> DEFINE w == Head(writes)
<1>1. w \in UpdateType /\ writes # <<>>
  BY TailType DEF StoreWrite
<1>2. w.r \in Runners /\ w.k \in StartOf /\ w.then \in Caller
  BY <1>1 DEF UpdateType
<1>3. /\ w.op \in {"starting", "running"} => w.k # 0
      /\ w.then \in Commands => command[w.then] = "starting"
  BY <1>1, TailCalled DEF Books, TypeOK
<1>4. CASE w.op = "starting" /\ Launch(w.r, w.k, w.then)
  BY <1>1, <1>2, <1>3, <1>4, LaunchBooks
<1>5. CASE Stopped(w.r, w.k, w.then)
  BY <1>1, <1>2, <1>5, StoppedBooks
<1>6. CASE LaunchFailed(w.r, w.then)
  <2>1. AfterStart(w.r, w.then) /\ writes' = Tail(writes)
    BY <1>6 DEF LaunchFailed
  <2>2. Accounted' /\ OthersWait(w.then)
    BY <1>2, <1>3, <2>1, AfterStartAccounts DEF Books
  <2> QED
    BY <1>1, <2>1, <2>2, BooksPerformed
<1>7. CASE w.op = "running" /\ Running(w.r, w.k, w.then)
  <2>1. writes' = Tail(writes)
    BY <1>7 DEF Running
  <2>2. w.k \in Attempt
    BY <1>2, <1>3, <1>7 DEF StartOf, Attempt, ConstantsAssumption
  <2>3. Accounted' /\ OthersWait(w.then)
    BY <1>2, <1>3, <1>7, <2>2, AfterStartAccounts, StartupAccounts DEF Books, Running
  <2> QED
    BY <1>1, <2>1, <2>3, BooksPerformed
<1>8. CASE Died(w.r) \/ SpawnFailed(w.r) \/ Deleted(w.r)
  <2>1. writes' = Tail(writes) /\ UNCHANGED <<process, command>>
    BY <1>8 DEF Died, SpawnFailed, Deleted
  <2>2. SameInputs
    BY <2>1 DEF SameInputs
  <2>3. SameQueues
    <3>1. CASE UNCHANGED runner
      BY <3>1 DEF SameQueues
    <3>2. CASE runner' = [runner EXCEPT ![w.r].registered = FALSE]
      BY <1>2, <3>2 DEF SameQueues, TypeOK, RunnerType
    <3> QED
      BY <1>8, <3>1, <3>2 DEF Died, SpawnFailed, Deleted
  <2>4. Accounted' /\ OthersWait(w.then)
    BY <2>1, <2>2, <2>3, NothingMoved DEF Books, OthersWait
  <2> QED
    BY <1>1, <2>1, <2>4, BooksPerformed
<1> QED
  BY <1>4, <1>5, <1>6, <1>7, <1>8 DEF StoreWrite

\* The timers of a runner; its timers' callers are no commands.
LEMMA TimersBooks ==
  ASSUME TypeOK, ConstantsAssumption, Books, NEW r \in Runners, Timers(r)
  PROVE  Books'
<1>0. "none" \in Caller /\ "none" \notin Commands
  BY DEF Caller, Tag, ConstantsAssumption
<1>1. CASE DebounceElapses(r)
  <2>1. SameInputs /\ SameQueues /\ UNCHANGED <<writes, command>>
    BY <1>1 DEF DebounceElapses, SameInputs, SameQueues, TypeOK, RunnerType
  <2> QED
    BY <2>1, BooksClosed
<1>2. ASSUME NEW fired \in [Runners -> RunnerType],
             \A s \in Runners : fired[s].resumeQueue = runner[s].resumeQueue,
             \/ StartRunner(fired, r, "none")
             \/ runner' = fired /\ UNCHANGED <<process, writes, command>>
      PROVE  Books'
  <2>1. CASE StartRunner(fired, r, "none")
    BY <1>0, <1>2, <2>1, StartRunnerBooks
  <2>2. CASE runner' = fired /\ UNCHANGED <<process, writes, command>>
    <3>1. SameInputs /\ SameQueues
      BY <1>2, <2>2 DEF SameInputs, SameQueues
    <3> QED
      BY <2>2, <3>1, BooksClosed
  <2> QED
    BY <1>2, <2>1, <2>2
<1>3. CASE DeferredStart(r)
  <2> DEFINE fired == [runner EXCEPT ![r].startTimer = "none"]
  <2>1. [runner[r] EXCEPT !.startTimer = "none"] \in RunnerType
    BY ParameterTypes DEF RunnerType, TimerState
  <2>2. /\ fired \in [Runners -> RunnerType]
        /\ \A s \in Runners : fired[s].resumeQueue = runner[s].resumeQueue
    BY <2>1 DEF TypeOK, RunnerType
  <2>3. StartRunner(fired, r, "none") \/ (runner' = fired /\ UNCHANGED <<process, writes, command>>)
    BY <1>3 DEF DeferredStart
  <2> HIDE DEF fired
  <2> QED
    BY <1>2, <2>2, <2>3
<1>4. CASE RestartTimer(r)
  <2> DEFINE fired == [runner EXCEPT ![r].restartTimer = FALSE]
  <2>1. [runner[r] EXCEPT !.restartTimer = FALSE] \in RunnerType
    BY ParameterTypes DEF RunnerType
  <2>2. /\ fired \in [Runners -> RunnerType]
        /\ \A s \in Runners : fired[s].resumeQueue = runner[s].resumeQueue
    BY <2>1 DEF TypeOK, RunnerType
  <2>3. StartRunner(fired, r, "none") \/ (runner' = fired /\ UNCHANGED <<process, writes, command>>)
    BY <1>4 DEF RestartTimer
  <2> HIDE DEF fired
  <2> QED
    BY <1>2, <2>2, <2>3
<1>5. CASE ResumeTimer(r)
  <2>1. UNCHANGED writes
    BY <1>5 DEF ResumeTimer
  <2>2. CASE FinishResume(r)
    BY <2>1, <2>2, FinishResumeAccounts, BooksUncalled DEF Books
  <2>3. CASE runner' = [runner EXCEPT ![r].resumeTimer = FALSE] /\ UNCHANGED <<process, command>>
    <3>1. SameInputs /\ SameQueues
      BY <2>3 DEF SameInputs, SameQueues, TypeOK, RunnerType
    <3> QED
      BY <2>1, <2>3, <3>1, BooksClosed
  <2> QED
    BY <1>5, <2>2, <2>3 DEF ResumeTimer
<1> QED
  BY <1>1, <1>3, <1>4, <1>5 DEF Timers

\* What the agent process does.
LEMMA AgentBooks ==
  ASSUME TypeOK, ConstantsAssumption, Books, NEW r \in Runners, Agent(r)
  PROVE  Books'
<1>0. "none" \in Caller /\ "none" \notin Commands /\ \A k \in Attempt : k \in StartOf
  BY DEF Caller, Tag, ConstantsAssumption, StartOf, Attempt
<1>1. ASSUME NEW k \in Attempt, NEW o \in {"dead", "error"}, SameInputs, SameQueues,
             UNCHANGED command,
             UNCHANGED writes \/ writes' = Append(writes, Update(o, r, k, "none"))
      PROVE  Books'
  <2>1. CASE UNCHANGED writes
    BY <1>1, <2>1, BooksClosed
  <2>2. CASE writes' = Append(writes, Update(o, r, k, "none"))
    <3> DEFINE u == Update(o, r, k, "none")
    <3>1. u \in UpdateType /\ u.then \notin Commands /\ u.op \notin {"starting", "running"}
      BY <1>0 DEF Update, UpdateType, WriteOp
    <3> QED
      BY <1>1, <2>2, <3>1, BooksAppended
  <2> QED
    BY <1>1, <2>1, <2>2
<1>2. ASSUME NEW k \in Attempt, Exit(r, k)
      PROVE  Books'
  <2>1. process' = [process EXCEPT ![r][k].os = "dead", ![r][k].killTimer = "none"]
    BY <1>2 DEF Exit
  <2>2. SameInputs
    BY <2>1 DEF SameInputs, TypeOK, ProcessType
  <2>3. SameQueues
    <3>1. CASE UNCHANGED runner
      BY <3>1 DEF SameQueues
    <3>2. CASE runner' = [runner EXCEPT ![r].proc = 0]
      BY <3>2 DEF SameQueues, TypeOK, RunnerType
    <3> QED
      BY <1>2, <3>1, <3>2 DEF Exit
  <2>4. /\ UNCHANGED writes \/ writes' = Append(writes, Update("dead", r, k, "none"))
        /\ UNCHANGED command
    BY <1>2 DEF Exit
  <2> QED
    BY <1>1, <2>2, <2>3, <2>4
<1>3. ASSUME NEW k \in Attempt, SpawnError(r, k)
      PROVE  Books'
  <2>1. SameInputs
    BY <1>3 DEF SpawnError, SameInputs, TypeOK, ProcessType
  <2>2. SameQueues
    BY <1>3 DEF SpawnError, SameQueues, TypeOK, RunnerType
  <2>3. writes' = Append(writes, Update("error", r, k, "none")) /\ UNCHANGED command
    BY <1>3 DEF SpawnError
  <2> QED
    BY <1>1, <2>1, <2>2, <2>3
<1>4. ASSUME NEW k \in Attempt, KillTimer(r, k)
      PROVE  Books'
  <2>1. process' = [process EXCEPT ![r][k].killTimer = "none",
                                   ![r][k].os = IF @ = "alive" THEN "killed" ELSE @]
    BY <1>4 DEF KillTimer
  <2>2. SameInputs
    BY <2>1 DEF SameInputs, TypeOK, ProcessType
  <2>3. SameQueues /\ UNCHANGED <<writes, command>>
    BY <1>4 DEF KillTimer, SameQueues
  <2> QED
    BY <2>2, <2>3, BooksClosed
<1>5. CASE ResumeResponse(r)
  <2>1. FinishResume(r) /\ UNCHANGED writes
    BY <1>5 DEF ResumeResponse
  <2> QED
    BY <2>1, FinishResumeAccounts, BooksUncalled DEF Books
<1>6. CASE Line(r)
  <2>1. PICK tells \in BOOLEAN :
          runner' = [runner EXCEPT ![r].unanswered = 0, ![r].sessionRef = @ \/ tells]
    BY <1>6 DEF Line
  <2>2. SameQueues
    BY <2>1 DEF SameQueues, TypeOK, RunnerType
  <2>3. SameInputs /\ UNCHANGED <<writes, command>>
    BY <1>6 DEF Line, SameInputs
  <2> QED
    BY <2>2, <2>3, BooksClosed
<1> QED
  BY <1>2, <1>3, <1>4, <1>5, <1>6 DEF Agent

\* stopRunner up to its first await, called by none of the commands.
LEMMA StopRunnerBooks ==
  ASSUME TypeOK, ConstantsAssumption, Books, NEW r \in Runners, NEW then \in Tag,
         StopRunner(r, then), UNCHANGED command, SameInputs, SameQueues
  PROVE  Books'
<1> DEFINE u == Update("stopped", r, runner[r].proc, then)
<1>1. runner[r].proc \in StartOf /\ then \notin Commands /\ then \in Caller
  BY ParameterTypes DEF RunnerType, Caller, ConstantsAssumption
<1>2. u \in UpdateType /\ u.then \notin Commands /\ u.op \notin {"starting", "running"}
  BY <1>1 DEF Update, UpdateType, WriteOp
<1>3. writes' = Append(writes, u)
  BY DEF StopRunner
<1> HIDE DEF u
<1> QED
  BY <1>2, <1>3, BooksAppended

\* The clients' requests.
LEMMA RequestsBooks ==
  ASSUME TypeOK, ConstantsAssumption, Books, NEW r \in Runners, Requests(r)
  PROVE  Books'
<1>1. ASSUME NEW c \in Commands, Send(r, c)
      PROVE  Books'
  <2>1. command[c] = "new"
    BY <1>1 DEF Send
  <2>2. CASE runner[r].proc = 0 /\ StartRunner(runner, r, c)
    <3>1. runner \in [Runners -> RunnerType] /\ c \in Caller
      BY DEF TypeOK, Caller
    <3> QED
      BY <2>1, <2>2, <3>1, StartRunnerBooks
  <2>3. CASE runner[r].proc # 0 /\ Deliver(r, c) /\ UNCHANGED writes
    <3>1. Accounted' /\ OthersWait(c)
      BY <2>1, <2>3, DeliverAccounts DEF Books
    <3>2. ~Asks(writes, c)
      BY <2>1 DEF Books
    <3> QED
      BY <2>3, <3>1, <3>2 DEF Books, OthersWait
  <2> QED
    BY <1>1, <2>2, <2>3 DEF Send
<1>2. ASSUME NEW then \in {"none", "restart", "remove"}, StopRunner(r, then),
             UNCHANGED <<runner, process, command>>
      PROVE  Books'
  <2>1. then \in Tag /\ SameInputs /\ SameQueues
    BY <1>2 DEF Tag, SameInputs, SameQueues
  <2> QED
    BY <1>2, <2>1, StopRunnerBooks
<1>3. CASE RemoveRuntime(r)
  <2>1. SameInputs /\ SameQueues /\ UNCHANGED <<writes, command>>
    BY <1>3 DEF RemoveRuntime, SameInputs, SameQueues, TypeOK, RunnerType
  <2> QED
    BY <2>1, BooksClosed
<1>4. ASSUME NEW missing \in BOOLEAN, DeleteEmpty(r, missing)
      PROVE  Books'
  <2> DEFINE u == Update("delete", r, 0, "none")
  <2>1. u \in UpdateType /\ u.then \notin Commands /\ u.op \notin {"starting", "running"}
    BY DEF Update, UpdateType, WriteOp, StartOf, Caller, Tag, ConstantsAssumption
  <2>2. writes' = Append(writes, u) /\ UNCHANGED command /\ SameInputs /\ SameQueues
    BY <1>4 DEF DeleteEmpty, SameInputs, SameQueues
  <2> HIDE DEF u
  <2> QED
    BY <2>1, <2>2, BooksAppended
<1> QED
  BY <1>1, <1>2, <1>3, <1>4 DEF Requests, Stop, Restart, DeleteSession

\* The periodic tasks.
LEMMA PeriodicBooks ==
  ASSUME TypeOK, ConstantsAssumption, Books, NEW r \in Runners,
         Reap(r) \/ \E subscribed \in BOOLEAN : WatchdogTick(r, subscribed)
  PROVE  Books'
<1>0. "none" \in Tag
  BY DEF Tag
<1>1. CASE Reap(r)
  <2>1. StopRunner(r, "none") /\ UNCHANGED command /\ SameInputs /\ SameQueues
    BY <1>1 DEF Reap, SameInputs, SameQueues
  <2> QED
    BY <1>0, <2>1, StopRunnerBooks
<1>2. ASSUME NEW subscribed \in BOOLEAN, WatchdogTick(r, subscribed)
      PROVE  Books'
  <2>1. PICK n : runner' = [runner EXCEPT ![r].unanswered = n]
    BY <1>2 DEF WatchdogTick
  <2>2. SameQueues
    BY <2>1 DEF SameQueues, TypeOK, RunnerType
  <2>3. SameInputs /\ UNCHANGED command
    BY <1>2 DEF WatchdogTick, SameInputs
  <2>4. UNCHANGED writes \/ StopRunner(r, "none")
    BY <1>2 DEF WatchdogTick
  <2> QED
    BY <1>0, <2>2, <2>3, <2>4, BooksClosed, StopRunnerBooks
<1> QED
  BY <1>1, <1>2

\* A reload only retires timers.
LEMMA ReloadBooks ==
  ASSUME TypeOK, Books, Reload
  PROVE  Books'
<1>1. \A x \in RunnerType : \A t : [x EXCEPT !.startTimer = t].resumeQueue = x.resumeQueue
  BY DEF RunnerType
<1>2. \A x \in ProcessType : \A t : [x EXCEPT !.killTimer = t].stdin = x.stdin
  BY DEF ProcessType
<1>3. SameInputs /\ SameQueues
  BY <1>1, <1>2, ParameterTypes DEF Reload, SameInputs, SameQueues
<1> QED
  BY <1>3, BooksClosed DEF Reload

\* A crash drops what was held or waited for a start; what was written was written.
LEMMA CrashBooks ==
  ASSUME TypeOK, Books, Crash
  PROVE  Books'
<1>1. ASSUME NEW c \in Commands
      PROVE  command'[c] = IF command[c] \in {"starting", "held"} THEN "dropped" ELSE command[c]
  BY DEF Crash
<1>2. \A r \in Runners : runner'[r].resumeQueue = <<>>
  BY DEF Crash, Restored
<1>3. SameInputs
  <2>1. ASSUME NEW r \in Runners, NEW k \in Attempt
        PROVE  process'[r][k].stdin = process[r][k].stdin
    <3> DEFINE ended == [process[r][k] EXCEPT !.os = "dead", !.killTimer = "none"]
    <3>1. ended.stdin = process[r][k].stdin
      BY ParameterTypes DEF ProcessType
    <3>2. process'[r][k] = IF process[r][k].os = "unborn" THEN process[r][k] ELSE ended
      BY DEF Crash
    <3> HIDE DEF ended
    <3> QED
      BY <3>1, <3>2
  <2> QED
    BY <2>1 DEF SameInputs
<1>4. \A c \in Commands : Inputs(c)'
  BY <1>1, <1>3, InputsStay DEF Books, Accounted
<1>5. \A c \in Commands : Queues(c)'
  BY <1>1, <1>2 DEF Queues, Occurs, Once
<1>6. WellCalled(writes') /\ \A c \in Commands : ~Asks(writes', c)
  <2>1. writes' = <<>>
    BY DEF Crash
  <2> QED
    BY <2>1 DEF WellCalled, Asks
<1> QED
  BY <1>4, <1>5, <1>6 DEF Books, Accounted

\* At first every command is new and nothing was written, held or asked for.
LEMMA InitBooks ==
  ASSUME Init
  PROVE  Books
<1>1. writes = <<>> /\ \A c \in Commands : command[c] = "new"
  BY DEF Init
<1>2. \A r \in Runners : runner[r].resumeQueue = <<>>
  <2>1. PICK refs \in [Runners -> BOOLEAN] :
          runner = [r \in Runners |-> Restored(TRUE, 0, refs[r])]
    BY DEF Init
  <2> QED
    BY <2>1 DEF Restored
<1>3. \A r \in Runners, k \in Attempt : Input(r, k) = <<>>
  BY DEF Init, Unborn, Input
<1>4. \A c : ~Occurs(<<>>, c) /\ Once(<<>>, c)
  BY DEF Occurs, Once
<1>5. Accounted
  BY <1>1, <1>2, <1>3, <1>4 DEF Accounted, Inputs, Queues
<1> QED
  BY <1>1, <1>5 DEF Books, WellCalled, Asks

\* Every step keeps the books.
LEMMA StepBooks ==
  ASSUME TypeOK, ConstantsAssumption, Books, [Next]_vars
  PROVE  Books'
<1>1. CASE UNCHANGED vars
  <2>1. SameInputs /\ SameQueues /\ UNCHANGED <<writes, command>>
    BY <1>1 DEF vars, SameInputs, SameQueues
  <2> QED
    BY <2>1, BooksClosed
<1> QED
  BY <1>1, StoreWriteBooks, TimersBooks, RequestsBooks, AgentBooks, PeriodicBooks,
     ReloadBooks, CrashBooks
  DEF Next

\* The books say where every command was written and held.
LEMMA BooksAccount == Books => DeliveryAccounted
<1> SUFFICES ASSUME Books, NEW c \in Commands
             PROVE  /\ \A p, q \in Places(c) : p = q
                    /\ \A p, q \in Holds(c) : p = q
                    /\ (Places(c) # {}) <=> (command[c] = "delivered")
                    /\ (Holds(c) # {}) <=> (command[c] = "held")
  BY DEF DeliveryAccounted
<1>1. Inputs(c) /\ Queues(c)
  BY DEF Books, Accounted
<1>2. ASSUME NEW p
      PROVE  p \in Places(c) <=> \E r \in Runners, k \in Attempt :
               \E i \in 1..Len(process[r][k].stdin) : process[r][k].stdin[i] = c /\ p = <<r, k, i>>
  <2> DEFINE At(r, k) ==
        {<<r, k, i>> : i \in {j \in 1..Len(process[r][k].stdin) : process[r][k].stdin[j] = c}}
  <2>1. Places(c) = UNION {At(r, k) : r \in Runners, k \in Attempt}
    BY DEF Places
  <2>2. \A r \in Runners, k \in Attempt :
          p \in At(r, k) <=> \E i \in 1..Len(process[r][k].stdin) :
                              process[r][k].stdin[i] = c /\ p = <<r, k, i>>
    OBVIOUS
  <2> HIDE DEF At
  <2>3. p \in Places(c) <=> \E r \in Runners, k \in Attempt : p \in At(r, k)
    BY <2>1
  <2> QED
    BY <2>2, <2>3
<1>3. ASSUME NEW p
      PROVE  p \in Holds(c) <=> \E r \in Runners :
               \E i \in 1..Len(runner[r].resumeQueue) :
                 runner[r].resumeQueue[i] = c /\ p = <<r, i>>
  BY DEF Holds
<1>4. \A p, q \in Places(c) : p = q
  BY <1>1, <1>2 DEF Inputs, Input, Occurs, Once
<1>5. \A p, q \in Holds(c) : p = q
  BY <1>1, <1>3 DEF Queues, Occurs, Once
<1>6. (Places(c) # {}) <=> (command[c] = "delivered")
  <2>1. ASSUME NEW r \in Runners, NEW k \in Attempt, NEW i \in 1..Len(process[r][k].stdin),
               process[r][k].stdin[i] = c
        PROVE  <<r, k, i>> \in Places(c)
    BY <1>2, <2>1
  <2>2. \A r \in Runners, k \in Attempt : Occurs(Input(r, k), c) => Places(c) # {}
    BY <2>1 DEF Input, Occurs
  <2>3. \A p \in Places(c) : \E r \in Runners, k \in Attempt : Occurs(Input(r, k), c)
    BY <1>2 DEF Input, Occurs
  <2> QED
    BY <1>1, <2>2, <2>3 DEF Inputs
<1>7. (Holds(c) # {}) <=> (command[c] = "held")
  <2>1. ASSUME NEW r \in Runners, NEW i \in 1..Len(runner[r].resumeQueue),
               runner[r].resumeQueue[i] = c
        PROVE  <<r, i>> \in Holds(c)
    BY <1>3, <2>1
  <2>2. (Holds(c) # {}) <=> \E r \in Runners : Occurs(runner[r].resumeQueue, c)
    BY <1>3, <2>1 DEF Occurs
  <2> QED
    BY <1>1, <2>2 DEF Queues
<1> QED
  BY <1>4, <1>5, <1>6, <1>7

\* Every command is accounted for, however long the store takes: it was written
\* once to one process and is then delivered, or is held once for one runner,
\* or was refused or dropped and reached no process, across resumes, stops,
\* replacement processes, hot reloads and crashes.
THEOREM NoCommandAstray == Spec => []DeliveryAccounted
<1>1. Init => TypeOK /\ Books
  BY InitType, InitBooks, ConstantsAssumption
<1>2. TypeOK /\ Books /\ [Next]_vars => (TypeOK /\ Books)'
  BY StepType, StepBooks, ConstantsAssumption
<1>3. TypeOK /\ Books => DeliveryAccounted
  BY BooksAccount
<1> QED
  BY <1>1, <1>2, <1>3, PTL DEF Spec
=============================================================================
