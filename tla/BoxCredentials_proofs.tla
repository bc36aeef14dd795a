------------------------- MODULE BoxCredentials_proofs -------------------------
(***************************************************************************)
(* One epoch, its streams and its credential: proofs about BoxConnections. *)
(*                                                                         *)
(* Most steps of either end do nothing to a socket but close it, lose what *)
(* is on its way or refuse it: they are Quiet, and one lemma says that     *)
(* quiet steps keep the invariants.  What is left are the steps that give  *)
(* a socket an epoch, write a registration, dial, or load the state file.  *)
(***************************************************************************)
EXTENDS BoxConnections_proofs

Machines == {"none", "starting", "on", "stopping", "off", "gone"}
Tasks == {"off", "idle", "wait", "store", "check", "serve", "missed"}
Agents == [task : Tasks, on : Sockets \cup {None},
           told : Keys \cup {None}, file : Keys \cup {None}]

\* The types of what SoundFor leaves out; an agent with a task has a socket.
Typed ==
  /\ conn \in Sockets \cup {None}
  /\ socket \in [Sockets -> Ends]
  /\ vm \in Machines
  /\ agent \in Agents
  /\ agent.task \in {"wait", "store", "check", "serve"} => agent.on \in Sockets
  /\ expired \in BOOLEAN

\* An epoch that waits for its welcome or has it is the current one.
Epoch(end) == end.handler \in {"save", "live"} /\ end.hub = "open"

Links ==
  /\ \A s \in Sockets : Epoch(socket[s]) => conn = s
  /\ StreamsFollow

\* Registration rec knows credential k, or is revoked.
Carries(rec, k) == rec.revoked \/ rec.key = k

\* Every version from the i-th write on carries k.
From(i, k) ==
  /\ Carries(record, k)
  /\ \A j \in DOMAIN writes : i <= j => Carries(writes[j].rec, k)

\* The box has credential k, or it is on its way.
Handed(k) ==
  /\ k # None
  /\ \/ agent.file = k
     \/ agent.told = k
     \/ \E s \in Sockets : socket[s].welcome /\ socket[s].key = k

\* At most one write is awaited by a socket, which then awaits it.
Awaiting ==
  /\ \A i \in DOMAIN writes : writes[i].by \in Sockets => socket[writes[i].by].handler = "save"
  /\ \A i, j \in DOMAIN writes :
       writes[i].by = writes[j].by /\ writes[i].by \in Sockets => i = j

\* No welcome was sent yet.
Early == {"greet", "verify", "save"}
NotYet(end) == end.handler \in Early => ~end.welcome

\* A credential is on its way only after the registration that knows it was
\* written, and every later version knows it too.
Known ==
  /\ \A i \in DOMAIN writes :
       writes[i].by \in Sockets /\ socket[writes[i].by].key # None
         => From(i, socket[writes[i].by].key)
  /\ \A k \in Keys : Handed(k) => Carries(disk, k) /\ From(1, k)

Rest ==
  /\ Typed
  /\ Links
  /\ Awaiting
  /\ \A s \in Sockets : NotYet(socket[s])
  /\ Known

Inv == SoundFor(BoxCallers) /\ Rest

-----------------------------------------------------------------------------
(* Quiet changes of a socket *)

\* The change of e to f gives it no stream, epoch, welcome or credential, and
\* does not end the wait for a write.
Weak(e, f) ==
  /\ f.streams <= e.streams
  /\ Epoch(f) => Epoch(e)
  /\ f.key \in {e.key, None}
Quiet(e, f) ==
  /\ Weak(e, f)
  /\ e.handler = "save" => f.handler = "save"
  /\ f.welcome => e.welcome /\ (f.handler \in Early => e.handler \in Early)

LEMMA QuietSame ==
  ASSUME NEW e \in Ends
  PROVE  Quiet(e, e)
  BY BoxAssumption DEF Quiet, Weak, Ends

LEMMA QuietTwice ==
  ASSUME NEW e \in Ends, NEW f \in Ends, NEW g \in Ends, Quiet(e, f), Quiet(f, g)
  PROVE  Quiet(e, g)
  BY BoxAssumption DEF Quiet, Weak, Ends

LEMMA ClosedEnd ==
  Closed \in Ends
  <1>1. 0 \in 0..MaxStreams
    BY BoxAssumption
  <1> QED
    BY <1>1 DEF Closed, Ends, None

LEMMA SettledQuiet ==
  ASSUME NEW e \in Ends
  PROVE  /\ Settled(e) \in Ends /\ Quiet(e, Settled(e))
         /\ Settled(e).hub = e.hub /\ Settled(e).handler = e.handler /\ Settled(e).streams = e.streams
  <1> DEFINE rest == [Closed EXCEPT !.streams = e.streams]
  <1>1. rest \in Ends
    BY ClosedEnd DEF Ends
  <1>2. /\ rest.hub = "closed" /\ rest.handler = "no" /\ rest.streams = e.streams
        /\ rest.key = None /\ ~rest.welcome
    BY DEF Closed
  <1> HIDE DEF rest
  <1>3. Quiet(e, rest) \/ e.handler # "no"
    BY <1>1, <1>2, BoxAssumption DEF Quiet, Weak, Epoch, Ends
  <1>4. Settled(e) = IF e.hub = "closed" /\ e.box = "closed" /\ e.handler = "no" THEN rest ELSE e
    BY DEF Settled, rest
  <1> QED
    BY <1>1, <1>2, <1>3, <1>4, QuietSame

LEMMA HubClosesQuiet ==
  ASSUME NEW e \in Ends
  PROVE  /\ HubCloses(e) \in Ends /\ Quiet(e, HubCloses(e))
         /\ HubCloses(e).hub # "open" /\ HubCloses(e).handler = e.handler
         /\ HubCloses(e).hub = "closed" <=> e.hub = "closed"
  BY BoxAssumption DEF HubCloses, Ends, Quiet, Weak, Epoch

\* A refused end waits for nothing; otherwise it is a quiet change.
LEMMA RefusedQuiet ==
  ASSUME NEW e \in Ends
  PROVE  /\ Refused(e) \in Ends /\ Weak(e, Refused(e))
         /\ Refused(e).handler \notin Early
         /\ Refused(e).welcome => e.welcome
  <1> DEFINE f == HubCloses(e)
             h == IF e.hub = "closed" THEN "no" ELSE "refused"
             g == [f EXCEPT !.handler = h, !.hello = None]
  <1>1. f \in Ends /\ Quiet(e, f) /\ f.hub # "open"
    BY HubClosesQuiet
  <1>2. h \in {"no", "refused"}
    OBVIOUS
  <1>3. Refused(e) = Settled(g)
    BY DEF Refused
  <1> HIDE DEF f, h
  <1>4. /\ g \in Ends /\ g.handler = h /\ g.hub = f.hub /\ g.streams = f.streams
        /\ g.key = f.key /\ g.welcome = f.welcome
    BY <1>1, <1>2 DEF Ends
  <1> HIDE DEF g
  <1>5. Settled(g) \in Ends /\ Quiet(g, Settled(g)) /\ Settled(g).handler = h
    BY <1>4, SettledQuiet
  <1>6. h \notin Early
    BY <1>2 DEF Early
  <1>7. Weak(e, Settled(g)) /\ (Settled(g).welcome => e.welcome)
    BY <1>1, <1>4, <1>5, BoxAssumption DEF Quiet, Weak, Ends, Epoch
  <1> QED
    BY <1>3, <1>5, <1>6, <1>7

LEMMA BoxClosedQuiet ==
  ASSUME NEW e \in Ends, NEW cut \in BOOLEAN
  PROVE  /\ BoxClosed([e EXCEPT !.cut = cut]) \in Ends
         /\ Quiet(e, BoxClosed([e EXCEPT !.cut = cut]))
         /\ BoxClosed(e) \in Ends /\ Quiet(e, BoxClosed(e))
  <1>1. ASSUME NEW f \in Ends
        PROVE  BoxClosed(f) \in Ends /\ Quiet(f, BoxClosed(f))
    <2> DEFINE g == [f EXCEPT !.box = "closed", !.welcome = FALSE, !.key = None]
    <2>1. None \in Keys \cup {None}
      OBVIOUS
    <2>2. g \in Ends
      BY <2>1 DEF Ends
    <2>3. Quiet(f, g)
      BY <2>2, BoxAssumption DEF Quiet, Weak, Epoch, Ends
    <2>4. BoxClosed(f) = Settled(g)
      BY DEF BoxClosed
    <2> HIDE DEF g
    <2> QED
      BY <2>2, <2>3, <2>4, SettledQuiet, QuietTwice
  <1> DEFINE h == [e EXCEPT !.cut = cut]
  <1>2. h \in Ends /\ Quiet(e, h)
    BY BoxAssumption DEF Ends, Quiet, Weak, Epoch
  <1> HIDE DEF h
  <1>3. BoxClosed(h) \in Ends /\ Quiet(e, BoxClosed(h))
    BY <1>1, <1>2, QuietTwice
  <1> QED
    BY <1>1, <1>3 DEF h

\* The change of one socket.
LEMMA OneQuiet ==
  ASSUME socket \in [Sockets -> Ends], NEW s \in Sockets, NEW f \in Ends, Quiet(socket[s], f),
         socket' = [socket EXCEPT ![s] = f]
  PROVE  socket' \in [Sockets -> Ends] /\ \A t \in Sockets : Quiet(socket[t], socket'[t])
  <1>1. ASSUME NEW t \in Sockets PROVE Quiet(socket[t], socket'[t])
    BY QuietSame
  <1> QED
    BY <1>1

-----------------------------------------------------------------------------
(* What quiet steps keep *)

LEMMA LinksKept ==
  ASSUME Typed, socket' \in [Sockets -> Ends], Links, conn' = conn, record.revoked => record'.revoked,
         \A s \in Sockets : Weak(socket[s], socket'[s])
  PROVE  Links'
  <1>1. ASSUME NEW s \in Sockets, Epoch(socket[s])' PROVE conn' = s
    BY <1>1 DEF Links, Weak, Epoch
  <1>2. ASSUME NEW s \in Sockets, socket'[s].streams > 0 PROVE conn' = s \/ record'.revoked
    <2>1. socket[s].streams \in Nat /\ socket'[s].streams \in Nat
      BY BoxAssumption DEF Typed, Ends
    <2>2. socket'[s].streams <= socket[s].streams
      BY DEF Weak
    <2>3. socket[s].streams > 0
      BY <1>2, <2>1, <2>2
    <2> QED
      BY <2>3 DEF Links, StreamsFollow
  <1> QED
    BY <1>1, <1>2 DEF Links, StreamsFollow

LEMMA NotYetKept ==
  ASSUME NEW s \in Sockets, NotYet(socket[s]), Quiet(socket[s], socket'[s])
  PROVE  NotYet(socket[s])'
  BY DEF NotYet, Quiet

LEMMA AwaitingKept ==
  ASSUME Awaiting, writes' = writes,
         \A s \in Sockets : socket[s].handler = "save" => socket'[s].handler = "save"
  PROVE  Awaiting'
  BY DEF Awaiting

\* The box is told nothing by quiet changes.
LEMMA HandedKept ==
  ASSUME NEW k, agent'.file = agent.file, agent'.told \in {agent.told, None},
         \A s \in Sockets : Quiet(socket[s], socket'[s]), Handed(k)'
  PROVE  Handed(k)
  BY DEF Handed, Quiet, Weak

LEMMA KnownKept ==
  ASSUME Known, writes' = writes, disk' = disk,
         record'.key = record.key, record'.revoked = record.revoked,
         \A s \in Sockets : socket'[s].key \in {socket[s].key, None},
         \A k \in Keys : Handed(k)' => Handed(k)
  PROVE  Known'
  <1>1. ASSUME NEW i, NEW k PROVE From(i, k)' = From(i, k)
    BY DEF From, Carries
  <1>2. ASSUME NEW k PROVE Carries(disk, k)' = Carries(disk, k)
    BY DEF Carries
  <1>3. ASSUME NEW i \in DOMAIN writes', writes'[i].by \in Sockets, socket'[writes'[i].by].key # None
        PROVE  From(i, socket[writes[i].by].key)'
    BY <1>1, <1>3 DEF Known
  <1>4. ASSUME NEW k \in Keys, Handed(k)' PROVE Carries(disk, k)' /\ From(1, k)'
    BY <1>1, <1>2, <1>4 DEF Known
  <1> QED
    BY <1>3, <1>4 DEF Known

\* A step of the box, or one of the hub that changes no version's credential.
LEMMA QuietStep ==
  ASSUME Rest, Typed', conn' = conn, writes' = writes, disk' = disk,
         record'.key = record.key, record'.revoked = record.revoked,
         \A s \in Sockets : Quiet(socket[s], socket'[s]),
         \A k \in Keys : Handed(k)' => Handed(k)
  PROVE  Rest'
  <1>1. Links'
    BY LinksKept DEF Rest, Typed, Quiet
  <1>2. Awaiting'
    BY AwaitingKept DEF Rest, Quiet
  <1>3. \A s \in Sockets : NotYet(socket'[s])
    BY NotYetKept DEF Rest
  <1>4. Known'
    BY KnownKept DEF Rest, Quiet, Weak
  <1> QED
    BY <1>1, <1>2, <1>3, <1>4 DEF Rest

\* A write keeps the credential.
LEMMA SnapshotCarries ==
  ASSUME NEW rec \in Records, NEW k
  PROVE  Carries(Snapshot(rec), k) <=> Carries(rec, k)
  BY DEF Carries, Snapshot, Records

LEMMA LoadedCarries ==
  ASSUME NEW rec \in Records, NEW k
  PROVE  Carries(Loaded(rec), k) <=> Carries(rec, k)
  BY DEF Carries, Loaded, Records

-----------------------------------------------------------------------------
(* Steps that write the registration *)

\* A write that no socket awaits, of a registration that carries what the one
\* before it carried.
LEMMA AwaitingSaved ==
  ASSUME SoundFor(BoxCallers), Awaiting, NEW by \in BoxCallers, by \notin Sockets,
         NEW rec \in SoundRecords, writes' = Save(by, rec),
         \A s \in Sockets : socket[s].handler = "save" => socket'[s].handler = "save"
  PROVE  Awaiting'
  <1>1. /\ DOMAIN writes' = 1..Len(writes) + 1 /\ DOMAIN writes = 1..Len(writes) /\ Len(writes) \in Nat
        /\ \A i \in 1..Len(writes) : writes'[i] = writes[i]
        /\ writes'[Len(writes) + 1] = [by |-> by, rec |-> Snapshot(rec)]
    BY Saved DEF SoundFor
  <1>2. ASSUME NEW i \in DOMAIN writes', writes'[i].by \in Sockets
        PROVE  i \in DOMAIN writes /\ writes'[i] = writes[i]
    BY <1>1, <1>2
  <1> QED
    BY <1>2 DEF Awaiting

LEMMA KnownSaved ==
  ASSUME SoundFor(BoxCallers), Known, NEW by \in BoxCallers, by \notin Sockets,
         NEW rec \in SoundRecords, writes' = Save(by, rec), record' = rec, disk' = disk,
         \A k \in Keys : Carries(record, k) => Carries(rec, k),
         \A s \in Sockets : socket'[s].key \in {socket[s].key, None},
         \A s \in Sockets : socket[s].key \in Keys \cup {None},
         \A k \in Keys : Handed(k)' => Handed(k)
  PROVE  Known'
  <1>1. /\ DOMAIN writes' = 1..Len(writes) + 1 /\ DOMAIN writes = 1..Len(writes) /\ Len(writes) \in Nat
        /\ \A i \in 1..Len(writes) : writes'[i] = writes[i]
        /\ writes'[Len(writes) + 1] = [by |-> by, rec |-> Snapshot(rec)]
    BY Saved DEF SoundFor
  <1>2. rec \in Records
    BY DEF SoundRecords
  <1>3. ASSUME NEW i, NEW k \in Keys, From(i, k) PROVE From(i, k)'
    <2>1. Carries(rec, k)
      BY <1>3 DEF From
    <2>2. Carries(writes'[Len(writes) + 1].rec, k)
      BY <1>1, <1>2, <2>1, SnapshotCarries
    <2>3. ASSUME NEW j \in DOMAIN writes', i <= j PROVE Carries(writes'[j].rec, k)
      BY <1>1, <1>3, <2>2, <2>3 DEF From
    <2> QED
      BY <2>1, <2>3 DEF From, Carries
  <1>4. ASSUME NEW i \in DOMAIN writes', writes'[i].by \in Sockets, socket'[writes'[i].by].key # None
        PROVE  From(i, socket[writes[i].by].key)'
    <2>1. i \in DOMAIN writes /\ writes'[i] = writes[i]
      BY <1>1, <1>4
    <2>2. /\ socket'[writes'[i].by].key = socket[writes[i].by].key
          /\ socket[writes[i].by].key \in Keys
      BY <1>4, <2>1
    <2>3. From(i, socket[writes[i].by].key)
      BY <1>4, <2>1, <2>2 DEF Known
    <2> DEFINE k == socket[writes[i].by].key
    <2>4. From(i, k)'
      BY <1>3, <2>2, <2>3
    <2> QED
      BY <2>2, <2>4 DEF From
  <1>5. ASSUME NEW k \in Keys, Handed(k)' PROVE Carries(disk, k)' /\ From(1, k)'
    BY <1>3, <1>5 DEF Known, Carries
  <1> QED
    BY <1>4, <1>5 DEF Known

\* The write at the head of the chain is over: those behind it stay as they are.
LEMMA AwaitingNext ==
  ASSUME SoundFor(BoxCallers), Awaiting, writes # <<>>, writes' = Tail(writes),
         \A s \in Sockets : s # Head(writes).by => socket'[s] = socket[s]
  PROVE  Awaiting'
  <1>1. /\ DOMAIN writes' = 1..Len(writes) - 1 /\ DOMAIN writes = 1..Len(writes) /\ Len(writes) \in Nat
        /\ \A i \in DOMAIN writes' : writes'[i] = writes[i + 1]
        /\ Head(writes) = writes[1] /\ Len(writes) > 0
    BY TailShifts
  <1>2. ASSUME NEW i \in DOMAIN writes' PROVE i + 1 \in DOMAIN writes /\ writes'[i] = writes[i + 1]
    BY <1>1
  <1>3. ASSUME NEW i \in DOMAIN writes', writes'[i].by \in Sockets
        PROVE  socket'[writes'[i].by].handler = "save"
    <2>1. writes[i + 1].by # writes[1].by
      BY <1>1, <1>2, <1>3 DEF Awaiting
    <2> QED
      BY <1>1, <1>2, <1>3, <2>1 DEF Awaiting
  <1>4. ASSUME NEW i \in DOMAIN writes', NEW j \in DOMAIN writes',
               writes'[i].by = writes'[j].by, writes'[i].by \in Sockets
        PROVE  i = j
    BY <1>1, <1>2, <1>4 DEF Awaiting
  <1> QED
    BY <1>3, <1>4 DEF Awaiting

LEMMA KnownNext ==
  ASSUME SoundFor(BoxCallers), Typed, Awaiting, Known, writes # <<>>, writes' = Tail(writes),
         disk' \in {disk, Head(writes).rec}, record' = record, agent' = agent,
         \A s \in Sockets : s # Head(writes).by => socket'[s] = socket[s],
         \A s \in Sockets : socket'[s].key \in {socket[s].key, None},
         \A s \in Sockets : socket'[s].welcome => socket[s].welcome \/ disk' = Head(writes).rec
  PROVE  Known'
  <1>1. /\ DOMAIN writes' = 1..Len(writes) - 1 /\ DOMAIN writes = 1..Len(writes) /\ Len(writes) \in Nat
        /\ \A i \in DOMAIN writes' : writes'[i] = writes[i + 1]
        /\ Head(writes) = writes[1] /\ Len(writes) > 0
    BY TailShifts
  <1>2. ASSUME NEW i \in Nat, NEW k, From(i + 1, k) PROVE From(i, k)'
    <2>1. ASSUME NEW j \in DOMAIN writes', i <= j PROVE Carries(writes'[j].rec, k)
      BY <1>1, <1>2, <2>1 DEF From
    <2>2. Carries(record, k)'
      BY <1>2 DEF From, Carries
    <2> QED
      BY <2>1, <2>2 DEF From, Carries
  <1>3. ASSUME NEW k, From(1, k) PROVE From(1, k)' /\ Carries(writes[1].rec, k)
    <2>1. From(1 + 1, k)
      BY <1>3 DEF From
    <2>2. 1 \in DOMAIN writes
      BY <1>1
    <2> QED
      BY <1>2, <1>3, <2>1, <2>2 DEF From
  <1>4. ASSUME NEW i \in DOMAIN writes', writes'[i].by \in Sockets, socket'[writes'[i].by].key # None
        PROVE  From(i, socket[writes[i].by].key)'
    <2>1. /\ i \in Nat /\ i + 1 \in DOMAIN writes /\ writes'[i] = writes[i + 1]
          /\ 1 \in DOMAIN writes /\ i + 1 # 1
      BY <1>1
    <2>2. writes[i + 1].by # writes[1].by
      BY <1>4, <2>1 DEF Awaiting
    <2>3. socket'[writes'[i].by] = socket[writes[i + 1].by]
      BY <1>1, <1>4, <2>1, <2>2
    <2>4. PICK k : k = socket[writes[i + 1].by].key
      OBVIOUS
    <2>5. From(i + 1, k)
      BY <1>4, <2>1, <2>3, <2>4 DEF Known
    <2>6. From(i, k)'
      BY <1>2, <2>1, <2>5
    <2>7. socket'[writes'[i].by].key = k
      BY <2>3, <2>4
    <2> QED
      BY <2>6, <2>7 DEF From
  <1>5. ASSUME NEW k \in Keys, Handed(k)' PROVE Carries(disk, k)' /\ From(1, k)'
    <2>1. CASE Handed(k)
      <3>1. Carries(disk, k) /\ From(1, k)
        BY <2>1 DEF Known
      <3> QED
        BY <1>1, <1>3, <3>1 DEF Carries
    <2>2. CASE ~Handed(k)
      <3>1. PICK s \in Sockets : socket'[s].welcome /\ socket'[s].key = k /\ k # None
        BY <1>5, <2>2 DEF Handed
      <3>2. socket[s].key = k
        BY <3>1
      <3>3. ~socket[s].welcome /\ disk' = writes[1].rec
        BY <1>1, <2>2, <3>1, <3>2 DEF Handed
      <3>4. s = writes[1].by
        BY <1>1, <3>1, <3>3
      <3>5. From(1, k)
        BY <1>1, <3>1, <3>2, <3>4 DEF Known
      <3> QED
        BY <1>3, <3>3, <3>5 DEF Carries
    <2> QED
      BY <2>1, <2>2
  <1> QED
    BY <1>4, <1>5 DEF Known

-----------------------------------------------------------------------------
(* The steps of the box *)

LEMMA SameQuiet ==
  ASSUME Typed, socket' = socket
  PROVE  socket' \in [Sockets -> Ends] /\ \A s \in Sockets : Quiet(socket[s], socket'[s])
  BY QuietSame DEF Typed

LEMMA GoneQuiet ==
  ASSUME Typed, NEW silent \in BOOLEAN, Gone(silent)
  PROVE  /\ socket' \in [Sockets -> Ends] /\ \A s \in Sockets : Quiet(socket[s], socket'[s])
         /\ agent' \in Agents /\ agent'.task = "off"
         /\ agent'.file = agent.file /\ agent'.told = None
  <1>1. ASSUME NEW s \in Sockets
        PROVE  socket'[s] \in Ends /\ Quiet(socket[s], socket'[s])
    <2> DEFINE cut == socket[s].cut \/ silent
    <2>1. cut \in BOOLEAN
      BY DEF Typed, Ends
    <2>2. socket'[s] = IF socket[s].box = "open" THEN BoxClosed([socket[s] EXCEPT !.cut = cut])
                                                 ELSE socket[s]
      BY DEF Gone
    <2> HIDE DEF cut
    <2>3. socket[s] \in Ends
      BY DEF Typed
    <2> QED
      BY <2>1, <2>2, <2>3, BoxClosedQuiet, QuietSame
  <1>2. socket' \in [Sockets -> Ends]
    BY <1>1 DEF Gone
  <1>3. agent' \in Agents /\ agent'.task = "off" /\ agent'.file = agent.file /\ agent'.told = None
    BY DEF Gone, Typed, Agents, Tasks
  <1> QED
    BY <1>1, <1>2, <1>3

\* A step of the box that only loses what it has of credentials.
LEMMA BoxQuiet ==
  ASSUME Rest, conn' = conn, writes' = writes, disk' = disk, record' = record,
         vm' \in Machines, expired' = expired,
         socket' \in [Sockets -> Ends], \A s \in Sockets : Quiet(socket[s], socket'[s]),
         agent' \in Agents, agent'.task \in {"wait", "store", "check", "serve"} => agent'.on \in Sockets,
         agent'.file = agent.file, agent'.told \in {agent.told, None}
  PROVE  Rest'
  <1>1. Typed'
    BY DEF Rest, Typed
  <1>2. \A k \in Keys : Handed(k)' => Handed(k)
    BY HandedKept
  <1> QED
    BY <1>1, <1>2, QuietStep

LEMMA ConnectRest ==
  ASSUME Rest, Connect
  PROVE  Rest'
  <1>1. PICK s \in Sockets : /\ FirstFree(s)
                             /\ socket' = [socket EXCEPT ![s] = Opened(agent.file)]
                             /\ agent' = [agent EXCEPT !.task = "wait", !.on = s]
    BY DEF Connect
  <1>2. agent.file \in Keys \cup {None}
    BY DEF Rest, Typed, Agents
  <1> DEFINE f == Opened(agent.file)
  <1>3. /\ f \in Ends /\ f.handler = "greet" /\ f.streams = Closed.streams /\ f.key = None
        /\ ~f.welcome
    BY <1>2, ClosedEnd DEF Opened, Ends, Closed
  <1>4. Closed.streams = 0
    BY DEF Closed
  <1> HIDE DEF f
  <1>5. socket[s] \in Ends /\ socket[s].streams = 0 /\ socket[s].handler = "no"
    BY <1>1 DEF Rest, Typed, FirstFree, Free
  <1>6. Quiet(socket[s], f)
    BY <1>3, <1>4, <1>5 DEF Quiet, Weak, Epoch
  <1>7. socket' \in [Sockets -> Ends] /\ \A t \in Sockets : Quiet(socket[t], socket'[t])
    BY <1>1, <1>3, <1>6, OneQuiet DEF f, Rest, Typed
  <1>8. agent' \in Agents /\ agent'.on = s /\ agent'.file = agent.file /\ agent'.told = agent.told
    BY <1>1 DEF Rest, Typed, Agents, Tasks
  <1> QED
    BY <1>7, <1>8, BoxQuiet DEF Connect, Rest, Typed

\* The credential of the welcome is taken off the socket.
LEMMA WelcomeRest ==
  ASSUME Rest, WelcomeArrives
  PROVE  Rest'
  <1> DEFINE s == agent.on
             f == [socket[s] EXCEPT !.welcome = FALSE, !.key = None]
             key == socket[s].key
  <1>1. s \in Sockets /\ socket[s] \in Ends /\ socket[s].welcome
    BY DEF WelcomeArrives, Doing, Rest, Typed
  <1>2. f \in Ends /\ Quiet(socket[s], f) /\ key \in Keys \cup {None}
    <2>1. None \in Keys \cup {None} /\ key \in Keys \cup {None}
      BY <1>1 DEF Ends
    <2>2. f \in Ends
      BY <1>1, <2>1 DEF Ends
    <2> QED
      BY <1>1, <2>1, <2>2, BoxAssumption DEF Quiet, Weak, Epoch, Ends
  <1>3. socket' = [socket EXCEPT ![s] = f]
    BY DEF WelcomeArrives
  <1>4. socket' \in [Sockets -> Ends] /\ \A t \in Sockets : Quiet(socket[t], socket'[t])
    BY <1>1, <1>2, <1>3, OneQuiet DEF Rest, Typed
  <1>5. /\ agent' \in Agents /\ agent'.on = s /\ agent'.file = agent.file /\ agent'.told = key
    BY <1>1, <1>2 DEF WelcomeArrives, Rest, Typed, Agents, Tasks
  <1>6. Typed'
    BY <1>1, <1>4, <1>5 DEF WelcomeArrives, Rest, Typed
  <1>7. ASSUME NEW k \in Keys, Handed(k)' PROVE Handed(k)
    <2>1. k # None
      BY <1>7 DEF Handed
    <2>2. CASE agent'.file = k
      BY <1>5, <2>1, <2>2 DEF Handed
    <2>3. CASE agent'.told = k
      BY <1>1, <1>5, <2>1, <2>3 DEF Handed
    <2>4. CASE \E t \in Sockets : socket'[t].welcome /\ socket'[t].key = k
      BY <1>4, <2>1, <2>4 DEF Handed, Quiet, Weak
    <2> QED
      BY <1>7, <2>2, <2>3, <2>4 DEF Handed
  <1> QED
    BY <1>4, <1>6, <1>7, QuietStep DEF WelcomeArrives

LEMMA StoreRest ==
  ASSUME Rest, StoreCredential
  PROVE  Rest'
  <1>1. socket' \in [Sockets -> Ends] /\ \A s \in Sockets : Quiet(socket[s], socket'[s])
    BY SameQuiet DEF Rest, StoreCredential
  <1>2. /\ agent' \in Agents /\ agent'.on = agent.on /\ agent'.file = agent.told /\ agent'.told = None
    BY DEF StoreCredential, Rest, Typed, Agents, Tasks
  <1>3. Typed'
    BY <1>1, <1>2 DEF StoreCredential, Doing, Rest, Typed
  <1>4. ASSUME NEW k \in Keys, Handed(k)' PROVE Handed(k)
    BY <1>2, <1>4 DEF Handed, StoreCredential
  <1> QED
    BY <1>1, <1>3, <1>4, QuietStep DEF StoreCredential

LEMMA ReadinessRest ==
  ASSUME Rest, NEW ready \in BOOLEAN, ReadinessReturns(ready)
  PROVE  Rest'
  <1> DEFINE s == agent.on
             f == [socket[s] EXCEPT !.report = ready]
  <1>1. s \in Sockets /\ socket[s] \in Ends
    BY DEF ReadinessReturns, Doing, Rest, Typed
  <1>2. f \in Ends /\ Quiet(socket[s], f)
    BY <1>1, BoxAssumption DEF Ends, Quiet, Weak, Epoch
  <1>3. socket' = [socket EXCEPT ![s] = f] \/ socket' = socket
    BY DEF ReadinessReturns
  <1>4. socket' \in [Sockets -> Ends] /\ \A t \in Sockets : Quiet(socket[t], socket'[t])
    BY <1>1, <1>2, <1>3, OneQuiet, SameQuiet DEF Rest, Typed
  <1>5. /\ agent' \in Agents /\ agent'.on = s /\ agent'.file = agent.file /\ agent'.told = agent.told
    BY DEF ReadinessReturns, Continue, Rest, Typed, Agents, Tasks
  <1> QED
    BY <1>1, <1>4, <1>5, BoxQuiet DEF ReadinessReturns, Rest, Typed

LEMMA BoxSeesCloseRest ==
  ASSUME Rest, NEW s \in Sockets, BoxSeesClose(s)
  PROVE  Rest'
  <1>1. socket[s] \in Ends
    BY DEF Rest, Typed
  <1>2. BoxClosed(socket[s]) \in Ends /\ Quiet(socket[s], BoxClosed(socket[s]))
    BY <1>1, BoxClosedQuiet
  <1>3. socket' \in [Sockets -> Ends] /\ \A t \in Sockets : Quiet(socket[t], socket'[t])
    BY <1>2, OneQuiet DEF BoxSeesClose, Rest, Typed
  <1>4. /\ agent' \in Agents /\ agent'.file = agent.file /\ agent'.told = agent.told
        /\ agent'.task = "idle" \/ agent' = agent
    BY DEF BoxSeesClose, Rest, Typed, Agents, Tasks
  <1> QED
    BY <1>3, <1>4, BoxQuiet DEF BoxSeesClose, Rest, Typed

LEMMA LinkCutRest ==
  ASSUME Rest, NEW s \in Sockets, LinkCut(s)
  PROVE  Rest'
  <1> DEFINE f == [socket[s] EXCEPT !.cut = TRUE]
  <1>1. f \in Ends /\ Quiet(socket[s], f)
    <2>1. socket[s] \in Ends
      BY DEF Rest, Typed
    <2>2. f \in Ends
      BY <2>1 DEF Ends
    <2> QED
      BY <2>1, <2>2, BoxAssumption DEF Quiet, Weak, Epoch, Ends
  <1>2. socket' = [socket EXCEPT ![s] = f]
    BY DEF LinkCut
  <1>3. socket' \in [Sockets -> Ends] /\ \A t \in Sockets : Quiet(socket[t], socket'[t])
    BY <1>1, <1>2, OneQuiet DEF Rest, Typed
  <1> QED
    BY <1>3, BoxQuiet DEF LinkCut, Rest, Typed

LEMMA AgentNextRest ==
  ASSUME Rest, AgentNext
  PROVE  Rest'
  <1>1. CASE VmStarts
    BY <1>1, SameQuiet, BoxQuiet DEF VmStarts, Machines, Rest, Typed
  <1>2. ASSUME NEW silent \in BOOLEAN, VmStops(silent) PROVE Rest'
    <2>1. vm' \in Machines
      BY <1>2 DEF VmStops, Machines
    <2>2. Gone(silent) /\ UNCHANGED <<record, disk, writes, conn, expired>>
      BY <1>2 DEF VmStops
    <2> QED
      BY <2>1, <2>2, GoneQuiet, BoxQuiet DEF Rest
  <1>3. CASE AgentCrash
    <2>1. Gone(FALSE) /\ UNCHANGED <<record, disk, writes, conn, vm, expired>>
      BY <1>3 DEF AgentCrash
    <2> QED
      BY <2>1, GoneQuiet, BoxQuiet DEF Rest, Typed
  <1>4. CASE AgentStarts \/ WelcomeTimesOut \/ StoreFails \/ AgentEnds
    <2>1. /\ agent' \in Agents /\ agent'.task \in {"idle", "off"}
          /\ agent'.file = agent.file /\ agent'.told \in {agent.told, None}
      BY <1>4 DEF AgentStarts, WelcomeTimesOut, StoreFails, AgentEnds, Abandons, Continue,
                  Rest, Typed, Agents, Tasks
    <2>2. UNCHANGED <<record, disk, writes, conn, socket, vm, expired>>
      BY <1>4 DEF AgentStarts, WelcomeTimesOut, StoreFails, AgentEnds
    <2> QED
      BY <2>1, <2>2, SameQuiet, BoxQuiet DEF Rest, Typed
  <1> QED
    BY <1>1, <1>2, <1>3, <1>4, ConnectRest, WelcomeRest, StoreRest, ReadinessRest,
       BoxSeesCloseRest, LinkCutRest DEF AgentNext

-----------------------------------------------------------------------------
(* The steps of the hub *)

LEMMA HubQuiet ==
  ASSUME Rest, conn' = conn, writes' = writes, disk' = disk,
         record'.key = record.key, record'.revoked = record.revoked,
         agent' = agent, vm' = vm, expired' \in BOOLEAN,
         socket' \in [Sockets -> Ends], \A s \in Sockets : Quiet(socket[s], socket'[s])
  PROVE  Rest'
  <1>1. Typed'
    BY DEF Rest, Typed
  <1>2. \A k \in Keys : Handed(k)' => Handed(k)
    BY HandedKept
  <1> QED
    BY <1>1, <1>2, QuietStep

LEMMA HelloRest ==
  ASSUME Rest, NEW s \in Sockets, HelloArrives(s)
  PROVE  Rest'
  <1> DEFINE e == socket[s]
             f == [e EXCEPT !.handler = "verify"]
  <1>1. e \in Ends /\ e.handler = "greet"
    BY DEF HelloArrives, Rest, Typed
  <1>2. f \in Ends /\ Quiet(e, f)
    BY <1>1, BoxAssumption DEF Ends, Quiet, Weak, Epoch, Early
  <1>3. Refused(e) \in Ends /\ Quiet(e, Refused(e))
    BY <1>1, RefusedQuiet DEF Quiet
  <1>4. socket' = [socket EXCEPT ![s] = f] \/ socket' = [socket EXCEPT ![s] = Refused(e)]
    BY DEF HelloArrives
  <1>5. socket \in [Sockets -> Ends]
    BY DEF Rest, Typed
  <1> HIDE DEF f
  <1>6. socket' \in [Sockets -> Ends] /\ \A t \in Sockets : Quiet(socket[t], socket'[t])
    BY <1>2, <1>3, <1>4, <1>5, OneQuiet
  <1> QED
    BY <1>6, HubQuiet DEF HelloArrives, Rest, Typed

LEMMA TimeoutRest ==
  ASSUME Rest, NEW s \in Sockets, FirstFrameTimeout(s)
  PROVE  Rest'
  <1> DEFINE e == socket[s]
             f == [e EXCEPT !.hub = "closing"]
  <1>1. e \in Ends
    BY DEF Rest, Typed
  <1>2. f \in Ends /\ Quiet(e, f)
    BY <1>1, BoxAssumption DEF Ends, Quiet, Weak, Epoch
  <1>3. socket' = [socket EXCEPT ![s] = f] /\ socket \in [Sockets -> Ends]
    BY DEF FirstFrameTimeout, Rest, Typed
  <1> HIDE DEF f
  <1>4. socket' \in [Sockets -> Ends] /\ \A t \in Sockets : Quiet(socket[t], socket'[t])
    BY <1>2, <1>3, OneQuiet
  <1> QED
    BY <1>4, HubQuiet DEF FirstFrameTimeout, Rest, Typed

LEMMA StatusRest ==
  ASSUME SoundFor(BoxCallers), Rest, NEW s \in Sockets, StatusArrives(s)
  PROVE  Rest'
  <1> DEFINE e == socket[s]
             f == [e EXCEPT !.report = FALSE]
  <1>1. e \in Ends /\ e.report
    BY DEF StatusArrives, Rest, Typed
  <1>2. f \in Ends
    BY <1>1 DEF Ends
  <1>3. Quiet(e, f)
    BY <1>1, <1>2, BoxAssumption DEF Quiet, Weak, Epoch, Ends
  <1>4. socket' = [socket EXCEPT ![s] = f] /\ socket \in [Sockets -> Ends]
    BY DEF StatusArrives, Rest, Typed
  <1> HIDE DEF f
  <1>5. socket' \in [Sockets -> Ends] /\ \A t \in Sockets : Quiet(socket[t], socket'[t])
    BY <1>2, <1>3, <1>4, OneQuiet
  <1>6. record'.key = record.key /\ record'.revoked = record.revoked
    BY DEF StatusArrives, SoundFor, SoundRecords, Records
  <1> QED
    BY <1>5, <1>6, HubQuiet DEF StatusArrives, Rest, Typed

LEMMA StreamEndsRest ==
  ASSUME Rest, NEW s \in Sockets, StreamEnds(s)
  PROVE  Rest'
  <1> DEFINE e == socket[s]
             f == [e EXCEPT !.streams = @ - 1]
  <1>1. e \in Ends /\ e.streams > 0
    BY DEF StreamEnds, Rest, Typed
  <1>2. f \in Ends /\ Quiet(e, f)
    BY <1>1, BoxAssumption DEF Ends, Quiet, Weak, Epoch
  <1>3. socket' = [socket EXCEPT ![s] = f] /\ socket \in [Sockets -> Ends]
    BY DEF StreamEnds, Rest, Typed
  <1> HIDE DEF f
  <1>4. socket' \in [Sockets -> Ends] /\ \A t \in Sockets : Quiet(socket[t], socket'[t])
    BY <1>2, <1>3, OneQuiet
  <1> QED
    BY <1>4, HubQuiet DEF StreamEnds, Rest, Typed

\* A dialled stream belongs to the current epoch.
LEMMA DialRest ==
  ASSUME Rest, Dial
  PROVE  Rest'
  <1> DEFINE f == [socket[conn] EXCEPT !.streams = @ + 1]
  <1>1. conn \in Sockets /\ socket[conn] \in Ends /\ Room(conn)
    BY DEF Dial, Rest, Typed
  <1>2. /\ f \in Ends /\ f.key = socket[conn].key /\ f.welcome = socket[conn].welcome
        /\ f.handler = socket[conn].handler /\ f.hub = socket[conn].hub
    BY <1>1, BoxAssumption DEF Ends, Room
  <1>3. socket' = [socket EXCEPT ![conn] = f] /\ socket \in [Sockets -> Ends]
    BY DEF Dial, Rest, Typed
  <1> HIDE DEF f
  <1>4. /\ socket' \in [Sockets -> Ends]
        /\ \A s \in Sockets : /\ socket'[s].key = socket[s].key
                              /\ socket'[s].welcome = socket[s].welcome
                              /\ socket'[s].handler = socket[s].handler
                              /\ socket'[s].hub = socket[s].hub
                              /\ s # conn => socket'[s] = socket[s]
    BY <1>1, <1>2, <1>3
  <1>5. Typed'
    BY <1>4 DEF Dial, Rest, Typed
  <1>6. Links'
    BY <1>4 DEF Dial, Rest, Links, StreamsFollow, Epoch
  <1>7. Awaiting'
    BY <1>4, AwaitingKept DEF Dial, Rest
  <1>8. \A s \in Sockets : NotYet(socket'[s])
    BY <1>4 DEF Rest, NotYet
  <1>9. \A k \in Keys : Handed(k)' => Handed(k)
    BY <1>4 DEF Dial, Handed
  <1>10. Known'
    BY <1>4, <1>9, KnownKept DEF Dial, Rest
  <1> QED
    BY <1>5, <1>6, <1>7, <1>8, <1>10 DEF Rest

\* The close of the current epoch's socket ends its streams.
LEMMA HubSeesCloseRest ==
  ASSUME SoundFor(BoxCallers), Rest, NEW s \in Sockets, HubSeesClose(s)
  PROVE  Rest'
  <1> DEFINE e == socket[s]
             current == e.handler = "live" /\ conn = s
             pending == e.handler \in {"verify", "save"}
             h == IF pending THEN e.handler ELSE "no"
             n == IF current THEN 0 ELSE e.streams
             f == [e EXCEPT !.hub = "closed", !.handler = h, !.report = FALSE, !.streams = n]
  <1>1. e \in Ends
    BY DEF Rest, Typed
  <1>2. /\ h \in {"verify", "save", "no"} /\ (h # "no" => h = e.handler)
        /\ e.handler = "save" => h = "save"
        /\ n \in 0..MaxStreams /\ n <= e.streams /\ (current => n = 0)
    BY <1>1, BoxAssumption DEF Ends
  <1>3. socket' = [socket EXCEPT ![s] = Settled(f)] /\ socket \in [Sockets -> Ends]
    <2>1. socket' = [socket EXCEPT ![s] = Settled(f)]
      BY DEF HubSeesClose
    <2> QED
      BY <2>1 DEF Rest, Typed
  <1>4. conn' = IF current THEN None ELSE conn
    BY DEF HubSeesClose
  <1>5. record'.key = record.key /\ record'.revoked = record.revoked
    BY DEF HubSeesClose, SoundFor, SoundRecords, Records
  <1> HIDE DEF h, n
  <1>6. /\ f \in Ends /\ f.handler = h /\ f.streams = n /\ f.hub = "closed"
        /\ f.key = e.key /\ f.welcome = e.welcome
    BY <1>1, <1>2 DEF Ends
  <1> HIDE DEF f
  <1>7. Quiet(e, f)
    BY <1>2, <1>6 DEF Quiet, Weak, Epoch, Early
  <1>8. Settled(f) \in Ends /\ Quiet(e, Settled(f)) /\ Settled(f).streams = n
    BY <1>1, <1>6, <1>7, SettledQuiet, QuietTwice
  <1>9. socket' \in [Sockets -> Ends] /\ \A t \in Sockets : Quiet(socket[t], socket'[t])
    BY <1>3, <1>8, OneQuiet
  <1>10. CASE ~current
    BY <1>4, <1>5, <1>9, <1>10, HubQuiet DEF HubSeesClose, Rest, Typed
  <1>11. CASE current
    <2>1. Typed'
      BY <1>4, <1>9, <1>11 DEF HubSeesClose, Rest, Typed
    <2>2. ASSUME NEW t \in Sockets, Epoch(socket[t])' PROVE FALSE
      <3>1. Epoch(socket[t])
        BY <1>9, <2>2 DEF Quiet, Weak, Epoch
      <3>2. t = s
        BY <1>11, <3>1 DEF Rest, Links
      <3>3. socket'[s] = Settled(f) /\ Settled(f).hub = "closed"
        BY <1>3, <1>6, SettledQuiet
      <3> QED
        BY <2>2, <3>2, <3>3 DEF Epoch
    <2>3. ASSUME NEW t \in Sockets, socket'[t].streams > 0 PROVE record'.revoked
      <3>1. socket'[s].streams = n
        BY <1>3, <1>8
      <3>2. t # s
        BY <1>2, <1>11, <2>3, <3>1
      <3>3. socket'[t] = socket[t]
        BY <1>3, <3>2
      <3> QED
        BY <1>5, <1>11, <2>3, <3>2, <3>3 DEF Rest, Links, StreamsFollow
    <2>4. Links'
      BY <2>2, <2>3 DEF Links, StreamsFollow
    <2>5. Awaiting'
      BY <1>9, AwaitingKept DEF HubSeesClose, Rest, Quiet
    <2>6. \A t \in Sockets : NotYet(socket'[t])
      BY <1>9, NotYetKept DEF Rest
    <2>7. agent' = agent /\ writes' = writes /\ disk' = disk
      BY DEF HubSeesClose
    <2>8. \A k \in Keys : Handed(k)' => Handed(k)
      BY <1>9, <2>7, HandedKept
    <2>9. Known'
      BY <1>5, <1>9, <2>7, <2>8, KnownKept DEF Rest, Quiet, Weak
    <2> QED
      BY <2>1, <2>4, <2>5, <2>6, <2>9 DEF Rest
  <1> QED
    BY <1>10, <1>11

LEMMA HeartbeatRest ==
  ASSUME SoundFor(BoxCallers), Rest, HeartbeatSaves
  PROVE  Rest'
  <1>1. None \in BoxCallers /\ None \notin Sockets
    BY DEF BoxCallers, Sockets, None
  <1>2. record \in SoundRecords
    BY DEF SoundFor
  <1>3. writes' = Save(None, record) /\ UNCHANGED <<record, disk, conn, socket, vm, agent, expired>>
    BY DEF HeartbeatSaves
  <1>4. Awaiting'
    BY <1>1, <1>2, <1>3, AwaitingSaved DEF Rest
  <1>5. \A s \in Sockets : socket[s].key \in Keys \cup {None}
    BY DEF Rest, Typed, Ends
  <1>6. \A k \in Keys : Handed(k)' => Handed(k)
    BY <1>3 DEF Handed
  <1>7. Known'
    BY <1>1, <1>2, <1>3, <1>5, <1>6, KnownSaved DEF Rest
  <1> QED
    BY <1>3, <1>4, <1>7 DEF Rest, Typed, Links, StreamsFollow, Epoch, NotYet

\* The socket a new epoch replaces has neither an epoch nor a stream left.
LEMMA SupersededQuiet ==
  ASSUME NEW e \in Ends
  PROVE  /\ Superseded(e) \in Ends /\ Quiet(e, Superseded(e))
         /\ ~Epoch(Superseded(e)) /\ ~(Superseded(e).streams > 0)
  <1> DEFINE f == HubCloses(e)
             g == [f EXCEPT !.streams = 0]
  <1>1. f \in Ends /\ Quiet(e, f) /\ f.hub # "open"
    BY HubClosesQuiet
  <1>2. Superseded(e) = g /\ 0 \in 0..MaxStreams
    BY BoxAssumption DEF Superseded
  <1> HIDE DEF f
  <1>3. g \in Ends /\ g.streams = 0
    BY <1>1, <1>2 DEF Ends
  <1>4. Quiet(f, g) /\ ~Epoch(g)
    BY <1>1, <1>3, BoxAssumption DEF Quiet, Weak, Epoch, Ends
  <1>5. Quiet(e, g)
    BY <1>1, <1>3, <1>4, QuietTwice
  <1> HIDE DEF g
  <1> QED
    BY <1>2, <1>3, <1>4, <1>5

\* What a hello that passes the comparison does, with the key it is told.
LEMMA AuthenticateDoes ==
  ASSUME SoundFor(BoxCallers), Rest, NEW s \in Sockets, Authenticate(s),
         IF socket[s].hello = None THEN SecretHolds ELSE KeyHolds(s)
  PROVE  \E key \in Keys \cup {None} : \E rec \in SoundRecords :
           /\ record' = rec /\ writes' = Save(s, rec) /\ conn' = s
           /\ socket' \in [Sockets -> Ends]
           /\ socket'[s].handler = "save" /\ socket'[s].key = key
           /\ socket'[s].welcome = socket[s].welcome
           /\ \A t \in Sockets \ {s} : Quiet(socket[t], socket'[t])
           /\ \A t \in Sockets \ {s} : t = conn => /\ ~Epoch(socket'[t])
                                                   /\ ~(socket'[t].streams > 0)
           /\ \A t \in Sockets \ {s} : t # conn => socket'[t] = socket[t]
           /\ ~record.revoked
           /\ key = None => rec.key = record.key
           /\ key # None => record.key = None /\ rec.key = key
  <1> DEFINE first == socket[s].hello = None
             rec == [record EXCEPT !.secret = IF first THEN FALSE ELSE @,
                                   !.key = IF first THEN NewKey ELSE @,
                                   !.status = "online", !.ready = FALSE]
             key == IF first THEN NewKey ELSE None
             e == socket[s]
             f == [e EXCEPT !.handler = "save", !.hello = None, !.key = key]
  <1>1. NewKey \in Keys /\ NewKey # None
    BY BoxAssumption DEF SoundFor, NewKey, Keys, None
  <1>2. ~record.revoked /\ (first => record.key = None)
    BY DEF SoundFor, SoundRecords, Sound, SecretHolds, KeyHolds
  <1>3. record' = rec /\ writes' = Save(s, rec) /\ conn' = s
    BY DEF Authenticate
  <1>4. rec.key = IF first THEN NewKey ELSE record.key
    BY DEF SoundFor, SoundRecords, Records
  <1>5. socket' = [t \in Sockets |-> IF t = s THEN f
                                     ELSE IF t = conn THEN Superseded(socket[t]) ELSE socket[t]]
    BY DEF Authenticate
  <1>6. s \in BoxCallers
    BY DEF BoxCallers
  <1>7. rec \in SoundRecords
    BY <1>3, <1>6, AuthenticateSound DEF SoundFor
  <1> HIDE DEF rec
  <1>8. e \in Ends /\ key \in Keys \cup {None} /\ None \in Keys \cup {None}
    BY <1>1 DEF Rest, Typed
  <1>9. (key = None <=> ~first) /\ (first => key = NewKey)
    BY <1>1
  <1> HIDE DEF key, first
  <1>10. f \in Ends /\ f.handler = "save" /\ f.key = key /\ f.welcome = e.welcome
    BY <1>8 DEF Ends
  <1> HIDE DEF f
  <1>11. ASSUME NEW t \in Sockets, t # s
         PROVE  /\ socket'[t] \in Ends /\ Quiet(socket[t], socket'[t])
                /\ t = conn => ~Epoch(socket'[t]) /\ ~(socket'[t].streams > 0)
                /\ t # conn => socket'[t] = socket[t]
    <2>1. socket[t] \in Ends
      BY DEF Rest, Typed
    <2>2. socket'[t] = IF t = conn THEN Superseded(socket[t]) ELSE socket[t]
      BY <1>5, <1>11
    <2> QED
      BY <2>1, <2>2, SupersededQuiet, QuietSame
  <1>12. socket'[s] = f
    BY <1>5
  <1>13. socket' \in [Sockets -> Ends]
    BY <1>5, <1>10, <1>11, <1>12
  <1> QED
    BY <1>2, <1>3, <1>4, <1>7, <1>8, <1>9, <1>10, <1>11, <1>12, <1>13

LEMMA AuthenticateRest ==
  ASSUME SoundFor(BoxCallers), Rest, NEW s \in Sockets, Authenticate(s)
  PROVE  Rest'
  <1> DEFINE holds == IF socket[s].hello = None THEN SecretHolds ELSE KeyHolds(s)
  <1>1. CASE ~holds
    <2>1. /\ socket' = [socket EXCEPT ![s] = Refused(socket[s])] /\ socket[s].handler = "verify"
          /\ UNCHANGED <<record, conn, writes, disk, vm, agent, expired>>
      BY <1>1 DEF Authenticate
    <2>2. socket[s] \in Ends /\ socket \in [Sockets -> Ends] /\ expired \in BOOLEAN
      BY DEF Rest, Typed
    <2>3. Refused(socket[s]) \in Ends /\ Quiet(socket[s], Refused(socket[s]))
      BY <2>1, <2>2, RefusedQuiet DEF Quiet
    <2>4. socket' \in [Sockets -> Ends] /\ \A t \in Sockets : Quiet(socket[t], socket'[t])
      BY <2>1, <2>2, <2>3, OneQuiet
    <2> QED
      BY <2>1, <2>2, <2>4, HubQuiet
  <1>2. CASE holds
    <2>1. PICK key \in Keys \cup {None}, rec \in SoundRecords :
             /\ record' = rec /\ writes' = Save(s, rec) /\ conn' = s
             /\ socket' \in [Sockets -> Ends]
             /\ socket'[s].handler = "save" /\ socket'[s].key = key
             /\ socket'[s].welcome = socket[s].welcome
             /\ \A t \in Sockets \ {s} : Quiet(socket[t], socket'[t])
             /\ \A t \in Sockets \ {s} : t = conn => /\ ~Epoch(socket'[t])
                                                     /\ ~(socket'[t].streams > 0)
             /\ \A t \in Sockets \ {s} : t # conn => socket'[t] = socket[t]
             /\ ~record.revoked
             /\ key = None => rec.key = record.key
             /\ key # None => record.key = None /\ rec.key = key
      BY <1>2, AuthenticateDoes
    <2>2. /\ socket[s].handler = "verify" /\ ~socket[s].welcome
          /\ UNCHANGED <<disk, vm, agent, expired>>
      BY DEF Authenticate, Rest, NotYet, Early
    <2>3. Typed'
      BY <2>1, <2>2 DEF Rest, Typed
    <2>4. Links'
      BY <2>1 DEF Rest, Links, StreamsFollow
    <2>5. \A t \in Sockets : NotYet(socket'[t])
      <3>1. ASSUME NEW t \in Sockets \ {s} PROVE NotYet(socket'[t])
        BY <2>1, NotYetKept DEF Rest
      <3>2. NotYet(socket'[s])
        BY <2>1, <2>2 DEF NotYet
      <3> QED
        BY <3>1, <3>2
    <2>6. s \in BoxCallers
      BY DEF BoxCallers
    <2>7. /\ DOMAIN writes' = 1..Len(writes) + 1 /\ DOMAIN writes = 1..Len(writes)
          /\ Len(writes) \in Nat
          /\ \A i \in 1..Len(writes) : writes'[i] = writes[i]
          /\ writes'[Len(writes) + 1] = [by |-> s, rec |-> Snapshot(rec)]
      BY <2>1, <2>6, Saved DEF SoundFor
    <2>8. ASSUME NEW i \in DOMAIN writes, writes[i].by \in Sockets
          PROVE  writes[i].by \in Sockets \ {s}
      BY <2>2, <2>8 DEF Rest, Awaiting
    <2>9. Awaiting'
      <3>1. ASSUME NEW i \in DOMAIN writes', writes'[i].by \in Sockets
            PROVE  socket'[writes'[i].by].handler = "save"
        <4>1. CASE i \in DOMAIN writes
          BY <2>1, <2>7, <2>8, <3>1, <4>1 DEF Rest, Awaiting, Quiet
        <4>2. CASE i = Len(writes) + 1
          BY <2>1, <2>7, <4>2
        <4> QED
          BY <2>7, <4>1, <4>2
      <3>2. ASSUME NEW i \in DOMAIN writes', NEW j \in DOMAIN writes',
                   writes'[i].by = writes'[j].by, writes'[i].by \in Sockets
            PROVE  i = j
        BY <2>7, <2>8, <3>2 DEF Rest, Awaiting
      <3> QED
        BY <3>1, <3>2 DEF Awaiting
    <2>10. rec \in Records
      BY DEF SoundRecords
    <2>11. ASSUME NEW i, NEW k \in Keys, From(i, k) PROVE From(i, k)'
      <3>1. k # None
        BY DEF Keys, None
      <3>2. rec.key = k
        BY <2>1, <2>11, <3>1 DEF From, Carries
      <3>3. Carries(rec, k) /\ Carries(Snapshot(rec), k)
        <4>1. Carries(rec, k)
          BY <3>2 DEF Carries
        <4> QED
          BY <2>10, <4>1, SnapshotCarries
      <3>4. ASSUME NEW j \in DOMAIN writes', i <= j PROVE Carries(writes'[j].rec, k)
        <4>1. CASE j \in DOMAIN writes
          BY <2>7, <2>11, <3>4, <4>1 DEF From
        <4>2. CASE j = Len(writes) + 1
          <5>1. writes'[j].rec = Snapshot(rec)
            BY <2>7, <4>2
          <5> QED
            BY <3>3, <5>1
        <4> QED
          BY <2>7, <4>1, <4>2
      <3> QED
        BY <2>1, <3>3, <3>4 DEF From, Carries
    <2>12. ASSUME NEW i \in DOMAIN writes', i \notin DOMAIN writes, key # None
           PROVE  From(i, key)'
      <3>1. Carries(rec, key)
        BY <2>1, <2>12 DEF Carries
      <3>2. Carries(Snapshot(rec), key)
        BY <2>10, <3>1, SnapshotCarries
      <3>3. ASSUME NEW j \in DOMAIN writes', i <= j PROVE Carries(writes'[j].rec, key)
        <4>1. j = Len(writes) + 1
          BY <2>7, <2>12, <3>3
        <4>2. writes'[j].rec = Snapshot(rec)
          BY <2>7, <4>1
        <4> QED
          BY <3>2, <4>2
      <3>4. record' = rec
        BY <2>1
      <3> QED
        BY <3>1, <3>3, <3>4 DEF From, Carries
    <2>13. ASSUME NEW i \in DOMAIN writes', writes'[i].by \in Sockets, socket'[writes'[i].by].key # None
           PROVE  From(i, socket[writes[i].by].key)'
      <3>1. CASE i \in DOMAIN writes
        <4>1. writes'[i] = writes[i] /\ writes[i].by \in Sockets \ {s}
          BY <2>7, <2>8, <2>13, <3>1
        <4>2. PICK k : k = socket[writes[i].by].key
          OBVIOUS
        <4>3. socket'[writes'[i].by].key = k /\ k # None
          BY <2>1, <2>13, <4>1, <4>2 DEF Quiet, Weak
        <4>4. k \in Keys
          BY <4>1, <4>2, <4>3 DEF Rest, Typed, Ends
        <4>5. From(i, k)
          BY <3>1, <4>1, <4>2, <4>3 DEF Rest, Known
        <4>6. From(i, k)'
          BY <2>11, <4>4, <4>5
        <4> QED
          BY <4>3, <4>6 DEF From
      <3>2. CASE i \notin DOMAIN writes
        <4>1. writes'[i].by = s
          BY <2>7, <3>2
        <4>2. socket'[writes'[i].by].key = key /\ key # None
          BY <2>1, <2>13, <4>1
        <4>3. From(i, key)'
          BY <2>12, <3>2, <4>2
        <4> QED
          BY <4>2, <4>3 DEF From
      <3> QED
        BY <3>1, <3>2
    <2>14. ASSUME NEW k \in Keys, Handed(k)' PROVE Carries(disk, k)' /\ From(1, k)'
      <3>1. Handed(k)
        BY <2>1, <2>2, <2>14 DEF Handed, Quiet, Weak
      <3>2. Carries(disk, k) /\ From(1, k)
        BY <3>1 DEF Rest, Known
      <3>3. From(1, k)'
        BY <2>11, <3>2
      <3> QED
        BY <2>2, <3>2, <3>3 DEF Carries
    <2> QED
      BY <2>3, <2>4, <2>5, <2>9, <2>13, <2>14 DEF Rest, Known
  <1> QED
    BY <1>1, <1>2

-----------------------------------------------------------------------------
(* The steps that the registry's calls, and no socket, make *)

\* The write at the head of the chain is over; end f is what became of who awaits it.
LEMMA WriteOver ==
  ASSUME SoundFor(BoxCallers), Rest, writes # <<>>, writes' = Tail(writes),
         disk' \in {disk, Head(writes).rec},
         UNCHANGED <<record, conn, vm, agent, expired>>,
         socket' \in [Sockets -> Ends],
         \A s \in Sockets : s # Head(writes).by => socket'[s] = socket[s],
         \A s \in Sockets : Weak(socket[s], socket'[s]) /\ NotYet(socket'[s]),
         \A s \in Sockets : socket'[s].welcome => socket[s].welcome \/ disk' = Head(writes).rec
  PROVE  Rest'
  <1>1. Typed'
    BY DEF Rest, Typed
  <1>2. Links'
    BY LinksKept DEF Rest
  <1>3. Awaiting'
    BY AwaitingNext DEF Rest
  <1>4. \A s \in Sockets : socket'[s].key \in {socket[s].key, None}
    BY DEF Weak
  <1>5. Known'
    BY <1>4, KnownNext DEF Rest
  <1> QED
    BY <1>1, <1>2, <1>3, <1>5 DEF Rest

LEMMA WelcomedWeak ==
  ASSUME NEW e \in Ends, e.handler = "save"
  PROVE  Welcomed(e) \in Ends /\ Weak(e, Welcomed(e)) /\ NotYet(Welcomed(e))
  <1> DEFINE h == IF e.hub = "closed" THEN "no" ELSE "live"
             w == e.hub = "open" /\ e.box = "open"
             f == [e EXCEPT !.handler = h, !.welcome = w]
  <1>1. h \in {"no", "live"} /\ w \in BOOLEAN /\ Welcomed(e) = Settled(f)
    BY DEF Welcomed
  <1> HIDE DEF h, w
  <1>2. f \in Ends /\ f.handler = h /\ f.hub = e.hub /\ f.streams = e.streams /\ f.key = e.key
    BY <1>1 DEF Ends
  <1> HIDE DEF f
  <1>3. Settled(f) \in Ends /\ Weak(f, Settled(f)) /\ Settled(f).handler = h
    BY <1>2, SettledQuiet DEF Quiet
  <1>4. h \notin Early
    BY <1>1 DEF Early
  <1>5. Weak(e, Settled(f))
    BY <1>2, <1>3, BoxAssumption DEF Weak, Ends, Epoch
  <1> QED
    BY <1>1, <1>3, <1>4, <1>5 DEF NotYet

LEMMA WriteDoneRest ==
  ASSUME SoundFor(BoxCallers), Rest, WriteDone
  PROVE  Rest'
  <1>1. /\ writes # <<>> /\ writes' = Tail(writes) /\ disk' = Head(writes).rec
        /\ UNCHANGED <<record, conn, vm, agent, expired>>
    BY DEF WriteDone
  <1>2. ASSUME NEW s \in Sockets
        PROVE  /\ socket'[s] \in Ends /\ Weak(socket[s], socket'[s]) /\ NotYet(socket'[s])
               /\ s # Head(writes).by => socket'[s] = socket[s]
    <2>1. socket[s] \in Ends /\ NotYet(socket[s])
      BY DEF Rest, Typed
    <2>2. socket'[s] = IF Awaited(s, socket[s]) THEN Welcomed(socket[s]) ELSE socket[s]
      BY DEF WriteDone
    <2>3. Weak(socket[s], socket[s])
      BY <2>1, QuietSame DEF Quiet
    <2> QED
      BY <2>1, <2>2, <2>3, WelcomedWeak DEF Awaited
  <1>3. socket' \in [Sockets -> Ends]
    BY <1>2 DEF WriteDone
  <1> QED
    BY <1>1, <1>2, <1>3, WriteOver

LEMMA WriteFailsRest ==
  ASSUME SoundFor(BoxCallers), Rest, WriteFails
  PROVE  Rest'
  <1>1. /\ writes # <<>> /\ writes' = Tail(writes) /\ disk' = disk
        /\ UNCHANGED <<record, conn, vm, agent, expired>>
    BY DEF WriteFails
  <1>2. ASSUME NEW s \in Sockets
        PROVE  /\ socket'[s] \in Ends /\ Weak(socket[s], socket'[s]) /\ NotYet(socket'[s])
               /\ s # Head(writes).by => socket'[s] = socket[s]
               /\ socket'[s].welcome => socket[s].welcome
    <2>1. socket[s] \in Ends /\ NotYet(socket[s])
      BY DEF Rest, Typed
    <2>2. socket'[s] = IF Awaited(s, socket[s]) THEN Unwritten(socket[s]) ELSE socket[s]
      BY DEF WriteFails
    <2>3. Weak(socket[s], socket[s])
      BY <2>1, QuietSame DEF Quiet
    <2>4. /\ Unwritten(socket[s]) \in Ends /\ Weak(socket[s], Unwritten(socket[s]))
          /\ NotYet(Unwritten(socket[s]))
          /\ Unwritten(socket[s]).welcome => socket[s].welcome
      BY <2>1, RefusedQuiet DEF Unwritten, NotYet
    <2> QED
      BY <2>1, <2>2, <2>3, <2>4 DEF Awaited
  <1>3. socket' \in [Sockets -> Ends]
    BY <1>2 DEF WriteFails
  <1> QED
    BY <1>1, <1>2, <1>3, WriteOver

\* What a crash of the hub leaves of a socket.
LEMMA CrashedWeak ==
  ASSUME NEW e \in Ends,
         NEW f, f = Settled([e EXCEPT !.hub = "closed", !.handler = "no", !.welcome = FALSE,
                                      !.key = None, !.report = FALSE, !.streams = 0])
  PROVE  /\ f \in Ends
         /\ ~f.welcome /\ f.handler = "no" /\ f.key = None /\ ~(f.streams > 0)
  <1> DEFINE g == [e EXCEPT !.hub = "closed", !.handler = "no", !.welcome = FALSE,
                            !.key = None, !.report = FALSE, !.streams = 0]
  <1>1. None \in Keys \cup {None} /\ 0 \in 0..MaxStreams
    BY BoxAssumption
  <1>2. /\ g \in Ends /\ ~g.welcome /\ g.handler = "no" /\ g.key = None /\ g.streams = 0
    BY <1>1 DEF Ends
  <1>3. f = Settled(g)
    OBVIOUS
  <1> HIDE DEF g
  <1>4. Settled(g) \in Ends /\ Quiet(g, Settled(g)) /\ Settled(g).handler = "no"
        /\ Settled(g).streams = 0
    BY <1>2, SettledQuiet
  <1>5. Settled(g).key = None /\ ~Settled(g).welcome
    BY <1>2, <1>4 DEF Quiet, Weak
  <1> QED
    BY <1>3, <1>4, <1>5

\* What the file holds is all that is left, and it knows what the box was given.
LEMMA CrashRest ==
  ASSUME SoundFor(BoxCallers), Rest, HubCrash
  PROVE  Rest'
  <1>1. /\ record' = Loaded(disk) /\ writes' = <<>> /\ conn' = None
        /\ UNCHANGED <<disk, vm, agent, expired>>
    BY DEF HubCrash
  <1>2. ASSUME NEW s \in Sockets
        PROVE  /\ socket'[s] \in Ends /\ ~socket'[s].welcome /\ socket'[s].handler = "no"
               /\ socket'[s].key = None /\ ~(socket'[s].streams > 0)
    <2>1. socket[s] \in Ends
      BY DEF Rest, Typed
    <2>2. socket'[s] = Settled([socket[s] EXCEPT !.hub = "closed", !.handler = "no",
                                  !.welcome = FALSE, !.key = None, !.report = FALSE, !.streams = 0])
      BY DEF HubCrash
    <2> QED
      BY <2>1, <2>2, CrashedWeak
  <1>3. socket' \in [Sockets -> Ends]
    BY <1>2 DEF HubCrash
  <1>4. Typed'
    BY <1>1, <1>3 DEF Rest, Typed
  <1>5. Links'
    BY <1>2 DEF Links, StreamsFollow, Epoch
  <1>6. DOMAIN writes' = {}
    BY <1>1
  <1>7. Awaiting' /\ \A s \in Sockets : NotYet(socket'[s])
    BY <1>2, <1>6 DEF Awaiting, NotYet
  <1>8. ASSUME NEW k \in Keys, Handed(k)' PROVE Carries(disk, k)' /\ From(1, k)'
    <2>1. Handed(k)
      BY <1>1, <1>2, <1>8 DEF Handed
    <2>2. Carries(disk, k) /\ disk \in Records
      BY <2>1 DEF Rest, Known, SoundFor, SoundRecords
    <2>3. Carries(Loaded(disk), k)
      BY <2>2, LoadedCarries
    <2> QED
      BY <1>1, <1>6, <2>2, <2>3 DEF From, Carries
  <1>9. Known'
    BY <1>6, <1>8 DEF Known
  <1> QED
    BY <1>4, <1>5, <1>7, <1>9 DEF Rest

\* A write of the registration by a call: no credential but the revoked is lost.
LEMMA CallRest ==
  ASSUME SoundFor(BoxCallers), Rest, NEW rec \in SoundRecords, writes' = Save(None, rec),
         record' = rec, conn' \in {conn, None}, UNCHANGED <<disk, vm, agent, expired>>,
         \A k \in Keys : Carries(record, k) => Carries(rec, k),
         record.revoked \/ conn' # conn => rec.revoked,
         socket' \in [Sockets -> Ends], \A s \in Sockets : Quiet(socket[s], socket'[s]),
         conn' # conn => \A s \in Sockets : Epoch(socket'[s]) => s # conn
  PROVE  Rest'
  <1>1. None \in BoxCallers /\ None \notin Sockets
    BY DEF BoxCallers, Sockets, None
  <1>2. Typed'
    BY DEF Rest, Typed
  <1>3. Links'
    <2>1. CASE conn' = conn
      BY <2>1, LinksKept DEF Rest, Quiet
    <2>2. CASE conn' # conn
      <3>1. ASSUME NEW s \in Sockets PROVE ~Epoch(socket'[s])
        BY <2>2 DEF Rest, Links, Quiet, Weak
      <3> QED
        BY <2>2, <3>1 DEF Links, StreamsFollow, Epoch
    <2> QED
      BY <2>1, <2>2
  <1>4. Awaiting'
    BY <1>1, AwaitingSaved DEF Rest, Quiet
  <1>5. \A s \in Sockets : NotYet(socket'[s])
    BY NotYetKept DEF Rest
  <1>6. \A s \in Sockets : socket[s].key \in Keys \cup {None}
    BY DEF Rest, Typed, Ends
  <1>7. \A k \in Keys : Handed(k)' => Handed(k)
    BY HandedKept
  <1>8. Known'
    BY <1>1, <1>6, <1>7, KnownSaved DEF Rest, Quiet, Weak
  <1> QED
    BY <1>2, <1>3, <1>4, <1>5, <1>8 DEF Rest

\* A registration that is not known yet has no credential to lose.
LEMMA PrepareRest ==
  ASSUME SoundFor(BoxCallers), Rest, Prepare(None)
  PROVE  Rest'
  <1>1. /\ writes' = Save(None, Fresh) /\ record' = Fresh /\ ~record.known
        /\ UNCHANGED <<disk, conn, socket, vm, agent, expired>>
    BY DEF Prepare
  <1>2. record.key = None /\ ~record.revoked
    BY <1>1 DEF SoundFor, SoundRecords, Sound
  <1>3. \A k \in Keys : ~Carries(record, k)
    BY <1>2 DEF Carries, Keys, None
  <1>4. socket' \in [Sockets -> Ends] /\ \A s \in Sockets : Quiet(socket[s], socket'[s])
    BY <1>1, SameQuiet DEF Rest
  <1>5. Fresh \in SoundRecords
    BY FirstSound
  <1> QED
    BY <1>1, <1>2, <1>3, <1>4, <1>5, CallRest

LEMMA BindRest ==
  ASSUME SoundFor(BoxCallers), Rest, Bind(None)
  PROVE  Rest'
  <1> DEFINE rec == [record EXCEPT !.bound = TRUE]
  <1>1. /\ writes' = Save(None, rec) /\ record' = rec
        /\ UNCHANGED <<disk, conn, socket, vm, agent, expired>>
    BY DEF Bind
  <1>2. rec \in SoundRecords /\ rec.revoked = record.revoked /\ rec.key = record.key
    BY DEF SoundFor, SoundRecords, Records, Sound, Bind
  <1> HIDE DEF rec
  <1>3. \A k \in Keys : Carries(record, k) => Carries(rec, k)
    BY <1>2 DEF Carries
  <1>4. socket' \in [Sockets -> Ends] /\ \A s \in Sockets : Quiet(socket[s], socket'[s])
    BY <1>1, SameQuiet DEF Rest
  <1> QED
    BY <1>1, <1>2, <1>3, <1>4, CallRest

LEMMA RevokeRest ==
  ASSUME SoundFor(BoxCallers), Rest, Revoke(None)
  PROVE  Rest'
  <1> DEFINE rec == RevokedRecord(record)
  <1>1. /\ writes' = Save(None, rec) /\ record' = rec /\ conn' = None
        /\ UNCHANGED <<disk, vm, agent, expired>>
    BY DEF Revoke
  <1>2. rec \in SoundRecords /\ rec.revoked
    BY DEF SoundFor, SoundRecords, Records, Sound, RevokedRecord, None, Revoke
  <1> HIDE DEF rec
  <1>3. \A k \in Keys : Carries(rec, k)
    BY <1>2 DEF Carries
  <1>4. ASSUME NEW s \in Sockets
        PROVE  /\ socket'[s] \in Ends /\ Quiet(socket[s], socket'[s])
               /\ s = conn => ~Epoch(socket'[s])
    <2>1. socket[s] \in Ends
      BY DEF Rest, Typed
    <2>2. socket'[s] = IF s = conn THEN HubCloses(socket[s]) ELSE socket[s]
      BY DEF Revoke
    <2> QED
      BY <2>1, <2>2, HubClosesQuiet, QuietSame DEF Epoch
  <1>5. socket' \in [Sockets -> Ends]
    BY <1>4 DEF Revoke
  <1> QED
    BY <1>1, <1>2, <1>3, <1>4, <1>5, CallRest

LEMMA HubNextRest ==
  ASSUME SoundFor(BoxCallers), Rest, HubNext
  PROVE  Rest'
  <1>1. CASE BootstrapExpires
    BY <1>1, SameQuiet, HubQuiet DEF BootstrapExpires, Rest
  <1> QED
    BY <1>1, HeartbeatRest, DialRest, HelloRest, AuthenticateRest, TimeoutRest, StatusRest,
       HubSeesCloseRest, StreamEndsRest DEF HubNext

LEMMA BoxNextRest ==
  ASSUME SoundFor(BoxCallers), Rest, [BoxNext]_boxVars
  PROVE  Rest'
  <1>1. CASE PowerOn \/ PowerOff
    <2>1. vm' \in Machines /\ UNCHANGED <<record, disk, writes, conn, socket, agent, expired>>
      BY <1>1 DEF PowerOn, PowerOff, Machines
    <2> QED
      BY <2>1, SameQuiet, BoxQuiet DEF Rest, Typed
  <1>2. CASE UNCHANGED boxVars
    BY <1>2, SameQuiet, BoxQuiet DEF boxVars, Rest, Typed
  <1> QED
    BY <1>1, <1>2, HubNextRest, AgentNextRest, WriteDoneRest, WriteFailsRest, CrashRest,
       PrepareRest, BindRest, RevokeRest DEF BoxNext

LEMMA InitRest ==
  ASSUME BoxInit
  PROVE  Rest
  <1>1. \A s \in Sockets : socket[s] = Closed
    BY DEF BoxInit
  <1>2. /\ Closed.handler = "no" /\ ~Closed.welcome /\ ~(Closed.streams > 0)
    BY DEF Closed
  <1>3. socket \in [Sockets -> Ends]
    BY ClosedEnd DEF BoxInit
  <1>4. agent \in Agents /\ agent.task = "off" /\ agent.told = None /\ agent.file = None
    BY DEF BoxInit, Agents, Tasks
  <1>5. Typed
    BY <1>3, <1>4 DEF BoxInit, Typed, Machines
  <1>6. Links
    BY <1>1, <1>2 DEF Links, StreamsFollow, Epoch
  <1>7. writes = <<>> /\ DOMAIN writes = {}
    BY DEF BoxInit
  <1>8. Awaiting /\ \A s \in Sockets : NotYet(socket[s])
    BY <1>1, <1>2, <1>7 DEF Awaiting, NotYet
  <1>9. \A k \in Keys : ~Handed(k)
    BY <1>1, <1>2, <1>4 DEF Handed
  <1>10. Known
    BY <1>7, <1>9 DEF Known
  <1> QED
    BY <1>5, <1>6, <1>8, <1>10 DEF Rest

-----------------------------------------------------------------------------
(* The theorems *)

LEMMA Inductive ==
  /\ BoxInit => Inv
  /\ Inv /\ [BoxNext]_boxVars => Inv'
  <1>1. BoxInit => Inv
    BY InitSound, InitRest DEF Inv
  <1>2. ASSUME Inv, [BoxNext]_boxVars PROVE Inv'
    BY <1>2, BoxNextSound, BoxNextRest DEF Inv
  <1> QED
    BY <1>1, <1>2

LEMMA InvTypes ==
  ASSUME Inv
  PROVE  TypeOK
  <1>1. /\ record \in Records /\ record.status # "saved" /\ disk \in Records
        /\ faults \in 0..MaxFaults
    BY DEF Inv, SoundFor, SoundRecords
  <1>2. ASSUME NEW i \in DOMAIN writes PROVE writes[i].rec \in Records
    <2>1. writes \in Seq([by : BoxCallers, rec : SoundRecords])
      BY DEF Inv, SoundFor
    <2>2. writes[i] \in [by : BoxCallers, rec : SoundRecords]
      BY <2>1, ElementOfSeq, LenProperties
    <2> QED
      BY <2>2 DEF SoundRecords
  <1>3. /\ conn \in Sockets \cup {None} /\ socket \in [Sockets -> Ends] /\ expired \in BOOLEAN
        /\ vm \in {"none", "starting", "on", "stopping", "off", "gone"}
    BY DEF Inv, Rest, Typed, Machines
  <1>4. /\ agent.task \in {"off", "idle", "wait", "store", "check", "serve", "missed"}
        /\ agent.on \in Sockets \cup {None}
        /\ {agent.told, agent.file} \subseteq Keys \cup {None}
    BY DEF Inv, Rest, Typed, Agents, Tasks
  <1> QED
    BY <1>1, <1>2, <1>3, <1>4 DEF TypeOK

\* Every variable keeps its type, and no epoch has more than MaxStreams streams.
THEOREM BoxTypes == BoxSpec => []TypeOK
  <1> QED
    BY Inductive, InvTypes, PTL DEF BoxSpec

\* Whatever crashes and whichever write fails, the hub knows the credential that a
\* box has stored, in memory and in its file, until the registration is revoked.
THEOREM CredentialKnown == BoxSpec => []StoredKeyKnown
  <1>1. ASSUME Inv PROVE StoredKeyKnown
    <2>1. SUFFICES ASSUME agent.file # None
                   PROVE  /\ ~disk.revoked => disk.key = agent.file
                          /\ ~record.revoked => record.key = agent.file
      BY DEF StoredKeyKnown
    <2>2. agent.file \in Keys
      BY <1>1, <2>1 DEF Inv, Rest, Typed, Agents
    <2>3. Handed(agent.file)
      BY <2>1 DEF Handed
    <2>4. Carries(disk, agent.file) /\ From(1, agent.file)
      BY <1>1, <2>2, <2>3 DEF Inv, Rest, Known
    <2> QED
      BY <2>4 DEF From, Carries
  <1> QED
    BY <1>1, Inductive, PTL DEF BoxSpec

\* The hub leaves no welcomed socket open but the current epoch's.
THEOREM OneEpoch == BoxSpec => []OneCurrent
  <1>1. ASSUME Inv PROVE OneCurrent
    BY <1>1 DEF Inv, Rest, Links, Epoch, OneCurrent
  <1> QED
    BY <1>1, Inductive, PTL DEF BoxSpec

\* Only the current epoch has streams, unless the registration is revoked.
THEOREM StreamsEnd == BoxSpec => []StreamsFollow
  <1>1. ASSUME Inv PROVE StreamsFollow
    BY <1>1 DEF Inv, Rest, Links
  <1> QED
    BY <1>1, Inductive, PTL DEF BoxSpec
=============================================================================
