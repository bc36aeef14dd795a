---------------------------- MODULE BoxConnections ----------------------------
(***************************************************************************)
(* The hub's registry of cloud boxes and the agent on a box                *)
(* (oyster-hub/box-registry.mjs and box-agent.mjs): one registration, the  *)
(* sockets its box opens, and the credential each side keeps.              *)
(*                                                                         *)
(* The hub keeps `record` in memory and writes snapshots of it, one after  *)
(* another, to its state file.  The box proves itself with a one-use       *)
(* secret, then with the credential of its first welcome, which it stores. *)
(* Each end of a socket has its own view: a link may be cut, so that       *)
(* nothing more crosses it, and the two ends notice apart or never.        *)
(*                                                                         *)
(* A write whose snapshot differs only in the dates, the status or the     *)
(* observed state is left out: load computes the status again and a hello  *)
(* replaces what was observed.  An epoch is here the socket it was given.  *)
(* CloudWorkspaces composes this module with what creates boxes.           *)
(***************************************************************************)
EXTENDS Naturals, Sequences, FiniteSets

CONSTANTS MaxSockets,  \* sockets of the box that exist at one time
          MaxStreams,  \* MAX_DIAL_STREAMS
          MaxFaults    \* bound on cuts, crashes, restarts, timeouts, failed writes

ASSUME BoxAssumption == /\ MaxSockets \in Nat \ {0}
                        /\ MaxStreams \in Nat \ {0}
                        /\ MaxFaults \in Nat

VARIABLES
  record,   \* the registration in the hub's memory
  disk,     \* the registration in the hub's state file
  writes,   \* the snapshots on writeChain, each with who awaits it
  conn,     \* connections: the socket of the current epoch
  socket,   \* both ends of each socket, and what is on its way
  vm,       \* the machine, as its provider runs it
  agent,    \* what its agent is doing, its socket, its credential file
  expired,  \* has the bootstrap secret's time passed?
  faults    \* how many faults there were

boxVars == <<record, disk, writes, conn, socket, vm, agent, expired, faults>>

Sockets == 1..MaxSockets
None == 0
Keys == 1..(MaxFaults + 1)  \* reconnect credentials, one per life of the hub

NoRecord == [known |-> FALSE, bound |-> FALSE, revoked |-> FALSE,
             secret |-> FALSE, key |-> None, status |-> "none", ready |-> FALSE]
Fresh == [NoRecord EXCEPT !.known = TRUE, !.secret = TRUE, !.status = "awaiting_agent"]

\* hub, box: the ends; handler: the hub's task; hello, welcome, key, report:
\* what the box said and was told; streams: the dialled streams of the epoch.
Closed == [hub |-> "closed", box |-> "closed", cut |-> FALSE, handler |-> "no",
           hello |-> None, welcome |-> FALSE, key |-> None, report |-> FALSE, streams |-> 0]
Opened(k) == [Closed EXCEPT !.hub = "open", !.box = "open", !.handler = "greet", !.hello = k]

BoxInit ==
  /\ record = NoRecord
  /\ disk = NoRecord
  /\ writes = <<>>
  /\ conn = None
  /\ socket = [s \in Sockets |-> Closed]
  /\ vm = "none"
  /\ agent = [task |-> "off", on |-> None, told |-> None, file |-> None]
  /\ expired = FALSE
  /\ faults = 0

-----------------------------------------------------------------------------
(* Helpers *)

Fault == faults < MaxFaults /\ faults' = faults + 1

\* What a snapshot keeps of a record, and what load makes of it.
Snapshot(rec) == [rec EXCEPT !.status = IF @ = "failed" THEN @ ELSE "saved", !.ready = FALSE]
Loaded(rec) ==
  [rec EXCEPT !.status = IF @ # "saved" THEN @
                         ELSE IF rec.key # None THEN "offline" ELSE "awaiting_agent"]

Save(by, rec) == Append(writes, [by |-> by, rec |-> Snapshot(rec)])

\* The credential of this life of the hub: its secret is used at most once.
NewKey == faults + 1

Free(s) == socket[s].hub = "closed" /\ socket[s].box = "closed" /\ conn # s
           /\ socket[s].handler = "no" /\ socket[s].streams = 0
FirstFree(s) == Free(s) /\ \A t \in 1..(s - 1) : ~Free(t)

\* Nothing is on its way between two ends that are closed.
Settled(end) == IF end.hub = "closed" /\ end.box = "closed" /\ end.handler = "no"
                THEN [Closed EXCEPT !.streams = end.streams] ELSE end

\* socket.close: the close event comes later.
HubCloses(end) == IF end.hub = "open" THEN [end EXCEPT !.hub = "closing"] ELSE end
Refused(end) ==
  Settled([HubCloses(end) EXCEPT !.handler = IF end.hub = "closed" THEN "no" ELSE "refused",
                                 !.hello = None])

-----------------------------------------------------------------------------
(* The hub's end of a socket *)

\* authenticate, up to the provider's attestation: the registration is known,
\* not revoked, and bound to the instance that says hello.
HelloArrives(s) ==
  /\ socket[s].handler = "greet"
  /\ socket[s].hub # "closed"
  /\ ~socket[s].cut
  /\ socket' = [socket EXCEPT ![s] =
       IF record.known /\ ~record.revoked /\ record.bound
       THEN [@ EXCEPT !.handler = "verify"] ELSE Refused(@)]
  /\ UNCHANGED <<record, disk, writes, conn, vm, agent, expired, faults>>

\* Mutant: the socket a new epoch replaces is forgotten but left open.
LeftOpen(end) == [end EXCEPT !.streams = 0]

\* Mutant: the streams of the epoch that is replaced are not destroyed.
StreamsKept(end) == HubCloses(end)

\* The socket that a new epoch replaces.
Superseded(end) == [HubCloses(end) EXCEPT !.streams = 0]

SecretHolds == record.secret /\ ~expired

\* Mutant: a box that the hub believes connected is refused.
KeyHoldsAlone(s) == record.key # None /\ record.key = socket[s].hello /\ conn = None

KeyHolds(s) == record.key # None /\ record.key = socket[s].hello

\* The attestation holds: the credentials are compared, a new epoch replaces
\* the one before, and the welcome waits until the registration is written.
Authenticate(s) ==
  /\ socket[s].handler = "verify"
  /\ LET first == socket[s].hello = None
         rec == [record EXCEPT !.secret = IF first THEN FALSE ELSE @,
                               !.key = IF first THEN NewKey ELSE @,
                               !.status = "online", !.ready = FALSE]
     IN  IF IF first THEN SecretHolds ELSE KeyHolds(s)
         THEN /\ record' = rec
              /\ conn' = s
              /\ socket' = [t \in Sockets |->
                   IF t = s THEN [socket[s] EXCEPT !.handler = "save", !.hello = None,
                                                   !.key = IF first THEN NewKey ELSE None]
                   ELSE IF t = conn THEN Superseded(socket[t]) ELSE socket[t]]
              /\ writes' = Save(s, rec)
         ELSE /\ socket' = [socket EXCEPT ![s] = Refused(@)]
              /\ UNCHANGED <<record, conn, writes>>
  /\ UNCHANGED <<disk, vm, agent, expired, faults>>

\* The write that socket s awaits is done: the welcome is sent, if it still can be.
Welcomed(end) ==
  Settled([end EXCEPT !.handler = IF end.hub = "closed" THEN "no" ELSE "live",
                      !.welcome = end.hub = "open" /\ end.box = "open"])

Awaited(s, end) == writes # <<>> /\ Head(writes).by = s /\ end.handler = "save"

WriteDone ==
  /\ writes # <<>>
  /\ disk' = Head(writes).rec
  /\ writes' = Tail(writes)
  /\ socket' = [s \in Sockets |-> IF Awaited(s, socket[s]) THEN Welcomed(socket[s]) ELSE socket[s]]
  /\ UNCHANGED <<record, conn, vm, agent, expired, faults>>

\* Mutant: a failed write is logged, as a heartbeat's is, and the box welcomed.
WelcomedAnyway(end) == Welcomed(end)

Unwritten(end) == Refused(end)

\* A write that fails leaves the file; who awaits it is refused, with the
\* record and the connection as they are in memory.
WriteFails ==
  /\ writes # <<>>
  /\ Fault
  /\ writes' = Tail(writes)
  /\ socket' = [s \in Sockets |-> IF Awaited(s, socket[s]) THEN Unwritten(socket[s]) ELSE socket[s]]
  /\ UNCHANGED <<record, disk, conn, vm, agent, expired>>

\* A heartbeat of any box writes the whole registry again.
HeartbeatSaves ==
  /\ writes = <<>>
  /\ disk # Snapshot(record)
  /\ record.known
  /\ writes' = Save(None, record)
  /\ UNCHANGED <<record, disk, conn, socket, vm, agent, expired, faults>>

FirstFrameTimeout(s) ==
  /\ socket[s].handler = "greet"
  /\ socket[s].hub = "open"
  /\ IF socket[s].cut THEN UNCHANGED faults ELSE Fault
  /\ socket' = [socket EXCEPT ![s].hub = "closing"]
  /\ UNCHANGED <<record, disk, writes, conn, vm, agent, expired>>

\* The frame of an epoch that is no longer current is ignored.
StatusArrives(s) ==
  /\ socket[s].report
  /\ socket[s].handler = "live"
  /\ socket[s].hub # "closed"
  /\ ~socket[s].cut
  /\ socket' = [socket EXCEPT ![s].report = FALSE]
  /\ record' = [record EXCEPT !.ready = @ \/ conn = s]
  /\ UNCHANGED <<disk, writes, conn, vm, agent, expired, faults>>

\* The hub's end may be told that the socket is closed: by the box, by its own
\* close, or by the network.
HubMayClose(s) == /\ socket[s].hub # "closed"
                  /\ socket[s].hub = "closing" \/ socket[s].box = "closed" \/ socket[s].cut

\* The close handler: only a handler that has its welcome behind it, and whose
\* epoch is current, drops the connection.
HubSeesClose(s) ==
  /\ HubMayClose(s)
  /\ LET end == socket[s]
         current == end.handler = "live" /\ conn = s
         pending == end.handler \in {"verify", "save"}
     IN  /\ socket' = [socket EXCEPT ![s] = Settled(
              [end EXCEPT !.hub = "closed", !.handler = IF pending THEN end.handler ELSE "no",
                          !.report = FALSE, !.streams = IF current THEN 0 ELSE end.streams])]
         /\ conn' = IF current THEN None ELSE conn
         /\ record' = IF current THEN [record EXCEPT !.status = "offline"] ELSE record
  /\ UNCHANGED <<disk, writes, vm, agent, expired, faults>>

\* Mutant: the limit on streams is not tested.
AlwaysRoom(s) == TRUE

Room(s) == socket[s].streams < MaxStreams

\* dial: a stream to the box on the current connection, unless it is full.
Dial ==
  /\ conn # None
  /\ ~record.revoked
  /\ Room(conn)
  /\ socket' = [socket EXCEPT ![conn].streams = @ + 1]
  /\ UNCHANGED <<record, disk, writes, conn, vm, agent, expired, faults>>

\* A stream ends, at the box's word or because its request is over.
StreamEnds(s) ==
  /\ socket[s].streams > 0
  /\ socket' = [socket EXCEPT ![s].streams = @ - 1]
  /\ UNCHANGED <<record, disk, writes, conn, vm, agent, expired, faults>>

BootstrapExpires ==
  /\ record.secret
  /\ ~expired
  /\ expired' = TRUE
  /\ UNCHANGED <<record, disk, writes, conn, socket, vm, agent, faults>>

-----------------------------------------------------------------------------
(* prepareRegistration, bindProviderInstance and revoke, which await a write *)

Prepare(by) ==
  /\ ~record.known
  /\ record' = Fresh
  /\ writes' = Save(by, Fresh)
  /\ UNCHANGED <<disk, conn, socket, vm, agent, expired, faults>>

\* Only a bound box can be connected, and an instance is never replaced: the
\* test for a connected agent of another instance always fails.
Bind(by) ==
  /\ record.known
  /\ LET rec == [record EXCEPT !.bound = TRUE]
     IN  record' = rec /\ writes' = Save(by, rec)
  /\ UNCHANGED <<disk, conn, socket, vm, agent, expired, faults>>

\* Mutant: the hash of the reconnect credential stays in the revoked record.
KeyKept(rec) == [rec EXCEPT !.revoked = TRUE, !.secret = FALSE, !.status = "failed"]

RevokedRecord(rec) ==
  [rec EXCEPT !.revoked = TRUE, !.secret = FALSE, !.key = None, !.status = "failed"]

\* The connection is dropped and its socket closed; its streams are not.
Revoke(by) ==
  /\ record.known
  /\ record' = RevokedRecord(record)
  /\ socket' = [s \in Sockets |-> IF s = conn THEN HubCloses(socket[s]) ELSE socket[s]]
  /\ conn' = None
  /\ writes' = Save(by, RevokedRecord(record))
  /\ UNCHANGED <<disk, vm, agent, expired, faults>>

-----------------------------------------------------------------------------
(* The box *)

Doing(task) == agent.task = task
Continue(task) == agent' = [agent EXCEPT !.task = task]

\* The machine was asked to start.
VmStarts ==
  /\ vm = "starting"
  /\ vm' = "on"
  /\ UNCHANGED <<record, disk, writes, conn, socket, agent, expired, faults>>

BoxClosed(end) == Settled([end EXCEPT !.box = "closed", !.welcome = FALSE, !.key = None])

\* The agent's process ends with its machine: without a word to the hub when
\* the power is cut, with closed sockets when the system shuts down.
Gone(silent) ==
  /\ socket' = [s \in Sockets |-> IF socket[s].box = "open"
       THEN BoxClosed([socket[s] EXCEPT !.cut = @ \/ silent]) ELSE socket[s]]
  /\ agent' = [agent EXCEPT !.task = "off", !.on = None, !.told = None]

VmStops(silent) ==
  /\ vm = "stopping"
  /\ vm' = "off"
  /\ Gone(silent)
  /\ UNCHANGED <<record, disk, writes, conn, expired, faults>>

\* systemd starts the agent, and again five seconds after it ended.
AgentStarts ==
  /\ vm = "on"
  /\ Doing("off")
  /\ Continue("idle")
  /\ UNCHANGED <<record, disk, writes, conn, socket, vm, expired, faults>>

\* connectOnce: the stored credential is read, a socket opened, the hello sent.
Connect ==
  /\ Doing("idle")
  /\ \E s \in Sockets :
       /\ FirstFree(s)
       /\ socket' = [socket EXCEPT ![s] = Opened(agent.file)]
       /\ agent' = [agent EXCEPT !.task = "wait", !.on = s]
  /\ UNCHANGED <<record, disk, writes, conn, vm, expired, faults>>

WelcomeArrives ==
  /\ Doing("wait")
  /\ socket[agent.on].welcome
  /\ socket[agent.on].box = "open"
  /\ ~socket[agent.on].cut
  /\ socket' = [socket EXCEPT ![agent.on].welcome = FALSE, ![agent.on].key = None]
  /\ LET key == socket[agent.on].key
     IN  agent' = [agent EXCEPT !.task = IF key # None THEN "store" ELSE "check", !.told = key]
  /\ UNCHANGED <<record, disk, writes, conn, vm, expired, faults>>

\* The agent gives up a socket, and leaves it open.
Abandons == agent' = [agent EXCEPT !.task = "idle", !.on = None, !.told = None]

WelcomeTimesOut ==
  /\ Doing("wait")
  /\ IF socket[agent.on].cut THEN UNCHANGED faults ELSE Fault
  /\ Abandons
  /\ UNCHANGED <<record, disk, writes, conn, socket, vm, expired>>

StoreCredential ==
  /\ Doing("store")
  /\ agent' = [agent EXCEPT !.task = "check", !.file = agent.told, !.told = None]
  /\ UNCHANGED <<record, disk, writes, conn, socket, vm, expired, faults>>

StoreFails ==
  /\ Doing("store")
  /\ Fault
  /\ Abandons
  /\ UNCHANGED <<record, disk, writes, conn, socket, vm, expired>>

\* After up to ten minutes the agent reports whether Oyster answers, and then
\* awaits a close event, which may be behind it.
ReadinessReturns(ready) ==
  /\ Doing("check")
  /\ IF socket[agent.on].box = "open"
     THEN /\ socket' = [socket EXCEPT ![agent.on].report = ready]
          /\ Continue("serve")
     ELSE Continue("missed") /\ UNCHANGED socket
  /\ UNCHANGED <<record, disk, writes, conn, vm, expired, faults>>

\* Node ends when nothing holds it: a socket that was given up still does.
AgentEnds ==
  /\ Doing("missed")
  /\ \A s \in Sockets : socket[s].box = "closed"
  /\ agent' = [agent EXCEPT !.task = "off", !.on = None, !.told = None]
  /\ UNCHANGED <<record, disk, writes, conn, socket, vm, expired, faults>>

AgentCrash ==
  /\ agent.task # "off"
  /\ Fault
  /\ Gone(FALSE)
  /\ UNCHANGED <<record, disk, writes, conn, vm, expired>>

\* What the hub sent before it closed comes before the close event.
BoxMayClose(s) ==
  /\ socket[s].box = "open"
  /\ socket[s].cut \/ (socket[s].hub # "open" /\ ~(s = agent.on /\ socket[s].welcome))

BoxSeesClose(s) ==
  /\ BoxMayClose(s)
  /\ socket' = [socket EXCEPT ![s] = BoxClosed(@)]
  /\ agent' = IF s = agent.on /\ agent.task \in {"wait", "serve"}
              THEN [agent EXCEPT !.task = "idle", !.on = None] ELSE agent
  /\ UNCHANGED <<record, disk, writes, conn, vm, expired, faults>>

\* The network between the two ends is gone.
LinkCut(s) ==
  /\ socket[s].box = "open" /\ socket[s].hub # "closed" /\ ~socket[s].cut
  /\ Fault
  /\ socket' = [socket EXCEPT ![s].cut = TRUE]
  /\ UNCHANGED <<record, disk, writes, conn, vm, agent, expired>>

\* The hub ends, its writes with it, and loads the state file when it is back.
HubCrash ==
  /\ Fault
  /\ record' = Loaded(disk)
  /\ writes' = <<>>
  /\ conn' = None
  /\ socket' = [s \in Sockets |->
       Settled([socket[s] EXCEPT !.hub = "closed", !.handler = "no", !.welcome = FALSE,
                                 !.key = None, !.report = FALSE, !.streams = 0])]
  /\ UNCHANGED <<disk, vm, agent, expired>>

-----------------------------------------------------------------------------
(* The steps that no request asks for *)

HubNext ==
  \/ HeartbeatSaves \/ Dial \/ BootstrapExpires
  \/ \E s \in Sockets : \/ HelloArrives(s) \/ Authenticate(s) \/ FirstFrameTimeout(s)
                        \/ StatusArrives(s) \/ HubSeesClose(s) \/ StreamEnds(s)

AgentNext ==
  \/ VmStarts \/ AgentStarts \/ Connect \/ WelcomeArrives \/ WelcomeTimesOut \/ StoreCredential
  \/ StoreFails \/ AgentEnds \/ AgentCrash
  \/ \E yes \in BOOLEAN : ReadinessReturns(yes) \/ VmStops(yes)
  \/ \E s \in Sockets : BoxSeesClose(s) \/ LinkCut(s)

-----------------------------------------------------------------------------
(* Specification of the registry and the agent alone: the registration is   *)
(* prepared, bound and revoked, and the machine switched, at any time.      *)

PowerOn ==
  /\ record.known
  /\ vm \in {"none", "off"}
  /\ vm' = "starting"
  /\ UNCHANGED <<record, disk, writes, conn, socket, agent, expired, faults>>

PowerOff ==
  /\ vm = "on"
  /\ Fault
  /\ vm' = "stopping"
  /\ UNCHANGED <<record, disk, writes, conn, socket, agent, expired>>

BoxNext ==
  \/ HubNext \/ AgentNext \/ WriteDone \/ WriteFails \/ HubCrash
  \/ Prepare(None)
  \/ ~record.bound /\ Bind(None)
  \/ ~record.revoked /\ Revoke(None)
  \/ PowerOn \/ PowerOff

BoxSpec == BoxInit /\ [][BoxNext]_boxVars

\* What is scheduled happens: handlers and callbacks run, a request's stream
\* ends, a machine and its agent start, and the ends of a socket are told that
\* it is closed where the other end, or a heartbeat, tells them.
Told(s) == ~socket[s].cut \/ s = agent.on
AgentFairness ==
  /\ WF_boxVars(AgentStarts) /\ WF_boxVars(Connect) /\ WF_boxVars(WelcomeArrives)
  /\ WF_boxVars(WelcomeTimesOut) /\ WF_boxVars(StoreCredential) /\ WF_boxVars(AgentEnds)
  /\ WF_boxVars(\E yes \in BOOLEAN : ReadinessReturns(yes))
  /\ \A s \in Sockets : WF_boxVars(Told(s) /\ BoxSeesClose(s))
HubFairness ==
  /\ WF_boxVars(WriteDone)
  /\ \A s \in Sockets : /\ WF_boxVars(HelloArrives(s)) /\ WF_boxVars(Authenticate(s))
                        /\ WF_boxVars(StreamEnds(s)) /\ WF_boxVars(FirstFrameTimeout(s))
                        /\ WF_boxVars(socket[s].hub = "closing" /\ HubSeesClose(s))
                        /\ WF_boxVars(~socket[s].cut /\ HubSeesClose(s))
FairBoxSpec == BoxSpec /\ AgentFairness /\ HubFairness

-----------------------------------------------------------------------------
(* Properties *)

Records == [known : BOOLEAN, bound : BOOLEAN, revoked : BOOLEAN, secret : BOOLEAN,
            key : Keys \cup {None}, ready : BOOLEAN,
            status : {"none", "awaiting_agent", "online", "offline", "failed", "saved"}]
Ends == [hub : {"open", "closing", "closed"}, box : {"open", "closed"}, cut : BOOLEAN,
         handler : {"no", "greet", "verify", "save", "live", "refused"},
         hello : Keys \cup {None}, welcome : BOOLEAN, key : Keys \cup {None},
         report : BOOLEAN, streams : 0..MaxStreams]

\* Every variable keeps its type; an epoch has at most MAX_DIAL_STREAMS streams.
TypeOK ==
  /\ record \in Records /\ record.status # "saved"
  /\ disk \in Records
  /\ \A i \in DOMAIN writes : writes[i].rec \in Records
  /\ conn \in Sockets \cup {None}
  /\ socket \in [Sockets -> Ends]
  /\ vm \in {"none", "starting", "on", "stopping", "off", "gone"}
  /\ agent.task \in {"off", "idle", "wait", "store", "check", "serve", "missed"}
  /\ agent.on \in Sockets \cup {None}
  /\ {agent.told, agent.file} \subseteq Keys \cup {None}
  /\ expired \in BOOLEAN
  /\ faults \in 0..MaxFaults

\* The credential a box has stored is the one the hub knows, in memory and in
\* its file, until it is revoked: a welcome never leaves before the registration
\* is written (authenticate awaits persist), so neither a crash of the hub nor
\* one of the agent makes a stored credential worthless.
StoredKeyKnown ==
  agent.file # None =>
    /\ ~disk.revoked => disk.key = agent.file
    /\ ~record.revoked => record.key = agent.file

\* Of the sockets that were welcomed, the hub leaves only the current epoch's
\* open: the one a new hello replaces, and a revoked one, are told to close.
OneCurrent ==
  \A s \in Sockets : socket[s].handler = "live" /\ socket[s].hub = "open" => conn = s

\* No request is left on a stream of an epoch that is over, unless the
\* registration was revoked: revoke closes the socket and drops the connection
\* first, so that the close handler finds nothing to destroy.
StreamsFollow == \A s \in Sockets : socket[s].streams > 0 => conn = s \/ record.revoked

\* A revoked registration is not online and has no connection, whatever hello,
\* write, close event or restart of the hub was under way when it was revoked.
RevokedStaysDown == record.revoked => conn = None /\ record.status = "failed"

Serving == agent.task = "serve" /\ conn = agent.on

\* The agent awaits the close of a socket that is closed already, while one it
\* has given up, which nothing closes, keeps its process alive.
Stuck == agent.task = "missed" /\ \E s \in Sockets : socket[s].box = "open"

\* A box that has stored its credential is back on the current connection again
\* and again, as long as its machine runs and it is not revoked, unless it is
\* stuck; a behaviour that runs out of the model's sockets says nothing.
BoxReturns ==
  \/ []<>(Serving \/ agent.file = None \/ record.revoked \/ vm # "on" \/ Stuck)
  \/ <>[](\A s \in Sockets : ~Free(s))
=============================================================================
