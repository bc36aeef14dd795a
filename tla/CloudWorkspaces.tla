---------------------------- MODULE CloudWorkspaces ----------------------------
(***************************************************************************)
(* The hub's cloud workspaces (oyster-hub/cloud-provisioning.mjs) over the *)
(* registry of their boxes: one workspace is provisioned, paused, resumed  *)
(* and destroyed by requests that may overlap, the provider does what it   *)
(* was asked in its own time, and the hub may crash between any two steps. *)
(*                                                                         *)
(* The workspaces and the registrations are in two files, each with its    *)
(* own chain of writes.  The provider is external: it may refuse anything, *)
(* and its answer comes later than what it does.                           *)
(***************************************************************************)
EXTENDS BoxConnections

CONSTANT Requests  \* requests for the workspace under way at one time

ASSUME RequestsAssumption == Requests \cap (Sockets \cup {None}) = {}

VARIABLES
  ws,        \* the workspace's record in memory
  wsDisk,    \* the workspace's record in the cloud state file
  wsWrites,  \* the snapshots of the cloud state to be written
  request    \* what each request is doing

cloudVars == <<ws, wsDisk, wsWrites, request>>
vars == <<boxVars, cloudVars>>

Unlisted == [listed |-> FALSE, status |-> "none"]
Idle == [do |-> "no", step |-> "no"]

Init ==
  /\ BoxInit
  /\ ws = Unlisted
  /\ wsDisk = Unlisted
  /\ wsWrites = <<>>
  /\ request = [q \in Requests |-> Idle]

-----------------------------------------------------------------------------
(* Helpers *)

At(q, do, step) == request[q] = [do |-> do, step |-> step]
Step(q, step) == request' = [request EXCEPT ![q].step = step]
Begin(q, do, step) == request[q] = Idle /\ request' = [request EXCEPT ![q] = [do |-> do, step |-> step]]
End(q) == request' = [request EXCEPT ![q] = Idle]

\* Mutant: a late answer about a destroyed workspace is recorded again.
SetStatusAnyway(status) == [ws EXCEPT !.status = status]

\* A request changes the record it found; once the record is out of the list,
\* nobody sees that.
SetStatus(status) == IF ws.listed THEN [ws EXCEPT !.status = status] ELSE ws
SaveWorkspaces(q, value) == wsWrites' = Append(wsWrites, [by |-> q, ws |-> value])

-----------------------------------------------------------------------------
(* provision *)

\* One workspace is provisioned, once.
Provision(q) ==
  /\ Prepare(q)
  /\ Begin(q, "provision", "prepare")
  /\ UNCHANGED <<ws, wsDisk, wsWrites>>

ProviderCreates(q) ==
  /\ At(q, "provision", "ask")
  /\ vm' = "starting"
  /\ Step(q, "asked")
  /\ UNCHANGED <<record, disk, writes, conn, socket, agent, expired, faults, ws, wsDisk, wsWrites>>

BindCreated(q) ==
  /\ At(q, "provision", "asked")
  /\ Bind(q)
  /\ Step(q, "bind")
  /\ UNCHANGED <<ws, wsDisk, wsWrites>>

\* The provider refuses, or its answer is lost, or the binding is not written.
RevokeFailed(q) ==
  /\ \/ At(q, "provision", "ask")
     \/ At(q, "provision", "asked")
     \/ At(q, "provision", "unbound")
  /\ Revoke(q)
  /\ Step(q, "revoke")
  /\ UNCHANGED <<ws, wsDisk, wsWrites>>

ListProvisioned(q) ==
  /\ At(q, "provision", "bound")
  /\ ws' = [listed |-> TRUE, status |-> "awaiting_agent"]
  /\ SaveWorkspaces(q, ws')
  /\ Step(q, "save")
  /\ UNCHANGED <<boxVars, wsDisk>>

-----------------------------------------------------------------------------
(* pause, resume and destroy *)

Pause(q) ==
  /\ ws.listed /\ ws.status # "paused"
  /\ Begin(q, "pause", "ask")
  /\ UNCHANGED <<boxVars, ws, wsDisk, wsWrites>>

Resume(q) ==
  /\ ws.listed /\ ws.status = "paused"
  /\ Begin(q, "resume", "ask")
  /\ UNCHANGED <<boxVars, ws, wsDisk, wsWrites>>

Destroy(q) ==
  /\ ws.listed
  /\ Begin(q, "destroy", "ask")
  /\ UNCHANGED <<boxVars, ws, wsDisk, wsWrites>>

Refuses(q) ==
  /\ request[q].do \in {"pause", "resume", "destroy"}
  /\ request[q].step \in {"ask", "asked"}
  /\ End(q)
  /\ UNCHANGED <<boxVars, ws, wsDisk, wsWrites>>

\* A machine that is running, or stopped, already is what it is asked to be.
ProviderPauses(q) ==
  /\ At(q, "pause", "ask")
  /\ vm \in {"on", "stopping", "off"}
  /\ vm' = IF vm = "on" THEN "stopping" ELSE vm
  /\ Step(q, "asked")
  /\ UNCHANGED <<record, disk, writes, conn, socket, agent, expired, faults, ws, wsDisk, wsWrites>>

ProviderResumes(q) ==
  /\ At(q, "resume", "ask")
  /\ vm \in {"off", "starting", "on"}
  /\ vm' = IF vm = "off" THEN "starting" ELSE vm
  /\ Step(q, "asked")
  /\ UNCHANGED <<record, disk, writes, conn, socket, agent, expired, faults, ws, wsDisk, wsWrites>>

ProviderDestroys(q) ==
  /\ At(q, "destroy", "ask")
  /\ vm # "gone"
  /\ vm' = "gone"
  /\ Gone(TRUE)
  /\ Step(q, "asked")
  /\ UNCHANGED <<record, disk, writes, conn, expired, faults, ws, wsDisk, wsWrites>>

Answered(q) ==
  /\ request[q].do \in {"pause", "resume"}
  /\ request[q].step = "asked"
  /\ ws' = SetStatus(IF request[q].do = "pause" THEN "paused" ELSE "resuming")
  /\ SaveWorkspaces(q, ws')
  /\ Step(q, "save")
  /\ UNCHANGED <<boxVars, wsDisk>>

RevokeDestroyed(q) ==
  /\ At(q, "destroy", "asked")
  /\ Revoke(q)
  /\ Step(q, "revoke")
  /\ UNCHANGED <<ws, wsDisk, wsWrites>>

Unlist(q) ==
  /\ At(q, "destroy", "revoked")
  /\ ws' = Unlisted
  /\ SaveWorkspaces(q, Unlisted)
  /\ Step(q, "save")
  /\ UNCHANGED <<boxVars, wsDisk>>

\* registrationFor: a look at a resuming workspace whose box is online.
FoundOnline ==
  /\ ws.listed /\ ws.status = "resuming"
  /\ conn # None /\ record.ready
  /\ ws' = SetStatus("active")
  /\ SaveWorkspaces(None, ws')
  /\ UNCHANGED <<boxVars, wsDisk, request>>

-----------------------------------------------------------------------------
(* The two files, and the hub's end *)

\* Mutant: provision goes on as if the binding were written.
AfterAnyWrite(r, written) ==
  CASE r.step = "prepare" -> IF written THEN [r EXCEPT !.step = "ask"] ELSE Idle
    [] r.step = "bind" -> [r EXCEPT !.step = "bound"]
    [] r.step = "revoke" -> IF r.do = "destroy" THEN [r EXCEPT !.step = "revoked"] ELSE Idle

\* A request goes on when its registration is written; only provision gives up
\* when the write fails, and revoke is not awaited for its success.
AfterWrite(r, written) ==
  CASE r.step = "prepare" -> IF written THEN [r EXCEPT !.step = "ask"] ELSE Idle
    [] r.step = "bind" -> [r EXCEPT !.step = IF written THEN "bound" ELSE "unbound"]
    [] r.step = "revoke" -> IF r.do = "destroy" THEN [r EXCEPT !.step = "revoked"] ELSE Idle

GoesOn(written) ==
  request' = [q \in Requests |-> IF Head(writes).by = q THEN AfterWrite(request[q], written)
                                 ELSE request[q]]

RegistryWritten ==
  /\ \/ WriteDone /\ GoesOn(TRUE)
     \/ WriteFails /\ GoesOn(FALSE)
  /\ UNCHANGED <<ws, wsDisk, wsWrites>>

\* The cloud state file is written, or not: who awaits it returns or throws.
WorkspacesWritten(written) ==
  /\ wsWrites # <<>>
  /\ IF written THEN UNCHANGED faults ELSE Fault
  /\ wsDisk' = IF written THEN Head(wsWrites).ws ELSE wsDisk
  /\ wsWrites' = Tail(wsWrites)
  /\ request' = [q \in Requests |-> IF Head(wsWrites).by = q THEN Idle ELSE request[q]]
  /\ UNCHANGED <<record, disk, writes, conn, socket, vm, agent, expired, ws>>

Crash ==
  /\ HubCrash
  /\ ws' = wsDisk
  /\ wsWrites' = <<>>
  /\ request' = [q \in Requests |-> Idle]
  /\ UNCHANGED wsDisk

-----------------------------------------------------------------------------
(* Specification *)

RequestNext(q) ==
  \/ Provision(q) \/ ProviderCreates(q) \/ BindCreated(q) \/ RevokeFailed(q) \/ ListProvisioned(q)
  \/ Pause(q) \/ Resume(q) \/ Destroy(q) \/ Refuses(q) \/ Answered(q)
  \/ ProviderPauses(q) \/ ProviderResumes(q) \/ ProviderDestroys(q)
  \/ RevokeDestroyed(q) \/ Unlist(q)

Next ==
  \/ (HubNext \/ AgentNext) /\ UNCHANGED cloudVars
  \/ RegistryWritten \/ Crash \/ FoundOnline
  \/ \E written \in BOOLEAN : WorkspacesWritten(written)
  \/ \E q \in Requests : RequestNext(q)

Spec == Init /\ [][Next]_vars

-----------------------------------------------------------------------------
(* Properties *)

WorkspaceRecords == {Unlisted} \cup
  [listed : {TRUE}, status : {"awaiting_agent", "paused", "resuming", "active"}]

\* A destroyed workspace keeps no status, in memory or in the file, though a
\* pause or a resume of it is answered after it left the list.
WorkspaceTypeOK ==
  /\ {ws, wsDisk} \subseteq WorkspaceRecords
  /\ \A i \in DOMAIN wsWrites : wsWrites[i].ws \in WorkspaceRecords
  /\ \A q \in Requests : request[q].do \in {"no", "provision", "pause", "resume", "destroy"}

\* A workspace in the list has a registration bound to its machine, and one
\* that is revoked only when the machine is gone, though the list and the
\* registrations are in two files and the hub may crash between their writes:
\* provision lists a workspace after its binding is written, and destroy revokes
\* it after the provider has answered.
ListedIsRegistered == ws.listed => record.bound /\ (record.revoked => vm = "gone")
=============================================================================
