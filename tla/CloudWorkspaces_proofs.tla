------------------------ MODULE CloudWorkspaces_proofs ------------------------
(***************************************************************************)
(* A listed workspace has a registration: proofs about CloudWorkspaces.    *)
(*                                                                         *)
(* The list and the registrations are in two files.  What holds of the two *)
(* records in memory must hold of whatever a crash may leave of them: any  *)
(* version of the list that is still to be written, against the oldest     *)
(* version of the registration.                                            *)
(***************************************************************************)
EXTENDS CloudWorkspaces, BoxConnections_proofs

Callers == Sockets \cup {None} \cup Requests

\* Registration b is a or a later version of it.
Later(a, b) == /\ a.known => b.known
               /\ a.bound => b.bound
               /\ a.revoked => b.revoked

\* The versions of the registration, the file's first and the memory's last.
Ordered ==
  /\ Later(disk, record)
  /\ \A i \in DOMAIN writes : Later(disk, writes[i].rec) /\ Later(writes[i].rec, record)
  /\ \A i, j \in DOMAIN writes : i <= j => Later(writes[i].rec, writes[j].rec)

\* Some version of the list has the workspace.
Listed == \/ ws.listed
          \/ wsDisk.listed
          \/ \E i \in DOMAIN wsWrites : wsWrites[i].ws.listed

\* A request awaits at most one write, and one that binds awaits the binding.
WaitsOnce ==
  /\ \A i \in DOMAIN writes : writes[i].by \in Requests =>
       /\ request[writes[i].by].step \in {"prepare", "bind", "revoke"}
       /\ request[writes[i].by].step = "bind" => writes[i].rec.bound
  /\ \A i, j \in DOMAIN writes :
       writes[i].by = writes[j].by /\ writes[i].by \in Requests => i = j
  /\ \A i \in DOMAIN wsWrites : wsWrites[i].by \in Requests => request[wsWrites[i].by].step = "save"
  /\ \A i, j \in DOMAIN wsWrites :
       wsWrites[i].by = wsWrites[j].by /\ wsWrites[i].by \in Requests => i = j

\* Until it lists the workspace, the request that provisions it is alone.
Provisioning(q) ==
  request[q].do = "provision" /\ request[q].step # "save" =>
    /\ ~Listed
    /\ \A r \in Requests : request[r].do # "no" => r = q
    /\ request[q].step # "revoke" => ~record.revoked
    /\ request[q].step = "bound" => disk.bound

Listing ==
  /\ Listed => disk.bound /\ (record.revoked => vm = "gone")
  /\ \A q \in Requests : /\ request[q].do # "no" => record.known
                         /\ Provisioning(q)
                         /\ At(q, "destroy", "asked") => vm = "gone"

Kinds == {"no", "provision", "pause", "resume", "destroy"}
Steps == {"no", "prepare", "ask", "asked", "bind", "bound", "unbound", "revoke", "revoked", "save"}

CloudTyped ==
  /\ {ws, wsDisk} \subseteq WorkspaceRecords
  /\ wsWrites \in Seq([by : Requests \cup {None}, ws : WorkspaceRecords])
  /\ request \in [Requests -> [do : Kinds, step : Steps]]

CloudInv ==
  /\ SoundFor(Callers)
  /\ CloudTyped
  /\ Ordered
  /\ WaitsOnce
  /\ Listing

-----------------------------------------------------------------------------
(* The versions of the registration *)

LEMMA OrderedSame ==
  ASSUME SoundFor(Callers), Ordered, disk' = disk, writes' = writes, Later(record, record')
  PROVE  Ordered'
  BY DEF Ordered, Later

LEMMA SnapshotLater ==
  ASSUME NEW rec \in SoundRecords
  PROVE  /\ Snapshot(rec).known = rec.known
         /\ Snapshot(rec).bound = rec.bound
         /\ Snapshot(rec).revoked = rec.revoked
  BY DEF Snapshot, SoundRecords, Records

LEMMA LoadedLater ==
  ASSUME NEW rec \in SoundRecords
  PROVE  /\ Loaded(rec).known = rec.known
         /\ Loaded(rec).bound = rec.bound
         /\ Loaded(rec).revoked = rec.revoked
  BY DEF Loaded, SoundRecords, Records

\* A version that is added is the last.
LEMMA OrderedSaved ==
  ASSUME SoundFor(Callers), Ordered, NEW by \in Callers, NEW rec \in SoundRecords,
         writes' = Save(by, rec), record' = rec, disk' = disk, Later(record, rec)
  PROVE  Ordered'
  <1>1. /\ DOMAIN writes' = 1..Len(writes) + 1 /\ DOMAIN writes = 1..Len(writes) /\ Len(writes) \in Nat
        /\ \A i \in 1..Len(writes) : writes'[i] = writes[i]
        /\ writes'[Len(writes) + 1] = [by |-> by, rec |-> Snapshot(rec)]
    BY Saved DEF SoundFor
  <1>2. ASSUME NEW i \in DOMAIN writes' PROVE i \in DOMAIN writes \/ i = Len(writes) + 1
    BY <1>1
  <1> DEFINE snap == Snapshot(rec)
  <1>3. snap.known = rec.known /\ snap.bound = rec.bound /\ snap.revoked = rec.revoked
    BY SnapshotLater
  <1>4. writes'[Len(writes) + 1].rec = snap
    BY <1>1
  <1> HIDE DEF snap
  <1>5. Later(disk, record)'
    BY DEF Ordered, Later
  <1>6. ASSUME NEW i \in DOMAIN writes'
        PROVE  Later(disk, writes'[i].rec) /\ Later(writes'[i].rec, rec)
    <2>1. CASE i \in DOMAIN writes
      BY <1>1, <2>1 DEF Ordered, Later
    <2>2. CASE i = Len(writes) + 1
      BY <1>3, <1>4, <2>2 DEF Ordered, Later
    <2> QED
      BY <1>2, <2>1, <2>2
  <1>7. ASSUME NEW i \in DOMAIN writes', NEW j \in DOMAIN writes', i <= j
        PROVE  Later(writes'[i].rec, writes'[j].rec)
    <2>1. CASE j \in DOMAIN writes
      <3>1. i \in DOMAIN writes
        BY <1>1, <1>7, <2>1
      <3> QED
        BY <1>1, <1>7, <2>1, <3>1 DEF Ordered
    <2>2. CASE j = Len(writes) + 1
      BY <1>3, <1>4, <1>6, <2>2 DEF Later
    <2> QED
      BY <1>2, <2>1, <2>2
  <1> QED
    BY <1>5, <1>6, <1>7 DEF Ordered, Later

LEMMA OrderedNext ==
  ASSUME SoundFor(Callers), Ordered, writes # <<>>, writes' = Tail(writes),
         disk' \in {disk, Head(writes).rec}, record' = record
  PROVE  Ordered'
  <1>1. /\ DOMAIN writes' = 1..Len(writes) - 1 /\ DOMAIN writes = 1..Len(writes) /\ Len(writes) \in Nat
        /\ \A i \in DOMAIN writes' : writes'[i] = writes[i + 1]
        /\ Head(writes) = writes[1] /\ Len(writes) > 0
    BY TailShifts
  <1>2. ASSUME NEW i \in DOMAIN writes'
        PROVE  i + 1 \in DOMAIN writes /\ writes'[i] = writes[i + 1] /\ 1 <= i + 1
    BY <1>1
  <1>3. 1 \in DOMAIN writes
    BY <1>1
  <1>4. ASSUME NEW i \in DOMAIN writes'
        PROVE  Later(disk, writes[i].rec)' /\ Later(writes[i].rec, record)'
    BY <1>1, <1>2, <1>3, <1>4 DEF Ordered, Later
  <1>5. ASSUME NEW i \in DOMAIN writes', NEW j \in DOMAIN writes', i <= j
        PROVE  Later(writes[i].rec, writes[j].rec)'
    <2>1. i + 1 <= j + 1
      BY <1>1, <1>5
    <2> QED
      BY <1>2, <1>5, <2>1 DEF Ordered, Later
  <1>6. Later(disk, record)'
    BY <1>1, <1>3 DEF Ordered, Later
  <1> QED
    BY <1>4, <1>5, <1>6 DEF Ordered

-----------------------------------------------------------------------------
(* Who awaits a write *)

Await == {"prepare", "bind", "revoke"}

LEMMA WaitsKept ==
  ASSUME WaitsOnce, writes' = writes, wsWrites' = wsWrites,
         \A q \in Requests : \/ request'[q].step = request[q].step
                             \/ request[q].step \notin Await \cup {"save"}
  PROVE  WaitsOnce'
  BY DEF WaitsOnce, Await

LEMMA WaitsSaved ==
  ASSUME SoundFor(Callers), WaitsOnce, NEW by \in Callers, NEW rec \in SoundRecords,
         writes' = Save(by, rec), wsWrites' = wsWrites,
         by \in Requests => /\ request[by].step \notin Await \cup {"save"}
                            /\ request'[by].step \in Await
                            /\ request'[by].step = "bind" => rec.bound,
         \A q \in Requests : q # by => request'[q] = request[q]
  PROVE  WaitsOnce'
  <1>1. /\ DOMAIN writes' = 1..Len(writes) + 1 /\ DOMAIN writes = 1..Len(writes) /\ Len(writes) \in Nat
        /\ \A i \in 1..Len(writes) : writes'[i] = writes[i]
        /\ writes'[Len(writes) + 1] = [by |-> by, rec |-> Snapshot(rec)]
    BY Saved DEF SoundFor
  <1>2. Snapshot(rec).bound = rec.bound
    BY SnapshotLater
  <1>3. ASSUME NEW i \in DOMAIN writes', i \in DOMAIN writes, writes'[i].by \in Requests
        PROVE  writes'[i] = writes[i] /\ writes[i].by # by
    BY <1>1, <1>3 DEF WaitsOnce, Await
  <1>4. ASSUME NEW i \in DOMAIN writes', i \notin DOMAIN writes
        PROVE  writes'[i].by = by /\ writes'[i].rec.bound = rec.bound /\ i = Len(writes) + 1
    BY <1>1, <1>2, <1>4
  <1>5. ASSUME NEW i \in DOMAIN writes', writes'[i].by \in Requests
        PROVE  /\ request'[writes'[i].by].step \in {"prepare", "bind", "revoke"}
               /\ request'[writes'[i].by].step = "bind" => writes'[i].rec.bound
    <2>1. CASE i \in DOMAIN writes
      BY <1>3, <1>5, <2>1 DEF WaitsOnce
    <2>2. CASE i \notin DOMAIN writes
      BY <1>4, <1>5, <2>2 DEF Await
    <2> QED
      BY <2>1, <2>2
  <1>6. ASSUME NEW i \in DOMAIN writes', NEW j \in DOMAIN writes',
               writes'[i].by = writes'[j].by, writes'[i].by \in Requests
        PROVE  i = j
    BY <1>3, <1>4, <1>6 DEF WaitsOnce
  <1>7. ASSUME NEW i \in DOMAIN wsWrites, wsWrites[i].by \in Requests
        PROVE  request'[wsWrites[i].by].step = "save"
    BY <1>7 DEF WaitsOnce
  <1> QED
    BY <1>5, <1>6, <1>7 DEF WaitsOnce

LEMMA WaitsNext ==
  ASSUME SoundFor(Callers), WaitsOnce, writes # <<>>, writes' = Tail(writes), wsWrites' = wsWrites,
         \A q \in Requests : q # Head(writes).by => request'[q] = request[q]
  PROVE  WaitsOnce'
  <1>1. /\ DOMAIN writes' = 1..Len(writes) - 1 /\ DOMAIN writes = 1..Len(writes) /\ Len(writes) \in Nat
        /\ \A i \in DOMAIN writes' : writes'[i] = writes[i + 1]
        /\ Head(writes) = writes[1] /\ Len(writes) > 0
    BY TailShifts
  <1>2. ASSUME NEW i \in DOMAIN writes'
        PROVE  i + 1 \in DOMAIN writes /\ writes'[i] = writes[i + 1] /\ 1 # i + 1
    BY <1>1
  <1>3. 1 \in DOMAIN writes
    BY <1>1
  <1>4. ASSUME NEW i \in DOMAIN writes', writes'[i].by \in Requests
        PROVE  /\ request'[writes'[i].by].step \in {"prepare", "bind", "revoke"}
               /\ request'[writes'[i].by].step = "bind" => writes'[i].rec.bound
    <2>1. writes[i + 1].by # writes[1].by
      BY <1>2, <1>3, <1>4 DEF WaitsOnce
    <2> QED
      BY <1>1, <1>2, <1>4, <2>1 DEF WaitsOnce
  <1>5. ASSUME NEW i \in DOMAIN writes', NEW j \in DOMAIN writes',
               writes'[i].by = writes'[j].by, writes'[i].by \in Requests
        PROVE  i = j
    BY <1>1, <1>2, <1>5 DEF WaitsOnce
  <1>6. ASSUME NEW i \in DOMAIN wsWrites, wsWrites[i].by \in Requests
        PROVE  request'[wsWrites[i].by].step = "save"
    <2>1. wsWrites[i].by # writes[1].by
      BY <1>3, <1>6 DEF WaitsOnce
    <2> QED
      BY <1>1, <1>6, <2>1 DEF WaitsOnce
  <1> QED
    BY <1>4, <1>5, <1>6 DEF WaitsOnce

LEMMA ListSaved ==
  ASSUME CloudTyped, NEW by \in Requests \cup {None}, NEW value \in WorkspaceRecords,
         wsWrites' = Append(wsWrites, [by |-> by, ws |-> value])
  PROVE  /\ wsWrites' \in Seq([by : Requests \cup {None}, ws : WorkspaceRecords])
         /\ DOMAIN wsWrites' = 1..Len(wsWrites) + 1 /\ DOMAIN wsWrites = 1..Len(wsWrites)
         /\ Len(wsWrites) \in Nat
         /\ \A i \in 1..Len(wsWrites) : wsWrites'[i] = wsWrites[i]
         /\ wsWrites'[Len(wsWrites) + 1] = [by |-> by, ws |-> value]
  <1> DEFINE new == [by |-> by, ws |-> value]
  <1>1. new \in [by : Requests \cup {None}, ws : WorkspaceRecords]
    OBVIOUS
  <1>2. wsWrites' = Append(wsWrites, new) /\ wsWrites \in Seq([by : Requests \cup {None}, ws : WorkspaceRecords])
    BY DEF CloudTyped
  <1> HIDE DEF new
  <1>3. /\ wsWrites' \in Seq([by : Requests \cup {None}, ws : WorkspaceRecords])
        /\ Len(wsWrites') = Len(wsWrites) + 1
        /\ \A i \in 1..Len(wsWrites) : wsWrites'[i] = wsWrites[i]
        /\ wsWrites'[Len(wsWrites) + 1] = new
    BY <1>1, <1>2, AppendProperties
  <1>4. /\ Len(wsWrites) \in Nat /\ DOMAIN wsWrites = 1..Len(wsWrites)
        /\ DOMAIN wsWrites' = 1..Len(wsWrites')
    BY <1>2, <1>3, LenProperties
  <1> QED
    BY <1>3, <1>4 DEF new

LEMMA ListShifts ==
  ASSUME CloudTyped, wsWrites # <<>>, wsWrites' = Tail(wsWrites)
  PROVE  /\ wsWrites' \in Seq([by : Requests \cup {None}, ws : WorkspaceRecords])
         /\ DOMAIN wsWrites' = 1..Len(wsWrites) - 1 /\ DOMAIN wsWrites = 1..Len(wsWrites)
         /\ Len(wsWrites) \in Nat
         /\ \A i \in DOMAIN wsWrites' : wsWrites'[i] = wsWrites[i + 1]
         /\ Head(wsWrites) = wsWrites[1] /\ Len(wsWrites) > 0
  BY HeadTailProperties, LenProperties, EmptySeq DEF CloudTyped

LEMMA WaitsListSaved ==
  ASSUME CloudTyped, WaitsOnce, NEW by \in Requests \cup {None}, NEW value \in WorkspaceRecords,
         wsWrites' = Append(wsWrites, [by |-> by, ws |-> value]), writes' = writes,
         by \in Requests => /\ request[by].step \notin Await \cup {"save"}
                            /\ request'[by].step = "save",
         \A q \in Requests : q # by => request'[q] = request[q]
  PROVE  WaitsOnce'
  <1>1. /\ DOMAIN wsWrites' = 1..Len(wsWrites) + 1 /\ DOMAIN wsWrites = 1..Len(wsWrites)
        /\ Len(wsWrites) \in Nat
        /\ \A i \in 1..Len(wsWrites) : wsWrites'[i] = wsWrites[i]
        /\ wsWrites'[Len(wsWrites) + 1] = [by |-> by, ws |-> value]
    BY ListSaved
  <1>2. ASSUME NEW i \in DOMAIN wsWrites', i \in DOMAIN wsWrites, wsWrites'[i].by \in Requests
        PROVE  wsWrites'[i] = wsWrites[i] /\ wsWrites[i].by # by
    BY <1>1, <1>2 DEF WaitsOnce
  <1>3. ASSUME NEW i \in DOMAIN wsWrites', i \notin DOMAIN wsWrites
        PROVE  wsWrites'[i].by = by /\ i = Len(wsWrites) + 1
    BY <1>1, <1>3
  <1>4. ASSUME NEW i \in DOMAIN wsWrites', wsWrites'[i].by \in Requests
        PROVE  request'[wsWrites'[i].by].step = "save"
    <2>1. CASE i \in DOMAIN wsWrites
      BY <1>2, <1>4, <2>1 DEF WaitsOnce
    <2>2. CASE i \notin DOMAIN wsWrites
      BY <1>3, <1>4, <2>2
    <2> QED
      BY <2>1, <2>2
  <1>5. ASSUME NEW i \in DOMAIN wsWrites', NEW j \in DOMAIN wsWrites',
               wsWrites'[i].by = wsWrites'[j].by, wsWrites'[i].by \in Requests
        PROVE  i = j
    BY <1>2, <1>3, <1>5 DEF WaitsOnce
  <1>6. ASSUME NEW i \in DOMAIN writes, writes[i].by \in Requests
        PROVE  request'[writes[i].by] = request[writes[i].by]
    BY <1>6 DEF WaitsOnce, Await
  <1> QED
    BY <1>4, <1>5, <1>6 DEF WaitsOnce

LEMMA WaitsListNext ==
  ASSUME CloudTyped, WaitsOnce, wsWrites # <<>>, wsWrites' = Tail(wsWrites), writes' = writes,
         \A q \in Requests : q # Head(wsWrites).by => request'[q] = request[q]
  PROVE  WaitsOnce'
  <1>1. /\ DOMAIN wsWrites' = 1..Len(wsWrites) - 1 /\ DOMAIN wsWrites = 1..Len(wsWrites)
        /\ Len(wsWrites) \in Nat
        /\ \A i \in DOMAIN wsWrites' : wsWrites'[i] = wsWrites[i + 1]
        /\ Head(wsWrites) = wsWrites[1] /\ Len(wsWrites) > 0
    BY ListShifts
  <1>2. ASSUME NEW i \in DOMAIN wsWrites'
        PROVE  i + 1 \in DOMAIN wsWrites /\ wsWrites'[i] = wsWrites[i + 1] /\ 1 # i + 1
    BY <1>1
  <1>3. 1 \in DOMAIN wsWrites
    BY <1>1
  <1>4. ASSUME NEW i \in DOMAIN wsWrites', wsWrites'[i].by \in Requests
        PROVE  request'[wsWrites'[i].by].step = "save"
    <2>1. wsWrites[i + 1].by # wsWrites[1].by
      BY <1>2, <1>3, <1>4 DEF WaitsOnce
    <2> QED
      BY <1>1, <1>2, <1>4, <2>1 DEF WaitsOnce
  <1>5. ASSUME NEW i \in DOMAIN wsWrites', NEW j \in DOMAIN wsWrites',
               wsWrites'[i].by = wsWrites'[j].by, wsWrites'[i].by \in Requests
        PROVE  i = j
    BY <1>1, <1>2, <1>5 DEF WaitsOnce
  <1>6. ASSUME NEW i \in DOMAIN writes, writes[i].by \in Requests
        PROVE  request'[writes[i].by] = request[writes[i].by]
    <2>1. writes[i].by # wsWrites[1].by
      BY <1>3, <1>6 DEF WaitsOnce
    <2> QED
      BY <1>1, <1>6, <2>1
  <1> QED
    BY <1>4, <1>5, <1>6 DEF WaitsOnce

-----------------------------------------------------------------------------
(* The list and the registration *)

\* A listed workspace's registration is known to the hub.
LEMMA ListedKnown ==
  ASSUME SoundFor(Callers), Ordered, Listing, Listed
  PROVE  record.known /\ record.bound
  BY DEF SoundFor, SoundRecords, Sound, Ordered, Later, Listing

\* What a request may do while the list and the machine stay as they are.
Moves(q) ==
  \/ request'[q] = request[q]
  \/ request'[q].do = "no"
  \/ /\ request'[q].do = request[q].do
     /\ request'[q].do = "destroy" /\ request'[q].step = "asked" => vm' = "gone"
     /\ request'[q].do = "provision" =>
          /\ request[q].step # "save"
          /\ request'[q].step # "revoke" => request[q].step # "revoke"
          /\ request'[q].step = "bound" => disk'.bound

LEMMA ListingKept ==
  ASSUME CloudTyped, Listing, Listed' => Listed, disk.bound => disk'.bound,
         record.known => record'.known, record'.revoked => record.revoked,
         vm = "gone" => vm' = "gone", request' \in [Requests -> [do : Kinds, step : Steps]],
         \A q \in Requests : Moves(q)
  PROVE  Listing'
  <1>1. ASSUME Listed' PROVE disk'.bound /\ (record'.revoked => vm' = "gone")
    BY <1>1 DEF Listing
  <1>2. ASSUME NEW q \in Requests, request'[q].do # "no" PROVE request[q].do # "no"
    BY <1>2 DEF Moves
  <1>3. ASSUME NEW q \in Requests, request'[q].do # "no" PROVE record'.known
    BY <1>2, <1>3 DEF Listing
  <1>4. ASSUME NEW q \in Requests PROVE At(q, "destroy", "asked")' => vm' = "gone"
    <2>1. SUFFICES ASSUME request'[q] = [do |-> "destroy", step |-> "asked"] PROVE vm' = "gone"
      BY DEF At
    <2>2. CASE request'[q] = request[q]
      BY <2>1, <2>2 DEF Listing, At
    <2>3. CASE request'[q] # request[q]
      BY <2>1, <2>3 DEF Moves
    <2> QED
      BY <2>2, <2>3
  <1>5. ASSUME NEW q \in Requests, request'[q].do = "provision", request'[q].step # "save"
        PROVE  /\ ~Listed'
               /\ \A r \in Requests : request'[r].do # "no" => r = q
               /\ request'[q].step # "revoke" => ~record'.revoked
               /\ request'[q].step = "bound" => disk'.bound
    <2>1. request[q].do = "provision" /\ request[q].step # "save" /\ Provisioning(q)
      BY <1>5 DEF Moves, Listing
    <2> QED
      BY <1>2, <1>5, <2>1 DEF Provisioning, Moves
  <1> QED
    BY <1>1, <1>3, <1>4, <1>5 DEF Listing, Provisioning

-----------------------------------------------------------------------------
(* The steps of the registry and the agent *)

\* A step of the hub changes no binding and revokes nothing.
LEMMA HubKeeps ==
  ASSUME SoundFor(Callers), HubNext
  PROVE  /\ disk' = disk /\ vm' = vm
         /\ record'.known = record.known /\ record'.bound = record.bound
         /\ record'.revoked = record.revoked
         /\ \/ writes' = writes
            \/ \E by \in Sockets \cup {None} : writes' = Save(by, record')
  <1>0. record \in Records
    BY DEF SoundFor, SoundRecords
  <1>1. CASE HeartbeatSaves \/ Dial \/ BootstrapExpires
    BY <1>1 DEF HeartbeatSaves, Dial, BootstrapExpires
  <1>2. ASSUME NEW s \in Sockets, Authenticate(s)
        PROVE  /\ disk' = disk /\ vm' = vm
               /\ record'.known = record.known /\ record'.bound = record.bound
               /\ record'.revoked = record.revoked
               /\ writes' = writes \/ writes' = Save(s, record')
    <2>1. disk' = disk /\ vm' = vm
      BY <1>2 DEF Authenticate
    <2>2. \/ record' = record /\ writes' = writes
          \/ \E secret, key : /\ record' = [record EXCEPT !.secret = secret, !.key = key,
                                                          !.status = "online", !.ready = FALSE]
                              /\ writes' = Save(s, record')
      BY <1>2 DEF Authenticate
    <2> QED
      BY <1>0, <2>1, <2>2 DEF Records
  <1>3. ASSUME NEW s \in Sockets, \/ HelloArrives(s) \/ FirstFrameTimeout(s) \/ StatusArrives(s)
                                  \/ HubSeesClose(s) \/ StreamEnds(s)
        PROVE  /\ disk' = disk /\ vm' = vm /\ writes' = writes
               /\ record'.known = record.known /\ record'.bound = record.bound
               /\ record'.revoked = record.revoked
    BY <1>0, <1>3 DEF HelloArrives, FirstFrameTimeout, StatusArrives, HubSeesClose, StreamEnds, Records
  <1> QED
    BY <1>1, <1>2, <1>3 DEF HubNext

\* A step that leaves the list, the requests and the machine's end alone.
LEMMA BoxStep ==
  ASSUME CloudInv, SoundFor(Callers)', UNCHANGED cloudVars, disk' = disk,
         vm = "gone" => vm' = "gone",
         record'.known = record.known, record'.bound = record.bound,
         record'.revoked = record.revoked,
         \/ writes' = writes
         \/ \E by \in Sockets \cup {None} : writes' = Save(by, record')
  PROVE  CloudInv'
  <1>1. PICK rec \in SoundRecords : rec = record'
    BY DEF SoundFor
  <1>2. Later(record, rec)
    BY <1>1 DEF Later
  <1>3. CloudTyped'
    BY DEF CloudInv, CloudTyped, cloudVars
  <1>4. Ordered'
    BY <1>1, <1>2, OrderedSame, OrderedSaved DEF CloudInv, Callers
  <1>5. WaitsOnce'
    <2>1. CASE writes' = writes
      BY <2>1, WaitsKept DEF CloudInv, cloudVars
    <2>2. ASSUME NEW by \in Sockets \cup {None}, writes' = Save(by, record') PROVE WaitsOnce'
      <3>1. by \in Callers /\ by \notin Requests
        BY RequestsAssumption DEF Callers
      <3> QED
        BY <1>1, <2>2, <3>1, WaitsSaved DEF CloudInv, cloudVars
    <2> QED
      BY <2>1, <2>2
  <1>6. Listing'
    <2>1. Listed' => Listed
      BY DEF Listed, cloudVars
    <2>2. \A q \in Requests : Moves(q)
      BY DEF Moves, cloudVars
    <2> QED
      BY <1>3, <2>1, <2>2, ListingKept DEF CloudInv, CloudTyped
  <1> QED
    BY <1>3, <1>4, <1>5, <1>6 DEF CloudInv

LEMMA BoxSteps ==
  ASSUME CloudInv, HubNext \/ AgentNext, UNCHANGED cloudVars
  PROVE  CloudInv'
  <1>1. Sockets \cup {None} \subseteq Callers
    BY DEF Callers
  <1>2. SoundFor(Callers)'
    BY <1>1, HubNextSound, AgentNextSound DEF CloudInv
  <1>3. CASE HubNext
    BY <1>2, <1>3, HubKeeps, BoxStep DEF CloudInv
  <1>4. CASE AgentNext
    <2>1. UNCHANGED <<record, disk, writes>> /\ (vm = "gone" => vm' = "gone")
      BY <1>4 DEF AgentNext, VmStarts, VmStops, AgentStarts, Connect, WelcomeArrives, WelcomeTimesOut,
           StoreCredential, StoreFails, AgentEnds, AgentCrash, ReadinessReturns, BoxSeesClose, LinkCut
    <2> QED
      BY <1>2, <2>1, BoxStep
  <1> QED
    BY <1>3, <1>4

-----------------------------------------------------------------------------
(* The steps of a request *)

\* A step of request q that writes neither file and revokes nothing.
LEMMA RequestStep ==
  ASSUME CloudInv, NEW q \in Requests, UNCHANGED <<record, disk, writes, conn, faults, ws, wsDisk, wsWrites>>,
         request[q].step \notin Await \cup {"save"},
         NEW r \in [do : Kinds, step : Steps], request' = [request EXCEPT ![q] = r],
         vm = "gone" => vm' = "gone", Moves(q)
  PROVE  CloudInv'
  <1>1. SoundFor(Callers)'
    BY DEF CloudInv, SoundFor
  <1>2. request' \in [Requests -> [do : Kinds, step : Steps]] /\ \A p \in Requests \ {q} : request'[p] = request[p]
    BY DEF CloudInv, CloudTyped
  <1>3. CloudTyped'
    BY <1>2 DEF CloudInv, CloudTyped
  <1>4. Ordered'
    BY OrderedSame DEF CloudInv, Later
  <1>5. WaitsOnce'
    BY <1>2, WaitsKept DEF CloudInv
  <1>6. Listing'
    <2>1. Listed' => Listed
      BY DEF Listed
    <2>2. \A p \in Requests : Moves(p)
      BY <1>2 DEF Moves
    <2> QED
      BY <1>2, <2>1, <2>2, ListingKept DEF CloudInv
  <1> QED
    BY <1>1, <1>3, <1>4, <1>5, <1>6 DEF CloudInv

\* A request takes a step.
LEMMA StepTaken ==
  ASSUME CloudTyped, NEW q \in Requests, NEW do, NEW from, NEW to \in Steps,
         At(q, do, from), Step(q, to)
  PROVE  /\ request[q].do = do /\ request[q].step = from /\ do \in Kinds
         /\ request' = [request EXCEPT ![q] = [do |-> do, step |-> to]]
         /\ [do |-> do, step |-> to] \in [do : Kinds, step : Steps]
  <1>1. request[q] = [do |-> do, step |-> from] /\ request[q] \in [do : Kinds, step : Steps]
    BY DEF CloudTyped, At
  <1>2. request' = [request EXCEPT ![q] = [request[q] EXCEPT !.step = to]]
    BY DEF Step
  <1>3. [request[q] EXCEPT !.step = to] = [do |-> do, step |-> to]
    BY <1>1
  <1>4. request[q].do = do /\ request[q].step = from
    BY <1>1
  <1> QED
    BY <1>1, <1>2, <1>3, <1>4

LEMMA AsksRest ==
  ASSUME CloudInv, NEW q \in Requests,
         Refuses(q) \/ ProviderPauses(q) \/ ProviderResumes(q) \/ ProviderDestroys(q)
  PROVE  CloudInv'
  <1>0. request \in [Requests -> [do : Kinds, step : Steps]]
    BY DEF CloudInv, CloudTyped
  <1>1. CASE Refuses(q)
    <2>1. /\ UNCHANGED <<record, disk, writes, conn, faults, ws, wsDisk, wsWrites, vm>>
          /\ request[q].step \in {"ask", "asked"} /\ request' = [request EXCEPT ![q] = Idle]
      BY <1>1 DEF Refuses, End, boxVars
    <2>2. Idle \in [do : Kinds, step : Steps] /\ Idle.do = "no"
      BY DEF Idle, Kinds, Steps
    <2>3. Moves(q)
      BY <1>0, <2>1, <2>2 DEF Moves
    <2> QED
      BY <2>1, <2>2, <2>3, RequestStep DEF Await
  <1>2. ASSUME NEW do \in Kinds \ {"provision"}, At(q, do, "ask"), Step(q, "asked"),
               UNCHANGED <<record, disk, writes, conn, faults, ws, wsDisk, wsWrites>>,
               vm = "gone" => vm' = "gone", do = "destroy" => vm' = "gone"
        PROVE  CloudInv'
    <2> DEFINE r == [do |-> do, step |-> "asked"]
    <2>1. request[q].step = "ask" /\ request[q].do = do /\ request' = [request EXCEPT ![q] = r]
      BY <1>2, StepTaken DEF CloudInv, Steps
    <2>2. r \in [do : Kinds, step : Steps]
      BY DEF Steps
    <2>3. Moves(q)
      BY <1>0, <1>2, <2>1, <2>2 DEF Moves
    <2> QED
      BY <1>2, <2>1, <2>2, <2>3, RequestStep DEF Await
  <1>3. CASE ProviderPauses(q)
    BY <1>2, <1>3 DEF ProviderPauses, Kinds
  <1>4. CASE ProviderResumes(q)
    BY <1>2, <1>4 DEF ProviderResumes, Kinds
  <1>5. CASE ProviderDestroys(q)
    BY <1>2, <1>5 DEF ProviderDestroys, Kinds
  <1> QED
    BY <1>1, <1>3, <1>4, <1>5

\* A machine is created only while nothing is listed, and nobody else is at work.
LEMMA CreatesRest ==
  ASSUME CloudInv, NEW q \in Requests, ProviderCreates(q)
  PROVE  CloudInv'
  <1> DEFINE r == [do |-> "provision", step |-> "asked"]
  <1>1. /\ request \in [Requests -> [do : Kinds, step : Steps]]
        /\ request[q].step = "ask" /\ request[q].do = "provision"
        /\ request' = [request EXCEPT ![q] = r]
        /\ UNCHANGED <<record, disk, writes, conn, faults, ws, wsDisk, wsWrites>>
    <2>1. /\ At(q, "provision", "ask") /\ Step(q, "asked") /\ "asked" \in Steps
          /\ UNCHANGED <<record, disk, writes, conn, faults, ws, wsDisk, wsWrites>>
      BY DEF ProviderCreates, Steps
    <2> QED
      BY <2>1, StepTaken DEF CloudInv, CloudTyped
  <1>2. r \in [do : Kinds, step : Steps] /\ r.do = "provision" /\ r.step = "asked"
    BY DEF Kinds, Steps
  <1> HIDE DEF r
  <1>3. /\ request' \in [Requests -> [do : Kinds, step : Steps]] /\ request'[q] = r
        /\ \A p \in Requests \ {q} : request'[p] = request[p]
    BY <1>1, <1>2
  <1>4. SoundFor(Callers)' /\ CloudTyped' /\ Ordered' /\ WaitsOnce'
    BY <1>1, <1>2, <1>3, OrderedSame, WaitsKept DEF CloudInv, CloudTyped, SoundFor, Later, Await
  <1>5. /\ ~Listed /\ ~record.revoked /\ record.known
        /\ \A p \in Requests : request[p].do # "no" => p = q
    BY <1>1 DEF CloudInv, Listing, Provisioning
  <1>6. ~Listed'
    BY <1>1, <1>5 DEF Listed
  <1>7. \A p \in Requests \ {q} : request'[p].do = "no"
    BY <1>3, <1>5
  <1>8. \A p \in Requests : Provisioning(p)' /\ ~At(p, "destroy", "asked")' /\ record'.known
    BY <1>1, <1>2, <1>3, <1>5, <1>6, <1>7 DEF Provisioning, At
  <1> QED
    BY <1>4, <1>6, <1>8 DEF CloudInv, Listing

\* A request for a listed workspace begins: nobody provisions one.
LEMMA BeginsRest ==
  ASSUME CloudInv, NEW q \in Requests, Pause(q) \/ Resume(q) \/ Destroy(q)
  PROVE  CloudInv'
  <1>1. PICK do \in {"pause", "resume", "destroy"} :
          /\ request' = [request EXCEPT ![q] = [do |-> do, step |-> "ask"]]
          /\ request[q] = Idle /\ ws.listed
          /\ UNCHANGED <<record, disk, writes, conn, faults, vm, ws, wsDisk, wsWrites>>
    BY DEF Pause, Resume, Destroy, Begin, boxVars
  <1> DEFINE r == [do |-> do, step |-> "ask"]
  <1>2. /\ r \in [do : Kinds, step : Steps] /\ r.do # "provision" /\ r.step = "ask"
        /\ request[q].step = "no"
    BY <1>1 DEF Kinds, Steps, Idle
  <1>3. ~(r = [do |-> "destroy", step |-> "asked"])
    OBVIOUS
  <1>4. request' = [request EXCEPT ![q] = r]
    BY <1>1
  <1> HIDE DEF r
  <1>5. /\ request' \in [Requests -> [do : Kinds, step : Steps]] /\ request'[q] = r
        /\ \A p \in Requests \ {q} : request'[p] = request[p]
    BY <1>2, <1>4 DEF CloudInv, CloudTyped
  <1>6. SoundFor(Callers)' /\ CloudTyped' /\ Ordered' /\ WaitsOnce'
    BY <1>1, <1>2, <1>5, OrderedSame, WaitsKept DEF CloudInv, CloudTyped, SoundFor, Later, Await
  <1>7. Listed /\ (Listed' <=> Listed)
    BY <1>1 DEF Listed
  <1>8. record.known
    BY <1>7, ListedKnown DEF CloudInv
  <1>9. ASSUME NEW p \in Requests
        PROVE  Provisioning(p)' /\ (At(p, "destroy", "asked")' => vm' = "gone") /\ record'.known
    <2>1. CASE p = q
      BY <1>1, <1>2, <1>3, <1>5, <1>8, <2>1 DEF Provisioning, At
    <2>2. CASE p # q
      <3>1. request'[p] = request[p] /\ ~(request[p].do = "provision" /\ request[p].step # "save")
        BY <1>5, <1>7, <2>2 DEF CloudInv, Listing, Provisioning
      <3> QED
        BY <1>1, <1>8, <3>1 DEF CloudInv, Listing, Provisioning, At
    <2> QED
      BY <2>1, <2>2
  <1> QED
    BY <1>1, <1>6, <1>7, <1>9 DEF CloudInv, Listing

\* Request q writes the registration, and awaits that.
LEMMA Registers ==
  ASSUME CloudInv, SoundFor(Callers)', NEW q \in Requests, NEW rec \in SoundRecords,
         writes' = Save(q, rec), record' = rec, Later(record, rec),
         UNCHANGED <<disk, ws, wsDisk, wsWrites>>,
         request[q].step \notin Await \cup {"save"},
         NEW r \in [do : Kinds, step : Steps], request' = [request EXCEPT ![q] = r],
         r.step \in Await, r.step = "bind" => rec.bound
  PROVE  /\ CloudTyped' /\ Ordered' /\ WaitsOnce' /\ (Listed' <=> Listed)
         /\ request' \in [Requests -> [do : Kinds, step : Steps]] /\ request'[q] = r
         /\ \A p \in Requests \ {q} : request'[p] = request[p]
  <1>1. q \in Callers
    BY DEF Callers
  <1>2. /\ request' \in [Requests -> [do : Kinds, step : Steps]] /\ request'[q] = r
        /\ \A p \in Requests \ {q} : request'[p] = request[p]
    BY DEF CloudInv, CloudTyped
  <1>3. CloudTyped' /\ (Listed' <=> Listed)
    BY <1>2 DEF CloudInv, CloudTyped, Listed
  <1>4. Ordered'
    BY <1>1, OrderedSaved DEF CloudInv
  <1>5. WaitsOnce'
    BY <1>1, <1>2, WaitsSaved DEF CloudInv
  <1> QED
    BY <1>2, <1>3, <1>4, <1>5

\* Nothing is listed and nobody at work when the registration is not known.
LEMMA ProvisionRest ==
  ASSUME CloudInv, NEW q \in Requests, Provision(q)
  PROVE  CloudInv'
  <1> DEFINE r == [do |-> "provision", step |-> "prepare"]
  <1>1. /\ ~record.known /\ record' = Fresh /\ writes' = Save(q, Fresh)
        /\ UNCHANGED <<disk, vm, ws, wsDisk, wsWrites>>
        /\ request[q].step = "no" /\ request' = [request EXCEPT ![q] = r]
    BY DEF Provision, Prepare, Begin, Idle
  <1>2. r \in [do : Kinds, step : Steps] /\ r.do = "provision" /\ r.step = "prepare"
    BY DEF Kinds, Steps
  <1> HIDE DEF r
  <1>3. SoundFor(Callers)'
    BY PrepareSound DEF Provision, CloudInv, Callers
  <1>4. Fresh \in SoundRecords /\ ~Fresh.revoked /\ Fresh.known
    BY FirstSound DEF Fresh, NoRecord
  <1>5. Later(record, Fresh)
    BY <1>1 DEF CloudInv, SoundFor, SoundRecords, Sound, Later
  <1>6. /\ CloudTyped' /\ Ordered' /\ WaitsOnce' /\ (Listed' <=> Listed) /\ request'[q] = r
        /\ \A p \in Requests \ {q} : request'[p] = request[p]
    BY <1>1, <1>2, <1>3, <1>4, <1>5, Registers DEF Await
  <1>7. ~Listed'
    BY <1>1, <1>6, ListedKnown DEF CloudInv
  <1>8. \A p \in Requests \ {q} : request'[p].do = "no"
    BY <1>1, <1>6 DEF CloudInv, Listing
  <1>9. ~record'.revoked /\ record'.known
    BY <1>1, <1>4
  <1>10. \A p \in Requests : Provisioning(p)' /\ ~At(p, "destroy", "asked")' /\ record'.known
    BY <1>2, <1>6, <1>7, <1>8, <1>9 DEF Provisioning, At
  <1> QED
    BY <1>3, <1>6, <1>7, <1>10 DEF CloudInv, Listing

LEMMA BindRest ==
  ASSUME CloudInv, NEW q \in Requests, BindCreated(q)
  PROVE  CloudInv'
  <1> DEFINE rec == [record EXCEPT !.bound = TRUE]
             r == [do |-> "provision", step |-> "bind"]
  <1>1. /\ record.known /\ record' = rec /\ writes' = Save(q, rec)
        /\ UNCHANGED <<disk, vm, ws, wsDisk, wsWrites>>
    BY DEF BindCreated, Bind
  <1>2. /\ request[q].step = "asked" /\ request[q].do = "provision"
        /\ request' = [request EXCEPT ![q] = r] /\ r \in [do : Kinds, step : Steps]
    <2>1. At(q, "provision", "asked") /\ Step(q, "bind") /\ "bind" \in Steps
      BY DEF BindCreated, Steps
    <2> QED
      BY <2>1, StepTaken DEF CloudInv
  <1>3. r.do = "provision" /\ r.step = "bind"
    OBVIOUS
  <1> HIDE DEF r
  <1>4. SoundFor(Callers)'
    BY BindSound DEF BindCreated, CloudInv, Callers
  <1>5. /\ rec.bound /\ rec.known = record.known /\ rec.revoked = record.revoked
        /\ rec \in SoundRecords
    BY <1>1 DEF CloudInv, SoundFor, SoundRecords, Records, Sound
  <1> HIDE DEF rec
  <1>6. Later(record, rec)
    BY <1>5 DEF Later
  <1>7. /\ CloudTyped' /\ Ordered' /\ WaitsOnce' /\ (Listed' <=> Listed) /\ request'[q] = r
        /\ \A p \in Requests \ {q} : request'[p] = request[p]
        /\ request' \in [Requests -> [do : Kinds, step : Steps]]
    BY <1>1, <1>2, <1>3, <1>4, <1>5, <1>6, Registers DEF Await
  <1>8. \A p \in Requests : Moves(p)
    BY <1>2, <1>3, <1>7 DEF Moves
  <1>9. Listing'
    BY <1>1, <1>5, <1>7, <1>8, ListingKept DEF CloudInv
  <1> QED
    BY <1>4, <1>7, <1>9 DEF CloudInv

\* What is revoked was never listed, or its machine is gone.
LEMMA RevokesRest ==
  ASSUME CloudInv, NEW q \in Requests, RevokeFailed(q) \/ RevokeDestroyed(q)
  PROVE  CloudInv'
  <1>1. PICK do \in {"provision", "destroy"}, from \in {"ask", "asked", "unbound"} :
          /\ At(q, do, from) /\ Step(q, "revoke") /\ Revoke(q)
          /\ do = "destroy" => from = "asked"
          /\ UNCHANGED <<ws, wsDisk, wsWrites>>
    BY DEF RevokeFailed, RevokeDestroyed
  <1> DEFINE rec == RevokedRecord(record)
             r == [do |-> do, step |-> "revoke"]
  <1>2. /\ record.known /\ record' = rec /\ writes' = Save(q, rec)
        /\ UNCHANGED <<disk, vm, ws, wsDisk, wsWrites>>
    BY <1>1 DEF Revoke
  <1>3. /\ request[q].step = from /\ request[q].do = do
        /\ request' = [request EXCEPT ![q] = r] /\ r \in [do : Kinds, step : Steps]
    <2>1. "revoke" \in Steps
      BY DEF Steps
    <2> QED
      BY <1>1, <2>1, StepTaken DEF CloudInv
  <1>4. r.do = do /\ r.step = "revoke"
    OBVIOUS
  <1> HIDE DEF r
  <1>5. SoundFor(Callers)'
    BY <1>1, RevokeSound DEF CloudInv, Callers
  <1>6. /\ rec.bound = record.bound /\ rec.known = record.known /\ rec.revoked
        /\ rec \in SoundRecords
    BY <1>2 DEF CloudInv, SoundFor, SoundRecords, Records, Sound, RevokedRecord, None
  <1> HIDE DEF rec
  <1>7. Later(record, rec)
    BY <1>6 DEF Later
  <1>8. /\ CloudTyped' /\ Ordered' /\ WaitsOnce' /\ (Listed' <=> Listed) /\ request'[q] = r
        /\ \A p \in Requests \ {q} : request'[p] = request[p]
    BY <1>2, <1>3, <1>4, <1>5, <1>6, <1>7, Registers DEF Await
  <1>9. ~Listed \/ vm = "gone"
    BY <1>1, <1>3 DEF CloudInv, Listing, Provisioning
  <1>10. Listed' => disk'.bound /\ vm' = "gone"
    BY <1>2, <1>8, <1>9 DEF CloudInv, Listing
  <1>11. ASSUME NEW p \in Requests \ {q}
         PROVE  ~(request'[p].do = "provision" /\ request'[p].step # "save")
    BY <1>1, <1>3, <1>8 DEF CloudInv, Listing, Provisioning
  <1>12. ASSUME NEW p \in Requests PROVE Provisioning(p)'
    <2>1. CASE p = q
      <3>1. CASE do = "provision"
        <4>1. ~Listed /\ \A u \in Requests : request[u].do # "no" => u = q
          BY <1>1, <1>3, <3>1 DEF CloudInv, Listing, Provisioning
        <4> QED
          BY <1>4, <1>8, <2>1, <4>1 DEF Provisioning
      <3>2. CASE do # "provision"
        BY <1>4, <1>8, <2>1, <3>2 DEF Provisioning
      <3> QED
        BY <3>1, <3>2
    <2>2. CASE p # q
      BY <1>11, <2>2 DEF Provisioning
    <2> QED
      BY <2>1, <2>2
  <1>13. ASSUME NEW p \in Requests PROVE At(p, "destroy", "asked")' => vm' = "gone"
    BY <1>2, <1>4, <1>8 DEF At, CloudInv, Listing
  <1> QED
    BY <1>2, <1>5, <1>6, <1>8, <1>10, <1>12, <1>13 DEF CloudInv, Listing

-----------------------------------------------------------------------------
(* The steps that change the list *)

LEMMA Lists ==
  ASSUME CloudInv, NEW by \in Requests \cup {None}, NEW value \in WorkspaceRecords,
         ws' = value, wsWrites' = Append(wsWrites, [by |-> by, ws |-> value]),
         UNCHANGED <<record, disk, writes, conn, faults, vm, wsDisk>>,
         by \in Requests => /\ request[by].step \notin Await \cup {"save"}
                            /\ request'[by].step = "save",
         request' \in [Requests -> [do : Kinds, step : Steps]],
         \A q \in Requests : q # by => request'[q] = request[q]
  PROVE  /\ SoundFor(Callers)' /\ CloudTyped' /\ Ordered' /\ WaitsOnce'
         /\ Listed' => Listed \/ value.listed
  <1>1. SoundFor(Callers)' /\ Ordered'
    BY OrderedSame DEF CloudInv, SoundFor, Later
  <1>2. /\ wsWrites' \in Seq([by : Requests \cup {None}, ws : WorkspaceRecords])
        /\ DOMAIN wsWrites' = 1..Len(wsWrites) + 1 /\ DOMAIN wsWrites = 1..Len(wsWrites)
        /\ Len(wsWrites) \in Nat
        /\ \A i \in 1..Len(wsWrites) : wsWrites'[i] = wsWrites[i]
        /\ wsWrites'[Len(wsWrites) + 1] = [by |-> by, ws |-> value]
    BY ListSaved DEF CloudInv
  <1>3. CloudTyped'
    BY <1>2 DEF CloudInv, CloudTyped
  <1>4. WaitsOnce'
    BY WaitsListSaved DEF CloudInv
  <1>5. ASSUME NEW i \in DOMAIN wsWrites', wsWrites'[i].ws.listed
        PROVE  Listed \/ value.listed
    <2>1. i \in DOMAIN wsWrites \/ i = Len(wsWrites) + 1
      BY <1>2
    <2> QED
      BY <1>2, <1>5, <2>1 DEF Listed
  <1> QED
    BY <1>1, <1>3, <1>4, <1>5 DEF Listed

LEMMA SetStatusTyped ==
  ASSUME CloudTyped, NEW status \in {"paused", "resuming", "active"}
  PROVE  SetStatus(status) \in WorkspaceRecords /\ SetStatus(status).listed = ws.listed
  <1>1. CASE ws = Unlisted
    BY <1>1 DEF SetStatus, Unlisted, WorkspaceRecords
  <1>2. CASE ws \in [listed : {TRUE}, status : {"awaiting_agent", "paused", "resuming", "active"}]
    BY <1>2 DEF SetStatus, WorkspaceRecords
  <1> QED
    BY <1>1, <1>2 DEF CloudTyped, WorkspaceRecords

LEMMA FoundRest ==
  ASSUME CloudInv, FoundOnline
  PROVE  CloudInv'
  <1> DEFINE value == SetStatus("active")
  <1>1. /\ ws' = value /\ wsWrites' = Append(wsWrites, [by |-> None, ws |-> value])
        /\ UNCHANGED <<record, disk, writes, conn, faults, vm, wsDisk, request>>
    BY DEF FoundOnline, SaveWorkspaces, boxVars
  <1>2. value \in WorkspaceRecords /\ value.listed = ws.listed
    BY SetStatusTyped DEF CloudInv
  <1> HIDE DEF value
  <1>3. None \notin Requests
    BY RequestsAssumption
  <1>4. request' \in [Requests -> [do : Kinds, step : Steps]]
    BY <1>1 DEF CloudInv, CloudTyped
  <1>5. /\ SoundFor(Callers)' /\ CloudTyped' /\ Ordered' /\ WaitsOnce'
        /\ Listed' => Listed \/ value.listed
    BY <1>1, <1>2, <1>3, <1>4, Lists
  <1>6. Listed' => Listed
    BY <1>2, <1>5 DEF Listed
  <1>7. \A p \in Requests : Moves(p)
    BY <1>1 DEF Moves
  <1> QED
    BY <1>1, <1>4, <1>5, <1>6, <1>7, ListingKept DEF CloudInv

LEMMA AnsweredRest ==
  ASSUME CloudInv, NEW q \in Requests, Answered(q) \/ Unlist(q)
  PROVE  CloudInv'
  <1>1. PICK do \in {"pause", "resume", "destroy"}, from \in {"asked", "revoked"} :
          At(q, do, from) /\ Step(q, "save")
    <2>1. CASE Answered(q)
      <3>1. request[q] \in [do : Kinds, step : Steps]
        BY DEF CloudInv, CloudTyped
      <3> QED
        BY <2>1, <3>1 DEF Answered, At
    <2>2. CASE Unlist(q)
      BY <2>2 DEF Unlist
    <2> QED
      BY <2>1, <2>2
  <1>2. PICK value \in WorkspaceRecords :
          /\ ws' = value /\ wsWrites' = Append(wsWrites, [by |-> q, ws |-> value])
          /\ value.listed => ws.listed
    <2>1. CASE Answered(q)
      <3>1. \E status \in {"paused", "resuming", "active"} :
              ws' = SetStatus(status) /\ wsWrites' = Append(wsWrites, [by |-> q, ws |-> ws'])
        BY <2>1 DEF Answered, SaveWorkspaces
      <3> QED
        BY <3>1, SetStatusTyped DEF CloudInv
    <2>2. CASE Unlist(q)
      <3>1. Unlisted \in WorkspaceRecords /\ ~Unlisted.listed
        BY DEF Unlisted, WorkspaceRecords
      <3> QED
        BY <2>2, <3>1 DEF Unlist, SaveWorkspaces
    <2> QED
      BY <2>1, <2>2
  <1>3. UNCHANGED <<record, disk, writes, conn, faults, vm, wsDisk>>
    BY DEF Answered, Unlist, boxVars
  <1> DEFINE r == [do |-> do, step |-> "save"]
  <1>4. /\ request[q].step = from /\ request[q].do = do
        /\ request' = [request EXCEPT ![q] = r] /\ r \in [do : Kinds, step : Steps]
    <2>1. "save" \in Steps
      BY DEF Steps
    <2> QED
      BY <1>1, <2>1, StepTaken DEF CloudInv
  <1>5. r.do = do /\ r.step = "save"
    OBVIOUS
  <1> HIDE DEF r
  <1>6. /\ request' \in [Requests -> [do : Kinds, step : Steps]] /\ request'[q] = r
        /\ \A p \in Requests \ {q} : request'[p] = request[p]
    BY <1>4 DEF CloudInv, CloudTyped
  <1>7. /\ SoundFor(Callers)' /\ CloudTyped' /\ Ordered' /\ WaitsOnce'
        /\ Listed' => Listed \/ value.listed
    BY <1>2, <1>3, <1>4, <1>5, <1>6, Lists DEF Await
  <1>8. Listed' => Listed
    BY <1>2, <1>7 DEF Listed
  <1>9. \A p \in Requests : Moves(p)
    BY <1>4, <1>5, <1>6 DEF Moves
  <1> QED
    BY <1>3, <1>6, <1>7, <1>8, <1>9, ListingKept DEF CloudInv

\* A workspace is listed when its binding is in the file, and nothing revoked it.
LEMMA ListProvisionedRest ==
  ASSUME CloudInv, NEW q \in Requests, ListProvisioned(q)
  PROVE  CloudInv'
  <1> DEFINE value == [listed |-> TRUE, status |-> "awaiting_agent"]
             r == [do |-> "provision", step |-> "save"]
  <1>1. /\ ws' = value /\ wsWrites' = Append(wsWrites, [by |-> q, ws |-> value])
        /\ UNCHANGED <<record, disk, writes, conn, faults, vm, wsDisk>>
    BY DEF ListProvisioned, SaveWorkspaces, boxVars
  <1>2. value \in WorkspaceRecords
    BY DEF WorkspaceRecords
  <1>3. /\ request[q].step = "bound" /\ request[q].do = "provision"
        /\ request' = [request EXCEPT ![q] = r] /\ r \in [do : Kinds, step : Steps]
    <2>1. At(q, "provision", "bound") /\ Step(q, "save") /\ "save" \in Steps
      BY DEF ListProvisioned, Steps
    <2> QED
      BY <2>1, StepTaken DEF CloudInv
  <1>4. r.do = "provision" /\ r.step = "save"
    OBVIOUS
  <1> HIDE DEF r, value
  <1>5. /\ request' \in [Requests -> [do : Kinds, step : Steps]] /\ request'[q] = r
        /\ \A p \in Requests \ {q} : request'[p] = request[p]
    BY <1>3 DEF CloudInv, CloudTyped
  <1>6. SoundFor(Callers)' /\ CloudTyped' /\ Ordered' /\ WaitsOnce'
    BY <1>1, <1>2, <1>3, <1>4, <1>5, Lists DEF Await
  <1>7. /\ disk.bound /\ ~record.revoked /\ record.known
        /\ \A p \in Requests : request[p].do # "no" => p = q
    BY <1>3 DEF CloudInv, Listing, Provisioning
  <1>8. \A p \in Requests : Provisioning(p)' /\ ~At(p, "destroy", "asked")' /\ record'.known
    BY <1>1, <1>4, <1>5, <1>7 DEF Provisioning, At
  <1> QED
    BY <1>1, <1>6, <1>7, <1>8 DEF CloudInv, Listing

-----------------------------------------------------------------------------
(* The end of a write, and of the hub *)

LEMMA AfterWriteTyped ==
  ASSUME NEW r \in [do : Kinds, step : Steps], r.step \in Await, NEW written \in BOOLEAN
  PROVE  /\ AfterWrite(r, written) \in [do : Kinds, step : Steps]
         /\ AfterWrite(r, written).do \in {r.do, "no"}
         /\ AfterWrite(r, written).step \in {"no", "ask", "bound", "unbound", "revoked"}
         /\ AfterWrite(r, written).step = "bound" => written /\ r.step = "bind"
         /\ r.do = "provision" /\ r.step = "revoke" => AfterWrite(r, written).do = "no"
  <1>1. Idle \in [do : Kinds, step : Steps] /\ Idle.do = "no" /\ Idle.step = "no"
    BY DEF Idle, Kinds, Steps
  <1>2. CASE r.step = "prepare"
    <2>1. AfterWrite(r, written) = IF written THEN [r EXCEPT !.step = "ask"] ELSE Idle
      BY <1>2 DEF AfterWrite
    <2>2. [r EXCEPT !.step = "ask"] \in [do : Kinds, step : Steps]
      BY DEF Steps
    <2> QED
      BY <1>1, <1>2, <2>1, <2>2
  <1>3. CASE r.step = "bind"
    <2> DEFINE to == IF written THEN "bound" ELSE "unbound"
    <2>1. AfterWrite(r, written) = [r EXCEPT !.step = to]
      BY <1>3 DEF AfterWrite
    <2>2. to \in {"bound", "unbound"} /\ to \in Steps /\ (to = "bound" => written)
      BY DEF Steps
    <2> HIDE DEF to
    <2> QED
      BY <1>3, <2>1, <2>2
  <1>4. CASE r.step = "revoke"
    <2>1. AfterWrite(r, written) = IF r.do = "destroy" THEN [r EXCEPT !.step = "revoked"] ELSE Idle
      BY <1>4 DEF AfterWrite
    <2>2. [r EXCEPT !.step = "revoked"] \in [do : Kinds, step : Steps]
      BY DEF Steps
    <2> QED
      BY <1>1, <1>4, <2>1, <2>2
  <1> QED
    BY <1>2, <1>3, <1>4 DEF Await

\* The request that bound the machine goes on when the binding is in the file.
LEMMA WrittenRest ==
  ASSUME CloudInv, RegistryWritten
  PROVE  CloudInv'
  <1>1. PICK written \in BOOLEAN :
          /\ GoesOn(written)
          /\ written => disk' = Head(writes).rec
          /\ ~written => disk' = disk
    BY DEF RegistryWritten, WriteDone, WriteFails
  <1>2. /\ writes # <<>> /\ writes' = Tail(writes)
        /\ UNCHANGED <<record, conn, vm, ws, wsDisk, wsWrites>>
    BY DEF RegistryWritten, WriteDone, WriteFails
  <1>3. /\ DOMAIN writes = 1..Len(writes) /\ Len(writes) \in Nat
        /\ Head(writes) = writes[1] /\ Len(writes) > 0
    BY <1>2, TailShifts DEF CloudInv
  <1>4. 1 \in DOMAIN writes
    BY <1>3
  <1>5. SoundFor(Callers)'
    BY WriteSound DEF RegistryWritten, CloudInv
  <1>6. ASSUME NEW q \in Requests
        PROVE  /\ request'[q] \in [do : Kinds, step : Steps]
               /\ q # Head(writes).by => request'[q] = request[q]
               /\ q = Head(writes).by => /\ request'[q] = AfterWrite(request[q], written)
                                         /\ request[q].step \in Await
                                         /\ request[q].step = "bind" => writes[1].rec.bound
    <2>1. request[q] \in [do : Kinds, step : Steps]
      BY DEF CloudInv, CloudTyped
    <2>2. request'[q] = IF Head(writes).by = q THEN AfterWrite(request[q], written) ELSE request[q]
      BY <1>1 DEF GoesOn
    <2>3. q = Head(writes).by => /\ request[q].step \in Await
                                 /\ request[q].step = "bind" => writes[1].rec.bound
      BY <1>3, <1>4 DEF CloudInv, WaitsOnce, Await
    <2> QED
      BY <2>1, <2>2, <2>3, AfterWriteTyped
  <1>7. request' \in [Requests -> [do : Kinds, step : Steps]]
    BY <1>1, <1>6 DEF GoesOn
  <1>8. CloudTyped'
    BY <1>2, <1>7 DEF CloudInv, CloudTyped
  <1>9. Ordered'
    BY <1>1, <1>2, OrderedNext DEF CloudInv
  <1>10. WaitsOnce'
    BY <1>2, <1>6, WaitsNext DEF CloudInv
  <1>11. disk.bound => disk'.bound
    BY <1>1, <1>3, <1>4 DEF CloudInv, Ordered, Later
  <1>12. ASSUME NEW q \in Requests PROVE Moves(q)
    <2>1. CASE q # Head(writes).by
      BY <1>6, <2>1 DEF Moves
    <2>2. CASE q = Head(writes).by
      <3> DEFINE r == request[q]
      <3>1. r \in [do : Kinds, step : Steps]
        BY DEF CloudInv, CloudTyped
      <3>2. /\ request'[q].do \in {r.do, "no"}
            /\ request'[q].step \in {"no", "ask", "bound", "unbound", "revoked"}
            /\ request'[q].step = "bound" => written /\ r.step = "bind"
            /\ r.do = "provision" /\ r.step = "revoke" => request'[q].do = "no"
        BY <1>6, <2>2, <3>1, AfterWriteTyped
      <3>3. r.step # "save"
        BY <1>6, <2>2 DEF Await
      <3>4. request'[q].step = "bound" => disk'.bound
        BY <1>1, <1>3, <1>6, <2>2, <3>2
      <3> QED
        BY <3>2, <3>3, <3>4 DEF Moves
    <2> QED
      BY <2>1, <2>2
  <1>13. Listed' => Listed
    BY <1>2 DEF Listed
  <1>14. Listing'
    BY <1>2, <1>7, <1>11, <1>12, <1>13, ListingKept DEF CloudInv
  <1> QED
    BY <1>5, <1>8, <1>9, <1>10, <1>14 DEF CloudInv

LEMMA ListWrittenRest ==
  ASSUME CloudInv, NEW written \in BOOLEAN, WorkspacesWritten(written)
  PROVE  CloudInv'
  <1>1. /\ wsWrites # <<>> /\ wsWrites' = Tail(wsWrites)
        /\ UNCHANGED <<record, disk, writes, conn, vm, ws>>
        /\ wsDisk' = IF written THEN Head(wsWrites).ws ELSE wsDisk
        /\ Fault \/ UNCHANGED faults
    BY DEF WorkspacesWritten
  <1>2. SoundFor(Callers)'
    BY <1>1, FaultCounted DEF CloudInv, SoundFor
  <1>3. /\ wsWrites' \in Seq([by : Requests \cup {None}, ws : WorkspaceRecords])
        /\ DOMAIN wsWrites' = 1..Len(wsWrites) - 1 /\ DOMAIN wsWrites = 1..Len(wsWrites)
        /\ Len(wsWrites) \in Nat
        /\ \A i \in DOMAIN wsWrites' : wsWrites'[i] = wsWrites[i + 1]
        /\ Head(wsWrites) = wsWrites[1] /\ Len(wsWrites) > 0
    BY <1>1, ListShifts DEF CloudInv
  <1>4. 1 \in DOMAIN wsWrites
    BY <1>3
  <1>5. wsWrites[1].ws \in WorkspaceRecords
    <2>1. wsWrites[1] \in [by : Requests \cup {None}, ws : WorkspaceRecords]
      BY <1>4, ElementOfSeq, <1>3 DEF CloudInv, CloudTyped
    <2> QED
      BY <2>1
  <1>6. Idle \in [do : Kinds, step : Steps] /\ Idle.do = "no"
    BY DEF Idle, Kinds, Steps
  <1>7. ASSUME NEW q \in Requests
        PROVE  /\ request'[q] \in [do : Kinds, step : Steps] /\ Moves(q)
               /\ q # Head(wsWrites).by => request'[q] = request[q]
    <2>1. request'[q] = IF Head(wsWrites).by = q THEN Idle ELSE request[q]
      BY DEF WorkspacesWritten
    <2> QED
      BY <1>6, <2>1 DEF Moves, CloudInv, CloudTyped
  <1>8. request' \in [Requests -> [do : Kinds, step : Steps]]
    BY <1>7 DEF WorkspacesWritten
  <1>9. CloudTyped'
    BY <1>1, <1>3, <1>5, <1>8 DEF CloudInv, CloudTyped
  <1>10. Ordered'
    BY <1>1, OrderedSame DEF CloudInv, Later
  <1>11. WaitsOnce'
    BY <1>1, <1>7, WaitsListNext DEF CloudInv
  <1>12. Listed' => Listed
    <2>1. \A i \in DOMAIN wsWrites' : i + 1 \in DOMAIN wsWrites /\ wsWrites'[i] = wsWrites[i + 1]
      BY <1>3
    <2> QED
      BY <1>1, <1>3, <1>4, <2>1 DEF Listed
  <1>13. Listing'
    BY <1>1, <1>7, <1>8, <1>12, ListingKept DEF CloudInv
  <1> QED
    BY <1>2, <1>9, <1>10, <1>11, <1>13 DEF CloudInv

\* What the two files hold is all that is left.
LEMMA CrashRest ==
  ASSUME CloudInv, Crash
  PROVE  CloudInv'
  <1>1. /\ record' = Loaded(disk) /\ writes' = <<>> /\ UNCHANGED <<disk, vm, wsDisk>>
        /\ ws' = wsDisk /\ wsWrites' = <<>> /\ request' = [q \in Requests |-> Idle]
    BY DEF Crash, HubCrash
  <1>2. SoundFor(Callers)'
    BY CrashSound DEF Crash, CloudInv
  <1>3. Idle \in [do : Kinds, step : Steps] /\ Idle.do = "no"
    BY DEF Idle, Kinds, Steps
  <1>4. /\ request' \in [Requests -> [do : Kinds, step : Steps]]
        /\ \A q \in Requests : request'[q].do = "no"
    BY <1>1, <1>3
  <1>5. DOMAIN writes' = {} /\ DOMAIN wsWrites' = {}
    BY <1>1
  <1>6. CloudTyped'
    BY <1>1, <1>4, EmptySeq DEF CloudInv, CloudTyped
  <1>7. disk \in SoundRecords
    BY DEF CloudInv, SoundFor
  <1>8. /\ record'.known = disk.known /\ record'.bound = disk.bound
        /\ record'.revoked = disk.revoked
    BY <1>1, <1>7, LoadedLater
  <1>9. Ordered'
    BY <1>1, <1>5, <1>8 DEF Ordered, Later
  <1>10. WaitsOnce'
    BY <1>5 DEF WaitsOnce
  <1>11. Listed' => Listed
    BY <1>1, <1>5 DEF Listed
  <1>12. record'.revoked => record.revoked
    BY <1>8 DEF CloudInv, Ordered, Later
  <1>13. Listed' => disk'.bound /\ (record'.revoked => vm' = "gone")
    BY <1>1, <1>11, <1>12 DEF CloudInv, Listing
  <1>14. \A q \in Requests : Provisioning(q)' /\ ~At(q, "destroy", "asked")'
    BY <1>4 DEF Provisioning, At
  <1> QED
    BY <1>2, <1>4, <1>6, <1>9, <1>10, <1>13, <1>14 DEF CloudInv, Listing

-----------------------------------------------------------------------------
(* The theorems *)

LEMMA CloudNext ==
  ASSUME CloudInv, [Next]_vars
  PROVE  CloudInv'
  <1>1. CASE (HubNext \/ AgentNext) /\ UNCHANGED cloudVars
    BY <1>1, BoxSteps
  <1>2. CASE RegistryWritten \/ Crash \/ FoundOnline
    BY <1>2, WrittenRest, CrashRest, FoundRest
  <1>3. ASSUME NEW written \in BOOLEAN, WorkspacesWritten(written) PROVE CloudInv'
    BY <1>3, ListWrittenRest
  <1>4. ASSUME NEW q \in Requests, RequestNext(q) PROVE CloudInv'
    BY <1>4, AsksRest, CreatesRest, BeginsRest, ProvisionRest, BindRest, RevokesRest,
       AnsweredRest, ListProvisionedRest DEF RequestNext
  <1>5. CASE UNCHANGED vars
    <2>1. UNCHANGED cloudVars /\ UNCHANGED <<record, disk, writes, conn, vm, faults>>
      BY <1>5 DEF vars, boxVars
    <2>2. SoundFor(Callers)'
      BY <2>1 DEF CloudInv, SoundFor
    <2> QED
      BY <2>1, <2>2, BoxStep
  <1> QED
    BY <1>1, <1>2, <1>3, <1>4, <1>5 DEF Next

LEMMA CloudInit ==
  ASSUME Init
  PROVE  CloudInv
  <1>1. SoundFor(Callers)
    BY InitSound DEF Init
  <1>2. /\ record = NoRecord /\ disk = NoRecord /\ writes = <<>> /\ ws = Unlisted
        /\ wsDisk = Unlisted /\ wsWrites = <<>> /\ request = [q \in Requests |-> Idle]
    BY DEF Init, BoxInit
  <1>3. Idle \in [do : Kinds, step : Steps] /\ Idle.do = "no"
    BY DEF Idle, Kinds, Steps
  <1>4. /\ request \in [Requests -> [do : Kinds, step : Steps]]
        /\ \A q \in Requests : request[q].do = "no"
    BY <1>2, <1>3
  <1>5. DOMAIN writes = {} /\ DOMAIN wsWrites = {}
    BY <1>2
  <1>6. Unlisted \in WorkspaceRecords /\ ~Unlisted.listed
    BY DEF Unlisted, WorkspaceRecords
  <1>7. CloudTyped
    BY <1>2, <1>4, <1>6, EmptySeq DEF CloudTyped
  <1>8. Ordered /\ WaitsOnce
    BY <1>2, <1>5 DEF Ordered, Later, WaitsOnce
  <1>9. ~Listed
    BY <1>2, <1>5, <1>6 DEF Listed
  <1>10. Listing
    BY <1>4, <1>9 DEF Listing, Provisioning, At
  <1> QED
    BY <1>1, <1>7, <1>8, <1>10 DEF CloudInv

\* Both versions of the list, and every one on its way to the file, keep the type:
\* an answer that comes after a workspace was destroyed revives nothing.
THEOREM WorkspaceTypes == Spec => []WorkspaceTypeOK
  <1>1. ASSUME CloudInv PROVE WorkspaceTypeOK
    <2>1. ASSUME NEW i \in DOMAIN wsWrites PROVE wsWrites[i].ws \in WorkspaceRecords
      <3>1. wsWrites \in Seq([by : Requests \cup {None}, ws : WorkspaceRecords])
        BY <1>1 DEF CloudInv, CloudTyped
      <3>2. wsWrites[i] \in [by : Requests \cup {None}, ws : WorkspaceRecords]
        BY <3>1, ElementOfSeq, LenProperties
      <3> QED
        BY <3>2
    <2> QED
      BY <1>1, <2>1 DEF CloudInv, CloudTyped, Kinds, WorkspaceTypeOK
  <1> QED
    BY <1>1, CloudInit, CloudNext, PTL DEF Spec

\* A listed workspace has a bound registration, revoked only when its machine is
\* gone, for any number of overlapping requests, failed writes and crashes.
THEOREM ListedRegistered == Spec => []ListedIsRegistered
  <1>1. ASSUME CloudInv PROVE ListedIsRegistered
    BY <1>1, ListedKnown DEF CloudInv, Listing, Listed, ListedIsRegistered
  <1> QED
    BY <1>1, CloudInit, CloudNext, PTL DEF Spec

\* Under a hub that provisions and destroys, too, a revoked registration stays down.
THEOREM RevokedDownInCloud == Spec => []RevokedStaysDown
  <1>1. ASSUME CloudInv PROVE RevokedStaysDown
    BY <1>1, SoundIsDown DEF CloudInv
  <1> QED
    BY <1>1, CloudInit, CloudNext, PTL DEF Spec
=============================================================================
