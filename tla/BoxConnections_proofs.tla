------------------------- MODULE BoxConnections_proofs -------------------------
(***************************************************************************)
(* A revoked registration stays down: proofs about BoxConnections.         *)
(*                                                                         *)
(* RevokedStaysDown alone is not inductive.  A restart loads what is in    *)
(* the state file, which comes from the snapshots on the write chain, so   *)
(* each of these must be sound as well; and a hello that was verified      *)
(* before the revocation is refused only because revoke leaves no          *)
(* credential in the record.                                               *)
(***************************************************************************)
EXTENDS BoxConnections, SequenceTheorems, TLAPS

\* A registration that, once it is revoked, holds no credential and is not online;
\* the secret is used up by the first credential, and both are of a known box, as
\* is the binding.
Sound(rec) ==
  /\ rec.revoked => rec.known /\ ~rec.secret /\ rec.key = None /\ rec.status = "failed"
  /\ rec.secret => rec.known /\ rec.key = None
  /\ rec.key # None => rec.known
  /\ rec.bound => rec.known

SoundRecords == {rec \in Records : Sound(rec)}

\* The inductive invariant; callers are those that may await a write.
SoundFor(callers) ==
  /\ record \in SoundRecords
  /\ record.status # "saved"
  /\ disk \in SoundRecords
  /\ writes \in Seq([by : callers, rec : SoundRecords])
  /\ record.revoked => conn = None
  /\ faults \in 0..MaxFaults

BoxCallers == Sockets \cup {None}

\* What a write keeps of a sound registration is sound.
LEMMA SnapshotSound ==
  ASSUME NEW rec \in SoundRecords
  PROVE  Snapshot(rec) \in SoundRecords
  BY DEF SoundRecords, Records, Sound, Snapshot, None

\* What load makes of a sound registration is sound.
LEMMA LoadedSound ==
  ASSUME NEW rec \in SoundRecords
  PROVE  Loaded(rec) \in SoundRecords /\ Loaded(rec).status # "saved"
  BY DEF SoundRecords, Records, Sound, Loaded, None

\* A write of a sound registration keeps the chain sound.
LEMMA SaveSound ==
  ASSUME NEW callers, NEW by \in callers, NEW rec \in SoundRecords,
         writes \in Seq([by : callers, rec : SoundRecords])
  PROVE  Save(by, rec) \in Seq([by : callers, rec : SoundRecords])
  <1>1. Snapshot(rec) \in SoundRecords
    BY SnapshotSound
  <1> DEFINE new == [by |-> by, rec |-> Snapshot(rec)]
  <1>2. new \in [by : callers, rec : SoundRecords]
    BY <1>1
  <1> HIDE DEF new
  <1>3. Append(writes, new) \in Seq([by : callers, rec : SoundRecords])
    BY <1>2, AppendProperties
  <1> QED
    BY <1>3 DEF new, Save

\* A write comes last on the chain, and the first leaves it.
LEMMA Saved ==
  ASSUME NEW callers, NEW by \in callers, NEW rec \in SoundRecords,
         writes \in Seq([by : callers, rec : SoundRecords]), writes' = Save(by, rec)
  PROVE  /\ Len(writes') = Len(writes) + 1 /\ Len(writes) \in Nat
         /\ DOMAIN writes' = 1..Len(writes) + 1 /\ DOMAIN writes = 1..Len(writes)
         /\ \A i \in 1..Len(writes) : writes'[i] = writes[i]
         /\ writes'[Len(writes) + 1] = [by |-> by, rec |-> Snapshot(rec)]
  <1> DEFINE new == [by |-> by, rec |-> Snapshot(rec)]
  <1>1. new \in [by : callers, rec : SoundRecords]
    BY SnapshotSound
  <1>2. writes' = Append(writes, new)
    BY DEF Save
  <1> HIDE DEF new
  <1>3. Append(writes, new) \in Seq([by : callers, rec : SoundRecords])
    BY <1>1, AppendProperties
  <1>4. /\ Len(writes') = Len(writes) + 1
        /\ \A i \in 1..Len(writes) : writes'[i] = writes[i]
        /\ writes'[Len(writes) + 1] = new
    BY <1>1, <1>2, AppendProperties
  <1>5. /\ Len(writes) \in Nat /\ DOMAIN writes = 1..Len(writes)
        /\ DOMAIN writes' = 1..Len(writes')
    BY <1>2, <1>3, LenProperties
  <1> QED
    BY <1>4, <1>5 DEF new

LEMMA TailShifts ==
  ASSUME NEW callers, SoundFor(callers), writes # <<>>, writes' = Tail(writes)
  PROVE  /\ DOMAIN writes' = 1..Len(writes) - 1 /\ DOMAIN writes = 1..Len(writes) /\ Len(writes) \in Nat
         /\ \A i \in DOMAIN writes' : writes'[i] = writes[i + 1]
         /\ Head(writes) = writes[1] /\ Len(writes) > 0
  BY HeadTailProperties, LenProperties, EmptySeq DEF SoundFor

\* The head of the chain is sound, and so is what is left of it.
LEMMA ChainSound ==
  ASSUME NEW callers, writes \in Seq([by : callers, rec : SoundRecords]), writes # <<>>
  PROVE  /\ Head(writes).rec \in SoundRecords
         /\ Tail(writes) \in Seq([by : callers, rec : SoundRecords])
  <1>1. Head(writes) \in [by : callers, rec : SoundRecords]
    BY HeadTailProperties
  <1>2. Tail(writes) \in Seq([by : callers, rec : SoundRecords])
    BY HeadTailProperties
  <1> QED
    BY <1>1, <1>2

\* A new registration, and none, are sound.
LEMMA FirstSound ==
  /\ NoRecord \in SoundRecords /\ NoRecord.status # "saved" /\ ~NoRecord.revoked
  /\ Fresh \in SoundRecords /\ Fresh.status # "saved" /\ ~Fresh.revoked
  BY DEF SoundRecords, Records, Sound, NoRecord, Fresh, None

\* A fault is counted.
LEMMA FaultCounted ==
  ASSUME faults \in 0..MaxFaults, Fault \/ UNCHANGED faults
  PROVE  faults' \in 0..MaxFaults
  BY BoxAssumption DEF Fault
-----------------------------------------------------------------------------
(* The registry's calls, whoever makes them *)

LEMMA PrepareSound ==
  ASSUME NEW callers, NEW by \in callers, SoundFor(callers), Prepare(by)
  PROVE  SoundFor(callers)'
  <1>1. record' \in SoundRecords /\ ~record'.revoked /\ record'.status # "saved"
    BY FirstSound DEF Prepare
  <1>2. writes' \in Seq([by : callers, rec : SoundRecords])
    BY FirstSound, SaveSound DEF Prepare, SoundFor
  <1> QED
    BY <1>1, <1>2 DEF SoundFor, Prepare

LEMMA BindSound ==
  ASSUME NEW callers, NEW by \in callers, SoundFor(callers), Bind(by)
  PROVE  SoundFor(callers)'
  <1> DEFINE rec == [record EXCEPT !.bound = TRUE]
  <1>1. rec \in SoundRecords /\ rec.revoked = record.revoked /\ rec.status = record.status
    BY DEF SoundFor, SoundRecords, Records, Sound, Bind
  <1>2. record' = rec /\ writes' = Save(by, rec)
    BY DEF Bind
  <1> HIDE DEF rec
  <1>3. writes' \in Seq([by : callers, rec : SoundRecords])
    BY <1>1, <1>2, SaveSound DEF SoundFor
  <1> QED
    BY <1>1, <1>2, <1>3 DEF SoundFor, Bind

LEMMA RevokeSound ==
  ASSUME NEW callers, NEW by \in callers, SoundFor(callers), Revoke(by)
  PROVE  SoundFor(callers)'
  <1>1. RevokedRecord(record) \in SoundRecords /\ RevokedRecord(record).status # "saved"
    BY DEF SoundFor, SoundRecords, Records, Sound, RevokedRecord, None, Revoke
  <1>2. writes' \in Seq([by : callers, rec : SoundRecords])
    BY <1>1, SaveSound DEF SoundFor, Revoke
  <1> QED
    BY <1>1, <1>2 DEF SoundFor, Revoke

-----------------------------------------------------------------------------
(* The hub's steps *)

\* A registration stays well formed when its proof, its status and its readiness are set.
LEMMA RecordUpdated ==
  ASSUME NEW x \in Records, NEW secret \in BOOLEAN, NEW key \in Keys \cup {None}
  PROVE  [x EXCEPT !.secret = secret, !.key = key, !.status = "online", !.ready = FALSE] \in Records
BY DEF Records

\* A hello that passes the comparison proves that the registration is not revoked.
LEMMA AuthenticateSound ==
  ASSUME NEW callers, NEW s \in Sockets, s \in callers, SoundFor(callers), Authenticate(s)
  PROVE  SoundFor(callers)'
  <1> DEFINE first == socket[s].hello = None
             rec == [record EXCEPT !.secret = IF first THEN FALSE ELSE @,
                                   !.key = IF first THEN NewKey ELSE @,
                                   !.status = "online", !.ready = FALSE]
             holds == IF first THEN SecretHolds ELSE KeyHolds(s)
  <1>1. CASE holds
    <2>1. ~record.revoked
      BY <1>1 DEF SoundFor, SoundRecords, Sound, SecretHolds, KeyHolds
    <2>2. NewKey \in Keys
      BY BoxAssumption DEF SoundFor, NewKey, Keys
    <2>3. record' = rec /\ writes' = Save(s, rec)
      BY <1>1 DEF Authenticate
    <2> DEFINE secret == IF first THEN FALSE ELSE record.secret
               key == IF first THEN NewKey ELSE record.key
    <2>4. secret \in BOOLEAN /\ key \in Keys \cup {None}
      BY <2>2 DEF SoundFor, SoundRecords, Records
    <2>5. record.known /\ ~secret
      BY <1>1 DEF SoundFor, SoundRecords, Sound, SecretHolds, KeyHolds
    <2>6. rec = [record EXCEPT !.secret = secret, !.key = key, !.status = "online", !.ready = FALSE]
      OBVIOUS
    <2> HIDE DEF secret, key, first, rec
    <2>7. rec \in SoundRecords /\ ~rec.revoked /\ rec.status # "saved"
      <3>1. record \in Records
        BY DEF SoundFor, SoundRecords
      <3>2. /\ rec.known = record.known /\ rec.revoked = record.revoked
            /\ rec.secret = secret /\ rec.key = key /\ rec.status = "online"
        BY <2>6, <3>1 DEF Records
      <3>3. rec \in Records
        BY <2>4, <2>6, <3>1, RecordUpdated
      <3> QED
        BY <2>1, <2>5, <3>2, <3>3 DEF SoundRecords, Sound
    <2>8. writes' \in Seq([by : callers, rec : SoundRecords])
      BY <2>7, <2>3, SaveSound DEF SoundFor
    <2>9. UNCHANGED <<disk, faults>>
      BY DEF Authenticate
    <2> QED
      BY <2>7, <2>3, <2>8, <2>9 DEF SoundFor
  <1>2. CASE ~holds
    <2>1. UNCHANGED <<record, disk, writes, conn, faults>>
      BY <1>2 DEF Authenticate
    <2> QED
      BY <2>1 DEF SoundFor
  <1> QED
    BY <1>1, <1>2

LEMMA WriteSound ==
  ASSUME NEW callers, SoundFor(callers), WriteDone \/ WriteFails
  PROVE  SoundFor(callers)'
  <1>1. Head(writes).rec \in SoundRecords /\ Tail(writes) \in Seq([by : callers, rec : SoundRecords])
    BY ChainSound DEF SoundFor, WriteDone, WriteFails
  <1>2. disk' \in SoundRecords
    BY <1>1 DEF SoundFor, WriteDone, WriteFails
  <1>3. writes' = Tail(writes) /\ UNCHANGED <<record, conn>>
    BY DEF WriteDone, WriteFails
  <1>4. faults' \in 0..MaxFaults
    BY FaultCounted DEF SoundFor, WriteDone, WriteFails
  <1> QED
    BY <1>1, <1>2, <1>3, <1>4 DEF SoundFor

LEMMA HeartbeatSound ==
  ASSUME NEW callers, None \in callers, SoundFor(callers), HeartbeatSaves
  PROVE  SoundFor(callers)'
  <1>1. writes' \in Seq([by : callers, rec : SoundRecords])
    BY SaveSound DEF SoundFor, HeartbeatSaves
  <1> QED
    BY <1>1 DEF SoundFor, HeartbeatSaves

\* Only the current epoch's close makes a registration offline, and a revoked
\* registration has none.
LEMMA CloseSound ==
  ASSUME NEW callers, NEW s \in Sockets, SoundFor(callers), HubSeesClose(s)
  PROVE  SoundFor(callers)'
  <1> DEFINE current == socket[s].handler = "live" /\ conn = s
             offline == [record EXCEPT !.status = "offline"]
  <1>1. s # None
    BY DEF Sockets, None
  <1>2. UNCHANGED <<disk, writes, faults>>
    BY DEF HubSeesClose
  <1>3. CASE current
    <2>1. ~record.revoked
      BY <1>1, <1>3 DEF SoundFor
    <2>2. offline \in SoundRecords /\ ~offline.revoked /\ offline.status # "saved"
      BY <2>1 DEF SoundFor, SoundRecords, Records, Sound
    <2>3. record' = offline
      BY <1>3 DEF HubSeesClose
    <2> HIDE DEF offline
    <2> QED
      BY <1>2, <2>2, <2>3 DEF SoundFor
  <1>4. CASE ~current
    <2>1. record' = record /\ conn' = conn
      BY <1>4 DEF HubSeesClose
    <2> QED
      BY <1>2, <2>1 DEF SoundFor
  <1> QED
    BY <1>3, <1>4

LEMMA StatusSound ==
  ASSUME NEW callers, NEW s \in Sockets, SoundFor(callers), StatusArrives(s)
  PROVE  SoundFor(callers)'
  <1> DEFINE yes == record.ready \/ conn = s
             rec == [record EXCEPT !.ready = yes]
  <1>1. yes \in BOOLEAN
    OBVIOUS
  <1>2. record' = rec
    BY DEF StatusArrives
  <1> HIDE DEF yes
  <1>3. rec \in SoundRecords /\ rec.revoked = record.revoked /\ rec.status = record.status
    BY <1>1 DEF SoundFor, SoundRecords, Records, Sound
  <1> QED
    BY <1>2, <1>3 DEF SoundFor, StatusArrives

\* What is loaded after a crash is sound; it has no connection.
LEMMA CrashSound ==
  ASSUME NEW callers, SoundFor(callers), HubCrash
  PROVE  SoundFor(callers)'
  <1>1. record' \in SoundRecords /\ record'.status # "saved"
    BY LoadedSound DEF SoundFor, HubCrash
  <1>2. writes' \in Seq([by : callers, rec : SoundRecords])
    BY EmptySeq DEF HubCrash
  <1>3. faults' \in 0..MaxFaults
    BY FaultCounted DEF SoundFor, HubCrash
  <1> QED
    BY <1>1, <1>2, <1>3 DEF SoundFor, HubCrash

LEMMA HubNextSound ==
  ASSUME NEW callers, Sockets \cup {None} \subseteq callers, SoundFor(callers), HubNext
  PROVE  SoundFor(callers)'
  <1>1. CASE HeartbeatSaves
    BY <1>1, HeartbeatSound
  <1>2. CASE Dial \/ BootstrapExpires
    BY <1>2 DEF SoundFor, Dial, BootstrapExpires
  <1>3. ASSUME NEW s \in Sockets, Authenticate(s) PROVE SoundFor(callers)'
    BY <1>3, AuthenticateSound
  <1>4. ASSUME NEW s \in Sockets, HubSeesClose(s) PROVE SoundFor(callers)'
    BY <1>4, CloseSound
  <1>5. ASSUME NEW s \in Sockets, StatusArrives(s) PROVE SoundFor(callers)'
    BY <1>5, StatusSound
  <1>6. ASSUME NEW s \in Sockets, HelloArrives(s) \/ StreamEnds(s) PROVE SoundFor(callers)'
    BY <1>6 DEF SoundFor, HelloArrives, StreamEnds
  <1>7. ASSUME NEW s \in Sockets, FirstFrameTimeout(s) PROVE SoundFor(callers)'
    BY <1>7, FaultCounted DEF SoundFor, FirstFrameTimeout
  <1> QED
    BY <1>1, <1>2, <1>3, <1>4, <1>5, <1>6, <1>7 DEF HubNext

\* Nothing the box does touches what the hub keeps.
LEMMA AgentNextSound ==
  ASSUME NEW callers, SoundFor(callers), AgentNext
  PROVE  SoundFor(callers)'
  <1>1. UNCHANGED <<record, disk, writes, conn>>
    BY DEF AgentNext, VmStarts, VmStops, AgentStarts, Connect, WelcomeArrives, WelcomeTimesOut,
           StoreCredential, StoreFails, AgentEnds, AgentCrash, ReadinessReturns, BoxSeesClose, LinkCut
  <1>2. Fault \/ UNCHANGED faults
    BY DEF AgentNext, VmStarts, VmStops, AgentStarts, Connect, WelcomeArrives, WelcomeTimesOut,
           StoreCredential, StoreFails, AgentEnds, AgentCrash, ReadinessReturns, BoxSeesClose, LinkCut
  <1> QED
    BY <1>1, <1>2, FaultCounted DEF SoundFor

-----------------------------------------------------------------------------
(* The theorem *)

LEMMA InitSound ==
  ASSUME NEW callers, BoxInit
  PROVE  SoundFor(callers)
  <1>1. writes \in Seq([by : callers, rec : SoundRecords])
    BY EmptySeq DEF BoxInit
  <1> QED
    BY <1>1, FirstSound, BoxAssumption DEF BoxInit, SoundFor

LEMMA BoxNextSound ==
  ASSUME SoundFor(BoxCallers), [BoxNext]_boxVars
  PROVE  SoundFor(BoxCallers)'
  <1> DEFINE callers == BoxCallers
  <1>0. None \in callers /\ Sockets \cup {None} \subseteq callers
    BY DEF BoxCallers
  <1> HIDE DEF callers
  <1>s. SoundFor(callers)
    BY DEF callers
  <1>1. CASE HubNext
    BY <1>0, <1>1, <1>s, HubNextSound DEF callers
  <1>2. CASE AgentNext
    BY <1>2, <1>s, AgentNextSound DEF callers
  <1>3. CASE WriteDone \/ WriteFails
    BY <1>3, <1>s, WriteSound DEF callers
  <1>4. CASE HubCrash
    BY <1>4, <1>s, CrashSound DEF callers
  <1>5. CASE Prepare(None)
    BY <1>0, <1>5, <1>s, PrepareSound DEF callers
  <1>6. CASE Bind(None)
    BY <1>0, <1>6, <1>s, BindSound DEF callers
  <1>7. CASE Revoke(None)
    BY <1>0, <1>7, <1>s, RevokeSound DEF callers
  <1>8. CASE PowerOn
    BY <1>8, <1>s DEF callers, SoundFor, PowerOn
  <1>9. CASE PowerOff
    BY <1>9, <1>s, FaultCounted DEF callers, SoundFor, PowerOff
  <1>10. CASE UNCHANGED boxVars
    BY <1>10, <1>s DEF callers, SoundFor, boxVars
  <1> QED
    BY <1>1, <1>2, <1>3, <1>4, <1>5, <1>6, <1>7, <1>8, <1>9, <1>10 DEF BoxNext

LEMMA SoundIsDown ==
  ASSUME NEW callers, SoundFor(callers)
  PROVE  RevokedStaysDown
  BY DEF SoundFor, SoundRecords, Sound, RevokedStaysDown

\* A revoked registration is not online and has no connection, for any number of
\* sockets and any sequence of crashes, cuts, failed writes and late hellos.
THEOREM RevokedDown == BoxSpec => []RevokedStaysDown
  <1>1. BoxInit => SoundFor(BoxCallers)
    BY InitSound
  <1>2. SoundFor(BoxCallers) /\ [BoxNext]_boxVars => SoundFor(BoxCallers)'
    BY BoxNextSound
  <1>3. SoundFor(BoxCallers) => RevokedStaysDown
    BY SoundIsDown
  <1> QED
    BY <1>1, <1>2, <1>3, PTL DEF BoxSpec
=============================================================================
