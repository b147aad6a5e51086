----------------------- MODULE CanvasPersistenceProofs -----------------------
(***************************************************************************)
(* What CanvasPersistence keeps for every set of sessions and nodes and    *)
(* however many power losses: saves that got through last, and readers     *)
(* find the last of them.                                                  *)
(***************************************************************************)
EXTENDS CanvasPersistence, TLAPS

\* The lock: who is inside holds it, and is alone.
LockInv ==
  /\ \A s \in Session : at[s] \in Inside => dir["lock"] = Held
  /\ \A s, t \in Session : at[s] \in Inside /\ at[t] \in Inside => s = t

\* What is read and saved: a directory may always stay as it is; a save that is
\* under way is unsettled; only readers have an aim.
DraftInv ==
  /\ \A n \in Name : dir[n] \in disk[n]
  /\ \A s \in Session : at[s] \in Inside => draft[s] \in unsettled
  /\ \A s \in Session : aim[s] = "load" => at[s] \in Reading

\* The file, without a fault: whole, and the last graph or an unsettled one, which
\* is that of the session that published it; nobody takes it for damaged.
FileInv ==
  /\ \A f \in disk["primary"] : f \in {Absent, Whole(f.nodes)} /\ f.nodes \in {saved} \cup unsettled
  /\ \A s \in Session :
       /\ at[s] = "published" => dir["primary"] = Whole(draft[s])
       /\ at[s] = "synced" /\ ok[s] => disk["primary"] = {Whole(draft[s])}
       /\ at[s] = "found" => dir["primary"] # Absent
       /\ at[s] \notin {"unreadable", "moved"}
       /\ at[s] \in Reading => {saved} \cup unsettled \subseteq since[s]

IInv == TypeOK /\ LockInv /\ DraftInv /\ (faults = 0 => FileInv)

-----------------------------------------------------------------------------
\* The kinds of files differ, and a whole graph is what it was made of.
LEMMA Files ==
  /\ Absent \in File /\ Garbage \in File /\ Held \in File
  /\ \A g \in SUBSET Node : Whole(g) \in File
  /\ \A g : Whole(g) # Absent /\ Whole(g).nodes = g /\ Whole(g).safe /\ Whole(g).is = "graph"
  /\ Absent.nodes = {} /\ Absent.safe /\ Absent.is = "absent" /\ Absent # Held
<1>1. Absent \in File /\ Garbage \in File /\ Held \in File
  BY DEF File, Absent, Garbage, Held
<1>2. \A g \in SUBSET Node : Whole(g) \in File
  BY DEF File, Whole
<1>3. \A g : Whole(g).nodes = g /\ Whole(g).safe /\ Whole(g).is = "graph"
  BY DEF Whole
<1>4. Absent.nodes = {} /\ Absent.safe /\ Absent.is = "absent" /\ Held.is = "directory"
  BY DEF Absent, Held
<1>. QED  BY <1>1, <1>2, <1>3, <1>4

-----------------------------------------------------------------------------
\* The type holds at first.
LEMMA TypeInit == Init => TypeOK
  BY CanvasAssumption, Files DEF Init, TypeOK, Place, Name

\* The steps of a reader.
LEMMA TypeReader ==
  ASSUME TypeOK, NEW s \in Session,
         Start(s) \/ View(s) \/ Read(s) \/ Quarantine(s) \/ ReadBackup(s)
  PROVE  TypeOK'
<1>. USE DEF TypeOK, Go, files, save, store, history, budget, Place, Reading, Inside, Name
<1>0. ASSUME NEW why, NEW g \in SUBSET Node, NEW good \in BOOLEAN,
             Loaded(s, why, g, good)
      PROVE  /\ at' \in [Session -> Place] /\ mem' \in [Session -> SUBSET Node]
             /\ healthy' \in [Session -> BOOLEAN]
             /\ aim' \in [Session -> {"none", "load", "view"}]
             /\ since' \in [Session -> SUBSET SUBSET Node]
  BY <1>0 DEF Loaded
<1>1. ASSUME NEW why \in {"load", "view"}, Look(s, why)  PROVE TypeOK'
  <2>1. CASE dir["primary"] = Absent
    BY <1>0, <1>1, <2>1 DEF Look
  <2>2. CASE dir["primary"] # Absent
    <3>1. {saved} \cup unsettled \in SUBSET SUBSET Node
      OBVIOUS
    <3>. QED  BY <1>1, <2>2, <3>1 DEF Look
  <2>. QED  BY <2>1, <2>2
<1>6. ASSUME NEW why \in {"load", "view"}, LookFails(s, why)  PROVE TypeOK'
  <2>1. FALSE \in BOOLEAN /\ {} \in SUBSET Node
    OBVIOUS
  <2>2. Loaded(s, why, {}, FALSE)
    BY <1>6, Zenon DEF LookFails
  <2>3. /\ at' \in [Session -> Place] /\ mem' \in [Session -> SUBSET Node]
        /\ healthy' \in [Session -> BOOLEAN]
        /\ aim' \in [Session -> {"none", "load", "view"}]
        /\ since' \in [Session -> SUBSET SUBSET Node]
    BY <1>0, <2>1, <2>2, Zenon
  <2>4. faults' = faults + 1 /\ UNCHANGED <<files, save, recorded, used, saved, unsettled, losses>>
    BY <1>6, Zenon DEF LookFails
  <2>. QED  BY <2>3, <2>4
<1>2. CASE Start(s) \/ View(s)
  BY <1>1, <1>2, <1>6 DEF Start, View
<1>3. CASE Read(s)
  <2>1. dir["primary"].nodes \in SUBSET Node
    BY DEF File
  <2>2. CASE Loaded(s, aim[s], dir["primary"].nodes, TRUE) /\ UNCHANGED faults
    <3>1. /\ at' \in [Session -> Place] /\ mem' \in [Session -> SUBSET Node]
          /\ healthy' \in [Session -> BOOLEAN]
          /\ aim' \in [Session -> {"none", "load", "view"}]
          /\ since' \in [Session -> SUBSET SUBSET Node]
      BY <1>0, <2>1, <2>2, Zenon
    <3>. QED  BY <1>3, <2>2, <3>1 DEF Read
  <2>3. CASE Go(s, "unreadable") /\ UNCHANGED <<store, aim, since>>
    <3>1. UNCHANGED <<files, save, recorded, used, saved, unsettled, losses>>
      BY <1>3, Zenon DEF Read
    <3>2. faults' = faults \/ faults' = faults + 1
      BY <1>3, Zenon DEF Read
    <3>. QED  BY <2>3, <3>1, <3>2
  <2>. QED  BY <1>3, <2>2, <2>3 DEF Read
<1>4. CASE Quarantine(s)
  BY <1>4, Files DEF Quarantine
<1>5. CASE ReadBackup(s)
  <2>1. (IF dir["backup"].is = "graph" THEN dir["backup"].nodes ELSE {}) \in SUBSET Node
    BY DEF File
  <2>. QED  BY <1>0, <1>5, <2>1 DEF ReadBackup
<1>. QED  BY <1>2, <1>3, <1>4, <1>5

\* The steps of a save.
LEMMA TypeWriter ==
  ASSUME TypeOK, NEW s \in Session,
         \/ \E n \in Node : Record(s, n)
         \/ Backup(s) \/ Publish(s) \/ Sync(s) \/ Throw(s) \/ Unlock(s) \/ Return(s)
  PROVE  TypeOK'
<1>. USE DEF TypeOK, Go, files, save, store, history, budget, Place, Reading, Inside, Name
<1>1. CASE \E n \in Node : Record(s, n)
  <2>1. PICK n \in Node : Record(s, n)
    BY <1>1
  <2>2. CASE Acquire(s, mem[s] \cup {n})
    <3>1. mem[s] \cup {n} \in SUBSET Node
      OBVIOUS
    <3>3. Put("lock", Held) /\ Go(s, "locked") /\ UNCHANGED <<mem, aim, recorded, saved, budget, healthy>>
      BY <2>1, <2>2 DEF Record, Acquire
    <3>4. unsettled' \in SUBSET SUBSET Node /\ used' \in SUBSET Node
      BY <2>1, <2>2, <3>1 DEF Record, Acquire
    <3>5. since' \in [Session -> SUBSET SUBSET Node]
      <4>1. since' = [x \in Session |-> IF at[x] \in Reading THEN since[x] \cup {mem[s] \cup {n}} ELSE {}]
        BY <2>1, <2>2, Zenon DEF Record, Acquire
      <4>2. \A x \in Session : (IF at[x] \in Reading THEN since[x] \cup {mem[s] \cup {n}} ELSE {}) \in SUBSET SUBSET Node
        BY <3>1
      <4>. QED  BY <4>1, <4>2, Zenon
    <3>6. draft' \in [Session -> SUBSET Node] /\ prev' \in [Session -> File] /\ ok' \in [Session -> BOOLEAN]
      <4>1. draft' = [draft EXCEPT ![s] = mem[s] \cup {n}] /\ ok' = [ok EXCEPT ![s] = TRUE]
        BY <2>1, <2>2, Zenon DEF Record, Acquire
      <4>2. PICK found \in {dir["primary"], Absent} : prev' = [prev EXCEPT ![s] = found]
        BY <2>1, <2>2, Zenon DEF Record, Acquire
      <4>3. found \in File
        BY <4>2, Files
      <4>. QED  BY <3>1, <4>1, <4>2, <4>3
    <3>7. dir' \in [Name -> File] /\ disk' \in [Name -> SUBSET File]
      BY <3>3, Files DEF Put
    <3>. QED  BY <3>3, <3>4, <3>5, <3>6, <3>7
  <2>3. CASE LockFails(s)
    BY <2>1, <2>3 DEF Record, LockFails
  <2>. QED  BY <2>1, <2>2, <2>3 DEF Record
<1>2. CASE Backup(s)
  BY <1>2, Files DEF Backup, Replace, Put
<1>3. CASE Publish(s)
  BY <1>3, Files DEF Publish, Replace, Put
<1>4. CASE Sync(s)
  BY <1>4 DEF Sync, SyncDirectory
<1>5. CASE Throw(s)
  BY <1>5 DEF Throw
<1>6. ASSUME SaveOver(s)
      PROVE  /\ at' \in [Session -> Place] /\ draft' \in [Session -> SUBSET Node]
             /\ prev' \in [Session -> File] /\ ok' \in [Session -> BOOLEAN]
  BY <1>6, Files DEF SaveOver
<1>7. CASE Unlock(s)
  <2>1. CASE Put("lock", Absent) /\ Go(s, "unlocked") /\ UNCHANGED <<healthy, save>>
    <3>1. saved' \in SUBSET Node /\ unsettled' \in SUBSET SUBSET Node
      BY <1>7 DEF Unlock
    <3>2. dir' \in [Name -> File] /\ disk' \in [Name -> SUBSET File]
      BY <2>1, Files DEF Put
    <3>. QED  BY <1>7, <2>1, <3>1, <3>2 DEF Unlock
  <2>2. CASE Refused(s) /\ UNCHANGED <<files, saved, unsettled>>
    BY <1>6, <1>7, <2>2 DEF Unlock, Refused
  <2>. QED  BY <1>7, <2>1, <2>2 DEF Unlock
<1>8. CASE Return(s)
  <2>1. dir' \in [Name -> File] /\ disk' \in [Name -> SUBSET File]
    BY <1>8 DEF Return, SyncDirectory
  <2>2. mem' \in [Session -> SUBSET Node] /\ recorded' \in SUBSET Node
    BY <1>8 DEF Return
  <2>3. healthy' \in [Session -> BOOLEAN]
    BY <1>8 DEF Return, Refused
  <2>4. SaveOver(s)
    BY <1>8 DEF Return, Refused
  <2>. QED  BY <1>6, <1>8, <2>1, <2>2, <2>3, <2>4 DEF Return
<1>. QED  BY <1>1, <1>2, <1>3, <1>4, <1>5, <1>7, <1>8

\* What ends a session or disturbs it.
LEMMA TypeOutside ==
  ASSUME TypeOK, (\E s \in Session : Stop(s)) \/ PowerLoss \/ Damage
  PROVE  TypeOK'
<1>. USE DEF TypeOK, history, budget, Place, Reading, Inside, Name
<1>1. ASSUME NEW dead \in SUBSET Session, Down(dead)
      PROVE  /\ at' \in [Session -> Place] /\ mem' \in [Session -> SUBSET Node]
             /\ healthy' \in [Session -> BOOLEAN] /\ draft' \in [Session -> SUBSET Node]
             /\ prev' \in [Session -> File] /\ ok' \in [Session -> BOOLEAN]
             /\ aim' \in [Session -> {"none", "load", "view"}]
             /\ since' \in [Session -> SUBSET SUBSET Node]
             /\ UNCHANGED <<recorded, used, saved, unsettled>>
  BY <1>1, Files DEF Down
<1>2. CASE \E s \in Session : Stop(s)
  BY <1>1, <1>2 DEF Stop, files
<1>3. CASE PowerLoss
  <2>. Down(Session) /\ losses' \in Nat /\ faults' = faults
    BY <1>3 DEF PowerLoss
  <2>. dir' \in [Name -> File] /\ disk' \in [Name -> SUBSET File]
    BY <1>3, Files DEF PowerLoss
  <2>. QED  BY <1>1
<1>4. CASE Damage
  BY <1>4, Files DEF Damage, store, save
<1>. QED  BY <1>2, <1>3, <1>4

\* Every variable stays within its type.
THEOREM TypeCorrect == Spec => []TypeOK
<1>1. TypeOK /\ [Next]_vars => TypeOK'
  <2>. SUFFICES ASSUME TypeOK, [Next]_vars  PROVE TypeOK'
    OBVIOUS
  <2>1. CASE Next
    BY <2>1, TypeReader, TypeWriter, TypeOutside DEF Next
  <2>2. CASE UNCHANGED vars
    BY <2>2 DEF TypeOK, vars, files, save, store, history, budget
  <2>. QED  BY <2>1, <2>2
<1>. QED  BY <1>1, TypeInit, PTL DEF Spec

-----------------------------------------------------------------------------
\* A reader touches nothing that is saved, and ends where nobody is inside.
LEMMA Readers ==
  ASSUME TypeOK, NEW s \in Session, Start(s) \/ View(s) \/ Read(s) \/ ReadBackup(s)
  PROVE  /\ UNCHANGED <<dir, disk, draft, ok, saved, unsettled>>
         /\ \E p \in {"idle", "found", "unreadable"} : at' = [at EXCEPT ![s] = p]
<1>. USE DEF Go, files, save, Loaded
<1>1. CASE Start(s) \/ View(s)
  BY <1>1 DEF Start, View, Look, LookFails
<1>2. CASE Read(s)
  BY <1>2 DEF Read
<1>3. CASE ReadBackup(s)
  BY <1>3 DEF ReadBackup
<1>. QED  BY <1>1, <1>2, <1>3

\* What a session that is over with its save, and one that goes down, do to at.
LEMMA Downs ==
  ASSUME TypeOK, NEW dead \in SUBSET Session, Down(dead)
  PROVE  /\ \A t \in Session : at'[t] = IF t \in dead THEN "down" ELSE at[t]
         /\ \A t \in Session \ dead : UNCHANGED <<draft[t], ok[t], aim[t], since[t]>>
         /\ \A t \in dead : aim'[t] = "none"
         /\ UNCHANGED <<saved, unsettled>>
  BY DEF Down, TypeOK

-----------------------------------------------------------------------------
\* The lock is exclusive.
LEMMA LockStep == TypeOK /\ LockInv /\ Next => LockInv'
<1>. SUFFICES ASSUME TypeOK, LockInv, Next  PROVE LockInv'
  OBVIOUS
<1>. USE DEF TypeOK
<1>1. ASSUME \A t \in Session : at'[t] \in Inside => at[t] \in Inside, dir'["lock"] = dir["lock"]
      PROVE  LockInv'
  BY <1>1 DEF LockInv
<1>2. ASSUME NEW s \in Session, NEW p, at' = [at EXCEPT ![s] = p], p \notin Inside \/ at[s] \in Inside,
             dir'["lock"] = dir["lock"]
      PROVE  LockInv'
  BY <1>1, <1>2
<1>3. ASSUME NEW s \in Session, Start(s) \/ View(s) \/ Read(s) \/ ReadBackup(s)  PROVE LockInv'
  BY <1>2, <1>3, Readers DEF Inside
<1>4. ASSUME NEW s \in Session, Quarantine(s)  PROVE LockInv'
  BY <1>2, <1>4 DEF Quarantine, Go, files, Inside, Name
<1>5. ASSUME NEW s \in Session, NEW n \in Node, Record(s, n)  PROVE LockInv'
  <2>1. CASE Acquire(s, mem[s] \cup {n})
    <3>1. \A t \in Session : at[t] \notin Inside
      BY <2>1, Files DEF Acquire, LockInv
    <3>2. at' = [at EXCEPT ![s] = "locked"] /\ dir' = [dir EXCEPT !["lock"] = Held]
      BY <1>5, <2>1, Zenon DEF Record, Acquire, Put, Go
    <3>. QED  BY <3>1, <3>2 DEF LockInv, Name
  <2>2. CASE LockFails(s)
    BY <1>1, <2>2 DEF LockFails, files
  <2>. QED  BY <1>5, <2>1, <2>2 DEF Record
<1>6. ASSUME NEW s \in Session, Backup(s) \/ Publish(s)  PROVE LockInv'
  BY <1>2, <1>6 DEF Backup, Publish, Replace, Put, Go, Inside, Name
<1>7. ASSUME NEW s \in Session, Sync(s) \/ Throw(s)  PROVE LockInv'
  BY <1>2, <1>7 DEF Sync, SyncDirectory, Throw, Go, files, Inside
<1>8. ASSUME NEW s \in Session, Unlock(s)  PROVE LockInv'
  <2>1. \E p \in {"idle", "unlocked"} : at' = [at EXCEPT ![s] = p]
    BY <1>8 DEF Unlock, Refused, SaveOver, Go
  <2>2. \A t \in Session : at'[t] \notin Inside
    BY <1>8, <2>1 DEF Unlock, LockInv, Inside
  <2>. QED  BY <2>2 DEF LockInv
<1>9. ASSUME NEW s \in Session, Return(s)  PROVE LockInv'
  BY <1>2, <1>9 DEF Return, SyncDirectory, Refused, SaveOver, Go, files, Inside
<1>10. ASSUME NEW s \in Session, Stop(s)  PROVE LockInv'
  BY <1>1, <1>10, Downs DEF Stop, files, Inside
<1>11. CASE PowerLoss
  BY <1>11, Downs DEF PowerLoss, LockInv, Inside
<1>12. CASE Damage
  BY <1>1, <1>12 DEF Damage, Name
<1>. QED  BY <1>3, <1>4, <1>5, <1>6, <1>7, <1>8, <1>9, <1>10, <1>11, <1>12 DEF Next

\* The directory may stay as it is, and a save that is under way is unsettled.
LEMMA DraftStep == TypeOK /\ LockInv /\ DraftInv /\ Next => DraftInv'
<1>. SUFFICES ASSUME TypeOK, LockInv, DraftInv, Next  PROVE DraftInv'
  OBVIOUS
<1>. USE DEF TypeOK
<1>1. ASSUME NEW name \in Name, NEW f, Put(name, f)  PROVE \A n \in Name : dir'[n] \in disk'[n]
  BY <1>1 DEF Put, DraftInv
<1>2. ASSUME SyncDirectory  PROVE \A n \in Name : dir'[n] \in disk'[n]
  BY <1>2 DEF SyncDirectory
<1>3. ASSUME UNCHANGED files  PROVE \A n \in Name : dir'[n] \in disk'[n]
  BY <1>3 DEF DraftInv, files
\* The part of the second and third conjunct that a save leaves alone.
<1>4. ASSUME NEW s \in Session, NEW p, at' = [at EXCEPT ![s] = p],
             p \notin Inside \/ at[s] \in Inside, at[s] \notin Reading,
             UNCHANGED <<draft, aim, unsettled>>
      PROVE  /\ \A t \in Session : at'[t] \in Inside => draft'[t] \in unsettled'
             /\ \A t \in Session : aim'[t] = "load" => at'[t] \in Reading
  BY <1>4 DEF DraftInv
<1>5. ASSUME NEW s \in Session, NEW why, Look(s, why) \/ LookFails(s, why)  PROVE DraftInv'
  BY <1>3, <1>5 DEF Look, LookFails, Loaded, Go, files, save, DraftInv, Inside, Reading
<1>6. ASSUME NEW s \in Session, Read(s) \/ ReadBackup(s)  PROVE DraftInv'
  BY <1>3, <1>6 DEF Read, ReadBackup, Loaded, Go, files, save, DraftInv, Inside, Reading
<1>7. ASSUME NEW s \in Session, Quarantine(s)  PROVE DraftInv'
  <2>1. \A n \in Name : dir'[n] \in disk'[n]
    BY <1>3, <1>7 DEF Quarantine, DraftInv
  <2>. QED  BY <1>7, <2>1 DEF Quarantine, Go, save, history, DraftInv, Inside, Reading
<1>8. ASSUME NEW s \in Session, NEW n \in Node, Record(s, n)  PROVE DraftInv'
  <2>1. CASE Acquire(s, mem[s] \cup {n})
    <3>1. \A m \in Name : dir'[m] \in disk'[m]
      <4>. "lock" \in Name
        BY DEF Name
      <4>. QED  BY <1>1, <1>8, <2>1 DEF Record, Acquire
    <3>2. /\ at' = [at EXCEPT ![s] = "locked"]
          /\ draft' = [draft EXCEPT ![s] = mem[s] \cup {n}]
          /\ unsettled' = unsettled \cup {mem[s] \cup {n}}
          /\ aim' = aim /\ at[s] = "idle"
      BY <1>8, <2>1, Zenon DEF Record, Acquire, Go
    <3>. QED  BY <3>1, <3>2 DEF DraftInv, Inside, Reading
  <2>2. CASE LockFails(s)
    BY <1>3, <1>8, <2>2 DEF Record, LockFails, save, DraftInv
  <2>. QED  BY <1>8, <2>1, <2>2 DEF Record
<1>9. ASSUME NEW s \in Session, Backup(s) \/ Publish(s)  PROVE DraftInv'
  <2>1. \A n \in Name : dir'[n] \in disk'[n]
    BY <1>1, <1>9 DEF Backup, Publish, Replace, Name
  <2>. QED  BY <1>4, <1>9, <2>1 DEF Backup, Publish, Go, save, history, DraftInv, Inside, Reading
<1>10. ASSUME NEW s \in Session, Sync(s) \/ Throw(s)  PROVE DraftInv'
  <2>1. \A n \in Name : dir'[n] \in disk'[n]
    BY <1>2, <1>3, <1>10 DEF Sync, Throw
  <2>. QED  BY <1>4, <1>10, <2>1 DEF Sync, Throw, Go, save, history, DraftInv, Inside, Reading
<1>11. ASSUME NEW s \in Session, Unlock(s)  PROVE DraftInv'
  <2>1. \A n \in Name : dir'[n] \in disk'[n]
    BY <1>1, <1>3, <1>11 DEF Unlock, Name
  <2>2. \E p \in {"idle", "unlocked"} : at' = [at EXCEPT ![s] = p]
    BY <1>11 DEF Unlock, Refused, SaveOver, Go
  <2>3. \A t \in Session : at'[t] \notin Inside
    BY <1>11, <2>2 DEF Unlock, LockInv, Inside
  <2>4. aim' = aim /\ at[s] \notin Reading
    BY <1>11 DEF Unlock, Reading
  <2>. QED  BY <2>1, <2>2, <2>3, <2>4 DEF DraftInv
<1>12. ASSUME NEW s \in Session, Return(s)  PROVE DraftInv'
  <2>1. \A n \in Name : dir'[n] \in disk'[n]
    BY <1>2, <1>3, <1>12 DEF Return
  <2>2. at' = [at EXCEPT ![s] = "idle"] /\ draft' = [draft EXCEPT ![s] = {}]
    BY <1>12 DEF Return, Refused, SaveOver, Go
  <2>. QED  BY <1>12, <2>1, <2>2 DEF Return, DraftInv, Inside, Reading
<1>13. ASSUME NEW s \in Session, Stop(s)  PROVE DraftInv'
  BY <1>3, <1>13, Downs DEF Stop, DraftInv, Inside
<1>14. CASE PowerLoss
  <2>1. \A n \in Name : dir'[n] \in disk'[n]
    BY <1>14 DEF PowerLoss
  <2>. QED  BY <1>14, <2>1, Downs DEF PowerLoss, DraftInv, Inside
<1>15. CASE Damage
  <2>1. \A n \in Name : dir'[n] \in disk'[n]
    BY <1>15 DEF Damage, DraftInv
  <2>. QED  BY <1>15, <2>1 DEF Damage, save, history, DraftInv
<1>. QED  BY <1>5, <1>6, <1>7, <1>8, <1>9, <1>10, <1>11, <1>12, <1>13, <1>14, <1>15
          DEF Next, Start, View

\* Without a fault the file is never damaged nor out of date.
LEMMA FileStep == TypeOK /\ LockInv /\ DraftInv /\ FileInv /\ Next /\ faults' = 0 => FileInv'
<1>. SUFFICES ASSUME TypeOK, LockInv, DraftInv, FileInv, Next, faults' = 0  PROVE FileInv'
  OBVIOUS
<1>. USE DEF TypeOK
<1>0. /\ \A f \in disk["primary"] : f.safe /\ f.is # "garbage" /\ f # Held
      /\ dir["primary"] \in disk["primary"]
      /\ dir["primary"] # Absent => dir["primary"].is = "graph"
      /\ dir["primary"].nodes \in {saved} \cup unsettled
  <2>1. dir["primary"] \in disk["primary"]
    BY DEF DraftInv, Name
  <2>2. ASSUME NEW f \in disk["primary"]
        PROVE  f.safe /\ f.is # "garbage" /\ f # Held /\ (f # Absent => f.is = "graph")
    <3>1. CASE f = Absent
      BY <3>1, Files
    <3>2. CASE f = Whole(f.nodes)
      <4>1. Whole(f.nodes).safe /\ Whole(f.nodes).is = "graph"
        BY Files
      <4>2. f.safe /\ f.is = "graph"
        BY <3>2, <4>1
      <4>. QED  BY <4>2 DEF Held
    <3>. QED  BY <3>1, <3>2 DEF FileInv
  <2>. QED  BY <2>1, <2>2 DEF FileInv
<1>1. ASSUME NEW s \in Session, NEW why, Look(s, why) \/ LookFails(s, why)  PROVE FileInv'
  BY <1>1 DEF Look, LookFails, Loaded, Go, files, save, FileInv, Reading
<1>2. ASSUME NEW s \in Session, Read(s)  PROVE FileInv'
  <2>1. dir["primary"].is = "graph" /\ faults' # faults + 1
    BY <1>0, <1>2 DEF Read, FileInv
  <2>2. Loaded(s, aim[s], dir["primary"].nodes, TRUE)
    BY <1>2, <2>1, Zenon DEF Read
  <2>3. /\ at' = [at EXCEPT ![s] = "idle"]
        /\ since' = [since EXCEPT ![s] = {}]
        /\ UNCHANGED <<files, save, saved, unsettled>>
    BY <1>2, <2>2, Zenon DEF Read, Loaded, Go
  <2>. QED  BY <2>3 DEF files, save, FileInv, Reading
<1>3. ASSUME NEW s \in Session, Quarantine(s) \/ ReadBackup(s)  PROVE FALSE
  BY <1>3 DEF Quarantine, ReadBackup, FileInv
<1>4. ASSUME NEW s \in Session, NEW n \in Node, Record(s, n)  PROVE FileInv'
  <2>1. CASE Acquire(s, mem[s] \cup {n})
    <3>1. /\ at' = [at EXCEPT ![s] = "locked"]
          /\ draft' = [draft EXCEPT ![s] = mem[s] \cup {n}]
          /\ ok' = [ok EXCEPT ![s] = TRUE]
          /\ unsettled' = unsettled \cup {mem[s] \cup {n}}
          /\ since' = [x \in Session |-> IF at[x] \in Reading THEN since[x] \cup {mem[s] \cup {n}} ELSE {}]
          /\ saved' = saved /\ at[s] = "idle"
      BY <1>4, <2>1, Zenon DEF Record, Acquire, Go
    <3>2. dir'["primary"] = dir["primary"] /\ disk'["primary"] = disk["primary"]
      BY <1>4, <2>1 DEF Record, Acquire, Put, Name
    <3>3. \A t \in Session : at[t] \notin Inside
      BY <2>1, Files DEF Acquire, LockInv
    <3>. QED  BY <3>1, <3>2, <3>3 DEF FileInv, Inside, Reading
  <2>2. CASE LockFails(s)
    BY <1>4, <2>2 DEF Record, LockFails, files, save, FileInv
  <2>. QED  BY <1>4, <2>1, <2>2 DEF Record
<1>5. ASSUME NEW s \in Session, Backup(s)  PROVE FileInv'
  <2>1. dir'["primary"] = dir["primary"] /\ disk'["primary"] = disk["primary"]
    BY <1>5 DEF Backup, Replace, Put, Name
  <2>. QED  BY <1>5, <2>1 DEF Backup, Go, save, history, FileInv, Reading
<1>6. ASSUME NEW s \in Session, Publish(s)  PROVE FileInv'
  <2>1. /\ dir'["primary"] = Whole(draft[s])
        /\ disk'["primary"] = disk["primary"] \cup {Whole(draft[s])}
    BY <1>6 DEF Publish, Replace, Put, Name
  <2>2. draft[s] \in unsettled /\ at[s] \in Inside
    BY <1>6 DEF Publish, DraftInv, Inside
  <2>3. \A t \in Session : t # s => at[t] \notin Inside
    BY <2>2 DEF LockInv
  <2>4. /\ at' = [at EXCEPT ![s] = "published"] /\ at[s] = "kept"
        /\ UNCHANGED <<draft, ok, saved, unsettled, since>>
    BY <1>6 DEF Publish, Go, save, history
  <2>5. \A f \in disk'["primary"] : f \in {Absent, Whole(f.nodes)} /\ f.nodes \in {saved} \cup unsettled
    BY <2>1, <2>2, Files DEF FileInv
  <2>. QED  BY <2>1, <2>3, <2>4, <2>5, Files DEF FileInv, Inside, Reading
<1>7. ASSUME NEW s \in Session, Sync(s)  PROVE FileInv'
  <2>1. dir' = dir /\ disk'["primary"] = {dir["primary"]}
    BY <1>7 DEF Sync, SyncDirectory, Name
  <2>2. at[s] \in Inside
    BY <1>7 DEF Sync, Inside
  <2>3. \A t \in Session : t # s => at[t] \notin Inside
    BY <2>2 DEF LockInv
  <2>4. /\ at' = [at EXCEPT ![s] = IF at[s] = "backed" THEN "kept" ELSE "synced"]
        /\ at[s] \in {"backed", "published"}
        /\ UNCHANGED <<draft, ok, saved, unsettled, since>>
    BY <1>7 DEF Sync, Go, save, history
  <2>. QED  BY <1>0, <2>1, <2>3, <2>4 DEF FileInv, Inside, Reading
<1>8. ASSUME NEW s \in Session, Throw(s)  PROVE FileInv'
  BY <1>8 DEF Throw, Go, files, history, FileInv, Inside, Reading
<1>9. ASSUME NEW s \in Session, Unlock(s)  PROVE FileInv'
  <2>1. dir'["primary"] = dir["primary"] /\ disk'["primary"] = disk["primary"]
    BY <1>9 DEF Unlock, Put, files, Name
  <2>2. \E p \in {"idle", "unlocked"} : at' = [at EXCEPT ![s] = p]
    BY <1>9 DEF Unlock, Refused, SaveOver, Go
  <2>3. at[s] = "synced" /\ draft[s] \in unsettled /\ since' = since
    BY <1>9 DEF Unlock, DraftInv, Inside
  <2>4. \A t \in Session : at'[t] \notin Inside
    BY <2>2, <2>3 DEF LockInv, Inside
  <2>5. CASE saved' = draft[s] /\ unsettled' = {} /\ ok[s]
    <3>1. disk["primary"] = {Whole(draft[s])}
      BY <2>3, <2>5 DEF FileInv
    <3>. QED  BY <2>1, <2>2, <2>3, <2>4, <2>5, <3>1, Files DEF FileInv, Inside, Reading
  <2>6. CASE UNCHANGED <<saved, unsettled>>
    BY <2>1, <2>2, <2>3, <2>4, <2>6 DEF FileInv, Inside, Reading
  <2>. QED  BY <1>9, <2>5, <2>6 DEF Unlock
<1>10. ASSUME NEW s \in Session, Return(s)  PROVE FileInv'
  <2>1. dir' = dir /\ disk'["primary"] \in {disk["primary"], {dir["primary"]}}
    BY <1>10 DEF Return, SyncDirectory, files, Name
  <2>2. SaveOver(s) /\ at[s] = "unlocked" /\ UNCHANGED <<saved, unsettled, since>>
    BY <1>10 DEF Return, Refused
  <2>3. \A t \in Session \ {s} : UNCHANGED <<at[t], draft[t], ok[t]>>
    BY <2>2 DEF SaveOver, Go
  <2>4. at'[s] = "idle"
    BY <2>2 DEF SaveOver, Go
  <2>5. \A t \in Session : at[t] = "synced" /\ ok[t] => disk'["primary"] = {Whole(draft[t])}
    BY <1>0, <2>1 DEF FileInv
  <2>. QED  BY <1>0, <2>1, <2>2, <2>3, <2>4, <2>5 DEF FileInv, Reading
<1>11. ASSUME NEW s \in Session, Stop(s)  PROVE FileInv'
  BY <1>11, Downs DEF Stop, files, FileInv, Reading
<1>12. CASE PowerLoss
  <2>1. dir'["primary"] \in disk["primary"]
    BY <1>0, <1>12 DEF PowerLoss, Name
  <2>2. disk'["primary"] = {dir'["primary"]}
    BY <1>12 DEF PowerLoss, Name
  <2>. QED  BY <1>12, <2>1, <2>2, Downs DEF PowerLoss, FileInv, Reading
<1>13. CASE Damage
  BY <1>13 DEF Damage
<1>. QED  BY <1>1, <1>2, <1>3, <1>4, <1>5, <1>6, <1>7, <1>8, <1>9, <1>10, <1>11, <1>12, <1>13
          DEF Next, Start, View

-----------------------------------------------------------------------------
\* Faults are counted and never forgotten.
LEMMA FaultsGrow == TypeOK /\ Next /\ faults' = 0 => faults = 0
<1>. SUFFICES ASSUME TypeOK, Next, faults' = 0  PROVE faults = 0
  OBVIOUS
<1>1. faults' = faults \/ faults' = faults + 1
  BY Zenon DEF Next, Start, View, Look, LookFails, Read, Quarantine, ReadBackup, Record, Backup, Publish, Sync,
               Throw, Unlock, Return, Stop, PowerLoss, Damage, budget
<1>. QED  BY <1>1 DEF TypeOK

\* The inductive invariant holds.
LEMMA Inductive == Spec => []IInv
<1>1. Init => IInv
  <2>. SUFFICES ASSUME Init  PROVE IInv
    OBVIOUS
  <2>1. LockInv /\ DraftInv
    BY DEF Init, LockInv, DraftInv, Inside
  <2>2. FileInv
    BY Files DEF Init, FileInv, Reading, Name
  <2>. QED  BY <2>1, <2>2, TypeInit DEF IInv
<1>2. IInv /\ [Next]_vars => IInv'
  <2>. SUFFICES ASSUME IInv, [Next]_vars  PROVE IInv'
    OBVIOUS
  <2>1. CASE Next
    <3>1. TypeOK'
      BY <2>1, TypeReader, TypeWriter, TypeOutside DEF Next, IInv
    <3>2. LockInv' /\ DraftInv'
      BY <2>1, LockStep, DraftStep DEF IInv
    <3>3. (faults = 0 => FileInv)'
      BY <2>1, FileStep, FaultsGrow DEF IInv
    <3>. QED  BY <3>1, <3>2, <3>3 DEF IInv
  <2>2. CASE UNCHANGED vars
    BY <2>2 DEF IInv, TypeOK, LockInv, DraftInv, FileInv, vars, files, save, store, history, budget
  <2>. QED  BY <2>1, <2>2
<1>. QED  BY <1>1, <1>2, PTL DEF Spec

\* Whatever a power loss leaves, the file is whole and is the graph of the last
\* save that got through, or of one that began later and did not.
THEOREM Durable == Spec => []SavesDurable
<1>1. IInv => SavesDurable
  <2>. SUFFICES ASSUME IInv, faults = 0, NEW f \in disk["primary"]
                PROVE  f.safe /\ f.is # "garbage" /\ f.nodes \in {saved} \cup unsettled
    BY DEF SavesDurable
  <2>1. f \in {Absent, Whole(f.nodes)} /\ f.nodes \in {saved} \cup unsettled
    BY DEF IInv, FileInv
  <2>2. Absent.safe /\ Absent.is # "garbage"
    BY Files
  <2>3. Whole(f.nodes).safe /\ Whole(f.nodes).is # "garbage"
    BY Files
  <2>. QED  BY <2>1, <2>2, <2>3
<1>. QED  BY <1>1, Inductive, PTL

\* A step moves one session, unless the power fails or the file is damaged.
LEMMA OneMoves ==
  ASSUME TypeOK, NEW t \in Session,
         \/ Start(t) \/ View(t) \/ Read(t) \/ Quarantine(t) \/ ReadBackup(t)
         \/ \E n \in Node : Record(t, n)
         \/ Backup(t) \/ Publish(t) \/ Sync(t) \/ Throw(t) \/ Unlock(t) \/ Return(t)
         \/ Stop(t)
  PROVE  \A s \in Session \ {t} : at'[s] = at[s]
<1>. USE DEF TypeOK
<1>1. CASE Start(t) \/ View(t) \/ Read(t) \/ ReadBackup(t)
  BY <1>1, Readers
<1>2. CASE \E n \in Node : Record(t, n)
  BY <1>2 DEF Record, Acquire, LockFails, Go, files
<1>3. CASE Quarantine(t) \/ Backup(t) \/ Publish(t) \/ Sync(t) \/ Throw(t)
  BY <1>3 DEF Quarantine, Backup, Publish, Sync, Throw, Go
<1>4. CASE Unlock(t) \/ Return(t)
  BY <1>4 DEF Unlock, Return, Refused, SaveOver, Go
<1>5. CASE Stop(t)
  BY <1>5, Downs DEF Stop
<1>. QED  BY <1>1, <1>2, <1>3, <1>4, <1>5

\* A session loads the last graph, or one that was being saved, and is healthy.
THEOREM Latest == Spec => LoadsLatest
<1>1. ASSUME IInv, Next, NEW s \in Session,
             at[s] = "down" \/ aim[s] = "load", at'[s] = "idle", faults' = 0
      PROVE  mem'[s] \in Found(s) /\ healthy'[s]
  <2>1. TypeOK /\ FileInv /\ at[s] \in Reading \cup {"down"}
    BY <1>1, FaultsGrow DEF IInv, DraftInv
  <2>2. dir["primary"] \in disk["primary"] /\ dir["primary"].nodes \in {saved} \cup unsettled
    BY <1>1, <2>1 DEF IInv, DraftInv, FileInv, Name
  <2>3. CASE Start(s)
    <3>1. dir["primary"] = Absent /\ Loaded(s, "load", {}, TRUE)
      <4>1. faults \in Nat /\ faults' # faults + 1
        BY <1>1 DEF IInv, TypeOK
      <4>2. Look(s, "load")
        BY <2>3, <4>1, Zenon DEF Start, LookFails
      <4>. QED  BY <1>1, <2>1, <4>2 DEF Look, Go, TypeOK
    <3>2. mem'[s] = {} /\ healthy'[s] /\ at[s] = "down"
      BY <2>1, <2>3, <3>1 DEF Start, Loaded, TypeOK
    <3>. QED  BY <2>2, <3>1, <3>2, Files DEF Found
  <2>4. CASE Read(s)
    <3>1. at[s] = "found" /\ aim[s] = "load"
      BY <1>1, <2>4 DEF Read
    <3>2. Loaded(s, "load", dir["primary"].nodes, TRUE)
      BY <1>1, <2>1, <2>4, <3>1 DEF Read, Go, TypeOK
    <3>3. mem'[s] = dir["primary"].nodes /\ healthy'[s]
      BY <2>1, <3>2 DEF Loaded, TypeOK
    <3>4. {saved} \cup unsettled \subseteq since[s]
      BY <2>1, <3>1 DEF FileInv, Reading
    <3>. QED  BY <2>2, <3>1, <3>3, <3>4 DEF Found
  <2>5. ~(View(s) \/ Quarantine(s) \/ ReadBackup(s) \/ Stop(s) \/ PowerLoss \/ Damage)
    <3>1. ~(View(s) \/ Damage)
      BY <1>1, <2>1 DEF View, Damage, Reading
    <3>2. ~(Quarantine(s) \/ ReadBackup(s))
      BY <2>1 DEF Quarantine, ReadBackup, FileInv
    <3>3. ~(Stop(s) \/ PowerLoss)
      BY <1>1, <2>1, Downs DEF Stop, PowerLoss
    <3>. QED  BY <3>1, <3>2, <3>3
  <2>6. /\ ~(Backup(s) \/ Publish(s) \/ Sync(s) \/ Throw(s) \/ Unlock(s) \/ Return(s))
        /\ \A n \in Node : ~Record(s, n)
    BY <2>1 DEF Backup, Publish, Sync, Throw, Unlock, Return, Record, Inside, Reading
  <2>7. at'[s] # at[s]
    BY <1>1, <2>1 DEF Reading
  <2>. QED  BY <1>1, <2>1, <2>3, <2>4, <2>5, <2>6, <2>7, OneMoves DEF Next
<1>2. ASSUME IInv, UNCHANGED vars, NEW s \in Session,
             at[s] = "down" \/ aim[s] = "load", at'[s] = "idle"
      PROVE  FALSE
  BY <1>2 DEF vars, IInv, DraftInv, Reading
<1>3. IInv /\ [Next]_vars =>
        [\A s \in Session :
           (at[s] = "down" \/ aim[s] = "load") /\ at'[s] = "idle" /\ faults' = 0
             => mem'[s] \in Found(s) /\ healthy'[s]]_vars
  BY <1>1, <1>2
<1>. QED  BY <1>3, Inductive, PTL DEF Spec, LoadsLatest
=============================================================================
