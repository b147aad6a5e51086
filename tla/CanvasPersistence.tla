-------------------------- MODULE CanvasPersistence --------------------------
(***************************************************************************)
(* The canvas graph of a project and the file it survives in: readSafeJson *)
(* and writeSafeJson, and the store of a session that loads the graph when *)
(* it starts and saves all of it with every node it records.               *)
(*                                                                         *)
(* A step is a system call, or several that nobody else can tell apart.    *)
(* Sessions die between any two of them.  A power loss takes all sessions  *)
(* and lets every name of the directory be any file it was since the last  *)
(* fsync of the directory.  A fault is a damaged file, or an lstat, a read *)
(* or the rename of a quarantine that fails (EIO, EMFILE): a file that     *)
(* does not parse is the same to the code as one it cannot read.  Left out *)
(* are symbolic links, the schema of the graph, edges (each is saved like  *)
(* a node), the temporary files that are left behind, and what the harness *)
(* makes of the graph it looks at.                                         *)
(***************************************************************************)
EXTENDS Naturals, FiniteSets

CONSTANTS
  Session,    \* processes of one project
  Node,       \* the nodes that may be recorded
  MaxFaults,  \* bound: files damaged and calls of a reader that fail
  MaxLosses   \* bound: power losses

ASSUME CanvasAssumption == MaxFaults \in Nat /\ MaxLosses \in Nat

VARIABLES
  dir,        \* what every name of the directory is
  disk,       \* what it may be after a power loss
  at,         \* where a session is
  mem,        \* the graph in the memory of a session
  healthy,    \* whether it says that its canvas is healthy
  draft,      \* the graph it saves
  prev,       \* the file it found when it began to save
  ok,         \* whether nothing failed in this save
  aim,        \* why it reads: "load" at its start, "view" for the harness
  recorded,   \* history: the nodes that were reported as recorded
  used,       \* history: the nodes somebody tried to record
  saved,      \* history: the last graph whose save got through
  unsettled,  \* history: the graphs whose save began after that
  since,      \* history: what a session that reads may find
  faults,     \* faults so far
  losses      \* power losses so far

files == <<dir, disk>>
store == <<mem, healthy>>
save == <<draft, prev, ok>>
history == <<recorded, used, saved, unsettled, since>>
budget == <<faults, losses>>
vars == <<files, at, store, save, aim, history, budget>>

Name == {"primary", "backup", "lock"}

\* A file: whether its content is on the disk as well as in the cache (safe).
File == [is : {"absent", "graph", "garbage", "directory"}, nodes : SUBSET Node, safe : BOOLEAN]
Absent == [is |-> "absent", nodes |-> {}, safe |-> TRUE]
Garbage == [is |-> "garbage", nodes |-> {}, safe |-> TRUE]
Held == [is |-> "directory", nodes |-> {}, safe |-> TRUE]
Whole(graph) == [is |-> "graph", nodes |-> graph, safe |-> TRUE]

Reading == {"found", "unreadable", "moved"}
Inside == {"locked", "backed", "kept", "published", "synced"}
Place == {"down", "idle", "unlocked"} \cup Reading \cup Inside

Init ==
  /\ dir = [n \in Name |-> Absent]
  /\ disk = [n \in Name |-> {Absent}]
  /\ at = [s \in Session |-> "down"]
  /\ mem = [s \in Session |-> {}]
  /\ healthy = [s \in Session |-> TRUE]
  /\ draft = [s \in Session |-> {}]
  /\ prev = [s \in Session |-> Absent]
  /\ ok = [s \in Session |-> TRUE]
  /\ aim = [s \in Session |-> "none"]
  /\ recorded = {} /\ used = {} /\ saved = {} /\ unsettled = {}
  /\ since = [s \in Session |-> {}]
  /\ faults = 0 /\ losses = 0

-----------------------------------------------------------------------------
\* The directory: a name becomes file f, which an fsync makes last.
Put(name, f) ==
  /\ dir' = [dir EXCEPT ![name] = f]
  /\ disk' = [disk EXCEPT ![name] = @ \cup {f}]
SyncDirectory ==
  /\ disk' = [n \in Name |-> {dir[n]}]
  /\ UNCHANGED dir

Go(s, place) == at' = [at EXCEPT ![s] = place]

\* Mutant: the temporary file is renamed without an fsync of its content.
MutReplace(name, f) == Put(name, [f EXCEPT !.safe = FALSE])

\* atomicReplace up to the rename: a temporary file is written and synced first.
Replace(name, f) == Put(name, f)

-----------------------------------------------------------------------------
\* readSafeJson, with the backup: what a session gets, and whether it is healthy.
Loaded(s, why, graph, good) ==
  /\ Go(s, "idle")
  /\ aim' = [aim EXCEPT ![s] = "none"]
  /\ since' = [since EXCEPT ![s] = {}]
  /\ IF why = "load"
     THEN /\ mem' = [mem EXCEPT ![s] = graph]
          /\ healthy' = [healthy EXCEPT ![s] = good]
     ELSE UNCHANGED store

\* lstat: no file is no graph, which is healthy.
Look(s, why) ==
  /\ UNCHANGED <<files, save, recorded, used, saved, unsettled, budget>>
  /\ IF dir["primary"] = Absent
     THEN Loaded(s, why, {}, TRUE)
     ELSE /\ Go(s, "found")
          /\ aim' = [aim EXCEPT ![s] = why]
          /\ since' = [since EXCEPT ![s] = {saved} \cup unsettled]
          /\ UNCHANGED store

\* It fails: the file is taken for damaged, and is left where it is.
LookFails(s, why) ==
  /\ faults < MaxFaults
  /\ faults' = faults + 1
  /\ Loaded(s, why, {}, FALSE)
  /\ UNCHANGED <<files, save, recorded, used, saved, unsettled, losses>>

\* The store of a new session, and the harness of one that runs.
Start(s) == at[s] = "down" /\ (Look(s, "load") \/ LookFails(s, "load"))
View(s) == at[s] = "idle" /\ (Look(s, "view") \/ LookFails(s, "view"))

Read(s) ==
  /\ at[s] = "found"
  /\ UNCHANGED <<files, save, recorded, used, saved, unsettled, losses>>
  /\ \/ /\ dir["primary"].is = "graph"
        /\ Loaded(s, aim[s], dir["primary"].nodes, TRUE)
        /\ UNCHANGED faults
     \/ /\ dir["primary"].is # "graph"
        /\ Go(s, "unreadable")
        /\ UNCHANGED <<store, aim, since, faults>>
     \/ /\ faults < MaxFaults
        /\ faults' = faults + 1
        /\ Go(s, "unreadable")
        /\ UNCHANGED <<store, aim, since>>

\* quarantineCorrupt: whatever the file is by now, it is moved out of the way;
\* this may fail, and so may the fsync that follows.
Quarantine(s) ==
  /\ at[s] = "unreadable"
  /\ Go(s, "moved")
  /\ UNCHANGED <<store, save, aim, history, losses>>
  /\ \/ /\ dir["primary"] = Absent
        /\ UNCHANGED <<files, faults>>
     \/ /\ dir["primary"] # Absent
        /\ dir' = [dir EXCEPT !["primary"] = Absent]
        /\ disk' \in {[n \in Name |-> {dir'[n]}],
                      [disk EXCEPT !["primary"] = @ \cup {Absent}]}
        /\ UNCHANGED faults
     \/ /\ faults < MaxFaults
        /\ faults' = faults + 1
        /\ UNCHANGED files

ReadBackup(s) ==
  /\ at[s] = "moved"
  /\ UNCHANGED <<files, save, recorded, used, saved, unsettled, budget>>
  /\ Loaded(s, aim[s], IF dir["backup"].is = "graph" THEN dir["backup"].nodes ELSE {}, FALSE)

-----------------------------------------------------------------------------
\* createNode and writeSafeJson: a lock that is held, or cannot be made, refuses the
\* save, which makes the canvas of the session unhealthy.

\* Mutant: a lock that is held already is taken all the same.
MutAcquire(s, graph) ==
  /\ Put("lock", Held)
  /\ Go(s, "locked")
  /\ \E found \in {dir["primary"], Absent} : prev' = [prev EXCEPT ![s] = found]
  /\ draft' = [draft EXCEPT ![s] = graph]
  /\ ok' = [ok EXCEPT ![s] = TRUE]
  /\ unsettled' = unsettled \cup {graph}
  /\ since' = [x \in Session |-> IF at[x] \in Reading THEN since[x] \cup {graph} ELSE {}]
  /\ UNCHANGED healthy

\* The lock, and the file as it is, which is not read if that fails.
Acquire(s, graph) ==
  /\ dir["lock"] = Absent
  /\ Put("lock", Held)
  /\ Go(s, "locked")
  /\ \E found \in {dir["primary"], Absent} : prev' = [prev EXCEPT ![s] = found]
  /\ draft' = [draft EXCEPT ![s] = graph]
  /\ ok' = [ok EXCEPT ![s] = TRUE]
  /\ unsettled' = unsettled \cup {graph}
  /\ since' = [x \in Session |-> IF at[x] \in Reading THEN since[x] \cup {graph} ELSE {}]
  /\ UNCHANGED healthy

\* The lock directory exists, or it or its parent cannot be made.
LockFails(s) ==
  /\ healthy' = [healthy EXCEPT ![s] = FALSE]
  /\ UNCHANGED <<files, at, save, unsettled, since>>

Record(s, n) ==
  /\ at[s] = "idle"
  /\ healthy[s]
  /\ n \notin used
  /\ used' = used \cup {n}
  /\ Acquire(s, mem[s] \cup {n}) \/ LockFails(s)
  /\ UNCHANGED <<mem, aim, recorded, saved, budget>>

\* The file as it was becomes the backup, or the new one where there was none;
\* then the new one is published.
Backup(s) ==
  /\ at[s] = "locked"
  /\ Replace("backup", IF prev[s] = Absent THEN Whole(draft[s]) ELSE prev[s])
  /\ Go(s, "backed")
  /\ UNCHANGED <<store, save, aim, history, budget>>

Publish(s) ==
  /\ at[s] = "kept"
  /\ Replace("primary", Whole(draft[s]))
  /\ Go(s, "published")
  /\ UNCHANGED <<store, save, aim, history, budget>>

\* The fsync of the directory after each of the two.
Sync(s) ==
  /\ at[s] \in {"backed", "published"}
  /\ SyncDirectory
  /\ Go(s, IF at[s] = "backed" THEN "kept" ELSE "synced")
  /\ UNCHANGED <<store, save, aim, history, budget>>

\* Any call may fail, which leads to the finally block.
Throw(s) ==
  /\ at[s] \in Inside \ {"synced"}
  /\ ok' = [ok EXCEPT ![s] = FALSE]
  /\ Go(s, "synced")
  /\ UNCHANGED <<files, store, draft, prev, aim, history, budget>>

\* The save is over; if it failed, createNode takes the node out of the memory.
SaveOver(s) ==
  /\ Go(s, "idle")
  /\ draft' = [draft EXCEPT ![s] = {}]
  /\ prev' = [prev EXCEPT ![s] = Absent]
  /\ ok' = [ok EXCEPT ![s] = TRUE]
Refused(s) == SaveOver(s) /\ healthy' = [healthy EXCEPT ![s] = FALSE]

\* The finally block: the lock is removed, which may fail too.
Unlock(s) ==
  /\ at[s] = "synced"
  /\ UNCHANGED <<mem, aim, recorded, used, since, budget>>
  /\ \/ /\ Put("lock", Absent)
        /\ Go(s, "unlocked")
        /\ saved' = IF ok[s] THEN draft[s] ELSE saved
        /\ unsettled' = IF ok[s] THEN {} ELSE unsettled
        /\ UNCHANGED <<healthy, save>>
     \/ /\ Refused(s)
        /\ UNCHANGED <<files, saved, unsettled>>

Return(s) ==
  /\ at[s] = "unlocked"
  /\ UNCHANGED <<aim, used, saved, unsettled, since, budget>>
  /\ \/ /\ SyncDirectory
        /\ IF ok[s]
           THEN /\ SaveOver(s)
                /\ mem' = [mem EXCEPT ![s] = draft[s]]
                /\ recorded' = recorded \cup (draft[s] \ mem[s])
                /\ UNCHANGED healthy
           ELSE Refused(s) /\ UNCHANGED <<mem, recorded>>
     \/ /\ Refused(s)
        /\ UNCHANGED <<files, mem, recorded>>

-----------------------------------------------------------------------------
\* A session ends or dies; the power fails; the file is damaged.
Down(dead) ==
  LET Forget(f, empty) == [s \in Session |-> IF s \in dead THEN empty ELSE f[s]]
  IN  /\ at' = Forget(at, "down")
      /\ mem' = Forget(mem, {}) /\ healthy' = Forget(healthy, TRUE)
      /\ draft' = Forget(draft, {}) /\ prev' = Forget(prev, Absent) /\ ok' = Forget(ok, TRUE)
      /\ aim' = Forget(aim, "none") /\ since' = Forget(since, {})
      /\ UNCHANGED <<recorded, used, saved, unsettled>>

Stop(s) ==
  /\ at[s] # "down"
  /\ Down({s})
  /\ UNCHANGED <<files, budget>>

PowerLoss ==
  /\ losses < MaxLosses
  /\ losses' = losses + 1
  /\ Down(Session)
  /\ dir' \in [Name -> (UNION {disk[n] : n \in Name}) \cup {Garbage}]
  /\ \A n \in Name :
       \E f \in disk[n] : dir'[n] = f \/ (~f.safe /\ dir'[n] = Garbage)
  /\ disk' = [n \in Name |-> {dir'[n]}]
  /\ UNCHANGED faults

Damage ==
  /\ faults < MaxFaults
  /\ faults' = faults + 1
  /\ dir["primary"].is = "graph"
  /\ dir' = [dir EXCEPT !["primary"] = Garbage]
  /\ disk' = [disk EXCEPT !["primary"] = {Garbage}]
  /\ UNCHANGED <<at, store, save, aim, history, losses>>

Next ==
  \/ \E s \in Session :
       \/ Start(s) \/ View(s) \/ Read(s) \/ Quarantine(s) \/ ReadBackup(s)
       \/ \E n \in Node : Record(s, n)
       \/ Backup(s) \/ Publish(s) \/ Sync(s) \/ Throw(s) \/ Unlock(s) \/ Return(s)
       \/ Stop(s)
  \/ PowerLoss \/ Damage

Spec == Init /\ [][Next]_vars

-----------------------------------------------------------------------------
\* Every variable stays within its type.
TypeOK ==
  /\ dir \in [Name -> File]
  /\ disk \in [Name -> SUBSET File]
  /\ at \in [Session -> Place]
  /\ mem \in [Session -> SUBSET Node]
  /\ healthy \in [Session -> BOOLEAN]
  /\ draft \in [Session -> SUBSET Node]
  /\ prev \in [Session -> File]
  /\ ok \in [Session -> BOOLEAN]
  /\ aim \in [Session -> {"none", "load", "view"}]
  /\ recorded \subseteq Node /\ used \subseteq Node /\ saved \subseteq Node
  /\ unsettled \subseteq SUBSET Node
  /\ since \in [Session -> SUBSET SUBSET Node]
  /\ faults \in Nat /\ losses \in Nat

\* A save that got through lasts: whatever a power loss leaves of the directory,
\* the file is whole and is that graph or one whose save began later and did not
\* get through; without a fault, that is (harness/safe-json-file.ts:5).
SavesDurable ==
  faults = 0 =>
    \A f \in disk["primary"] : f.safe /\ f.is # "garbage" /\ f.nodes \in {saved} \cup unsettled

\* What a session that reads may find.
Found(s) == IF at[s] = "down" THEN {saved} \cup unsettled ELSE since[s]

\* A session loads the graph that was saved last, or one whose save was under way
\* or was cut off, and says that it is healthy: sessions that save or die meanwhile
\* never make a reader take the file for damaged (harness/safe-json-file.ts:62-87).
LoadsLatest ==
  [][\A s \in Session :
       (at[s] = "down" \/ aim[s] = "load") /\ at'[s] = "idle" /\ faults' = 0
         => mem'[s] \in Found(s) /\ healthy'[s]]_vars

\* "The Canvas survives session restarts" (extensions/canvast-core.ts:190): where
\* one session runs at a time, one that says its canvas is healthy has every node
\* that was reported as recorded.
LossVisible ==
  \A s \in Session : at[s] = "idle" /\ healthy[s] => recorded \subseteq mem[s]
=============================================================================
