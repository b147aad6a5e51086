--------------------------- MODULE MCRuntimeResume ---------------------------
\* RuntimeResume for TLC.  The search starts where claims become possible:
\* the state after one process was started, began a turn, reconciled twice
\* and had the candidate rebound to existing Canvas nodes, five transitions
\* of the file, and its user inspected the result.  Sessions are interchangeable, and so are candidates.
EXTENDS RuntimeResume, TLC

ReadyInit ==
  \E s \in Session, c \in Candidate :
    /\ revision = 5
    /\ selected = c
    /\ disp = [x \in Candidate |-> IF x = c THEN "available" ELSE "absent"]
    /\ lease = [x \in Candidate |-> "none"]
    /\ holder = [x \in Candidate |-> None]
    /\ ready = {c}
    /\ bound = {c}
    /\ processed = {}
    /\ turn = c
    /\ begun = {c}
    /\ outbox = [x \in Candidate |-> "none"]
    /\ queued = {}
    /\ receipts = {}
    /\ noted = {}
    /\ session = s
    /\ started = {<<s, "startup">>}
    /\ pc = [x \in Session |-> IF x = s THEN "idle" ELSE "down"]
    /\ after = [x \in Session |-> "idle"]
    /\ target = [x \in Session |-> None]
    /\ fresh = [x \in Session |-> FALSE]
    /\ seenTurn = [x \in Session |-> None]
    /\ seenReady = [x \in Session |-> FALSE]
    /\ todo = [x \in Session |-> {}]
    /\ viewRevision = [x \in Session |-> IF x = s THEN 5 ELSE 0]
    /\ changed = Session \ {s}
    /\ binding = [x \in Session |-> None]
    /\ prior = [x \in Session |-> None]
    /\ poll = [x \in Session |-> None]
    /\ faults = 0

ReadySpec == ReadyInit /\ [][Next]_vars

\* Of the revision a session inspected only matters whether it is the
\* current one.
UpToStaleness ==
  <<resume, continuity, handler, memory, faults, changed,
    {s \in Session : viewRevision[s] = revision}>>

Symmetry == Permutations(Session) \cup Permutations(Candidate)
=============================================================================
