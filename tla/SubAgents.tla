------------------------------ MODULE SubAgents ------------------------------
(***************************************************************************)
(* The sub-agent extension: tool calls that run child processes, the slots *)
(* they share with the reservations of admitted dispatches, cancellation,  *)
(* the SIGTERM, SIGKILL, watchdog sequence of a child, and the shutdown of *)
(* the session under its own deadline.                                     *)
(*                                                                         *)
(* A step is one turn of the event loop: a callback and all that the       *)
(* promises it resolves go on to do, so a child that settles lets its lane *)
(* take the next tasks and the call return in the same step.  The group of *)
(* a process that is signalled or inspected is found alive or gone, and a  *)
(* signal to a live one may fail; what a process really does is chosen     *)
(* when the code looks, and what was seen last is kept.  Left out are the  *)
(* output, the retention of 256 run records, the freeze of admission (its  *)
(* scope is frozen only while lanes skip anyway) and follow-ups, which     *)
(* agents do not support.                                                  *)
(***************************************************************************)
EXTENDS Integers, FiniteSets, Functions

CONSTANTS
  Call,         \* tool calls; the id of one is also that of its reservation
  Parallel,     \* the calls of parallel_agents, the others are spawn_agent's
  Unread,       \* the calls whose children start with an unreadable identity
  MaxItems,     \* bound: tasks of a parallel call
  MaxChildren   \* MAX_CHILDREN

ASSUME SubAgentsAssumption ==
  /\ IsFiniteSet(Call)
  /\ Parallel \subseteq Call
  /\ Unread \subseteq Call
  /\ MaxItems \in Nat \ {0}
  /\ MaxChildren \in Nat \ {0}

VARIABLES
  reserved, held, activeChildren,
  call, left, result, aborted, run, accepted, shutdown,
  os, stage, cause, handle

\* Slots of the reservation and of the owner of each call, and the counter.
slots == <<reserved, held, activeChildren>>
\* Of every call: how far it is, the tasks no lane has taken yet, the worst of
\* the results so far, whether its signal is aborted, and its record in the run
\* registry; accepted is history: the calls whose cancellation was accepted.
calls == <<call, left, result, aborted, run, accepted>>
\* Of every child of a call: its process as it was seen last, the stage of its
\* run, the latched cause while it lasts, and the owned handle.
children == <<os, stage, cause, handle>>
vars == <<slots, calls, shutdown, children>>

Tasks(c) == IF c \in Parallel THEN 1..MaxItems ELSE {1}
Child == {k \in Call \X (1..MaxItems) : k[2] \in Tasks(k[1])}
ChildrenOf(cs) == {k \in Child : k[1] \in cs}

\* "failed": the process could not be created, which an event will say;
\* "closed": the leader is gone and the pipes are closed, which says nothing of
\* what else is left of its group.
Process == {"none", "failed", "alive", "closed", "gone"}
Unsettled == {"running", "terming", "killing"}
\* "unknown": settled with cleanupFailed and outcomeUnknown; "detached": given
\* up by the shutdown, its timers find nothing left to settle.
Over == {"settled", "unknown", "detached"}
Stage == {"none"} \cup Unsettled \cup Over
Cause == {"none", "timeout", "cancelled", "failed"}
Handle == {"none", "active", "settling", "unconfirmed", "released"}
Active == {"running", "cancelling"}
Terminal == {"completed", "failed", "cancelled"}

Reservable(c) == IF c \in Parallel THEN 2 ELSE 1
SmallerOf(a, b) == IF a < b THEN a ELSE b
LargerOf(a, b) == IF a > b THEN a ELSE b

Init ==
  /\ reserved = [c \in Call |-> 0]
  /\ held = [c \in Call |-> 0]
  /\ activeChildren = 0
  /\ call = [c \in Call |-> "idle"]
  /\ left = [c \in Call |-> 0]
  /\ result = [c \in Call |-> "completed"]
  /\ aborted = {}
  /\ run = [c \in Call |-> "none"]
  /\ accepted = {}
  /\ shutdown = "open"
  /\ os = [k \in Child |-> "none"]
  /\ stage = [k \in Child |-> "none"]
  /\ cause = [k \in Child |-> "none"]
  /\ handle = [k \in Child |-> "none"]

-----------------------------------------------------------------------------
\* Capacity.  activeRuns is the map of the children that are not settled.
ActiveRuns == {k \in Child : stage[k] \in Unsettled}
OccupiedChildren == LargerOf(activeChildren, Cardinality(ActiveRuns))
ReservedChildren == SumFunction(reserved)
\* Mutant: reservations do not count against each other.
MutAvailable == LargerOf(0, MaxChildren - OccupiedChildren)
Available == LargerOf(0, MaxChildren - OccupiedChildren - ReservedChildren)

\* tryReserve, for a dispatch the sidecar orchestration admits, and
\* releaseReservation, when it takes the admission back.
TryReserve(c) ==
  /\ shutdown = "open"
  /\ call[c] = "idle"
  /\ reserved[c] = 0
  /\ Reservable(c) <= Available
  /\ reserved' = [reserved EXCEPT ![c] = Reservable(c)]
  /\ UNCHANGED <<held, activeChildren, calls, shutdown, children>>

ReleaseReservation(c) ==
  /\ reserved[c] > 0
  /\ reserved' = [reserved EXCEPT ![c] = 0]
  /\ UNCHANGED <<held, activeChildren, calls, shutdown, children>>

-----------------------------------------------------------------------------
\* Signals.  What a signal to child k finds, as the stage and the process after
\* it: the run ends at once when the whole group is gone, ends as unknown when
\* the signal cannot be sent to the process that was started (its leader is
\* gone, cannot be identified, or refuses it), and else goes on.
Signalled(k, next) ==
  IF os[k] = "failed" THEN {<<"settled", "failed">>}
  ELSE {<<"settled", "gone">>, <<"unknown", "alive">>, <<next, "alive">>}

\* finish, markSettling and markDetachedUnconfirmed: the handle of a run that
\* goes to stage s.

\* Mutant: a handle is released however the run ended.
MutHandleAt(h, s) ==
  CASE h = "none" -> "none"
    [] h # "none" /\ s = "detached" -> "unconfirmed"
    [] h # "none" /\ s \in {"settled", "unknown"} -> "released"
    [] OTHER -> "settling"
HandleAt(h, s) ==
  CASE h = "none" -> "none"
    [] h # "none" /\ s \in {"unknown", "detached"} -> "unconfirmed"
    [] h # "none" /\ s = "settled" -> "released"
    [] OTHER -> "settling"

\* The result of a run that ends for the cause why.
ResultOf(why) ==
  CASE why = "none" -> "completed"
    [] why = "cancelled" -> "cancelled"
    [] OTHER -> "failed"

Latch(k, reason) == IF cause[k] = "none" THEN reason ELSE cause[k]

-----------------------------------------------------------------------------
\* The end of a call.  A cancelled task makes the run cancelled, a failed one
\* makes it failed; a parallel call that was aborted is cancelled in any case.
Worst(results) ==
  IF "cancelled" \in results THEN "cancelled"
  ELSE IF "failed" \in results THEN "failed"
  ELSE "completed"
FinalState(c, r) == IF c \in Parallel /\ c \in aborted' THEN "cancelled" ELSE r

\* Those of the calls cs that have nothing left to wait for return: the run is
\* settled and the owner gives the slots back.  The others stand as in runs
\* and have the results so far.
Finish(cs, runs, results) ==
  LET back == {c \in cs : \A k \in ChildrenOf({c}) : stage'[k] \notin Unsettled} IN
  /\ call' = [c \in Call |-> IF c \in back THEN "returned" ELSE call[c]]
  /\ run' = [c \in Call |-> IF c \in back THEN FinalState(c, results[c]) ELSE runs[c]]
  /\ result' = [c \in Call |-> IF c \in back THEN "completed" ELSE results[c]]
  /\ held' = [c \in Call |-> IF c \in back THEN 0 ELSE held[c]]
  /\ activeChildren' =
       LargerOf(0, activeChildren - SumFunctionOnSet(held, back))

\* The session shutdown ends with the last owner it waits for.
Drain(phase) ==
  shutdown' = IF phase = "draining" /\ \A c \in Call : call'[c] # "running"
              THEN "closed" ELSE phase

-----------------------------------------------------------------------------
\* The lanes of runPool that are free take tasks until all are busy or no task
\* is left.  A task is worked off at once (by a local worker, or its spawn
\* throws), or starts a process, or one that will turn out to have no pid; none
\* is started while as many runs are active as there may be children.
Starts == {"starts", "nopid"}
Fills(c, tasks, busy, runs, lanes) ==
  LET Busy(f, j) == busy + Cardinality({i \in 1..j : f[i] \in Starts})
      Full(f, j) == c \in Parallel /\ runs - busy + Busy(f, j) >= MaxChildren
      Fits(f, n) ==
        /\ \A j \in 1..n : Busy(f, j - 1) < lanes
        /\ \A j \in 1..n : f[j] = "unconfirmed" <=> Full(f, j - 1)
        /\ n = tasks \/ Busy(f, n) = lanes
  IN  UNION {{f \in [1..n -> Starts \cup {"ok", "throws", "unconfirmed"}] : Fits(f, n)} :
               n \in 0..tasks}
ResultsOf(f) ==
  {IF how \in {"throws", "unconfirmed"} THEN "failed" ELSE "completed" : how \in Range(f)}

\* Of the next tasks of c, taken as f says, those that start a process become
\* children, numbered by the tasks that were left; the others are as in seen,
\* at, why and owned.
Begin(c, f, tasks, seen, at, why, owned) ==
  LET Position(k) == tasks - k[2] + 1
      begins == {k \in ChildrenOf({c}) : Position(k) \in DOMAIN f /\ f[Position(k)] \in Starts}
      How(k) == f[Position(k)]
  IN  /\ os' = [k \in Child |-> IF k \in begins
             THEN IF How(k) = "nopid" THEN "failed" ELSE "alive" ELSE seen[k]]
      /\ stage' = [k \in Child |-> IF k \in begins THEN "running" ELSE at[k]]
      /\ cause' = [k \in Child |-> IF k \in begins THEN "none" ELSE why[k]]
      /\ handle' = [k \in Child |-> IF k \in begins
             THEN IF How(k) = "nopid" \/ c \in Unread THEN "none" ELSE "active" ELSE owned[k]]

\* The slots a call may run on: a reservation was made for it, everything else
\* has to leave the other reservations alone.

\* Mutant: reservations for other calls are not left alone.
MutLanes(c) ==
  LargerOf(0, SmallerOf(Reservable(c), MaxChildren - OccupiedChildren))
\* Mutant: a parallel call without a reservation takes the whole pool.
MutWholePool(c) ==
  CASE reserved[c] > 0 -> LargerOf(0, SmallerOf(Reservable(c), MaxChildren - OccupiedChildren))
    [] reserved[c] = 0 /\ c \in Parallel -> MaxChildren
    [] OTHER -> SmallerOf(1, Available)
Lanes(c) ==
  CASE reserved[c] > 0 -> LargerOf(0, SmallerOf(Reservable(c), MaxChildren - OccupiedChildren))
    [] reserved[c] = 0 /\ c \in Parallel -> Available
    [] OTHER -> SmallerOf(1, Available)

\* execute, up to the first wait for a child; it may return before.
Start(c) ==
  /\ call[c] = "idle"
  /\ shutdown = "open"
  /\ c \notin aborted
  /\ Lanes(c) > 0
  /\ reserved' = [reserved EXCEPT ![c] = 0]
  /\ \E n \in Tasks(c) :
       LET width == SmallerOf(Lanes(c), n) IN
       \E f \in Fills(c, n, 0, Cardinality(ActiveRuns), width) :
         /\ Begin(c, f, n, os, stage, cause, handle)
         /\ left' = [left EXCEPT ![c] = n - Cardinality(DOMAIN f)]
         /\ IF \E i \in DOMAIN f : f[i] \in Starts
            THEN /\ call' = [call EXCEPT ![c] = "running"]
                 /\ run' = [run EXCEPT ![c] = "running"]
                 /\ result' = [result EXCEPT ![c] = Worst(ResultsOf(f))]
                 /\ held' = [held EXCEPT ![c] = width]
                 /\ activeChildren' = activeChildren + width
            ELSE /\ call' = [call EXCEPT ![c] = "returned"]
                 /\ run' = [run EXCEPT ![c] = Worst(ResultsOf(f))]
                 /\ UNCHANGED <<result, held, activeChildren>>
  /\ UNCHANGED <<aborted, accepted, shutdown>>

\* A call for which there is no slot returns an error, its reservation is used
\* up all the same; one that is not valid, or not what was admitted, leaves it.
Refuse(c) ==
  /\ call[c] = "idle"
  /\ shutdown # "open" \/ c \in aborted \/ Lanes(c) = 0
  /\ call' = [call EXCEPT ![c] = "returned"]
  /\ reserved' = [reserved EXCEPT ![c] = 0]
  /\ UNCHANGED <<held, activeChildren, left, result, aborted, run, accepted, shutdown, children>>

Reject(c) ==
  /\ call[c] = "idle"
  /\ call' = [call EXCEPT ![c] = "returned"]
  /\ UNCHANGED <<slots, left, result, aborted, run, accepted, shutdown, children>>

-----------------------------------------------------------------------------
\* The run of child k goes to the stage and the process `found', for the cause
\* why.  A run that is over frees its lane, which goes on with the tasks that
\* are left; there are none once the call is aborted.
Move(k, found, why) ==
  LET c == k[1]
      over == found[1] \in Over
      others == ActiveRuns \ {k}
      busy == Cardinality(others \cap ChildrenOf({c}))
      seen == [os EXCEPT ![k] = found[2]]
      at == [stage EXCEPT ![k] = found[1]]
      causes == [cause EXCEPT ![k] = IF over THEN "none" ELSE why]
      owned == [handle EXCEPT ![k] = HandleAt(@, found[1])]
  IN  /\ UNCHANGED <<reserved, aborted, accepted>>
      /\ IF ~over
         THEN /\ os' = seen /\ stage' = at /\ cause' = causes /\ handle' = owned
              /\ UNCHANGED left
              /\ Finish({c}, run, result)
         ELSE \E f \in Fills(c, left[c], busy, Cardinality(others), held[c]) :
              /\ Begin(c, f, left[c], seen, at, causes, owned)
              /\ left' = [left EXCEPT ![c] = @ - Cardinality(DOMAIN f)]
              /\ Finish({c}, run, [result EXCEPT ![c] = Worst({@, ResultOf(why)} \cup ResultsOf(f))])
      /\ Drain(shutdown)

\* The process fails to start; or it exits, with code 0 or another, and its pipes
\* are closed.
SpawnError(k) ==
  /\ stage[k] \in Unsettled
  /\ os[k] = "failed"
  /\ Move(k, <<"settled", "failed">>, Latch(k, "failed"))

\* Mutant: the exit code decides, whatever ended the process.
MutClose(k) ==
  /\ stage[k] \in Unsettled
  /\ os[k] = "alive"
  /\ \E outcome \in {"none", "failed"} : Move(k, <<"settled", "closed">>, outcome)
Close(k) ==
  /\ stage[k] \in Unsettled
  /\ os[k] = "alive"
  /\ \E outcome \in {"none", "failed"} :
       Move(k, <<"settled", "closed">>, Latch(k, outcome))

\* The timers of a child: its timeout, the grace after SIGTERM, the watchdog
\* after SIGKILL.

\* Mutant: the timer is armed for a process that could be identified only.
MutTimeout(k) ==
  /\ stage[k] = "running"
  /\ handle[k] # "none"
  /\ \E found \in Signalled(k, "terming") : Move(k, found, Latch(k, "timeout"))
Timeout(k) ==
  /\ stage[k] = "running"
  /\ \E found \in Signalled(k, "terming") : Move(k, found, Latch(k, "timeout"))

KillTimer(k) ==
  /\ stage[k] = "terming"
  /\ \E found \in Signalled(k, "killing") : Move(k, found, cause[k])

Watchdog(k) ==
  /\ stage[k] = "killing"
  /\ \E found \in {<<"settled", "gone">>, <<"unknown", "alive">>} :
       Move(k, found, cause[k])

-----------------------------------------------------------------------------
\* The signals of the running calls cs are aborted: every child hears of it,
\* and no lane takes another task.
AbortCalls(cs, runs) ==
  LET hit == {k \in ChildrenOf(cs) : stage[k] = "running"}
      answers == UNION {Signalled(k, "terming") : k \in hit}
  IN
  /\ aborted' = aborted \cup cs
  /\ left' = [c \in Call |-> IF c \in cs THEN 0 ELSE left[c]]
  /\ \E found \in [hit -> answers] :
       LET over == {k \in hit : found[k][1] \in Over} IN
       /\ \A k \in hit : found[k] \in Signalled(k, "terming")
       /\ os' = [k \in Child |-> IF k \in hit THEN found[k][2] ELSE os[k]]
       /\ stage' = [k \in Child |-> IF k \in hit THEN found[k][1] ELSE stage[k]]
       /\ cause' = [k \in Child |-> IF k \in hit \ over THEN Latch(k, "cancelled") ELSE cause[k]]
       /\ handle' = [k \in Child |->
            IF k \in hit THEN HandleAt(handle[k], found[k][1]) ELSE handle[k]]
       /\ Finish(cs, runs, [c \in Call |->
            IF over \cap ChildrenOf({c}) = {} THEN result[c] ELSE "cancelled"])

\* The caller aborts a tool call.
ParentAbort(c) ==
  /\ c \notin aborted
  /\ \/ /\ call[c] = "idle"
        /\ aborted' = aborted \cup {c}
        /\ UNCHANGED <<held, activeChildren, call, left, result, run, children, shutdown>>
     \/ /\ call[c] = "running"
        /\ AbortCalls({c}, run)
        /\ Drain(shutdown)
  /\ UNCHANGED <<reserved, accepted>>

\* agent.cancel: a run whose signal is aborted already does not accept it and
\* stands as running again.
Cancel(c) ==
  /\ run[c] = "running"
  /\ c \notin aborted
  /\ AbortCalls({c}, [run EXCEPT ![c] = "cancelling"])
  /\ accepted' = accepted \cup {c}
  /\ UNCHANGED reserved
  /\ Drain(shutdown)

-----------------------------------------------------------------------------
\* session_shutdown: nothing is admitted any more, every call is aborted, and
\* after the deadline the children that are left are given up.
Shutdown ==
  /\ shutdown = "open"
  /\ reserved' = [c \in Call |-> 0]
  /\ AbortCalls({c \in Call : call[c] = "running"} \ aborted, run)
  /\ UNCHANGED accepted
  /\ Drain("draining")

Expire ==
  /\ shutdown = "draining"
  /\ shutdown' = "closed"
  /\ stage' = [k \in Child |-> IF k \in ActiveRuns THEN "detached" ELSE stage[k]]
  /\ cause' = [k \in Child |-> IF k \in ActiveRuns THEN "none" ELSE cause[k]]
  /\ handle' = [k \in Child |->
       IF k \in ActiveRuns THEN HandleAt(handle[k], "detached") ELSE handle[k]]
  /\ call' = [c \in Call |-> IF call[c] = "running" THEN "returned" ELSE call[c]]
  /\ run' = [c \in Call |->
       IF run[c] \in Active THEN IF c \in aborted THEN "cancelled" ELSE "failed" ELSE run[c]]
  /\ held' = [c \in Call |-> 0]
  /\ activeChildren' = LargerOf(0, activeChildren - SumFunction(held))
  /\ result' = [c \in Call |-> "completed"]
  /\ UNCHANGED <<reserved, left, aborted, accepted, os>>

Next ==
  \/ \E c \in Call :
       \/ TryReserve(c) \/ ReleaseReservation(c)
       \/ Start(c) \/ Refuse(c) \/ Reject(c)
       \/ ParentAbort(c) \/ Cancel(c)
  \/ \E k \in Child :
       \/ SpawnError(k) \/ Close(k)
       \/ Timeout(k) \/ KillTimer(k) \/ Watchdog(k)
  \/ Shutdown \/ Expire

\* Timers fire, of which a child has one at a time; nothing is assumed of the
\* processes, of their events, or of anybody who calls, aborts or shuts down.
Fairness ==
  /\ \A k \in Child : WF_vars(Timeout(k) \/ KillTimer(k) \/ Watchdog(k))
  /\ WF_vars(Expire)

Spec == Init /\ [][Next]_vars
FairSpec == Spec /\ Fairness

-----------------------------------------------------------------------------
\* Every variable stays within its type.
TypeOK ==
  /\ reserved \in [Call -> 0..2]
  /\ held \in [Call -> 0..MaxChildren]
  /\ activeChildren \in 0..MaxChildren
  /\ call \in [Call -> {"idle", "running", "returned"}]
  /\ left \in [Call -> 0..MaxItems - 1]
  /\ result \in [Call -> Terminal]
  /\ aborted \subseteq Call
  /\ run \in [Call -> {"none"} \cup Active \cup Terminal]
  /\ accepted \subseteq Call
  /\ shutdown \in {"open", "draining", "closed"}
  /\ os \in [Child -> Process]
  /\ stage \in [Child -> Stage]
  /\ cause \in [Child -> Cause]
  /\ handle \in [Child -> Handle]

\* Reservations, owners and children share one limit and are given back at
\* different moments (extensions/sub-agent.ts:573-594): the counter is always
\* the sum of what the running calls hold, no call runs more children than it
\* holds slots, and all of it and the reservations stay within MAX_CHILDREN.
CapacityKept ==
  /\ activeChildren = SumFunction(held)
  /\ OccupiedChildren + ReservedChildren <= MaxChildren
  /\ \A c \in Call :
       /\ held[c] > 0 <=> call[c] = "running"
       /\ Cardinality(ActiveRuns \cap ChildrenOf({c})) <= held[c]

\* Whatever raced with whatever, a process that was last seen alive when its run
\* was over was not reported as settled, and if it was ever registered its
\* handle says unconfirmed (sub-agent-runtime.ts:235, sub-agent-shutdown.ts:113).
LiveChildReported ==
  \A k \in Child :
    stage[k] \in Over /\ os[k] = "alive" =>
      stage[k] # "settled" /\ handle[k] \in {"none", "unconfirmed"}

\* A cancellation that was accepted is not answered with success: neither an
\* exit with code 0 nor a task that never began makes the run completed
\* (orchestration-control.ts:185-216, sub-agent-runtime.ts:355-372).
CancelHolds == \A c \in accepted : run[c] \notin {"none", "running", "completed"}

\* Every call returns, however its processes behave, and the shutdown ends with
\* no call running (docs/architecture/overview.md:49, "cancellation,
\* finalization, and shutdown cleanup are bounded").
CallsEnd ==
  /\ \A c \in Call : call[c] = "running" ~> call[c] = "returned"
  /\ shutdown = "draining" ~>
       (shutdown = "closed" /\ \A c \in Call : call[c] # "running")

\* The slots of the extension are a pool as SlotPool promises it: what is
\* reserved for one call is never taken by another.
Pool == INSTANCE SlotPool WITH Holder <- Call, Slots <- MaxChildren
PoolImplemented == Pool!PoolSpec
=============================================================================
