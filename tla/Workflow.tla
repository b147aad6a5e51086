------------------------------- MODULE Workflow -------------------------------
(***************************************************************************)
(* The workflow extension: calls of run_workflow that work off the steps   *)
(* of a dependency graph in batches, the first-come first-served slots all *)
(* the calls share, the child process of every step with its timeout and   *)
(* its SIGTERM, SIGKILL, watchdog sequence, cancellation, and the shutdown *)
(* of the session.                                                         *)
(*                                                                         *)
(* A step of the model is one callback; what a promise wakes up, the       *)
(* launch of a step that was granted a slot and the next batch of a call,  *)
(* is an action of its own.  The group of a process that is signalled or   *)
(* inspected is found alive or gone and a signal to a live one may fail,   *)
(* as in SubAgents, whose children have the same owned handles.  Left out  *)
(* are these handles, the output of the steps, the frozen admission (its   *)
(* scope is frozen during the shutdown only, when nothing is launched any  *)
(* more), the check of the names, and the checkpoint that is published     *)
(* after a batch.                                                          *)
(***************************************************************************)
EXTENDS Naturals, Sequences, FiniteSets, SequencesExt

CONSTANTS
  Call,     \* calls of run_workflow
  Step,     \* the names of steps
  Plans,    \* bound: what each call may be for
  Limit     \* MAX_CONCURRENT

\* A plan: its steps in the order they are given, what each depends on, and
\* whether the mode is sequential; the modes parallel and dag do not differ.
ASSUME WorkflowAssumption ==
  /\ IsFiniteSet(Call) /\ IsFiniteSet(Step)
  /\ Limit \in Nat \ {0}
  /\ DOMAIN Plans = Call
  /\ \A p \in UNION Range(Plans) :
       /\ p.order \in Seq(Step) /\ IsInjective(p.order)
       /\ p.after \in [Step -> SUBSET Range(p.order)]
       /\ p.sequential \in BOOLEAN

VARIABLES
  plan,      \* the plan of every call
  phase,     \* "idle", "running" or "returned"
  batch,     \* the steps a call waits for
  aborted,   \* the calls whose signal is aborted
  run,       \* the record of a call in the run registry
  queue,     \* the waiters
  active,    \* the slots that are taken
  stage,     \* how far a step of a call is, and its result in the end
  cause,     \* the latched cause of its termination
  process,   \* whether its process could be created, while its run lasts
  shutdown   \* how far the session shutdown is

calls == <<plan, phase, batch, aborted, run>>
jobs == <<stage, cause, process>>
vars == <<calls, queue, active, jobs, shutdown>>

Job == Call \X Step
Running == {"running", "terming", "killing"}
Over == {"success", "failed", "cancelled"}
Stage == {"unstarted", "queued", "granted"} \cup Running \cup Over

StepsOf(c) == Range(plan[c].order)
JobsOf(c, steps) == {c} \X steps
InStage(S) == {j \in Job : stage[j] \in S}

SmallerOf(m, n) == IF m < n THEN m ELSE n

\* What of q is in S, in its order.
Among(q, S) == FoldLeft(LAMBDA kept, x : IF x \in S THEN Append(kept, x) ELSE kept, <<>>, q)

NoPlan == [order |-> <<>>, after |-> [s \in Step |-> {}], sequential |-> FALSE]

Init ==
  /\ plan = [c \in Call |-> NoPlan]
  /\ phase = [c \in Call |-> "idle"]
  /\ batch = [c \in Call |-> {}]
  /\ aborted = {}
  /\ run = [c \in Call |-> "none"]
  /\ queue = <<>>
  /\ active = 0
  /\ stage = [j \in Job |-> "unstarted"]
  /\ cause = [j \in Job |-> "none"]
  /\ process = [j \in Job |-> "none"]
  /\ shutdown = "open"

-----------------------------------------------------------------------------
\* Mutant: drain looks for a free slot once, and serves everybody then.
MutDrain(q, n, at) ==
  LET free == IF shutdown' = "open" /\ n < Limit THEN Len(q) ELSE 0
      lucky == {q[i] : i \in 1..free}
  IN  /\ queue' = SubSeq(q, free + 1, Len(q))
      /\ active' = n + free
      /\ stage' = [j \in Job |-> IF j \in lucky THEN "granted" ELSE at[j]]

\* BoundedFifoSlots.  drain: with q waiting and n slots taken, the first waiters
\* get what is free; at says what has become of the jobs meanwhile.
Drain(q, n, at) ==
  LET free == IF shutdown' = "open" /\ n < Limit THEN Limit - n ELSE 0
      served == SmallerOf(free, Len(q))
      lucky == {q[i] : i \in 1..served}
  IN  /\ queue' = SubSeq(q, served + 1, Len(q))
      /\ active' = n + served
      /\ stage' = [j \in Job |-> IF j \in lucky THEN "granted" ELSE at[j]]

\* Mutant: a slot that is given back serves nobody.
MutRelease(over, at) ==
  /\ queue' = queue
  /\ active' = active - Cardinality(over)
  /\ stage' = at

\* The jobs over give their slots back.
Release(over, at) == Drain(queue, active - Cardinality(over), at)

-----------------------------------------------------------------------------
\* The loop of execute.  Blocked by a failure is what depends on a step that
\* failed, or on one that is blocked itself: the least such set.
Results(c, result) == {s \in StepsOf(c) : stage[<<c, s>>] = result}
Blocked(c) ==
  LET after == plan[c].after
      Closed(B) == \A s \in StepsOf(c) : after[s] \cap (Results(c, "failed") \cup B) # {} => s \in B
  IN  {s \in StepsOf(c) : \A B \in SUBSET StepsOf(c) : Closed(B) => s \in B}

\* Mutant: one dependency is enough.
MutReady(p, done, left) ==
  Among(p.order, {s \in left : p.after[s] = {} \/ p.after[s] \cap done # {}})

\* The steps that are left, in order, whose dependencies all succeeded.
Ready(p, done, left) ==
  Among(p.order, {s \in left : p.after[s] \subseteq done})

\* Call c, with the plan p, waits for its next batch; every step of it asks for
\* a slot, which none gets once the call is aborted or the session ends.
Batch(p, ready) == SubSeq(ready, 1, IF p.sequential THEN 1 ELSE SmallerOf(Limit, Len(ready)))
BeginBatch(c, p, ready) ==
  LET next == Batch(p, ready)
      asks == [i \in DOMAIN next |-> <<c, next[i]>>]
      refused == shutdown # "open" \/ c \in aborted
      answer == IF refused THEN "cancelled" ELSE "queued"
  IN  /\ batch' = [batch EXCEPT ![c] = Range(next)]
      /\ Drain(IF refused THEN queue ELSE queue \o asks, active,
               [j \in Job |-> IF j \in Range(asks) THEN answer ELSE stage[j]])

\* execute, up to the first wait.
Start(c) ==
  /\ phase[c] = "idle"
  /\ UNCHANGED <<aborted, cause, process, shutdown>>
  /\ IF shutdown # "open"
     THEN /\ phase' = [phase EXCEPT ![c] = "returned"]
          /\ UNCHANGED <<plan, batch, run, queue, active, stage>>
     ELSE \E p \in Plans[c] :
          /\ plan' = [plan EXCEPT ![c] = p]
          /\ LET ready == Ready(p, {}, Range(p.order)) IN
             IF ready = <<>>
             THEN /\ phase' = [phase EXCEPT ![c] = "returned"]
                  /\ run' = [run EXCEPT ![c] = IF c \in aborted THEN "cancelled"
                                               ELSE IF p.order # <<>> THEN "failed" ELSE "completed"]
                  /\ UNCHANGED <<batch, queue, active, stage>>
             ELSE /\ phase' = [phase EXCEPT ![c] = "running"]
                  /\ run' = [run EXCEPT ![c] = "running"]
                  /\ BeginBatch(c, p, ready)

\* Mutant: a call ends with the first batch in which a step failed.
MutBatchEnd(c) ==
  LET done == Results(c, "success")
      left == {s \in StepsOf(c) : stage[<<c, s>>] = "unstarted"} \ Blocked(c)
      ready == Ready(plan[c], done, left)
  IN
  /\ phase[c] = "running"
  /\ \A s \in batch[c] : stage[<<c, s>>] \in Over
  /\ UNCHANGED <<plan, aborted, cause, process, shutdown>>
  /\ IF ready # <<>> /\ Results(c, "failed") = {}
     THEN BeginBatch(c, plan[c], ready) /\ UNCHANGED <<phase, run>>
     ELSE /\ phase' = [phase EXCEPT ![c] = "returned"]
          /\ batch' = [batch EXCEPT ![c] = {}]
          /\ run' = [run EXCEPT ![c] =
               CASE c \in aborted -> "cancelled"
                 [] c \notin aborted /\ Results(c, "failed") \cup Blocked(c) \cup left # {} -> "failed"
                 [] OTHER -> "completed"]
          /\ UNCHANGED <<queue, active, stage>>

\* The batch is over: the next one, or the end of the call.
BatchEnd(c) ==
  LET done == Results(c, "success")
      left == {s \in StepsOf(c) : stage[<<c, s>>] = "unstarted"} \ Blocked(c)
      ready == Ready(plan[c], done, left)
  IN
  /\ phase[c] = "running"
  /\ \A s \in batch[c] : stage[<<c, s>>] \in Over
  /\ UNCHANGED <<plan, aborted, cause, process, shutdown>>
  /\ IF ready # <<>>
     THEN BeginBatch(c, plan[c], ready) /\ UNCHANGED <<phase, run>>
     ELSE /\ phase' = [phase EXCEPT ![c] = "returned"]
          /\ batch' = [batch EXCEPT ![c] = {}]
          /\ run' = [run EXCEPT ![c] =
               CASE c \in aborted -> "cancelled"
                 [] c \notin aborted /\ Results(c, "failed") \cup Blocked(c) \cup left # {} -> "failed"
                 [] OTHER -> "completed"]
          /\ UNCHANGED <<queue, active, stage>>

-----------------------------------------------------------------------------
\* runWithSlot, once the slot is granted, and the start of runStep: spawn may
\* throw, or give a process without a pid, which an event will say.
Launch(j) ==
  /\ stage[j] = "granted"
  /\ UNCHANGED <<calls, cause, shutdown>>
  /\ IF shutdown # "open" \/ j[1] \in aborted
     THEN /\ Release({j}, [stage EXCEPT ![j] = "cancelled"])
          /\ UNCHANGED process
     ELSE \/ /\ Release({j}, [stage EXCEPT ![j] = "failed"])
             /\ UNCHANGED process
          \/ /\ \E p \in {"alive", "failed"} : process' = [process EXCEPT ![j] = p]
             /\ stage' = [stage EXCEPT ![j] = "running"]
             /\ UNCHANGED <<queue, active>>

-----------------------------------------------------------------------------
\* Where a signal to the group of job j leads: its run is over when the group is
\* gone or cannot be signalled, else it goes on.
Signalled(j, next) == IF process[j] = "failed" THEN {"over"} ELSE {"over", next}

\* The result of a step that was terminated for a cause.
ResultOf(why) == IF why = "cancelled" THEN "cancelled" ELSE "failed"

\* Mutant: the watchdog gives no slot back.
MutMove(found, why) ==
  LET hit == DOMAIN found
      over == {j \in hit : found[j] \in {"over"} \cup Over}
      At(j) == IF found[j] = "over" THEN ResultOf(why[j]) ELSE found[j]
  IN
  /\ process' = [j \in Job |-> IF j \in over THEN "none" ELSE process[j]]
  /\ cause' = [j \in Job |-> CASE j \in over -> "none" [] j \in hit \ over -> why[j] [] OTHER -> cause[j]]
  /\ Release({j \in over : stage[j] # "killing"},
             [j \in Job |-> IF j \in hit THEN At(j) ELSE stage[j]])

\* The jobs in the domain of found go where it says, for the causes why: a step
\* that is over gives its result and its slot.
Move(found, why) ==
  LET hit == DOMAIN found
      over == {j \in hit : found[j] \in {"over"} \cup Over}
      At(j) == IF found[j] = "over" THEN ResultOf(why[j]) ELSE found[j]
  IN
  /\ process' = [j \in Job |-> IF j \in over THEN "none" ELSE process[j]]
  /\ cause' = [j \in Job |-> CASE j \in over -> "none" [] j \in hit \ over -> why[j] [] OTHER -> cause[j]]
  /\ Release(over, [j \in Job |-> IF j \in hit THEN At(j) ELSE stage[j]])

MoveOne(j, found, why) == Move([x \in {j} |-> found], [x \in {j} |-> why])
Latch(j, reason) == IF cause[j] = "none" THEN reason ELSE cause[j]

\* onError and onClose: a process that ended by itself decides with its exit
\* code, one that was killed by somebody else counts as ended with 0.
SpawnError(j) ==
  /\ stage[j] = "running"
  /\ process[j] = "failed"
  /\ UNCHANGED <<calls, shutdown>>
  /\ MoveOne(j, "over", "failed")

Close(j) ==
  /\ stage[j] \in Running
  /\ process[j] = "alive"
  /\ UNCHANGED <<calls, shutdown>>
  /\ \E result \in IF cause[j] = "none" THEN {"success", "failed"} ELSE {"over"} :
       MoveOne(j, result, cause[j])

\* The timers of a step: its timeout, the grace after SIGTERM, the watchdog
\* after SIGKILL.
Timeout(j) ==
  /\ stage[j] = "running"
  /\ UNCHANGED <<calls, shutdown>>
  /\ \E found \in Signalled(j, "terming") : MoveOne(j, found, Latch(j, "timeout"))

KillTimer(j) ==
  /\ stage[j] = "terming"
  /\ UNCHANGED <<calls, shutdown>>
  /\ \E found \in Signalled(j, "killing") : MoveOne(j, found, cause[j])

Watchdog(j) ==
  /\ stage[j] = "killing"
  /\ UNCHANGED <<calls, shutdown>>
  /\ MoveOne(j, "over", cause[j])

-----------------------------------------------------------------------------
\* The signals of the calls cs are aborted: their waiters leave the queue, their
\* running steps are terminated; a step that is being terminated goes on.
Abort(cs) ==
  LET hit == {j \in InStage({"running"}) : j[1] \in cs}
      out == {j \in InStage({"queued"}) : j[1] \in cs}
  IN
  /\ aborted' = aborted \cup cs
  /\ \E over \in SUBSET hit :
       /\ {j \in hit : process[j] = "failed"} \subseteq over
       /\ process' = [j \in Job |-> IF j \in over THEN "none" ELSE process[j]]
       /\ cause' = [j \in Job |-> IF j \in hit \ over THEN "cancelled" ELSE cause[j]]
       /\ Drain(Among(queue, Job \ out), active - Cardinality(over),
                [j \in Job |-> CASE j \in out \cup over -> "cancelled"
                                 [] j \in hit \ over -> "terming"
                                 [] OTHER -> stage[j]])
  /\ UNCHANGED <<plan, phase, batch>>

\* The caller aborts a call; workflow.cancel, which a run does not accept whose
\* signal is aborted already.
ParentAbort(c) ==
  /\ c \notin aborted
  /\ phase[c] # "returned"
  /\ UNCHANGED <<run, shutdown>>
  /\ Abort({c})

Cancel(c) ==
  /\ run[c] = "running"
  /\ c \notin aborted
  /\ UNCHANGED shutdown
  /\ Abort({c})
  /\ run' = [run EXCEPT ![c] = "cancelling"]

-----------------------------------------------------------------------------
\* session_shutdown: no slot is granted any more and every call is aborted; the
\* steps that are left after the deadline are killed and given up.

Shutdown ==
  /\ shutdown = "open"
  /\ shutdown' = "draining"
  /\ Abort({c \in Call : phase[c] = "running"})
  /\ UNCHANGED run

Expire ==
  /\ shutdown = "draining"
  /\ InStage(Running) # {}
  /\ shutdown' = "finalizing"
  /\ Move([j \in InStage(Running) |-> "over"],
          [j \in InStage(Running) |-> Latch(j, "cancelled")])
  /\ UNCHANGED calls

Closed ==
  /\ shutdown \in {"draining", "finalizing"}
  /\ InStage(Running) = {}
  /\ \A c \in Call : phase[c] # "running"
  /\ shutdown' = "closed"
  /\ UNCHANGED <<calls, queue, active, jobs>>

Next ==
  \/ \E c \in Call : Start(c) \/ BatchEnd(c) \/ ParentAbort(c) \/ Cancel(c)
  \/ \E j \in Job :
       \/ Launch(j) \/ SpawnError(j) \/ Close(j)
       \/ Timeout(j) \/ KillTimer(j) \/ Watchdog(j)
  \/ Shutdown \/ Expire \/ Closed

\* What a promise wakes up goes on, and timers fire, of which a step has one at
\* a time; nothing is assumed of the processes, of their events, or of anybody
\* who calls, aborts or shuts down.
Fairness ==
  /\ \A c \in Call : WF_vars(BatchEnd(c))
  /\ \A j \in Job : WF_vars(Launch(j) \/ Timeout(j) \/ KillTimer(j) \/ Watchdog(j))
  /\ WF_vars(Expire \/ Closed)

Spec == Init /\ [][Next]_vars
FairSpec == Spec /\ Fairness

-----------------------------------------------------------------------------
\* Every variable stays within its type.
TypeOK ==
  /\ plan \in [Call -> (UNION Range(Plans)) \cup {NoPlan}]
  /\ phase \in [Call -> {"idle", "running", "returned"}]
  /\ batch \in [Call -> SUBSET Step]
  /\ aborted \subseteq Call
  /\ run \in [Call -> {"none", "running", "cancelling", "completed", "failed", "cancelled"}]
  /\ queue \in Seq(Job)
  /\ active \in 0..Limit
  /\ stage \in [Job -> Stage]
  /\ cause \in [Job -> {"none", "timeout", "cancelled", "failed"}]
  /\ process \in [Job -> {"none", "alive", "failed"}]
  /\ shutdown \in {"open", "draining", "finalizing", "closed"}

\* "Steps with depends_on wait for their dependencies" (extensions/workflow.ts:491):
\* no step asks for a slot before all it depends on succeeded, and in a sequential
\* workflow none before the one ahead of it is over.
OrderKept ==
  \A c \in Call :
    /\ \A s \in StepsOf(c) : stage[<<c, s>>] \in {"queued", "granted", "success"} \cup Running =>
         \A d \in plan[c].after[s] : stage[<<c, d>>] = "success"
    /\ plan[c].sequential =>
         Cardinality(JobsOf(c, Step) \cap InStage({"queued", "granted"} \cup Running)) <= 1

\* The slots are given out once and given back once, whoever ends a step, and
\* none is free while somebody waits (extensions/workflow.ts:107-166).
SlotsShared ==
  /\ active = Cardinality(InStage({"granted"} \cup Running))
  /\ IsInjective(queue) /\ Range(queue) = InStage({"queued"})
  /\ queue # <<>> => active = Limit

\* A call leaves nothing out: when it returns, no step of it is under way, one
\* that never began depends on one that did not succeed, and the run counts as
\* completed only if every step succeeded (extensions/workflow.ts:578-656).
StepsAccounted ==
  \A c \in Call : phase[c] = "returned" =>
    /\ \A s \in StepsOf(c) :
         \/ stage[<<c, s>>] \in Over
         \/ /\ stage[<<c, s>>] = "unstarted"
            /\ \E d \in plan[c].after[s] : stage[<<c, d>>] # "success"
    /\ run[c] = "completed" => \A s \in StepsOf(c) : stage[<<c, s>>] = "success"

\* Every call returns, whatever its processes do, whoever holds the slots and
\* however its dependencies look, and the shutdown comes to an end
\* (docs/architecture/overview.md:49).
WorkflowsEnd ==
  /\ \A c \in Call : phase[c] = "running" ~> phase[c] = "returned"
  /\ shutdown # "open" ~> shutdown = "closed"
=============================================================================
