------------------------ MODULE RequestCoordinatorProofs ------------------------
(***************************************************************************)
(* What holds of RequestCoordinator for any requests, sessions, compaction *)
(* keys and bounds, over any number of crashes and restarts.               *)
(***************************************************************************)
EXTENDS RequestCoordinator, FiniteSetTheorems, WellFoundedInduction, TLAPS

\* The events whose presence the invariants speak of; the others are neutral.
QueuedEvent(d) == <<"continuation_queued", d>>
ResumedEvent(r, d) == <<"turn_resumed", r, d>>
StartedEvent(s, r) == <<"turn_started", s, r>>
UncommittedEvent(op) == <<"compaction_failed", op, "settled-without-commit">>

Turn == [request : Request, session : Session, phase : Phase]
Compaction == [op : OperationId, owner : {"harness", "native"},
               status : {"prepared", "committed", "resumed", "failed"}]
OutboxStatus == {"pending", "attempted", "acknowledged"}
InboxItem == [status : {"claimed", "consumed"}, count : Nat]

\* The stored state: t is its turn, k the compactions, o the outbox, i the
\* inbox, v the recovery and p the processed ids.
Typed(s, t, k, o, i, v) ==
  /\ s \in Session
  /\ t \in {NoTurn} \cup Turn
  /\ k \in Seq(Compaction)
  /\ o \in [DOMAIN o -> OutboxStatus]
  /\ DOMAIN o \subseteq Dispatches
  /\ IsFiniteSet(DOMAIN o)
  /\ i \in [DOMAIN i -> InboxItem]
  /\ DOMAIN i \subseteq DOMAIN o
  /\ v \in {"none", "retryable", "final"}

\* A receipt is consumed when and only when its dispatch is acknowledged.
Mail(o, i) ==
  \A d \in DOMAIN o :
    o[d] = "acknowledged" <=> (d \in DOMAIN i /\ i[d].status = "consumed")

\* What was ever queued is known by its event, and what was ever acknowledged
\* (S) is so wherever it is in the outbox.
Recorded(o, p, S) ==
  /\ \A d \in DOMAIN o \cup S : QueuedEvent(d) \in p
  /\ \A d \in S : d \in DOMAIN o => o[d] = "acknowledged"

\* No two compactions have one operation id.
Distinct(k) == \A m, n \in DOMAIN k : k[m].op = k[n].op => m = n

\* Nothing was queued, or resumed, for an operation that was not committed.
OnlyPrepared(k, op) == \A n \in DOMAIN k : k[n].op = op => k[n].status = "prepared"
Untouched(k, o, p) ==
  \A op \in OperationId : OnlyPrepared(k, op) =>
    /\ CompactionDispatch(op) \notin DOMAIN o
    /\ QueuedEvent(CompactionDispatch(op)) \notin p
    /\ \A r \in Request : ResumedEvent(r, CompactionDispatch(op)) \notin p

\* The compactions of the turn are the last ones.
Order(t, k) ==
  t # NoTurn =>
    \A m, n \in DOMAIN k : k[m].op[1] = t.request /\ m <= n => k[n].op[1] = t.request

\* A compaction of the turn that onAgentSettled gave up is not prepared.
GivenUp(t, k, p) ==
  \A op \in OperationId : UncommittedEvent(op) \in p =>
    /\ \E n \in DOMAIN k : k[n].op = op
    /\ (t # NoTurn /\ t.request = op[1]) =>
         \A n \in DOMAIN k : k[n].op = op => k[n].status # "prepared"

\* Turns, compactions and their events are of requests that were made (U).
Made(t, k, p, U) ==
  /\ t # NoTurn => t.request \in U
  /\ \A n \in DOMAIN k : k[n].op[1] \in U
  /\ \A s \in Session, r \in Request : StartedEvent(s, r) \in p => r \in U

Good(s, t, k, o, i, v, p, S, U) ==
  /\ Typed(s, t, k, o, i, v)
  /\ Mail(o, i)
  /\ Recorded(o, p, S)
  /\ Distinct(k)
  /\ Untouched(k, o, p)
  /\ Order(t, k)
  /\ GivenUp(t, k, p)
  /\ Made(t, k, p, U)

\* A waiting turn has a committed compaction that will still resume it.
Resumes(t, k, o, p, n) ==
  /\ k[n].op[1] = t.request
  /\ k[n].status = "committed"
  /\ \/ k[n].owner = "native"
     \/ /\ CompactionDispatch(k[n].op) \in DOMAIN o
        /\ o[CompactionDispatch(k[n].op)] # "acknowledged"
        /\ ResumedEvent(t.request, CompactionDispatch(k[n].op)) \notin p
Waits(t, k, o, p) ==
  (t # NoTurn /\ t.phase = "awaiting_resume") => \E n \in DOMAIN k : Resumes(t, k, o, p, n)

\* The same of a stored state as a whole.
State(s, t, k, o, i, v, p) ==
  [session |-> s, turn |-> t, compactions |-> k, outbox |-> o, inbox |-> i,
   recovery |-> v, processed |-> p]
Whole(c) ==
  c = State(c.session, c.turn, c.compactions, c.outbox, c.inbox, c.recovery, c.processed)
Sound(c, S, U) ==
  /\ Whole(c)
  /\ Good(c.session, c.turn, c.compactions, c.outbox, c.inbox, c.recovery, c.processed, S, U)
Awaits(c) == Waits(c.turn, c.compactions, c.outbox, c.processed)

\* The requests that were made.
Used == {r \in Request : req[r] # "unknown"}

\* The coordinator's memory and the host.
Someone == Request \cup Sidecar \cup {NoRequest}
Memory ==
  [primary : Request \cup {NoRequest}, response : Someone, settling : Someone,
   sidecar : Sidecar \cup {NoRequest}, incomplete : BOOLEAN,
   restorePending : BOOLEAN, terminal : BOOLEAN,
   active : SUBSET Dispatches, admitted : SUBSET Dispatches]
Host ==
  [session : Session, run : {"idle", "running", "ended", "down"},
   queue : SUBSET Dispatches, compacting : BOOLEAN]
Branch ==
  [open : SUBSET Dispatches, completed : SUBSET Dispatches,
   visible : SUBSET Dispatches, window : Key \cup {"new"}]
Roots ==
  [request : Request \cup {NoRequest}, settlement : Settlement,
   control : {"none", "cancel"}]
Typing ==
  /\ req \in [Request \cup Sidecar -> RequestStatus]
  /\ replied \subseteq Request \cup Sidecar
  /\ parent \in [Sidecar -> Request \cup {NoRequest}]
  /\ root \in Roots
  /\ co \in Memory
  /\ co.admitted \subseteq co.active
  /\ IsFiniteSet(co.active)
  /\ host \in Host
  /\ branch \in [Session -> Branch]
  /\ \A s \in Session : IsFiniteSet(branch[s].visible)

\* Memory and root are about the turn.
Fits(m, c) ==
  /\ m.primary # NoRequest =>
       /\ c.turn # NoTurn
       /\ c.turn.request = m.primary
       /\ c.turn.session = c.session
  /\ m.restorePending => m.primary # NoRequest
Primary == Fits(co, cc)
Root ==
  /\ (cc.turn # NoTurn /\ root.request # NoRequest) => cc.turn.request = root.request
  /\ root.settlement = "succeeded" =>
       /\ root.request \in Request
       /\ root.control = "cancel" \/ req[root.request] = "answered"
  /\ root.control = "cancel" => root.request \in Request
\* A request with a visible reply was made, and that of a root which no batch
\* cancelled is answered.
Replies ==
  \A r \in replied :
    /\ req[r] # "unknown"
    /\ (root.request = r /\ root.control = "none") => req[r] = "answered"

IInv ==
  /\ Sound(cc, settled, Used)
  /\ torn \/ Awaits(cc)
  /\ Typing
  /\ Primary
  /\ Root
  /\ Replies

-----------------------------------------------------------------------------
(* What the transitions of the reducer make of a stored state.             *)

\* The fields of a state put together are its parts.
LEMMA Fields ==
  ASSUME NEW s, NEW t, NEW k, NEW o, NEW i, NEW v, NEW p
  PROVE  /\ State(s, t, k, o, i, v, p).session = s
         /\ State(s, t, k, o, i, v, p).turn = t
         /\ State(s, t, k, o, i, v, p).compactions = k
         /\ State(s, t, k, o, i, v, p).outbox = o
         /\ State(s, t, k, o, i, v, p).inbox = i
         /\ State(s, t, k, o, i, v, p).recovery = v
         /\ State(s, t, k, o, i, v, p).processed = p
BY DEF State

\* Nothing is queued twice, within an outbox or by its event.
LEMMA QueuedBefore ==
  ASSUME NEW s, NEW t, NEW k, NEW o, NEW i, NEW v, NEW p, NEW d,
         d \in DOMAIN o \/ QueuedEvent(d) \in p
  PROVE  Queued(State(s, t, k, o, i, v, p), d) = State(s, t, k, o, i, v, p)
BY Fields DEF Queued, Commit, QueuedEvent

\* continuation_queued puts a new dispatch into the outbox.
LEMMA QueuedIs ==
  ASSUME NEW s, NEW t, NEW k, NEW o, NEW i, NEW v, NEW p, NEW d,
         d \notin DOMAIN o, QueuedEvent(d) \notin p
  PROVE  Queued(State(s, t, k, o, i, v, p), d) =
           State(s, t, k, Put(o, d, "pending"), i, v, p \cup {QueuedEvent(d)})
<1>. DEFINE c == State(s, t, k, o, i, v, p)
<1>1. c.outbox = o /\ c.processed = p
  BY Fields
<1>2. [c EXCEPT !.outbox = Put(o, d, "pending")] = State(s, t, k, Put(o, d, "pending"), i, v, p)
  BY DEF State
<1>3. \A e : [State(s, t, k, Put(o, d, "pending"), i, v, p) EXCEPT !.processed = p \cup {e}]
               = State(s, t, k, Put(o, d, "pending"), i, v, p \cup {e})
  BY DEF State
<1>. HIDE DEF c
<1>. QED  BY <1>1, <1>2, <1>3 DEF Queued, QueuedEvent, Commit, c

\* continuation_received writes the receipt, or finds its event processed.
LEMMA ReceivedIs ==
  ASSUME NEW s, NEW t, NEW k, NEW o, NEW i, NEW v, NEW p, NEW d, NEW tag
  PROVE  LET x == Received(State(s, t, k, o, i, v, p), d, tag)
         IN \/ x = State(s, t, k, o, i, v, p)
            \/ /\ d \in DOMAIN o
               /\ x = State(s, t, k, o,
                            Put(i, d, IF d \in DOMAIN i THEN [i[d] EXCEPT !.count = i[d].count + 1]
                                      ELSE [status |-> "claimed", count |-> 1]),
                            v, p \cup {<<"continuation_received", d, tag>>})
<1>. DEFINE c == State(s, t, k, o, i, v, p)
            receipt == IF d \in DOMAIN i THEN [i[d] EXCEPT !.count = i[d].count + 1]
                       ELSE [status |-> "claimed", count |-> 1]
<1>1. c.outbox = o /\ c.inbox = i /\ c.processed = p
  BY Fields
<1>2. [c EXCEPT !.inbox = Put(i, d, receipt)] = State(s, t, k, o, Put(i, d, receipt), v, p)
  BY DEF State
<1>3. \A e : [State(s, t, k, o, Put(i, d, receipt), v, p) EXCEPT !.processed = p \cup {e}]
               = State(s, t, k, o, Put(i, d, receipt), v, p \cup {e})
  BY DEF State
<1>4. Claimed(c, d) = receipt
  <2>. HIDE DEF c
  <2>. QED  BY <1>1 DEF Claimed
<1>. HIDE DEF c, receipt
<1>5. \/ Received(c, d, tag) = c
      \/ /\ d \in DOMAIN o
         /\ Received(c, d, tag) = State(s, t, k, o, Put(i, d, receipt), v,
                                       p \cup {<<"continuation_received", d, tag>>})
  BY <1>1, <1>2, <1>3, <1>4 DEF Received, Commit
<1>. QED  BY <1>5 DEF c, receipt

\* dispatchPendingContinuations marks what it sent.
LEMMA AttemptIs ==
  ASSUME NEW s, NEW t, NEW k, NEW o, NEW i, NEW v, NEW p, NEW sent
  PROVE  Attempt(State(s, t, k, o, i, v, p), sent) =
           State(s, t, k, [d \in DOMAIN o |-> IF d \in sent THEN "attempted" ELSE o[d]], i, v, p)
BY DEF Attempt, State

-----------------------------------------------------------------------------
(* Events and dispatches.                                                  *)

Neutral(e) ==
  /\ \A d : e # QueuedEvent(d)
  /\ \A r, d : e # ResumedEvent(r, d)
  /\ \A z, r : e # StartedEvent(z, r)
  /\ \A op : e # UncommittedEvent(op)

\* Most events are neutral.
LEMMA NeutralEvents ==
  /\ \A d, tag : Neutral(<<"continuation_received", d, tag>>)
  /\ \A d : Neutral(<<"continuation_consumed", d>>)
  /\ \A d : Neutral(<<"continuation_released", d, SessionReconcile>>)
  /\ \A z, op : Neutral(<<"compaction_prepared", z, op>>)
  /\ \A op : Neutral(<<"compaction_failed", op, "aborted">>)
  /\ \A r : Neutral(<<"turn_completed", r>>)
  /\ \A z, reason : Neutral(SessionEvent(z, reason))
BY DEF Neutral, QueuedEvent, ResumedEvent, StartedEvent, UncommittedEvent, SessionEvent

\* The other four kinds are apart, and each event is of one dispatch, operation
\* or request.
LEMMA EventsDiffer ==
  /\ \A d, e : QueuedEvent(d) = QueuedEvent(e) => d = e
  /\ \A r, d, q, e : ResumedEvent(r, d) = ResumedEvent(q, e) => r = q /\ d = e
  /\ \A z, r, y, q : StartedEvent(z, r) = StartedEvent(y, q) => r = q
  /\ \A x, y : UncommittedEvent(x) = UncommittedEvent(y) => x = y
  /\ \A d, r, e : QueuedEvent(d) # ResumedEvent(r, e)
  /\ \A d, z, r : QueuedEvent(d) # StartedEvent(z, r)
  /\ \A d, op : QueuedEvent(d) # UncommittedEvent(op)
  /\ \A q, d, z, r : ResumedEvent(q, d) # StartedEvent(z, r)
  /\ \A q, d, op : ResumedEvent(q, d) # UncommittedEvent(op)
  /\ \A z, r, op : StartedEvent(z, r) # UncommittedEvent(op)
BY DEF QueuedEvent, ResumedEvent, StartedEvent, UncommittedEvent

\* Dispatches of compactions and of sidecars are apart, and a compaction has one.
LEMMA DispatchesDiffer ==
  /\ \A op \in OperationId : CompactionDispatch(op) \in Dispatches
                             /\ op[1] \in Request
  /\ \A q \in Sidecar : SidecarContinuation(q) \in Dispatches
  /\ \A x, y \in OperationId : CompactionDispatch(x) = CompactionDispatch(y) => x = y
  /\ \A op \in OperationId : \A q : CompactionDispatch(op) # SidecarContinuation(q)
  /\ \A op : IsCompactionDispatch(CompactionDispatch(op))
  /\ \A d \in Dispatches : IsCompactionDispatch(d) => \E op \in OperationId : d = CompactionDispatch(op)
  /\ \A d \in Dispatches : ~IsCompactionDispatch(d) => \A op : d # CompactionDispatch(op)
BY DEF Dispatches, OperationId, CompactionDispatch, SidecarContinuation, IsCompactionDispatch

\* A change of its phase or session leaves a turn the turn of its request.
LEMMA Turns ==
  /\ NoTurn \notin Turn
  /\ \A t \in Turn : t.request \in Request /\ t.session \in Session /\ t.phase \in Phase
  /\ \A r \in Request, z \in Session, h \in Phase :
       [request |-> r, session |-> z, phase |-> h] \in Turn
  /\ \A t \in Turn, h \in Phase :
       /\ [t EXCEPT !.phase = h] \in Turn
       /\ [t EXCEPT !.phase = h].request = t.request
       /\ [t EXCEPT !.phase = h].session = t.session
       /\ [t EXCEPT !.phase = h].phase = h
  /\ \A t \in Turn, z \in Session :
       /\ [t EXCEPT !.session = z] \in Turn
       /\ [t EXCEPT !.session = z].request = t.request
       /\ [t EXCEPT !.session = z].session = z
       /\ [t EXCEPT !.session = z].phase = t.phase
BY DEF NoTurn, Turn

-----------------------------------------------------------------------------
(* The parts of the invariant, one kind of change at a time.               *)

\* An event that the invariants do not speak of is recorded.
LEMMA GoodNeutral ==
  ASSUME NEW s, NEW t, NEW k, NEW o, NEW i, NEW v, NEW p, NEW S, NEW U,
         Good(s, t, k, o, i, v, p, S, U), NEW e, Neutral(e)
  PROVE  /\ Good(s, t, k, o, i, v, p \cup {e}, S, U)
         /\ Waits(t, k, o, p) => Waits(t, k, o, p \cup {e})
<1>1. Recorded(o, p \cup {e}, S)
  BY DEF Good, Recorded
<1>2. Untouched(k, o, p \cup {e})
  BY DEF Good, Untouched, Neutral
<1>3. GivenUp(t, k, p \cup {e})
  BY DEF Good, GivenUp, Neutral
<1>4. Made(t, k, p \cup {e}, U)
  BY DEF Good, Made, Neutral
<1>5. Waits(t, k, o, p) => Waits(t, k, o, p \cup {e})
  BY DEF Waits, Resumes, Neutral
<1>. QED  BY <1>1, <1>2, <1>3, <1>4, <1>5 DEF Good

\* The turn changes its phase, and the recovery note with it.
LEMMA GoodPhase ==
  ASSUME NEW s, NEW t, NEW k, NEW o, NEW i, NEW v, NEW p, NEW S, NEW U,
         Good(s, t, k, o, i, v, p, S, U), t # NoTurn,
         NEW h \in Phase, NEW w \in {"none", "retryable", "final"}
  PROVE  Good(s, [t EXCEPT !.phase = h], k, o, i, w, p, S, U)
<1>. PICK x : x = [t EXCEPT !.phase = h]
  OBVIOUS
<1>1. t \in Turn /\ x \in Turn /\ x # NoTurn /\ x.request = t.request
  BY Turns DEF Good, Typed
<1>2. Typed(s, x, k, o, i, w)
  BY <1>1 DEF Good, Typed
<1>3. Order(x, k)
  BY <1>1 DEF Good, Order
<1>4. GivenUp(x, k, p)
  BY <1>1 DEF Good, GivenUp
<1>5. Made(x, k, p, U)
  BY <1>1 DEF Good, Made
<1>. QED  BY <1>2, <1>3, <1>4, <1>5 DEF Good

\* The recovery note is free.
LEMMA GoodRecovery ==
  ASSUME NEW s, NEW t, NEW k, NEW o, NEW i, NEW v, NEW p, NEW S, NEW U,
         Good(s, t, k, o, i, v, p, S, U), NEW w \in {"none", "retryable", "final"}
  PROVE  Good(s, t, k, o, i, w, p, S, U)
BY DEF Good, Typed

\* A compaction comes to an end.
Ended(k, n, st) == [k EXCEPT ![n].status = st]
\* Then it is no longer prepared, and all else is as before.
LEMMA GoodStatus ==
  ASSUME NEW s, NEW t, NEW k, NEW o, NEW i, NEW v, NEW p, NEW S, NEW U,
         Good(s, t, k, o, i, v, p, S, U), NEW n \in DOMAIN k,
         NEW st \in {"committed", "resumed", "failed"}
  PROVE  /\ Good(s, t, Ended(k, n, st), o, i, v, p, S, U)
         /\ Ended(k, n, st) \in Seq(Compaction)
         /\ DOMAIN Ended(k, n, st) = DOMAIN k
         /\ \A m \in DOMAIN k :
              /\ Ended(k, n, st)[m].op = k[m].op
              /\ Ended(k, n, st)[m].owner = k[m].owner
              /\ Ended(k, n, st)[m].status = IF m = n THEN st ELSE k[m].status
<1>. PICK x : x = Ended(k, n, st)
  OBVIOUS
<1>1. k \in Seq(Compaction)
  BY DEF Good, Typed
<1>2. \A m \in DOMAIN k : k[m] \in Compaction
  BY <1>1
<1>3. \A y \in Compaction : /\ [y EXCEPT !.status = st] \in Compaction
                            /\ [y EXCEPT !.status = st].op = y.op
                            /\ [y EXCEPT !.status = st].owner = y.owner
                            /\ [y EXCEPT !.status = st].status = st
  BY DEF Compaction
<1>4. x = [m \in DOMAIN k |-> IF m = n THEN [k[n] EXCEPT !.status = st] ELSE k[m]]
  BY <1>1 DEF Ended
<1>5. x \in Seq(Compaction) /\ DOMAIN x = DOMAIN k
  BY <1>1, <1>2, <1>3, <1>4
<1>6. \A m \in DOMAIN k : /\ x[m].op = k[m].op
                          /\ x[m].owner = k[m].owner
                          /\ x[m].status = IF m = n THEN st ELSE k[m].status
  BY <1>2, <1>3, <1>4
<1>7. \A m \in DOMAIN x : x[m].status = "prepared" => k[m].status = "prepared"
  BY <1>5, <1>6
<1>8. Typed(s, t, x, o, i, v)
  BY <1>5 DEF Good, Typed
<1>9. Distinct(x)
  BY <1>5, <1>6 DEF Good, Distinct
<1>10. Untouched(x, o, p)
  <2>1. \A op : OnlyPrepared(x, op) => OnlyPrepared(k, op)
    BY <1>5, <1>6, <1>7 DEF OnlyPrepared
  <2>. QED  BY <2>1 DEF Good, Untouched
<1>11. Order(t, x)
  BY <1>5, <1>6 DEF Good, Order
<1>12. GivenUp(t, x, p)
  BY <1>5, <1>6, <1>7 DEF Good, GivenUp
<1>13. Made(t, x, p, U)
  BY <1>5, <1>6 DEF Good, Made
<1>. QED  BY <1>5, <1>6, <1>8, <1>9, <1>10, <1>11, <1>12, <1>13 DEF Good

\* A compaction of the turn begins.
LEMMA GoodAppended ==
  ASSUME NEW s, NEW t, NEW k, NEW o, NEW i, NEW v, NEW p, NEW S, NEW U,
         Good(s, t, k, o, i, v, p, S, U), t # NoTurn,
         NEW op \in OperationId, t.request = op[1], \A n \in DOMAIN k : k[n].op # op,
         NEW owner \in {"harness", "native"}
  PROVE  Good(s, t, Append(k, [op |-> op, owner |-> owner, status |-> "prepared"]),
              o, i, v, p, S, U)
<1>. PICK y : y = [op |-> op, owner |-> owner, status |-> "prepared"]
  OBVIOUS
<1>. PICK x : x = Append(k, y)
  OBVIOUS
<1>1. y \in Compaction /\ y.op = op /\ y.status = "prepared"
  BY DEF Compaction
<1>2. k \in Seq(Compaction)
  BY DEF Good, Typed
<1>3. x \in Seq(Compaction)
  BY <1>1, <1>2
<1>4. PICK l : l \in Nat /\ l = Len(k)
  BY <1>2
<1>5. /\ DOMAIN k = 1 .. l /\ DOMAIN x = 1 .. l + 1
      /\ x[l + 1] = y
      /\ \A n \in 1 .. l : x[n] = k[n]
  BY <1>1, <1>2, <1>4
<1>6. DOMAIN x = DOMAIN k \cup {l + 1} /\ l + 1 \notin DOMAIN k /\ \A n \in DOMAIN k : n \in Nat /\ n < l + 1
  BY <1>4, <1>5
<1>7. \A n \in DOMAIN k : x[n] = k[n]
  BY <1>5
<1>8. Typed(s, t, x, o, i, v)
  BY <1>3 DEF Good, Typed
<1>9. Distinct(x)
  BY <1>1, <1>5, <1>6, <1>7 DEF Good, Distinct
<1>10. Untouched(x, o, p)
  <2>1. \A z : OnlyPrepared(x, z) => OnlyPrepared(k, z)
    BY <1>6, <1>7 DEF OnlyPrepared
  <2>. QED  BY <2>1 DEF Good, Untouched
<1>11. Order(t, x)
  BY <1>1, <1>4, <1>5, <1>6, <1>7 DEF Good, Order
<1>12. GivenUp(t, x, p)
  BY <1>1, <1>5, <1>6, <1>7 DEF Good, GivenUp
<1>13. Made(t, x, p, U)
  BY <1>1, <1>5, <1>6, <1>7 DEF Good, Made
<1>. QED  BY <1>8, <1>9, <1>10, <1>11, <1>12, <1>13 DEF Good

\* A dispatch is queued: a sidecar's, or one of a compaction that ended.
LEMMA GoodQueued ==
  ASSUME NEW s, NEW t, NEW k, NEW o, NEW i, NEW v, NEW p, NEW S, NEW U,
         Good(s, t, k, o, i, v, p, S, U), NEW d \in Dispatches,
         d \notin DOMAIN o, QueuedEvent(d) \notin p,
         \A op \in OperationId : d = CompactionDispatch(op) => ~OnlyPrepared(k, op)
  PROVE  /\ Good(s, t, k, Put(o, d, "pending"), i, v, p \cup {QueuedEvent(d)}, S, U)
         /\ Waits(t, k, o, p) => Waits(t, k, Put(o, d, "pending"), p \cup {QueuedEvent(d)})
<1>. PICK q : q = p \cup {QueuedEvent(d)}
  OBVIOUS
<1>. PICK x : x = Put(o, d, "pending")
  OBVIOUS
<1>1. /\ DOMAIN x = DOMAIN o \cup {d}
      /\ x[d] = "pending"
      /\ \A e \in DOMAIN o : x[e] = o[e]
      /\ x \in [DOMAIN x -> OutboxStatus]
  BY DEF Good, Typed, Put, OutboxStatus
<1>2. IsFiniteSet(DOMAIN x)
  BY <1>1, FS_AddElement DEF Good, Typed
<1>3. Typed(s, t, k, x, i, v)
  BY <1>1, <1>2 DEF Good, Typed
<1>4. Mail(x, i)
  BY <1>1 DEF Good, Mail, Typed
<1>5. Recorded(x, q, S)
  BY <1>1 DEF Good, Recorded
<1>6. Untouched(k, x, q)
  BY <1>1, EventsDiffer, DispatchesDiffer DEF Good, Untouched
<1>7. GivenUp(t, k, q)
  BY EventsDiffer DEF Good, GivenUp
<1>8. Made(t, k, q, U)
  BY EventsDiffer DEF Good, Made
<1>9. Waits(t, k, o, p) => Waits(t, k, x, q)
  BY <1>1, EventsDiffer DEF Waits, Resumes
<1>. QED  BY <1>3, <1>4, <1>5, <1>6, <1>7, <1>8, <1>9 DEF Good

\* The host receives a message.
LEMMA GoodReceived ==
  ASSUME NEW s, NEW t, NEW k, NEW o, NEW i, NEW v, NEW p, NEW S, NEW U,
         Good(s, t, k, o, i, v, p, S, U), NEW d \in DOMAIN o
  PROVE  Good(s, t, k, o,
              Put(i, d, IF d \in DOMAIN i THEN [i[d] EXCEPT !.count = i[d].count + 1]
                        ELSE [status |-> "claimed", count |-> 1]), v, p, S, U)
<1>. PICK y : y = IF d \in DOMAIN i THEN [i[d] EXCEPT !.count = i[d].count + 1]
                  ELSE [status |-> "claimed", count |-> 1]
  OBVIOUS
<1>. PICK x : x = Put(i, d, y)
  OBVIOUS
<1>1. y \in InboxItem /\ y.status = IF d \in DOMAIN i THEN i[d].status ELSE "claimed"
  <2>1. CASE d \in DOMAIN i
    <3>1. i[d] \in InboxItem
      BY <2>1 DEF Good, Typed
    <3>2. \A z \in InboxItem : /\ [z EXCEPT !.count = z.count + 1] \in InboxItem
                               /\ [z EXCEPT !.count = z.count + 1].status = z.status
      BY DEF InboxItem
    <3>. QED  BY <2>1, <3>1, <3>2
  <2>2. CASE d \notin DOMAIN i
    BY <2>2 DEF InboxItem
  <2>. QED  BY <2>1, <2>2
<1>2. /\ DOMAIN x = DOMAIN i \cup {d}
      /\ x[d] = y
      /\ \A e \in DOMAIN i : e # d => x[e] = i[e]
      /\ x \in [DOMAIN x -> InboxItem]
  BY <1>1 DEF Good, Typed, Put
<1>3. Typed(s, t, k, o, x, v)
  BY <1>2 DEF Good, Typed
<1>4. Mail(o, x)
  BY <1>1, <1>2 DEF Good, Mail
<1>. QED  BY <1>3, <1>4 DEF Good

\* A run that took it ends.
LEMMA GoodConsumed ==
  ASSUME NEW s, NEW t, NEW k, NEW o, NEW i, NEW v, NEW p, NEW S, NEW U,
         Good(s, t, k, o, i, v, p, S, U), NEW d \in DOMAIN i
  PROVE  Good(s, t, k, [o EXCEPT ![d] = "acknowledged"],
              [i EXCEPT ![d].status = "consumed"], v, p, S, U)
<1>. PICK x : x = [o EXCEPT ![d] = "acknowledged"]
  OBVIOUS
<1>. PICK y : y = [i EXCEPT ![d].status = "consumed"]
  OBVIOUS
<1>1. /\ d \in DOMAIN o
      /\ o \in [DOMAIN o -> OutboxStatus]
      /\ i \in [DOMAIN i -> InboxItem]
  BY DEF Good, Typed
<1>2. /\ DOMAIN x = DOMAIN o
      /\ x[d] = "acknowledged"
      /\ \A e \in DOMAIN o : e # d => x[e] = o[e]
      /\ x \in [DOMAIN x -> OutboxStatus]
  BY <1>1 DEF OutboxStatus
<1>3. \A z \in InboxItem : /\ [z EXCEPT !.status = "consumed"] \in InboxItem
                           /\ [z EXCEPT !.status = "consumed"].status = "consumed"
  BY DEF InboxItem
<1>4. /\ DOMAIN y = DOMAIN i
      /\ y[d].status = "consumed"
      /\ \A e \in DOMAIN i : e # d => y[e] = i[e]
      /\ y \in [DOMAIN y -> InboxItem]
  <2>1. y = [e \in DOMAIN i |-> IF e = d THEN [i[d] EXCEPT !.status = "consumed"] ELSE i[e]]
    BY <1>1
  <2>2. PICK z : z = [i[d] EXCEPT !.status = "consumed"]
    OBVIOUS
  <2>3. z \in InboxItem /\ z.status = "consumed"
    <3>1. i[d] \in InboxItem
      BY <1>1
    <3>. QED  BY <1>3, <2>2, <3>1
  <2>4. y = [e \in DOMAIN i |-> IF e = d THEN z ELSE i[e]]
    BY <2>1, <2>2
  <2>. QED  BY ONLY <1>1, <2>3, <2>4, d \in DOMAIN i
<1>5. Typed(s, t, k, x, y, v)
  BY <1>2, <1>4 DEF Good, Typed
<1>6. Mail(x, y)
  BY <1>2, <1>4 DEF Good, Mail
<1>7. Recorded(x, p, S)
  BY <1>2 DEF Good, Recorded
<1>8. Untouched(k, x, p)
  BY <1>2 DEF Good, Untouched
<1>. QED  BY <1>5, <1>6, <1>7, <1>8 DEF Good

\* An unfinished dispatch is given back.
LEMMA GoodReleased ==
  ASSUME NEW s, NEW t, NEW k, NEW o, NEW i, NEW v, NEW p, NEW S, NEW U,
         Good(s, t, k, o, i, v, p, S, U), NEW d \in DOMAIN o, o[d] # "acknowledged"
  PROVE  /\ Good(s, t, k, [o EXCEPT ![d] = "pending"], Drop(i, d), v, p, S, U)
         /\ Waits(t, k, o, p) => Waits(t, k, [o EXCEPT ![d] = "pending"], p)
<1>. PICK x : x = [o EXCEPT ![d] = "pending"]
  OBVIOUS
<1>. PICK y : y = Drop(i, d)
  OBVIOUS
<1>1. /\ o \in [DOMAIN o -> OutboxStatus]
      /\ i \in [DOMAIN i -> InboxItem]
  BY DEF Good, Typed
<1>2. /\ DOMAIN x = DOMAIN o
      /\ x[d] = "pending"
      /\ \A e \in DOMAIN o : e # d => x[e] = o[e]
      /\ x \in [DOMAIN x -> OutboxStatus]
  BY <1>1 DEF OutboxStatus
<1>3. /\ DOMAIN y = DOMAIN i \ {d}
      /\ \A e \in DOMAIN y : y[e] = i[e]
      /\ y \in [DOMAIN y -> InboxItem]
  BY <1>1 DEF Drop
<1>4. Typed(s, t, k, x, y, v)
  BY <1>2, <1>3 DEF Good, Typed
<1>5. Mail(x, y)
  BY <1>2, <1>3 DEF Good, Mail
<1>6. Recorded(x, p, S)
  BY <1>2 DEF Good, Recorded
<1>7. Untouched(k, x, p)
  BY <1>2 DEF Good, Untouched
<1>8. Waits(t, k, o, p) => Waits(t, k, x, p)
  BY <1>2 DEF Waits, Resumes
<1>. QED  BY <1>4, <1>5, <1>6, <1>7, <1>8 DEF Good

\* Pending dispatches are marked attempted.
LEMMA GoodAttempted ==
  ASSUME NEW s, NEW t, NEW k, NEW o, NEW i, NEW v, NEW p, NEW S, NEW U,
         Good(s, t, k, o, i, v, p, S, U), NEW sent, \A d \in sent : d \in DOMAIN o /\ o[d] = "pending"
  PROVE  LET x == [d \in DOMAIN o |-> IF d \in sent THEN "attempted" ELSE o[d]]
         IN /\ Good(s, t, k, x, i, v, p, S, U)
            /\ Waits(t, k, o, p) => Waits(t, k, x, p)
            /\ DOMAIN x = DOMAIN o
            /\ {d \in DOMAIN x : x[d] # "acknowledged"} = {d \in DOMAIN o : o[d] # "acknowledged"}
<1>. PICK x : x = [d \in DOMAIN o |-> IF d \in sent THEN "attempted" ELSE o[d]]
  OBVIOUS
<1>1. /\ DOMAIN x = DOMAIN o
      /\ \A e \in DOMAIN o : x[e] = "acknowledged" <=> o[e] = "acknowledged"
      /\ x \in [DOMAIN x -> OutboxStatus]
  BY DEF Good, Typed, OutboxStatus
<1>2. Typed(s, t, k, x, i, v)
  BY <1>1 DEF Good, Typed
<1>3. Mail(x, i)
  BY <1>1 DEF Good, Mail
<1>4. Recorded(x, p, S)
  BY <1>1 DEF Good, Recorded
<1>5. Untouched(k, x, p)
  BY <1>1 DEF Good, Untouched
<1>6. Waits(t, k, o, p) => Waits(t, k, x, p)
  BY <1>1 DEF Waits, Resumes
<1>. QED  BY <1>1, <1>2, <1>3, <1>4, <1>5, <1>6 DEF Good

\* Outbox and inbox are cleared, and the turn with them or moved.
LEMMA GoodCleared ==
  ASSUME NEW s, NEW t, NEW k, NEW o, NEW i, NEW v, NEW p, NEW S, NEW U,
         Good(s, t, k, o, i, v, p, S, U), NEW z \in Session, NEW x,
         x = NoTurn \/ (t # NoTurn /\ x \in Turn /\ x.request = t.request),
         NEW w \in {"none", "retryable", "final"}
  PROVE  /\ Good(z, x, k, <<>>, <<>>, w, p, S, U)
         /\ Good(z, x, k, o, i, w, p, S, U)
<1>. PICK e : e = <<>>
  OBVIOUS
<1>1. DOMAIN e = {} /\ \A T : e \in [DOMAIN e -> T]
  OBVIOUS
<1>2. x = NoTurn \/ (x # NoTurn /\ t # NoTurn /\ x \in Turn /\ x.request = t.request)
  BY Turns
<1>3. Typed(z, x, k, e, e, w) /\ Typed(z, x, k, o, i, w)
  BY <1>1, <1>2, FS_EmptySet DEF Good, Typed
<1>4. Mail(e, e) /\ Recorded(e, p, S) /\ Untouched(k, e, p)
  BY <1>1 DEF Mail, Recorded, Untouched, Good
<1>5. Order(x, k)
  BY <1>2 DEF Good, Order
<1>6. GivenUp(x, k, p)
  BY <1>2 DEF Good, GivenUp
<1>7. Made(x, k, p, U)
  BY <1>2 DEF Good, Made
<1>. QED  BY <1>3, <1>4, <1>5, <1>6, <1>7 DEF Good

\* A new request's turn.
LEMMA GoodStarted ==
  ASSUME NEW s, NEW t, NEW k, NEW o, NEW i, NEW v, NEW p, NEW S, NEW U,
         Good(s, t, k, o, i, v, p, S, U), NEW z \in Session, NEW r \in Request, r \notin U
  PROVE  LET x == [request |-> r, session |-> z, phase |-> "active"]
             q == p \cup {StartedEvent(z, r)}
         IN /\ Good(z, x, k, o, i, "none", q, S, U \cup {r})
            /\ Good(z, x, k, <<>>, <<>>, "none", q, S, U \cup {r})
<1>. PICK x : x = [request |-> r, session |-> z, phase |-> "active"]
  OBVIOUS
<1>. PICK q : q = p \cup {StartedEvent(z, r)}
  OBVIOUS
<1>. PICK e : e = <<>>
  OBVIOUS
<1>1. DOMAIN e = {} /\ \A T : e \in [DOMAIN e -> T]
  OBVIOUS
<1>2. x \in Turn /\ x # NoTurn /\ x.request = r
  <2>1. "active" \in Phase
    BY DEF Phase
  <2>2. x \in Turn /\ x.request = r
    BY <2>1, Turns
  <2>. QED  BY <2>2, Turns
<1>3. \A n \in DOMAIN k : k[n].op[1] # r
  BY DEF Good, Made
<1>4. Typed(z, x, k, e, e, "none") /\ Typed(z, x, k, o, i, "none")
  BY <1>1, <1>2, FS_EmptySet DEF Good, Typed
<1>5. Mail(e, e) /\ Recorded(e, q, S) /\ Recorded(o, q, S)
  BY <1>1 DEF Mail, Recorded, Good
<1>6. Untouched(k, e, q) /\ Untouched(k, o, q)
  BY <1>1, EventsDiffer DEF Good, Untouched
<1>7. Order(x, k)
  BY <1>2, <1>3 DEF Order
<1>8. GivenUp(x, k, q)
  BY <1>2, <1>3, EventsDiffer DEF Good, GivenUp
<1>9. Made(x, k, q, U \cup {r})
  BY <1>2, EventsDiffer DEF Good, Made
<1>. QED  BY <1>4, <1>5, <1>6, <1>7, <1>8, <1>9 DEF Good

\* More is acknowledged, more requests are made.
LEMMA GoodMore ==
  ASSUME NEW s, NEW t, NEW k, NEW o, NEW i, NEW v, NEW p, NEW S, NEW U,
         Good(s, t, k, o, i, v, p, S, U), NEW V, U \subseteq V
  PROVE  Good(s, t, k, o, i, v, p, S \cup {d \in DOMAIN o : o[d] = "acknowledged"}, V)
BY DEF Good, Recorded, Made

\* A harness resume is recorded of a dispatch that was queued.
LEMMA GoodResumed ==
  ASSUME NEW s, NEW t, NEW k, NEW o, NEW i, NEW v, NEW p, NEW S, NEW U,
         Good(s, t, k, o, i, v, p, S, U), NEW r, NEW d \in DOMAIN o
  PROVE  Good(s, t, k, o, i, v, p \cup {ResumedEvent(r, d)}, S, U)
<1>. PICK q : q = p \cup {ResumedEvent(r, d)}
  OBVIOUS
<1>1. Recorded(o, q, S) /\ GivenUp(t, k, q) /\ Made(t, k, q, U)
  BY EventsDiffer DEF Good, Recorded, GivenUp, Made
<1>2. Untouched(k, o, q)
  BY EventsDiffer DEF Good, Untouched
<1>. QED  BY <1>1, <1>2 DEF Good

\* onAgentSettled gives up a compaction: it failed, or is of another turn.
LEMMA GoodGivenUp ==
  ASSUME NEW s, NEW t, NEW k, NEW o, NEW i, NEW v, NEW p, NEW S, NEW U,
         Good(s, t, k, o, i, v, p, S, U), NEW n \in DOMAIN k,
         (t # NoTurn /\ t.request = k[n].op[1]) => k[n].status # "prepared",
         NEW e, e = UncommittedEvent(k[n].op)
  PROVE  Good(s, t, k, o, i, v, p \cup {e}, S, U)
<1>. PICK q : q = p \cup {e}
  OBVIOUS
<1>1. Recorded(o, q, S) /\ Untouched(k, o, q) /\ Made(t, k, q, U)
  BY EventsDiffer DEF Good, Recorded, Untouched, Made
<1>2. GivenUp(t, k, q)
  BY EventsDiffer DEF Good, GivenUp, Distinct
<1>. QED  BY <1>1, <1>2 DEF Good

-----------------------------------------------------------------------------
(* The invariant, one transition at a time.                                *)

\* What every transition within a session leaves of the turn.
Frame(c, x) ==
  /\ x.session = c.session
  /\ x.turn = NoTurn <=> c.turn = NoTurn
  /\ c.turn # NoTurn => x.turn.request = c.turn.request /\ x.turn.session = c.turn.session
  /\ (c.turn # NoTurn /\ x.turn.phase = "completed") => c.turn.phase = "completed"

Keeps(c, x, S, U) ==
  /\ Sound(x, S, U)
  /\ Awaits(c) => Awaits(x)
  /\ Frame(c, x)

\* Transitions follow one another.
LEMMA FrameTransitive ==
  ASSUME NEW c, NEW x, NEW y, Frame(c, x), Frame(x, y)
  PROVE  Frame(c, y)
BY DEF Frame

\* What two transitions keep, both together keep.
LEMMA KeepsTransitive ==
  ASSUME NEW c, NEW x, NEW y, NEW S, NEW U, Keeps(c, x, S, U), Keeps(x, y, S, U)
  PROVE  Keeps(c, y, S, U)
BY FrameTransitive DEF Keeps

\* A transition that changes nothing keeps everything.
LEMMA KeepsSame ==
  ASSUME NEW c, NEW S, NEW U, Sound(c, S, U)
  PROVE  Keeps(c, c, S, U)
BY DEF Keeps, Frame

\* Soundness of a state put together is that of its parts.
LEMMA SoundIs ==
  ASSUME NEW s, NEW t, NEW k, NEW o, NEW i, NEW v, NEW p, NEW S, NEW U
  PROVE  /\ Sound(State(s, t, k, o, i, v, p), S, U) <=> Good(s, t, k, o, i, v, p, S, U)
         /\ Awaits(State(s, t, k, o, i, v, p)) <=> Waits(t, k, o, p)
BY Fields DEF Sound, Whole, Awaits

\* Every sound state is put together of good parts.
LEMMA Parts ==
  ASSUME NEW c, NEW S, NEW U, Sound(c, S, U)
  PROVE  \E s, t, k, o, i, v, p :
           c = State(s, t, k, o, i, v, p) /\ Good(s, t, k, o, i, v, p, S, U)
BY DEF Sound, Whole

\* A good turn is of a request that was made, whatever phase it takes.
LEMMA GoodTurn ==
  ASSUME NEW s, NEW t, NEW k, NEW o, NEW i, NEW v, NEW p, NEW S, NEW U,
         Good(s, t, k, o, i, v, p, S, U), t # NoTurn
  PROVE  /\ t \in Turn /\ t.request \in Request /\ t.session \in Session /\ t.phase \in Phase
         /\ t.request \in U
         /\ \A h \in Phase : /\ [t EXCEPT !.phase = h] # NoTurn
                             /\ [t EXCEPT !.phase = h].request = t.request
                             /\ [t EXCEPT !.phase = h].session = t.session
                             /\ [t EXCEPT !.phase = h].phase = h
BY Turns DEF Good, Typed, Made

\* The phases the transitions write.
LEMMA Phases ==
  /\ {"active", "compacting", "awaiting_resume", "resumed", "recoverable_failure",
      "completed", "interrupted"} \subseteq Phase
BY DEF Phase

\* continuation_queued keeps the invariant, for a sidecar or an attempt that ended.
LEMMA QueuedSound ==
  ASSUME NEW c, NEW S, NEW U, Sound(c, S, U), NEW d \in Dispatches,
         \A op \in OperationId : d = CompactionDispatch(op) => ~OnlyPrepared(c.compactions, op)
  PROVE  /\ Keeps(c, Queued(c, d), S, U)
         /\ Queued(c, d).turn = c.turn
<1>. PICK s, t, k, o, i, v, p :
       c = State(s, t, k, o, i, v, p) /\ Good(s, t, k, o, i, v, p, S, U)
  BY Parts
<1>1. c.session = s /\ c.turn = t /\ c.compactions = k
  BY Fields
<1>2. CASE d \in DOMAIN o \/ QueuedEvent(d) \in p
  <2>1. Queued(c, d) = c
    BY <1>2, QueuedBefore
  <2>. QED  BY <2>1, KeepsSame
<1>3. CASE ~(d \in DOMAIN o \/ QueuedEvent(d) \in p)
  <2>1. Queued(c, d) = State(s, t, k, Put(o, d, "pending"), i, v, p \cup {QueuedEvent(d)})
    BY <1>3, QueuedIs
  <2>2. /\ Good(s, t, k, Put(o, d, "pending"), i, v, p \cup {QueuedEvent(d)}, S, U)
        /\ Waits(t, k, o, p) => Waits(t, k, Put(o, d, "pending"), p \cup {QueuedEvent(d)})
    BY <1>1, <1>3, GoodQueued
  <2>. QED  BY <1>1, <2>1, <2>2, SoundIs, Fields DEF Keeps, Frame
<1>. QED  BY <1>2, <1>3

\* continuation_received keeps the invariant.
LEMMA ReceivedSound ==
  ASSUME NEW c, NEW S, NEW U, Sound(c, S, U), NEW d, NEW tag
  PROVE  Keeps(c, Received(c, d, tag), S, U)
<1>. PICK s, t, k, o, i, v, p :
       c = State(s, t, k, o, i, v, p) /\ Good(s, t, k, o, i, v, p, S, U)
  BY Parts
<1>. DEFINE j == Put(i, d, IF d \in DOMAIN i THEN [i[d] EXCEPT !.count = i[d].count + 1]
                           ELSE [status |-> "claimed", count |-> 1])
            e == <<"continuation_received", d, tag>>
<1>1. CASE Received(c, d, tag) = c
  BY <1>1, KeepsSame
<1>2. CASE d \in DOMAIN o /\ Received(c, d, tag) = State(s, t, k, o, j, v, p \cup {e})
  <2>1. Good(s, t, k, o, j, v, p, S, U)
    BY <1>2, GoodReceived
  <2>2. Neutral(e)
    BY NeutralEvents
  <2>. HIDE DEF j, e
  <2>3. /\ Good(s, t, k, o, j, v, p \cup {e}, S, U)
        /\ Waits(t, k, o, p) => Waits(t, k, o, p \cup {e})
    BY <2>1, <2>2, GoodNeutral
  <2>. QED  BY <1>2, <2>3, SoundIs, Fields DEF Keeps, Frame
<1>. QED  BY <1>1, <1>2, ReceivedIs

\* continuation_released keeps the invariant, after a run and at a restored start.
LEMMA ReleasedSound ==
  ASSUME NEW c, NEW S, NEW U, Sound(c, S, U), NEW d
  PROVE  /\ Keeps(c, Released(c, d), S, U)
         /\ Keeps(c, ReleasedAtStart(c, d), S, U)
<1>. PICK s, t, k, o, i, v, p :
       c = State(s, t, k, o, i, v, p) /\ Good(s, t, k, o, i, v, p, S, U)
  BY Parts
<1>. DEFINE e == <<"continuation_released", d, SessionReconcile>>
            x == [o EXCEPT ![d] = "pending"]
<1>1. Keeps(c, c, S, U)
  BY KeepsSame
<1>2. ASSUME d \in DOMAIN o, o[d] # "acknowledged"
      PROVE  /\ Keeps(c, State(s, t, k, x, Drop(i, d), v, p), S, U)
             /\ Keeps(c, State(s, t, k, x, Drop(i, d), v, p \cup {e}), S, U)
  <2>1. /\ Good(s, t, k, x, Drop(i, d), v, p, S, U)
        /\ Waits(t, k, o, p) => Waits(t, k, x, p)
    BY <1>2, GoodReleased
  <2>2. Neutral(e)
    BY NeutralEvents
  <2>. HIDE DEF x, e
  <2>3. /\ Good(s, t, k, x, Drop(i, d), v, p \cup {e}, S, U)
        /\ Waits(t, k, x, p) => Waits(t, k, x, p \cup {e})
    BY <2>1, <2>2, GoodNeutral
  <2>. QED  BY <2>1, <2>3, SoundIs, Fields DEF Keeps, Frame
<1>3. /\ Released(c, d) # c =>
           /\ d \in DOMAIN o /\ o[d] # "acknowledged"
           /\ Released(c, d) = State(s, t, k, x, Drop(i, d), v, p)
      /\ ReleasedAtStart(c, d) # c =>
           /\ d \in DOMAIN o /\ o[d] # "acknowledged"
           /\ ReleasedAtStart(c, d) = State(s, t, k, x, Drop(i, d), v, p \cup {e})
  BY ONLY c = State(s, t, k, o, i, v, p)
     DEF Released, ReleasedAtStart, CanRelease, GiveBack, Commit, State
<1>. HIDE DEF x, e
<1>. QED  BY <1>1, <1>2, <1>3

\* Marking pending dispatches as attempted keeps the invariant.
LEMMA AttemptSound ==
  ASSUME NEW c, NEW S, NEW U, Sound(c, S, U), NEW sent \in SUBSET Pending(c)
  PROVE  /\ Keeps(c, Attempt(c, sent), S, U)
         /\ Attempt(c, sent).turn = c.turn
<1>. PICK s, t, k, o, i, v, p :
       c = State(s, t, k, o, i, v, p) /\ Good(s, t, k, o, i, v, p, S, U)
  BY Parts
<1>. DEFINE x == [d \in DOMAIN o |-> IF d \in sent THEN "attempted" ELSE o[d]]
<1>1. \A d \in sent : d \in DOMAIN o /\ o[d] = "pending"
  BY Fields DEF Pending
<1>2. Attempt(c, sent) = State(s, t, k, x, i, v, p)
  BY AttemptIs
<1>3. Good(s, t, k, x, i, v, p, S, U) /\ (Waits(t, k, o, p) => Waits(t, k, x, p))
  BY <1>1, GoodAttempted
<1>. HIDE DEF x
<1>. QED  BY <1>2, <1>3, SoundIs, Fields DEF Keeps, Frame

\* Every nonempty set of natural numbers has a least one.
LEMMA LeastNumber ==
  ASSUME NEW T \in SUBSET Nat, T # {}
  PROVE  \E x \in T : \A y \in T : x <= y
<1>1. PICK R : R = OpToRel(<, Nat)
  OBVIOUS
<1>2. IsWellFoundedOn(R, Nat)
  BY <1>1, NatLessThanWellFounded
<1>3. PICK x \in T : \A y \in T : <<y, x>> \notin R
  BY <1>2, WFMin
<1>4. ASSUME NEW y \in T PROVE ~(y < x)
  BY <1>1, <1>3 DEF OpToRel
<1>. QED  BY <1>4

\* The latest of a finite set of positions.
LEMMA LatestIs ==
  ASSUME NEW k, NEW l \in Nat, NEW I \in SUBSET (1 .. l), I # {}
  PROVE  Latest(I) \in I /\ \A n \in I : n <= Latest(I)
<1>. DEFINE P(m) == \A n \in I : n <= m
<1>1. P(l)
  OBVIOUS
<1>. DEFINE B == {m \in Nat : P(m)}
<1>2. \E m \in I : P(m)
  <2>1. B # {} /\ B \subseteq Nat
    BY <1>1
  <2>2. PICK m \in B : \A n \in B : m <= n
    <3>. HIDE DEF B
    <3>. QED  BY <2>1, LeastNumber
  <2>3. CASE m \in I
    BY <2>2, <2>3
  <2>4. CASE m \notin I
    <3>1. PICK n : n \in I
      OBVIOUS
    <3>2. m >= 1 /\ m - 1 \in Nat /\ P(m - 1)
      BY <2>2, <2>4, <3>1
    <3>. QED  BY <2>2, <3>2
  <2>. QED  BY <2>3, <2>4
<1>. QED  BY <1>2 DEF Latest

\* turn_resumed keeps the invariant: the turn no longer waits.
LEMMA ResumedSound ==
  ASSUME NEW c, NEW S, NEW U, Sound(c, S, U), c.turn # NoTurn
  PROVE  /\ Keeps(c, Resumed(c), S, U)
         /\ Resumed(c).turn.phase = "resumed"
         /\ Resumed(c).outbox = c.outbox
         /\ Resumed(c).processed = c.processed
<1>. PICK s, t, k, o, i, v, p :
       c = State(s, t, k, o, i, v, p) /\ Good(s, t, k, o, i, v, p, S, U)
  BY Parts
<1>. PICK h, w : h = "resumed" /\ w = "none"
  OBVIOUS
<1>. DEFINE mine == {n \in DOMAIN k : k[n].op[1] = t.request}
            x == [t EXCEPT !.phase = h]
<1>0. t # NoTurn /\ h \in Phase /\ w \in {"none", "retryable", "final"}
  BY Fields, Phases
<1>1. t.session = x.session /\ t.request = x.request /\ x.phase = h /\ x # NoTurn
  BY <1>0, GoodTurn
<1>2. Good(s, x, k, o, i, w, p, S, U)
  BY <1>0, GoodPhase
<1>. PICK y : y = x
  OBVIOUS
<1>. HIDE DEF x
<1>3. CASE Resumed(c) = c /\ t.phase = "resumed"
  BY <1>3, KeepsSame, Fields
<1>4. CASE Resumed(c) = State(s, x, k, o, i, "none", p)
  <2>1. Waits(x, k, o, p)
    BY <1>1 DEF Waits
  <2>. QED  BY <1>0, <1>1, <1>2, <1>4, <2>1, SoundIs, Fields DEF Keeps, Frame
<1>5. ASSUME mine # {}, Resumed(c) = State(s, x, Ended(k, Latest(mine), "resumed"), o, i, "none", p)
      PROVE  /\ Keeps(c, Resumed(c), S, U)
             /\ Resumed(c).turn.phase = "resumed"
             /\ Resumed(c).outbox = c.outbox
             /\ Resumed(c).processed = c.processed
  <2>. PICK n : n = Latest(mine)
    OBVIOUS
  <2>1. n \in DOMAIN k
    <3>1. k \in Seq(Compaction)
      BY DEF Good, Typed
    <3>2. PICK l \in Nat : DOMAIN k = 1 .. l
      BY <3>1
    <3>3. mine \in SUBSET (1 .. l)
      BY <3>2
    <3>. HIDE DEF mine
    <3>. QED  BY <1>5, <3>2, <3>3, LatestIs
  <2>. PICK z : z = Ended(k, n, "resumed")
    OBVIOUS
  <2>2. Good(s, x, z, o, i, w, p, S, U)
    BY <1>2, <2>1, GoodStatus
  <2>3. Waits(x, z, o, p)
    BY <1>1 DEF Waits
  <2>4. Resumed(c) = State(s, x, z, o, i, w, p)
    BY <1>5
  <2>. QED  BY ONLY c = State(s, t, k, o, i, v, p), h = "resumed",
                    <1>0, <1>1, <2>2, <2>3, <2>4, SoundIs, Fields DEF Keeps, Frame
<1>6. \/ Resumed(c) = c /\ t.phase = "resumed"
      \/ Resumed(c) = State(s, x, k, o, i, "none", p)
      \/ /\ mine # {}
         /\ Resumed(c) = State(s, x, Ended(k, Latest(mine), "resumed"), o, i, "none", p)
  <2>. USE DEF x
  <2>. QED  BY ONLY c = State(s, t, k, o, i, v, p), h = "resumed"
            DEF Resumed, TurnCompactions, SetCompaction, Ended, State
<1>. HIDE DEF mine
<1>. QED  BY <1>3, <1>4, <1>5, <1>6

\* continuation_consumed is sound and touches one dispatch; by itself it may leave
\* a waiting turn without what resumes it.
LEMMA ConsumedSound ==
  ASSUME NEW c, NEW S, NEW U, Sound(c, S, U), NEW d \in DOMAIN c.outbox
  PROVE  LET x == Consumed(c, d)
         IN /\ Sound(x, S, U) /\ Frame(c, x)
            /\ x.turn = c.turn /\ x.compactions = c.compactions
            /\ DOMAIN x.outbox = DOMAIN c.outbox
            /\ \A e \in DOMAIN c.outbox : e # d => x.outbox[e] = c.outbox[e]
            /\ \A r, e : ResumedEvent(r, e) \in x.processed <=> ResumedEvent(r, e) \in c.processed
<1>. PICK s, t, k, o, i, v, p :
       c = State(s, t, k, o, i, v, p) /\ Good(s, t, k, o, i, v, p, S, U)
  BY Parts
<1>. PICK ev : ev = <<"continuation_consumed", d>>
  OBVIOUS
<1>. PICK x, y : x = [o EXCEPT ![d] = "acknowledged"] /\ y = [i EXCEPT ![d].status = "consumed"]
  OBVIOUS
<1>1. \/ Consumed(c, d) = c
      \/ d \in DOMAIN i /\ Consumed(c, d) = State(s, t, k, x, y, v, p \cup {ev})
  <2>1. d \in DOMAIN o
    BY Fields
  <2>. QED  BY ONLY <2>1, c = State(s, t, k, o, i, v, p), ev = <<"continuation_consumed", d>>,
                    x = [o EXCEPT ![d] = "acknowledged"], y = [i EXCEPT ![d].status = "consumed"]
            DEF Consumed, Receipt, Commit, State
<1>2. CASE Consumed(c, d) = c
  BY <1>2 DEF Frame
<1>3. CASE d \in DOMAIN i /\ Consumed(c, d) = State(s, t, k, x, y, v, p \cup {ev})
  <2>1. Good(s, t, k, x, y, v, p, S, U)
    BY <1>3, GoodConsumed
  <2>2. Neutral(ev)
    BY NeutralEvents
  <2>3. Good(s, t, k, x, y, v, p \cup {ev}, S, U)
    BY <2>1, <2>2, GoodNeutral
  <2>4. \A r, e : ResumedEvent(r, e) \in p \cup {ev} <=> ResumedEvent(r, e) \in p
    BY <2>2 DEF Neutral
  <2>5. DOMAIN x = DOMAIN o /\ \A e \in DOMAIN o : e # d => x[e] = o[e]
    BY DEF Good, Typed
  <2>. QED  BY ONLY c = State(s, t, k, o, i, v, p), <1>3, <2>3, <2>4, <2>5, SoundIs, Fields DEF Frame
<1>. QED  BY <1>1, <1>2, <1>3

\* The resume by the harness takes the turn on, unless its event was processed.
LEMMA ResumedByHarnessSound ==
  ASSUME NEW c, NEW S, NEW U, Sound(c, S, U), c.turn # NoTurn, NEW d \in DOMAIN c.outbox
  PROVE  LET x == ResumedByHarness(c, d)
         IN /\ Sound(x, S, U) /\ Frame(c, x)
            /\ \/ x = c /\ ResumedEvent(c.turn.request, d) \in c.processed
               \/ x.turn.phase = "resumed"
<1>. PICK e : e = ResumedEvent(c.turn.request, d)
  OBVIOUS
<1>. PICK y : y = Resumed(c)
  OBVIOUS
<1>1. /\ Sound(y, S, U) /\ Frame(c, y) /\ y.turn.phase = "resumed"
      /\ y.outbox = c.outbox /\ y.processed = c.processed
  BY ResumedSound DEF Keeps
<1>2. PICK s, t, k, o, i, v, p : y = State(s, t, k, o, i, v, p) /\ Good(s, t, k, o, i, v, p, S, U)
  BY <1>1, Parts
<1>3. p = c.processed /\ o = c.outbox
  BY <1>1, <1>2, Fields
<1>4. CASE e \in c.processed
  <2>1. ResumedByHarness(c, d) = c
    BY <1>4 DEF ResumedByHarness, HarnessResume, ResumedEvent, Commit
  <2>. QED  BY <1>4, <2>1 DEF Frame
<1>5. CASE e \notin c.processed
  <2>1. ResumedByHarness(c, d) = [y EXCEPT !.processed = c.processed \cup {e}]
    BY <1>5 DEF ResumedByHarness, HarnessResume, ResumedEvent, Commit
  <2>2. [y EXCEPT !.processed = p \cup {e}] = State(s, t, k, o, i, v, p \cup {e})
    BY <1>2 DEF State
  <2>3. ResumedByHarness(c, d) = State(s, t, k, o, i, v, p \cup {e})
    BY <1>3, <2>1, <2>2
  <2>4. Good(s, t, k, o, i, v, p \cup {e}, S, U)
    BY <1>2, <1>3, GoodResumed
  <2>. QED  BY ONLY <1>1, <1>2, <2>3, <2>4, SoundIs, Fields DEF Frame
<1>. QED  BY <1>4, <1>5

\* consumeContinuation as a whole keeps a waiting turn resumable.
LEMMA ConsumeSound ==
  ASSUME NEW c, NEW S, NEW U, Sound(c, S, U), NEW d
  PROVE  Keeps(c, Consume(c, d), S, U)
<1>1. CASE d \notin DOMAIN c.outbox
  BY <1>1, KeepsSame DEF Consume
<1>2. CASE d \in DOMAIN c.outbox
  <2>. PICK u : u = Consumed(c, d)
    OBVIOUS
  <2>1. /\ Sound(u, S, U) /\ Frame(c, u)
        /\ u.turn = c.turn /\ u.compactions = c.compactions
        /\ DOMAIN u.outbox = DOMAIN c.outbox
        /\ \A e \in DOMAIN c.outbox : e # d => u.outbox[e] = c.outbox[e]
        /\ \A r, e : ResumedEvent(r, e) \in u.processed <=> ResumedEvent(r, e) \in c.processed
    BY <1>2, ConsumedSound
  <2>2. ASSUME \A op : (/\ d = CompactionDispatch(op)
                         /\ c.turn # NoTurn /\ c.turn.phase = "awaiting_resume")
                        => ResumedEvent(c.turn.request, d) \in c.processed,
               Awaits(c)
        PROVE  Awaits(u)
    <3>. SUFFICES ASSUME c.turn # NoTurn, c.turn.phase = "awaiting_resume"
                  PROVE  \E n \in DOMAIN u.compactions :
                           Resumes(u.turn, u.compactions, u.outbox, u.processed, n)
      BY <2>1 DEF Awaits, Waits
    <3>1. PICK n \in DOMAIN c.compactions :
            Resumes(c.turn, c.compactions, c.outbox, c.processed, n)
      BY <2>2 DEF Awaits, Waits
    <3>2. Resumes(u.turn, u.compactions, u.outbox, u.processed, n)
      BY <2>1, <2>2, <3>1 DEF Resumes
    <3>. QED  BY <2>1, <3>1, <3>2
  <2>3. CASE IsCompactionDispatch(d) /\ u.turn # NoTurn /\ u.turn.phase = "awaiting_resume"
    <3>. PICK x : x = ResumedByHarness(u, d)
      OBVIOUS
    <3>1. /\ Sound(x, S, U) /\ Frame(u, x)
          /\ \/ x = u /\ ResumedEvent(u.turn.request, d) \in u.processed
             \/ x.turn.phase = "resumed"
      BY <1>2, <2>1, <2>3, ResumedByHarnessSound
    <3>2. Consume(c, d) = x
      BY <1>2, <2>3 DEF Consume
    <3>3. Awaits(c) => Awaits(x)
      <4>1. CASE x.turn.phase = "resumed"
        BY <4>1 DEF Awaits, Waits
      <4>2. CASE x = u /\ ResumedEvent(u.turn.request, d) \in u.processed
        BY <2>1, <2>2, <4>2
      <4>. QED  BY <3>1, <4>1, <4>2
    <3>4. Frame(c, x)
      BY <2>1, <3>1, FrameTransitive
    <3>. QED  BY <3>1, <3>2, <3>3, <3>4 DEF Keeps
  <2>4. CASE ~(IsCompactionDispatch(d) /\ u.turn # NoTurn /\ u.turn.phase = "awaiting_resume")
    <3>1. Consume(c, d) = u
      BY <1>2, <2>4 DEF Consume
    <3>2. \A op : d = CompactionDispatch(op) => IsCompactionDispatch(d)
      BY DispatchesDiffer
    <3>3. Awaits(c) => Awaits(u)
      BY <2>1, <2>2, <2>4, <3>2
    <3>. QED  BY <2>1, <3>1, <3>3 DEF Keeps
  <2>. QED  BY <2>3, <2>4
<1>. QED  BY <1>1, <1>2

\* A compaction that is committed makes the turn wait, or was of another turn.
LEMMA SucceededSound ==
  ASSUME NEW c, NEW S, NEW U, Sound(c, S, U), NEW n \in DOMAIN c.compactions
  PROVE  LET x == CompactionSucceeded(c, n)
         IN /\ Sound(x, S, U) /\ Frame(c, x)
            /\ ~Matches(c, c.compactions[n].op) => (Awaits(c) => Awaits(x))
            /\ Matches(c, c.compactions[n].op) =>
                 /\ c.turn # NoTurn
                 /\ x.turn.phase = "awaiting_resume"
                 /\ x.turn.request = c.compactions[n].op[1]
                 /\ x.outbox = c.outbox /\ x.processed = c.processed
                 /\ n \in DOMAIN x.compactions
                 /\ x.compactions[n].op = c.compactions[n].op
                 /\ x.compactions[n].owner = c.compactions[n].owner
                 /\ x.compactions[n].status = "committed"
<1>. PICK s, t, k, o, i, v, p :
       c = State(s, t, k, o, i, v, p) /\ Good(s, t, k, o, i, v, p, S, U)
  BY Parts
<1>. PICK w, f, st, h : w = "none" /\ f = "final" /\ st = "committed" /\ h = "awaiting_resume"
  OBVIOUS
<1>. PICK y : y = Ended(k, n, st)
  OBVIOUS
<1>. PICK z : z = [t EXCEPT !.phase = h]
  OBVIOUS
<1>0. /\ n \in DOMAIN k /\ c.compactions[n].op = k[n].op /\ c.turn = t /\ c.session = s
      /\ st \in {"committed", "resumed", "failed"} /\ h \in Phase
      /\ {w, f} \subseteq {"none", "retryable", "final"}
  BY Fields, Phases
<1>1. CASE ~Matches(c, k[n].op)
  <2>1. CompactionSucceeded(c, n) = State(s, t, k, o, i, f, p)
    BY ONLY <1>1, c = State(s, t, k, o, i, v, p), f = "final"
       DEF CompactionSucceeded, Matches, SetCompaction, State
  <2>2. Good(s, t, k, o, i, f, p, S, U)
    BY <1>0, GoodRecovery
  <2>. QED  BY <1>0, <1>1, <2>1, <2>2, SoundIs, Fields DEF Frame
<1>2. CASE Matches(c, k[n].op)
  <2>1. t # NoTurn /\ k[n].op[1] = t.request /\ CompactionSucceeded(c, n) = State(s, z, y, o, i, w, p)
    BY ONLY <1>2, c = State(s, t, k, o, i, v, p), w = "none", h = "awaiting_resume", st = "committed",
            y = Ended(k, n, st), z = [t EXCEPT !.phase = h]
       DEF CompactionSucceeded, Matches, SetCompaction, Ended, State
  <2>2. Good(s, z, k, o, i, w, p, S, U)
    BY <1>0, <2>1, GoodPhase
  <2>3. /\ Good(s, z, y, o, i, w, p, S, U)
        /\ DOMAIN y = DOMAIN k /\ y[n].op = k[n].op /\ y[n].owner = k[n].owner /\ y[n].status = st
    BY <1>0, <2>2, GoodStatus
  <2>4. z # NoTurn /\ z.request = t.request /\ z.session = t.session /\ z.phase = h
    BY <1>0, <2>1, GoodTurn
  <2>. QED  BY ONLY c = State(s, t, k, o, i, v, p), st = "committed", h = "awaiting_resume",
                    <1>0, <1>2, <2>1, <2>3, <2>4, SoundIs, Fields DEF Frame
<1>. QED  BY <1>1, <1>2

\* A compaction that fails leaves a recovery note, unless its event was processed.
LEMMA FailedSound ==
  ASSUME NEW c, NEW S, NEW U, Sound(c, S, U), NEW n \in DOMAIN c.compactions, NEW reason,
         \/ reason = "aborted"
         \/ /\ reason = "settled-without-commit"
            /\ c.turn # NoTurn => c.turn.session = c.session
  PROVE  LET x == CompactionFailed(c, n, reason)
         IN /\ Keeps(c, x, S, U)
            /\ \/ x = c /\ <<"compaction_failed", c.compactions[n].op, reason>> \in c.processed
               \/ x.recovery \in {"final", "retryable"}
<1>. PICK s, t, k, o, i, v, p :
       c = State(s, t, k, o, i, v, p) /\ Good(s, t, k, o, i, v, p, S, U)
  BY Parts
<1>. PICK w, f, st, h :
       w = "retryable" /\ f = "final" /\ st = "failed" /\ h = "recoverable_failure"
  OBVIOUS
<1>. PICK y : y = Ended(k, n, st)
  OBVIOUS
<1>. PICK z : z = [t EXCEPT !.phase = h]
  OBVIOUS
<1>. PICK e : e = <<"compaction_failed", k[n].op, reason>>
  OBVIOUS
<1>. DEFINE matches == t # NoTurn /\ k[n].op[1] = t.request /\ t.session = s
<1>0. /\ n \in DOMAIN k /\ c.compactions = k /\ c.turn = t /\ c.session = s /\ c.processed = p
      /\ st \in {"committed", "resumed", "failed"} /\ st # "prepared" /\ h \in Phase
      /\ {w, f} \subseteq {"none", "retryable", "final"}
  BY Fields, Phases
<1>1. /\ e \in p => CompactionFailed(c, n, reason) = c
      /\ e \notin p /\ ~matches => CompactionFailed(c, n, reason) = State(s, t, k, o, i, f, p \cup {e})
      /\ e \notin p /\ matches => CompactionFailed(c, n, reason) = State(s, z, y, o, i, w, p \cup {e})
  BY ONLY c = State(s, t, k, o, i, v, p), f = "final", w = "retryable", h = "recoverable_failure",
          st = "failed", y = Ended(k, n, st), z = [t EXCEPT !.phase = h],
          e = <<"compaction_failed", k[n].op, reason>>
     DEF CompactionFailed, Commit, Matches, SetCompaction, Ended, State
<1>2. Neutral(e) \/ (e = UncommittedEvent(k[n].op) /\ (t # NoTurn => t.session = s))
  BY <1>0, NeutralEvents DEF UncommittedEvent
<1>3. CASE e \in p
  BY <1>0, <1>1, <1>3, KeepsSame
<1>4. CASE e \notin p /\ ~matches
  <2>1. Good(s, t, k, o, i, f, p, S, U)
    BY <1>0, GoodRecovery
  <2>2. Good(s, t, k, o, i, f, p \cup {e}, S, U)
    BY <1>0, <1>2, <1>4, <2>1, GoodNeutral, GoodGivenUp
  <2>3. Waits(t, k, o, p) => Waits(t, k, o, p \cup {e})
    <3>1. \A r, d : e # ResumedEvent(r, d)
      BY <1>2, EventsDiffer DEF Neutral
    <3>. QED  BY <3>1 DEF Waits, Resumes
  <2>4. CompactionFailed(c, n, reason) = State(s, t, k, o, i, f, p \cup {e})
    BY <1>1, <1>4
  <2>. QED  BY ONLY c = State(s, t, k, o, i, v, p), f = "final",
                    <2>2, <2>3, <2>4, SoundIs, Fields DEF Keeps, Frame
<1>5. CASE e \notin p /\ matches
  <2>1. Good(s, z, k, o, i, w, p, S, U)
    BY <1>0, <1>5, GoodPhase
  <2>2. Good(s, z, y, o, i, w, p, S, U) /\ DOMAIN y = DOMAIN k /\ y[n].op = k[n].op /\ y[n].status = st
    BY <1>0, <2>1, GoodStatus
  <2>3. Good(s, z, y, o, i, w, p \cup {e}, S, U)
    <3>1. CASE Neutral(e)
      BY <2>2, <3>1, GoodNeutral
    <3>2. CASE e = UncommittedEvent(k[n].op)
      <4>1. e = UncommittedEvent(y[n].op) /\ n \in DOMAIN y /\ y[n].status # "prepared"
        BY <1>0, <2>2, <3>2
      <4>. QED  BY <2>2, <4>1, GoodGivenUp
    <3>. QED  BY <1>2, <3>1, <3>2
  <2>4. z # NoTurn /\ z.request = t.request /\ z.session = t.session /\ z.phase = h
    BY <1>0, <1>5, GoodTurn
  <2>5. Waits(z, y, o, p \cup {e})
    BY <2>4 DEF Waits
  <2>6. CompactionFailed(c, n, reason) = State(s, z, y, o, i, w, p \cup {e}) /\ t # NoTurn
    BY <1>1, <1>5
  <2>. QED  BY ONLY c = State(s, t, k, o, i, v, p), w = "retryable", h = "recoverable_failure",
                    <2>3, <2>4, <2>5, <2>6, SoundIs, Fields DEF Keeps, Frame
<1>. QED  BY <1>3, <1>4, <1>5

\* The attempt that the handlers take for the current one.
LEMMA PreparedOf ==
  ASSUME NEW c, NEW S, NEW U, Sound(c, S, U), PreparedCompactions(c) # {}
  PROVE  LET n == Latest(PreparedCompactions(c))
         IN /\ n \in DOMAIN c.compactions
            /\ c.compactions[n].status = "prepared"
            /\ c.compactions[n].op \in OperationId
            /\ c.compactions[n].owner \in {"harness", "native"}
            /\ \A m \in DOMAIN c.compactions : c.compactions[m].status = "prepared" => m <= n
<1>1. c.compactions \in Seq(Compaction)
  BY DEF Sound, Good, Typed
<1>2. PICK l \in Nat : DOMAIN c.compactions = 1 .. l
  BY <1>1
<1>3. PICK n : n = Latest(PreparedCompactions(c))
  OBVIOUS
<1>4. n \in PreparedCompactions(c) /\ \A m \in PreparedCompactions(c) : m <= n
  <2>1. PreparedCompactions(c) \in SUBSET (1 .. l)
    BY <1>2 DEF PreparedCompactions
  <2>. QED  BY <1>2, <1>3, <2>1, LatestIs
<1>5. n \in DOMAIN c.compactions => c.compactions[n] \in Compaction
  BY <1>1
<1>. QED  BY <1>3, <1>4, <1>5 DEF PreparedCompactions, Compaction

\* onAgentSettled records a compaction that never came to an end as failed;
\* what remains prepared then is of no turn or keeps the turn open.
LEMMA WithoutPreparedSound ==
  ASSUME NEW c, NEW S, NEW U, Sound(c, S, U), c.turn # NoTurn => c.turn.session = c.session
  PROVE  LET x == WithoutPrepared(c)
         IN /\ Keeps(c, x, S, U)
            /\ (x.turn # NoTurn /\ ~Open(x)) =>
                 \A m \in DOMAIN x.compactions :
                   x.compactions[m].op[1] = x.turn.request => x.compactions[m].status # "prepared"
<1>1. CASE PreparedCompactions(c) = {}
  <2>1. WithoutPrepared(c) = c
    BY <1>1 DEF WithoutPrepared
  <2>. QED  BY <1>1, <2>1, KeepsSame DEF PreparedCompactions
<1>2. CASE PreparedCompactions(c) # {}
  <2>. PICK n : n = Latest(PreparedCompactions(c))
    OBVIOUS
  <2>. PICK x : x = WithoutPrepared(c)
    OBVIOUS
  <2>1. /\ n \in DOMAIN c.compactions
        /\ c.compactions[n].status = "prepared"
        /\ c.compactions[n].op \in OperationId
        /\ \A m \in DOMAIN c.compactions : c.compactions[m].status = "prepared" => m <= n
    BY <1>2, PreparedOf
  <2>2. x = CompactionFailed(c, n, "settled-without-commit")
    BY <1>2 DEF WithoutPrepared
  <2>3. /\ Keeps(c, x, S, U)
        /\ \/ x = c /\ UncommittedEvent(c.compactions[n].op) \in c.processed
           \/ x.recovery \in {"final", "retryable"}
    BY <2>1, <2>2, FailedSound DEF UncommittedEvent
  <2>4. CASE x.recovery \in {"final", "retryable"}
    BY <2>3, <2>4 DEF Open
  <2>5. CASE x = c /\ UncommittedEvent(c.compactions[n].op) \in c.processed
    <3>. SUFFICES ASSUME c.turn # NoTurn, NEW m \in DOMAIN c.compactions,
                         c.compactions[m].op[1] = c.turn.request,
                         c.compactions[m].status = "prepared"
                  PROVE  FALSE
      BY <2>3, <2>5
    <3>1. c.compactions[n].op[1] = c.turn.request
      BY <2>1 DEF Sound, Good, Order
    <3>. QED  BY <2>1, <2>5, <3>1 DEF Sound, Good, GivenUp
  <2>. QED  BY <2>3, <2>4, <2>5
<1>. QED  BY <1>1, <1>2

\* afterCompaction: the attempt of the turn is committed and, unless the host
\* resumes it, its continuation queued.
LEMMA CommittedSound ==
  ASSUME NEW c, NEW S, NEW U, Sound(c, S, U), NEW n \in DOMAIN c.compactions,
         c.compactions[n].status = "prepared",
         c.compactions[n].op \in OperationId,
         c.compactions[n].owner \in {"harness", "native"}
  PROVE  LET x == CompactionSucceeded(c, n)
             dispatches == Matches(c, c.compactions[n].op) /\ c.compactions[n].owner = "harness"
             q == IF dispatches THEN Queued(x, CompactionDispatch(c.compactions[n].op)) ELSE x
         IN /\ Sound(x, S, U) /\ Frame(c, x)
            /\ Keeps(c, q, S, U)
<1>. PICK x : x = CompactionSucceeded(c, n)
  OBVIOUS
<1>. PICK op, d : op = c.compactions[n].op /\ d = CompactionDispatch(op)
  OBVIOUS
<1>1. /\ Sound(x, S, U) /\ Frame(c, x)
      /\ ~Matches(c, op) => (Awaits(c) => Awaits(x))
      /\ Matches(c, op) =>
           /\ c.turn # NoTurn
           /\ x.turn.phase = "awaiting_resume"
           /\ x.turn.request = op[1]
           /\ x.outbox = c.outbox /\ x.processed = c.processed
           /\ n \in DOMAIN x.compactions
           /\ x.compactions[n].op = op
           /\ x.compactions[n].owner = c.compactions[n].owner
           /\ x.compactions[n].status = "committed"
  BY SucceededSound
<1>2. CASE ~Matches(c, op)
  BY <1>1, <1>2 DEF Keeps
<1>3. CASE Matches(c, op) /\ c.compactions[n].owner # "harness"
  <2>1. Resumes(x.turn, x.compactions, x.outbox, x.processed, n)
    BY <1>1, <1>3 DEF Resumes
  <2>2. Awaits(x)
    BY <1>1, <1>3, <2>1 DEF Awaits, Waits
  <2>. QED  BY <1>1, <1>3, <2>2 DEF Keeps
<1>4. CASE Matches(c, op) /\ c.compactions[n].owner = "harness"
  <2>1. OnlyPrepared(c.compactions, op)
    BY DEF OnlyPrepared, Sound, Good, Distinct
  <2>2. /\ d \notin DOMAIN c.outbox /\ QueuedEvent(d) \notin c.processed
        /\ \A r \in Request : ResumedEvent(r, d) \notin c.processed
    BY <2>1 DEF Sound, Good, Untouched
  <2>3. d \in Dispatches /\ op[1] \in Request
    BY DispatchesDiffer
  <2>4. \A y \in OperationId : d = CompactionDispatch(y) => ~OnlyPrepared(x.compactions, y)
    <3>1. \A y \in OperationId : d = CompactionDispatch(y) => y = op
      BY DispatchesDiffer
    <3>. QED  BY <1>1, <1>4, <3>1 DEF OnlyPrepared
  <2>. PICK q : q = Queued(x, d)
    OBVIOUS
  <2>5. Keeps(x, q, S, U)
    BY <1>1, <2>3, <2>4, QueuedSound
  <2>6. PICK s, t, k, o, i, v, p : x = State(s, t, k, o, i, v, p)
    BY <1>1, Parts
  <2>7. x.turn = t /\ x.compactions = k /\ x.outbox = o /\ x.processed = p
    BY <2>6, Fields
  <2>8. q = State(s, t, k, Put(o, d, "pending"), i, v, p \cup {QueuedEvent(d)})
    BY <1>1, <1>4, <2>2, <2>6, <2>7, QueuedIs
  <2>9. /\ q.turn = t /\ q.compactions = k
        /\ q.outbox = Put(o, d, "pending") /\ q.processed = p \cup {QueuedEvent(d)}
    BY <2>8, Fields
  <2>10. d \in DOMAIN q.outbox /\ q.outbox[d] = "pending"
    BY <2>9 DEF Put
  <2>11. ResumedEvent(q.turn.request, d) \notin q.processed
    BY <1>1, <1>4, <2>2, <2>3, <2>7, <2>9, EventsDiffer
  <2>12. Resumes(q.turn, q.compactions, q.outbox, q.processed, n)
    BY <1>1, <1>4, <2>7, <2>9, <2>10, <2>11 DEF Resumes
  <2>13. Awaits(q)
    BY <1>1, <1>4, <2>7, <2>9, <2>12 DEF Awaits, Waits
  <2>. QED  BY <1>1, <1>4, <2>5, <2>13, FrameTransitive DEF Keeps
<1>. QED  BY <1>1, <1>2, <1>3, <1>4

\* compaction_prepared keeps the invariant.
LEMMA PreparedSound ==
  ASSUME NEW c, NEW S, NEW U, Sound(c, S, U), NEW z, NEW op \in OperationId,
         NEW owner \in {"harness", "native"}
  PROVE  Keeps(c, CompactionPrepared(c, z, op, owner), S, U)
<1>. PICK s, t, k, o, i, v, p :
       c = State(s, t, k, o, i, v, p) /\ Good(s, t, k, o, i, v, p, S, U)
  BY Parts
<1>. PICK w, f, h : w = "none" /\ f = "final" /\ h = "compacting"
  OBVIOUS
<1>. PICK e : e = <<"compaction_prepared", z, op>>
  OBVIOUS
<1>. PICK y : y = Append(k, [op |-> op, owner |-> owner, status |-> "prepared"])
  OBVIOUS
<1>. PICK x : x = [t EXCEPT !.phase = h]
  OBVIOUS
<1>. PICK q : q = CompactionPrepared(c, z, op, owner)
  OBVIOUS
<1>0. h \in Phase /\ {w, f} \subseteq {"none", "retryable", "final"}
  BY Phases
<1>1. Neutral(e)
  BY NeutralEvents
<1>2. \/ q = c
      \/ q = State(s, t, k, o, i, f, p \cup {e})
      \/ /\ t # NoTurn /\ t.request = op[1]
         /\ \A n \in DOMAIN k : k[n].op # op
         /\ q = State(s, x, y, o, i, w, p \cup {e})
  BY ONLY c = State(s, t, k, o, i, v, p), q = CompactionPrepared(c, z, op, owner),
          y = Append(k, [op |-> op, owner |-> owner, status |-> "prepared"]),
          x = [t EXCEPT !.phase = h], e = <<"compaction_prepared", z, op>>,
          w = "none", f = "final", h = "compacting"
     DEF CompactionPrepared, Commit, CompactionOf, State
<1>3. CASE q = c
  BY <1>3, KeepsSame
<1>4. CASE q = State(s, t, k, o, i, f, p \cup {e})
  <2>1. Good(s, t, k, o, i, f, p, S, U)
    BY <1>0, GoodRecovery
  <2>2. Good(s, t, k, o, i, f, p \cup {e}, S, U) /\ (Waits(t, k, o, p) => Waits(t, k, o, p \cup {e}))
    BY <1>1, <2>1, GoodNeutral
  <2>. QED  BY ONLY c = State(s, t, k, o, i, v, p), q = CompactionPrepared(c, z, op, owner),
                    <1>4, <2>2, SoundIs, Fields DEF Keeps, Frame
<1>5. ASSUME t # NoTurn, t.request = op[1], \A n \in DOMAIN k : k[n].op # op,
             q = State(s, x, y, o, i, w, p \cup {e})
      PROVE  Keeps(c, q, S, U)
  <2>1. Good(s, t, y, o, i, v, p, S, U)
    BY <1>5, GoodAppended
  <2>2. Good(s, x, y, o, i, w, p, S, U)
    BY <1>0, <1>5, <2>1, GoodPhase
  <2>3. Good(s, x, y, o, i, w, p \cup {e}, S, U)
    BY <1>1, <2>2, GoodNeutral
  <2>4. x # NoTurn /\ x.request = t.request /\ x.session = t.session /\ x.phase = h
    BY <1>0, <1>5, GoodTurn
  <2>5. Waits(x, y, o, p \cup {e})
    BY <2>4 DEF Waits
  <2>. QED  BY ONLY c = State(s, t, k, o, i, v, p), h = "compacting",
                    <1>5, <2>3, <2>4, <2>5, SoundIs, Fields DEF Keeps, Frame
<1>. QED  BY <1>2, <1>3, <1>4, <1>5

\* turn_completed changes the phase of the turn of that request alone.
LEMMA CompletedSound ==
  ASSUME NEW c, NEW S, NEW U, Sound(c, S, U), NEW r
  PROVE  LET x == TurnCompleted(c, r)
         IN /\ Sound(x, S, U)
            /\ Awaits(c) => Awaits(x)
            /\ x.session = c.session
            /\ x.turn = NoTurn <=> c.turn = NoTurn
            /\ c.turn # NoTurn => x.turn.request = c.turn.request /\ x.turn.session = c.turn.session
            /\ x.outbox = c.outbox /\ x.compactions = c.compactions
            /\ x.turn # c.turn => c.turn # NoTurn /\ c.turn.request = r
<1>. PICK s, t, k, o, i, v, p :
       c = State(s, t, k, o, i, v, p) /\ Good(s, t, k, o, i, v, p, S, U)
  BY Parts
<1>. PICK e, w, h : e = <<"turn_completed", r>> /\ w = "none" /\ h = "completed"
  OBVIOUS
<1>. PICK x : x = [t EXCEPT !.phase = h]
  OBVIOUS
<1>0. h \in Phase /\ w \in {"none", "retryable", "final"} /\ Neutral(e)
  BY Phases, NeutralEvents
<1>1. \/ TurnCompleted(c, r) = c
      \/ /\ t # NoTurn /\ t.request = r
         /\ TurnCompleted(c, r) = State(s, x, k, o, i, w, p \cup {e})
  BY ONLY c = State(s, t, k, o, i, v, p), e = <<"turn_completed", r>>, w = "none", h = "completed",
          x = [t EXCEPT !.phase = h]
     DEF TurnCompleted, Commit, State
<1>2. CASE TurnCompleted(c, r) = c
  BY <1>2
<1>3. ASSUME t # NoTurn, t.request = r, TurnCompleted(c, r) = State(s, x, k, o, i, w, p \cup {e})
      PROVE  LET y == TurnCompleted(c, r)
             IN /\ Sound(y, S, U)
                /\ Awaits(c) => Awaits(y)
                /\ y.session = c.session
                /\ y.turn = NoTurn <=> c.turn = NoTurn
                /\ c.turn # NoTurn => y.turn.request = c.turn.request /\ y.turn.session = c.turn.session
                /\ y.outbox = c.outbox /\ y.compactions = c.compactions
                /\ y.turn # c.turn => c.turn # NoTurn /\ c.turn.request = r
  <2>1. Good(s, x, k, o, i, w, p, S, U)
    BY <1>0, <1>3, GoodPhase
  <2>2. Good(s, x, k, o, i, w, p \cup {e}, S, U)
    BY <1>0, <2>1, GoodNeutral
  <2>3. x # NoTurn /\ x.request = t.request /\ x.session = t.session /\ x.phase = h
    BY <1>0, <1>3, GoodTurn
  <2>4. Waits(x, k, o, p \cup {e})
    BY <2>3 DEF Waits
  <2>. QED  BY ONLY c = State(s, t, k, o, i, v, p), <1>3, <2>2, <2>3, <2>4, SoundIs, Fields
<1>. QED  BY <1>1, <1>2, <1>3

-----------------------------------------------------------------------------
(* A handler goes over a finite set of dispatches.                         *)

\* What it does with one: the end of a failed run ("failed"), of a finished
\* one ("finished"), the reconciliation of a restored session ("restored").
Handled(m, completed, d, c) ==
  CASE m = "failed" -> Released(c, d)
    [] m = "finished" -> Consume(c, d)
    [] OTHER -> IF d \in completed THEN Consume(Received(c, d, SessionReconcile), d)
                ELSE ReleasedAtStart(c, d)

Some(s) == CHOOSE x \in s : TRUE
Handles(h, D, m, completed, c) ==
  h = [s \in SUBSET D |-> IF s = {} THEN c
                          ELSE Handled(m, completed, Some(s), h[s \ {Some(s)}])]

\* One dispatch at a time keeps the invariant.
LEMMA HandledSound ==
  ASSUME NEW c, NEW S, NEW U, Sound(c, S, U), NEW m, NEW completed, NEW d
  PROVE  Keeps(c, Handled(m, completed, d, c), S, U)
<1>1. Keeps(c, Released(c, d), S, U) /\ Keeps(c, ReleasedAtStart(c, d), S, U)
  BY ReleasedSound
<1>2. Keeps(c, Consume(c, d), S, U)
  BY ConsumeSound
<1>3. Keeps(c, Consume(Received(c, d, SessionReconcile), d), S, U)
  <2>. PICK x : x = Received(c, d, SessionReconcile)
    OBVIOUS
  <2>1. Keeps(c, x, S, U)
    BY ReceivedSound
  <2>2. Sound(x, S, U)
    BY <2>1 DEF Keeps
  <2>3. Keeps(x, Consume(x, d), S, U)
    BY <2>2, ConsumeSound
  <2>. QED  BY <2>1, <2>3, KeepsTransitive
<1>. QED  BY <1>1, <1>2, <1>3 DEF Handled

\* A nonempty set of subsets of a finite set has a minimal one.
LEMMA LeastSubset ==
  ASSUME NEW D, IsFiniteSet(D), NEW V \in SUBSET SUBSET D, V # {}
  PROVE  \E s \in V : \A t \in V : t \subseteq s => t = s
<1>1. IsWellFoundedOn(StrictSubsetOrdering(D), SUBSET D)
  BY FS_StrictSubsetOrderingWellFounded, FS_FiniteSubsetsOfFinite
<1>2. PICK s \in V : \A t \in V : <<t, s>> \notin StrictSubsetOrdering(D)
  BY <1>1, WFMin
<1>. QED  BY <1>2 DEF StrictSubsetOrdering

\* The fold over the dispatches is defined.
LEMMA HandlesExists ==
  ASSUME NEW D, IsFiniteSet(D), NEW m, NEW completed, NEW c
  PROVE  \E h : Handles(h, D, m, completed, c)
<1>. DEFINE Level(n) == {s \in SUBSET D : Cardinality(s) <= n}
            Upto(n) == \E g : g = [s \in Level(n) |->
                                     IF s = {} THEN c
                                     ELSE Handled(m, completed, Some(s), g[s \ {Some(s)}])]
<1>1. \A s \in SUBSET D : IsFiniteSet(s) /\ Cardinality(s) \in Nat
  BY FS_Subset, FS_CardinalityType
<1>2. \A s \in SUBSET D : s # {} => Some(s) \in s
  BY DEF Some
<1>3. \A n \in Nat : \A s \in Level(n + 1) : s # {} => s \ {Some(s)} \in Level(n)
  <2>. SUFFICES ASSUME NEW n \in Nat, NEW s \in SUBSET D, Cardinality(s) <= n + 1, s # {}
                PROVE  s \ {Some(s)} \in Level(n)
    OBVIOUS
  <2>. PICK x : x = Some(s)
    OBVIOUS
  <2>1. x \in s /\ IsFiniteSet(s) /\ Cardinality(s) \in Nat
    BY <1>1, <1>2
  <2>2. Cardinality(s \ {x}) = Cardinality(s) - 1
    BY <2>1, FS_RemoveElement
  <2>. QED  BY <2>1, <2>2
<1>4. Upto(0)
  <2>1. Level(0) = {{}}
    BY <1>1, FS_EmptySet
  <2>2. PICK g : g = [s \in Level(0) |-> c]
    OBVIOUS
  <2>3. g = [s \in Level(0) |->
               IF s = {} THEN c ELSE Handled(m, completed, Some(s), g[s \ {Some(s)}])]
    BY ONLY <2>1, <2>2
  <2>. QED  BY <2>3
<1>5. ASSUME NEW n \in Nat, Upto(n)
      PROVE  Upto(n + 1)
  <2>1. PICK g : g = [s \in Level(n) |->
                        IF s = {} THEN c ELSE Handled(m, completed, Some(s), g[s \ {Some(s)}])]
    BY <1>5
  <2>2. PICK h : h = [s \in Level(n + 1) |->
                        IF s = {} THEN c ELSE Handled(m, completed, Some(s), g[s \ {Some(s)}])]
    OBVIOUS
  <2>3. \A s \in Level(n) : s \in Level(n + 1)
    BY <1>1
  <2>. HIDE DEF Level
  <2>4. \A s \in Level(n) : h[s] = g[s]
    <3>1. \A s \in Level(n) :
            /\ g[s] = IF s = {} THEN c ELSE Handled(m, completed, Some(s), g[s \ {Some(s)}])
            /\ h[s] = IF s = {} THEN c ELSE Handled(m, completed, Some(s), g[s \ {Some(s)}])
      BY ONLY <2>1, <2>2, <2>3
    <3>. QED  BY ONLY <3>1
  <2>5. \A s \in Level(n + 1) :
          h[s] = IF s = {} THEN c ELSE Handled(m, completed, Some(s), h[s \ {Some(s)}])
    BY ONLY <1>3, <2>2, <2>4, n \in Nat
  <2>6. h = [s \in Level(n + 1) |->
               IF s = {} THEN c ELSE Handled(m, completed, Some(s), h[s \ {Some(s)}])]
    BY ONLY <2>2, <2>5
  <2>. QED  BY <2>6
<1>. HIDE DEF Upto
<1>6. \A n \in Nat : Upto(n)
  <2>. DEFINE T == {n \in Nat : ~Upto(n)}
  <2>. SUFFICES ASSUME T # {}
                PROVE  FALSE
    OBVIOUS
  <2>1. PICK n \in T : \A y \in T : n <= y
    BY LeastNumber
  <2>2. n # 0 /\ n - 1 \in Nat /\ n - 1 \notin T
    BY <1>4, <2>1
  <2>. QED  BY <1>5, <2>1, <2>2
<1>7. PICK n \in Nat : n = Cardinality(D)
  BY FS_CardinalityType
<1>8. Level(n) = SUBSET D
  <2>1. \A s \in SUBSET D : Cardinality(s) <= n
    BY <1>7, FS_Subset
  <2>. QED  BY <2>1
<1>9. PICK g : g = [s \in Level(n) |->
                      IF s = {} THEN c ELSE Handled(m, completed, Some(s), g[s \ {Some(s)}])]
  BY <1>6, <1>7 DEF Upto
<1>. HIDE DEF Level
<1>. QED  BY ONLY <1>8, <1>9 DEF Handles

\* What every step keeps, the fold keeps.
LEMMA HandlesSound ==
  ASSUME NEW D, IsFiniteSet(D), NEW m, NEW completed, NEW c, NEW S, NEW U, Sound(c, S, U),
         NEW h, Handles(h, D, m, completed, c)
  PROVE  Keeps(c, h[D], S, U)
<1>1. \A s \in SUBSET D :
        h[s] = IF s = {} THEN c ELSE Handled(m, completed, Some(s), h[s \ {Some(s)}])
  BY ONLY Handles(h, D, m, completed, c) DEF Handles
<1>2. \A s \in SUBSET D : s # {} => Some(s) \in s
  BY DEF Some
<1>. DEFINE V == {s \in SUBSET D : ~Keeps(c, h[s], S, U)}
<1>. SUFFICES ASSUME V # {}
              PROVE  FALSE
  OBVIOUS
<1>3. PICK s \in V : \A t \in V : t \subseteq s => t = s
  <2>1. V \in SUBSET SUBSET D
    OBVIOUS
  <2>. HIDE DEF V
  <2>. QED  BY ONLY <2>1, V # {}, IsFiniteSet(D), LeastSubset
<1>4. s # {}
  BY <1>1, <1>3, KeepsSame
<1>. PICK x : x = Some(s)
  OBVIOUS
<1>. PICK y : y = h[s \ {x}]
  OBVIOUS
<1>5. x \in s /\ s \in SUBSET D
  BY <1>2, <1>3, <1>4
<1>6. Keeps(c, y, S, U)
  BY <1>3, <1>5
<1>7. h[s] = Handled(m, completed, x, y)
  BY <1>1, <1>4, <1>5
<1>8. Sound(y, S, U)
  BY <1>6 DEF Keeps
<1>9. Keeps(c, h[s], S, U)
  BY <1>6, <1>7, <1>8, HandledSound, KeepsTransitive
<1>. QED  BY <1>3, <1>9

\* onContinuationRunEnd goes over what the run took up.
LEMMA AfterRunIs ==
  ASSUME IsFiniteSet(co.active), NEW failed \in BOOLEAN
  PROVE  \E h : /\ Handles(h, co.active, IF failed THEN "failed" ELSE "finished", {}, cc)
                /\ AfterRun(failed) = h[co.active]
<1>. PICK D : D = co.active
  OBVIOUS
<1>. PICK m : m = IF failed THEN "failed" ELSE "finished"
  OBVIOUS
<1>. DEFINE Is(h) == h = [s \in SUBSET D |->
                            IF s = {} THEN cc
                            ELSE IF failed
                                 THEN Released(h[s \ {CHOOSE x \in s : TRUE}], CHOOSE x \in s : TRUE)
                                 ELSE Consume(h[s \ {CHOOSE x \in s : TRUE}], CHOOSE x \in s : TRUE)]
<1>1. AfterRun(failed) = (CHOOSE h : Is(h))[D]
  BY DEF AfterRun, FoldSet, MapThenFoldSet
<1>2. \A h : Handles(h, D, m, {}, cc) <=> Is(h)
  BY ONLY m = IF failed THEN "failed" ELSE "finished", failed \in BOOLEAN
     DEF Handles, Handled, Some
<1>. HIDE DEF Is
<1>3. \E h : Is(h)
  BY <1>2, HandlesExists
<1>4. PICK h : Is(h) /\ AfterRun(failed) = h[D]
  BY <1>1, <1>3
<1>. QED  BY <1>2, <1>4

\* The reconciliation of a restored session, over what was attempted.
AttemptedOf(c) == {d \in DOMAIN c.outbox : c.outbox[d] = "attempted"}
LEMMA ReconciledIs ==
  ASSUME NEW c, IsFiniteSet(DOMAIN c.outbox), NEW z
  PROVE  /\ IsFiniteSet(AttemptedOf(c))
         /\ \E h : /\ Handles(h, AttemptedOf(c), "restored", branch[z].completed, c)
                   /\ Reconciled(c, z) = h[AttemptedOf(c)]
<1>. PICK D : D = AttemptedOf(c)
  OBVIOUS
<1>. PICK done, m : done = branch[z].completed /\ m = "restored"
  OBVIOUS
<1>. DEFINE Is(h) == h = [s \in SUBSET D |->
                            IF s = {} THEN c
                            ELSE IF (CHOOSE x \in s : TRUE) \in branch[z].completed
                                 THEN Consume(Received(h[s \ {CHOOSE x \in s : TRUE}],
                                                       CHOOSE x \in s : TRUE, SessionReconcile),
                                              CHOOSE x \in s : TRUE)
                                 ELSE ReleasedAtStart(h[s \ {CHOOSE x \in s : TRUE}],
                                                      CHOOSE x \in s : TRUE)]
<1>1. Reconciled(c, z) = (CHOOSE h : Is(h))[D]
  BY DEF Reconciled, FoldSet, MapThenFoldSet, AttemptedOf
<1>2. \A h : Handles(h, D, m, done, c) <=> Is(h)
  BY ONLY done = branch[z].completed, m = "restored" DEF Handles, Handled, Some
<1>. HIDE DEF Is
<1>3. IsFiniteSet(D)
  BY FS_Subset DEF AttemptedOf
<1>4. \E h : Is(h)
  BY <1>2, <1>3, HandlesExists
<1>5. PICK h : Is(h) /\ Reconciled(c, z) = h[D]
  BY <1>1, <1>4
<1>. QED  BY <1>2, <1>3, <1>5

\* Both keep the invariant.
LEMMA AfterRunSound ==
  ASSUME NEW S, NEW U, Sound(cc, S, U), IsFiniteSet(co.active), NEW failed \in BOOLEAN
  PROVE  Keeps(cc, AfterRun(failed), S, U)
BY AfterRunIs, HandlesSound

LEMMA ReconciledSound ==
  ASSUME NEW c, NEW S, NEW U, Sound(c, S, U), NEW z
  PROVE  Keeps(c, Reconciled(c, z), S, U)
<1>1. IsFiniteSet(DOMAIN c.outbox)
  BY DEF Sound, Good, Typed
<1>. QED  BY <1>1, ReconciledIs, HandlesSound

-----------------------------------------------------------------------------
(* Turns and sessions begin.                                               *)

\* onTurnStart keeps the invariant.
LEMMA TurnStartSound ==
  ASSUME NEW c, NEW S, NEW U, Sound(c, S, U)
  PROVE  Keeps(c, TurnStartCC(c), S, U)
<1>1. CASE NativeRetry(c) \/ RestoredRetry(c)
  <2>1. c.turn # NoTurn
    BY <1>1 DEF NativeRetry, RestoredRetry
  <2>2. TurnStartCC(c) = Resumed(c)
    BY <1>1 DEF TurnStartCC
  <2>. QED  BY <2>1, <2>2, ResumedSound
<1>2. CASE ~(NativeRetry(c) \/ RestoredRetry(c))
  BY <1>2, KeepsSame DEF TurnStartCC
<1>. QED  BY <1>1, <1>2

\* More acknowledged dispatches are remembered, more requests are made.
LEMMA StoredSound ==
  ASSUME NEW c, NEW S, NEW U, NEW V, U \subseteq V, Sound(c, S, U)
  PROVE  Sound(c, S \cup Acknowledged(c), V) /\ Sound(c, S, V)
<1>1. Sound(c, S \cup Acknowledged(c), V)
  BY GoodMore DEF Sound, Acknowledged
<1>2. Sound(c, S, V)
  BY DEF Sound, Good, Made
<1>. QED  BY <1>1, <1>2

\* A request that was not made before gets a turn of its own.
LEMMA TurnStartedSound ==
  ASSUME NEW c, NEW S, NEW U, Sound(c, S, U), NEW z \in Session, NEW r \in Request, r \notin U
  PROVE  LET x == TurnStarted(c, z, r)
         IN /\ Sound(x, S, U \cup {r})
            /\ x.session = z
            /\ x.turn = [request |-> r, session |-> z, phase |-> "active"]
            /\ x.turn # NoTurn
<1>. PICK s, t, k, o, i, v, p :
       c = State(s, t, k, o, i, v, p) /\ Good(s, t, k, o, i, v, p, S, U)
  BY Parts
<1>. PICK x : x = [request |-> r, session |-> z, phase |-> "active"]
  OBVIOUS
<1>. PICK e : e = StartedEvent(z, r)
  OBVIOUS
<1>. PICK w : w = "none"
  OBVIOUS
<1>. PICK y : y = TurnStarted(c, z, r)
  OBVIOUS
<1>1. (t # NoTurn => t.request # r) /\ e \notin p
  BY DEF Good, Made
<1>2. y = State(z, x, k, o, i, w, p \cup {e}) \/ y = State(z, x, k, <<>>, <<>>, w, p \cup {e})
  BY ONLY c = State(s, t, k, o, i, v, p), y = TurnStarted(c, z, r), <1>1, w = "none",
          x = [request |-> r, session |-> z, phase |-> "active"], e = StartedEvent(z, r)
     DEF TurnStarted, Commit, StartedEvent, State
<1>3. /\ Good(z, x, k, o, i, w, p \cup {e}, S, U \cup {r})
      /\ Good(z, x, k, <<>>, <<>>, w, p \cup {e}, S, U \cup {r})
  BY GoodStarted
<1>4. x # NoTurn
  <2>1. x \in Turn
    BY Phases, Turns
  <2>. QED  BY <2>1, Turns
<1>5. Sound(y, S, U \cup {r}) /\ y.session = z /\ y.turn = x
  BY ONLY <1>2, <1>3, SoundIs, Fields
<1>. QED  BY <1>4, <1>5

\* What another session leaves of the turn.
Moves(c, x) ==
  /\ x.turn # NoTurn => /\ c.turn # NoTurn /\ x.turn.request = c.turn.request
                        /\ x.turn.phase = "completed" => c.turn.phase = "completed"

\* Outbox and inbox are cleared with the turn, or the turn is interrupted.
LEMMA ClearedSound ==
  ASSUME NEW c, NEW S, NEW U, Sound(c, S, U), NEW z \in Session,
         NEW w \in {"none", "retryable", "final"}
  PROVE  /\ LET x == Cleared(c, z, "none", w)
            IN Sound(x, S, U) /\ Awaits(x) /\ x.turn = NoTurn /\ x.session = z
         /\ LET x == Cleared(c, z, "interrupted", w)
            IN Sound(x, S, U) /\ Awaits(x) /\ Moves(c, x)
<1>. PICK s, t, k, o, i, v, p :
       c = State(s, t, k, o, i, v, p) /\ Good(s, t, k, o, i, v, p, S, U)
  BY Parts
<1>. PICK h : h = "interrupted"
  OBVIOUS
<1>. PICK x : x = [t EXCEPT !.phase = h]
  OBVIOUS
<1>. PICK y : y = Cleared(c, z, "none", w)
  OBVIOUS
<1>. PICK q : q = Cleared(c, z, "interrupted", w)
  OBVIOUS
<1>0. h \in Phase
  BY Phases
<1>1. y = State(z, NoTurn, k, <<>>, <<>>, w, p)
  BY ONLY c = State(s, t, k, o, i, v, p), y = Cleared(c, z, "none", w) DEF Cleared, State
<1>2. q = State(z, IF t = NoTurn THEN NoTurn ELSE x, k, <<>>, <<>>, w, p)
  BY ONLY c = State(s, t, k, o, i, v, p), q = Cleared(c, z, "interrupted", w),
          x = [t EXCEPT !.phase = h], h = "interrupted" DEF Cleared, State
<1>3. Good(z, NoTurn, k, <<>>, <<>>, w, p, S, U)
  BY GoodCleared
<1>4. Sound(y, S, U) /\ Awaits(y) /\ y.turn = NoTurn /\ y.session = z
  BY ONLY <1>1, <1>3, SoundIs, Fields DEF Waits
<1>5. CASE t = NoTurn
  <2>1. q = y
    BY <1>1, <1>2, <1>5
  <2>. QED  BY <1>4, <2>1 DEF Moves
<1>6. CASE t # NoTurn
  <2>1. x # NoTurn /\ x.request = t.request /\ x.phase = h /\ x \in Turn
    <3>1. t \in Turn
      BY <1>6 DEF Good, Typed
    <3>. QED  BY <1>0, <3>1, Turns
  <2>2. Good(z, x, k, <<>>, <<>>, w, p, S, U)
    BY ONLY <1>6, <2>1, Good(s, t, k, o, i, v, p, S, U), z \in Session,
            w \in {"none", "retryable", "final"}, GoodCleared
  <2>3. Sound(q, S, U) /\ Awaits(q) /\ Moves(c, q)
    BY ONLY c = State(s, t, k, o, i, v, p), h = "interrupted",
            <1>2, <1>6, <2>1, <2>2, SoundIs, Fields DEF Waits, Moves
  <2>. QED  BY <1>4, <2>3
<1>. QED  BY <1>5, <1>6

\* session_started, for each of its reasons and signals.
LEMMA SessionStartedSound ==
  ASSUME NEW c, NEW S, NEW U, Sound(c, S, U), NEW z \in Session, NEW reason
  PROVE  LET x == SessionStarted(c, z, reason)
         IN /\ Sound(x, S, U)
            /\ Awaits(c) => Awaits(x)
            /\ Moves(c, x)
            /\ (SessionSignal(c, z, reason) = "restore" /\ x.turn # NoTurn) =>
                 x.session = z /\ x.turn.session = z
<1>. PICK e : e = SessionEvent(z, reason)
  OBVIOUS
<1>. PICK x : x = SessionStarted(c, z, reason)
  OBVIOUS
<1>0. Neutral(e)
  BY NeutralEvents
<1>. DEFINE Marked(y) == [y EXCEPT !.processed = c.processed \cup {e}]
<1>1. ASSUME NEW y, Sound(y, S, U), y.processed = c.processed
      PROVE  /\ Sound(Marked(y), S, U)
             /\ Awaits(y) => Awaits(Marked(y))
             /\ Marked(y).turn = y.turn /\ Marked(y).session = y.session
  <2>. PICK s, t, k, o, i, v, p :
         y = State(s, t, k, o, i, v, p) /\ Good(s, t, k, o, i, v, p, S, U)
    BY <1>1, Parts
  <2>1. p = c.processed
    BY <1>1, Fields
  <2>2. Marked(y) = State(s, t, k, o, i, v, p \cup {e})
    BY ONLY <2>1, y = State(s, t, k, o, i, v, p) DEF State
  <2>3. Good(s, t, k, o, i, v, p \cup {e}, S, U) /\ (Waits(t, k, o, p) => Waits(t, k, o, p \cup {e}))
    BY <1>0, GoodNeutral
  <2>. QED  BY ONLY <2>2, <2>3, y = State(s, t, k, o, i, v, p), SoundIs, Fields
<1>. HIDE DEF Marked
<1>2. CASE e \in c.processed
  <2>1. x = c /\ SessionSignal(c, z, reason) = "none"
    BY <1>2 DEF SessionStarted, Commit, SessionSignal
  <2>. QED  BY <2>1 DEF Moves
<1>3. CASE e \notin c.processed /\ reason \in {"new", "fork"}
  <2>. PICK y : y = Cleared(c, z, "none", "none")
    OBVIOUS
  <2>1. x = Marked(y) /\ SessionSignal(c, z, reason) # "restore"
    BY <1>3 DEF SessionStarted, Commit, SessionSignal, Marked
  <2>2. Sound(y, S, U) /\ Awaits(y) /\ y.turn = NoTurn
    BY ClearedSound
  <2>3. y.processed = c.processed
    BY DEF Cleared, Sound, Whole, State
  <2>. QED  BY <1>1, <2>1, <2>2, <2>3 DEF Moves
<1>4. CASE e \notin c.processed /\ reason \notin {"new", "fork"} /\ SessionSignal(c, z, reason) = "restore"
  <2>. PICK s, t, k, o, i, v, p :
         c = State(s, t, k, o, i, v, p) /\ Good(s, t, k, o, i, v, p, S, U)
    BY Parts
  <2>. PICK q : q = IF t = NoTurn THEN NoTurn ELSE [t EXCEPT !.session = z]
    OBVIOUS
  <2>. PICK y : y = State(z, q, k, o, i, v, p)
    OBVIOUS
  <2>1. x = Marked(y)
    <3>1. q = IF c.turn = NoTurn THEN NoTurn ELSE [c.turn EXCEPT !.session = z]
      BY Fields
    <3>2. [c EXCEPT !.session = z, !.turn = q] = y
      <4>. PICK n : n = [c EXCEPT !.session = z, !.turn = q]
        OBVIOUS
      <4>1. n = State(z, q, k, o, i, v, p)
        BY ONLY c = State(s, t, k, o, i, v, p), n = [c EXCEPT !.session = z, !.turn = q] DEF State
      <4>. QED  BY <4>1
    <3>3. x = Marked([c EXCEPT !.session = z, !.turn = q])
      BY ONLY <1>4, <3>1, x = SessionStarted(c, z, reason), e = SessionEvent(z, reason)
         DEF SessionStarted, Commit, Marked
    <3>. QED  BY <3>2, <3>3
  <2>2. q # NoTurn => /\ t # NoTurn /\ q \in Turn /\ q.request = t.request
                      /\ q.session = z /\ q.phase = t.phase
    BY Turns DEF Good, Typed
  <2>3. Good(z, q, k, o, i, v, p, S, U)
    <3>1. v \in {"none", "retryable", "final"}
      BY DEF Good, Typed
    <3>2. q = NoTurn \/ (t # NoTurn /\ q \in Turn /\ q.request = t.request)
      BY <2>2
    <3>. QED  BY ONLY <3>1, <3>2, Good(s, t, k, o, i, v, p, S, U), z \in Session, GoodCleared
  <2>4. t # NoTurn => q # NoTurn
    BY Turns DEF Good, Typed
  <2>5. Waits(t, k, o, p) => Waits(q, k, o, p)
    BY <2>2, <2>4 DEF Waits, Resumes
  <2>6. y.processed = c.processed /\ y.turn = q /\ y.session = z /\ c.turn = t
    BY Fields
  <2>7. Sound(y, S, U) /\ (Awaits(c) => Awaits(y))
    BY ONLY <2>3, <2>5, SoundIs, c = State(s, t, k, o, i, v, p), y = State(z, q, k, o, i, v, p)
  <2>8. /\ Sound(x, S, U) /\ (Awaits(c) => Awaits(x))
        /\ x.turn = q /\ x.session = z
    BY ONLY <1>1, <2>1, <2>6, <2>7
  <2>. QED  BY ONLY <2>2, <2>6, <2>8, x = SessionStarted(c, z, reason) DEF Moves
<1>5. CASE e \notin c.processed /\ reason \notin {"new", "fork"} /\ SessionSignal(c, z, reason) # "restore"
  <2>. PICK w : w = IF c.turn = NoTurn THEN "none" ELSE "final"
    OBVIOUS
  <2>. PICK y : y = Cleared(c, z, "interrupted", w)
    OBVIOUS
  <2>1. x = Marked(y)
    BY <1>5 DEF SessionStarted, Commit, Marked
  <2>2. Sound(y, S, U) /\ Awaits(y) /\ Moves(c, y)
    BY ClearedSound
  <2>3. y.processed = c.processed
    BY DEF Cleared, Sound, Whole, State
  <2>. QED  BY <1>1, <1>5, <2>1, <2>2, <2>3 DEF Moves
<1>. QED  BY <1>2, <1>3, <1>4, <1>5

-----------------------------------------------------------------------------
(* The steps.                                                              *)

\* Requests go on: a made one stays made, an answered one answered.
Remain(q) ==
  /\ q \in [Request \cup Sidecar -> RequestStatus]
  /\ \A x \in Request \cup Sidecar : req[x] # "unknown" => q[x] # "unknown"
Later(q) ==
  /\ Remain(q)
  /\ \A x \in Request \cup Sidecar : req[x] = "answered" => q[x] = "answered"
\* What has a new reply is answered.
Newly(a, q) ==
  /\ a \subseteq Request \cup Sidecar
  /\ \A x \in a : x \in replied \/ q[x] = "answered"

\* The turn stays the turn of its request in its session.
Stays(c, x) ==
  /\ x.session = c.session
  /\ x.turn = NoTurn <=> c.turn = NoTurn
  /\ c.turn # NoTurn => x.turn.request = c.turn.request /\ x.turn.session = c.turn.session

\* What the action properties ask of a step.
Unrepeated ==
  /\ settled \cap (host'.queue \ host.queue) = {}
  /\ settled \cap (co'.admitted \ co.admitted) = {}
Unfinished ==
  (cc'.turn # NoTurn /\ cc'.turn.phase = "completed")
    => cc.turn # NoTurn /\ cc.turn.phase = "completed"

\* Requests that stay as they are have gone on.
LEMMA LaterSame ==
  ASSUME Typing
  PROVE  Later(req) /\ Remain(req) /\ \A q : Newly(replied, q)
BY DEF Later, Remain, Newly, Typing

\* A sound state that is written stays sound as history and requests grow.
LEMMA StepSound ==
  ASSUME IInv, NEW x, Sound(x, settled, Used), torn' \/ Awaits(x),
         cc' = x, settled' \in {settled, settled \cup Acknowledged(x)},
         Typing', Remain(req')
  PROVE  Sound(cc', settled', Used') /\ (torn' \/ Awaits(cc'))
<1>1. Used \subseteq Used'
  BY DEF Used, Remain
<1>. QED  BY <1>1, StoredSound

\* Replies stay with their requests while these go on.
LEMMA RepliesStay ==
  ASSUME Typing, Replies, Later(req'), Newly(replied', req'),
         root' = NoRoot \/ (root'.request = root.request /\ root'.control = root.control)
  PROVE  Replies'
<1>1. \A x \in Request \cup Sidecar : x # NoRequest
  BY RequestCoordinatorAssumption DEF NoRequest
<1>. QED  BY <1>1 DEF Typing, Replies, Later, Remain, Newly, NoRoot, RootOf

\* A step that keeps the turn, with a memory that fits it.
LEMMA StepKeeps ==
  ASSUME IInv, NEW x, Keeps(cc, x, settled, Used),
         cc' = x, settled' \in {settled, settled \cup Acknowledged(x)},
         Typing', Later(req'), Newly(replied', req'), torn => torn',
         Fits(co', cc), root' \in {root, NoRoot}
  PROVE  IInv' /\ Unfinished
<1>1. Sound(cc', settled', Used') /\ (torn' \/ Awaits(cc'))
  BY StepSound DEF IInv, Keeps, Later
<1>2. Frame(cc, cc')
  BY DEF Keeps
<1>3. Primary'
  BY <1>2 DEF Primary, Fits, Frame
<1>4. Root'
  BY <1>2 DEF IInv, Root, Frame, Later, NoRoot, RootOf, NoRequest
<1>5. Unfinished
  BY <1>2 DEF Unfinished, Frame
<1>6. Replies'
  BY RepliesStay DEF IInv
<1>. QED  BY <1>1, <1>3, <1>4, <1>5, <1>6 DEF IInv

\* What a handler that resumes the turn remembers.
LEMMA TurnStartMemory ==
  ASSUME IInv
  PROVE  /\ TurnStartCo(cc) \in Memory
         /\ TurnStartCo(cc).active = co.active
         /\ TurnStartCo(cc).admitted = co.admitted
         /\ Fits(TurnStartCo(cc), cc)
         /\ Later(TurnStartReq(cc))
<1>1. /\ co \in Memory
      /\ cc.turn # NoTurn => cc.turn.request \in Request
      /\ co.restorePending => /\ co.primary # NoRequest
                              /\ cc.turn.request = co.primary
                              /\ cc.turn.session = cc.session
  BY Turns DEF IInv, Typing, Sound, Good, Typed, Primary, Fits
<1>2. Later(TurnStartReq(cc))
  BY <1>1 DEF TurnStartReq, RestoredRetry, Later, Remain, RequestStatus, IInv, Typing
<1>3. CASE ~RestoredRetry(cc)
  <2>1. TurnStartCo(cc) = co
    BY <1>3 DEF TurnStartCo
  <2>. QED  BY <1>1, <1>2, <2>1 DEF IInv, Primary
<1>4. CASE RestoredRetry(cc)
  <2>1. /\ TurnStartCo(cc) \in Memory
        /\ TurnStartCo(cc).active = co.active
        /\ TurnStartCo(cc).admitted = co.admitted
        /\ TurnStartCo(cc).primary = cc.turn.request
        /\ ~TurnStartCo(cc).restorePending
    BY <1>1, <1>4 DEF TurnStartCo, RestoredRetry, Memory, Someone
  <2>. QED  BY <1>1, <1>2, <1>4, <2>1 DEF Fits, RestoredRetry
<1>. QED  BY <1>3, <1>4

\* onTurnStart of a retry by the host.
LEMMA RetryStep == ASSUME IInv, Retry PROVE IInv' /\ Unrepeated /\ Unfinished
<1>1. /\ Store(TurnStartCC(cc)) /\ req' = TurnStartReq(cc) /\ co' = TurnStartCo(cc)
      /\ host' = [host EXCEPT !.run = "running"]
      /\ UNCHANGED <<replied, parent, root, branch, torn>>
  BY DEF Retry
<1>2. /\ co' \in Memory /\ co'.active = co.active /\ co'.admitted = co.admitted
      /\ Fits(co', cc) /\ Later(req')
  BY <1>1, TurnStartMemory
<1>3. Keeps(cc, TurnStartCC(cc), settled, Used)
  BY TurnStartSound DEF IInv
<1>4. host' \in Host /\ host'.queue = host.queue
  BY <1>1 DEF IInv, Typing, Host
<1>5. Typing'
  BY <1>1, <1>2, <1>4 DEF IInv, Typing, Later, Remain
<1>6. Unrepeated
  BY <1>2, <1>4 DEF Unrepeated
<1>replies. Newly(replied', req')
  BY <1>1, LaterSame DEF IInv
<1>. QED  BY <1>1, <1>replies, <1>2, <1>3, <1>5, <1>6, StepKeeps DEF Store

\* beginRequest of a new request.
LEMMA BeginRequestStep ==
  ASSUME IInv, NEW r \in Request, BeginRequest(r)
  PROVE  IInv' /\ Unrepeated /\ Unfinished
<1>1. /\ req[r] = "unknown"
      /\ Store(TurnStarted(cc, host.session, r))
      /\ req' = [req EXCEPT ![r] = "open"]
      /\ root' = RootOf(r)
      /\ co' = [co EXCEPT !.primary = r, !.response = r, !.terminal = FALSE]
      /\ host' = [host EXCEPT !.run = "running"]
      /\ branch' = [branch EXCEPT ![host.session].window = "new"]
      /\ UNCHANGED <<replied, parent, torn>>
  BY DEF BeginRequest
<1>. PICK x : x = TurnStarted(cc, host.session, r)
  OBVIOUS
<1>2. r \notin Used /\ host.session \in Session /\ r # NoRequest
  BY <1>1, RequestCoordinatorAssumption DEF Used, IInv, Typing, Host, NoRequest
<1>3. /\ Sound(x, settled, Used \cup {r})
      /\ x.session = host.session
      /\ x.turn = [request |-> r, session |-> host.session, phase |-> "active"]
      /\ x.turn # NoTurn
  BY <1>2, TurnStartedSound DEF IInv
<1>4. Later(req') /\ req'[r] = "open"
  BY <1>1 DEF Later, Remain, IInv, Typing, RequestStatus
<1>5. Used \cup {r} \subseteq Used'
  BY <1>4 DEF Used, Later, Remain
<1>6. cc' = x /\ settled' = settled \cup Acknowledged(x)
  BY <1>1 DEF Store
<1>7. Sound(cc', settled', Used')
  BY <1>3, <1>5, <1>6, StoredSound
<1>8. Awaits(cc')
  BY <1>3, <1>6 DEF Awaits, Waits
<1>9. /\ co' \in Memory /\ co'.active = co.active /\ co'.admitted = co.admitted
      /\ co'.primary = r
  BY <1>1 DEF IInv, Typing, Memory, Someone
<1>10. host' \in Host /\ host'.queue = host.queue
  BY <1>1 DEF IInv, Typing, Host
<1>11. branch' \in [Session -> Branch] /\ \A z \in Session : branch'[z].visible = branch[z].visible
  BY <1>1, <1>2 DEF IInv, Typing, Branch
<1>12. root' \in Roots
  BY <1>1 DEF Roots, RootOf, Settlement
<1>13. Typing'
  BY <1>1, <1>4, <1>9, <1>10, <1>11, <1>12 DEF IInv, Typing, Later, Remain
<1>14. Primary'
  BY <1>2, <1>3, <1>6, <1>9 DEF Primary, Fits
<1>15. Root'
  BY <1>1, <1>3, <1>6 DEF Root, RootOf
<1>17. Replies'
  BY <1>1, <1>4 DEF IInv, Replies, Later, Remain, RootOf, Typing
<1>16. Unrepeated /\ Unfinished
  BY <1>3, <1>6, <1>9, <1>10 DEF Unrepeated, Unfinished
<1>. QED  BY <1>7, <1>8, <1>13, <1>14, <1>15, <1>16, <1>17 DEF IInv

\* onMessageStart of a continuation.
LEMMA MessageStartStep ==
  ASSUME IInv, NEW d \in Dispatches, MessageStart(d)
  PROVE  IInv' /\ Unrepeated /\ Unfinished
<1>. DEFINE starts == host.run # "running"
            c == IF starts THEN TurnStartCC(cc) ELSE cc
            m == IF starts THEN TurnStartCo(cc) ELSE co
            count == IF d \in DOMAIN c.inbox THEN c.inbox[d].count ELSE 0
            x == Received(c, d, <<count>>)
<1>1. /\ Store(x)
      /\ req' = IF starts THEN TurnStartReq(cc) ELSE req
      /\ co' = IF d \in DOMAIN c.outbox THEN [m EXCEPT !.active = @ \cup {d}] ELSE m
      /\ host' = [host EXCEPT !.run = "running", !.queue = @ \ {d}]
      /\ branch' = [branch EXCEPT ![host.session].open = @ \cup {d},
                                  ![host.session].visible = @ \cup {d},
                                  ![host.session].window = "new"]
      /\ UNCHANGED <<replied, parent, root, torn>>
  BY DEF MessageStart
<1>2. Keeps(cc, c, settled, Used)
  BY TurnStartSound, KeepsSame DEF IInv
<1>3. m \in Memory /\ m.active = co.active /\ m.admitted = co.admitted /\ Fits(m, cc)
  BY TurnStartMemory DEF IInv, Typing, Primary
<1>4. Later(req')
  BY <1>1, TurnStartMemory, LaterSame DEF IInv
<1>. HIDE DEF c, m
<1>5. Keeps(cc, x, settled, Used)
  <2>. HIDE DEF count
  <2>1. Keeps(c, x, settled, Used)
    BY <1>2, ReceivedSound DEF Keeps
  <2>. QED  BY <1>2, <2>1, KeepsTransitive
<1>. HIDE DEF x
<1>6. /\ co' \in Memory /\ co'.admitted = co.admitted
      /\ co'.primary = m.primary /\ co'.restorePending = m.restorePending
      /\ co'.active \in {co.active, co.active \cup {d}}
  BY <1>1, <1>3 DEF Memory
<1>7. IsFiniteSet(co'.active) /\ co'.admitted \subseteq co'.active
  <2>1. IsFiniteSet(co.active) /\ co.admitted \subseteq co.active
    BY DEF IInv, Typing
  <2>2. IsFiniteSet(co.active \cup {d})
    BY ONLY <2>1, FS_AddElement
  <2>. QED  BY ONLY <1>6, <2>1, <2>2
<1>8. host' \in Host /\ host'.queue = host.queue \ {d}
  BY <1>1 DEF IInv, Typing, Host
<1>9. /\ branch' \in [Session -> Branch]
      /\ \A z \in Session : branch'[z].visible \in {branch[z].visible, branch[z].visible \cup {d}}
  BY <1>1 DEF IInv, Typing, Branch, Host
<1>10. \A z \in Session : IsFiniteSet(branch'[z].visible)
  <2>. SUFFICES ASSUME NEW z \in Session PROVE IsFiniteSet(branch'[z].visible)
    OBVIOUS
  <2>1. PICK v : v = branch[z].visible
    OBVIOUS
  <2>2. IsFiniteSet(v) /\ branch'[z].visible \in {v, v \cup {d}}
    BY <1>9, <2>1 DEF IInv, Typing
  <2>. QED  BY <2>2, FS_AddElement
<1>11. Typing'
  BY <1>1, <1>4, <1>6, <1>7, <1>8, <1>9, <1>10 DEF IInv, Typing, Later, Remain
<1>12. Fits(co', cc)
  BY <1>3, <1>6 DEF Fits
<1>13. Unrepeated
  BY <1>6, <1>8 DEF Unrepeated
<1>replies. Newly(replied', req')
  BY <1>1, LaterSame DEF IInv
<1>. QED  BY <1>1, <1>replies, <1>4, <1>5, <1>11, <1>12, <1>13, StepKeeps DEF Store

\* What was acknowledged is not pending, and what is pending is a dispatch.
LEMMA PendingIs ==
  ASSUME NEW c, NEW S, NEW U, Sound(c, S, U)
  PROVE  Pending(c) \subseteq Dispatches /\ S \cap Pending(c) = {}
BY DEF Pending, Sound, Good, Typed, Recorded

\* A fresh coordinator has no turn to be about.
LEMMA FreshMemory ==
  /\ FreshCoordinator \in Memory /\ FreshCoordinator.active = {}
  /\ FreshCoordinator.admitted = {} /\ Fits(FreshCoordinator, cc)
BY DEF FreshCoordinator, Memory, Someone, NoRequest, Fits

\* onContext admits only what was not consumed.
LEMMA ContextStep == ASSUME IInv, Context PROVE IInv' /\ Unrepeated /\ Unfinished
<1>. PICK v : v = branch[host.session].visible
  OBVIOUS
<1>. PICK accepted : accepted = {d \in v : Admissible(d)}
  OBVIOUS
<1>1. /\ co' = [co EXCEPT !.active = @ \cup accepted, !.admitted = @ \cup accepted]
      /\ UNCHANGED <<cc, req, replied, parent, root, host, branch, torn, settled>>
  BY DEF Context
<1>2. IsFiniteSet(v) /\ v \subseteq Dispatches
  BY DEF IInv, Typing, Host, Branch
<1>3. accepted \subseteq Dispatches /\ IsFiniteSet(accepted)
  BY <1>2, FS_Subset
<1>4. settled \cap accepted = {}
  <2>1. \A d \in accepted : d \in DOMAIN cc.outbox /\ Receipt(cc, d) # "consumed"
    BY DEF Admissible
  <2>2. \A d \in DOMAIN cc.outbox \cap settled : Receipt(cc, d) = "consumed"
    BY DEF IInv, Sound, Good, Recorded, Mail, Receipt
  <2>. QED  BY <2>1, <2>2
<1>5. /\ co' \in Memory
      /\ co'.active = co.active \cup accepted /\ co'.admitted = co.admitted \cup accepted
      /\ co'.primary = co.primary /\ co'.restorePending = co.restorePending
  BY <1>1, <1>3 DEF IInv, Typing, Memory
<1>6. IsFiniteSet(co'.active)
  <2>1. IsFiniteSet(co.active)
    BY DEF IInv, Typing
  <2>2. IsFiniteSet(co.active \cup accepted)
    BY ONLY <1>3, <2>1, FS_Union
  <2>. QED  BY <1>5, <2>2
<1>7. Typing'
  BY <1>1, <1>5, <1>6 DEF IInv, Typing
<1>8. Fits(co', cc)
  BY <1>5 DEF IInv, Primary, Fits
<1>9. Unrepeated
  BY <1>1, <1>4, <1>5 DEF Unrepeated
<1>10. Later(req') /\ Keeps(cc, cc, settled, Used)
  BY <1>1, LaterSame, KeepsSame DEF IInv
<1>replies. Newly(replied', req')
  BY <1>1, LaterSame DEF IInv
<1>. QED  BY <1>1, <1>replies, <1>7, <1>8, <1>9, <1>10, StepKeeps

\* A final reply settles messages of the session file only.
LEMMA CompletedBranch ==
  ASSUME IInv, branch' = [branch EXCEPT ![host.session] = Completed(@)]
  PROVE  /\ branch' \in [Session -> Branch]
         /\ \A z \in Session : branch'[z].visible = branch[z].visible
<1>1. \A b \in Branch : Completed(b) \in Branch /\ Completed(b).visible = b.visible
  BY DEF Completed, Branch
<1>. QED  BY <1>1 DEF IInv, Typing, Host

\* A final reply.
LEMMA FinalReplyStep == ASSUME IInv, FinalReply PROVE IInv' /\ Unrepeated /\ Unfinished
<1>1. /\ Answer(co.response)
      /\ co' = IF co.response = NoRequest THEN co ELSE [co EXCEPT !.incomplete = FALSE]
      /\ branch' = [branch EXCEPT ![host.session] = Completed(@)]
      /\ UNCHANGED <<cc, parent, root, host, torn, settled>>
  BY DEF FinalReply
<1>2. Later(req') /\ Newly(replied', req')
  <2>1. co.response \in Someone
    BY DEF IInv, Typing, Memory
  <2>. QED  BY <1>1, <2>1 DEF Answer, Later, Remain, Newly, IInv, Typing, RequestStatus, Someone
<1>3. /\ co' \in Memory
      /\ co'.active = co.active /\ co'.admitted = co.admitted
      /\ co'.primary = co.primary /\ co'.restorePending = co.restorePending
  BY <1>1 DEF IInv, Typing, Memory
<1>4. Typing'
  BY <1>1, <1>2, <1>3, CompletedBranch DEF IInv, Typing, Later, Remain, Newly
<1>5. Fits(co', cc)
  BY <1>3 DEF IInv, Primary, Fits
<1>6. Unrepeated
  BY <1>1, <1>3 DEF Unrepeated
<1>7. Keeps(cc, cc, settled, Used)
  BY KeepsSame DEF IInv
<1>. QED  BY <1>1, <1>2, <1>4, <1>5, <1>6, <1>7, StepKeeps

\* A sidecar request that joins the run.
LEMMA SidecarReplyStep ==
  ASSUME IInv, NEW q \in Sidecar, SidecarReply(q)
  PROVE  IInv' /\ Unrepeated /\ Unfinished
<1>1. /\ req[q] = "unknown"
      /\ parent' = [parent EXCEPT ![q] = co.primary]
      /\ req' = [req EXCEPT ![q] = "answered"]
      /\ replied' = replied \cup {q}
      /\ co' = [co EXCEPT !.response = q, !.sidecar = q, !.incomplete = FALSE]
      /\ branch' = [branch EXCEPT ![host.session] = Completed(@)]
      /\ UNCHANGED <<cc, root, host, torn, settled>>
  BY DEF SidecarReply
<1>2. Later(req') /\ Newly(replied', req')
  BY <1>1 DEF Later, Remain, Newly, IInv, Typing, RequestStatus
<1>3. /\ co' \in Memory
      /\ co'.active = co.active /\ co'.admitted = co.admitted
      /\ co'.primary = co.primary /\ co'.restorePending = co.restorePending
  BY <1>1 DEF IInv, Typing, Memory, Someone
<1>4. parent' \in [Sidecar -> Request \cup {NoRequest}]
  BY <1>1 DEF IInv, Typing, Memory
<1>5. Typing'
  BY <1>1, <1>2, <1>3, <1>4, CompletedBranch DEF IInv, Typing, Later, Remain, Newly
<1>6. Fits(co', cc)
  BY <1>3 DEF IInv, Primary, Fits
<1>7. Unrepeated
  BY <1>1, <1>3 DEF Unrepeated
<1>8. Keeps(cc, cc, settled, Used)
  BY KeepsSame DEF IInv
<1>. QED  BY <1>1, <1>2, <1>5, <1>6, <1>7, <1>8, StepKeeps

\* A batch cancels the root: its request is interrupted, answered or not.
LEMMA CancelRootStep ==
  ASSUME IInv, CancelRoot
  PROVE  IInv' /\ Unrepeated /\ Unfinished
<1>1. /\ root.request # NoRequest
      /\ req' = [req EXCEPT ![root.request] = "stopped"]
      /\ root' = [root EXCEPT !.settlement = "interrupted", !.control = "cancel"]
      /\ UNCHANGED <<cc, replied, parent, co, host, branch, torn, settled>>
  BY DEF CancelRoot
<1>2. /\ root' \in Roots /\ root'.request = root.request /\ root.request \in Request
      /\ root'.settlement = "interrupted" /\ root'.control = "cancel"
  BY <1>1 DEF IInv, Typing, Roots, Settlement
<1>3. Remain(req')
  BY <1>1 DEF Remain, IInv, Typing, RequestStatus
<1>4. Typing'
  BY <1>1, <1>2, <1>3 DEF IInv, Typing, Remain
<1>5. Sound(cc', settled', Used') /\ (torn' \/ Awaits(cc'))
  BY <1>1, <1>3, <1>4, StepSound DEF IInv
<1>6. Primary' /\ Root'
  BY <1>1, <1>2 DEF IInv, Primary, Fits, Root
<1>7. Replies'
  BY <1>1, <1>2, <1>3 DEF IInv, Typing, Replies, Remain
<1>8. Unrepeated /\ Unfinished
  BY <1>1 DEF Unrepeated, Unfinished
<1>. QED  BY <1>4, <1>5, <1>6, <1>7, <1>8 DEF IInv

\* onAgentEnd.
LEMMA RunEndStep ==
  ASSUME IInv, NEW failed \in BOOLEAN, NEW terminal \in BOOLEAN, NEW work \in BOOLEAN,
         RunEnd(failed, terminal, work)
  PROVE  IInv' /\ Unrepeated /\ Unfinished
<1>. PICK c : c = AfterRun(failed)
  OBVIOUS
<1>. PICK resumes : resumes = ResumesPrimary(c, failed, work)
  OBVIOUS
<1>. PICK d : d = SidecarContinuation(co.sidecar)
  OBVIOUS
<1>. PICK q : q = IF resumes THEN Queued(c, d) ELSE c
  OBVIOUS
<1>. PICK sent : sent = IF resumes THEN Pending(q) ELSE {}
  OBVIOUS
<1>. PICK settling : settling = IF co.settling = NoRequest THEN co.response ELSE co.settling
  OBVIOUS
<1>1. /\ Store(Attempt(q, sent))
      /\ co' = [co EXCEPT !.active = {}, !.admitted = {},
                          !.settling = settling, !.incomplete = failed,
                          !.terminal = @ \/ terminal,
                          !.response = IF resumes THEN co.primary ELSE @]
      /\ host' = [host EXCEPT !.run = "ended", !.queue = @ \cup sent]
      /\ UNCHANGED <<req, replied, parent, root, branch, torn>>
  BY DEF RunEnd
<1>2. Keeps(cc, c, settled, Used)
  BY AfterRunSound DEF IInv, Typing
<1>3. Keeps(c, q, settled, Used)
  <2>1. Sound(c, settled, Used)
    BY <1>2 DEF Keeps
  <2>2. CASE ~resumes
    BY <2>1, <2>2, KeepsSame
  <2>3. CASE resumes
    <3>1. co.sidecar \in Sidecar
      BY <2>3 DEF ResumesPrimary, IInv, Typing, Memory
    <3>2. d \in Dispatches /\ \A op \in OperationId : d # CompactionDispatch(op)
      BY <3>1, DispatchesDiffer
    <3>. QED  BY <2>1, <2>3, <3>2, QueuedSound
  <2>. QED  BY <2>2, <2>3
<1>4. Sound(q, settled, Used) /\ sent \in SUBSET Pending(q)
  BY <1>3 DEF Keeps
<1>5. Keeps(cc, Attempt(q, sent), settled, Used)
  <2>1. Keeps(q, Attempt(q, sent), settled, Used)
    BY <1>4, AttemptSound
  <2>. QED  BY <1>2, <1>3, <2>1, KeepsTransitive
<1>6. sent \subseteq Dispatches /\ settled \cap sent = {}
  BY <1>4, PendingIs
<1>7. settling \in Someone /\ (IF resumes THEN co.primary ELSE co.response) \in Someone
  BY DEF IInv, Typing, Memory, Someone
<1>8. /\ co' \in Memory
      /\ co'.active = {} /\ co'.admitted = {}
      /\ co'.primary = co.primary /\ co'.restorePending = co.restorePending
  <2>. PICK ends, response : /\ ends = (co.terminal \/ terminal)
                             /\ response = IF resumes THEN co.primary ELSE co.response
    OBVIOUS
  <2>1. co' = [co EXCEPT !.active = {}, !.admitted = {}, !.settling = settling,
                         !.incomplete = failed, !.terminal = ends, !.response = response]
    BY <1>1
  <2>2. ends \in BOOLEAN /\ response \in Someone /\ settling \in Someone /\ co \in Memory
    BY <1>7 DEF IInv, Typing
  <2>. QED  BY ONLY <2>1, <2>2, failed \in BOOLEAN DEF Memory
<1>9. host' \in Host /\ host'.queue = host.queue \cup sent
  BY <1>1, <1>6 DEF IInv, Typing, Host
<1>10. Typing'
  BY <1>1, <1>8, <1>9, FS_EmptySet DEF IInv, Typing
<1>11. Fits(co', cc)
  BY <1>8 DEF IInv, Primary, Fits
<1>12. Unrepeated
  BY <1>6, <1>8, <1>9 DEF Unrepeated
<1>13. Later(req')
  BY <1>1, LaterSame DEF IInv
<1>replies. Newly(replied', req')
  BY <1>1, LaterSame DEF IInv
<1>. QED  BY <1>1, <1>replies, <1>5, <1>10, <1>11, <1>12, <1>13, StepKeeps DEF Store

\* beforeCompaction.
LEMMA BeforeCompactionStep ==
  ASSUME IInv, NEW k \in Key, NEW owner \in {"harness", "native"}, BeforeCompaction(k, owner)
  PROVE  IInv' /\ Unrepeated /\ Unfinished
<1>1. /\ host' = [host EXCEPT !.compacting = TRUE]
      /\ branch' = [branch EXCEPT ![host.session].window = k]
      /\ UNCHANGED <<req, replied, parent, root, co, torn>>
  BY DEF BeforeCompaction
<1>2. PICK x : /\ Keeps(cc, x, settled, Used) /\ cc' = x
               /\ settled' \in {settled, settled \cup Acknowledged(x)}
  <2>1. CASE cc.turn = NoTurn
    BY <2>1, KeepsSame DEF BeforeCompaction, IInv
  <2>2. CASE cc.turn # NoTurn
    <3>. PICK op : op = <<cc.turn.request, k>>
      OBVIOUS
    <3>1. op \in OperationId
      BY <2>2, Turns DEF IInv, Sound, Good, Typed, OperationId
    <3>2. Keeps(cc, CompactionPrepared(cc, host.session, op, owner), settled, Used)
      BY <3>1, PreparedSound DEF IInv
    <3>. QED  BY <2>2, <3>2 DEF BeforeCompaction, Store
  <2>. QED  BY <2>1, <2>2
<1>3. host' \in Host /\ host'.queue = host.queue
  BY <1>1 DEF IInv, Typing, Host
<1>4. branch' \in [Session -> Branch] /\ \A z \in Session : branch'[z].visible = branch[z].visible
  BY <1>1 DEF IInv, Typing, Branch, Host
<1>5. Typing'
  BY <1>1, <1>3, <1>4 DEF IInv, Typing
<1>6. Unrepeated
  BY <1>1, <1>3 DEF Unrepeated
<1>7. Later(req') /\ Fits(co', cc)
  BY <1>1, LaterSame DEF IInv, Primary
<1>replies. Newly(replied', req')
  BY <1>1, LaterSame DEF IInv
<1>. QED  BY <1>1, <1>replies, <1>2, <1>5, <1>6, <1>7, StepKeeps

\* A host as a process or session start leaves it.
LEMMA HostAtIs ==
  ASSUME NEW z \in Session
  PROVE  /\ HostAt(z) \in Host /\ HostAt(z).queue = {}
         /\ [HostAt(z) EXCEPT !.run = "down"] \in Host
         /\ [HostAt(z) EXCEPT !.run = "down"].queue = {}
         /\ \A sent \in SUBSET Dispatches : /\ [HostAt(z) EXCEPT !.queue = sent] \in Host
                                            /\ [HostAt(z) EXCEPT !.queue = sent].queue = sent
BY DEF HostAt, Host

\* afterCompaction, and a crash between its writes.
LEMMA AfterCompactionStep ==
  ASSUME IInv, NEW kept \in SUBSET Dispatches, NEW sent \in SUBSET Dispatches,
         NEW crash \in BOOLEAN, AfterCompaction(kept, sent, crash)
  PROVE  IInv' /\ Unrepeated /\ Unfinished
<1>1. /\ kept \subseteq branch[host.session].visible
      /\ branch' = [branch EXCEPT ![host.session] = Kept(@, kept)]
      /\ UNCHANGED <<req, replied, parent, root>>
  BY DEF AfterCompaction
<1>2. /\ branch' \in [Session -> Branch]
      /\ \A z \in Session : branch'[z].visible \subseteq branch[z].visible
  <2>1. \A b \in Branch : Kept(b, kept) \in Branch /\ Kept(b, kept).visible = kept
    BY DEF Kept, Branch
  <2>. QED  BY <1>1, <2>1 DEF IInv, Typing, Host
<1>3. \A z \in Session : IsFiniteSet(branch'[z].visible)
  BY <1>2, FS_Subset DEF IInv, Typing
<1>4. Later(req')
  BY <1>1, LaterSame DEF IInv
<1>5. host \in Host /\ host.session \in Session
  BY DEF IInv, Typing, Host
<1>6. ASSUME NEW x, Sound(x, settled, Used), Frame(cc, x),
             torn' \/ (Awaits(cc) => Awaits(x)), torn => torn',
             cc' = x, settled' \in {settled, settled \cup Acknowledged(x)},
             co' \in {co, FreshCoordinator},
             host' \in Host, host'.queue \subseteq host.queue \cup sent, settled \cap sent = {}
      PROVE  IInv' /\ Unrepeated /\ Unfinished
  <2>1. /\ co' \in Memory /\ IsFiniteSet(co'.active) /\ co'.admitted \subseteq co'.active
        /\ Fits(co', cc) /\ (co'.admitted \subseteq co.admitted)
    BY <1>6, FreshMemory, FS_EmptySet DEF IInv, Typing, Primary
  <2>2. Typing'
    BY <1>1, <1>2, <1>3, <1>6, <2>1 DEF IInv, Typing
  <2>3. Sound(cc', settled', Used') /\ (torn' \/ Awaits(cc'))
    BY <1>4, <1>6, <2>2, StepSound DEF IInv, Later
  <2>4. Primary'
    BY <1>6, <2>1 DEF Primary, Fits, Frame
  <2>5. Root'
    BY <1>1, <1>6 DEF IInv, Root, Frame
  <2>6. Unrepeated /\ Unfinished
    BY <1>6, <2>1 DEF Unrepeated, Unfinished, Frame
  <2>7. Replies'
    BY <1>1, <1>4, LaterSame, RepliesStay DEF IInv
  <2>. QED  BY <2>2, <2>3, <2>4, <2>5, <2>6, <2>7 DEF IInv
<1>7. CASE PreparedCompactions(cc) = {}
  <2>1. /\ sent = {} /\ host' = CompactionEnds
        /\ UNCHANGED <<cc, co, torn, settled>>
    BY <1>7 DEF AfterCompaction
  <2>2. host' \in Host /\ host'.queue = host.queue
    BY <1>5, <2>1 DEF Host, CompactionEnds
  <2>3. Keeps(cc, cc, settled, Used)
    BY KeepsSame DEF IInv
  <2>. QED  BY <1>6, <2>1, <2>2, <2>3 DEF Keeps
<1>8. CASE PreparedCompactions(cc) # {}
  <2>. PICK n : n = Latest(PreparedCompactions(cc))
    OBVIOUS
  <2>. PICK c : c = CompactionSucceeded(cc, n)
    OBVIOUS
  <2>. PICK dispatches : dispatches = (Matches(cc, cc.compactions[n].op)
                                       /\ cc.compactions[n].owner = "harness")
    OBVIOUS
  <2>. PICK q : q = IF dispatches THEN Queued(c, CompactionDispatch(cc.compactions[n].op)) ELSE c
    OBVIOUS
  <2>1. /\ n \in DOMAIN cc.compactions
        /\ cc.compactions[n].status = "prepared"
        /\ cc.compactions[n].op \in OperationId
        /\ cc.compactions[n].owner \in {"harness", "native"}
    BY <1>8, PreparedOf DEF IInv
  <2>2. Sound(c, settled, Used) /\ Frame(cc, c) /\ Keeps(cc, q, settled, Used)
    BY <2>1, CommittedSound DEF IInv
  <2>3. CASE crash
    <3>1. /\ sent = {} /\ Store(c) /\ torn' = TRUE /\ co' = FreshCoordinator
          /\ host' = [HostAt(host.session) EXCEPT !.run = "down"]
      BY <1>8, <2>3 DEF AfterCompaction
    <3>2. host' \in Host /\ host'.queue = {}
      BY <1>5, <3>1, HostAtIs
    <3>. QED  BY <1>6, <2>2, <3>1, <3>2 DEF Store
  <2>4. CASE ~crash
    <3>1. /\ sent \in (IF dispatches THEN Sends(q) ELSE {{}})
          /\ Store(Attempt(q, sent))
          /\ host' = [CompactionEnds EXCEPT !.queue = @ \cup sent]
          /\ UNCHANGED <<torn, co>>
      BY <1>8, <2>4 DEF AfterCompaction
    <3>2. sent \in SUBSET Pending(q)
      BY <3>1 DEF Sends
    <3>3. settled \cap sent = {}
      BY <2>2, <3>2, PendingIs DEF Keeps
    <3>4. host' \in Host /\ host'.queue = host.queue \cup sent
      BY <1>5, <3>1 DEF Host, CompactionEnds
    <3>5. Keeps(cc, Attempt(q, sent), settled, Used)
      <4>1. Keeps(q, Attempt(q, sent), settled, Used)
        BY <2>2, <3>2, AttemptSound DEF Keeps
      <4>. QED  BY <2>2, <4>1, KeepsTransitive
    <3>. QED  BY <1>6, <3>1, <3>3, <3>4, <3>5 DEF Store, Keeps
  <2>. QED  BY <2>3, <2>4
<1>. QED  BY <1>7, <1>8

\* A compaction that aborts.
LEMMA CompactionAbortsStep ==
  ASSUME IInv, NEW signalled \in BOOLEAN, CompactionAborts(signalled)
  PROVE  IInv' /\ Unrepeated /\ Unfinished
<1>1. host' = CompactionEnds /\ UNCHANGED <<req, replied, parent, root, co, branch, torn>>
  BY DEF CompactionAborts
<1>2. PICK x : /\ Keeps(cc, x, settled, Used) /\ cc' = x
               /\ settled' \in {settled, settled \cup Acknowledged(x)}
  <2>1. CASE signalled /\ PreparedCompactions(cc) # {}
    <3>. PICK n : n = Latest(PreparedCompactions(cc))
      OBVIOUS
    <3>1. n \in DOMAIN cc.compactions
      BY <2>1, PreparedOf DEF IInv
    <3>. PICK reason : reason = "aborted"
      OBVIOUS
    <3>2. Keeps(cc, CompactionFailed(cc, n, reason), settled, Used)
      BY <3>1, FailedSound DEF IInv
    <3>. QED  BY <2>1, <3>2 DEF CompactionAborts, Store
  <2>2. CASE ~(signalled /\ PreparedCompactions(cc) # {})
    BY <2>2, KeepsSame DEF CompactionAborts, IInv
  <2>. QED  BY <2>1, <2>2
<1>3. host' \in Host /\ host'.queue = host.queue
  BY <1>1 DEF IInv, Typing, Host, CompactionEnds
<1>4. Typing'
  BY <1>1, <1>3 DEF IInv, Typing
<1>5. Unrepeated
  BY <1>1, <1>3 DEF Unrepeated
<1>6. Later(req') /\ Fits(co', cc)
  BY <1>1, LaterSame DEF IInv, Primary
<1>replies. Newly(replied', req')
  BY <1>1, LaterSame DEF IInv
<1>. QED  BY <1>1, <1>replies, <1>2, <1>4, <1>5, <1>6, StepKeeps

\* A crash.
LEMMA CrashStep == ASSUME IInv, Crash PROVE IInv' /\ Unrepeated /\ Unfinished
<1>1. /\ co' = FreshCoordinator
      /\ host' = [HostAt(host.session) EXCEPT !.run = "down"]
      /\ UNCHANGED <<cc, req, replied, parent, root, branch, torn, settled>>
  BY DEF Crash
<1>2. host' \in Host /\ host'.queue = {}
  BY <1>1, HostAtIs DEF IInv, Typing, Host
<1>3. Typing'
  BY <1>1, <1>2, FreshMemory, FS_EmptySet DEF IInv, Typing
<1>4. Unrepeated
  BY <1>1, <1>2, FreshMemory DEF Unrepeated
<1>5. Later(req') /\ Fits(co', cc) /\ Keeps(cc, cc, settled, Used)
  BY <1>1, LaterSame, FreshMemory, KeepsSame DEF IInv
<1>replies. Newly(replied', req')
  BY <1>1, LaterSame DEF IInv
<1>. QED  BY <1>1, <1>replies, <1>3, <1>4, <1>5, StepKeeps

\* A crash between the writes of consumeContinuation.
LEMMA CrashInRunEndStep ==
  ASSUME IInv, NEW d \in Dispatches, CrashInRunEnd(d)
  PROVE  IInv' /\ Unrepeated /\ Unfinished
<1>1. /\ Receipt(cc, d) = "claimed"
      /\ Store(Consumed(cc, d))
      /\ torn' = TRUE
      /\ co' = FreshCoordinator
      /\ host' = [HostAt(host.session) EXCEPT !.run = "down"]
      /\ UNCHANGED <<req, replied, parent, root, branch>>
  BY DEF CrashInRunEnd
<1>. PICK x : x = Consumed(cc, d)
  OBVIOUS
<1>2. d \in DOMAIN cc.outbox
  BY <1>1 DEF Receipt, IInv, Sound, Good, Typed
<1>3. Sound(x, settled, Used) /\ Frame(cc, x)
  BY <1>2, ConsumedSound DEF IInv
<1>4. host' \in Host /\ host'.queue = {}
  BY <1>1, HostAtIs DEF IInv, Typing, Host
<1>5. Typing'
  BY <1>1, <1>4, FreshMemory, FS_EmptySet DEF IInv, Typing
<1>6. Later(req')
  BY <1>1, LaterSame DEF IInv
<1>7. Sound(cc', settled', Used') /\ (torn' \/ Awaits(cc'))
  BY <1>1, <1>3, <1>5, <1>6, StepSound DEF Store, Later
<1>8. cc' = x
  BY <1>1 DEF Store
<1>9. Primary' /\ Root'
  BY <1>1, <1>3, <1>8, FreshMemory DEF Primary, Fits, FreshCoordinator, IInv, Root, Frame
<1>10. Unrepeated /\ Unfinished
  BY <1>1, <1>3, <1>4, <1>8, FreshMemory DEF Unrepeated, Unfinished, Frame
<1>11. Replies'
  BY <1>1, <1>6, LaterSame, RepliesStay DEF IInv
<1>. QED  BY <1>5, <1>7, <1>9, <1>10, <1>11 DEF IInv

\* retireRuntimeSessionItems.
LEMMA Retired ==
  ASSUME IInv, RetireItems
  PROVE  Later(req') /\ root' = NoRoot
BY DEF RetireItems, Later, Remain, IInv, Typing, RequestStatus

\* resetSession.
LEMMA ResetSessionStep == ASSUME IInv, ResetSession PROVE IInv' /\ Unrepeated /\ Unfinished
<1>1. /\ Store(SessionReset(cc, host.session)) /\ RetireItems /\ co' = FreshCoordinator
      /\ UNCHANGED <<replied, parent, host, branch, torn>>
  BY DEF ResetSession
<1>. PICK x : x = SessionReset(cc, host.session)
  OBVIOUS
<1>2. Sound(x, settled, Used) /\ Awaits(x) /\ x.turn = NoTurn
  BY ClearedSound DEF SessionReset, IInv, Typing, Host
<1>3. Later(req') /\ root' = NoRoot
  BY <1>1, Retired
<1>4. NoRoot \in Roots
  BY DEF NoRoot, RootOf, NoRequest, Roots, Settlement
<1>5. Typing'
  BY <1>1, <1>3, <1>4, FreshMemory, FS_EmptySet DEF IInv, Typing, Later, Remain
<1>6. cc' = x /\ settled' = settled \cup Acknowledged(x)
  BY <1>1 DEF Store
<1>7. Sound(cc', settled', Used') /\ (torn' \/ Awaits(cc'))
  BY <1>2, <1>3, <1>5, <1>6, StepSound DEF Later
<1>8. Primary' /\ Root'
  BY <1>1, <1>2, <1>3, <1>6 DEF Primary, Fits, FreshCoordinator, Root, NoRoot, RootOf
<1>10. Replies'
  BY <1>1, <1>3, LaterSame, RepliesStay DEF IInv
<1>9. Unrepeated /\ Unfinished
  BY <1>1, <1>2, <1>6, FreshMemory DEF Unrepeated, Unfinished
<1>. QED  BY <1>5, <1>7, <1>8, <1>9, <1>10 DEF IInv

\* onSessionStart.
LEMMA SessionStartStep ==
  ASSUME IInv, NEW s \in Session, NEW reason, NEW work \in BOOLEAN, NEW sent \in SUBSET Dispatches,
         SessionStart(s, reason, work, sent)
  PROVE  IInv' /\ Unrepeated /\ Unfinished
<1>. PICK signal : signal = SessionSignal(cc, s, reason)
  OBVIOUS
<1>. PICK c : c = SessionStarted(cc, s, reason)
  OBVIOUS
<1>1. /\ Sound(c, settled, Used)
      /\ Awaits(cc) => Awaits(c)
      /\ Moves(cc, c)
      /\ (signal = "restore" /\ c.turn # NoTurn) => c.session = s /\ c.turn.session = s
  BY SessionStartedSound DEF IInv
<1>2. UNCHANGED <<replied, parent, branch, torn>>
  BY DEF SessionStart
<1>3. CASE signal = "restore" /\ c.turn # NoTurn
  <2>. PICK r : r = Reconciled(c, s)
    OBVIOUS
  <2>. PICK y : y = CHOOSE z \in Unresumed(c, work) : TRUE
    OBVIOUS
  <2>. PICK d : d = SidecarContinuation(y)
    OBVIOUS
  <2>. PICK q : q = IF Unresumed(c, work) = {} THEN r ELSE Queued(r, d)
    OBVIOUS
  <2>. PICK x : x = Attempt(q, sent)
    OBVIOUS
  <2>1. /\ sent = Pending(q) /\ Store(x) /\ co' = Restored(c.turn)
        /\ host' = [HostAt(s) EXCEPT !.queue = sent]
        /\ UNCHANGED <<req, root>>
    BY <1>3 DEF SessionStart
  <2>2. Keeps(c, r, settled, Used)
    BY <1>1, ReconciledSound
  <2>3. Keeps(r, q, settled, Used)
    <3>1. Sound(r, settled, Used)
      BY <2>2 DEF Keeps
    <3>2. CASE Unresumed(c, work) = {}
      BY <3>1, <3>2, KeepsSame
    <3>3. CASE Unresumed(c, work) # {}
      <4>1. y \in Sidecar
        BY <3>3 DEF Unresumed, Sidecars
      <4>2. d \in Dispatches /\ \A op \in OperationId : d # CompactionDispatch(op)
        BY <4>1, DispatchesDiffer
      <4>. QED  BY <3>1, <3>3, <4>2, QueuedSound
    <3>. QED  BY <3>2, <3>3
  <2>4. Keeps(q, x, settled, Used)
    BY <2>1, <2>3, AttemptSound DEF Keeps
  <2>5. Keeps(c, x, settled, Used)
    BY <2>2, <2>3, <2>4, KeepsTransitive
  <2>6. settled \cap sent = {}
    BY <2>1, <2>3, PendingIs DEF Keeps
  <2>7. host' \in Host /\ host'.queue = sent
    BY <2>1, HostAtIs
  <2>8. c.turn.request \in Request
    BY <1>1, <1>3, Turns DEF Sound, Good, Typed
  <2>9. /\ co' \in Memory /\ co'.active = {} /\ co'.admitted = {}
        /\ co'.primary = c.turn.request
    <3>. PICK a, b, p : /\ a = (c.turn.phase \in {"recoverable_failure", "interrupted"})
                        /\ b = (c.turn.phase = "recoverable_failure")
                        /\ p = c.turn.request
      OBVIOUS
    <3>1. co' = [FreshCoordinator EXCEPT !.primary = p, !.response = p,
                                         !.incomplete = a, !.restorePending = b]
      BY <2>1 DEF Restored
    <3>2. a \in BOOLEAN /\ b \in BOOLEAN /\ p \in Request
      BY <2>8
    <3>3. co' \in Memory /\ co'.active = {} /\ co'.admitted = {} /\ co'.primary = p
      BY ONLY <3>1, <3>2, FreshMemory DEF Memory, Someone
    <3>. QED  BY <3>3
  <2>10. co'.primary # NoRequest
    BY <2>8, <2>9, RequestCoordinatorAssumption DEF NoRequest
  <2>11. Typing'
    BY <1>2, <2>1, <2>7, <2>9, FS_EmptySet DEF IInv, Typing
  <2>12. Later(req')
    BY <2>1, LaterSame DEF IInv
  <2>13. cc' = x /\ settled' = settled \cup Acknowledged(x)
    BY <2>1 DEF Store
  <2>14. Sound(x, settled, Used) /\ (torn' \/ Awaits(x)) /\ Frame(c, x)
    BY <1>1, <1>2, <2>5 DEF Keeps, IInv
  <2>15. Sound(cc', settled', Used') /\ (torn' \/ Awaits(cc'))
    BY <2>11, <2>12, <2>13, <2>14, StepSound DEF Later
  <2>16. Primary'
    BY <1>1, <1>3, <2>9, <2>10, <2>13, <2>14 DEF Primary, Fits, Frame
  <2>17. Root'
    BY <1>1, <1>3, <2>1, <2>13, <2>14 DEF IInv, Root, Frame, Moves
  <2>18. Unrepeated /\ Unfinished
    BY <1>1, <1>3, <2>6, <2>7, <2>9, <2>13, <2>14 DEF Unrepeated, Unfinished, Frame, Moves
  <2>19. Replies'
    BY <1>2, <2>1, <2>12, LaterSame, RepliesStay DEF IInv
  <2>. QED  BY <2>11, <2>15, <2>16, <2>17, <2>18, <2>19 DEF IInv
<1>4. CASE ~(signal = "restore" /\ c.turn # NoTurn)
  <2>1. /\ Store(c) /\ co' = FreshCoordinator /\ host' = HostAt(s)
        /\ RetireItems \/ UNCHANGED <<req, root>>
    BY <1>4 DEF SessionStart
  <2>2. host' \in Host /\ host'.queue = {}
    BY <2>1, HostAtIs
  <2>3. Later(req') /\ root' \in {root, NoRoot}
    BY <2>1, Retired, LaterSame DEF IInv
  <2>4. NoRoot \in Roots
    BY DEF NoRoot, RootOf, NoRequest, Roots, Settlement
  <2>5. Typing'
    BY <1>2, <2>1, <2>2, <2>3, <2>4, FreshMemory, FS_EmptySet DEF IInv, Typing, Later, Remain
  <2>6. cc' = c /\ settled' = settled \cup Acknowledged(c)
    BY <2>1 DEF Store
  <2>7. Sound(cc', settled', Used') /\ (torn' \/ Awaits(cc'))
    BY <1>1, <1>2, <2>3, <2>5, <2>6, StepSound DEF IInv, Later
  <2>8. Primary'
    BY <2>1 DEF Primary, Fits, FreshCoordinator
  <2>9. Root'
    BY <1>1, <2>3, <2>6 DEF IInv, Root, NoRoot, RootOf, Moves, Later
  <2>10. Unrepeated /\ Unfinished
    BY <1>1, <2>1, <2>2, <2>6, FreshMemory DEF Unrepeated, Unfinished, Moves
  <2>11. Replies'
    BY <1>2, <2>3, LaterSame, RepliesStay DEF IInv
  <2>. QED  BY <2>5, <2>7, <2>8, <2>9, <2>10, <2>11 DEF IInv
<1>. QED  BY <1>3, <1>4

\* What CompletionIsQuiet asks of a step.
Quiet ==
  (cc'.turn # NoTurn /\ cc'.turn.phase = "completed" /\ cc'.turn # cc.turn)
    => \/ cc.turn # NoTurn /\ cc.turn.phase = "completed"
       \/ root'.request = cc'.turn.request /\ root'.control = "cancel"
       \/ /\ req'[cc'.turn.request] = "answered"
          /\ root' = [RootOf(cc'.turn.request) EXCEPT !.settlement = "succeeded"]
          /\ Outstanding(cc') = {}
          /\ TurnCompactions(cc') \cap PreparedCompactions(cc') = {}

\* onAgentSettled, the only step that completes a turn.
LEMMA SettledStep ==
  ASSUME IInv, NEW kept \in BOOLEAN, NEW work \in BOOLEAN, Settled(kept, work)
  PROVE  IInv' /\ Unrepeated /\ Quiet
<1>1. host' = [host EXCEPT !.run = "idle"] /\ UNCHANGED <<replied, parent, branch, torn>>
  BY DEF Settled
<1>2. host' \in Host /\ host'.queue = host.queue
  BY <1>1 DEF IInv, Typing, Host
<1>3. CASE co.primary = NoRequest
  <2>1. co' = [co EXCEPT !.terminal = FALSE] /\ UNCHANGED <<cc, req, root, settled>>
    BY <1>3 DEF Settled
  <2>2. /\ co' \in Memory /\ co'.active = co.active /\ co'.admitted = co.admitted
        /\ co'.primary = co.primary /\ co'.restorePending = co.restorePending
    BY <2>1 DEF IInv, Typing, Memory
  <2>3. Typing'
    BY <1>1, <1>2, <2>1, <2>2 DEF IInv, Typing
  <2>4. Later(req') /\ Fits(co', cc) /\ Keeps(cc, cc, settled, Used)
    BY <2>1, <2>2, LaterSame, KeepsSame DEF IInv, Primary, Fits
  <2>7. Newly(replied', req')
    BY <1>1, LaterSame DEF IInv
  <2>5. IInv' /\ Unfinished
    BY <1>1, <2>1, <2>3, <2>4, <2>7, StepKeeps
  <2>6. Unrepeated
    BY <1>2, <2>2 DEF Unrepeated
  <2>. QED  BY <2>5, <2>6 DEF Unfinished, Quiet
<1>4. CASE co.primary # NoRequest
  <2>. PICK c : c = WithoutPrepared(cc)
    OBVIOUS
  <2>. PICK id : id = Settles(c, work)
    OBVIOUS
  <2>. PICK ok : ok = LocalSucceeded(c, id)
    OBVIOUS
  <2>. PICK outcome : outcome = IF id # root.request THEN root
                                ELSE [root EXCEPT !.settlement =
                                        IF ok THEN "succeeded" ELSE "failed"]
    OBVIOUS
  <2>. PICK done : done = (\/ outcome.control = "cancel"
                           \/ /\ outcome.settlement = "succeeded"
                              /\ ~Open(c)
                              /\ ~work
                              /\ req[outcome.request] # "open")
    OBVIOUS
  <2>. PICK x : x = IF (ok /\ kept) \/ ~done THEN c ELSE TurnCompleted(c, co.primary)
    OBVIOUS
  <2>1. /\ co' = [co EXCEPT !.terminal = FALSE, !.settling = NoRequest]
        /\ Store(x)
        /\ ok /\ kept => UNCHANGED <<req, root>>
        /\ ~(ok /\ kept) =>
             /\ root' = outcome
             /\ req' = IF ~ok /\ id = co.primary /\ req[id] = "open"
                       THEN [req EXCEPT ![id] = "stopped"] ELSE req
    BY <1>4 DEF Settled
  <2>2. /\ co' \in Memory /\ co'.active = co.active /\ co'.admitted = co.admitted
        /\ co'.primary = co.primary /\ co'.restorePending = co.restorePending
    BY <2>1 DEF IInv, Typing, Memory, Someone
  <2>3. Later(req')
    BY <2>1 DEF Later, Remain, IInv, Typing, RequestStatus
  <2>4. /\ outcome \in Roots
        /\ outcome.request = root.request
        /\ outcome.control = root.control
    <3>1. \A w \in Settlement : LET y == [root EXCEPT !.settlement = w]
                                IN /\ y \in Roots
                                   /\ y.request = root.request
                                   /\ y.control = root.control
      BY DEF IInv, Typing, Roots
    <3>. QED  BY <3>1 DEF IInv, Typing, Settlement
  <2>5. Typing'
    BY <1>1, <1>2, <2>1, <2>2, <2>3, <2>4 DEF IInv, Typing, Later, Remain
  <2>6. cc.turn # NoTurn /\ cc.turn.request = co.primary /\ cc.turn.session = cc.session
    BY <1>4 DEF IInv, Primary, Fits
  <2>7. /\ Keeps(cc, c, settled, Used)
        /\ (c.turn # NoTurn /\ ~Open(c)) =>
             \A m \in DOMAIN c.compactions :
               c.compactions[m].op[1] = c.turn.request => c.compactions[m].status # "prepared"
    BY <2>6, WithoutPreparedSound DEF IInv
  <2>8. /\ c.turn # NoTurn /\ c.turn.request = co.primary /\ c.turn.session = c.session
        /\ c.session = cc.session
        /\ c.turn.phase = "completed" => cc.turn.phase = "completed"
    BY <2>6, <2>7 DEF Keeps, Frame
  <2>9. /\ Sound(x, settled, Used)
        /\ Awaits(cc) => Awaits(x)
        /\ x.session = cc.session
        /\ x.turn # NoTurn /\ x.turn.request = co.primary /\ x.turn.session = x.session
        /\ x.outbox = c.outbox /\ x.compactions = c.compactions
    BY <2>7, <2>8, CompletedSound DEF Keeps
  <2>10. cc' = x /\ settled' = settled \cup Acknowledged(x)
    BY <2>1 DEF Store
  <2>11. Sound(cc', settled', Used') /\ (torn' \/ Awaits(cc'))
    BY <1>1, <2>3, <2>5, <2>9, <2>10, StepSound DEF IInv, Later
  <2>12. Primary'
    BY <2>2, <2>9, <2>10, <1>4 DEF Primary, Fits
  <2>13. co.primary \in Request /\ \A r \in Request : r # NoRequest
    BY <1>4, RequestCoordinatorAssumption DEF IInv, Typing, Memory, NoRequest
  \* A root that is settled as succeeded is the primary request, and answered
  \* unless a batch cancelled it.
  <2>14. outcome.settlement = "succeeded" =>
           /\ outcome.request = co.primary
           /\ outcome.control = "cancel" \/ req[co.primary] = "answered"
    <3>1. CASE id = root.request /\ ok
      <4>1. root.request = co.primary /\ co.primary \in replied
        BY <3>1 DEF LocalSucceeded
      <4>2. root.control \in {"none", "cancel"}
        BY DEF IInv, Typing, Roots
      <4>. QED  BY <2>4, <4>1, <4>2 DEF IInv, Replies
    <3>2. CASE id = root.request /\ ~ok
      <4>1. outcome.settlement = "failed"
        BY <3>2 DEF IInv, Typing, Roots
      <4>. QED  BY <4>1
    <3>3. CASE id # root.request
      <4>1. outcome = root
        BY <3>3
      <4>. QED  BY <2>6, <2>13, <4>1 DEF IInv, Root
    <3>. QED  BY <3>1, <3>2, <3>3
  <2>18. Replies'
    <3>1. Newly(replied', req')
      BY <1>1, LaterSame DEF IInv
    <3>2. root'.request = root.request /\ root'.control = root.control
      BY <2>1, <2>4
    <3>. QED  BY <2>3, <3>1, <3>2, RepliesStay DEF IInv
  <2>15. Root'
    <3>1. CASE ok /\ kept
      BY <2>1, <2>3, <2>6, <2>9, <2>10, <3>1 DEF IInv, Root, Later, Remain
    <3>2. CASE ~(ok /\ kept)
      <4>1. root'.request # NoRequest => co.primary = root'.request
        BY <2>1, <2>4, <2>6, <3>2 DEF IInv, Root
      <4>2. root'.settlement = "succeeded" =>
              /\ root'.request \in Request
              /\ root'.control = "cancel" \/ req'[root'.request] = "answered"
        BY <2>1, <2>3, <2>13, <2>14, <3>2 DEF Later
      <4>3. root'.control = "cancel" => root'.request \in Request
        BY <2>1, <2>4, <3>2 DEF IInv, Root
      <4>. QED  BY <2>9, <2>10, <4>1, <4>2, <4>3 DEF Root
    <3>. QED  BY <3>1, <3>2
  <2>16. Unrepeated
    BY <1>2, <2>2 DEF Unrepeated
  <2>17. Quiet
    <3>. SUFFICES ASSUME x.turn.phase = "completed", cc.turn.phase # "completed"
                  PROVE  \/ root'.request = x.turn.request /\ root'.control = "cancel"
                         \/ /\ req'[x.turn.request] = "answered"
                            /\ root' = [RootOf(x.turn.request) EXCEPT !.settlement = "succeeded"]
                            /\ Outstanding(x) = {}
                            /\ TurnCompactions(x) \cap PreparedCompactions(x) = {}
      BY <2>6, <2>10 DEF Quiet
    <3>1. ~(ok /\ kept) /\ done
      BY <2>8
    <3>2. root' = outcome
      BY <2>1, <3>1
    <3>3. CASE outcome.control = "cancel"
      <4>1. cc.turn.request = root.request
        <5>1. root.request # NoRequest
          BY <2>4, <2>13, <3>3 DEF IInv, Root
        <5>. QED  BY <2>6, <5>1 DEF IInv, Root
      <4>. QED  BY <2>4, <2>6, <2>9, <3>2, <3>3, <4>1
    <3>4. CASE outcome.control # "cancel"
      <4>1. /\ outcome.settlement = "succeeded" /\ ~Open(c)
            /\ outcome.request = co.primary /\ req[co.primary] = "answered"
        BY <2>14, <3>1, <3>4
      <4>2. req'[x.turn.request] = "answered"
        BY <2>3, <2>9, <2>13, <4>1 DEF Later
      <4>3. root' = [RootOf(x.turn.request) EXCEPT !.settlement = "succeeded"]
        <5>1. outcome.control = "none"
          BY <2>4, <3>4 DEF Roots
        <5>. QED  BY <2>4, <2>9, <3>2, <4>1, <5>1 DEF Roots, RootOf
      <4>4. Outstanding(x) = {}
        BY <2>9, <4>1 DEF Open, Outstanding
      <4>5. TurnCompactions(x) \cap PreparedCompactions(x) = {}
        BY <2>7, <2>8, <2>9, <4>1 DEF TurnCompactions, PreparedCompactions
      <4>. QED  BY <4>2, <4>3, <4>4, <4>5
    <3>. QED  BY <3>3, <3>4
  <2>. QED  BY <2>5, <2>11, <2>12, <2>15, <2>16, <2>17, <2>18 DEF IInv
<1>. QED  BY <1>3, <1>4

\* The first session starts from an empty file.
LEMMA InitHolds == Init => IInv
<1>. SUFFICES ASSUME Init PROVE IInv
  OBVIOUS
<1>1. PICK s \in Session :
        /\ cc = SessionStarted(EmptyContinuity, s, "startup")
        /\ req = [r \in Request \cup Sidecar |-> "unknown"]
        /\ replied = {}
        /\ parent = [q \in Sidecar |-> NoRequest]
        /\ root = NoRoot
        /\ co = FreshCoordinator
        /\ host = HostAt(s)
        /\ branch = [t \in Session |-> EmptyBranch]
        /\ settled = {}
  BY DEF Init
<1>. PICK e : e = SessionEvent(s, "startup")
  OBVIOUS
<1>. PICK n : n = <<>>
  OBVIOUS
<1>2. cc = State(s, NoTurn, n, n, n, "none", {e})
  BY ONLY <1>1, e = SessionEvent(s, "startup"), n = <<>>
     DEF SessionStarted, SessionSignal, EmptyContinuity, Commit, State
<1>3. DOMAIN n = {} /\ n \in Seq(Compaction) /\ \A T : n \in [DOMAIN n -> T]
  OBVIOUS
<1>4. Neutral(e)
  BY NeutralEvents
<1>5. Typed(s, NoTurn, n, n, n, "none")
  BY <1>3, FS_EmptySet DEF Typed
<1>6. Good(s, NoTurn, n, n, n, "none", {e}, settled, Used)
  BY <1>1, <1>3, <1>4, <1>5
     DEF Good, Mail, Recorded, Distinct, Untouched, Order, GivenUp, Made, Neutral
<1>7. Sound(cc, settled, Used) /\ Awaits(cc) /\ cc.turn = NoTurn
  BY <1>2, <1>6, SoundIs, Fields DEF Waits
<1>8. EmptyBranch \in Branch /\ EmptyBranch.visible = {}
  BY DEF EmptyBranch, Branch
<1>9. NoRoot \in Roots
  BY DEF NoRoot, RootOf, NoRequest, Roots, Settlement
<1>10. Typing
  BY <1>1, <1>8, <1>9, FreshMemory, HostAtIs, FS_EmptySet DEF Typing, RequestStatus
<1>11. Primary /\ Root /\ Replies
  BY <1>1, <1>7 DEF Primary, Fits, FreshCoordinator, Root, Replies, NoRoot, RootOf
<1>. QED  BY <1>7, <1>10, <1>11 DEF IInv

\* Every step keeps the invariant and does what the action properties ask.
LEMMA NextKeeps == ASSUME IInv, Next PROVE IInv' /\ Unrepeated /\ Quiet
<1>. SUFFICES IInv' /\ Unrepeated /\ (Unfinished \/ Quiet)
  BY DEF Unfinished, Quiet
<1>1. ASSUME NEW r \in Request, BeginRequest(r) PROVE IInv' /\ Unrepeated /\ Unfinished
  BY <1>1, BeginRequestStep
<1>2. ASSUME Retry PROVE IInv' /\ Unrepeated /\ Unfinished
  BY <1>2, RetryStep
<1>3. ASSUME NEW d \in Dispatches, MessageStart(d) \/ CrashInRunEnd(d)
      PROVE  IInv' /\ Unrepeated /\ Unfinished
  BY <1>3, MessageStartStep, CrashInRunEndStep
<1>4. ASSUME Context PROVE IInv' /\ Unrepeated /\ Unfinished
  BY <1>4, ContextStep
<1>5. ASSUME FinalReply PROVE IInv' /\ Unrepeated /\ Unfinished
  BY <1>5, FinalReplyStep
<1>6. ASSUME NEW q \in Sidecar, SidecarReply(q) PROVE IInv' /\ Unrepeated /\ Unfinished
  BY <1>6, SidecarReplyStep
<1>7. ASSUME NEW failed \in BOOLEAN, NEW terminal \in BOOLEAN, NEW work \in BOOLEAN,
             RunEnd(failed, terminal, work)
      PROVE  IInv' /\ Unrepeated /\ Unfinished
  BY <1>7, RunEndStep
<1>8. ASSUME NEW kept \in BOOLEAN, NEW work \in BOOLEAN, Settled(kept, work)
      PROVE  IInv' /\ Unrepeated /\ Quiet
  BY <1>8, SettledStep
<1>9. ASSUME NEW k \in Key, NEW owner \in {"harness", "native"}, BeforeCompaction(k, owner)
      PROVE  IInv' /\ Unrepeated /\ Unfinished
  BY <1>9, BeforeCompactionStep
<1>10. ASSUME NEW kept \in SUBSET Dispatches, NEW sent \in SUBSET Dispatches,
              NEW crash \in BOOLEAN, AfterCompaction(kept, sent, crash)
       PROVE  IInv' /\ Unrepeated /\ Unfinished
  BY <1>10, AfterCompactionStep
<1>11. ASSUME NEW signalled \in BOOLEAN, CompactionAborts(signalled)
       PROVE  IInv' /\ Unrepeated /\ Unfinished
  BY <1>11, CompactionAbortsStep
<1>12. ASSUME Crash PROVE IInv' /\ Unrepeated /\ Unfinished
  BY <1>12, CrashStep
<1>13. ASSUME NEW s \in Session, NEW reason, NEW work \in BOOLEAN, NEW sent \in SUBSET Dispatches,
              SessionStart(s, reason, work, sent)
       PROVE  IInv' /\ Unrepeated /\ Unfinished
  BY <1>13, SessionStartStep
<1>14. ASSUME ResetSession PROVE IInv' /\ Unrepeated /\ Unfinished
  BY <1>14, ResetSessionStep
<1>15. ASSUME CancelRoot PROVE IInv' /\ Unrepeated /\ Unfinished
  BY <1>15, CancelRootStep
<1>. QED  BY <1>1, <1>2, <1>3, <1>4, <1>5, <1>6, <1>7, <1>8, <1>9, <1>10, <1>11, <1>12,
             <1>13, <1>14, <1>15 DEF Next

\* A stuttering step keeps the invariant.
LEMMA StutterKeeps == IInv /\ UNCHANGED vars => IInv'
BY DEF IInv, vars, Used, Typing, Primary, Root, Replies

-----------------------------------------------------------------------------
(* What keeps the continuation of a waiting turn under way.  The parts      *)
(* below speak of outbox, inbox and processed ids only.                     *)

ConsumedEvent(d) == <<"continuation_consumed", d>>

\* A dispatch that is yet to be sent, or that nothing gives back any more.
Ready(c, d) == c.outbox[d] = "pending" \/ SpentOnce(c, d)

\* What was consumed stays settled, and a receipt has its event.
Filed(c) ==
  /\ \A d : ConsumedEvent(d) \in c.processed =>
       QueuedEvent(d) \in c.processed /\ d \notin Outstanding(c)
  /\ \A d \in DOMAIN c.inbox : d \in Outstanding(c) => Noted(d, c.processed)

\* From c to x nothing new is outstanding but what was never queued, and only
\* dispatches of E cease to be ready.
Carries(c, x, E) ==
  /\ c.processed \subseteq x.processed
  /\ \A d \in Outstanding(x) :
       /\ d \notin Outstanding(c) => QueuedEvent(d) \notin c.processed
       /\ (d \notin Outstanding(c) \/ Ready(c, d)) => d \in E \/ Ready(x, d)

\* A transition that leaves outbox and inbox as they are.
SameMail(c, x) ==
  /\ x.outbox = c.outbox /\ x.inbox = c.inbox
  /\ c.processed \subseteq x.processed
  /\ \A d : ConsumedEvent(d) \in x.processed => ConsumedEvent(d) \in c.processed

\* Transitions follow one another.
LEMMA CarriesTransitive ==
  ASSUME NEW c, NEW x, NEW y, NEW E, NEW F, Carries(c, x, E), Carries(x, y, F)
  PROVE  Carries(c, y, E \cup F)
BY DEF Carries

\* With outbox and inbox everything stays.
LEMMA SameMailFiled ==
  ASSUME NEW c, NEW x, SameMail(c, x)
  PROVE  Carries(c, x, {}) /\ (Filed(c) => Filed(x))
BY DEF SameMail, Carries, Filed, Outstanding, Ready, SpentOnce, Noted

\* Nothing is outstanding in an empty outbox.
LEMMA EmptyFiled ==
  ASSUME NEW c, NEW x, Filed(c), x.outbox = <<>>, x.inbox = <<>>,
         c.processed \subseteq x.processed,
         \A d : ConsumedEvent(d) \in x.processed => ConsumedEvent(d) \in c.processed
  PROVE  Carries(c, x, {}) /\ Filed(x) /\ Outstanding(x) = {}
BY DEF Carries, Filed, Outstanding

\* The transitions of turns and compactions leave outbox and inbox as they are.
LEMMA TurnsSameMail ==
  ASSUME NEW c, NEW S, NEW U, Sound(c, S, U)
  PROVE  /\ SameMail(c, c)
         /\ SameMail(c, Resumed(c))
         /\ \A d : SameMail(c, ResumedByHarness(c, d))
         /\ \A n, reason : SameMail(c, CompactionFailed(c, n, reason))
         /\ \A n : SameMail(c, CompactionSucceeded(c, n))
         /\ \A z, op, owner : SameMail(c, CompactionPrepared(c, z, op, owner))
         /\ \A q : SameMail(c, TurnCompleted(c, q))
<1>. PICK s, t, k, o, i, v, p : c = State(s, t, k, o, i, v, p)
  BY Parts
<1>1. SameMail(c, c)
  BY DEF SameMail
<1>2. SameMail(c, Resumed(c)) /\ Resumed(c).processed = c.processed
  BY ONLY c = State(s, t, k, o, i, v, p) DEF SameMail, Resumed, State
<1>3. \A d : SameMail(c, ResumedByHarness(c, d))
  <2>. PICK y : y = Resumed(c)
    OBVIOUS
  <2>1. y \in {c, [c EXCEPT !.turn.phase = "resumed", !.compactions = y.compactions,
                            !.recovery = "none"]}
    BY ONLY c = State(s, t, k, o, i, v, p), y = Resumed(c) DEF Resumed, State
  <2>2. \A e : [y EXCEPT !.processed = c.processed \cup {e}].outbox = c.outbox
               /\ [y EXCEPT !.processed = c.processed \cup {e}].inbox = c.inbox
               /\ [y EXCEPT !.processed = c.processed \cup {e}].processed = c.processed \cup {e}
    BY ONLY <2>1, c = State(s, t, k, o, i, v, p) DEF State
  <2>3. \A d, e : HarnessResume(c, d) # ConsumedEvent(e)
    BY DEF HarnessResume, ConsumedEvent
  <2>. QED  BY <1>1, <2>2, <2>3 DEF ResumedByHarness, Commit, SameMail
<1>4. \A n, reason : SameMail(c, CompactionFailed(c, n, reason))
  BY ONLY c = State(s, t, k, o, i, v, p)
     DEF SameMail, CompactionFailed, Commit, ConsumedEvent, State
<1>5. \A n : SameMail(c, CompactionSucceeded(c, n))
  BY ONLY c = State(s, t, k, o, i, v, p) DEF SameMail, CompactionSucceeded, State
<1>6. \A z, op, owner : SameMail(c, CompactionPrepared(c, z, op, owner))
  BY ONLY c = State(s, t, k, o, i, v, p)
     DEF SameMail, CompactionPrepared, Commit, ConsumedEvent, State
<1>7. \A q : SameMail(c, TurnCompleted(c, q))
  BY ONLY c = State(s, t, k, o, i, v, p)
     DEF SameMail, TurnCompleted, Commit, ConsumedEvent, State
<1>. QED  BY <1>1, <1>2, <1>3, <1>4, <1>5, <1>6, <1>7

\* continuation_queued makes a dispatch pending that never was queued.
LEMMA QueuedFiled ==
  ASSUME NEW c, NEW S, NEW U, Sound(c, S, U), Filed(c), NEW d
  PROVE  Filed(Queued(c, d)) /\ Carries(c, Queued(c, d), {})
<1>. PICK s, t, k, o, i, v, p :
       c = State(s, t, k, o, i, v, p) /\ Good(s, t, k, o, i, v, p, S, U)
  BY Parts
<1>1. CASE d \in DOMAIN o \/ QueuedEvent(d) \in p
  <2>1. Queued(c, d) = c
    BY <1>1, QueuedBefore
  <2>. QED  BY <2>1, TurnsSameMail, SameMailFiled
<1>2. CASE ~(d \in DOMAIN o \/ QueuedEvent(d) \in p)
  <2>. PICK x : x = Queued(c, d)
    OBVIOUS
  <2>1. x = State(s, t, k, Put(o, d, "pending"), i, v, p \cup {QueuedEvent(d)})
    BY <1>2, QueuedIs
  <2>2. /\ x.outbox = Put(o, d, "pending") /\ x.inbox = i /\ x.processed = p \cup {QueuedEvent(d)}
        /\ c.outbox = o /\ c.inbox = i /\ c.processed = p
    BY <2>1, Fields
  <2>3. /\ DOMAIN x.outbox = DOMAIN o \cup {d} /\ x.outbox[d] = "pending"
        /\ \A e \in DOMAIN o : x.outbox[e] = o[e]
    BY <1>2, <2>2 DEF Put
  <2>4. Outstanding(x) = Outstanding(c) \cup {d} /\ d \notin Outstanding(c)
    BY <1>2, <2>2, <2>3 DEF Outstanding
  <2>5. /\ \A e : ConsumedEvent(e) \in x.processed <=> ConsumedEvent(e) \in p
        /\ \A e : Noted(e, p) => Noted(e, x.processed)
        /\ d \notin DOMAIN i
    BY <1>2, <2>2 DEF ConsumedEvent, QueuedEvent, Noted, Good, Typed
  <2>6. Filed(x)
    BY <1>2, <2>2, <2>4, <2>5 DEF Filed
  <2>7. Carries(c, x, {})
    BY <1>2, <2>2, <2>3, <2>4, <2>5 DEF Carries, Ready, SpentOnce, Outstanding
  <2>. QED  BY <2>6, <2>7
<1>. QED  BY <1>1, <1>2

\* dispatchPendingContinuations: what was sent is no longer pending.
LEMMA AttemptFiled ==
  ASSUME NEW c, NEW S, NEW U, Sound(c, S, U), Filed(c), NEW sent \in SUBSET Pending(c)
  PROVE  LET x == Attempt(c, sent)
         IN /\ Filed(x) /\ Carries(c, x, sent)
            /\ DOMAIN x.outbox = DOMAIN c.outbox
            /\ \A d \in Outstanding(x) : d \in Outstanding(c)
<1>. PICK s, t, k, o, i, v, p :
       c = State(s, t, k, o, i, v, p) /\ Good(s, t, k, o, i, v, p, S, U)
  BY Parts
<1>. PICK x : x = Attempt(c, sent)
  OBVIOUS
<1>1. x = State(s, t, k, [d \in DOMAIN o |-> IF d \in sent THEN "attempted" ELSE o[d]], i, v, p)
  BY AttemptIs
<1>2. /\ x.outbox = [d \in DOMAIN o |-> IF d \in sent THEN "attempted" ELSE o[d]]
      /\ x.inbox = i /\ x.processed = p
      /\ c.outbox = o /\ c.inbox = i /\ c.processed = p
  BY <1>1, Fields
<1>3. \A d \in sent : d \in DOMAIN o /\ o[d] = "pending"
  BY <1>2 DEF Pending
<1>4. Outstanding(x) = Outstanding(c)
  BY <1>2, <1>3 DEF Outstanding
<1>5. Filed(x)
  BY <1>2, <1>4 DEF Filed
<1>6. Carries(c, x, sent)
  BY <1>2, <1>4 DEF Carries, Ready, SpentOnce, Outstanding
<1>. QED  BY <1>2, <1>4, <1>5, <1>6

\* continuation_received takes d up, and leaves its event.
LEMMA ReceivedFiled ==
  ASSUME NEW c, NEW S, NEW U, Sound(c, S, U), Filed(c), NEW d, NEW tag,
         tag \in {<< 0 >>, SessionReconcile} \/ d \in DOMAIN c.inbox
  PROVE  LET x == Received(c, d, tag)
         IN /\ Filed(x) /\ Carries(c, x, {d})
            /\ d \in Outstanding(x) => Noted(d, x.processed)
<1>. PICK s, t, k, o, i, v, p :
       c = State(s, t, k, o, i, v, p) /\ Good(s, t, k, o, i, v, p, S, U)
  BY Parts
<1>. PICK x : x = Received(c, d, tag)
  OBVIOUS
<1>. PICK ev : ev = <<"continuation_received", d, tag>>
  OBVIOUS
<1>. PICK y : y = IF d \in DOMAIN i THEN [i[d] EXCEPT !.count = i[d].count + 1]
                  ELSE [status |-> "claimed", count |-> 1]
  OBVIOUS
<1>0. c.outbox = o /\ c.inbox = i /\ c.processed = p
  BY Fields
<1>1. \/ x = c /\ (d \in DOMAIN o => ev \in p)
      \/ /\ d \in DOMAIN o
         /\ x = State(s, t, k, o, Put(i, d, y), v, p \cup {ev})
  <2>1. x = c => (d \in DOMAIN o => ev \in p)
    <3>. SUFFICES ASSUME x = c, d \in DOMAIN o, ev \notin p
                  PROVE  FALSE
      OBVIOUS
    <3>1. x.processed = p \cup {ev}
      BY ONLY c = State(s, t, k, o, i, v, p), x = Received(c, d, tag), d \in DOMAIN o, ev \notin p,
              ev = <<"continuation_received", d, tag>>
         DEF Received, Commit, State
    <3>. QED  BY <1>0, <3>1
  <2>. QED  BY <2>1, ReceivedIs
<1>2. d \in Outstanding(c) => Noted(d, p \cup {ev})
  <2>1. CASE tag \in {<< 0 >>, SessionReconcile}
    BY <2>1 DEF Noted
  <2>2. CASE d \in DOMAIN c.inbox
    BY <1>0, <2>2 DEF Filed, Noted
  <2>. QED  BY <2>1, <2>2
<1>3. CASE x = c /\ (d \in DOMAIN o => ev \in p)
  <2>1. d \in Outstanding(x) => Noted(d, x.processed)
    <3>. SUFFICES ASSUME d \in Outstanding(c)
                  PROVE  Noted(d, p)
      BY <1>0, <1>3
    <3>1. p \cup {ev} = p
      BY <1>0, <1>3 DEF Outstanding
    <3>. QED  BY <1>2, <3>1
  <2>. QED  BY <1>3, <2>1 DEF Carries
<1>4. CASE d \in DOMAIN o /\ x = State(s, t, k, o, Put(i, d, y), v, p \cup {ev})
  <2>1. x.outbox = o /\ x.inbox = Put(i, d, y) /\ x.processed = p \cup {ev}
    BY <1>4, Fields
  <2>2. DOMAIN x.inbox = DOMAIN i \cup {d} /\ Outstanding(x) = Outstanding(c)
    BY <1>0, <2>1 DEF Put, Outstanding
  <2>3. /\ \A e : ConsumedEvent(e) # ev
        /\ \A e : Noted(e, p) => Noted(e, p \cup {ev})
    BY DEF ConsumedEvent, Noted
  <2>4. Filed(x)
    BY <1>0, <1>2, <2>1, <2>2, <2>3 DEF Filed
  <2>5. ASSUME NEW e \in Outstanding(c), e # d, Ready(c, e)
        PROVE  Ready(x, e)
    BY <1>0, <2>1, <2>2, <2>3, <2>5 DEF Ready, SpentOnce
  <2>6. Carries(c, x, {d})
    BY <1>0, <2>1, <2>2, <2>5 DEF Carries
  <2>. QED  BY <1>2, <2>1, <2>2, <2>4, <2>6
<1>. QED  BY <1>1, <1>3, <1>4

\* continuation_consumed settles what has a receipt.
LEMMA ConsumedFiled ==
  ASSUME NEW c, NEW S, NEW U, Sound(c, S, U), Filed(c), NEW d, d \in DOMAIN c.outbox
  PROVE  LET u == Consumed(c, d)
         IN /\ Sound(u, S, U) /\ Filed(u) /\ Carries(c, u, {})
            /\ d \in Outstanding(u) => d \in Outstanding(c) /\ d \notin DOMAIN u.inbox
<1>. PICK s, t, k, o, i, v, p :
       c = State(s, t, k, o, i, v, p) /\ Good(s, t, k, o, i, v, p, S, U)
  BY Parts
<1>. PICK u : u = Consumed(c, d)
  OBVIOUS
<1>0. c.outbox = o /\ c.inbox = i /\ c.processed = p
  BY Fields
<1>4. d \in DOMAIN o
  BY <1>0
<1>1. Sound(u, S, U)
  BY <1>0, <1>4, ConsumedSound
<1>2. CASE Receipt(c, d) # "claimed"
  <2>1. u = c
    BY <1>2 DEF Consumed
  <2>2. d \in Outstanding(c) => d \notin DOMAIN i
    BY <1>0, <1>2 DEF Receipt, Outstanding, Good, Typed, Mail, InboxItem
  <2>. QED  BY <1>0, <1>1, <2>1, <2>2, TurnsSameMail, SameMailFiled
<1>3. CASE Receipt(c, d) = "claimed"
  <2>1. d \in DOMAIN i /\ i[d].status = "claimed"
    BY <1>0, <1>3 DEF Receipt
  <2>2. o[d] # "acknowledged" /\ d \in Outstanding(c)
    BY <1>0, <1>4, <2>1 DEF Good, Mail, Outstanding
  <2>3. ConsumedEvent(d) \notin p
    BY <1>0, <2>2 DEF Filed
  <2>. PICK y : y = [o EXCEPT ![d] = "acknowledged"]
    OBVIOUS
  <2>. PICK j : j = [i EXCEPT ![d].status = "consumed"]
    OBVIOUS
  <2>4. u = State(s, t, k, y, j, v, p \cup {ConsumedEvent(d)})
    BY ONLY c = State(s, t, k, o, i, v, p), u = Consumed(c, d), <1>4, <1>3, <2>3,
            y = [o EXCEPT ![d] = "acknowledged"], j = [i EXCEPT ![d].status = "consumed"]
       DEF Consumed, Receipt, Commit, ConsumedEvent, State
  <2>5. u.outbox = y /\ u.inbox = j /\ u.processed = p \cup {ConsumedEvent(d)}
    BY <2>4, Fields
  <2>6. DOMAIN y = DOMAIN o /\ y[d] = "acknowledged" /\ \A e \in DOMAIN o : e # d => y[e] = o[e]
    BY <1>4 DEF Good, Typed
  <2>7. DOMAIN j = DOMAIN i
    BY DEF Good, Typed
  <2>8. Outstanding(u) = Outstanding(c) \ {d}
    BY <1>0, <2>5, <2>6 DEF Outstanding
  <2>9. /\ \A e : ConsumedEvent(e) \in u.processed => e = d \/ ConsumedEvent(e) \in p
        /\ \A e : Noted(e, p) => Noted(e, u.processed)
        /\ QueuedEvent(d) \in p
    BY <1>4, <2>5 DEF ConsumedEvent, Noted, Good, Recorded
  <2>10. Filed(u)
    BY <1>0, <2>5, <2>7, <2>8, <2>9 DEF Filed
  <2>11. Carries(c, u, {})
    BY <1>0, <2>5, <2>6, <2>7, <2>8, <2>9 DEF Carries, Ready, SpentOnce, Outstanding
  <2>. QED  BY <1>1, <2>8, <2>10, <2>11
<1>. QED  BY <1>2, <1>3

\* consumeContinuation does, and resumes a turn that waits.
LEMMA ConsumeFiled ==
  ASSUME NEW c, NEW S, NEW U, Sound(c, S, U), Filed(c), NEW d
  PROVE  LET x == Consume(c, d)
         IN /\ Filed(x) /\ Carries(c, x, {})
            /\ d \in Outstanding(x) => d \in Outstanding(c) /\ d \notin DOMAIN x.inbox
<1>. PICK s, t, k, o, i, v, p :
       c = State(s, t, k, o, i, v, p) /\ Good(s, t, k, o, i, v, p, S, U)
  BY Parts
<1>. PICK u : u = Consumed(c, d)
  OBVIOUS
<1>0. c.outbox = o /\ c.inbox = i /\ c.processed = p
  BY Fields
<1>1. CASE d \notin DOMAIN o
  <2>1. Consume(c, d) = c
    BY <1>0, <1>1 DEF Consume
  <2>. QED  BY <1>0, <1>1, <2>1, TurnsSameMail, SameMailFiled DEF Outstanding
<1>2. CASE d \in DOMAIN o
  <2>1. /\ Sound(u, S, U) /\ Filed(u) /\ Carries(c, u, {})
        /\ d \in Outstanding(u) => d \in Outstanding(c) /\ d \notin DOMAIN u.inbox
    BY <1>0, <1>2, ConsumedFiled
  <2>2. Consume(c, d) = u \/ Consume(c, d) = ResumedByHarness(u, d)
    BY <1>0, <1>2 DEF Consume
  <2>3. CASE Consume(c, d) = u
    BY <2>1, <2>3
  <2>4. CASE Consume(c, d) = ResumedByHarness(u, d)
    <3>. PICK x : x = ResumedByHarness(u, d)
      OBVIOUS
    <3>1. SameMail(u, x)
      BY <2>1, TurnsSameMail
    <3>2. Filed(x) /\ Carries(u, x, {}) /\ Outstanding(x) = Outstanding(u) /\ x.inbox = u.inbox
      BY <2>1, <3>1, SameMailFiled DEF SameMail, Outstanding
    <3>3. Carries(c, x, {} \cup {})
      BY <2>1, <3>2, CarriesTransitive
    <3>. QED  BY <2>1, <2>4, <3>2, <3>3
  <2>. QED  BY <2>2, <2>3, <2>4
<1>. QED  BY <1>1, <1>2

\* continuation_released makes what it gives back pending.
LEMMA ReleasedFiled ==
  ASSUME NEW c, NEW S, NEW U, Sound(c, S, U), Filed(c), NEW d,
         NEW x, x \in {Released(c, d), ReleasedAtStart(c, d)}
  PROVE  Filed(x) /\ Carries(c, x, {}) /\ (d \in Outstanding(x) => Ready(x, d))
<1>. PICK s, t, k, o, i, v, p :
       c = State(s, t, k, o, i, v, p) /\ Good(s, t, k, o, i, v, p, S, U)
  BY Parts
<1>. PICK ev : ev = <<"continuation_released", d, SessionReconcile>>
  OBVIOUS
<1>. PICK y : y = [o EXCEPT ![d] = "pending"]
  OBVIOUS
<1>. PICK j : j = Drop(i, d)
  OBVIOUS
<1>0. c.outbox = o /\ c.inbox = i /\ c.processed = p
  BY Fields
<1>1. d \in Outstanding(c) => CanRelease(c, d)
  BY <1>0 DEF CanRelease, Receipt, Outstanding, Good, Mail
<1>2. \/ x = c /\ ~CanRelease(c, d)
      \/ x = c /\ ev \in p
      \/ /\ CanRelease(c, d)
         /\ \E q \in {p, p \cup {ev}} : x = State(s, t, k, y, j, v, q)
  BY ONLY c = State(s, t, k, o, i, v, p), x \in {Released(c, d), ReleasedAtStart(c, d)},
          ev = <<"continuation_released", d, SessionReconcile>>,
          y = [o EXCEPT ![d] = "pending"], j = Drop(i, d)
     DEF Released, ReleasedAtStart, GiveBack, Commit, State
<1>3. CASE x = c /\ ~CanRelease(c, d)
  BY <1>1, <1>3, TurnsSameMail, SameMailFiled
<1>4. CASE x = c /\ ev \in p
  BY <1>0, <1>4, TurnsSameMail, SameMailFiled DEF Ready, SpentOnce
<1>5. ASSUME CanRelease(c, d), NEW q \in {p, p \cup {ev}}, x = State(s, t, k, y, j, v, q)
      PROVE  Filed(x) /\ Carries(c, x, {}) /\ (d \in Outstanding(x) => Ready(x, d))
  <2>1. x.outbox = y /\ x.inbox = j /\ x.processed = q
    BY <1>5, Fields
  <2>2. d \in DOMAIN o /\ o[d] # "acknowledged"
    BY <1>0, <1>5 DEF CanRelease
  <2>3. DOMAIN y = DOMAIN o /\ y[d] = "pending" /\ \A e \in DOMAIN o : e # d => y[e] = o[e]
    BY <2>2 DEF Good, Typed
  <2>4. DOMAIN j = DOMAIN i \ {d}
    BY DEF Drop
  <2>5. Outstanding(x) = Outstanding(c)
    BY <1>0, <2>1, <2>2, <2>3 DEF Outstanding
  <2>6. /\ \A e : ConsumedEvent(e) \in q => ConsumedEvent(e) \in p
        /\ \A e : Noted(e, p) => Noted(e, q)
        /\ p \subseteq q
    BY <1>5 DEF ConsumedEvent, Noted
  <2>7. Filed(x)
    BY <1>0, <2>1, <2>4, <2>5, <2>6 DEF Filed
  <2>8. Ready(x, d)
    BY <2>1, <2>3 DEF Ready
  <2>9. Carries(c, x, {})
    BY <1>0, <2>1, <2>3, <2>4, <2>5, <2>6, <2>8 DEF Carries, Ready, SpentOnce, Outstanding
  <2>. QED  BY <2>7, <2>8, <2>9
<1>. QED  BY <1>2, <1>3, <1>4, <1>5

\* A handler on one dispatch leaves it settled or ready.
LEMMA HandledFiled ==
  ASSUME NEW c, NEW S, NEW U, Sound(c, S, U), Filed(c), NEW m, NEW completed, NEW d,
         (m = "finished" /\ d \in Outstanding(c)) => Noted(d, c.processed)
  PROVE  LET x == Handled(m, completed, d, c)
         IN Filed(x) /\ Carries(c, x, {}) /\ (d \in Outstanding(x) => Ready(x, d))
<1>. PICK x : x = Handled(m, completed, d, c)
  OBVIOUS
<1>1. CASE m = "failed"
  BY <1>1, ReleasedFiled DEF Handled
<1>2. CASE m = "finished"
  <2>1. x = Consume(c, d)
    BY <1>2 DEF Handled
  <2>2. /\ Filed(x) /\ Carries(c, x, {})
        /\ d \in Outstanding(x) => d \in Outstanding(c) /\ d \notin DOMAIN x.inbox
    BY <2>1, ConsumeFiled
  <2>3. d \in Outstanding(x) => Ready(x, d)
    BY <1>2, <2>2 DEF Carries, Ready, SpentOnce, Noted
  <2>. QED  BY <2>2, <2>3
<1>3. CASE m \notin {"failed", "finished"} /\ d \notin completed
  BY <1>3, ReleasedFiled DEF Handled
<1>4. CASE m \notin {"failed", "finished"} /\ d \in completed
  <2>. PICK y : y = Received(c, d, SessionReconcile)
    OBVIOUS
  <2>1. x = Consume(y, d)
    BY <1>4 DEF Handled
  <2>2. Sound(y, S, U) /\ Filed(y) /\ Carries(c, y, {d})
        /\ (d \in Outstanding(y) => Noted(d, y.processed))
    BY ReceivedSound, ReceivedFiled DEF Keeps
  <2>3. /\ Filed(x) /\ Carries(y, x, {})
        /\ d \in Outstanding(x) => d \in Outstanding(y) /\ d \notin DOMAIN x.inbox
    BY <2>1, <2>2, ConsumeFiled
  <2>4. d \in Outstanding(x) => Ready(x, d)
    BY <2>2, <2>3 DEF Carries, Ready, SpentOnce, Noted
  <2>5. Carries(c, x, {d} \cup {})
    BY <2>2, <2>3, CarriesTransitive
  <2>6. Carries(c, x, {})
    BY <2>4, <2>5 DEF Carries
  <2>. QED  BY <2>3, <2>4, <2>6
<1>. QED  BY <1>1, <1>2, <1>3, <1>4

\* What the fold has gone over is settled or ready.
LEMMA HandlesFiled ==
  ASSUME NEW D, IsFiniteSet(D), NEW m, NEW completed, NEW c, NEW S, NEW U, Sound(c, S, U),
         Filed(c), m = "finished" => \A d \in D \cap Outstanding(c) : Noted(d, c.processed),
         \A d \in D : QueuedEvent(d) \in c.processed,
         NEW h, Handles(h, D, m, completed, c)
  PROVE  /\ Keeps(c, h[D], S, U) /\ Filed(h[D]) /\ Carries(c, h[D], {})
         /\ \A d \in D \cap Outstanding(h[D]) : Ready(h[D], d)
<1>. DEFINE Goes(s) == /\ Keeps(c, h[s], S, U) /\ Filed(h[s]) /\ Carries(c, h[s], {})
                       /\ \A d \in s \cap Outstanding(h[s]) : Ready(h[s], d)
<1>1. \A s \in SUBSET D :
        h[s] = IF s = {} THEN c ELSE Handled(m, completed, Some(s), h[s \ {Some(s)}])
  BY ONLY Handles(h, D, m, completed, c) DEF Handles
<1>2. \A s \in SUBSET D : s # {} => Some(s) \in s
  BY DEF Some
<1>. DEFINE V == {s \in SUBSET D : ~Goes(s)}
<1>. SUFFICES ASSUME V # {}
              PROVE  FALSE
  <2>1. Goes(D)
    OBVIOUS
  <2>. QED  BY <2>1
<1>3. PICK s \in V : \A t \in V : t \subseteq s => t = s
  <2>1. V \in SUBSET SUBSET D
    OBVIOUS
  <2>. HIDE DEF V
  <2>. QED  BY ONLY <2>1, V # {}, IsFiniteSet(D), LeastSubset
<1>4. s # {}
  <2>. SUFFICES ASSUME s = {}
                PROVE  Goes(s)
    BY <1>3
  <2>1. h[s] = c
    BY <1>1
  <2>2. Carries(c, c, {})
    BY TurnsSameMail, SameMailFiled
  <2>. QED  BY <2>1, <2>2, KeepsSame
<1>. PICK x : x = Some(s)
  OBVIOUS
<1>. PICK y : y = h[s \ {x}]
  OBVIOUS
<1>5. x \in s /\ s \in SUBSET D
  BY <1>2, <1>3, <1>4
<1>6. /\ Keeps(c, y, S, U) /\ Filed(y) /\ Carries(c, y, {})
      /\ \A d \in (s \ {x}) \cap Outstanding(y) : Ready(y, d)
  BY <1>3, <1>5
<1>7. h[s] = Handled(m, completed, x, y)
  BY <1>1, <1>4, <1>5
<1>8. Sound(y, S, U)
  BY <1>6 DEF Keeps
<1>9. Keeps(c, h[s], S, U)
  BY <1>6, <1>7, <1>8, HandledSound, KeepsTransitive
<1>10. (m = "finished" /\ x \in Outstanding(y)) => Noted(x, y.processed)
  BY <1>5, <1>6 DEF Carries, Noted
<1>11. Filed(h[s]) /\ Carries(y, h[s], {}) /\ (x \in Outstanding(h[s]) => Ready(h[s], x))
  BY <1>6, <1>7, <1>8, <1>10, HandledFiled
<1>12. Carries(c, h[s], {} \cup {})
  BY <1>6, <1>11, CarriesTransitive
<1>13. \A d \in s \cap Outstanding(h[s]) : Ready(h[s], d)
  BY <1>5, <1>6, <1>11 DEF Carries
<1>. QED  BY <1>3, <1>9, <1>11, <1>12, <1>13

\* onContinuationRunEnd: what the run took up is settled or ready.
LEMMA AfterRunFiled ==
  ASSUME NEW S, NEW U, Sound(cc, S, U), Filed(cc), IsFiniteSet(co.active), NEW failed \in BOOLEAN,
         \A d \in co.active : QueuedEvent(d) \in cc.processed,
         \A d \in co.active \cap Outstanding(cc) : Noted(d, cc.processed)
  PROVE  LET x == AfterRun(failed)
         IN /\ Keeps(cc, x, S, U) /\ Filed(x) /\ Carries(cc, x, {})
            /\ \A d \in co.active \cap Outstanding(x) : Ready(x, d)
<1>. PICK m : m = IF failed THEN "failed" ELSE "finished"
  OBVIOUS
<1>1. PICK h : Handles(h, co.active, m, {}, cc) /\ AfterRun(failed) = h[co.active]
  BY AfterRunIs
<1>. QED  BY <1>1, HandlesFiled

\* The reconciliation of a restored session: everything is settled or ready.
LEMMA ReconciledFiled ==
  ASSUME NEW c, NEW S, NEW U, Sound(c, S, U), Filed(c), NEW z
  PROVE  LET x == Reconciled(c, z)
         IN /\ Keeps(c, x, S, U) /\ Filed(x) /\ Carries(c, x, {})
            /\ \A d \in Outstanding(x) : Ready(x, d)
<1>. PICK D : D = AttemptedOf(c)
  OBVIOUS
<1>. PICK m : m = "restored"
  OBVIOUS
<1>. PICK done : done = branch[z].completed
  OBVIOUS
<1>1. IsFiniteSet(DOMAIN c.outbox) /\ \A d \in DOMAIN c.outbox : QueuedEvent(d) \in c.processed
  BY DEF Sound, Good, Typed, Recorded
<1>2. PICK h : Handles(h, D, m, done, c) /\ Reconciled(c, z) = h[D]
  BY <1>1, ReconciledIs
<1>3. IsFiniteSet(D) /\ \A d \in D : QueuedEvent(d) \in c.processed
  BY <1>1, ReconciledIs DEF AttemptedOf
<1>. PICK x : x = h[D]
  OBVIOUS
<1>4. /\ Keeps(c, x, S, U) /\ Filed(x) /\ Carries(c, x, {})
      /\ \A d \in D \cap Outstanding(x) : Ready(x, d)
  BY <1>2, <1>3, HandlesFiled
<1>5. \A d \in Outstanding(c) : d \in D \/ Ready(c, d)
  BY DEF Outstanding, AttemptedOf, Ready, Sound, Good, Typed, OutboxStatus
<1>6. \A d \in Outstanding(x) : Ready(x, d)
  BY <1>4, <1>5 DEF Carries
<1>. QED  BY <1>2, <1>4, <1>6

\* The dispatches a run took up or finds in a session file.
Seen == co.active \cup UNION {branch[s].visible : s \in Session}

\* They were queued, and what is outstanding of them was received once.
Noticing ==
  /\ \A d \in host.queue \cup Seen : QueuedEvent(d) \in cc.processed
  /\ \A d \in Seen \cap Outstanding(cc) : Noted(d, cc.processed)

\* What is outstanding of the coordinator's turn is with the host or ready.
OfTurn(d, r) == \E k \in Key : d = CompactionDispatch(<<r, k>>)
Reach ==
  co.primary # NoRequest =>
    \A d \in Outstanding(cc) :
      OfTurn(d, co.primary) => d \in host.queue \cup co.active \/ Ready(cc, d)

Tracked == Filed(cc) /\ Noticing /\ Reach

\* The parts together, over a step that carries the mail.
LEMMA TrackedKept ==
  ASSUME Tracked, IInv', NEW E, Carries(cc, cc', E), Filed(cc'),
         host'.queue \subseteq host.queue \cup DOMAIN cc'.outbox,
         \A d \in Seen' :
           d \in Seen \/ /\ QueuedEvent(d) \in cc.processed
                         /\ d \in Outstanding(cc') => Noted(d, cc'.processed),
         co'.primary \in {co.primary, NoRequest},
         co'.primary # NoRequest =>
           \A d \in Outstanding(cc') :
             d \in E \cup host.queue \cup co.active =>
               d \in host'.queue \cup co'.active \/ Ready(cc', d)
  PROVE  Tracked'
<1>1. \A d \in DOMAIN cc'.outbox : QueuedEvent(d) \in cc'.processed
  BY DEF IInv, Sound, Good, Recorded
<1>2. cc.processed \subseteq cc'.processed
  BY DEF Carries
<1>3. \A d \in host'.queue \cup Seen' : QueuedEvent(d) \in cc'.processed
  BY <1>1, <1>2 DEF Tracked, Noticing
<1>4. \A d \in Seen' \cap Outstanding(cc') : Noted(d, cc'.processed)
  <2>. SUFFICES ASSUME NEW d \in Outstanding(cc'), d \in Seen
                PROVE  Noted(d, cc'.processed)
    OBVIOUS
  <2>1. d \in Outstanding(cc)
    BY DEF Carries, Tracked, Noticing
  <2>. QED  BY <1>2, <2>1 DEF Tracked, Noticing, Noted
<1>5. Reach'
  <2>. SUFFICES ASSUME co'.primary # NoRequest, NEW d \in Outstanding(cc'),
                       OfTurn(d, co'.primary)
                PROVE  d \in host'.queue \cup co'.active \/ Ready(cc', d)
    BY DEF Reach
  <2>1. co'.primary = co.primary
    OBVIOUS
  <2>2. d \in Outstanding(cc) => d \in host.queue \cup co.active \/ Ready(cc, d)
    BY <2>1 DEF Tracked, Reach
  <2>3. (d \notin Outstanding(cc) \/ Ready(cc, d)) => d \in E \/ Ready(cc', d)
    BY DEF Carries
  <2>. QED  BY <2>2, <2>3
<1>6. Noticing'
  BY <1>3, <1>4 DEF Noticing
<1>. QED  BY <1>5, <1>6 DEF Tracked

\* A step that leaves the mail and the queue as they are.
LEMMA SameMailTracked ==
  ASSUME Tracked, IInv', SameMail(cc, cc'), host'.queue = host.queue, Seen' \subseteq Seen,
         co.active \subseteq co'.active, co'.primary = co.primary
  PROVE  Tracked'
<1>1. Carries(cc, cc', {}) /\ Filed(cc')
  BY SameMailFiled DEF Tracked
<1>. QED  BY <1>1, TrackedKept

\* Session files that show no more.
LEMMA SeenIs ==
  ASSUME \A s \in Session : branch'[s].visible \subseteq branch[s].visible, co'.active \subseteq Seen
  PROVE  Seen' \subseteq Seen
BY DEF Seen

-----------------------------------------------------------------------------
(* The steps keep it.                                                      *)

\* onTurnStart leaves outbox and inbox as they are.
LEMMA TurnStartTracked ==
  ASSUME IInv
  PROVE  SameMail(cc, TurnStartCC(cc)) /\ TurnStartCo(cc).primary = co.primary
<1>1. SameMail(cc, TurnStartCC(cc))
  BY TurnsSameMail DEF IInv, TurnStartCC
<1>2. TurnStartCo(cc).primary = co.primary
  <2>1. CASE RestoredRetry(cc)
    <3>1. TurnStartCo(cc).primary = cc.turn.request
      BY <2>1 DEF TurnStartCo, IInv, Typing, Memory
    <3>. QED  BY <2>1, <3>1 DEF RestoredRetry, IInv, Primary, Fits
  <2>2. CASE ~RestoredRetry(cc)
    BY <2>2 DEF TurnStartCo
  <2>. QED  BY <2>1, <2>2
<1>. QED  BY <1>1, <1>2

\* beginRequest: nothing is outstanding of a turn that has just begun.
LEMMA BeginRequestTracked ==
  ASSUME IInv, Tracked, NEW r \in Request, BeginRequest(r), IInv'
  PROVE  Tracked'
<1>1. /\ req[r] = "unknown"
      /\ Store(TurnStarted(cc, host.session, r))
      /\ co' = [co EXCEPT !.primary = r, !.response = r, !.terminal = FALSE]
      /\ host' = [host EXCEPT !.run = "running"]
      /\ branch' = [branch EXCEPT ![host.session].window = "new"]
  BY DEF BeginRequest
<1>2. /\ co'.active = co.active /\ co'.primary = r /\ host'.queue = host.queue
      /\ \A z \in Session : branch'[z].visible = branch[z].visible
  BY <1>1 DEF IInv, Typing, Memory, Host, Branch
<1>3. r \notin Used /\ r # NoRequest
  BY <1>1, RequestCoordinatorAssumption DEF Used, NoRequest
<1>. PICK s, t, k, o, i, v, p :
       cc = State(s, t, k, o, i, v, p) /\ Good(s, t, k, o, i, v, p, settled, Used)
  BY Parts DEF IInv
<1>. PICK x : x = TurnStarted(cc, host.session, r)
  OBVIOUS
<1>. PICK e : e = StartedEvent(host.session, r)
  OBVIOUS
<1>4. (t # NoTurn => t.request # r) /\ e \notin p
  BY <1>3 DEF Good, Made, IInv, Typing, Host
<1>5. /\ x.processed = p \cup {e}
      /\ \/ x.outbox = o /\ x.inbox = i
         \/ x.outbox = <<>> /\ x.inbox = <<>>
  <2>. PICK z, y, w, f : /\ z = host.session /\ w = "none" /\ f = p \cup {e}
                         /\ y = [request |-> r, session |-> z, phase |-> "active"]
    OBVIOUS
  <2>1. x = State(z, y, k, o, i, w, f) \/ x = State(z, y, k, <<>>, <<>>, w, f)
    BY ONLY cc = State(s, t, k, o, i, v, p), x = TurnStarted(cc, host.session, r), <1>4,
            z = host.session, w = "none", f = p \cup {e}, e = StartedEvent(host.session, r),
            y = [request |-> r, session |-> z, phase |-> "active"]
       DEF TurnStarted, Commit, StartedEvent, State
  <2>2. CASE x = State(z, y, k, o, i, w, f)
    <3>1. x.processed = f /\ x.outbox = o /\ x.inbox = i
      BY <2>2, Fields
    <3>. QED  BY <3>1
  <2>3. CASE x = State(z, y, k, <<>>, <<>>, w, f)
    <3>1. x.processed = f /\ x.outbox = <<>> /\ x.inbox = <<>>
      BY <2>3, Fields
    <3>. QED  BY <3>1
  <2>. QED  BY <2>1, <2>2, <2>3
<1>6. cc.outbox = o /\ cc.inbox = i /\ cc.processed = p
  BY Fields
<1>7. \A d : ConsumedEvent(d) # e
  BY DEF ConsumedEvent, StartedEvent
<1>8. Carries(cc, x, {}) /\ Filed(x)
  <2>1. CASE x.outbox = o /\ x.inbox = i
    <3>1. SameMail(cc, x)
      BY <1>5, <1>6, <1>7, <2>1 DEF SameMail
    <3>. QED  BY <3>1, SameMailFiled DEF Tracked
  <2>2. CASE x.outbox = <<>> /\ x.inbox = <<>>
    BY <1>5, <1>6, <1>7, <2>2, EmptyFiled DEF Tracked
  <2>. QED  BY <1>5, <2>1, <2>2
<1>9. \A d \in Outstanding(x) : ~OfTurn(d, r)
  <2>. SUFFICES ASSUME NEW q \in Key, CompactionDispatch(<<r, q>>) \in Outstanding(x)
                PROVE  FALSE
    BY DEF OfTurn
  <2>. PICK op : op = <<r, q>>
    OBVIOUS
  <2>1. op \in OperationId /\ op[1] = r
    BY DEF OperationId
  <2>2. CompactionDispatch(op) \in DOMAIN o
    BY <1>5 DEF Outstanding
  <2>3. OnlyPrepared(k, op)
    BY <1>3, <2>1 DEF OnlyPrepared, Good, Made
  <2>. QED  BY <2>1, <2>2, <2>3 DEF Good, Untouched
<1>10. cc' = x
  BY <1>1 DEF Store
<1>11. Noticing'
  <2>1. Seen' \subseteq Seen
    BY <1>2, SeenIs DEF Seen
  <2>2. \A d \in host'.queue \cup Seen' : QueuedEvent(d) \in cc'.processed
    BY <1>2, <1>5, <1>6, <1>10, <2>1 DEF Tracked, Noticing
  <2>3. \A d \in Seen' \cap Outstanding(cc') : Noted(d, cc'.processed)
    <3>1. Outstanding(x) \subseteq Outstanding(cc)
      BY <1>5, <1>6 DEF Outstanding
    <3>. QED  BY <1>5, <1>6, <1>10, <2>1, <3>1 DEF Tracked, Noticing, Noted
  <2>. QED  BY <2>2, <2>3 DEF Noticing
<1>12. Reach'
  BY <1>2, <1>9, <1>10 DEF Reach
<1>. QED  BY <1>8, <1>10, <1>11, <1>12 DEF Tracked

\* onMessageStart takes the message up, and its receipt leaves the event.
LEMMA MessageStartTracked ==
  ASSUME IInv, Tracked, NEW d \in Dispatches, MessageStart(d), IInv'
  PROVE  Tracked'
<1>. DEFINE starts == host.run # "running"
            c == IF starts THEN TurnStartCC(cc) ELSE cc
            m == IF starts THEN TurnStartCo(cc) ELSE co
            count == IF d \in DOMAIN c.inbox THEN c.inbox[d].count ELSE 0
            tag == <<count>>
            x == Received(c, d, tag)
<1>1. /\ d \in host.queue
      /\ Store(x)
      /\ co' = IF d \in DOMAIN c.outbox THEN [m EXCEPT !.active = @ \cup {d}] ELSE m
      /\ host' = [host EXCEPT !.run = "running", !.queue = @ \ {d}]
      /\ branch' = [branch EXCEPT ![host.session].open = @ \cup {d},
                                  ![host.session].visible = @ \cup {d},
                                  ![host.session].window = "new"]
  BY DEF MessageStart
<1>2. Sound(c, settled, Used)
  BY TurnStartSound DEF IInv, Keeps
<1>3. SameMail(cc, c)
  BY TurnStartTracked, TurnsSameMail DEF IInv
<1>4. m \in Memory /\ m.active = co.active /\ m.primary = co.primary
  BY TurnStartMemory, TurnStartTracked DEF IInv, Typing
<1>5. tag \in {<<0>>, SessionReconcile} \/ d \in DOMAIN c.inbox
  OBVIOUS
<1>. HIDE DEF c, m, tag, x
<1>6. Carries(cc, c, {}) /\ Filed(c)
  BY <1>3, SameMailFiled DEF Tracked
<1>7. Filed(x) /\ Carries(c, x, {d}) /\ (d \in Outstanding(x) => Noted(d, x.processed))
  BY <1>2, <1>5, <1>6, ReceivedFiled DEF x
<1>8. Carries(cc, x, {} \cup {d})
  BY <1>6, <1>7, CarriesTransitive
<1>9. cc' = x
  BY <1>1 DEF Store
<1>10. /\ co'.primary = co.primary
       /\ co.active \subseteq co'.active /\ co'.active \subseteq co.active \cup {d}
       /\ d \in DOMAIN c.outbox => d \in co'.active
  BY <1>1, <1>4 DEF Memory
<1>11. d \in Outstanding(x) => d \in DOMAIN c.outbox
  <2>1. x = c \/ d \in DOMAIN c.outbox
    BY DEF x, Received
  <2>. QED  BY <2>1 DEF Outstanding
<1>12. host'.queue = host.queue \ {d}
  BY <1>1 DEF IInv, Typing, Host
<1>13. \A z \in Session : branch'[z].visible \subseteq branch[z].visible \cup {d}
  BY <1>1 DEF IInv, Typing, Branch, Host
<1>14. \A e \in Seen' : e \in Seen \/ e = d
  BY <1>10, <1>13 DEF Seen
<1>15. QueuedEvent(d) \in cc.processed
  BY <1>1 DEF Tracked, Noticing
<1>16. ASSUME NEW e \in Outstanding(cc'), e \in {d} \cup host.queue \cup co.active
       PROVE  e \in host'.queue \cup co'.active
  BY <1>9, <1>10, <1>11, <1>12, <1>16
<1>. QED  BY <1>7, <1>8, <1>9, <1>10, <1>12, <1>14, <1>15, <1>16, TrackedKept

\* A retry by the host.
LEMMA RetryTracked == ASSUME IInv, Tracked, Retry, IInv' PROVE Tracked'
<1>1. /\ cc' = TurnStartCC(cc) /\ co' = TurnStartCo(cc) /\ UNCHANGED branch
      /\ host' = [host EXCEPT !.run = "running"]
  BY DEF Retry, Store
<1>2. SameMail(cc, cc') /\ co'.primary = co.primary /\ co'.active = co.active
  BY <1>1, TurnStartTracked, TurnStartMemory
<1>3. host'.queue = host.queue
  BY <1>1 DEF IInv, Typing, Host
<1>4. Seen' \subseteq Seen
  BY <1>1, <1>2 DEF Seen
<1>. QED  BY <1>2, <1>3, <1>4, SameMailTracked

\* onContext admits what the session file shows.
LEMMA ContextTracked == ASSUME IInv, Tracked, Context, IInv' PROVE Tracked'
<1>1. PICK accepted : /\ accepted \subseteq branch[host.session].visible
                      /\ co' = [co EXCEPT !.active = @ \cup accepted,
                                          !.admitted = @ \cup accepted]
                      /\ UNCHANGED <<cc, host, branch>>
  BY DEF Context
<1>2. co'.primary = co.primary /\ co'.active = co.active \cup accepted
  BY <1>1 DEF IInv, Typing, Memory
<1>3. host.session \in Session
  BY DEF IInv, Typing, Host
<1>4. Seen' \subseteq Seen
  BY <1>1, <1>2, <1>3 DEF Seen
<1>5. SameMail(cc, cc')
  BY <1>1 DEF SameMail
<1>. QED  BY <1>1, <1>2, <1>4, <1>5, SameMailTracked

\* The replies and the cancelled root leave the mail alone.
LEMMA RepliesTracked ==
  ASSUME IInv, Tracked, FinalReply \/ CancelRoot \/ (\E q \in Sidecar : SidecarReply(q)), IInv'
  PROVE  Tracked'
<1>1. /\ UNCHANGED <<cc, host>>
      /\ branch' \in {branch, [branch EXCEPT ![host.session] = Completed(@)]}
  BY DEF FinalReply, CancelRoot, SidecarReply
<1>2. co'.primary = co.primary /\ co'.active = co.active
  BY DEF FinalReply, CancelRoot, SidecarReply, IInv, Typing, Memory
<1>3. \A z \in Session : branch'[z].visible \subseteq branch[z].visible
  <2>1. \A b \in Branch : Completed(b).visible = b.visible
    BY DEF Completed, Branch
  <2>. QED  BY <1>1, <2>1 DEF IInv, Typing, Host
<1>4. Seen' \subseteq Seen
  BY <1>2, <1>3, SeenIs DEF Seen
<1>5. SameMail(cc, cc')
  BY <1>1 DEF SameMail
<1>. QED  BY <1>1, <1>2, <1>4, <1>5, SameMailTracked

\* onAgentEnd: what the run took up is settled or ready, and what is sent is
\* with the host.
LEMMA RunEndTracked ==
  ASSUME IInv, Tracked, NEW failed \in BOOLEAN, NEW terminal \in BOOLEAN, NEW work \in BOOLEAN,
         RunEnd(failed, terminal, work), IInv'
  PROVE  Tracked'
<1>. PICK c : c = AfterRun(failed)
  OBVIOUS
<1>. PICK resumes : resumes = ResumesPrimary(c, failed, work)
  OBVIOUS
<1>. PICK d : d = SidecarContinuation(co.sidecar)
  OBVIOUS
<1>. PICK q : q = IF resumes THEN Queued(c, d) ELSE c
  OBVIOUS
<1>. PICK sent : sent = IF resumes THEN Pending(q) ELSE {}
  OBVIOUS
<1>. PICK x : x = Attempt(q, sent)
  OBVIOUS
<1>1. /\ cc' = x
      /\ co'.active = {} /\ co'.primary = co.primary
      /\ host' = [host EXCEPT !.run = "ended", !.queue = @ \cup sent]
      /\ UNCHANGED branch
  BY DEF RunEnd, Store, IInv, Typing, Memory
<1>2. host'.queue = host.queue \cup sent
  BY <1>1 DEF IInv, Typing, Host
<1>3. /\ Sound(c, settled, Used) /\ Filed(c) /\ Carries(cc, c, {})
      /\ \A e \in co.active \cap Outstanding(c) : Ready(c, e)
  <2>1. IsFiniteSet(co.active) /\ Sound(cc, settled, Used) /\ Filed(cc)
    BY DEF IInv, Typing, Tracked
  <2>2. /\ \A e \in co.active : QueuedEvent(e) \in cc.processed
        /\ \A e \in co.active \cap Outstanding(cc) : Noted(e, cc.processed)
    BY DEF Tracked, Noticing, Seen
  <2>. QED  BY <2>1, <2>2, AfterRunFiled DEF Keeps
<1>4. Sound(q, settled, Used) /\ Filed(q) /\ Carries(c, q, {})
  <2>1. CASE ~resumes
    BY <1>3, <2>1, TurnsSameMail, SameMailFiled
  <2>2. CASE resumes
    <3>1. co.sidecar \in Sidecar
      BY <2>2 DEF ResumesPrimary, IInv, Typing, Memory
    <3>2. d \in Dispatches /\ \A op \in OperationId : d # CompactionDispatch(op)
      BY <3>1, DispatchesDiffer
    <3>. QED  BY <1>3, <2>2, <3>2, QueuedSound, QueuedFiled DEF Keeps
  <2>. QED  BY <2>1, <2>2
<1>5. /\ Filed(x) /\ Carries(q, x, sent) /\ DOMAIN x.outbox = DOMAIN q.outbox
  BY <1>4, AttemptFiled
<1>6. Carries(cc, x, {} \cup {} \cup sent)
  BY <1>3, <1>4, <1>5, CarriesTransitive
<1>7. sent \subseteq DOMAIN x.outbox
  BY <1>5 DEF Pending
<1>8. Seen' \subseteq Seen
  BY <1>1 DEF Seen
<1>9. \A e \in co.active \cap Outstanding(x) : e \in sent \/ Ready(x, e)
  BY <1>3, <1>4, <1>5 DEF Carries
<1>. QED  BY <1>1, <1>2, <1>5, <1>6, <1>7, <1>8, <1>9, TrackedKept

\* onAgentSettled touches the turn and its compactions only.
LEMMA SettledTracked ==
  ASSUME IInv, Tracked, NEW kept \in BOOLEAN, NEW work \in BOOLEAN, Settled(kept, work), IInv'
  PROVE  Tracked'
<1>. PICK c : c = WithoutPrepared(cc)
  OBVIOUS
<1>1. /\ cc' \in {cc, c, TurnCompleted(c, co.primary)}
      /\ host' = [host EXCEPT !.run = "idle"] /\ UNCHANGED branch
      /\ co'.active = co.active /\ co'.primary = co.primary
  BY DEF Settled, Store, IInv, Typing, Memory
<1>2. host'.queue = host.queue
  BY <1>1 DEF IInv, Typing, Host
<1>3. SameMail(cc, c) /\ SameMail(cc, cc)
  BY TurnsSameMail DEF IInv, WithoutPrepared
<1>4. co.primary = NoRequest => cc' = cc
  BY DEF Settled
<1>5. co.primary # NoRequest => SameMail(cc, TurnCompleted(c, co.primary))
  <2>. SUFFICES ASSUME co.primary # NoRequest
                PROVE  SameMail(cc, TurnCompleted(c, co.primary))
    OBVIOUS
  <2>1. Sound(c, settled, Used)
    BY WithoutPreparedSound DEF IInv, Primary, Fits, Keeps
  <2>2. SameMail(c, TurnCompleted(c, co.primary))
    BY <2>1, TurnsSameMail
  <2>. QED  BY <1>3, <2>2 DEF SameMail
<1>6. SameMail(cc, cc')
  BY <1>1, <1>3, <1>4, <1>5
<1>7. Seen' \subseteq Seen
  BY <1>1 DEF Seen
<1>. QED  BY <1>1, <1>2, <1>6, <1>7, SameMailTracked

\* beforeCompaction and the abort of a compaction.
LEMMA PreparingTracked ==
  ASSUME IInv, Tracked, IInv',
         \/ \E k \in Key, owner \in {"harness", "native"} : BeforeCompaction(k, owner)
         \/ \E signalled \in BOOLEAN : CompactionAborts(signalled)
  PROVE  Tracked'
<1>1. /\ UNCHANGED co
      /\ host' \in {[host EXCEPT !.compacting = TRUE], CompactionEnds}
      /\ branch' = branch \/ \E k \in Key : branch' = [branch EXCEPT ![host.session].window = k]
  BY DEF BeforeCompaction, CompactionAborts
<1>2. ASSUME NEW k \in Key, NEW owner \in {"harness", "native"}, BeforeCompaction(k, owner)
      PROVE  cc' = cc \/ cc' = CompactionPrepared(cc, host.session, <<cc.turn.request, k>>, owner)
  BY <1>2 DEF BeforeCompaction, Store
<1>7. ASSUME NEW signalled \in BOOLEAN, CompactionAborts(signalled)
      PROVE  cc' = cc \/ cc' = CompactionFailed(cc, Latest(PreparedCompactions(cc)), "aborted")
  BY <1>7 DEF CompactionAborts, Store
<1>3. SameMail(cc, cc')
  BY <1>2, <1>7, TurnsSameMail DEF IInv
<1>4. host'.queue = host.queue
  BY <1>1 DEF IInv, Typing, Host, CompactionEnds
<1>5. \A z \in Session : branch'[z].visible \subseteq branch[z].visible
  <2>1. ASSUME NEW k \in Key, branch' = [branch EXCEPT ![host.session].window = k]
        PROVE  \A z \in Session : branch'[z].visible \subseteq branch[z].visible
    BY <2>1 DEF IInv, Typing, Host, Branch
  <2>. QED  BY <1>1, <2>1
<1>6. Seen' \subseteq Seen
  BY <1>1, <1>5, SeenIs DEF Seen
<1>. QED  BY <1>1, <1>3, <1>4, <1>6, SameMailTracked

\* A coordinator that was made anew, with no turn and nothing in the queue.
LEMMA FreshTracked ==
  ASSUME Tracked, IInv', Carries(cc, cc', {}), Filed(cc'), co' = FreshCoordinator,
         host'.queue \subseteq host.queue,
         \A z \in Session : branch'[z].visible \subseteq branch[z].visible
  PROVE  Tracked'
<1>1. co'.active = {} /\ co'.primary = NoRequest
  BY DEF FreshCoordinator
<1>2. Seen' \subseteq Seen
  BY <1>1 DEF Seen
<1>. QED  BY <1>1, <1>2, TrackedKept

\* A crash, and one between the writes of consumeContinuation.
LEMMA CrashTracked ==
  ASSUME IInv, Tracked, Crash \/ (\E d \in Dispatches : CrashInRunEnd(d)), IInv'
  PROVE  Tracked'
<1>1. /\ co' = FreshCoordinator /\ host' = [HostAt(host.session) EXCEPT !.run = "down"]
      /\ UNCHANGED branch
  BY DEF Crash, CrashInRunEnd
<1>2. host'.queue = {}
  BY <1>1, HostAtIs DEF IInv, Typing, Host
<1>3. Carries(cc, cc', {}) /\ Filed(cc')
  <2>1. CASE Crash
    <3>1. SameMail(cc, cc')
      BY <2>1 DEF Crash, SameMail
    <3>. QED  BY <3>1, SameMailFiled DEF Tracked
  <2>2. ASSUME NEW d \in Dispatches, CrashInRunEnd(d)
        PROVE  Carries(cc, cc', {}) /\ Filed(cc')
    <3>1. Receipt(cc, d) = "claimed" /\ cc' = Consumed(cc, d)
      BY <2>2 DEF CrashInRunEnd, Store
    <3>2. d \in DOMAIN cc.outbox
      BY <3>1 DEF Receipt, IInv, Sound, Good, Typed
    <3>. QED  BY <3>1, <3>2, ConsumedFiled DEF IInv, Tracked
  <2>. QED  BY <2>1, <2>2
<1>. QED  BY <1>1, <1>2, <1>3, FreshTracked

\* resetSession empties outbox and inbox.
LEMMA ResetSessionTracked == ASSUME IInv, Tracked, ResetSession, IInv' PROVE Tracked'
<1>1. /\ cc' = SessionReset(cc, host.session) /\ co' = FreshCoordinator
      /\ UNCHANGED <<host, branch>>
  BY DEF ResetSession, Store
<1>. PICK s, t, k, o, i, v, p : cc = State(s, t, k, o, i, v, p)
  BY Parts DEF IInv
<1>2. cc'.outbox = <<>> /\ cc'.inbox = <<>> /\ cc'.processed = cc.processed
  BY ONLY <1>1, cc = State(s, t, k, o, i, v, p) DEF SessionReset, Cleared, State
<1>3. Carries(cc, cc', {}) /\ Filed(cc')
  BY <1>2, EmptyFiled DEF Tracked
<1>. QED  BY <1>1, <1>3, FreshTracked

\* session_started keeps outbox and inbox or empties them.
LEMMA SessionStartedFiled ==
  ASSUME NEW c, NEW S, NEW U, Sound(c, S, U), Filed(c), NEW z \in Session, NEW reason
  PROVE  LET x == SessionStarted(c, z, reason)
         IN Carries(c, x, {}) /\ Filed(x)
<1>. PICK s, t, k, o, i, v, p : c = State(s, t, k, o, i, v, p)
  BY Parts
<1>. PICK x : x = SessionStarted(c, z, reason)
  OBVIOUS
<1>. PICK e : e = SessionEvent(z, reason)
  OBVIOUS
<1>2. c.outbox = o /\ c.inbox = i /\ c.processed = p
  BY Fields
<1>1. /\ x.processed = p \cup {e} \/ x = c
      /\ \/ x.outbox = o /\ x.inbox = i
         \/ x.outbox = <<>> /\ x.inbox = <<>>
  <2>. DEFINE Mailed(y) == \/ y.outbox = o /\ y.inbox = i
                           \/ y.outbox = <<>> /\ y.inbox = <<>>
              Mark(y) == [y EXCEPT !.processed = p \cup {e}]
              Here == [c EXCEPT !.session = z,
                                !.turn = IF c.turn = NoTurn THEN NoTurn
                                         ELSE [c.turn EXCEPT !.session = z]]
  <2>1. \A h, w : Mailed(Mark(Cleared(c, z, h, w))) /\ Mark(Cleared(c, z, h, w)).processed = p \cup {e}
    BY ONLY c = State(s, t, k, o, i, v, p) DEF Cleared, State
  <2>2. Mailed(Mark(Here)) /\ Mark(Here).processed = p \cup {e}
    <3>. PICK q : q = IF c.turn = NoTurn THEN NoTurn ELSE [c.turn EXCEPT !.session = z]
      OBVIOUS
    <3>. PICK y : y = [c EXCEPT !.session = z, !.turn = q]
      OBVIOUS
    <3>1. y = State(z, q, k, o, i, v, p)
      BY ONLY c = State(s, t, k, o, i, v, p), y = [c EXCEPT !.session = z, !.turn = q] DEF State
    <3>2. Mark(y) = State(z, q, k, o, i, v, p \cup {e})
      BY ONLY <3>1 DEF State
    <3>3. Here = y
      OBVIOUS
    <3>. PICK f : f = p \cup {e}
      OBVIOUS
    <3>. PICK m : m = Mark(Here)
      OBVIOUS
    <3>4. m = State(z, q, k, o, i, v, f)
      BY <3>2, <3>3
    <3>5. m.outbox = o /\ m.inbox = i /\ m.processed = f
      BY <3>4, Fields
    <3>. QED  BY <3>5
  <2>3. \/ x = c
        \/ x = Mark(Cleared(c, z, "none", "none"))
        \/ x = Mark(Here)
        \/ x = Mark(Cleared(c, z, "interrupted", IF c.turn = NoTurn THEN "none" ELSE "final"))
    <3>. PICK next : next = CASE reason \in {"new", "fork"} -> Cleared(c, z, "none", "none")
                              [] SessionSignal(c, z, reason) = "restore" -> Here
                              [] OTHER -> Cleared(c, z, "interrupted",
                                                  IF c.turn = NoTurn THEN "none" ELSE "final")
      OBVIOUS
    <3>1. x = c \/ x = Mark(next)
      BY <1>2 DEF SessionStarted, Commit
    <3>. HIDE DEF Mark, Here
    <3>2. next \in {Cleared(c, z, "none", "none"), Here,
                   Cleared(c, z, "interrupted", IF c.turn = NoTurn THEN "none" ELSE "final")}
      BY ONLY next = CASE reason \in {"new", "fork"} -> Cleared(c, z, "none", "none")
                       [] SessionSignal(c, z, reason) = "restore" -> Here
                       [] OTHER -> Cleared(c, z, "interrupted",
                                           IF c.turn = NoTurn THEN "none" ELSE "final")
    <3>. QED  BY <3>1, <3>2
  <2>4. Mailed(c)
    BY <1>2
  <2>. HIDE DEF Mailed, Mark, Here
  <2>5. Mailed(x) /\ (x.processed = p \cup {e} \/ x = c)
    BY <2>1, <2>2, <2>3, <2>4
  <2>. QED  BY <2>5 DEF Mailed
<1>3. \A d : ConsumedEvent(d) # e
  BY DEF ConsumedEvent, SessionEvent
<1>4. CASE x.outbox = o /\ x.inbox = i
  <2>1. SameMail(c, x)
    BY <1>1, <1>2, <1>3, <1>4 DEF SameMail
  <2>. QED  BY <2>1, SameMailFiled
<1>5. CASE x.outbox = <<>> /\ x.inbox = <<>>
  <2>1. c.processed \subseteq x.processed
        /\ \A d : ConsumedEvent(d) \in x.processed => ConsumedEvent(d) \in c.processed
    BY <1>1, <1>2, <1>3
  <2>. QED  BY <1>5, <2>1, EmptyFiled
<1>. QED  BY <1>1, <1>4, <1>5

\* afterCompaction: what it sends is with the host.
LEMMA AfterCompactionTracked ==
  ASSUME IInv, Tracked, NEW kept \in SUBSET Dispatches, NEW sent \in SUBSET Dispatches,
         NEW crash \in BOOLEAN, AfterCompaction(kept, sent, crash), IInv'
  PROVE  Tracked'
<1>1. \A z \in Session : branch'[z].visible \subseteq branch[z].visible
  <2>1. kept \subseteq branch[host.session].visible
        /\ branch' = [branch EXCEPT ![host.session] = Kept(@, kept)]
    BY DEF AfterCompaction
  <2>2. \A b \in Branch : Kept(b, kept).visible = kept
    BY DEF Kept, Branch
  <2>. QED  BY <2>1, <2>2 DEF IInv, Typing, Host
<1>2. CompactionEnds.queue = host.queue
  BY DEF IInv, Typing, Host, CompactionEnds
<1>3. CASE PreparedCompactions(cc) = {}
  <2>1. host' = CompactionEnds /\ UNCHANGED <<cc, co>>
    BY <1>3 DEF AfterCompaction
  <2>2. SameMail(cc, cc') /\ Seen' \subseteq Seen
    BY <1>1, <2>1, SeenIs DEF SameMail, Seen
  <2>. QED  BY <1>2, <2>1, <2>2, SameMailTracked
<1>4. CASE PreparedCompactions(cc) # {}
  <2>. PICK n : n = Latest(PreparedCompactions(cc))
    OBVIOUS
  <2>. PICK c : c = CompactionSucceeded(cc, n)
    OBVIOUS
  <2>. PICK d : d = CompactionDispatch(cc.compactions[n].op)
    OBVIOUS
  <2>. PICK dispatches : dispatches = (Matches(cc, cc.compactions[n].op)
                                       /\ cc.compactions[n].owner = "harness")
    OBVIOUS
  <2>. PICK q : q = IF dispatches THEN Queued(c, d) ELSE c
    OBVIOUS
  <2>1. /\ n \in DOMAIN cc.compactions
        /\ cc.compactions[n].status = "prepared"
        /\ cc.compactions[n].op \in OperationId
        /\ cc.compactions[n].owner \in {"harness", "native"}
    BY <1>4, PreparedOf DEF IInv
  <2>2. Sound(c, settled, Used) /\ Sound(q, settled, Used)
    BY <2>1, CommittedSound DEF IInv, Keeps
  <2>3. Carries(cc, c, {}) /\ Filed(c)
    BY TurnsSameMail, SameMailFiled DEF IInv, Tracked
  <2>4. CASE crash
    <3>1. /\ cc' = c /\ co' = FreshCoordinator
          /\ host' = [HostAt(host.session) EXCEPT !.run = "down"]
      BY <1>4, <2>4 DEF AfterCompaction, Store
    <3>2. host'.queue = {}
      BY <3>1, HostAtIs DEF IInv, Typing, Host
    <3>. QED  BY <1>1, <2>3, <3>1, <3>2, FreshTracked
  <2>5. CASE ~crash
    <3>. PICK x : x = Attempt(q, sent)
      OBVIOUS
    <3>1. /\ sent \in (IF dispatches THEN Sends(q) ELSE {{}})
          /\ cc' = x
          /\ host' = [CompactionEnds EXCEPT !.queue = @ \cup sent]
          /\ UNCHANGED co
      BY <1>4, <2>5 DEF AfterCompaction, Store
    <3>2. sent \in SUBSET Pending(q)
      BY <3>1 DEF Sends
    <3>3. host'.queue = host.queue \cup sent
      BY <3>1 DEF IInv, Typing, Host, CompactionEnds
    <3>4. Carries(c, q, {}) /\ Filed(q)
      BY <2>2, <2>3, TurnsSameMail, SameMailFiled, QueuedFiled
    <3>5. Filed(x) /\ Carries(q, x, sent) /\ DOMAIN x.outbox = DOMAIN q.outbox
      BY <2>2, <3>2, <3>4, AttemptFiled
    <3>6. Carries(cc, x, {} \cup {} \cup sent)
      BY <2>3, <3>4, <3>5, CarriesTransitive
    <3>7. sent \subseteq DOMAIN x.outbox
      BY <3>2, <3>5 DEF Pending
    <3>8. Seen' \subseteq Seen
      BY <1>1, <3>1, SeenIs DEF Seen
    <3>. QED  BY <3>1, <3>3, <3>5, <3>6, <3>7, <3>8, TrackedKept
  <2>. QED  BY <2>4, <2>5
<1>. QED  BY <1>3, <1>4

\* onSessionStart: a restored session gives back or settles what was sent.
LEMMA SessionStartTracked ==
  ASSUME IInv, Tracked, NEW s \in Session, NEW reason, NEW work \in BOOLEAN,
         NEW sent \in SUBSET Dispatches, SessionStart(s, reason, work, sent), IInv'
  PROVE  Tracked'
<1>. PICK signal : signal = SessionSignal(cc, s, reason)
  OBVIOUS
<1>. PICK c : c = SessionStarted(cc, s, reason)
  OBVIOUS
<1>1. UNCHANGED branch
  BY DEF SessionStart
<1>2. Sound(c, settled, Used) /\ Carries(cc, c, {}) /\ Filed(c)
  BY SessionStartedSound, SessionStartedFiled DEF IInv, Tracked
<1>3. CASE signal = "restore" /\ c.turn # NoTurn
  <2>. PICK r : r = Reconciled(c, s)
    OBVIOUS
  <2>. PICK y : y = CHOOSE z \in Unresumed(c, work) : TRUE
    OBVIOUS
  <2>. PICK d : d = SidecarContinuation(y)
    OBVIOUS
  <2>. PICK q : q = IF Unresumed(c, work) = {} THEN r ELSE Queued(r, d)
    OBVIOUS
  <2>. PICK x : x = Attempt(q, sent)
    OBVIOUS
  <2>1. /\ sent = Pending(q) /\ cc' = x /\ co' = Restored(c.turn)
        /\ host' = [HostAt(s) EXCEPT !.queue = sent]
    BY <1>3 DEF SessionStart, Store
  <2>2. /\ Keeps(c, r, settled, Used) /\ Filed(r)
        /\ \A e \in Outstanding(r) : Ready(r, e)
    BY <1>2, ReconciledFiled
  <2>3. Sound(q, settled, Used) /\ Filed(q) /\ Carries(r, q, {})
    <3>1. Sound(r, settled, Used)
      BY <2>2 DEF Keeps
    <3>2. CASE Unresumed(c, work) = {}
      BY <2>2, <3>1, <3>2, TurnsSameMail, SameMailFiled
    <3>3. CASE Unresumed(c, work) # {}
      <4>1. y \in Sidecar
        BY <3>3 DEF Unresumed, Sidecars
      <4>2. d \in Dispatches /\ \A op \in OperationId : d # CompactionDispatch(op)
        BY <4>1, DispatchesDiffer
      <4>. QED  BY <2>2, <3>1, <3>3, <4>2, QueuedSound, QueuedFiled DEF Keeps
    <3>. QED  BY <3>2, <3>3
  <2>4. /\ Filed(x) /\ Carries(q, x, sent) /\ DOMAIN x.outbox = DOMAIN q.outbox
        /\ \A e \in Outstanding(x) : e \in Outstanding(q)
    <3>1. sent \in SUBSET Pending(q)
      BY <2>1
    <3>2. Sound(q, settled, Used) /\ Filed(q)
      BY <2>3
    <3>. QED  BY ONLY <3>1, <3>2, x = Attempt(q, sent), AttemptFiled
  <2>5. \A e \in Outstanding(x) : e \in sent \/ Ready(x, e)
    BY <2>2, <2>3, <2>4 DEF Carries
  <2>6. host'.queue = sent /\ co'.active = {}
    BY <2>1, HostAtIs DEF Restored, FreshCoordinator
  <2>7. Reach'
    BY <2>1, <2>5, <2>6 DEF Reach
  <2>8. sent \subseteq DOMAIN x.outbox /\ \A e \in DOMAIN x.outbox : QueuedEvent(e) \in x.processed
    <3>1. sent \subseteq DOMAIN x.outbox
      BY <2>1, <2>4 DEF Pending
    <3>2. Sound(x, settled', Used')
      BY <2>1 DEF IInv
    <3>. QED  BY <3>1, <3>2 DEF Sound, Good, Recorded
  <2>9. Seen' \subseteq Seen
    BY <1>1, <2>6 DEF Seen
  <2>10. Carries(c, r, {})
    BY <1>2, ReconciledFiled
  <2>11. Carries(cc, x, {} \cup {} \cup {} \cup sent)
    BY <1>2, <2>3, <2>4, <2>10, CarriesTransitive
  <2>12. cc.processed \subseteq x.processed
    BY <2>11 DEF Carries
  <2>13. \A e \in host'.queue \cup Seen' : QueuedEvent(e) \in cc'.processed
    BY <2>1, <2>6, <2>8, <2>9, <2>12 DEF Tracked, Noticing
  <2>14. \A e \in Seen' \cap Outstanding(cc') : Noted(e, cc'.processed)
    <3>. SUFFICES ASSUME NEW e \in Outstanding(x), e \in Seen
                  PROVE  Noted(e, x.processed)
      BY <2>1, <2>9
    <3>1. e \in Outstanding(cc)
      BY <2>11 DEF Carries, Tracked, Noticing
    <3>. QED  BY <2>12, <3>1 DEF Tracked, Noticing, Noted
  <2>. QED  BY <2>1, <2>4, <2>7, <2>13, <2>14 DEF Tracked, Noticing
<1>4. CASE ~(signal = "restore" /\ c.turn # NoTurn)
  <2>1. cc' = c /\ co' = FreshCoordinator /\ host' = HostAt(s)
    BY <1>4 DEF SessionStart, Store
  <2>2. host'.queue = {}
    BY <2>1, HostAtIs
  <2>. QED  BY <1>1, <1>2, <2>1, <2>2, FreshTracked
<1>. QED  BY <1>3, <1>4

\* Nothing is outstanding at first.
LEMMA InitTracked == Init => Tracked
<1>. SUFFICES ASSUME NEW s \in Session, cc = SessionStarted(EmptyContinuity, s, "startup"),
                     co = FreshCoordinator, host = HostAt(s),
                     branch = [t \in Session |-> EmptyBranch]
              PROVE  Tracked
  BY DEF Init
<1>1. cc.outbox = <<>> /\ cc.inbox = <<>> /\ cc.processed = {SessionEvent(s, "startup")}
  <2>. PICK e : e = SessionEvent(s, "startup")
    OBVIOUS
  <2>. QED  BY DEF SessionStarted, SessionSignal, Commit, EmptyContinuity, Cleared, SessionEvent
<1>2. Outstanding(cc) = {}
  BY <1>1 DEF Outstanding
<1>3. Filed(cc)
  BY <1>1, <1>2 DEF Filed, ConsumedEvent, SessionEvent
<1>4. host.queue = {} /\ Seen = {}
  BY HostAtIs DEF Seen, FreshCoordinator, EmptyBranch
<1>. QED  BY <1>2, <1>3, <1>4 DEF Tracked, Noticing, Reach

\* Every step keeps it.
LEMMA NextTracked == ASSUME IInv, Tracked, Next, IInv' PROVE Tracked'
<1>1. ASSUME NEW r \in Request, BeginRequest(r) PROVE Tracked'
  BY <1>1, BeginRequestTracked
<1>2. ASSUME NEW d \in Dispatches, MessageStart(d) PROVE Tracked'
  BY <1>2, MessageStartTracked
<1>3. ASSUME NEW failed \in BOOLEAN, NEW terminal \in BOOLEAN, NEW work \in BOOLEAN,
             RunEnd(failed, terminal, work)
      PROVE  Tracked'
  BY <1>3, RunEndTracked
<1>4. ASSUME NEW kept \in BOOLEAN, NEW work \in BOOLEAN, Settled(kept, work) PROVE Tracked'
  BY <1>4, SettledTracked
<1>5. ASSUME NEW kept \in SUBSET Dispatches, NEW sent \in SUBSET Dispatches, NEW crash \in BOOLEAN,
             AfterCompaction(kept, sent, crash)
      PROVE  Tracked'
  BY <1>5, AfterCompactionTracked
<1>6. ASSUME NEW s \in Session, NEW reason, NEW work \in BOOLEAN, NEW sent \in SUBSET Dispatches,
             SessionStart(s, reason, work, sent)
      PROVE  Tracked'
  BY <1>6, SessionStartTracked
<1>. QED  BY <1>1, <1>2, <1>3, <1>4, <1>5, <1>6, RetryTracked, ContextTracked, RepliesTracked,
             PreparingTracked, CrashTracked, ResetSessionTracked DEF Next

\* A stuttering step keeps it.
LEMMA StutterTracked == Tracked /\ UNCHANGED vars => Tracked'
BY DEF Tracked, vars, Noticing, Reach, Seen

-----------------------------------------------------------------------------
\* The inductive invariant.
THEOREM Invariance == Spec => []IInv
<1>1. Init => IInv
  BY InitHolds
<1>2. IInv /\ [Next]_vars => IInv'
  BY NextKeeps, StutterKeeps
<1>. QED  BY <1>1, <1>2, PTL DEF Spec

\* The continuity file, the request statuses, the coordinator's memory and the
\* host's queue have their types: no event of contextContinuityTransition and
\* no handler of RuntimeRequestCoordinator leaves a value of another kind.
THEOREM TypeCorrect == Spec => []TypeOK
<1>1. IInv => TypeOK
  <2>. SUFFICES ASSUME IInv PROVE TypeOK
    OBVIOUS
  <2>1. /\ cc.session \in Session
        /\ DOMAIN cc.outbox \subseteq Dispatches
        /\ \A d \in DOMAIN cc.outbox : cc.outbox[d] \in {"pending", "attempted", "acknowledged"}
    BY DEF IInv, Sound, Good, Typed, OutboxStatus
  <2>2. cc.turn = NoTurn \/ (/\ cc.turn.request \in Request
                             /\ cc.turn.session \in Session
                             /\ cc.turn.phase \in Phase)
    BY Turns DEF IInv, Sound, Good, Typed
  <2>3. \A n \in DOMAIN cc.compactions : cc.compactions[n] \in Compaction
    <3>1. cc.compactions \in Seq(Compaction)
      BY DEF IInv, Sound, Good, Typed
    <3>. QED  BY <3>1
  <2>4. \A n \in DOMAIN cc.compactions :
          /\ cc.compactions[n].op \in OperationId
          /\ cc.compactions[n].status \in {"prepared", "committed", "resumed", "failed"}
    BY <2>3 DEF Compaction
  <2>5. /\ req \in [Request \cup Sidecar -> RequestStatus]
        /\ parent \in [Sidecar -> Request \cup {NoRequest}]
        /\ replied \subseteq Request \cup Sidecar
        /\ root.request \in Request \cup {NoRequest}
        /\ root.settlement \in Settlement
        /\ root.control \in {"none", "cancel"}
        /\ co.active \subseteq Dispatches /\ co.admitted \subseteq co.active
        /\ host.queue \subseteq Dispatches
    BY DEF IInv, Typing, Memory, Host, Roots
  <2>. QED  BY <2>1, <2>2, <2>4, <2>5 DEF TypeOK
<1>. QED  BY <1>1, Invariance, PTL

\* Inbox and outbox agree on every continuation: a receipt belongs to a dispatch
\* of the outbox and is consumed exactly when the dispatch is acknowledged,
\* whatever was received twice, released, reconciled or cleared in between
\* (continuation_consumed and continuation_released).
THEOREM ReceiptsMatch == Spec => []ReceiptsMatchOutbox
<1>1. IInv => ReceiptsMatchOutbox
  BY DEF IInv, Sound, Good, Typed, Mail, ReceiptsMatchOutbox, Receipt
<1>. QED  BY <1>1, Invariance, PTL

\* With the invariant, what is outstanding of the coordinator's turn is with the
\* host, yet to be sent, or was given back or delivered before.
LEMMA AlwaysTracked == Spec => [](IInv /\ Tracked)
<1>. DEFINE Inv == IInv /\ Tracked
<1>1. Init => Inv
  BY InitHolds, InitTracked
<1>2. Inv /\ [Next]_vars => Inv'
  <2>1. IInv /\ [Next]_vars => IInv'
    BY NextKeeps, StutterKeeps
  <2>2. ASSUME IInv, Tracked, [Next]_vars, IInv' PROVE Tracked'
    BY <2>2, NextTracked, StutterTracked
  <2>. QED  BY <2>1, <2>2
<1>. HIDE DEF Inv
<1>3. Spec => []Inv
  BY <1>1, <1>2, PTL DEF Spec
<1>4. Inv => IInv /\ Tracked
  BY DEF Inv
<1>. QED  BY <1>3, <1>4, PTL

\* A turn that waits after a compaction is resumed by the host's next turn start,
\* or its continuation is recorded and not acknowledged; and in a coordinator
\* that knows the turn this continuation is to be sent, in the queue of the host
\* or taken up, unless a session start gave it back or a run that had received
\* it did, which happens once each (afterCompaction, onSessionStart,
\* onMessageStart, onAgentEnd).  Excepted is a crash between two writes of one
\* handler.
THEOREM Awaited == Spec => []AwaitedContinuation
<1>1. IInv /\ Tracked => AwaitedContinuation
  <2>. SUFFICES ASSUME IInv, Tracked, cc.turn # NoTurn, cc.turn.phase = "awaiting_resume", ~torn
                PROVE  \E i \in TurnCompactions(cc) :
                         LET d == CompactionDispatch(cc.compactions[i].op) IN
                         /\ cc.compactions[i].status = "committed"
                         /\ \/ cc.compactions[i].owner = "native"
                            \/ /\ d \in Outstanding(cc)
                               /\ co.primary = cc.turn.request => UnderWay(d) \/ SpentOnce(cc, d)
    BY DEF AwaitedContinuation
  <2>1. PICK n \in DOMAIN cc.compactions :
          Resumes(cc.turn, cc.compactions, cc.outbox, cc.processed, n)
    BY DEF IInv, Awaits, Waits
  <2>. PICK d : d = CompactionDispatch(cc.compactions[n].op)
    OBVIOUS
  <2>2. n \in TurnCompactions(cc) /\ cc.compactions[n].status = "committed"
    BY <2>1 DEF Resumes, TurnCompactions
  <2>3. CASE cc.compactions[n].owner = "native"
    BY <2>2, <2>3
  <2>4. CASE cc.compactions[n].owner # "native"
    <3>1. d \in Outstanding(cc)
      BY <2>1, <2>4 DEF Resumes, Outstanding
    <3>2. OfTurn(d, cc.turn.request) /\ cc.turn.request # NoRequest
      <4>1. cc.compactions \in Seq(Compaction) /\ cc.turn.request \in Request
        BY Turns DEF IInv, Sound, Good, Typed
      <4>2. cc.compactions[n].op \in OperationId /\ cc.compactions[n].op[1] = cc.turn.request
        <5>1. cc.compactions[n] \in Compaction
          BY <4>1
        <5>. QED  BY <2>1, <5>1 DEF Compaction, Resumes
      <4>3. PICK k \in Key : cc.compactions[n].op = <<cc.turn.request, k>>
        BY <4>2 DEF OperationId
      <4>. QED  BY <4>1, <4>3, RequestCoordinatorAssumption DEF OfTurn, NoRequest
    <3>3. co.primary = cc.turn.request => UnderWay(d) \/ SpentOnce(cc, d)
      BY <3>1, <3>2 DEF Tracked, Reach, Ready, UnderWay
    <3>. QED  BY <2>2, <3>1, <3>3
  <2>. QED  BY <2>3, <2>4
<1>. QED  BY <1>1, AlwaysTracked, PTL

\* What was acknowledged once is never sent or shown to the model again, across
\* crashes, reloads, resets and changes of session (the dispatch loop of
\* dispatchPendingContinuations and the filter of onContext).
THEOREM SettledOnce == Spec => SettledNotRepeated
<1>1. IInv /\ [Next]_vars => [Unrepeated]_vars
  BY NextKeeps
<1>. QED  BY <1>1, Invariance, PTL DEF Spec, SettledNotRepeated, Unrepeated

\* A turn is recorded as completed only by a settlement that finds its root
\* cancelled by a batch, or its request answered, its root succeeded, nothing
\* outstanding and no compaction of it prepared (onAgentSettled).
THEOREM CompletedQuietly == Spec => CompletionIsQuiet
<1>1. IInv /\ [Next]_vars => [Quiet]_vars
  BY NextKeeps
<1>. QED  BY <1>1, Invariance, PTL DEF Spec, CompletionIsQuiet, Quiet
================================================================================
