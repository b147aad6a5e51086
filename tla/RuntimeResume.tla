---------------------------- MODULE RuntimeResume ----------------------------
(***************************************************************************)
(* Resume candidates and their claims: the reducer of runtime-resume.json, *)
(* the coordinators and desktop actions that dispatch its events, and the  *)
(* continuation a granted claim puts into the continuity outbox.           *)
(*                                                                         *)
(* A transition of either file is one step (SerializedState says under     *)
(* which condition it is); a handler that makes several is several steps,  *)
(* between which another process may act.  The one wait inside a handler,  *)
(* resume.claim's polling for a receipt, leaves its own process free too.  *)
(*                                                                         *)
(* A candidate is named by the turn it resumes (`resume-<turnId>'), a      *)
(* claim token by session and candidate.  candidate_running has no caller  *)
(* and hasBlockingActiveRun is never true, as the only candidate that is   *)
(* validated is that of the active turn; neither is modelled.  The caps on *)
(* candidates (24) and processed ids (128) are beyond the bounds.          *)
(***************************************************************************)
EXTENDS Naturals

CONSTANTS
  Session,      \* one process each, and its restarts
  Candidate,    \* turns, and the candidates that resume them
  MaxRevision,  \* bound: transitions of runtime-resume.json
  MaxFaults     \* bound: crashes, reloads, resets and sends that throw

ASSUME ResumeAssumption ==
  /\ MaxRevision \in Nat
  /\ MaxFaults \in Nat
  /\ "none" \notin Session \cup Candidate

VARIABLES
  revision, selected, disp, lease, holder, ready, bound, processed,
  turn, begun, outbox, queued, receipts, noted, session, started,
  pc, after, target, fresh, seenTurn, seenReady, viewRevision, changed,
  binding, prior, todo, poll, faults

\* runtime-resume.json: per candidate the disposition, the state and session
\* of its claim, the last validation, whether it is bound to Canvas nodes.
content == <<selected, disp, lease, holder, ready, bound>>
resume == <<revision, content, processed>>
\* The part of context-continuity.json that counts here: the turn that is not
\* completed, the resume continuations, and the event ids that were used.
continuity == <<turn, begun, outbox, queued, receipts, noted, session, started>>
\* Of every process: what its handler does next and has read, candidates it
\* has still to retire, activeResume and the claim it polls a receipt for.
handler == <<pc, after, target, fresh, seenTurn, seenReady, todo>>
memory == <<binding, prior, poll>>
\* The revision its user or client last inspected; `changed' is history: the
\* sessions for which the candidates changed since.
views == <<viewRevision, changed>>
vars == <<resume, continuity, handler, views, memory, faults>>

None == "none"
Disposition == {"absent", "available", "selected", "claimed", "completed", "retired"}
Lease == {"none", "active", "released", "consumed"}
Step == {"down", "idle", "reconciling", "beginning", "clearing", "retiring",
         "opening", "reopening", "dispatching", "releasing"}

ClaimId(s, c) == <<"claim", s, c>>
ReleaseId(s, c) == <<"release", s, c>>
CompletedId(c) == <<"completed", c>>
RetireId(c) == <<"retired", c>>
EventId ==
  ({"claim", "release"} \X Session \X Candidate)
    \cup ({"completed", "retired"} \X Candidate)

Init ==
  /\ revision = 0
  /\ selected = None
  /\ disp = [c \in Candidate |-> "absent"]
  /\ lease = [c \in Candidate |-> "none"]
  /\ holder = [c \in Candidate |-> None]
  /\ ready = {}
  /\ bound = {}
  /\ processed = {}
  /\ turn = None
  /\ begun = {}
  /\ outbox = [c \in Candidate |-> "none"]
  /\ queued = {}
  /\ receipts = {}
  /\ noted = {}
  /\ session = None
  /\ started = {}
  /\ pc = [s \in Session |-> "down"]
  /\ after = [s \in Session |-> "idle"]
  /\ target = [s \in Session |-> None]
  /\ fresh = [s \in Session |-> FALSE]
  /\ seenTurn = [s \in Session |-> None]
  /\ seenReady = [s \in Session |-> FALSE]
  /\ todo = [s \in Session |-> {}]
  /\ viewRevision = [s \in Session |-> 0]
  /\ changed = {}
  /\ binding = [s \in Session |-> None]
  /\ prior = [s \in Session |-> None]
  /\ poll = [s \in Session |-> None]
  /\ faults = 0

Fault == faults < MaxFaults /\ faults' = faults + 1
Goto(s, step) == pc' = [pc EXCEPT ![s] = step]

-----------------------------------------------------------------------------
\* The reducer.  commitTransition counts every transition, refused ones too,
\* and records its event id; ids with a clock or a request id are fresh.
Commit(ids) ==
  /\ revision < MaxRevision
  /\ revision' = revision + 1
  /\ processed' = processed \cup ids

\* Every inspection of different candidates is out of date.
Outdate ==
  /\ changed' = IF content' = content THEN changed ELSE Session
  /\ UNCHANGED viewRevision

Live(c) == disp[c] \notin {"absent", "completed", "retired"}
Unselect(c) == IF selected = c THEN None ELSE selected
EndLease(c, state) ==
  [lease EXCEPT ![c] = IF @ = "none" THEN "none" ELSE state]

\* snapshot_reconciled: the source is the turn read before; its candidate is
\* validated anew, other candidates keep their old validation while they are
\* live and are dropped once they are not.
Dropped(source) ==
  {c \in Candidate : c # source /\ disp[c] \in {"completed", "retired"}}

\* Mutant: the state of the claim is taken for the disposition.
MutMixedDisposition(c) ==
  CASE disp[c] \in {"completed", "retired", "selected"} -> disp[c]
    [] disp[c] = "claimed" /\ lease[c] = "active" -> lease[c]
    [] OTHER -> "available"
\* Mutant: a claim does not keep its disposition through a reconciliation.
MutReconciledDisposition(c) ==
  CASE disp[c] \in {"completed", "retired", "selected"} -> disp[c]
    [] OTHER -> "available"
ReconciledDisposition(c) ==
  CASE disp[c] \in {"completed", "retired", "selected"} -> disp[c]
    [] disp[c] = "claimed" /\ lease[c] = "active" -> "claimed"
    [] OTHER -> "available"

Reconciled(source, isReady) ==
  LET out == Dropped(source)
  IN /\ disp' = [c \in Candidate |->
                  IF c = source THEN ReconciledDisposition(c)
                  ELSE IF c \in out THEN "absent" ELSE disp[c]]
     /\ lease' = [c \in Candidate |-> IF c \in out THEN "none" ELSE lease[c]]
     /\ holder' = [c \in Candidate |-> IF c \in out THEN None ELSE holder[c]]
     /\ bound' = bound \ out
     /\ ready' = ((ready \ out) \ {source})
                   \cup (IF source # None /\ isReady THEN {source} ELSE {})
     /\ selected' = IF selected \in out THEN None ELSE selected

\* candidate_claim_released, with the fixed id of the session's claim: only
\* an active claim of another session (and so another token) is respected.
ForeignClaim(s, c) == lease[c] = "active" /\ holder[c] # s

Release(s, c) ==
  IF ReleaseId(s, c) \in processed THEN UNCHANGED resume
  ELSE IF disp[c] = "absent" \/ ForeignClaim(s, c)
  THEN Commit({ReleaseId(s, c)}) /\ UNCHANGED content
  ELSE /\ Commit({ReleaseId(s, c)})
       /\ disp' = [disp EXCEPT ![c] =
                     IF selected = c THEN "selected" ELSE "available"]
       /\ lease' = EndLease(c, "released")
       /\ UNCHANGED <<selected, holder, ready, bound>>

\* candidate_retired: no check of what the candidate was.
Retire(c, ids) ==
  IF disp[c] = "absent" THEN Commit(ids) /\ UNCHANGED content
  ELSE /\ Commit(ids)
       /\ disp' = [disp EXCEPT ![c] = "retired"]
       /\ lease' = EndLease(c, "released")
       /\ selected' = Unselect(c)
       /\ UNCHANGED <<holder, ready, bound>>

-----------------------------------------------------------------------------
\* A client or user reads the snapshot: the revision a claim must name.
Inspect(s) ==
  /\ pc[s] = "idle"
  /\ viewRevision' = [viewRevision EXCEPT ![s] = revision]
  /\ changed' = changed \ {s}
  /\ UNCHANGED <<resume, continuity, handler, memory, faults>>

\* reconcileRuntimeResume reads the turn, the bindings and the Canvas graph
\* before it takes the lock.  `linked': the bound nodes exist and are parent
\* and child.
Read(s, bindings, linked) ==
  /\ seenTurn' = [seenTurn EXCEPT ![s] = turn]
  /\ seenReady' = [seenReady EXCEPT ![s] = turn \in bindings /\ linked]
ReadFor(s, next, linked) ==
  /\ Read(s, bound, linked)
  /\ Goto(s, "reconciling")
  /\ after' = [after EXCEPT ![s] = next]
  /\ UNCHANGED <<target, fresh, todo>>

\* resume.reconcile (and beginRequest of an input that replaces no turn),
\* beginRequest of a new turn, resetSession.
StartHandler(s, next, linked) ==
  /\ pc[s] = "idle"
  /\ next = "beginning" => begun # Candidate
  /\ ReadFor(s, next, linked)
  /\ IF next = "clearing" THEN Fault ELSE UNCHANGED faults
  /\ UNCHANGED <<resume, continuity, views, memory>>

Reconcile(s) ==
  /\ pc[s] = "reconciling"
  /\ Commit({})
  /\ Reconciled(seenTurn[s], seenReady[s])
  /\ Goto(s, after[s])
  /\ after' = [after EXCEPT ![s] = "idle"]
  /\ seenTurn' = [seenTurn EXCEPT ![s] = None]
  /\ seenReady' = [seenReady EXCEPT ![s] = FALSE]
  /\ UNCHANGED <<continuity, target, fresh, todo, memory, faults>>
  /\ Outdate

\* turn_started of a new request; another session's continuations go.
BeginTurn(s, c) ==
  /\ pc[s] = "beginning"
  /\ c \notin begun
  /\ turn' = c
  /\ begun' = begun \cup {c}
  /\ session' = s
  /\ outbox' = IF session = s THEN outbox ELSE [x \in Candidate |-> "none"]
  /\ receipts' = IF session = s THEN receipts ELSE {}
  /\ Goto(s, "idle")
  /\ UNCHANGED <<resume, queued, noted, started, after, target, fresh,
                 seenTurn, seenReady, todo, views, memory, faults>>

\* session_reset; the live candidates are then retired one by one, under ids
\* without a clock.  A new or forked session does the same under ids of its own.
ClearSession(s) ==
  /\ pc[s] = "clearing"
  /\ turn' = None
  /\ outbox' = [x \in Candidate |-> "none"]
  /\ receipts' = {}
  /\ session' = s
  /\ todo' = [todo EXCEPT ![s] = {c \in Candidate : Live(c)}]
  /\ binding' = [binding EXCEPT ![s] = None]
  /\ Goto(s, IF todo'[s] = {} THEN "idle" ELSE "retiring")
  /\ UNCHANGED <<resume, begun, queued, noted, started, after, target, fresh,
                 seenTurn, seenReady, views, prior, poll, faults>>

RetireAtReset(s, c) ==
  /\ pc[s] = "retiring"
  /\ c \in todo[s]
  /\ IF RetireId(c) \in processed THEN UNCHANGED resume
     ELSE Retire(c, {RetireId(c)})
  /\ todo' = [todo EXCEPT ![s] = @ \ {c}]
  /\ Goto(s, IF todo[s] = {c} THEN "idle" ELSE "retiring")
  /\ UNCHANGED <<continuity, after, target, fresh, seenTurn, seenReady,
                 memory, faults>>
  /\ Outdate

-----------------------------------------------------------------------------
\* Desktop actions: chooseResume, rebindResume (which reconciles) and
\* retireResume.  A candidate that is gone or ended is refused.
Choose(s, c) ==
  /\ pc[s] = "idle"
  /\ IF Live(c)
     THEN /\ Commit({})
          /\ selected' = c
          /\ disp' = [disp EXCEPT ![c] = "selected"]
          /\ UNCHANGED <<lease, holder, ready, bound>>
     ELSE Commit({}) /\ UNCHANGED content
  /\ UNCHANGED <<continuity, handler, memory, faults>>
  /\ Outdate

Rebind(s, c, linked) ==
  /\ pc[s] = "idle"
  /\ Commit({})
  /\ IF Live(c)
     THEN /\ bound' = bound \cup {c}
          /\ selected' = c
          /\ UNCHANGED <<disp, lease, holder, ready>>
          /\ Read(s, bound \cup {c}, linked)
          /\ Goto(s, "reconciling")
          /\ after' = [after EXCEPT ![s] = "idle"]
          /\ UNCHANGED <<target, fresh, todo>>
     ELSE ~linked /\ UNCHANGED <<content, handler>>
  /\ UNCHANGED <<continuity, memory, faults>>
  /\ Outdate

RetireByUser(s, c) ==
  /\ pc[s] = "idle"
  /\ Retire(c, {})
  /\ UNCHANGED <<continuity, handler, memory, faults>>
  /\ Outdate

-----------------------------------------------------------------------------
\* claimAndDispatchResume, the claim: in the reducer's order an active claim,
\* the expected revision, the event id, then the candidate.  The claims that
\* are refused without a transition change nothing and are left out.
Current(s) == viewRevision[s] = revision
GoOn(s, c, isFresh) ==
  /\ Goto(s, "dispatching")
  /\ target' = [target EXCEPT ![s] = c]
  /\ fresh' = [fresh EXCEPT ![s] = isFresh]
  /\ UNCHANGED <<after, seenTurn, seenReady, todo>>

\* Mutant: the revision the claimer names is not compared.
MutGrantable(s, c) ==
  /\ lease[c] # "active"
  /\ ClaimId(s, c) \notin processed
  /\ Live(c) /\ c \in ready
\* Mutant: an active claim does not stand in the way.
MutGrantableTwice(s, c) ==
  /\ Current(s)
  /\ ClaimId(s, c) \notin processed
  /\ Live(c) /\ c \in ready
Grantable(s, c) ==
  /\ lease[c] # "active"
  /\ Current(s)
  /\ ClaimId(s, c) \notin processed
  /\ Live(c) /\ c \in ready

ClaimGranted(s, c) ==
  /\ pc[s] = "idle"
  /\ Grantable(s, c)
  /\ Commit({ClaimId(s, c)})
  /\ disp' = [disp EXCEPT ![c] = "claimed"]
  /\ lease' = [lease EXCEPT ![c] = "active"]
  /\ holder' = [holder EXCEPT ![c] = s]
  /\ selected' = c
  /\ GoOn(s, c, TRUE)
  /\ UNCHANGED <<ready, bound, continuity, memory, faults>>
  /\ Outdate

\* Refused because the candidate ended or is not ready: the id is used up.
ClaimRefused(s, c) ==
  /\ pc[s] = "idle"
  /\ disp[c] # "absent"
  /\ lease[c] # "active"
  /\ Current(s)
  /\ ClaimId(s, c) \notin processed
  /\ ~Live(c) \/ c \notin ready
  /\ Commit({ClaimId(s, c)})
  /\ UNCHANGED <<content, continuity, handler, views, memory, faults>>

\* The claim is already there, or its event id is: a duplicate, not refused.
ClaimDuplicate(s, c) ==
  /\ pc[s] = "idle"
  /\ disp[c] # "absent"
  /\ IF lease[c] = "active" THEN holder[c] = s
     ELSE Current(s) /\ ClaimId(s, c) \in processed
  /\ GoOn(s, c, FALSE)
  /\ UNCHANGED <<resume, continuity, views, memory, faults>>

EndClaim(s) ==
  /\ Goto(s, "idle")
  /\ target' = [target EXCEPT ![s] = None]
  /\ fresh' = [fresh EXCEPT ![s] = FALSE]

\* queueResumeContinuation sends everything pending; `sent' did not throw.
\* The desktop's handler then polls for the receipt, the command does not.
Dispatch(s, sent, polls) ==
  /\ pc[s] = "dispatching"
  /\ LET c == target[s]
         box == IF outbox[c] = "none" /\ c \notin queued
                THEN [outbox EXCEPT ![c] = "pending"] ELSE outbox
         pending == {x \in Candidate : box[x] = "pending"}
     IN /\ sent \subseteq pending
        /\ IF sent = pending THEN UNCHANGED faults ELSE Fault
        /\ outbox' = [x \in Candidate |-> IF x \in sent THEN "attempted" ELSE box[x]]
        /\ queued' = IF outbox[c] = "none" THEN queued \cup {c} ELSE queued
        /\ IF sent = {}
           THEN /\ ~polls
                /\ IF fresh[s] THEN Goto(s, "releasing") /\ UNCHANGED <<target, fresh>>
                   ELSE EndClaim(s)
                /\ UNCHANGED memory
           ELSE /\ EndClaim(s)
                /\ binding' = [binding EXCEPT ![s] = c]
                /\ polls => poll[s] = None
                /\ poll' = [poll EXCEPT ![s] = IF polls THEN c ELSE @]
                /\ prior' = [prior EXCEPT ![s] = IF polls THEN binding[s] ELSE @]
  /\ UNCHANGED <<resume, turn, begun, receipts, noted, session, started, after,
                 seenTurn, seenReady, todo, views>>

GiveBack(s) ==
  /\ pc[s] = "releasing"
  /\ Release(s, target[s])
  /\ EndClaim(s)
  /\ UNCHANGED <<continuity, after, seenTurn, seenReady, todo,
                 memory, faults>>
  /\ Outdate

\* The poll sees a receipt, or it times out and reverts the claim.
Accepted(s) ==
  /\ pc[s] = "idle"
  /\ poll[s] \in receipts
  /\ poll' = [poll EXCEPT ![s] = None]
  /\ prior' = [prior EXCEPT ![s] = None]
  /\ UNCHANGED <<resume, continuity, handler, views, binding, faults>>

TimedOut(s) ==
  /\ pc[s] = "idle"
  /\ poll[s] # None
  /\ poll[s] \notin receipts
  /\ Release(s, poll[s])
  /\ poll' = [poll EXCEPT ![s] = None]
  /\ prior' = [prior EXCEPT ![s] = None]
  /\ binding' = [binding EXCEPT ![s] = IF @ = poll[s] THEN prior[s] ELSE @]
  /\ UNCHANGED <<continuity, handler, faults>>
  /\ Outdate

-----------------------------------------------------------------------------
\* The continuation's message is observed; a second message of it has the
\* id of the first.
MessageStart(c) ==
  /\ outbox[c] = "attempted"
  /\ c \notin noted
  /\ receipts' = receipts \cup {c}
  /\ noted' = noted \cup {c}
  /\ UNCHANGED <<resume, turn, begun, outbox, queued, session, started, handler,
                 views, memory, faults>>

\* The run it was part of ends well.
Consume(c) ==
  /\ outbox[c] = "attempted"
  /\ c \in receipts
  /\ outbox' = [outbox EXCEPT ![c] = "acknowledged"]
  /\ UNCHANGED <<resume, turn, begun, queued, receipts, noted, session, started,
                 handler, views, memory, faults>>

Quiet == \A c \in Candidate : outbox[c] \in {"none", "acknowledged"}

\* onAgentSettled of a root that only its resume candidate still holds:
\* completeSoleResumeCandidate, and with it the turn.
SettleResumed(s) ==
  /\ pc[s] = "idle"
  /\ LET c == binding[s]
     IN /\ c # None
        /\ turn = c
        /\ Live(c)
        /\ Quiet
        /\ CompletedId(c) \notin processed
        /\ Commit({CompletedId(c)})
        /\ disp' = [disp EXCEPT ![c] = "completed"]
        /\ lease' = EndLease(c, "consumed")
        /\ selected' = Unselect(c)
  /\ turn' = None
  /\ binding' = [binding EXCEPT ![s] = None]
  /\ UNCHANGED <<holder, ready, bound, begun, outbox, queued, receipts, noted,
                 session, started, handler, prior, poll, faults>>
  /\ Outdate

\* onAgentSettled of a root without one.
SettleTurn(s) ==
  /\ pc[s] = "idle"
  /\ turn # None
  /\ ~Live(turn)
  /\ Quiet
  /\ turn' = None
  /\ UNCHANGED <<resume, begun, outbox, queued, receipts, noted, session, started,
                 handler, views, memory, faults>>

-----------------------------------------------------------------------------
Crash(s) ==
  /\ pc[s] # "down"
  /\ Fault
  /\ Goto(s, "down")
  /\ binding' = [binding EXCEPT ![s] = None]
  /\ poll' = [poll EXCEPT ![s] = None]
  /\ prior' = [prior EXCEPT ![s] = None]
  /\ todo' = [todo EXCEPT ![s] = {}]
  /\ after' = [after EXCEPT ![s] = "idle"]
  /\ target' = [target EXCEPT ![s] = None]
  /\ fresh' = [fresh EXCEPT ![s] = FALSE]
  /\ seenTurn' = [seenTurn EXCEPT ![s] = None]
  /\ seenReady' = [seenReady EXCEPT ![s] = FALSE]
  /\ UNCHANGED <<resume, continuity, views>>

\* onSessionStart.  A start that finds another session's turn with a live
\* candidate leaves the revision alone (shouldPreserveResumeRevisionOnStartup).
Preserves(s) == session \notin {None, s} /\ turn # None /\ Live(turn)

Start(s, linked) ==
  /\ pc[s] = "down"
  /\ IF Preserves(s)
     THEN ~linked /\ Goto(s, "opening")
          /\ UNCHANGED <<after, target, fresh, seenTurn, seenReady, todo>>
     ELSE ReadFor(s, "opening", linked)
  /\ UNCHANGED <<resume, continuity, views, memory, faults>>

\* session_started of a new process: the first process finds nothing, another
\* session's continuations are dropped and its turn is only interrupted; a
\* second start of a session repeats the event id and changes nothing.
Open(s) ==
  /\ pc[s] = "opening"
  /\ Goto(s, "idle")
  /\ IF <<s, "startup">> \in started
     THEN UNCHANGED continuity
     ELSE /\ started' = started \cup {<<s, "startup">>}
          /\ session' = s
          /\ outbox' = IF session \in {None, s} THEN outbox
                       ELSE [x \in Candidate |-> "none"]
          /\ receipts' = IF session \in {None, s} THEN receipts ELSE {}
          /\ UNCHANGED <<turn, begun, queued, noted>>
  /\ UNCHANGED <<resume, after, target, fresh, seenTurn, seenReady, todo, views,
                 memory, faults>>

\* A reload is a new coordinator in the same process.
Reload(s, linked) ==
  /\ pc[s] = "idle"
  /\ Fault
  /\ ReadFor(s, "reopening", linked)
  /\ UNCHANGED <<resume, continuity, views, memory>>

\* session_started of a reload restores the turn with its sole candidate and
\* sends the unanswered continuations again.
Restore(s) ==
  /\ pc[s] = "reopening"
  /\ Goto(s, "idle")
  /\ IF <<s, "reload">> \in started
     THEN /\ binding' = [binding EXCEPT ![s] = None]
          /\ UNCHANGED continuity
     ELSE /\ started' = started \cup {<<s, "reload">>}
          /\ session' = s
          /\ binding' = [binding EXCEPT ![s] =
                           IF turn # None /\ Live(turn) THEN turn ELSE None]
          /\ outbox' = [c \in Candidate |->
                         IF outbox[c] = "pending" THEN "attempted" ELSE outbox[c]]
          /\ receipts' = {c \in receipts : outbox[c] = "acknowledged"}
          /\ UNCHANGED <<turn, begun, queued, noted>>
  /\ UNCHANGED <<resume, after, target, fresh, seenTurn, seenReady, todo, views,
                 prior, poll, faults>>

Process(s) ==
  \/ Inspect(s) \/ Reconcile(s) \/ ClearSession(s) \/ GiveBack(s) \/ Accepted(s) \/ TimedOut(s)
  \/ SettleResumed(s) \/ SettleTurn(s)
  \/ Crash(s) \/ Open(s) \/ Restore(s)
  \/ \E linked \in BOOLEAN : Start(s, linked) \/ Reload(s, linked)
  \/ \E next \in {"idle", "beginning", "clearing"}, linked \in BOOLEAN :
       StartHandler(s, next, linked)
  \/ \E c \in Candidate :
       \/ BeginTurn(s, c) \/ RetireAtReset(s, c)
       \/ Choose(s, c) \/ RetireByUser(s, c)
       \/ \E linked \in BOOLEAN : Rebind(s, c, linked)
       \/ ClaimGranted(s, c) \/ ClaimRefused(s, c) \/ ClaimDuplicate(s, c)
  \/ \E sent \in SUBSET Candidate, polls \in BOOLEAN : Dispatch(s, sent, polls)

Next ==
  \/ \E s \in Session : Process(s)
  \/ \E c \in Candidate : MessageStart(c) \/ Consume(c)

Spec == Init /\ [][Next]_vars
-----------------------------------------------------------------------------
TypeOK ==
  /\ revision \in Nat
  /\ selected \in Candidate \cup {None}
  /\ disp \in [Candidate -> Disposition]
  /\ lease \in [Candidate -> Lease]
  /\ holder \in [Candidate -> Session \cup {None}]
  /\ ready \subseteq Candidate
  /\ bound \subseteq Candidate
  /\ processed \subseteq EventId
  /\ turn \in Candidate \cup {None}
  /\ begun \subseteq Candidate
  /\ outbox \in [Candidate -> {"none", "pending", "attempted", "acknowledged"}]
  /\ queued \subseteq Candidate
  /\ receipts \subseteq Candidate
  /\ noted \subseteq Candidate
  /\ session \in Session \cup {None}
  /\ started \subseteq Session \X {"startup", "reload"}
  /\ pc \in [Session -> Step]
  /\ after \in [Session -> {"idle", "beginning", "clearing", "opening", "reopening"}]
  /\ target \in [Session -> Candidate \cup {None}]
  /\ fresh \in [Session -> BOOLEAN]
  /\ seenTurn \in [Session -> Candidate \cup {None}]
  /\ seenReady \in [Session -> BOOLEAN]
  /\ todo \in [Session -> SUBSET Candidate]
  /\ viewRevision \in [Session -> Nat]
  /\ changed \subseteq Session
  /\ binding \in [Session -> Candidate \cup {None}]
  /\ prior \in [Session -> Candidate \cup {None}]
  /\ poll \in [Session -> Candidate \cup {None}]
  /\ faults \in Nat

\* An active claim and its candidate agree: a claimed candidate has an active
\* claim, and an active claim is held by a session on a candidate that is in
\* the file and neither completed nor retired, through reconciliations on
\* stale reads, retirements, timeouts and restarts.
ClaimMatchesCandidate ==
  \A c \in Candidate :
    /\ disp[c] = "claimed" => lease[c] = "active"
    /\ lease[c] = "active" => holder[c] \in Session /\ disp[c] \in {"claimed", "selected"}

\* A claim is never taken over (candidate_claimed_elsewhere): from one claim
\* to another session's the candidate was unclaimed in between, and only the
\* holder's own release, completion or a retirement made it so.
ClaimNotStolen ==
  [][\A c \in Candidate :
       lease[c] = "active" =>
         \/ lease'[c] = "active" /\ holder'[c] = holder[c]
         \/ disp'[c] \in {"completed", "retired"}
         \/ ReleaseId(holder[c], c) \in processed' \ processed]_vars

\* A claim is granted on what its claimer saw: whatever else happened to the
\* candidates since the inspection, by any process, shows in the revision.
ClaimOnInspected ==
  [][\A s \in Session, c \in Candidate :
       ClaimId(s, c) \in processed' \ processed => s \notin changed]_vars

-----------------------------------------------------------------------------
\* The resume command reports "Claimed and dispatched": a handler dispatches
\* only for the claim its session then holds.
ClaimedAndDispatched ==
  [][\A s \in Session :
       pc[s] = "idle" /\ pc'[s] = "dispatching"
         => lease'[target'[s]] = "active" /\ holder'[target'[s]] = s]_vars
=============================================================================
