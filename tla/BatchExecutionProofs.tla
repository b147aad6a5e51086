------------------------- MODULE BatchExecutionProofs -------------------------
(***************************************************************************)
(* What holds of BatchExecution for any number of inputs, batches,         *)
(* requests and faults.                                                    *)
(***************************************************************************)
EXTENDS BatchExecution, FiniteSetTheorems, TLAPS

-----------------------------------------------------------------------------
\* What every write of runtime-status.json keeps, of a file d.  An execution
\* that may run, now or after a restart, without another look at its input.
Busy(d, l) ==
  \/ d.line[l].state \in InFlight
  \/ d.line[l].state = "pending" /\ d.line[l].mode = "parallel"

InputRecord == [status : {"absent", "queued", "deferred", "admitted",
                          "answered", "failed", "expired"},
                policy : Mode \cup {"none"},
                check : Checkpoint \cup {"none"}]
LineRecord == [mode : Mode \cup {"none"}, root : Request \cup {None},
               check : Checkpoint \cup {"none"},
               state : ExecutionState \cup {"none"},
               attempt : Nat]
RequestState == {"none", "open", "deferred", "answered", "stopped"}
Typed(d) ==
  /\ d.input \in [Input -> InputRecord]
  /\ d.request \in [Input -> RequestState]
  /\ d.line \in [Line -> LineRecord]
  /\ d.revision \in Nat

\* Only what was decided to run on its own has an execution.
Moded(d) ==
  \A l \in Line : d.line[l].state # "none" => d.line[l].mode \in {"parallel", "serial"}
\* It has its input to itself, and the policy of the input says so; that of a
\* serial execution may have become deferred by a later batch.
Held(d) ==
  \A l \in Line : Busy(d, l) =>
    /\ d.input[l[2]].status = "admitted" /\ d.request[l[2]] = "open"
    /\ d.input[l[2]].policy \in (IF d.line[l].mode = "parallel" THEN {"parallel"}
                                 ELSE {"serial", "deferred"})
    /\ \A k \in Line : k[2] = l[2] /\ Busy(d, k) => k = l
Waits(d) ==
  \A i \in Input : d.input[i].status = "deferred" =>
                     d.input[i].policy \in {"serial", "deferred"}
Owed(d) ==
  \A i \in Input :
    d.input[i].status = "admitted" /\ d.input[i].policy \in {"parallel", "serial"} =>
      \E b \in Batch : d.line[<<b, i>>].mode = d.input[i].policy /\ Busy(d, <<b, i>>)

Sound(d) == Typed(d) /\ Moded(d) /\ Held(d) /\ Waits(d) /\ Owed(d)

\* A set of executions that may be claimed together.
Claims(d, S) ==
  /\ S \subseteq Line
  /\ \A l \in S :
       /\ d.line[l].state = "pending"
       /\ d.line[l].mode = "serial" =>
            /\ d.input[l[2]].status = "deferred" /\ d.request[l[2]] = "deferred"
            /\ \A k \in S : k = l

\* The cardinality in QueuedOneByOne is a number.
LEMMA InputsCounted ==
  ASSUME NEW I \in SUBSET Input
  PROVE  Cardinality(I) \in Nat
<1>1. IsFiniteSet(Input)
  BY BoundsAssumption, FS_Interval DEF Input
<1>. QED  BY <1>1, FS_Subset, FS_CardinalityType

\* A claim: the executions are dispatching, once more, and a serial input is
\* admitted again.
LEMMA ClaimKeeps ==
  ASSUME NEW d, Sound(d), NEW S, Claims(d, S)
  PROVE  /\ Sound(Claim(d, S))
         /\ \A l \in Line :
              Claim(d, S).line[l] =
                IF l \notin S THEN d.line[l]
                ELSE [mode |-> d.line[l].mode, root |-> d.line[l].root,
                      check |-> d.line[l].check, state |-> "dispatching",
                      attempt |-> d.line[l].attempt + 1]
<1>. DEFINE Serial == {l \in S : d.line[l].mode = "serial"}
            e == Claim(d, S)
<1>1. \A l \in S : l \in Line /\ l[2] \in Input /\ d.line[l].mode \in {"parallel", "serial"}
  BY DEF Claims, Sound, Moded, Line
<1>2. /\ e.line = [l \in Line |->
                    IF l \notin S THEN d.line[l]
                    ELSE [mode |-> d.line[l].mode, root |-> d.line[l].root,
                          check |-> d.line[l].check, state |-> "dispatching",
                          attempt |-> d.line[l].attempt + 1]]
      /\ e.input = IF Serial = {} THEN d.input ELSE SetStatus(d.input, InputsOf(Serial), "admitted")
      /\ e.request = IF Serial = {} THEN d.request ELSE SetRequest(d.request, InputsOf(Serial), "open")
      /\ e.revision \in {d.revision, d.revision + 1}
  BY DEF Claim, Lines, Queued
<1>3. InputsOf(Serial) = {} \/ Serial # {}
  BY DEF InputsOf
<1>. HIDE DEF e
<1>4. \A l \in Line :
        /\ l \notin S => e.line[l] = d.line[l]
        /\ l \in S => /\ e.line[l].state = "dispatching" /\ e.line[l].mode = d.line[l].mode
                      /\ e.line[l].root = d.line[l].root /\ e.line[l].check = d.line[l].check
                      /\ e.line[l].attempt = d.line[l].attempt + 1
  BY <1>2
<1>5. \A i \in Input :
        /\ e.input[i].policy = d.input[i].policy /\ e.input[i].check = d.input[i].check
        /\ i \notin InputsOf(Serial) => /\ e.input[i].status = d.input[i].status
                                        /\ e.request[i] = d.request[i]
        /\ i \in InputsOf(Serial) => e.input[i].status = "admitted" /\ e.request[i] = "open"
  BY <1>2, <1>3 DEF SetStatus, SetRequest
<1>6. Typed(e)
  <2>1. e.line \in [Line -> LineRecord]
    BY <1>1, <1>2 DEF Sound, Typed, LineRecord, ExecutionState
  <2>2. e.input \in [Input -> InputRecord]
    BY <1>2 DEF Sound, Typed, InputRecord, SetStatus
  <2>3. e.request \in [Input -> RequestState]
    BY <1>2 DEF Sound, Typed, RequestState, SetRequest
  <2>. QED  BY <1>2, <2>1, <2>2, <2>3 DEF Sound, Typed
<1>7. Moded(e)
  BY <1>1, <1>4 DEF Moded, Sound
<1>8. \A l \in Line : Busy(e, l) <=> Busy(d, l) \/ l \in Serial
  BY <1>1, <1>4 DEF Busy, InFlight, Claims
<1>9. \A l \in Serial : \A k \in Line : Busy(d, k) => k[2] # l[2]
  BY DEF Claims, Sound, Held
<1>10. \A l \in Serial, k \in Serial : k = l
  BY DEF Claims
<1>11. \A i \in Input : i \in InputsOf(Serial) <=> \E l \in Serial : l[2] = i
  BY DEF InputsOf
<1>12. Held(e)
  <2>. SUFFICES ASSUME NEW l \in Line, Busy(e, l)
                PROVE  /\ e.input[l[2]].status = "admitted" /\ e.request[l[2]] = "open"
                       /\ e.input[l[2]].policy \in (IF e.line[l].mode = "parallel" THEN {"parallel"}
                                                    ELSE {"serial", "deferred"})
                       /\ \A k \in Line : k[2] = l[2] /\ Busy(e, k) => k = l
    BY DEF Held
  <2>0. l[2] \in Input /\ e.line[l].mode = d.line[l].mode
    BY <1>4 DEF Line
  <2>1. CASE l \in Serial
    <3>1. e.input[l[2]].status = "admitted" /\ e.request[l[2]] = "open"
      BY <1>5, <1>11, <2>0, <2>1
    <3>2. e.input[l[2]].policy \in {"serial", "deferred"} /\ e.line[l].mode = "serial"
      BY <1>5, <2>0, <2>1 DEF Claims, Sound, Waits
    <3>. QED  BY <1>8, <1>9, <1>10, <2>1, <3>1, <3>2
  <2>2. CASE l \notin Serial
    <3>1. Busy(d, l)
      BY <1>8, <2>2
    <3>2. l[2] \notin InputsOf(Serial)
      BY <1>9, <1>11, <2>0, <3>1
    <3>. QED  BY <1>5, <1>8, <1>9, <2>0, <2>2, <3>1, <3>2 DEF Sound, Held
  <2>. QED  BY <2>1, <2>2
<1>13. Waits(e)
  BY <1>5 DEF Waits, Sound
<1>14. Owed(e)
  <2>. SUFFICES ASSUME NEW i \in Input, e.input[i].status = "admitted",
                       e.input[i].policy \in {"parallel", "serial"}
                PROVE  \E b \in Batch : e.line[<<b, i>>].mode = e.input[i].policy /\ Busy(e, <<b, i>>)
    BY DEF Owed
  <2>1. CASE i \in InputsOf(Serial)
    <3>1. PICK l \in Serial : l[2] = i
      BY <1>11, <2>1
    <3>2. l \in Line /\ l = <<l[1], i>> /\ l[1] \in Batch
      BY <1>1, <3>1 DEF Line
    <3>3. d.input[i].policy = "serial"
      BY <1>5, <3>1 DEF Claims, Sound, Waits
    <3>4. e.line[l].mode = "serial" /\ Busy(e, l)
      BY <1>4, <1>8, <3>1, <3>2
    <3>. QED  BY <1>5, <3>2, <3>3, <3>4
  <2>2. CASE i \notin InputsOf(Serial)
    <3>1. PICK b \in Batch : d.line[<<b, i>>].mode = d.input[i].policy /\ Busy(d, <<b, i>>)
      BY <1>5, <2>2 DEF Sound, Owed
    <3>2. <<b, i>> \in Line
      BY DEF Line
    <3>3. e.line[<<b, i>>].mode = d.line[<<b, i>>].mode /\ Busy(e, <<b, i>>)
      BY <1>4, <1>8, <3>1, <3>2
    <3>. QED  BY <1>5, <3>1, <3>3
  <2>. QED  BY <2>1, <2>2
<1>. QED  BY <1>2, <1>6, <1>7, <1>12, <1>13, <1>14 DEF Sound, e

\* A write that begins no execution: every input it leaves admitted was, and
\* keeps what works on it, and every execution that stays busy keeps its input.
Narrows(d, e) ==
  /\ \A l \in Line :
       /\ e.line[l].mode = d.line[l].mode
       /\ e.line[l].state # "none" => d.line[l].state # "none"
       /\ Busy(e, l) => /\ Busy(d, l)
                        /\ e.input[l[2]].status = "admitted" /\ e.request[l[2]] = "open"
  /\ \A i \in Input :
       /\ e.input[i].status \in {"admitted", "deferred"} =>
            e.input[i].policy = d.input[i].policy
       /\ e.input[i].status = "deferred" =>
            d.input[i].status = "deferred" \/ d.input[i].policy \in {"serial", "deferred"}
       /\ e.input[i].status = "admitted" =>
            /\ d.input[i].status = "admitted"
            /\ \A l \in Line : l[2] = i /\ Busy(d, l) => Busy(e, l)

\* Whatever was sound stays so.
LEMMA NarrowsKeeps ==
  ASSUME NEW d, Sound(d), NEW e, Typed(e), Narrows(d, e)
  PROVE  Sound(e)
<1>1. Moded(e)
  BY DEF Moded, Narrows, Sound
<1>2. \A l \in Line : l[2] \in Input
  BY DEF Line
<1>3. Held(e)
  <2>. SUFFICES ASSUME NEW l \in Line, Busy(e, l)
                PROVE  /\ e.input[l[2]].status = "admitted" /\ e.request[l[2]] = "open"
                       /\ e.input[l[2]].policy \in (IF e.line[l].mode = "parallel" THEN {"parallel"}
                                                    ELSE {"serial", "deferred"})
                       /\ \A k \in Line : k[2] = l[2] /\ Busy(e, k) => k = l
    BY DEF Held
  <2>1. /\ Busy(d, l) /\ e.line[l].mode = d.line[l].mode
        /\ e.input[l[2]].status = "admitted" /\ e.request[l[2]] = "open"
    BY DEF Narrows
  <2>2. e.input[l[2]].policy = d.input[l[2]].policy
    BY <1>2, <2>1 DEF Narrows
  <2>3. \A k \in Line : k[2] = l[2] /\ Busy(e, k) => k = l
    BY <2>1 DEF Narrows, Sound, Held
  <2>4. d.input[l[2]].policy \in (IF d.line[l].mode = "parallel" THEN {"parallel"}
                                  ELSE {"serial", "deferred"})
    BY <2>1 DEF Sound, Held
  <2>. QED  BY <2>1, <2>2, <2>3, <2>4
<1>4. Waits(e)
  BY DEF Waits, Narrows, Sound
<1>5. Owed(e)
  <2>. SUFFICES ASSUME NEW i \in Input, e.input[i].status = "admitted",
                       e.input[i].policy \in {"parallel", "serial"}
                PROVE  \E b \in Batch : e.line[<<b, i>>].mode = e.input[i].policy /\ Busy(e, <<b, i>>)
    BY DEF Owed
  <2>1. /\ d.input[i].status = "admitted" /\ e.input[i].policy = d.input[i].policy
        /\ \A l \in Line : l[2] = i /\ Busy(d, l) => Busy(e, l)
    BY DEF Narrows
  <2>2. PICK b \in Batch : d.line[<<b, i>>].mode = d.input[i].policy /\ Busy(d, <<b, i>>)
    BY <2>1 DEF Sound, Owed
  <2>3. <<b, i>> \in Line /\ <<b, i>>[2] = i
    BY DEF Line
  <2>4. e.line[<<b, i>>].mode = d.line[<<b, i>>].mode /\ Busy(e, <<b, i>>)
    BY <2>1, <2>2, <2>3 DEF Narrows
  <2>. QED  BY <2>1, <2>2, <2>4
<1>. QED  BY <1>1, <1>3, <1>4, <1>5 DEF Sound

\* Two executions of one input are not busy at once.
LEMMA BusyAlone ==
  ASSUME NEW d, Sound(d), NEW l \in Line, Busy(d, l)
  PROVE  /\ l[2] \in Input /\ d.input[l[2]].status = "admitted" /\ d.request[l[2]] = "open"
         /\ d.line[l].mode = "parallel" => d.input[l[2]].policy = "parallel"
         /\ d.line[l].mode # "parallel" => d.input[l[2]].policy \in {"serial", "deferred"}
         /\ \A k \in Line : Busy(d, k) /\ k[2] = l[2] => k = l
BY DEF Sound, Held, Line

\* Moved, SetStatus and SetRequest, entry by entry.
LEMMA MovedFacts ==
  ASSUME NEW line \in [Line -> LineRecord], NEW S, NEW state \in ExecutionState
  PROVE  /\ Moved(line, S, state) \in [Line -> LineRecord]
         /\ \A l \in Line :
              /\ Moved(line, S, state)[l].mode = line[l].mode
              /\ Moved(line, S, state)[l].attempt = line[l].attempt
              /\ Moved(line, S, state)[l].state = IF l \in S THEN state ELSE line[l].state
              /\ l \notin S => Moved(line, S, state)[l] = line[l]
BY DEF Moved, LineRecord

Status == {"absent", "queued", "deferred", "admitted", "answered", "failed", "expired"}
\* The same of SetStatus.
LEMMA StatusFacts ==
  ASSUME NEW input \in [Input -> InputRecord], NEW I, NEW status \in Status
  PROVE  /\ SetStatus(input, I, status) \in [Input -> InputRecord]
         /\ \A i \in Input :
              /\ SetStatus(input, I, status)[i].policy = input[i].policy
              /\ SetStatus(input, I, status)[i].status = IF i \in I THEN status ELSE input[i].status
BY DEF SetStatus, InputRecord, Status

\* The same of SetRequest.
LEMMA RequestFacts ==
  ASSUME NEW request \in [Input -> RequestState], NEW J, NEW status \in RequestState
  PROVE  /\ SetRequest(request, J, status) \in [Input -> RequestState]
         /\ \A i \in Input :
              SetRequest(request, J, status)[i] = IF i \in J THEN status ELSE request[i]
BY DEF SetRequest

\* The parts of what Queued and QueuedOneByOne write.
LEMMA QueuedTyped ==
  ASSUME NEW d, Typed(d), NEW input \in [Input -> InputRecord],
         NEW request \in [Input -> RequestState], NEW line \in [Line -> LineRecord]
  PROVE  /\ Typed(Queued(d, input, request, line))
         /\ Typed(QueuedOneByOne(d, input, request, line))
         /\ Typed(Lines(d, line))
<1>1. Cardinality({i \in Input : input[i] # d.input[i]}) \in Nat
  BY InputsCounted
<1>. QED  BY <1>1 DEF Queued, QueuedOneByOne, Lines, Typed

\* A release: what is dispatching is pending again, a serial input deferred.
LEMMA ReleaseKeeps ==
  ASSUME NEW d, Sound(d), NEW S \in SUBSET Line
  PROVE  /\ Sound(Release(d, S))
         /\ \A l \in Line :
              /\ Release(d, S).line[l].mode = d.line[l].mode
              /\ Release(d, S).line[l].attempt = d.line[l].attempt
              /\ Release(d, S).line[l].state =
                   IF l \in S /\ d.line[l].state = "dispatching" THEN "pending"
                   ELSE d.line[l].state
              /\ ~(l \in S /\ d.line[l].state = "dispatching") =>
                   Release(d, S).line[l] = d.line[l]
<1>. DEFINE H == {l \in S : d.line[l].state = "dispatching"}
            Serial == {l \in H : d.line[l].mode = "serial"}
            e == Release(d, S)
<1>1. /\ e.line = Moved(d.line, H, "pending")
      /\ e.input = IF Serial = {} THEN d.input ELSE SetStatus(d.input, InputsOf(Serial), "deferred")
      /\ e.request = IF Serial = {} THEN d.request ELSE SetRequest(d.request, InputsOf(Serial), "deferred")
  BY DEF Release, Lines, Queued
<1>2. H \in SUBSET Line /\ Serial \subseteq H /\ InputsOf(Serial) \in SUBSET Input
  BY DEF InputsOf, Line
<1>3. \A i \in Input : i \in InputsOf(Serial) <=> \E l \in Serial : l[2] = i
  BY DEF InputsOf
<1>4. Serial = {} => InputsOf(Serial) = {}
  BY DEF InputsOf
<1>5. /\ \A l \in H : d.line[l].state = "dispatching"
      /\ \A l \in H : l \in Serial <=> d.line[l].mode = "serial"
      /\ \A l \in Line : l \in H <=> l \in S /\ d.line[l].state = "dispatching"
  OBVIOUS
<1>. HIDE DEF e, H, Serial
<1>6. /\ e.line \in [Line -> LineRecord]
      /\ \A l \in Line : /\ e.line[l].mode = d.line[l].mode
                         /\ e.line[l].attempt = d.line[l].attempt
                         /\ e.line[l].state = IF l \in H THEN "pending" ELSE d.line[l].state
                         /\ l \notin H => e.line[l] = d.line[l]
      /\ e.input \in [Input -> InputRecord]
      /\ \A i \in Input : /\ e.input[i].policy = d.input[i].policy
                          /\ e.input[i].status = IF i \in InputsOf(Serial) THEN "deferred"
                                                 ELSE d.input[i].status
      /\ e.request \in [Input -> RequestState]
      /\ \A i \in Input : e.request[i] = IF i \in InputsOf(Serial) THEN "deferred" ELSE d.request[i]
  <2>1. /\ "pending" \in ExecutionState /\ "deferred" \in RequestState /\ "deferred" \in Status
        /\ d.input \in [Input -> InputRecord] /\ d.request \in [Input -> RequestState]
        /\ d.line \in [Line -> LineRecord]
    BY DEF ExecutionState, RequestState, Status, Sound, Typed
  <2>2. /\ e.line \in [Line -> LineRecord]
        /\ \A l \in Line : /\ e.line[l].mode = d.line[l].mode
                           /\ e.line[l].attempt = d.line[l].attempt
                           /\ e.line[l].state = IF l \in H THEN "pending" ELSE d.line[l].state
                           /\ l \notin H => e.line[l] = d.line[l]
    BY <1>1, <2>1, MovedFacts
  <2>3. /\ e.input \in [Input -> InputRecord]
        /\ \A i \in Input : /\ e.input[i].policy = d.input[i].policy
                            /\ e.input[i].status = IF i \in InputsOf(Serial) THEN "deferred"
                                                   ELSE d.input[i].status
    BY <1>1, <1>4, <2>1, StatusFacts
  <2>4. /\ e.request \in [Input -> RequestState]
        /\ \A i \in Input : e.request[i] = IF i \in InputsOf(Serial) THEN "deferred" ELSE d.request[i]
    BY <1>1, <1>4, <2>1, RequestFacts
  <2>. QED  BY ONLY <2>2, <2>3, <2>4
<1>7. Typed(e)
  <2>1. e.revision \in Nat
    BY DEF e, Release, Lines, Queued, Sound, Typed
  <2>. QED  BY <1>6, <2>1 DEF Typed
<1>8. \A l \in Line : Busy(e, l) <=> Busy(d, l) /\ l \notin Serial
  <2>. SUFFICES ASSUME NEW l \in Line PROVE Busy(e, l) <=> Busy(d, l) /\ l \notin Serial
    OBVIOUS
  <2>1. e.line[l].mode = d.line[l].mode
        /\ e.line[l].state = IF l \in H THEN "pending" ELSE d.line[l].state
    BY <1>6
  <2>2. Serial \subseteq H /\ (l \in H => d.line[l].state = "dispatching")
    BY <1>2, <1>5
  <2>3. l \in H => (l \in Serial <=> d.line[l].mode = "serial")
    BY <1>5
  <2>4. l \in H => d.line[l].mode \in {"parallel", "serial"}
    BY <2>2 DEF Sound, Moded
  <2>. QED  BY <2>1, <2>2, <2>3, <2>4 DEF Busy, InFlight
<1>9. \A l \in Serial : l \in Line /\ Busy(d, l) /\ d.line[l].mode = "serial"
  BY <1>2, <1>5 DEF Busy, InFlight
<1>10. Narrows(d, e)
  <2>1. ASSUME NEW l \in Line, Busy(e, l)
        PROVE  e.input[l[2]].status = "admitted" /\ e.request[l[2]] = "open"
    <3>1. Busy(d, l) /\ l \notin Serial
      BY <1>8, <2>1
    <3>2. l[2] \in Input /\ l[2] \notin InputsOf(Serial)
      BY <1>3, <1>9, <3>1, BusyAlone
    <3>. QED  BY <1>6, <3>1, <3>2, BusyAlone
  <2>2. ASSUME NEW i \in Input, e.input[i].status = "deferred"
        PROVE  d.input[i].status = "deferred" \/ d.input[i].policy \in {"serial", "deferred"}
    <3>1. CASE i \in InputsOf(Serial)
      BY <1>3, <1>9, <3>1, BusyAlone
    <3>2. CASE i \notin InputsOf(Serial)
      BY <1>6, <2>2, <3>2
    <3>. QED  BY <3>1, <3>2
  <2>3. ASSUME NEW i \in Input, e.input[i].status = "admitted"
        PROVE  /\ d.input[i].status = "admitted"
               /\ \A l \in Line : l[2] = i /\ Busy(d, l) => Busy(e, l)
    <3>1. i \notin InputsOf(Serial)
      BY <1>6, <2>3
    <3>. QED  BY <1>3, <1>6, <1>8, <2>3, <3>1
  <2>4. \A l \in Line : /\ e.line[l].mode = d.line[l].mode
                        /\ e.line[l].state # "none" => d.line[l].state # "none"
                        /\ Busy(e, l) => Busy(d, l)
    BY <1>5, <1>6, <1>8
  <2>. QED  BY <1>6, <2>1, <2>2, <2>3, <2>4 DEF Narrows
<1>11. Sound(e)
  BY <1>7, <1>10, NarrowsKeeps
<1>12. e = Release(d, S)
  BY DEF e
<1>. QED  BY <1>5, <1>6, <1>11, <1>12

\* Executions come to an end, or none does, and their inputs with them.
LEMMA EndKeeps ==
  ASSUME NEW d, Sound(d), NEW S \in SUBSET Line,
         \A l \in S : d.line[l].state \in InFlight \cup {"pending"},
         NEW state \in {"completed", "failed", "cancelled"},
         NEW I \in SUBSET Input, InputsOf(S) \subseteq I,
         \A l \in Line : l \notin S /\ Busy(d, l) => l[2] \notin I,
         NEW status \in {"answered", "failed", "expired"},
         NEW J \in SUBSET Input,
         \A l \in Line : l \notin S /\ Busy(d, l) => l[2] \notin J,
         NEW request \in RequestState, NEW e, Typed(e),
         e.input = SetStatus(d.input, I, status),
         e.request = SetRequest(d.request, J, request),
         e.line = Moved(d.line, S, state)
  PROVE  Sound(e)
<1>1. state \in ExecutionState /\ Typed(d)
  BY DEF ExecutionState, Sound
<1>2. /\ \A l \in Line : /\ e.line[l].mode = d.line[l].mode
                         /\ e.line[l].state = IF l \in S THEN state ELSE d.line[l].state
      /\ \A i \in Input : /\ e.input[i].policy = d.input[i].policy
                          /\ e.input[i].status = IF i \in I THEN status ELSE d.input[i].status
      /\ \A i \in Input : e.request[i] = IF i \in J THEN request ELSE d.request[i]
  <2>1. /\ status \in Status
        /\ d.input \in [Input -> InputRecord] /\ d.request \in [Input -> RequestState]
        /\ d.line \in [Line -> LineRecord]
    BY DEF Status, Sound, Typed
  <2>2. \A l \in Line : /\ e.line[l].mode = d.line[l].mode
                       /\ e.line[l].state = IF l \in S THEN state ELSE d.line[l].state
    BY <1>1, <2>1, MovedFacts
  <2>3. \A i \in Input : /\ e.input[i].policy = d.input[i].policy
                        /\ e.input[i].status = IF i \in I THEN status ELSE d.input[i].status
    BY <2>1, StatusFacts
  <2>4. \A i \in Input : e.request[i] = IF i \in J THEN request ELSE d.request[i]
    BY <2>1, RequestFacts
  <2>. QED  BY ONLY <2>2, <2>3, <2>4
<1>3. \A l \in Line : Busy(e, l) <=> Busy(d, l) /\ l \notin S
  BY <1>2 DEF Busy, InFlight
<1>4. Narrows(d, e)
  <2>1. ASSUME NEW l \in Line, Busy(e, l)
        PROVE  e.input[l[2]].status = "admitted" /\ e.request[l[2]] = "open"
    BY <1>2, <1>3, <2>1, BusyAlone
  <2>2. \A l \in S : l[2] \in I
    BY DEF InputsOf
  <2>3. ASSUME NEW i \in Input, e.input[i].status = "admitted"
        PROVE  /\ d.input[i].status = "admitted"
               /\ \A l \in Line : l[2] = i /\ Busy(d, l) => Busy(e, l)
    BY <1>2, <1>3, <2>2, <2>3
  <2>4. \A l \in Line : e.line[l].state # "none" => d.line[l].state # "none"
    BY <1>2 DEF InFlight
  <2>5. \A i \in Input : e.input[i].status = "deferred" => d.input[i].status = "deferred"
    BY <1>2
  <2>. QED  BY <1>2, <1>3, <2>1, <2>3, <2>4, <2>5 DEF Narrows
<1>. QED  BY <1>4, NarrowsKeeps

\* A settlement ends what runs under the claims of the message, or nothing.
LEMMA SettleKeeps ==
  ASSUME NEW d, Sound(d), NEW m, NEW S, DOMAIN m.claims \subseteq Line,
         NEW outcome \in {"completed", "failed"}
  PROVE  /\ Sound(Settle(d, m, S, outcome))
         /\ \A l \in Line :
              /\ Settle(d, m, S, outcome).line[l].mode = d.line[l].mode
              /\ Settle(d, m, S, outcome).line[l].attempt = d.line[l].attempt
              /\ \/ Settle(d, m, S, outcome).line[l] = d.line[l]
                 \/ /\ d.line[l].state = "running"
                    /\ Settle(d, m, S, outcome).line[l].state = outcome
<1>. DEFINE R == Of(d, m, S, "running")
            e == Settle(d, m, S, outcome)
            status == IF outcome = "completed" THEN "answered" ELSE "failed"
            request == IF outcome = "completed" THEN "answered" ELSE "stopped"
<1>1. R \in SUBSET Line /\ \A l \in R : d.line[l].state = "running"
  BY DEF Of
<1>2. CASE R = {}
  BY <1>2 DEF Settle, Sound
<1>3. CASE R # {}
  <2>1. e = QueuedOneByOne(d, SetStatus(d.input, InputsOf(R), status),
                           SetRequest(d.request, InputsOf(R), request),
                           Moved(d.line, R, outcome))
    BY <1>3 DEF Settle
  <2>2. /\ status \in {"answered", "failed"} /\ request \in RequestState
        /\ outcome \in ExecutionState /\ InputsOf(R) \in SUBSET Input /\ Typed(d)
    BY <1>1 DEF RequestState, ExecutionState, InputsOf, Line, Sound
  <2>3. /\ status \in Status
        /\ d.input \in [Input -> InputRecord] /\ d.request \in [Input -> RequestState]
        /\ d.line \in [Line -> LineRecord]
    BY <2>2 DEF Status, Typed
  <2>. HIDE DEF R, status, request, e
  <2>4. /\ e.input = SetStatus(d.input, InputsOf(R), status)
        /\ e.request = SetRequest(d.request, InputsOf(R), request)
        /\ e.line = Moved(d.line, R, outcome)
    BY <2>1 DEF QueuedOneByOne
  <2>5. /\ SetStatus(d.input, InputsOf(R), status) \in [Input -> InputRecord]
        /\ SetRequest(d.request, InputsOf(R), request) \in [Input -> RequestState]
        /\ Moved(d.line, R, outcome) \in [Line -> LineRecord]
        /\ \A l \in Line : /\ e.line[l].mode = d.line[l].mode
                           /\ e.line[l].attempt = d.line[l].attempt
                           /\ e.line[l].state = IF l \in R THEN outcome ELSE d.line[l].state
                           /\ l \notin R => e.line[l] = d.line[l]
    <3>1. SetStatus(d.input, InputsOf(R), status) \in [Input -> InputRecord]
      BY <2>3, StatusFacts
    <3>2. SetRequest(d.request, InputsOf(R), request) \in [Input -> RequestState]
      BY <2>2, <2>3, RequestFacts
    <3>3. /\ Moved(d.line, R, outcome) \in [Line -> LineRecord]
          /\ \A l \in Line : /\ e.line[l].mode = d.line[l].mode
                             /\ e.line[l].attempt = d.line[l].attempt
                             /\ e.line[l].state = IF l \in R THEN outcome ELSE d.line[l].state
                             /\ l \notin R => e.line[l] = d.line[l]
      BY <2>2, <2>3, <2>4, MovedFacts
    <3>. QED  BY ONLY <3>1, <3>2, <3>3
  <2>6. Typed(e)
    BY <2>1, <2>2, <2>5, QueuedTyped
  <2>7. \A l \in Line : l \notin R /\ Busy(d, l) => l[2] \notin InputsOf(R)
    <3>1. \A k \in R : Busy(d, k)
      BY <1>1 DEF Busy, InFlight
    <3>. QED  BY <1>1, <3>1, BusyAlone DEF InputsOf
  <2>8. Sound(e)
    BY <1>1, <2>2, <2>4, <2>6, <2>7, EndKeeps DEF InFlight
  <2>9. \A l \in Line : e.line[l] = d.line[l] \/ (d.line[l].state = "running" /\ e.line[l].state = outcome)
    BY <1>1, <2>5
  <2>10. e = Settle(d, m, S, outcome)
    BY DEF e
  <2>. QED  BY <2>5, <2>8, <2>9, <2>10
<1>. QED  BY <1>2, <1>3

\* What is dispatching is accepted, or what is accepted runs, or both at once.
LEMMA MoveKeeps ==
  ASSUME NEW d, Sound(d), NEW S, NEW state \in {"accepted", "running"},
         \A l \in S : d.line[l].state \in InFlight
  PROVE  Sound(Lines(d, Moved(d.line, S, state)))
<1>. DEFINE e == Lines(d, Moved(d.line, S, state))
<1>1. /\ e.line = Moved(d.line, S, state) /\ e.input = d.input /\ e.request = d.request
      /\ e.revision = d.revision
  BY DEF Lines
<1>2. /\ state \in ExecutionState /\ d.line \in [Line -> LineRecord]
  BY DEF ExecutionState, Sound, Typed
<1>. HIDE DEF e
<1>3. /\ Moved(d.line, S, state) \in [Line -> LineRecord]
      /\ \A l \in Line :
           /\ Moved(d.line, S, state)[l].mode = d.line[l].mode
           /\ Moved(d.line, S, state)[l].attempt = d.line[l].attempt
           /\ Moved(d.line, S, state)[l].state = IF l \in S THEN state ELSE d.line[l].state
           /\ l \notin S => Moved(d.line, S, state)[l] = d.line[l]
  BY <1>2, MovedFacts
<1>4. Typed(e)
  BY <1>1, <1>3 DEF Sound, Typed
<1>5. \A l \in Line : /\ e.line[l].mode = d.line[l].mode
                      /\ e.line[l].state = IF l \in S THEN state ELSE d.line[l].state
  BY <1>1, <1>3
<1>6. \A l \in Line : Busy(e, l) <=> Busy(d, l)
  BY <1>5 DEF Busy, InFlight
<1>7. \A l \in Line : e.line[l].state # "none" => d.line[l].state # "none"
  BY <1>5 DEF InFlight
<1>8. Narrows(d, e)
  BY <1>1, <1>5, <1>6, <1>7, BusyAlone DEF Narrows
<1>9. Sound(e)
  BY <1>4, <1>8, NarrowsKeeps
<1>. QED  BY <1>9 DEF e

\* A claim whose message was posted, refused or lost.
LEMMA DispatchKeeps ==
  ASSUME NEW d, Sound(d), NEW S, Claims(d, S), NEW outcome \in Outcome
  PROVE  /\ Sound(Dispatched(d, S, outcome))
         /\ \A l \in Line :
              /\ l \notin S => Dispatched(d, S, outcome).line[l] = d.line[l]
              /\ l \in S =>
                   /\ d.line[l].state = "pending"
                   /\ Dispatched(d, S, outcome).line[l].mode = d.line[l].mode
                   /\ Dispatched(d, S, outcome).line[l].attempt = d.line[l].attempt + 1
                   /\ Dispatched(d, S, outcome).line[l].state =
                        IF outcome = "refused" THEN "pending" ELSE "dispatching"
<1>. DEFINE c == Claim(d, S)
            e == Dispatched(d, S, outcome)
<1>1. S \in SUBSET Line /\ \A l \in S : d.line[l].state = "pending"
  BY DEF Claims
<1>2. /\ Sound(c)
      /\ \A l \in Line : /\ l \notin S => c.line[l] = d.line[l]
                         /\ l \in S => /\ c.line[l].mode = d.line[l].mode
                                       /\ c.line[l].attempt = d.line[l].attempt + 1
                                       /\ c.line[l].state = "dispatching"
  <2>1. /\ Sound(c)
        /\ \A l \in Line :
             c.line[l] = IF l \notin S THEN d.line[l]
                         ELSE [mode |-> d.line[l].mode, root |-> d.line[l].root,
                               check |-> d.line[l].check, state |-> "dispatching",
                               attempt |-> d.line[l].attempt + 1]
    BY ONLY Sound(d), Claims(d, S), ClaimKeeps
  <2>. HIDE DEF c
  <2>2. ASSUME NEW l \in Line
        PROVE  /\ l \notin S => c.line[l] = d.line[l]
               /\ l \in S => /\ c.line[l].mode = d.line[l].mode
                             /\ c.line[l].attempt = d.line[l].attempt + 1
                             /\ c.line[l].state = "dispatching"
    <3>1. l \notin S => c.line[l] = d.line[l]
      BY <2>1
    <3>2. l \in S =>
            c.line[l] = [mode |-> d.line[l].mode, root |-> d.line[l].root,
                         check |-> d.line[l].check, state |-> "dispatching",
                         attempt |-> d.line[l].attempt + 1]
      BY <2>1
    <3>. QED  BY ONLY <3>1, <3>2
  <2>. QED  BY <2>1, <2>2
<1>3. /\ Sound(Release(c, S))
      /\ \A l \in Line :
           /\ l \notin S => Release(c, S).line[l] = c.line[l]
           /\ l \in S /\ c.line[l].state = "dispatching" =>
                /\ Release(c, S).line[l].mode = c.line[l].mode
                /\ Release(c, S).line[l].attempt = c.line[l].attempt
                /\ Release(c, S).line[l].state = "pending"
  <2>. HIDE DEF c
  <2>. QED  BY <1>1, <1>2, ReleaseKeeps
<1>4. e = IF S = {} THEN d ELSE IF outcome = "refused" THEN Release(c, S) ELSE c
  BY DEF Dispatched
<1>. HIDE DEF c, e
<1>5. CASE S = {}
  BY <1>4, <1>5 DEF e
<1>6. CASE S # {} /\ outcome = "refused"
  BY <1>1, <1>2, <1>3, <1>4, <1>6 DEF e
<1>7. CASE S # {} /\ outcome # "refused"
  BY <1>1, <1>2, <1>4, <1>7 DEF e
<1>. QED  BY <1>5, <1>6, <1>7

\* What dispatchReady finds may be claimed.
LEMMA ReadyClaims ==
  ASSUME NEW d, Sound(d)
  PROVE  /\ \A B \in SUBSET Batch : Claims(d, ReadyParallel(d, B))
         /\ \A rt, settled, check : \A S \in SerialDispatches(d, rt, settled, check) :
              Claims(d, S)
<1>1. \A B \in SUBSET Batch : Claims(d, ReadyParallel(d, B))
  BY DEF Claims, ReadyParallel, Line
<1>2. ASSUME NEW rt, NEW settled, NEW check, NEW S \in SerialDispatches(d, rt, settled, check)
      PROVE  Claims(d, S)
  <2>1. CASE S = {}
    BY <2>1 DEF Claims
  <2>2. CASE S # {}
    <3>1. PICK l \in ReadySerial(d, settled, check) :
            S = {k \in {l} : Claimable(d, rt, k, settled, check)}
      BY <2>2 DEF SerialDispatches
    <3>2. l \in Line /\ S = {l} /\ Claimable(d, rt, l, settled, check)
      BY <2>2, <3>1 DEF ReadySerial
    <3>. QED  BY <3>2 DEF Claims, Claimable
  <2>. QED  BY <2>1, <2>2
<1>. QED  BY <1>1, <1>2

\* The copy of the continuity and a new input leave what executes alone.
LEMMA CopyKeeps ==
  ASSUME NEW d, Sound(d)
  PROVE  Sound(ContinuityCopied(d)) /\ ContinuityCopied(d).line = d.line
<1>. DEFINE e == ContinuityCopied(d)
<1>1. e.line = d.line /\ e.input = d.input /\ e.request = d.request /\ e.revision = 0
  BY DEF ContinuityCopied
<1>. HIDE DEF e
<1>2. Typed(e)
  BY <1>1 DEF Sound, Typed
<1>3. \A l : Busy(e, l) <=> Busy(d, l)
  BY <1>1 DEF Busy
<1>4. Narrows(d, e)
  BY <1>1, <1>3, BusyAlone DEF Narrows
<1>5. Sound(e)
  BY <1>2, <1>4, NarrowsKeeps
<1>. QED  BY <1>1, <1>5 DEF e

\* The record of a new input: it had no execution before.
LEMMA RecordKeeps ==
  ASSUME NEW d, Sound(d), NEW i \in Input, d.input[i].status = "absent"
  PROVE  Sound(Recorded(d, i)) /\ Recorded(d, i).line = d.line
<1>. DEFINE e == Recorded(d, i)
            r == [status |-> "queued", policy |-> "none", check |-> "none"]
<1>1. /\ e.line = d.line /\ e.input = [d.input EXCEPT ![i] = r]
      /\ e.request = SetRequest(d.request, {i}, "open")
      /\ e.revision \in {d.revision, d.revision + 1}
  BY DEF Recorded, Queued
<1>2. r \in InputRecord /\ "open" \in RequestState /\ Typed(d)
      /\ d.request \in [Input -> RequestState]
  BY DEF InputRecord, RequestState, Sound, Typed
<1>3. r.status = "queued"
  OBVIOUS
<1>. HIDE DEF e, r
<1>4. /\ e.input[i] = r /\ e.request[i] = "open"
      /\ \A j \in Input : j # i => e.input[j] = d.input[j] /\ e.request[j] = d.request[j]
  BY <1>1, <1>2, RequestFacts DEF Typed
<1>5. Typed(e)
  <2>1. e.request \in [Input -> RequestState]
    BY <1>1, <1>2, RequestFacts
  <2>2. e.input \in [Input -> InputRecord] /\ e.line \in [Line -> LineRecord]
    BY <1>1, <1>2 DEF Typed
  <2>3. e.revision \in Nat
    BY <1>1, <1>2 DEF Typed
  <2>. QED  BY <2>1, <2>2, <2>3 DEF Typed
<1>6. \A l : Busy(e, l) <=> Busy(d, l)
  BY <1>1 DEF Busy
<1>7. \A l \in Line : Busy(d, l) => l[2] \in Input /\ l[2] # i
  BY BusyAlone
<1>8. Narrows(d, e)
  <2>1. ASSUME NEW l \in Line, Busy(e, l)
        PROVE  Busy(d, l) /\ e.input[l[2]].status = "admitted" /\ e.request[l[2]] = "open"
    BY <1>4, <1>6, <1>7, <2>1, BusyAlone
  <2>2. ASSUME NEW j \in Input, e.input[j].status \in {"admitted", "deferred"}
        PROVE  /\ e.input[j] = d.input[j]
               /\ \A l \in Line : l[2] = j /\ Busy(d, l) => Busy(e, l)
    BY <1>3, <1>4, <1>6, <2>2
  <2>. QED  BY <1>1, <2>1, <2>2 DEF Narrows
<1>9. Sound(e)
  BY <1>5, <1>8, NarrowsKeeps
<1>. QED  BY <1>1, <1>9 DEF e

\* A session that is retired: nothing is busy after it.
LEMMA RetireKeeps ==
  ASSUME NEW d, Sound(d)
  PROVE  /\ Sound(Retired(d))
         /\ \A l \in Line :
              IF d.line[l].state \in Live
              THEN /\ Retired(d).line[l].mode = d.line[l].mode
                   /\ Retired(d).line[l].attempt = d.line[l].attempt
                   /\ Retired(d).line[l].state = "cancelled"
              ELSE Retired(d).line[l] = d.line[l]
<1>. DEFINE Open == {l \in Line : d.line[l].state \in Live}
            I == {i \in Input : d.input[i].status \in {"queued", "deferred"}} \cup InputsOf(Open)
            J == {i \in Input : d.request[i] = "open"} \cup InputsOf(Open)
            e == Retired(d)
<1>1. e = Queued(d, SetStatus(d.input, I, "expired"), SetRequest(d.request, J, "stopped"),
                 Moved(d.line, Open, "cancelled"))
  BY DEF Retired
<1>2. /\ Open \in SUBSET Line /\ I \in SUBSET Input /\ J \in SUBSET Input
      /\ InputsOf(Open) \subseteq I
      /\ \A l \in Line : l \in Open <=> d.line[l].state \in Live
  BY DEF InputsOf, Line
<1>3. \A l \in Open : d.line[l].state \in InFlight \cup {"pending"}
  BY DEF Live, InFlight
<1>4. \A l \in Line : Busy(d, l) => l \in Open
  BY DEF Busy, Live, InFlight
<1>. HIDE DEF Open, I, J, e
<1>5. /\ e.input = SetStatus(d.input, I, "expired")
      /\ e.request = SetRequest(d.request, J, "stopped")
      /\ e.line = Moved(d.line, Open, "cancelled")
  BY <1>1 DEF Queued
<1>6. /\ d.input \in [Input -> InputRecord] /\ d.request \in [Input -> RequestState]
      /\ d.line \in [Line -> LineRecord] /\ "expired" \in Status
      /\ "stopped" \in RequestState /\ "cancelled" \in ExecutionState /\ Typed(d)
  BY DEF Sound, Typed, Status, RequestState, ExecutionState
<1>7. /\ Moved(d.line, Open, "cancelled") \in [Line -> LineRecord]
      /\ \A l \in Line : /\ e.line[l].mode = d.line[l].mode
                         /\ e.line[l].attempt = d.line[l].attempt
                         /\ e.line[l].state = IF l \in Open THEN "cancelled" ELSE d.line[l].state
                         /\ l \notin Open => e.line[l] = d.line[l]
  BY <1>5, <1>6, MovedFacts
<1>8. Typed(e)
  <2>1. SetStatus(d.input, I, "expired") \in [Input -> InputRecord]
    BY <1>6, StatusFacts
  <2>2. SetRequest(d.request, J, "stopped") \in [Input -> RequestState]
    BY <1>6, RequestFacts
  <2>. QED  BY <1>1, <1>6, <1>7, <2>1, <2>2, QueuedTyped
<1>9. Sound(e)
  BY <1>2, <1>3, <1>4, <1>5, <1>6, <1>8, EndKeeps
<1>. QED  BY <1>2, <1>7, <1>9 DEF e

\* A restart of the session: what a message was accepted for has failed, a claim
\* that is over is released.
LEMMA RecoverKeeps ==
  ASSUME Sound(db), NEW expired \in SUBSET Line
  PROVE  /\ Sound(Recovered(expired))
         /\ \A l \in Line :
              \/ Recovered(expired).line[l] = db.line[l]
              \/ /\ Recovered(expired).line[l].mode = db.line[l].mode
                 /\ Recovered(expired).line[l].attempt = db.line[l].attempt
                 /\ \/ /\ db.line[l].state \in {"accepted", "running"}
                       /\ Recovered(expired).line[l].state = "failed"
                    \/ /\ db.line[l].state = "dispatching"
                       /\ Recovered(expired).line[l].state = "pending"
<1>. DEFINE R == {l \in Line : db.line[l].state \in {"accepted", "running"}}
            c == ContinuityCopied(db)
            d == IF R = {} THEN c
                 ELSE QueuedOneByOne(c, SetStatus(db.input, InputsOf(R), "failed"),
                                     SetRequest(db.request, InputsOf(R), "stopped"),
                                     Moved(db.line, R, "failed"))
            e == Recovered(expired)
<1>1. e = Release(d, expired)
  BY DEF Recovered
<1>2. c.input = db.input /\ c.request = db.request /\ c.line = db.line
  BY DEF ContinuityCopied
<1>3. Sound(c)
  BY CopyKeeps
<1>4. R \in SUBSET Line /\ \A l \in Line : l \in R <=> db.line[l].state \in {"accepted", "running"}
  OBVIOUS
<1>. HIDE DEF R, c
<1>5. /\ Sound(d)
      /\ \A l \in Line : /\ l \notin R => d.line[l] = db.line[l]
                         /\ l \in R => /\ d.line[l].mode = db.line[l].mode
                                       /\ d.line[l].attempt = db.line[l].attempt
                                       /\ d.line[l].state = "failed"
  <2>1. CASE R = {}
    BY <1>2, <1>3, <2>1
  <2>2. CASE R # {}
    <3>1. d = QueuedOneByOne(c, SetStatus(db.input, InputsOf(R), "failed"),
                             SetRequest(db.request, InputsOf(R), "stopped"),
                             Moved(db.line, R, "failed"))
      BY <2>2
    <3>. HIDE DEF d
    <3>2. /\ c.input \in [Input -> InputRecord] /\ c.request \in [Input -> RequestState]
          /\ c.line \in [Line -> LineRecord] /\ "failed" \in Status
          /\ "stopped" \in RequestState /\ "failed" \in ExecutionState /\ Typed(c)
          /\ InputsOf(R) \in SUBSET Input
      BY <1>3, <1>4 DEF Sound, Typed, Status, RequestState, ExecutionState, InputsOf, Line
    <3>3. /\ Moved(c.line, R, "failed") \in [Line -> LineRecord]
          /\ \A l \in Line : /\ Moved(c.line, R, "failed")[l].mode = c.line[l].mode
                             /\ Moved(c.line, R, "failed")[l].attempt = c.line[l].attempt
                             /\ Moved(c.line, R, "failed")[l].state =
                                  IF l \in R THEN "failed" ELSE c.line[l].state
                             /\ l \notin R => Moved(c.line, R, "failed")[l] = c.line[l]
      BY <3>2, MovedFacts
    <3>4. /\ d.input = SetStatus(c.input, InputsOf(R), "failed")
          /\ d.request = SetRequest(c.request, InputsOf(R), "stopped")
          /\ d.line = Moved(c.line, R, "failed")
      BY <1>2, <3>1 DEF QueuedOneByOne
    <3>5. Typed(d)
      <4>1. SetStatus(c.input, InputsOf(R), "failed") \in [Input -> InputRecord]
        BY <3>2, StatusFacts
      <4>2. SetRequest(c.request, InputsOf(R), "stopped") \in [Input -> RequestState]
        BY <3>2, RequestFacts
      <4>. QED  BY <1>2, <3>1, <3>2, <3>3, <4>1, <4>2, QueuedTyped
    <3>6. \A l \in R : Busy(c, l) /\ c.line[l].state \in InFlight \cup {"pending"}
      BY <1>2, <1>4 DEF Busy, InFlight
    <3>7. \A l \in Line : l \notin R /\ Busy(c, l) => l[2] \notin InputsOf(R)
      BY <1>3, <1>4, <3>6, BusyAlone DEF InputsOf
    <3>8. Sound(d)
      BY <1>3, <1>4, <3>2, <3>4, <3>5, <3>6, <3>7, EndKeeps
    <3>. QED  BY <1>2, <3>3, <3>4, <3>8
  <2>. QED  BY <2>1, <2>2
<1>. HIDE DEF d, e
<1>6. /\ Sound(e)
      /\ \A l \in Line :
           /\ e.line[l].mode = d.line[l].mode
           /\ e.line[l].attempt = d.line[l].attempt
           /\ e.line[l].state = IF l \in expired /\ d.line[l].state = "dispatching"
                                THEN "pending" ELSE d.line[l].state
           /\ ~(l \in expired /\ d.line[l].state = "dispatching") => e.line[l] = d.line[l]
  BY <1>1, <1>5, ReleaseKeeps
<1>7. ASSUME NEW l \in Line
      PROVE  \/ e.line[l] = db.line[l]
             \/ /\ e.line[l].mode = db.line[l].mode
                /\ e.line[l].attempt = db.line[l].attempt
                /\ \/ /\ db.line[l].state \in {"accepted", "running"}
                      /\ e.line[l].state = "failed"
                   \/ /\ db.line[l].state = "dispatching"
                      /\ e.line[l].state = "pending"
  <2>1. CASE l \in R
    <3>1. d.line[l].state = "failed"
      BY <1>5, <2>1
    <3>. QED  BY <1>4, <1>5, <1>6, <2>1, <3>1
  <2>2. CASE l \notin R
    BY <1>5, <1>6, <2>2
  <2>. QED  BY <2>1, <2>2
<1>. QED  BY <1>6, <1>7 DEF e

\* An answer or a reopened request of inputs that nothing busy works on.
LEMMA AnswerKeeps ==
  ASSUME NEW d, Sound(d), NEW I \in SUBSET Input, NEW J \in SUBSET Input,
         \A i \in I : d.input[i].policy \notin {"parallel", "serial", "deferred"},
         J \subseteq I
  PROVE  LET e == QueuedOneByOne(d, SetStatus(d.input, I, "answered"),
                                 SetRequest(d.request, J, "answered"), d.line)
         IN Sound(e) /\ e.line = d.line
<1>. DEFINE e == QueuedOneByOne(d, SetStatus(d.input, I, "answered"),
                                SetRequest(d.request, J, "answered"), d.line)
<1>1. /\ e.input = SetStatus(d.input, I, "answered")
      /\ e.request = SetRequest(d.request, J, "answered") /\ e.line = d.line
  BY DEF QueuedOneByOne
<1>2. /\ d.input \in [Input -> InputRecord] /\ d.request \in [Input -> RequestState]
      /\ d.line \in [Line -> LineRecord] /\ "answered" \in Status
      /\ "answered" \in RequestState /\ Typed(d)
  BY DEF Sound, Typed, Status, RequestState
<1>3. /\ SetStatus(d.input, I, "answered") \in [Input -> InputRecord]
      /\ \A i \in Input :
           /\ SetStatus(d.input, I, "answered")[i].policy = d.input[i].policy
           /\ SetStatus(d.input, I, "answered")[i].status =
                IF i \in I THEN "answered" ELSE d.input[i].status
  BY <1>2, StatusFacts
<1>4. /\ SetRequest(d.request, J, "answered") \in [Input -> RequestState]
      /\ \A i \in Input : SetRequest(d.request, J, "answered")[i] =
                            IF i \in J THEN "answered" ELSE d.request[i]
  BY <1>2, RequestFacts
<1>5. Typed(e)
  BY <1>2, <1>3, <1>4, QueuedTyped
<1>. HIDE DEF e
<1>6. \A l : Busy(e, l) <=> Busy(d, l)
  BY <1>1 DEF Busy
<1>7. \A l \in Line : Busy(d, l) => l[2] \in Input /\ l[2] \notin I /\ l[2] \notin J
  BY BusyAlone
<1>8. Narrows(d, e)
  <2>1. ASSUME NEW l \in Line, Busy(e, l)
        PROVE  Busy(d, l) /\ e.input[l[2]].status = "admitted" /\ e.request[l[2]] = "open"
    BY <1>1, <1>3, <1>4, <1>6, <1>7, <2>1, BusyAlone
  <2>2. ASSUME NEW j \in Input, e.input[j].status \in {"admitted", "deferred"}
        PROVE  /\ e.input[j].status = d.input[j].status
               /\ e.input[j].policy = d.input[j].policy
               /\ \A l \in Line : l[2] = j /\ Busy(d, l) => Busy(e, l)
    BY <1>1, <1>3, <1>6, <2>2
  <2>. QED  BY <1>1, <2>1, <2>2 DEF Narrows
<1>9. Sound(e)
  BY <1>5, <1>8, NarrowsKeeps
<1>. QED  BY <1>1, <1>9 DEF e

\* A request that is opened again.
LEMMA OpenKeeps ==
  ASSUME NEW d, Sound(d), NEW J
  PROVE  LET e == [input |-> d.input, line |-> d.line, revision |-> d.revision,
                   request |-> SetRequest(d.request, J, "open")]
         IN Sound(e) /\ e.line = d.line
<1>. DEFINE e == [input |-> d.input, line |-> d.line, revision |-> d.revision,
                  request |-> SetRequest(d.request, J, "open")]
<1>1. /\ d.request \in [Input -> RequestState] /\ "open" \in RequestState
  BY DEF Sound, Typed, RequestState
<1>2. /\ e.request \in [Input -> RequestState]
      /\ \A i \in Input : e.request[i] = IF i \in J THEN "open" ELSE d.request[i]
  BY <1>1, RequestFacts
<1>3. /\ e.input = d.input /\ e.line = d.line /\ e.revision = d.revision
  OBVIOUS
<1>. HIDE DEF e
<1>4. Typed(e)
  BY <1>2, <1>3 DEF Sound, Typed
<1>5. \A l : Busy(e, l) <=> Busy(d, l)
  BY <1>3 DEF Busy
<1>6. \A l \in Line : Busy(d, l) => l[2] \in Input /\ e.request[l[2]] = "open"
  BY <1>2, BusyAlone
<1>7. Narrows(d, e)
  BY <1>3, <1>5, <1>6, BusyAlone DEF Narrows
<1>8. Sound(e)
  BY <1>4, <1>7, NarrowsKeeps
<1>. QED  BY <1>3, <1>8 DEF e

\* The commit of a decision: what is decided was waiting, and nothing else had
\* been decided under this batch.
LEMMA CommitKeeps ==
  ASSUME Sound(db), stage.batch \in Batch, root.request \in Request \cup {None},
         stage.inputs = Candidates(db.input, stage.check),
         \A l \in Line : l[1] = stage.batch => db.line[l] = NoDirective,
         NEW choice \in [stage.inputs -> Choice]
  PROVE  /\ Sound(Committed(choice))
         /\ \A l \in Line :
              Committed(choice).line[l] =
                IF l[1] # stage.batch \/ l[2] \notin stage.inputs THEN db.line[l]
                ELSE DirectiveOf(choice[l[2]])
<1>. DEFINE I == stage.inputs
            Admitted == {i \in I : Admits(choice[i])}
            e == Committed(choice)
<1>1. /\ e.line = [l \in Line |-> IF l[1] # stage.batch \/ l[2] \notin I THEN db.line[l]
                                  ELSE DirectiveOf(choice[l[2]])]
      /\ e.input = [i \in Input |->
                     IF i \notin I THEN db.input[i]
                     ELSE [status |-> IF i \in Admitted THEN "admitted" ELSE "deferred",
                           policy |-> choice[i][1], check |-> choice[i][2]]]
      /\ e.request = SetRequest(SetRequest(db.request, Admitted, "open"),
                                I \ Admitted, "deferred")
      /\ e.revision = db.revision + 1
  BY DEF Committed
<1>2. \A i \in I : /\ i \in Input
                   /\ choice[i] \in Choice
                   /\ choice[i][1] \in Mode /\ choice[i][2] \in Checkpoint \cup {"none"}
                   /\ i \in Admitted <=> choice[i][1] \in {"current", "parallel"}
                   /\ db.input[i].status \in {"queued", "deferred"}
  BY DEF Candidates, Choice, Mode, Admits
<1>3. \A i \in I : LET r == DirectiveOf(choice[i])
                   IN /\ r \in LineRecord /\ r.mode = choice[i][1]
                      /\ r.state = IF choice[i][1] \in {"parallel", "serial"}
                                   THEN "pending" ELSE "none"
  BY <1>2 DEF DirectiveOf, LineRecord, Mode, ExecutionState
<1>4. Admitted \subseteq I
  OBVIOUS
<1>. HIDE DEF e, I, Admitted
<1>5. \A l \in Line :
        /\ l[1] # stage.batch \/ l[2] \notin I => e.line[l] = db.line[l]
        /\ l[1] = stage.batch /\ l[2] \in I =>
             /\ e.line[l] \in LineRecord /\ e.line[l].mode = choice[l[2]][1]
             /\ e.line[l].state = IF choice[l[2]][1] \in {"parallel", "serial"}
                                  THEN "pending" ELSE "none"
  BY <1>1, <1>3
<1>6. \A i \in Input :
        /\ i \notin I => e.input[i] = db.input[i]
        /\ i \in I => /\ e.input[i].status = IF i \in Admitted THEN "admitted" ELSE "deferred"
                      /\ e.input[i].policy = choice[i][1]
                      /\ e.input[i].check = choice[i][2]
  BY <1>1
<1>7. /\ e.request \in [Input -> RequestState]
      /\ \A i \in Input :
           /\ i \notin I => e.request[i] = db.request[i]
           /\ i \in Admitted => e.request[i] = "open"
  <2>1. db.request \in [Input -> RequestState] /\ "open" \in RequestState
        /\ "deferred" \in RequestState
    BY DEF Sound, Typed, RequestState
  <2>. DEFINE q == SetRequest(db.request, Admitted, "open")
  <2>2. /\ q \in [Input -> RequestState]
        /\ \A i \in Input : q[i] = IF i \in Admitted THEN "open" ELSE db.request[i]
    BY <2>1, RequestFacts
  <2>3. e.request = SetRequest(q, I \ Admitted, "deferred")
    BY <1>1
  <2>. HIDE DEF q
  <2>4. /\ e.request \in [Input -> RequestState]
        /\ \A i \in Input : e.request[i] = IF i \in I \ Admitted THEN "deferred" ELSE q[i]
    BY <2>1, <2>2, <2>3, RequestFacts
  <2>. QED  BY <1>4, <2>2, <2>4
<1>8. Typed(e)
  <2>1. e.line \in [Line -> LineRecord]
    <3>1. \A l \in Line : e.line[l] \in LineRecord
      BY <1>5 DEF Sound, Typed
    <3>. QED  BY <1>1, <3>1
  <2>2. e.input \in [Input -> InputRecord]
    BY <1>1, <1>2 DEF Sound, Typed, InputRecord
  <2>3. e.revision \in Nat
    <3>1. db.revision \in Nat /\ e.revision = db.revision + 1
      BY <1>1 DEF Sound, Typed
    <3>. QED  BY ONLY <3>1
  <2>. QED  BY <1>7, <2>1, <2>2, <2>3 DEF Typed
<1>9. Moded(e)
  BY <1>5 DEF Moded, Sound
<1>10. \A l \in Line :
         Busy(e, l) => \/ Busy(db, l) /\ e.line[l] = db.line[l]
                       \/ /\ l[1] = stage.batch /\ l[2] \in I
                          /\ choice[l[2]][1] = "parallel" /\ e.line[l].mode = "parallel"
  BY <1>5 DEF Busy, InFlight
<1>11. \A l \in Line : Busy(db, l) => /\ l[2] \in Input /\ l[2] \notin I
                                      /\ e.line[l] = db.line[l] /\ Busy(e, l)
  <2>1. \A l \in Line : Busy(db, l) => l[2] \in Input /\ l[2] \notin I
    BY <1>2, BusyAlone
  <2>. QED  BY <1>5, <2>1 DEF Busy
<1>12. \A l \in Line : l = <<l[1], l[2]>> /\ l[1] \in Batch /\ l[2] \in Input
  BY DEF Line
<1>13. Held(e)
  <2>. SUFFICES ASSUME NEW l \in Line, Busy(e, l)
                PROVE  /\ e.input[l[2]].status = "admitted" /\ e.request[l[2]] = "open"
                       /\ e.input[l[2]].policy \in (IF e.line[l].mode = "parallel" THEN {"parallel"}
                                                    ELSE {"serial", "deferred"})
                       /\ \A k \in Line : k[2] = l[2] /\ Busy(e, k) => k = l
    BY DEF Held
  <2>1. CASE l[2] \in I
    <3>1. /\ l[1] = stage.batch /\ choice[l[2]][1] = "parallel" /\ e.line[l].mode = "parallel"
      BY <1>10, <1>11, <2>1
    <3>2. l[2] \in Admitted
      BY <1>2, <2>1, <3>1
    <3>3. \A k \in Line : k[2] = l[2] /\ Busy(e, k) => k[1] = stage.batch
      BY <1>10, <1>11, <2>1
    <3>. QED  BY <1>6, <1>7, <1>12, <2>1, <3>1, <3>2, <3>3
  <2>2. CASE l[2] \notin I
    <3>1. Busy(db, l) /\ e.line[l] = db.line[l]
      BY <1>10, <2>2
    <3>2. \A k \in Line : k[2] = l[2] /\ Busy(e, k) => Busy(db, k)
      BY <1>10, <2>2
    <3>3. e.input[l[2]] = db.input[l[2]] /\ e.request[l[2]] = db.request[l[2]]
      BY <1>6, <1>7, <1>12, <2>2
    <3>. QED  BY <3>1, <3>2, <3>3 DEF Sound, Held
  <2>. QED  BY <2>1, <2>2
<1>14. Waits(e)
  BY <1>2, <1>6 DEF Waits, Sound, Mode
<1>15. Owed(e)
  <2>. SUFFICES ASSUME NEW i \in Input, e.input[i].status = "admitted",
                       e.input[i].policy \in {"parallel", "serial"}
                PROVE  \E b \in Batch : e.line[<<b, i>>].mode = e.input[i].policy /\ Busy(e, <<b, i>>)
    BY DEF Owed
  <2>1. CASE i \in I
    <3>1. choice[i][1] = "parallel" /\ e.input[i].policy = "parallel"
      BY <1>2, <1>6, <2>1
    <3>2. <<stage.batch, i>> \in Line
      BY DEF Line
    <3>3. e.line[<<stage.batch, i>>].mode = "parallel" /\ e.line[<<stage.batch, i>>].state = "pending"
      BY <1>5, <2>1, <3>1, <3>2
    <3>. QED  BY <3>1, <3>3 DEF Busy
  <2>2. CASE i \notin I
    <3>1. PICK b \in Batch : db.line[<<b, i>>].mode = db.input[i].policy /\ Busy(db, <<b, i>>)
      BY <1>6, <2>2 DEF Sound, Owed
    <3>2. <<b, i>> \in Line
      BY DEF Line
    <3>3. e.line[<<b, i>>] = db.line[<<b, i>>] /\ Busy(e, <<b, i>>)
      BY <1>11, <3>1, <3>2
    <3>. QED  BY <1>6, <2>2, <3>1, <3>3
  <2>. QED  BY <2>1, <2>2
<1>16. Sound(e)
  BY <1>8, <1>9, <1>13, <1>14, <1>15 DEF Sound
<1>. QED  BY <1>1, <1>16 DEF e, I
-----------------------------------------------------------------------------
(* The inductive invariant.                                                *)

RootTyped ==
  /\ root.request \in 0..begun /\ root.settled \in BOOLEAN
  /\ answered \subseteq Request
  /\ begun \in 0..MaxRequests /\ primary \in 0..begun
MessagesTyped ==
  /\ MessageType(active.message) /\ active.accepted \subseteq DOMAIN active.message.claims
  /\ admitted \subseteq SUBSET Line
  /\ \A m \in sent : MessageType(m)
StageTyped ==
  /\ stage.batch \in 0..staged /\ stage.inputs \subseteq Input
  /\ stage # NoStage => stage.batch # None
  /\ receipt.batch \in 0..staged /\ receipt.inputs \subseteq Input
  /\ staged \in 0..MaxBatches
RunTyped ==
  /\ run \in {"idle", "ready", "assistant", "tool", "replied", "ended", "failed", "down"}
  /\ faults \in 0..MaxFaults
\* Each claim but the first follows a fault, that of a dead process too.
Attempts ==
  \A l \in Line :
    db.line[l].attempt <= IF db.line[l].state = "pending" \/ run = "down"
                          THEN faults ELSE faults + 1
\* A batch that is not staged yet, or not decided yet, has no directive.
Undecided ==
  \A l \in Line : l[1] > staged \/ l[1] = stage.batch => db.line[l] = NoDirective

IInv ==
  /\ RootTyped
  /\ MessagesTyped
  /\ StageTyped
  /\ RunTyped
  /\ Sound(db)
  /\ Attempts
  /\ Undecided
  /\ ActiveHoldsClaims
\* The planning messages that a restart left are of batches staged before.
PlansTyped == \A p \in plans : p.batch \in 1..staged /\ p.inputs \subseteq Input
\* The steps of ExecutionsAdvance and of DecisionsComplete.
Advances ==
  \A l \in Line :
    LET s == db.line[l].state
        t == db'.line[l].state
    IN s # t =>
         \/ s = "none" /\ t \in {"pending", "dispatching"}
         \/ s = "pending" /\ t \in {"dispatching", "cancelled"}
         \/ s = "dispatching" /\ t \in {"pending", "accepted", "cancelled"}
         \/ s \in {"accepted", "running"}
              /\ t \in {"running", "completed", "failed", "cancelled"}
Decides ==
  \A b \in Batch :
    LET Decided == {i \in Input : db.line[<<b, i>>] # db'.line[<<b, i>>]
                                  /\ db.line[<<b, i>>].mode = "none"}
    IN Decided # {} => Decided = Candidates(db.input, stage.check)

\* No step but a decision gives a directive; a stage is kept, dropped, or new.
Carries ==
  /\ \A l \in Line : db'.line[l] # db.line[l] => db.line[l].state # "none"
  /\ staged' \in Nat /\ staged' >= staged
  /\ stage'.batch \in {None, stage.batch} \/ stage'.batch > staged

\* A step that gives no directive decides nothing.
LEMMA CarriesKeeps ==
  ASSUME IInv, Carries
  PROVE  Undecided' /\ Decides
<1>1. ASSUME NEW l \in Line, l[1] > staged' \/ l[1] = stage'.batch
      PROVE  db'.line[l] = NoDirective
  <2>1. l[1] \in Nat /\ l[1] # None /\ staged \in Nat
    BY BoundsAssumption DEF Line, Batch, None, IInv, StageTyped
  <2>2. l[1] > staged \/ l[1] = stage.batch
    BY <1>1, <2>1 DEF Carries
  <2>3. db.line[l] = NoDirective
    BY <2>2 DEF IInv, Undecided
  <2>. QED  BY <2>3 DEF Carries, NoDirective
<1>2. ASSUME NEW b \in Batch, NEW i \in Input, db.line[<<b, i>>] # db'.line[<<b, i>>]
      PROVE  db.line[<<b, i>>].mode # "none"
  <2>1. <<b, i>> \in Line
    BY DEF Line
  <2>. QED  BY <1>2, <2>1 DEF Carries, IInv, Sound, Moded
<1>. QED  BY <1>1, <1>2 DEF Undecided, Decides

\* A step that leaves the executions as they are.
Rests ==
  /\ db'.line = db.line
  /\ faults' \in Nat /\ faults' >= faults
  /\ run' = "down" => run = "down" \/ faults' > faults
  /\ \/ active' = Inactive
     \/ active' = active /\ (run = "down" => run' = "down")
\* Then the attempts and the claims that the run holds are as they were.
LEMMA RestsKeeps ==
  ASSUME IInv, Rests
  PROVE  Attempts' /\ ActiveHoldsClaims' /\ Advances
<1>1. Attempts'
  <2>. SUFFICES ASSUME NEW l \in Line
                PROVE  db'.line[l].attempt <= IF db'.line[l].state = "pending" \/ run' = "down"
                                              THEN faults' ELSE faults' + 1
    BY DEF Attempts
  <2>1. /\ db.line[l].attempt \in Nat /\ faults \in Nat
        /\ db.line[l].attempt <= IF db.line[l].state = "pending" \/ run = "down"
                                 THEN faults ELSE faults + 1
    BY BoundsAssumption DEF IInv, Attempts, Sound, Typed, LineRecord, RunTyped
  <2>. QED  BY <2>1 DEF Rests
<1>2. ActiveHoldsClaims'
  BY DEF IInv, ActiveHoldsClaims, Rests, Inactive
<1>3. Advances
  BY DEF Advances, Rests
<1>. QED  BY <1>1, <1>2, <1>3
-----------------------------------------------------------------------------
(* Every action keeps the invariant and makes a legal step.  First those   *)
(* that leave the executions as they are.                                  *)

\* A root request begins: the continuity is copied.
LEMMA BeginRequestKeeps ==
  ASSUME IInv, BeginRequest
  PROVE  IInv' /\ Advances /\ Decides
<1>1. RootTyped'
  BY BoundsAssumption DEF IInv, RootTyped, BeginRequest, Request
<1>2. MessagesTyped' /\ StageTyped' /\ RunTyped'
  BY DEF IInv, MessagesTyped, StageTyped, RunTyped, BeginRequest
<1>3. Sound(db') /\ db'.line = db.line
  BY CopyKeeps DEF IInv, BeginRequest
<1>4. Rests
  BY <1>3, BoundsAssumption DEF Rests, BeginRequest, IInv, RunTyped
<1>5. Carries
  BY <1>3, BoundsAssumption DEF Carries, BeginRequest, IInv, StageTyped
<1>. QED  BY <1>1, <1>2, <1>3, <1>4, <1>5, RestsKeeps, CarriesKeeps DEF IInv

\* The continuity is copied again.
LEMMA ContinuityUpdateKeeps ==
  ASSUME IInv, ContinuityUpdate
  PROVE  IInv' /\ Advances /\ Decides
<1>1. RootTyped' /\ MessagesTyped' /\ StageTyped' /\ RunTyped'
  BY BoundsAssumption
     DEF IInv, RootTyped, MessagesTyped, StageTyped, RunTyped, ContinuityUpdate, Faults, memory
<1>2. Sound(db') /\ db'.line = db.line
  BY CopyKeeps DEF IInv, ContinuityUpdate
<1>3. Rests
  BY <1>2, BoundsAssumption DEF Rests, ContinuityUpdate, Faults, memory, IInv, RunTyped
<1>4. Carries
  BY <1>2, BoundsAssumption DEF Carries, ContinuityUpdate, IInv, StageTyped
<1>. QED  BY <1>1, <1>2, <1>3, <1>4, RestsKeeps, CarriesKeeps DEF IInv

\* An input is queued.
LEMMA NewInputKeeps ==
  ASSUME IInv, NEW i \in Input, NewInput(i)
  PROVE  IInv' /\ Advances /\ Decides
<1>1. RootTyped' /\ MessagesTyped' /\ StageTyped' /\ RunTyped'
  BY DEF IInv, RootTyped, MessagesTyped, StageTyped, RunTyped, NewInput, memory
<1>2. Sound(db') /\ db'.line = db.line
  BY RecordKeeps DEF IInv, NewInput
<1>3. Rests
  BY <1>2, BoundsAssumption DEF Rests, NewInput, memory, IInv, RunTyped
<1>4. Carries
  BY <1>2, BoundsAssumption DEF Carries, NewInput, IInv, StageTyped
<1>. QED  BY <1>1, <1>2, <1>3, <1>4, RestsKeeps, CarriesKeeps DEF IInv

\* A planning message starts: a receipt of the stage.
LEMMA PlanStartKeeps ==
  ASSUME IInv, PlanStart
  PROVE  IInv' /\ Advances /\ Decides
<1>1. RootTyped' /\ MessagesTyped' /\ RunTyped'
  BY DEF IInv, RootTyped, MessagesTyped, RunTyped, PlanStart
<1>2. StageTyped'
  <2>1. stage'.batch = stage.batch /\ stage'.inputs = stage.inputs /\ stage.batch # None
        /\ staged' = staged
    BY DEF PlanStart, IInv, StageTyped
  <2>2. \/ receipt' = receipt
        \/ receipt'.batch = stage.batch /\ receipt'.inputs = stage.inputs
    BY DEF PlanStart
  <2>. QED  BY <2>1, <2>2 DEF IInv, StageTyped
<1>3. Sound(db') /\ db' = db
  BY DEF IInv, PlanStart
<1>4. Rests
  BY <1>3, BoundsAssumption DEF Rests, PlanStart, MayStart, IInv, RunTyped
<1>5. Carries
  BY <1>3, BoundsAssumption DEF Carries, PlanStart, IInv, StageTyped
<1>. QED  BY <1>1, <1>2, <1>3, <1>4, <1>5, RestsKeeps, CarriesKeeps DEF IInv

\* So does one that a restart left.
LEMMA StalePlanStartKeeps ==
  ASSUME IInv, PlansTyped, NEW p \in plans, StalePlanStart(p)
  PROVE  IInv' /\ Advances /\ Decides
<1>1. RootTyped' /\ MessagesTyped' /\ RunTyped'
  BY DEF IInv, RootTyped, MessagesTyped, RunTyped, StalePlanStart
<1>2. StageTyped'
  <2>1. p.batch \in 0..staged /\ p.inputs \subseteq Input
    BY BoundsAssumption DEF PlansTyped, IInv, StageTyped
  <2>2. \/ receipt' = receipt
        \/ receipt'.batch = p.batch /\ receipt'.inputs = p.inputs
    BY DEF StalePlanStart
  <2>3. UNCHANGED <<stage, staged>>
    BY DEF StalePlanStart
  <2>. QED  BY <2>1, <2>2, <2>3 DEF IInv, StageTyped
<1>3. Sound(db') /\ db' = db
  BY DEF IInv, StalePlanStart
<1>4. Rests
  BY <1>3, BoundsAssumption DEF Rests, StalePlanStart, MayStart, IInv, RunTyped
<1>5. Carries
  BY <1>3, BoundsAssumption DEF Carries, StalePlanStart, IInv, StageTyped
<1>. QED  BY <1>1, <1>2, <1>3, <1>4, <1>5, RestsKeeps, CarriesKeeps DEF IInv

\* A tool call starts.
LEMMA ToolStartKeeps ==
  ASSUME IInv, ToolStart
  PROVE  IInv' /\ Advances /\ Decides
<1>1. RootTyped' /\ MessagesTyped' /\ StageTyped' /\ RunTyped'
  BY DEF IInv, RootTyped, MessagesTyped, StageTyped, RunTyped, ToolStart, memory
<1>2. Sound(db') /\ db' = db
  BY DEF IInv, ToolStart
<1>3. Rests
  BY <1>2, BoundsAssumption DEF Rests, ToolStart, memory, IInv, RunTyped
<1>4. Carries
  BY <1>2, BoundsAssumption DEF Carries, ToolStart, IInv, StageTyped
<1>. QED  BY <1>1, <1>2, <1>3, <1>4, RestsKeeps, CarriesKeeps DEF IInv

\* A checkpoint stages the next batch or none.
LEMMA CheckpointKeeps ==
  ASSUME IInv, NEW d, NEW check, NEW post, SafeCheckpoint(d, check, post),
         UNCHANGED receipt
  PROVE  /\ StageTyped'
         /\ staged' \in Nat /\ staged' >= staged
         /\ stage'.batch \in {None, stage.batch} \/ stage'.batch > staged
<1>1. CASE UNCHANGED <<stage, staged>>
  BY <1>1, BoundsAssumption DEF IInv, StageTyped
<1>2. CASE ~UNCHANGED <<stage, staged>>
  <2>1. /\ stage' = StageOf(d, check) /\ staged' = staged + 1 /\ staged < MaxBatches
    BY <1>2 DEF SafeCheckpoint
  <2>2. /\ stage'.batch = staged + 1 /\ stage'.inputs = Candidates(d.input, check)
    BY <2>1 DEF StageOf
  <2>3. Candidates(d.input, check) \subseteq Input
    BY DEF Candidates
  <2>. QED  BY <2>1, <2>2, <2>3, BoundsAssumption DEF IInv, StageTyped, None
<1>. QED  BY <1>1, <1>2

\* A tool call ends at a checkpoint.
LEMMA ToolEndKeeps ==
  ASSUME IInv, NEW post \in {"posted", "refused"}, ToolEnd(post)
  PROVE  IInv' /\ Advances /\ Decides
<1>1. FaultsOf(post) \in Nat
  BY DEF FaultsOf
<1>2. RootTyped' /\ MessagesTyped' /\ RunTyped'
  BY <1>1, BoundsAssumption
     DEF IInv, RootTyped, MessagesTyped, RunTyped, ToolEnd, Faults, memory
<1>3. SafeCheckpoint(db, "tool", post) /\ UNCHANGED receipt
  BY DEF ToolEnd, memory
<1>4. Sound(db') /\ db' = db
  BY DEF IInv, ToolEnd
<1>5. Rests
  BY <1>1, <1>4, BoundsAssumption DEF Rests, ToolEnd, Faults, memory, IInv, RunTyped
<1>6. StageTyped' /\ Carries
  BY <1>3, <1>4, CheckpointKeeps DEF Carries
<1>. QED  BY <1>2, <1>4, <1>5, <1>6, RestsKeeps, CarriesKeeps DEF IInv

\* A planning message is answered: no input it answers is busy.
LEMMA BatchReplyKeeps ==
  ASSUME IInv, BatchReply
  PROVE  IInv' /\ Advances /\ Decides
<1>1. RootTyped' /\ MessagesTyped' /\ RunTyped'
  BY DEF IInv, RootTyped, MessagesTyped, RunTyped, BatchReply
<1>2. StageTyped'
  BY DEF IInv, StageTyped, BatchReply, NoStage, NoReceipt, None
<1>3. Sound(db') /\ db'.line = db.line
  <2>. DEFINE J == {i \in AnsweredHere : db.request[i] \in {"open", "deferred"}}
  <2>1. /\ AnsweredHere \in SUBSET Input /\ J \in SUBSET Input /\ J \subseteq AnsweredHere
        /\ \A i \in AnsweredHere : db.input[i].policy \notin {"parallel", "serial", "deferred"}
    BY DEF AnsweredHere, PlannedHere, IInv, StageTyped
  <2>2. db' = IF AnsweredHere = {} THEN db
              ELSE QueuedOneByOne(db, SetStatus(db.input, AnsweredHere, "answered"),
                                  SetRequest(db.request, J, "answered"), db.line)
    BY DEF BatchReply
  <2>3. Sound(db)
    BY DEF IInv
  <2>. HIDE DEF J
  <2>. QED  BY <2>1, <2>2, <2>3, AnswerKeeps
<1>4. Rests
  BY <1>3, BoundsAssumption DEF Rests, BatchReply, IInv, RunTyped
<1>5. Carries
  <2>1. stage' \in {NoStage, stage} /\ staged' = staged /\ staged \in Nat
    BY BoundsAssumption DEF BatchReply, IInv, StageTyped
  <2>2. stage'.batch \in {None, stage.batch}
    BY <2>1 DEF NoStage
  <2>. QED  BY <1>3, <2>1, <2>2 DEF Carries
<1>. QED  BY <1>1, <1>2, <1>3, <1>4, <1>5, RestsKeeps, CarriesKeeps DEF IInv

\* The root request is answered.
LEMMA RootReplyKeeps ==
  ASSUME IInv, RootReply
  PROVE  IInv' /\ Advances /\ Decides
<1>1. MessagesTyped' /\ StageTyped' /\ RunTyped'
  BY DEF IInv, MessagesTyped, StageTyped, RunTyped, RootReply
<1>2. RootTyped'
  BY BoundsAssumption DEF IInv, RootTyped, RootReply, Request, None
<1>3. Sound(db') /\ db' = db
  BY DEF IInv, RootReply
<1>4. Rests
  BY <1>3, BoundsAssumption DEF Rests, RootReply, IInv, RunTyped
<1>5. Carries
  BY <1>3, BoundsAssumption DEF Carries, RootReply, IInv, StageTyped
<1>. QED  BY <1>1, <1>2, <1>3, <1>4, <1>5, RestsKeeps, CarriesKeeps DEF IInv

\* The runtime goes on with a failed run.
LEMMA NativeRetryKeeps ==
  ASSUME IInv, NativeRetry
  PROVE  IInv' /\ Advances /\ Decides
<1>1. RootTyped' /\ MessagesTyped' /\ StageTyped' /\ RunTyped'
  BY BoundsAssumption
     DEF IInv, RootTyped, MessagesTyped, StageTyped, RunTyped, NativeRetry, Faults, memory
<1>2. Sound(db') /\ db' = db
  BY DEF IInv, NativeRetry
<1>3. Rests
  BY <1>2, BoundsAssumption DEF Rests, NativeRetry, Faults, memory, IInv, RunTyped
<1>4. Carries
  BY <1>2, BoundsAssumption DEF Carries, NativeRetry, IInv, StageTyped
<1>. QED  BY <1>1, <1>2, <1>3, <1>4, RestsKeeps, CarriesKeeps DEF IInv

\* What a process that is gone or a new session leaves in memory.
LEMMA ForgottenTyped ==
  ASSUME IInv, Forgotten, UNCHANGED staged, \A m \in sent' : MessageType(m)
  PROVE  /\ MessagesTyped' /\ StageTyped'
         /\ staged' \in Nat /\ staged' >= staged /\ stage'.batch = None
         /\ active' = Inactive
<1>1. active' = Inactive /\ admitted' = {} /\ receipt' = NoReceipt /\ stage' = NoStage
  BY DEF Forgotten
<1>2. /\ MessageType(NoMessage)
  BY DEF MessageType, NoMessage
<1>3. Inactive.message = NoMessage /\ Inactive.accepted = {}
  BY DEF Inactive
<1>4. MessagesTyped'
  BY <1>1, <1>2, <1>3 DEF MessagesTyped
<1>5. StageTyped' /\ stage'.batch = None
  BY <1>1 DEF IInv, StageTyped, NoStage, NoReceipt, None
<1>. QED  BY <1>1, <1>4, <1>5, BoundsAssumption DEF IInv, StageTyped

\* The process dies.
LEMMA CrashKeeps ==
  ASSUME IInv, Crash
  PROVE  IInv' /\ Advances /\ Decides
<1>1. RootTyped' /\ RunTyped'
  BY BoundsAssumption DEF IInv, RootTyped, RunTyped, Crash, Faults, None
<1>2. /\ MessagesTyped' /\ StageTyped'
      /\ staged' \in Nat /\ staged' >= staged /\ stage'.batch = None
      /\ active' = Inactive
  BY ForgottenTyped DEF Crash, IInv, MessagesTyped
<1>3. Sound(db') /\ db' = db
  BY DEF IInv, Crash
<1>4. Rests
  BY <1>2, <1>3, BoundsAssumption DEF Rests, Crash, Faults, IInv, RunTyped
<1>5. Carries
  BY <1>2, <1>3 DEF Carries
<1>. QED  BY <1>1, <1>2, <1>3, <1>4, <1>5, RestsKeeps, CarriesKeeps DEF IInv

\* The extensions are loaded once more: the continuity is copied.
LEMMA SessionReloadedKeeps ==
  ASSUME IInv, NEW kept \in BOOLEAN, SessionReloaded(kept)
  PROVE  IInv' /\ Advances /\ Decides
<1>1. RootTyped' /\ RunTyped'
  BY BoundsAssumption DEF IInv, RootTyped, RunTyped, SessionReloaded, None
<1>2. /\ MessagesTyped' /\ StageTyped'
      /\ staged' \in Nat /\ staged' >= staged /\ stage'.batch = None
      /\ active' = Inactive
  BY ForgottenTyped DEF SessionReloaded, IInv, MessagesTyped
<1>3. Sound(db') /\ db'.line = db.line
  BY CopyKeeps DEF IInv, SessionReloaded
<1>4. Rests
  BY <1>2, <1>3, BoundsAssumption DEF Rests, SessionReloaded, IInv, RunTyped
<1>5. Carries
  BY <1>2, <1>3 DEF Carries
<1>. QED  BY <1>1, <1>2, <1>3, <1>4, <1>5, RestsKeeps, CarriesKeeps DEF IInv
-----------------------------------------------------------------------------
(* The actions that take executions on or end them.                        *)

\* No attempt is counted, and none is offered again.
LEMMA AttemptsKept ==
  ASSUME IInv, faults' \in Nat, faults' >= faults,
         run' = "down" => run = "down" \/ faults' > faults,
         \A l \in Line : \/ db'.line[l] = db.line[l]
                         \/ /\ db'.line[l].attempt = db.line[l].attempt
                            /\ db'.line[l].state # "pending"
  PROVE  Attempts'
<1>. SUFFICES ASSUME NEW l \in Line
              PROVE  db'.line[l].attempt <= IF db'.line[l].state = "pending" \/ run' = "down"
                                            THEN faults' ELSE faults' + 1
  BY DEF Attempts
<1>1. /\ db.line[l].attempt \in Nat /\ faults \in Nat
      /\ db.line[l].attempt <= IF db.line[l].state = "pending" \/ run = "down"
                               THEN faults ELSE faults + 1
  BY BoundsAssumption DEF IInv, Attempts, Sound, Typed, LineRecord, RunTyped
<1>. QED  BY <1>1

\* What a step of a run does to the executions of the message it works on.
LEMMA StartKeeps ==
  ASSUME NEW d, Sound(d), NEW m, NEW S, DOMAIN m.claims \subseteq Line
  PROVE  /\ Sound(Start(d, m, S))
         /\ \A l \in Line :
              /\ Start(d, m, S).line[l].mode = d.line[l].mode
              /\ Start(d, m, S).line[l].attempt = d.line[l].attempt
              /\ \/ Start(d, m, S).line[l] = d.line[l]
                 \/ /\ d.line[l].state = "accepted"
                    /\ Start(d, m, S).line[l].state = "running"
<1>. DEFINE A == Of(d, m, S, "accepted")
<1>1. \A l \in A : l \in Line /\ d.line[l].state = "accepted"
  BY DEF Of
<1>2. \A l \in A : d.line[l].state \in InFlight
  BY <1>1 DEF InFlight
<1>3. /\ Start(d, m, S) = Lines(d, Moved(d.line, A, "running"))
      /\ Start(d, m, S).line = Moved(d.line, A, "running")
  BY DEF Start, Lines
<1>. HIDE DEF A
<1>4. /\ Sound(Lines(d, Moved(d.line, A, "running")))
      /\ \A l \in Line :
           /\ Moved(d.line, A, "running")[l].mode = d.line[l].mode
           /\ Moved(d.line, A, "running")[l].attempt = d.line[l].attempt
           /\ Moved(d.line, A, "running")[l].state = IF l \in A THEN "running" ELSE d.line[l].state
           /\ l \notin A => Moved(d.line, A, "running")[l] = d.line[l]
  <2>1. Sound(Lines(d, Moved(d.line, A, "running")))
    BY <1>2, MoveKeeps
  <2>2. d.line \in [Line -> LineRecord] /\ "running" \in ExecutionState
    BY DEF Sound, Typed, ExecutionState
  <2>. QED  BY <2>1, <2>2, MovedFacts
<1>. QED  BY <1>1, <1>3, <1>4

\* An execution message starts: what it takes on is dispatching under its claims.
LEMMA ExecutionStartKeeps ==
  ASSUME IInv, NEW m \in sent, NEW again \in BOOLEAN, ExecutionStart(m, again)
  PROVE  IInv' /\ Advances /\ Decides
<1>. DEFINE S == Of(db, m, Line, "dispatching")
<1>1. /\ MayStart(\E l \in DOMAIN m.claims : db.line[l].mode = "serial")
      /\ Faults(IF again THEN 1 ELSE 0)
      /\ sent' = IF again THEN sent ELSE sent \ {m}
      /\ \/ UNCHANGED <<db, active, admitted>>
         \/ /\ db' = Lines(db, Moved(db.line, S, "accepted"))
            /\ active' = [message |-> m, accepted |-> S]
            /\ admitted' = admitted \cup {DOMAIN m.claims}
      /\ run' = "ready"
      /\ UNCHANGED <<root, answered, begun, primary, receipt, stage, staged>>
  BY DEF ExecutionStart
<1>2. MessageType(m) /\ Sound(db)
  BY DEF IInv, MessagesTyped
<1>3. \A l \in S : /\ l \in Line /\ l \in DOMAIN m.claims
                   /\ db.line[l].state = "dispatching"
                   /\ db.line[l].attempt = m.claims[l]
  BY DEF Of
<1>4. faults' \in 0..MaxFaults /\ faults' >= faults /\ run # "down"
  BY <1>1, BoundsAssumption DEF IInv, RunTyped, Faults, MayStart
<1>. HIDE DEF S
<1>5. RootTyped' /\ StageTyped' /\ RunTyped'
  BY <1>1, <1>4 DEF IInv, RootTyped, StageTyped, RunTyped
<1>6. MessagesTyped'
  <2>1. \A k \in sent' : MessageType(k)
    BY <1>1 DEF IInv, MessagesTyped
  <2>2. CASE UNCHANGED <<db, active, admitted>>
    BY <2>1, <2>2 DEF IInv, MessagesTyped
  <2>3. CASE ~UNCHANGED <<db, active, admitted>>
    <3>1. /\ active'.message = m /\ active'.accepted = S
          /\ admitted' = admitted \cup {DOMAIN m.claims}
      BY <1>1, <2>3
    <3>2. S \subseteq DOMAIN m.claims /\ DOMAIN m.claims \subseteq Line
      BY <1>2, <1>3 DEF MessageType
    <3>. QED  BY <1>2, <2>1, <3>1, <3>2 DEF IInv, MessagesTyped
  <2>. QED  BY <2>2, <2>3
<1>7. CASE UNCHANGED <<db, active, admitted>>
  <2>1. Rests
    BY <1>1, <1>4, <1>7 DEF Rests
  <2>2. Carries
    BY <1>1, <1>7, BoundsAssumption DEF Carries, IInv, StageTyped
  <2>. QED  BY <1>2, <1>5, <1>6, <1>7, <2>1, <2>2, RestsKeeps, CarriesKeeps DEF IInv
<1>8. CASE ~UNCHANGED <<db, active, admitted>>
  <2>1. /\ db' = Lines(db, Moved(db.line, S, "accepted"))
        /\ active' = [message |-> m, accepted |-> S]
    BY <1>1, <1>8
  <2>2. db'.line = Moved(db.line, S, "accepted")
    BY <2>1 DEF Lines
  <2>3. \A l \in S : db.line[l].state \in InFlight
    BY <1>3 DEF InFlight
  <2>4. /\ Sound(Lines(db, Moved(db.line, S, "accepted")))
        /\ \A l \in Line :
             /\ Moved(db.line, S, "accepted")[l].mode = db.line[l].mode
             /\ Moved(db.line, S, "accepted")[l].attempt = db.line[l].attempt
             /\ Moved(db.line, S, "accepted")[l].state =
                  IF l \in S THEN "accepted" ELSE db.line[l].state
             /\ l \notin S => Moved(db.line, S, "accepted")[l] = db.line[l]
    <3>1. Sound(Lines(db, Moved(db.line, S, "accepted")))
      BY <1>2, <2>3, MoveKeeps
    <3>2. db.line \in [Line -> LineRecord] /\ "accepted" \in ExecutionState
      BY <1>2 DEF Sound, Typed, ExecutionState
    <3>. QED  BY <3>1, <3>2, MovedFacts
  <2>5. Sound(db')
    BY <2>1, <2>4
  <2>6. \A l \in Line : \/ db'.line[l] = db.line[l]
                        \/ /\ l \in S /\ db.line[l].state = "dispatching"
                           /\ db'.line[l].attempt = db.line[l].attempt
                           /\ db'.line[l].state = "accepted"
    BY <1>3, <2>2, <2>4
  <2>7. Attempts'
    <3>1. \A l \in Line : \/ db'.line[l] = db.line[l]
                          \/ /\ db'.line[l].attempt = db.line[l].attempt
                             /\ db'.line[l].state # "pending"
      BY <2>6
    <3>2. faults' \in Nat /\ run' # "down"
      BY <1>1, <1>4, BoundsAssumption
    <3>. QED  BY <1>4, <3>1, <3>2, AttemptsKept
  <2>8. Carries
    BY <1>1, <2>6, BoundsAssumption DEF Carries, IInv, StageTyped
  <2>9. Advances
    BY <2>6 DEF Advances
  <2>10. ActiveHoldsClaims'
    BY <1>3, <2>1, <2>2, <2>4 DEF ActiveHoldsClaims
  <2>. QED  BY <1>5, <1>6, <2>5, <2>7, <2>8, <2>9, <2>10, CarriesKeeps DEF IInv
<1>. QED  BY <1>7, <1>8

\* The assistant starts: what was accepted runs.
LEMMA AssistantStartKeeps ==
  ASSUME IInv, AssistantStart
  PROVE  IInv' /\ Advances /\ Decides
<1>1. RootTyped' /\ MessagesTyped' /\ StageTyped' /\ RunTyped'
  BY DEF IInv, RootTyped, MessagesTyped, StageTyped, RunTyped, AssistantStart, memory
<1>2. Sound(db) /\ DOMAIN active.message.claims \subseteq Line
  BY DEF IInv, MessagesTyped, MessageType
<1>3. /\ Sound(db')
      /\ \A l \in Line : \/ db'.line[l] = db.line[l]
                         \/ /\ db'.line[l].attempt = db.line[l].attempt
                            /\ db.line[l].state = "accepted" /\ db'.line[l].state = "running"
  <2>1. CASE active # Inactive
    <3>1. db' = Start(db, active.message, active.accepted)
      BY <2>1 DEF AssistantStart
    <3>. QED  BY <1>2, <3>1, StartKeeps
  <2>2. CASE active = Inactive
    <3>. DEFINE J == {i \in PlannedHere : db.request[i] \in {"open", "deferred"}}
    <3>1. db' = [input |-> db.input, line |-> db.line, revision |-> db.revision,
                 request |-> SetRequest(db.request, J, "open")]
      BY <2>2 DEF AssistantStart
    <3>. HIDE DEF J
    <3>. QED  BY <1>2, <3>1, OpenKeeps
  <2>. QED  BY <2>1, <2>2
<1>4. /\ run = "ready" /\ run' = "assistant" /\ UNCHANGED <<stage, staged, active, faults>>
      /\ faults \in Nat /\ staged \in Nat
  BY BoundsAssumption DEF AssistantStart, memory, IInv, RunTyped, StageTyped
<1>5. Attempts'
  <2>1. \A l \in Line : \/ db'.line[l] = db.line[l]
                        \/ /\ db'.line[l].attempt = db.line[l].attempt
                           /\ db'.line[l].state # "pending"
    BY <1>3
  <2>. QED  BY <1>4, <2>1, AttemptsKept
<1>6. Carries
  BY <1>3, <1>4 DEF Carries
<1>7. Advances
  BY <1>3 DEF Advances
<1>8. ActiveHoldsClaims'
  <2>1. \A l \in active.accepted : l \in Line
    BY <1>2 DEF IInv, MessagesTyped
  <2>. QED  BY <1>3, <1>4, <2>1 DEF IInv, ActiveHoldsClaims
<1>. QED  BY <1>1, <1>3, <1>5, <1>6, <1>7, <1>8, CarriesKeeps DEF IInv

\* A run ends: what it has not answered has failed.
LEMMA RunEndKeeps ==
  ASSUME IInv, NEW failed \in BOOLEAN, RunEnd(failed)
  PROVE  IInv' /\ Advances /\ Decides
<1>. DEFINE m == active.message
            s == Start(db, m, active.accepted)
<1>1. RootTyped' /\ StageTyped' /\ RunTyped'
  BY DEF IInv, RootTyped, StageTyped, RunTyped, RunEnd
<1>2. Sound(db) /\ DOMAIN m.claims \subseteq Line
  BY DEF IInv, MessagesTyped, MessageType
<1>3. /\ active' = Inactive /\ admitted' \subseteq admitted /\ sent' = sent
      /\ db' = Settle(s, m, active.accepted, "failed")
      /\ run # "down" /\ run' # "down" /\ UNCHANGED <<stage, staged, faults>>
      /\ faults \in Nat /\ staged \in Nat
  BY BoundsAssumption DEF RunEnd, IInv, RunTyped, StageTyped
<1>4. MessagesTyped'
  <2>1. MessageType(NoMessage) /\ Inactive.message = NoMessage /\ Inactive.accepted = {}
    BY DEF MessageType, NoMessage, Inactive
  <2>. QED  BY <1>3, <2>1 DEF IInv, MessagesTyped
<1>. HIDE DEF m
<1>5. /\ Sound(s)
      /\ \A l \in Line : /\ s.line[l].mode = db.line[l].mode
                         /\ s.line[l].attempt = db.line[l].attempt
                         /\ \/ s.line[l] = db.line[l]
                            \/ db.line[l].state = "accepted" /\ s.line[l].state = "running"
  BY <1>2, StartKeeps
<1>. HIDE DEF s
<1>6. /\ Sound(db')
      /\ \A l \in Line : /\ db'.line[l].attempt = s.line[l].attempt
                         /\ \/ db'.line[l] = s.line[l]
                            \/ s.line[l].state = "running" /\ db'.line[l].state = "failed"
  BY <1>2, <1>3, <1>5, SettleKeeps
<1>7. \A l \in Line : \/ db'.line[l] = db.line[l]
                      \/ /\ db'.line[l].attempt = db.line[l].attempt
                         /\ db.line[l].state \in {"accepted", "running"}
                         /\ db'.line[l].state \in {"running", "failed"}
  BY <1>5, <1>6
<1>8. Attempts'
  <2>1. \A l \in Line : \/ db'.line[l] = db.line[l]
                        \/ /\ db'.line[l].attempt = db.line[l].attempt
                           /\ db'.line[l].state # "pending"
    BY <1>7
  <2>. QED  BY <1>3, <2>1, AttemptsKept
<1>9. Carries
  BY <1>3, <1>7 DEF Carries
<1>10. Advances
  BY <1>7 DEF Advances
<1>11. ActiveHoldsClaims'
  BY <1>3 DEF ActiveHoldsClaims, Inactive
<1>. QED  BY <1>1, <1>4, <1>6, <1>8, <1>9, <1>10, <1>11, CarriesKeeps DEF IInv

\* Another session starts: whatever is not over is cancelled.
LEMMA SessionRetiredKeeps ==
  ASSUME IInv, SessionRetired
  PROVE  IInv' /\ Advances /\ Decides
<1>1. RootTyped' /\ RunTyped'
  BY DEF IInv, RootTyped, RunTyped, SessionRetired, NoRoot, None
<1>2. /\ MessagesTyped' /\ StageTyped'
      /\ staged' \in Nat /\ staged' >= staged /\ stage'.batch = None
      /\ active' = Inactive
  BY ForgottenTyped DEF SessionRetired
<1>3. Sound(ContinuityCopied(db)) /\ ContinuityCopied(db).line = db.line
  BY CopyKeeps DEF IInv
<1>4. db' = Retired(ContinuityCopied(db))
  BY DEF SessionRetired
<1>5. /\ Sound(db')
      /\ \A l \in Line : \/ db'.line[l] = db.line[l]
                         \/ /\ db.line[l].state \in Live
                            /\ db'.line[l].attempt = db.line[l].attempt
                            /\ db'.line[l].state = "cancelled"
  <2>. DEFINE c == ContinuityCopied(db)
  <2>. HIDE DEF c
  <2>1. Sound(c) /\ c.line = db.line /\ db' = Retired(c)
    BY <1>3, <1>4 DEF c
  <2>2. /\ Sound(db')
        /\ \A l \in Line :
             IF c.line[l].state \in Live
             THEN /\ db'.line[l].mode = c.line[l].mode
                  /\ db'.line[l].attempt = c.line[l].attempt
                  /\ db'.line[l].state = "cancelled"
             ELSE db'.line[l] = c.line[l]
    BY <2>1, RetireKeeps
  <2>. QED  BY <2>1, <2>2
<1>6. Attempts'
  <2>1. \A l \in Line : \/ db'.line[l] = db.line[l]
                        \/ /\ db'.line[l].attempt = db.line[l].attempt
                           /\ db'.line[l].state # "pending"
    BY <1>5
  <2>2. faults' = faults /\ faults \in Nat /\ run' # "down"
    BY BoundsAssumption DEF SessionRetired, IInv, RunTyped
  <2>. QED  BY <2>1, <2>2, AttemptsKept
<1>7. Carries
  BY <1>2, <1>5 DEF Carries, Live
<1>8. Advances
  BY <1>5 DEF Advances, Live
<1>9. ActiveHoldsClaims'
  BY <1>2 DEF ActiveHoldsClaims, Inactive
<1>. QED  BY <1>1, <1>2, <1>5, <1>6, <1>7, <1>8, <1>9, CarriesKeeps DEF IInv
-----------------------------------------------------------------------------
(* The actions that dispatch executions.                                   *)

\* What a dispatch costs; the claims of its message are within the bound.
LEMMA FaultsCounted ==
  ASSUME IInv, NEW outcome \in Outcome, NEW n \in Nat, Faults(FaultsOf(outcome) + n)
  PROVE  /\ faults' \in 0..MaxFaults /\ faults' >= faults
         /\ outcome # "posted" => faults' > faults
<1>1. FaultsOf(outcome) \in Nat /\ (outcome # "posted" => FaultsOf(outcome) = 1)
  BY DEF FaultsOf
<1>. QED  BY <1>1, BoundsAssumption DEF IInv, RunTyped, Faults

\* The messages of a dispatch have the type of a message.
LEMMA PostedTyped ==
  ASSUME IInv, NEW d, NEW S \in SUBSET Line, \A l \in S : d.line[l].attempt \in 0..faults,
         NEW check \in Checkpoint \cup {"none"}, NEW outcome
  PROVE  \A m \in Posted(d, S, check, outcome) : MessageType(m)
<1>1. \A l \in S : d.line[l].attempt + 1 \in 0..(MaxFaults + 1)
  BY BoundsAssumption DEF IInv, RunTyped
<1>. QED  BY <1>1 DEF Posted, MessageType

\* No more than one attempt is counted for each fault.
LEMMA AttemptsDispatched ==
  ASSUME IInv, NEW outcome, faults' \in Nat, faults' >= faults,
         run' = "down" \/ outcome = "refused" => faults' > faults,
         \A l \in Line :
           \/ db'.line[l] = db.line[l]
           \/ /\ db'.line[l].attempt = db.line[l].attempt
              /\ db'.line[l].state # "pending"
           \/ db'.line[l].attempt \in 0..faults
           \/ \E n \in 0..faults : /\ db'.line[l].attempt = n + 1
                                   /\ db'.line[l].state = "pending" => outcome = "refused"
  PROVE  Attempts'
<1>. SUFFICES ASSUME NEW l \in Line
              PROVE  db'.line[l].attempt <= IF db'.line[l].state = "pending" \/ run' = "down"
                                            THEN faults' ELSE faults' + 1
  BY DEF Attempts
<1>1. /\ db.line[l].attempt \in Nat /\ faults \in Nat
      /\ db.line[l].attempt <= IF db.line[l].state = "pending" \/ run = "down"
                               THEN faults ELSE faults + 1
  BY BoundsAssumption DEF IInv, Attempts, Sound, Typed, LineRecord, RunTyped
<1>2. CASE db'.line[l] = db.line[l]
  BY <1>1, <1>2
<1>3. CASE db'.line[l].attempt = db.line[l].attempt /\ db'.line[l].state # "pending"
  BY <1>1, <1>3
<1>4. CASE db'.line[l].attempt \in 0..faults
  BY <1>1, <1>4
<1>5. CASE \E n \in 0..faults : /\ db'.line[l].attempt = n + 1
                                /\ db'.line[l].state = "pending" => outcome = "refused"
  <2>1. PICK n \in 0..faults : /\ db'.line[l].attempt = n + 1
                               /\ db'.line[l].state = "pending" => outcome = "refused"
    BY <1>5
  <2>2. CASE db'.line[l].state = "pending" \/ run' = "down"
    <3>1. faults' > faults
      BY <2>1, <2>2
    <3>2. n + 1 <= faults'
      BY ONLY <1>1, <3>1, n \in 0..faults, faults' \in Nat
    <3>. QED  BY <2>1, <2>2, <3>2
  <2>3. CASE ~(db'.line[l].state = "pending" \/ run' = "down")
    <3>1. n + 1 <= faults' + 1
      <4>1. n \in Nat /\ n <= faults
        BY ONLY <1>1, n \in 0..faults
      <4>2. n <= faults'
        BY ONLY <1>1, <4>1, faults' \in Nat, faults' >= faults
      <4>3. \A f \in Nat : n <= f => n + 1 <= f + 1
        BY ONLY <4>1
      <4>. QED  BY ONLY <4>2, <4>3, faults' \in Nat
    <3>. QED  BY <2>1, <2>3, <3>1
  <2>. QED  BY <2>2, <2>3
<1>. QED  BY <1>2, <1>3, <1>4, <1>5

\* What waits to be claimed has been claimed no more often than there were faults.
LEMMA PendingAttempts ==
  ASSUME IInv, NEW l \in Line, db.line[l].state = "pending" \/ run = "down"
  PROVE  db.line[l].attempt \in 0..faults
BY BoundsAssumption DEF IInv, Attempts, Sound, Typed, LineRecord, RunTyped

\* The decision on a batch, with some or all of its parallel executions claimed.
LEMMA DecisionKeeps ==
  ASSUME IInv, MayDecide, NEW choice \in Choices,
         NEW S \in SUBSET ReadyParallel(Committed(choice), {stage.batch}),
         NEW outcome \in Outcome, Faults(FaultsOf(outcome)),
         db' = Dispatched(Committed(choice), S, outcome),
         sent' \subseteq sent \cup Posted(Committed(choice), S, "none", outcome),
         stage' = NoStage, run' = (IF outcome = "crashed" THEN "down" ELSE "tool"),
         UNCHANGED <<root, answered, begun, memory, staged>>
  PROVE  IInv' /\ Advances /\ Decides
<1>. DEFINE d == Committed(choice)
            I == stage.inputs
<1>1. /\ StageIsCurrent /\ run = "tool" /\ stage.batch \in 1..staged /\ stage.batch \in Batch
      /\ staged \in Nat
      /\ I = Candidates(db.input, stage.check) /\ I \subseteq Input
      /\ choice \in [I -> Choice]
      /\ root.request \in Request \cup {None}
      /\ \A l \in Line : l[1] = stage.batch => db.line[l] = NoDirective
      /\ Sound(db)
  <2>1. stage # NoStage /\ StageIsCurrent /\ run = "tool"
    BY DEF MayDecide
  <2>2. stage.batch \in 1..staged /\ stage.batch \in Batch /\ staged \in Nat
    BY <2>1, BoundsAssumption DEF IInv, StageTyped, Batch, None
  <2>3. root.request \in Request \cup {None}
    BY BoundsAssumption DEF IInv, RootTyped, Request, None
  <2>. QED  BY <2>1, <2>2, <2>3 DEF StageIsCurrent, IInv, StageTyped, Undecided, Choices
<1>2. \A i \in I : LET r == DirectiveOf(choice[i])
                   IN /\ r.mode # "none" /\ r.attempt = 0
                      /\ r.state \in {"none", "pending"}
  BY <1>1 DEF DirectiveOf, Choice
<1>3. /\ Sound(d)
      /\ \A l \in Line :
           d.line[l] = IF l[1] # stage.batch \/ l[2] \notin I THEN db.line[l]
                       ELSE DirectiveOf(choice[l[2]])
  BY <1>1, CommitKeeps
<1>. HIDE DEF d
<1>4. S \in SUBSET ReadyParallel(d, {stage.batch})
  BY DEF d
<1>5. /\ Claims(d, S) /\ S \in SUBSET Line
      /\ \A l \in S : l[1] = stage.batch
  <2>1. Claims(d, ReadyParallel(d, {stage.batch}))
    BY <1>1, <1>3, ReadyClaims
  <2>2. \A l \in ReadyParallel(d, {stage.batch}) :
          l \in Line /\ l[1] = stage.batch /\ d.line[l].mode = "parallel"
    BY <1>1 DEF ReadyParallel, Line
  <2>. QED  BY <1>4, <2>1, <2>2 DEF Claims
<1>6. /\ Sound(db')
      /\ \A l \in Line :
           /\ l \notin S => db'.line[l] = d.line[l]
           /\ l \in S =>
                /\ d.line[l].state = "pending"
                /\ db'.line[l].mode = d.line[l].mode
                /\ db'.line[l].attempt = d.line[l].attempt + 1
                /\ db'.line[l].state = IF outcome = "refused" THEN "pending" ELSE "dispatching"
  <2>1. db' = Dispatched(d, S, outcome)
    BY DEF d
  <2>. QED  BY <1>3, <1>5, <2>1, DispatchKeeps
\* An execution of another batch, or of an input that is not decided on, is as it
\* was: none of those has a claim.
<1>7. \A l \in S : l[2] \in I
  <2>. SUFFICES ASSUME NEW l \in S, l[2] \notin I PROVE FALSE
    OBVIOUS
  <2>1. l \in Line /\ d.line[l] = NoDirective /\ d.line[l].state = "pending"
    BY <1>1, <1>3, <1>5, <1>6
  <2>. QED  BY <2>1 DEF NoDirective
<1>8. \A l \in Line :
        /\ l[1] # stage.batch \/ l[2] \notin I => db'.line[l] = db.line[l]
        /\ l[1] = stage.batch /\ l[2] \in I =>
             /\ db.line[l] = NoDirective
             /\ db'.line[l].mode # "none"
             /\ db'.line[l].state \in {"none", "pending", "dispatching"}
             /\ \/ db'.line[l].attempt = 0
                \/ db'.line[l].attempt = 1 /\ (db'.line[l].state = "pending" => outcome = "refused")
  <2>1. ASSUME NEW l \in Line, l[1] # stage.batch \/ l[2] \notin I
        PROVE  db'.line[l] = db.line[l]
    BY <1>3, <1>5, <1>6, <1>7, <2>1
  <2>2. ASSUME NEW l \in Line, l[1] = stage.batch, l[2] \in I
        PROVE  /\ db.line[l] = NoDirective
               /\ db'.line[l].mode # "none"
               /\ db'.line[l].state \in {"none", "pending", "dispatching"}
               /\ \/ db'.line[l].attempt = 0
                  \/ /\ db'.line[l].attempt = 1
                     /\ db'.line[l].state = "pending" => outcome = "refused"
    <3>1. /\ d.line[l].mode # "none" /\ d.line[l].attempt = 0
          /\ d.line[l].state \in {"none", "pending"}
      BY <1>2, <1>3, <2>2
    <3>2. CASE l \in S
      BY <1>1, <1>6, <2>2, <3>1, <3>2
    <3>3. CASE l \notin S
      BY <1>1, <1>6, <2>2, <3>1, <3>3
    <3>. QED  BY <3>2, <3>3
  <2>. QED  BY <2>1, <2>2
<1>9. /\ faults' \in 0..MaxFaults /\ faults' >= faults /\ faults \in Nat
      /\ outcome # "posted" => faults' > faults
  <2>1. Faults(FaultsOf(outcome) + 0)
    BY DEF FaultsOf
  <2>. QED  BY <2>1, FaultsCounted, BoundsAssumption DEF IInv, RunTyped
<1>10. RootTyped' /\ StageTyped' /\ RunTyped'
  <2>1. StageTyped'
    BY <1>1 DEF IInv, StageTyped, NoStage, None, memory
  <2>. QED  BY <1>9, <2>1 DEF IInv, RootTyped, RunTyped, memory
<1>11. MessagesTyped'
  <2>1. \A l \in S : d.line[l].attempt \in 0..faults
    BY <1>2, <1>3, <1>5, <1>7, <1>9
  <2>2. \A m \in Posted(d, S, "none", outcome) : MessageType(m)
    BY <1>5, <2>1, PostedTyped
  <2>. QED  BY <2>2 DEF IInv, MessagesTyped, memory, d
<1>12. Attempts'
  <2>1. \A l \in Line :
          \/ db'.line[l] = db.line[l]
          \/ db'.line[l].attempt \in 0..faults
          \/ \E n \in 0..faults : /\ db'.line[l].attempt = n + 1
                                  /\ db'.line[l].state = "pending" => outcome = "refused"
    <3>. SUFFICES ASSUME NEW l \in Line, db'.line[l] # db.line[l]
                  PROVE  \/ db'.line[l].attempt \in 0..faults
                         \/ /\ db'.line[l].attempt = 0 + 1
                            /\ db'.line[l].state = "pending" => outcome = "refused"
      BY <1>9
    <3>. QED  BY <1>8, <1>9
  <2>2. run' = "down" \/ outcome = "refused" => faults' > faults
    BY <1>9
  <2>3. faults' \in Nat
    BY <1>9, BoundsAssumption
  <2>. QED  BY <1>9, <2>1, <2>2, <2>3, AttemptsDispatched
<1>13. Undecided'
  <2>. SUFFICES ASSUME NEW l \in Line, l[1] > staged \/ l[1] = None
                PROVE  db'.line[l] = NoDirective
    BY DEF Undecided, NoStage
  <2>1. l[1] \in Nat /\ l[1] # None
    BY DEF Line, Batch, None
  <2>2. l[1] > staged /\ l[1] # stage.batch
    BY <1>1, <2>1
  <2>. QED  BY <1>8, <2>2 DEF IInv, Undecided
<1>14. ActiveHoldsClaims'
  <2>1. \A l \in active.accepted : l \in Line
    BY DEF IInv, MessagesTyped, MessageType
  <2>2. active' = active
    BY DEF memory
  <2>3. \A l \in active.accepted : db.line[l].state \in {"accepted", "running"}
                                   /\ db.line[l].attempt = active.message.claims[l]
    BY <1>1 DEF IInv, ActiveHoldsClaims
  <2>4. \A l \in active.accepted : db'.line[l] = db.line[l]
    BY <1>8, <2>1, <2>3 DEF NoDirective
  <2>. QED  BY <2>2, <2>3, <2>4 DEF ActiveHoldsClaims
<1>15. Advances
  BY <1>8 DEF Advances, NoDirective
<1>16. Decides
  <2>. SUFFICES ASSUME NEW b \in Batch
                PROVE  LET Decided == {i \in Input : db.line[<<b, i>>] # db'.line[<<b, i>>]
                                                     /\ db.line[<<b, i>>].mode = "none"}
                       IN Decided # {} => Decided = Candidates(db.input, stage.check)
    BY DEF Decides
  <2>1. \A i \in Input : <<b, i>> \in Line /\ <<b, i>>[1] = b /\ <<b, i>>[2] = i
    BY DEF Line
  <2>2. CASE b = stage.batch
    <3>1. \A i \in Input : (db.line[<<b, i>>] # db'.line[<<b, i>>]
                            /\ db.line[<<b, i>>].mode = "none") <=> i \in I
      BY <1>8, <2>1, <2>2 DEF NoDirective
    <3>. QED  BY <1>1, <3>1
  <2>3. CASE b # stage.batch
    <3>1. \A i \in Input : db'.line[<<b, i>>] = db.line[<<b, i>>]
      BY <1>8, <2>1, <2>3
    <3>. QED  BY <3>1
  <2>. QED  BY <2>2, <2>3
<1>. QED  BY <1>6, <1>10, <1>11, <1>12, <1>13, <1>14, <1>15, <1>16 DEF IInv

\* A decision, with all its parallel executions claimed.
LEMMA DecideKeeps ==
  ASSUME IInv, NEW outcome \in Outcome, Decide(outcome)
  PROVE  IInv' /\ Advances /\ Decides
<1>1. PICK choice \in Choices :
        /\ db' = Dispatched(Committed(choice),
                            ReadyParallel(Committed(choice), {stage.batch}), outcome)
        /\ sent' = sent \cup Posted(Committed(choice),
                                    ReadyParallel(Committed(choice), {stage.batch}),
                                    "none", outcome)
  BY DEF Decide
<1>2. /\ MayDecide /\ stage' = NoStage /\ Faults(FaultsOf(outcome))
      /\ run' = (IF outcome = "crashed" THEN "down" ELSE "tool")
      /\ UNCHANGED <<root, answered, begun, memory, staged>>
  BY DEF Decide, RunAfter
<1>. DEFINE S == ReadyParallel(Committed(choice), {stage.batch})
<1>3. /\ S \in SUBSET ReadyParallel(Committed(choice), {stage.batch})
      /\ db' = Dispatched(Committed(choice), S, outcome)
      /\ sent' \subseteq sent \cup Posted(Committed(choice), S, "none", outcome)
  BY <1>1
<1>. HIDE DEF S
<1>. QED  BY <1>2, <1>3, DecisionKeeps

\* A decision, with some of them claimed.
LEMMA DecideCrashedKeeps ==
  ASSUME IInv, DecideCrashed
  PROVE  IInv' /\ Advances /\ Decides
<1>1. PICK choice \in Choices :
        \E S \in SUBSET ReadyParallel(Committed(choice), {stage.batch}) :
          db' = Dispatched(Committed(choice), S, "crashed")
  BY DEF DecideCrashed
<1>. PICK S \in SUBSET ReadyParallel(Committed(choice), {stage.batch}) :
       db' = Dispatched(Committed(choice), S, "crashed")
  BY <1>1
<1>2. /\ MayDecide /\ stage' = NoStage /\ Faults(FaultsOf("crashed"))
      /\ run' = (IF "crashed" = "crashed" THEN "down" ELSE "tool")
      /\ UNCHANGED <<root, answered, begun, memory, staged>>
      /\ sent' \subseteq sent \cup Posted(Committed(choice), S, "none", "crashed")
      /\ "crashed" \in Outcome
  BY DEF DecideCrashed, FaultsOf, Outcome
<1>. QED  BY <1>2, DecisionKeeps
\* A dispatch over the file as it is, or with the executions of a run completed.
LEMMA FollowUpKeeps ==
  ASSUME IInv, run # "down", NEW d, Sound(d),
         \A l \in Line : \/ d.line[l] = db.line[l]
                         \/ /\ db.line[l].state = "running"
                            /\ d.line[l].state = "completed"
                            /\ d.line[l].attempt = db.line[l].attempt,
         NEW S, Claims(d, S), NEW outcome \in Outcome, NEW n \in Nat,
         Faults(FaultsOf(outcome) + n), run' = "down" => outcome = "crashed",
         db'.line = Dispatched(d, S, outcome).line
  PROVE  /\ Sound(Dispatched(d, S, outcome))
         /\ faults' \in 0..MaxFaults
         /\ Attempts' /\ Advances
         /\ \A l \in Line : \/ db'.line[l] = db.line[l]
                            \/ db.line[l].state \in {"pending", "running"}
         /\ (\A l \in Line : d.line[l] = db.line[l]) =>
              \A l \in Line : \/ db'.line[l] = db.line[l]
                              \/ db.line[l].state = "pending"
         /\ \A check \in Checkpoint \cup {"none"} :
              \A m \in Posted(d, S, check, outcome) : MessageType(m)
<1>1. /\ Sound(Dispatched(d, S, outcome))
      /\ S \in SUBSET Line
      /\ \A l \in Line :
           /\ l \notin S => db'.line[l] = d.line[l]
           /\ l \in S =>
                /\ d.line[l].state = "pending"
                /\ db'.line[l].attempt = d.line[l].attempt + 1
                /\ db'.line[l].state = IF outcome = "refused" THEN "pending" ELSE "dispatching"
  BY DispatchKeeps DEF Claims
<1>2. /\ faults' \in 0..MaxFaults /\ faults' >= faults /\ faults \in Nat
      /\ outcome # "posted" => faults' > faults
  BY FaultsCounted, BoundsAssumption DEF IInv, RunTyped
<1>3. \A l \in S : /\ l \in Line /\ d.line[l] = db.line[l] /\ db.line[l].state = "pending"
                   /\ db.line[l].attempt \in 0..faults
  BY <1>1, PendingAttempts
<1>4. \A l \in Line :
        \/ db'.line[l] = db.line[l]
        \/ /\ db.line[l].state = "running" /\ db'.line[l].state = "completed"
           /\ db'.line[l].attempt = db.line[l].attempt
        \/ /\ db.line[l].state = "pending" /\ l \in S
           /\ db'.line[l].attempt = db.line[l].attempt + 1
           /\ db'.line[l].state = IF outcome = "refused" THEN "pending" ELSE "dispatching"
  BY <1>1, <1>3
<1>5. Attempts'
  <2>1. \A l \in Line :
          \/ db'.line[l] = db.line[l]
          \/ /\ db'.line[l].attempt = db.line[l].attempt
             /\ db'.line[l].state # "pending"
          \/ \E k \in 0..faults : /\ db'.line[l].attempt = k + 1
                                  /\ db'.line[l].state = "pending" => outcome = "refused"
    BY <1>3, <1>4
  <2>2. run' = "down" \/ outcome = "refused" => faults' > faults
    BY <1>2
  <2>3. faults' \in Nat
    BY <1>2, BoundsAssumption
  <2>. QED  BY <1>2, <2>1, <2>2, <2>3, AttemptsDispatched
<1>6. Advances
  BY <1>4 DEF Advances
<1>7. \A check \in Checkpoint \cup {"none"} :
        \A m \in Posted(d, S, check, outcome) : MessageType(m)
  <2>1. \A l \in S : d.line[l].attempt \in 0..faults
    BY <1>3
  <2>. QED  BY <1>1, <2>1, PostedTyped
<1>8. (\A l \in Line : d.line[l] = db.line[l]) =>
        \A l \in Line : db'.line[l] = db.line[l] \/ db.line[l].state = "pending"
  BY <1>1
<1>. QED  BY <1>1, <1>2, <1>4, <1>5, <1>6, <1>7, <1>8

\* Executions are answered, and the next serial one may follow.
LEMMA ExecutionReplyKeeps ==
  ASSUME IInv, NEW outcome \in Outcome, ExecutionReply(outcome)
  PROVE  IInv' /\ Advances /\ Decides
<1>. DEFINE m == active.message
            d == Settle(db, m, active.accepted, "completed")
<1>1. /\ run = "assistant" /\ active' = Inactive /\ Faults(FaultsOf(outcome))
      /\ run' = (IF outcome = "crashed" THEN "down" ELSE "replied")
      /\ admitted' = admitted \ {DOMAIN m.claims}
      /\ UNCHANGED <<root, answered, begun, primary, receipt, stage, staged>>
  BY DEF ExecutionReply, RunAfter
<1>2. \E S : /\ S = {} \/ \E l \in Line : S \in SerialDispatches(d, root, db.line[l].root, m.check)
             /\ db' = Dispatched(d, S, outcome)
             /\ sent' = sent \cup Posted(d, S, m.check, outcome)
  <2>. DEFINE Serial == {l \in active.accepted : db.line[l].mode = "serial"}
  <2>1. \E S \in (IF Serial = {} \/ m.check = "none" THEN {{}}
                  ELSE UNION {SerialDispatches(d, root, db.line[l].root, m.check) : l \in Serial}) :
          /\ db' = Dispatched(d, S, outcome)
          /\ sent' = sent \cup Posted(d, S, m.check, outcome)
    BY DEF ExecutionReply
  <2>2. \A l \in Serial : l \in Line
    BY DEF IInv, MessagesTyped, MessageType
  <2>. HIDE DEF d, m, Serial
  <2>. QED  BY <2>1, <2>2
<1>3. PICK S : /\ S = {} \/ \E l \in Line : S \in SerialDispatches(d, root, db.line[l].root, m.check)
               /\ db' = Dispatched(d, S, outcome)
               /\ sent' = sent \cup Posted(d, S, m.check, outcome)
  BY <1>2
<1>4. /\ Sound(db) /\ DOMAIN m.claims \subseteq Line
      /\ m.check \in Checkpoint \cup {"none"}
  BY DEF IInv, MessagesTyped, MessageType
<1>. HIDE DEF m
<1>5. /\ Sound(d)
      /\ \A l \in Line : /\ d.line[l].attempt = db.line[l].attempt
                         /\ \/ d.line[l] = db.line[l]
                            \/ db.line[l].state = "running" /\ d.line[l].state = "completed"
  BY <1>4, SettleKeeps
<1>. HIDE DEF d
<1>6. Claims(d, S)
  <2>1. CASE S = {}
    BY <2>1 DEF Claims
  <2>2. CASE S # {}
    BY <1>3, <1>5, <2>2, ReadyClaims
  <2>. QED  BY <2>1, <2>2
<1>7. /\ Sound(db') /\ faults' \in 0..MaxFaults /\ Attempts' /\ Advances
      /\ \A l \in Line : db'.line[l] = db.line[l] \/ db.line[l].state \in {"pending", "running"}
      /\ \A k \in Posted(d, S, m.check, outcome) : MessageType(k)
  <2>1. Faults(FaultsOf(outcome) + 0)
    BY <1>1 DEF FaultsOf
  <2>2. \A l \in Line : \/ d.line[l] = db.line[l]
                        \/ /\ db.line[l].state = "running"
                           /\ d.line[l].state = "completed"
                           /\ d.line[l].attempt = db.line[l].attempt
    BY <1>5
  <2>3. run # "down" /\ (run' = "down" => outcome = "crashed")
    BY <1>1
  <2>4. db'.line = Dispatched(d, S, outcome).line
    BY <1>3
  <2>. QED  BY <1>3, <1>4, <1>5, <1>6, <2>1, <2>2, <2>3, <2>4, FollowUpKeeps
<1>8. RootTyped' /\ StageTyped' /\ RunTyped'
  BY <1>1, <1>7 DEF IInv, RootTyped, StageTyped, RunTyped
<1>9. MessagesTyped'
  <2>1. MessageType(NoMessage) /\ Inactive.message = NoMessage /\ Inactive.accepted = {}
    BY DEF MessageType, NoMessage, Inactive
  <2>. QED  BY <1>1, <1>3, <1>7, <2>1 DEF IInv, MessagesTyped
<1>10. Carries
  <2>1. staged \in Nat
    BY BoundsAssumption DEF IInv, StageTyped
  <2>. QED  BY <1>1, <1>7, <2>1 DEF Carries
<1>11. ActiveHoldsClaims'
  BY <1>1 DEF ActiveHoldsClaims, Inactive
<1>. QED  BY <1>7, <1>8, <1>9, <1>10, <1>11, CarriesKeeps DEF IInv

\* The agent has settled: a serial execution of its root may follow, and a stage.
LEMMA SettledKeeps ==
  ASSUME IInv, NEW kept \in BOOLEAN, NEW closed \in BOOLEAN, NEW outcome \in Outcome,
         NEW post \in {"posted", "refused"}, Settled(kept, closed, outcome, post)
  PROVE  IInv' /\ Advances /\ Decides
<1>1. /\ run \in {"ended", "failed"} /\ Faults(FaultsOf(outcome) + FaultsOf(post))
      /\ run' = (IF outcome = "crashed" THEN "down" ELSE "idle")
      /\ root' = root \/ root' = [request |-> primary, settled |-> TRUE]
      /\ UNCHANGED <<answered, begun, memory>>
  BY DEF Settled, RunAfter
<1>2. \E S, rt :
        /\ S = {} \/ S \in SerialDispatches(db, rt, primary, "settle")
        /\ sent' = sent \cup Posted(db, S, "settle", outcome)
        /\ \/ db' = Dispatched(db, S, outcome)
           \/ db' = ContinuityCopied(Dispatched(db, S, outcome))
  <2>. DEFINE closes == primary # None /\ ~kept
              rt == IF closes /\ root.request = primary
                    THEN [request |-> primary, settled |-> TRUE]
                    ELSE root
  <2>1. \E S \in (IF closes THEN SerialDispatches(db, rt, primary, "settle") ELSE {{}}) :
          /\ sent' = sent \cup Posted(db, S, "settle", outcome)
          /\ db' = IF closed THEN ContinuityCopied(Dispatched(db, S, outcome))
                   ELSE Dispatched(db, S, outcome)
    BY DEF Settled
  <2>. HIDE DEF closes, rt
  <2>. QED  BY <2>1
<1>3. PICK S, rt :
        /\ S = {} \/ S \in SerialDispatches(db, rt, primary, "settle")
        /\ sent' = sent \cup Posted(db, S, "settle", outcome)
        /\ \/ db' = Dispatched(db, S, outcome)
           \/ db' = ContinuityCopied(Dispatched(db, S, outcome))
  BY <1>2
<1>4. UNCHANGED <<stage, staged>> \/ SafeCheckpoint(db', "settle", post)
  BY DEF Settled
<1>5. Sound(db) /\ Claims(db, S)
  <2>1. Sound(db)
    BY DEF IInv
  <2>2. CASE S = {}
    BY <2>1, <2>2 DEF Claims
  <2>3. CASE S # {}
    BY <1>3, <2>1, <2>3, ReadyClaims
  <2>. QED  BY <2>1, <2>2, <2>3
<1>6. db'.line = Dispatched(db, S, outcome).line
  BY <1>3 DEF ContinuityCopied
<1>7. /\ Sound(Dispatched(db, S, outcome)) /\ faults' \in 0..MaxFaults /\ Attempts' /\ Advances
      /\ \A l \in Line : db'.line[l] = db.line[l] \/ db.line[l].state = "pending"
      /\ \A m \in Posted(db, S, "settle", outcome) : MessageType(m)
  <2>1. FaultsOf(post) \in Nat /\ "settle" \in Checkpoint \cup {"none"}
    BY DEF FaultsOf, Checkpoint
  <2>2. run # "down" /\ (run' = "down" => outcome = "crashed")
    BY <1>1
  <2>3. \A l \in Line : db.line[l] = db.line[l]
    OBVIOUS
  <2>. QED  BY <1>1, <1>5, <1>6, <2>1, <2>2, <2>3, FollowUpKeeps
<1>8. Sound(db')
  BY <1>3, <1>7, CopyKeeps
<1>9. RootTyped' /\ RunTyped'
  <2>1. UNCHANGED <<answered, begun, primary>>
    BY <1>1 DEF memory
  <2>2. root'.request \in {root.request, primary} /\ root'.settled \in BOOLEAN
    <3>1. root.settled \in BOOLEAN
      BY DEF IInv, RootTyped
    <3>2. CASE root' = root
      BY <3>1, <3>2
    <3>3. CASE root' = [request |-> primary, settled |-> TRUE]
      BY <3>3
    <3>. QED  BY <1>1, <3>2, <3>3
  <2>3. RootTyped'
    BY <2>1, <2>2 DEF IInv, RootTyped
  <2>4. RunTyped'
    BY <1>1, <1>7 DEF RunTyped
  <2>. QED  BY <2>3, <2>4
<1>10. /\ StageTyped'
       /\ staged' \in Nat /\ staged' >= staged
       /\ stage'.batch \in {None, stage.batch} \/ stage'.batch > staged
  <2>1. UNCHANGED receipt
    BY <1>1 DEF memory
  <2>2. CASE UNCHANGED <<stage, staged>>
    BY <2>1, <2>2, BoundsAssumption DEF IInv, StageTyped
  <2>3. CASE SafeCheckpoint(db', "settle", post)
    <3>1. PICK d : d = db'
      OBVIOUS
    <3>2. SafeCheckpoint(d, "settle", post)
      BY <2>3, <3>1
    <3>. QED  BY <2>1, <3>2, CheckpointKeeps
  <2>. QED  BY <1>4, <2>2, <2>3
<1>11. MessagesTyped'
  BY <1>1, <1>3, <1>7 DEF IInv, MessagesTyped, memory
<1>12. Carries
  BY <1>7, <1>10 DEF Carries
<1>13. ActiveHoldsClaims'
  <2>1. \A l \in active.accepted : l \in Line
    BY DEF IInv, MessagesTyped, MessageType
  <2>2. \A l \in active.accepted : db.line[l].state \in {"accepted", "running"}
                                   /\ db.line[l].attempt = active.message.claims[l]
    BY <1>1 DEF IInv, ActiveHoldsClaims
  <2>3. \A l \in active.accepted : db'.line[l] = db.line[l]
    BY <1>7, <2>1, <2>2
  <2>4. active' = active
    BY <1>1 DEF memory
  <2>. QED  BY <2>2, <2>3, <2>4 DEF ActiveHoldsClaims
<1>. QED  BY <1>7, <1>8, <1>9, <1>10, <1>11, <1>12, <1>13, CarriesKeeps DEF IInv

\* The session starts again: it recovers, and dispatches what is ready.
LEMMA SessionStartKeeps ==
  ASSUME IInv, NEW restored \in BOOLEAN, NEW kept \in BOOLEAN, NEW outcome \in Outcome,
         SessionStart(restored, kept, outcome)
  PROVE  IInv' /\ Advances /\ Decides
<1>1. /\ run = "down" /\ Forgotten /\ Faults(FaultsOf(outcome))
      /\ primary' = IF restored THEN root.request ELSE None
      /\ run' = (IF outcome = "crashed" THEN "down" ELSE "idle")
      /\ UNCHANGED <<root, answered, begun, staged>>
  BY DEF SessionStart, RunAfter
<1>2. PICK expired \in SUBSET Line :
        /\ db' = Dispatched(Recovered(expired), ReadyParallel(Recovered(expired), Batch), outcome)
        /\ sent' \subseteq sent \cup Posted(Recovered(expired),
                                            ReadyParallel(Recovered(expired), Batch),
                                            "none", outcome)
  BY DEF SessionStart
<1>. DEFINE d == Recovered(expired)
            S == ReadyParallel(d, Batch)
<1>3. /\ Sound(d)
      /\ \A l \in Line :
           \/ d.line[l] = db.line[l]
           \/ /\ d.line[l].attempt = db.line[l].attempt
              /\ \/ /\ db.line[l].state \in {"accepted", "running"}
                    /\ d.line[l].state = "failed"
                 \/ /\ db.line[l].state = "dispatching"
                    /\ d.line[l].state = "pending"
  BY RecoverKeeps DEF IInv
<1>4. db' = Dispatched(d, S, outcome) /\ sent' \subseteq sent \cup Posted(d, S, "none", outcome)
  BY <1>2
<1>. HIDE DEF d
<1>5. Claims(d, S) /\ S \in SUBSET Line
  BY <1>3, ReadyClaims DEF Claims
<1>. HIDE DEF S
<1>6. /\ Sound(db')
      /\ \A l \in Line :
           /\ l \notin S => db'.line[l] = d.line[l]
           /\ l \in S =>
                /\ d.line[l].state = "pending"
                /\ db'.line[l].attempt = d.line[l].attempt + 1
                /\ db'.line[l].state = IF outcome = "refused" THEN "pending" ELSE "dispatching"
  BY <1>3, <1>4, <1>5, DispatchKeeps
<1>7. /\ faults' \in 0..MaxFaults /\ faults' >= faults /\ faults \in Nat
      /\ outcome # "posted" => faults' > faults
  <2>1. Faults(FaultsOf(outcome) + 0)
    BY <1>1 DEF FaultsOf
  <2>. QED  BY <2>1, FaultsCounted, BoundsAssumption DEF IInv, RunTyped
<1>8. \A l \in Line : d.line[l].attempt = db.line[l].attempt /\ db.line[l].attempt \in 0..faults
  BY <1>1, <1>3, PendingAttempts
<1>9. RootTyped' /\ RunTyped'
  BY <1>1, <1>7 DEF IInv, RootTyped, RunTyped, None
<1>10. /\ MessagesTyped' /\ StageTyped'
       /\ staged' \in Nat /\ staged' >= staged /\ stage'.batch = None
       /\ active' = Inactive
  <2>1. \A l \in S : d.line[l].attempt \in 0..faults
    BY <1>5, <1>8
  <2>2. "none" \in Checkpoint \cup {"none"}
    OBVIOUS
  <2>3. \A m \in Posted(d, S, "none", outcome) : MessageType(m)
    BY <1>5, <2>1, <2>2, PostedTyped
  <2>4. \A m \in sent' : MessageType(m)
    BY <1>4, <2>3 DEF IInv, MessagesTyped
  <2>. QED  BY <1>1, <2>4, ForgottenTyped
<1>11. Attempts'
  <2>1. \A l \in Line :
          \/ db'.line[l].attempt \in 0..faults
          \/ \E n \in 0..faults : /\ db'.line[l].attempt = n + 1
                                  /\ db'.line[l].state = "pending" => outcome = "refused"
    BY <1>6, <1>8
  <2>2. run' = "down" \/ outcome = "refused" => faults' > faults
    BY <1>1, <1>7
  <2>3. faults' \in Nat
    BY <1>7, BoundsAssumption
  <2>. QED  BY <1>7, <2>1, <2>2, <2>3, AttemptsDispatched
<1>12. Carries
  BY <1>3, <1>6, <1>10 DEF Carries
<1>13. Advances
  BY <1>3, <1>6 DEF Advances
<1>14. ActiveHoldsClaims'
  BY <1>10 DEF ActiveHoldsClaims, Inactive
<1>. QED  BY <1>6, <1>9, <1>10, <1>11, <1>12, <1>13, <1>14, CarriesKeeps DEF IInv
-----------------------------------------------------------------------------
(* The theorems.                                                           *)

\* The invariant holds at first.
LEMMA InitHolds ==
  ASSUME Init
  PROVE  IInv
<1>1. /\ db.input = [i \in Input |-> [status |-> "absent", policy |-> "none", check |-> "none"]]
      /\ db.request = [i \in Input |-> "none"]
      /\ db.line = [l \in Line |-> NoDirective]
      /\ db.revision = 0
  BY DEF Init
<1>2. \A l \in Line : db.line[l] = NoDirective
  BY <1>1
<1>3. \A i \in Input : db.input[i].status = "absent"
  BY <1>1
<1>4. Sound(db)
  <2>1. Typed(db)
    BY <1>1 DEF Typed, InputRecord, RequestState, LineRecord, NoDirective
  <2>2. Moded(db) /\ Held(db)
    BY <1>2 DEF Moded, Held, Busy, InFlight, NoDirective
  <2>3. Waits(db) /\ Owed(db)
    BY <1>3 DEF Waits, Owed
  <2>. QED  BY <2>1, <2>2, <2>3 DEF Sound
<1>5. RootTyped /\ StageTyped /\ RunTyped
  BY BoundsAssumption
     DEF Init, RootTyped, StageTyped, RunTyped, NoRoot, NoStage, NoReceipt, None
<1>6. active.message = NoMessage /\ active.accepted = {}
  BY DEF Init, Inactive
<1>7. MessagesTyped
  BY <1>6 DEF Init, MessagesTyped, MessageType, NoMessage
<1>8. Attempts
  BY <1>2, BoundsAssumption DEF Init, Attempts, NoDirective
<1>9. Undecided /\ ActiveHoldsClaims
  BY <1>2, <1>6 DEF Undecided, ActiveHoldsClaims
<1>. QED  BY <1>4, <1>5, <1>7, <1>8, <1>9 DEF IInv

\* Planning messages are left by a restart, and of batches staged by then.
LEMMA PlansKept ==
  ASSUME IInv, PlansTyped, Next
  PROVE  PlansTyped'
<1>. DEFINE P == plans' \subseteq Undelivered /\ staged' \in {staged, staged + 1}
<1>1. \A p \in Undelivered : p.batch \in 1..staged /\ p.inputs \subseteq Input
  <2>1. stage # NoStage => stage.batch \in 1..staged /\ stage.inputs \subseteq Input
    BY BoundsAssumption DEF IInv, StageTyped, None
  <2>. QED  BY <2>1 DEF Undelivered, PlansTyped
<1>2. plans \subseteq Undelivered /\ {} \subseteq Undelivered
  BY DEF Undelivered
<1>3. ASSUME UNCHANGED <<staged, plans>>
      PROVE  P
  BY <1>2, <1>3
<1>4. ASSUME NEW d, NEW check, NEW post, SafeCheckpoint(d, check, post) \/ UNCHANGED <<stage, staged>>,
             UNCHANGED plans
      PROVE  P
  BY <1>2, <1>4 DEF SafeCheckpoint
<1>5. P
  <2>1. CASE BeginRequest \/ ContinuityUpdate \/ \E i \in Input : NewInput(i)
    BY <2>1, <1>3 DEF BeginRequest, ContinuityUpdate, NewInput
  <2>2. CASE PlanStart \/ AssistantStart \/ ToolStart
    BY <2>2, <1>3 DEF PlanStart, AssistantStart, ToolStart
  <2>3. CASE \E p \in plans : StalePlanStart(p)
    BY <2>3, <1>2 DEF StalePlanStart
  <2>4. CASE \E m \in sent, again \in BOOLEAN : ExecutionStart(m, again)
    BY <2>4, <1>3 DEF ExecutionStart
  <2>5. CASE \E post \in {"posted", "refused"} : ToolEnd(post)
    BY <2>5, <1>4 DEF ToolEnd
  <2>6. CASE DecideCrashed \/ \E outcome \in Outcome : Decide(outcome)
    BY <2>6, <1>3 DEF DecideCrashed, Decide
  <2>7. CASE \E outcome \in Outcome : ExecutionReply(outcome)
    BY <2>7, <1>3 DEF ExecutionReply
  <2>8. CASE BatchReply \/ RootReply \/ NativeRetry \/ \E failed \in BOOLEAN : RunEnd(failed)
    BY <2>8, <1>3 DEF BatchReply, RootReply, NativeRetry, RunEnd
  <2>9. CASE \E kept, closed \in BOOLEAN, outcome \in Outcome, post \in {"posted", "refused"} :
               Settled(kept, closed, outcome, post)
    <3>1. PICK kept \in BOOLEAN, closed \in BOOLEAN, outcome \in Outcome,
               post \in {"posted", "refused"} : Settled(kept, closed, outcome, post)
      BY <2>9
    <3>2. SafeCheckpoint(db', "settle", post) \/ UNCHANGED <<stage, staged>>
      BY <3>1 DEF Settled
    <3>3. UNCHANGED plans
      BY <3>1 DEF Settled
    <3>. QED  BY <3>2, <3>3, <1>4
  <2>10. CASE Crash \/ SessionRetired
    BY <2>10, <1>2 DEF Crash, SessionRetired
  <2>11. CASE \E restored, kept \in BOOLEAN, outcome \in Outcome :
                SessionStart(restored, kept, outcome)
    BY <2>11, <1>2 DEF SessionStart
  <2>12. CASE \E kept \in BOOLEAN : SessionReloaded(kept)
    BY <2>12, <1>2 DEF SessionReloaded
  <2>. QED
    BY <2>1, <2>2, <2>3, <2>4, <2>5, <2>6, <2>7, <2>8, <2>9, <2>10, <2>11, <2>12 DEF Next
<1>6. staged \in Nat
  BY BoundsAssumption DEF IInv, StageTyped
<1>. QED  BY <1>1, <1>5, <1>6 DEF PlansTyped

\* Every step keeps the invariant, and is one that the action properties allow.
LEMMA NextKeeps ==
  ASSUME IInv, PlansTyped, Next
  PROVE  IInv' /\ Advances /\ Decides
<1>1. CASE BeginRequest
  BY <1>1, BeginRequestKeeps
<1>2. CASE ContinuityUpdate
  BY <1>2, ContinuityUpdateKeeps
<1>3. CASE \E i \in Input : NewInput(i)
  BY <1>3, NewInputKeeps
<1>4. CASE PlanStart
  BY <1>4, PlanStartKeeps
<1>5. CASE \E m \in sent, again \in BOOLEAN : ExecutionStart(m, again)
  BY <1>5, ExecutionStartKeeps
<1>6. CASE AssistantStart
  BY <1>6, AssistantStartKeeps
<1>7. CASE ToolStart
  BY <1>7, ToolStartKeeps
<1>8. CASE \E post \in {"posted", "refused"} : ToolEnd(post)
  BY <1>8, ToolEndKeeps
<1>9. CASE \E outcome \in Outcome : Decide(outcome)
  BY <1>9, DecideKeeps
<1>10. CASE DecideCrashed
  BY <1>10, DecideCrashedKeeps
<1>11. CASE \E outcome \in Outcome : ExecutionReply(outcome)
  BY <1>11, ExecutionReplyKeeps
<1>12. CASE BatchReply
  BY <1>12, BatchReplyKeeps
<1>13. CASE RootReply
  BY <1>13, RootReplyKeeps
<1>14. CASE \E failed \in BOOLEAN : RunEnd(failed)
  BY <1>14, RunEndKeeps
<1>15. CASE NativeRetry
  BY <1>15, NativeRetryKeeps
<1>16. CASE \E kept, closed \in BOOLEAN, outcome \in Outcome, post \in {"posted", "refused"} :
              Settled(kept, closed, outcome, post)
  BY <1>16, SettledKeeps
<1>17. CASE Crash
  BY <1>17, CrashKeeps
<1>18. CASE SessionRetired
  BY <1>18, SessionRetiredKeeps
<1>19. CASE \E restored, kept \in BOOLEAN, outcome \in Outcome :
              SessionStart(restored, kept, outcome)
  BY <1>19, SessionStartKeeps
<1>20. CASE \E p \in plans : StalePlanStart(p)
  BY <1>20, StalePlanStartKeeps
<1>21. CASE \E kept \in BOOLEAN : SessionReloaded(kept)
  BY <1>21, SessionReloadedKeeps
<1>. QED
  BY <1>1, <1>2, <1>3, <1>4, <1>5, <1>6, <1>7, <1>8, <1>9, <1>10, <1>11, <1>12, <1>13,
     <1>14, <1>15, <1>16, <1>17, <1>18, <1>19, <1>20, <1>21 DEF Next

\* So does a step that changes nothing.
LEMMA StutterKeeps ==
  ASSUME IInv, PlansTyped, UNCHANGED vars
  PROVE  IInv' /\ PlansTyped'
<1>1. RootTyped' /\ MessagesTyped' /\ StageTyped' /\ RunTyped'
  BY DEF IInv, RootTyped, MessagesTyped, StageTyped, RunTyped, vars, memory
<1>2. Sound(db') /\ Attempts' /\ Undecided' /\ ActiveHoldsClaims'
  BY DEF IInv, Attempts, Undecided, ActiveHoldsClaims, vars, memory
<1>3. PlansTyped'
  BY DEF PlansTyped, vars
<1>. QED  BY <1>1, <1>2, <1>3 DEF IInv

\* The inductive invariant.
THEOREM Invariance == Spec => [](IInv /\ PlansTyped)
<1>1. Init => IInv /\ PlansTyped
  BY InitHolds DEF Init, PlansTyped
<1>2. IInv /\ PlansTyped /\ [Next]_vars => IInv' /\ PlansTyped'
  BY NextKeeps, PlansKept, StutterKeeps
<1>. QED  BY <1>1, <1>2, PTL DEF Spec

\* The variables have their types: among them, that no execution is claimed more
\* often than once and once for each fault (RuntimeBatchExecutionCoordinator).
THEOREM TypeCorrect == Spec => []TypeOK
<1>1. IInv /\ PlansTyped => TypeOK
  <2>. SUFFICES ASSUME IInv, PlansTyped PROVE TypeOK
    OBVIOUS
  <2>1. RootTyped /\ MessagesTyped /\ StageTyped /\ RunTyped /\ Typed(db) /\ Attempts
    BY DEF IInv, Sound
  <2>2. db.line \in [Line -> [mode : Mode \cup {"none"}, root : Request \cup {None},
                              check : Checkpoint \cup {"none"},
                              state : ExecutionState \cup {"none"},
                              attempt : 0..(MaxFaults + 1)]]
    <3>. DEFINE Bounded == [mode : Mode \cup {"none"}, root : Request \cup {None},
                            check : Checkpoint \cup {"none"},
                            state : ExecutionState \cup {"none"},
                            attempt : 0..(MaxFaults + 1)]
    <3>1. ASSUME NEW l \in Line PROVE db.line[l] \in Bounded
      <4>1. db.line[l] \in LineRecord
        BY <2>1 DEF Typed
      <4>2. db.line[l].attempt \in Nat
        BY <4>1 DEF LineRecord
      <4>3. /\ faults \in 0..MaxFaults
            /\ db.line[l].attempt <= IF db.line[l].state = "pending" \/ run = "down"
                                     THEN faults ELSE faults + 1
        BY <2>1 DEF Attempts, RunTyped
      <4>4. db.line[l].attempt <= faults \/ db.line[l].attempt <= faults + 1
        BY <4>3
      <4>5. db.line[l].attempt \in 0..(MaxFaults + 1)
        BY <4>2, <4>3, <4>4, BoundsAssumption
      <4>. QED  BY <4>1, <4>5 DEF LineRecord
    <3>2. db.line = [l \in Line |-> db.line[l]]
      BY <2>1 DEF Typed
    <3>. HIDE DEF Bounded
    <3>3. db.line \in [Line -> Bounded]
      BY <3>1, <3>2
    <3>. QED  BY <3>3 DEF Bounded
  <2>3. /\ db.input \in [Input -> InputRecord] /\ db.request \in [Input -> RequestState]
        /\ db.revision \in Nat
    BY <2>1 DEF Typed
  <2>4. root.request \in Request \cup {None}
    BY <2>1, BoundsAssumption DEF RootTyped, Request, None
  <2>. QED
    BY <2>1, <2>2, <2>3, <2>4
       DEF TypeOK, RootTyped, MessagesTyped, StageTyped, RunTyped, PlansTyped, InputRecord,
           RequestState
<1>. QED  BY <1>1, Invariance, PTL

\* An input is worked on by one execution at most, which has it and its request
\* to itself (claimRuntimeBatchDirectiveExecution and what releases it).
THEOREM ExecutionsAlone == Spec => []OneExecutionInFlight
<1>1. IInv => OneExecutionInFlight
  BY DEF IInv, Sound, Held, Busy, OneExecutionInFlight
<1>. QED  BY <1>1, Invariance, PTL

\* An input that was admitted to run on its own has an execution that is not over.
THEOREM AdmittedOwed == Spec => []AdmittedIsOwed
<1>1. IInv => AdmittedIsOwed
  <2>. SUFFICES ASSUME IInv, NEW i \in Input, db.input[i].status = "admitted",
                       db.input[i].policy \in {"parallel", "serial"}
                PROVE  \E b \in Batch :
                         /\ db.line[<<b, i>>].mode = db.input[i].policy
                         /\ db.line[<<b, i>>].state \in
                              (IF db.input[i].policy = "serial" THEN InFlight ELSE Live)
    BY DEF AdmittedIsOwed
  <2>1. PICK b \in Batch : db.line[<<b, i>>].mode = db.input[i].policy /\ Busy(db, <<b, i>>)
    BY DEF IInv, Sound, Owed
  <2>. QED  BY <2>1 DEF Busy, InFlight, Live
<1>. QED  BY <1>1, Invariance, PTL

\* What the run works on is held under the claims of its own message, however
\* often a message is delivered (the token in onMessageStart).
THEOREM ClaimsHeld == Spec => []ActiveHoldsClaims
<1>1. IInv => ActiveHoldsClaims
  BY DEF IInv
<1>. QED  BY <1>1, Invariance, PTL

\* An execution goes forward, and back to pending only from a claim.
THEOREM Advance == Spec => ExecutionsAdvance
<1>1. IInv /\ PlansTyped /\ [Next]_vars => [Advances]_vars
  BY NextKeeps
<1>. QED  BY <1>1, Invariance, PTL DEF Spec, ExecutionsAdvance, Advances

\* A decision covers exactly the inputs that wait when it is committed
\* (commitRuntimeBatchTransitions).
THEOREM DecisionComplete == Spec => DecisionsComplete
<1>1. IInv /\ PlansTyped /\ [Next]_vars => [Decides]_vars
  BY NextKeeps
<1>. QED  BY <1>1, Invariance, PTL DEF Spec, DecisionsComplete, Decides
=============================================================================
