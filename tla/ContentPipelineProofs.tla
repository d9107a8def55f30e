----------------------- MODULE ContentPipelineProofs -----------------------
(***************************************************************************)
(* Proofs about ContentPipeline, for every set of requests and operations, *)
(* both kinds of file, and every bound on retries and faults.              *)
(***************************************************************************)
EXTENDS ContentPipeline, SequenceTheorems, FiniteSetTheorems, TLAPS

-----------------------------------------------------------------------------
(* The inductive invariant, in named parts.                                *)

\* The operations of an actor, the steps of an operation, and the statuses an
\* actor may have decided to write at a step.
OpsOf(a) == CASE a = Ingest -> {"none", "upload", "download"}
              [] a = Consumer -> {"none", "consume"}
              [] a = Reconciler -> {"none", "reconcile"}
              [] OTHER -> {"none", "text", "download", "summary", "block", "delete"}

Summary == {"lock", "generate", "full", "partial", "giveup"}
StepsOf(op) ==
    CASE op = "none" -> {"idle", "over"}
      [] op = "upload" -> {"exists", "register"}
      [] op = "text" -> {"requeue", "exists", "register"}
      [] op = "download" -> {"repull", "download", "pulled", "unpulled", "exists", "register"}
      [] op = "summary" -> {"acquire"} \union Summary
      [] op = "block" -> {"acquire", "lock", "generate", "restore"}
      [] op = "delete" -> {"erase"}
      [] op = "consume" -> {"started", "store", "blank", "failed", "begin", "clear", "ack"}
                              \union Summary
      [] OTHER -> {"begin", "generate", "full", "giveup", "markfailed"}

GoalsAt(op, pc) ==
    CASE op = "block" -> {"COMPLETED", "SUMMARY_FAILED"}
      [] pc \in Validated -> {NoGoal, Target(pc)}
      [] pc = "requeue" -> {"QUEUED"}
      [] pc = "repull" -> {"PULLING"}
      [] pc = "markfailed" -> {"ASR_FAILED", "OCR_FAILED", "SUMMARY_FAILED"}
      [] OTHER -> {NoGoal}

\* Every actor is at a step of an operation of its own, with a goal of that
\* step; the backend's two loops are never over.
InOrder(a) ==
    /\ act[a].op \in OpsOf(a)
    /\ act[a].pc \in StepsOf(act[a].op)
    /\ act[a].goal \in GoalsAt(act[a].op, act[a].pc)
    /\ a \in {Consumer, Reconciler} => act[a].pc # "over"
ActorsInOrder == \A a \in Actors : InOrder(a)

\* What the consumer handles is there.
EntryThere == act[Consumer].pc # "idle" => at <= Len(pend)

ControlInv == ContentTypeOK /\ ActorsInOrder /\ EntryThere

-----------------------------------------------------------------------------
(* Facts about the constants and the operators.                            *)

\* Three names are at most three things.
LEMMA AtMostThree ==
  ASSUME NEW x, NEW y, NEW z
  PROVE  Cardinality({x, y, z}) # 4
<1>1. IsFiniteSet({z}) /\ Cardinality({z}) = 1
  BY FS_Singleton
<1>2. IsFiniteSet({z} \union {y}) /\ Cardinality({z} \union {y}) \in 1..2
  BY <1>1, FS_AddElement
<1>3. Cardinality(({z} \union {y}) \union {x}) \in 1..3
  BY <1>2, FS_AddElement
<1>4. ({z} \union {y}) \union {x} = {x, y, z}
  OBVIOUS
<1> QED
  BY <1>3, <1>4

\* The names of the backend's actors differ, from each other and from those of
\* the requests.
LEMMA NamesDiffer ==
    /\ Ingest # Consumer /\ Ingest # Reconciler /\ Consumer # Reconciler
    /\ Nobody \notin Actors
    /\ Ingest \notin Requests /\ Consumer \notin Requests /\ Reconciler \notin Requests
    /\ Consumer \notin Jobs /\ Reconciler \notin Jobs
<1> DEFINE Named == {Ingest, Consumer, Reconciler, Nobody}
<1>1. ASSUME NEW x, NEW y, NEW z, Named = {x, y, z} PROVE FALSE
  BY <1>1, AtMostThree, PipelineAssumption DEF PipelineAssumption
<1>2. Ingest # Consumer /\ Ingest # Reconciler /\ Consumer # Reconciler
  BY <1>1
<1>3. Nobody # Ingest /\ Nobody # Consumer /\ Nobody # Reconciler
  BY <1>1
<1>4. Requests \intersect Named = {}
  BY PipelineAssumption DEF PipelineAssumption
<1> QED
  BY <1>2, <1>3, <1>4 DEF Actors, Jobs

\* The status a validated update is after is one of the file's.
LEMMA TargetTyped ==
  ASSUME NEW pc
  PROVE  Target(pc) \in Statuses
  BY DEF Target, WorkingStatus, FailedStatus, Statuses, Processing, Terminal

\* A step the procedure of an actor may go on to.
GoesOn(a, pc) ==
    \/ pc = Rest(a)
    \/ /\ act[a].op \notin {"block", "none"}
       /\ pc \in StepsOf(act[a].op) \ {"requeue", "repull"}

\* The step after an update is one the procedure may go on to.
LEMMA FollowGoesOn ==
  ASSUME ControlInv, NEW a \in Actors, act[a].pc \in Validated \union Forced
  PROVE  GoesOn(a, Follow(a))
<1>1. InOrder(a)
  BY DEF ControlInv, ActorsInOrder
<1>2. act[a].op \notin {"block", "none"}
  BY <1>1 DEF InOrder, StepsOf, Validated, Forced
<1> QED
  BY <1>1, <1>2, NamesDiffer DEF InOrder, StepsOf, Validated, Forced, GoesOn, Follow, OpsOf,
        Summary, Rest

\* So is the handler of a refused transition.
LEMMA HandlerGoesOn ==
  ASSUME ControlInv, NEW a \in Actors, act[a].pc \in Validated, Handler(a) # "out"
  PROVE  GoesOn(a, Handler(a))
<1>1. InOrder(a)
  BY DEF ControlInv, ActorsInOrder
<1>2. act[a].op \notin {"block", "none"}
  BY <1>1 DEF InOrder, StepsOf, Validated
<1> QED
  BY <1>1, <1>2, NamesDiffer DEF InOrder, StepsOf, Validated, GoesOn, Handler, OpsOf, Summary

-----------------------------------------------------------------------------
(* Steps keep the actors in order.                                         *)

\* An actor is given a course that is in order: every actor is.
LEMMA CourseInOrder ==
  ASSUME ControlInv, NEW a \in Actors, NEW c \in Course,
         act' = [act EXCEPT ![a] = c], UNCHANGED kind,
         c.op \in OpsOf(a), c.pc \in StepsOf(c.op), c.goal \in GoalsAt(c.op, c.pc),
         a \in {Consumer, Reconciler} => c.pc # "over"
  PROVE  /\ act' \in [Actors -> Course]
         /\ ActorsInOrder'
         /\ act'[a] = c
         /\ \A b \in Actors \ {a} : act'[b] = act[b]
<1>1. act \in [Actors -> Course]
  BY DEF ControlInv, ContentTypeOK
<1>2. act' \in [Actors -> Course] /\ act'[a] = c /\ \A b \in Actors \ {a} : act'[b] = act[b]
  BY <1>1
<1>3. \A op, pc : GoalsAt(op, pc)' = GoalsAt(op, pc)
  BY DEF GoalsAt, Target, WorkingStatus, FailedStatus
<1>4. ASSUME NEW b \in Actors PROVE InOrder(b)'
  <2>1. CASE b = a
    BY <1>2, <1>3, <2>1 DEF InOrder
  <2>2. CASE b # a
    <3>1. act'[b] = act[b] /\ InOrder(b)
      BY <1>2, <2>2 DEF ControlInv, ActorsInOrder
    <3> QED
      BY <1>3, <3>1 DEF InOrder
  <2> QED
    BY <2>1, <2>2
<1> QED
  BY <1>2, <1>4 DEF ActorsInOrder

\* The steps of every operation are steps.
LEMMA StepsTyped ==
  ASSUME NEW op
  PROVE  StepsOf(op) \subseteq Steps
  BY DEF StepsOf, Steps, Summary

\* A procedure that goes on leaves every actor in order.
LEMMA MoveInOrder ==
  ASSUME ControlInv, NEW a \in Actors, NEW pc, GoesOn(a, pc), Goto(a, pc), UNCHANGED kind
  PROVE  /\ act' \in [Actors -> Course]
         /\ ActorsInOrder'
         /\ act'[a].pc = pc
         /\ act'[a].goal = IF pc = "markfailed" THEN "SUMMARY_FAILED" ELSE NoGoal
         /\ \A b \in Actors \ {a} : act'[b] = act[b]
<1> DEFINE c == [op |-> IF pc \in {"idle", "over"} THEN "none" ELSE act[a].op,
                 pc |-> pc,
                 goal |-> IF pc = "markfailed" THEN "SUMMARY_FAILED" ELSE NoGoal]
<1>1. act[a] \in Course /\ InOrder(a)
  BY DEF ControlInv, ContentTypeOK, ActorsInOrder
<1>2. pc \in Steps
  BY StepsTyped DEF GoesOn, Rest, Steps
<1>3. "SUMMARY_FAILED" \in Statuses
  BY DEF Statuses, Terminal
<1>4. c \in Course
  BY <1>1, <1>2, <1>3 DEF Course
<1>5. act' = [act EXCEPT ![a] = c]
  BY DEF Goto, ControlInv, ContentTypeOK
<1>6. c.op \in OpsOf(a)
  BY <1>1 DEF InOrder, OpsOf
<1>7. c.pc \in StepsOf(c.op)
  BY DEF GoesOn, Rest, StepsOf, Summary
<1>8. c.goal \in GoalsAt(c.op, c.pc)
  BY DEF GoesOn, Rest, GoalsAt, Validated, StepsOf, Summary
<1>9. a \in {Consumer, Reconciler} => c.pc # "over"
  BY <1>1 DEF GoesOn, Rest, StepsOf, Summary
<1> HIDE DEF c
<1>10. act' \in [Actors -> Course] /\ ActorsInOrder' /\ act'[a] = c
       /\ \A b \in Actors \ {a} : act'[b] = act[b]
  BY <1>4, <1>5, <1>6, <1>7, <1>8, <1>9, CourseInOrder
<1> QED
  BY <1>10 DEF c

\* A move of a procedure that was under way leaves the consumer's entry there.
LEMMA MoveKeeps ==
  ASSUME ControlInv, NEW a \in Actors, act[a].pc # "idle", NEW pc, GoesOn(a, pc),
         Goto(a, pc), UNCHANGED <<kind, pend, at>>
  PROVE  act' \in [Actors -> Course] /\ ActorsInOrder' /\ EntryThere'
<1>1. /\ act' \in [Actors -> Course] /\ ActorsInOrder'
      /\ \A b \in Actors \ {a} : act'[b] = act[b]
  BY MoveInOrder
<1>2. EntryThere'
  BY <1>1 DEF EntryThere, ControlInv, Actors
<1> QED
  BY <1>1, <1>2

\* So does the exception that ends one.
LEMMA RaiseKeeps ==
  ASSUME ControlInv, NEW a \in Actors, act[a].pc # "idle", RaiseOut(a),
         UNCHANGED <<kind, pend>>
  PROVE  /\ act' \in [Actors -> Course] /\ ActorsInOrder' /\ EntryThere'
         /\ at' \in 1..(Len(pend') + 1)
<1>1. /\ act' \in [Actors -> Course] /\ ActorsInOrder' /\ act'[a].pc = Rest(a)
      /\ \A b \in Actors \ {a} : act'[b] = act[b]
  BY MoveInOrder DEF RaiseOut, GoesOn
<1>2. pend \in Seq(Entry) /\ at \in 1..(Len(pend) + 1)
  BY DEF ControlInv, ContentTypeOK
<1>3. CASE a = Consumer
  BY <1>1, <1>2, <1>3 DEF RaiseOut, ControlInv, EntryThere, Rest
<1>4. CASE a # Consumer
  BY <1>1, <1>2, <1>4 DEF RaiseOut, ControlInv, EntryThere, Actors
<1> QED
  BY <1>1, <1>3, <1>4

\* Only the consumer is at the step that stores a result, or past one that
\* reads the entry.
LEMMA StoreIsConsumers ==
  ASSUME ControlInv, NEW a \in Actors, act[a].pc \in {"store", "blank", "started", "failed"}
  PROVE  a = Consumer /\ at \in 1..Len(pend) /\ pend[at] \in Entry
<1>1. InOrder(a)
  BY DEF ControlInv, ActorsInOrder
<1>2. a = Consumer
  BY <1>1, NamesDiffer DEF InOrder, OpsOf, StepsOf, Summary, Actors
<1> QED
  BY <1>2 DEF ControlInv, ContentTypeOK, EntryThere

\* A result that is kept leaves the row and the history well typed.
LEMMA KeepResultTyped ==
  ASSUME ControlInv, NEW a \in Actors, KeepResult(a)
  PROVE  text' \in BOOLEAN /\ kept' \subseteq Jobs
<1>1. text \in BOOLEAN /\ kept \subseteq Jobs
  BY DEF ControlInv, ContentTypeOK
<1>2. CASE act[a].pc = "store"
  BY <1>1, <1>2, StoreIsConsumers DEF KeepResult, Entry
<1> QED
  BY <1>1, <1>2 DEF KeepResult

\* Checking a transition keeps the types and the control.
LEMMA CheckKeepsControl ==
  ASSUME ControlInv, NEW a \in Actors, StatusChecked(a)
  PROVE  ControlInv'
<1> DEFINE pc == act[a].pc
<1>1. /\ pc \in Validated /\ pc # "idle"
      /\ UNCHANGED <<kind, status, sections, queueVars, stream, pend, holder, faults>>
  BY DEF StatusChecked, Validated
<1>2. SUFFICES /\ act' \in [Actors -> Course] /\ ActorsInOrder' /\ EntryThere'
               /\ at' \in 1..(Len(pend') + 1)
               /\ text' \in BOOLEAN /\ kept' \subseteq Jobs
  BY <1>1, <1>2 DEF ControlInv, ContentTypeOK, queueVars
<1>3. /\ text \in BOOLEAN /\ kept \subseteq Jobs
      /\ at \in 1..(Len(pend) + 1)
  BY DEF ControlInv, ContentTypeOK
<1>4. GoesOn(a, Follow(a))
  BY <1>1, FollowGoesOn
<1>5. CASE Goto(a, Follow(a)) /\ KeepResult(a) /\ UNCHANGED at
  BY <1>1, <1>3, <1>4, <1>5, MoveKeeps, KeepResultTyped
<1>6. CASE /\ IF pc = "pulled" THEN Goto(a, "unpulled") ELSE Goto(a, Follow(a))
           /\ UNCHANGED <<text, kept, at>>
  <2>1. pc = "pulled" => Handler(a) = "unpulled"
    BY DEF Handler
  <2>2. pc = "pulled" => GoesOn(a, "unpulled")
    BY <1>1, <2>1, HandlerGoesOn
  <2> QED
    BY <1>1, <1>3, <1>4, <1>6, <2>2, MoveKeeps
<1>7. CASE act' = [act EXCEPT ![a].goal = Target(pc)] /\ UNCHANGED <<text, kept, at>>
  <2> DEFINE c == [act[a] EXCEPT !.goal = Target(pc)]
  <2>1. act[a] \in Course /\ InOrder(a) /\ act \in [Actors -> Course]
    BY DEF ControlInv, ContentTypeOK, ActorsInOrder
  <2>2. c \in Course /\ c.op = act[a].op /\ c.pc = pc /\ c.goal = Target(pc)
    BY <2>1, TargetTyped DEF Course
  <2>3. act' = [act EXCEPT ![a] = c]
    BY <1>7, <2>1
  <2>4. c.op \in OpsOf(a) /\ c.pc \in StepsOf(c.op) /\ (a \in {Consumer, Reconciler} => c.pc # "over")
    BY <2>1, <2>2 DEF InOrder
  <2>5. c.goal \in GoalsAt(c.op, c.pc)
    BY <1>1, <2>2, <2>4 DEF GoalsAt, StepsOf, Validated
  <2> HIDE DEF c
  <2>6. /\ act' \in [Actors -> Course] /\ ActorsInOrder' /\ act'[a] = c
        /\ \A b \in Actors \ {a} : act'[b] = act[b]
    BY <1>1, <2>2, <2>3, <2>4, <2>5, CourseInOrder
  <2>7. EntryThere'
    BY <1>1, <1>7, <2>2, <2>6 DEF EntryThere, ControlInv, Actors
  <2> QED
    BY <1>1, <1>3, <1>7, <2>6, <2>7
<1>8. CASE /\ IF Handler(a) = "out" THEN RaiseOut(a)
                                    ELSE Goto(a, Handler(a)) /\ UNCHANGED at
           /\ UNCHANGED <<text, kept>>
  <2>1. CASE Handler(a) = "out"
    BY <1>1, <1>3, <1>8, <2>1, RaiseKeeps
  <2>2. CASE Handler(a) # "out"
    BY <1>1, <1>3, <1>8, <2>2, HandlerGoesOn, MoveKeeps
  <2> QED
    BY <2>1, <2>2
<1> QED
  BY <1>5, <1>6, <1>7, <1>8 DEF StatusChecked

\* Writing a status keeps the types and the control.
LEMMA WriteKeepsControl ==
  ASSUME ControlInv, NEW a \in Actors, StatusWritten(a)
  PROVE  ControlInv'
<1>1. /\ act[a].pc \in Validated \union Forced /\ act[a].pc # "idle"
      /\ UNCHANGED <<kind, sections, queueVars, streamVars, holder, faults>>
  BY DEF StatusWritten, Validated, Forced
<1>2. act' \in [Actors -> Course] /\ ActorsInOrder' /\ EntryThere'
  BY <1>1, FollowGoesOn, MoveKeeps DEF StatusWritten, streamVars
<1>3. text' \in BOOLEAN /\ kept' \subseteq Jobs
  BY KeepResultTyped DEF StatusWritten
<1>4. status' \in Statuses \union {"deleted"}
  BY DEF StatusWritten, ControlInv, ContentTypeOK, Course
<1> QED
  BY <1>1, <1>2, <1>3, <1>4 DEF ControlInv, ContentTypeOK, queueVars, streamVars

\* A step to another pc of the same operation, the goal kept.
LEMMA StepKeeps ==
  ASSUME ControlInv, NEW a \in Actors, act[a].pc # "idle", NEW pc,
         pc \in StepsOf(act[a].op) \ {"over"}, act[a].goal \in GoalsAt(act[a].op, pc),
         act' = [act EXCEPT ![a].pc = pc], UNCHANGED <<kind, pend, at>>
  PROVE  /\ act' \in [Actors -> Course] /\ ActorsInOrder' /\ EntryThere'
         /\ act'[a].pc = pc /\ act'[a].goal = act[a].goal
         /\ \A b \in Actors \ {a} : act'[b] = act[b]
<1> DEFINE c == [act[a] EXCEPT !.pc = pc]
<1>1. act[a] \in Course /\ InOrder(a) /\ act \in [Actors -> Course]
  BY DEF ControlInv, ContentTypeOK, ActorsInOrder
<1>2. c \in Course /\ c.op = act[a].op /\ c.pc = pc /\ c.goal = act[a].goal
  BY <1>1, StepsTyped DEF Course
<1>3. act' = [act EXCEPT ![a] = c]
  BY <1>1
<1>4. c.op \in OpsOf(a) /\ c.pc \in StepsOf(c.op) /\ c.goal \in GoalsAt(c.op, c.pc)
      /\ (a \in {Consumer, Reconciler} => c.pc # "over")
  BY <1>1, <1>2 DEF InOrder
<1> HIDE DEF c
<1>5. /\ act' \in [Actors -> Course] /\ ActorsInOrder' /\ act'[a] = c
      /\ \A b \in Actors \ {a} : act'[b] = act[b]
  BY <1>2, <1>3, <1>4, CourseInOrder
<1>6. EntryThere'
  BY <1>5, <1>2 DEF EntryThere, ControlInv, Actors
<1> QED
  BY <1>2, <1>5, <1>6

\* An idle actor that is not the consumer begins an operation.
LEMMA BeginKeeps ==
  ASSUME ControlInv, NEW a \in Actors \ {Consumer}, NEW op, NEW pc, NEW goal,
         Enters(a, op, pc, goal), UNCHANGED <<kind, pend, at>>,
         op \in OpsOf(a), pc \in StepsOf(op) \ {"over"}, goal \in GoalsAt(op, pc)
  PROVE  /\ act' \in [Actors -> Course] /\ ActorsInOrder' /\ EntryThere'
         /\ act'[a] = [op |-> op, pc |-> pc, goal |-> goal]
         /\ \A b \in Actors \ {a} : act'[b] = act[b]
<1> DEFINE c == [op |-> op, pc |-> pc, goal |-> goal]
<1>1. GoalsAt(op, pc) \subseteq Statuses \union {NoGoal}
  BY TargetTyped DEF GoalsAt, Statuses, Processing, Terminal
<1>2. op \in {"none", "upload", "consume", "reconcile", "text", "download", "summary",
              "block", "delete"}
  BY DEF OpsOf
<1>3. c \in Course
  BY <1>1, <1>2, StepsTyped DEF Course
<1>4. act' = [act EXCEPT ![a] = c]
  BY DEF Enters
<1>5. /\ act' \in [Actors -> Course] /\ ActorsInOrder' /\ act'[a] = c
      /\ \A b \in Actors \ {a} : act'[b] = act[b]
  BY <1>3, <1>4, CourseInOrder
<1>6. EntryThere'
  BY <1>5 DEF EntryThere, ControlInv, Actors
<1> QED
  BY <1>5, <1>6

-----------------------------------------------------------------------------
(* The actions of the queue adapter, the upload and the download.          *)

\* Who sends a task enqueues under a name of its own.
LEMMA SendersAreJobs ==
  ASSUME ControlInv, NEW a \in Actors, act[a].pc \in {"exists", "register", "download"}
  PROVE  /\ a \in Jobs /\ act[a].pc # "idle" /\ Rest(a) = "over"
         /\ act[a].op \in {"upload", "text", "download"}
         /\ act[a].pc = "download" => act[a].op = "download"
<1>1. InOrder(a)
  BY DEF ControlInv, ActorsInOrder
<1> QED
  BY <1>1, NamesDiffer DEF InOrder, OpsOf, StepsOf, Summary, Actors, Jobs, Rest

\* Sending a task, and what follows it, keeps the types and the control.
LEMMA QueueKeepsControl ==
  ASSUME ControlInv, NEW a \in Actors,
         DuplicateSkipped(a) \/ TaskSent(a) \/ JobRegistered(a)
  PROVE  ControlInv'
<1>1. /\ act[a].pc \in {"exists", "register"}
      /\ UNCHANGED <<rowVars, streamVars, holder, historyVars>>
      /\ Goto(a, "over") \/ Goto(a, "register")
  BY DEF DuplicateSkipped, TaskSent, JobRegistered, queueVars
<1>2. GoesOn(a, "over") /\ GoesOn(a, "register") /\ a \in Jobs /\ act[a].pc # "idle"
  BY <1>1, SendersAreJobs DEF GoesOn, StepsOf
<1>3. act' \in [Actors -> Course] /\ ActorsInOrder' /\ EntryThere'
  BY <1>1, <1>2, MoveKeeps DEF rowVars, streamVars
<1>4. key' \in Jobs \union {Nobody}
  BY <1>2 DEF DuplicateSkipped, TaskSent, JobRegistered, queueVars, ControlInv, ContentTypeOK
<1>5. jobs' \in [Jobs -> Job]
  BY <1>2 DEF DuplicateSkipped, TaskSent, JobRegistered, queueVars, ControlInv, ContentTypeOK, Job
<1> QED
  BY <1>1, <1>3, <1>4, <1>5 DEF ControlInv, ContentTypeOK, rowVars, streamVars, historyVars

\* A fault is counted within the bound.
LEMMA FaultTyped ==
  ASSUME ControlInv, NEW k \in FaultKinds, Fault(k)
  PROVE  /\ faults' \in [FaultKinds -> 0..MaxFaults]
         /\ faults'[k] = faults[k] + 1
         /\ \A f \in FaultKinds \ {k} : faults'[f] = faults[f]
<1>1. faults \in [FaultKinds -> 0..MaxFaults] /\ MaxFaults \in Nat
  BY PipelineAssumption DEF PipelineAssumption, ControlInv, ContentTypeOK
<1>2. /\ faults["crash"] \in Nat /\ faults["worker"] \in Nat /\ faults["lock"] \in Nat
      /\ faults["call"] \in Nat /\ faults["ending"] \in Nat /\ faults["slow"] \in Nat
  BY <1>1 DEF FaultKinds
<1>3. TotalFaults < MaxFaults /\ faults' = [faults EXCEPT ![k] = @ + 1]
  BY DEF Fault
<1>4. faults[k] + 1 \in 0..MaxFaults
  BY <1>1, <1>2, <1>3 DEF FaultKinds, TotalFaults
<1> QED
  BY <1>1, <1>3, <1>4

\* A task that cannot be sent keeps them.
LEMMA EnqueueFailsKeepsControl ==
  ASSUME ControlInv, NEW a \in Actors, EnqueueFails(a)
  PROVE  ControlInv'
<1>1. /\ act[a].pc \in {"exists", "register"}
      /\ UNCHANGED <<rowVars, queueVars, streamVars, holder, kept>>
  BY DEF EnqueueFails
<1>2. GoesOn(a, "over") /\ act[a].pc # "idle" /\ (act[a].op = "download" => GoesOn(a, "unpulled"))
  BY <1>1, SendersAreJobs DEF GoesOn, StepsOf
<1>3. act' \in [Actors -> Course] /\ ActorsInOrder' /\ EntryThere'
  BY <1>1, <1>2, MoveKeeps DEF EnqueueFails, rowVars, streamVars
<1>4. faults' \in [FaultKinds -> 0..MaxFaults]
  BY FaultTyped DEF EnqueueFails, FaultKinds
<1> QED
  BY <1>1, <1>3, <1>4 DEF ControlInv, ContentTypeOK, rowVars, queueVars, streamVars

\* The end of a download keeps them.
LEMMA DownloadKeepsControl ==
  ASSUME ControlInv, NEW a \in Actors, DownloadDone(a) \/ DownloadFails(a)
  PROVE  ControlInv'
<1>1. /\ act[a].pc = "download"
      /\ UNCHANGED <<rowVars, queueVars, streamVars, holder, historyVars>>
  BY DEF DownloadDone, DownloadFails
<1>2. GoesOn(a, "pulled") /\ GoesOn(a, "unpulled") /\ act[a].pc # "idle"
  BY <1>1, SendersAreJobs DEF GoesOn, StepsOf
<1>3. act' \in [Actors -> Course] /\ ActorsInOrder' /\ EntryThere'
  BY <1>1, <1>2, MoveKeeps DEF DownloadDone, DownloadFails, rowVars, streamVars
<1> QED
  BY <1>1, <1>3 DEF ControlInv, ContentTypeOK, rowVars, queueVars, streamVars, historyVars

-----------------------------------------------------------------------------
(* The requests and the summary runner.                                    *)

\* The actors of the requests are none of the named ones.
LEMMA RequestsAreOthers ==
  ASSUME NEW r \in Requests
  PROVE  /\ r \in Actors \ {Ingest, Consumer, Reconciler} /\ Rest(r) = "over"
         /\ OpsOf(r) = {"none", "text", "download", "summary", "block", "delete"}
  BY NamesDiffer DEF Actors, Rest, OpsOf

\* What the user asks for begins in order.
LEMMA AskKeepsControl ==
  ASSUME ControlInv, NEW r \in Requests, UserAsks(r)
  PROVE  ControlInv'
<1>1. UNCHANGED <<rowVars, key, streamVars, holder, historyVars>>
  BY DEF UserAsks, RetryText, RetryDownload, RetrySummary, RegenerateBlock, DeleteBegins,
         queueVars
<1>2. jobs' \in [Jobs -> Job]
  <2>1. jobs \in [Jobs -> Job]
    BY DEF ControlInv, ContentTypeOK
  <2>2. CASE DeleteBegins(r)
    <3>1. PICK revoked : jobs' = [j \in Jobs |-> IF j \in revoked
                                                 THEN [jobs[j] EXCEPT !.phase = "over"]
                                                 ELSE jobs[j]]
      BY <2>2 DEF DeleteBegins
    <3>2. \A j \in Jobs : jobs[j] \in Job /\ [jobs[j] EXCEPT !.phase = "over"] \in Job
      BY <2>1 DEF Job
    <3> QED
      BY <3>1, <3>2
  <2>3. CASE UNCHANGED jobs
    BY <2>1, <2>3
  <2> QED
    BY <2>2, <2>3 DEF UserAsks, RetryText, RetryDownload, RetrySummary, RegenerateBlock,
                      queueVars
<1>3. UNCHANGED <<kind, pend, at>>
  BY <1>1 DEF rowVars, streamVars
<1>4. act' \in [Actors -> Course] /\ ActorsInOrder' /\ EntryThere'
  <2>1. CASE RetryText(r)
    BY <1>3, <2>1, RequestsAreOthers, BeginKeeps
       DEF RetryText, StepsOf, GoalsAt, Validated
  <2>2. CASE RetryDownload(r)
    BY <1>3, <2>2, RequestsAreOthers, BeginKeeps
       DEF RetryDownload, StepsOf, GoalsAt, Validated
  <2>3. CASE RetrySummary(r)
    BY <1>3, <2>3, RequestsAreOthers, BeginKeeps
       DEF RetrySummary, StepsOf, GoalsAt, Validated
  <2>4. CASE RegenerateBlock(r)
    <3>1. status \in {"COMPLETED", "SUMMARY_FAILED"} /\ Enters(r, "block", "acquire", status)
      BY <2>4, Zenon DEF RegenerateBlock
    <3>2. GoalsAt("block", "acquire") = {"COMPLETED", "SUMMARY_FAILED"}
      BY DEF GoalsAt, Validated
    <3>3. "acquire" \in StepsOf("block") \ {"over"} /\ "block" \in OpsOf(r)
      BY RequestsAreOthers DEF StepsOf
    <3> QED
      BY <1>3, <3>1, <3>2, <3>3, RequestsAreOthers, BeginKeeps
  <2>5. CASE DeleteBegins(r)
    BY <1>3, <2>5, RequestsAreOthers, BeginKeeps
       DEF DeleteBegins, StepsOf, GoalsAt, Validated
  <2> QED
    BY <2>1, <2>2, <2>3, <2>4, <2>5 DEF UserAsks
<1> QED
  BY <1>1, <1>2, <1>4 DEF ControlInv, ContentTypeOK, rowVars, streamVars, historyVars

\* A request at the try of the status is a summary or a block.
LEMMA AcquireOps ==
  ASSUME ControlInv, NEW r \in Requests, act[r].pc \in {"acquire", "restore", "erase"}
  PROVE  /\ act[r].pc # "idle" /\ GoesOn(r, "over")
         /\ act[r].pc = "acquire" => act[r].op \in {"summary", "block"}
         /\ act[r].pc = "restore" => act[r].op = "block"
         /\ act[r].op = "block" => act[r].goal \in {"COMPLETED", "SUMMARY_FAILED"}
         /\ act[r].op = "summary" => act[r].goal = NoGoal
<1>1. InOrder(r)
  BY RequestsAreOthers DEF ControlInv, ActorsInOrder
<1> QED
  BY <1>1, RequestsAreOthers DEF InOrder, StepsOf, Summary, GoalsAt, Validated, GoesOn

\* The steps of a request keep the types and the control.
LEMMA RequestKeepsControl ==
  ASSUME ControlInv, NEW r \in Requests, RequestStep(r)
  PROVE  ControlInv'
<1>1. UNCHANGED <<kind, queueVars, streamVars, holder, historyVars>>
      /\ act[r].pc \in {"acquire", "restore", "erase"} /\ r \in Actors
  BY RequestsAreOthers
     DEF RequestStep, SummarizingAcquired, SummarizingRefused, StatusRestored, DeleteCommits,
         rowVars
<1>2. text' \in BOOLEAN /\ sections' \in BOOLEAN
  BY DEF RequestStep, SummarizingAcquired, SummarizingRefused, StatusRestored, DeleteCommits,
         rowVars, ControlInv, ContentTypeOK
<1>3. status' \in Statuses \union {"deleted"}
  BY <1>1, AcquireOps
     DEF RequestStep, SummarizingAcquired, SummarizingRefused, StatusRestored, DeleteCommits,
         rowVars, ControlInv, ContentTypeOK, Statuses, Processing, Terminal
<1>4. act' \in [Actors -> Course] /\ ActorsInOrder' /\ EntryThere'
  <2>1. CASE act[r].pc = "acquire" /\ act' = [act EXCEPT ![r].pc = "lock"]
    <3>1. "lock" \in StepsOf(act[r].op) \ {"over"} /\ act[r].goal \in GoalsAt(act[r].op, "lock")
      BY <1>1, <2>1, AcquireOps DEF StepsOf, Summary, GoalsAt, Validated
    <3> QED
      BY <1>1, <2>1, <3>1, StepKeeps DEF streamVars
  <2>2. CASE Goto(r, "over")
    BY <1>1, <2>2, AcquireOps, MoveKeeps DEF streamVars
  <2> QED
    BY <2>1, <2>2
       DEF RequestStep, SummarizingAcquired, SummarizingRefused, StatusRestored, DeleteCommits
<1> QED
  BY <1>1, <1>2, <1>3, <1>4 DEF ControlInv, ContentTypeOK, queueVars, streamVars, historyVars

\* Who runs a summary: never the reconciler at the lock, and a goal is kept for
\* a block only.
LEMMA RunnerOps ==
  ASSUME ControlInv, NEW a \in Actors, act[a].pc \in {"lock", "generate"}
  PROVE  /\ act[a].op \in {"summary", "block", "consume", "reconcile"}
         /\ act[a].op = "reconcile" <=> a = Reconciler
         /\ act[a].pc = "lock" => a # Reconciler
         /\ act[a].op = "block" => act[a].goal \in {"COMPLETED", "SUMMARY_FAILED"}
         /\ act[a].op # "block" => act[a].goal = NoGoal
<1>1. InOrder(a)
  BY DEF ControlInv, ActorsInOrder
<1> QED
  BY <1>1, NamesDiffer DEF InOrder, OpsOf, StepsOf, Summary, GoalsAt, Validated

\* The steps of a summary run keep them.
LEMMA RunnerKeepsControl ==
  ASSUME ControlInv, NEW a \in Actors,
         LockTaken(a) \/ LockBusy(a) \/ BlockPersisted(a) \/ GeneratorEnds(a)
  PROVE  ControlInv'
<1>1. /\ act[a].pc \in {"lock", "generate"} /\ act[a].pc # "idle"
      /\ UNCHANGED <<kind, status, text, queueVars, streamVars, historyVars>>
  BY DEF LockTaken, LockBusy, BlockPersisted, GeneratorEnds, rowVars
<1>2. holder' \in Actors \union {Nobody} /\ sections' \in BOOLEAN
  BY DEF LockTaken, LockBusy, BlockPersisted, GeneratorEnds, rowVars, ControlInv, ContentTypeOK
<1>3. act' \in [Actors -> Course] /\ ActorsInOrder' /\ EntryThere'
  <2>1. CASE UNCHANGED act
    BY <1>1, <2>1 DEF ControlInv, ContentTypeOK, ActorsInOrder, InOrder, EntryThere, streamVars,
                      GoalsAt, Target, WorkingStatus, FailedStatus
  <2>2. ASSUME NEW pc \in {"generate", "full", "partial", "giveup", "restore"},
               act' = [act EXCEPT ![a].pc = pc],
               pc \in {"full", "partial", "giveup"} => act[a].op # "block",
               pc = "restore" => act[a].op = "block",
               pc = "partial" => a # Reconciler
        PROVE  act' \in [Actors -> Course] /\ ActorsInOrder' /\ EntryThere'
    <3>1. pc \in StepsOf(act[a].op) \ {"over"}
      BY <1>1, <2>2, RunnerOps DEF StepsOf, Summary
    <3>2. act[a].goal \in GoalsAt(act[a].op, pc)
      BY <1>1, <2>2, RunnerOps DEF GoalsAt, Validated
    <3> QED
      BY <1>1, <2>2, <3>1, <3>2, StepKeeps DEF streamVars
  <2>3. CASE LockTaken(a)
    BY <2>2, <2>3 DEF LockTaken
  <2>4. CASE LockBusy(a)
    BY <2>2, <2>4 DEF LockBusy, RunnerRaises
  <2>5. CASE GeneratorEnds(a)
    BY <2>2, <2>5 DEF GeneratorEnds
  <2> QED
    BY <2>1, <2>3, <2>4, <2>5 DEF BlockPersisted
<1> QED
  BY <1>1, <1>2, <1>3 DEF ControlInv, ContentTypeOK, queueVars, streamVars, historyVars

-----------------------------------------------------------------------------
(* The worker, the consumer, the reconciler and the faults.                *)

\* A failure is published some number of times.
LEMMA FailurePublishedTyped ==
  ASSUME stream \in Seq(Entry), NEW j \in Jobs, NEW last, FailurePublished(j, last)
  PROVE  stream' \in Seq(Entry)
<1>1. PICK n \in {0, 1, 2} : stream' = stream \o [i \in 1..n |-> Result(j, "failed")]
  BY DEF FailurePublished, AsrFailures, OcrFailures
<1>2. Result(j, "failed") \in Entry
  BY DEF Result, Entry, Results
<1>3. [i \in 1..n |-> Result(j, "failed")] \in Seq(Entry)
  BY <1>2, IsASeq
<1> QED
  BY <1>1, <1>3, ConcatProperties

\* A result is published.
LEMMA ResultPublishedTyped ==
  ASSUME stream \in Seq(Entry), NEW j \in Jobs, NEW what \in Results,
         stream' = Append(stream, Result(j, what))
  PROVE  stream' \in Seq(Entry)
<1>1. Result(j, what) \in Entry
  BY DEF Result, Entry
<1> QED
  BY <1>1, AppendProperties

\* What leaves the rows, the actors and the entries in hand alone keeps them in
\* order.
LEMMA ActorsUntouched ==
  ASSUME ControlInv, UNCHANGED <<kind, act, pend, at>>
  PROVE  act' \in [Actors -> Course] /\ ActorsInOrder' /\ EntryThere'
  BY DEF ControlInv, ContentTypeOK, ActorsInOrder, InOrder, EntryThere, GoalsAt, Target,
         WorkingStatus, FailedStatus

\* The steps of a worker keep them.
LEMMA WorkerKeepsControl ==
  ASSUME ControlInv, NEW j \in Jobs,
         JobStarts(j) \/ JobSucceeds(j) \/ JobRetries(j) \/ JobFails(j) \/ WorkerLost(j)
  PROVE  ControlInv'
<1>1. UNCHANGED <<rowVars, key, pend, at, holder, act, kept>>
  BY DEF JobStarts, JobSucceeds, JobRetries, JobFails, WorkerLost, historyVars
<1>2. stream \in Seq(Entry) /\ jobs \in [Jobs -> Job] /\ MaxRetries \in Nat
  BY PipelineAssumption DEF PipelineAssumption, ControlInv, ContentTypeOK
<1>3. jobs[j] \in Job /\ jobs[j].tries \in 0..MaxRetries
  BY <1>2 DEF Job
<1>4. \A phase \in {"queued", "running", "over"} : Phase(j, phase) => jobs' \in [Jobs -> Job]
  BY <1>2, <1>3 DEF Phase, Job
<1>5. jobs[j].tries < MaxRetries /\ Retried(j) => jobs' \in [Jobs -> Job]
  <2> SUFFICES ASSUME jobs[j].tries < MaxRetries, Retried(j) PROVE jobs' \in [Jobs -> Job]
    OBVIOUS
  <2>1. [phase |-> "queued", tries |-> jobs[j].tries + 1] \in Job
    BY <1>2, <1>3 DEF Job
  <2> QED
    BY <1>2, <2>1 DEF Retried
<1>6. jobs' \in [Jobs -> Job]
  BY <1>4, <1>5 DEF JobStarts, JobSucceeds, JobRetries, JobFails, WorkerLost
<1>7. stream' \in Seq(Entry)
  BY <1>2, FailurePublishedTyped, ResultPublishedTyped
     DEF JobStarts, JobSucceeds, JobRetries, JobFails, WorkerLost, Results
<1>8. faults' \in [FaultKinds -> 0..MaxFaults]
  BY FaultTyped DEF JobStarts, JobSucceeds, JobRetries, JobFails, WorkerLost, historyVars,
                    FaultKinds, ControlInv, ContentTypeOK
<1>9. act' \in [Actors -> Course] /\ ActorsInOrder' /\ EntryThere'
  BY <1>1, ActorsUntouched DEF rowVars
<1> QED
  BY <1>1, <1>6, <1>7, <1>8, <1>9 DEF ControlInv, ContentTypeOK, rowVars

\* An entry is taken out of those in hand.
LEMMA RemoveAtTyped ==
  ASSUME NEW s \in Seq(Entry), NEW i \in 1..Len(s)
  PROVE  RemoveAt(s, i) \in Seq(Entry) /\ Len(RemoveAt(s, i)) = Len(s) - 1
<1>1. Len(s) \in Nat
  OBVIOUS
<1> DEFINE before == SubSeq(s, 1, i - 1)
           after == SubSeq(s, i + 1, Len(s))
<1>2. before \in Seq(Entry) /\ Len(before) = i - 1
  BY <1>1, SubSeqProperties
<1>3. after \in Seq(Entry) /\ Len(after) = Len(s) - i
  BY <1>1, SubSeqProperties
<1>4. RemoveAt(s, i) = before \o after
  BY DEF RemoveAt
<1> HIDE DEF before, after
<1>5. before \o after \in Seq(Entry) /\ Len(before \o after) = Len(before) + Len(after)
  BY <1>2, <1>3, ConcatProperties
<1> QED
  BY <1>1, <1>2, <1>3, <1>4, <1>5

\* The consumer is an actor that rests idle and only consumes.
LEMMA ConsumerIsOne == Consumer \in Actors /\ Rest(Consumer) = "idle" /\ OpsOf(Consumer) = {"none", "consume"}
  BY NamesDiffer DEF Actors, Rest, OpsOf

\* The entry in hand is a result, with a step to begin at.
LEMMA EntryInHand ==
  ASSUME ControlInv, at <= Len(pend)
  PROVE  /\ pend \in Seq(Entry) /\ at \in 1..Len(pend)
         /\ pend[at] \in Entry /\ pend[at].what \in Results
         /\ FirstStep[pend[at].what] \in {"started", "failed", "store"}
<1>1. pend \in Seq(Entry) /\ at \in 1..Len(pend)
  BY DEF ControlInv, ContentTypeOK
<1>2. pend[at] \in Entry
  BY <1>1
<1>3. pend[at].what \in Results
  BY <1>2 DEF Entry
<1>4. \A w \in Results : FirstStep[w] \in {"started", "failed", "store"}
  BY DEF FirstStep
<1> QED
  BY <1>1, <1>2, <1>3, <1>4

\* The consumer begins to handle an entry that is there.
LEMMA HandleKeepsControl ==
  ASSUME ControlInv, HandleResult
  PROVE  /\ ControlInv'
         /\ act'[Consumer] = At("consume", FirstStep[pend[at].what])
         /\ \A b \in Actors \ {Consumer} : act'[b] = act[b]
<1> DEFINE c == At("consume", FirstStep[pend[at].what])
<1>1. pend \in Seq(Entry) /\ at \in 1..Len(pend)
  BY EntryInHand DEF HandleResult
<1>2. FirstStep[pend[at].what] \in {"started", "failed", "store"}
  BY EntryInHand DEF HandleResult
<1>3. /\ c.op = "consume" /\ c.pc = FirstStep[pend[at].what] /\ c.goal = NoGoal /\ c \in Course
  BY <1>2 DEF At, Course, Steps
<1>4. act' = [act EXCEPT ![Consumer] = c]
      /\ UNCHANGED <<rowVars, queueVars, streamVars, holder, historyVars>>
  BY DEF HandleResult
<1>5. c.pc \in StepsOf(c.op) \ {"over"} /\ c.goal \in GoalsAt(c.op, c.pc)
  BY <1>2, <1>3 DEF StepsOf, GoalsAt, Validated
<1> HIDE DEF c
<1>6. /\ act' \in [Actors -> Course] /\ ActorsInOrder' /\ act'[Consumer] = c
      /\ \A b \in Actors \ {Consumer} : act'[b] = act[b]
  BY <1>3, <1>4, <1>5, ConsumerIsOne, CourseInOrder DEF rowVars
<1>7. EntryThere'
  BY <1>1, <1>4 DEF EntryThere, streamVars
<1>8. ControlInv'
  BY <1>4, <1>6, <1>7 DEF ControlInv, ContentTypeOK, rowVars, queueVars, streamVars, historyVars
<1> QED
  BY <1>6, <1>8 DEF c

\* The consumer reads results of the stream.
LEMMA ReadKeepsControl == ControlInv /\ ResultsRead => ControlInv'
<1> SUFFICES ASSUME ControlInv, ResultsRead PROVE ControlInv'
  OBVIOUS
<1>1. /\ pend \in Seq(Entry) /\ stream \in Seq(Entry) /\ at \in 1..(Len(pend) + 1)
      /\ pend' = pend \o stream /\ stream' = <<>> /\ act[Consumer].pc = "idle"
      /\ UNCHANGED <<rowVars, queueVars, at, holder, act, historyVars>>
  BY DEF ControlInv, ContentTypeOK, ResultsRead
<1>2. /\ pend' \in Seq(Entry) /\ Len(pend') = Len(pend) + Len(stream) /\ stream' \in Seq(Entry)
      /\ Len(pend) \in Nat /\ Len(stream) \in Nat
  BY <1>1, ConcatProperties
<1>3. at' \in 1..(Len(pend') + 1)
  BY <1>1, <1>2
<1>4. ActorsInOrder' /\ EntryThere'
  BY <1>1 DEF ControlInv, ContentTypeOK, ActorsInOrder, InOrder, EntryThere, GoalsAt, Target,
              WorkingStatus, FailedStatus, rowVars
<1> QED
  BY <1>1, <1>2, <1>3, <1>4 DEF ControlInv, ContentTypeOK, rowVars, queueVars, historyVars

\* The consumer clears the key of the active job.
LEMMA ClearKeepsControl == ControlInv /\ ActiveJobCleared => ControlInv'
<1> SUFFICES ASSUME ControlInv, ActiveJobCleared PROVE ControlInv'
  OBVIOUS
<1>1. /\ act[Consumer].pc = "clear" /\ Goto(Consumer, "ack") /\ key' = Nobody
      /\ UNCHANGED <<rowVars, jobs, streamVars, holder, historyVars>>
  BY DEF ActiveJobCleared
<1>2. GoesOn(Consumer, "ack") /\ act[Consumer].pc # "idle"
  BY <1>1, ConsumerIsOne DEF GoesOn, ControlInv, ActorsInOrder, InOrder, StepsOf
<1>3. act' \in [Actors -> Course] /\ ActorsInOrder' /\ EntryThere'
  BY <1>1, <1>2, ConsumerIsOne, MoveKeeps DEF rowVars, streamVars
<1> QED
  BY <1>1, <1>3 DEF ControlInv, ContentTypeOK, rowVars, streamVars, historyVars

\* The consumer acknowledges a result.
LEMMA AckKeepsControl == ControlInv /\ Acknowledged => ControlInv'
<1> SUFFICES ASSUME ControlInv, Acknowledged PROVE ControlInv'
  OBVIOUS
<1>1. /\ act[Consumer].pc = "ack" /\ Goto(Consumer, "idle") /\ pend' = RemoveAt(pend, at)
      /\ UNCHANGED <<rowVars, queueVars, stream, at, holder, historyVars>>
  BY DEF Acknowledged
<1>2. pend \in Seq(Entry) /\ at \in 1..Len(pend)
  BY <1>1 DEF ControlInv, ContentTypeOK, EntryThere
<1>3. pend' \in Seq(Entry) /\ at' \in 1..(Len(pend') + 1)
  BY <1>1, <1>2, RemoveAtTyped
<1>4. act' \in [Actors -> Course] /\ ActorsInOrder' /\ act'[Consumer].pc = "idle"
  BY <1>1, ConsumerIsOne, MoveInOrder DEF rowVars, GoesOn
<1>5. EntryThere'
  BY <1>4 DEF EntryThere
<1> QED
  BY <1>1, <1>3, <1>4, <1>5 DEF ControlInv, ContentTypeOK, rowVars, queueVars, historyVars

\* An update that fails takes its actor to the handler, or out of the procedure.
LEMMA UpdateFailsCourse ==
  ASSUME ControlInv, NEW a \in Actors, UpdateFails(a)
  PROVE  /\ act[a].pc \in Validated \union Forced \union {"acquire", "restore", "erase"}
         /\ UNCHANGED <<kind, status, text, sections, key, jobs, stream, pend, holder, kept>>
         /\ \A b \in Actors \ {a} : act'[b] = act[b]
         /\ \/ /\ Handler(a) # "out"
               /\ Goto(a, Handler(a)) /\ act'[a].pc = Handler(a)
               /\ UNCHANGED at
               /\ Fault("call")
            \/ /\ Handler(a) = "out" \/ a # Consumer
               /\ RaiseOut(a) /\ act'[a].pc = Rest(a)
               /\ Fault(IF act[a].pc \in Endings THEN "ending" ELSE "call")
<1>1. act \in [Actors -> Course]
  BY DEF ControlInv, ContentTypeOK
<1>2. /\ act[a].pc \in Validated \union Forced \union {"acquire", "restore", "erase"}
      /\ UNCHANGED <<kind, status, text, sections, key, jobs, stream, pend, holder, kept>>
      /\ \/ /\ Handler(a) # "out" /\ Goto(a, Handler(a)) /\ UNCHANGED at /\ Fault("call")
         \/ /\ Handler(a) = "out" \/ a # Consumer
            /\ RaiseOut(a) /\ Fault(IF act[a].pc \in Endings THEN "ending" ELSE "call")
  BY DEF UpdateFails, rowVars, queueVars
<1>3. ASSUME NEW pc, Goto(a, pc)
      PROVE  act'[a].pc = pc /\ \A b \in Actors \ {a} : act'[b] = act[b]
  BY <1>1, <1>3 DEF Goto
<1> QED
  BY <1>2, <1>3 DEF RaiseOut

\* It keeps the types and the control.
LEMMA UpdateFailsKeepsControl ==
  ASSUME ControlInv, NEW a \in Actors, UpdateFails(a)
  PROVE  ControlInv'
<1>1. /\ act[a].pc # "idle"
      /\ UNCHANGED <<kind, status, text, sections, key, jobs, stream, pend, holder, kept>>
  BY UpdateFailsCourse DEF Validated, Forced
<1>2. /\ act' \in [Actors -> Course] /\ ActorsInOrder' /\ EntryThere'
      /\ at' \in 1..(Len(pend') + 1)
  <2>1. CASE Handler(a) # "out" /\ Goto(a, Handler(a)) /\ UNCHANGED at
    <3>1. act[a].pc \in Validated
      BY <2>1 DEF Handler, Validated
    <3>2. GoesOn(a, Handler(a))
      BY <2>1, <3>1, HandlerGoesOn
    <3> QED
      BY <1>1, <2>1, <3>2, MoveKeeps DEF ControlInv, ContentTypeOK
  <2>2. CASE RaiseOut(a)
    BY <1>1, <2>2, RaiseKeeps
  <2> QED
    BY <2>1, <2>2, UpdateFailsCourse
<1>3. faults' \in [FaultKinds -> 0..MaxFaults]
  BY UpdateFailsCourse, FaultTyped DEF FaultKinds
<1> QED
  BY <1>1, <1>2, <1>3 DEF ControlInv, ContentTypeOK

\* The write lock runs out.
LEMMA LockExpiresKeepsControl == ControlInv /\ LockExpires => ControlInv'
<1> SUFFICES ASSUME ControlInv, LockExpires PROVE ControlInv'
  OBVIOUS
<1>1. holder' = Nobody /\ UNCHANGED <<rowVars, queueVars, streamVars, act, kept>>
  BY DEF LockExpires
<1>2. act' \in [Actors -> Course] /\ ActorsInOrder' /\ EntryThere'
  BY <1>1, ActorsUntouched DEF rowVars, streamVars
<1>3. faults' \in [FaultKinds -> 0..MaxFaults]
  BY FaultTyped DEF LockExpires, FaultKinds
<1> QED
  BY <1>1, <1>2, <1>3 DEF ControlInv, ContentTypeOK, rowVars, queueVars, streamVars

\* The steps of the watchdog keep the types and the control.
LEMMA ReconcilerKeepsControl == ControlInv /\ ReconcilerStep => ControlInv'
<1> SUFFICES ASSUME ControlInv, ReconcilerStep PROVE ControlInv'
  OBVIOUS
<1>1. UNCHANGED <<rowVars, queueVars, streamVars, holder, kept>> /\ FoundStuck
  BY DEF ReconcilerStep, MarkAsFailed, RequeueLlmJob
<1>2. faults' \in [FaultKinds -> 0..MaxFaults]
  BY <1>1, FaultTyped DEF FoundStuck, FaultKinds, ControlInv, ContentTypeOK
<1>3. Reconciler \in Actors \ {Consumer} /\ "reconcile" \in OpsOf(Reconciler)
  BY NamesDiffer DEF Actors, OpsOf
<1>4. FailureStateFor(status) \in GoalsAt("reconcile", "markfailed") \/ status = "PULLING"
  BY DEF GoalsAt, Validated, FailureStateFor
<1>5. "markfailed" \in StepsOf("reconcile") \ {"over"} /\ "begin" \in StepsOf("reconcile") \ {"over"}
      /\ NoGoal \in GoalsAt("reconcile", "begin")
  BY DEF StepsOf, GoalsAt, Validated
<1>6. act' \in [Actors -> Course] /\ ActorsInOrder' /\ EntryThere'
  <2>1. CASE MarkAsFailed
    <3>1. status # "PULLING" /\ Enters(Reconciler, "reconcile", "markfailed", FailureStateFor(status))
      BY <2>1 DEF MarkAsFailed
    <3> QED
      BY <1>1, <1>3, <1>4, <1>5, <3>1, BeginKeeps DEF rowVars, streamVars
  <2>2. CASE RequeueLlmJob
    BY <1>1, <1>3, <1>5, <2>2, BeginKeeps DEF RequeueLlmJob, rowVars, streamVars
  <2> QED
    BY <2>1, <2>2 DEF ReconcilerStep
<1> QED
  BY <1>1, <1>2, <1>6 DEF ControlInv, ContentTypeOK, rowVars, queueVars, streamVars

\* The backend dies: every actor is back at rest.
LEMMA CrashKeepsControl == ControlInv /\ Crash => ControlInv'
<1> SUFFICES ASSUME ControlInv, Crash PROVE ControlInv'
  OBVIOUS
<1>1. /\ act' = [a \in Actors |-> IF act[a].pc = "idle" THEN act[a] ELSE At("none", Rest(a))]
      /\ at' = 1 /\ pend' \in {pend, <<>>}
      /\ UNCHANGED <<rowVars, queueVars, stream, holder, kept>>
  BY DEF Crash
<1>2. pend' \in Seq(Entry) /\ Len(pend') \in Nat
  <2>1. pend \in Seq(Entry) /\ <<>> \in Seq(Entry)
    BY DEF ControlInv, ContentTypeOK
  <2>2. pend' \in Seq(Entry)
    BY <1>1, <2>1
  <2> QED
    BY <2>2, LenProperties
<1>3. at' \in 1..(Len(pend') + 1)
  BY <1>1, <1>2
<1>4. \A a \in Actors : act[a] \in Course /\ InOrder(a) /\ At("none", Rest(a)) \in Course
  BY DEF ControlInv, ContentTypeOK, ActorsInOrder, At, Rest, Course, Steps
<1>5. act' \in [Actors -> Course]
  BY <1>1, <1>4
<1>6. ASSUME NEW a \in Actors PROVE InOrder(a)'
  <2>1. CASE act[a].pc = "idle"
    BY <1>1, <1>4, <2>1 DEF InOrder, rowVars, GoalsAt, Target, WorkingStatus, FailedStatus
  <2>2. CASE act[a].pc # "idle"
    <3>1. act'[a] = At("none", Rest(a))
      BY <1>1, <2>2
    <3>2. act'[a].op = "none" /\ act'[a].pc = Rest(a) /\ act'[a].goal = NoGoal
      BY <3>1 DEF At
    <3>3. "none" \in OpsOf(a) /\ Rest(a) \in StepsOf("none")
      BY DEF OpsOf, StepsOf, Rest
    <3>4. NoGoal \in GoalsAt("none", Rest(a))'
      BY DEF GoalsAt, Rest, Validated
    <3> QED
      BY <3>2, <3>3, <3>4 DEF InOrder, Rest
  <2> QED
    BY <2>1, <2>2
<1>7. EntryThere'
  BY <1>1, ConsumerIsOne DEF EntryThere, At
<1>8. faults' \in [FaultKinds -> 0..MaxFaults]
  BY FaultTyped DEF Crash, FaultKinds
<1> QED
  BY <1>1, <1>2, <1>3, <1>5, <1>6, <1>7, <1>8
     DEF ControlInv, ContentTypeOK, ActorsInOrder, rowVars, queueVars

-----------------------------------------------------------------------------
(* The type invariant.                                                     *)

\* The control holds where the file starts, as an upload or a placeholder.
LEMMA InitControl == ContentInit => ControlInv
<1> SUFFICES ASSUME ContentInit PROVE ControlInv
  OBVIOUS
<1>1. /\ kind \in Kinds /\ text = FALSE /\ sections = FALSE /\ key = Nobody
      /\ jobs = [j \in Jobs |-> [phase |-> "none", tries |-> 0]]
      /\ stream = <<>> /\ pend = <<>> /\ at = 1 /\ holder = Nobody /\ kept = {}
      /\ faults = [k \in FaultKinds |-> 0]
  BY DEF ContentInit
<1>2. PICK first \in {At("upload", "exists"), At("download", "download")} :
        act = [a \in Actors |-> IF a = Ingest THEN first ELSE At("none", "idle")]
  BY DEF ContentInit, Uploaded, PlaceholderMade
<1>3. status \in Statuses
  BY DEF ContentInit, Uploaded, PlaceholderMade, Statuses, Processing
<1>4. At("upload", "exists") \in Course /\ At("download", "download") \in Course
      /\ At("none", "idle") \in Course
  BY DEF At, Course, Steps
<1>5. act \in [Actors -> Course]
  BY <1>2, <1>4
<1>6. ASSUME NEW a \in Actors PROVE InOrder(a)
  <2>1. CASE a = Ingest
    <3>1. act[a].op \in {"upload", "download"}
          /\ act[a].pc = (IF act[a].op = "upload" THEN "exists" ELSE "download")
          /\ act[a].goal = NoGoal
      BY <1>2, <2>1 DEF At
    <3> QED
      BY <2>1, <3>1, NamesDiffer DEF InOrder, OpsOf, StepsOf, GoalsAt, Validated
  <2>2. CASE a # Ingest
    <3>1. act[a].op = "none" /\ act[a].pc = "idle" /\ act[a].goal = NoGoal
      BY <1>2, <2>2 DEF At
    <3> QED
      BY <3>1 DEF InOrder, OpsOf, StepsOf, GoalsAt, Validated
  <2> QED
    BY <2>1, <2>2
<1>7. EntryThere
  <2>1. act[Consumer] = At("none", "idle")
    BY <1>2, NamesDiffer, ConsumerIsOne
  <2> QED
    BY <2>1 DEF EntryThere, At
<1>8. jobs \in [Jobs -> Job] /\ faults \in [FaultKinds -> 0..MaxFaults]
  BY <1>1, PipelineAssumption DEF PipelineAssumption, Job
<1>9. stream \in Seq(Entry) /\ pend \in Seq(Entry) /\ at \in 1..(Len(pend) + 1)
  BY <1>1
<1> QED
  BY <1>1, <1>3, <1>5, <1>6, <1>7, <1>8, <1>9 DEF ControlInv, ContentTypeOK, ActorsInOrder

\* Every step keeps the types and the control.
LEMMA NextKeepsControl == ControlInv /\ [ContentNext]_vars => ControlInv'
<1> SUFFICES ASSUME ControlInv, [ContentNext]_vars PROVE ControlInv'
  OBVIOUS
<1>1. ASSUME NEW a \in Actors, ActorStep(a) \/ BlockPersisted(a) PROVE ControlInv'
  BY <1>1, CheckKeepsControl, WriteKeepsControl, QueueKeepsControl, DownloadKeepsControl,
     RunnerKeepsControl DEF ActorStep
<1>2. ASSUME NEW r \in Requests, RequestStep(r) \/ UserAsks(r) PROVE ControlInv'
  BY <1>2, RequestKeepsControl, AskKeepsControl
<1>3. CASE ConsumerStep
  BY <1>3, ReadKeepsControl, HandleKeepsControl, ClearKeepsControl, AckKeepsControl
     DEF ConsumerStep, HandleAsrResult, HandleOcrResult
<1>4. CASE WorkerStep
  BY <1>4, WorkerKeepsControl DEF WorkerStep
<1>5. CASE Faults
  BY <1>5, EnqueueFailsKeepsControl, WorkerKeepsControl, UpdateFailsKeepsControl,
     LockExpiresKeepsControl, CrashKeepsControl DEF Faults
<1>6. CASE UNCHANGED vars
  <2>1. act' \in [Actors -> Course] /\ ActorsInOrder' /\ EntryThere'
    BY <1>6, ActorsUntouched DEF vars, rowVars, streamVars
  <2> QED
    BY <1>6, <2>1 DEF vars, rowVars, queueVars, streamVars, historyVars, ControlInv, ContentTypeOK
<1> QED
  BY <1>1, <1>2, <1>3, <1>4, <1>5, <1>6, ReconcilerKeepsControl DEF ContentNext

\* The types and the control are invariant.
THEOREM ContentControl == ContentSpec => []ControlInv
<1>1. ContentInit => ControlInv
  BY InitControl
<1>2. ControlInv /\ [ContentNext]_vars => ControlInv'
  BY NextKeepsControl
<1> QED
  BY <1>1, <1>2, PTL DEF ContentSpec

\* The variables of the pipeline keep their types.
THEOREM ContentTypeCorrect == ContentSpec => []ContentTypeOK
<1>1. ControlInv => ContentTypeOK
  BY DEF ControlInv
<1> QED
  BY <1>1, ContentControl, PTL

-----------------------------------------------------------------------------
(* A row that is being summarized is owned.                                *)

BoundToEnd == {"lock", "generate", "full", "partial", "giveup", "restore"}

\* The step of one actor that does not leave the summary leaves an owner.
LEMMA OwnerStays ==
  ASSUME Summarizers # {}, NEW a \in Actors,
         act[a].pc \in BoundToEnd => act'[a].pc \in BoundToEnd,
         \A b \in Actors \ {a} : act'[b] = act[b]
  PROVE  Summarizers' # {}
<1>1. PICK o \in Actors : act[o].pc \in BoundToEnd
  BY DEF Summarizers, BoundToEnd
<1>2. act'[o].pc \in BoundToEnd
  BY <1>1
<1> QED
  BY <1>2 DEF Summarizers, BoundToEnd

\* An actor that has come to a step of the summary is an owner.
LEMMA OwnerComes ==
  ASSUME NEW a \in Actors, act'[a].pc \in BoundToEnd
  PROVE  Summarizers' # {}
  BY DEF Summarizers, BoundToEnd

\* The transition a summary ends with is legal while the row is SUMMARIZING.
LEMMA EndOfSummary ==
  ASSUME NEW pc \in {"full", "partial", "giveup"}
  PROVE  /\ Target(pc) \in {"COMPLETED", "SUMMARY_FAILED"}
         /\ CanTransition("SUMMARIZING", Target(pc))
<1>1. Target(pc) \in {"COMPLETED", "SUMMARY_FAILED"}
  BY DEF Target
<1>2. "SUMMARIZING" \in Statuses
      /\ Transitions["SUMMARIZING"] = {"COMPLETED", "SUMMARY_FAILED", "CANCELLED"}
  BY DEF Transitions, Statuses, Processing
<1> QED
  BY <1>1, <1>2 DEF CanTransition

\* A checked update leaves no summary while the row is SUMMARIZING: it only
\* decides to.
LEMMA CheckKeepsOwner ==
  ASSUME ControlInv, SummarizingOwned, NEW a \in Actors, StatusChecked(a)
  PROVE  SummarizingOwned'
<1> SUFFICES ASSUME status = "SUMMARIZING", Summarizers # {} PROVE Summarizers' # {}
  BY DEF StatusChecked, SummarizingOwned
<1> DEFINE pc == act[a].pc
<1>1. pc \in Validated /\ UNCHANGED kind /\ act \in [Actors -> Course]
  BY DEF StatusChecked, ControlInv, ContentTypeOK
<1>2. CASE pc \in BoundToEnd
  <2>1. /\ pc \in {"full", "partial", "giveup"} /\ pc # "store"
        /\ status # Target(pc) /\ status # "deleted" /\ Legal(pc)
    BY <1>1, <1>2, EndOfSummary DEF BoundToEnd, Validated, Legal
  <2>2. act' = [act EXCEPT ![a].goal = Target(pc)]
    BY <2>1 DEF StatusChecked
  <2>3. act'[a].pc = act[a].pc
    BY <1>1, <2>2 DEF Course
  <2> QED
    BY <1>2, <2>3, OwnerComes
<1>3. CASE pc \notin BoundToEnd
  <2>1. \A b \in Actors \ {a} : act'[b] = act[b]
    BY <1>1 DEF StatusChecked, Goto, RaiseOut
  <2> QED
    BY <1>3, <2>1, OwnerStays
<1> QED
  BY <1>2, <1>3

\* A written update that makes the row SUMMARIZING is the begin of a summary.
LEMMA WriteKeepsOwner ==
  ASSUME ControlInv, NEW a \in Actors, StatusWritten(a)
  PROVE  SummarizingOwned'
<1> SUFFICES ASSUME status' = "SUMMARIZING" PROVE Summarizers' # {}
  BY DEF SummarizingOwned
<1>1. /\ act[a].goal = "SUMMARIZING" /\ act[a].pc \in Validated \union Forced
      /\ Goto(a, Follow(a)) /\ InOrder(a) /\ act \in [Actors -> Course] /\ UNCHANGED kind
  BY DEF StatusWritten, ControlInv, ContentTypeOK, ActorsInOrder
<1>2. act[a].pc = "begin"
  BY <1>1 DEF InOrder, GoalsAt, NoGoal, Forced, Validated, Target, WorkingStatus, FailedStatus
<1>3. Follow(a) \in BoundToEnd
  BY <1>2 DEF Follow, BoundToEnd
<1>4. act'[a].pc = Follow(a)
  BY <1>1, FollowGoesOn, MoveInOrder
<1> QED
  BY <1>3, <1>4, OwnerComes

\* A request takes the row to SUMMARIZING with itself at the lock, and restores
\* to another status.
LEMMA RequestKeepsOwner ==
  ASSUME ControlInv, SummarizingOwned, NEW r \in Requests, RequestStep(r)
  PROVE  SummarizingOwned'
<1> SUFFICES ASSUME status' = "SUMMARIZING", faults["crash"] = 0, faults["ending"] = 0
             PROVE  Summarizers' # {}
  BY DEF RequestStep, SummarizingAcquired, SummarizingRefused, StatusRestored, DeleteCommits,
         historyVars, SummarizingOwned
<1>1. r \in Actors /\ act \in [Actors -> Course]
  BY RequestsAreOthers DEF ControlInv, ContentTypeOK
<1>2. CASE SummarizingAcquired(r)
  <2>1. act'[r].pc = "lock"
    BY <1>1, <1>2 DEF SummarizingAcquired, Course
  <2> QED
    BY <1>1, <2>1, OwnerComes DEF BoundToEnd
<1>3. CASE SummarizingRefused(r)
  <2>1. /\ act[r].pc \notin BoundToEnd /\ status = "SUMMARIZING"
        /\ \A b \in Actors \ {r} : act'[b] = act[b]
    BY <1>1, <1>3 DEF SummarizingRefused, Goto, BoundToEnd, rowVars
  <2> QED
    BY <1>1, <2>1, OwnerStays DEF SummarizingOwned
<1>4. CASE StatusRestored(r)
  <2>1. act[r].pc = "restore" /\ status' \in {act[r].goal, status} /\ status' # "SUMMARIZING"
    BY <1>4, AcquireOps DEF StatusRestored
  <2> QED
    BY <2>1
<1>5. CASE DeleteCommits(r)
  BY <1>5 DEF DeleteCommits
<1> QED
  BY <1>2, <1>3, <1>4, <1>5 DEF RequestStep

\* The runner goes on to a step from which the status is set.
LEMMA RunnerKeepsOwner ==
  ASSUME ControlInv, SummarizingOwned, NEW a \in Actors,
         LockTaken(a) \/ LockBusy(a) \/ BlockPersisted(a) \/ GeneratorEnds(a)
  PROVE  SummarizingOwned'
<1> SUFFICES ASSUME Summarizers # {} PROVE Summarizers' # {}
  BY DEF LockTaken, LockBusy, BlockPersisted, GeneratorEnds, SummarizingOwned, rowVars,
         historyVars
<1>1. act \in [Actors -> Course]
  BY DEF ControlInv, ContentTypeOK
<1>2. CASE UNCHANGED act
  BY <1>2 DEF Summarizers
<1>3. ASSUME NEW pc \in BoundToEnd, act' = [act EXCEPT ![a].pc = pc]
      PROVE  Summarizers' # {}
  <2>1. act'[a].pc = pc
    BY <1>1, <1>3 DEF Course
  <2> QED
    BY <1>3, <2>1, OwnerComes
<1> QED
  BY <1>2, <1>3 DEF LockTaken, LockBusy, BlockPersisted, GeneratorEnds, RunnerRaises, BoundToEnd

\* Steps of an actor that is not in a summary, and of the worker.
LEMMA OtherStepKeepsOwner ==
  ASSUME SummarizingOwned, UNCHANGED status,
         faults'["crash"] = faults["crash"], faults'["ending"] = faults["ending"],
         \/ UNCHANGED act
         \/ \E a \in Actors : /\ act[a].pc \notin BoundToEnd
                              /\ \A b \in Actors \ {a} : act'[b] = act[b]
  PROVE  SummarizingOwned'
<1>1. CASE UNCHANGED act
  BY <1>1 DEF SummarizingOwned, Summarizers
<1>2. CASE \E a \in Actors : /\ act[a].pc \notin BoundToEnd
                             /\ \A b \in Actors \ {a} : act'[b] = act[b]
  BY <1>2, OwnerStays DEF SummarizingOwned
<1> QED
  BY <1>1, <1>2

\* An update that fails leaves the summary to its handler, or is counted as one
\* that was to end it.
LEMMA UpdateFailsKeepsOwner ==
  ASSUME ControlInv, SummarizingOwned, NEW a \in Actors, UpdateFails(a)
  PROVE  SummarizingOwned'
<1> SUFFICES ASSUME status' = "SUMMARIZING", faults'["crash"] = 0, faults'["ending"] = 0
             PROVE  Summarizers' # {}
  BY DEF SummarizingOwned
<1>1. /\ act[a].pc \in Validated \union Forced \union {"acquire", "restore", "erase"}
      /\ status = "SUMMARIZING" /\ \A b \in Actors \ {a} : act'[b] = act[b]
  BY UpdateFailsCourse
<1>2. /\ faults["crash"] \in Nat /\ faults["ending"] \in Nat
  BY DEF ControlInv, ContentTypeOK, FaultKinds
<1>3. PICK k \in {"call", "ending"} :
        /\ Fault(k)
        /\ k = "call" /\ act[a].pc \in Endings => act'[a].pc = "giveup"
  BY UpdateFailsCourse DEF Handler, Endings
<1>4. k = "call" /\ faults["crash"] = 0 /\ faults["ending"] = 0
  BY <1>2, <1>3, FaultTyped DEF FaultKinds
<1>5. Summarizers # {}
  BY <1>1, <1>4 DEF SummarizingOwned
<1>6. act[a].pc \in BoundToEnd => act'[a].pc \in BoundToEnd
  BY <1>1, <1>3, <1>4 DEF BoundToEnd, Endings, Validated, Forced
<1> QED
  BY <1>1, <1>5, <1>6, OwnerStays

-----------------------------------------------------------------------------
(* The steps beside the status updates, the requests' own and the runner:  *)
(* they leave the row, and begin no summary but of a file that has a       *)
(* result.                                                                 *)

Late == {"SUMMARY_QUEUED", "SUMMARIZING", "SUMMARY_FAILED", "COMPLETED"}
AfterResult == {"blank", "begin", "acquire"} \union BoundToEnd
PastResult(a) == \/ act[a].pc \in AfterResult
                 \/ act[a].pc = "markfailed" /\ act[a].goal \in Late

SideStep ==
    \/ \E a \in Actors : \/ DuplicateSkipped(a) \/ TaskSent(a) \/ JobRegistered(a)
                         \/ DownloadDone(a) \/ DownloadFails(a) \/ EnqueueFails(a)
    \/ \E r \in Requests : UserAsks(r)
    \/ ConsumerStep \/ ReconcilerStep \/ WorkerStep
    \/ \E j \in Jobs : WorkerLost(j)
    \/ LockExpires

\* One actor that was in no summary takes a step, and none that brings it to
\* one before the file has a result.
LeavesSummaries ==
    \/ UNCHANGED act
    \/ \E a \in Actors :
          /\ act[a].pc \notin BoundToEnd
          /\ act'[a].pc \notin BoundToEnd
          /\ PastResult(a)' => text = TRUE \/ status \in Late
          /\ \A b \in Actors \ {a} : act'[b] = act[b]

\* A procedure that goes to a step that is not past the result.
LEMMA MoveLeavesSummaries ==
  ASSUME ControlInv, NEW a \in Actors, NEW pc, Goto(a, pc), act[a].pc \notin BoundToEnd,
         pc \notin AfterResult \union {"markfailed"}
  PROVE  LeavesSummaries
<1>1. act \in [Actors -> Course]
  BY DEF ControlInv, ContentTypeOK
<1>2. act'[a].pc = pc /\ \A b \in Actors \ {a} : act'[b] = act[b]
  BY <1>1 DEF Goto
<1> QED
  BY <1>2 DEF LeavesSummaries, PastResult, AfterResult

\* An actor that begins an operation.
LEMMA BeginLeavesSummaries ==
  ASSUME ControlInv, NEW a \in Actors, NEW op, NEW pc, NEW goal, Enters(a, op, pc, goal),
         act[a].pc = "idle", pc \notin BoundToEnd,
         pc \in AfterResult \/ (pc = "markfailed" /\ goal \in Late)
            => text = TRUE \/ status \in Late
  PROVE  LeavesSummaries
<1>1. act \in [Actors -> Course]
  BY DEF ControlInv, ContentTypeOK
<1>2. act'[a].pc = pc /\ act'[a].goal = goal /\ \A b \in Actors \ {a} : act'[b] = act[b]
  BY <1>1 DEF Enters
<1>3. PastResult(a)' => pc \in AfterResult \/ (pc = "markfailed" /\ goal \in Late)
  BY <1>2 DEF PastResult
<1> QED
  BY <1>2, <1>3 DEF LeavesSummaries, BoundToEnd

\* A request that begins takes nobody out of a summary.
LEMMA AskLeavesSummaries ==
  ASSUME ControlInv, NEW r \in Requests, UserAsks(r)
  PROVE  LeavesSummaries
<1>1. r \in Actors /\ text \in BOOLEAN
  BY RequestsAreOthers DEF ControlInv, ContentTypeOK
<1>2. CASE RetryText(r)
  BY <1>1, <1>2, BeginLeavesSummaries DEF RetryText, BoundToEnd, AfterResult
<1>3. CASE RetryDownload(r)
  BY <1>1, <1>3, BeginLeavesSummaries DEF RetryDownload, BoundToEnd, AfterResult
<1>4. CASE RetrySummary(r)
  <2>1. text = TRUE /\ act[r].pc = "idle" /\ Enters(r, "summary", "acquire", NoGoal)
    BY <1>1, <1>4 DEF RetrySummary
  <2> QED
    BY <1>1, <2>1, BeginLeavesSummaries DEF BoundToEnd
<1>5. CASE RegenerateBlock(r)
  <2>1. text = TRUE /\ act[r].pc = "idle"
    BY <1>1, <1>5 DEF RegenerateBlock
  <2>2. Enters(r, "block", "acquire", status)
    BY <1>5, Zenon DEF RegenerateBlock
  <2> QED
    BY <1>1, <2>1, <2>2, BeginLeavesSummaries DEF BoundToEnd
<1>6. CASE DeleteBegins(r)
  BY <1>1, <1>6, BeginLeavesSummaries DEF DeleteBegins, BoundToEnd, AfterResult
<1> QED
  BY <1>2, <1>3, <1>4, <1>5, <1>6 DEF UserAsks

\* A finding of the watchdog takes nobody out of a summary.
LEMMA ReconcilerLeavesSummaries ==
  ASSUME ControlInv, ReconcilerStep
  PROVE  LeavesSummaries
<1>1. Reconciler \in Actors
  BY DEF Actors
<1>2. CASE MarkAsFailed
  <2>1. /\ act[Reconciler].pc = "idle"
        /\ Enters(Reconciler, "reconcile", "markfailed", FailureStateFor(status))
        /\ status \in {"QUEUED", "PROCESSING", "OCR_PROCESSING", "SUMMARIZING", "SUMMARY_QUEUED"}
    BY <1>2 DEF MarkAsFailed
  <2>2. FailureStateFor(status) \in Late => status \in Late
    BY <2>1 DEF FailureStateFor, Late
  <2> QED
    BY <1>1, <2>1, <2>2, BeginLeavesSummaries DEF BoundToEnd, AfterResult
<1>3. CASE RequeueLlmJob
  <2>1. /\ act[Reconciler].pc = "idle" /\ Enters(Reconciler, "reconcile", "begin", NoGoal)
        /\ status \in Late
    BY <1>3 DEF RequeueLlmJob, Late
  <2> QED
    BY <1>1, <2>1, BeginLeavesSummaries DEF BoundToEnd
<1> QED
  BY <1>2, <1>3 DEF ReconcilerStep

\* A result that is taken up takes nobody out of a summary.
LEMMA ConsumerLeavesSummaries ==
  ASSUME ControlInv, ConsumerStep
  PROVE  LeavesSummaries
<1>1. CASE ResultsRead
  BY <1>1 DEF ResultsRead, LeavesSummaries
<1>2. CASE HandleResult
  <2>1. /\ act'[Consumer] = At("consume", FirstStep[pend[at].what])
        /\ \A b \in Actors \ {Consumer} : act'[b] = act[b]
    BY <1>2, HandleKeepsControl
  <2>3. FirstStep[pend[at].what] \in {"started", "failed", "store"}
    BY <1>2, EntryInHand DEF HandleResult
  <2>4. act[Consumer].pc = "idle" /\ act'[Consumer].pc \in {"started", "failed", "store"}
    BY <1>2, <2>1, <2>3 DEF HandleResult, At
  <2> QED
    BY <2>1, <2>4, ConsumerIsOne DEF LeavesSummaries, PastResult, AfterResult, BoundToEnd
<1>3. CASE ActiveJobCleared
  BY <1>3, ConsumerIsOne, MoveLeavesSummaries DEF ActiveJobCleared, BoundToEnd, AfterResult
<1>4. CASE Acknowledged
  BY <1>4, ConsumerIsOne, MoveLeavesSummaries DEF Acknowledged, BoundToEnd, AfterResult
<1> QED
  BY <1>1, <1>2, <1>3, <1>4 DEF ConsumerStep, HandleAsrResult, HandleOcrResult

\* The steps beside the updates take nobody out of a summary.
LEMMA SideStepLeaves ==
  ASSUME ControlInv, SideStep
  PROVE  /\ UNCHANGED <<kind, status, text, sections, kept>>
         /\ faults'["crash"] = faults["crash"] /\ faults'["ending"] = faults["ending"]
         /\ LeavesSummaries
<1> DEFINE FewFaults == faults'["crash"] = faults["crash"] /\ faults'["ending"] = faults["ending"]
           RowKept == UNCHANGED <<kind, status, text, sections, kept>> /\ FewFaults
<1>1. ASSUME NEW a \in Actors,
             \/ DuplicateSkipped(a) \/ TaskSent(a) \/ JobRegistered(a)
             \/ DownloadDone(a) \/ DownloadFails(a) \/ EnqueueFails(a)
      PROVE  LeavesSummaries
  <2>1. PICK pc \in {"over", "register", "unpulled", "pulled"} : Goto(a, pc)
    BY <1>1 DEF DuplicateSkipped, TaskSent, JobRegistered, DownloadDone, DownloadFails, EnqueueFails
  <2>2. act[a].pc \in {"exists", "register", "download"}
    BY <1>1 DEF DuplicateSkipped, TaskSent, JobRegistered, DownloadDone, DownloadFails, EnqueueFails
  <2> QED
    BY <2>1, <2>2, MoveLeavesSummaries DEF BoundToEnd, AfterResult
<1>2. WorkerStep \/ (\E j \in Jobs : WorkerLost(j)) \/ LockExpires => LeavesSummaries
  BY DEF WorkerStep, WorkerLost, LockExpires, JobStarts, JobSucceeds, JobRetries, JobFails,
         LeavesSummaries
<1>3. LeavesSummaries
  BY <1>1, <1>2, AskLeavesSummaries, ReconcilerLeavesSummaries, ConsumerLeavesSummaries
     DEF SideStep
<1>4. \A k \in FaultKinds \ {"crash", "ending"} : Fault(k) => FewFaults
  BY FaultTyped DEF FaultKinds
<1>5. ASSUME NEW a \in Actors,
             \/ DuplicateSkipped(a) \/ TaskSent(a) \/ JobRegistered(a)
             \/ DownloadDone(a) \/ DownloadFails(a) \/ EnqueueFails(a)
      PROVE  RowKept
  BY <1>4, <1>5 DEF DuplicateSkipped, TaskSent, JobRegistered, DownloadDone, DownloadFails,
         EnqueueFails, rowVars, historyVars, FaultKinds
<1>6. ASSUME NEW r \in Requests, UserAsks(r)
      PROVE  RowKept
  BY <1>6 DEF UserAsks, RetryText, RetryDownload, RetrySummary, RegenerateBlock, DeleteBegins,
         rowVars, historyVars
<1>7. ASSUME ConsumerStep
      PROVE  RowKept
  BY <1>7 DEF ConsumerStep, ResultsRead, HandleAsrResult, HandleOcrResult, HandleResult,
         ActiveJobCleared, Acknowledged, rowVars, historyVars
<1>8. ASSUME ReconcilerStep
      PROVE  RowKept
  BY <1>4, <1>8 DEF ReconcilerStep, MarkAsFailed, RequeueLlmJob, FoundStuck, rowVars, FaultKinds
<1>9. ASSUME WorkerStep \/ (\E j \in Jobs : WorkerLost(j)) \/ LockExpires
      PROVE  RowKept
  BY <1>4, <1>9 DEF WorkerStep, WorkerLost, LockExpires, JobStarts, JobSucceeds, JobRetries,
         JobFails, rowVars, historyVars, FaultKinds
<1> QED
  BY <1>3, <1>5, <1>6, <1>7, <1>8, <1>9 DEF SideStep

\* A step is a side step, a status update or one that fails, a request's, the
\* runner's or a crash.
LEMMA StepKinds ==
  ASSUME ContentNext
  PROVE  \/ SideStep
         \/ \E a \in Actors : StatusChecked(a) \/ StatusWritten(a) \/ UpdateFails(a)
         \/ \E r \in Requests : RequestStep(r)
         \/ \E a \in Actors : \/ LockTaken(a) \/ LockBusy(a)
                              \/ BlockPersisted(a) \/ GeneratorEnds(a)
         \/ Crash
  BY DEF ContentNext, ActorStep, Faults, SideStep

\* Whoever is bound to take the file out of SUMMARIZING is there after every step.
LEMMA NextKeepsOwner ==
  ControlInv /\ SummarizingOwned /\ [ContentNext]_vars => SummarizingOwned'
<1> SUFFICES ASSUME ControlInv, SummarizingOwned, [ContentNext]_vars PROVE SummarizingOwned'
  OBVIOUS
<1>1. CASE SideStep
  BY <1>1, SideStepLeaves, OtherStepKeepsOwner DEF LeavesSummaries
<1>2. CASE Crash
  <2>1. faults["crash"] \in Nat
    BY DEF ControlInv, ContentTypeOK, FaultKinds
  <2>2. faults'["crash"] = faults["crash"] + 1
    BY <1>2, FaultTyped DEF Crash, FaultKinds
  <2> QED
    BY <2>1, <2>2 DEF SummarizingOwned
<1>3. CASE UNCHANGED vars
  BY <1>3 DEF vars, rowVars, historyVars, SummarizingOwned, Summarizers
<1> QED
  BY <1>1, <1>2, <1>3, StepKinds, CheckKeepsOwner, WriteKeepsOwner, UpdateFailsKeepsOwner,
     RequestKeepsOwner, RunnerKeepsOwner

\* While the row is SUMMARIZING, the backend did not die and no update that was
\* to end a summary failed without a handler that makes another, some actor is
\* at a step that takes the row out again.
THEOREM ContentSummarizingOwned == ContentSpec => []SummarizingOwned
<1>1. ContentInit => SummarizingOwned
  BY DEF ContentInit, Uploaded, PlaceholderMade, SummarizingOwned
<1> QED
  BY <1>1, NextKeepsOwner, ContentControl, PTL DEF ContentSpec

-----------------------------------------------------------------------------
(* A phase of the summary comes after a result.                            *)

\* Neither the row nor a procedure is past the result before one was stored.
LateAfterResult ==
    (status \in Late \/ text = TRUE \/ \E a \in Actors : PastResult(a)) => kept # {}

\* A procedure before the result goes on to a step before it, unless a result
\* is stored.
LEMMA CheckKeepsLate ==
  ASSUME ControlInv, LateAfterResult, NEW a \in Actors, StatusChecked(a)
  PROVE  LateAfterResult'
<1> DEFINE pc == act[a].pc
<1>1. CASE kept' # {}
  BY <1>1 DEF LateAfterResult
<1>2. CASE kept' = {}
  <2>1. KeepResult(a) \/ UNCHANGED <<text, kept>>
    BY DEF StatusChecked
  <2>2. UNCHANGED <<text, kept>>
    BY <1>2, <2>1 DEF KeepResult
  <2>3. /\ pc \in Validated /\ pc \notin AfterResult
        /\ pc \in {"pulled", "unpulled", "started", "store", "failed"}
    BY <1>2, <2>2 DEF StatusChecked, LateAfterResult, PastResult, Validated, AfterResult, BoundToEnd
  <2>4. pc = "store" => ~KeepResult(a)
    BY <1>2 DEF KeepResult
  <2>5. act \in [Actors -> Course] /\ UNCHANGED status
    BY DEF StatusChecked, ControlInv, ContentTypeOK
  <2>6. pc # "store" => Follow(a) \in {"exists", "ack", "clear", "idle", "over"}
    BY <2>3 DEF Follow, Rest
  <2>7. Handler(a) \in {"out", "unpulled"} /\ Rest(a) \in {"idle", "over"}
    BY <2>3 DEF Handler, Rest
  <2>8. /\ act'[a].pc \in {"exists", "ack", "clear", "idle", "over", "unpulled", pc}
        /\ \A b \in Actors \ {a} : act'[b] = act[b]
    <3>1. CASE \E q \in {"exists", "ack", "clear", "idle", "over", "unpulled"} : Goto(a, q)
      BY <2>5, <3>1 DEF Goto
    <3>2. CASE act' = [act EXCEPT ![a].goal = Target(pc)]
      BY <2>5, <3>2 DEF Course
    <3> QED
      BY <2>4, <2>6, <2>7, <3>1, <3>2 DEF StatusChecked, RaiseOut
  <2>9. \A b \in Actors : PastResult(b)' => PastResult(b)
    BY <2>3, <2>8 DEF PastResult, AfterResult, BoundToEnd
  <2> QED
    BY <2>2, <2>5, <2>9 DEF LateAfterResult
<1> QED
  BY <1>1, <1>2

\* A status of a late phase is written only when a result is stored.
LEMMA WriteKeepsLate ==
  ASSUME ControlInv, LateAfterResult, NEW a \in Actors, StatusWritten(a)
  PROVE  LateAfterResult'
<1> DEFINE pc == act[a].pc
<1>1. CASE kept' # {}
  BY <1>1 DEF LateAfterResult
<1>2. CASE kept' = {}
  <2>1. /\ KeepResult(a) /\ Goto(a, Follow(a)) /\ pc \in Validated \union Forced
        /\ act[a].goal # NoGoal /\ status' \in {"deleted", act[a].goal}
    BY DEF StatusWritten
  <2>2. UNCHANGED <<text, kept>> /\ pc # "store"
    BY <1>2, <2>1 DEF KeepResult
  <2>3. ~PastResult(a) /\ text # TRUE /\ \A b \in Actors : ~PastResult(b)
    BY <1>2, <2>2 DEF LateAfterResult
  <2>4. pc \in {"pulled", "unpulled", "started", "failed", "requeue", "repull", "markfailed"}
    BY <2>1, <2>2, <2>3 DEF PastResult, Validated, Forced, AfterResult, BoundToEnd
  <2>5. InOrder(a) /\ act \in [Actors -> Course]
    BY DEF ControlInv, ContentTypeOK, ActorsInOrder
  <2>6. act[a].op # "block"
    BY <2>4, <2>5 DEF InOrder, StepsOf
  <2>7. act[a].goal \notin Late
    BY <2>1, <2>3, <2>4, <2>5, <2>6
       DEF InOrder, PastResult, GoalsAt, Validated, Target, WorkingStatus, FailedStatus, Late
  <2>8. Follow(a) \in {"exists", "download", "ack", "clear", "idle", "over"}
    BY <2>4 DEF Follow, Rest
  <2>9. act'[a].pc = Follow(a) /\ \A b \in Actors \ {a} : act'[b] = act[b]
    BY <2>1, <2>5 DEF Goto
  <2>10. \A b \in Actors : ~PastResult(b)'
    BY <2>3, <2>8, <2>9 DEF PastResult, AfterResult, BoundToEnd
  <2>11. status' \notin Late
    BY <2>1, <2>7 DEF Late
  <2> QED
    BY <2>2, <2>3, <2>10, <2>11 DEF LateAfterResult
<1> QED
  BY <1>1, <1>2

\* A request reaches for a late phase only from one.
LEMMA RequestKeepsLate ==
  ASSUME ControlInv, LateAfterResult, NEW r \in Requests, RequestStep(r)
  PROVE  LateAfterResult'
<1>1. r \in Actors /\ UNCHANGED kept
  BY RequestsAreOthers
     DEF RequestStep, SummarizingAcquired, SummarizingRefused, StatusRestored, DeleteCommits,
         historyVars
<1>2. CASE kept # {}
  BY <1>1, <1>2 DEF LateAfterResult
<1>3. CASE kept = {}
  <2>1. ~PastResult(r) /\ \A b \in Actors : ~PastResult(b)
    BY <1>1, <1>3 DEF LateAfterResult
  <2>2. DeleteCommits(r)
    BY <2>1 DEF RequestStep, SummarizingAcquired, SummarizingRefused, StatusRestored, PastResult,
                AfterResult, BoundToEnd
  <2>3. /\ status' = "deleted" /\ text' = FALSE /\ act'[r].pc = "over"
        /\ \A b \in Actors \ {r} : act'[b] = act[b]
    BY <1>1, <2>2 DEF DeleteCommits, Goto, ControlInv, ContentTypeOK
  <2>4. \A b \in Actors : ~PastResult(b)'
    BY <2>1, <2>3 DEF PastResult, AfterResult, BoundToEnd
  <2> QED
    BY <2>3, <2>4 DEF LateAfterResult, Late
<1> QED
  BY <1>2, <1>3

\* The handler of a failure is in a late phase only if what failed was.
LEMMA UpdateFailsKeepsLate ==
  ASSUME ControlInv, LateAfterResult, NEW a \in Actors, UpdateFails(a)
  PROVE  LateAfterResult'
<1>1. /\ UNCHANGED <<status, text, kept>> /\ \A b \in Actors \ {a} : act'[b] = act[b]
      /\ act'[a].pc \in {Handler(a), Rest(a)} /\ act'[a].pc # "out"
  BY UpdateFailsCourse DEF Rest
<1>2. act'[a].pc = "giveup" => act[a].pc \in {"full", "partial", "begin"}
  BY <1>1 DEF Handler, Rest
<1>3. act'[a].pc \in {"giveup", "unpulled", "idle", "over"}
  BY <1>1 DEF Handler, Rest
<1>4. PastResult(a)' => PastResult(a)
  BY <1>2, <1>3 DEF PastResult, AfterResult, BoundToEnd
<1>5. \A b \in Actors : PastResult(b)' => PastResult(b)
  BY <1>1, <1>4 DEF PastResult
<1> QED
  BY <1>1, <1>5 DEF LateAfterResult

\* Every step keeps the late phases behind the first result.
LEMMA NextKeepsLate ==
  ControlInv /\ LateAfterResult /\ [ContentNext]_vars => LateAfterResult'
<1> SUFFICES ASSUME ControlInv, LateAfterResult, [ContentNext]_vars PROVE LateAfterResult'
  OBVIOUS
<1>1. CASE SideStep
  <2>1. UNCHANGED <<status, text, kept>> /\ LeavesSummaries
    BY <1>1, SideStepLeaves
  <2>2. \A b \in Actors : PastResult(b)' => PastResult(b) \/ text = TRUE \/ status \in Late
    BY <2>1 DEF LeavesSummaries, PastResult
  <2> QED
    BY <2>1, <2>2 DEF LateAfterResult
<1>2. ASSUME NEW a \in Actors,
             LockTaken(a) \/ LockBusy(a) \/ BlockPersisted(a) \/ GeneratorEnds(a)
      PROVE  LateAfterResult'
  <2>1. PastResult(a) /\ UNCHANGED kept
    BY <1>2 DEF LockTaken, LockBusy, BlockPersisted, GeneratorEnds, PastResult, AfterResult,
                BoundToEnd, historyVars
  <2> QED
    BY <2>1 DEF LateAfterResult
<1>3. CASE Crash
  <2>1. UNCHANGED <<status, text, kept>>
    BY <1>3 DEF Crash, rowVars
  <2>2. \A a \in Actors : act'[a].pc \in {"idle", "over"}
    BY <1>3 DEF Crash, At, Rest
  <2>3. \A a \in Actors : ~PastResult(a)'
    BY <2>2 DEF PastResult, AfterResult, BoundToEnd
  <2> QED
    BY <2>1, <2>3 DEF LateAfterResult
<1>4. CASE UNCHANGED vars
  BY <1>4 DEF vars, rowVars, historyVars, LateAfterResult, PastResult
<1> QED
  BY <1>1, <1>2, <1>3, <1>4, StepKinds, CheckKeepsLate, WriteKeepsLate,
     UpdateFailsKeepsLate, RequestKeepsLate

\* A file is in a phase of the summary only after a result of its was stored.
THEOREM ContentTextBeforeSummary == ContentSpec => []TextBeforeSummary
<1>1. ContentInit => LateAfterResult
  <2> SUFFICES ASSUME ContentInit PROVE LateAfterResult
    OBVIOUS
  <2>1. status \notin Late /\ text # TRUE
    BY DEF ContentInit, Uploaded, PlaceholderMade, Late
  <2>2. \A a \in Actors : act[a].pc \in {"idle", "exists", "download"}
    BY DEF ContentInit, Uploaded, PlaceholderMade, At
  <2> QED
    BY <2>1, <2>2 DEF LateAfterResult, PastResult, AfterResult, BoundToEnd
<1>2. LateAfterResult => TextBeforeSummary
  BY DEF LateAfterResult, TextBeforeSummary, Late
<1> QED
  BY <1>1, <1>2, NextKeepsLate, ContentControl, PTL DEF ContentSpec

-----------------------------------------------------------------------------
(* A result that is acknowledged was stored.                               *)

\* What the entry in hand is at each step of its handler.
HandledInOrder ==
    LET pc == act[Consumer].pc
        what == pend[at].what IN
    /\ pc = "started" => what = "started"
    /\ pc = "failed" => what = "failed"
    /\ pc = "store" \/ pc \notin {"idle", "started", "failed", "clear", "ack"}
          => what \in {"completed", "empty"}
    /\ pc \notin {"idle", "started", "failed", "store"} /\ what \in {"completed", "empty"}
          => pend[at].job \in kept

\* A step that leaves the consumer and its entry alone.
LEMMA HandlerUntouched ==
  ASSUME HandledInOrder, act'[Consumer] = act[Consumer], UNCHANGED <<pend, at>>,
         kept \subseteq kept'
  PROVE  HandledInOrder'
  BY DEF HandledInOrder

\* The step of another actor is one.
LEMMA OthersHandle ==
  ASSUME ControlInv, NEW a \in Actors \ {Consumer},
         \/ StatusChecked(a) \/ StatusWritten(a) \/ UpdateFails(a)
         \/ a \in Requests /\ RequestStep(a)
         \/ LockTaken(a) \/ LockBusy(a) \/ BlockPersisted(a) \/ GeneratorEnds(a)
  PROVE  /\ act'[Consumer] = act[Consumer] /\ UNCHANGED <<pend, at>>
         /\ kept \subseteq kept'
<1>1. act \in [Actors -> Course] /\ Consumer \in Actors
  BY DEF ControlInv, ContentTypeOK, Actors
<1>2. CASE StatusChecked(a) \/ StatusWritten(a)
  <2>1. KeepResult(a) => UNCHANGED kept
    BY StoreIsConsumers DEF KeepResult
  <2> QED
    BY <1>1, <1>2, <2>1 DEF StatusChecked, StatusWritten, Goto, RaiseOut, streamVars
<1>3. CASE a \in Requests /\ RequestStep(a)
  BY <1>1, <1>3
     DEF RequestStep, SummarizingAcquired, SummarizingRefused, StatusRestored, DeleteCommits,
         Goto, streamVars, historyVars
<1>4. CASE LockTaken(a) \/ LockBusy(a) \/ BlockPersisted(a) \/ GeneratorEnds(a)
  BY <1>1, <1>4 DEF LockTaken, LockBusy, BlockPersisted, GeneratorEnds, streamVars, historyVars
<1>5. CASE UpdateFails(a)
  BY <1>1, <1>5, UpdateFailsCourse DEF RaiseOut
<1> QED
  BY <1>2, <1>3, <1>4, <1>5

\* The consumer's own updates.
LEMMA CheckKeepsHandled ==
  ASSUME ControlInv, HandledInOrder, StatusChecked(Consumer)
  PROVE  HandledInOrder'
<1> DEFINE pc == act[Consumer].pc
           what == pend[at].what
<1>1. /\ pc \in Validated /\ UNCHANGED pend /\ act \in [Actors -> Course] /\ Consumer \in Actors
      /\ InOrder(Consumer)
  BY ConsumerIsOne DEF StatusChecked, ControlInv, ContentTypeOK, ActorsInOrder
<1>2. /\ pc \in StepsOf("consume") /\ pc \notin {"pulled", "unpulled"}
  BY <1>1, ConsumerIsOne DEF InOrder, StepsOf, Validated, Summary
<1>3. CASE act'[Consumer].pc = "idle"
  BY <1>3 DEF HandledInOrder
<1>4. CASE Goto(Consumer, Follow(Consumer)) /\ KeepResult(Consumer) /\ UNCHANGED at
  <2>1. act'[Consumer].pc = Follow(Consumer)
    BY <1>1, <1>4 DEF Goto
  <2>2. pend[at].job \in kept \/ pc = "store" => pend[at].job \in kept'
    BY <1>4 DEF KeepResult
  <2>3. CASE pc = "store"
    <3>1. Follow(Consumer) = IF what = "empty" THEN "blank" ELSE "begin"
      BY <2>3 DEF Follow
    <3> QED
      BY <1>1, <1>4, <2>1, <2>2, <2>3, <3>1 DEF HandledInOrder
  <2>4. CASE pc \in {"started", "failed"}
    <3>1. Follow(Consumer) = IF pc = "started" THEN "ack" ELSE "clear"
      BY <2>4 DEF Follow
    <3> QED
      BY <1>1, <1>4, <2>1, <2>4, <3>1 DEF HandledInOrder
  <2>5. CASE pc \in {"blank", "begin", "full", "partial", "giveup"}
    <3>1. what \in {"completed", "empty"} /\ pend[at].job \in kept
      BY <2>5 DEF HandledInOrder
    <3>2. Follow(Consumer) \in {"clear", "lock"}
      BY <2>5, NamesDiffer DEF Follow
    <3> QED
      BY <1>1, <1>4, <2>1, <2>2, <3>1, <3>2 DEF HandledInOrder
  <2> QED
    BY <1>1, <1>2, <2>3, <2>4, <2>5 DEF Validated
<1>5. CASE Goto(Consumer, Follow(Consumer)) /\ pc # "store" /\ UNCHANGED <<text, kept, at>>
  <2>1. KeepResult(Consumer)
    BY <1>5 DEF KeepResult
  <2> QED
    BY <1>4, <1>5, <2>1
<1>6. CASE act' = [act EXCEPT ![Consumer].goal = Target(pc)] /\ UNCHANGED <<text, kept, at>>
  <2>1. act'[Consumer].pc = pc
    BY <1>1, <1>6 DEF Course
  <2> QED
    BY <1>1, <1>6, <2>1 DEF HandledInOrder
<1>7. CASE /\ IF Handler(Consumer) = "out"
              THEN RaiseOut(Consumer)
              ELSE Goto(Consumer, Handler(Consumer)) /\ UNCHANGED at
           /\ UNCHANGED <<text, kept>>
  <2>1. CASE Handler(Consumer) = "out"
    <3>1. act'[Consumer].pc = "idle"
      BY <1>1, <1>7, <2>1, ConsumerIsOne DEF RaiseOut, Goto
    <3> QED
      BY <1>3, <3>1
  <2>2. CASE Handler(Consumer) # "out"
    <3>1. pc \in {"full", "partial"} /\ Handler(Consumer) = "giveup"
      BY <1>2, <2>2, NamesDiffer DEF Handler
    <3>2. act'[Consumer].pc = "giveup" /\ UNCHANGED at
      BY <1>1, <1>7, <2>2, <3>1 DEF Goto
    <3> QED
      BY <1>1, <1>7, <3>1, <3>2 DEF HandledInOrder
  <2> QED
    BY <2>1, <2>2
<1> QED
  BY <1>2, <1>4, <1>5, <1>6, <1>7 DEF StatusChecked

\* Writing a status stores the result that goes with it.
LEMMA WriteKeepsHandled ==
  ASSUME ControlInv, HandledInOrder, StatusWritten(Consumer)
  PROVE  HandledInOrder'
<1> DEFINE pc == act[Consumer].pc
           what == pend[at].what
<1>1. /\ pc \in Validated \union Forced /\ UNCHANGED <<pend, at>> /\ act \in [Actors -> Course]
      /\ Consumer \in Actors /\ InOrder(Consumer)
      /\ Goto(Consumer, Follow(Consumer)) /\ KeepResult(Consumer)
  BY ConsumerIsOne DEF StatusWritten, ControlInv, ContentTypeOK, ActorsInOrder, streamVars
<1>2. pc \in {"started", "store", "blank", "failed", "begin", "full", "partial", "giveup"}
  BY <1>1, ConsumerIsOne DEF InOrder, StepsOf, Validated, Forced, Summary
<1>3. act'[Consumer].pc = Follow(Consumer)
  BY <1>1 DEF Goto
<1>4. pend[at].job \in kept \/ pc = "store" => pend[at].job \in kept'
  BY <1>1 DEF KeepResult
<1>5. CASE pc = "store"
  <2>1. Follow(Consumer) = IF what = "empty" THEN "blank" ELSE "begin"
    BY <1>5 DEF Follow
  <2> QED
    BY <1>1, <1>3, <1>4, <1>5, <2>1 DEF HandledInOrder
<1>6. CASE pc \in {"started", "failed"}
  <2>1. Follow(Consumer) = IF pc = "started" THEN "ack" ELSE "clear"
    BY <1>6 DEF Follow
  <2> QED
    BY <1>1, <1>3, <1>6, <2>1 DEF HandledInOrder
<1>7. CASE pc \in {"blank", "begin", "full", "partial", "giveup"}
  <2>1. what \in {"completed", "empty"} /\ pend[at].job \in kept
    BY <1>7 DEF HandledInOrder
  <2>2. Follow(Consumer) \in {"clear", "lock"}
    BY <1>7, NamesDiffer DEF Follow
  <2> QED
    BY <1>1, <1>3, <1>4, <2>1, <2>2 DEF HandledInOrder
<1> QED
  BY <1>2, <1>5, <1>6, <1>7

\* An update that fails leaves the result unhandled, or gives the summary of one
\* that was stored up.
LEMMA UpdateFailsKeepsHandled ==
  ASSUME ControlInv, HandledInOrder, UpdateFails(Consumer)
  PROVE  HandledInOrder'
<1>1. Consumer \in Actors /\ InOrder(Consumer)
  BY ConsumerIsOne DEF ControlInv, ActorsInOrder
<1>2. act[Consumer].pc # "pulled"
  BY <1>1, ConsumerIsOne DEF InOrder, StepsOf, Summary
<1>3. CASE act'[Consumer].pc = "idle"
  BY <1>3 DEF HandledInOrder
<1>4. CASE Handler(Consumer) # "out" /\ act'[Consumer].pc = Handler(Consumer) /\ UNCHANGED at
  <2>1. act[Consumer].pc \in {"full", "partial"} /\ act'[Consumer].pc = "giveup"
    BY <1>2, <1>4, NamesDiffer DEF Handler
  <2> QED
    BY <1>1, <1>4, <2>1, UpdateFailsCourse DEF HandledInOrder
<1> QED
  BY <1>1, <1>3, <1>4, UpdateFailsCourse DEF Rest

\* The runner under the consumer goes on with a result that was stored.
LEMMA RunnerKeepsHandled ==
  ASSUME ControlInv, HandledInOrder,
         \/ LockTaken(Consumer) \/ LockBusy(Consumer)
         \/ BlockPersisted(Consumer) \/ GeneratorEnds(Consumer)
  PROVE  HandledInOrder'
<1>1. /\ act[Consumer].pc \in {"lock", "generate"} /\ UNCHANGED <<pend, at, kept>>
      /\ act \in [Actors -> Course] /\ Consumer \in Actors
  BY ConsumerIsOne DEF LockTaken, LockBusy, BlockPersisted, GeneratorEnds, streamVars,
         historyVars, ControlInv, ContentTypeOK
<1>2. act'[Consumer].pc \in {"lock", "generate", "full", "partial", "giveup", "restore"}
  BY <1>1 DEF LockTaken, LockBusy, BlockPersisted, GeneratorEnds, RunnerRaises, Course
<1> QED
  BY <1>1, <1>2 DEF HandledInOrder

\* The steps beside the updates leave the result in hand where it was.
LEMMA SideStepKeepsHandled ==
  ASSUME ControlInv, HandledInOrder, SideStep
  PROVE  HandledInOrder'
<1>1. act \in [Actors -> Course] /\ Consumer \in Actors /\ UNCHANGED kept
  BY ConsumerIsOne, SideStepLeaves DEF ControlInv, ContentTypeOK
<1>2. CASE ResultsRead
  BY <1>2 DEF ResultsRead, HandledInOrder
<1>3. CASE HandleResult
  <2>1. /\ act'[Consumer].pc = FirstStep[pend[at].what] /\ pend[at].what \in Results
        /\ UNCHANGED <<pend, at>>
    BY <1>3, HandleKeepsControl, EntryInHand DEF HandleResult, At, streamVars
  <2>2. FirstStep[pend[at].what] = CASE pend[at].what = "started" -> "started"
                                     [] pend[at].what = "failed" -> "failed"
                                     [] OTHER -> "store"
    BY <2>1 DEF FirstStep
  <2> QED
    BY <2>1, <2>2 DEF HandledInOrder, Results
<1>4. CASE ActiveJobCleared
  <2>1. act[Consumer].pc = "clear" /\ act'[Consumer].pc = "ack" /\ UNCHANGED <<pend, at>>
    BY <1>1, <1>4 DEF ActiveJobCleared, Goto, streamVars
  <2> QED
    BY <1>1, <2>1 DEF HandledInOrder
<1>5. CASE Acknowledged
  <2>1. act'[Consumer].pc = "idle"
    BY <1>1, <1>5, ConsumerIsOne DEF Acknowledged, Goto
  <2> QED
    BY <2>1 DEF HandledInOrder
<1>6. ASSUME NEW a \in Actors,
             \/ DuplicateSkipped(a) \/ TaskSent(a) \/ JobRegistered(a)
             \/ DownloadDone(a) \/ DownloadFails(a) \/ EnqueueFails(a)
      PROVE  HandledInOrder'
  <2>1. a # Consumer
    BY <1>6, SendersAreJobs, NamesDiffer
       DEF DuplicateSkipped, TaskSent, JobRegistered, DownloadDone, DownloadFails, EnqueueFails
  <2>2. act'[Consumer] = act[Consumer] /\ UNCHANGED <<pend, at>>
    BY <1>1, <1>6, <2>1 DEF DuplicateSkipped, TaskSent, JobRegistered, DownloadDone,
       DownloadFails, EnqueueFails, Goto, streamVars
  <2> QED
    BY <1>1, <2>2, HandlerUntouched
<1>7. ASSUME NEW r \in Requests, UserAsks(r) PROVE HandledInOrder'
  <2>1. act'[Consumer] = act[Consumer] /\ UNCHANGED <<pend, at>>
    BY <1>1, <1>7, RequestsAreOthers
       DEF UserAsks, RetryText, RetryDownload, RetrySummary, RegenerateBlock, DeleteBegins,
           Enters, streamVars
  <2> QED
    BY <1>1, <2>1, HandlerUntouched
<1>8. CASE ReconcilerStep
  <2>1. act'[Consumer] = act[Consumer] /\ UNCHANGED <<pend, at>>
    BY <1>1, <1>8, NamesDiffer DEF ReconcilerStep, MarkAsFailed, RequeueLlmJob, Enters, streamVars
  <2> QED
    BY <1>1, <2>1, HandlerUntouched
<1>9. CASE WorkerStep \/ (\E j \in Jobs : WorkerLost(j)) \/ LockExpires
  <2>1. UNCHANGED <<act, pend, at>>
    BY <1>9 DEF WorkerStep, WorkerLost, LockExpires, JobStarts, JobSucceeds, JobRetries, JobFails,
           streamVars
  <2> QED
    BY <1>1, <2>1, HandlerUntouched
<1> QED
  BY <1>2, <1>3, <1>4, <1>5, <1>6, <1>7, <1>8, <1>9
     DEF SideStep, ConsumerStep, HandleAsrResult, HandleOcrResult

\* Every step keeps what the consumer has handled.
LEMMA NextKeepsHandled ==
  ControlInv /\ HandledInOrder /\ [ContentNext]_vars => HandledInOrder'
<1> SUFFICES ASSUME ControlInv, HandledInOrder, [ContentNext]_vars PROVE HandledInOrder'
  OBVIOUS
<1>1. ASSUME NEW a \in Actors,
             \/ StatusChecked(a) \/ StatusWritten(a) \/ UpdateFails(a)
             \/ LockTaken(a) \/ LockBusy(a) \/ BlockPersisted(a) \/ GeneratorEnds(a)
      PROVE  HandledInOrder'
  <2>1. CASE a = Consumer
    BY <1>1, <2>1, CheckKeepsHandled, WriteKeepsHandled, UpdateFailsKeepsHandled,
       RunnerKeepsHandled
  <2>2. CASE a # Consumer
    BY <1>1, <2>2, OthersHandle, HandlerUntouched
  <2> QED
    BY <2>1, <2>2
<1>2. ASSUME NEW r \in Requests, RequestStep(r) PROVE HandledInOrder'
  BY <1>2, RequestsAreOthers, OthersHandle, HandlerUntouched
<1>3. CASE Crash
  <2>1. act'[Consumer].pc = "idle"
    BY <1>3, ConsumerIsOne DEF Crash, At
  <2> QED
    BY <2>1 DEF HandledInOrder
<1>4. CASE UNCHANGED vars
  BY <1>4, HandlerUntouched DEF vars, streamVars, historyVars
<1> QED
  BY <1>1, <1>2, <1>3, <1>4, StepKinds, SideStepKeepsHandled

\* A result the consumer is about to acknowledge was stored, whatever the
\* status did meanwhile.
THEOREM ContentAckedResultKept == ContentSpec => []AckedResultKept
<1>1. ContentInit => HandledInOrder
  <2> SUFFICES ASSUME ContentInit PROVE act[Consumer].pc = "idle"
    BY DEF HandledInOrder
  <2> QED
    BY ConsumerIsOne, NamesDiffer DEF ContentInit, Uploaded, PlaceholderMade, At
<1>2. HandledInOrder => AckedResultKept
  BY DEF HandledInOrder, AckedResultKept
<1> QED
  BY <1>1, <1>2, NextKeepsHandled, ContentControl, PTL DEF ContentSpec

-----------------------------------------------------------------------------
(* Generators exclude each other, but for the locks that expired.          *)

Generators == {a \in Actors \ {Reconciler} : act[a].pc = "generate"}

\* Each generator that does not hold the lock lost it to an expiry.
LocksLost ==
    /\ IsFiniteSet(Generators)
    /\ Cardinality(Generators \ {holder}) <= faults["lock"]

\* No step forgets an expiry.
LEMMA FaultsGrow ==
  ASSUME ControlInv, [ContentNext]_vars
  PROVE  /\ faults["lock"] \in Nat /\ faults'["lock"] \in Nat
         /\ faults["lock"] <= faults'["lock"]
<1>1. /\ faults \in [FaultKinds -> 0..MaxFaults] /\ MaxFaults \in Nat
      /\ faults["lock"] \in Nat
  BY PipelineAssumption DEF PipelineAssumption, ControlInv, ContentTypeOK, FaultKinds
<1>2. \A k \in FaultKinds : Fault(k) => faults["lock"] <= faults'["lock"] /\ faults'["lock"] \in Nat
  <2> TAKE k \in FaultKinds
  <2> HAVE Fault(k)
  <2>1. faults'["lock"] \in {faults["lock"], faults["lock"] + 1}
    BY FaultTyped DEF FaultKinds
  <2> QED
    BY <1>1, <2>1
<1>3. UNCHANGED faults \/ \E k \in FaultKinds : Fault(k)
  <2>1. ASSUME NEW a \in Actors, ActorStep(a) \/ BlockPersisted(a) PROVE UNCHANGED faults
    BY <2>1 DEF ActorStep, StatusChecked, StatusWritten, DuplicateSkipped, TaskSent,
       JobRegistered, DownloadDone, DownloadFails, LockTaken, LockBusy, GeneratorEnds,
       BlockPersisted, historyVars
  <2>2. ASSUME NEW r \in Requests, RequestStep(r) \/ UserAsks(r) PROVE UNCHANGED faults
    BY <2>2 DEF RequestStep, SummarizingAcquired, SummarizingRefused, StatusRestored,
       DeleteCommits, UserAsks, RetryText, RetryDownload, RetrySummary, RegenerateBlock,
       DeleteBegins, historyVars
  <2>3. ConsumerStep \/ WorkerStep \/ UNCHANGED vars => UNCHANGED faults
    BY DEF ConsumerStep, ResultsRead, HandleAsrResult, HandleOcrResult, HandleResult,
       ActiveJobCleared, Acknowledged, WorkerStep, JobStarts, JobSucceeds, JobRetries, JobFails,
       historyVars, vars
  <2>4. ReconcilerStep => UNCHANGED faults \/ Fault("slow")
    BY DEF ReconcilerStep, MarkAsFailed, RequeueLlmJob, FoundStuck
  <2>5. Faults => \E k \in FaultKinds : Fault(k)
    BY DEF Faults, EnqueueFails, WorkerLost, UpdateFails, LockExpires, Crash, FaultKinds
  <2> QED
    BY <2>1, <2>2, <2>3, <2>4, <2>5 DEF ContentNext, FaultKinds
<1> QED
  BY <1>1, <1>2, <1>3

\* No more generators, and the same holder.
LEMMA FewerGenerators ==
  ASSUME LocksLost, Generators' \ {holder'} \subseteq Generators \ {holder},
         IsFiniteSet(Generators'),
         faults["lock"] \in Nat, faults'["lock"] \in Nat, faults["lock"] <= faults'["lock"]
  PROVE  LocksLost'
<1>1. IsFiniteSet(Generators \ {holder})
  BY FS_Difference DEF LocksLost
<1>2. /\ Cardinality(Generators' \ {holder'}) <= Cardinality(Generators \ {holder})
      /\ Cardinality(Generators' \ {holder'}) \in Nat
      /\ Cardinality(Generators \ {holder}) \in Nat
  BY <1>1, FS_Subset, FS_CardinalityType
<1> QED
  BY <1>2 DEF LocksLost

\* The step of an actor that is no generator before nor after it.
LEMMA NoNewGenerator ==
  ASSUME NEW a \in Actors, act[a].pc # "generate" \/ a = Reconciler,
         act'[a].pc # "generate" \/ a = Reconciler,
         \A b \in Actors \ {a} : act'[b] = act[b]
  PROVE  Generators' = Generators
  BY DEF Generators

\* A summary run starts to generate with the lock: no step of a run adds a
\* generator without it.
LEMMA RunnerKeepsLocks ==
  ASSUME ControlInv, LocksLost, NEW a \in Actors,
         LockTaken(a) \/ LockBusy(a) \/ BlockPersisted(a) \/ GeneratorEnds(a)
  PROVE  IsFiniteSet(Generators') /\ Generators' \ {holder'} \subseteq Generators \ {holder}
<1>1. act \in [Actors -> Course] /\ IsFiniteSet(Generators)
  BY DEF ControlInv, ContentTypeOK, LocksLost
<1>2. CASE LockTaken(a)
  <2>1. /\ a # Reconciler /\ holder = Nobody /\ holder' = a /\ act[a].pc = "lock"
        /\ act'[a].pc = "generate" /\ \A b \in Actors \ {a} : act'[b] = act[b]
    BY <1>1, <1>2, RunnerOps DEF LockTaken, Course
  <2>2. Generators' = Generators \union {a}
    BY <2>1 DEF Generators
  <2>3. Nobody \notin Generators
    BY NamesDiffer DEF Generators
  <2>4. IsFiniteSet(Generators')
    BY <1>1, <2>2, FS_AddElement
  <2> QED
    BY <2>1, <2>2, <2>3, <2>4
<1>3. CASE LockBusy(a)
  <2>1. /\ act[a].pc = "lock" /\ act'[a].pc # "generate" /\ UNCHANGED holder
        /\ \A b \in Actors \ {a} : act'[b] = act[b]
    BY <1>1, <1>3 DEF LockBusy, RunnerRaises, Course
  <2> QED
    BY <1>1, <2>1, NoNewGenerator
<1>4. CASE BlockPersisted(a)
  <2>1. Generators' = Generators /\ UNCHANGED holder
    BY <1>4 DEF BlockPersisted, Generators
  <2> QED
    BY <1>1, <2>1
<1>5. CASE GeneratorEnds(a)
  <2>1. /\ act'[a].pc # "generate" /\ \A b \in Actors \ {a} : act'[b] = act[b]
        /\ holder' = IF holder = a THEN Nobody ELSE holder
    BY <1>1, <1>5 DEF GeneratorEnds, Course
  <2>2. Generators' = Generators \ {a}
    BY <2>1 DEF Generators
  <2>3. IsFiniteSet(Generators')
    BY <1>1, <2>2, FS_Difference
  <2> QED
    BY <2>1, <2>2, <2>3
<1> QED
  BY <1>2, <1>3, <1>4, <1>5

\* A status update and a request's step make no generator but the reconciler.
LEMMA UpdateKeepsLocks ==
  ASSUME ControlInv, NEW a \in Actors,
         \/ StatusChecked(a) \/ StatusWritten(a) \/ UpdateFails(a)
         \/ a \in Requests /\ RequestStep(a)
  PROVE  Generators' = Generators /\ UNCHANGED holder
<1>1. act \in [Actors -> Course]
  BY DEF ControlInv, ContentTypeOK
<1>2. CASE StatusChecked(a)
  <2>1. act[a].pc \in Validated /\ act[a].pc # "generate" /\ UNCHANGED holder
    BY <1>2 DEF StatusChecked, Validated
  <2>2. Follow(a) # "generate" \/ a = Reconciler
    BY DEF Follow, Rest
  <2>3. Handler(a) # "generate" /\ Rest(a) # "generate"
    BY DEF Handler, Rest
  <2>4. /\ act'[a].pc # "generate" \/ a = Reconciler
        /\ \A b \in Actors \ {a} : act'[b] = act[b]
    BY <1>1, <1>2, <2>1, <2>2, <2>3 DEF StatusChecked, Goto, RaiseOut, Course
  <2> QED
    BY <2>1, <2>4, NoNewGenerator
<1>3. CASE StatusWritten(a)
  <2>1. act[a].pc # "generate" /\ UNCHANGED holder /\ Goto(a, Follow(a))
    BY <1>3 DEF StatusWritten, Validated, Forced
  <2>2. Follow(a) # "generate" \/ a = Reconciler
    BY DEF Follow, Rest
  <2>3. act'[a].pc = Follow(a) /\ \A b \in Actors \ {a} : act'[b] = act[b]
    BY <1>1, <2>1 DEF Goto
  <2> QED
    BY <2>1, <2>2, <2>3, NoNewGenerator
<1>4. CASE a \in Requests /\ RequestStep(a)
  <2>1. /\ act[a].pc # "generate" /\ act'[a].pc # "generate" /\ UNCHANGED holder
        /\ \A b \in Actors \ {a} : act'[b] = act[b]
    BY <1>1, <1>4 DEF RequestStep, SummarizingAcquired, SummarizingRefused, StatusRestored,
       DeleteCommits, Goto, Course
  <2> QED
    BY <2>1, NoNewGenerator
<1>5. CASE UpdateFails(a)
  <2>1. /\ act[a].pc # "generate" /\ UNCHANGED holder
        /\ \A b \in Actors \ {a} : act'[b] = act[b]
        /\ act'[a].pc \in {Handler(a), Rest(a)}
    BY <1>5, UpdateFailsCourse DEF Validated, Forced
  <2>2. act'[a].pc # "generate"
    BY <2>1 DEF Handler, Rest
  <2> QED
    BY <2>1, <2>2, NoNewGenerator
<1> QED
  BY <1>2, <1>3, <1>4, <1>5

\* A side step makes no generator, and takes the lock from one only when it
\* expires.
LEMMA SideStepKeepsLocks ==
  ASSUME ControlInv, SideStep
  PROVE  Generators' = Generators /\ (UNCHANGED holder \/ LockExpires)
<1>1. Generators' = Generators
  <2>1. LeavesSummaries
    BY SideStepLeaves
  <2> QED
    BY <2>1, NoNewGenerator DEF LeavesSummaries, Generators, BoundToEnd
<1>2. ASSUME NEW a \in Actors,
             \/ DuplicateSkipped(a) \/ TaskSent(a) \/ JobRegistered(a)
             \/ DownloadDone(a) \/ DownloadFails(a) \/ EnqueueFails(a)
      PROVE  UNCHANGED holder
  BY <1>2 DEF DuplicateSkipped, TaskSent, JobRegistered, DownloadDone, DownloadFails, EnqueueFails
<1>3. ASSUME NEW r \in Requests, UserAsks(r) PROVE UNCHANGED holder
  BY <1>3 DEF UserAsks, RetryText, RetryDownload, RetrySummary, RegenerateBlock, DeleteBegins
<1>4. ConsumerStep \/ ReconcilerStep => UNCHANGED holder
  BY DEF ConsumerStep, ResultsRead, HandleAsrResult, HandleOcrResult, HandleResult,
     ActiveJobCleared, Acknowledged, ReconcilerStep, MarkAsFailed, RequeueLlmJob
<1>5. WorkerStep \/ (\E j \in Jobs : WorkerLost(j)) => UNCHANGED holder
  BY DEF WorkerStep, WorkerLost, JobStarts, JobSucceeds, JobRetries, JobFails
<1> QED
  BY <1>1, <1>2, <1>3, <1>4, <1>5 DEF SideStep

\* Every step keeps the generators without the lock within the locks that expired.
LEMMA NextKeepsLocks == ControlInv /\ LocksLost /\ [ContentNext]_vars => LocksLost'
<1> SUFFICES ASSUME ControlInv, LocksLost, [ContentNext]_vars PROVE LocksLost'
  OBVIOUS
<1>1. /\ faults["lock"] \in Nat /\ faults'["lock"] \in Nat /\ faults["lock"] <= faults'["lock"]
      /\ IsFiniteSet(Generators)
  BY FaultsGrow DEF LocksLost
<1>2. CASE Generators' = Generators /\ UNCHANGED holder
  BY <1>1, <1>2, FewerGenerators
<1>3. CASE LockExpires /\ Generators' = Generators
  <2>1. faults'["lock"] = faults["lock"] + 1 /\ holder' = Nobody
    BY <1>3, FaultTyped DEF LockExpires, FaultKinds
  <2>2. Generators' \ {holder'} \subseteq (Generators \ {holder}) \union {holder}
    BY <1>3
  <2>3. IsFiniteSet(Generators \ {holder})
    BY <1>1, FS_Difference
  <2>4. /\ IsFiniteSet((Generators \ {holder}) \union {holder})
        /\ Cardinality((Generators \ {holder}) \union {holder})
             <= Cardinality(Generators \ {holder}) + 1
        /\ Cardinality((Generators \ {holder}) \union {holder}) \in Nat
        /\ Cardinality(Generators \ {holder}) \in Nat
    BY <2>3, FS_AddElement, FS_CardinalityType
  <2>5. /\ Cardinality(Generators' \ {holder'})
             <= Cardinality((Generators \ {holder}) \union {holder})
        /\ Cardinality(Generators' \ {holder'}) \in Nat
    BY <2>2, <2>4, FS_Subset, FS_CardinalityType
  <2> QED
    BY <1>1, <1>3, <2>1, <2>4, <2>5 DEF LocksLost
<1>4. CASE Crash
  <2>1. \A a \in Actors : act'[a].pc \in {"idle", "over"}
    BY <1>4 DEF Crash, At, Rest
  <2>2. Generators' = {}
    BY <2>1 DEF Generators
  <2> QED
    BY <1>1, <2>2, FS_EmptySet, FewerGenerators
<1>5. CASE UNCHANGED vars
  <2>1. Generators' = Generators /\ UNCHANGED holder
    BY <1>5 DEF vars, Generators
  <2> QED
    BY <1>2, <2>1
<1>6. ASSUME NEW a \in Actors,
             LockTaken(a) \/ LockBusy(a) \/ BlockPersisted(a) \/ GeneratorEnds(a)
      PROVE  LocksLost'
  BY <1>1, <1>6, RunnerKeepsLocks, FewerGenerators
<1>7. ASSUME NEW r \in Requests, RequestStep(r) PROVE LocksLost'
  BY <1>2, <1>7, RequestsAreOthers, UpdateKeepsLocks
<1> QED
  BY <1>2, <1>3, <1>4, <1>5, <1>6, <1>7, StepKinds, SideStepKeepsLocks, UpdateKeepsLocks

\* Two generators never write a file's blocks at once, but for as many locks as
\* expired.
THEOREM ContentGeneratorsExclude == ContentSpec => []GeneratorsExclude
<1>1. ContentInit /\ ControlInv => LocksLost
  <2> SUFFICES ASSUME ContentInit, ControlInv PROVE LocksLost
    OBVIOUS
  <2>1. \A a \in Actors : act[a].pc \in {"idle", "exists", "download"}
    BY DEF ContentInit, Uploaded, PlaceholderMade, At
  <2>2. Generators = {} /\ Generators \ {holder} = {}
    BY <2>1 DEF Generators
  <2>3. faults["lock"] \in Nat
    BY DEF ControlInv, ContentTypeOK, FaultKinds
  <2> QED
    BY <2>2, <2>3, FS_EmptySet DEF LocksLost
<1>2. ControlInv /\ LocksLost => GeneratorsExclude
  <2> SUFFICES ASSUME ControlInv, LocksLost PROVE GeneratorsExclude
    OBVIOUS
  <2>1. faults["lock"] \in Nat /\ IsFiniteSet(Generators \ {holder})
    <3>1. faults["lock"] \in Nat
      BY DEF ControlInv, ContentTypeOK, FaultKinds
    <3>2. IsFiniteSet(Generators \ {holder})
      BY FS_RemoveElement DEF LocksLost
    <3> QED
      BY <3>1, <3>2
  <2>2. /\ IsFiniteSet((Generators \ {holder}) \union {holder})
        /\ Cardinality((Generators \ {holder}) \union {holder})
             <= Cardinality(Generators \ {holder}) + 1
        /\ Cardinality((Generators \ {holder}) \union {holder}) \in Nat
        /\ Cardinality(Generators \ {holder}) \in Nat
    BY <2>1, FS_AddElement, FS_CardinalityType
  <2>3. Generators \subseteq (Generators \ {holder}) \union {holder}
    OBVIOUS
  <2>4. /\ Cardinality(Generators) <= Cardinality((Generators \ {holder}) \union {holder})
        /\ Cardinality(Generators) \in Nat
    BY <2>2, <2>3, FS_Subset, FS_CardinalityType
  <2>5. Cardinality(Generators) <= 1 + faults["lock"]
    BY <2>1, <2>2, <2>4 DEF LocksLost
  <2> QED
    BY <2>5 DEF GeneratorsExclude, Generators
<1> QED
  BY <1>1, <1>2, NextKeepsLocks, InitControl, ContentControl, PTL DEF ContentSpec

-----------------------------------------------------------------------------
(* A failure to transcribe is published when it is final.                  *)

\* A job was sent by a procedure that sends no other.
Sent == {"register", "unpulled", "over"}
SentOnce == \A j \in Jobs : jobs[j].phase = "none" \/ act[j].pc \in Sent

\* A job that is over stays so.
OverStays == \A j \in Jobs : jobs[j].phase = "over" => jobs'[j].phase = "over"

\* A step of one actor that sends no job.
LEMMA SentStays ==
  ASSUME SentOnce, UNCHANGED jobs, NEW a,
         a \in Jobs /\ act[a].pc \in Sent => act'[a].pc \in Sent,
         \A b \in Actors \ {a} : act'[b] = act[b]
  PROVE  SentOnce' /\ OverStays
  BY DEF SentOnce, OverStays, Jobs, Actors

\* An update of the status publishes nothing.
LEMMA UpdateKeepsSent ==
  ASSUME ControlInv, SentOnce, NEW a \in Actors,
         StatusChecked(a) \/ StatusWritten(a) \/ UpdateFails(a)
  PROVE  SentOnce' /\ OverStays /\ UNCHANGED stream
<1>1. act \in [Actors -> Course] /\ UNCHANGED <<jobs, stream>>
  BY UpdateFailsCourse
     DEF ControlInv, ContentTypeOK, StatusChecked, StatusWritten, queueVars, streamVars
<1>2. \A b \in Actors \ {a} : act'[b] = act[b]
  BY <1>1, UpdateFailsCourse DEF StatusChecked, StatusWritten, Goto, RaiseOut
<1>3. ASSUME a \in Jobs, act[a].pc \in Sent PROVE act'[a].pc \in Sent
  <2>1. act[a].pc = "unpulled"
    BY <1>3, UpdateFailsCourse DEF Sent, StatusChecked, StatusWritten, Validated, Forced
  <2>2. Follow(a) = "over" /\ Handler(a) = "out" /\ Rest(a) = "over"
    BY <1>3, <2>1, NamesDiffer DEF Follow, Handler, Rest
  <2>3. Goto(a, "over") \/ act' = [act EXCEPT ![a].goal = Target("unpulled")]
    BY <2>1, <2>2, UpdateFailsCourse DEF StatusChecked, StatusWritten, RaiseOut
  <2> QED
    BY <1>1, <2>1, <2>3 DEF Goto, Course, Sent
<1> QED
  BY <1>1, <1>2, <1>3, SentStays

\* A request publishes nothing.
LEMMA RequestKeepsSent ==
  ASSUME ControlInv, SentOnce, NEW r \in Requests, RequestStep(r)
  PROVE  SentOnce' /\ OverStays /\ UNCHANGED stream
<1>1. /\ UNCHANGED <<jobs, stream>> /\ act[r].pc \notin Sent
      /\ \A b \in Actors \ {r} : act'[b] = act[b]
  BY DEF ControlInv, ContentTypeOK, RequestStep, SummarizingAcquired, SummarizingRefused,
     StatusRestored, DeleteCommits, Goto, queueVars, streamVars, Sent
<1> QED
  BY <1>1, SentStays

\* A summary run publishes nothing.
LEMMA RunnerKeepsSent ==
  ASSUME ControlInv, SentOnce, NEW a \in Actors,
         LockTaken(a) \/ LockBusy(a) \/ BlockPersisted(a) \/ GeneratorEnds(a)
  PROVE  SentOnce' /\ OverStays /\ UNCHANGED stream
<1>1. /\ UNCHANGED <<jobs, stream>> /\ act[a].pc \notin Sent
      /\ \A b \in Actors \ {a} : act'[b] = act[b]
  BY DEF ControlInv, ContentTypeOK, LockTaken, LockBusy, BlockPersisted, GeneratorEnds,
     queueVars, streamVars, Sent
<1> QED
  BY <1>1, SentStays

\* The job is sent from the one step, to which its sender does not come back.
LEMMA QueueKeepsSent ==
  ASSUME ControlInv, SentOnce, NEW a \in Actors,
         \/ DuplicateSkipped(a) \/ TaskSent(a) \/ JobRegistered(a)
         \/ DownloadDone(a) \/ DownloadFails(a) \/ EnqueueFails(a)
  PROVE  SentOnce' /\ OverStays /\ UNCHANGED stream
<1>1. act \in [Actors -> Course] /\ jobs \in [Jobs -> Job] /\ UNCHANGED stream
  BY DEF ControlInv, ContentTypeOK, DuplicateSkipped, TaskSent, JobRegistered, DownloadDone,
     DownloadFails, EnqueueFails, streamVars
<1>2. CASE TaskSent(a)
  <2>1. /\ a \in Jobs /\ act'[a].pc = "register" /\ act[a].pc = "exists"
        /\ \A b \in Actors \ {a} : act'[b] = act[b]
    BY <1>1, <1>2, SendersAreJobs DEF TaskSent, Goto
  <2>2. \A j \in Jobs \ {a} : jobs'[j] = jobs[j]
    BY <1>1, <1>2 DEF TaskSent
  <2>3. jobs[a].phase = "none"
    BY <2>1 DEF SentOnce, Sent
  <2>4. SentOnce'
    BY <2>1, <2>2 DEF SentOnce, Sent, Jobs, Actors
  <2>5. OverStays
    BY <2>2, <2>3 DEF OverStays
  <2> QED
    BY <1>1, <2>4, <2>5
<1>3. CASE DuplicateSkipped(a) \/ JobRegistered(a) \/ DownloadDone(a) \/ DownloadFails(a)
              \/ EnqueueFails(a)
  <2>1. /\ UNCHANGED jobs /\ act[a].pc \in {"exists", "register", "download"}
        /\ act[a].pc = "register" => act'[a].pc \in {"over", "unpulled"}
        /\ \A b \in Actors \ {a} : act'[b] = act[b]
    BY <1>1, <1>3 DEF DuplicateSkipped, JobRegistered, DownloadDone, DownloadFails, EnqueueFails,
       Goto, queueVars
  <2> QED
    BY <1>1, <2>1, SentStays DEF Sent
<1> QED
  BY <1>2, <1>3

\* A request that begins publishes nothing.
LEMMA AskKeepsSent ==
  ASSUME ControlInv, SentOnce, NEW r \in Requests, UserAsks(r)
  PROVE  SentOnce' /\ OverStays /\ UNCHANGED stream
<1>1. /\ act[r].pc \notin Sent /\ UNCHANGED stream
      /\ \A b \in Actors \ {r} : act'[b] = act[b]
  BY DEF ControlInv, ContentTypeOK, UserAsks, RetryText, RetryDownload, RetrySummary,
     RegenerateBlock, DeleteBegins, Enters, streamVars, Sent
<1>2. CASE UNCHANGED jobs
  BY <1>1, <1>2, SentStays
<1>3. CASE DeleteBegins(r)
  <2>1. PICK revoked \in SUBSET {j \in Jobs : jobs[j].phase \in {"queued", "running"}} :
          jobs' = [j \in Jobs |-> IF j \in revoked THEN [jobs[j] EXCEPT !.phase = "over"]
                                                   ELSE jobs[j]]
    BY <1>3 DEF DeleteBegins
  <2>2. jobs \in [Jobs -> Job]
    BY DEF ControlInv, ContentTypeOK
  <2>3. \A j \in Jobs : \/ jobs'[j].phase = jobs[j].phase
                        \/ jobs[j].phase # "none" /\ jobs'[j].phase = "over"
    BY <2>1, <2>2 DEF Job
  <2>4. \A j \in Jobs : act[j].pc \in Sent => act'[j].pc \in Sent
    BY <1>1 DEF Jobs, Actors
  <2> QED
    BY <1>1, <2>3, <2>4 DEF SentOnce, OverStays
<1> QED
  BY <1>2, <1>3
     DEF UserAsks, RetryText, RetryDownload, RetrySummary, RegenerateBlock, queueVars

\* The steps of the two loops, an expiry and a crash.
LEMMA LoopsKeepSent ==
  ASSUME ControlInv, SentOnce,
         ConsumerStep \/ ReconcilerStep \/ LockExpires \/ Crash \/ UNCHANGED vars
  PROVE  SentOnce' /\ OverStays /\ (UNCHANGED stream \/ stream' = <<>>)
<1>1. act \in [Actors -> Course] /\ Jobs \subseteq Actors \ {Consumer, Reconciler}
  BY NamesDiffer DEF ControlInv, ContentTypeOK, Jobs, Actors
<1>2. UNCHANGED jobs /\ (UNCHANGED stream \/ stream' = <<>>)
  BY DEF ConsumerStep, ResultsRead, HandleAsrResult, HandleOcrResult, HandleResult,
     ActiveJobCleared, Acknowledged, ReconcilerStep, MarkAsFailed, RequeueLlmJob,
     LockExpires, Crash, queueVars, streamVars, vars
<1>3. ASSUME NEW j \in Jobs, act[j].pc \in Sent PROVE act'[j].pc \in Sent
  <2>1. CASE Crash
    BY <1>1, <1>3, <2>1 DEF Crash, At, Rest, Sent
  <2>2. CASE ~Crash
    <3>1. act'[j] = act[j]
      BY <1>1, <2>2 DEF ConsumerStep, ResultsRead, HandleAsrResult, HandleOcrResult,
         HandleResult, ActiveJobCleared, Acknowledged, Goto,
         ReconcilerStep, MarkAsFailed, RequeueLlmJob, Enters, LockExpires, vars
    <3> QED
      BY <1>3, <3>1
  <2> QED
    BY <2>1, <2>2
<1> QED
  BY <1>2, <1>3 DEF SentOnce, OverStays

\* The worker's steps: a failure of an audio file is published with the end of
\* the job.
LEMMA WorkerKeepsSent ==
  ASSUME ControlInv, SentOnce, NEW j \in Jobs,
         JobStarts(j) \/ JobSucceeds(j) \/ JobRetries(j) \/ JobFails(j) \/ WorkerLost(j)
  PROVE  /\ SentOnce' /\ OverStays
         /\ kind = "audio" =>
              \/ UNCHANGED stream
              \/ \E what \in Results \ {"failed"} : stream' = Append(stream, Result(j, what))
              \/ \E n \in {0, 1} : /\ stream' = stream \o [i \in 1..n |-> Result(j, "failed")]
                                   /\ n = 1 => jobs'[j].phase = "over"
<1>1. jobs \in [Jobs -> Job] /\ UNCHANGED act /\ jobs[j].phase \in {"queued", "running"}
  BY DEF ControlInv, ContentTypeOK, JobStarts, JobSucceeds, JobRetries, JobFails, WorkerLost
<1>2. \A i \in Jobs \ {j} : jobs'[i] = jobs[i]
  BY <1>1 DEF JobStarts, JobSucceeds, JobRetries, JobFails, WorkerLost, Phase, Retried
<1>3. SentOnce' /\ OverStays
  BY <1>1, <1>2 DEF SentOnce, OverStays
<1>4. ASSUME kind = "audio", JobRetries(j) \/ JobFails(j)
      PROVE  \E n \in {0, 1} : /\ stream' = stream \o [i \in 1..n |-> Result(j, "failed")]
                               /\ n = 1 => jobs'[j].phase = "over"
  <2>1. CASE JobRetries(j)
    <3>1. \E n \in {0} : stream' = stream \o [i \in 1..n |-> Result(j, "failed")]
      BY <1>4, <2>1 DEF JobRetries, FailurePublished, AsrFailures
    <3> QED
      BY <3>1
  <2>2. CASE JobFails(j)
    <3>1. \E n \in {1} : stream' = stream \o [i \in 1..n |-> Result(j, "failed")]
      BY <1>4, <2>2 DEF JobFails, FailurePublished, AsrFailures
    <3>2. jobs'[j].phase = "over"
      BY <1>1, <2>2 DEF JobFails, Phase, Job
    <3> QED
      BY <3>1, <3>2
  <2> QED
    BY <1>4, <2>1, <2>2
<1>5. JobStarts(j) \/ JobSucceeds(j) \/ WorkerLost(j) =>
         \/ UNCHANGED stream
         \/ \E what \in Results \ {"failed"} : stream' = Append(stream, Result(j, what))
  BY DEF JobStarts, JobSucceeds, WorkerLost, Results
<1> QED
  BY <1>3, <1>4, <1>5

FinalInv == SentOnce /\ (kind = "audio" => FailureIsFinal)

\* The entries of the stream are of jobs.
LEMMA StreamEntries ==
  ASSUME ControlInv
  PROVE  /\ stream \in Seq(Entry) /\ Len(stream) \in Nat
         /\ \A i \in 1..Len(stream) : stream[i].job \in Jobs
<1>1. stream \in Seq(Entry)
  BY DEF ControlInv, ContentTypeOK
<1>2. \A i \in 1..Len(stream) : stream[i] \in Entry
  BY <1>1
<1>3. \A e \in Entry : e.job \in Jobs
  BY DEF Entry
<1> QED
  BY <1>1, <1>2, <1>3

\* What is left of the stream, or comes to it, keeps the failures final.
LEMMA StreamKeepsFinal ==
  ASSUME ControlInv, FailureIsFinal, OverStays, UNCHANGED stream \/ stream' = <<>>
  PROVE  FailureIsFinal'
<1>1. \A i \in 1..Len(stream) : stream[i].job \in Jobs
  BY StreamEntries
<1> QED
  BY <1>1 DEF FailureIsFinal, OverStays

\* A result other than a failure may follow whatever was published.
LEMMA AppendKeepsFinal ==
  ASSUME ControlInv, FailureIsFinal, OverStays, NEW j \in Jobs, NEW what \in Results \ {"failed"},
         stream' = Append(stream, Result(j, what))
  PROVE  FailureIsFinal'
<1>1. stream \in Seq(Entry) /\ \A i \in 1..Len(stream) : stream[i].job \in Jobs
  BY StreamEntries
<1>2. \A i \in 1..Len(stream') : stream'[i] = IF i \in 1..Len(stream) THEN stream[i]
                                                                    ELSE Result(j, what)
  BY <1>1
<1>3. Result(j, what).what # "failed"
  BY DEF Result
<1> QED
  BY <1>1, <1>2, <1>3 DEF FailureIsFinal, OverStays

\* A failed transcription is published as the last word of its task.
LEMMA FailureKeepsFinal ==
  ASSUME ControlInv, FailureIsFinal, OverStays, NEW j \in Jobs, NEW n \in {0, 1},
         stream' = stream \o [i \in 1..n |-> Result(j, "failed")],
         n = 1 => jobs'[j].phase = "over"
  PROVE  FailureIsFinal'
<1> DEFINE tail == [i \in 1..n |-> Result(j, "failed")]
<1>1. stream \in Seq(Entry) /\ Len(stream) \in Nat
      /\ \A i \in 1..Len(stream) : stream[i].job \in Jobs
  BY StreamEntries
<1>2. Result(j, "failed") \in Entry /\ Result(j, "failed").job = j
  BY DEF Result, Entry, Results
<1>3. tail \in Seq(Entry) /\ Len(tail) = n
  BY <1>2, IsASeq
<1>4. \A i \in 1..n : tail[i] = Result(j, "failed")
  OBVIOUS
<1> HIDE DEF tail
<1>5. /\ Len(stream') = Len(stream) + n
      /\ \A i \in 1..Len(stream') :
            stream'[i] = IF i <= Len(stream) THEN stream[i] ELSE tail[i - Len(stream)]
  BY <1>1, <1>3, ConcatProperties DEF tail
<1>6. ASSUME NEW i \in 1..Len(stream'), stream'[i].what = "failed"
      PROVE  jobs'[stream'[i].job].phase = "over"
  <2>1. CASE i <= Len(stream)
    <3>1. i \in 1..Len(stream) /\ stream'[i] = stream[i]
      BY <1>1, <1>5, <2>1
    <3>2. jobs[stream[i].job].phase = "over" /\ stream[i].job \in Jobs
      BY <1>1, <1>6, <3>1 DEF FailureIsFinal
    <3> QED
      BY <3>1, <3>2 DEF OverStays
  <2>2. CASE i > Len(stream)
    <3>1. n = 1 /\ i - Len(stream) \in 1..n
      BY <1>1, <1>5, <2>2
    <3> QED
      BY <1>2, <1>4, <1>5, <2>2, <3>1, <1>1
  <2> QED
    BY <1>1, <2>1, <2>2
<1> QED
  BY <1>6 DEF FailureIsFinal

\* Every step keeps the failures of a recording final.
LEMMA NextKeepsFinal == ControlInv /\ FinalInv /\ [ContentNext]_vars => FinalInv'
<1> SUFFICES ASSUME ControlInv, FinalInv, [ContentNext]_vars PROVE FinalInv'
  OBVIOUS
<1>1. ASSUME SentOnce', OverStays, UNCHANGED stream \/ stream' = <<>>, UNCHANGED kind
      PROVE  FinalInv'
  BY <1>1, StreamKeepsFinal DEF FinalInv
<1>2. SentOnce
  BY DEF FinalInv
<1>3. ASSUME NEW a \in Actors,
             \/ StatusChecked(a) \/ StatusWritten(a) \/ UpdateFails(a)
             \/ LockTaken(a) \/ LockBusy(a) \/ BlockPersisted(a) \/ GeneratorEnds(a)
      PROVE  FinalInv'
  <2>1. UNCHANGED kind
    BY <1>3 DEF StatusChecked, StatusWritten, UpdateFails, LockTaken, LockBusy, BlockPersisted,
       GeneratorEnds, rowVars
  <2> QED
    BY <1>1, <1>2, <1>3, <2>1, UpdateKeepsSent, RunnerKeepsSent
<1>4. ASSUME NEW r \in Requests, RequestStep(r) PROVE FinalInv'
  <2>1. UNCHANGED kind
    BY <1>4 DEF RequestStep, SummarizingAcquired, SummarizingRefused, StatusRestored,
       DeleteCommits, rowVars
  <2> QED
    BY <1>1, <1>2, <1>4, <2>1, RequestKeepsSent
<1>5. CASE Crash \/ UNCHANGED vars
  <2>1. UNCHANGED kind
    BY <1>5 DEF Crash, vars, rowVars
  <2> QED
    BY <1>1, <1>2, <1>5, <2>1, LoopsKeepSent
<1>6. CASE SideStep
  <2>1. UNCHANGED kind
    BY <1>6, SideStepLeaves
  <2>2. ASSUME NEW j \in Jobs,
               JobStarts(j) \/ JobSucceeds(j) \/ JobRetries(j) \/ JobFails(j) \/ WorkerLost(j)
        PROVE  FinalInv'
    BY <1>2, <2>1, <2>2, WorkerKeepsSent, StreamKeepsFinal, AppendKeepsFinal, FailureKeepsFinal
       DEF FinalInv
  <2> QED
    BY <1>1, <1>2, <1>6, <2>1, <2>2, QueueKeepsSent, AskKeepsSent, LoopsKeepSent
       DEF SideStep, WorkerStep
<1> QED
  BY <1>3, <1>4, <1>5, <1>6, StepKinds

\* A failure to transcribe that is published is the job's last word, as the
\* comments say of both kinds: it is the tasks that read a document which
\* break it.
THEOREM AsrFailureIsFinal == ContentSpec => [](kind = "audio" => FailureIsFinal)
<1>1. ContentInit => FinalInv
  <2> SUFFICES ASSUME ContentInit PROVE FinalInv
    OBVIOUS
  <2>1. \A j \in Jobs : jobs[j].phase = "none"
    BY DEF ContentInit
  <2>2. Len(stream) = 0
    BY DEF ContentInit
  <2> QED
    BY <2>1, <2>2 DEF FinalInv, SentOnce, FailureIsFinal
<1>2. FinalInv => (kind = "audio" => FailureIsFinal)
  BY DEF FinalInv
<1> QED
  BY <1>1, <1>2, NextKeepsFinal, ContentControl, PTL DEF ContentSpec
=============================================================================
