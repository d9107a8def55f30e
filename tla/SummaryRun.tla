----------------------------- MODULE SummaryRun -----------------------------
(***************************************************************************)
(* How the blocks of one file's summary are generated and stored           *)
(* (services/block_generator.py, services/summary_runner.py): the title,   *)
(* keywords and headings in one call, then one section per heading, at     *)
(* most SECTION_CONCURRENCY at a time, in rounds that repeat what failed.  *)
(* After each block the whole state is written over summary_sections, in a *)
(* session of its own.                                                     *)
(*                                                                         *)
(* A run is a summary of the file or the regeneration of one block; runs   *)
(* take lock:summary:write, which nobody extends.  Its 40 minutes may be   *)
(* over before the run is: generate looks at its 30 minutes only before a  *)
(* back-off of up to 600 s and a whole round more.                         *)
(*                                                                         *)
(* The sections of a round are tasks of asyncio.gather, which ends with    *)
(* the first exception and leaves the other tasks running.                 *)
(***************************************************************************)
EXTENDS Naturals, Sequences, FiniteSets

CONSTANTS
    Runs,           \* calls of summarize_with_block_generator and regenerate_block
    Concurrency,    \* SECTION_CONCURRENCY
    MaxRounds,      \* MAX_ROUNDS
    MaxSections,    \* bound: headings of an outline
    MaxFaults,      \* bound: writes that fail
    NoRun,          \* nobody
    NoState         \* nothing stored, or nothing on its way to be

ASSUME SummaryAssumption ==
    /\ NoRun \notin Runs
    /\ Concurrency \in Nat \ {0}
    /\ MaxRounds \in Nat
    /\ MaxSections \in Nat
    /\ MaxFaults \in Nat

\* group_extracts of the default template
Meta == {"title", "keywords", "headings"}
BlockStatus == {"pending", "success", "failed"}
Numbers == 1..MaxSections

\* SectionsState.  A section keeps the outline its label comes from, which is
\* told by the run that made the headings.
Section == [status : BlockStatus, label : Runs]
State == [meta : [Meta -> BlockStatus], outline : Runs \union {NoRun},
          items : 0..MaxSections, body : Seq(Section)]

VARIABLES
    sections,       \* contents.summary_sections
    lock,           \* who holds lock:summary:write
    outlived,       \* the runs whose lock expired under them
    pc,             \* where a run is
    mem,            \* its SectionsState
    round,          \* its round
    left,           \* the blocks of the group it has yet to report
    ok,             \* the group's answer was complete
    copy,           \* the state the run itself is writing
    task,           \* its section tasks
    draft,          \* the states they are writing
    outcome,        \* how it ended
    faults

rowVars == <<sections, lock, outlived>>
runVars == <<pc, mem, round, left, ok, copy, outcome>>
taskVars == <<task, draft>>
summaryVars == <<rowVars, runVars, taskVars, faults>>

SummaryTypeOK ==
    /\ sections \in State \union {NoState}
    /\ lock \in Runs \union {NoRun}
    /\ outlived \subseteq Runs
    /\ pc \in [Runs -> {"idle", "round", "group", "report", "expand", "gather", "ended", "over"}]
    /\ mem \in [Runs -> State]
    /\ round \in [Runs -> 0..MaxRounds]
    /\ left \in [Runs -> SUBSET Meta]
    /\ ok \in [Runs -> BOOLEAN]
    /\ copy \in [Runs -> State \union {NoState}]
    /\ task \in [Runs -> [Numbers -> {"none", "waiting", "calling", "saving"}]]
    /\ draft \in [Runs -> [Numbers -> State \union {NoState}]]
    /\ outcome \in [Runs -> {"none", "success", "partial", "raised", "refused"}]
    /\ faults \in 0..MaxFaults

\* _init_state
Fresh == [meta |-> [k \in Meta |-> "pending"], outline |-> NoRun, items |-> 0, body |-> <<>>]

SummaryInit ==
    /\ sections = NoState
    /\ lock = NoRun
    /\ outlived = {}
    /\ pc = [r \in Runs |-> "idle"]
    /\ mem = [r \in Runs |-> Fresh]
    /\ round = [r \in Runs |-> 0]
    /\ left = [r \in Runs |-> {}]
    /\ ok = [r \in Runs |-> FALSE]
    /\ copy = [r \in Runs |-> NoState]
    /\ task = [r \in Runs |-> [i \in Numbers |-> "none"]]
    /\ draft = [r \in Runs |-> [i \in Numbers |-> NoState]]
    /\ outcome = [r \in Runs |-> "none"]
    /\ faults = 0

-----------------------------------------------------------------------------
(* Operators on a SectionsState.                                           *)

MetaDone(s) == \A k \in Meta : s.meta[k] = "success"

\* all_required_success
AllRequired(s) ==
    /\ MetaDone(s)
    /\ s.body # <<>>
    /\ \A i \in DOMAIN s.body : s.body[i].status = "success"

Unmade(s) == [i \in 1..s.items |-> [status |-> "pending", label |-> s.outline]]

\* Faulty variant: the headings are expanded over the sections there are.
ExpandedAgain(s) ==
    IF s.meta["headings"] # "success" THEN s
    ELSE [s EXCEPT !.body = Unmade(s) \o SubSeq(@, s.items + 1, Len(@))]

\* _expand_dynamic_blocks: once there are headings, and no section yet.
Expanded(s) ==
    IF s.meta["headings"] = "success" /\ s.body = <<>>
    THEN [s EXCEPT !.body = Unmade(s)]
    ELSE s

\* Faulty variant: every section is made again in every round.
TargetsAll(s) == IF s.meta["headings"] = "success" THEN DOMAIN s.body ELSE {}

\* The sections to be made in a round
Targets(s) ==
    IF s.meta["headings"] = "success"
    THEN {i \in DOMAIN s.body : s.body[i].status # "success"}
    ELSE {}

\* The group is extracted as a whole again, or one section is made again.
GroupReset(s) == [s EXCEPT !.meta = [k \in Meta |-> "pending"], !.outline = NoRun, !.items = 0]
SectionReset(s, i) == [s EXCEPT !.body[i].status = "pending"]

-----------------------------------------------------------------------------
(* The runner: the lock, tried once, and the two kinds of run.             *)

Starts(r, s) ==
    /\ pc[r] = "idle" /\ lock = NoRun
    /\ lock' = r
    /\ pc' = [pc EXCEPT ![r] = "round"]
    /\ mem' = [mem EXCEPT ![r] = s]
    /\ UNCHANGED <<sections, outlived, round, left, ok, copy, outcome, taskVars, faults>>

SummaryStarts(r) == Starts(r, Fresh)

\* regenerate_block resets the group of a block of the group, or one section;
\* nothing, for a section that is not there yet.
RegenerateStarts(r) ==
    /\ sections # NoState
    /\ \/ Starts(r, GroupReset(sections))
       \/ \E i \in DOMAIN sections.body : Starts(r, SectionReset(sections, i))
       \/ Len(sections.body) < MaxSections /\ Starts(r, sections)

Refused(r) ==
    /\ pc[r] = "idle" /\ lock # NoRun
    /\ pc' = [pc EXCEPT ![r] = "over"]
    /\ outcome' = [outcome EXCEPT ![r] = "refused"]
    /\ UNCHANGED <<rowVars, mem, round, left, ok, copy, taskVars, faults>>

\* Faulty variant: the lock is deleted whoever holds it.
ReleasedAnyones(r) ==
    /\ pc[r] = "ended"
    /\ pc' = [pc EXCEPT ![r] = "over"]
    /\ lock' = NoRun
    /\ UNCHANGED <<sections, outlived, mem, round, left, ok, copy, outcome, taskVars, faults>>

\* lock.release() leaves a lock that is another's; the LockError is suppressed.
Released(r) ==
    /\ pc[r] = "ended"
    /\ pc' = [pc EXCEPT ![r] = "over"]
    /\ lock' = IF lock = r THEN NoRun ELSE lock
    /\ UNCHANGED <<sections, outlived, mem, round, left, ok, copy, outcome, taskVars, faults>>

-----------------------------------------------------------------------------
(* The clock.  Time passes once the rounds have begun, as much as it may.  *)

\* The 40 minutes of the lock are over, and its holder still goes on.
LockExpires(r) ==
    /\ lock = r /\ round[r] > 0
    /\ lock' = NoRun
    /\ outlived' = outlived \union {r}
    /\ UNCHANGED <<sections, runVars, taskVars, faults>>

-----------------------------------------------------------------------------
(* generate: the rounds.                                                   *)

\* Faulty variant: the rounds are not counted.
RoundBeginsUncounted(r) ==
    /\ pc[r] = "round" /\ round[r] < MaxRounds /\ r \notin outlived
    /\ pc' = [pc EXCEPT ![r] = IF MetaDone(mem[r]) THEN "expand" ELSE "group"]
    /\ UNCHANGED <<rowVars, mem, round, left, ok, copy, outcome, taskVars, faults>>

\* Faulty variant: one round too many.
RoundBeginsAgain(r) ==
    /\ pc[r] = "round" /\ round[r] <= MaxRounds /\ r \notin outlived
    /\ round' = [round EXCEPT ![r] = @ + 1]
    /\ pc' = [pc EXCEPT ![r] = IF MetaDone(mem[r]) THEN "expand" ELSE "group"]
    /\ UNCHANGED <<rowVars, mem, left, ok, copy, outcome, taskVars, faults>>

\* The 30 minutes are not over: one round more, after its back-off.
\* _run_metadata_group has nothing to do when the group is there.
RoundBegins(r) ==
    /\ pc[r] = "round" /\ round[r] < MaxRounds /\ r \notin outlived
    /\ round' = [round EXCEPT ![r] = @ + 1]
    /\ pc' = [pc EXCEPT ![r] = IF MetaDone(mem[r]) THEN "expand" ELSE "group"]
    /\ UNCHANGED <<rowVars, mem, left, ok, copy, outcome, taskVars, faults>>

\* No round is left, or the 30 minutes are over before another one, as they are
\* when the lock's 40 are.
RoundsSpent(r) ==
    /\ pc[r] = "round"
    /\ round[r] = MaxRounds \/ round[r] > 0
    /\ pc' = [pc EXCEPT ![r] = "ended"]
    /\ outcome' = [outcome EXCEPT ![r] = "partial"]
    /\ UNCHANGED <<rowVars, mem, round, left, ok, copy, taskVars, faults>>

\* The group's call is answered, with all of its blocks or without; then
\* those that were missing are marked failed at once.
GroupAnswered(r) ==
    /\ pc[r] = "group"
    /\ pc' = [pc EXCEPT ![r] = "report"]
    /\ \/ /\ ok' = [ok EXCEPT ![r] = TRUE]
          /\ left' = [left EXCEPT ![r] = Meta]
          /\ UNCHANGED mem
       \/ /\ ok' = [ok EXCEPT ![r] = FALSE]
          /\ left' = [left EXCEPT ![r] = {k \in Meta : mem[r].meta[k] # "success"}]
          /\ mem' = [mem EXCEPT ![r].meta =
                        [k \in Meta |-> IF @[k] = "success" THEN "success" ELSE "failed"]]
    /\ UNCHANGED <<rowVars, round, copy, outcome, taskVars, faults>>

\* The next block of the group, in the group's order, is set if there is one to
\* set, and the state is taken for the callback.
BlockReported(r) ==
    /\ pc[r] = "report" /\ copy[r] = NoState
    /\ \E k \in left[r] :
          /\ k = "keywords" => "title" \notin left[r]
          /\ k = "headings" => left[r] = {"headings"}
          /\ left' = [left EXCEPT ![r] = @ \ {k}]
          /\ \/ /\ ok[r] /\ k # "headings"
                /\ mem' = [mem EXCEPT ![r].meta[k] = "success"]
             \/ /\ ok[r] /\ k = "headings"
                /\ \E n \in Numbers :
                      mem' = [mem EXCEPT ![r] = [@ EXCEPT !.meta["headings"] = "success",
                                                          !.outline = r, !.items = n]]
             \/ ~ok[r] /\ UNCHANGED mem
    /\ copy' = [copy EXCEPT ![r] = mem'[r]]
    /\ UNCHANGED <<rowVars, pc, round, ok, outcome, taskVars, faults>>

\* The run's own _persist: the UPDATE and the commit.
GroupStored(r) ==
    /\ copy[r] # NoState
    /\ sections' = copy[r]
    /\ copy' = [copy EXCEPT ![r] = NoState]
    /\ UNCHANGED <<lock, outlived, pc, mem, round, left, ok, outcome, taskVars, faults>>

\* It fails, and with it the run.
GroupStoreFails(r) ==
    /\ copy[r] # NoState
    /\ faults < MaxFaults /\ faults' = faults + 1
    /\ copy' = [copy EXCEPT ![r] = NoState]
    /\ pc' = [pc EXCEPT ![r] = "ended"]
    /\ outcome' = [outcome EXCEPT ![r] = "raised"]
    /\ UNCHANGED <<rowVars, mem, round, left, ok, taskVars>>

GroupReported(r) ==
    /\ pc[r] = "report" /\ left[r] = {} /\ copy[r] = NoState
    /\ pc' = [pc EXCEPT ![r] = "expand"]
    /\ UNCHANGED <<rowVars, mem, round, left, ok, copy, outcome, taskVars, faults>>

\* The sections of the round are handed to gather.
SectionsBegin(r) ==
    /\ pc[r] = "expand"
    /\ mem' = [mem EXCEPT ![r] = Expanded(@)]
    /\ task' = [task EXCEPT ![r] = [i \in Numbers |->
                    IF i \in Targets(Expanded(mem[r])) THEN "waiting" ELSE "none"]]
    /\ pc' = [pc EXCEPT ![r] = "gather"]
    /\ UNCHANGED <<rowVars, round, left, ok, copy, outcome, draft, faults>>

\* Every task is through.
RoundEnds(r) ==
    /\ pc[r] = "gather"
    /\ \A i \in Numbers : task[r][i] = "none"
    /\ IF AllRequired(mem[r])
       THEN /\ pc' = [pc EXCEPT ![r] = "ended"]
            /\ outcome' = [outcome EXCEPT ![r] = "success"]
       ELSE pc' = [pc EXCEPT ![r] = "round"] /\ UNCHANGED outcome
    /\ UNCHANGED <<rowVars, mem, round, left, ok, copy, taskVars, faults>>

-----------------------------------------------------------------------------
(* One section: _gated and _one, also when their run has raised.           *)

\* The semaphore lets the tasks in, in their order.
SectionCalled(r, i) ==
    /\ task[r][i] = "waiting"
    /\ \A j \in Numbers : j < i => task[r][j] # "waiting"
    /\ Cardinality({j \in Numbers : task[r][j] \in {"calling", "saving"}}) < Concurrency
    /\ task' = [task EXCEPT ![r][i] = "calling"]
    /\ UNCHANGED <<rowVars, runVars, draft, faults>>

\* The call is answered with a section, or fails; the state is taken for the
\* callback.
SectionAnswered(r, i) ==
    /\ task[r][i] = "calling"
    /\ \E result \in {"success", "failed"} :
          mem' = [mem EXCEPT ![r].body[i].status = result]
    /\ task' = [task EXCEPT ![r][i] = "saving"]
    /\ draft' = [draft EXCEPT ![r][i] = mem'[r]]
    /\ UNCHANGED <<rowVars, pc, round, left, ok, copy, outcome, faults>>

SectionStored(r, i) ==
    /\ task[r][i] = "saving"
    /\ sections' = draft[r][i]
    /\ task' = [task EXCEPT ![r][i] = "none"]
    /\ draft' = [draft EXCEPT ![r][i] = NoState]
    /\ UNCHANGED <<lock, outlived, runVars, faults>>

\* The exception ends gather, if it has not ended, and so the run.
SectionStoreFails(r, i) ==
    /\ task[r][i] = "saving"
    /\ faults < MaxFaults /\ faults' = faults + 1
    /\ task' = [task EXCEPT ![r][i] = "none"]
    /\ draft' = [draft EXCEPT ![r][i] = NoState]
    /\ IF pc[r] = "gather"
       THEN /\ pc' = [pc EXCEPT ![r] = "ended"]
            /\ outcome' = [outcome EXCEPT ![r] = "raised"]
       ELSE UNCHANGED <<pc, outcome>>
    /\ UNCHANGED <<rowVars, mem, round, left, ok, copy>>

-----------------------------------------------------------------------------
RunStep(r) ==
    \/ Released(r)
    \/ RoundBegins(r) \/ RoundsSpent(r)
    \/ GroupAnswered(r) \/ BlockReported(r) \/ GroupStored(r) \/ GroupReported(r)
    \/ SectionsBegin(r) \/ RoundEnds(r)

TaskStep(r, i) == SectionCalled(r, i) \/ SectionAnswered(r, i) \/ SectionStored(r, i)

SummaryNext ==
    \E r \in Runs :
        \/ SummaryStarts(r) \/ RegenerateStarts(r) \/ Refused(r)
        \/ RunStep(r)
        \/ LockExpires(r)
        \/ GroupStoreFails(r)
        \/ \E i \in Numbers : TaskStep(r, i) \/ SectionStoreFails(r, i)

SummarySpec == SummaryInit /\ [][SummaryNext]_summaryVars

\* A run that has begun goes on, and so do its tasks: the gateway answers or
\* times out, and the database answers.  The clock is not asked for help.
FairSummarySpec ==
    /\ SummarySpec
    /\ \A r \in Runs :
        /\ WF_summaryVars(RunStep(r))
        /\ \A i \in Numbers : WF_summaryVars(TaskStep(r, i))

-----------------------------------------------------------------------------
(* Properties                                                              *)

\* Only the run that holds the lock has a state on its way to the row, but for
\* two that may write over the blocks of the next run: one that ended with an
\* exception, for its other tasks go on (gather), and one that outlived its lock.
\* Neither takes the lock from the run beside it.
StoresLocked ==
    \A r \in Runs :
        copy[r] # NoState \/ (\E i \in Numbers : task[r][i] # "none")
            => lock = r \/ outcome[r] = "raised" \/ r \in outlived

\* The stored sections come from one list of headings, whatever was
\* regenerated, repeated or left running (_expand_dynamic_blocks).  They need
\* not be the headings stored beside them: the regeneration of the group makes
\* new headings and leaves the sections.
SectionsOfOneOutline ==
    sections # NoState =>
        \A i, j \in DOMAIN sections.body : sections.body[i].label = sections.body[j].label

\* A section that is there is not made again by the rounds that repeat what
\* failed: from its start on a run never loses a success.
SuccessKept ==
    [][\A r \in Runs : pc[r] # "idle" =>
        \A i \in DOMAIN mem[r].body :
            mem[r].body[i].status = "success" => mem'[r].body[i] = mem[r].body[i]]_summaryVars

\* Whatever the calls answer and the writes do, a run gives the lock back: its
\* rounds end without the clock.
LockReturned == \A r \in Runs : lock = r ~> lock # r
=============================================================================
