-------------------------- MODULE SummaryRunProofs --------------------------
(***************************************************************************)
(* Proofs about SummaryRun, for every set of runs, every concurrency and   *)
(* every bound on rounds, sections and failing writes.                     *)
(***************************************************************************)
EXTENDS SummaryRun, SequenceTheorems, TLAPS

\* The states whose sections come from one list of headings, and whose headings
\* are some run's.
OneOutline(s) == \A i, j \in DOMAIN s.body : s.body[i].label = s.body[j].label
Owned(s) == s.meta["headings"] = "success" => s.outline \in Runs
Whole == {s \in State : OneOutline(s) /\ Owned(s)}

-----------------------------------------------------------------------------
(* The operators on a state keep it a whole one.                           *)

\* A summary starts from a whole state.
LEMMA FreshWhole == Fresh \in Whole
<1>1. Fresh \in State
  BY SummaryAssumption DEF SummaryAssumption, Fresh, State, Meta, BlockStatus
<1> QED
  BY <1>1 DEF Whole, OneOutline, Owned, Fresh, Meta

\* A function on 1..n is a sequence.
LEMMA FunctionIsSeq ==
  ASSUME NEW S, NEW n \in Nat, NEW f \in [1..n -> S]
  PROVE  f \in Seq(S)
  BY SeqDef

\* What leaves the sections alone keeps the outline they come from.
LEMMA SameBody ==
  ASSUME NEW s \in Whole, NEW t \in State, t.body = s.body, Owned(t)
  PROVE  t \in Whole
  BY DEF Whole, OneOutline

\* Resetting the group leaves the sections and their outline.
LEMMA GroupResetWhole ==
  ASSUME NEW s \in Whole
  PROVE  GroupReset(s) \in Whole
<1> DEFINE m == [k \in Meta |-> "pending"]
<1>1. s \in State
  BY DEF Whole
<1>2. m \in [Meta -> BlockStatus] /\ m["headings"] = "pending"
  BY DEF Meta, BlockStatus
<1>3. NoRun \in Runs \union {NoRun} /\ 0 \in 0..MaxSections
  BY SummaryAssumption DEF SummaryAssumption
<1>4. GroupReset(s) = [s EXCEPT !.meta = m, !.outline = NoRun, !.items = 0]
  BY DEF GroupReset
<1> HIDE DEF m
<1>5. GroupReset(s) \in State
  BY <1>1, <1>2, <1>3, <1>4 DEF State
<1>6. GroupReset(s).body = s.body /\ GroupReset(s).meta = m
  BY <1>1, <1>4 DEF State
<1> QED
  BY <1>2, <1>5, <1>6, SameBody DEF Owned

\* The status of a section changes, its label does not.
SectionSet(s, i, v) == [s EXCEPT !.body[i].status = v]

\* Setting the status of a section keeps its label and the other sections.
LEMMA SectionSetWhole ==
  ASSUME NEW s \in Whole, NEW i, NEW v \in BlockStatus
  PROVE  /\ SectionSet(s, i, v) \in Whole
         /\ DOMAIN SectionSet(s, i, v).body = DOMAIN s.body
         /\ \A j \in DOMAIN s.body :
               j # i => SectionSet(s, i, v).body[j] = s.body[j]
<1> DEFINE b == [s.body EXCEPT ![i].status = v]
<1>1. s \in State /\ OneOutline(s)
  BY DEF Whole
<1>2. s.body \in Seq(Section) /\ DOMAIN s.body = 1..Len(s.body) /\ Len(s.body) \in Nat
  BY <1>1 DEF State
<1>3. \A j \in DOMAIN s.body : s.body[j] \in Section
  BY <1>2
<1>4. DOMAIN b = DOMAIN s.body
  OBVIOUS
<1>5. \A j \in DOMAIN s.body : b[j] = IF j = i THEN [s.body[j] EXCEPT !.status = v] ELSE s.body[j]
  OBVIOUS
<1>6. \A j \in DOMAIN s.body : b[j] \in Section /\ b[j].label = s.body[j].label
  <2> SUFFICES ASSUME NEW j \in DOMAIN s.body
               PROVE  b[j] \in Section /\ b[j].label = s.body[j].label
    OBVIOUS
  <2>1. s.body[j] \in Section
    BY <1>3
  <2>2. [s.body[j] EXCEPT !.status = v] \in Section
    BY <2>1 DEF Section
  <2>3. [s.body[j] EXCEPT !.status = v].label = s.body[j].label
    BY <2>1 DEF Section
  <2> QED
    BY <1>5, <2>1, <2>2, <2>3
<1>7. b \in Seq(Section)
  <2>1. b \in [1..Len(s.body) -> Section]
    BY <1>2, <1>4, <1>6
  <2> QED
    BY <1>2, <2>1, FunctionIsSeq
<1>8. SectionSet(s, i, v) = [s EXCEPT !.body = b]
  BY DEF SectionSet
<1> HIDE DEF b
<1>9. SectionSet(s, i, v) \in State /\ SectionSet(s, i, v).body = b
  BY <1>1, <1>7, <1>8 DEF State
<1>10. OneOutline(SectionSet(s, i, v))
  BY <1>1, <1>4, <1>6, <1>9 DEF OneOutline
<1>11. Owned(SectionSet(s, i, v))
  BY <1>1, <1>8 DEF Owned, State, Whole
<1> QED
  BY <1>4, <1>5, <1>9, <1>10, <1>11 DEF Whole

\* Resetting a section is setting its status.
LEMMA SectionResetWhole ==
  ASSUME NEW s \in Whole, NEW i
  PROVE  SectionReset(s, i) \in Whole
<1>1. SectionReset(s, i) = SectionSet(s, i, "pending") /\ "pending" \in BlockStatus
  BY DEF SectionReset, SectionSet, BlockStatus
<1> QED
  BY <1>1, SectionSetWhole

\* Sections are made only where there are none.
LEMMA ExpandedWhole ==
  ASSUME NEW s \in Whole
  PROVE  /\ Expanded(s) \in Whole
         /\ s.body # <<>> => Expanded(s) = s
<1>1. CASE s.meta["headings"] = "success" /\ s.body = <<>>
  <2>1. s \in State
    BY DEF Whole
  <2>2. s.items \in Nat /\ s.outline \in Runs
    BY <1>1, <2>1, SummaryAssumption DEF State, SummaryAssumption, Whole, Owned
  <2>3. Unmade(s) \in Seq(Section)
    <3>1. Unmade(s) \in [1..s.items -> Section]
      BY <2>2 DEF Unmade, Section, BlockStatus
    <3> QED
      BY <2>2, <3>1, FunctionIsSeq
  <2>4. \A j \in DOMAIN Unmade(s) : Unmade(s)[j].label = s.outline
    BY DEF Unmade
  <2>5. Expanded(s) = [s EXCEPT !.body = Unmade(s)]
    BY <1>1 DEF Expanded
  <2>6. Expanded(s) \in State /\ Expanded(s).body = Unmade(s)
    BY <2>1, <2>3, <2>5 DEF State
  <2> QED
    BY <1>1, <2>1, <2>2, <2>4, <2>5, <2>6 DEF Whole, OneOutline, Owned, State
<1>2. CASE ~(s.meta["headings"] = "success" /\ s.body = <<>>)
  BY <1>2 DEF Expanded
<1> QED
  BY <1>1, <1>2

\* The group: a block set, the headings set by a run, what is missing failed.
LEMMA BlockSetWhole ==
  ASSUME NEW s \in Whole, NEW k \in Meta, k # "headings"
  PROVE  /\ [s EXCEPT !.meta[k] = "success"] \in Whole
         /\ [s EXCEPT !.meta[k] = "success"].body = s.body
<1> DEFINE m == [s.meta EXCEPT ![k] = "success"]
<1>1. s \in State /\ Owned(s)
  BY DEF Whole
<1>2. m \in [Meta -> BlockStatus] /\ m["headings"] = s.meta["headings"]
  BY <1>1 DEF State, BlockStatus, Meta
<1> DEFINE t == [s EXCEPT !.meta = m]
<1>3. [s EXCEPT !.meta[k] = "success"] = t
  OBVIOUS
<1> HIDE DEF m
<1>4. t \in State /\ t.body = s.body /\ t.meta = m /\ t.outline = s.outline
  BY <1>1, <1>2 DEF State
<1>5. Owned(t)
  BY <1>1, <1>2, <1>4 DEF Owned
<1> HIDE DEF t
<1>6. t \in Whole
  BY <1>4, <1>5, SameBody
<1> QED
  BY <1>3, <1>4, <1>6

\* New headings are those of the run that made them; the sections stay.
LEMMA HeadingsSetWhole ==
  ASSUME NEW s \in Whole, NEW r \in Runs, NEW n \in Numbers
  PROVE  /\ [s EXCEPT !.meta["headings"] = "success", !.outline = r, !.items = n] \in Whole
         /\ [s EXCEPT !.meta["headings"] = "success", !.outline = r, !.items = n].body = s.body
<1> DEFINE m == [s.meta EXCEPT !["headings"] = "success"]
<1>1. s \in State
  BY DEF Whole
<1>2. m \in [Meta -> BlockStatus]
  BY <1>1 DEF State, BlockStatus, Meta
<1>3. n \in 0..MaxSections
  BY SummaryAssumption DEF SummaryAssumption, Numbers
<1> DEFINE t == [s EXCEPT !.meta = m, !.outline = r, !.items = n]
<1>4. [s EXCEPT !.meta["headings"] = "success", !.outline = r, !.items = n] = t
  OBVIOUS
<1> HIDE DEF m
<1>5. t \in State /\ t.body = s.body /\ t.outline = r
  BY <1>1, <1>2, <1>3 DEF State
<1>6. Owned(t)
  BY <1>5 DEF Owned
<1> HIDE DEF t
<1>7. t \in Whole
  BY <1>5, <1>6, SameBody
<1> QED
  BY <1>4, <1>5, <1>7

GroupFailed(s) ==
  [s EXCEPT !.meta = [k \in Meta |-> IF @[k] = "success" THEN "success" ELSE "failed"]]

\* A failed group keeps the sections and what was there of the group.
LEMMA GroupFailedWhole ==
  ASSUME NEW s \in Whole
  PROVE  GroupFailed(s) \in Whole /\ GroupFailed(s).body = s.body
<1> DEFINE m == [k \in Meta |-> IF s.meta[k] = "success" THEN "success" ELSE "failed"]
<1>1. s \in State /\ Owned(s)
  BY DEF Whole
<1>2. /\ m \in [Meta -> BlockStatus]
      /\ m["headings"] = "success" <=> s.meta["headings"] = "success"
  BY <1>1 DEF State, BlockStatus, Meta
<1> DEFINE t == [s EXCEPT !.meta = m]
<1>3. GroupFailed(s) = t
  BY DEF GroupFailed
<1> HIDE DEF m
<1>4. t \in State /\ t.body = s.body /\ t.meta = m /\ t.outline = s.outline
  BY <1>1, <1>2 DEF State
<1>5. Owned(t)
  BY <1>1, <1>2, <1>4 DEF Owned
<1> HIDE DEF t
<1>6. t \in Whole
  BY <1>4, <1>5, SameBody
<1> QED
  BY <1>3, <1>4, <1>6

-----------------------------------------------------------------------------
(* Types: the states apart from the control.                               *)

DataInv ==
  /\ sections \in Whole \union {NoState}
  /\ mem \in [Runs -> Whole]
  /\ copy \in [Runs -> Whole \union {NoState}]
  /\ draft \in [Runs -> [Numbers -> Whole \union {NoState}]]

ControlInv ==
  /\ lock \in Runs \union {NoRun}
  /\ outlived \subseteq Runs
  /\ pc \in [Runs -> {"idle", "round", "group", "report", "expand", "gather", "ended", "over"}]
  /\ round \in [Runs -> 0..MaxRounds]
  /\ left \in [Runs -> SUBSET Meta]
  /\ ok \in [Runs -> BOOLEAN]
  /\ task \in [Runs -> [Numbers -> {"none", "waiting", "calling", "saving"}]]
  /\ outcome \in [Runs -> {"none", "success", "partial", "raised", "refused"}]
  /\ faults \in 0..MaxFaults

\* The two parts make up the type invariant.
LEMMA TypesFollow == DataInv /\ ControlInv => SummaryTypeOK
  BY DEF DataInv, ControlInv, SummaryTypeOK, Whole

\* At first nothing is stored, and every run has a fresh state.
LEMMA InitTyped == SummaryInit => DataInv /\ ControlInv
<1> SUFFICES ASSUME SummaryInit PROVE DataInv /\ ControlInv
  OBVIOUS
<1>1. DataInv
  BY FreshWhole DEF SummaryInit, DataInv
<1>2. 0 \in 0..MaxRounds /\ 0 \in 0..MaxFaults
  BY SummaryAssumption DEF SummaryAssumption
<1>3. ControlInv
  BY <1>2 DEF SummaryInit, ControlInv, Meta
<1> QED
  BY <1>1, <1>3

\* Every state that is made, copied or stored is a whole one.
LEMMA DataKept == DataInv /\ ControlInv /\ [SummaryNext]_summaryVars => DataInv'
<1> SUFFICES ASSUME DataInv, ControlInv, [SummaryNext]_summaryVars PROVE DataInv'
  OBVIOUS
<1>1. \A r \in Runs : mem[r] \in Whole
  BY DEF DataInv
<1>2. ASSUME NEW r \in Runs, NEW s \in Whole, Starts(r, s) PROVE DataInv'
  BY <1>2 DEF Starts, DataInv, taskVars
<1>3. ASSUME NEW r \in Runs, SummaryStarts(r) PROVE DataInv'
  BY <1>2, <1>3, FreshWhole DEF SummaryStarts
<1>4. ASSUME NEW r \in Runs, RegenerateStarts(r) PROVE DataInv'
  <2>1. sections \in Whole
    BY <1>4 DEF RegenerateStarts, DataInv
  <2>2. GroupReset(sections) \in Whole
    BY <2>1, GroupResetWhole
  <2>3. \A i \in DOMAIN sections.body : SectionReset(sections, i) \in Whole
    BY <2>1, SectionResetWhole
  <2> QED
    BY <1>2, <1>4, <2>1, <2>2, <2>3 DEF RegenerateStarts
<1>5. ASSUME NEW r \in Runs, GroupAnswered(r) PROVE DataInv'
  <2>1. mem' = mem \/ mem' = [mem EXCEPT ![r] = GroupFailed(mem[r])]
    BY <1>5 DEF GroupAnswered, GroupFailed, DataInv
  <2>2. mem' \in [Runs -> Whole]
    BY <1>1, <2>1, GroupFailedWhole DEF DataInv
  <2> QED
    BY <1>5, <2>2 DEF GroupAnswered, DataInv, rowVars, taskVars
<1>6. ASSUME NEW r \in Runs, BlockReported(r) PROVE DataInv'
  <2>1. PICK k \in left[r] :
          \/ k # "headings" /\ mem' = [mem EXCEPT ![r].meta[k] = "success"]
          \/ /\ k = "headings"
             /\ \E n \in Numbers :
                   mem' = [mem EXCEPT ![r] = [@ EXCEPT !.meta["headings"] = "success",
                                                       !.outline = r, !.items = n]]
          \/ mem' = mem
    BY <1>6 DEF BlockReported
  <2>2. k \in Meta
    BY DEF ControlInv
  <2>3. ASSUME k # "headings", mem' = [mem EXCEPT ![r].meta[k] = "success"]
        PROVE  mem' \in [Runs -> Whole]
    <3>1. mem' = [mem EXCEPT ![r] = [mem[r] EXCEPT !.meta[k] = "success"]]
      BY <2>3
    <3> QED
      <4>1. [mem[r] EXCEPT !.meta[k] = "success"] \in Whole
        BY <1>1, <2>2, <2>3, BlockSetWhole
      <4> DEFINE t == [mem[r] EXCEPT !.meta[k] = "success"]
      <4>2. t \in Whole /\ mem' = [mem EXCEPT ![r] = t]
        BY <3>1, <4>1
      <4> HIDE DEF t
      <4> QED
        BY <4>2 DEF DataInv
  <2>4. ASSUME NEW n \in Numbers,
               mem' = [mem EXCEPT ![r] = [@ EXCEPT !.meta["headings"] = "success",
                                                   !.outline = r, !.items = n]]
        PROVE  mem' \in [Runs -> Whole]
    <3>1. mem' = [mem EXCEPT ![r] = [mem[r] EXCEPT !.meta["headings"] = "success",
                                                   !.outline = r, !.items = n]]
      BY <2>4
    <3> QED
      BY <1>1, <3>1, HeadingsSetWhole DEF DataInv
  <2>5. mem' \in [Runs -> Whole]
    BY <2>1, <2>3, <2>4 DEF DataInv
  <2>6. copy' \in [Runs -> Whole \union {NoState}]
    BY <1>6, <2>5 DEF BlockReported, DataInv
  <2> QED
    BY <1>6, <2>5, <2>6 DEF BlockReported, DataInv, rowVars, taskVars
<1>7. ASSUME NEW r \in Runs, SectionsBegin(r) PROVE DataInv'
  BY <1>1, <1>7, ExpandedWhole DEF SectionsBegin, DataInv, rowVars
<1>8. ASSUME NEW r \in Runs, NEW i \in Numbers, SectionAnswered(r, i) PROVE DataInv'
  <2>1. PICK v \in {"success", "failed"} : mem' = [mem EXCEPT ![r].body[i].status = v]
    BY <1>8 DEF SectionAnswered
  <2>2. mem' = [mem EXCEPT ![r] = SectionSet(mem[r], i, v)]
    BY <2>1 DEF SectionSet
  <2>3. SectionSet(mem[r], i, v) \in Whole
    BY <1>1, SectionSetWhole DEF BlockStatus
  <2>4. mem' \in [Runs -> Whole] /\ mem'[r] \in Whole
    BY <2>2, <2>3 DEF DataInv
  <2> QED
    BY <1>8, <2>4 DEF SectionAnswered, DataInv, rowVars
<1>9. ASSUME NEW r \in Runs, GroupStored(r) \/ GroupStoreFails(r) PROVE DataInv'
  BY <1>9 DEF GroupStored, GroupStoreFails, DataInv, rowVars, taskVars
<1>10. ASSUME NEW r \in Runs, NEW i \in Numbers, SectionStored(r, i) \/ SectionStoreFails(r, i)
       PROVE  DataInv'
  <2>1. draft' = [draft EXCEPT ![r][i] = NoState] /\ UNCHANGED <<mem, copy>>
    BY <1>10 DEF SectionStored, SectionStoreFails, runVars
  <2>2. sections' \in Whole \union {NoState}
    BY <1>10 DEF SectionStored, SectionStoreFails, DataInv, rowVars
  <2> QED
    BY <2>1, <2>2 DEF DataInv
<1>11. ASSUME UNCHANGED <<sections, mem, copy, draft>> PROVE DataInv'
  BY <1>11 DEF DataInv
<1>12. ASSUME NEW r \in Runs, Refused(r) \/ Released(r) \/ LockExpires(r) \/ RoundBegins(r)
                              \/ RoundsSpent(r) \/ GroupReported(r) \/ RoundEnds(r)
       PROVE  UNCHANGED <<sections, mem, copy, draft>>
  BY <1>12 DEF Refused, Released, LockExpires, RoundBegins, RoundsSpent, GroupReported, RoundEnds,
               rowVars, runVars, taskVars
<1>13. ASSUME NEW r \in Runs, NEW i \in Numbers, SectionCalled(r, i)
       PROVE  UNCHANGED <<sections, mem, copy, draft>>
  BY <1>13 DEF SectionCalled, rowVars, runVars
<1>14. ASSUME UNCHANGED summaryVars PROVE DataInv'
  BY <1>11, <1>14 DEF summaryVars, rowVars, runVars, taskVars
<1> QED
  BY <1>3, <1>4, <1>5, <1>6, <1>7, <1>8, <1>9, <1>10, <1>11, <1>12, <1>13, <1>14
  DEF SummaryNext, RunStep, TaskStep

\* The control keeps its types; in particular a run begins no more rounds than
\* there are.
LEMMA ControlKept == ControlInv /\ [SummaryNext]_summaryVars => ControlInv'
<1> SUFFICES ASSUME ControlInv, [SummaryNext]_summaryVars PROVE ControlInv'
  OBVIOUS
<1> USE DEF ControlInv, rowVars, runVars, taskVars
<1>1. ASSUME NEW r \in Runs, NEW s, Starts(r, s) PROVE ControlInv'
  BY <1>1 DEF Starts
<1>2. ASSUME NEW r \in Runs, SummaryStarts(r) \/ RegenerateStarts(r) PROVE ControlInv'
  BY <1>1, <1>2 DEF SummaryStarts, RegenerateStarts
<1>3. ASSUME NEW r \in Runs, Refused(r) \/ Released(r) \/ LockExpires(r) PROVE ControlInv'
  BY <1>3 DEF Refused, Released, LockExpires
<1>4. ASSUME NEW r \in Runs, RoundBegins(r) PROVE ControlInv'
  <2>1. round[r] + 1 \in 0..MaxRounds
    BY <1>4, SummaryAssumption DEF RoundBegins, SummaryAssumption
  <2> QED
    BY <1>4, <2>1 DEF RoundBegins
<1>5. ASSUME NEW r \in Runs, RoundsSpent(r) \/ GroupReported(r) \/ RoundEnds(r) PROVE ControlInv'
  BY <1>5 DEF RoundsSpent, GroupReported, RoundEnds
<1>6. ASSUME NEW r \in Runs, GroupAnswered(r) PROVE ControlInv'
  <2>1. \/ left' = [left EXCEPT ![r] = Meta]
        \/ left' = [left EXCEPT ![r] = {k \in Meta : mem[r].meta[k] # "success"}]
    BY <1>6 DEF GroupAnswered
  <2>2. left' \in [Runs -> SUBSET Meta]
    BY <2>1
  <2>3. /\ pc' = [pc EXCEPT ![r] = "report"]
        /\ ok' = [ok EXCEPT ![r] = TRUE] \/ ok' = [ok EXCEPT ![r] = FALSE]
        /\ UNCHANGED <<lock, outlived, round, task, outcome, faults>>
    BY <1>6 DEF GroupAnswered
  <2> QED
    BY <2>2, <2>3
<1>7. ASSUME NEW r \in Runs, BlockReported(r) PROVE ControlInv'
  <2>1. PICK k \in left[r] : left' = [left EXCEPT ![r] = @ \ {k}]
    BY <1>7 DEF BlockReported
  <2>2. left' \in [Runs -> SUBSET Meta]
    BY <2>1
  <2>3. UNCHANGED <<lock, outlived, pc, round, ok, task, outcome, faults>>
    BY <1>7 DEF BlockReported
  <2> QED
    BY <2>2, <2>3
<1>8. ASSUME NEW r \in Runs, GroupStored(r) PROVE ControlInv'
  BY <1>8 DEF GroupStored
<1>9. ASSUME faults < MaxFaults PROVE faults + 1 \in 0..MaxFaults
  BY <1>9, SummaryAssumption DEF SummaryAssumption
<1>10. ASSUME NEW r \in Runs, GroupStoreFails(r) PROVE ControlInv'
  BY <1>9, <1>10 DEF GroupStoreFails
<1>11. ASSUME NEW r \in Runs, SectionsBegin(r) PROVE ControlInv'
  BY <1>11 DEF SectionsBegin
<1>12. ASSUME NEW r \in Runs, NEW i \in Numbers, TaskStep(r, i) PROVE ControlInv'
  <2>1. \E v \in {"calling", "saving", "none"} : task' = [task EXCEPT ![r][i] = v]
    BY <1>12 DEF TaskStep, SectionCalled, SectionAnswered, SectionStored
  <2>2. UNCHANGED <<lock, outlived, pc, round, left, ok, outcome, faults>>
    BY <1>12 DEF TaskStep, SectionCalled, SectionAnswered, SectionStored
  <2> QED
    BY <2>1, <2>2
<1>13. ASSUME NEW r \in Runs, NEW i \in Numbers, SectionStoreFails(r, i) PROVE ControlInv'
  BY <1>9, <1>13 DEF SectionStoreFails
<1>14. ASSUME UNCHANGED summaryVars PROVE ControlInv'
  BY <1>14 DEF summaryVars
<1> QED
  BY <1>2, <1>3, <1>4, <1>5, <1>6, <1>7, <1>8, <1>10, <1>11, <1>12, <1>13, <1>14
  DEF SummaryNext, RunStep

\* Every state of a summary run is well typed (BlockGenerator, summary_runner),
\* whatever is regenerated and whichever writes fail.
THEOREM SummaryTypeCorrect == SummarySpec => []SummaryTypeOK
<1>1. SummarySpec => [](DataInv /\ ControlInv)
  BY InitTyped, DataKept, ControlKept, PTL DEF SummarySpec
<1> QED
  BY <1>1, TypesFollow, PTL

\* The stored sections come from one list of headings, whatever was regenerated,
\* repeated or left running (_expand_dynamic_blocks).
THEOREM OneOutlineStored == SummarySpec => []SectionsOfOneOutline
<1>1. SummarySpec => [](DataInv /\ ControlInv)
  BY InitTyped, DataKept, ControlKept, PTL DEF SummarySpec
<1>2. DataInv => SectionsOfOneOutline
  BY DEF DataInv, SectionsOfOneOutline, Whole, OneOutline
<1> QED
  BY <1>1, <1>2, PTL

-----------------------------------------------------------------------------
(* The lock.                                                               *)

Holding == {"round", "group", "report", "expand", "gather", "ended"}

\* A run at work holds the lock or has outlived it; it writes only while it
\* reports the group or waits for its sections, but for the sections an exception
\* left behind.
LockInv ==
  \A r \in Runs :
    /\ pc[r] \in Holding => lock = r \/ r \in outlived
    /\ copy[r] # NoState => pc[r] = "report"
    /\ \A i \in Numbers : task[r][i] # "none" => pc[r] = "gather" \/ outcome[r] = "raised"
    /\ outcome[r] = "raised" => pc[r] \in {"ended", "over"}

\* No step takes the lock from the run it belongs to, but its own time; and none
\* starts a write outside of it.
LEMMA LockKept == ControlInv /\ DataInv /\ LockInv /\ [SummaryNext]_summaryVars => LockInv'
<1> SUFFICES ASSUME ControlInv, DataInv, LockInv, [SummaryNext]_summaryVars PROVE LockInv'
  OBVIOUS
<1>0. NoRun \notin Runs
  BY SummaryAssumption DEF SummaryAssumption
<1>00. copy \in [Runs -> Whole \union {NoState}]
  BY DEF DataInv
<1> USE DEF ControlInv, LockInv, Holding, rowVars, runVars, taskVars
<1>1. ASSUME NEW r \in Runs, NEW s, Starts(r, s) PROVE LockInv'
  BY <1>0, <1>1 DEF Starts
<1>2. ASSUME NEW r \in Runs, SummaryStarts(r) \/ RegenerateStarts(r) PROVE LockInv'
  BY <1>1, <1>2 DEF SummaryStarts, RegenerateStarts
<1>3. ASSUME NEW r \in Runs, Refused(r) PROVE LockInv'
  BY <1>3 DEF Refused
<1>4. ASSUME NEW r \in Runs, Released(r) PROVE LockInv'
  BY <1>0, <1>4 DEF Released
<1>5. ASSUME NEW r \in Runs, RoundBegins(r) \/ RoundsSpent(r) PROVE LockInv'
  BY <1>5 DEF RoundBegins, RoundsSpent
<1>6. ASSUME NEW r \in Runs, GroupAnswered(r) PROVE LockInv'
  BY <1>6 DEF GroupAnswered
<1>7. ASSUME NEW r \in Runs, BlockReported(r) PROVE LockInv'
  <2>1. /\ pc[r] = "report" /\ copy' = [copy EXCEPT ![r] = mem'[r]]
        /\ UNCHANGED <<lock, outlived, pc, task, outcome>>
    BY <1>7 DEF BlockReported
  <2> QED
    BY <1>00, <2>1
<1>8. ASSUME NEW r \in Runs, GroupStored(r) PROVE LockInv'
  BY <1>00, <1>8 DEF GroupStored
<1>9. ASSUME NEW r \in Runs, GroupStoreFails(r) PROVE LockInv'
  BY <1>00, <1>9 DEF GroupStoreFails
<1>10. ASSUME NEW r \in Runs, GroupReported(r) PROVE LockInv'
  BY <1>10 DEF GroupReported
<1>11. ASSUME NEW r \in Runs, SectionsBegin(r) PROVE LockInv'
  BY <1>11 DEF SectionsBegin
<1>12. ASSUME NEW r \in Runs, RoundEnds(r) PROVE LockInv'
  BY <1>12 DEF RoundEnds
<1>13. ASSUME NEW r \in Runs, NEW i \in Numbers, TaskStep(r, i) PROVE LockInv'
  <2>1. task[r][i] # "none" /\ \E v \in {"calling", "saving", "none"} :
          task' = [task EXCEPT ![r][i] = v]
    BY <1>13 DEF TaskStep, SectionCalled, SectionAnswered, SectionStored
  <2>2. UNCHANGED <<lock, outlived, pc, copy, outcome>>
    BY <1>13 DEF TaskStep, SectionCalled, SectionAnswered, SectionStored
  <2>3. \A q \in Runs, j \in Numbers : task'[q][j] # "none" => task[q][j] # "none"
    BY <2>1
  <2> QED
    BY <2>2, <2>3
<1>14. ASSUME NEW r \in Runs, NEW i \in Numbers, SectionStoreFails(r, i) PROVE LockInv'
  BY <1>14 DEF SectionStoreFails
<1>15. ASSUME UNCHANGED summaryVars PROVE LockInv'
  BY <1>15 DEF summaryVars
<1>16. ASSUME NEW r \in Runs, LockExpires(r) PROVE LockInv'
  BY <1>0, <1>16 DEF LockExpires
<1> QED
  BY <1>2, <1>3, <1>4, <1>5, <1>6, <1>7, <1>8, <1>9, <1>10, <1>11, <1>12, <1>13, <1>14, <1>15, <1>16
  DEF SummaryNext, RunStep

\* Only the holder of the lock has a write on its way, or a run that an exception
\* ended (gather), or one that has outlived its lock (generate, _summary_write_lock):
\* a run that ends late does not release the lock of the next.
THEOREM WritesLocked == SummarySpec => []StoresLocked
<1>1. SummaryInit => DataInv /\ ControlInv /\ LockInv
  BY InitTyped DEF SummaryInit, LockInv, Holding
<1>2. SummarySpec => [](DataInv /\ ControlInv /\ LockInv)
  BY <1>1, DataKept, ControlKept, LockKept, PTL DEF SummarySpec
<1>3. LockInv => StoresLocked
  BY DEF LockInv, StoresLocked, Holding
<1> QED
  BY <1>2, <1>3, PTL

-----------------------------------------------------------------------------
(* The successes of a run.                                                 *)

\* The sections a run has still to make are not successes.
TaskInv ==
  \A r \in Runs, i \in Numbers :
    task[r][i] \in {"waiting", "calling"} /\ i \in DOMAIN mem[r].body =>
      mem[r].body[i].status # "success"

\* The sections of a run in a step that leaves them alone
SameSections(r) == mem'[r].body = mem[r].body

\* What a step of a run does to its sections: it leaves them alone, makes the
\* first ones, or sets the one whose call was answered.
BodyStep(r) ==
  \/ SameSections(r)
  \/ pc[r] = "idle"
  \/ pc[r] = "expand" /\ mem[r].body = <<>>
  \/ \E i \in Numbers, v \in BlockStatus :
        /\ task[r][i] = "calling" /\ task'[r][i] = "saving"
        /\ mem'[r] = SectionSet(mem[r], i, v)

\* Every step is one of these for every run.
LEMMA BodySteps ==
  ASSUME DataInv, ControlInv, [SummaryNext]_summaryVars
  PROVE  \A r \in Runs : BodyStep(r)
<1> SUFFICES ASSUME NEW q \in Runs PROVE BodyStep(q)
  OBVIOUS
<1>0. mem \in [Runs -> Whole]
  BY DEF DataInv
<1>1. ASSUME UNCHANGED mem PROVE BodyStep(q)
  BY <1>1 DEF BodyStep, SameSections
<1>2. ASSUME NEW r \in Runs, NEW t, mem' = [mem EXCEPT ![r] = t],
             \/ t.body = mem[r].body \/ pc[r] = "idle"
             \/ pc[r] = "expand" /\ mem[r].body = <<>>
      PROVE  BodyStep(q)
  BY <1>0, <1>2 DEF BodyStep, SameSections
<1>3. ASSUME NEW r \in Runs, NEW s, Starts(r, s) PROVE BodyStep(q)
  BY <1>2, <1>3 DEF Starts
<1>4. ASSUME NEW r \in Runs, SummaryStarts(r) \/ RegenerateStarts(r) PROVE BodyStep(q)
  BY <1>3, <1>4 DEF SummaryStarts, RegenerateStarts
<1>5. ASSUME NEW r \in Runs, GroupAnswered(r) PROVE BodyStep(q)
  <2>1. mem' = mem \/ mem' = [mem EXCEPT ![r] = GroupFailed(mem[r])]
    BY <1>0, <1>5 DEF GroupAnswered, GroupFailed
  <2>2. GroupFailed(mem[r]).body = mem[r].body
    BY <1>0, GroupFailedWhole
  <2> QED
    BY <1>1, <1>2, <2>1, <2>2
<1>6. ASSUME NEW r \in Runs, BlockReported(r) PROVE BodyStep(q)
  <2>1. PICK k \in left[r] :
          \/ k # "headings" /\ mem' = [mem EXCEPT ![r].meta[k] = "success"]
          \/ \E n \in Numbers :
                   mem' = [mem EXCEPT ![r] = [@ EXCEPT !.meta["headings"] = "success",
                                                       !.outline = r, !.items = n]]
          \/ mem' = mem
    BY <1>6 DEF BlockReported
  <2>2. k \in Meta
    BY DEF ControlInv
  <2>3. ASSUME k # "headings", mem' = [mem EXCEPT ![r].meta[k] = "success"]
        PROVE  BodyStep(q)
    <3>1. mem' = [mem EXCEPT ![r] = [mem[r] EXCEPT !.meta[k] = "success"]]
      BY <2>3
    <3>2. [mem[r] EXCEPT !.meta[k] = "success"].body = mem[r].body
      BY <1>0, <2>2, <2>3, BlockSetWhole
    <3> QED
      BY <1>2, <3>1, <3>2
  <2>4. ASSUME NEW n \in Numbers,
               mem' = [mem EXCEPT ![r] = [@ EXCEPT !.meta["headings"] = "success",
                                                   !.outline = r, !.items = n]]
        PROVE  BodyStep(q)
    <3>1. mem' = [mem EXCEPT ![r] = [mem[r] EXCEPT !.meta["headings"] = "success",
                                                   !.outline = r, !.items = n]]
      BY <2>4
    <3>2. [mem[r] EXCEPT !.meta["headings"] = "success", !.outline = r, !.items = n].body
            = mem[r].body
      BY <1>0, HeadingsSetWhole
    <3> QED
      BY <1>2, <3>1, <3>2
  <2> QED
    BY <1>1, <2>1, <2>3, <2>4
<1>7. ASSUME NEW r \in Runs, SectionsBegin(r) PROVE BodyStep(q)
  <2>1. mem' = [mem EXCEPT ![r] = Expanded(mem[r])]
    BY <1>7 DEF SectionsBegin
  <2>2. pc[r] = "expand" /\ (mem[r].body = <<>> \/ Expanded(mem[r]).body = mem[r].body)
    BY <1>0, <1>7, ExpandedWhole DEF SectionsBegin
  <2> QED
    BY <1>2, <2>1, <2>2
<1>8. ASSUME NEW r \in Runs, NEW i \in Numbers, SectionAnswered(r, i) PROVE BodyStep(q)
  <2>1. PICK v \in {"success", "failed"} : mem' = [mem EXCEPT ![r].body[i].status = v]
    BY <1>8 DEF SectionAnswered
  <2>2. mem' = [mem EXCEPT ![r] = SectionSet(mem[r], i, v)]
    BY <2>1 DEF SectionSet
  <2>3. task[r][i] = "calling" /\ task'[r][i] = "saving" /\ v \in BlockStatus
    BY <1>8 DEF SectionAnswered, BlockStatus, ControlInv
  <2> QED
    BY <1>0, <2>2, <2>3 DEF BodyStep, SameSections
<1>9. ASSUME NEW r \in Runs,
             \/ Refused(r) \/ Released(r) \/ LockExpires(r) \/ RoundBegins(r) \/ RoundsSpent(r)
             \/ GroupStored(r) \/ GroupStoreFails(r) \/ GroupReported(r) \/ RoundEnds(r)
      PROVE  UNCHANGED mem
  BY <1>9 DEF Refused, Released, LockExpires, RoundBegins, RoundsSpent, GroupStored,
              GroupStoreFails, GroupReported, RoundEnds, runVars
<1>10. ASSUME NEW r \in Runs, NEW i \in Numbers,
              SectionCalled(r, i) \/ SectionStored(r, i) \/ SectionStoreFails(r, i)
       PROVE  UNCHANGED mem
  BY <1>10 DEF SectionCalled, SectionStored, SectionStoreFails, runVars
<1>11. ASSUME UNCHANGED summaryVars PROVE UNCHANGED mem
  BY <1>11 DEF summaryVars, runVars
<1> QED
  BY <1>1, <1>4, <1>5, <1>6, <1>7, <1>8, <1>9, <1>10, <1>11 DEF SummaryNext, RunStep, TaskStep

\* A task is there after a step if the round begins, or if it was there.
LEMMA TaskSteps ==
  ASSUME ControlInv, [SummaryNext]_summaryVars, NEW q \in Runs, NEW j \in Numbers,
         task'[q][j] \in {"waiting", "calling"}
  PROVE  SectionsBegin(q) \/ task[q][j] \in {"waiting", "calling"}
<1> USE DEF ControlInv
<1>1. ASSUME UNCHANGED task PROVE task[q][j] \in {"waiting", "calling"}
  BY <1>1
<1>2. ASSUME NEW r \in Runs, SectionsBegin(r), r # q PROVE task'[q] = task[q]
  BY <1>2 DEF SectionsBegin
<1>3. ASSUME NEW r \in Runs, NEW i \in Numbers, SectionCalled(r, i)
      PROVE  task[q][j] \in {"waiting", "calling"}
  BY <1>3 DEF SectionCalled
<1>4. ASSUME NEW r \in Runs, NEW i \in Numbers,
             SectionAnswered(r, i) \/ SectionStored(r, i) \/ SectionStoreFails(r, i)
      PROVE  task[q][j] \in {"waiting", "calling"}
  <2>1. task' = [task EXCEPT ![r][i] = "saving"] \/ task' = [task EXCEPT ![r][i] = "none"]
    BY <1>4 DEF SectionAnswered, SectionStored, SectionStoreFails
  <2> QED
    BY <2>1
<1>5. ASSUME NEW r \in Runs, NEW s, Starts(r, s) PROVE UNCHANGED task
  BY <1>5 DEF Starts, taskVars
<1>6. ASSUME NEW r \in Runs, SummaryStarts(r) \/ RegenerateStarts(r) PROVE UNCHANGED task
  BY <1>5, <1>6 DEF SummaryStarts, RegenerateStarts
<1>7. ASSUME NEW r \in Runs,
             \/ Refused(r) \/ Released(r) \/ LockExpires(r) \/ RoundBegins(r) \/ RoundsSpent(r)
             \/ GroupAnswered(r) \/ BlockReported(r) \/ GroupStored(r) \/ GroupStoreFails(r)
             \/ GroupReported(r) \/ RoundEnds(r)
      PROVE  UNCHANGED task
  BY <1>7 DEF Refused, Released, LockExpires, RoundBegins, RoundsSpent, GroupAnswered, BlockReported,
              GroupStored, GroupStoreFails, GroupReported, RoundEnds, taskVars
<1>8. ASSUME UNCHANGED summaryVars PROVE UNCHANGED task
  BY <1>8 DEF summaryVars, taskVars
<1> QED
  BY <1>1, <1>2, <1>3, <1>4, <1>6, <1>7, <1>8 DEF SummaryNext, RunStep, TaskStep

\* A success is lost by no step of a run: the section that is set was no success.
LEMMA SuccessStep ==
  ASSUME DataInv, ControlInv, TaskInv, [SummaryNext]_summaryVars,
         NEW r \in Runs, pc[r] # "idle", NEW i \in DOMAIN mem[r].body,
         mem[r].body[i].status = "success"
  PROVE  mem'[r].body[i] = mem[r].body[i]
<1>1. BodyStep(r) /\ mem[r] \in Whole
  BY BodySteps DEF DataInv
<1>2. CASE SameSections(r)
  BY <1>2 DEF SameSections
<1>3. CASE mem[r].body = <<>>
  BY <1>3
<1>4. ASSUME NEW k \in Numbers, NEW v \in BlockStatus, task[r][k] = "calling",
             mem'[r] = SectionSet(mem[r], k, v)
      PROVE  mem'[r].body[i] = mem[r].body[i]
  <2>1. i # k
    BY <1>4 DEF TaskInv
  <2> QED
    BY <1>1, <1>4, <2>1, SectionSetWhole
<1> QED
  BY <1>1, <1>2, <1>3, <1>4 DEF BodyStep

\* Tasks are begun only for sections that are not there, and no other sets them.
LEMMA TaskKept ==
  DataInv /\ ControlInv /\ LockInv /\ TaskInv /\ [SummaryNext]_summaryVars => TaskInv'
<1> SUFFICES ASSUME DataInv, ControlInv, LockInv, TaskInv, [SummaryNext]_summaryVars,
                    NEW q \in Runs, NEW j \in Numbers,
                    task'[q][j] \in {"waiting", "calling"}, j \in DOMAIN mem'[q].body
             PROVE  mem'[q].body[j].status # "success"
  BY DEF TaskInv
<1>0. mem \in [Runs -> Whole] /\ mem[q] \in Whole
  BY DEF DataInv
<1>1. BodyStep(q)
  BY BodySteps
<1>2. CASE SectionsBegin(q)
  <2>1. mem'[q] = Expanded(mem[q]) /\ j \in Targets(Expanded(mem[q]))
    BY <1>0, <1>2 DEF SectionsBegin, ControlInv
  <2> QED
    BY <2>1 DEF Targets
<1>3. CASE task[q][j] \in {"waiting", "calling"}
  <2>1. pc[q] \in {"gather", "ended", "over"}
    BY <1>3 DEF LockInv
  <2>2. CASE SameSections(q)
    BY <1>3, <2>2 DEF SameSections, TaskInv
  <2>3. ASSUME NEW i \in Numbers, NEW v \in BlockStatus, task'[q][i] = "saving",
               mem'[q] = SectionSet(mem[q], i, v)
        PROVE  mem'[q].body[j].status # "success"
    <3>1. j # i
      BY <2>3
    <3>2. j \in DOMAIN mem[q].body /\ mem'[q].body[j] = mem[q].body[j]
      BY <1>0, <2>3, <3>1, SectionSetWhole
    <3> QED
      BY <1>3, <3>2 DEF TaskInv
  <2> QED
    BY <1>1, <2>1, <2>2, <2>3 DEF BodyStep
<1> QED
  BY <1>2, <1>3, TaskSteps

\* From its start on a run never loses a section it has made: the rounds repeat
\* only what failed.
THEOREM SuccessesKept == SummarySpec => SuccessKept
<1>1. SummaryInit => DataInv /\ ControlInv /\ LockInv /\ TaskInv
  BY InitTyped DEF SummaryInit, LockInv, Holding, TaskInv
<1>2. SummarySpec => [](DataInv /\ ControlInv /\ LockInv /\ TaskInv)
  BY <1>1, DataKept, ControlKept, LockKept, TaskKept, PTL DEF SummarySpec
<1>3. DataInv /\ ControlInv /\ TaskInv /\ [SummaryNext]_summaryVars =>
        [\A r \in Runs : pc[r] # "idle" =>
           \A i \in DOMAIN mem[r].body :
             mem[r].body[i].status = "success" => mem'[r].body[i] = mem[r].body[i]]_summaryVars
  BY SuccessStep
<1> QED
  BY <1>2, <1>3, PTL DEF SummarySpec, SuccessKept
=============================================================================
