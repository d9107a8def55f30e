-------------------------- MODULE AgentAnswerProofs --------------------------
(***************************************************************************)
(* What AgentAnswer promises, for every number of retries, every set of    *)
(* questions and whatever a web search may bring.                          *)
(***************************************************************************)
EXTENDS AgentAnswer, TLAPS

\* The last gate of the evaluator never closes: results that have passed the
\* other five score 61 points or more, and it asks for 55
\* (SearchEvaluatorNode._should_retry, "overall_low_score").
THEOREM OverallGateIdle ==
    ASSUME NEW e \in Evidence
    PROVE  RetryReason(e) # "overall_low_score"
<1>1. CASE e.count < 3
  BY <1>1 DEF RetryReason, Evidence
<1>2. CASE e.count >= 3 /\ e.quality >= 55 /\ ~(e.keywords /\ e.relevance < 45)
  <2>1. CountScore(e) >= 300
    BY <1>2 DEF CountScore, Evidence
  <2>2. QualityScore(e) >= 220
    BY <1>2 DEF QualityScore, Evidence, Percent
  <2>3. RelevanceScore(e) >= 90
    BY <1>2 DEF RelevanceScore, Evidence, Percent
  <2>4. CountScore(e) \in Nat /\ QualityScore(e) \in Nat /\ RelevanceScore(e) \in Nat
    BY DEF CountScore, QualityScore, RelevanceScore, Evidence, Percent
  <2>5. ~(TotalScore(e) < 550)
    BY <2>1, <2>2, <2>3, <2>4 DEF TotalScore
  <2> QED BY <1>2, <2>5 DEF RetryReason, Evidence
<1>3. CASE e.count >= 3 /\ ~(e.quality >= 55)
  BY <1>3 DEF RetryReason, Evidence, Percent
<1>4. CASE e.count >= 3 /\ e.keywords /\ e.relevance < 45
  BY <1>4 DEF RetryReason, Evidence, Percent
<1> QED BY <1>1, <1>2, <1>3, <1>4 DEF Evidence, Percent

-----------------------------------------------------------------------------
(* The inductive invariant.                                                *)

SearchMode == mode \in {"search", "hybrid"}
Skipped == Streaming /\ request.followup /\ searches = 0 /\ search_results = NoResults

\* How many searches the retry count stands for, node by node.
AttemptsCounted ==
    /\ search_retry_count <= MaxRetries
    /\ searches <= AttemptLimit
    /\ at = "intent_parser" => searches = 0 /\ search_retry_count = 0
    /\ at = "searcher" =>
         IF ~request.retry THEN searches = 0
         ELSE \/ searches = search_retry_count /\ searches < AttemptLimit
              \/ Skipped /\ search_retry_count = MaxRetries
    /\ at \in {"search_evaluator", "query_rewriter"} =>
         request.retry /\ searches = search_retry_count + 1
    /\ at = "query_rewriter" => searches < AttemptLimit

\* The web results at hand, node by node.
ResultsKnown ==
    /\ at = "intent_parser" => search_results = NoResults
    /\ at \in {"searcher", "search_evaluator", "query_rewriter"} => SearchMode
    /\ at = "fallback_handler" => mode = "search"
    /\ at = "reasoner" => search_results = NoResults
    /\ at = "rag_retriever" =>
         mode = "hybrid" \/ (mode = "rag" /\ search_results = NoResults)
    /\ at \in {"searcher", "search_evaluator", "query_rewriter", "rag_retriever"}
         /\ search_results.web # NoEvidence => search_results.attempt = searches
    /\ at = "rag_retriever" /\ request.retry /\ search_results.web # NoEvidence =>
         Accepted(search_results.web) \/ late \/ searches = AttemptLimit

\* The sources on screen, before the answer begins and while it does.
ShownKnown ==
    Streaming =>
        /\ at \notin {"generator", "answering", "done", "error"} => shown = NoResults
        /\ at \in {"generator", "answering"} => shown \in {NoResults, search_results}
        /\ at = "done" => shown = search_results

\* The steps of the workflow up to a node, beside three for each retry.
Depth ==
    CASE at = "intent_parser" -> 0
      [] at = "searcher" -> 1
      [] at = "search_evaluator" -> 2
      [] at \in {"query_rewriter", "fallback_handler"} -> 3
      [] at = "rag_retriever" -> 4
      [] at \in {"generator", "reasoner"} -> 5
      [] at = "reflector" -> 6
      [] OTHER -> 7

StepsCounted ==
    /\ Streaming => steps = 0
    /\ steps <= 3 * search_retry_count + Depth
    /\ at = "answering" => Streaming
    /\ at = "reflector" => ~Streaming

AnswerInv == /\ AnswerTypeOK /\ AttemptsCounted /\ ResultsKnown
             /\ ShownKnown /\ StepsCounted /\ OnlyJudgedUsed

-----------------------------------------------------------------------------
(* The nodes.                                                              *)

LEMMA NoResultsType ==
    /\ NoResults \in Results
    /\ NoResults.web = NoEvidence
BY DEF NoResults, Results

LEMMA FoundType ==
    ASSUME searches \in Nat, NEW r \in Found
    PROVE  /\ r \in Results
           /\ r.web # NoEvidence => r.attempt = searches + 1
<1>1. CASE r = NoResults
  BY <1>1, NoResultsType
<1>2. CASE r # NoResults
  <2>1. PICK e \in WebResults : r = [web |-> e, attempt |-> searches + 1, docs |-> FALSE]
    BY <1>2 DEF Found
  <2>2. r.attempt = searches + 1
    BY <2>1
  <2> QED BY <2>1, <2>2 DEF Results
<1> QED BY <1>1, <1>2

\* The retriever leaves the web results as they are, or drops them.
LEMMA RetrievedType ==
    ASSUME search_results \in Results, NEW r \in Retrieved
    PROVE  /\ r \in Results
           /\ r = search_results \/ r.web = NoEvidence
              \/ (mode = "hybrid" /\ r.web = search_results.web
                    /\ r.attempt = search_results.attempt)
<1>1. CASE r = search_results
  BY <1>1
<1>2. CASE r # search_results
  <2>1. PICK d \in BOOLEAN :
          r = [IF mode = "hybrid" THEN search_results ELSE NoResults EXCEPT !.docs = d]
    BY <1>2 DEF Retrieved
  <2>2. CASE mode = "hybrid"
    BY <2>1, <2>2 DEF Results
  <2>3. CASE mode # "hybrid"
    BY <2>1, <2>3 DEF Results, NoResults
  <2> QED BY <2>2, <2>3
<1> QED BY <1>1, <1>2

LEMMA IntentModesType ==
    ASSUME request \in Request
    PROVE  IntentModes \subseteq AIMode
BY DEF IntentModes, QuickModes, Request, AIMode

LEMMA AttemptLimitType == AttemptLimit \in Nat /\ AttemptLimit >= 1
BY AnswerAssumption DEF AttemptLimit

LEMMA InitInv == AnswerInit => AnswerInv
<1> SUFFICES ASSUME AnswerInit PROVE AnswerInv
  OBVIOUS
<1> USE DEF AnswerInit
<1>1. AnswerTypeOK
  BY NoResultsType DEF AnswerTypeOK, Node, Request
<1>2. AttemptsCounted
  BY AttemptLimitType, AnswerAssumption DEF AttemptsCounted
<1>3. ResultsKnown
  BY DEF ResultsKnown
<1>4. ShownKnown
  BY DEF ShownKnown
<1>5. StepsCounted
  BY DEF StepsCounted, Depth
<1>6. OnlyJudgedUsed
  BY DEF OnlyJudgedUsed, Answering
<1> QED BY <1>1, <1>2, <1>3, <1>4, <1>5, <1>6 DEF AnswerInv

-----------------------------------------------------------------------------
(* A step of each node.                                                    *)

LEMMA ParseIntentInv == AnswerInv /\ ParseIntent => AnswerInv'
<1> SUFFICES ASSUME AnswerInv, ParseIntent PROVE AnswerInv'
  OBVIOUS
<1> USE DEF AnswerInv, ParseIntent, Run, NoEvent, stateVars
<1>0. mode' \in AIMode
  BY IntentModesType DEF AnswerTypeOK
<1>1. at' \in {"searcher", "rag_retriever", "reasoner", "generator"}
  BY DEF ModeNode
<1>2. AnswerTypeOK'
  BY <1>0, <1>1, AnswerAssumption DEF AnswerTypeOK, Node
<1>3. AttemptsCounted'
  BY <1>1, AttemptLimitType, AnswerAssumption
     DEF AttemptsCounted, AnswerTypeOK, AttemptLimit, Streaming, Skipped, ResultsKnown, Request
<1>4. ResultsKnown'
  BY <1>0, <1>1, NoResultsType DEF ResultsKnown, SearchMode, ModeNode, AIMode, Streaming
<1>5. ShownKnown'
  BY <1>1 DEF ShownKnown, Streaming
<1>6. StepsCounted'
  BY <1>1, AnswerAssumption DEF StepsCounted, Depth, Streaming, AnswerTypeOK, AttemptsCounted
<1>7. OnlyJudgedUsed'
  BY NoResultsType DEF OnlyJudgedUsed, ResultsKnown
<1> QED BY <1>2, <1>3, <1>4, <1>5, <1>6, <1>7

LEMMA LeaveLoopInv == AnswerInv /\ LeaveLoop => AnswerInv'
<1> SUFFICES ASSUME AnswerInv, LeaveLoop PROVE AnswerInv'
  OBVIOUS
<1> USE DEF AnswerInv, LeaveLoop, stateVars
<1>1. at' \in {"rag_retriever", "generator"} /\ (at' = "rag_retriever" <=> mode = "hybrid")
  BY DEF AfterSearch
<1>2. AnswerTypeOK'
  BY <1>1 DEF AnswerTypeOK, Node
<1>3. AttemptsCounted'
  BY <1>1, AttemptLimitType DEF AttemptsCounted, AnswerTypeOK, AttemptLimit, Streaming
<1>4. late \/ search_results = NoResults
  BY AnswerAssumption
     DEF AttemptsCounted, AnswerTypeOK, AttemptLimit, LoopOver, Skipped
<1>5. ResultsKnown'
  BY <1>1, <1>4, NoResultsType DEF ResultsKnown, SearchMode
<1>6. ShownKnown'
  BY <1>1 DEF ShownKnown, Streaming
<1>7. StepsCounted'
  BY <1>1 DEF StepsCounted, Depth, Streaming, AnswerTypeOK
<1>8. OnlyJudgedUsed'
  BY <1>1, <1>4, NoResultsType DEF OnlyJudgedUsed, ResultsKnown
<1> QED BY <1>2, <1>3, <1>5, <1>6, <1>7, <1>8

LEMMA SearchInv == AnswerInv /\ Search => AnswerInv'
<1> SUFFICES ASSUME AnswerInv, Search PROVE AnswerInv'
  OBVIOUS
<1> USE DEF AnswerInv, Search, Run, stateVars
<1>1. at' = IF request.retry THEN "search_evaluator" ELSE AfterSearch
  OBVIOUS
<1>2. AfterSearch = IF mode = "hybrid" THEN "rag_retriever" ELSE "generator"
  BY DEF AfterSearch
<1>3. /\ search_results' \in Results
      /\ search_results'.web # NoEvidence => search_results'.attempt = searches'
  BY FoundType DEF AnswerTypeOK
<1>4. shown' \in Results
  BY <1>3 DEF Show, NoEvent, AnswerTypeOK
<1>5. AnswerTypeOK'
  BY <1>1, <1>2, <1>3, <1>4 DEF AnswerTypeOK, Node
<1>6. AttemptsCounted'
  BY <1>1, <1>2, AttemptLimitType, AnswerAssumption
     DEF AttemptsCounted, AnswerTypeOK, AttemptLimit, Streaming, LoopOver, Skipped, Request
<1>7. ResultsKnown'
  BY <1>1, <1>2, <1>3 DEF ResultsKnown, SearchMode
<1>8. ShownKnown'
  BY <1>1, <1>2 DEF ShownKnown, Streaming, Show, NoEvent, ResultsKnown, SearchMode
<1>9. StepsCounted'
  BY <1>1, <1>2 DEF StepsCounted, Depth, Streaming, AnswerTypeOK
<1>10. OnlyJudgedUsed'
  BY <1>1, <1>2 DEF OnlyJudgedUsed, Answering
<1> QED BY <1>5, <1>6, <1>7, <1>8, <1>9, <1>10

LEMMA EvaluateInv == AnswerInv /\ Evaluate => AnswerInv'
<1> SUFFICES ASSUME AnswerInv, Evaluate PROVE AnswerInv'
  OBVIOUS
<1> USE DEF AnswerInv, Evaluate, Run, stateVars
<1>1. /\ Accepted(search_results.web) =>
           at' = IF mode = "hybrid" THEN "rag_retriever" ELSE "generator"
      /\ ~Accepted(search_results.web) /\ LastAttempt =>
           at' = IF mode = "hybrid" THEN "rag_retriever" ELSE "fallback_handler"
      /\ ~Accepted(search_results.web) /\ ~LastAttempt => at' = "query_rewriter"
  BY DEF AfterSearch, Rejected
<1>2. at' \in {"rag_retriever", "generator", "fallback_handler", "query_rewriter"}
  BY <1>1
<1>3. LastAttempt <=> searches = AttemptLimit
  BY AnswerAssumption, AttemptLimitType
     DEF LastAttempt, AttemptLimit, AttemptsCounted, AnswerTypeOK
<1>4. AnswerTypeOK'
  BY <1>2 DEF AnswerTypeOK, Node, Show, NoEvent
<1>5. AttemptsCounted'
  BY <1>1, <1>2, <1>3, AttemptLimitType, AnswerAssumption
     DEF AttemptsCounted, AnswerTypeOK, AttemptLimit, Streaming
<1>6. ResultsKnown'
  <2>1. AttemptLimit' = AttemptLimit
    BY DEF AttemptLimit, Streaming
  <2> QED BY <1>1, <1>2, <1>3, <2>1 DEF ResultsKnown, SearchMode
<1>7. ShownKnown'
  BY <1>1, <1>2 DEF ShownKnown, Streaming, Show, NoEvent, ResultsKnown, SearchMode
<1>8. StepsCounted'
  BY <1>2 DEF StepsCounted, Depth, Streaming, AnswerTypeOK
<1>9. OnlyJudgedUsed'
  BY <1>1, <1>2 DEF OnlyJudgedUsed, Answering, ResultsKnown
<1> QED BY <1>4, <1>5, <1>6, <1>7, <1>8, <1>9

LEMMA RewriteInv == AnswerInv /\ Rewrite => AnswerInv'
<1> SUFFICES ASSUME AnswerInv, Rewrite PROVE AnswerInv'
  OBVIOUS
<1> USE DEF AnswerInv, Rewrite, Run, NoEvent, stateVars
<1>1. AnswerTypeOK'
  BY DEF AnswerTypeOK, Node
<1>2. AttemptsCounted'
  BY AttemptLimitType, AnswerAssumption
     DEF AttemptsCounted, AnswerTypeOK, AttemptLimit, Streaming
<1>3. ResultsKnown'
  BY DEF ResultsKnown, SearchMode
<1>4. ShownKnown'
  BY DEF ShownKnown, Streaming
<1>5. StepsCounted'
  BY DEF StepsCounted, Depth, Streaming, AnswerTypeOK
<1>6. OnlyJudgedUsed'
  BY DEF OnlyJudgedUsed, Answering
<1> QED BY <1>1, <1>2, <1>3, <1>4, <1>5, <1>6

LEMMA FallbackInv == AnswerInv /\ Fallback => AnswerInv'
<1> SUFFICES ASSUME AnswerInv, Fallback PROVE AnswerInv'
  OBVIOUS
<1> USE DEF AnswerInv, Fallback, Run, NoEvent, stateVars
<1>1. mode' \in {"search", "rag"}
  BY DEF FallbackMode, ResultsKnown
<1>2. at' = "generator" \/ (at' = "rag_retriever" /\ mode' = "rag")
  BY DEF AfterFallback
<1>3. AnswerTypeOK'
  BY <1>1, <1>2, NoResultsType DEF AnswerTypeOK, Node, AIMode
<1>4. AttemptsCounted'
  BY <1>2 DEF AttemptsCounted, AnswerTypeOK, AttemptLimit, Streaming
<1>5. ResultsKnown'
  BY <1>2, NoResultsType DEF ResultsKnown
<1>6. ShownKnown'
  BY <1>2 DEF ShownKnown, Streaming
<1>7. StepsCounted'
  BY <1>2 DEF StepsCounted, Depth, Streaming, AnswerTypeOK
<1>8. OnlyJudgedUsed'
  BY NoResultsType DEF OnlyJudgedUsed
<1> QED BY <1>3, <1>4, <1>5, <1>6, <1>7, <1>8

LEMMA RetrieveInv == AnswerInv /\ Retrieve => AnswerInv'
<1> SUFFICES ASSUME AnswerInv, Retrieve PROVE AnswerInv'
  OBVIOUS
<1> USE DEF AnswerInv, Retrieve, Run, stateVars
<1>1. /\ search_results' \in Results
      /\ \/ search_results' = search_results
         \/ search_results'.web = NoEvidence
         \/ /\ mode = "hybrid" /\ search_results'.web = search_results.web
            /\ search_results'.attempt = search_results.attempt
  BY RetrievedType DEF AnswerTypeOK
<1>2. AnswerTypeOK'
  BY <1>1 DEF AnswerTypeOK, Node, Show
<1>3. AttemptsCounted'
  BY DEF AttemptsCounted, AnswerTypeOK, AttemptLimit, Streaming
<1>4. ResultsKnown'
  BY DEF ResultsKnown
<1>5. ShownKnown'
  BY DEF ShownKnown, Streaming, Show
<1>6. StepsCounted'
  BY DEF StepsCounted, Depth, Streaming, AnswerTypeOK
<1>7. OnlyJudgedUsed'
  <2>1. AttemptLimit' = AttemptLimit
    BY DEF AttemptLimit, Streaming
  <2>2. search_results'.web # NoEvidence =>
          /\ mode = "hybrid"
          /\ search_results'.web = search_results.web
          /\ search_results'.attempt = search_results.attempt
    BY <1>1, NoResultsType DEF ResultsKnown
  <2> QED BY <2>1, <2>2 DEF OnlyJudgedUsed, ResultsKnown
<1> QED BY <1>2, <1>3, <1>4, <1>5, <1>6, <1>7

\* Reason, Generate, StartTokens, FinishTokens, TokensFail and Reflect leave the
\* state alone: they move on, and may show the results there are.
AnswerMoves(from, to) ==
    /\ at = from /\ at' = to
    /\ UNCHANGED <<request, stateVars, late, searches>>
    /\ steps' = IF Streaming THEN steps ELSE steps + 1

LEMMA MovesInv ==
    ASSUME AnswerInv, NEW from, NEW to, AnswerMoves(from, to),
           \/ from = "reasoner" /\ to \in {"done", "error", "reflector"} /\ shown' = shown
           \/ from = "generator" /\ ~Streaming /\ to \in {"done", "reflector"}
                /\ shown' \in {NoResults, search_results}
           \/ from = "generator" /\ Streaming /\ to = "answering" /\ shown' = shown
           \/ from = "answering" /\ to = "done" /\ Show(search_results)
           \/ from = "answering" /\ to = "error" /\ shown' = shown
           \/ from = "reflector" /\ ~Streaming /\ to = "done" /\ shown' = shown,
           to = "reflector" => ~Streaming
    PROVE  AnswerInv'
<1> USE DEF AnswerInv, AnswerMoves, stateVars
<1>1. AnswerTypeOK'
  BY NoResultsType DEF AnswerTypeOK, Node, Show
<1>2. AttemptsCounted'
  BY DEF AttemptsCounted, AnswerTypeOK, AttemptLimit, Streaming
<1>3. ResultsKnown'
  BY DEF ResultsKnown
<1>4. ShownKnown'
  BY DEF ShownKnown, Streaming, Show, ResultsKnown
<1>5. StepsCounted'
  BY DEF StepsCounted, Depth, Streaming, AnswerTypeOK
<1>6. OnlyJudgedUsed'
  BY DEF OnlyJudgedUsed, Answering, AttemptLimit, Streaming
<1> QED BY <1>1, <1>2, <1>3, <1>4, <1>5, <1>6

LEMMA AnsweringInv ==
    AnswerInv /\ (\/ Reason \/ Generate \/ StartTokens \/ FinishTokens \/ TokensFail
                  \/ Reflect) => AnswerInv'
<1> SUFFICES ASSUME AnswerInv,
                    \/ Reason \/ Generate \/ StartTokens \/ FinishTokens \/ TokensFail
                    \/ Reflect
             PROVE  AnswerInv'
  OBVIOUS
<1> USE DEF Run, NoEvent, AnswerMoves, stateVars
<1>1. CASE Reason
  <2>1. /\ AnswerMoves("reasoner", at') /\ shown' = shown
        /\ at' \in {"done", "error", "reflector"} /\ (at' = "reflector" => ~Streaming)
    BY <1>1 DEF Reason, AfterAnswer
  <2> QED BY <2>1, MovesInv
<1>2. CASE Generate
  <2>1. /\ AnswerMoves("generator", at') /\ ~Streaming
        /\ at' \in {"done", "reflector"} /\ shown' \in {NoResults, search_results}
    BY <1>2 DEF Generate, AfterAnswer
  <2> QED BY <2>1, MovesInv
<1>3. CASE StartTokens
  <2>1. AnswerMoves("generator", "answering") /\ Streaming /\ shown' = shown
    BY <1>3 DEF StartTokens
  <2> QED BY <2>1, MovesInv
<1>4. CASE FinishTokens
  <2>1. AnswerMoves("answering", "done") /\ Show(search_results)
    BY <1>4 DEF FinishTokens
  <2> QED BY <2>1, MovesInv
<1>5. CASE TokensFail
  <2>1. AnswerMoves("answering", "error") /\ shown' = shown
    BY <1>5 DEF TokensFail
  <2> QED BY <2>1, MovesInv
<1>6. CASE Reflect
  <2>1. AnswerMoves("reflector", "done") /\ ~Streaming /\ shown' = shown
    BY <1>6 DEF Reflect, AnswerInv, StepsCounted
  <2> QED BY <2>1, MovesInv
<1> QED BY <1>1, <1>2, <1>3, <1>4, <1>5, <1>6

LEMMA BudgetInv == AnswerInv /\ BudgetRunsOut => AnswerInv'
<1> SUFFICES ASSUME AnswerInv, BudgetRunsOut PROVE AnswerInv'
  OBVIOUS
<1> USE DEF AnswerInv, BudgetRunsOut, stateVars
<1>1. AnswerTypeOK'
  BY DEF AnswerTypeOK
<1>2. AttemptsCounted'
  BY DEF AttemptsCounted, AttemptLimit, Streaming, Skipped
<1>3. ResultsKnown'
  BY DEF ResultsKnown, SearchMode
<1>4. ShownKnown'
  BY DEF ShownKnown, Streaming
<1>5. StepsCounted'
  BY DEF StepsCounted, Depth, Streaming
<1>6. OnlyJudgedUsed'
  BY DEF OnlyJudgedUsed, Answering
<1> QED BY <1>1, <1>2, <1>3, <1>4, <1>5, <1>6

LEMMA StutterInv == AnswerInv /\ UNCHANGED answerVars => AnswerInv'
BY DEF AnswerInv, answerVars, stateVars, AnswerTypeOK, AttemptsCounted, AttemptLimit,
       Streaming, Skipped, ResultsKnown, SearchMode, ShownKnown, StepsCounted, Depth,
       OnlyJudgedUsed, Answering

LEMMA NextInv == AnswerInv /\ [AnswerNext]_answerVars => AnswerInv'
BY ParseIntentInv, LeaveLoopInv, SearchInv, EvaluateInv, RewriteInv, FallbackInv,
   RetrieveInv, AnsweringInv, BudgetInv, StutterInv DEF AnswerNext

LEMMA AnswerInvariant == AnswerSpec => []AnswerInv
BY InitInv, NextInv, PTL DEF AnswerSpec

-----------------------------------------------------------------------------
(* The results.                                                            *)

\* The state of a run stays within the types of GraphState (agents/state.py).
THEOREM AnswerTypes == AnswerSpec => []AnswerTypeOK
<1>1. AnswerInv => AnswerTypeOK
  BY DEF AnswerInv
<1> QED BY <1>1, AnswerInvariant, PTL

\* However many retries are configured, an answer rests on the results of the
\* last search only, and on rejected ones only when the budget cut the retries
\* short or a HYBRID run used up its attempts (stream_ai_agent,
\* route_after_evaluation, FallbackHandlerNode).
THEOREM JudgedResults == AnswerSpec => []OnlyJudgedUsed
<1>1. AnswerInv => OnlyJudgedUsed
  BY DEF AnswerInv
<1> QED BY <1>1, AnswerInvariant, PTL

\* The sources shown with a finished streamed answer are the list its citations
\* number, and no list of a rejected search is ever shown beside its tokens
\* (the "sources" events of stream_ai_agent and GeneratorNode.stream).
THEOREM ShownSources == AnswerSpec => []SourcesAreBasis
<1>1. AnswerInv => SourcesAreBasis
  BY DEF AnswerInv, ShownKnown, SourcesAreBasis
<1> QED BY <1>1, AnswerInvariant, PTL

\* A run makes at most as many searches as it has attempts, and the workflow
\* fits the recursion limit whenever 3 * max_retries + 7 does
\* (create_ai_graph_with_retry, stream_ai_agent).
THEOREM BoundedRun == AnswerSpec => []RunBounded
<1>1. AnswerInv => RunBounded
  <2> SUFFICES ASSUME AnswerInv PROVE RunBounded
    OBVIOUS
  <2>1. Depth \in 0..7
    BY DEF Depth
  <2>2. 3 * search_retry_count <= 3 * MaxRetries
    BY AnswerAssumption DEF AnswerInv, AttemptsCounted, AnswerTypeOK
  <2> QED BY <2>1, <2>2, AnswerAssumption, StepsAssumption
          DEF RunBounded, AnswerInv, AttemptsCounted, AnswerTypeOK, StepsCounted
<1> QED BY <1>1, AnswerInvariant, PTL
=============================================================================
