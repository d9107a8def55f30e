----------------------------- MODULE AgentAnswer -----------------------------
(***************************************************************************)
(* One answer of the AI agent (backend/app/agents): the nodes, and the two *)
(* drivers that run them.  The driver "stream" is stream_ai_agent, the     *)
(* loop the agent worker consumes event by event; the driver "graph" is    *)
(* run_ai_agent over the LangGraph workflows of create_ai_graph_with_retry *)
(* and create_ai_graph.                                                    *)
(*                                                                         *)
(* Every node awaits the one before it, so the module has one process; the *)
(* choices are those of the language model, the web search, the internal   *)
(* search and the clock.  A list of results is abstracted to what its web  *)
(* part is worth to the evaluator, the search it came from, and whether it *)
(* holds internal documents.  Of the search queries, the reasoning level,  *)
(* thinking_steps, error and metadata nothing is kept: no node or driver   *)
(* decides by them where the run goes.                                     *)
(***************************************************************************)
EXTENDS SearchQuality

CONSTANTS
    Questions,      \* the questions asked: the sets of marker words they hold
    WebResults,     \* what a web search that found something is worth
    MaxRetries,     \* max_retries
    StepLimit       \* the recursion limit of LangGraph

\* The marker words of _quick_classify and _select_fallback_strategy:
\* greetings; "find" 찾아줘, 알려줘, 뉴스, 검색해; "now" 최신, 현재, 오늘, 실시간; "mine"
\* 내 문서, 내 콘텐츠, 저장된, 업로드한; "why" the reasoning patterns; "year" this year
\* or the last.
Words == {"greeting", "find", "now", "mine", "why", "year"}

ASSUME AnswerAssumption ==
    /\ Questions \subseteq SUBSET Words
    /\ WebResults \subseteq Evidence /\ NoEvidence \notin WebResults
    /\ MaxRetries \in Nat \ {0}
    /\ StepLimit \in Nat

\* The longest way through the workflow: the intent parser, three nodes for
\* each retry, the last search and its evaluation, the fallback, the retriever,
\* the generator and the reflector.
ASSUME StepsAssumption == 3 * MaxRetries + 7 <= StepLimit

AIMode == {"simple", "search", "rag", "reasoning", "hybrid"}
Node == {"intent_parser", "searcher", "search_evaluator", "query_rewriter",
         "fallback_handler", "rag_retriever", "reasoner", "generator", "reflector"}

Request == [driver   : {"stream", "graph"},
            retry    : BOOLEAN,       \* enable_retry
            reflect  : BOOLEAN,       \* enable_reflection
            mode     : AIMode,        \* the mode asked for; "auto" becomes SIMPLE
            content  : BOOLEAN,       \* content_context is not empty
            followup : BOOLEAN,       \* _is_followup_query, with an earlier answer to refer to
            question : Questions]

Results == [web : WebResults \union {NoEvidence}, attempt : Nat, docs : BOOLEAN]
NoResults == [web |-> NoEvidence, attempt |-> 0, docs |-> FALSE]

VARIABLES
    request,            \* the arguments of the call
    mode,               \* state["mode"]
    search_results,     \* state["search_results"]
    search_retry_count, \* state["search_retry_count"]
    at,                 \* the node to run next, or where the answer is
    late,               \* less than 30 s are left of the time budget
    shown,              \* the last "sources" event, the sources of the answer
    searches,           \* history: the web searches so far
    steps               \* history: the nodes the workflow has run

stateVars == <<mode, search_results, search_retry_count>>
answerVars == <<request, stateVars, at, late, shown, searches, steps>>

AnswerTypeOK ==
    /\ request \in Request
    /\ mode \in AIMode
    /\ search_results \in Results
    /\ search_retry_count \in Nat
    /\ at \in Node \union {"answering", "done", "error"}
    /\ late \in BOOLEAN
    /\ shown \in Results
    /\ searches \in Nat
    /\ steps \in Nat

\* stream_ai_agent accepts enable_reflection and has no use for it.
AnswerInit ==
    /\ request \in Request
    /\ mode = request.mode
    /\ search_results = NoResults
    /\ search_retry_count = 0
    /\ at = "intent_parser"
    /\ late = FALSE
    /\ shown = NoResults
    /\ searches = 0
    /\ steps = 0

-----------------------------------------------------------------------------
(* What a node may make of the state.                                      *)

Streaming == request.driver = "stream"

\* _quick_classify: the modes it names, none when the model has to classify.
QuickModes(q) ==
    IF "greeting" \in q THEN {"simple"}
    ELSE IF q \cap {"find", "now"} # {} THEN {"search"}
    ELSE IF "mine" \in q THEN {"rag"}
    ELSE IF "why" \in q THEN {"reasoning"} ELSE {}

\* The modes IntentParserNode may return.
IntentModes ==
    IF request.mode # "simple" THEN {request.mode}
    ELSE IF request.content THEN {"rag"}
    ELSE IF QuickModes(request.question) # {} THEN QuickModes(request.question)
    ELSE AIMode

\* What SearcherNode may return: an error leaves no results.
Found == {NoResults}
         \union {[web |-> e, attempt |-> searches + 1, docs |-> FALSE] : e \in WebResults}

\* What RAGRetrieverNode may return: the documents it found, after the web
\* results in HYBRID mode; on an error the results there were.
Retrieved ==
    {search_results}
    \union {[IF mode = "hybrid" THEN search_results ELSE NoResults EXCEPT !.docs = d]
              : d \in BOOLEAN}

\* FallbackHandlerNode: the mode after it; the results are dropped in any case.
FallbackMode == IF "mine" \in request.question THEN "rag" ELSE mode

-----------------------------------------------------------------------------
(* Where a driver goes next.                                               *)

\* Faulty variant: a mode routed to a node of another name.
ModeNodeMistyped(m) ==
    CASE m \in {"search", "hybrid"} -> "searcher"
      [] m = "rag" -> "retriever"
      [] m = "reasoning" -> "reasoner"
      [] OTHER -> "generator"

\* route_by_mode
ModeNode(m) ==
    CASE m \in {"search", "hybrid"} -> "searcher"
      [] m = "rag" -> "rag_retriever"
      [] m = "reasoning" -> "reasoner"
      [] OTHER -> "generator"

\* The web search is over: HYBRID goes on to the documents.
AfterSearch == IF mode = "hybrid" THEN "rag_retriever" ELSE "generator"

\* Faulty variant: the streaming loop counts as the workflow does, one too far.
LastAttemptOneMore == search_retry_count >= MaxRetries

\* The evaluation at hand was of the last attempt: the streaming loop stops one
\* retry before the workflow does.
LastAttempt ==
    IF Streaming THEN search_retry_count >= MaxRetries - 1
    ELSE search_retry_count >= MaxRetries

\* The streaming loop is left at its head.
LoopOver ==
    /\ Streaming /\ request.retry
    /\ search_retry_count >= MaxRetries \/ late

Rejected == IF mode = "hybrid" THEN "rag_retriever" ELSE "fallback_handler"

\* route_after_fallback, which the streaming loop lacks.
AfterFallback(m) == IF ~Streaming /\ m = "rag" THEN "rag_retriever" ELSE "generator"

\* The workflow's answer goes to the reflector when there is one.
AfterAnswer == IF request.reflect THEN "reflector" ELSE "done"

\* A "sources" event, which only the stream has and only for a list that is not
\* empty.
Show(results) ==
    shown' = IF Streaming /\ results # NoResults THEN results ELSE shown
NoEvent == UNCHANGED shown

\* The driver runs the node n; the workflow counts it against its limit.
Run(n) ==
    /\ at = n
    /\ steps' = IF Streaming THEN steps ELSE steps + 1
    /\ UNCHANGED <<request, late>>

-----------------------------------------------------------------------------
\* A follow-up question skips the web search: its loop is already over.
ParseIntent ==
    /\ Run("intent_parser")
    /\ mode' \in IntentModes
    /\ search_retry_count' =
         IF Streaming /\ request.retry /\ request.followup /\ mode' \in {"search", "hybrid"}
         THEN MaxRetries ELSE search_retry_count
    /\ at' = ModeNode(mode')
    /\ NoEvent
    /\ UNCHANGED <<search_results, searches>>

\* while state["search_retry_count"] < max_retries, and the break on the budget
LeaveLoop ==
    /\ at = "searcher" /\ LoopOver
    /\ at' = AfterSearch
    /\ UNCHANGED <<request, stateVars, late, shown, searches, steps>>

Search ==
    /\ Run("searcher") /\ ~LoopOver
    /\ search_results' \in Found
    /\ searches' = searches + 1
    /\ at' = IF request.retry THEN "search_evaluator" ELSE AfterSearch
    /\ IF request.retry \/ mode = "hybrid" THEN NoEvent ELSE Show(search_results')
    /\ UNCHANGED <<mode, search_retry_count>>

\* Faulty variant: the sources are shown before they are judged.
EvaluateShowsAll ==
    /\ Run("search_evaluator")
    /\ at' = IF Accepted(search_results.web) THEN AfterSearch
             ELSE IF LastAttempt THEN Rejected ELSE "query_rewriter"
    /\ Show(search_results)
    /\ UNCHANGED <<mode, search_results, search_retry_count, searches>>

Evaluate ==
    /\ Run("search_evaluator")
    /\ at' = IF Accepted(search_results.web) THEN AfterSearch
             ELSE IF LastAttempt THEN Rejected ELSE "query_rewriter"
    /\ IF Accepted(search_results.web) /\ mode = "search" THEN Show(search_results) ELSE NoEvent
    /\ UNCHANGED <<mode, search_results, search_retry_count, searches>>

\* Faulty variant: the rewriter does not count the retry.
RewriteUncounted ==
    /\ Run("query_rewriter")
    /\ at' = "searcher"
    /\ NoEvent
    /\ UNCHANGED <<mode, search_results, search_retry_count, searches>>

\* Both the node and the streaming loop set the count to one more.
Rewrite ==
    /\ Run("query_rewriter")
    /\ search_retry_count' = search_retry_count + 1
    /\ at' = "searcher"
    /\ NoEvent
    /\ UNCHANGED <<mode, search_results, searches>>

Fallback ==
    /\ Run("fallback_handler")
    /\ mode' = FallbackMode
    /\ search_results' = NoResults
    /\ at' = AfterFallback(mode')
    /\ NoEvent
    /\ UNCHANGED <<search_retry_count, searches>>

Retrieve ==
    /\ Run("rag_retriever")
    /\ search_results' \in Retrieved
    /\ at' = "generator"
    /\ Show(search_results')
    /\ UNCHANGED <<mode, search_retry_count, searches>>

\* The reasoner answers by itself; in the stream a failure of the model ends it.
Reason ==
    /\ Run("reasoner")
    /\ IF Streaming THEN at' \in {"done", "error"} ELSE at' = AfterAnswer
    /\ NoEvent
    /\ UNCHANGED <<stateVars, searches>>

\* GeneratorNode.__call__, which turns a failure into an apology
Generate ==
    /\ ~Streaming /\ Run("generator")
    /\ at' = AfterAnswer
    /\ shown' \in {NoResults, search_results}
    /\ UNCHANGED <<stateVars, searches>>

\* GeneratorNode.stream: the first tokens.
StartTokens ==
    /\ Streaming /\ Run("generator")
    /\ at' = "answering"
    /\ NoEvent
    /\ UNCHANGED <<stateVars, searches>>

\* The tokens are out: the sources and the citations are computed from the same
\* results, and the run is done.
FinishTokens ==
    /\ Run("answering")
    /\ at' = "done"
    /\ Show(search_results)
    /\ UNCHANGED <<stateVars, searches>>

TokensFail ==
    /\ Run("answering")
    /\ at' = "error"
    /\ NoEvent
    /\ UNCHANGED <<stateVars, searches>>

Reflect ==
    /\ Run("reflector")
    /\ at' = "done"
    /\ NoEvent
    /\ UNCHANGED <<stateVars, searches>>

\* The monotonic clock passes deadline - 30.
BudgetRunsOut ==
    /\ Streaming /\ at \notin {"done", "error"}
    /\ ~late /\ late' = TRUE
    /\ UNCHANGED <<request, stateVars, at, shown, searches, steps>>

AnswerNext ==
    \/ ParseIntent \/ LeaveLoop \/ Search \/ Evaluate \/ Rewrite \/ Fallback
    \/ Retrieve \/ Reason \/ Generate \/ StartTokens \/ FinishTokens \/ TokensFail
    \/ Reflect \/ BudgetRunsOut

AnswerSpec == AnswerInit /\ [][AnswerNext]_answerVars

-----------------------------------------------------------------------------
(* What an answer promises.                                                *)

Answering == at \in {"generator", "answering"}

\* The searches a run may make before it gives up.
AttemptLimit ==
    IF ~request.retry THEN 1 ELSE IF Streaming THEN MaxRetries ELSE MaxRetries + 1

\* An answer that had its web search judged rests on the results of the last
\* search, and on rejected ones only when the time budget cut the retries short
\* or, in HYBRID mode, when every attempt was used up; what an earlier attempt
\* or a search given up by the fallback had found is not in it (the loops of
\* stream_ai_agent, route_after_evaluation, FallbackHandlerNode).
OnlyJudgedUsed ==
    Answering /\ request.retry /\ search_results.web # NoEvidence =>
        /\ search_results.attempt = searches
        /\ \/ Accepted(search_results.web)
           \/ late
           \/ mode = "hybrid" /\ searches = AttemptLimit

\* While the tokens of a streamed answer arrive, the sources shown beside it are
\* the list its [n] refer to, or none yet; when it is done they are that list,
\* and no list is left over from a search the answer does not rest on (the
\* "sources" events of stream_ai_agent and GeneratorNode.stream).
SourcesAreBasis ==
    Streaming =>
        /\ at = "answering" => shown \in {NoResults, search_results}
        /\ at = "done" => shown = search_results

\* A run never searches beyond its attempts, and the workflow ends within the
\* steps LangGraph grants it, whatever the searches bring (search_retry_count in
\* both loops, route_after_evaluation).
RunBounded ==
    /\ searches <= AttemptLimit
    /\ steps <= StepLimit
=============================================================================
