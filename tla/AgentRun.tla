------------------------------- MODULE AgentRun -------------------------------
(***************************************************************************)
(* One run of the bounded agent (src/src/agent/runtime.py,                 *)
(* BoundedAgentRuntime.run) together with the three tools it may call      *)
(* (src/src/agent/tools.py).                                               *)
(*                                                                         *)
(* A provider that supports structured output takes the structured path:   *)
(* resolve the references, select the context the task requires, acquire   *)
(* it with the tools, judge whether the evidence is ready, synthesise the  *)
(* answer.  Any other provider, and every explicit save or conversation    *)
(* transform, takes the tool loop: the provider is asked again after every *)
(* batch of tool calls until it answers.  What the provider and the tools  *)
(* return is a choice of the environment; what the runtime makes of it is  *)
(* the model.  The client may disconnect at any await, which cancels the   *)
(* task (Cancel).                                                          *)
(*                                                                         *)
(* A text of the provider is one of "text" (an answer), "sentinel"         *)
(* (INSUFFICIENT_INFO) and "empty"; the answer of a result may also be     *)
(* "memory" (the saved memories, verbatim), "confirmation" (a memory was   *)
(* saved) and "insufficient" (the fixed answer of the backend).            *)
(***************************************************************************)
EXTENDS Naturals, Sequences, FiniteSets

CONSTANTS
  Chunks,         \* the knowledge chunks retrieval may return
  SourceOf,       \* the citation key of each chunk: kind, name and locator
  KindOf,         \* the source kind of each chunk
  Facts,          \* the owner's saved memories search may return
  Scopes,         \* the source kinds a question may name as its scope, None for no scope
  Messages,       \* the resolver history: [role, sequence] of the messages it may cite
  Current,        \* the sequence number of the question
  Limits,    \* the settings a deployment may run with: agent_max_tool_calls
             \* and agent_max_iterations, positive integers of its environment
  MaxBatch,  \* bound: tool calls in one response of the provider
  None

ASSUME AgentRunAssumption ==
  /\ Limits \subseteq [toolCalls : Nat \ {0}, iterations : Nat \ {0}]
  /\ MaxBatch \in Nat \ {0}
  /\ None \notin {"saved", "already_saved"}
  /\ \A found \in SUBSET Chunks : None # found
  /\ KindOf \in [Chunks -> {"notion", "pdf", "image", "url"}]
  /\ Current \in Nat

Kinds == {"question", "recall", "transform", "save"}
Tools == {"search_knowledge", "search_memory", "save_memory"}

(* The names a provider may ask for.  get_tool executes "Search_Knowledge" *)
(* as search_knowledge; the runtime keeps the spelling it was given.       *)
Names == Tools \cup {"Search_Knowledge", "Search_Memory", "unknown"}
ToolOf(name) == CASE name = "Search_Knowledge" -> "search_knowledge"
                  [] name = "Search_Memory" -> "search_memory"
                  [] OTHER -> name

MaxFacets == 2    \* MAX_CONTEXTUAL_FACETS
MaxBindings == 2  \* MAX_REFERENCE_BINDINGS

SourceKinds == {"notion", "pdf", "image", "url"}   \* KNOWLEDGE_SOURCE_KINDS

VARIABLES
  limits,      \* the settings of this runtime
  kind,        \* what the message asks for, as the backend classified it
  structured,  \* the provider supports structured output
  history,     \* conversation_authority_available, for a transform
  scope,       \* tool_metadata["source_kinds"], what the user restricts the search to
  pc,          \* where the run stands
  iteration,   \* turns of the tool loop taken
  calls,       \* state.tool_names_used, every call that was charged
  pending,     \* tool calls requested and not yet executed
  asked,       \* who requested them: the provider, or the backend in its place
  fallback,    \* legacy_fallback_used
  bound,       \* state.reference_bindings
  decision,    \* state.context_requirement_decision
  knowledge,   \* state.knowledge_context
  citations,   \* state.citations
  memory,      \* state.memory_context
  status,      \* state.memory_status
  stored,      \* the memory row of the message's explicit save exists
  judged,      \* the evidence a readiness decision declared ready
  fault,       \* a provider or tool call of this run has failed
  audit,       \* the status of the run's workflow
  result       \* the AgentRunResult, None while there is none

inputs == <<limits, kind, structured, history, scope>>
context == <<bound, decision, knowledge, citations, memory, status, judged>>
ending == <<audit, result>>
vars == <<inputs, pc, iteration, calls, pending, asked, fallback, context, stored,
          fault, ending>>

MaxToolCalls == limits.toolCalls
MaxIterations == limits.iterations

(* The requirement decisions the wire contract can express: Knowledge      *)
(* alone, with one or two facets, a direct recall, or neither.             *)
Wires == [mode : {"knowledge_only", "memory_only", "neither"}]
           \cup [mode : {"mixed"}, facets : 1..MaxFacets]

Mapped(wire) ==
  [knowledge |-> wire.mode \in {"knowledge_only", "mixed"},
   searches |-> CASE wire.mode = "mixed"       -> wire.facets
                  [] wire.mode = "memory_only" -> 1
                  [] OTHER                     -> 0]

Decisions == {Mapped(wire) : wire \in Wires}

SaveFact == "saved_fact"   \* the memory an explicit save names
Ended == {"done", "raised", "cancelled"}

Init ==
  /\ limits \in Limits
  /\ kind \in Kinds
  /\ structured \in BOOLEAN
  /\ history \in (IF kind = "transform" THEN BOOLEAN ELSE {FALSE})
  /\ scope \in Scopes
  /\ pc = IF structured /\ kind \in {"question", "recall"}
          THEN "resolve" ELSE "loop"
  /\ iteration = 0
  /\ calls = <<>> /\ pending = <<>>
  /\ asked = None
  /\ fallback = FALSE
  /\ bound = {}
  /\ decision = None
  /\ knowledge = {} /\ citations = {} /\ memory = {}
  /\ status = None
  /\ stored \in (IF kind = "save" THEN BOOLEAN ELSE {FALSE})
  /\ judged = None
  /\ fault = FALSE
  /\ audit = "running"
  /\ result = None

-------------------------------------------------------------------------------
(* How a run ends.                                                         *)

Outputs == {"text", "sentinel", "empty"}

Reasons == {"completed", "insufficient_info", "max_iterations",
            "max_tool_calls", "context_budget_exceeded", "provider_error",
            "provider_contract_error", "permission_denied", "invalid_tool",
            "invalid_arguments", "tool_error", "tool_timeout"}

Results ==
  [status : {"succeeded", "failed"}, reason : Reasons,
   answer : Outputs \cup {"memory", "confirmation", "insufficient"},
   citations : SUBSET {SourceOf[c] : c \in Chunks},
   memoryStatus : {None, "saved", "already_saved"}, usedMemory : BOOLEAN]

ASSUME NoneAssumption == None \notin Results \cup Decisions

Result(outcome, reason, answer, cited) ==
  [status |-> outcome, reason |-> reason, answer |-> answer,
   citations |-> cited, memoryStatus |-> IF outcome = "failed" THEN None ELSE status,
   usedMemory |-> reason # "insufficient_info" /\ memory \cap Facts # {}]

(* _mark_workflow comes before the result is returned.  A success that     *)
(* cannot be recorded raises, and there is no result; a failure that       *)
(* cannot be recorded is returned all the same.                            *)
Returns_Unrecorded(res) ==  \* mutant: what cannot be recorded is returned
  /\ pending' = <<>>
  /\ audit' \in {res.status, "running"}
  /\ pc' = "done"
  /\ result' = res

Returns(res) ==
  /\ pending' = <<>>
  /\ \/ audit' = res.status /\ pc' = "done" /\ result' = res
     \/ res.status = "failed" /\ pc' = "done" /\ result' = res /\ UNCHANGED audit
     \/ res.status = "succeeded" /\ pc' = "raised" /\ UNCHANGED <<audit, result>>

EndWith(res) ==
  /\ Returns(res)
  /\ UNCHANGED <<inputs, context, stored, asked, fallback>>

(* _failed_result: no answer, no citation, and no memory_status either.    *)
Failed(reason) == Result("failed", reason, "empty", {})

(* The fixed answer of a run that lacks the authority to say anything.     *)
Insufficient == Result("succeeded", "insufficient_info", "insufficient", {})

KnowledgeRequired == decision # None /\ decision.knowledge
KnowledgeInvoked ==
  IF decision # None THEN decision.knowledge
  ELSE \E i \in 1..Len(calls) : calls[i] = "search_knowledge"

(* The last guard of _complete_result: something other than the model's    *)
(* own words must stand behind an answer.                                  *)
HasAuthority == history \/ knowledge # {} \/ memory # {}

(* _complete_result for the output the provider (or the backend) produced. *)
Completed(output) ==
  LET text == IF status # None THEN "confirmation" ELSE output
      lacking == \/ text = "sentinel"
                 \/ KnowledgeRequired /\ knowledge = {}
                 \/ ~HasAuthority
  IN  IF kind = "save" /\ status = None THEN Failed("permission_denied")
      ELSE IF text = "sentinel" /\ KnowledgeInvoked /\ knowledge # {}
           THEN Failed("provider_contract_error")
      ELSE IF lacking THEN Insufficient
      ELSE Result("succeeded", "completed", text,
                  IF knowledge # {} THEN citations ELSE {})

(* _build_memory_answer: what an empty output is replaced with.            *)
MemoryAnswer == IF memory = {} THEN "empty" ELSE "memory"

-------------------------------------------------------------------------------
(* The tool loop.                                                          *)

(* The loop gives up: no iteration is left, or the messages outgrew the    *)
(* context budget.  Sizes are abstract, so the budget may be found         *)
(* exceeded on any turn.                                                   *)
GiveUp ==
  /\ pc = "loop"
  /\ EndWith(IF iteration = MaxIterations THEN Failed("max_iterations")
             ELSE Failed("context_budget_exceeded"))
  /\ UNCHANGED <<iteration, calls, fault>>

LoopTurn_OffByOne ==
  /\ pc = "loop"
  /\ iteration <= MaxIterations
  /\ iteration' = iteration + 1

LoopTurn ==
  /\ pc = "loop"
  /\ iteration < MaxIterations
  /\ iteration' = iteration + 1

ProviderFails ==
  /\ LoopTurn
  /\ fault' = TRUE
  /\ EndWith(Failed("provider_error"))
  /\ UNCHANGED calls

Batches == UNION {[1..n -> Names] : n \in 1..MaxBatch}

(* The provider asks for tools; a transform was offered none.              *)
ProviderCallsTools ==
  /\ LoopTurn
  /\ UNCHANGED <<calls, fault>>
  /\ \/ kind = "transform" /\ EndWith(Failed("invalid_tool"))
     \/ /\ kind # "transform"
        /\ pending' \in Batches
        /\ asked' = "provider"
        /\ pc' = "tools"
        /\ UNCHANGED <<inputs, fallback, context, stored, ending>>

(* A recall that ended without searching the memories, or a run that said  *)
(* nothing and did nothing, is given one tool call by the backend.         *)
RecallMissed(output) ==
  /\ kind = "recall"
  /\ output \in {"empty", "sentinel"}
  /\ \A i \in 1..Len(calls) : calls[i] # "search_memory"

NeedsFallback(output) ==
  /\ kind # "transform"
  /\ ~fallback
  /\ RecallMissed(output) \/ (output = "empty" /\ calls = <<>>)

FallbackTool == CASE kind = "save" -> "save_memory"
                  [] kind = "recall" -> "search_memory"
                  [] OTHER -> "search_knowledge"

(* The provider answers with text, or with none.                           *)
ProviderAnswers(output) ==
  /\ LoopTurn
  /\ UNCHANGED <<calls, fault>>
  /\ IF output = "empty" /\ kind = "transform"
     THEN EndWith(Failed("provider_error"))
     ELSE IF ~NeedsFallback(output)
     THEN EndWith(Completed(IF output = "empty" THEN MemoryAnswer ELSE output))
     ELSE IF Len(calls) >= MaxToolCalls
     THEN EndWith(Failed("max_tool_calls"))
     ELSE /\ pending' = <<FallbackTool>>
          /\ asked' = "backend"
          /\ fallback' = TRUE
          /\ pc' = "tools"
          /\ UNCHANGED <<inputs, context, stored, ending>>

-------------------------------------------------------------------------------
(* Tool calls.  A call is charged before it is executed.                   *)
BudgetSpent == Len(calls) >= MaxToolCalls

SaveAllowed_Always == TRUE

SaveAllowed == kind = "save"

(* How the call may go wrong: _execute_tool and _termination_for_error.    *)
Faults(tool) ==
  IF tool \notin Tools THEN {"invalid_tool"}
  ELSE IF tool = "save_memory" /\ ~SaveAllowed
  THEN {"invalid_arguments", "permission_denied"}
  ELSE {"invalid_arguments", "tool_error", "tool_timeout"}

ToolRefused ==
  /\ pc = "tools" /\ pending # <<>>
  /\ BudgetSpent
  /\ EndWith(Failed("max_tool_calls"))
  /\ UNCHANGED <<iteration, calls, fault>>

Charge ==
  /\ pc = "tools" /\ pending # <<>>
  /\ ~BudgetSpent
  /\ calls' = Append(calls, Head(pending))
  /\ UNCHANGED iteration

ToolFails ==
  /\ Charge
  /\ fault' = TRUE
  /\ \E reason \in Faults(ToolOf(Head(pending))) : EndWith(Failed(reason))

ToolSucceeds(tool) ==
  /\ Charge
  /\ ToolOf(Head(pending)) = tool
  /\ pending' = Tail(pending)
  /\ UNCHANGED <<inputs, pc, asked, fallback, bound, decision, judged, fault, ending>>

(* The source kinds a call asks for.  The backend passes on what the user  *)
(* named; a provider names what it likes, or nothing.                      *)
Requested ==
  IF asked = "backend" THEN {scope} ELSE {None} \cup SUBSET SourceKinds

(* SearchKnowledgeArguments: an unsupported kind makes the call invalid.   *)
Supported(requested) == requested = None \/ requested \subseteq SourceKinds

(* _bounded_source_kinds.  A scope that holds no supported kind is no      *)
(* scope for a call that names none.                                       *)
Bounded_Trusted(requested) ==  \* mutant: the provider's kinds win
  IF requested # None THEN requested
  ELSE IF scope = None THEN SourceKinds ELSE scope \cap SourceKinds

Bounded(requested) ==
  LET allowed == IF scope = None THEN SourceKinds ELSE scope \cap SourceKinds
  IN  IF requested # None THEN requested \cap allowed
      ELSE IF allowed = {} THEN SourceKinds ELSE allowed

(* search_knowledge: the evidence and its citations, each source once.     *)
SearchKnowledge ==
  /\ ToolSucceeds("search_knowledge")
  /\ \E kinds \in {Bounded(requested) : requested \in {k \in Requested : Supported(k)}} :
     \E found \in SUBSET {c \in Chunks : KindOf[c] \in kinds} :
       /\ knowledge' = knowledge \cup found
       /\ citations' = citations \cup {SourceOf[c] : c \in found}
  /\ UNCHANGED <<memory, status, stored>>

SearchMemory ==
  /\ ToolSucceeds("search_memory")
  /\ \E found \in SUBSET Facts : memory' = memory \cup found
  /\ UNCHANGED <<knowledge, citations, status, stored>>

(* save_memory: only for a message whose save the backend authorised.      *)
SaveMemory ==
  /\ ToolSucceeds("save_memory")
  /\ SaveAllowed
  /\ status' = IF stored THEN "already_saved" ELSE "saved"
  /\ stored' = TRUE
  /\ memory' = memory \cup {SaveFact}
  /\ UNCHANGED <<knowledge, citations>>

-------------------------------------------------------------------------------
(* The structured path.                                                    *)

Requirements(d) ==
  (IF d.knowledge THEN <<"search_knowledge">> ELSE <<>>)
    \o [i \in 1..d.searches |-> "search_memory"]

(* A structured call ends the run: the provider fails, or it answers       *)
(* outside its contract.                                                   *)
StructuredFails(at, reason) ==
  /\ pc = at
  /\ fault' = TRUE
  /\ EndWith(Failed(reason))
  /\ UNCHANGED <<iteration, calls>>

(* Too few iterations are configured for the structured path at all.       *)
TooFewIterations ==
  /\ pc = "resolve"
  /\ MaxIterations < 2
  /\ EndWith(Failed("max_iterations"))
  /\ UNCHANGED <<iteration, calls, fault>>

(* A binding names a span of the question and one of an earlier message.   *)
Proposals == [source : DOMAIN Messages \cup {None}, said : BOOLEAN, found : BOOLEAN]

Valid_AnyMessage(b) ==  \* mutant: a message after the question will do
  /\ b.said /\ b.found
  /\ b.source # None /\ Messages[b.source].role \in {"user", "assistant"}

Valid(b) ==
  /\ b.said /\ b.found
  /\ b.source # None /\ Messages[b.source].role \in {"user", "assistant"}
  /\ Messages[b.source].sequence < Current

(* validate_reference_bindings: all of them are valid, or the run fails.   *)
Resolve ==
  /\ pc = "resolve"
  /\ MaxIterations >= 2
  /\ bound' \in {bs \in SUBSET {b \in Proposals : Valid(b)} : Cardinality(bs) <= MaxBindings}
  /\ pc' = "select"
  /\ UNCHANGED <<inputs, iteration, calls, pending, asked, fallback, decision, knowledge,
                 citations, memory, status, judged, stored, fault, ending>>

ResolveFails == MaxIterations >= 2 /\ StructuredFails("resolve", "provider_error")

WithinBudget_OneRecall(d) ==
  (IF d.knowledge THEN 1 ELSE 0) + (IF d.searches > 0 THEN 1 ELSE 0)
    <= MaxToolCalls - Len(calls)

WithinBudget(d) == Len(Requirements(d)) <= MaxToolCalls - Len(calls)

(* Every tool the decision requires fits the budget, or none of them runs. *)
Select ==
  /\ pc = "select"
  /\ decision' \in Decisions
  /\ IF WithinBudget(decision')
     THEN /\ pending' = Requirements(decision')
          /\ asked' = "backend"
          /\ pc' = "tools"
          /\ UNCHANGED ending
     ELSE Returns(Failed("max_tool_calls")) /\ UNCHANGED asked
  /\ UNCHANGED <<inputs, iteration, calls, fallback, bound, knowledge, citations,
                 memory, status, judged, stored, fault>>

SelectFails ==
  \/ StructuredFails("select", "provider_error")
  \/ StructuredFails("select", "provider_contract_error")

(* The tools are done: the loop asks again, the structured path goes on to *)
(* its gates.  No evidence for a task that requires some ends it here.     *)
AfterTools ==
  /\ pc = "tools" /\ pending = <<>>
  /\ UNCHANGED <<iteration, calls, fault>>
  /\ IF KnowledgeRequired /\ knowledge = {} THEN EndWith(Insufficient)
     ELSE /\ pc' = (IF decision = None THEN "loop"
                    ELSE IF KnowledgeRequired THEN "readiness" ELSE "final")
          /\ UNCHANGED <<inputs, pending, asked, fallback, context, stored, ending>>

(* assess_evidence_readiness.                                              *)
EvidenceReady ==
  /\ pc = "readiness"
  /\ judged' = knowledge
  /\ pc' = "final"
  /\ UNCHANGED <<inputs, iteration, calls, pending, asked, fallback, bound, decision,
                 knowledge, citations, memory, status, stored, fault, ending>>

EvidenceNotReady_Ignored ==
  /\ pc = "readiness"
  /\ pc' = "final"
  /\ UNCHANGED <<inputs, iteration, calls, pending, asked, fallback, context, stored,
                 fault, ending>>

EvidenceNotReady ==
  /\ pc = "readiness"
  /\ EndWith(Insufficient)
  /\ UNCHANGED <<iteration, calls, fault>>

ReadinessFails_Disguised ==
  /\ pc = "readiness"
  /\ fault' = TRUE
  /\ EndWith(Insufficient)
  /\ UNCHANGED <<iteration, calls>>

ReadinessFails ==
  \/ StructuredFails("readiness", "provider_error")
  \/ StructuredFails("readiness", "provider_contract_error")

FinalOverBudget ==
  /\ pc = "final"
  /\ EndWith(Failed("context_budget_exceeded"))
  /\ UNCHANGED <<iteration, calls, fault>>

FinalFails ==
  \/ StructuredFails("final", "provider_error")
  \/ StructuredFails("final", "invalid_tool")

(* The final synthesis.  An empty text fails unless memories can replace   *)
(* it.                                                                     *)
FinalAnswers(output) ==
  /\ pc = "final"
  /\ EndWith(IF output = "empty" /\ memory = {} THEN Failed("provider_error")
             ELSE Completed(IF output = "empty" THEN MemoryAnswer ELSE output))
  /\ UNCHANGED <<iteration, calls, fault>>

-------------------------------------------------------------------------------
(* The client goes away: CancelledError passes every handler of the run,   *)
(* which leaves no result.                                                 *)
Cancel ==
  /\ pc \notin Ended
  /\ pc' = "cancelled"
  /\ UNCHANGED <<inputs, iteration, calls, pending, asked, fallback, context, stored,
                 fault, ending>>

Step ==
  \/ GiveUp \/ ProviderFails \/ ProviderCallsTools
  \/ \E output \in Outputs : ProviderAnswers(output)
  \/ ToolRefused \/ ToolFails \/ SearchKnowledge \/ SearchMemory \/ SaveMemory
  \/ TooFewIterations \/ Resolve \/ ResolveFails \/ Select \/ SelectFails
  \/ AfterTools \/ EvidenceReady \/ EvidenceNotReady \/ ReadinessFails
  \/ FinalOverBudget \/ FinalFails
  \/ \E output \in Outputs : FinalAnswers(output)

Next == Step \/ Cancel

Spec == Init /\ [][Next]_vars
-------------------------------------------------------------------------------
(* Properties.                                                             *)

Succeeded == result # None /\ result.status = "succeeded"
Answered == Succeeded /\ result.reason = "completed"

(* Every variable keeps the shape the code gives it; a result is there     *)
(* exactly when the run has returned one.                                  *)
TypeOK ==
  /\ limits \in Limits
  /\ kind \in Kinds /\ structured \in BOOLEAN /\ history \in BOOLEAN
  /\ scope \in Scopes /\ asked \in {None, "provider", "backend"}
  /\ pc \in {"loop", "tools", "resolve", "select", "readiness", "final"} \cup Ended
  /\ iteration \in 0..MaxIterations
  /\ calls \in Seq(Names)
  /\ pending \in Seq(Names)
  /\ fallback \in BOOLEAN /\ stored \in BOOLEAN /\ fault \in BOOLEAN
  /\ bound \subseteq Proposals
  /\ decision \in Decisions \cup {None}
  /\ knowledge \subseteq Chunks
  /\ citations \subseteq {SourceOf[c] : c \in Chunks}
  /\ memory \subseteq Facts \cup {SaveFact}
  /\ status \in {None, "saved", "already_saved"}
  /\ judged = None \/ judged \subseteq Chunks
  /\ audit \in {"running", "succeeded", "failed"}
  /\ (pc = "done") = (result # None)
  /\ result \in Results \cup {None}

(* An answer to a task that requires Knowledge rests on evidence of this   *)
(* run, and on the very evidence the readiness decision judged: neither a  *)
(* memory hit nor a search that came later stands in for it                *)
(* (_run_with_context_requirements and _complete_result).                  *)
KnowledgeGate ==
  Answered /\ KnowledgeRequired => knowledge # {} /\ judged = knowledge

(* Once the evidence is declared ready the run answers or fails; it never  *)
(* turns into insufficient_info because the final provider says so.        *)
ReadyIsFinal ==
  judged # None /\ result # None => result.reason # "insufficient_info"

(* An answer that is not a transform of this conversation rests on what a  *)
(* tool of this run returned, never on the words of the provider alone.    *)
Grounded ==
  Answered => \/ kind = "transform" /\ history
              \/ calls # <<>> /\ knowledge \cup memory # {}

(* A result cites every source its evidence came from over all the         *)
(* searches of the run, and nothing when it does not answer.               *)
CitedFromEvidence ==
  result # None =>
    result.citations = IF Answered THEN {SourceOf[c] : c \in knowledge} ELSE {}

(* The charged tool calls stay within the budget whatever mixture of       *)
(* provider batches, backend fallback and requirements produced them.      *)
ToolBudget == Len(calls) <= MaxToolCalls

(* A requirement decision that does not fit the budget runs none of its    *)
(* tools: it fails closed instead of answering from half its context.      *)
AllOrNothing ==
  decision # None /\ result # None /\ result.reason = "max_tool_calls"
    => calls = <<>>

(* No provider can make the backend store a memory the user did not ask    *)
(* for.                                                                    *)
SaveOnlyWhenAsked == stored => kind = "save"

(* A save that reports success is stored, and what the user reads is the   *)
(* confirmation of the backend, never the provider's claim.                *)
SaveReported ==
  kind = "save" /\ Succeeded => stored /\ result.answer = "confirmation"

(* A provider or tool failure reaches the caller as a failure: it is never *)
(* dressed up as insufficient information or as an answer.                 *)
FaultsNotHidden == fault /\ result # None => result.status = "failed"

(* Whatever kinds a provider asks for, the evidence is of the kinds the    *)
(* user named.  A scope without a supported kind is not kept: the backend  *)
(* calls find nothing or fail, a call that names no kind searches them all.*)
ScopeKept ==
  scope # None /\ scope \cap SourceKinds # {} =>
    \A c \in knowledge : KindOf[c] \in scope

(* What a search adds to the question was said before it in this           *)
(* conversation: not in the question itself, which a retry finds in the    *)
(* history, nor in a message that another request appended since.          *)
BoundEarlier == \A b \in bound : b.found /\ Messages[b.source].sequence < Current

(* An answer that is the saved memories, verbatim, is shown as such.       *)
MemoryShown == Answered /\ result.answer = "memory" => result.usedMemory

(* What an answer rests on.                                                *)
EvidenceRules ==
  /\ Grounded /\ KnowledgeGate /\ CitedFromEvidence
  /\ ScopeKept /\ BoundEarlier /\ MemoryShown

(* What a run may spend and what it may store.                             *)
EffectRules == ToolBudget /\ AllOrNothing /\ SaveOnlyWhenAsked /\ SaveReported

(* Who reads the workflow of a run learns nothing else than its caller; a  *)
(* run that is returned as succeeded is recorded as such.  The workflow of *)
(* a run that was cancelled, or could not be recorded, stays "running".    *)
AuditAgrees ==
  /\ audit # "running" => result # None /\ result.status = audit
  /\ Succeeded => audit = "succeeded"

(* A failure and "insufficient information" are never taken for each       *)
(* other, nor is a run for one that ended otherwise.                       *)
ReasonsHonest == ReadyIsFinal /\ FaultsNotHidden /\ AuditAgrees

(* Documented in docs/04-quality-and-guardrails.md: the authorities of     *)
(* Knowledge and Memory do not mix, so an answer that is the saved memory  *)
(* verbatim carries no enterprise citation.                                *)
MemoryNotCited == Answered /\ result.answer = "memory" => result.citations = {}

(* What the runtime hands on as an answer can be stored as a message:      *)
(* append_message refuses an empty one.                                    *)
AnswerStorable == Answered => result.answer # "empty"
=============================================================================
