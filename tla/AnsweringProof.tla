---------------------------- MODULE AnsweringProof ----------------------------
(***************************************************************************)
(* Proofs about the two that answer a question: the agent (AgentRun) and,  *)
(* below, the QA orchestrator (QuestionAnswering).                         *)
(*                                                                         *)
(* AgentRun, for any chunks, memories, scopes, messages and settings.      *)
(* None of the rules is inductive: what a result may say was decided where *)
(* the run stood before.  The invariant adds what each place of a run      *)
(* implies of the decision, the evidence and the budget (Places), what the *)
(* evidence is made of (Evidence), and what a result says of the run it    *)
(* ends (Sound).                                                           *)
(***************************************************************************)
EXTENDS AgentRun, QuestionAnswering, ListLemmas, TLAPS

Early == {"resolve", "select"}

(* A decision fits the budget, and it is taken before any tool is called.  *)
Places ==
  /\ pc \in Early => decision = None /\ calls = <<>> /\ kind \in {"question", "recall"}
  /\ pc \in Early \cup {"loop"} => pending = <<>>
  /\ pc = "loop" => decision = None
  /\ pc \in {"readiness", "final"} => decision # None /\ pending = <<>>
  /\ pc = "readiness" => KnowledgeRequired /\ knowledge # {}
  /\ pc = "final" /\ KnowledgeRequired => knowledge # {} /\ judged = knowledge
  /\ judged # None => KnowledgeRequired /\ pc \in {"final"} \cup Ended
  /\ decision # None => kind \in {"question", "recall"}
  /\ decision # None /\ pc = "tools" => Len(calls) + Len(pending) <= MaxToolCalls
  /\ result = None => audit = "running" /\ ~fault

(* Evidence comes from a tool call; a saved memory from a save.            *)
Evidence ==
  /\ history => kind = "transform"
  /\ stored => kind = "save"
  /\ status # None => kind = "save" /\ stored /\ SaveFact \in memory
  /\ status = None => memory \subseteq Facts
  /\ knowledge \cup memory # {} => calls # <<>>
  /\ citations = {SourceOf[c] : c \in knowledge}
  /\ Len(calls) <= MaxToolCalls

(* What a result may say of the run it ends.                               *)
Sound(res) ==
  /\ res.citations = IF res.status = "succeeded" /\ res.reason = "completed"
                     THEN citations ELSE {}
  /\ fault => res.status = "failed"
  /\ res.status = "succeeded" /\ kind = "save" => stored /\ res.answer = "confirmation"
  /\ res.status = "succeeded" /\ res.reason = "completed" =>
       /\ HasAuthority
       /\ KnowledgeRequired => knowledge # {} /\ judged = knowledge
       /\ res.answer = "memory" => res.usedMemory
  /\ judged # None => res.reason # "insufficient_info"
  /\ decision # None /\ res.reason = "max_tool_calls" => calls = <<>>

Outcome ==
  result # None =>
    /\ Sound(result)
    /\ audit \in {"running", result.status}
    /\ result.status = "succeeded" => audit = "succeeded"

IInv == TypeOK /\ Places /\ Evidence /\ ScopeKept /\ BoundEarlier /\ Outcome

-------------------------------------------------------------------------------
(* Facts about the values.                                                 *)

(* A decision asks for knowledge at most once and for the facets of the    *)
(* task; what it requires are calls of the tools of the backend.           *)
LEMMA DecisionShape ==
  ASSUME NEW d \in Decisions
  PROVE  d # None /\ d.knowledge \in BOOLEAN /\ Requirements(d) \in Seq(Names)
<1>1. d # None
  BY NoneAssumption
<1>2. PICK wire \in Wires : d = Mapped(wire)
  BY DEF Decisions
<1>3. d.knowledge \in BOOLEAN
  BY <1>2 DEF Mapped
<1>4. d.searches \in Nat
  <2>1. CASE wire.mode = "mixed"
    BY <1>2, <2>1 DEF Mapped, Wires, MaxFacets
  <2>2. CASE wire.mode # "mixed"
    BY <1>2, <2>2 DEF Mapped
  <2> QED BY <2>1, <2>2
<1>5. {"search_knowledge", "search_memory"} \subseteq Names
  BY DEF Names, Tools
<1>6. (IF d.knowledge THEN <<"search_knowledge">> ELSE <<>>) \in Seq(Names)
  BY <1>5
<1>7. [i \in 1..d.searches |-> "search_memory"] \in Seq(Names)
  BY <1>4, <1>5, IsASeq
<1> QED BY <1>1, <1>3, <1>6, <1>7, ConcatProperties DEF Requirements

LEMMA ResultShape ==
  ASSUME TypeOK, NEW outcome \in {"succeeded", "failed"}, NEW reason \in Reasons,
         NEW answer \in Outputs \cup {"memory", "confirmation", "insufficient"},
         NEW cited \in SUBSET {SourceOf[c] : c \in Chunks}
  PROVE  /\ Result(outcome, reason, answer, cited) \in Results
         /\ Result(outcome, reason, answer, cited) # None
<1>1. (reason # "insufficient_info" /\ memory \cap Facts # {}) \in BOOLEAN
  OBVIOUS
<1>2. (IF outcome = "failed" THEN None ELSE status) \in {None, "saved", "already_saved"}
  BY DEF TypeOK
<1>3. Result(outcome, reason, answer, cited) \in Results
  BY <1>1, <1>2, Zenon DEF Result, Results
<1> QED BY <1>3, NoneAssumption

LEMMA FailedShape ==
  ASSUME TypeOK, NEW reason \in Reasons
  PROVE  Failed(reason) \in Results
BY ResultShape DEF Failed, Outputs

LEMMA InsufficientShape ==
  ASSUME TypeOK
  PROVE  Insufficient \in Results
BY ResultShape DEF Insufficient, Reasons

-------------------------------------------------------------------------------
LEMMA InitIInv == Init => IInv
<1> SUFFICES ASSUME Init PROVE IInv
  OBVIOUS
<1>1. limits \in [toolCalls : Nat \ {0}, iterations : Nat \ {0}]
  BY AgentRunAssumption DEF Init
<1>2. TypeOK
  <2>1. limits \in Limits /\ kind \in Kinds /\ structured \in BOOLEAN /\ scope \in Scopes
    BY DEF Init
  <2>2. history \in BOOLEAN /\ stored \in BOOLEAN
    BY DEF Init
  <2>3. pc \in {"resolve", "loop"} /\ iteration \in 0..MaxIterations
    BY <1>1 DEF Init, MaxIterations
  <2>4. calls \in Seq(Names) /\ pending \in Seq(Names)
    BY DEF Init
  <2>5. (pc = "done") = (result # None)
    BY <2>3 DEF Init
  <2> QED BY <2>1, <2>2, <2>3, <2>4, <2>5 DEF Init, TypeOK, Ended
<1>3. Places
  BY DEF Init, Places, Early, Kinds, Ended
<1>4. Evidence
  <2>1. history => kind = "transform"
    BY DEF Init
  <2>2. stored => kind = "save"
    BY DEF Init
  <2>3. Len(calls) <= MaxToolCalls
    BY <1>1 DEF Init, MaxToolCalls
  <2> QED BY <2>1, <2>2, <2>3 DEF Init, Evidence
<1>5. ScopeKept /\ BoundEarlier /\ Outcome
  BY DEF Init, ScopeKept, BoundEarlier, Outcome
<1> QED BY <1>2, <1>3, <1>4, <1>5 DEF IInv

-------------------------------------------------------------------------------
(* How a run ends.                                                         *)

(* What an ending step leaves alone: the evidence.  Calls may have been    *)
(* charged, and the decision may be one that did not fit the budget.       *)
Frame ==
  /\ UNCHANGED <<inputs, bound, knowledge, citations, memory, status, judged, stored>>
  /\ asked' \in {None, "provider", "backend"}
  /\ decision' = decision \/ (pc = "select" /\ decision' \in Decisions)
  /\ iteration' \in 0..MaxIterations
  /\ fallback' \in BOOLEAN /\ fault' \in BOOLEAN
  /\ calls' \in Seq(Names) /\ Len(calls') <= MaxToolCalls
  /\ calls # <<>> => calls' # <<>>

(* A run that ends with a sound result, or without one, keeps the rules.   *)
LEMMA EndKeeps ==
  ASSUME IInv, pc \notin Ended, NEW res \in Results, Returns(res), Frame, Sound(res)'
  PROVE  IInv'
<1> USE DEF IInv
<1>1. res # None /\ res.status \in {"succeeded", "failed"}
  BY NoneAssumption DEF Results
<1>2. result = None /\ audit = "running"
  BY DEF TypeOK, Places, Ended
<1>3. pc' \in {"done", "raised"} /\ pending' = <<>>
  BY DEF Returns
<1>4. \/ pc' = "done" /\ result' = res /\ audit' \in {"running", res.status}
         /\ (res.status = "succeeded" => audit' = "succeeded")
      \/ pc' = "raised" /\ result' = None /\ audit' = "running" /\ res.status = "succeeded"
  BY <1>1, <1>2 DEF Returns
<1>5. TypeOK'
  BY <1>1, <1>3, <1>4 DEF TypeOK, Frame, inputs, Ended, MaxIterations
<1>6. fault' => res.status = "failed"
  BY DEF Sound
<1>7. Places'
  <2>1. decision' # decision => judged = None /\ kind \in {"question", "recall"}
    BY DEF Frame, Places, Early, Ended
  <2>2. fault' => result' # None
    BY <1>1, <1>4, <1>6
  <2> QED BY <1>1, <1>3, <1>4, <2>1, <2>2
      DEF Places, Frame, inputs, Ended, Early, KnowledgeRequired
<1>8. Evidence'
  BY DEF Evidence, Frame, inputs, MaxToolCalls
<1>9. ScopeKept' /\ BoundEarlier'
  BY DEF ScopeKept, BoundEarlier, Frame, inputs
<1>10. Outcome'
  BY <1>1, <1>4 DEF Outcome
<1> QED BY <1>5, <1>7, <1>8, <1>9, <1>10

LEMMA FailedKeeps ==
  ASSUME IInv, pc \notin Ended, NEW reason \in Reasons \ {"completed", "insufficient_info"},
         Returns(Failed(reason)), Frame,
         reason = "max_tool_calls" => decision' = None \/ calls' = <<>>
  PROVE  IInv'
<1>1. PICK res \in Results : res = Failed(reason)
  BY FailedShape DEF IInv
<1>2. res.status = "failed" /\ res.reason = reason /\ res.citations = {}
  BY <1>1 DEF Failed, Result
<1>3. Sound(res)'
  BY <1>2 DEF Sound
<1> QED BY <1>1, <1>3, EndKeeps

LEMMA InsufficientKeeps ==
  ASSUME IInv, pc \notin Ended, Returns(Insufficient), Frame,
         judged = None, ~fault', kind # "save"
  PROVE  IInv'
<1>1. PICK res \in Results : res = Insufficient
  BY InsufficientShape DEF IInv
<1>2. res.status = "succeeded" /\ res.reason = "insufficient_info" /\ res.citations = {}
  BY <1>1 DEF Insufficient, Result
<1>3. Sound(res)'
  BY <1>2 DEF Sound, Frame, inputs
<1> QED BY <1>1, <1>3, EndKeeps

(* The gate of _complete_result, on either path.                           *)
LEMMA CompletedKeeps ==
  ASSUME IInv, pc \in {"loop", "final"}, NEW output \in Outputs \cup {"memory"},
         Returns(Completed(output)), Frame, decision' = decision, ~fault',
         output = "memory" => memory # {}
  PROVE  IInv'
<1> USE DEF IInv
<1>1. pc \notin Ended
  BY DEF Ended
<1>2. CASE kind = "save" /\ status = None
  <2>1. Returns(Failed("permission_denied"))
    BY <1>2 DEF Completed
  <2> QED BY <1>1, <2>1, FailedKeeps DEF Reasons
<1>3. CASE ~(kind = "save" /\ status = None)
  <2> DEFINE text == IF status # None THEN "confirmation" ELSE output
             lacking == \/ text = "sentinel"
                        \/ KnowledgeRequired /\ knowledge = {}
                        \/ ~HasAuthority
  <2>1. CASE text = "sentinel" /\ KnowledgeInvoked /\ knowledge # {}
    <3>1. Returns(Failed("provider_contract_error"))
      BY <1>3, <2>1 DEF Completed
    <3> QED BY <1>1, <3>1, FailedKeeps DEF Reasons
  <2>2. CASE ~(text = "sentinel" /\ KnowledgeInvoked /\ knowledge # {}) /\ lacking
    <3>1. Returns(Insufficient)
      BY <1>3, <2>2 DEF Completed
    <3>2. kind # "save"
      BY <1>3, <2>2 DEF Evidence, HasAuthority, Places, KnowledgeRequired
    <3>3. judged = None
      BY <2>2 DEF Places, HasAuthority, KnowledgeInvoked, KnowledgeRequired
    <3> QED BY <1>1, <3>1, <3>2, <3>3, InsufficientKeeps
  <2>3. CASE ~(text = "sentinel" /\ KnowledgeInvoked /\ knowledge # {}) /\ ~lacking
    <3> DEFINE cited == IF knowledge # {} THEN citations ELSE {}
    <3>1. Returns(Result("succeeded", "completed", text, cited))
      BY <1>3, <2>3 DEF Completed
    <3>2. cited = citations /\ cited \in SUBSET {SourceOf[c] : c \in Chunks}
      BY DEF Evidence, TypeOK
    <3>3. text \in Outputs \cup {"memory", "confirmation", "insufficient"}
      OBVIOUS
    <3>4. "completed" \in Reasons
      BY DEF Reasons
    <3>5. PICK res \in Results : res = Result("succeeded", "completed", text, cited)
      BY <3>2, <3>3, <3>4, ResultShape
    <3>6. /\ res.status = "succeeded" /\ res.reason = "completed" /\ res.answer = text
          /\ res.citations = cited
          /\ res.usedMemory = ("completed" # "insufficient_info" /\ memory \cap Facts # {})
      BY <3>5 DEF Result
    <3>7. text = "memory" => res.usedMemory
      BY <3>6 DEF Evidence
    <3>8. kind = "save" => stored /\ text = "confirmation"
      BY <1>3 DEF Evidence
    <3>9. HasAuthority /\ (KnowledgeRequired => knowledge # {} /\ judged = knowledge)
      BY <2>3 DEF Places, KnowledgeRequired
    <3>10. Sound(res)'
      BY <3>2, <3>6, <3>7, <3>8, <3>9
      DEF Sound, Frame, inputs, HasAuthority, KnowledgeRequired
    <3> QED BY <1>1, <3>1, <3>5, <3>10, EndKeeps
  <2> QED BY <2>1, <2>2, <2>3
<1> QED BY <1>2, <1>3

-------------------------------------------------------------------------------
(* The tool loop.                                                          *)

LEMMA Typed ==
  ASSUME TypeOK
  PROVE  /\ MaxToolCalls \in Nat \ {0} /\ MaxIterations \in Nat \ {0}
         /\ Len(calls) \in Nat /\ Len(pending) \in Nat
BY AgentRunAssumption DEF TypeOK, MaxToolCalls, MaxIterations

LEMMA GiveUpKeeps ==
  ASSUME IInv, GiveUp
  PROVE  IInv'
<1> USE DEF IInv
<1>1. pc \notin Ended /\ decision = None
  BY DEF GiveUp, Ended, Places
<1>2. Frame
  BY DEF GiveUp, EndWith, Frame, context, TypeOK, Evidence
<1>3. PICK reason \in {"max_iterations", "context_budget_exceeded"} : Returns(Failed(reason))
  BY DEF GiveUp, EndWith
<1> QED BY <1>1, <1>2, <1>3, FailedKeeps DEF Reasons

(* A turn of the provider that ends the run.                               *)
LEMMA TurnFrame ==
  ASSUME IInv, LoopTurn, UNCHANGED <<inputs, context, stored, asked, fallback, calls>>,
         fault' \in BOOLEAN
  PROVE  pc \notin Ended /\ decision = None /\ decision' = None /\ Frame
BY Typed DEF IInv, LoopTurn, Frame, context, TypeOK, Evidence, Places, Ended

LEMMA ProviderFailsKeeps ==
  ASSUME IInv, ProviderFails
  PROVE  IInv'
BY TurnFrame, FailedKeeps DEF ProviderFails, EndWith, Reasons

(* A turn that leads to tool calls: nothing but the place changes.         *)
LEMMA ToolsKeep ==
  ASSUME IInv, LoopTurn, pc' = "tools", pending' \in Seq(Names),
         asked' \in {"provider", "backend"}, fallback' \in BOOLEAN,
         UNCHANGED <<inputs, calls, context, stored, fault, ending>>
  PROVE  IInv'
<1> USE DEF IInv, context, ending, inputs
<1>1. TypeOK'
  BY Typed DEF TypeOK, LoopTurn, MaxIterations, Ended
<1>2. Places'
  BY DEF Places, LoopTurn, Early, Ended, KnowledgeRequired
<1>3. Evidence' /\ ScopeKept' /\ BoundEarlier'
  BY DEF Evidence, ScopeKept, BoundEarlier, MaxToolCalls
<1>4. Outcome'
  BY DEF Outcome, TypeOK, LoopTurn
<1> QED BY <1>1, <1>2, <1>3, <1>4

LEMMA ProviderCallsToolsKeeps ==
  ASSUME IInv, ProviderCallsTools
  PROVE  IInv'
<1>1. CASE kind = "transform"
  <2>1. LoopTurn /\ UNCHANGED <<calls, fault>> /\ fault' \in BOOLEAN
    BY DEF ProviderCallsTools, IInv, TypeOK
  <2>2. Returns(Failed("invalid_tool")) /\ Frame /\ pc \notin Ended /\ decision' = None
    BY <1>1, <2>1, TurnFrame DEF ProviderCallsTools, EndWith
  <2> QED BY <2>2, FailedKeeps DEF Reasons
<1>2. CASE kind # "transform"
  <2>1. Batches \subseteq Seq(Names)
    <3>1. ASSUME NEW n \in 1..MaxBatch, NEW s \in [1..n -> Names] PROVE s \in Seq(Names)
      BY <3>1, AgentRunAssumption
    <3> QED BY <3>1 DEF Batches
  <2>2. pending' \in Seq(Names) /\ asked' = "provider" /\ pc' = "tools"
    BY <1>2, <2>1 DEF ProviderCallsTools
  <2> QED BY <1>2, <2>2, ToolsKeep DEF ProviderCallsTools, IInv, TypeOK
<1> QED BY <1>1, <1>2

LEMMA ProviderAnswersKeeps ==
  ASSUME IInv, NEW output \in Outputs, ProviderAnswers(output)
  PROVE  IInv'
<1> DEFINE said == IF output = "empty" THEN MemoryAnswer ELSE output
<1>1. LoopTurn /\ UNCHANGED <<calls, fault>> /\ pc = "loop"
  BY DEF ProviderAnswers, LoopTurn
<1>2. fault' \in BOOLEAN /\ ~fault'
  BY <1>1 DEF IInv, TypeOK, Places
<1>3. CASE \E reason \in {"provider_error", "max_tool_calls"} : EndWith(Failed(reason))
  BY <1>1, <1>2, <1>3, TurnFrame, FailedKeeps DEF EndWith, Reasons
<1>4. CASE EndWith(Completed(said))
  <2>1. said \in Outputs \cup {"memory"} /\ (said = "memory" => memory # {})
    BY DEF MemoryAnswer, Outputs
  <2>2. Frame /\ decision' = decision
    BY <1>1, <1>2, <1>4, TurnFrame DEF EndWith
  <2> QED BY <1>1, <1>2, <1>4, <2>1, <2>2, CompletedKeeps DEF EndWith
<1>5. CASE /\ pending' = <<FallbackTool>> /\ asked' = "backend" /\ fallback' = TRUE
           /\ pc' = "tools" /\ UNCHANGED <<inputs, context, stored, ending>>
  <2>1. FallbackTool \in Names
    BY DEF FallbackTool, Names, Tools
  <2>2. pending' \in Seq(Names)
    BY <1>5, <2>1
  <2> QED BY <1>1, <1>5, <2>2, ToolsKeep
<1> QED BY <1>3, <1>4, <1>5 DEF ProviderAnswers

-------------------------------------------------------------------------------
(* Tool calls.                                                             *)

(* A call that is charged stays within the budget.                         *)
LEMMA Charged ==
  ASSUME IInv, Charge
  PROVE  /\ pc = "tools" /\ Head(pending) \in Names /\ Tail(pending) \in Seq(Names)
         /\ Len(Tail(pending)) = Len(pending) - 1 /\ iteration' = iteration
         /\ calls' \in Seq(Names) /\ Len(calls') = Len(calls) + 1
         /\ Len(calls') <= MaxToolCalls /\ calls' # <<>>
<1>1. pending \in Seq(Names) /\ pending # <<>> /\ calls \in Seq(Names) /\ pc = "tools"
  BY DEF IInv, TypeOK, Charge
<1>2. Head(pending) \in Names /\ Tail(pending) \in Seq(Names)
      /\ Len(Tail(pending)) = Len(pending) - 1
  BY <1>1
<1>3. calls' \in Seq(Names) /\ Len(calls') = Len(calls) + 1
  BY <1>1, <1>2 DEF Charge
<1>4. Len(calls') <= MaxToolCalls
  BY <1>3, Typed DEF Charge, BudgetSpent, IInv
<1>5. calls' # <<>>
  BY <1>1, <1>3
<1> QED BY <1>1, <1>2, <1>3, <1>4, <1>5 DEF Charge

LEMMA ToolRefusedKeeps ==
  ASSUME IInv, ToolRefused
  PROVE  IInv'
<1> USE DEF IInv
<1>1. Returns(Failed("max_tool_calls")) /\ Frame
  BY DEF ToolRefused, EndWith, Frame, context, TypeOK, Evidence
<1>2. Len(pending) > 0
  BY DEF ToolRefused, TypeOK
<1>3. decision = None
  BY <1>2, Typed DEF ToolRefused, BudgetSpent, Places
<1>4. decision' = None /\ pc \notin Ended
  BY <1>3 DEF ToolRefused, EndWith, context, Ended
<1> QED BY <1>1, <1>4, FailedKeeps DEF Reasons

LEMMA ToolFailsKeeps ==
  ASSUME IInv, ToolFails
  PROVE  IInv'
<1>1. PICK reason \in Faults(ToolOf(Head(pending))) : EndWith(Failed(reason))
  BY DEF ToolFails
<1>2. reason \in Reasons \ {"completed", "insufficient_info", "max_tool_calls"}
  BY DEF Faults, Reasons
<1>3. Frame
  BY <1>1, Charged DEF ToolFails, EndWith, Frame, context, IInv, TypeOK
<1>4. pc \notin Ended
  BY DEF ToolFails, Charge, Ended
<1> QED BY <1>1, <1>2, <1>3, <1>4, FailedKeeps DEF EndWith

(* A successful call: the evidence grows, and nothing else is decided.     *)
LEMMA SearchKeeps ==
  ASSUME IInv, NEW tool \in Tools, ToolSucceeds(tool), Evidence', ScopeKept',
         knowledge' \subseteq Chunks, citations' \subseteq {SourceOf[c] : c \in Chunks},
         memory' \subseteq Facts \cup {SaveFact}, status' \in {None, "saved", "already_saved"},
         stored' \in BOOLEAN, knowledge \subseteq knowledge'
  PROVE  IInv'
<1> USE DEF IInv, ToolSucceeds, inputs, ending
<1>1. TypeOK'
  BY Charged DEF TypeOK, MaxIterations
<1>2. Places'
  <2>1. decision' # None => Len(calls') + Len(pending') <= MaxToolCalls'
    BY Charged, Typed DEF Places, MaxToolCalls
  <2>2. judged' = None
    BY Charged DEF Places, Ended
  <2> QED BY <2>1, <2>2, Charged DEF Places, Early, KnowledgeRequired
<1>3. BoundEarlier'
  BY DEF BoundEarlier
<1>4. Outcome'
  BY Charged DEF Outcome, TypeOK
<1> QED BY <1>1, <1>2, <1>3, <1>4

(* Whatever a call names, it searches only what a scope with a supported   *)
(* kind allows.                                                            *)
LEMMA BoundedByScope ==
  ASSUME NEW requested, scope # None, scope \cap SourceKinds # {}
  PROVE  Bounded(requested) \subseteq scope
BY DEF Bounded

LEMMA SearchKnowledgeKeeps ==
  ASSUME IInv, SearchKnowledge
  PROVE  IInv'
<1> USE DEF IInv
<1>0. PICK requested \in Requested :
        \E found \in SUBSET {c \in Chunks : KindOf[c] \in Bounded(requested)} :
          /\ knowledge' = knowledge \cup found
          /\ citations' = citations \cup {SourceOf[c] : c \in found}
  BY DEF SearchKnowledge
<1>1. PICK found \in SUBSET {c \in Chunks : KindOf[c] \in Bounded(requested)} :
        /\ knowledge' = knowledge \cup found
        /\ citations' = citations \cup {SourceOf[c] : c \in found}
  BY <1>0
<1>2. ToolSucceeds("search_knowledge") /\ UNCHANGED <<memory, status, stored>>
  BY DEF SearchKnowledge
<1>3. UNCHANGED inputs
  BY <1>2 DEF ToolSucceeds
<1>4. Evidence'
  <2>1. citations' = {SourceOf[c] : c \in knowledge'}
    BY <1>1 DEF Evidence
  <2>2. calls' # <<>> /\ Len(calls') <= MaxToolCalls'
    BY <1>2, <1>3, Charged DEF ToolSucceeds, inputs, MaxToolCalls
  <2> QED BY <1>2, <1>3, <2>1, <2>2 DEF Evidence, inputs
<1>5. ScopeKept'
  BY <1>1, <1>3, BoundedByScope DEF ScopeKept, inputs
<1>6. knowledge' \subseteq Chunks /\ citations' \subseteq {SourceOf[c] : c \in Chunks}
  BY <1>1 DEF TypeOK
<1> QED BY <1>1, <1>2, <1>4, <1>5, <1>6, SearchKeeps DEF TypeOK, Tools

LEMMA SearchMemoryKeeps ==
  ASSUME IInv, SearchMemory
  PROVE  IInv'
<1> USE DEF IInv
<1>1. PICK found \in SUBSET Facts : memory' = memory \cup found
  BY DEF SearchMemory
<1>2. ToolSucceeds("search_memory") /\ UNCHANGED <<knowledge, citations, status, stored>>
  BY DEF SearchMemory
<1>3. UNCHANGED inputs
  BY <1>2 DEF ToolSucceeds
<1>4. calls' # <<>> /\ Len(calls') <= MaxToolCalls'
  BY <1>2, <1>3, Charged DEF ToolSucceeds, inputs, MaxToolCalls
<1>5. Evidence' /\ ScopeKept'
  BY <1>1, <1>2, <1>3, <1>4 DEF Evidence, ScopeKept, inputs
<1> QED BY <1>1, <1>2, <1>5, SearchKeeps DEF TypeOK, Tools

LEMMA SaveMemoryKeeps ==
  ASSUME IInv, SaveMemory
  PROVE  IInv'
<1> USE DEF IInv
<1>1. ToolSucceeds("save_memory") /\ UNCHANGED <<knowledge, citations>> /\ kind = "save"
  BY DEF SaveMemory, SaveAllowed
<1>2. /\ status' \in {"saved", "already_saved"} /\ stored' = TRUE
      /\ memory' = memory \cup {SaveFact}
  BY DEF SaveMemory
<1>3. UNCHANGED inputs
  BY <1>1 DEF ToolSucceeds
<1>4. calls' # <<>> /\ Len(calls') <= MaxToolCalls'
  BY <1>1, <1>3, Charged DEF ToolSucceeds, inputs, MaxToolCalls
<1>5. Evidence' /\ ScopeKept'
  BY <1>1, <1>2, <1>3, <1>4, AgentRunAssumption DEF Evidence, ScopeKept, inputs
<1> QED BY <1>1, <1>2, <1>5, SearchKeeps DEF TypeOK, Tools

-------------------------------------------------------------------------------
(* The structured path.                                                    *)

(* A structured call that ends the run.                                    *)
LEMMA StopFrame ==
  ASSUME IInv, pc \notin Ended, UNCHANGED <<inputs, context, stored, asked, fallback>>,
         UNCHANGED <<iteration, calls>>, fault' \in BOOLEAN
  PROVE  Frame /\ decision' = decision
BY DEF Frame, context, IInv, TypeOK, Evidence

LEMMA StructuredFailsKeeps ==
  ASSUME IInv, NEW at \in {"resolve", "select", "readiness", "final"},
         NEW reason \in {"provider_error", "provider_contract_error", "invalid_tool"},
         StructuredFails(at, reason)
  PROVE  IInv'
<1>1. pc \notin Ended
  BY DEF StructuredFails, Ended
<1>2. Frame /\ Returns(Failed(reason))
  BY <1>1, StopFrame DEF StructuredFails, EndWith
<1> QED BY <1>1, <1>2, FailedKeeps DEF Reasons

LEMMA StopKeeps ==
  ASSUME IInv, TooFewIterations \/ FinalOverBudget
  PROVE  IInv'
<1>1. pc \notin Ended
  BY DEF TooFewIterations, FinalOverBudget, Ended
<1>2. PICK reason \in {"max_iterations", "context_budget_exceeded"} : EndWith(Failed(reason))
  BY DEF TooFewIterations, FinalOverBudget
<1>3. Frame
  BY <1>1, <1>2, StopFrame DEF TooFewIterations, FinalOverBudget, EndWith, IInv, TypeOK
<1> QED BY <1>1, <1>2, <1>3, FailedKeeps DEF EndWith, Reasons

LEMMA ResolveKeeps ==
  ASSUME IInv, Resolve
  PROVE  IInv'
<1> USE DEF IInv, inputs, ending
<1>1. bound' \subseteq Proposals /\ \A b \in bound' : Valid(b)
  BY DEF Resolve
<1>2. pc = "resolve" /\ pc' = "select" /\ result = None
  BY DEF Resolve, TypeOK
<1>3. TypeOK'
  BY <1>1, <1>2 DEF Resolve, TypeOK, MaxIterations, Ended
<1>4. Places'
  BY <1>2 DEF Resolve, Places, Early, Ended, KnowledgeRequired
<1>5. Evidence' /\ ScopeKept'
  BY DEF Resolve, Evidence, ScopeKept, MaxToolCalls
<1>6. BoundEarlier'
  BY <1>1 DEF BoundEarlier, Valid
<1>7. Outcome'
  BY <1>2 DEF Resolve, Outcome
<1> QED BY <1>3, <1>4, <1>5, <1>6, <1>7

LEMMA SelectKeeps ==
  ASSUME IInv, Select
  PROVE  IInv'
<1> USE DEF IInv
<1>1. /\ pc = "select" /\ decision' \in Decisions /\ result = None /\ judged = None
      /\ calls = <<>> /\ decision = None /\ kind \in {"question", "recall"}
  BY DEF Select, TypeOK, Places, Early, Ended
<1>2. /\ UNCHANGED <<inputs, iteration, calls, fallback, bound, knowledge, citations>>
      /\ UNCHANGED <<memory, status, judged, stored, fault>>
  BY DEF Select
<1>3. CASE WithinBudget(decision')
  <2>1. /\ pending' = Requirements(decision') /\ asked' = "backend" /\ pc' = "tools"
        /\ UNCHANGED ending
    BY <1>3 DEF Select
  <2>2. decision' # None /\ pending' \in Seq(Names)
    BY <1>1, <2>1, DecisionShape
  <2>3. Len(calls') + Len(pending') <= MaxToolCalls'
    <3>1. Len(calls) = 0 /\ Len(pending') \in Nat
      BY <1>1, <2>2
    <3> QED BY <1>2, <1>3, <2>1, <3>1, Typed DEF WithinBudget, inputs, MaxToolCalls
  <2>4. TypeOK'
    BY <1>1, <1>2, <2>1, <2>2 DEF TypeOK, inputs, ending, MaxIterations, Ended
  <2>5. Places'
    BY <1>1, <1>2, <2>1, <2>3 DEF Places, inputs, ending, Early, Ended
  <2>6. Evidence' /\ ScopeKept' /\ BoundEarlier'
    BY <1>2 DEF Evidence, ScopeKept, BoundEarlier, inputs, MaxToolCalls
  <2>7. Outcome'
    BY <1>1, <2>1 DEF Outcome, ending
  <2> QED BY <2>4, <2>5, <2>6, <2>7
<1>4. CASE ~WithinBudget(decision')
  <2>1. Returns(Failed("max_tool_calls")) /\ UNCHANGED asked
    BY <1>4 DEF Select
  <2>2. Frame
    BY <1>1, <1>2, <2>1 DEF Frame, inputs, TypeOK, Evidence
  <2> QED BY <1>1, <1>2, <2>1, <2>2, FailedKeeps DEF Reasons, Ended
<1> QED BY <1>3, <1>4

(* A step between the places that only moves the run on.                   *)
LEMMA MoveKeeps ==
  ASSUME IInv, pc \in {"tools", "readiness"}, pending = <<>>, result = None,
         pc' \in {"loop", "readiness", "final"},
         UNCHANGED <<inputs, iteration, calls, pending, asked, fallback, bound, decision>>,
         UNCHANGED <<knowledge, citations, memory, status, stored, fault, ending>>,
         judged' = None \/ judged' \subseteq Chunks,
         Places'
  PROVE  IInv'
<1> USE DEF IInv, inputs, ending
<1>1. TypeOK'
  BY DEF TypeOK, MaxIterations, Ended
<1>2. Evidence' /\ ScopeKept' /\ BoundEarlier'
  BY DEF Evidence, ScopeKept, BoundEarlier, MaxToolCalls
<1>3. Outcome'
  BY DEF Outcome
<1> QED BY <1>1, <1>2, <1>3

LEMMA AfterToolsKeeps ==
  ASSUME IInv, AfterTools
  PROVE  IInv'
<1> USE DEF IInv
<1>1. pc = "tools" /\ pending = <<>> /\ UNCHANGED <<iteration, calls, fault>>
  BY DEF AfterTools
<1>2. pc \notin Ended /\ result = None /\ judged = None /\ ~fault
  BY <1>1 DEF TypeOK, Places, Ended
<1>3. CASE KnowledgeRequired /\ knowledge = {}
  <2>1. EndWith(Insufficient)
    BY <1>3 DEF AfterTools
  <2>2. Frame
    BY <1>1, <1>2, <2>1, StopFrame DEF EndWith, TypeOK
  <2>3. kind # "save"
    BY <1>3 DEF Places, KnowledgeRequired
  <2> QED BY <1>1, <1>2, <2>1, <2>2, <2>3, InsufficientKeeps DEF EndWith
<1>4. CASE ~(KnowledgeRequired /\ knowledge = {})
  <2>1. /\ pc' = IF decision = None THEN "loop"
                ELSE IF KnowledgeRequired THEN "readiness" ELSE "final"
        /\ UNCHANGED <<inputs, pending, asked, fallback, context, stored, ending>>
    BY <1>4 DEF AfterTools
  <2>2. Places'
    BY <1>1, <1>2, <1>4, <2>1 DEF Places, inputs, context, ending, Early, Ended, KnowledgeRequired
  <2> QED BY <1>1, <1>2, <2>1, <2>2, MoveKeeps DEF context, TypeOK
<1> QED BY <1>3, <1>4

LEMMA EvidenceReadyKeeps ==
  ASSUME IInv, EvidenceReady
  PROVE  IInv'
<1> USE DEF IInv
<1>1. pc = "readiness" /\ pc' = "final" /\ judged' = knowledge /\ pending = <<>> /\ result = None
  BY DEF EvidenceReady, Places, TypeOK
<1>2. Places'
  BY <1>1 DEF EvidenceReady, Places, inputs, ending, Early, Ended, KnowledgeRequired
<1> QED BY <1>1, <1>2, MoveKeeps DEF EvidenceReady, TypeOK

LEMMA EvidenceNotReadyKeeps ==
  ASSUME IInv, EvidenceNotReady
  PROVE  IInv'
<1> USE DEF IInv
<1>1. pc = "readiness" /\ EndWith(Insufficient) /\ UNCHANGED <<iteration, calls, fault>>
  BY DEF EvidenceNotReady
<1>2. pc \notin Ended /\ judged = None /\ ~fault /\ kind # "save"
  BY <1>1 DEF TypeOK, Places, Ended
<1>3. Frame
  BY <1>1, <1>2, StopFrame DEF EndWith, TypeOK
<1> QED BY <1>1, <1>2, <1>3, InsufficientKeeps DEF EndWith

LEMMA FinalAnswersKeeps ==
  ASSUME IInv, NEW output \in Outputs, FinalAnswers(output)
  PROVE  IInv'
<1> DEFINE said == IF output = "empty" THEN MemoryAnswer ELSE output
<1> USE DEF IInv
<1>1. pc = "final" /\ UNCHANGED <<iteration, calls, fault>>
  BY DEF FinalAnswers
<1>2. pc \notin Ended /\ ~fault
  BY <1>1 DEF TypeOK, Places, Ended
<1>3. CASE output = "empty" /\ memory = {}
  <2>1. EndWith(Failed("provider_error"))
    BY <1>3 DEF FinalAnswers
  <2>2. Frame
    BY <1>1, <1>2, <2>1, StopFrame DEF EndWith, TypeOK
  <2> QED BY <1>1, <1>2, <2>1, <2>2, FailedKeeps DEF EndWith, Reasons
<1>4. CASE ~(output = "empty" /\ memory = {})
  <2>1. EndWith(Completed(said))
    BY <1>4 DEF FinalAnswers
  <2>2. Frame /\ decision' = decision
    BY <1>1, <1>2, <2>1, StopFrame DEF EndWith, TypeOK
  <2>3. said \in Outputs \cup {"memory"} /\ (said = "memory" => memory # {})
    BY DEF MemoryAnswer, Outputs
  <2> QED BY <1>1, <1>2, <2>1, <2>2, <2>3, CompletedKeeps DEF EndWith
<1> QED BY <1>3, <1>4

LEMMA CancelKeeps ==
  ASSUME IInv, Cancel
  PROVE  IInv'
<1> USE DEF IInv, inputs, context, ending
<1>1. pc \notin Ended /\ pc' = "cancelled" /\ result = None
  BY DEF Cancel, TypeOK, Ended
<1>2. TypeOK'
  BY <1>1 DEF Cancel, TypeOK, MaxIterations, Ended
<1>3. Places'
  BY <1>1 DEF Cancel, Places, Early, Ended, KnowledgeRequired
<1>4. Evidence' /\ ScopeKept' /\ BoundEarlier' /\ Outcome'
  BY <1>1 DEF Cancel, Evidence, ScopeKept, BoundEarlier, Outcome, MaxToolCalls
<1> QED BY <1>2, <1>3, <1>4

-------------------------------------------------------------------------------
LEMMA NextKeeps ==
  ASSUME IInv, [Next]_vars
  PROVE  IInv'
<1>1. CASE UNCHANGED vars
  BY <1>1 DEF vars, inputs, context, ending, IInv, TypeOK, Places, Evidence, ScopeKept,
              BoundEarlier, Outcome, Sound, HasAuthority, KnowledgeRequired, MaxToolCalls,
              MaxIterations
<1>2. CASE Cancel
  BY <1>2, CancelKeeps
<1>3. CASE GiveUp \/ ProviderFails \/ ProviderCallsTools
  BY <1>3, GiveUpKeeps, ProviderFailsKeeps, ProviderCallsToolsKeeps
<1>4. CASE \E output \in Outputs : ProviderAnswers(output) \/ FinalAnswers(output)
  BY <1>4, ProviderAnswersKeeps, FinalAnswersKeeps
<1>5. CASE ToolRefused \/ ToolFails \/ SearchKnowledge \/ SearchMemory \/ SaveMemory
  BY <1>5, ToolRefusedKeeps, ToolFailsKeeps, SearchKnowledgeKeeps, SearchMemoryKeeps,
     SaveMemoryKeeps
<1>6. CASE TooFewIterations \/ FinalOverBudget
  BY <1>6, StopKeeps
<1>7. CASE Resolve \/ Select \/ AfterTools \/ EvidenceReady \/ EvidenceNotReady
  BY <1>7, ResolveKeeps, SelectKeeps, AfterToolsKeeps, EvidenceReadyKeeps,
     EvidenceNotReadyKeeps
<1>8. CASE ResolveFails \/ SelectFails \/ ReadinessFails \/ FinalFails
  BY <1>8, StructuredFailsKeeps DEF ResolveFails, SelectFails, ReadinessFails, FinalFails
<1> QED
  BY <1>1, <1>2, <1>3, <1>4, <1>5, <1>6, <1>7, <1>8 DEF Next, Step

LEMMA InvariantHolds == Spec => []IInv
<1>1. Init => IInv
  BY InitIInv
<1>2. IInv /\ [Next]_vars => IInv'
  BY NextKeeps
<1> QED BY <1>1, <1>2, PTL DEF Spec

-------------------------------------------------------------------------------
(* Every variable keeps the shape the code gives it.                       *)
THEOREM TypeCorrect == Spec => []TypeOK
<1>1. IInv => TypeOK
  BY DEF IInv
<1> QED BY <1>1, InvariantHolds, PTL

(* What an answer rests on: evidence of this run, judged where Knowledge   *)
(* is required, of the kinds the user named, all of it cited and nothing   *)
(* else; references to what was said before; memories shown as such.       *)
THEOREM AnswersRestOnEvidence == Spec => []EvidenceRules
<1>1. ASSUME IInv PROVE EvidenceRules
  <2> USE <1>1 DEF IInv, Answered, Succeeded
  <2>1. Grounded
    BY DEF Grounded, Outcome, Sound, Evidence, HasAuthority
  <2>2. KnowledgeGate
    BY DEF KnowledgeGate, Outcome, Sound
  <2>3. CitedFromEvidence
    BY DEF CitedFromEvidence, Outcome, Sound, Evidence
  <2>4. MemoryShown
    BY DEF MemoryShown, Outcome, Sound
  <2> QED BY <2>1, <2>2, <2>3, <2>4 DEF EvidenceRules
<1> QED BY <1>1, InvariantHolds, PTL

(* What a run may spend and store: never more calls than the budget, no    *)
(* half-executed decision, no memory nobody asked for, no false report.    *)
THEOREM EffectsAreBounded == Spec => []EffectRules
<1>1. ASSUME IInv PROVE EffectRules
  <2> USE <1>1 DEF IInv, Succeeded
  <2>1. ToolBudget /\ SaveOnlyWhenAsked
    BY DEF ToolBudget, SaveOnlyWhenAsked, Evidence
  <2>2. AllOrNothing /\ SaveReported
    BY DEF AllOrNothing, SaveReported, Outcome, Sound
  <2> QED BY <2>1, <2>2 DEF EffectRules
<1> QED BY <1>1, InvariantHolds, PTL

(* Failures, insufficient information and the audit are never taken for    *)
(* one another.                                                            *)
THEOREM ReasonsAreHonest == Spec => []ReasonsHonest
<1>1. ASSUME IInv PROVE ReasonsHonest
  <2> USE <1>1 DEF IInv, Succeeded
  <2>1. ReadyIsFinal /\ FaultsNotHidden
    BY DEF ReadyIsFinal, FaultsNotHidden, Outcome, Sound
  <2>2. AuditAgrees
    BY DEF AuditAgrees, Outcome, Places, TypeOK
  <2> QED BY <2>1, <2>2 DEF ReasonsHonest
<1> QED BY <1>1, InvariantHolds, PTL

-------------------------------------------------------------------------------
(***************************************************************************)
(* QuestionAnswering, where the same chunks are searched.  OutcomeTold     *)
(* says what a question has at its end; the invariant adds what each       *)
(* place on the way implies of the audit and of what has failed (Fits).    *)
(***************************************************************************)
(* What may fail in a question that is answered.                           *)
Spared == {"embedding", "memory", "vector"}

(* The audit runs until the result is known, and nothing is told before    *)
(* the end; a question not yet ended has met no fault it cannot spare.     *)
Fits(r) ==
  /\ r.pc = "new" => r.audit = Nothing
  /\ r.pc \in Works \ {"return"} => r.audit = "running"
  /\ r.pc = "return" => r.audit = "succeeded"
  /\ r.pc \in {"audit", "return"} => r.result \in Answers
  /\ r.pc # "done" => r.told = Nothing /\ r.faults \subseteq Spared /\ r.audit # "failed"

(* OutcomeTold, of a run.                                                  *)
Told(r) ==
  /\ r.told \in Answers => r.audit = "succeeded" /\ r.faults \subseteq Spared
  /\ r.told \in Codes => r.faults # {} /\
       (r.audit = "succeeded" => r.faults \cap {"audit", "timeout"} # {})
  /\ r.audit = "failed" => r.told \in Codes

(* The fields of a run.                                                    *)
Record(r) ==
  r = [pc |-> r.pc, vector |-> r.vector, mode |-> r.mode, why |-> r.why, broken |-> r.broken,
       chunks |-> r.chunks, citations |-> r.citations, ready |-> r.ready, result |-> r.result,
       faults |-> r.faults, audit |-> r.audit, told |-> r.told]

QAInv == Record(run) /\ Fits(run) /\ Told(run)

LEMMA QAInit == ASSUME QuestionInit PROVE QAInv
<1> USE NothingAssumption DEF Answers, Codes, Works, NothingApart
<1>1. run = NewRun
  BY DEF QuestionInit
<1>2. Record(run)
  BY <1>1 DEF Record, NewRun
<1>3. Fits(run) /\ Told(run)
  BY <1>1 DEF Fits, Told, NewRun, Spared
<1> QED BY <1>2, <1>3 DEF QAInv

(* A failure is told with its fault, and of a run audited as succeeded     *)
(* only when the time limit comes in between.                              *)
LEMMA QAFail ==
  ASSUME QAInv, NEW code \in Codes, NEW cause, Fail(code, cause),
         run.pc \in Works, run.pc = "return" => cause \in {"audit", "timeout"}
  PROVE  QAInv'
<1> USE NothingAssumption DEF Answers, Codes, Works, NothingApart
<1>1. PICK mark \in {"failed", run.audit} :
        run' = [run EXCEPT !.pc = "done", !.told = code, !.audit = mark,
                           !.faults = @ \cup {cause}]
  BY DEF Fail
<1>2. PICK faults : faults = run.faults \cup {cause}
  OBVIOUS
<1>3. Record(run') /\ run'.pc = "done" /\ run'.told = code /\ run'.audit = mark
      /\ run'.faults = faults
  BY <1>1, <1>2 DEF QAInv, Record
<1>4. run.pc # "return" => run.audit = "running"
  BY DEF QAInv, Fits
<1>5. Fits(run')
  BY <1>3 DEF Fits
<1>6. Told(run')
  BY <1>2, <1>3, <1>4 DEF Told
<1> QED BY <1>3, <1>5, <1>6 DEF QAInv

(* A step that does not end the question.                                  *)
LEMMA QAMove ==
  ASSUME QAInv, NEW x, Record(x), run' = x, x.pc # "done", Fits(x)
  PROVE  QAInv'
<1> USE NothingAssumption DEF Answers, Codes, Works, NothingApart
<1>1. Told(x)
  BY DEF Fits, Told
<1> QED BY <1>1 DEF QAInv

(* A result goes to the audit.                                             *)
LEMMA QAConclude ==
  ASSUME QAInv, NEW x, Record(x), NEW res \in Answers,
         run.pc \in Works \ {"audit", "return"},
         x.audit = run.audit, x.told = run.told, x.faults = run.faults,
         run' = Conclude(x, res)
  PROVE  QAInv'
<1> USE NothingAssumption DEF Answers, Codes, Works, NothingApart
<1>1. PICK y : y = Conclude(x, res)
  OBVIOUS
<1>2. Record(y) /\ y.pc = "audit" /\ y.result = res /\ y.audit = run.audit
      /\ y.told = run.told /\ y.faults = run.faults
  BY <1>1 DEF Conclude, Record
<1>3. Fits(y)
  BY <1>2 DEF QAInv, Fits
<1> QED BY <1>1, <1>2, <1>3, QAMove

(* An open question is audited as running, and nothing has spoilt it.      *)
LEMMA QAOpen ==
  ASSUME QAInv, run.pc \in Works \ {"return"}
  PROVE  run.audit = "running" /\ run.told = Nothing /\ run.faults \subseteq Spared
<1> USE DEF Works
<1> QED BY DEF QAInv, Fits

(* Embedding and reading; what fails here is done without.                 *)
LEMMA QAReadKeeps ==
  ASSUME QAInv,
         Embed \/ SearchSaved \/ ReadByVector \/ VectorFails \/ ReadByWords
  PROVE  QAInv'
<1> USE DEF Works
<1>1. run.pc \in {"embed", "memory", "vector", "words"}
  BY DEF Embed, SearchSaved, ReadByVector, VectorFails, ReadByWords
<1>2. run.audit = "running" /\ run.told = Nothing /\ run.faults \subseteq Spared /\ Record(run)
  BY <1>1, QAOpen DEF QAInv
<1>3. ASSUME NEW x, Record(x), run' = x, x.pc \in {"memory", "vector", "words", "judge"},
             x.audit = run.audit, x.told = run.told, x.faults \subseteq Spared
      PROVE  QAInv'
  <2>1. Fits(x)
    BY <1>2, <1>3 DEF Fits
  <2> QED BY <1>3, <2>1, QAMove
<1>4. CASE Embed
  <2>1. CASE run' = [run EXCEPT !.vector = TRUE, !.pc = "memory"]
    <3>1. PICK x : x = [run EXCEPT !.vector = TRUE, !.pc = "memory"]
      OBVIOUS
    <3>2. /\ Record(x) /\ x.pc = "memory" /\ x.audit = run.audit /\ x.told = run.told
          /\ x.faults = run.faults
      BY <1>2, <3>1 DEF Record
    <3> QED BY <1>2, <1>3, <2>1, <3>1, <3>2
  <2>2. ASSUME NEW why, run' = [run EXCEPT !.why = why, !.pc = "memory",
                                           !.faults = @ \cup {"embedding"}]
        PROVE  QAInv'
    <3>1. PICK x : x = [run EXCEPT !.why = why, !.pc = "memory",
                                   !.faults = @ \cup {"embedding"}]
      OBVIOUS
    <3>2. /\ Record(x) /\ x.pc = "memory" /\ x.audit = run.audit /\ x.told = run.told
          /\ x.faults \subseteq Spared
      BY <1>2, <3>1 DEF Record, Spared
    <3> QED BY <1>3, <2>2, <3>1, <3>2
  <2> QED BY <1>4, <2>1, <2>2 DEF Embed
<1>5. CASE SearchSaved
  <2>1. PICK place \in {"vector", "words"} : place = ReadChunks
    BY DEF ReadChunks
  <2>2. CASE run' = [run EXCEPT !.pc = place]
    <3>1. PICK x : x = [run EXCEPT !.pc = place]
      OBVIOUS
    <3>2. /\ Record(x) /\ x.pc = place /\ x.audit = run.audit /\ x.told = run.told
          /\ x.faults = run.faults
      BY <1>2, <3>1 DEF Record
    <3> QED BY <1>2, <1>3, <2>2, <3>1, <3>2
  <2>3. CASE run' = [run EXCEPT !.pc = place, !.faults = @ \cup {"memory"}]
    <3>1. PICK x : x = [run EXCEPT !.pc = place, !.faults = @ \cup {"memory"}]
      OBVIOUS
    <3>2. /\ Record(x) /\ x.pc = place /\ x.audit = run.audit /\ x.told = run.told
          /\ x.faults \subseteq Spared
      BY <1>2, <3>1 DEF Record, Spared
    <3> QED BY <1>3, <2>3, <3>1, <3>2
  <2>4. CASE run' = Conclude([run EXCEPT !.mode = "memory"], "memory")
    <3>1. PICK x : x = [run EXCEPT !.mode = "memory"]
      OBVIOUS
    <3>2. Record(x) /\ x.audit = run.audit /\ x.told = run.told /\ x.faults = run.faults
      BY <1>2, <3>1 DEF Record
    <3> QED BY <1>1, <2>4, <3>1, <3>2, QAConclude DEF Answers
  <2> QED BY <1>5, <2>1, <2>2, <2>3, <2>4 DEF SearchSaved, Goto
<1>6. ASSUME NEW mode, NEW why, NEW chunks, Found(mode, why, chunks) PROVE QAInv'
  <2>1. PICK x : x = [run EXCEPT !.mode = mode, !.why = why, !.chunks = chunks,
                                 !.citations = Citations(chunks)]
    OBVIOUS
  <2>2. Record(x) /\ x.audit = run.audit /\ x.told = run.told /\ x.faults = run.faults
    BY <1>2, <2>1 DEF Record
  <2>3. CASE run' = Conclude(x, "insufficient")
    BY <1>1, <2>2, <2>3, QAConclude DEF Answers
  <2>4. CASE run' = [x EXCEPT !.pc = "judge"]
    <3>1. PICK y : y = [x EXCEPT !.pc = "judge"]
      OBVIOUS
    <3>2. /\ Record(y) /\ y.audit = run.audit /\ y.told = run.told /\ y.faults = run.faults
          /\ y.pc = "judge"
      BY <2>2, <3>1 DEF Record
    <3> QED BY <1>2, <1>3, <2>4, <3>1, <3>2
  <2> QED BY <1>6, <2>1, <2>3, <2>4 DEF Found
<1>7. CASE ReadByVector
  <2>1. CASE run' = [run EXCEPT !.pc = "words", !.why = "VECTOR_DATA_UNAVAILABLE"]
    <3>1. PICK x : x = [run EXCEPT !.pc = "words", !.why = "VECTOR_DATA_UNAVAILABLE"]
      OBVIOUS
    <3>2. /\ Record(x) /\ x.pc = "words" /\ x.audit = run.audit /\ x.told = run.told
          /\ x.faults = run.faults
      BY <1>2, <3>1 DEF Record
    <3> QED BY <1>2, <1>3, <2>1, <3>1, <3>2
  <2> QED BY <1>6, <1>7, <2>1 DEF ReadByVector
<1>8. CASE VectorFails
  <2>1. PICK broken \in BOOLEAN :
          run' = [run EXCEPT !.pc = "words", !.why = "VECTOR_QUERY_FAILED", !.broken = broken,
                             !.faults = @ \cup {"vector"}]
    BY <1>8 DEF VectorFails
  <2>2. PICK x : x = [run EXCEPT !.pc = "words", !.why = "VECTOR_QUERY_FAILED",
                                 !.broken = broken, !.faults = @ \cup {"vector"}]
    OBVIOUS
  <2>3. /\ Record(x) /\ x.pc = "words" /\ x.audit = run.audit /\ x.told = run.told
        /\ x.faults \subseteq Spared
    BY <1>2, <2>2 DEF Record, Spared
  <2> QED BY <1>3, <2>1, <2>2, <2>3
<1>9. CASE ReadByWords
  BY <1>6, <1>9 DEF ReadByWords
<1> QED BY <1>4, <1>5, <1>7, <1>8, <1>9

(* The provider's verdict and its texts.                                   *)
LEMMA QAAnswerKeeps ==
  ASSUME QAInv, Judge \/ Generate \/ Recall
  PROVE  QAInv'
<1> USE DEF Works
<1>1. run.pc \in {"judge", "generate", "recall"} /\ Record(run)
  BY DEF Judge, Generate, Recall, QAInv
<1>2. run.audit = "running" /\ run.told = Nothing /\ run.faults \subseteq Spared
  BY <1>1, QAOpen
<1>3. ASSUME NEW res \in Answers, run' = Conclude(run, res) PROVE QAInv'
  BY <1>1, <1>3, QAConclude
<1>4. ASSUME NEW text, Fail("LLM_OUTPUT_INVALID", text) PROVE QAInv'
  BY <1>1, <1>4, QAFail DEF Codes
<1>5. CASE Judge
  <2>1. CASE run' = [run EXCEPT !.ready = TRUE, !.pc = "generate"]
    <3>1. PICK x : x = [run EXCEPT !.ready = TRUE, !.pc = "generate"]
      OBVIOUS
    <3>2. /\ Record(x) /\ x.pc = "generate" /\ x.audit = run.audit /\ x.told = run.told
          /\ x.faults = run.faults
      BY <1>1, <3>1 DEF Record
    <3>3. Fits(x)
      BY <1>2, <3>2 DEF Fits
    <3> QED BY <2>1, <3>1, <3>2, <3>3, QAMove
  <2>2. CASE run' = Conclude([run EXCEPT !.ready = FALSE, !.citations = << >>], "insufficient")
    <3>1. PICK x : x = [run EXCEPT !.ready = FALSE, !.citations = << >>]
      OBVIOUS
    <3>2. Record(x) /\ x.audit = run.audit /\ x.told = run.told /\ x.faults = run.faults
      BY <1>1, <3>1 DEF Record
    <3> QED BY <1>1, <2>2, <3>1, <3>2, QAConclude DEF Answers
  <2> QED BY <1>5, <2>1, <2>2 DEF Judge
<1>6. CASE Generate
  BY <1>3, <1>4, <1>6 DEF Generate, Answers
<1>7. CASE Recall
  <2>1. "recalled" \in Answers /\ "insufficient" \in Answers /\ "no_history" \in Answers
    BY DEF Answers
  <2> QED BY <1>3, <1>4, <1>7, <2>1 DEF Recall
<1> QED BY <1>5, <1>6, <1>7

(* The ends of a question.                                                 *)
LEMMA QAEndKeeps ==
  ASSUME QAInv,
         \/ PromptMissing \/ ReadFails \/ LLMFails \/ AuditFails
         \/ Tell \/ Timeout
  PROVE  QAInv'
<1> USE DEF Works
<1>1. ASSUME NEW code \in Codes, NEW cause, Fail(code, cause),
             run.pc \in Works \ {"return"} \/ (run.pc = "return" /\ cause = "timeout")
      PROVE  QAInv'
  BY <1>1, QAFail
<1>2. CASE PromptMissing \/ ReadFails \/ LLMFails \/ Timeout
  BY <1>1, <1>2 DEF PromptMissing, ReadFails, LLMFails, Timeout, AsksProvider,
     Codes
<1>3. CASE AuditFails
  <2>1. PICK mark \in {"running", "succeeded"} :
          run' = [run EXCEPT !.pc = "done", !.told = "WORKFLOW_AUDIT_UPDATE_FAILED",
                             !.audit = mark, !.faults = @ \cup {"audit"}]
    BY <1>3 DEF AuditFails
  <2>2. PICK faults : faults = run.faults \cup {"audit"}
    OBVIOUS
  <2>3. /\ Record(run') /\ run'.pc = "done" /\ run'.told = "WORKFLOW_AUDIT_UPDATE_FAILED"
        /\ run'.audit = mark /\ run'.faults = faults
    BY <2>1, <2>2 DEF QAInv, Record
  <2>4. Fits(run')
    BY <2>3 DEF Fits
  <2>5. Told(run')
    BY <2>2, <2>3 DEF Told, Codes, Answers
  <2> QED BY <2>3, <2>4, <2>5 DEF QAInv
<1>4. CASE Tell
  <2>1. run.pc = "return" /\ run' = [run EXCEPT !.told = run.result, !.pc = "done"]
    BY <1>4 DEF Tell
  <2>2. run.result \in Answers /\ run.audit = "succeeded" /\ run.faults \subseteq Spared
    BY <2>1 DEF QAInv, Fits
  <2>3. /\ Record(run') /\ run'.pc = "done" /\ run'.told = run.result
        /\ run'.audit = run.audit /\ run'.faults = run.faults
    BY <2>1 DEF QAInv, Record
  <2>4. Fits(run')
    BY <2>3 DEF Fits
  <2>5. Told(run')
    BY <2>2, <2>3 DEF Told, Codes, Answers
  <2> QED BY <2>3, <2>4, <2>5 DEF QAInv
<1> QED BY <1>2, <1>3, <1>4

LEMMA QANext == ASSUME QAInv, [QuestionNext]_questionVars PROVE QAInv'
<1> USE DEF Works
<1>1. CASE Start
  <2>1. PICK x : /\ x = [run EXCEPT !.audit = "running",
                          !.mode = IF ask.about = "conversation" THEN "conversation" ELSE Nothing,
                          !.pc = IF ask.about = "conversation" THEN "recall" ELSE "embed"]
    OBVIOUS
  <2>2. run.pc = "new" /\ run' = x
    BY <1>1, <2>1 DEF Start
  <2>3. /\ Record(x) /\ x.pc \in {"recall", "embed"} /\ x.audit = "running"
        /\ x.told = run.told /\ x.faults = run.faults
    BY <2>1 DEF QAInv, Record
  <2>4. Fits(x)
    BY <2>2, <2>3 DEF QAInv, Fits
  <2> QED BY <2>2, <2>3, <2>4, QAMove
<1>2. CASE Audit
  <2>1. PICK x : x = [run EXCEPT !.audit = "succeeded", !.pc = "return"]
    OBVIOUS
  <2>2. run.pc = "audit" /\ run' = x
    BY <1>2, <2>1 DEF Audit
  <2>3. /\ Record(x) /\ x.pc = "return" /\ x.audit = "succeeded" /\ x.result = run.result
        /\ x.told = run.told /\ x.faults = run.faults
    BY <2>1 DEF QAInv, Record
  <2>4. Fits(x)
    BY <2>2, <2>3 DEF QAInv, Fits
  <2> QED BY <2>2, <2>3, <2>4, QAMove
<1>3. CASE Crash
  <2>1. PICK x : x = [run EXCEPT !.pc = "lost"]
    OBVIOUS
  <2>2. run.pc \in Works /\ run' = x
    BY <1>3, <2>1 DEF Crash, Goto
  <2>3. /\ Record(x) /\ x.pc = "lost" /\ x.audit = run.audit
        /\ x.told = run.told /\ x.faults = run.faults
    BY <2>1 DEF QAInv, Record
  <2>4. Fits(x)
    BY <2>2, <2>3 DEF QAInv, Fits
  <2> QED BY <2>2, <2>3, <2>4, QAMove
<1>4. CASE \/ PromptMissing \/ ReadFails \/ LLMFails \/ AuditFails
           \/ Tell \/ Timeout
  BY <1>4, QAEndKeeps
<1>5. CASE Embed \/ SearchSaved \/ ReadByVector \/ VectorFails \/ ReadByWords
  BY <1>5, QAReadKeeps
<1>6. CASE Judge \/ Generate \/ Recall
  BY <1>6, QAAnswerKeeps
<1>7. CASE run' = run
  BY <1>7 DEF QAInv
<1> QED BY <1>1, <1>2, <1>3, <1>4, <1>5, <1>6, <1>7 DEF QuestionNext, Replace, Done, questionVars

(* The caller and the audit are told the same: a result only of a run      *)
(* audited as succeeded in which nothing failed that the question needs,   *)
(* an error never of one, unless the audit itself or the time limit came   *)
(* in between; for any chunks, editions and questions.                     *)
THEOREM CallerAndAuditAgree == QuestionSpec => []OutcomeTold
<1>1. QuestionInit => QAInv
  BY QAInit
<1>2. QAInv /\ [QuestionNext]_questionVars => QAInv'
  BY QANext
<1>3. QAInv => OutcomeTold
  BY DEF QAInv, Told, OutcomeTold, Spared
<1> QED BY <1>1, <1>2, <1>3, PTL DEF QuestionSpec

-------------------------------------------------------------------------------
(* Ranking the rows and citing their places.                               *)
(* The rows of a ranking are numbers with numbers as scores.               *)
Scored(score) ==
  /\ IsFiniteSet(DOMAIN score) /\ DOMAIN score \subseteq Nat
  /\ \A c \in DOMAIN score : score[c] \in Nat

(* Sorted by Better, every row once.                                       *)
Ranking(s, score) ==
  /\ s \in Seq(DOMAIN score) /\ Len(s) = Cardinality(DOMAIN score)
  /\ \A i, j \in 1..Len(s) : i < j => Better(score, s[i], s[j])
  /\ \A c \in DOMAIN score : \E i \in 1..Len(s) : s[i] = c

LEMMA BetterOrder ==
  ASSUME NEW score, Scored(score)
  PROVE  /\ \A c \in DOMAIN score : ~Better(score, c, c)
         /\ \A c, d, e \in DOMAIN score : Better(score, c, d) /\ Better(score, d, e) => Better(score, c, e)
         /\ \A c, d \in DOMAIN score : c # d => Better(score, c, d) \/ Better(score, d, c)
<1> DEFINE D == DOMAIN score
<1>1. D \subseteq Nat /\ \A c \in D : score[c] \in Nat
  BY DEF Scored
<1> HIDE DEF D
<1>2. \A c \in D : ~Better(score, c, c)
  BY <1>1 DEF Better
<1>3. \A c, d, e \in D : Better(score, c, d) /\ Better(score, d, e) => Better(score, c, e)
  BY <1>1 DEF Better
<1>4. \A c, d \in D : c # d => Better(score, c, d) \/ Better(score, d, c)
  BY <1>1 DEF Better
<1> QED BY <1>2, <1>3, <1>4 DEF D

(* Ranked ranks: the number of better rows is another one for every row,   *)
(* so that it runs through all places.                                     *)
LEMMA RankedRanks ==
  ASSUME NEW score, Scored(score)
  PROVE  Ranking(Ranked(score), score)
<1> DEFINE D == DOMAIN score
           N == Cardinality(D)
           Ahead(c) == {d \in D : Better(score, d, c)}
           r == [c \in D |-> Cardinality(Ahead(c))]
<1>1. IsFiniteSet(D) /\ N \in Nat
  BY FS_CardinalityType DEF Scored
<1>2. /\ \A c \in D : ~Better(score, c, c)
      /\ \A c, d, e \in D : Better(score, c, d) /\ Better(score, d, e) => Better(score, c, e)
      /\ \A c, d \in D : c # d => Better(score, c, d) \/ Better(score, d, c)
  BY BetterOrder
<1>3. Ranked(score) = [n \in 1..N |-> CHOOSE c \in D : Cardinality(Ahead(c)) = n - 1]
  BY DEF Ranked
<1> HIDE DEF D, N
<1>4. ASSUME NEW c \in D
      PROVE  IsFiniteSet(Ahead(c)) /\ Cardinality(Ahead(c)) \in 0..N - 1
  <2>1. Ahead(c) \in SUBSET (D \ {c})
    BY <1>2
  <2>2. IsFiniteSet(D \ {c}) /\ Cardinality(D \ {c}) = N - 1
    BY <1>1, FS_RemoveElement DEF N
  <2> HIDE DEF Ahead
  <2>3. IsFiniteSet(Ahead(c)) /\ Cardinality(Ahead(c)) <= N - 1
    BY <2>1, <2>2, FS_Subset
  <2>4. Cardinality(Ahead(c)) \in Nat
    BY <2>3, FS_CardinalityType
  <2> QED BY <1>1, <2>3, <2>4
<1>5. ASSUME NEW c \in D, NEW d \in D, Better(score, c, d) PROVE r[c] < r[d]
  <2>1. c \notin Ahead(c) /\ Ahead(c) \cup {c} \in SUBSET Ahead(d)
    BY <1>2, <1>5
  <2>2. r[c] = Cardinality(Ahead(c)) /\ r[d] = Cardinality(Ahead(d))
    OBVIOUS
  <2>3. IsFiniteSet(Ahead(c)) /\ IsFiniteSet(Ahead(d))
        /\ Cardinality(Ahead(c)) \in 0..N - 1 /\ Cardinality(Ahead(d)) \in 0..N - 1
    BY <1>4
  <2> HIDE DEF Ahead, r
  <2>4. Cardinality(Ahead(c) \cup {c}) = Cardinality(Ahead(c)) + 1
    BY <2>1, <2>3, FS_AddElement
  <2>5. Cardinality(Ahead(c) \cup {c}) <= Cardinality(Ahead(d))
    BY <2>1, <2>3, FS_Subset
  <2> QED BY <1>1, <2>2, <2>3, <2>4, <2>5
<1>6. r \in [D -> 0..N - 1]
  BY <1>4
<1>7. \A c \in D : r[c] = Cardinality(Ahead(c))
  OBVIOUS
<1> HIDE DEF r, Ahead
<1>8. \A c, d \in D : r[c] = r[d] => c = d
  BY <1>1, <1>2, <1>5, <1>6
<1>9. \A n \in 0..N - 1 : \E c \in D : r[c] = n
  <2>1. r \in Injection(D, 0..N - 1)
    BY <1>6, <1>8 DEF Injection, IsInjective
  <2>2. IsFiniteSet(0..N - 1) /\ Cardinality(0..N - 1) = N
    BY <1>1, FS_Interval
  <2>3. r \in Surjection(D, 0..N - 1)
    BY <2>1, <2>2, FS_Injection DEF N
  <2> QED BY <2>3 DEF Surjection
<1> DEFINE s == Ranked(score)
<1>10. ASSUME NEW n \in 1..N PROVE s[n] \in D /\ r[s[n]] = n - 1
  <2>1. n - 1 \in 0..N - 1
    BY <1>1
  <2>2. \E c \in D : Cardinality(Ahead(c)) = n - 1
    BY <1>7, <1>9, <2>1
  <2>3. s[n] = CHOOSE c \in D : Cardinality(Ahead(c)) = n - 1
    BY <1>3
  <2> HIDE DEF s
  <2> QED BY <1>7, <2>2, <2>3
<1>11. s \in [1..N -> D] /\ Len(s) = N
  <2>1. DOMAIN s = 1..N /\ s = [n \in 1..N |-> s[n]]
    BY <1>3
  <2> HIDE DEF s
  <2>2. s \in [1..N -> D]
    BY <1>10, <2>1
  <2> QED BY <1>1, <2>1, <2>2
<1>12. s \in Seq(D)
  BY <1>1, <1>11
<1> HIDE DEF s
<1>13. \A i, j \in 1..N : i < j => Better(score, s[i], s[j])
  <2> SUFFICES ASSUME NEW i \in 1..N, NEW j \in 1..N, i < j PROVE Better(score, s[i], s[j])
    OBVIOUS
  <2>1. r[s[i]] < r[s[j]] /\ s[i] \in D /\ s[j] \in D
    BY <1>1, <1>10
  <2>2. r[s[i]] \in Int /\ r[s[j]] \in Int
    BY <1>1, <1>10
  <2>3. ~(r[s[j]] < r[s[i]])
    BY <2>1, <2>2
  <2>4. s[i] # s[j]
    BY <2>1, <2>2
  <2> QED BY <1>2, <1>5, <2>1, <2>3, <2>4
<1>14. \A c \in D : \E i \in 1..N : s[i] = c
  <2> SUFFICES ASSUME NEW c \in D PROVE \E i \in 1..N : s[i] = c
    OBVIOUS
  <2>1. r[c] + 1 \in 1..N /\ (r[c] + 1) - 1 = r[c]
    BY <1>1, <1>6
  <2> QED BY <1>8, <1>10, <2>1
<1> QED BY <1>11, <1>12, <1>13, <1>14 DEF Ranking, D, N, s

LEMMA LesserOf ==
  ASSUME NEW a \in Int, NEW b \in Int
  PROVE  Min({a, b}) = IF a <= b THEN a ELSE b
<1>1. \E x \in {a, b} : \A y \in {a, b} : x <= y
  <2>1. CASE a <= b
    BY <2>1
  <2>2. CASE ~(a <= b)
    BY <2>2
  <2> QED BY <2>1, <2>2
<1>2. Min({a, b}) \in {a, b} /\ \A y \in {a, b} : Min({a, b}) <= y
  BY <1>1 DEF Min
<1> QED BY <1>2

(* The first k of the first m rows of a ranking are the best k of these m. *)
LEMMA BestFirst ==
  ASSUME NEW score, NEW s, Scored(score), Ranking(s, score), NEW m \in 0..Len(s), NEW k \in Nat,
         NEW l \in Nat, l = IF k <= m THEN k ELSE m
  PROVE  BestOf(SubSeq(s, 1, l), [c \in {s[i] : i \in 1..m} |-> score[c]], k)
<1> DEFINE D == DOMAIN score
           T == {s[i] : i \in 1..m}
           f == SubSeq(s, 1, l)
           some == [c \in T |-> score[c]]
<1>1. /\ s \in Seq(D) /\ Len(s) \in Nat
      /\ \A i, j \in 1..Len(s) : i < j => Better(score, s[i], s[j])
      /\ \A i \in 1..Len(s) : s[i] \in D
  BY DEF Ranking
<1>2. \A c \in D : ~Better(score, c, c)
  BY BetterOrder
<1>3. l \in 0..m /\ m \in 0..Len(s) /\ m \in Nat /\ l \in Nat /\ Len(s) \in Nat
  BY <1>1
<1> HIDE DEF D
<1>4. DOMAIN f = 1..l /\ Len(f) = l /\ \A i \in 1..l : f[i] = s[i]
  <2>1. \A i \in 1..l : s[i] \in D
    BY <1>1, <1>3
  <2>2. f \in Seq(D) /\ Len(f) = l /\ \A i \in 1..l : f[i] = s[1 + i - 1]
    BY <1>3, <2>1, SubSeqProperties
  <2>3. \A i \in 1..l : 1 + i - 1 = i
    BY <1>3
  <2> QED BY <2>2, <2>3
<1>5. DOMAIN some = T /\ \A c \in T : some[c] = score[c]
  OBVIOUS
<1>6. \A i, j \in 1..m : s[i] = s[j] => i = j
  BY <1>1, <1>2, <1>3
<1>7. IsFiniteSet(T) /\ Cardinality(T) = m
  <2> DEFINE g == [i \in 1..m |-> s[i]]
  <2>1. g \in Bijection(1..m, T)
    BY <1>6 DEF Bijection, Injection, Surjection, IsInjective
  <2> HIDE DEF g
  <2>2. ExistsBijection(1..m, T)
    BY <2>1 DEF ExistsBijection
  <2> HIDE DEF T
  <2> QED BY <1>3, <2>2, FS_CountingElements, FS_NatBijection
<1>8. Range(f) \subseteq T
  BY <1>3, <1>4 DEF Range
<1>9. Len(f) = Min({k, Cardinality(T)})
  <2> HIDE DEF T
  <2> QED BY <1>3, <1>4, <1>7, LesserOf
<1>10. \A i, j \in 1..m : Better(some, s[i], s[j]) <=> Better(score, s[i], s[j])
  BY DEF Better
<1> HIDE DEF f, some
<1>11. \A i, j \in DOMAIN f : i < j => Better(some, f[i], f[j])
  BY <1>1, <1>3, <1>4, <1>10
<1>12. \A c \in T \ Range(f), i \in DOMAIN f : Better(some, f[i], c)
  <2> SUFFICES ASSUME NEW c \in T \ Range(f), NEW i \in DOMAIN f PROVE Better(some, f[i], c)
    OBVIOUS
  <2>1. PICK j \in 1..m : c = s[j]
    OBVIOUS
  <2>2. j \notin 1..l
    BY <1>4, <2>1 DEF Range
  <2>3. i \in 1..l /\ i < j /\ i \in 1..m
    BY <1>3, <1>4, <2>2
  <2> QED BY <1>1, <1>3, <1>4, <1>10, <2>1, <2>3
<1> QED BY <1>5, <1>8, <1>9, <1>11, <1>12 DEF BestOf, f, some

(* What the rows of a store are and how they are scored.                   *)
LEMMA RowsScored ==
  ASSUME ask \in Questions, NEW E \in SUBSET Rows
  PROVE  /\ (\A c \in E : Near(c) # Nothing) => Scored([c \in E |-> Near(c)])
         /\ Scored([c \in E |-> Words(c)])
<1>1. E \subseteq Nat /\ IsFiniteSet(E)
  BY IdsAssumption, FS_Subset
<1>2. ASSUME NEW c \in E, Near(c) # Nothing PROVE Near(c) \in Nat
  BY <1>2, RowsAssumption DEF Near
<1>3. ASSUME NEW c \in E PROVE Words(c) \in Nat
  <2> DEFINE both == Cardinality(ask.words \cap Row[c].words)
             phrase == IF ask.text \in Row[c].quotes THEN 1500 ELSE 0
             of(whole, share) == IF whole = {} THEN 0 ELSE (share * both) \div Cardinality(whole)
             all == of(ask.words, 7500) + of(Row[c].words, 2500) + phrase
  <2>1. IsFiniteSet(ask.words) /\ IsFiniteSet(Row[c].words)
    BY QuestionsAssumption, RowsAssumption
  <2>2. both \in Nat
    <3>1. IsFiniteSet(ask.words \cap Row[c].words)
      BY <2>1, FS_Intersection
    <3> QED BY <3>1, FS_CardinalityType
  <2>3. Words(c) = Min({all, 10000})
    BY DEF Words
  <2> HIDE DEF both
  <2>4. ASSUME NEW whole, IsFiniteSet(whole), NEW share \in Nat PROVE of(whole, share) \in Nat
    <3>1. CASE whole = {}
      BY <3>1
    <3>2. CASE whole # {}
      <4>1. Cardinality(whole) \in Nat /\ Cardinality(whole) # 0
        BY <2>4, <3>2, FS_CardinalityType, FS_EmptySet
      <4>2. share * both \in Nat
        BY <2>2
      <4> HIDE DEF both
      <4>3. \A a \in Nat, b \in Nat : b # 0 => a \div b \in Nat
        OBVIOUS
      <4> QED BY <3>2, <4>1, <4>2, <4>3
    <3> QED BY <3>1, <3>2
  <2>5. of(ask.words, 7500) \in Nat /\ of(Row[c].words, 2500) \in Nat /\ phrase \in Nat
    BY <2>1, <2>4
  <2> HIDE DEF of, phrase
  <2>6. all \in Nat
    BY <2>5
  <2> HIDE DEF all
  <2> QED BY <2>3, <2>6, LesserOf
<1> QED BY <1>1, <1>2, <1>3 DEF Scored

(* FirstOf, of a ranking.                                                  *)
LEMMA FirstOfIs ==
  ASSUME NEW S, NEW s \in Seq(S), NEW n \in Nat
  PROVE  \E l \in 0..Len(s) : /\ l = IF n <= Len(s) THEN n ELSE Len(s)
                              /\ FirstOf(s, n) = SubSeq(s, 1, l)
                              /\ FirstOf(s, n) \in Seq(S) /\ Len(FirstOf(s, n)) = l
                              /\ \A i \in 1..l : FirstOf(s, n)[i] = s[i]
<1> DEFINE l == Min({n, Len(s)})
<1>1. Len(s) \in Nat /\ \A i \in 1..Len(s) : s[i] \in S
  OBVIOUS
<1>2. l = IF n <= Len(s) THEN n ELSE Len(s)
  BY <1>1, LesserOf
<1>3. FirstOf(s, n) = SubSeq(s, 1, l)
  BY DEF FirstOf
<1> HIDE DEF l
<1>4. l \in 0..Len(s)
  BY <1>1, <1>2
<1>5. \A i \in 1..l : s[i] \in S /\ 1 + i - 1 = i
  BY <1>1, <1>4
<1>6. SubSeq(s, 1, l) \in Seq(S) /\ Len(SubSeq(s, 1, l)) = l
      /\ \A i \in 1..l : SubSeq(s, 1, l)[i] = s[i]
  BY <1>4, <1>5, SubSeqProperties
<1> QED BY <1>2, <1>3, <1>4, <1>6

(* The best by words.                                                      *)
LEMMA WordsBest ==
  ASSUME ask \in Questions, NEW E \in SUBSET Rows
  PROVE  LET s == FirstOf(Ranked([c \in E |-> Words(c)]), ask.k)
         IN  s \in Seq(Rows) /\ BestOf(s, [c \in E |-> Words(c)], ask.k)
<1> DEFINE score == [c \in E |-> Words(c)]
           R == Ranked(score)
<1>1. Scored(score) /\ DOMAIN score = E
  BY RowsScored
<1> HIDE DEF score
<1>2. Ranking(R, score)
  BY <1>1, RankedRanks
<1> HIDE DEF R
<1>3. R \in Seq(E) /\ Len(R) \in Nat /\ (\A c \in E : \E i \in 1..Len(R) : R[i] = c)
      /\ \A i \in 1..Len(R) : R[i] \in E
  BY <1>1, <1>2 DEF Ranking
<1>4. ask.k \in Nat
  BY QuestionsAssumption, SizesAssumption
<1>5. PICK l \in 0..Len(R) : /\ l = IF ask.k <= Len(R) THEN ask.k ELSE Len(R)
                             /\ FirstOf(R, ask.k) = SubSeq(R, 1, l)
                             /\ FirstOf(R, ask.k) \in Seq(E)
  BY <1>3, <1>4, FirstOfIs
<1>6. E = {R[i] : i \in 1..Len(R)}
  BY <1>3
<1>7. score = [c \in E |-> score[c]]
  BY DEF score
<1>8. l \in Nat /\ Len(R) \in 0..Len(R)
  BY <1>3, <1>5
<1>9. BestOf(SubSeq(R, 1, l), [c \in E |-> score[c]], ask.k)
  <2>1. BestOf(SubSeq(R, 1, l), [c \in {R[i] : i \in 1..Len(R)} |-> score[c]], ask.k)
    BY <1>1, <1>2, <1>4, <1>5, <1>8, BestFirst
  <2> QED BY <1>6, <2>1
<1>10. FirstOf(R, ask.k) \in Seq(Rows)
  BY <1>5, SeqMonotonic
<1>11. BestOf(FirstOf(R, ask.k), score, ask.k)
  BY <1>5, <1>7, <1>9
<1> QED BY <1>10, <1>11 DEF R, score

(* A pool of twice as many rows, or of MaxPool, has the best above the     *)
(* floor.                                                                  *)
LEMMA FloorBest ==
  ASSUME ask \in Questions, NEW E \in SUBSET Rows, \A c \in E : Near(c) # Nothing
  PROVE  LET pool == FirstOf(Ranked([c \in E |-> Near(c)]), PoolSize(ask.k))
             near == {c \in E : Near(c) >= Floor}
         IN  /\ AboveFloor(pool) \in Seq(Rows)
             /\ BestOf(AboveFloor(pool), [c \in near |-> Near(c)], ask.k)
             /\ pool = <<>> => E = {}
             /\ E = {} => pool = <<>>
<1> DEFINE score == [c \in E |-> Near(c)]
           R == Ranked(score)
           N == Len(R)
           k == ask.k
           pool == FirstOf(R, PoolSize(k))
           near == {c \in E : Near(c) >= Floor}
<1>1. Scored(score) /\ DOMAIN score = E /\ \A c \in E : score[c] = Near(c)
  BY RowsScored
<1>2. E \subseteq Nat /\ \A c \in E : Near(c) \in Nat
  BY RowsAssumption, IdsAssumption DEF Near
<1> HIDE DEF score
<1>3. Ranking(R, score)
  BY <1>1, RankedRanks
<1> HIDE DEF R
<1>4. /\ R \in Seq(E) /\ N \in Nat /\ (\A c \in E : \E i \in 1..N : R[i] = c)
      /\ \A i \in 1..N : R[i] \in E
      /\ \A i, j \in 1..N : i < j => Better(score, R[i], R[j])
  BY <1>1, <1>3 DEF Ranking
<1> HIDE DEF N
<1>5. k \in Nat /\ k >= 1 /\ k <= MaxPool /\ MaxPool \in Nat /\ Floor \in Nat
  BY QuestionsAssumption, SizesAssumption
<1>6. PoolSize(k) \in Nat /\ PoolSize(k) >= k
  <2>1. PoolSize(k) = IF 2 * k <= MaxPool THEN 2 * k ELSE MaxPool
    BY <1>5, LesserOf DEF PoolSize
  <2> QED BY <1>5, <2>1
<1>7. \A i, j \in 1..N : i <= j => Near(R[i]) >= Near(R[j])
  <2> SUFFICES ASSUME NEW i \in 1..N, NEW j \in 1..N, i <= j PROVE Near(R[i]) >= Near(R[j])
    OBVIOUS
  <2>1. R[i] \in E /\ R[j] \in E
    BY <1>4
  <2>2. Near(R[i]) \in Nat /\ Near(R[j]) \in Nat
    BY <1>2, <2>1
  <2>3. i < j => Better(score, R[i], R[j])
    BY <1>4
  <2>4. score[R[i]] = Near(R[i]) /\ score[R[j]] = Near(R[j])
    BY <1>1, <2>1
  <2>5. i < j \/ i = j
    BY <1>4
  <2> QED BY <2>2, <2>3, <2>4, <2>5 DEF Better
<1>8. PICK m \in 0..N : \A i \in 1..N : Near(R[i]) >= Floor <=> i <= m
  <2> DEFINE T == {i \in 1..N + 1 : i = N + 1 \/ ~(Near(R[i]) >= Floor)}
  <2>1. T \in SUBSET Nat /\ T # {}
    BY <1>4
  <2>2. PICK q \in T : \A i \in T : q <= i
    BY <2>1, Least
  <2>3. q - 1 \in 0..N /\ q \in 1..N + 1
    BY <1>4, <2>2
  <2>4. ASSUME NEW i \in 1..N, i <= q - 1 PROVE Near(R[i]) >= Floor
    <3>1. i \notin T
      BY <2>2, <2>3, <2>4
    <3> QED BY <1>4, <3>1
  <2>5. ASSUME NEW i \in 1..N, ~(i <= q - 1) PROVE ~(Near(R[i]) >= Floor)
    <3>1. q \in 1..N /\ q <= i
      BY <1>4, <2>3, <2>5
    <3>2. ~(Near(R[q]) >= Floor)
      BY <1>4, <2>2, <3>1
    <3>3. Near(R[q]) >= Near(R[i])
      BY <1>7, <3>1
    <3>4. Near(R[q]) \in Nat /\ Near(R[i]) \in Nat
      BY <1>2, <1>4, <3>1
    <3> QED BY <1>5, <3>2, <3>3, <3>4
  <2> HIDE DEF T
  <2> QED BY <2>3, <2>4, <2>5
<1>9. near = {R[i] : i \in 1..m}
  <2>1. \A c \in near : \E i \in 1..m : c = R[i]
    BY <1>4, <1>8
  <2>2. \A i \in 1..m : i \in 1..N /\ R[i] \in near
    BY <1>4, <1>8
  <2> QED BY <2>1, <2>2
<1>10. PICK p \in 0..N : /\ p = IF PoolSize(k) <= N THEN PoolSize(k) ELSE N
                         /\ pool \in Seq(E) /\ Len(pool) = p
                         /\ \A i \in 1..p : pool[i] = R[i]
  BY <1>4, <1>6, FirstOfIs DEF N
<1> HIDE DEF pool
<1> DEFINE q == IF p <= m THEN p ELSE m
           places == {i \in DOMAIN pool : Near(pool[i]) >= Floor}
<1>11. q \in 0..p /\ q \in Nat /\ p \in Nat /\ m \in Nat
  BY <1>4, <1>8, <1>10
<1>12. places \cap (1..Len(pool)) = 1..q
  <2>1. DOMAIN pool = 1..p
    BY <1>10
  <2>2. \A i \in 1..p : i \in 1..N /\ (Near(pool[i]) >= Floor <=> i <= m)
    <3> SUFFICES ASSUME NEW i \in 1..p
                 PROVE  i \in 1..N /\ (Near(pool[i]) >= Floor <=> i <= m)
      OBVIOUS
    <3>1. i \in 1..N
      BY <1>4, <1>11
    <3>2. pool[i] = R[i]
      BY <1>10
    <3> QED BY <1>8, <3>1, <3>2
  <2> QED BY <1>10, <1>11, <2>1, <2>2
<1> HIDE DEF places
<1>13. Kept(pool, places) = SubSeq(pool, 1, q)
  BY <1>10, <1>11, <1>12, KeptPrefix
<1> DEFINE few == SubSeq(pool, 1, q)
<1>14. few \in Seq(E) /\ Len(few) = q /\ \A i \in 1..q : few[i] = R[i]
  <2>1. \A i \in 1..q : pool[i] \in E /\ pool[i] = R[i] /\ 1 + i - 1 = i
    BY <1>10, <1>11
  <2> QED BY <1>11, <2>1, SubSeqProperties
<1> HIDE DEF few, q
<1>15. PICK l \in 0..q : /\ l = IF k <= q THEN k ELSE q
                         /\ FirstOf(few, k) \in Seq(E) /\ Len(FirstOf(few, k)) = l
                         /\ \A i \in 1..l : FirstOf(few, k)[i] = few[i]
  BY ZenonT(30), <1>5, <1>14, FirstOfIs
<1>16. l \in Nat /\ l = IF k <= m THEN k ELSE m
  BY SMTT(30), <1>4, <1>5, <1>6, <1>8, <1>10, <1>11, <1>15 DEF q
<1>17. AboveFloor(pool) = FirstOf(few, k)
  BY <1>13 DEF AboveFloor, places, few
<1>18. FirstOf(few, k) = SubSeq(R, 1, l)
  <2>1. \A i \in 1..l : R[i] \in E /\ 1 + i - 1 = i /\ i \in 1..q
    BY <1>4, <1>8, <1>11, <1>15
  <2>2. SubSeq(R, 1, l) \in Seq(E) /\ Len(SubSeq(R, 1, l)) = l
        /\ \A i \in 1..l : SubSeq(R, 1, l)[i] = R[i]
    BY <1>16, <2>1, SubSeqProperties
  <2> QED BY <1>14, <1>15, <2>1, <2>2, SeqEqual
<1>19. BestOf(SubSeq(R, 1, l), [c \in near |-> score[c]], k)
  <2>1. BestOf(SubSeq(R, 1, l), [c \in {R[i] : i \in 1..m} |-> score[c]], k)
    BY <1>1, <1>3, <1>5, <1>8, <1>16, BestFirst DEF N
  <2> HIDE DEF near
  <2> QED BY <1>9, <2>1
<1>20. [c \in near |-> score[c]] = [c \in near |-> Near(c)]
  BY <1>1
<1>21. AboveFloor(pool) \in Seq(Rows)
  BY <1>15, <1>17, SeqMonotonic
<1>22. pool = <<>> => E = {}
  <2> SUFFICES ASSUME pool = <<>> PROVE E = {}
    OBVIOUS
  <2>1. p = 0
    BY <1>10
  <2>2. N = 0
    BY <1>4, <1>5, <1>6, <1>10, <2>1
  <2> QED BY <1>4, <2>2
<1>23. E = {} => pool = <<>>
  BY <1>10, EmptySeq
<1>24. BestOf(AboveFloor(pool), [c \in near |-> Near(c)], k)
  BY <1>17, <1>18, <1>19, <1>20
<1> QED BY <1>21, <1>22, <1>23, <1>24 DEF pool, R, score

(* One citation of every place, and no other.                              *)
LEMMA CitesAll ==
  ASSUME NEW chunks \in Seq(Rows)
  PROVE  /\ IsInjective(Citations(chunks))
         /\ Range(Citations(chunks)) = {Row[chunks[i]].place : i \in DOMAIN chunks}
         /\ Citations(chunks) = <<>> <=> chunks = <<>>
<1> DEFINE place(i) == Row[chunks[i]].place
           new == {i \in DOMAIN chunks : \A j \in 1..(i - 1) : place(j) # place(i)}
           V == {place(i) : i \in DOMAIN chunks}
           s == [i \in DOMAIN chunks |-> place(i)]
           c == Kept(s, new)
<1>1. DOMAIN chunks = 1..Len(chunks) /\ Len(chunks) \in Nat
  OBVIOUS
<1>2. s \in Seq(V) /\ Len(s) = Len(chunks) /\ \A i \in 1..Len(s) : s[i] = place(i)
  BY <1>1
<1>3. Citations(chunks) = c
  BY DEF Citations
<1>4. new \cap (1..Len(s)) = new
  BY <1>1, <1>2
<1> HIDE DEF s
<1>5. c \in Seq(V)
  BY <1>2, KeptEnum
<1>6. {c[i] : i \in 1..Len(c)} = {s[k] : k \in new}
  <2>1. {c[i] : i \in 1..Len(c)} = {s[k] : k \in new \cap (1..Len(s))}
    <3> HIDE DEF new
    <3> QED BY <1>2, KeptRange
  <2> HIDE DEF new, c
  <2> QED BY <1>4, <2>1
<1>7. \A j, k \in new : s[j] = s[k] => j = k
  <2> SUFFICES ASSUME NEW j \in new, NEW k \in new, s[j] = s[k] PROVE j = k
    OBVIOUS
  <2>1. j \in Nat /\ k \in Nat /\ j >= 1 /\ k >= 1 /\ place(j) = place(k)
    BY <1>1, <1>2
  <2>2. ~(j < k)
    BY <2>1
  <2>3. ~(k < j)
    BY <2>1
  <2> QED BY <2>1, <2>2, <2>3
<1>8. {s[k] : k \in new} = V
  <2>1. ASSUME NEW i \in DOMAIN chunks PROVE \E k \in new : s[k] = place(i)
    <3> DEFINE T == {j \in DOMAIN chunks : place(j) = place(i)}
    <3>1. T \in SUBSET Nat /\ T # {}
      BY <1>1, <2>1
    <3>2. PICK k \in T : \A j \in T : k <= j
      BY <3>1, Least
    <3>3. \A j \in 1..(k - 1) : j \in DOMAIN chunks /\ j < k
      BY <1>1, <3>2
    <3>4. k \in new
      BY <1>1, <3>2, <3>3
    <3> QED BY <1>1, <1>2, <3>2, <3>4
  <2>2. \A k \in new : s[k] \in V
    BY <1>1, <1>2
  <2>3. \A v \in V : \E k \in new : s[k] = v
    BY <2>1
  <2> HIDE DEF new, V
  <2> QED BY <2>2, <2>3
<1> HIDE DEF c
<1>9. DOMAIN c = 1..Len(c) /\ Len(c) \in Nat
  BY <1>5
<1>10. IsInjective(c)
  <2>1. \A i, j \in 1..Len(c) : c[i] = c[j] => i = j
    <3> HIDE DEF new
    <3> QED BY SMTT(30), <1>2, <1>4, <1>7, KeptApart DEF c
  <2> QED BY <1>9, <2>1 DEF IsInjective
<1>11. Range(c) = V
  BY <1>6, <1>8, <1>9 DEF Range
<1>12. c = <<>> <=> chunks = <<>>
  <2>1. \A i \in DOMAIN chunks : place(i) \in V
    OBVIOUS
  <2>2. \A v \in V : \E i \in DOMAIN c : c[i] = v
    <3> HIDE DEF V
    <3> QED BY <1>11 DEF Range
  <2>3. \A i \in DOMAIN c : \E j \in DOMAIN chunks : c[i] = place(j)
    BY <1>11 DEF Range
  <2>0. ASSUME NEW n \in Nat PROVE 1..n = {} <=> n = 0
    <3>1. n # 0 => 1 \in 1..n
      OBVIOUS
    <3> QED BY <3>1
  <2>4. c = <<>> <=> DOMAIN c = {}
    <3>1. c = <<>> <=> Len(c) = 0
      BY <1>5, EmptySeq
    <3> QED BY <1>9, <2>0, <3>1
  <2>5. chunks = <<>> <=> DOMAIN chunks = {}
    <3>1. chunks = <<>> <=> Len(chunks) = 0
      BY EmptySeq
    <3> QED BY <1>1, <2>0, <3>1
  <2> HIDE DEF V, place
  <2> QED BY <2>1, <2>2, <2>3, <2>4, <2>5
<1> QED BY <1>3, <1>10, <1>11, <1>12

-------------------------------------------------------------------------------
(* What a question was given and what its answer rests on.  The invariant  *)
(* adds what each place on the way implies of the mode, the chunks and     *)
(* the citations (Way), and that the store as it is stays among those seen *)
(* as long as there is something to read (Stores).                         *)
Reading == {"embed", "memory", "vector", "words"}

RunTyped(r) ==
  /\ r.pc \in Works \cup {"new", "done", "lost"}
  /\ r.vector \in BOOLEAN /\ r.broken \in BOOLEAN
  /\ r.mode \in Modes \cup {Nothing}
  /\ r.why \in {Nothing, "VECTOR_DATA_UNAVAILABLE", "VECTOR_QUERY_FAILED"} \cup NoEmbedding
  /\ r.chunks \in Seq(Rows)
  /\ r.ready \in BOOLEAN \cup {Nothing}
  /\ r.result \in Answers \cup {Nothing}
  /\ r.audit \in {Nothing, "running", "succeeded", "failed"}
  /\ r.told \in Answers \cup Codes \cup {Nothing}
  /\ r.pc = "done" => r.told \in Answers \cup Codes
  /\ r.pc # "new" => r.audit # Nothing

(* Every place of the chunks is cited once, and nothing else.              *)
Cites(r) ==
  /\ IsInjective(r.citations)
  /\ Range(r.citations) = {Row[r.chunks[i]].place : i \in DOMAIN r.chunks}

(* AnswersGrounded, of a result.                                           *)
Rests(r, res, k) ==
  /\ res = "answer" =>
       /\ r.mode \in {"vector", "words"} /\ r.ready = TRUE
       /\ r.chunks # << >> /\ Len(r.chunks) <= k /\ Cites(r)
  /\ res = "memory" => r.mode = "memory" /\ r.vector
  /\ res \in Answers \ {"answer"} => r.citations = << >>
  /\ res = "insufficient" => r.chunks = << >> \/ r.ready = FALSE \/ r.mode = "conversation"

Way(r, q) ==
  /\ r.pc \in Reading \cup {"new"} =>
       r.mode = Nothing /\ r.chunks = << >> /\ r.citations = << >>
  /\ r.pc = "vector" => r.vector /\ q.postgres
  /\ r.pc = "recall" => r.mode = "conversation" /\ r.chunks = << >> /\ r.citations = << >>
  /\ r.pc \in {"judge", "generate"} =>
       r.mode \in {"vector", "words"} /\ r.chunks # << >> /\ Len(r.chunks) <= q.k /\ Cites(r)
  /\ r.pc = "generate" => r.ready = TRUE
  /\ r.pc \in {"audit", "return"} => Rests(r, r.result, q.k)
  /\ r.told \in Answers => Rests(r, r.told, q.k)

(* Why a question is searched by words.                                    *)
WordsOnly ==
  \/ ~run.vector \/ ~ask.postgres \/ "vector" \in run.faults
  \/ \E store \in seen : Embedded(store) = {}

Stores ==
  /\ run.pc \in Reading => Stored \in seen
  /\ run.pc = "words" => WordsOnly

Course ==
  /\ edition \in [Sources -> Nat] /\ (\A s \in Sources : edition[s] \in 1..Len(Editions[s]))
  /\ ask \in Questions
  /\ RunTyped(run) /\ Way(run, ask) /\ Stores /\ RetrievedFromOneStore

(* The rows of a store.                                                    *)
LEMMA StoredRows ==
  ASSUME Course
  PROVE  Stored \in SUBSET Rows
<1>1. ASSUME NEW s \in Sources PROVE Editions[s][edition[s]] \in SUBSET Rows
  BY EditionsAssumption DEF Course
<1> QED BY <1>1 DEF Stored

(* The question stays, and with it which rows match it and how well.       *)
LEMMA AskKeeps ==
  ASSUME ask' = ask, NEW rows
  PROVE  /\ Embedded(rows)' = Embedded(rows) /\ WithWords(rows)' = WithWords(rows)
         /\ \A c : Words(c)' = Words(c) /\ Near(c)' = Near(c)
<1>1. Matching(rows)' = Matching(rows) /\ \A c : Words(c)' = Words(c)
  BY DEF Matching, AllowedKinds, Words
<1> QED BY <1>1 DEF Embedded, WithWords, Near

LEMMA RetrievedKeeps ==
  ASSUME RetrievedFromOneStore, ask' = ask, seen \subseteq seen', run'.mode = run.mode,
         run'.chunks = run.chunks, run'.vector = run.vector, run.faults \subseteq run'.faults
  PROVE  RetrievedFromOneStore'
<1>1. \A store : Embedded(store)' = Embedded(store) /\ WithWords(store)' = WithWords(store)
  BY AskKeeps
<1>2. \A c : Words(c)' = Words(c) /\ Near(c)' = Near(c)
  BY AskKeeps
<1>3. ASSUME run'.mode = "vector"
      PROVE  \E store \in seen' :
               /\ Embedded(store)' # {}
               /\ LET near == {c \in Embedded(store)' : Near(c)' >= Floor}
                  IN BestOf(run'.chunks, [c \in near |-> Near(c)'], ask'.k)
  <2>1. PICK store \in seen :
          /\ Embedded(store) # {}
          /\ LET near == {c \in Embedded(store) : Near(c) >= Floor}
             IN BestOf(run.chunks, [c \in near |-> Near(c)], ask.k)
    BY <1>3 DEF RetrievedFromOneStore
  <2> QED BY <1>1, <1>2, <2>1
<1>4. ASSUME run'.mode = "words"
      PROVE  /\ \E store \in seen' : BestOf(run'.chunks, [c \in WithWords(store)' |-> Words(c)'], ask'.k)
             /\ \/ ~run'.vector \/ ~ask'.postgres \/ "vector" \in run'.faults
                \/ \E store \in seen' : Embedded(store)' = {}
  <2>1. PICK store \in seen : BestOf(run.chunks, [c \in WithWords(store) |-> Words(c)], ask.k)
    BY <1>4 DEF RetrievedFromOneStore
  <2>2. \/ ~run.vector \/ ~ask.postgres \/ "vector" \in run.faults
        \/ \E other \in seen : Embedded(other) = {}
    BY <1>4 DEF RetrievedFromOneStore
  <2>3. \/ ~run'.vector \/ ~ask'.postgres \/ "vector" \in run'.faults
        \/ \E other \in seen' : Embedded(other)' = {}
    BY <1>1, <2>2
  <2>4. BestOf(run'.chunks, [c \in WithWords(store)' |-> Words(c)'], ask'.k)
    BY <1>1, <1>2, <2>1
  <2> QED BY <2>1, <2>3, <2>4
<1> QED BY <1>3, <1>4 DEF RetrievedFromOneStore

(* A step of the question itself: the rest stays.                          *)
Own == edition' = edition /\ ask' = ask /\ seen' = seen

LEMMA OwnKeeps ==
  ASSUME Course, Own, RunTyped(run'), Way(run', ask), run'.pc = "words" => WordsOnly',
         run'.pc \in Reading => run.pc \in Reading, RetrievedFromOneStore'
  PROVE  Course'
<1>1. Stored' = Stored
  BY DEF Own, Stored
<1>2. Stores'
  BY <1>1 DEF Course, Stores, Own
<1> QED BY <1>2 DEF Course, Own

(* A step that reads nothing.                                              *)
LEMMA MoveKeepsCourse ==
  ASSUME Course, Own, RunTyped(run'), Way(run', ask), run'.pc \notin Reading,
         run'.mode = run.mode \/ run'.mode \notin {"vector", "words"},
         run'.chunks = run.chunks, run'.vector = run.vector, run.faults \subseteq run'.faults
  PROVE  Course'
<1>1. CASE run'.mode = run.mode
  BY <1>1, OwnKeeps, RetrievedKeeps DEF Course, Own, Reading
<1>2. CASE run'.mode \notin {"vector", "words"}
  <2>1. RetrievedFromOneStore'
    BY <1>2 DEF RetrievedFromOneStore
  <2> QED BY <2>1, OwnKeeps DEF Reading
<1> QED BY <1>1, <1>2

(* A failure.                                                              *)
LEMMA FailKeepsCourse ==
  ASSUME QAInv, Course, Own, run.pc \in Works, NEW code \in Codes, NEW cause, Fail(code, cause)
  PROVE  Course'
<1>1. PICK mark \in {"failed", run.audit} :
        run' = [run EXCEPT !.pc = "done", !.told = code, !.audit = mark,
                           !.faults = @ \cup {cause}]
  BY DEF Fail
<1>2. /\ run'.pc = "done" /\ run'.told = code /\ run'.audit = mark
      /\ run'.vector = run.vector /\ run'.broken = run.broken /\ run'.mode = run.mode
      /\ run'.why = run.why /\ run'.chunks = run.chunks /\ run'.ready = run.ready
      /\ run'.result = run.result /\ run.faults \subseteq run'.faults
  BY <1>1 DEF QAInv, Record
<1>3. run.pc # "new" /\ code \notin Answers
  BY DEF Works, Codes, Answers
<1>4. RunTyped(run')
  <2>1. RunTyped(run)
    BY DEF Course
  <2>2. mark # Nothing /\ mark \in {Nothing, "running", "succeeded", "failed"}
    BY <1>3, <2>1, NothingAssumption DEF RunTyped, NothingApart
  <2> QED BY <1>2, <2>1, <2>2 DEF RunTyped
<1>5. Way(run', ask)
  BY <1>2, <1>3 DEF Way, Reading
<1> QED BY <1>2, <1>4, <1>5, MoveKeepsCourse DEF Reading

(* A result.                                                               *)
LEMMA ConcludeKeepsCourse ==
  ASSUME QAInv, Course, Own, run.pc \in Works, run.told = Nothing,
         NEW x, Record(x), NEW res \in Answers, run' = Conclude(x, res),
         x.vector = run.vector, x.broken = run.broken, x.why = run.why, x.chunks = run.chunks,
         x.audit = run.audit, x.told = run.told, run.faults \subseteq x.faults,
         x.ready \in BOOLEAN \cup {Nothing}, x.mode \in Modes \cup {Nothing},
         x.mode = run.mode \/ x.mode \notin {"vector", "words"},
         Rests(x, res, ask.k)
  PROVE  Course'
<1>1. /\ run'.pc = "audit" /\ run'.result = res /\ run'.vector = x.vector
      /\ run'.broken = x.broken /\ run'.mode = x.mode /\ run'.why = x.why
      /\ run'.chunks = x.chunks /\ run'.citations = x.citations /\ run'.ready = x.ready
      /\ run'.faults = x.faults /\ run'.audit = x.audit /\ run'.told = x.told
  BY DEF Conclude, Record
<1>2. run.pc # "new"
  BY DEF Works
<1>3. RunTyped(run')
  <2>1. RunTyped(run) /\ "audit" \in Works
    BY DEF Course, Works
  <2>2. /\ run'.vector = run.vector /\ run'.broken = run.broken /\ run'.why = run.why
        /\ run'.chunks = run.chunks /\ run'.audit = run.audit /\ run'.told = run.told
        /\ run'.ready \in BOOLEAN \cup {Nothing} /\ run'.mode \in Modes \cup {Nothing}
        /\ run'.result \in Answers \cup {Nothing} /\ run'.pc = "audit"
    BY <1>1
  <2> QED BY <1>2, <2>1, <2>2 DEF RunTyped
<1>4. Nothing \notin Answers
  BY NothingAssumption DEF NothingApart
<1>5. Rests(run', res, ask.k)
  BY <1>1 DEF Rests, Cites
<1>6. Way(run', ask)
  BY <1>1, <1>4, <1>5 DEF Way, Reading
<1> QED BY <1>1, <1>3, <1>6, MoveKeepsCourse DEF Reading

(* What is read is cited; nothing read is an answer of its own.            *)
LEMMA FoundKeepsCourse ==
  ASSUME QAInv, Course, Own, run.pc \in {"vector", "words"}, run.told = Nothing,
         NEW how \in {"vector", "words"},
         NEW why \in {Nothing, "VECTOR_DATA_UNAVAILABLE", "VECTOR_QUERY_FAILED"} \cup NoEmbedding,
         NEW chunks \in Seq(Rows), Len(chunks) <= ask.k, Found(how, why, chunks),
         run'.mode = how /\ run'.chunks = chunks /\ run'.vector = run.vector
         /\ run'.faults = run.faults => RetrievedFromOneStore'
  PROVE  Course'
<1>1. PICK x : x = [run EXCEPT !.mode = how, !.why = why, !.chunks = chunks,
                               !.citations = Citations(chunks)]
  OBVIOUS
<1>2. /\ Record(x) /\ x.mode = how /\ x.why = why /\ x.chunks = chunks
      /\ x.citations = Citations(chunks) /\ x.vector = run.vector /\ x.broken = run.broken
      /\ x.ready = run.ready /\ x.result = run.result /\ x.audit = run.audit
      /\ x.told = run.told /\ x.faults = run.faults
  BY <1>1 DEF QAInv, Record
<1>3. Cites(x) /\ (Citations(chunks) = <<>> <=> chunks = <<>>)
  BY <1>2, CitesAll DEF Cites
<1>4. Nothing \notin Answers
  BY NothingAssumption DEF NothingApart
<1>5. run' = IF x.citations = << >> THEN Conclude(x, "insufficient") ELSE [x EXCEPT !.pc = "judge"]
  BY <1>1 DEF Found
<1>6. /\ run'.mode = how /\ run'.why = why /\ run'.chunks = chunks /\ run'.citations = x.citations
      /\ run'.vector = run.vector /\ run'.broken = run.broken
      /\ run'.ready = run.ready /\ run'.audit = run.audit
      /\ run'.told = run.told /\ run'.faults = run.faults
      /\ run'.pc = (IF x.citations = << >> THEN "audit" ELSE "judge")
      /\ run'.result = (IF x.citations = << >> THEN "insufficient" ELSE run.result)
  BY <1>2, <1>5 DEF Conclude, Record
<1>7. RunTyped(run')
  <2>1. RunTyped(run) /\ {"audit", "judge"} \subseteq Works /\ "insufficient" \in Answers /\ how \in Modes
    BY DEF Course, Works, Answers, Modes
  <2>2. run'.pc \in Works /\ run'.pc \notin {"new", "done"} /\ run'.result \in Answers \cup {Nothing}
    BY <1>6, <2>1 DEF RunTyped
  <2>3. run.pc # "new"
    OBVIOUS
  <2> QED BY <1>6, <2>1, <2>2, <2>3 DEF RunTyped
<1>8. Way(run', ask)
  <2>1. CASE x.citations = <<>>
    <3>1. Rests(run', "insufficient", ask.k)
      BY <1>2, <1>3, <1>6, <2>1 DEF Rests
    <3> QED BY <1>4, <1>6, <2>1, <3>1 DEF Way, Reading
  <2>2. CASE x.citations # <<>>
    <3>1. Cites(run')
      BY <1>2, <1>3, <1>6 DEF Cites
    <3> QED BY <1>2, <1>3, <1>4, <1>6, <2>2, <3>1 DEF Way, Reading
  <2> QED BY <2>1, <2>2
<1> QED BY <1>6, <1>7, <1>8, OwnKeeps DEF Reading

(* The best k are no more than k.                                          *)
LEMMA BestFew ==
  ASSUME ask \in Questions, NEW E \in SUBSET Rows, NEW score, DOMAIN score \subseteq E,
         NEW s, BestOf(s, score, ask.k)
  PROVE  Len(s) <= ask.k
<1>1. IsFiniteSet(DOMAIN score) /\ ask.k \in Nat
  <2>1. IsFiniteSet(E)
    BY IdsAssumption, FS_Subset
  <2> QED BY <2>1, FS_Subset, QuestionsAssumption
<1>2. Cardinality(DOMAIN score) \in Nat
  BY <1>1, FS_CardinalityType
<1> QED BY <1>1, <1>2, LesserOf DEF BestOf

(* Embedding the question and searching the memories.                      *)
LEMMA EmbedKeepsCourse ==
  ASSUME QAInv, Course, Embed
  PROVE  Course'
<1>1. Own /\ run.pc = "embed"
  BY DEF Embed, Own
<1>2. /\ run'.pc = "memory" /\ run'.vector \in BOOLEAN
      /\ run'.why \in {Nothing, "VECTOR_DATA_UNAVAILABLE", "VECTOR_QUERY_FAILED"} \cup NoEmbedding
      /\ run'.broken = run.broken /\ run'.mode = run.mode /\ run'.chunks = run.chunks
      /\ run'.citations = run.citations /\ run'.ready = run.ready /\ run'.result = run.result
      /\ run'.audit = run.audit /\ run'.told = run.told
  <2>1. CASE run' = [run EXCEPT !.vector = TRUE, !.pc = "memory"]
    BY <2>1 DEF QAInv, Record, Course, RunTyped
  <2>2. ASSUME NEW why \in NoEmbedding,
               run' = [run EXCEPT !.why = why, !.pc = "memory", !.faults = @ \cup {"embedding"}]
        PROVE  /\ run'.pc = "memory" /\ run'.vector = run.vector
               /\ run'.why = why
               /\ run'.broken = run.broken /\ run'.mode = run.mode /\ run'.chunks = run.chunks
               /\ run'.citations = run.citations /\ run'.ready = run.ready
               /\ run'.result = run.result /\ run'.audit = run.audit /\ run'.told = run.told
    BY <2>2 DEF QAInv, Record
  <2>3. run.vector \in BOOLEAN
    BY DEF Course, RunTyped
  <2> QED BY <2>1, <2>2, <2>3 DEF Embed
<1>3. Nothing \notin Answers /\ Nothing \notin Modes
  BY NothingAssumption DEF NothingApart
<1>4. RunTyped(run')
  <2>1. RunTyped(run) /\ "memory" \in Works
    BY DEF Course, Works
  <2> QED BY <1>1, <1>2, <2>1 DEF RunTyped
<1>5. run.mode = Nothing /\ run.told = Nothing
  BY <1>1 DEF Course, Way, Reading, QAInv, Fits
<1>6. Way(run', ask)
  BY <1>1, <1>2, <1>3, <1>5 DEF Course, Way, Reading
<1>7. RetrievedFromOneStore'
  BY <1>2, <1>3, <1>5 DEF RetrievedFromOneStore, Modes
<1> QED BY <1>1, <1>2, <1>4, <1>6, <1>7, OwnKeeps DEF Reading

LEMMA SearchSavedKeepsCourse ==
  ASSUME QAInv, Course, SearchSaved
  PROVE  Course'
<1>1. Own /\ run.pc = "memory"
  BY DEF SearchSaved, Own
<1>2. run.mode = Nothing /\ run.told = Nothing /\ run.chunks = <<>> /\ run.citations = <<>>
  BY <1>1 DEF Course, Way, Reading, QAInv, Fits
<1>3. Nothing \notin Answers /\ Nothing \notin Modes
  BY NothingAssumption DEF NothingApart
<1>4. CASE SearchesMemory /\ run' = Conclude([run EXCEPT !.mode = "memory"], "memory")
  <2>1. PICK x : x = [run EXCEPT !.mode = "memory"]
    OBVIOUS
  <2>2. /\ Record(x) /\ x.mode = "memory" /\ x.why = run.why /\ x.chunks = run.chunks
        /\ x.citations = run.citations /\ x.vector = run.vector /\ x.broken = run.broken
        /\ x.ready = run.ready /\ x.audit = run.audit
        /\ x.told = run.told /\ x.faults = run.faults
    BY <2>1 DEF QAInv, Record
  <2>3. Rests(x, "memory", ask.k)
    BY <1>2, <1>4, <2>2 DEF Rests, SearchesMemory
  <2>4. x.ready \in BOOLEAN \cup {Nothing} /\ "memory" \in Modes /\ "memory" \in Answers
        /\ run.pc \in Works
    BY <1>1, <2>2 DEF Course, RunTyped, Modes, Answers, Works
  <2>5. run' = Conclude(x, "memory")
    BY <1>4, <2>1
  <2> QED BY <1>1, <1>2, <2>2, <2>3, <2>4, <2>5, ConcludeKeepsCourse
<1>5. ASSUME NEW faults, run.faults \subseteq faults,
             run' = [run EXCEPT !.pc = ReadChunks, !.faults = faults]
      PROVE  Course'
  <2>1. PICK place : place = ReadChunks
    OBVIOUS
  <2>2. run' = [run EXCEPT !.pc = place, !.faults = faults]
    BY <1>5, <2>1
  <2>3. /\ run'.pc = place /\ run'.vector = run.vector /\ run'.why = run.why
        /\ run'.broken = run.broken /\ run'.mode = run.mode /\ run'.chunks = run.chunks
        /\ run'.citations = run.citations /\ run'.ready = run.ready /\ run'.result = run.result
        /\ run'.audit = run.audit /\ run'.told = run.told
    BY <2>2 DEF QAInv, Record
  <2>4. /\ place \in {"vector", "words"}
        /\ place = "vector" => run.vector /\ ask.postgres
        /\ place = "words" => ~run.vector \/ ~ask.postgres
    BY <2>1 DEF ReadChunks
  <2>5. RunTyped(run')
    <3>1. RunTyped(run) /\ place \in Works /\ place \notin {"new", "done"}
      BY <2>4 DEF Course, Works
    <3> QED BY <1>1, <2>3, <3>1 DEF RunTyped
  <2>6. Way(run', ask)
    BY <1>2, <1>3, <2>3, <2>4 DEF Way, Reading
  <2>7. RetrievedFromOneStore'
    BY <1>2, <1>3, <2>3 DEF RetrievedFromOneStore, Modes
  <2>8. run'.pc = "words" => WordsOnly'
    BY <1>1, <2>3, <2>4 DEF WordsOnly, Own
  <2> QED BY <1>1, <2>3, <2>4, <2>5, <2>6, <2>7, <2>8, OwnKeeps DEF Reading
<1>6. CASE run' = [run EXCEPT !.pc = ReadChunks]
  <2>1. run' = [run EXCEPT !.pc = ReadChunks, !.faults = run.faults]
    BY <1>6 DEF QAInv, Record
  <2> QED BY <1>5, <2>1
<1>7. CASE run' = [run EXCEPT !.pc = ReadChunks, !.faults = @ \cup {"memory"}]
  <2>1. run' = [run EXCEPT !.pc = ReadChunks, !.faults = run.faults \cup {"memory"}]
    BY <1>7
  <2> QED BY <1>5, <2>1
<1> QED BY <1>4, <1>6, <1>7 DEF SearchSaved, Goto

(* Going on to the words.                                                  *)
LEMMA ToWordsKeepsCourse ==
  ASSUME QAInv, Course, Own, run.pc = "vector",
         NEW why \in {"VECTOR_DATA_UNAVAILABLE", "VECTOR_QUERY_FAILED"},
         NEW broken \in BOOLEAN, NEW faults, run.faults \subseteq faults,
         run' = [run EXCEPT !.pc = "words", !.why = why, !.broken = broken, !.faults = faults],
         "vector" \in faults \/ \E store \in seen : Embedded(store) = {}
  PROVE  Course'
<1>1. /\ run'.pc = "words" /\ run'.vector = run.vector /\ run'.why = why
      /\ run'.broken = broken /\ run'.mode = run.mode /\ run'.chunks = run.chunks
      /\ run'.citations = run.citations /\ run'.ready = run.ready /\ run'.result = run.result
      /\ run'.audit = run.audit /\ run'.told = run.told /\ run'.faults = faults
  BY DEF QAInv, Record
<1>2. run.mode = Nothing /\ run.told = Nothing /\ run.chunks = <<>> /\ run.citations = <<>>
  BY DEF Course, Way, Reading, QAInv, Fits
<1>3. Nothing \notin Answers /\ Nothing \notin Modes
  BY NothingAssumption DEF NothingApart
<1>4. RunTyped(run')
  <2>1. RunTyped(run) /\ "words" \in Works
    BY DEF Course, Works
  <2> QED BY <1>1, <2>1 DEF RunTyped
<1>5. Way(run', ask)
  BY <1>1, <1>2, <1>3 DEF Way, Reading
<1>6. RetrievedFromOneStore'
  BY <1>1, <1>2, <1>3 DEF RetrievedFromOneStore, Modes
<1>7. WordsOnly'
  <2>1. CASE "vector" \in faults
    BY <1>1, <2>1 DEF WordsOnly
  <2>2. CASE \E store \in seen : Embedded(store) = {}
    <3>1. PICK store \in seen : Embedded(store) = {}
      BY <2>2
    <3>2. Embedded(store)' = {} /\ store \in seen'
      BY <3>1, AskKeeps DEF Own
    <3> QED BY <3>2 DEF WordsOnly
  <2> QED BY <2>1, <2>2
<1> QED BY <1>1, <1>4, <1>5, <1>6, <1>7, OwnKeeps DEF Reading

LEMMA VectorKeepsCourse ==
  ASSUME QAInv, Course, ReadByVector \/ VectorFails
  PROVE  Course'
<1>1. Own /\ run.pc = "vector"
  BY DEF ReadByVector, VectorFails, Own
<1>2. Stored \in seen /\ run.told = Nothing
  BY <1>1 DEF Course, Stores, Reading, QAInv, Fits
<1>3. CASE VectorFails
  <2>1. PICK broken \in BOOLEAN :
          run' = [run EXCEPT !.pc = "words", !.why = "VECTOR_QUERY_FAILED", !.broken = broken,
                             !.faults = @ \cup {"vector"}]
    BY <1>3 DEF VectorFails
  <2>2. PICK faults : faults = run.faults \cup {"vector"}
    OBVIOUS
  <2>3. run' = [run EXCEPT !.pc = "words", !.why = "VECTOR_QUERY_FAILED", !.broken = broken,
                           !.faults = faults]
    BY <2>1, <2>2
  <2>4. "vector" \in faults /\ run.faults \subseteq faults
    BY <2>2
  <2> QED BY <1>1, <2>3, <2>4, ToWordsKeepsCourse
<1>4. CASE ReadByVector
  <2> DEFINE E == Embedded(Stored)
             near == {c \in E : Near(c) >= Floor}
  <2>1. E \in SUBSET Rows /\ \A c \in E : Near(c) # Nothing
    BY StoredRows DEF Embedded, Matching, Near
  <2>2. ask \in Questions
    BY DEF Course
  <2>3. /\ AboveFloor(Pool) \in Seq(Rows)
        /\ BestOf(AboveFloor(Pool), [c \in near |-> Near(c)], ask.k)
        /\ Pool = <<>> <=> E = {}
    <3> HIDE DEF E
    <3>1. Pool = FirstOf(Ranked([c \in E |-> Near(c)]), PoolSize(ask.k))
      BY DEF Pool, E
    <3> QED BY <2>1, <2>2, <3>1, FloorBest
  <2>4. CASE FallsBack(Pool)
    <3>1. run' = [run EXCEPT !.pc = "words", !.why = "VECTOR_DATA_UNAVAILABLE"]
      BY <1>4, <2>4 DEF ReadByVector
    <3>2. run' = [run EXCEPT !.pc = "words", !.why = "VECTOR_DATA_UNAVAILABLE",
                             !.broken = run.broken, !.faults = run.faults]
      BY <3>1 DEF QAInv, Record
    <3>3. \E store \in seen : Embedded(store) = {}
      BY <1>2, <2>3, <2>4 DEF FallsBack
    <3>4. run.broken \in BOOLEAN
      BY DEF Course, RunTyped
    <3> QED BY <1>1, <3>2, <3>3, <3>4, ToWordsKeepsCourse
  <2>5. CASE ~FallsBack(Pool)
    <3>1. Found("vector", Nothing, AboveFloor(Pool))
      BY <1>4, <2>5 DEF ReadByVector
    <3>2. E # {}
      BY <2>3, <2>5 DEF FallsBack
    <3>3. ASSUME run'.mode = "vector", run'.chunks = AboveFloor(Pool) PROVE RetrievedFromOneStore'
      <4>1. /\ \A rows : Embedded(rows)' = Embedded(rows)
            /\ \A c : Near(c)' = Near(c)
        BY <1>1, AskKeeps DEF Own
      <4>2. PICK store \in seen : store = Stored
        BY <1>2
      <4>3. Embedded(store) # {} /\ LET some == {c \in Embedded(store) : Near(c) >= Floor}
                                    IN BestOf(AboveFloor(Pool), [c \in some |-> Near(c)], ask.k)
        BY <2>3, <3>2, <4>2
      <4>4. Embedded(store)' # {} /\ LET some == {c \in Embedded(store)' : Near(c)' >= Floor}
                                     IN BestOf(run'.chunks, [c \in some |-> Near(c)'], ask'.k)
        BY <1>1, <3>3, <4>1, <4>3 DEF Own
      <4>5. store \in seen'
        BY <1>1 DEF Own
      <4> QED BY <3>3, <4>4, <4>5 DEF RetrievedFromOneStore
    <3>4. Len(AboveFloor(Pool)) <= ask.k
      BY <2>1, <2>2, <2>3, BestFew
    <3> QED BY <1>1, <1>2, <2>3, <3>1, <3>3, <3>4, FoundKeepsCourse
  <2> QED BY <2>4, <2>5
<1> QED BY <1>3, <1>4

LEMMA WordsKeepsCourse ==
  ASSUME QAInv, Course, ReadByWords
  PROVE  Course'
<1>1. Own /\ run.pc = "words"
  BY DEF ReadByWords, Own
<1>2. Stored \in seen /\ run.told = Nothing /\ WordsOnly /\ ask \in Questions
  BY <1>1 DEF Course, Stores, Reading, QAInv, Fits
<1> DEFINE E == WithWords(Stored)
<1>3. E \in SUBSET Rows
  BY StoredRows DEF WithWords, Matching
<1>4. ByWords \in Seq(Rows) /\ BestOf(ByWords, [c \in E |-> Words(c)], ask.k)
  <2> HIDE DEF E
  <2>1. ByWords = FirstOf(Ranked([c \in E |-> Words(c)]), ask.k)
    BY DEF ByWords, E
  <2> QED BY <1>2, <1>3, <2>1, WordsBest
<1>5. PICK why : /\ why \in {Nothing, "VECTOR_DATA_UNAVAILABLE", "VECTOR_QUERY_FAILED"} \cup NoEmbedding
                 /\ Found("words", why, ByWords)
  BY DEF ReadByWords, Course, RunTyped
<1>6. Len(ByWords) <= ask.k
  BY <1>2, <1>3, <1>4, BestFew
<1>7. ASSUME run'.mode = "words", run'.chunks = ByWords, run'.vector = run.vector,
             run'.faults = run.faults
      PROVE  RetrievedFromOneStore'
  <2>1. /\ \A rows : WithWords(rows)' = WithWords(rows) /\ Embedded(rows)' = Embedded(rows)
        /\ \A c : Words(c)' = Words(c)
    BY <1>1, AskKeeps DEF Own
  <2>2. PICK store \in seen : store = Stored
    BY <1>2
  <2>3. BestOf(ByWords, [c \in WithWords(store) |-> Words(c)], ask.k)
    BY <1>4, <2>2
  <2>4. BestOf(run'.chunks, [c \in WithWords(store)' |-> Words(c)'], ask'.k)
    BY <1>1, <1>7, <2>1, <2>3 DEF Own
  <2>5. \/ ~run'.vector \/ ~ask'.postgres \/ "vector" \in run'.faults
        \/ \E other \in seen' : Embedded(other)' = {}
    BY <1>1, <1>2, <1>7, <2>1 DEF WordsOnly, Own
  <2>6. store \in seen'
    BY <1>1 DEF Own
  <2> QED BY <1>7, <2>4, <2>5, <2>6 DEF RetrievedFromOneStore
<1> QED BY <1>1, <1>2, <1>4, <1>5, <1>6, <1>7, FoundKeepsCourse

(* The provider's verdict and its texts.                                   *)
LEMMA AnswerKeepsCourse ==
  ASSUME QAInv, Course, Judge \/ Generate \/ Recall
  PROVE  Course'
<1>1. Own /\ run.pc \in {"judge", "generate", "recall"} /\ run.pc \in Works
  BY DEF Judge, Generate, Recall, Own, Works
<1>2. run.told = Nothing /\ RunTyped(run) /\ Way(run, ask) /\ Record(run)
  BY <1>1 DEF Course, QAInv, Fits
<1>3. run.mode = run.mode /\ run.ready \in BOOLEAN \cup {Nothing} /\ run.mode \in Modes \cup {Nothing}
  BY <1>2 DEF RunTyped
<1>4. ASSUME NEW res \in Answers, Rests(run, res, ask.k), run' = Conclude(run, res)
      PROVE  Course'
  BY <1>1, <1>2, <1>3, <1>4, ConcludeKeepsCourse
<1>5. ASSUME NEW text, Fail("LLM_OUTPUT_INVALID", text) PROVE Course'
  BY <1>1, <1>5, FailKeepsCourse DEF Codes
<1>6. CASE Judge
  <2>1. CASE run' = [run EXCEPT !.ready = TRUE, !.pc = "generate"]
    <3>1. /\ run'.pc = "generate" /\ run'.ready = TRUE /\ run'.vector = run.vector
          /\ run'.why = run.why /\ run'.broken = run.broken /\ run'.mode = run.mode
          /\ run'.chunks = run.chunks /\ run'.citations = run.citations
          /\ run'.result = run.result /\ run'.audit = run.audit /\ run'.told = run.told
          /\ run'.faults = run.faults
      BY <1>2, <2>1 DEF Record
    <3>2. RunTyped(run')
      <4>1. "generate" \in Works
        BY DEF Works
      <4> QED BY <1>1, <1>2, <3>1, <4>1 DEF RunTyped
    <3>3. Cites(run') <=> Cites(run)
      BY <3>1 DEF Cites
    <3>4. run.pc = "judge"
      BY <1>6 DEF Judge
    <3>5. Nothing \notin Answers
      BY NothingAssumption DEF NothingApart
    <3>6. Way(run', ask)
      BY <1>2, <3>1, <3>3, <3>4, <3>5 DEF Way, Reading
    <3> QED BY <1>1, <3>1, <3>2, <3>6, MoveKeepsCourse DEF Reading
  <2>2. CASE run' = Conclude([run EXCEPT !.ready = FALSE, !.citations = << >>], "insufficient")
    <3>1. PICK x : x = [run EXCEPT !.ready = FALSE, !.citations = << >>]
      OBVIOUS
    <3>2. /\ Record(x) /\ x.mode = run.mode /\ x.why = run.why /\ x.chunks = run.chunks
          /\ x.citations = <<>> /\ x.vector = run.vector /\ x.broken = run.broken
          /\ x.ready = FALSE /\ x.audit = run.audit
          /\ x.told = run.told /\ x.faults = run.faults
      BY <1>2, <3>1 DEF Record
    <3>3. Rests(x, "insufficient", ask.k)
      BY <3>2 DEF Rests
    <3>4. run' = Conclude(x, "insufficient") /\ "insufficient" \in Answers
      BY <2>2, <3>1 DEF Answers
    <3> QED BY <1>1, <1>2, <1>3, <3>2, <3>3, <3>4, ConcludeKeepsCourse
  <2> QED BY <1>6, <2>1, <2>2 DEF Judge
<1>7. CASE Generate
  <2>1. run.pc = "generate"
    BY <1>7 DEF Generate
  <2>2. Rests(run, "answer", ask.k)
    BY <1>2, <2>1 DEF Way, Rests
  <2>3. "answer" \in Answers
    BY DEF Answers
  <2> QED BY <1>4, <1>5, <1>7, <2>2, <2>3 DEF Generate
<1>8. CASE Recall
  <2>1. run.pc = "recall"
    BY <1>8 DEF Recall
  <2>2. \A res \in {"recalled", "insufficient", "no_history"} : res \in Answers /\ Rests(run, res, ask.k)
    BY <1>2, <2>1 DEF Way, Rests, Answers
  <2> QED BY <1>4, <1>5, <1>8, <2>2 DEF Recall
<1> QED BY <1>6, <1>7, <1>8

(* The ends of a question.                                                 *)
LEMMA EndKeepsCourse ==
  ASSUME QAInv, Course,
         \/ PromptMissing \/ ReadFails \/ LLMFails \/ Timeout
         \/ Audit \/ AuditFails \/ Tell \/ Crash
  PROVE  Course'
<1>1. Own /\ run.pc \in Works
  BY DEF PromptMissing, ReadFails, LLMFails, Timeout, Audit, AuditFails, Tell, Crash, Goto, Own,
         Works, AsksProvider
<1>2. RunTyped(run) /\ Way(run, ask) /\ Record(run)
  BY DEF Course, QAInv
<1>3. Nothing \notin Answers /\ Answers \cap Codes = {}
  BY NothingAssumption DEF NothingApart, Answers, Codes
<1>4. CASE PromptMissing \/ ReadFails \/ LLMFails \/ Timeout
  <2>1. PICK code, cause : code \in Codes /\ Fail(code, cause)
    BY <1>4 DEF PromptMissing, ReadFails, LLMFails, Timeout, Codes
  <2> QED BY <1>1, <2>1, FailKeepsCourse
<1>5. ASSUME run'.pc \in {"return", "done", "lost"}, run'.vector = run.vector,
             run'.why = run.why, run'.broken = run.broken, run'.mode = run.mode,
             run'.chunks = run.chunks, run'.citations = run.citations, run'.ready = run.ready,
             run'.result = run.result, run'.audit \in {run.audit, "running", "succeeded"},
             run'.told \in Answers \cup Codes \cup {Nothing},
             run'.pc = "done" => run'.told \in Answers \cup Codes,
             run'.told \in Answers => run.pc = "return" /\ run'.told = run.result,
             run'.pc = "return" => run.pc = "audit",
             run.faults \subseteq run'.faults
      PROVE  Course'
  <2>1. RunTyped(run')
    <3>1. run'.pc \in Works \cup {"done", "lost"} /\ run.pc # "new" /\ run'.pc # "new"
      BY <1>1, <1>5 DEF Works
    <3>2. run'.audit \in {Nothing, "running", "succeeded", "failed"} /\ run'.audit # Nothing
      BY <1>2, <1>5, <3>1, NothingAssumption DEF RunTyped, NothingApart
    <3> QED BY <1>2, <1>5, <3>1, <3>2 DEF RunTyped
  <2>2. \A res : Rests(run', res, ask.k) <=> Rests(run, res, ask.k)
    BY <1>5 DEF Rests, Cites
  <2>3. run'.told \in Answers => Rests(run, run'.told, ask.k)
    BY <1>2, <1>5 DEF Way
  <2>4. run'.pc = "return" => Rests(run, run.result, ask.k)
    BY <1>2, <1>5 DEF Way
  <2>5. Way(run', ask)
    BY <1>5, <2>2, <2>3, <2>4 DEF Way, Reading
  <2> QED BY <1>1, <1>5, <2>1, <2>5, MoveKeepsCourse DEF Reading
<1>6. run.pc # "done" => run.told = Nothing
  BY DEF QAInv, Fits
<1>7. run.pc # "done"
  BY <1>1 DEF Works
<1>8. CASE Audit
  <2>1. /\ run.pc = "audit" /\ run'.pc = "return" /\ run'.vector = run.vector
        /\ run'.why = run.why /\ run'.broken = run.broken /\ run'.mode = run.mode
        /\ run'.chunks = run.chunks /\ run'.citations = run.citations /\ run'.ready = run.ready
        /\ run'.result = run.result /\ run'.audit = "succeeded" /\ run'.told = run.told
        /\ run'.faults = run.faults
    BY <1>2, <1>8 DEF Audit, Record
  <2> QED BY <1>3, <1>5, <1>6, <1>7, <2>1
<1>9. CASE AuditFails
  <2>1. PICK mark \in {"running", "succeeded"} :
          run' = [run EXCEPT !.pc = "done", !.told = "WORKFLOW_AUDIT_UPDATE_FAILED",
                             !.audit = mark, !.faults = @ \cup {"audit"}]
    BY <1>9 DEF AuditFails
  <2>2. /\ run'.pc = "done" /\ run'.vector = run.vector
        /\ run'.why = run.why /\ run'.broken = run.broken /\ run'.mode = run.mode
        /\ run'.chunks = run.chunks /\ run'.citations = run.citations /\ run'.ready = run.ready
        /\ run'.result = run.result /\ run'.audit = mark
        /\ run'.told = "WORKFLOW_AUDIT_UPDATE_FAILED" /\ run.faults \subseteq run'.faults
    BY <1>2, <2>1 DEF Record
  <2>3. "WORKFLOW_AUDIT_UPDATE_FAILED" \in Codes
    BY DEF Codes
  <2> QED BY <1>3, <1>5, <2>2, <2>3
<1>10. CASE Tell
  <2>1. /\ run.pc = "return" /\ run'.pc = "done" /\ run'.vector = run.vector
        /\ run'.why = run.why /\ run'.broken = run.broken /\ run'.mode = run.mode
        /\ run'.chunks = run.chunks /\ run'.citations = run.citations /\ run'.ready = run.ready
        /\ run'.result = run.result /\ run'.audit = run.audit /\ run'.told = run.result
        /\ run'.faults = run.faults
    BY <1>2, <1>10 DEF Tell, Record
  <2>2. run.result \in Answers
    BY <2>1 DEF QAInv, Fits
  <2> QED BY <1>3, <1>5, <2>1, <2>2
<1>11. CASE Crash
  <2>1. /\ run'.pc = "lost" /\ run'.vector = run.vector
        /\ run'.why = run.why /\ run'.broken = run.broken /\ run'.mode = run.mode
        /\ run'.chunks = run.chunks /\ run'.citations = run.citations /\ run'.ready = run.ready
        /\ run'.result = run.result /\ run'.audit = run.audit /\ run'.told = run.told
        /\ run'.faults = run.faults
    BY <1>2, <1>11 DEF Crash, Goto, Record
  <2> QED BY <1>3, <1>5, <1>6, <1>7, <2>1
<1> QED BY <1>4, <1>8, <1>9, <1>10, <1>11

LEMMA StartKeepsCourse ==
  ASSUME QAInv, Course, Start
  PROVE  Course'
<1>1. /\ run.pc = "new" /\ edition' = edition /\ ask' = ask /\ seen' = {Stored}
      /\ run' = [run EXCEPT !.audit = "running",
                            !.mode = IF ask.about = "conversation" THEN "conversation" ELSE Nothing,
                            !.pc = IF ask.about = "conversation" THEN "recall" ELSE "embed"]
  BY DEF Start
<1>2. /\ run'.pc = (IF ask.about = "conversation" THEN "recall" ELSE "embed")
      /\ run'.mode = (IF ask.about = "conversation" THEN "conversation" ELSE Nothing)
      /\ run'.audit = "running" /\ run'.vector = run.vector /\ run'.why = run.why
      /\ run'.broken = run.broken
      /\ run'.chunks = run.chunks /\ run'.citations = run.citations /\ run'.ready = run.ready
      /\ run'.result = run.result /\ run'.told = run.told /\ run'.faults = run.faults
  BY <1>1 DEF QAInv, Record
<1>3. Nothing \notin Answers /\ Nothing \notin Modes
  BY NothingAssumption DEF NothingApart
<1>4. run.told = Nothing /\ run.chunks = <<>> /\ run.citations = <<>>
  BY <1>1 DEF Course, Way, QAInv, Fits
<1>5. RunTyped(run')
  <2>1. RunTyped(run) /\ {"recall", "embed"} \subseteq Works /\ "conversation" \in Modes
    BY DEF Course, Works, Modes
  <2>2. "running" # Nothing
    BY NothingAssumption DEF NothingApart
  <2>3. run'.pc \in Works /\ run'.pc # "done" /\ run'.mode \in Modes \cup {Nothing}
    BY <1>2, <2>1
  <2> QED BY <1>2, <2>1, <2>2, <2>3 DEF RunTyped
<1>6. Way(run', ask)
  BY <1>2, <1>3, <1>4 DEF Way, Reading
<1>7. RetrievedFromOneStore'
  BY <1>2, <1>3 DEF RetrievedFromOneStore, Modes
<1>8. Stored' = Stored
  BY <1>1 DEF Stored
<1>9. Stores'
  BY <1>1, <1>2, <1>8 DEF Stores, Reading
<1> QED BY <1>1, <1>5, <1>6, <1>7, <1>9 DEF Course

(* A source that is stored again is another store to be seen.              *)
LEMMA ReplaceKeepsCourse ==
  ASSUME QAInv, Course, NEW s \in Sources, Replace(s)
  PROVE  Course'
<1>1. /\ edition[s] < Len(Editions[s]) /\ edition' = [edition EXCEPT ![s] = @ + 1]
      /\ seen' = IF Unread THEN seen \cup {Stored'} ELSE seen
      /\ ask' = ask /\ run' = run
  BY DEF Replace
<1>2. edition \in [Sources -> Nat] /\ \A t \in Sources : edition[t] \in 1..Len(Editions[t])
  BY DEF Course
<1>3. edition' \in [Sources -> Nat]
  BY <1>1, <1>2
<1>4. ASSUME NEW t \in Sources PROVE edition'[t] \in 1..Len(Editions[t])
  <2>1. edition'[t] = IF t = s THEN edition[s] + 1 ELSE edition[t]
    BY <1>1, <1>2
  <2>2. Len(Editions[t]) \in Nat
    BY EditionsAssumption
  <2> QED BY <1>1, <1>2, <2>1, <2>2
<1>5. seen \subseteq seen'
  BY <1>1
<1>6. RetrievedFromOneStore'
  BY <1>1, <1>5, RetrievedKeeps DEF Course
<1>7. run'.pc \in Reading => Stored' \in seen'
  BY <1>1 DEF Reading, Unread
<1>8. run'.pc = "words" => WordsOnly'
  <2> SUFFICES ASSUME run.pc = "words" PROVE WordsOnly'
    BY <1>1
  <2>1. WordsOnly
    BY DEF Course, Stores
  <2>2. ASSUME NEW store \in seen, Embedded(store) = {} PROVE store \in seen' /\ Embedded(store)' = {}
    BY <1>1, <1>5, <2>2, AskKeeps
  <2> QED BY <1>1, <2>1, <2>2 DEF WordsOnly
<1> QED BY <1>1, <1>3, <1>4, <1>6, <1>7, <1>8 DEF Course, Stores

LEMMA CourseInit == ASSUME QuestionInit PROVE Course
<1>1. edition = [s \in Sources |-> 1] /\ ask \in Questions /\ run = NewRun
  BY DEF QuestionInit
<1>2. \A s \in Sources : 1 \in 1..Len(Editions[s])
  BY EditionsAssumption, EmptySeq
<1>3. Nothing \notin Answers /\ Nothing \notin Modes
  BY NothingAssumption DEF NothingApart
<1>4. <<>> \in Seq(Rows)
  BY EmptySeq
<1>5. RunTyped(run)
  BY <1>1, <1>4 DEF RunTyped, NewRun
<1>6. Way(run, ask)
  BY <1>1, <1>3 DEF Way, NewRun, Reading
<1>7. RetrievedFromOneStore
  BY <1>1, <1>3 DEF RetrievedFromOneStore, NewRun, Modes
<1>8. Stores
  BY <1>1 DEF Stores, NewRun, Reading
<1> QED BY <1>1, <1>2, <1>5, <1>6, <1>7, <1>8 DEF Course

LEMMA CourseNext == ASSUME QAInv, Course, [QuestionNext]_questionVars PROVE Course'
<1>1. CASE UNCHANGED questionVars
  <2>1. Own /\ run' = run
    BY <1>1 DEF questionVars, Own
  <2>2. RetrievedFromOneStore'
    BY <2>1, RetrievedKeeps DEF Course, Own
  <2>3. run'.pc = "words" => WordsOnly'
    <3>1. \A rows : Embedded(rows)' = Embedded(rows)
      BY <2>1, AskKeeps DEF Own
    <3> QED BY <2>1, <3>1 DEF Course, Stores, WordsOnly, Own
  <2> QED BY <2>1, <2>2, <2>3, OwnKeeps DEF Course
<1>2. CASE \E s \in Sources : Replace(s)
  BY <1>2, ReplaceKeepsCourse
<1>3. CASE \/ PromptMissing \/ ReadFails \/ LLMFails \/ Timeout
           \/ Audit \/ AuditFails \/ Tell \/ Crash
  BY <1>3, EndKeepsCourse
<1>4. CASE Judge \/ Generate \/ Recall
  BY <1>4, AnswerKeepsCourse
<1> QED BY <1>1, <1>2, <1>3, <1>4, StartKeepsCourse, EmbedKeepsCourse, SearchSavedKeepsCourse,
           VectorKeepsCourse, WordsKeepsCourse DEF QuestionNext, Done

LEMMA QuestionInvariant == QuestionSpec => [](QAInv /\ Course)
<1>1. QuestionInit => QAInv /\ Course
  BY QAInit, CourseInit
<1>2. QAInv /\ Course /\ [QuestionNext]_questionVars => (QAInv /\ Course)'
  BY QANext, CourseNext
<1> QED BY <1>1, <1>2, PTL DEF QuestionSpec

(* A question keeps its types: a caller is told a result or an error code, *)
(* at the end and not before, and every question that begins is audited.   *)
(* (QAOrchestrator.answer_question.)                                       *)
THEOREM QuestionTyped == QuestionSpec => []QuestionTypeOK
<1>1. ASSUME QAInv, Course PROVE QuestionTypeOK
  <2>1. RunTyped(run) /\ ask \in Questions /\ \A s \in Sources : edition[s] \in 1..Len(Editions[s])
    BY <1>1 DEF Course
  <2>2. Range(run.chunks) \subseteq Rows
    BY <2>1 DEF RunTyped, Range
  <2>3. Nothing \notin Answers \cup Codes
    BY NothingAssumption DEF NothingApart
  <2>4. run.pc = "done" <=> run.told # Nothing
    BY <1>1, <2>1, <2>3 DEF RunTyped, QAInv, Fits
  <2>5. run.audit = Nothing <=> run.pc = "new"
    BY <1>1, <2>1 DEF RunTyped, QAInv, Fits
  <2> QED BY <2>1, <2>2, <2>4, <2>5 DEF RunTyped, QuestionTypeOK
<1> QED BY <1>1, QuestionInvariant, PTL

(* A question is answered from what one store holds and from nothing else: *)
(* the chunks are the best k of a store there was while it ran, by vector  *)
(* although only a pool of candidates is fetched, by words only for a      *)
(* reason; an answer cites the place of every chunk once.  For any number  *)
(* of rows, sources, editions and any limits.                              *)
(* (ProductionChunkRetriever.retrieve_with_metadata, _build_citations.)    *)
THEOREM AnsweredFromOneStore == QuestionSpec => []AnswersFromOneStore
<1>1. ASSUME QAInv, Course PROVE AnswersFromOneStore
  <2>1. RetrievedFromOneStore /\ Way(run, ask)
    BY <1>1 DEF Course
  <2>2. {"answer", "memory", "insufficient"} \subseteq Answers
    BY DEF Answers
  <2>3. AnswersGrounded
    BY <2>1, <2>2 DEF Way, Rests, Cites, AnswersGrounded
  <2> QED BY <2>1, <2>3 DEF AnswersFromOneStore
<1> QED BY <1>1, QuestionInvariant, PTL
===============================================================================
