---------------------------- MODULE ContextAssembly ----------------------------
(***************************************************************************)
(* The context of a step (pkg/context): the engine built from the           *)
(* configuration asks its providers, one after the other or all at once,    *)
(* sorts the fragments by priority, and the assembler fits them into the    *)
(* token budget.  A text is its length in characters; a token is four.      *)
(***************************************************************************)
EXTENDS Integers, Sequences, SequencesExt, FiniteSetsExt

CONSTANTS ContextConfigs,  \* records [providers, max, budget, parallel, manager, engine,
                           \*          embeddings]; a provider is [type, priority, enabled]
          StepInputs,      \* records [goal, history, step, agent, working, hits, chunks]
          PromptChars,     \* length of the default system prompt
          LineChars,       \* length of a line a provider writes
          ToolWindow,      \* steps of history the tool_output provider shows
          MaxAssemblies

\* With embeddings and without a memory manager, the knowledge provider dereferences nil.
ASSUME ManagerForKnowledge ==
  \A c \in ContextConfigs : \A p \in Range(c.providers) :
    p.type = "knowledge" /\ p.enabled /\ c.embeddings => c.manager

VARIABLES ctxConfig, ctxInput,
          ctxProviders,    \* ContextEngine.Providers
          ctxAsked,        \* places of providers whose Fetch has not answered yet
          ctxArrived,      \* fragments [type, priority, chars, of], in order of arrival
          ctxOut,          \* the assembled sections, once done
          ctxPc, ctxCount

contextVars == <<ctxConfig, ctxInput, ctxProviders, ctxAsked, ctxArrived, ctxOut, ctxPc, ctxCount>>

Optional == <<"memory", "tool_output", "knowledge">>
NoSection == [of |-> <<>>, chars |-> 0, used |-> 0]
NoContext == [sections |-> [t \in Range(Optional) \cup {"policy", "workflow"} |-> NoSection],
              total |-> 0]

ContextInit ==
  /\ ctxConfig = [max |-> 0] /\ ctxInput = [goal |-> FALSE] /\ ctxProviders = <<>>
  /\ ctxAsked = {} /\ ctxArrived = <<>> /\ ctxOut = NoContext /\ ctxPc = "new" /\ ctxCount = 0

-----------------------------------------------------------------------------
(* The factory                                                             *)

\* A provider that lacks what it works on is left out without a word.
Built(c, p) ==
  /\ p.enabled
  /\ CASE p.type = "memory"    -> c.manager
       [] p.type = "policy"    -> c.engine
       [] p.type = "knowledge" -> c.embeddings
       [] OTHER                -> TRUE

\* A configuration that is disabled or names an unknown type builds no engine.
NewContextEngineFromConfig(c) ==
  /\ ctxPc = "new" /\ ctxConfig' = c /\ ctxPc' = "ready"
  /\ ctxProviders' = SelectSeq(c.providers, LAMBDA p : Built(c, p))
  /\ UNCHANGED <<ctxInput, ctxAsked, ctxArrived, ctxOut, ctxCount>>

-----------------------------------------------------------------------------
(* The providers: the length of their text, 0 when they have nothing.      *)

MemoryChars(in, embedded) ==
  (IF in.working THEN LineChars ELSE 0)
    + (IF embedded /\ ctxConfig.embeddings /\ in.goal THEN in.hits * LineChars ELSE 0)
PolicyChars(in) == 2 * LineChars
WorkflowChars(in) ==
  (IF in.step > 0 THEN LineChars ELSE 0)
    + (IF in.history = 0 THEN 0 ELSE LineChars * (1 + Min({in.history, 3})))
    + (IF in.agent THEN LineChars ELSE 0)
ToolOutputChars(in) ==
  IF in.history = 0 THEN 0 ELSE LineChars * (1 + Min({in.history, ToolWindow}))
KnowledgeChars(in) == IF in.goal THEN in.chunks * LineChars ELSE 0

FetchChars(p, ok) ==
  CASE p.type = "memory"      -> MemoryChars(ctxInput, ok)
    [] p.type = "policy"      -> PolicyChars(ctxInput)
    [] p.type = "workflow"    -> WorkflowChars(ctxInput)
    [] p.type = "tool_output" -> ToolOutputChars(ctxInput)
    [] OTHER                  -> IF ok THEN KnowledgeChars(ctxInput) ELSE 0

-----------------------------------------------------------------------------
(* FetchAll                                                                *)

FetchAll(in) ==
  /\ ctxPc = "ready" /\ ctxCount < MaxAssemblies /\ ctxCount' = ctxCount + 1
  /\ ctxInput' = in /\ ctxArrived' = <<>> /\ ctxPc' = "fetching"
  /\ ctxAsked' = DOMAIN ctxProviders
  /\ UNCHANGED <<ctxConfig, ctxProviders, ctxOut>>

\* Provider i answers; ok is false when a call it makes fails.  Without Parallel they
\* answer in their order.
ProviderAnswers(i, ok) ==
  /\ ctxPc = "fetching" /\ i \in ctxAsked
  /\ ctxConfig.parallel \/ i = Min(ctxAsked)
  /\ ctxAsked' = ctxAsked \ {i}
  /\ LET p == ctxProviders[i]
         n == FetchChars(p, ok)
     IN  ctxArrived' = IF n = 0 THEN ctxArrived
                       ELSE Append(ctxArrived, [type |-> p.type, priority |-> p.priority,
                                                chars |-> n, of |-> i])
  /\ UNCHANGED <<ctxConfig, ctxInput, ctxProviders, ctxOut, ctxPc, ctxCount>>

\* Mutant: the fragments stay in the order in which they came.
SortedByPriorityNot(s) == s
\* sort.Slice keeps the order of equals in slices as short as these.
SortedByPriority(s) ==
  LET before(i, j) == s[i].priority < s[j].priority \/ (s[i].priority = s[j].priority /\ i < j)
      rank(i) == Cardinality({j \in DOMAIN s : before(j, i)})
  IN  [k \in DOMAIN s |-> s[CHOOSE i \in DOMAIN s : rank(i) = k - 1]]

-----------------------------------------------------------------------------
(* The assembler                                                           *)

Tokens(chars) == chars \div 4
\* mergeFragments joins with an empty line.
MergedChars(frs) ==
  FoldSeq(LAMBDA f, n : n + f.chars, 0, frs) + (IF frs = <<>> THEN 0 ELSE 2 * (Len(frs) - 1))

\* A text that is too long is cut and gets a mark of 15 characters that is not counted.
applyBudget(frs, budget) ==
  LET chars == MergedChars(frs)
      of == [i \in DOMAIN frs |-> frs[i].of]
  IN  CASE budget <= 0 \/ frs = <<>>   -> NoSection
        [] Tokens(chars) <= budget     -> [of |-> of, chars |-> chars, used |-> Tokens(chars)]
        [] OTHER                       -> [of |-> of, chars |-> budget * 4 + 15, used |-> budget]

OfType(s, t) == SelectSeq(s, LAMBDA f : f.type = t)

\* Policy and workflow state have their own budgets; what is optional gets its budget or
\* what is left of the maximum, in a fixed order.
Assembled(frs) ==
  LET b == ctxConfig.budget
      policy == applyBudget(OfType(frs, "policy"), b["policy"])
      workflow == applyBudget(OfType(frs, "workflow"), b["workflow"])
      fixed == Tokens(PromptChars) + policy.used + workflow.used
      add(t, out) == LET s == applyBudget(OfType(frs, t), Min({b[t], ctxConfig.max - out.total}))
                     IN  [sections |-> [out.sections EXCEPT ![t] = s], total |-> out.total + s.used]
      start == [sections |-> [NoContext.sections EXCEPT !["policy"] = policy,
                                                        !["workflow"] = workflow],
                total |-> fixed]
  IN  FoldLeft(LAMBDA out, t : add(t, out), start, Optional)

Assemble ==
  /\ ctxPc = "fetching" /\ ctxAsked = {}
  /\ ctxOut' = Assembled(SortedByPriority(ctxArrived)) /\ ctxPc' = "done"
  /\ UNCHANGED <<ctxConfig, ctxInput, ctxProviders, ctxAsked, ctxArrived, ctxCount>>

ContextUsed ==
  /\ ctxPc = "done" /\ ctxPc' = "ready" /\ ctxOut' = NoContext /\ ctxArrived' = <<>>
  /\ UNCHANGED <<ctxConfig, ctxInput, ctxProviders, ctxAsked, ctxCount>>

ContextNext ==
  \/ \E c \in ContextConfigs : NewContextEngineFromConfig(c)
  \/ \E in \in StepInputs : FetchAll(in)
  \/ \E i \in ctxAsked, ok \in BOOLEAN : ProviderAnswers(i, ok)
  \/ Assemble \/ ContextUsed

-----------------------------------------------------------------------------
Fixed == Tokens(PromptChars) + ctxOut.sections["policy"].used + ctxOut.sections["workflow"].used

\* FetchAll and Assemble (engine.go, assembler.go): whatever the order in which providers
\* answer, each section holds exactly the fragments of its type, by priority, and is
\* missing only when its budget is used up; what is optional never takes the counted
\* total past the maximum, which only the fixed parts may exceed; and a section's text
\* outgrows what is counted for it by the mark of a cut and a rounding at most.
ContextBounded ==
  ctxPc = "done" =>
    /\ ctxOut.total <= Max({ctxConfig.max, Fixed})
    /\ \A t \in DOMAIN ctxOut.sections :
         LET s == ctxOut.sections[t]
             given == {f.of : f \in Range(OfType(ctxArrived, t))}
         IN  /\ s.used <= ctxConfig.budget[t] /\ s.chars <= 4 * s.used + 15
             /\ \/ Range(s.of) = given
                \/ s.of = <<>> /\ (ctxConfig.budget[t] = 0 \/ ctxOut.total >= ctxConfig.max)
             /\ \A i, j \in DOMAIN s.of :
                  i < j => ctxProviders[s.of[i]].priority <= ctxProviders[s.of[j]].priority
=============================================================================
