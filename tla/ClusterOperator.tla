--------------------------- MODULE ClusterOperator ---------------------------
(***************************************************************************)
(* The Kubernetes agent and policy controllers                              *)
(* (k8s/operator/agent_controller.go, policy_controller.go) against the API *)
(* server.  An agent's reconcile writes its deployment, then its service,   *)
(* then its status; a policy's validates the rules and writes whether it is *)
(* active.  Both work on a cached copy that may lag, every call may fail,   *)
(* the operator may restart between two calls and users edit the objects    *)
(* meanwhile.  A deployment's selector cannot be changed once it exists.    *)
(***************************************************************************)
EXTENDS Naturals, Sequences

CONSTANTS AgentLabels,   \* what labelsForAgent makes of the role and the provider
          AgentReplicas, \* the replica counts users ask for
          RuleLists,     \* rule lists of policies: sequences of [id, condition, action]
          MaxAgentEdits, MaxPolicyEdits, MaxClusterLoops

VARIABLES agStored, agCached, agCopy, agPc,       \* Agent: [rev, labels, replicas, phase, ready]
          agDeploy, agService,                    \* its Deployment and its Service
          polStored, polCached, polCopy, polPc,   \* Policy: [rev, rules, enabled, active]
          clusterLoops

agentSide == <<agStored, agCached, agCopy, agPc, agDeploy, agService>>
policySide == <<polStored, polCached, polCopy, polPc>>
clusterVars == <<agStored, agCached, agCopy, agPc, agDeploy, agService,
                 polStored, polCached, polCopy, polPc, clusterLoops>>

NoAgent == [rev |-> 0, labels |-> "", replicas |-> 0, phase |-> "", ready |-> 0]
NoDeployment == [made |-> FALSE, labels |-> "", replicas |-> 0, ready |-> 0]
NoService == [made |-> FALSE, labels |-> ""]
NoPolicy == [rev |-> 0, rules |-> <<>>, enabled |-> FALSE, active |-> FALSE]

ClusterInit ==
  /\ agStored = NoAgent /\ agCached = NoAgent /\ agCopy = NoAgent /\ agPc = "idle"
  /\ agDeploy = NoDeployment /\ agService = NoService
  /\ polStored = NoPolicy /\ polCached = NoPolicy /\ polCopy = NoPolicy /\ polPc = "idle"
  /\ clusterLoops = 0

\* The users, the cache and the deployment's own controller.
ApplyAgent(labels, replicas) ==
  /\ agStored.rev <= MaxAgentEdits
  /\ agStored' = [agStored EXCEPT !.rev = @ + 1, !.labels = labels, !.replicas = replicas]
  /\ UNCHANGED <<agCached, agCopy, agPc, agDeploy, agService, policySide, clusterLoops>>
ApplyPolicy(rules, enabled) ==
  /\ polStored.rev <= MaxPolicyEdits
  /\ polStored' = [polStored EXCEPT !.rev = @ + 1, !.rules = rules, !.enabled = enabled]
  /\ UNCHANGED <<polCached, polCopy, polPc, agentSide, clusterLoops>>
ClusterCaches ==
  /\ agCached' = agStored /\ polCached' = polStored
  /\ agCached # agStored \/ polCached # polStored
  /\ UNCHANGED <<agStored, agCopy, agPc, agDeploy, agService, polStored, polCopy, polPc,
                 clusterLoops>>
PodsReady(n) ==
  /\ agDeploy.made /\ n <= agDeploy.replicas /\ n # agDeploy.ready
  /\ agDeploy' = [agDeploy EXCEPT !.ready = n]
  /\ UNCHANGED <<agStored, agCached, agCopy, agPc, agService, policySide, clusterLoops>>

deploymentForAgent(a) == [made |-> TRUE, labels |-> a.labels, replicas |-> a.replicas, ready |-> 0]
serviceForAgent(a) == [made |-> TRUE, labels |-> a.labels]

\* Mutant: the service is written before the deployment.
AgentStepsServiceFirst == <<"service", "deploy", "status">>
\* The calls of an agent's reconcile, in order; a failing one ends it.
AgentSteps == <<"deploy", "service", "status">>
NextAgentStep(pc) ==
  IF pc = AgentSteps[3] THEN "idle"
  ELSE AgentSteps[1 + CHOOSE i \in 1..2 : AgentSteps[i] = pc]

ReconcileAgent ==
  /\ agPc = "idle" /\ agCached.rev > 0 /\ clusterLoops < MaxClusterLoops
  /\ clusterLoops' = clusterLoops + 1 /\ agCopy' = agCached /\ agPc' = AgentSteps[1]
  /\ UNCHANGED <<agStored, agCached, agDeploy, agService, policySide>>

\* A missing deployment is created; an existing one gets the new spec, which the API
\* server refuses when the selector, the labels of the agent, has changed.
CreateOrUpdateDeployment ==
  /\ agPc = "deploy"
  /\ LET refused == agDeploy.made /\ agDeploy.labels # agCopy.labels
     IN  /\ agPc' = IF refused THEN "idle" ELSE NextAgentStep("deploy")
         /\ agDeploy' = CASE refused         -> agDeploy
                          [] ~ agDeploy.made -> deploymentForAgent(agCopy)
                          [] OTHER           -> [deploymentForAgent(agCopy) EXCEPT
                                                   !.ready = agDeploy.ready]
  /\ UNCHANGED <<agStored, agCached, agCopy, agService, policySide, clusterLoops>>

CreateOrUpdateService ==
  /\ agPc = "service" /\ agPc' = NextAgentStep("service")
  /\ agService' = serviceForAgent(agCopy)
  /\ UNCHANGED <<agStored, agCached, agCopy, agDeploy, policySide, clusterLoops>>

\* An agent that asks for no replica is Running; one none of whose pods is ready yet
\* is Failed.  The status is taken only at the revision that was read.
UpdateAgentStatus ==
  /\ agPc = "status" /\ agPc' = NextAgentStep("status")
  /\ agStored' = IF agCopy.rev # agStored.rev \/ ~ agDeploy.made THEN agStored
                 ELSE [agStored EXCEPT !.rev = @ + 1, !.ready = agDeploy.ready,
                         !.phase = CASE agDeploy.ready = agDeploy.replicas -> "Running"
                                     [] agDeploy.ready > 0                 -> "Pending"
                                     [] OTHER                              -> "Failed"]
  /\ UNCHANGED <<agCached, agCopy, agDeploy, agService, policySide, clusterLoops>>

\* Mutant: the rules of a policy that is disabled are not looked at, nor those of others.
validatePolicyNonEmpty(p) == Len(p.rules) > 0
validatePolicy(p) ==
  /\ Len(p.rules) > 0
  /\ \A i \in 1..Len(p.rules) :
       /\ p.rules[i].id # "" /\ p.rules[i].condition # ""
       /\ p.rules[i].action \in {"allow", "deny", "warn", "require_approval"}

\* Invalid rules make the policy inactive and the reconcile fail; otherwise it is as
\* active as it is enabled.
ReconcilePolicy ==
  /\ polPc = "idle" /\ polCached.rev > 0 /\ clusterLoops < MaxClusterLoops
  /\ clusterLoops' = clusterLoops + 1 /\ polPc' = "status"
  /\ polCopy' = [polCached EXCEPT !.active = validatePolicy(polCached) /\ polCached.enabled]
  /\ UNCHANGED <<polStored, polCached, agentSide>>

UpdatePolicyStatus ==
  /\ polPc = "status" /\ polPc' = "idle"
  /\ polStored' = IF polCopy.rev # polStored.rev THEN polStored
                  ELSE [polStored EXCEPT !.rev = @ + 1, !.active = polCopy.active]
  /\ UNCHANGED <<polCached, polCopy, agentSide, clusterLoops>>

\* A call fails, or the operator restarts: the reconcile is over.
AgentCallFails ==
  /\ agPc # "idle" /\ agPc' = "idle"
  /\ UNCHANGED <<agStored, agCached, agCopy, agDeploy, agService, policySide, clusterLoops>>
PolicyCallFails ==
  /\ polPc # "idle" /\ polPc' = "idle"
  /\ UNCHANGED <<polStored, polCached, polCopy, agentSide, clusterLoops>>

ClusterNext ==
  \/ \E l \in AgentLabels, n \in AgentReplicas : ApplyAgent(l, n)
  \/ \E r \in RuleLists, e \in BOOLEAN : ApplyPolicy(r, e)
  \/ \E n \in 0..agDeploy.replicas : PodsReady(n)
  \/ ClusterCaches
  \/ ReconcileAgent \/ CreateOrUpdateDeployment \/ CreateOrUpdateService \/ UpdateAgentStatus
  \/ ReconcilePolicy \/ UpdatePolicyStatus
  \/ AgentCallFails \/ PolicyCallFails

-----------------------------------------------------------------------------
\* createOrUpdateDeployment before createOrUpdateService (agent_controller.go): whatever
\* the user changes meanwhile and wherever the reconcile stops, a service that exists
\* selects the pods of the deployment that exists.  A change of role or provider is
\* refused by the deployment first and so never reaches the service.
ServiceSelectsPods == agService.made => agDeploy.made /\ agService.labels = agDeploy.labels

\* validatePolicy and updatePolicyStatus (policy_controller.go): a policy becomes active
\* only at a revision whose rules are all complete and which is enabled, even though the
\* rules were checked on a cached copy.
ActivatedWhenValid ==
  [][polStored'.active /\ ~ polStored.active =>
       /\ polStored.enabled /\ Len(polStored.rules) > 0
       /\ \A i \in 1..Len(polStored.rules) :
            "" \notin {polStored.rules[i].id, polStored.rules[i].condition,
                       polStored.rules[i].action}]_clusterVars

\* Both reconcilers act only on what they may: the service on the labels the deployment
\* accepted, the policy's activation on rules that are complete.
ReconciledInOrder == []ServiceSelectsPods /\ ActivatedWhenValid
=============================================================================
