---------------------------- MODULE Collaboration ----------------------------
(***************************************************************************)
(* The agents' coordinator, its message router and the shared workspace     *)
(* (pkg/collaboration).  A route holds the router's read lock while it      *)
(* visits the channels one by one, in the order of a Go map; subscribing    *)
(* and unsubscribing wait for it, other routes do not.  Registering opens a *)
(* channel that is handed to nobody, so an agent that wants to receive      *)
(* subscribes once more.  An agent id may begin with another one.           *)
(***************************************************************************)
EXTENDS Naturals, Sequences, FiniteSets

CONSTANTS AgentIds, Begins,      \* Begins: pairs <<a, b>> where the id b begins with the id a
          Skilled,               \* agents with the capabilities a task asks for
          Callers,               \* goroutines that call the coordinator
          ChannelCap,            \* the buffer of a channel, 100 in the code
          MaxMessages, MaxTurns

ASSUME IdsBeginWithThemselves == \A a \in AgentIds : <<a, a>> \in Begins

VARIABLES members, busy,         \* registered agents, and those whose status is busy
          subs, inbox,           \* the router's channels <<agent, kind>> and their buffers
          routing,               \* caller |-> [pc, msg, todo]
          workspace,             \* ids of shared data that are there
          sent, turns,           \* messages made, calls made
          owed, skipped,         \* history: <<channel, id>> a route had to serve, and found full
          taken, removed, cut    \* history: messages received, data deleted, agents cut off

collabVars == <<members, busy, subs, inbox, routing, workspace, sent, turns, owed, skipped,
                taken, removed, cut>>
collabLog == <<owed, skipped, taken, removed, cut>>

Channels == AgentIds \X {"registered", "own"}
NoMessage == [id |-> 0, from |-> "none", to |-> "none", data |-> FALSE]
NoRouting == [pc |-> "idle", msg |-> NoMessage, todo |-> {}]

CollabInit ==
  /\ members = {} /\ busy = {} /\ subs = {} /\ inbox = [ch \in Channels |-> <<>>]
  /\ routing = [c \in Callers |-> NoRouting] /\ workspace = {} /\ sent = 0 /\ turns = 0
  /\ owed = {} /\ skipped = {} /\ taken = [ch \in Channels |-> <<>>] /\ removed = {} /\ cut = {}

\* The write lock of the router is free.
RouterFree == \A c \in Callers : routing[c].pc # "routing"
Turn == turns < MaxTurns /\ turns' = turns + 1

\* Subscribe: a new channel under the agent's key.
Opened(ch) ==
  /\ subs' = subs \cup {ch} /\ inbox' = [inbox EXCEPT ![ch] = <<>>]
  /\ taken' = [taken EXCEPT ![ch] = <<>>]
  /\ owed' = {o \in owed : o[1] # ch} /\ skipped' = {o \in skipped : o[1] # ch}

RegisterAgent(a) ==
  /\ Turn /\ a \notin members /\ RouterFree
  /\ members' = members \cup {a} /\ Opened(<<a, "registered">>) /\ cut' = cut \ {a}
  /\ UNCHANGED <<busy, routing, workspace, sent, removed>>

Subscribe(a) ==
  /\ Turn /\ <<a, "own">> \notin subs /\ RouterFree /\ Opened(<<a, "own">>)
  /\ UNCHANGED <<members, busy, routing, workspace, sent, removed, cut>>

\* Unsubscribe deletes every key that begins with the agent's id, those of other agents
\* whose ids begin with it included.
UnregisterAgent(a) ==
  /\ Turn /\ RouterFree
  /\ members' = members \ {a} /\ busy' = busy \ {a}
  /\ subs' = {ch \in subs : <<a, ch[1]>> \notin Begins}
  /\ cut' = cut \cup {b \in members \ {a} : <<a, b>> \in Begins}
  /\ UNCHANGED <<inbox, routing, workspace, sent, owed, skipped, taken, removed>>

\* The agent keeps a pointer to its record and changes its status without the lock.
ChangeStatus(a) ==
  /\ Turn /\ a \in members
  /\ busy' = IF a \in busy THEN busy \ {a} ELSE busy \cup {a}
  /\ UNCHANGED <<members, subs, inbox, routing, workspace, sent, collabLog>>

-----------------------------------------------------------------------------
(* Sending.  A message names an agent or "*".                              *)

Caller(c, pc, to, data) ==
  /\ Turn /\ sent < MaxMessages /\ routing[c].pc = "idle" /\ sent' = sent + 1
  /\ routing' = [routing EXCEPT ![c] = [pc |-> pc, todo |-> {},
                   msg |-> [id |-> sent + 1, from |-> c, to |-> to, data |-> data]]]

SendMessage(c, to) ==
  Caller(c, "made", to, FALSE) /\ UNCHANGED <<members, busy, subs, inbox, workspace, collabLog>>

\* RequestVote and QueryAgents broadcast and return without waiting for an answer.
BroadcastMessage(c) ==
  Caller(c, "made", "*", FALSE) /\ UNCHANGED <<members, busy, subs, inbox, workspace, collabLog>>

RequestVote(c) == BroadcastMessage(c)
QueryAgents(c) == BroadcastMessage(c)

\* ShareData stores the data first; no recipient, or "*", means all.
ShareData(c, to) ==
  /\ Caller(c, "made", IF to = "" THEN "*" ELSE to, TRUE)
  /\ workspace' = workspace \cup {sent + 1}
  /\ UNCHANGED <<members, busy, subs, inbox, collabLog>>

\* findCapableAgent under the coordinator's read lock; the route follows without it.
CapableAgents == (members \ busy) \cap Skilled
DelegateTask(c, a) ==
  /\ a \in CapableAgents /\ Caller(c, "made", a, FALSE)
  /\ UNCHANGED <<members, busy, subs, inbox, workspace, collabLog>>

\* The channels of a message: all of them, or those under the recipient's key.
Recipients(m) == {ch \in subs : m.to \in {"*", ch[1]}}

RouteBegins(c) ==
  /\ routing[c].pc = "made"
  /\ LET m == routing[c].msg
     IN  /\ routing' = [routing EXCEPT ![c].pc = "routing", ![c].todo = Recipients(m)]
         /\ owed' = owed \cup {<<ch, m.id>> : ch \in Recipients(m)}
  /\ UNCHANGED <<members, busy, subs, inbox, workspace, sent, turns, skipped, taken, removed, cut>>

\* Mutant: a full channel ends the loop.
LeftAfterBreak(todo, ch) == IF Len(inbox[ch]) = ChannelCap THEN {} ELSE todo \ {ch}
\* A full channel is passed over.
LeftAfter(todo, ch) == todo \ {ch}

RouteVisits(c, ch) ==
  /\ routing[c].pc = "routing" /\ ch \in routing[c].todo
  /\ routing' = [routing EXCEPT ![c].todo = LeftAfter(@, ch)]
  /\ IF Len(inbox[ch]) < ChannelCap
     THEN inbox' = [inbox EXCEPT ![ch] = Append(@, routing[c].msg)] /\ UNCHANGED skipped
     ELSE skipped' = skipped \cup {<<ch, routing[c].msg.id>>} /\ UNCHANGED inbox
  /\ UNCHANGED <<members, busy, subs, workspace, sent, turns, owed, taken, removed, cut>>

RouteEnds(c) ==
  /\ routing[c].pc = "routing" /\ routing[c].todo = {}
  /\ routing' = [routing EXCEPT ![c] = NoRouting]
  /\ UNCHANGED <<members, busy, subs, inbox, workspace, sent, turns, collabLog>>

-----------------------------------------------------------------------------
\* Only the channel an agent opened itself has a reader.
Receive(a) ==
  LET ch == <<a, "own">>
  IN  /\ inbox[ch] # <<>>
      /\ taken' = [taken EXCEPT ![ch] = Append(@, Head(inbox[ch]))]
      /\ inbox' = [inbox EXCEPT ![ch] = Tail(@)]
      /\ UNCHANGED <<members, busy, subs, routing, workspace, sent, turns, owed, skipped, removed,
                     cut>>

\* SharedWorkspace.Delete and Clear.
WorkspaceRemove(keys) ==
  /\ Turn /\ keys \subseteq workspace /\ keys # {}
  /\ workspace' = workspace \ keys /\ removed' = removed \cup keys
  /\ UNCHANGED <<members, busy, subs, inbox, routing, sent, owed, skipped, taken, cut>>

CollabNext ==
  \/ \E a \in AgentIds : \/ RegisterAgent(a) \/ Subscribe(a) \/ UnregisterAgent(a)
                         \/ ChangeStatus(a) \/ Receive(a)
  \/ \E c \in Callers :
       \/ \E a \in AgentIds : SendMessage(c, a) \/ DelegateTask(c, a)
       \/ \E to \in {""} \cup AgentIds : ShareData(c, to)
       \/ BroadcastMessage(c) \/ RequestVote(c) \/ QueryAgents(c)
       \/ RouteBegins(c) \/ RouteEnds(c)
       \/ \E ch \in routing[c].todo : RouteVisits(c, ch)
  \/ \E key \in workspace : WorkspaceRemove({key})
  \/ WorkspaceRemove(workspace)

-----------------------------------------------------------------------------
Got(ch) == taken[ch] \o inbox[ch]

\* Route, ShareData and Unsubscribe (discovery.go, coordinator.go): whatever routes run
\* side by side, every channel that was open when a route began gets its message once,
\* unless its buffer was full; messages of one caller arrive in their order; no message
\* for one agent reaches another; data an agent was told of is in the workspace until
\* somebody removes it; and a registered agent stays subscribed unless an agent whose
\* id its own begins with was unregistered.
MessagesAccounted ==
  /\ \A o \in owed : (\A c \in Callers : routing[c].msg.id # o[2]) =>
       o \in skipped \/ Cardinality({i \in DOMAIN Got(o[1]) : Got(o[1])[i].id = o[2]}) = 1
  /\ \A ch \in subs : \A i, j \in DOMAIN Got(ch) :
       i < j /\ Got(ch)[i].from = Got(ch)[j].from => Got(ch)[i].id < Got(ch)[j].id
  /\ \A ch \in Channels : \A i \in DOMAIN Got(ch) :
       /\ Got(ch)[i].to \in {"*", ch[1]}
       /\ Got(ch)[i].data => Got(ch)[i].id \in workspace \cup removed
  /\ \A a \in members \ cut : <<a, "registered">> \in subs
=============================================================================
