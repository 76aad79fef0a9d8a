------------------------------- MODULE Sessions -------------------------------
(***************************************************************************)
(* User sessions (pkg/auth/session.go) under the HTTP middleware that looks *)
(* them up.  A lookup starts a goroutine that stamps the session's last     *)
(* activity later, on its own; the cleanup runs every hour; sessions are    *)
(* revoked at any moment.                                                   *)
(***************************************************************************)
EXTENDS Naturals, FiniteSets

CONSTANTS SessionUsers, SessionDurations, Requests,
          MaxSessionTime, MaxSessions

VARIABLES sessionRows,    \* the table sessions: id |-> [user, created, expires, active]
          duration,       \* SessionManager.sessionDuration
          request,        \* request |-> [pc, id, expires, at]
          stamping,       \* ids with an update of last_activity under way
          sessionTime, issued,
          revoked         \* history: ids that were revoked

sessionVars == <<sessionRows, duration, request, stamping, sessionTime, issued, revoked>>

NoRequest == [pc |-> "idle", id |-> 0, expires |-> 0, at |-> 0]

SessionInit ==
  /\ sessionRows = <<>> /\ duration = 2 /\ request = [r \in Requests |-> NoRequest]
  /\ stamping = {} /\ sessionTime = 0 /\ issued = 0 /\ revoked = {}

SessionTick ==
  /\ sessionTime < MaxSessionTime /\ issued > 0 /\ sessionTime' = sessionTime + 1
  /\ UNCHANGED <<sessionRows, duration, request, stamping, issued, revoked>>

\* For the sessions that follow.
SetSessionDuration(d) ==
  /\ issued > 0 /\ d # duration /\ duration' = d
  /\ UNCHANGED <<sessionRows, request, stamping, sessionTime, issued, revoked>>

\* CreateSession and storeSession.
CreateSession(user, ok) ==
  /\ issued < MaxSessions /\ issued' = issued + 1
  /\ sessionRows' = IF ~ ok THEN sessionRows
       ELSE [i \in DOMAIN sessionRows \cup {issued + 1} |->
               IF i \in DOMAIN sessionRows THEN sessionRows[i]
               ELSE [user |-> user, created |-> sessionTime, expires |-> sessionTime + duration,
                     active |-> sessionTime]]
  /\ UNCHANGED <<duration, request, stamping, sessionTime, revoked>>

\* GetSession: a row that has not expired, and the goroutine for its last activity.
Unexpired(id) == id \in DOMAIN sessionRows /\ sessionRows[id].expires > sessionTime
GetSession(r, id) ==
  /\ request[r].pc = "idle" /\ Unexpired(id)
  /\ request' = [request EXCEPT ![r] = [pc |-> "got", id |-> id, at |-> sessionTime,
                                        expires |-> sessionRows[id].expires]]
  /\ stamping' = stamping \cup {id}
  /\ UNCHANGED <<sessionRows, duration, sessionTime, issued, revoked>>

\* Valid looks at the clock once more.  RequireAuth refuses a request whose session
\* expired in between, OptionalAuth lets it go on without a user.
Authorized(r, otherwise) ==
  /\ request[r].pc = "got"
  /\ request' = [request EXCEPT ![r].pc = IF sessionTime < request[r].expires THEN "served"
                                            ELSE otherwise]
  /\ UNCHANGED <<sessionRows, duration, stamping, sessionTime, issued, revoked>>
RequireAuth(r) == Authorized(r, "refused")
OptionalAuth(r) == Authorized(r, "anonymous")
Responds(r) ==
  /\ request[r].pc \in {"served", "refused", "anonymous"} /\ request' = [request EXCEPT ![r] = NoRequest]
  /\ UNCHANGED <<sessionRows, duration, stamping, sessionTime, issued, revoked>>

\* Mutant: the row is written, not updated.
StampedUpsert(id) ==
  [i \in DOMAIN sessionRows \cup {id} |->
     IF i # id THEN sessionRows[i]
     ELSE IF id \in DOMAIN sessionRows THEN [sessionRows[id] EXCEPT !.active = sessionTime]
     ELSE [user |-> CHOOSE u \in SessionUsers : TRUE, created |-> sessionTime,
           expires |-> sessionTime + duration, active |-> sessionTime]]
\* An UPDATE of a row that is gone changes nothing.
Stamped(id) ==
  [i \in DOMAIN sessionRows |-> IF i = id THEN [sessionRows[i] EXCEPT !.active = sessionTime]
                                ELSE sessionRows[i]]
UpdateLastActivity(id, ok) ==
  /\ id \in stamping /\ stamping' = stamping \ {id}
  /\ sessionRows' = IF ok THEN Stamped(id) ELSE sessionRows
  /\ UNCHANGED <<duration, request, sessionTime, issued, revoked>>

\* RevokeSession, RevokeUserSessions and CleanupExpired: one DELETE each.
Deleted(ids) == sessionRows' = [i \in DOMAIN sessionRows \ ids |-> sessionRows[i]]
RevokeSession(id) ==
  /\ id \in DOMAIN sessionRows /\ Deleted({id}) /\ revoked' = revoked \cup {id}
  /\ UNCHANGED <<duration, request, stamping, sessionTime, issued>>
RevokeUserSessions(user) ==
  LET ids == {i \in DOMAIN sessionRows : sessionRows[i].user = user}
  IN  /\ ids # {} /\ Deleted(ids) /\ revoked' = revoked \cup ids
      /\ UNCHANGED <<duration, request, stamping, sessionTime, issued>>
CleanupExpired ==
  LET ids == {i \in DOMAIN sessionRows : sessionRows[i].expires <= sessionTime}
  IN  /\ ids # {} /\ Deleted(ids)
      /\ UNCHANGED <<duration, request, stamping, sessionTime, issued, revoked>>

SessionNext ==
  \/ SessionTick \/ CleanupExpired
  \/ \E d \in SessionDurations : SetSessionDuration(d)
  \/ \E u \in SessionUsers : (\E ok \in BOOLEAN : CreateSession(u, ok)) \/ RevokeUserSessions(u)
  \/ \E r \in Requests : RequireAuth(r) \/ OptionalAuth(r) \/ Responds(r)
                           \/ \E id \in 1..issued : GetSession(r, id)
  \/ \E id \in stamping, ok \in BOOLEAN : UpdateLastActivity(id, ok)
  \/ \E id \in DOMAIN sessionRows : RevokeSession(id)

-----------------------------------------------------------------------------
\* GetSession, updateLastActivity and the deletes (session.go): a revoked session never
\* comes back, not even by an update of its activity that was under way; a request is
\* served only on a session that had not expired when it was looked up, and a session
\* goes away under it only by a revocation or because it has expired since; the last
\* activity lies between creation and now.
SessionsHonest ==
  /\ DOMAIN sessionRows \cap revoked = {}
  /\ \A r \in Requests : request[r].pc # "idle" =>
       /\ request[r].at < request[r].expires
       /\ \/ request[r].id \in DOMAIN sessionRows \cup revoked
          \/ request[r].expires <= sessionTime
  /\ \A i \in DOMAIN sessionRows :
       sessionRows[i].created <= sessionRows[i].active /\ sessionRows[i].active <= sessionTime
=============================================================================
