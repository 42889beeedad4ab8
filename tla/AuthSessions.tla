------------------------------ MODULE AuthSessions ------------------------------
(***************************************************************************)
(* Accounts, refresh-token sessions and access tokens (api/routes/auth.py, *)
(* auth/jwt_handler.py).  Every request reads in one transaction and       *)
(* writes when it commits; requests of several threads overlap.            *)
(***************************************************************************)
EXTENDS Integers, Sequences, FiniteSets

CONSTANTS
    Users,        \* e-mail addresses
    Threads,
    MaxSessions,  \* bound on the UserSession rows
    None

Roles   == {"viewer", "reviewer", "source_admin", "admin", "owner"}

VARIABLES
    users,     \* User rows: e-mail -> [role, active], a partial function
    sessions,  \* UserSession rows in commit order; parent: the session rotated (history)
    access,    \* the unexpired access tokens in circulation: [email, role]
    swept,     \* history: users -> the sessions the last committed logout-all has seen
    req        \* Threads -> the request between its reads and its commit

vars == <<users, sessions, access, swept, req>>

Idle == [pc |-> "idle", user |-> None, role |-> None, session |-> 0, seen |-> {}]

Init ==
    /\ users = [u \in {} |-> 0]
    /\ sessions = <<>>
    /\ access = {}
    /\ swept = [u \in Users |-> {}]
    /\ req = [t \in Threads |-> Idle]

Known(u) == u \in DOMAIN users /\ users[u].active
Live(i)  == ~sessions[i].revoked /\ ~sessions[i].expired

--------------------------------------------------------------------------------
(* Registration.                                                              *)

\* The first account becomes owner whatever it asks for; later ones need an access
\* token that says owner, as it was when the token was made.
ReadToRegister(t, u, role) ==
    LET bootstrap == DOMAIN users = {} IN
    /\ req[t].pc = "idle"
    /\ bootstrap \/ \E a \in access : a.role = "owner"
    /\ u \notin DOMAIN users
    /\ req' = [req EXCEPT ![t] = [Idle EXCEPT !.pc = "register", !.user = u,
                                              !.role = IF bootstrap THEN "owner" ELSE role]]
    /\ UNCHANGED <<users, sessions, access, swept>>

\* The unique e-mail refuses the second of two overlapping registrations.
Register(t) ==
    LET r == req[t] IN
    /\ r.pc = "register"
    /\ users' = IF r.user \in DOMAIN users THEN users
                ELSE [u \in DOMAIN users \cup {r.user} |->
                        IF u = r.user THEN [role |-> r.role, active |-> TRUE] ELSE users[u]]
    /\ req' = [req EXCEPT ![t] = Idle]
    /\ UNCHANGED <<sessions, access, swept>>

--------------------------------------------------------------------------------
(* Sessions.                                                                  *)

\* login: the password is right and the account active.  The role read goes into both
\* tokens.
ReadToLogin(t, u) ==
    /\ req[t].pc = "idle"
    /\ Known(u)
    /\ req' = [req EXCEPT ![t] = [Idle EXCEPT !.pc = "issue", !.user = u,
                                              !.role = users[u].role]]
    /\ UNCHANGED <<users, sessions, access, swept>>

\* refresh: _validate_session and the account, both as read.
ReadToRefresh(t, i) ==
    /\ req[t].pc = "idle"
    /\ Live(i) /\ Known(sessions[i].user)
    /\ req' = [req EXCEPT ![t] = [Idle EXCEPT !.pc = "issue", !.user = sessions[i].user,
                                    !.role = users[sessions[i].user].role, !.session = i]]
    /\ UNCHANGED <<users, sessions, access, swept>>

Revoked(S) == [i \in DOMAIN sessions |-> IF i \in S THEN [sessions[i] EXCEPT !.revoked = TRUE]
                                         ELSE sessions[i]]

\* Mutant: a refresh gives out a new session without revoking the one it used.
IssueOnly(t) ==
    LET r == req[t] IN
    /\ r.pc = "issue"
    /\ Len(sessions) < MaxSessions
    /\ sessions' = Append(sessions, [user |-> r.user, revoked |-> FALSE, expired |-> FALSE,
                                     parent |-> r.session])
    /\ access' = access \cup {[email |-> r.user, role |-> r.role]}
    /\ req' = [req EXCEPT ![t] = Idle]
    /\ UNCHANGED <<users, swept>>

\* login and refresh commit: the session used, if any, is revoked, a new one inserted;
\* the access token is made after the commit.
Issue(t) ==
    LET r == req[t] IN
    /\ r.pc = "issue"
    /\ Len(sessions) < MaxSessions
    /\ sessions' = Append(Revoked({r.session}),
                          [user |-> r.user, revoked |-> FALSE, expired |-> FALSE,
                           parent |-> r.session])
    /\ access' = access \cup {[email |-> r.user, role |-> r.role]}
    /\ req' = [req EXCEPT ![t] = Idle]
    /\ UNCHANGED <<users, swept>>

\* logout: nothing happens to a session that is gone or revoked.
ReadToLogout(t, i) ==
    /\ req[t].pc = "idle"
    /\ ~sessions[i].revoked
    /\ req' = [req EXCEPT ![t] = [Idle EXCEPT !.pc = "revoke", !.seen = {i}]]
    /\ UNCHANGED <<users, sessions, access, swept>>

\* logout_all needs an unexpired access token of an active account.
ReadToLogoutAll(t, a) ==
    /\ req[t].pc = "idle"
    /\ Known(a.email)
    /\ req' = [req EXCEPT ![t] = [Idle EXCEPT !.pc = "revoke", !.user = a.email,
                    !.seen = {i \in DOMAIN sessions : sessions[i].user = a.email
                                                      /\ ~sessions[i].revoked}]]
    /\ UNCHANGED <<users, sessions, access, swept>>

Revoke(t) ==
    LET r == req[t] IN
    /\ r.pc = "revoke"
    /\ sessions' = Revoked(r.seen)
    /\ swept' = IF r.user = None THEN swept ELSE [swept EXCEPT ![r.user] = @ \cup r.seen]
    /\ req' = [req EXCEPT ![t] = Idle]
    /\ UNCHANGED <<users, access>>

\* A request whose commit fails, or whose process ends, has written nothing.
Abort(t) ==
    /\ req[t].pc # "idle"
    /\ req' = [req EXCEPT ![t] = Idle]
    /\ UNCHANGED <<users, sessions, access, swept>>

\* Refresh tokens live for days, access tokens for minutes.
Expire ==
    /\ \/ \E i \in DOMAIN sessions :
            /\ ~sessions[i].expired
            /\ sessions' = [sessions EXCEPT ![i].expired = TRUE]
            /\ UNCHANGED access
       \/ \E a \in access : access' = access \ {a} /\ UNCHANGED sessions
    /\ UNCHANGED <<users, swept, req>>

\* No route deactivates an account: an operator edits the row.
SetActive(u) ==
    /\ u \in DOMAIN users
    /\ users' = [users EXCEPT ![u].active = ~@]
    /\ UNCHANGED <<sessions, access, swept, req>>

Next ==
    \/ \E t \in Threads, u \in Users :
        ReadToLogin(t, u) \/ \E r \in {"viewer", "owner"} : ReadToRegister(t, u, r)
    \/ \E t \in Threads, i \in DOMAIN sessions : ReadToRefresh(t, i) \/ ReadToLogout(t, i)
    \/ \E t \in Threads, a \in access : ReadToLogoutAll(t, a)
    \/ \E t \in Threads : Register(t) \/ Issue(t) \/ Revoke(t) \/ Abort(t)
    \/ Expire
    \/ \E u \in Users : SetActive(u)

Spec == Init /\ [][Next]_vars

--------------------------------------------------------------------------------
TypeOK ==
    /\ DOMAIN users \subseteq Users
    /\ \A u \in DOMAIN users : users[u] \in [role : Roles, active : BOOLEAN]
    /\ sessions \in Seq([user : Users, revoked : BOOLEAN, expired : BOOLEAN, parent : Nat])
    /\ access \subseteq [email : Users, role : Roles]
    /\ \A t \in Threads : req[t].seen \subseteq DOMAIN sessions

Children(i) == {k \in DOMAIN sessions : sessions[k].parent = i}

\* Rotation: a session that was exchanged is revoked, and stays so, so a login whose
\* tokens were each exchanged once has one line of sessions with at most its last one
\* live (auth.py:285-339).  Two overlapping refreshes of one token do fork the line.
RotationRevokes ==
    \A i \in DOMAIN sessions :
        /\ Children(i) # {} => sessions[i].revoked
        /\ sessions[i].parent # 0 =>
            sessions[i].parent < i /\ sessions[sessions[i].parent].user = sessions[i].user

\* A logout-all outlives everything that overlaps it: no session it saw is ever live
\* again, however many refreshes and logouts had read it before (auth.py:375-422).
SweptStaysRevoked ==
    \A u \in Users : \A i \in swept[u] : sessions[i].user = u /\ sessions[i].revoked

SessionsSafe == TypeOK /\ RotationRevokes /\ SweptStaysRevoked

\* "A revoked session must not allow a new token pair to be issued"
\* (models/entities.py:1686).
NoPairFromRevoked ==
    [][\A i \in DOMAIN sessions : Children(i)' # Children(i) => ~sessions[i].revoked]_sessions
================================================================================
