----------------------------- MODULE ReviewsProofs -----------------------------
(***************************************************************************)
(* Theorems about the subsystems of Reviews, for every value of their      *)
(* constants.  Each has an inductive invariant over its own variables; the *)
(* steps of the other eight leave those alone.                             *)
(***************************************************************************)
EXTENDS Reviews, FiniteSetTheorems, SequenceTheorems, WellFoundedInduction, TLAPS

--------------------------------------------------------------------------------
(* AuthSessions: accounts and sessions.                                       *)

AccountRows == [user : Users, revoked : BOOLEAN, expired : BOOLEAN, parent : Nat]

\* What a request carries from its reads to its commit still describes rows that exist:
\* a session keeps its user, and no row is ever removed.
ReadsHold ==
    /\ req = [t \in Threads |-> req[t]]
    /\ \A t \in Threads :
        /\ req[t].pc = "register" => req[t].user \in Users /\ req[t].role \in Auth!Roles
        /\ req[t].pc = "issue" =>
            /\ req[t].user \in Users /\ req[t].role \in Auth!Roles
            /\ req[t].session \in DOMAIN sessions \cup {0}
            /\ req[t].session # 0 => sessions[req[t].session].user = req[t].user
        /\ req[t].pc = "revoke" /\ req[t].user # None =>
            /\ req[t].user \in Users
            /\ \A i \in req[t].seen : sessions[i].user = req[t].user

SweptTyped == swept \in [Users -> SUBSET DOMAIN sessions]

AuthInv == Auth!SessionsSafe /\ ReadsHold /\ SweptTyped

--------------------------------------------------------------------------------
\* A step that keeps every session's user and parent and takes no revocation back.
LEMMA SessionsKept ==
    ASSUME Auth!RotationRevokes, DOMAIN sessions' = DOMAIN sessions,
           sessions \in Seq(AccountRows),
           \A i \in DOMAIN sessions : /\ sessions'[i].user = sessions[i].user
                                      /\ sessions'[i].parent = sessions[i].parent
                                      /\ sessions[i].revoked => sessions'[i].revoked
    PROVE  Auth!RotationRevokes'
<1>1. \A i \in DOMAIN sessions : Auth!Children(i)' = Auth!Children(i)
  BY DEF Auth!Children
<1>2. \A i \in DOMAIN sessions : sessions[i].parent \in Nat
  <2>1. \A i \in DOMAIN sessions : sessions[i] \in AccountRows
    OBVIOUS
  <2> QED
    BY <2>1 DEF AccountRows
<1>3. \A i \in DOMAIN sessions : sessions[i].parent # 0 =>
          sessions[i].parent < i /\ sessions[i].parent \in DOMAIN sessions
            /\ sessions[sessions[i].parent].user = sessions[i].user
  BY <1>2 DEF Auth!RotationRevokes
<1>4. \A i \in DOMAIN sessions : Auth!Children(i)' # {} => sessions'[i].revoked
  BY <1>1 DEF Auth!RotationRevokes
<1>5. \A i \in DOMAIN sessions : sessions'[i].parent # 0 =>
          sessions'[i].parent < i
            /\ sessions'[sessions'[i].parent].user = sessions'[i].user
  BY <1>3
<1> QED
  BY <1>4, <1>5 DEF Auth!RotationRevokes

\* Revoking some of the sessions.
LEMMA RevokedRows ==
    ASSUME sessions \in Seq(AccountRows), NEW S
    PROVE  /\ Auth!Revoked(S) \in Seq(AccountRows) /\ DOMAIN Auth!Revoked(S) = DOMAIN sessions
           /\ Len(Auth!Revoked(S)) = Len(sessions)
           /\ \A i \in DOMAIN sessions :
                /\ Auth!Revoked(S)[i].user = sessions[i].user
                /\ Auth!Revoked(S)[i].parent = sessions[i].parent
                /\ i \in S \/ sessions[i].revoked => Auth!Revoked(S)[i].revoked
<1>1. \A i \in DOMAIN sessions : sessions[i] \in AccountRows
  OBVIOUS
<1>2. \A i \in DOMAIN sessions :
          LET x == [sessions[i] EXCEPT !.revoked = TRUE] IN
          /\ x \in AccountRows /\ x.user = sessions[i].user /\ x.parent = sessions[i].parent
          /\ x.revoked
  BY <1>1 DEF AccountRows
<1>3. /\ DOMAIN Auth!Revoked(S) = DOMAIN sessions
      /\ \A i \in DOMAIN sessions :
            Auth!Revoked(S)[i] = IF i \in S THEN [sessions[i] EXCEPT !.revoked = TRUE]
                            ELSE sessions[i]
  BY DEF Auth!Revoked
<1>4. \A i \in DOMAIN sessions : Auth!Revoked(S)[i] \in AccountRows
  BY <1>1, <1>2, <1>3
<1>5. Auth!Revoked(S) \in Seq(AccountRows) /\ Len(Auth!Revoked(S)) = Len(sessions)
  <2> DEFINE q == Auth!Revoked(S)
  <2>1. q = [i \in 1..Len(sessions) |-> q[i]] /\ Len(sessions) \in Nat
    BY DEF Auth!Revoked
  <2>2. \A i \in 1..Len(sessions) : q[i] \in AccountRows
    BY <1>4
  <2> HIDE DEF q
  <2>3. q \in [1..Len(sessions) -> AccountRows]
    BY <2>1, <2>2
  <2>4. q \in Seq(AccountRows) /\ Len(q) = Len(sessions)
    BY <2>1, <2>3
  <2> QED
    BY <2>4 DEF q
<1>6. \A i \in DOMAIN sessions : i \in S \/ sessions[i].revoked => Auth!Revoked(S)[i].revoked
  BY <1>2, <1>3
<1>7. \A i \in DOMAIN sessions : /\ Auth!Revoked(S)[i].user = sessions[i].user
                                 /\ Auth!Revoked(S)[i].parent = sessions[i].parent
  BY <1>2, <1>3
<1> QED
  BY <1>3, <1>5, <1>6, <1>7

\* A request that has read, and one that ends.
LEMMA RequestRead ==
    ASSUME AuthInv, NEW t \in Threads, NEW r, req' = [req EXCEPT ![t] = r],
           UNCHANGED <<users, sessions, access, swept>>,
           r.seen \subseteq DOMAIN sessions,
           r.pc = "register" => r.user \in Users /\ r.role \in Auth!Roles,
           r.pc = "issue" =>
                /\ r.user \in Users /\ r.role \in Auth!Roles
                /\ r.session \in DOMAIN sessions \cup {0}
                /\ r.session # 0 => sessions[r.session].user = r.user,
           r.pc = "revoke" /\ r.user # None =>
                /\ r.user \in Users
                /\ \A i \in r.seen : sessions[i].user = r.user
    PROVE  AuthInv'
<1>1. /\ req'[t] = r /\ \A u \in Threads : u # t => req'[u] = req[u]
      /\ req' = [u \in Threads |-> req'[u]]
  BY DEF AuthInv, ReadsHold
<1>2. Auth!TypeOK'
  BY <1>1 DEF AuthInv, Auth!SessionsSafe, Auth!TypeOK
<1>3. Auth!RotationRevokes' /\ Auth!SweptStaysRevoked' /\ SweptTyped'
  BY DEF AuthInv, Auth!SessionsSafe, Auth!RotationRevokes, Auth!SweptStaysRevoked,
         SweptTyped, Auth!Children
<1>4. ReadsHold'
  BY <1>1 DEF AuthInv, ReadsHold
<1> QED
  BY <1>2, <1>3, <1>4 DEF AuthInv, Auth!SessionsSafe

\* A request ends, having changed sessions no more than by revoking and appending.
LEMMA RequestEnds ==
    ASSUME AuthInv, NEW t \in Threads, req' = [req EXCEPT ![t] = Auth!Idle],
           DOMAIN sessions \subseteq DOMAIN sessions',
           \A i \in DOMAIN sessions : sessions'[i].user = sessions[i].user
    PROVE  ReadsHold' /\ \A u \in Threads : req'[u].seen \subseteq DOMAIN sessions'
<1>1. /\ req'[t] = Auth!Idle /\ \A u \in Threads : u # t => req'[u] = req[u]
      /\ req' = [u \in Threads |-> req'[u]]
  BY DEF AuthInv, ReadsHold
<1>2. \A u \in Threads : req[u].seen \subseteq DOMAIN sessions
  BY DEF AuthInv, Auth!SessionsSafe, Auth!TypeOK
<1>3. \A u \in Threads : req'[u].seen \subseteq DOMAIN sessions'
  BY <1>1, <1>2 DEF Auth!Idle
<1>4. ReadsHold'
  BY <1>1, <1>2 DEF AuthInv, ReadsHold, Auth!Idle
<1> QED
  BY <1>3, <1>4

--------------------------------------------------------------------------------
LEMMA IssueKeeps ==
    ASSUME AuthInv, NEW t \in Threads, Auth!Issue(t)
    PROVE  AuthInv'
<1> DEFINE r == req[t]
           s == r.session
           old == Auth!Revoked({s})
           new == [user |-> r.user, revoked |-> FALSE, expired |-> FALSE, parent |-> s]
           n == Len(sessions) + 1
<1>0. Auth!TypeOK /\ Auth!RotationRevokes /\ Auth!SweptStaysRevoked /\ sessions \in Seq(AccountRows)
  BY DEF AuthInv, Auth!SessionsSafe, Auth!TypeOK, AccountRows
<1>1. /\ sessions' = Append(old, new) /\ UNCHANGED <<users, swept>>
      /\ access' = access \cup {[email |-> r.user, role |-> r.role]}
      /\ req' = [req EXCEPT ![t] = Auth!Idle]
  BY DEF Auth!Issue
<1>2. /\ r.user \in Users /\ r.role \in Auth!Roles /\ s \in DOMAIN sessions \cup {0}
      /\ s # 0 => sessions[s].user = r.user
  BY DEF Auth!Issue, AuthInv, ReadsHold
<1>3. DOMAIN sessions = 1..Len(sessions) /\ Len(sessions) \in Nat /\ s \in Nat /\ s < n
  BY <1>0, <1>2
<1>4. new \in AccountRows /\ new.user = r.user /\ ~new.revoked /\ new.parent = s
  BY <1>2, <1>3 DEF AccountRows
<1>5. /\ old \in Seq(AccountRows) /\ Len(old) = Len(sessions)
      /\ \A i \in DOMAIN sessions : /\ old[i].user = sessions[i].user
                                    /\ old[i].parent = sessions[i].parent
                                    /\ sessions[i].revoked \/ i = s => old[i].revoked
  BY <1>0, RevokedRows
<1> HIDE DEF old, new, r, s
<1>6. /\ sessions' \in Seq(AccountRows) /\ DOMAIN sessions' = DOMAIN sessions \cup {n}
      /\ \A i \in DOMAIN sessions : sessions'[i] = old[i] /\ i < n
      /\ sessions'[n] = new /\ n \in Nat
  BY <1>1, <1>3, <1>4, <1>5
<1>7. ReadsHold' /\ \A u \in Threads : req'[u].seen \subseteq DOMAIN sessions'
  BY <1>1, <1>5, <1>6, RequestEnds
<1>8. Auth!TypeOK'
  <2>1. access' \subseteq [email : Users, role : Auth!Roles]
    BY <1>0, <1>1, <1>2 DEF Auth!TypeOK
  <2> QED
    BY <1>0, <1>1, <1>6, <1>7, <2>1 DEF Auth!TypeOK, AccountRows
<1>9. \A i \in DOMAIN sessions : sessions[i].parent \in Nat /\ sessions[i].parent < i
  <2> SUFFICES ASSUME NEW i \in DOMAIN sessions
               PROVE  sessions[i].parent \in Nat /\ sessions[i].parent < i
    OBVIOUS
  <2>1. sessions[i] \in AccountRows
    BY <1>0
  <2>2. sessions[i].parent \in Nat
    BY <2>1 DEF AccountRows
  <2> QED
    BY <1>0, <1>3, <2>2 DEF Auth!RotationRevokes
<1>10. Auth!RotationRevokes'
  <2>1. ASSUME NEW i \in DOMAIN sessions', Auth!Children(i)' # {}
        PROVE  sessions'[i].revoked
    <3>1. PICK k \in DOMAIN sessions' : sessions'[k].parent = i
      BY <2>1 DEF Auth!Children
    <3>2. CASE k = n
      <4>1. i = s /\ i \in DOMAIN sessions
        BY <1>3, <1>4, <1>6, <2>1, <3>1, <3>2
      <4> QED
        BY <4>1, <1>5, <1>6
    <3>3. CASE k \in DOMAIN sessions
      <4>1. sessions[k].parent = i /\ i < k
        BY <1>5, <1>6, <1>9, <3>1, <3>3
      <4>2. i \in DOMAIN sessions /\ Auth!Children(i) # {}
        BY <1>3, <1>6, <2>1, <3>3, <4>1 DEF Auth!Children
      <4> QED
        BY <4>2, <1>0, <1>5, <1>6 DEF Auth!RotationRevokes
    <3> QED
      BY <3>2, <3>3, <1>6
  <2>2. ASSUME NEW i \in DOMAIN sessions', sessions'[i].parent # 0
        PROVE  /\ sessions'[i].parent < i
               /\ sessions'[sessions'[i].parent].user = sessions'[i].user
    <3>1. CASE i = n
      BY <3>1, <2>2, <1>2, <1>3, <1>4, <1>5, <1>6
    <3>2. CASE i \in DOMAIN sessions
      <4>1. sessions'[i].parent = sessions[i].parent /\ sessions'[i].user = sessions[i].user
        BY <3>2, <1>5, <1>6
      <4>2. sessions[i].parent \in DOMAIN sessions
        BY <1>3, <1>9, <2>2, <3>2, <4>1
      <4>3. sessions[sessions[i].parent].user = sessions[i].user
        BY <1>0, <2>2, <3>2, <4>1 DEF Auth!RotationRevokes
      <4> QED
        BY <1>5, <1>6, <1>9, <3>2, <4>1, <4>2, <4>3
    <3> QED
      BY <3>1, <3>2, <1>6
  <2> QED
    BY <2>1, <2>2 DEF Auth!RotationRevokes
<1>11. SweptTyped' /\ Auth!SweptStaysRevoked'
  <2>1. swept \in [Users -> SUBSET DOMAIN sessions]
    BY DEF AuthInv, SweptTyped
  <2> QED
    BY <1>0, <1>1, <1>5, <1>6, <2>1 DEF SweptTyped, Auth!SweptStaysRevoked
<1> QED
  BY <1>7, <1>8, <1>10, <1>11 DEF AuthInv, Auth!SessionsSafe

LEMMA RevokeKeeps ==
    ASSUME AuthInv, NEW t \in Threads, Auth!Revoke(t)
    PROVE  AuthInv'
<1> DEFINE r == req[t]
<1>0. /\ Auth!TypeOK /\ Auth!RotationRevokes /\ Auth!SweptStaysRevoked
      /\ sessions \in Seq(AccountRows)
      /\ swept \in [Users -> SUBSET DOMAIN sessions] /\ r.seen \subseteq DOMAIN sessions
  BY DEF AuthInv, Auth!SessionsSafe, Auth!TypeOK, AccountRows, SweptTyped
<1>1. /\ sessions' = Auth!Revoked(r.seen) /\ UNCHANGED <<users, access>>
      /\ swept' = IF r.user = None THEN swept
                  ELSE [swept EXCEPT ![r.user] = @ \cup r.seen]
      /\ req' = [req EXCEPT ![t] = Auth!Idle]
  BY DEF Auth!Revoke
<1>2. r.user # None => r.user \in Users /\ \A i \in r.seen : sessions[i].user = r.user
  BY DEF Auth!Revoke, AuthInv, ReadsHold
<1> HIDE DEF r
<1>3. /\ sessions' \in Seq(AccountRows) /\ DOMAIN sessions' = DOMAIN sessions
      /\ \A i \in DOMAIN sessions : /\ sessions'[i].user = sessions[i].user
                                    /\ sessions'[i].parent = sessions[i].parent
                                    /\ sessions[i].revoked \/ i \in r.seen
                                            => sessions'[i].revoked
  BY <1>0, <1>1, RevokedRows
<1>4. ReadsHold' /\ \A u \in Threads : req'[u].seen \subseteq DOMAIN sessions'
  BY <1>1, <1>3, RequestEnds
<1>5. Auth!TypeOK'
  BY <1>0, <1>1, <1>3, <1>4 DEF Auth!TypeOK, AccountRows
<1>6. Auth!RotationRevokes'
  BY <1>0, <1>3, SessionsKept
<1>7. SweptTyped' /\ Auth!SweptStaysRevoked'
  <2>1. CASE r.user = None
    BY <2>1, <1>0, <1>1, <1>3 DEF SweptTyped, Auth!SweptStaysRevoked
  <2>2. CASE r.user # None
    <3>1. /\ swept' \in [Users -> SUBSET DOMAIN sessions]
          /\ swept'[r.user] = swept[r.user] \cup r.seen
          /\ \A u \in Users : u # r.user => swept'[u] = swept[u]
      BY <2>2, <1>0, <1>1, <1>2
    <3>2. \A u \in Users : \A i \in swept[u] : i \in DOMAIN sessions
      BY <1>0
    <3> QED
      BY <2>2, <3>1, <3>2, <1>0, <1>2, <1>3 DEF SweptTyped, Auth!SweptStaysRevoked
  <2> QED
    BY <2>1, <2>2
<1> QED
  BY <1>4, <1>5, <1>6, <1>7 DEF AuthInv, Auth!SessionsSafe

LEMMA RegisterKeeps ==
    ASSUME AuthInv, NEW t \in Threads, Auth!Register(t)
    PROVE  AuthInv'
<1> DEFINE r == req[t]
<1>1. /\ UNCHANGED <<sessions, access, swept>> /\ req' = [req EXCEPT ![t] = Auth!Idle]
      /\ users' = IF r.user \in DOMAIN users THEN users
                  ELSE [u \in DOMAIN users \cup {r.user} |->
                          IF u = r.user THEN [role |-> r.role, active |-> TRUE] ELSE users[u]]
  BY DEF Auth!Register
<1>2. r.user \in Users /\ r.role \in Auth!Roles
  BY DEF Auth!Register, AuthInv, ReadsHold
<1> HIDE DEF r
<1>3. ReadsHold' /\ \A u \in Threads : req'[u].seen \subseteq DOMAIN sessions'
  BY <1>1, RequestEnds
<1>4. Auth!TypeOK'
  BY <1>1, <1>2, <1>3 DEF AuthInv, Auth!SessionsSafe, Auth!TypeOK
<1>5. Auth!RotationRevokes' /\ Auth!SweptStaysRevoked' /\ SweptTyped'
  BY <1>1
     DEF AuthInv, Auth!SessionsSafe, Auth!RotationRevokes, Auth!SweptStaysRevoked, SweptTyped,
         Auth!Children
<1> QED
  BY <1>3, <1>4, <1>5 DEF AuthInv, Auth!SessionsSafe

\* A request that reads.
LEMMA RequestReadKeeps ==
    ASSUME AuthInv, NEW t \in Threads
    PROVE  /\ \A u \in Users : Auth!ReadToLogin(t, u) => AuthInv'
           /\ \A u \in Users, role \in {"viewer", "owner"} :
                  Auth!ReadToRegister(t, u, role) => AuthInv'
           /\ \A i \in DOMAIN sessions :
                 Auth!ReadToRefresh(t, i) \/ Auth!ReadToLogout(t, i) => AuthInv'
           /\ \A a \in access : Auth!ReadToLogoutAll(t, a) => AuthInv'
           /\ Auth!Abort(t) => AuthInv'
<1>0. /\ Auth!Idle.seen = {} /\ Auth!Idle.user = None /\ Auth!Idle.session = 0
      /\ Auth!Idle.pc = "idle"
      /\ \A u \in DOMAIN users : u \in Users /\ users[u].role \in Auth!Roles
      /\ access \subseteq [email : Users, role : Auth!Roles]
      /\ \A i \in DOMAIN sessions : sessions[i].user \in Users
  <2>1. Auth!Idle.seen = {} /\ Auth!Idle.user = None /\ Auth!Idle.session = 0
        /\ Auth!Idle.pc = "idle"
    BY DEF Auth!Idle
  <2>2. Auth!TypeOK
    BY DEF AuthInv, Auth!SessionsSafe
  <2>3. \A u \in DOMAIN users : u \in Users /\ users[u] \in [role : Auth!Roles, active : BOOLEAN]
    BY <2>2 DEF Auth!TypeOK
  <2>4. sessions \in Seq(AccountRows) /\ access \subseteq [email : Users, role : Auth!Roles]
    BY <2>2 DEF Auth!TypeOK, AccountRows
  <2>5. \A i \in DOMAIN sessions : sessions[i] \in AccountRows
    BY <2>4
  <2>6. \A i \in DOMAIN sessions : sessions[i].user \in Users
    BY <2>5 DEF AccountRows
  <2> QED
    BY <2>1, <2>3, <2>4, <2>6
<1>1. ASSUME NEW u \in Users, Auth!ReadToLogin(t, u)
      PROVE  AuthInv'
  <2> DEFINE r == [Auth!Idle EXCEPT !.pc = "issue", !.user = u, !.role = users[u].role]
  <2>1. /\ req' = [req EXCEPT ![t] = r] /\ UNCHANGED <<users, sessions, access, swept>>
        /\ u \in DOMAIN users
    BY <1>1 DEF Auth!ReadToLogin, Auth!Known
  <2>2. r.pc = "issue" /\ r.user = u /\ r.role = users[u].role /\ r.session = 0 /\ r.seen = {}
    BY DEF Auth!Idle
  <2> HIDE DEF r
  <2> QED
    BY <1>0, <2>1, <2>2, RequestRead
<1>2. ASSUME NEW u \in Users, NEW role \in {"viewer", "owner"}, Auth!ReadToRegister(t, u, role)
      PROVE  AuthInv'
  <2> DEFINE q == IF DOMAIN users = {} THEN "owner" ELSE role
             r == [Auth!Idle EXCEPT !.pc = "register", !.user = u, !.role = q]
  <2>1. req' = [req EXCEPT ![t] = r] /\ UNCHANGED <<users, sessions, access, swept>>
    BY <1>2 DEF Auth!ReadToRegister
  <2>2. r.pc = "register" /\ r.user = u /\ r.role \in Auth!Roles /\ r.seen = {}
    BY DEF Auth!Idle, Auth!Roles
  <2> HIDE DEF r
  <2> QED
    BY <1>0, <2>1, <2>2, RequestRead
<1>3. ASSUME NEW i \in DOMAIN sessions, Auth!ReadToRefresh(t, i)
      PROVE  AuthInv'
  <2> DEFINE u == sessions[i].user
             r == [Auth!Idle EXCEPT !.pc = "issue", !.user = u, !.role = users[u].role,
                               !.session = i]
  <2>1. /\ req' = [req EXCEPT ![t] = r] /\ UNCHANGED <<users, sessions, access, swept>>
        /\ u \in DOMAIN users
    BY <1>3 DEF Auth!ReadToRefresh, Auth!Known
  <2>2. r.pc = "issue" /\ r.user = u /\ r.role = users[u].role /\ r.session = i /\ r.seen = {}
    BY DEF Auth!Idle
  <2>3. sessions[r.session].user = r.user /\ r.user \in Users /\ r.role \in Auth!Roles
    BY <1>0, <2>1, <2>2
  <2> HIDE DEF r
  <2> QED
    BY <2>1, <2>2, <2>3, RequestRead
<1>4. ASSUME NEW i \in DOMAIN sessions, Auth!ReadToLogout(t, i)
      PROVE  AuthInv'
  <2> DEFINE r == [Auth!Idle EXCEPT !.pc = "revoke", !.seen = {i}]
  <2>1. req' = [req EXCEPT ![t] = r] /\ UNCHANGED <<users, sessions, access, swept>>
    BY <1>4 DEF Auth!ReadToLogout
  <2>2. r.pc = "revoke" /\ r.user = None /\ r.seen = {i}
    BY DEF Auth!Idle
  <2> HIDE DEF r
  <2> QED
    BY <2>1, <2>2, RequestRead
<1>5. ASSUME NEW a \in access, Auth!ReadToLogoutAll(t, a)
      PROVE  AuthInv'
  <2> DEFINE S == {i \in DOMAIN sessions : sessions[i].user = a.email
                                           /\ ~sessions[i].revoked}
             r == [Auth!Idle EXCEPT !.pc = "revoke", !.user = a.email, !.seen = S]
  <2>1. /\ req' = [req EXCEPT ![t] = r] /\ UNCHANGED <<users, sessions, access, swept>>
        /\ a.email \in Users
    BY <1>0, <1>5 DEF Auth!ReadToLogoutAll, Auth!Known
  <2>2. r.pc = "revoke" /\ r.user = a.email /\ r.seen = S
    BY DEF Auth!Idle
  <2>3. S \subseteq DOMAIN sessions /\ \A i \in S : sessions[i].user = a.email
    OBVIOUS
  <2> HIDE DEF r, S
  <2> QED
    BY <2>1, <2>2, <2>3, RequestRead
<1>6. ASSUME Auth!Abort(t)
      PROVE  AuthInv'
  BY <1>0, <1>6, RequestRead DEF Auth!Abort
<1> QED
  BY <1>1, <1>2, <1>3, <1>4, <1>5, <1>6

\* A token expires; the rows stay.
LEMMA ExpireKeeps ==
    ASSUME AuthInv, Auth!Expire
    PROVE  AuthInv'
<1>0. /\ Auth!TypeOK /\ Auth!RotationRevokes /\ Auth!SweptStaysRevoked
      /\ sessions \in Seq(AccountRows)
      /\ swept \in [Users -> SUBSET DOMAIN sessions] /\ UNCHANGED <<users, swept, req>>
  BY DEF AuthInv, Auth!SessionsSafe, Auth!TypeOK, AccountRows, SweptTyped, Auth!Expire
<1>1. /\ sessions' \in Seq(AccountRows) /\ DOMAIN sessions' = DOMAIN sessions
      /\ \A i \in DOMAIN sessions : /\ sessions'[i].user = sessions[i].user
                                    /\ sessions'[i].parent = sessions[i].parent
                                    /\ sessions'[i].revoked = sessions[i].revoked
  <2>1. CASE UNCHANGED sessions
    BY <2>1, <1>0
  <2>2. ASSUME NEW k \in DOMAIN sessions, sessions' = [sessions EXCEPT ![k].expired = TRUE]
        PROVE  <1>1!1 /\ <1>1!2
    <3> DEFINE x == [sessions[k] EXCEPT !.expired = TRUE]
    <3>1. sessions[k] \in AccountRows
      BY <1>0
    <3>2. /\ x \in AccountRows /\ x.user = sessions[k].user /\ x.parent = sessions[k].parent
          /\ x.revoked = sessions[k].revoked
      BY <3>1 DEF AccountRows
    <3>3. sessions' = [sessions EXCEPT ![k] = x]
      BY <2>2
    <3> HIDE DEF x
    <3> QED
      BY <3>2, <3>3, <1>0
  <2> QED
    BY <2>1, <2>2 DEF Auth!Expire
<1>2. Auth!TypeOK'
  BY <1>0, <1>1 DEF Auth!Expire, Auth!TypeOK, AccountRows
<1>3. Auth!RotationRevokes'
  BY <1>0, <1>1, SessionsKept
<1>4. SweptTyped' /\ Auth!SweptStaysRevoked'
  <2>1. swept' = swept /\ \A u \in Users : swept[u] \subseteq DOMAIN sessions
    BY <1>0
  <2>2. SweptTyped'
    BY <1>0, <1>1 DEF SweptTyped
  <2>3. ASSUME NEW u \in Users, NEW i \in swept[u]
        PROVE  sessions'[i].user = u /\ sessions'[i].revoked
    BY <1>0, <1>1, <2>1 DEF Auth!SweptStaysRevoked
  <2> QED
    BY <2>1, <2>2, <2>3 DEF Auth!SweptStaysRevoked
<1>5. ReadsHold'
  <2>1. req' = req /\ \A t \in Threads : req[t].seen \subseteq DOMAIN sessions
    BY <1>0 DEF Auth!TypeOK
  <2>2. ASSUME NEW t \in Threads, NEW k \in DOMAIN sessions
        PROVE  sessions'[k].user = sessions[k].user
    BY <1>1
  <2>3. ReadsHold
    BY DEF AuthInv
  <2> QED
    BY <1>1, <2>1, <2>2, <2>3 DEF ReadsHold
<1> QED
  BY <1>2, <1>3, <1>4, <1>5 DEF AuthInv, Auth!SessionsSafe

\* The invariant is inductive.
LEMMA AuthNext == AuthInv /\ [Auth!Next]_authVars => AuthInv'
<1> SUFFICES ASSUME AuthInv, [Auth!Next]_authVars
             PROVE  AuthInv'
  OBVIOUS
<1>1. ASSUME UNCHANGED <<sessions, access, swept, req>>, Auth!TypeOK'
      PROVE  AuthInv'
  <2>1. Auth!RotationRevokes' /\ Auth!SweptStaysRevoked'
    BY <1>1
       DEF AuthInv, Auth!SessionsSafe, Auth!RotationRevokes, Auth!SweptStaysRevoked, Auth!Children
  <2>2. SweptTyped' /\ ReadsHold'
    BY <1>1 DEF AuthInv, SweptTyped, ReadsHold
  <2> QED
    BY <1>1, <2>1, <2>2 DEF AuthInv, Auth!SessionsSafe
<1>2. CASE UNCHANGED authVars
  <2>1. Auth!TypeOK'
    BY <1>2 DEF AuthInv, Auth!SessionsSafe, Auth!TypeOK, authVars
  <2> QED
    BY <1>1, <1>2, <2>1 DEF authVars
<1>3. ASSUME NEW u \in Users, Auth!SetActive(u)
      PROVE  AuthInv'
  <2>1. Auth!TypeOK'
    BY <1>3 DEF AuthInv, Auth!SessionsSafe, Auth!TypeOK, Auth!SetActive
  <2> QED
    BY <1>1, <1>3, <2>1 DEF Auth!SetActive
<1>4. CASE Auth!Next
  BY <1>3, <1>4, RequestReadKeeps, RegisterKeeps, IssueKeeps, RevokeKeeps, ExpireKeeps, Zenon
     DEF Auth!Next
<1> QED
  BY <1>2, <1>4

\* There is no account, no session and no request at the start.
LEMMA AuthInit == Auth!Init => AuthInv
<1> SUFFICES ASSUME Auth!Init
             PROVE  AuthInv
  OBVIOUS
<1>1. /\ DOMAIN users = {} /\ sessions = <<>> /\ access = {}
      /\ swept = [u \in Users |-> {}] /\ req = [t \in Threads |-> Auth!Idle]
  BY DEF Auth!Init
<1>2. Auth!TypeOK
  BY <1>1 DEF Auth!TypeOK, Auth!Idle
<1>3. Auth!RotationRevokes /\ Auth!SweptStaysRevoked /\ SweptTyped /\ ReadsHold
  BY <1>1 DEF Auth!RotationRevokes, Auth!SweptStaysRevoked, SweptTyped, ReadsHold, Auth!Idle
<1> QED
  BY <1>2, <1>3 DEF AuthInv, Auth!SessionsSafe

--------------------------------------------------------------------------------
(* AIReview: items, their log and their publications.                         *)

DraftRows    == [of : AI!SourceTexts, status : AI!Statuses,
            recommend : {"safe_auto_publish", "review_required", "block"}]
Actions == AI!Transitions \cup {"published"}
ActionRows   == [item : DOMAIN drafts, action : Actions]
EventRows == [item : DOMAIN drafts, link : {"x", "y", None}]

\* A request between its reads and its commit: what it read of an item never changes
\* (an item keeps its text, the log and the sources only grow).
DraftsHold ==
    /\ reviews = [s \in Sessions |-> reviews[s]]
    /\ \A s \in Sessions : reviews[s].pc = "commit" =>
        /\ reviews[s].item \in DOMAIN drafts
        /\ reviews[s].to \in Actions
        /\ reviews[s].fresh \in BOOLEAN
        /\ reviews[s].fresh => reviews[s].to = "published" /\ drafts[reviews[s].item].of.link # None
        /\ reviews[s].to = "published" =>
            /\ drafts[reviews[s].item].of.risk = "none"
            /\ ~drafts[reviews[s].item].of.crime
            /\ drafts[reviews[s].item].of.whole
            /\ AI!Logged(reviews[s].item, "approved") # {}
            /\ reviews[s].fresh \/ drafts[reviews[s].item].of.link \in links \cup {None}

\* An item is approved only by an approval.
ApprovalIsLogged ==
    \A i \in DOMAIN drafts : drafts[i].status = "approved" => AI!Logged(i, "approved") # {}

AIInv == /\ AI!TypeOK
         /\ DraftsHold
         /\ ApprovalIsLogged
         /\ AI!EventsAreLogged
         /\ AI!PublishedWasApproved
         /\ AI!HeldBack
         /\ AI!LogTellsStatus

--------------------------------------------------------------------------------
\* Appending to a sequence.
LEMMA Appended ==
    ASSUME NEW S, NEW q \in Seq(S), NEW x \in S
    PROVE  /\ Append(q, x) \in Seq(S)
           /\ DOMAIN Append(q, x) = DOMAIN q \cup {Len(q) + 1}
           /\ Len(q) + 1 \notin DOMAIN q
           /\ Append(q, x)[Len(q) + 1] = x
           /\ \A k \in DOMAIN q : Append(q, x)[k] = q[k] /\ k < Len(q) + 1
           /\ \A k \in DOMAIN q : q[k] \in S
  OBVIOUS

\* The elements of a sequence, and a wider range for them.
LEMMA Elements ==
    ASSUME NEW S, NEW T, NEW q \in Seq(S)
    PROVE  /\ \A k \in DOMAIN q : q[k] \in S
           /\ S \subseteq T => q \in Seq(T)
  OBVIOUS

\* The indices of a sequence that satisfy something are finitely many.
LEMMA IndicesFinite ==
    ASSUME NEW S, NEW q \in Seq(S), NEW I, I \subseteq DOMAIN q
    PROVE  IsFiniteSet(I)
<1>1. IsFiniteSet(1 .. Len(q)) /\ DOMAIN q = 1 .. Len(q)
  BY FS_Interval
<1> QED
  BY <1>1, FS_Subset

\* The models that count sets count alike.
LEMMA SameCardinality ==
    /\ \A S : AI!Cardinality(S) = Cardinality(S)
    /\ \A S : Gate!Cardinality(S) = Cardinality(S)
    /\ \A S : Gate!IsFiniteSet(S) <=> IsFiniteSet(S)
  BY DEF AI!Cardinality, Gate!Cardinality, Gate!IsFiniteSet, Cardinality, IsFiniteSet

\* Inserting an item.
LEMMA ProcessKeeps ==
    ASSUME AIInv, Sources \subseteq AI!SourceTexts, NEW x \in Sources, AI!Process(x)
    PROVE  AIInv'
<1> DEFINE row == [of |-> x, recommend |-> AI!Recommendation(x),
                   status |-> IF AI!Recommendation(x) = "block" THEN "blocked" ELSE "pending"]
<1>1. drafts' = Append(drafts, row) /\ UNCHANGED <<log, events, links, reviews, crossed>>
  BY DEF AI!Process
<1>2. AI!Recommendation(x) \in {"safe_auto_publish", "review_required", "block"}
  BY DEF AI!Recommendation, AI!Redacted
<1>3. row \in DraftRows /\ row.status # "approved"
  BY <1>2 DEF DraftRows, AI!Statuses, AI!Transitions
<1>4. AI!TypeOK
  BY DEF AIInv
<1>5. drafts \in Seq(DraftRows)
  BY <1>4 DEF AI!TypeOK, DraftRows
<1> HIDE DEF row
<1>6. /\ drafts' \in Seq(DraftRows) /\ DOMAIN drafts' = DOMAIN drafts \cup {Len(drafts) + 1}
      /\ drafts'[Len(drafts) + 1] = row /\ Len(drafts) + 1 \notin DOMAIN drafts
      /\ \A i \in DOMAIN drafts : drafts'[i] = drafts[i]
  BY <1>1, <1>3, <1>5, Appended
<1>7. log \in Seq(ActionRows) /\ events \in Seq(EventRows)
  BY <1>4 DEF AI!TypeOK, Actions, ActionRows, EventRows
<1>8. /\ \A k \in DOMAIN log : log[k] \in ActionRows
      /\ \A k \in DOMAIN events : events[k] \in EventRows
  BY <1>7, Elements
<1>9. AI!TypeOK'
  <2>1. ActionRows \subseteq ActionRows' /\ EventRows \subseteq EventRows'
    BY <1>6 DEF ActionRows, EventRows
  <2>2. log \in Seq(ActionRows') /\ events \in Seq(EventRows')
    BY <1>7, <2>1, Elements
  <2> QED
    BY <1>1, <1>4, <1>6, <2>2 DEF AI!TypeOK, DraftRows, Actions, ActionRows, EventRows
<1>10. \A i, a : AI!Logged(i, a)' = AI!Logged(i, a) /\ AI!EventsOf(i)' = AI!EventsOf(i)
  BY <1>1 DEF AI!Logged, AI!EventsOf
<1>11. \A a : AI!Logged(Len(drafts) + 1, a) = {} /\ AI!EventsOf(Len(drafts) + 1) = {}
  BY <1>6, <1>8 DEF AI!Logged, AI!EventsOf, ActionRows, EventRows
<1>12. DraftsHold'
  BY <1>1, <1>6, <1>10 DEF AIInv, DraftsHold
<1>13. ApprovalIsLogged'
  BY <1>1, <1>3, <1>6, <1>10 DEF AIInv, ApprovalIsLogged
<1>14. AI!EventsAreLogged'
  BY <1>1, <1>6, <1>10, <1>11 DEF AIInv, AI!EventsAreLogged
<1>15. AI!PublishedWasApproved'
  BY <1>1, <1>6, <1>10, <1>11 DEF AIInv, AI!PublishedWasApproved
<1>16. AI!HeldBack'
  BY <1>1, <1>6, <1>8 DEF AIInv, AI!HeldBack, EventRows
<1>17. AI!LogTellsStatus'
  <2> SUFFICES ASSUME NEW i \in DOMAIN drafts' \ crossed, NEW k \in DOMAIN log,
                      log[k].item = i, \A l \in DOMAIN log : k < l => log[l].item # i
               PROVE  drafts'[i].status = log[k].action
    BY <1>1 DEF AI!LogTellsStatus
  <2>1. i \in DOMAIN drafts
    BY <1>8 DEF ActionRows
  <2> QED
    BY <1>6, <2>1 DEF AIInv, AI!LogTellsStatus
<1> QED
  BY <1>9, <1>12, <1>13, <1>14, <1>15, <1>16, <1>17 DEF AIInv

\* A request that only reads, or that ends without a trace.
LEMMA RequestKeeps ==
    ASSUME AIInv, NEW s \in Sessions, NEW r, reviews' = [reviews EXCEPT ![s] = r],
           UNCHANGED <<drafts, log, events, links, crossed>>,
           r.pc = "commit" =>
             /\ r.item \in DOMAIN drafts /\ r.to \in Actions /\ r.fresh \in BOOLEAN
             /\ r.fresh => r.to = "published" /\ drafts[r.item].of.link # None
             /\ r.to = "published" =>
                  /\ drafts[r.item].of.risk = "none"
                  /\ ~drafts[r.item].of.crime
                  /\ drafts[r.item].of.whole
                  /\ AI!Logged(r.item, "approved") # {}
                  /\ r.fresh \/ drafts[r.item].of.link \in links \cup {None}
    PROVE  AIInv'
<1>1. \A i, a : AI!Logged(i, a)' = AI!Logged(i, a) /\ AI!EventsOf(i)' = AI!EventsOf(i)
  BY DEF AI!Logged, AI!EventsOf
<1>2. /\ reviews' = [u \in Sessions |-> reviews'[u]]
      /\ reviews'[s] = r /\ \A u \in Sessions : u # s => reviews'[u] = reviews[u]
  BY DEF AIInv, DraftsHold
<1>3. DraftsHold'
  BY <1>1, <1>2 DEF AIInv, DraftsHold
<1>4. /\ AI!TypeOK' /\ ApprovalIsLogged' /\ AI!EventsAreLogged' /\ AI!PublishedWasApproved'
      /\ AI!HeldBack' /\ AI!LogTellsStatus'
  BY <1>1
     DEF AIInv, AI!LogTellsStatus, AI!TypeOK, ApprovalIsLogged, AI!EventsAreLogged,
         AI!PublishedWasApproved, AI!HeldBack
<1> QED
  BY <1>3, <1>4 DEF AIInv

LEMMA ReviewReadKeeps ==
    ASSUME AIInv, NEW s \in Sessions, NEW i \in DOMAIN drafts
    PROVE  /\ \A to \in AI!Transitions : AI!ReadToTransition(s, i, to) => AIInv'
           /\ AI!ReadToPublish(s, i) => AIInv'
           /\ AI!Rollback(s) => AIInv'
<1>1. ASSUME NEW to \in AI!Transitions, AI!ReadToTransition(s, i, to)
      PROVE  AIInv'
  <2> DEFINE r == [pc |-> "commit", item |-> i, was |-> drafts[i].status,
                   to |-> to, fresh |-> FALSE]
  <2>1. reviews' = [reviews EXCEPT ![s] = r] /\ UNCHANGED <<drafts, log, events, links, crossed>>
    BY <1>1 DEF AI!ReadToTransition
  <2>2. r.item = i /\ r.to = to /\ r.fresh = FALSE /\ to # "published" /\ to \in Actions
    BY DEF Actions, AI!Transitions
  <2> HIDE DEF r
  <2> QED
    BY <2>1, <2>2, RequestKeeps
<1>2. ASSUME AI!ReadToPublish(s, i)
      PROVE  AIInv'
  <2> DEFINE f == drafts[i].of.link \notin links \cup {None}
             r == [pc |-> "commit", item |-> i, was |-> drafts[i].status,
                   to |-> "published", fresh |-> f]
  <2>1. /\ reviews' = [reviews EXCEPT ![s] = r] /\ UNCHANGED <<drafts, log, events, links, crossed>>
        /\ AI!Publishable(i)
    BY <1>2 DEF AI!ReadToPublish
  <2>2. r.item = i /\ r.to = "published" /\ r.to \in Actions
    BY DEF Actions
  <2>3. r.fresh \in BOOLEAN
    OBVIOUS
  <2>4. r.fresh <=> drafts[i].of.link \notin links \cup {None}
    OBVIOUS
  <2>5. AI!Logged(i, "approved") # {}
    BY <2>1 DEF AIInv, ApprovalIsLogged, AI!Publishable
  <2>6. drafts[i].of.risk = "none" /\ ~drafts[i].of.crime /\ drafts[i].of.whole
    BY <2>1 DEF AI!Publishable
  <2> HIDE DEF r, f
  <2> QED
    BY <2>1, <2>2, <2>3, <2>4, <2>5, <2>6, RequestKeeps
<1>3. ASSUME AI!Rollback(s)
      PROVE  AIInv'
  <2>1. AI!Idle.pc # "commit"
    BY DEF AI!Idle
  <2> QED
    BY <1>3, <2>1, RequestKeeps DEF AI!Rollback
<1> QED
  BY <1>1, <1>2, <1>3

\* The commit of a decision or a publication.
LEMMA ReviewCommitKeeps ==
    ASSUME AIInv, NEW s \in Sessions, AI!Commit(s)
    PROVE  AIInv'
<1>0. AI!TypeOK /\ DraftsHold /\ ApprovalIsLogged /\ AI!EventsAreLogged
      /\ AI!PublishedWasApproved /\ AI!HeldBack /\ AI!LogTellsStatus
  BY DEF AIInv
<1> DEFINE i    == reviews[s].item
           to   == reviews[s].to
           link == drafts[i].of.link
           q    == IF to = reviews[s].was THEN drafts[i].status ELSE to
           row  == [drafts[i] EXCEPT !.status = q]
           rec  == [item |-> i, action |-> to]
           ev   == [item |-> i, link |-> link]
<1>1. /\ reviews[s].pc = "commit"
      /\ drafts' = [drafts EXCEPT ![i] = row]
      /\ log' = Append(log, rec)
      /\ events' = IF to = "published" THEN Append(events, ev) ELSE events
      /\ links' = IF reviews[s].fresh THEN links \cup {link} ELSE links
      /\ crossed' = crossed \cup {k \in {i} : drafts[k].status # reviews[s].was}
      /\ reviews' = [reviews EXCEPT ![s] = AI!Idle]
  BY DEF AI!Commit
<1>2. /\ i \in DOMAIN drafts /\ to \in Actions /\ reviews[s].fresh \in BOOLEAN
      /\ reviews[s].fresh => to = "published" /\ link # None
      /\ to = "published" => /\ drafts[i].of.risk = "none"
                             /\ ~drafts[i].of.crime
                             /\ drafts[i].of.whole
                             /\ AI!Logged(i, "approved") # {}
                             /\ reviews[s].fresh \/ link \in links \cup {None}
  BY <1>0, <1>1 DEF DraftsHold
<1>3. drafts \in Seq(DraftRows)
  BY <1>0 DEF AI!TypeOK, DraftRows
<1>4. drafts[i] \in DraftRows
  BY <1>2, <1>3
<1>5. q \in AI!Statuses
  <2>1. drafts[i].status \in AI!Statuses
    BY <1>4 DEF DraftRows
  <2> QED
    BY <1>2, <2>1 DEF Actions, AI!Statuses, AI!Transitions
<1>6. /\ row \in DraftRows /\ row.of = drafts[i].of /\ row.status = q
  BY <1>4, <1>5 DEF DraftRows
<1>7. link \in {"x", "y", None}
  <2>1. drafts[i].of \in AI!SourceTexts
    BY <1>4 DEF DraftRows
  <2> QED
    BY <2>1 DEF AI!SourceTexts
<1>8. rec \in ActionRows /\ rec.item = i /\ rec.action = to
  BY <1>2 DEF ActionRows
<1>9. ev \in EventRows /\ ev.item = i /\ ev.link = link
  BY <1>2, <1>7 DEF EventRows
<1>10. /\ log \in Seq(ActionRows) /\ events \in Seq(EventRows)
       /\ links \subseteq {"x", "y"} /\ crossed \subseteq DOMAIN drafts
  BY <1>0 DEF AI!TypeOK, Actions, ActionRows, EventRows
<1>11. \A j, a : rec = [item |-> j, action |-> a] <=> j = i /\ a = to
  OBVIOUS
<1> HIDE DEF row, rec, ev, q
<1>12. /\ drafts' \in Seq(DraftRows) /\ DOMAIN drafts' = DOMAIN drafts
       /\ drafts'[i] = row /\ \A k \in DOMAIN drafts : k # i => drafts'[k] = drafts[k]
       /\ \A k \in DOMAIN drafts : drafts'[k].of = drafts[k].of
  BY <1>1, <1>2, <1>3, <1>6
<1> HIDE DEF i, to, link
<1>13. /\ log' \in Seq(ActionRows)
       /\ DOMAIN log' = DOMAIN log \cup {Len(log) + 1} /\ Len(log) + 1 \notin DOMAIN log
       /\ log'[Len(log) + 1] = rec
       /\ \A k \in DOMAIN log : log'[k] = log[k] /\ k < Len(log) + 1
  BY <1>1, <1>8, <1>10, Appended
<1>14. \A j, a : AI!Logged(j, a)' = AI!Logged(j, a) \cup {k \in {Len(log) + 1} : j = i /\ a = to}
  BY <1>11, <1>13 DEF AI!Logged
<1>15. /\ to = "published" =>
            /\ events' \in Seq(EventRows)
            /\ DOMAIN events' = DOMAIN events \cup {Len(events) + 1}
            /\ Len(events) + 1 \notin DOMAIN events
            /\ events'[Len(events) + 1] = ev
            /\ \A k \in DOMAIN events : events'[k] = events[k]
       /\ to # "published" => events' = events
  BY <1>1, <1>9, <1>10, Appended
<1>16. \A j : AI!EventsOf(j)' = AI!EventsOf(j)
                              \cup {k \in {Len(events) + 1} : j = i /\ to = "published"}
  <2>1. CASE to = "published"
    BY <1>9, <1>15, <2>1 DEF AI!EventsOf
  <2>2. CASE to # "published"
    BY <1>15, <2>2 DEF AI!EventsOf
  <2> QED
    BY <2>1, <2>2
<1>17. links' \subseteq {"x", "y"} /\ links \subseteq links'
  BY <1>1, <1>2, <1>7, <1>10
<1>18. AI!TypeOK'
  <2>1. ActionRows' = ActionRows /\ EventRows' = EventRows
    BY <1>12 DEF ActionRows, EventRows
  <2>2. log' \in Seq(ActionRows') /\ events' \in Seq(EventRows')
    BY <1>10, <1>13, <1>15, <2>1
  <2>3. crossed' \subseteq DOMAIN drafts'
    BY <1>1, <1>2, <1>10, <1>12
  <2> QED
    BY <1>12, <1>17, <2>2, <2>3 DEF AI!TypeOK, DraftRows, Actions, ActionRows, EventRows
<1>19. DraftsHold'
  <2>1. /\ reviews' = [u \in Sessions |-> reviews'[u]] /\ reviews'[s] = AI!Idle
        /\ \A u \in Sessions : u # s => reviews'[u] = reviews[u]
    BY <1>0, <1>1 DEF DraftsHold
  <2>2. AI!Idle.pc # "commit"
    BY DEF AI!Idle
  <2>3. \A j \in DOMAIN drafts : AI!Logged(j, "approved") # {} => AI!Logged(j, "approved")' # {}
    BY <1>14
  <2>4. ASSUME NEW u \in Sessions, reviews'[u].pc = "commit"
        PROVE  /\ u # s /\ reviews'[u] = reviews[u] /\ reviews[u].item \in DOMAIN drafts
               /\ drafts'[reviews[u].item].of = drafts[reviews[u].item].of
    BY <1>0, <1>12, <2>1, <2>2, <2>4 DEF DraftsHold
  <2>5. ASSUME NEW u \in Sessions, reviews[u].to = "published", reviews'[u].pc = "commit"
        PROVE  /\ drafts[reviews[u].item].of.risk = "none"
               /\ ~drafts[reviews[u].item].of.crime
               /\ drafts[reviews[u].item].of.whole
               /\ AI!Logged(reviews[u].item, "approved")' # {}
               /\ reviews[u].fresh \/ drafts[reviews[u].item].of.link \in links' \cup {None}
    BY <1>0, <1>17, <2>3, <2>4, <2>5 DEF DraftsHold
  <2>6. ASSUME NEW u \in Sessions, reviews'[u].pc = "commit"
        PROVE  /\ reviews[u].to \in Actions /\ reviews[u].fresh \in BOOLEAN
               /\ reviews[u].fresh =>
                    reviews[u].to = "published" /\ drafts[reviews[u].item].of.link # None
    BY <1>0, <2>4, <2>6 DEF DraftsHold
  <2> QED
    BY <1>12, <2>1, <2>4, <2>5, <2>6 DEF DraftsHold
<1>20. ApprovalIsLogged'
  <2> SUFFICES ASSUME NEW j \in DOMAIN drafts, drafts'[j].status = "approved"
               PROVE  AI!Logged(j, "approved")' # {}
    BY <1>12 DEF ApprovalIsLogged
  <2>1. CASE drafts[j].status = "approved"
    BY <1>0, <1>14, <2>1 DEF ApprovalIsLogged
  <2>2. CASE drafts[j].status # "approved"
    <3>1. j = i /\ q = "approved"
      BY <1>6, <1>12, <2>2
    <3>2. to = "approved"
      BY <2>2, <3>1 DEF q, i, to
    <3> QED
      BY <1>14, <3>1, <3>2
  <2> QED
    BY <2>1, <2>2
<1>21. AI!EventsAreLogged'
  <2>1. ASSUME NEW j \in DOMAIN drafts
        PROVE  Cardinality(AI!EventsOf(j)') = Cardinality(AI!Logged(j, "published")')
    <3>1. Cardinality(AI!EventsOf(j)) = Cardinality(AI!Logged(j, "published"))
      BY <1>0, SameCardinality DEF AI!EventsAreLogged
    <3>2. IsFiniteSet(AI!EventsOf(j)) /\ IsFiniteSet(AI!Logged(j, "published"))
      BY <1>10, IndicesFinite DEF AI!EventsOf, AI!Logged
    <3>3. CASE j = i /\ to = "published"
      <4>1. /\ AI!EventsOf(j)' = AI!EventsOf(j) \cup {Len(events) + 1}
            /\ AI!Logged(j, "published")' = AI!Logged(j, "published") \cup {Len(log) + 1}
        BY <1>14, <1>16, <3>3
      <4>2. Len(events) + 1 \notin AI!EventsOf(j) /\ Len(log) + 1 \notin AI!Logged(j, "published")
        BY <1>13, <1>15, <3>3 DEF AI!EventsOf, AI!Logged
      <4>3. /\ Cardinality(AI!EventsOf(j) \cup {Len(events) + 1}) = Cardinality(AI!EventsOf(j)) + 1
            /\ Cardinality(AI!Logged(j, "published") \cup {Len(log) + 1})
                = Cardinality(AI!Logged(j, "published")) + 1
        BY <3>2, <4>2, FS_AddElement
      <4> QED
        BY <3>1, <4>1, <4>3
    <3>4. CASE ~(j = i /\ to = "published")
      BY <1>14, <1>16, <3>1, <3>4
    <3> QED
      BY <3>3, <3>4
  <2>2. ASSUME NEW k \in DOMAIN events'
        PROVE  events'[k].link \in links' \cup {None}
    <3>1. CASE k \in DOMAIN events /\ events'[k] = events[k]
      BY <1>0, <1>17, <3>1 DEF AI!EventsAreLogged
    <3>2. CASE to = "published" /\ events'[k] = ev
      BY <1>1, <1>2, <1>9, <1>17, <3>2
    <3> QED
      BY <1>15, <3>1, <3>2
  <2> QED
    BY <1>12, <2>1, <2>2, SameCardinality DEF AI!EventsAreLogged
<1>22. AI!PublishedWasApproved'
  <2> SUFFICES ASSUME NEW j \in DOMAIN drafts, NEW k \in AI!Logged(j, "published")'
               PROVE  \E m \in AI!Logged(j, "approved")' : m < k
    BY <1>12 DEF AI!PublishedWasApproved
  <2>1. AI!Logged(j, "approved") \subseteq AI!Logged(j, "approved")'
    BY <1>14
  <2>2. CASE k \in AI!Logged(j, "published")
    BY <1>0, <2>1, <2>2 DEF AI!PublishedWasApproved, AI!Logged
  <2>3. CASE k \notin AI!Logged(j, "published")
    <3>1. k = Len(log) + 1 /\ j = i /\ to = "published"
      BY <1>14, <2>3
    <3>2. PICK m \in AI!Logged(j, "approved") : TRUE
      BY <1>2, <3>1
    <3>3. m < k
      BY <1>13, <3>1, <3>2 DEF AI!Logged
    <3> QED
      BY <2>1, <3>2, <3>3
  <2> QED
    BY <2>2, <2>3
<1>23. AI!HeldBack'
  <2> SUFFICES ASSUME NEW k \in DOMAIN events'
               PROVE  LET x == drafts'[events'[k].item].of
                      IN  x.risk = "none" /\ ~x.crime /\ x.whole
    BY DEF AI!HeldBack
  <2>1. CASE k \in DOMAIN events /\ events'[k] = events[k]
    <3>1. events[k] \in EventRows
      BY <1>10, <2>1, Elements
    <3>2. events[k].item \in DOMAIN drafts
      BY <3>1 DEF EventRows
    <3> QED
      BY <1>0, <1>12, <2>1, <3>2 DEF AI!HeldBack
  <2>2. CASE to = "published" /\ events'[k] = ev
    BY <1>2, <1>9, <1>12, <2>2
  <2> QED
    BY <1>15, <2>1, <2>2
<1>24. AI!LogTellsStatus'
  <2> SUFFICES ASSUME NEW j \in DOMAIN drafts \ crossed', NEW k \in DOMAIN log',
                      log'[k].item = j, \A l \in DOMAIN log' : k < l => log'[l].item # j
               PROVE  drafts'[j].status = log'[k].action
    BY <1>12 DEF AI!LogTellsStatus
  <2>1. j \notin crossed /\ (j = i => drafts[i].status = reviews[s].was)
    BY <1>1
  <2>2. CASE k = Len(log) + 1
    BY <1>6, <1>8, <1>12, <1>13, <2>1, <2>2 DEF q, i, to
  <2>3. CASE k \in DOMAIN log
    <3>1. j # i /\ log[k] = log'[k] /\ \A l \in DOMAIN log : k < l => log[l].item # j
      BY <1>8, <1>13, <2>3
    <3> QED
      BY <1>0, <1>12, <2>1, <2>3, <3>1 DEF AI!LogTellsStatus
  <2> QED
    BY <1>13, <2>2, <2>3
<1> QED
  BY <1>18, <1>19, <1>20, <1>21, <1>22, <1>23, <1>24 DEF AIInv

--------------------------------------------------------------------------------
\* The invariant is inductive.
LEMMA AINext ==
    ASSUME Sources \subseteq AI!SourceTexts
    PROVE  AIInv /\ [AI!Next]_aiVars => AIInv'
<1> SUFFICES ASSUME AIInv, [AI!Next]_aiVars
             PROVE  AIInv'
  OBVIOUS
<1>1. CASE UNCHANGED aiVars
  <2>1. \A i, a : AI!Logged(i, a)' = AI!Logged(i, a) /\ AI!EventsOf(i)' = AI!EventsOf(i)
    BY <1>1 DEF AI!Logged, AI!EventsOf, aiVars
  <2>2. UNCHANGED <<drafts, log, events, links, reviews, crossed>>
    BY <1>1 DEF aiVars
  <2> QED
    BY <2>1, <2>2 DEF AIInv, AI!TypeOK, DraftsHold, ApprovalIsLogged, AI!EventsAreLogged,
                      AI!PublishedWasApproved, AI!HeldBack, AI!LogTellsStatus
<1>2. ASSUME NEW s \in Sessions, AI!Rollback(s)
      PROVE  AIInv'
  <2>1. AI!Idle.pc # "commit"
    BY DEF AI!Idle
  <2> QED
    BY <1>2, <2>1, RequestKeeps DEF AI!Rollback
<1>3. CASE AI!Next
  BY <1>2, <1>3, ProcessKeeps, ReviewReadKeeps, ReviewCommitKeeps, Zenon DEF AI!Next
<1> QED
  BY <1>1, <1>3

\* There is no item at the start.
LEMMA AIInit == AI!Init => AIInv
<1> SUFFICES ASSUME AI!Init
             PROVE  AIInv
  OBVIOUS
<1>1. /\ drafts = <<>> /\ log = <<>> /\ events = <<>> /\ links = {} /\ crossed = {}
      /\ reviews = [s \in Sessions |-> AI!Idle]
  BY DEF AI!Init
<1>2. AI!TypeOK
  BY <1>1 DEF AI!TypeOK
<1>3. /\ ApprovalIsLogged /\ AI!EventsAreLogged /\ AI!PublishedWasApproved /\ AI!HeldBack
      /\ AI!LogTellsStatus
  BY <1>1
     DEF AI!LogTellsStatus, ApprovalIsLogged, AI!EventsAreLogged, AI!PublishedWasApproved,
         AI!HeldBack
<1>4. DraftsHold
  BY <1>1 DEF DraftsHold, AI!Idle
<1> QED
  BY <1>2, <1>3, <1>4 DEF AIInv

--------------------------------------------------------------------------------
(* Correctness: the checks and the source verification.                       *)

\* No check is ever stored: the request that runs one rolls back.
ChecksInv == Checks!TypeOK /\ checks = <<>> /\ requests = [s \in Sessions |-> requests[s]]

\* Whatever the rows say, a twin and what is private or unsupported is hidden.
LEMMA VerdictsHide ==
    /\ Checks!TwinsHidden
    /\ Checks!UnsafeHidden
<1>1. ASSUME NEW i \in DOMAIN records, NEW j \in DOMAIN records, i # j,
             records[i].kind = "crime_incident", records[j].kind = "crime_incident",
             \/ records[i].url # None /\ records[i].url = records[j].url
             \/ records[i].key # None /\ records[i].key = records[j].key
      PROVE  ~Checks!SafeToShow(Checks!Verdict(i))
  <2>1. j \in Checks!Others(i)
    BY <1>1 DEF Checks!Others
  <2>2. Checks!Duplicates(i) # {}
    BY <1>1, <2>1 DEF Checks!Duplicates
  <2>3. Checks!Verdict(i) \in {"rejected", "duplicate_candidate"}
    BY <2>2 DEF Checks!Verdict, Checks!PrivacyHigh, Checks!SourceSupports
  <2> QED
    BY <2>3 DEF Checks!SafeToShow
<1>2. Checks!TwinsHidden
  BY <1>1 DEF Checks!TwinsHidden
<1>3. ASSUME NEW i \in DOMAIN records,
             Checks!PrivacyHigh(records[i]) \/ ~Checks!SourceSupports(records[i])
      PROVE  ~Checks!SafeToShow(Checks!Verdict(i))
  <2>1. Checks!Verdict(i) = "rejected"
    BY <1>3 DEF Checks!Verdict, Checks!PrivacyHigh, Checks!SourceSupports
  <2> QED
    BY <2>1 DEF Checks!SafeToShow
<1> QED
  BY <1>2, <1>3 DEF Checks!UnsafeHidden

\* A request begins or ends: of is a row.
LEMMA RequestTyped ==
    ASSUME ChecksInv, NEW s \in Sessions, NEW r, r.of \in 0..Len(records),
           requests' = [requests EXCEPT ![s] = r], UNCHANGED records
    PROVE  /\ requests' = [u \in Sessions |-> requests'[u]]
           /\ \A u \in Sessions : requests'[u].of \in 0..Len(records')
  BY DEF ChecksInv, Checks!TypeOK

LEMMA ChecksStepInv ==
    ASSUME ReviewsAssumption, ChecksInv, [Checks!Next]_checksVars PROVE ChecksInv'
<1>0. /\ Checks!TypeOK /\ checks = <<>> /\ records \in Seq(Checks!Records)
      /\ Len(records) \in Nat /\ DOMAIN records = 1..Len(records)
      /\ Forms \subseteq Checks!Records
  BY DEF ChecksInv, Checks!TypeOK, ReviewsAssumption, Checks!CorrectnessAssumption
<1>1. CASE UNCHANGED checksVars
  BY <1>1, <1>0 DEF checksVars, ChecksInv, Checks!TypeOK
<1>2. ASSUME NEW f \in Forms, Checks!Store(f)
      PROVE  ChecksInv'
  <2>1. records' = Append(records, f) /\ UNCHANGED <<checks, snapshots, requests>>
    BY <1>2 DEF Checks!Store
  <2>2. records' \in Seq(Checks!Records) /\ Len(records') = Len(records) + 1
    BY <1>0, <2>1
  <2> QED
    BY <1>0, <2>1, <2>2 DEF ChecksInv, Checks!TypeOK
<1>3. ASSUME NEW f \in Forms, NEW i \in DOMAIN records, Checks!Change(i, f)
      PROVE  ChecksInv'
  <2>1. records' = [records EXCEPT ![i] = f] /\ UNCHANGED <<checks, snapshots, requests>>
    BY <1>3 DEF Checks!Change
  <2>2. records' \in Seq(Checks!Records) /\ Len(records') = Len(records)
    BY <1>0, <2>1
  <2> QED
    BY <1>0, <2>1, <2>2 DEF ChecksInv, Checks!TypeOK
<1>4. ASSUME NEW s \in Sessions, NEW i \in DOMAIN records, Checks!RunCheck(s, i)
      PROVE  ChecksInv'
  <2> DEFINE r == [op |-> "run", of |-> i, kind |-> records[i].kind,
                   verdict |-> Checks!Verdict(i)]
  <2>1. requests' = [requests EXCEPT ![s] = r] /\ UNCHANGED <<records, checks, snapshots>>
    BY <1>4 DEF Checks!RunCheck
  <2>2. r.of \in 0..Len(records)
    BY <1>0
  <2> HIDE DEF r
  <2> QED
    BY <1>0, <2>1, <2>2, RequestTyped DEF ChecksInv, Checks!TypeOK
<1>5. ASSUME NEW s \in Sessions, NEW i \in DOMAIN records, NEW f \in Checks!Fetches,
             NEW kept \in BOOLEAN, NEW report, Checks!Verify(s, i, f, report, kept)
      PROVE  ChecksInv'
  <2> DEFINE r == [op |-> "verify", of |-> i, report |-> report,
                   kind |-> IF records[i].kind = "court_event" THEN "event"
                            ELSE records[i].kind]
             x == Checks!Snapshot(records[i].url, f)
             Taken == [url : {"x", "y"}, error : BOOLEAN, text : BOOLEAN]
  <2>1. /\ requests' = [requests EXCEPT ![s] = r] /\ UNCHANGED <<records, checks>>
        /\ snapshots' = IF kept THEN Append(snapshots, x) ELSE snapshots
        /\ records[i].url # None
    BY <1>5 DEF Checks!Verify
  <2>2. r.of \in 0..Len(records)
    BY <1>0
  <2>3. records[i].url \in {"x", "y"}
    <3>1. records[i] \in Checks!Records
      BY <1>0
    <3> QED
      BY <2>1, <3>1 DEF Checks!Records
  <2>4. x \in Taken
    BY <2>3 DEF Checks!Snapshot
  <2>5. snapshots \in Seq(Taken)
    BY <1>0 DEF Checks!TypeOK
  <2> HIDE DEF r, x, Taken
  <2>6. snapshots' \in Seq(Taken)
    BY <2>1, <2>4, <2>5, Appended
  <2> USE DEF Taken
  <2> QED
    BY <1>0, <2>1, <2>2, <2>6, RequestTyped DEF ChecksInv, Checks!TypeOK
<1>6. Checks!Idle.of = 0
  BY DEF Checks!Idle
<1>7. ASSUME NEW s \in Sessions, Checks!EndCheck(s) \/ Checks!VerifyFails(s)
      PROVE  ChecksInv'
  <2>1. /\ requests' = [requests EXCEPT ![s] = Checks!Idle]
        /\ UNCHANGED <<records, checks, snapshots>>
    BY <1>7 DEF Checks!EndCheck, Checks!VerifyFails
  <2> QED
    BY <1>0, <1>6, <2>1, RequestTyped DEF ChecksInv, Checks!TypeOK
<1>8. ASSUME NEW s \in Sessions, Checks!EndVerify(s)
      PROVE  ChecksInv'
  <2>1. /\ requests' = [requests EXCEPT ![s] = Checks!Idle] /\ UNCHANGED <<records, snapshots>>
        /\ DOMAIN checks' = DOMAIN checks /\ checks' = [k \in DOMAIN checks |-> checks'[k]]
    BY <1>8 DEF Checks!EndVerify
  <2>2. checks' = <<>>
    BY <1>0, <2>1
  <2> QED
    BY <1>0, <1>6, <2>1, <2>2, RequestTyped DEF ChecksInv, Checks!TypeOK
<1>9. CASE Checks!Next
  BY <1>9, <1>2, <1>3, <1>4, <1>5, <1>7, <1>8, Zenon DEF Checks!Next
<1> QED
  BY <1>1, <1>9

LEMMA ChecksInit == Checks!Init => ChecksInv
  BY DEF Checks!Init, ChecksInv, Checks!TypeOK, Checks!Idle

LEMMA ChecksSafe == ChecksInv => Checks!CorrectnessSafe
<1> SUFFICES ASSUME ChecksInv PROVE Checks!CorrectnessSafe
  OBVIOUS
<1>1. Checks!NoLabel
  BY DEF ChecksInv, Checks!NoLabel, Checks!Quality
<1> QED
  BY <1>1, VerdictsHide DEF ChecksInv, Checks!CorrectnessSafe

--------------------------------------------------------------------------------
(* RequestGate: the limiter and the credentials.                              *)

\* The requests counted in the window that ends at t.
InWindow(P, t) == {r \in Gate!Hits(P) : Gate!At(r) <= t /\ t < Gate!At(r) + Window}

GateTyped ==
    /\ settings \in Gate!Settings /\ Gate!Startable(settings)
    /\ now \in 0..MaxTime
    /\ window \in [Procs -> Seq(0..now)]
    /\ redisUp \in BOOLEAN /\ lapsed \in BOOLEAN

GateInv ==
    /\ GateTyped
    /\ Gate!LapseIsLocal
    /\ Gate!EnteredByRight
    /\ \A p \in Procs, t \in 0..now :
          /\ IsFiniteSet(InWindow(Gate!Sharing(p), t))
          /\ Cardinality(InWindow(Gate!Sharing(p), t)) <= Limit

LEMMA GateAssumed ==
    ASSUME ReviewsAssumption
    PROVE  /\ IsFiniteSet(Procs)
           /\ Limit \in Nat /\ Window \in Nat \ {0} /\ MaxTime \in Nat
           /\ Bearers \subseteq Gate!Tokens
  BY SameCardinality DEF ReviewsAssumption, Gate!RequestGateAssumption

\* A counted request is a process and a place in its list, with its time.
LEMMA HitsAre ==
    ASSUME NEW P, P \subseteq Procs, window \in [Procs -> Seq(0..now)]
    PROVE  \A r : r \in Gate!Hits(P) <=>
              r = <<r[1], r[2]>> /\ r[1] \in P /\ r[2] \in DOMAIN window[r[1]]
<1>1. ASSUME NEW r, r \in Gate!Hits(P)
      PROVE  r = <<r[1], r[2]>> /\ r[1] \in P /\ r[2] \in DOMAIN window[r[1]]
  <2>1. PICK p \in P : r \in {p} \X DOMAIN window[p]
    BY <1>1 DEF Gate!Hits
  <2> QED
    BY <2>1
<1>2. ASSUME NEW r, r = <<r[1], r[2]>>, r[1] \in P, r[2] \in DOMAIN window[r[1]]
      PROVE  r \in Gate!Hits(P)
  <2>1. r \in {r[1]} \X DOMAIN window[r[1]]
    BY <1>2
  <2> QED
    BY <1>2, <2>1 DEF Gate!Hits
<1> QED
  BY <1>1, <1>2

LEMMA OneMore ==
    ASSUME NEW T, IsFiniteSet(T), NEW y
    PROVE  /\ IsFiniteSet(T \cup {y}) /\ Cardinality(T) \in Nat
           /\ Cardinality(T \cup {y}) \in Nat /\ Cardinality(T \cup {y}) <= Cardinality(T) + 1
<1>1. Cardinality(T) \in Nat
  BY FS_CardinalityType
<1> QED
  BY <1>1, FS_AddElement

\* A request is counted: there is room in the window that ends now, and no earlier window
\* sees the request.
LEMMA CountedKeeps ==
    ASSUME ReviewsAssumption, GateInv, NEW p \in Procs, Gate!Counted(p), UNCHANGED <<settings, now>>
    PROVE  /\ window' \in [Procs -> Seq(0..now)]
           /\ \A q \in Procs, t \in 0..now :
                /\ IsFiniteSet(InWindow(Gate!Sharing(q), t)')
                /\ Cardinality(InWindow(Gate!Sharing(q), t)') <= Limit
<1>0. /\ window \in [Procs -> Seq(0..now)] /\ now \in Nat
      /\ Limit \in Nat /\ Window \in Nat \ {0}
  BY GateAssumed DEF GateInv, GateTyped
<1>n. PICK n : n = Len(window[p]) + 1
  OBVIOUS
<1> DEFINE x == <<p, n>>
<1>1. /\ window' \in [Procs -> Seq(0..now)]
      /\ \A q \in Procs : q # p => window'[q] = window[q]
      /\ DOMAIN window'[p] = DOMAIN window[p] \cup {n} /\ n \notin DOMAIN window[p]
      /\ window'[p][n] = now /\ \A k \in DOMAIN window[p] : window'[p][k] = window[p][k]
  <2>1. window' = [window EXCEPT ![p] = Append(window[p], now)]
    BY DEF Gate!Counted
  <2>2. window[p] \in Seq(0..now) /\ now \in 0..now
    BY <1>0
  <2>3. /\ Append(window[p], now) \in Seq(0..now)
        /\ DOMAIN Append(window[p], now) = DOMAIN window[p] \cup {n} /\ n \notin DOMAIN window[p]
        /\ Append(window[p], now)[n] = now
        /\ \A k \in DOMAIN window[p] : Append(window[p], now)[k] = window[p][k]
    BY <1>n, <2>2, Appended
  <2> QED
    BY <1>0, <2>1, <2>3
<1>2. ASSUME NEW q \in Procs
      PROVE  Gate!Sharing(q) \subseteq Procs /\ Gate!Sharing(q)' = Gate!Sharing(q)
  BY DEF Gate!Sharing
<1>3. ASSUME NEW q \in Procs, NEW t \in 0..now
      PROVE  InWindow(Gate!Sharing(q), t)' =
                InWindow(Gate!Sharing(q), t) \cup {y \in {x} : t = now /\ p \in Gate!Sharing(q)}
  <2> DEFINE P == Gate!Sharing(q)
  <2>1. P \subseteq Procs /\ P' = P
    BY <1>2
  <2> HIDE DEF P
  <2>2. \A r : r \in Gate!Hits(P) <=>
              r = <<r[1], r[2]>> /\ r[1] \in P /\ r[2] \in DOMAIN window[r[1]]
    BY <1>0, <2>1, HitsAre
  <2>3. \A r : r \in Gate!Hits(P)' <=>
              r = <<r[1], r[2]>> /\ r[1] \in P /\ r[2] \in DOMAIN window'[r[1]]
    <3>1. ASSUME NEW r, r \in Gate!Hits(P)'
          PROVE  r = <<r[1], r[2]>> /\ r[1] \in P /\ r[2] \in DOMAIN window'[r[1]]
      <4>1. PICK u \in P : r \in {u} \X DOMAIN window'[u]
        BY <2>1, <3>1 DEF Gate!Hits
      <4> QED
        BY <4>1
    <3>2. ASSUME NEW r, r = <<r[1], r[2]>>, r[1] \in P, r[2] \in DOMAIN window'[r[1]]
          PROVE  r \in Gate!Hits(P)'
      <4>1. r \in {r[1]} \X DOMAIN window'[r[1]]
        BY <3>2
      <4> QED
        BY <2>1, <3>2, <4>1 DEF Gate!Hits
    <3> QED
      BY <3>1, <3>2
  <2>4. \A r : r \in Gate!Hits(P)' <=> r \in Gate!Hits(P) \/ (r = x /\ p \in P)
    BY <1>1, <2>1, <2>2, <2>3
  <2>5. /\ \A r \in Gate!Hits(P) : Gate!At(r)' = Gate!At(r)
        /\ x[1] = p /\ x[2] = n /\ Gate!At(x)' = now
    <3>1. ASSUME NEW r \in Gate!Hits(P)
          PROVE  window'[r[1]][r[2]] = window[r[1]][r[2]]
      <4>1. r[1] \in Procs /\ r[2] \in DOMAIN window[r[1]]
        BY <2>1, <2>2
      <4> QED
        BY <1>1, <4>1
    <3>2. x[1] = p /\ x[2] = n
      OBVIOUS
    <3>3. window'[x[1]][x[2]] = now
      BY <1>1, <3>2
    <3> QED
      BY <3>1, <3>2, <3>3 DEF Gate!At
  <2>6. now <= t /\ t < now + Window <=> t = now
    BY <1>0
  <2>7. \A r : r \in InWindow(P, t)' <=>
              r \in Gate!Hits(P)' /\ Gate!At(r)' <= t /\ t < Gate!At(r)' + Window
    BY DEF InWindow
  <2>8. \A r : r \in InWindow(P, t)' <=> r \in InWindow(P, t) \/ (r = x /\ t = now /\ p \in P)
    <3> SUFFICES ASSUME NEW r
                 PROVE  r \in InWindow(P, t)'
                            <=> r \in InWindow(P, t) \/ (r = x /\ t = now /\ p \in P)
      OBVIOUS
    <3>1. r \in InWindow(P, t) <=>
              r \in Gate!Hits(P) /\ Gate!At(r) <= t /\ t < Gate!At(r) + Window
      BY DEF InWindow
    <3>2. CASE r \in Gate!Hits(P)
      <4>1. r # x
        BY <1>1, <2>2, <2>5, <3>2
      <4> QED
        BY <2>4, <2>5, <2>7, <3>1, <3>2, <4>1
    <3>3. CASE r \notin Gate!Hits(P)
      <4>1. r \in Gate!Hits(P)' <=> r = x /\ p \in P
        BY <2>4, <3>3
      <4>2. r = x => Gate!At(r)' = now
        BY <2>5
      <4> HIDE DEF x
      <4> QED
        BY <2>6, <2>7, <3>1, <3>3, <4>1, <4>2
    <3> QED
      BY <3>2, <3>3
  <2> QED
    BY <2>1, <2>8 DEF P
<1>4. ASSUME NEW q \in Procs, NEW t \in 0..now
      PROVE  /\ IsFiniteSet(InWindow(Gate!Sharing(q), t)')
             /\ Cardinality(InWindow(Gate!Sharing(q), t)') <= Limit
  <2> DEFINE S == InWindow(Gate!Sharing(q), t)
  <2>1. IsFiniteSet(S) /\ Cardinality(S) <= Limit
    BY DEF GateInv
  <2> HIDE DEF S, x
  <2>2. CASE t = now /\ p \in Gate!Sharing(q)
    <3>1. S' = S \cup {x}
      BY <1>3, <2>2 DEF S
    <3>2. IsFiniteSet(S \cup {x}) /\ Cardinality(S \cup {x}) <= Cardinality(S) + 1
          /\ Cardinality(S) \in Nat
      BY <2>1, OneMore
    <3>3. Gate!Sharing(q) = Gate!Sharing(p)
      BY <2>2 DEF Gate!Sharing
    <3>4. Cardinality(Gate!Recent(Gate!Sharing(p))) < Limit
      BY SameCardinality DEF Gate!Counted
    <3>5. Gate!Recent(Gate!Sharing(p)) = S
      <4>1. ASSUME NEW r \in Gate!Hits(Gate!Sharing(p))
            PROVE  Gate!At(r) \in 0..now
        <5>1. Gate!Sharing(p) \subseteq Procs
          BY <1>2
        <5>2. r[1] \in Procs /\ r[2] \in DOMAIN window[r[1]]
          BY <1>0, <5>1, HitsAre
        <5>3. window[r[1]] \in Seq(0..now)
          BY <1>0, <5>2
        <5>4. window[r[1]][r[2]] \in 0..now
          BY <5>2, <5>3, Elements
        <5> QED
          BY <5>4 DEF Gate!At
      <4>2. \A r \in Gate!Hits(Gate!Sharing(p)) :
                now - Gate!At(r) < Window <=> Gate!At(r) <= now /\ now < Gate!At(r) + Window
        BY <1>0, <4>1
      <4> QED
        BY <2>2, <3>3, <4>2 DEF Gate!Recent, InWindow, S
    <3>6. Cardinality(S \cup {x}) <= Limit
      <4>1. Cardinality(S \cup {x}) \in Nat
        BY <2>1, OneMore
      <4>2. Cardinality(S) < Limit
        BY <3>4, <3>5
      <4> QED
        BY <1>0, <3>2, <4>1, <4>2
    <3> QED
      BY <3>1, <3>2, <3>6 DEF S
  <2>3. CASE ~(t = now /\ p \in Gate!Sharing(q))
    BY <1>3, <2>1, <2>3 DEF S
  <2> QED
    BY <2>2, <2>3
<1> QED
  BY <1>1, <1>4
\* A step that leaves the windows, the deployment and the clock alone.
LEMMA WindowsKept ==
    ASSUME GateInv, UNCHANGED <<settings, now, window>>
    PROVE  \A q \in Procs, t \in 0..now :
              /\ IsFiniteSet(InWindow(Gate!Sharing(q), t)')
              /\ Cardinality(InWindow(Gate!Sharing(q), t)') <= Limit
<1>1. ASSUME NEW q \in Procs, NEW t \in 0..now
      PROVE  InWindow(Gate!Sharing(q), t)' = InWindow(Gate!Sharing(q), t)
  BY DEF InWindow, Gate!Sharing, Gate!Hits, Gate!At
<1> QED
  BY <1>1 DEF GateInv

\* The handler is entered by an actor whom the credentials and the route allow.
LEMMA RequestEnters ==
    ASSUME GateInv, NEW p \in Procs, NEW b \in Bearers, NEW k \in Gate!Kinds, NEW r,
           NEW m \in BOOLEAN, Gate!Request(p, b, k, r, m)
    PROVE  Gate!EnteredByRight'
<1> DEFINE actors == {a \in Gate!Actors(b, k) : Gate!Authorised(a, r, m)}
           e == [actor |-> CHOOSE a \in actors : TRUE, bearer |-> b,
                 kind |-> k, required |-> r, mutation |-> m]
<1>1. settings' = settings /\ entered' = IF actors = {} THEN None ELSE e
  BY DEF Gate!Request
<1>2. CASE actors = {}
  BY <1>1, <1>2 DEF Gate!EnteredByRight
<1>3. CASE actors # {}
  <2>1. PICK a : a \in actors /\ e.actor = a
    BY <1>3
  <2>2. e.bearer = b /\ e.kind = k /\ e.required = r /\ e.mutation = m
    OBVIOUS
  <2>3. /\ Gate!Rank[a.role] >= Gate!Rank[r]
        /\ m /\ settings.enforce => a.method = "jwt"
    BY <2>1 DEF Gate!Authorised
  <2>4. a \in Gate!Actors(b, k)
    BY <2>1
  <2>5. /\ k \in settings.open \cup {"general"}
        /\ a.method = "jwt" => settings.jwt /\ b.type = "access"
        /\ a.method = "shared_token" => settings.legacy
    BY <2>4 DEF Gate!Actors
  <2>6. settings.legacy => ~settings.production
    BY DEF GateInv, GateTyped, Gate!Startable
  <2>7. entered' = e
    BY <1>1, <1>3
  <2> HIDE DEF e, actors
  <2> QED
    BY <1>1, <2>1, <2>2, <2>3, <2>5, <2>6, <2>7 DEF Gate!EnteredByRight, Gate!Rank
<1> QED
  BY <1>2, <1>3

LEMMA RestartKeeps ==
    ASSUME ReviewsAssumption, GateInv, NEW p \in Procs, Gate!Restart(p)
    PROVE  GateInv'
<1>0. window \in [Procs -> Seq(0..now)] /\ Limit \in Nat
  BY GateAssumed DEF GateInv, GateTyped
<1>1. /\ ~settings.redis /\ window' = [window EXCEPT ![p] = <<>>] /\ entered' = None
      /\ UNCHANGED <<settings, now, redisUp, lapsed>>
  BY DEF Gate!Restart
<1>2. /\ window' \in [Procs -> Seq(0..now)] /\ window'[p] = <<>>
      /\ \A q \in Procs : q # p => window'[q] = window[q]
  BY <1>0, <1>1
<1>3. ASSUME NEW q \in Procs, NEW t \in 0..now
      PROVE  /\ IsFiniteSet(InWindow(Gate!Sharing(q), t)')
             /\ Cardinality(InWindow(Gate!Sharing(q), t)') <= Limit
  <2>1. Gate!Sharing(q) = {q} /\ Gate!Sharing(q)' = {q}
    BY <1>1 DEF Gate!Sharing
  <2>2. InWindow(Gate!Sharing(q), t)' =
            {h \in UNION {{u} \X DOMAIN window'[u] : u \in {q}} :
                window'[h[1]][h[2]] <= t /\ t < window'[h[1]][h[2]] + Window}
    BY <2>1, <1>1 DEF InWindow, Gate!Hits, Gate!At
  <2>3. InWindow(Gate!Sharing(q), t) =
            {h \in UNION {{u} \X DOMAIN window[u] : u \in {q}} :
                window[h[1]][h[2]] <= t /\ t < window[h[1]][h[2]] + Window}
    BY <2>1 DEF InWindow, Gate!Hits, Gate!At
  <2>4. CASE q = p
    <3>1. InWindow(Gate!Sharing(q), t)' = {}
      BY <1>2, <2>2, <2>4
    <3> QED
      BY <1>0, <3>1, FS_EmptySet
  <2>5. CASE q # p
    <3>1. window'[q] = window[q]
      BY <1>2, <2>5
    <3>2. \A h \in UNION {{u} \X DOMAIN window[u] : u \in {q}} : h[1] = q
      OBVIOUS
    <3>3. UNION {{u} \X DOMAIN window'[u] : u \in {q}} = UNION {{u} \X DOMAIN window[u] : u \in {q}}
      BY <3>1
    <3>4. InWindow(Gate!Sharing(q), t)' = InWindow(Gate!Sharing(q), t)
      BY <2>2, <2>3, <3>1, <3>2, <3>3
    <3> QED
      BY <3>4 DEF GateInv
  <2> QED
    BY <2>4, <2>5
<1> QED
  BY <1>1, <1>2, <1>3 DEF GateInv, GateTyped, Gate!LapseIsLocal, Gate!EnteredByRight

LEMMA TickKeeps ==
    ASSUME ReviewsAssumption, GateInv, Gate!Tick
    PROVE  GateInv'
<1>0. /\ window \in [Procs -> Seq(0..now)] /\ Limit \in Nat /\ now \in Nat /\ now \in 0..MaxTime
      /\ MaxTime \in Nat /\ Window \in Nat \ {0}
  BY GateAssumed DEF GateInv, GateTyped
<1>1. /\ now < MaxTime /\ now' = now + 1 /\ entered' = None
      /\ UNCHANGED <<settings, window, redisUp, lapsed>>
  BY DEF Gate!Tick
<1>2. window' \in [Procs -> Seq(0..now')]
  <2>1. \A p \in Procs : window[p] \in Seq(0..now')
    <3>1. 0..now \subseteq 0..now'
      BY <1>0, <1>1
    <3> QED
      BY <1>0, <3>1, Elements
  <2> QED
    BY <1>0, <1>1, <2>1
<1>3. ASSUME NEW q \in Procs
      PROVE  /\ Gate!Sharing(q) \subseteq Procs /\ Gate!Sharing(q)' = Gate!Sharing(q)
             /\ \A r \in Gate!Hits(Gate!Sharing(q)) : Gate!At(r) \in 0..now
             /\ \A t : InWindow(Gate!Sharing(q), t)' = InWindow(Gate!Sharing(q), t)
  <2>1. Gate!Sharing(q) \subseteq Procs /\ Gate!Sharing(q)' = Gate!Sharing(q)
    BY <1>1 DEF Gate!Sharing
  <2>2. \A r \in Gate!Hits(Gate!Sharing(q)) : Gate!At(r) \in 0..now
    BY <1>0, <2>1, HitsAre DEF Gate!At
  <2>3. \A t : InWindow(Gate!Sharing(q), t)' = InWindow(Gate!Sharing(q), t)
    BY <1>1, <2>1 DEF InWindow, Gate!Hits, Gate!At
  <2> QED
    BY <2>1, <2>2, <2>3
<1>4. ASSUME NEW q \in Procs, NEW t \in 0..now'
      PROVE  /\ IsFiniteSet(InWindow(Gate!Sharing(q), t)')
             /\ Cardinality(InWindow(Gate!Sharing(q), t)') <= Limit
  <2> DEFINE S == InWindow(Gate!Sharing(q), t)
             N == InWindow(Gate!Sharing(q), now)
  <2>1. InWindow(Gate!Sharing(q), t)' = S
    BY <1>3
  <2>2. CASE t \in 0..now
    BY <2>1, <2>2 DEF GateInv
  <2>3. CASE t = now + 1
    <3>1. S \subseteq N
      BY <1>0, <1>3, <2>3 DEF InWindow
    <3>2. IsFiniteSet(N) /\ Cardinality(N) <= Limit
      BY <1>0 DEF GateInv
    <3> HIDE DEF S, N
    <3>3. IsFiniteSet(S) /\ Cardinality(S) <= Cardinality(N) /\ Cardinality(S) \in Nat
          /\ Cardinality(N) \in Nat
      BY <3>1, <3>2, FS_Subset, FS_CardinalityType
    <3>4. Cardinality(S) <= Limit
      BY <1>0, <3>2, <3>3
    <3> QED
      BY <2>1, <3>3, <3>4
  <2> QED
    BY <1>0, <1>1, <2>2, <2>3
<1>5. now' \in 0..MaxTime
  BY <1>0, <1>1
<1> QED
  BY <1>1, <1>2, <1>4, <1>5 DEF GateInv, GateTyped, Gate!LapseIsLocal, Gate!EnteredByRight

LEMMA GateStepInv ==
    ASSUME ReviewsAssumption, GateInv, [Gate!Next]_gateVars PROVE GateInv'
<1>1. CASE UNCHANGED gateVars
  <2>1. GateTyped' /\ Gate!LapseIsLocal' /\ Gate!EnteredByRight'
    BY <1>1 DEF gateVars, GateInv, GateTyped, Gate!LapseIsLocal, Gate!EnteredByRight
  <2> QED
    BY <1>1, <2>1, WindowsKept DEF gateVars, GateInv
<1>2. ASSUME NEW p \in Procs, NEW b \in Bearers, NEW k \in Gate!Kinds, NEW r, NEW m \in BOOLEAN,
             Gate!Request(p, b, k, r, m)
      PROVE  GateInv'
  <2>0. UNCHANGED <<settings, now, redisUp>>
    BY <1>2 DEF Gate!Request
  <2>4. Gate!EnteredByRight'
    BY <1>2, RequestEnters
  <2>1. Gate!EnteredByRight' /\ UNCHANGED <<settings, now, redisUp>>
    BY <2>0, <2>4
  <2>2. CASE Gate!Counted(p)
    <3>1. lapsed' = lapsed
      BY <2>2 DEF Gate!Counted
    <3> QED
      BY <2>1, <2>2, <3>1, CountedKeeps DEF GateInv, GateTyped, Gate!LapseIsLocal
  <2>3. CASE Gate!Uncounted(p)
    <3>1. /\ settings.limited /\ settings.redis /\ ~settings.production
          /\ lapsed' = TRUE /\ window' = window
      BY <2>3 DEF Gate!Uncounted
    <3> QED
      BY <2>1, <3>1, WindowsKept DEF GateInv, GateTyped, Gate!LapseIsLocal
  <2>5. CASE Gate!Unlimited
    <3>1. lapsed' = lapsed /\ window' = window
      BY <2>5 DEF Gate!Unlimited
    <3> QED
      BY <2>1, <3>1, WindowsKept DEF GateInv, GateTyped, Gate!LapseIsLocal
  <2> QED
    BY <1>2, <2>2, <2>3, <2>5 DEF Gate!Request
<1>3. ASSUME Gate!Redis
      PROVE  GateInv'
  <2>1. /\ redisUp' \in BOOLEAN /\ entered' = None /\ UNCHANGED <<settings, now, window, lapsed>>
    BY <1>3 DEF Gate!Redis, GateInv, GateTyped
  <2> QED
    BY <2>1, WindowsKept DEF GateInv, GateTyped, Gate!LapseIsLocal, Gate!EnteredByRight
<1>4. CASE Gate!Next
  <2>1. CASE \E p \in Procs, b \in Bearers, k \in Gate!Kinds, r \in {"viewer", "source_admin"},
                m \in BOOLEAN : Gate!Request(p, b, k, r, m)
    BY <1>2, <2>1
  <2>2. CASE \E p \in Procs : Gate!Restart(p)
    BY <2>2, RestartKeeps
  <2>3. CASE Gate!Redis
    BY <1>3, <2>3
  <2>4. CASE Gate!Tick
    BY <2>4, TickKeeps
  <2> QED
    BY <1>4, <2>1, <2>2, <2>3, <2>4 DEF Gate!Next
<1> QED
  BY <1>1, <1>4

LEMMA GateInit ==
    ASSUME ReviewsAssumption, Gate!Init PROVE GateInv
<1>0. MaxTime \in Nat /\ Limit \in Nat
  BY GateAssumed
<1>1. /\ window = [p \in Procs |-> <<>>] /\ now = 0 /\ settings \in Gate!Settings
      /\ Gate!Startable(settings) /\ redisUp = TRUE /\ lapsed = FALSE /\ entered = None
  BY DEF Gate!Init
<1>2. GateTyped
  <2>1. <<>> \in Seq(0..now)
    OBVIOUS
  <2>2. window \in [Procs -> Seq(0..now)]
    BY <1>1, <2>1
  <2>3. now \in 0..MaxTime
    BY <1>0, <1>1
  <2>4. redisUp \in BOOLEAN /\ lapsed \in BOOLEAN
    BY <1>1
  <2>5. settings \in Gate!Settings /\ Gate!Startable(settings)
    BY <1>1
  <2> QED
    BY <2>2, <2>3, <2>4, <2>5, Zenon DEF GateTyped
<1>3. \A P, t : P \subseteq Procs => InWindow(P, t) = {}
  <2>1. \A P : P \subseteq Procs => Gate!Hits(P) = {}
    BY <1>1 DEF Gate!Hits
  <2> QED
    BY <2>1 DEF InWindow
<1>4. \A p \in Procs, t \in 0..now :
          /\ IsFiniteSet(InWindow(Gate!Sharing(p), t))
          /\ Cardinality(InWindow(Gate!Sharing(p), t)) <= Limit
  <2>1. \A p \in Procs : Gate!Sharing(p) \subseteq Procs
    BY DEF Gate!Sharing
  <2>2. ASSUME NEW p \in Procs, NEW t \in 0..now
        PROVE  InWindow(Gate!Sharing(p), t) = {}
    BY <1>3, <2>1
  <2>3. IsFiniteSet({}) /\ Cardinality({}) = 0
    BY FS_EmptySet
  <2>4. Cardinality({}) <= Limit
    BY <1>0, <2>3
  <2> QED
    BY <2>2, <2>3, <2>4
<1> QED
  BY <1>1, <1>2, <1>4 DEF GateInv, Gate!LapseIsLocal, Gate!EnteredByRight

LEMMA GateIsSafe == GateInv => Gate!GateSafe
<1> SUFFICES ASSUME GateInv PROVE Gate!GateSafe
  OBVIOUS
<1>1. Gate!TypeOK
  BY DEF GateInv, GateTyped, Gate!TypeOK, Gate!Times
<1>2. Gate!WindowBounded
  BY SameCardinality DEF GateInv, InWindow, Gate!WindowBounded
<1> QED
  BY <1>1, <1>2 DEF GateInv, Gate!GateSafe

\* A set of naturals that is not empty has a least element.
LEMMA NatMinimum ==
    ASSUME NEW T, T \subseteq Nat, T # {}
    PROVE  \E m \in T : \A x \in T : m <= x
<1>1. PICK m \in T : \A x \in T : <<x, m>> \notin OpToRel(<, Nat)
  BY NatLessThanWellFounded, WFMin
<1>2. \A x \in T : ~(x < m)
  BY <1>1 DEF OpToRel
<1> QED
  BY <1>2

--------------------------------------------------------------------------------
(* LegalText: revisions.                                                      *)

Section == [label : Labels, text : Texts]
Instruments  == [status : Legal!Statuses, public : BOOLEAN]

\* A chain followed by the next revision of its row.
LEMMA LeadsOn ==
    ASSUME NEW V \in Seq(Legal!Revs), NEW i, NEW from \in Nat, NEW text,
           NEW row, row.version \in Nat, Legal!Leads(V, i, from, text, row),
           NEW x \in Legal!Revs, x.row = i, x.number = row.version + 1, x.prev = row.text,
           NEW next, next.version = row.version + 1, next.text = x.new
    PROVE  Legal!Leads(Append(V, x), i, from, text, next)
<1> DEFINE W == Append(V, x)
           n == Len(V) + 1
<1>1. /\ DOMAIN W = DOMAIN V \cup {n} /\ n \notin DOMAIN V /\ W[n] = x
      /\ \A k \in DOMAIN V : W[k] = V[k] /\ k < n
      /\ \A k \in DOMAIN V : V[k].number \in Nat
  <2>1. \A k \in DOMAIN V : V[k] \in Legal!Revs
    OBVIOUS
  <2>2. \A k \in DOMAIN V : V[k].number \in Nat
    BY <2>1 DEF Legal!Revs
  <2> QED
    BY <2>2, Appended
<1>2. /\ from <= row.version /\ (from = row.version => text = row.text)
      /\ \A m \in from + 1..row.version : \E k \in DOMAIN V : V[k].row = i /\ V[k].number = m
      /\ \A k \in DOMAIN V : V[k].row = i =>
            /\ V[k].number \in from + 1..row.version
            /\ V[k].number = from + 1 => V[k].prev = text
            /\ V[k].number = row.version => V[k].new = row.text
            /\ \A l \in DOMAIN V : V[l].row = i =>
                  /\ k < l => V[k].number < V[l].number
                  /\ V[l].number = V[k].number + 1 => V[l].prev = V[k].new
  BY DEF Legal!Leads
<1>7. n \in Nat /\ DOMAIN V \subseteq Nat
  OBVIOUS
<1> HIDE DEF W, n
<1>3. from <= next.version /\ from # next.version
  BY <1>2
<1>4. ASSUME NEW m \in from + 1..next.version
      PROVE  \E k \in DOMAIN W : W[k].row = i /\ W[k].number = m
  <2>1. CASE m = row.version + 1
    BY <1>1, <2>1
  <2>2. CASE m \in from + 1..row.version
    BY <1>1, <1>2, <2>2
  <2> QED
    BY <2>1, <2>2
<1>5. ASSUME NEW k \in DOMAIN W, W[k].row = i
      PROVE  /\ W[k].number \in from + 1..next.version
             /\ W[k].number = from + 1 => W[k].prev = text
             /\ W[k].number = next.version => W[k].new = next.text
  <2>1. CASE k = n
    BY <1>1, <1>2, <2>1
  <2>2. CASE k \in DOMAIN V
    BY <1>1, <1>2, <1>5, <2>2
  <2> QED
    BY <1>1, <2>1, <2>2
<1>6. ASSUME NEW k \in DOMAIN W, W[k].row = i, NEW l \in DOMAIN W, W[l].row = i
      PROVE  /\ k < l => W[k].number < W[l].number
             /\ W[l].number = W[k].number + 1 => W[l].prev = W[k].new
  <2>1. CASE k \in DOMAIN V /\ l \in DOMAIN V
    BY <1>1, <1>2, <1>6, <2>1
  <2>2. CASE k \in DOMAIN V /\ l = n
    <3>1. W[k] = V[k] /\ W[l] = x /\ V[k].number \in from + 1..row.version
      BY <1>1, <1>2, <1>6, <2>2
    <3> QED
      BY <1>1, <1>2, <1>6, <2>2, <3>1
  <2>3. CASE k = n /\ l \in DOMAIN V
    <3>1. W[l] = V[l] /\ W[k] = x /\ V[l].number \in from + 1..row.version /\ l < k
      BY <1>1, <1>2, <1>6, <2>3
    <3>2. l \in Nat /\ k \in Nat /\ V[l].number <= row.version
      BY <1>7, <2>3, <3>1
    <3>3. W[l].number # W[k].number + 1 /\ ~(k < l)
      BY <3>1, <3>2
    <3> QED
      BY <3>3
  <2>4. CASE k = n /\ l = n
    <3>1. W[l].number # W[k].number + 1 /\ ~(k < l)
      BY <1>1, <1>7, <2>4
    <3> QED
      BY <3>1
  <2> QED
    BY <1>1, <2>1, <2>2, <2>3, <2>4
<1> QED
  BY <1>3, <1>4, <1>5, <1>6 DEF Legal!Leads, W

\* A table that differs only in what it says of other rows, and one whose rows got
\* other ids.
LEMMA LeadsElsewhere ==
    ASSUME NEW V \in Seq(Legal!Revs), NEW i, NEW from, NEW text, NEW row,
           Legal!Leads(V, i, from, text, row), NEW x \in Legal!Revs, x.row # i
    PROVE  Legal!Leads(Append(V, x), i, from, text, row)
<1> DEFINE W == Append(V, x)
           n == Len(V) + 1
<1>1. /\ DOMAIN W = DOMAIN V \cup {n} /\ W[n] = x
      /\ \A k \in DOMAIN V : W[k] = V[k]
  BY Appended
<1> HIDE DEF W, n
<1>2. \A k : k \in DOMAIN W /\ W[k].row = i <=> k \in DOMAIN V /\ V[k].row = i
  BY <1>1
<1> QED
  BY <1>1, <1>2 DEF Legal!Leads, W

Renamed(V, W, i, j) ==
    /\ DOMAIN W = DOMAIN V
    /\ \A k \in DOMAIN V : /\ W[k].row = j <=> V[k].row = i
                           /\ W[k].number = V[k].number /\ W[k].prev = V[k].prev
                           /\ W[k].new = V[k].new

LEMMA LeadsRenamed ==
    ASSUME NEW V, NEW W, NEW i, NEW j, NEW from, NEW text, NEW row,
           Legal!Leads(V, i, from, text, row), Renamed(V, W, i, j)
    PROVE  Legal!Leads(W, j, from, text, row)
  BY DEF Legal!Leads, Renamed

\* A table that says nothing of the row.
LEMMA LeadsNowhere ==
    ASSUME NEW V, NEW i, NEW row, row.version \in Nat, \A k \in DOMAIN V : V[k].row # i
    PROVE  Legal!Leads(V, i, row.version, row.text, row)
  BY DEF Legal!Leads

\* One chain after the other.
LEMMA LeadsThrough ==
    ASSUME NEW A \in Seq(Legal!Revs), NEW B \in Seq(Legal!Revs), NEW i, NEW from \in Nat,
           NEW text, NEW cur, cur.version \in Nat, NEW row, row.version \in Nat,
           Legal!Leads(A, i, from, text, cur), Legal!Leads(B, i, cur.version, cur.text, row)
    PROVE  Legal!Leads(A \o B, i, from, text, row)
<1> DEFINE W == A \o B
           a == Len(A)
           b == Len(B)
           v == cur.version
<1>1. /\ DOMAIN A = 1..a /\ DOMAIN B = 1..b /\ DOMAIN W = 1..a + b /\ a \in Nat /\ b \in Nat
      /\ \A k \in 1..a : W[k] = A[k]
      /\ \A k \in a + 1..a + b : W[k] = B[k - a]
      /\ \A k \in 1..b : W[k + a] = B[k]
      /\ \A k \in DOMAIN A : A[k].number \in Nat
      /\ \A k \in DOMAIN B : B[k].number \in Nat
  <2>1. /\ \A k \in DOMAIN A : A[k] \in Legal!Revs
        /\ \A k \in DOMAIN B : B[k] \in Legal!Revs
    OBVIOUS
  <2>2. /\ \A k \in DOMAIN A : A[k].number \in Nat
        /\ \A k \in DOMAIN B : B[k].number \in Nat
    BY <2>1 DEF Legal!Revs
  <2> QED
    BY <2>2
<1>2. /\ from <= v /\ (from = v => text = cur.text)
      /\ \A m \in from + 1..v : \E k \in DOMAIN A : A[k].row = i /\ A[k].number = m
      /\ \A k \in DOMAIN A : A[k].row = i =>
            /\ A[k].number \in from + 1..v
            /\ A[k].number = from + 1 => A[k].prev = text
            /\ A[k].number = v => A[k].new = cur.text
            /\ \A l \in DOMAIN A : A[l].row = i =>
                  /\ k < l => A[k].number < A[l].number
                  /\ A[l].number = A[k].number + 1 => A[l].prev = A[k].new
  BY DEF Legal!Leads
<1>3. /\ v <= row.version /\ (v = row.version => cur.text = row.text)
      /\ \A m \in v + 1..row.version : \E k \in DOMAIN B : B[k].row = i /\ B[k].number = m
      /\ \A k \in DOMAIN B : B[k].row = i =>
            /\ B[k].number \in v + 1..row.version
            /\ B[k].number = v + 1 => B[k].prev = cur.text
            /\ B[k].number = row.version => B[k].new = row.text
            /\ \A l \in DOMAIN B : B[l].row = i =>
                  /\ k < l => B[k].number < B[l].number
                  /\ B[l].number = B[k].number + 1 => B[l].prev = B[k].new
  BY DEF Legal!Leads
<1>v. v \in Nat
  OBVIOUS
<1> HIDE DEF W, a, b, v
<1>4. from <= row.version /\ (from = row.version => text = row.text)
  BY <1>2, <1>3, <1>v
<1>5. ASSUME NEW m \in from + 1..row.version
      PROVE  \E k \in DOMAIN W : W[k].row = i /\ W[k].number = m
  <2>1. CASE m <= v
    <3>1. PICK k \in DOMAIN A : A[k].row = i /\ A[k].number = m
      BY <1>2, <1>v, <2>1
    <3> QED
      BY <1>1, <3>1
  <2>2. CASE v < m
    <3>1. PICK k \in DOMAIN B : B[k].row = i /\ B[k].number = m
      BY <1>3, <1>v, <2>2
    <3>2. k + a \in DOMAIN W /\ W[k + a] = B[k]
      BY <1>1
    <3> QED
      BY <3>1, <3>2
  <2> QED
    BY <1>v, <2>1, <2>2
<1>6. \A k \in DOMAIN W : \/ k \in DOMAIN A /\ W[k] = A[k] /\ k <= a
                          \/ k - a \in DOMAIN B /\ W[k] = B[k - a] /\ a < k
  BY <1>1
<1>7. ASSUME NEW k \in DOMAIN W, W[k].row = i
      PROVE  /\ W[k].number \in from + 1..row.version
             /\ W[k].number = from + 1 => W[k].prev = text
             /\ W[k].number = row.version => W[k].new = row.text
  <2>1. CASE k \in DOMAIN A /\ W[k] = A[k]
    BY <1>1, <1>2, <1>3, <1>7, <1>v, <2>1
  <2>2. CASE k - a \in DOMAIN B /\ W[k] = B[k - a]
    <3>1. /\ W[k].number \in v + 1..row.version
          /\ W[k].number = v + 1 => W[k].prev = cur.text
          /\ W[k].number = row.version => W[k].new = row.text
      BY <1>3, <1>7, <2>2
    <3>2. W[k].number \in from + 1..row.version
      BY <1>2, <1>v, <3>1
    <3>3. W[k].number = from + 1 => v = from
      BY <1>2, <1>v, <3>1
    <3> QED
      BY <1>2, <3>1, <3>2, <3>3
  <2> QED
    BY <1>6, <2>1, <2>2
<1>8. ASSUME NEW k \in DOMAIN W, W[k].row = i, NEW l \in DOMAIN W, W[l].row = i
      PROVE  /\ k < l => W[k].number < W[l].number
             /\ W[l].number = W[k].number + 1 => W[l].prev = W[k].new
  <2>1. CASE k \in DOMAIN A /\ W[k] = A[k] /\ l \in DOMAIN A /\ W[l] = A[l]
    BY <1>2, <1>8, <2>1
  <2>2. CASE k - a \in DOMAIN B /\ W[k] = B[k - a] /\ l - a \in DOMAIN B /\ W[l] = B[l - a]
    <3>1. k < l => k - a < l - a
      BY <1>1
    <3> QED
      BY <1>3, <1>8, <2>2, <3>1
  <2>3. CASE k \in DOMAIN A /\ W[k] = A[k] /\ l - a \in DOMAIN B /\ W[l] = B[l - a]
    <3>1. A[k].number \in from + 1..v /\ B[l - a].number \in v + 1..row.version
      BY <1>2, <1>3, <1>8, <2>3
    <3>2. A[k].number < B[l - a].number
      BY <1>v, <3>1
    <3>3. ASSUME B[l - a].number = A[k].number + 1
          PROVE  B[l - a].prev = A[k].new
      <4>1. A[k].number = v /\ B[l - a].number = v + 1
        BY <1>v, <3>1, <3>3
      <4> QED
        BY <1>2, <1>3, <1>8, <2>3, <4>1
    <3> QED
      BY <2>3, <3>2, <3>3
  <2>4. CASE k - a \in DOMAIN B /\ W[k] = B[k - a] /\ l \in DOMAIN A /\ W[l] = A[l]
    <3>1. A[l].number \in from + 1..v /\ B[k - a].number \in v + 1..row.version /\ l < k
      BY <1>1, <1>2, <1>3, <1>8, <2>4
    <3>2. A[l].number # B[k - a].number + 1
      BY <1>v, <3>1
    <3>3. k \in Int /\ l \in Int
      BY <1>1
    <3>4. ~(k < l)
      BY <3>1, <3>3
    <3> QED
      BY <2>4, <3>2, <3>4
  <2> QED
    BY <1>6, <2>1, <2>2, <2>3, <2>4
<1> QED
  BY <1>4, <1>5, <1>7, <1>8 DEF Legal!Leads, W

\* What the session read of a row: version 0 for a row it adds.
Read(base, i) == IF i \in DOMAIN base THEN [version |-> base[i].version, text |-> base[i].text]
                 ELSE [version |-> 0, text |-> None]

\* The tables of an import continue the rows it read.
TablesHold(base, T, V) ==
    /\ base \in Seq(Legal!Rows) /\ T \in Seq(Legal!Rows) /\ V \in Seq(Legal!Revs)
    /\ Len(base) <= Len(T)
    /\ \A i \in DOMAIN base : T[i].label = base[i].label
    /\ \A k \in DOMAIN V : V[k].row \in DOMAIN T
    /\ \A i \in DOMAIN T : Legal!Leads(V, i, Read(base, i).version, Read(base, i).text, T[i])

\* The rows it read are still there, and where nothing was revised say the same.
BaseHolds(base, R) ==
    /\ Len(base) <= Len(R)
    /\ \A i \in DOMAIN base :
          /\ base[i].version <= R[i].version
          /\ base[i].version = R[i].version => base[i].text = R[i].text
          /\ base[i].label = R[i].label

LEMMA RowFields ==
    ASSUME NEW T \in Seq(Legal!Rows)
    PROVE  /\ DOMAIN T = 1..Len(T) /\ Len(T) \in Nat
           /\ \A i \in DOMAIN T : /\ T[i] \in Legal!Rows
                                  /\ T[i].version \in Nat /\ T[i].version > 0
                                  /\ T[i].text \in Texts /\ T[i].label \in Labels
<1>1. \A i \in DOMAIN T : T[i] \in Legal!Rows
  OBVIOUS
<1> QED
  BY <1>1 DEF Legal!Rows

LEMMA RowFound ==
    ASSUME NEW T \in Seq(Legal!Rows), NEW label
    PROVE  \/ Legal!RowOf(T, label) = 0
           \/ Legal!RowOf(T, label) \in DOMAIN T /\ T[Legal!RowOf(T, label)].label = label
<1> DEFINE found == {i \in DOMAIN T : T[i].label = label}
<1>1. CASE found = {}
  BY <1>1 DEF Legal!RowOf
<1>2. CASE found # {}
  <2>0. found \subseteq Nat
    OBVIOUS
  <2>1. \E m \in found : \A x \in found : m <= x
    BY <1>2, <2>0, NatMinimum
  <2>2. /\ (CHOOSE m \in found : \A x \in found : m <= x) \in found
        /\ Legal!RowOf(T, label) = CHOOSE m \in found : \A x \in found : m <= x
    BY <1>2, <2>1 DEF Legal!RowOf
  <2> QED
    BY <2>2
<1> QED
  BY <1>1, <1>2

\* A section of the document, in the session: the tables still continue what it read.
LEMMA SectionAdded ==
    ASSUME NEW base, NEW tables, TablesHold(base, tables.rows, tables.revs),
           NEW section \in Section
    PROVE  TablesHold(base, Legal!AddSection(tables, section).rows,
                            Legal!AddSection(tables, section).revs)
<1> DEFINE T == tables.rows
           V == tables.revs
           i == Legal!RowOf(T, section.label)
           added == Legal!AddSection(tables, section)
<1>1. /\ base \in Seq(Legal!Rows) /\ T \in Seq(Legal!Rows) /\ V \in Seq(Legal!Revs)
      /\ Len(base) <= Len(T)
      /\ \A j \in DOMAIN base : T[j].label = base[j].label
      /\ \A k \in DOMAIN V : V[k].row \in DOMAIN T
      /\ \A j \in DOMAIN T : Legal!Leads(V, j, Read(base, j).version, Read(base, j).text, T[j])
  BY DEF TablesHold
<1>2. section.label \in Labels /\ section.text \in Texts
  BY DEF Section
<1>3. /\ DOMAIN T = 1..Len(T) /\ Len(T) \in Nat
      /\ DOMAIN base = 1..Len(base) /\ Len(base) \in Nat
      /\ \A j \in DOMAIN T : /\ T[j] \in Legal!Rows /\ T[j].version \in Nat
                             /\ T[j].version > 0 /\ T[j].text \in Texts /\ T[j].label \in Labels
      /\ \A j \in DOMAIN base : base[j].version \in Nat
  BY <1>1, RowFields
<1>4. \A j : Read(base, j).version \in Nat
  BY <1>3 DEF Read
<1>5. CASE i = 0
  <2> DEFINE r == [label |-> section.label, text |-> section.text, version |-> 1]
             x == Legal!Revision(Len(T) + 1, 1, None, section.text)
             n == Len(T) + 1
             none == [version |-> 0, text |-> None]
  <2>1. added.rows = Append(T, r) /\ added.revs = Append(V, x)
    BY <1>5 DEF Legal!AddSection
  <2>2. r \in Legal!Rows /\ x \in Legal!Revs /\ x.row = n /\ x.number = 1 /\ x.prev = None
        /\ x.new = r.text /\ r.version = 1
    BY <1>2, <1>3 DEF Legal!Rows, Legal!Revs, Legal!Revision
  <2>3. none.version = 0 /\ none.text = None
    OBVIOUS
  <2> HIDE DEF r, x, none, i, T, V, added
  <2>4. /\ Append(T, r) \in Seq(Legal!Rows) /\ Append(V, x) \in Seq(Legal!Revs)
        /\ DOMAIN Append(T, r) = DOMAIN T \cup {n} /\ n \notin DOMAIN T
        /\ Append(T, r)[n] = r /\ Len(Append(T, r)) = n
        /\ \A j \in DOMAIN T : Append(T, r)[j] = T[j]
        /\ DOMAIN Append(V, x) = DOMAIN V \cup {Len(V) + 1} /\ Append(V, x)[Len(V) + 1] = x
        /\ \A k \in DOMAIN V : Append(V, x)[k] = V[k]
    BY <1>1, <2>2, Appended
  <2>5. ASSUME NEW j \in DOMAIN T
        PROVE  Legal!Leads(Append(V, x), j, Read(base, j).version, Read(base, j).text, T[j])
    <3>1. x.row # j
      BY <2>2, <2>4
    <3> QED
      BY <1>1, <2>2, <3>1, LeadsElsewhere
  <2>6. Legal!Leads(Append(V, x), n, Read(base, n).version, Read(base, n).text, r)
    <3>1. Read(base, n) = none
      BY <1>1, <1>3 DEF Read, none
    <3>2. \A k \in DOMAIN V : V[k].row # n
      BY <1>1, <2>4
    <3>4. Legal!Leads(V, n, 0, None, none)
      BY <2>3, <3>2 DEF Legal!Leads
    <3>5. none.version \in Nat /\ x.number = none.version + 1 /\ x.prev = none.text
          /\ r.version = none.version + 1 /\ 0 \in Nat
      BY <2>2, <2>3
    <3>6. Legal!Leads(Append(V, x), n, 0, None, r)
      BY <1>1, <2>2, <3>4, <3>5, LeadsOn
    <3> QED
      BY <2>3, <3>1, <3>6
  <2>7. \A j \in DOMAIN base : j \in DOMAIN T
    BY <1>1, <1>3
  <2>8. \A j \in DOMAIN base : Append(T, r)[j].label = base[j].label
    BY <1>1, <2>4, <2>7
  <2>9. \A k \in DOMAIN Append(V, x) : Append(V, x)[k].row \in DOMAIN Append(T, r)
    BY <1>1, <2>2, <2>4
  <2>10. Len(base) <= Len(Append(T, r))
    BY <1>1, <1>3, <2>4
  <2>11. \A j \in DOMAIN Append(T, r) :
           Legal!Leads(Append(V, x), j, Read(base, j).version, Read(base, j).text, Append(T, r)[j])
    BY <2>4, <2>5, <2>6
  <2>12. TablesHold(base, Append(T, r), Append(V, x))
    BY <1>1, <2>4, <2>8, <2>9, <2>10, <2>11 DEF TablesHold
  <2> QED
    BY <2>1, <2>12 DEF added
<1>6. CASE i \in DOMAIN T /\ T[i].text = section.text
  <2>1. i # 0
    BY <1>3, <1>6
  <2>2. added = tables
    BY <1>6, <2>1 DEF Legal!AddSection
  <2> QED
    BY <2>2
<1>7. CASE i \in DOMAIN T /\ T[i].text # section.text
  <2> DEFINE old == T[i]
             r == [old EXCEPT !.text = section.text, !.version = old.version + 1]
             x == Legal!Revision(i, old.version + 1, old.text, section.text)
             W == [T EXCEPT ![i] = r]
  <2>0. i # 0 /\ i \in Nat
    BY <1>3, <1>7
  <2>1. added = [rows |-> W, revs |-> Append(V, x)]
    BY <1>7, <2>0, Zenon DEF Legal!AddSection
  <2>2. old \in Legal!Rows /\ old.version \in Nat /\ old.text \in Texts
    BY <1>3, <1>7
  <2>3. /\ r \in Legal!Rows /\ r.version = old.version + 1 /\ r.text = section.text
        /\ r.label = old.label
    <3>1. PICK v \in Nat \ {0} : v = old.version + 1
      BY <2>2
    <3>2. PICK q : q = [old EXCEPT !.text = section.text, !.version = v]
      OBVIOUS
    <3>3. q = r
      BY <3>1, <3>2
    <3> HIDE DEF old, r
    <3>4. q \in Legal!Rows /\ q.version = v /\ q.text = section.text /\ q.label = old.label
      BY <1>2, <2>2, <3>2 DEF Legal!Rows
    <3> QED
      BY <3>1, <3>3, <3>4
  <2>4. x \in Legal!Revs /\ x.row = i /\ x.number = old.version + 1 /\ x.prev = old.text
        /\ x.new = r.text
    BY <1>2, <2>0, <2>2, <2>3 DEF Legal!Revs, Legal!Revision
  <2>5. /\ W \in Seq(Legal!Rows) /\ DOMAIN W = DOMAIN T /\ Len(W) = Len(T)
        /\ W[i] = r /\ \A j \in DOMAIN T : j # i => W[j] = T[j]
    BY <1>1, <1>7, <2>3
  <2>6. old = T[i]
    OBVIOUS
  <2> HIDE DEF old, r, x, W, i, T, V, added
  <2>7. /\ Append(V, x) \in Seq(Legal!Revs)
        /\ DOMAIN Append(V, x) = DOMAIN V \cup {Len(V) + 1} /\ Append(V, x)[Len(V) + 1] = x
        /\ \A k \in DOMAIN V : Append(V, x)[k] = V[k]
    BY <1>1, <2>4, Appended
  <2>8. ASSUME NEW j \in DOMAIN T, j # i
        PROVE  Legal!Leads(Append(V, x), j, Read(base, j).version, Read(base, j).text, T[j])
    <3>1. x.row # j
      BY <2>4, <2>8
    <3> QED
      BY <1>1, <2>4, <3>1, LeadsElsewhere
  <2>9. Legal!Leads(Append(V, x), i, Read(base, i).version, Read(base, i).text, r)
    <3>1. Legal!Leads(V, i, Read(base, i).version, Read(base, i).text, old)
      BY <1>1, <1>7, <2>6
    <3> QED
      BY <1>1, <1>4, <2>2, <2>3, <2>4, <3>1, LeadsOn
  <2>10. \A j \in DOMAIN base : j \in DOMAIN T
    BY <1>1, <1>3
  <2>11. \A j \in DOMAIN base : W[j].label = base[j].label
    BY <1>1, <2>3, <2>5, <2>6, <2>10
  <2>12. \A k \in DOMAIN Append(V, x) : Append(V, x)[k].row \in DOMAIN W
    BY <1>1, <1>7, <2>4, <2>5, <2>7
  <2>13. \A j \in DOMAIN W :
           Legal!Leads(Append(V, x), j, Read(base, j).version, Read(base, j).text, W[j])
    BY <2>5, <2>8, <2>9
  <2>14. TablesHold(base, W, Append(V, x))
    BY <1>1, <2>5, <2>7, <2>11, <2>12, <2>13 DEF TablesHold
  <2> QED
    BY <2>1, <2>14 DEF added
<1> QED
  BY <1>1, <1>5, <1>6, <1>7, RowFound

\* What the session read is still so as the rows grow.
LEMMA BaseGrows ==
    ASSUME NEW base \in Seq(Legal!Rows), NEW R \in Seq(Legal!Rows), NEW Q \in Seq(Legal!Rows),
           BaseHolds(base, R), BaseHolds(R, Q)
    PROVE  BaseHolds(base, Q)
<1>1. /\ DOMAIN base = 1..Len(base) /\ Len(base) \in Nat
      /\ DOMAIN R = 1..Len(R) /\ Len(R) \in Nat
      /\ DOMAIN Q = 1..Len(Q) /\ Len(Q) \in Nat
      /\ \A i \in DOMAIN base : base[i].version \in Nat
      /\ \A i \in DOMAIN R : R[i].version \in Nat
      /\ \A i \in DOMAIN Q : Q[i].version \in Nat
  BY RowFields
<1>2. \A i \in DOMAIN base : i \in DOMAIN R /\ i \in DOMAIN Q
  BY <1>1 DEF BaseHolds
<1>3. ASSUME NEW i \in DOMAIN base
      PROVE  /\ base[i].version <= Q[i].version
             /\ base[i].version = Q[i].version => base[i].text = Q[i].text
             /\ base[i].label = Q[i].label
  <2>1. /\ base[i].version <= R[i].version
        /\ base[i].version = R[i].version => base[i].text = R[i].text
        /\ base[i].label = R[i].label
    BY DEF BaseHolds
  <2>2. /\ R[i].version <= Q[i].version
        /\ R[i].version = Q[i].version => R[i].text = Q[i].text
        /\ R[i].label = Q[i].label
    BY <1>2 DEF BaseHolds
  <2>3. base[i].version \in Nat /\ R[i].version \in Nat /\ Q[i].version \in Nat
    BY <1>1, <1>2
  <2> QED
    BY <2>1, <2>2, <2>3
<1>4. Len(base) <= Len(Q)
  BY <1>1 DEF BaseHolds
<1> QED
  BY <1>3, <1>4 DEF BaseHolds

\* The ids of the rows an import adds.
LEMMA ShiftedRevisions ==
    ASSUME NEW d, rows \in Seq(Legal!Rows), TablesHold(d.base, d.tables.rows, d.tables.revs),
           Len(d.base) <= Len(rows)
    PROVE  LET S == Legal!Shifted(d)
               V == d.tables.revs
           IN  /\ S \in Seq(Legal!Revs) /\ DOMAIN S = DOMAIN V
               /\ \A k \in DOMAIN V :
                     /\ S[k].row = IF V[k].row <= Len(d.base) THEN V[k].row
                                   ELSE V[k].row + Len(rows) - Len(d.base)
                     /\ S[k].number = V[k].number /\ S[k].prev = V[k].prev /\ S[k].new = V[k].new
<1> DEFINE S == Legal!Shifted(d)
           V == d.tables.revs
           N == Len(rows)
           b == Len(d.base)
<1>1. V \in Seq(Legal!Revs) /\ d.base \in Seq(Legal!Rows)
  BY DEF TablesHold
<1>2. DOMAIN V = 1..Len(V) /\ Len(V) \in Nat /\ N \in Nat /\ b \in Nat
  BY <1>1
<1>3. \A k \in DOMAIN V : V[k] \in Legal!Revs
  BY <1>1
<1>4. S = [k \in DOMAIN V |-> IF V[k].row <= b THEN V[k]
                              ELSE [V[k] EXCEPT !.row = @ + N - b]]
  BY DEF Legal!Shifted
<1>6. b <= N
  OBVIOUS
<1> HIDE DEF S, V, N, b
<1>5. ASSUME NEW k \in DOMAIN V
      PROVE  /\ S[k] \in Legal!Revs
             /\ S[k].row = IF V[k].row <= b THEN V[k].row ELSE V[k].row + N - b
             /\ S[k].number = V[k].number /\ S[k].prev = V[k].prev /\ S[k].new = V[k].new
  <2>1. V[k].row \in Nat \ {0}
    BY <1>3 DEF Legal!Revs
  <2>2. CASE V[k].row <= b
    BY <1>3, <1>4, <2>2
  <2>3. CASE ~(V[k].row <= b)
    <3>1. PICK r \in Nat \ {0} : r = V[k].row + N - b
      BY <1>2, <1>6, <2>1, <2>3
    <3>2. PICK v : v = V[k]
      OBVIOUS
    <3>3. PICK q : q = [v EXCEPT !.row = r]
      OBVIOUS
    <3>4. S[k] = q
      BY <1>4, <2>3, <3>1, <3>2, <3>3
    <3>5. q \in Legal!Revs /\ q.row = r /\ q.number = v.number /\ q.prev = v.prev /\ q.new = v.new
      BY <1>3, <3>2, <3>3 DEF Legal!Revs
    <3> QED
      BY <2>3, <3>1, <3>2, <3>4, <3>5
  <2> QED
    BY <2>2, <2>3
<1>7. DOMAIN S = DOMAIN V
  BY <1>4
<1>8. S \in Seq(Legal!Revs)
  <2>1. S = [k \in 1..Len(V) |-> S[k]]
    BY <1>2, <1>4
  <2>2. \A k \in 1..Len(V) : S[k] \in Legal!Revs
    BY <1>2, <1>5
  <2> QED
    BY <1>2, <2>1, <2>2
<1> QED
  BY <1>5, <1>7, <1>8 DEF S, V, N, b

\* A row the import changed is as the import read it: another import's revision of it
\* would have collided.
LEMMA ChangedAsRead ==
    ASSUME NEW d, rows \in Seq(Legal!Rows), revs \in Seq(Legal!Revs), Legal!RevisionsChain,
           TablesHold(d.base, d.tables.rows, d.tables.revs), BaseHolds(d.base, rows),
           ~Legal!Collides(d), NEW i \in DOMAIN d.base, d.base[i] # d.tables.rows[i]
    PROVE  /\ rows[i].version = d.base[i].version /\ rows[i].text = d.base[i].text
           /\ rows[i].label = d.tables.rows[i].label
           /\ d.base[i].version < d.tables.rows[i].version
<1> DEFINE base == d.base
           T == d.tables.rows
           V == d.tables.revs
           S == Legal!Shifted(d)
<1>1. /\ base \in Seq(Legal!Rows) /\ T \in Seq(Legal!Rows) /\ V \in Seq(Legal!Revs)
      /\ Len(base) <= Len(T) /\ T[i].label = base[i].label
      /\ \A j \in DOMAIN T : Legal!Leads(V, j, Read(base, j).version, Read(base, j).text, T[j])
  BY DEF TablesHold
<1>2. /\ Len(base) <= Len(rows) /\ base[i].version <= rows[i].version
      /\ base[i].version = rows[i].version => base[i].text = rows[i].text
      /\ base[i].label = rows[i].label
  BY DEF BaseHolds
<1>3. /\ DOMAIN base = 1..Len(base) /\ Len(base) \in Nat
      /\ DOMAIN T = 1..Len(T) /\ Len(T) \in Nat
      /\ DOMAIN rows = 1..Len(rows) /\ Len(rows) \in Nat
      /\ \A j \in DOMAIN base : base[j] \in Legal!Rows /\ base[j].version \in Nat
      /\ \A j \in DOMAIN T : T[j] \in Legal!Rows /\ T[j].version \in Nat
      /\ \A j \in DOMAIN rows : rows[j].version \in Nat
  BY <1>1, RowFields
<1>4. /\ DOMAIN S = DOMAIN V
      /\ \A k \in DOMAIN V :
            /\ V[k].row <= Len(base) => S[k].row = V[k].row
            /\ S[k].number = V[k].number
  BY <1>2, ShiftedRevisions
<1>5. ~\E k \in DOMAIN S, l \in DOMAIN revs : revs[l].row = S[k].row /\ revs[l].number = S[k].number
  BY DEF Legal!Collides
<1>6. Legal!Leads(revs, i, 0, None, rows[i])
  BY <1>2, <1>3 DEF Legal!RevisionsChain
<1>7. base[i] # T[i] /\ i \in DOMAIN base
  OBVIOUS
<1> HIDE DEF base, T, V, S
<1>8. i \in DOMAIN T /\ i \in DOMAIN rows
  BY <1>1, <1>2, <1>3, <1>7
<1>9. Legal!Leads(V, i, base[i].version, base[i].text, T[i])
  <2>1. Read(base, i) = [version |-> base[i].version, text |-> base[i].text]
    BY <1>7 DEF Read
  <2> QED
    BY <1>1, <1>8, <2>1
<1>10. base[i].version < T[i].version
  <2>1. base[i].version <= T[i].version
        /\ (base[i].version = T[i].version => base[i].text = T[i].text)
    BY <1>9 DEF Legal!Leads
  <2>2. base[i].version # T[i].version
    <3>1. /\ base[i] \in Legal!Rows /\ T[i] \in Legal!Rows
          /\ T[i].label = base[i].label
      BY <1>1, <1>3, <1>7, <1>8
    <3> QED
      BY <1>7, <2>1, <3>1 DEF Legal!Rows
  <2> QED
    BY <1>3, <1>7, <1>8, <2>1, <2>2
<1>11. base[i].version = rows[i].version
  <2>1. SUFFICES ASSUME base[i].version < rows[i].version PROVE FALSE
    BY <1>2, <1>3, <1>7, <1>8
  <2>2. /\ base[i].version + 1 \in base[i].version + 1..T[i].version
        /\ base[i].version + 1 \in 0 + 1..rows[i].version
    BY <1>3, <1>7, <1>8, <1>10, <2>1
  <2>3. PICK k \in DOMAIN V : V[k].row = i /\ V[k].number = base[i].version + 1
    BY <1>9, <2>2 DEF Legal!Leads
  <2>4. PICK l \in DOMAIN revs : revs[l].row = i /\ revs[l].number = base[i].version + 1
    BY <1>6, <2>2 DEF Legal!Leads
  <2>5. V[k].row <= Len(base)
    BY <1>3, <1>7, <2>3
  <2> QED
    BY <1>4, <1>5, <2>3, <2>4, <2>5
<1> QED
  BY <1>1, <1>2, <1>10, <1>11 DEF base, T

CommittedRows(d) ==
    [i \in DOMAIN rows |->
        IF i <= Len(d.base) /\ d.base[i] # d.tables.rows[i] THEN d.tables.rows[i]
        ELSE rows[i]] \o Legal!NewRows(d)

CommittedRevs(d) == revs \o Legal!Shifted(d)

\* The rows and revisions after the commit of an import.
LEMMA RowsCommitted ==
    ASSUME NEW d, rows \in Seq(Legal!Rows), revs \in Seq(Legal!Revs), Legal!RevisionsChain,
           TablesHold(d.base, d.tables.rows, d.tables.revs), BaseHolds(d.base, rows),
           ~Legal!Collides(d)
    PROVE  /\ CommittedRows(d) \in Seq(Legal!Rows) /\ BaseHolds(rows, CommittedRows(d))
           /\ CommittedRevs(d) \in Seq(Legal!Revs)
           /\ \A k \in DOMAIN CommittedRevs(d) :
                 CommittedRevs(d)[k].row \in DOMAIN CommittedRows(d)
           /\ \A i \in DOMAIN CommittedRows(d) :
                 Legal!Leads(CommittedRevs(d), i, 0, None, CommittedRows(d)[i])
<1> DEFINE base == d.base
           T == d.tables.rows
           V == d.tables.revs
           S == Legal!Shifted(d)
           b == Len(base)
           t == Len(T)
           N == Len(rows)
           kept == [i \in DOMAIN rows |-> IF i <= b /\ base[i] # T[i] THEN T[i] ELSE rows[i]]
           new == Legal!NewRows(d)
           R == CommittedRows(d)
<1>1. /\ base \in Seq(Legal!Rows) /\ T \in Seq(Legal!Rows) /\ V \in Seq(Legal!Revs)
      /\ b <= t
      /\ \A j \in DOMAIN base : T[j].label = base[j].label
      /\ \A k \in DOMAIN V : V[k].row \in DOMAIN T
      /\ \A j \in DOMAIN T : Legal!Leads(V, j, Read(base, j).version, Read(base, j).text, T[j])
  BY DEF TablesHold
<1>2. /\ b <= N
      /\ \A i \in DOMAIN base :
            /\ base[i].version <= rows[i].version
            /\ base[i].version = rows[i].version => base[i].text = rows[i].text
            /\ base[i].label = rows[i].label
  BY DEF BaseHolds
<1>3. /\ DOMAIN base = 1..b /\ b \in Nat
      /\ DOMAIN T = 1..t /\ t \in Nat
      /\ DOMAIN rows = 1..N /\ N \in Nat
      /\ \A j \in DOMAIN base : base[j] \in Legal!Rows /\ base[j].version \in Nat
      /\ \A j \in DOMAIN T : T[j] \in Legal!Rows /\ T[j].version \in Nat
      /\ \A j \in DOMAIN rows : rows[j] \in Legal!Rows /\ rows[j].version \in Nat
  BY <1>1, RowFields
<1>4. /\ S \in Seq(Legal!Revs) /\ DOMAIN S = DOMAIN V
      /\ \A k \in DOMAIN V :
            /\ V[k].row <= b => S[k].row = V[k].row
            /\ ~(V[k].row <= b) => S[k].row = V[k].row + N - b
            /\ S[k].number = V[k].number /\ S[k].prev = V[k].prev /\ S[k].new = V[k].new
  BY <1>2, ShiftedRevisions
<1>5. \A i \in DOMAIN base : base[i] # T[i] =>
         /\ rows[i].version = base[i].version /\ rows[i].text = base[i].text
         /\ rows[i].label = T[i].label /\ base[i].version < T[i].version
  BY ChangedAsRead
<1>6. /\ \A k \in DOMAIN revs : revs[k].row \in DOMAIN rows
      /\ \A i \in DOMAIN rows : Legal!Leads(revs, i, 0, None, rows[i])
  BY DEF Legal!RevisionsChain
<1>7. new = SubSeq(T, b + 1, t)
  BY DEF Legal!NewRows
<1>8. R = kept \o new
  BY DEF CommittedRows
<1>m. PICK m \in Nat : t = b + m
  <2>1. t - b \in Nat /\ t = b + (t - b)
    BY <1>1, <1>3
  <2> QED
    BY <2>1
<1> HIDE DEF base, T, V, S, b, t, N, new, R
<1>9. /\ new \in Seq(Legal!Rows) /\ Len(new) = m /\ DOMAIN new = 1..m
      /\ \A j \in 1..m : new[j] = T[b + j]
  <2>0. /\ b + 1 \in Nat /\ t - (b + 1) + 1 = m /\ b + 1..t \subseteq DOMAIN T
        /\ \A j \in 1..m : b + 1 + j - 1 = b + j
        /\ m = IF b + 1 <= t THEN t - (b + 1) + 1 ELSE 0
    BY <1>3, <1>m
  <2>1. \A j \in b + 1..t : T[j] \in Legal!Rows
    BY <1>3, <2>0
  <2>2. /\ new \in Seq(Legal!Rows)
        /\ Len(new) = IF b + 1 <= t THEN t - (b + 1) + 1 ELSE 0
        /\ \A j \in 1..t - (b + 1) + 1 : new[j] = T[b + 1 + j - 1]
    BY <1>1, <1>3, <1>7, <2>1, SubSeqProperties
  <2>3. Len(new) = m
    BY <2>0, <2>2
  <2>4. ASSUME NEW j \in 1..m
        PROVE  new[j] = T[b + j]
    BY <2>0, <2>2
  <2> QED
    BY <2>2, <2>3, <2>4, LenProperties
<1>10. /\ kept \in Seq(Legal!Rows) /\ Len(kept) = N
       /\ \A i \in 1..N : kept[i] = IF i <= b /\ base[i] # T[i] THEN T[i] ELSE rows[i]
  <2>1. \A i \in 1..N : kept[i] = IF i <= b /\ base[i] # T[i] THEN T[i] ELSE rows[i]
    BY <1>3
  <2>2. ASSUME NEW i \in 1..N
        PROVE  kept[i] \in Legal!Rows
    <3>1. i <= b => i \in DOMAIN T
      BY <1>1, <1>3
    <3> QED
      BY <1>3, <2>1, <3>1
  <2>3. kept = [i \in 1..N |-> kept[i]]
    BY <1>3
  <2> HIDE DEF kept
  <2>4. kept \in Seq(Legal!Rows)
    <3>1. kept \in [1..N -> Legal!Rows]
      BY <2>2, <2>3
    <3> QED
      BY <1>3, <3>1, SeqDef
  <2>5. DOMAIN kept = 1..N
    BY <2>3
  <2>6. Len(kept) = N
    BY <1>3, <2>4, <2>5, LenProperties
  <2> QED
    BY <2>1, <2>4, <2>6
<1> HIDE DEF kept
<1>11. /\ R \in Seq(Legal!Rows) /\ Len(R) = N + m /\ DOMAIN R = 1..N + m
       /\ \A i \in 1..N :
             /\ i \in DOMAIN base /\ base[i] # T[i] => R[i] = T[i]
             /\ ~(i \in DOMAIN base /\ base[i] # T[i]) => R[i] = rows[i]
       /\ \A j \in 1..m : R[N + j] = T[b + j]
  <2>1. /\ R \in Seq(Legal!Rows) /\ Len(R) = N + m
        /\ \A i \in 1..N + m : R[i] = IF i <= N THEN kept[i] ELSE new[i - N]
    <3>1. /\ kept \o new \in Seq(Legal!Rows)
          /\ Len(kept \o new) = Len(kept) + Len(new)
          /\ \A i \in 1..Len(kept) + Len(new) :
                (kept \o new)[i] = IF i <= Len(kept) THEN kept[i] ELSE new[i - Len(kept)]
      BY <1>9, <1>10, ConcatProperties
    <3>2. Len(kept) + Len(new) = N + m /\ Len(kept) = N
      BY <1>9, <1>10
    <3> QED
      BY <1>8, <3>1, <3>2
  <2>2. DOMAIN R = 1..N + m
    BY <2>1, LenProperties
  <2>3. ASSUME NEW i \in 1..N
        PROVE  /\ i \in DOMAIN base /\ base[i] # T[i] => R[i] = T[i]
               /\ ~(i \in DOMAIN base /\ base[i] # T[i]) => R[i] = rows[i]
    <3>1. i \in 1..N + m /\ i <= N /\ (i <= b <=> i \in DOMAIN base)
      BY <1>3, <1>m
    <3>2. R[i] = kept[i]
      BY <2>1, <3>1
    <3> QED
      BY <1>10, <3>1, <3>2
  <2>4. ASSUME NEW j \in 1..m
        PROVE  R[N + j] = T[b + j]
    <3>p. PICK p : p = N + j
      OBVIOUS
    <3>1. p \in 1..N + m /\ ~(p <= N) /\ p - N = j
      BY <1>3, <1>m, <3>p
    <3>2. R[p] = new[p - N]
      BY <2>1, <3>1
    <3> QED
      BY <1>9, <3>p, <3>1, <3>2
  <2> QED
    BY <2>1, <2>2, <2>3, <2>4
<1>12. BaseHolds(rows, R)
  <2>1. ASSUME NEW i \in DOMAIN rows
        PROVE  /\ rows[i].version <= R[i].version
               /\ rows[i].version = R[i].version => rows[i].text = R[i].text
               /\ rows[i].label = R[i].label
    <3>1. CASE i \in DOMAIN base /\ base[i] # T[i]
      <4>1. R[i] = T[i] /\ rows[i].version < R[i].version
        BY <1>2, <1>3, <1>5, <1>11, <3>1
      <4>2. rows[i].version \in Nat /\ R[i].version \in Nat /\ i \in DOMAIN T
        BY <1>1, <1>3, <3>1, <4>1
      <4>3. rows[i].version <= R[i].version /\ rows[i].version # R[i].version
        BY <4>1, <4>2
      <4>4. rows[i].label = R[i].label
        BY <1>5, <3>1, <4>1
      <4> QED
        BY <4>3, <4>4
    <3>2. CASE ~(i \in DOMAIN base /\ base[i] # T[i])
      <4>1. R[i] = rows[i]
        BY <1>3, <1>11, <3>2
      <4> QED
        BY <1>3, <4>1
    <3> QED
      BY <3>1, <3>2
  <2>2. N <= Len(R)
    BY <1>3, <1>m, <1>11
  <2> QED
    BY <2>1, <2>2 DEF BaseHolds, N
<1>13. /\ revs \o S \in Seq(Legal!Revs)
       /\ \A k \in DOMAIN (revs \o S) : \/ k \in DOMAIN revs /\ (revs \o S)[k] = revs[k]
                                        \/ \E l \in DOMAIN S : (revs \o S)[k] = S[l]
  <2>1. /\ revs \o S \in Seq(Legal!Revs) /\ DOMAIN (revs \o S) = 1..Len(revs) + Len(S)
        /\ Len(revs) \in Nat /\ Len(S) \in Nat
        /\ DOMAIN revs = 1..Len(revs) /\ DOMAIN S = 1..Len(S)
        /\ \A k \in 1..Len(revs) : (revs \o S)[k] = revs[k]
        /\ \A k \in Len(revs) + 1..Len(revs) + Len(S) : (revs \o S)[k] = S[k - Len(revs)]
    BY <1>4
  <2>2. ASSUME NEW k \in DOMAIN (revs \o S), k \notin DOMAIN revs
        PROVE  \E l \in DOMAIN S : (revs \o S)[k] = S[l]
    <3>1. k \in Len(revs) + 1..Len(revs) + Len(S) /\ k - Len(revs) \in DOMAIN S
      BY <2>1, <2>2
    <3> QED
      BY <2>1, <3>1
  <2> QED
    BY <2>1, <2>2
<1>14. \A k \in DOMAIN (revs \o S) : (revs \o S)[k].row \in DOMAIN R
  <2>1. \A k \in DOMAIN revs : revs[k].row \in DOMAIN R
    BY <1>3, <1>m, <1>6, <1>11
  <2>2. ASSUME NEW l \in DOMAIN S
        PROVE  S[l].row \in DOMAIN R
    <3>1. V[l].row \in 1..t /\ l \in DOMAIN V
      BY <1>1, <1>3, <1>4
    <3>2. CASE V[l].row <= b
      BY <1>2, <1>3, <1>m, <1>4, <1>11, <3>1, <3>2
    <3>3. CASE ~(V[l].row <= b)
      <4>1. S[l].row = V[l].row + N - b
        BY <1>4, <3>1, <3>3
      <4> QED
        BY <1>3, <1>m, <1>11, <3>1, <3>3, <4>1
    <3> QED
      BY <3>2, <3>3
  <2> QED
    BY <1>13, <2>1, <2>2
<1>15. ASSUME NEW i \in DOMAIN R
       PROVE  Legal!Leads(revs \o S, i, 0, None, R[i])
  <2>0. i \in 1..N + m
    BY <1>11
  <2>1. CASE i \in DOMAIN base /\ base[i] # T[i]
    <3>1. i \in DOMAIN T /\ i \in DOMAIN rows
      BY <1>1, <1>2, <1>3, <2>1
    <3>2. Legal!Leads(V, i, base[i].version, base[i].text, T[i])
      <4>1. Read(base, i) = [version |-> base[i].version, text |-> base[i].text]
        BY <2>1 DEF Read
      <4> QED
        BY <1>1, <3>1, <4>1
    <3>3. ASSUME NEW k \in DOMAIN V
          PROVE  /\ S[k].row = i <=> V[k].row = i
                 /\ S[k].number = V[k].number /\ S[k].prev = V[k].prev /\ S[k].new = V[k].new
      <4>1. V[k].row \in 1..t
        BY <1>1, <1>3
      <4>2. CASE V[k].row <= b
        BY <1>4, <4>2
      <4>3. CASE ~(V[k].row <= b)
        <5>1. S[k].row = V[k].row + N - b
          BY <1>4, <4>3
        <5>2. S[k].row # i /\ V[k].row # i
          BY <1>2, <1>3, <2>1, <4>1, <4>3, <5>1
        <5> QED
          BY <1>4, <5>2
      <4> QED
        BY <4>2, <4>3
    <3>4. Legal!Leads(S, i, base[i].version, base[i].text, T[i])
      <4>1. Renamed(V, S, i, i)
        BY <1>4, <3>3 DEF Renamed
      <4> QED
        BY <3>2, <4>1, LeadsRenamed
    <3>5. Legal!Leads(S, i, rows[i].version, rows[i].text, T[i])
      BY <1>5, <2>1, <3>4
    <3>6. R[i] = T[i]
      BY <1>3, <1>11, <2>1, <3>1
    <3>7. rows[i].version \in Nat /\ T[i].version \in Nat /\ 0 \in Nat
      BY <1>3, <3>1
    <3> QED
      BY <1>4, <1>6, <3>1, <3>5, <3>6, <3>7, LeadsThrough
  <2>2. CASE i \in DOMAIN rows /\ ~(i \in DOMAIN base /\ base[i] # T[i])
    <3>1. R[i] = rows[i]
      BY <1>3, <1>11, <2>2
    <3>2. ASSUME NEW k \in DOMAIN S
          PROVE  S[k].row # i
      <4>1. V[k].row \in 1..t /\ k \in DOMAIN V
        BY <1>1, <1>3, <1>4
      <4>2. CASE V[k].row <= b
        <5>1. SUFFICES ASSUME V[k].row = i PROVE FALSE
          BY <1>4, <4>1, <4>2
        <5>2. i \in DOMAIN base /\ i \in DOMAIN T /\ base[i] = T[i]
          BY <1>1, <1>3, <2>2, <4>1, <4>2, <5>1
        <5>3. Legal!Leads(V, i, base[i].version, base[i].text, T[i])
          <6>1. Read(base, i) = [version |-> base[i].version, text |-> base[i].text]
            BY <5>2 DEF Read
          <6> QED
            BY <1>1, <5>2, <6>1
        <5>4. V[k].number \in base[i].version + 1..base[i].version
          BY <4>1, <5>1, <5>2, <5>3 DEF Legal!Leads
        <5> QED
          BY <1>3, <5>2, <5>4
      <4>3. CASE ~(V[k].row <= b)
        <5>1. S[k].row = V[k].row + N - b
          BY <1>4, <4>1, <4>3
        <5> QED
          BY <1>3, <2>2, <4>1, <4>3, <5>1
      <4> QED
        BY <4>2, <4>3
    <3>3. rows[i].version \in Nat /\ 0 \in Nat
      BY <1>3, <2>2
    <3>4. Legal!Leads(S, i, rows[i].version, rows[i].text, rows[i])
      BY <3>2, <3>3 DEF Legal!Leads
    <3> QED
      BY <1>4, <1>6, <2>2, <3>1, <3>3, <3>4, LeadsThrough
  <2>3. CASE i \notin DOMAIN rows
    <3>1. PICK j \in 1..m : i = N + j
      <4>1. i - N \in 1..m /\ i = N + (i - N)
        BY <1>3, <1>m, <2>0, <2>3
      <4> QED
        BY <4>1
    <3>2. R[i] = T[b + j] /\ b + j \in DOMAIN T /\ b + j \notin DOMAIN base
      BY <1>3, <1>m, <1>11, <3>1
    <3>3. Legal!Leads(V, b + j, 0, None, T[b + j])
      <4>1. Read(base, b + j) = [version |-> 0, text |-> None]
        BY <3>2 DEF Read
      <4> QED
        BY <1>1, <3>2, <4>1
    <3>4. ASSUME NEW k \in DOMAIN V
          PROVE  /\ S[k].row = i <=> V[k].row = b + j
                 /\ S[k].number = V[k].number /\ S[k].prev = V[k].prev /\ S[k].new = V[k].new
      <4>1. V[k].row \in 1..t
        BY <1>1, <1>3
      <4>2. CASE V[k].row <= b
        <5>1. S[k].row = V[k].row
          BY <1>4, <4>2
        <5>2. S[k].row # i /\ V[k].row # b + j
          BY <1>2, <1>3, <3>1, <4>1, <4>2, <5>1
        <5> QED
          BY <1>4, <5>2
      <4>3. CASE ~(V[k].row <= b)
        <5>1. S[k].row = V[k].row + N - b
          BY <1>4, <4>3
        <5>2. V[k].row \in Int /\ N \in Int /\ b \in Int /\ i \in Int /\ j \in Int
          BY <1>3, <2>0, <3>1, <4>1
        <5>3. S[k].row = i <=> V[k].row = b + j
          BY <3>1, <5>1, <5>2
        <5> QED
          BY <1>4, <5>3
      <4> QED
        BY <4>2, <4>3
    <3>5. Legal!Leads(S, i, 0, None, T[b + j])
      <4>1. Renamed(V, S, b + j, i)
        BY <1>4, <3>4 DEF Renamed
      <4> QED
        BY <3>3, <4>1, LeadsRenamed
    <3>6. PICK none : none = [version |-> 0, text |-> None]
      OBVIOUS
    <3>7. none.version = 0 /\ none.text = None /\ 0 \in Nat
      BY <3>6
    <3>8. \A k \in DOMAIN revs : revs[k].row # i
      BY <1>6, <2>3
    <3>9. Legal!Leads(revs, i, 0, None, none)
      BY <3>7, <3>8 DEF Legal!Leads
    <3>10. Legal!Leads(S, i, none.version, none.text, T[b + j])
      BY <3>5, <3>7
    <3>11. T[b + j].version \in Nat
      BY <1>3, <3>2
    <3> QED
      BY <1>4, <3>2, <3>7, <3>9, <3>10, <3>11, LeadsThrough
  <2> QED
    BY <2>1, <2>2, <2>3
<1> QED
  BY <1>11, <1>12, <1>13, <1>14, <1>15 DEF S, R, CommittedRevs

\* What an open transaction knows: n review items, and whether the instrument exists.
TxHolds(d, R, n, here) ==
    /\ d.pc \in {"idle", "import", "decide"}
    /\ d.pc \in {"import", "decide"} => d.inst = None \/ (d.inst \in Instruments /\ here)
    /\ d.pc = "import" => /\ "tables" \in DOMAIN d /\ "left" \in DOMAIN d
                          /\ TablesHold(d.base, d.tables.rows, d.tables.revs)
                          /\ BaseHolds(d.base, R)
                          /\ d.left \in Seq(Section) /\ d.fresh \in Seq(Legal!Items)
    /\ d.pc = "decide" => d.item \in 1..n /\ d.was \in Legal!Items /\ d.decision \in Legal!Decisions

\* What an instrument shows, decided says of the last decision, crossed of the overlaps.
InstHolds(one, decided, overlap) ==
    one # None => /\ one.status = "approved" => decided # None
                  /\ ~overlap => /\ one.public <=> one.status = "approved"
                                 /\ one.status = "approved" => decided = "approved"

LegalInv ==
    /\ Legal!TypeOK /\ Legal!RevisionsChain /\ InstHolds(inst, last, raced)
    /\ DOMAIN tx = Sessions
    /\ \A s \in Sessions : TxHolds(tx[s], rows, Len(items), inst # None)

LEMMA TxStays ==
    ASSUME NEW R \in Seq(Legal!Rows), NEW Q \in Seq(Legal!Rows), BaseHolds(R, Q),
           NEW n \in Nat, NEW m \in Nat, n <= m, NEW here, NEW there, here => there,
           NEW d, TxHolds(d, R, n, here)
    PROVE  TxHolds(d, Q, m, there)
<1>1. d.pc = "import" => BaseHolds(d.base, Q)
  BY BaseGrows DEF TxHolds, TablesHold
<1>2. d.pc = "decide" => d.item \in 1..m
  BY DEF TxHolds
<1> QED
  BY <1>1, <1>2 DEF TxHolds

LEMMA BaseSame == ASSUME NEW R PROVE R \in Seq(Legal!Rows) => BaseHolds(R, R)
<1> SUFFICES ASSUME R \in Seq(Legal!Rows) PROVE BaseHolds(R, R)
  OBVIOUS
<1> QED
  BY RowFields DEF BaseHolds

\* Only the step's own transaction changes; the others stay as the rows, the items and the
\* instrument grow.
LEMMA TxStep ==
    ASSUME LegalInv, NEW s \in Sessions, NEW d, tx' = [tx EXCEPT ![s] = d],
           TxHolds(d, rows', Len(items'), inst' # None),
           rows' \in Seq(Legal!Rows), BaseHolds(rows, rows'),
           items' \in Seq(Legal!Items), Len(items) <= Len(items'), inst # None => inst' # None
    PROVE  /\ DOMAIN tx' = Sessions
           /\ \A r \in Sessions : TxHolds(tx'[r], rows', Len(items'), inst' # None)
<1>1. Len(items) \in Nat /\ Len(items') \in Nat /\ rows \in Seq(Legal!Rows)
  BY DEF LegalInv, Legal!TypeOK
<1>2. ASSUME NEW r \in Sessions, r # s
      PROVE  TxHolds(tx'[r], rows', Len(items'), inst' # None)
  <2>1. TxHolds(tx[r], rows, Len(items), inst # None) /\ tx'[r] = tx[r]
    BY <1>2 DEF LegalInv
  <2>2. TxHolds(tx[r], rows', Len(items'), inst' # None)
    BY <1>1, <2>1, TxStays
  <2> QED
    BY <2>1, <2>2
<1>3. DOMAIN tx' = Sessions /\ tx'[s] = d
  BY DEF LegalInv
<1>4. ASSUME NEW r \in Sessions
      PROVE  TxHolds(tx'[r], rows', Len(items'), inst' # None)
  BY <1>2, <1>3
<1> QED
  BY <1>3, <1>4

LEMMA LegalKept ==
    ASSUME LegalInv, NEW s \in Sessions, NEW d, tx' = [tx EXCEPT ![s] = d],
           TxHolds(d, rows, Len(items), inst # None),
           UNCHANGED <<inst, rows, revs, items, last, raced>>
    PROVE  LegalInv'
<1>1. rows \in Seq(Legal!Rows) /\ items \in Seq(Legal!Items)
  BY DEF LegalInv, Legal!TypeOK
<1>2. BaseHolds(rows, rows) /\ Len(items) \in Nat
  BY <1>1, BaseSame
<1>3. /\ DOMAIN tx' = Sessions
      /\ \A r \in Sessions : TxHolds(tx'[r], rows', Len(items'), inst' # None)
  <2>1. /\ TxHolds(d, rows', Len(items'), inst' # None)
        /\ rows' \in Seq(Legal!Rows) /\ BaseHolds(rows, rows')
        /\ items' \in Seq(Legal!Items) /\ Len(items) <= Len(items')
        /\ inst # None => inst' # None
    BY <1>1, <1>2
  <2> QED
    BY <2>1, TxStep
<1> QED
  BY <1>3 DEF LegalInv, Legal!TypeOK, Legal!RevisionsChain

LEMMA IdleHolds == \A R, n, here : TxHolds(Legal!Idle, R, n, here)
  BY DEF TxHolds, Legal!Idle

LEMMA ReadToImportInv ==
    ASSUME LegalInv, NEW s \in Sessions, NEW doc \in Documents, Legal!ReadToImport(s, doc)
    PROVE  LegalInv'
<1> DEFINE fresh == IF \E i \in DOMAIN items : items[i].status = "pending" THEN <<>>
                    ELSE <<[status |-> "pending", public |-> FALSE, document |-> doc]>>
           tables == [rows |-> rows, revs |-> <<>>]
           d == [pc |-> "import", base |-> rows, inst |-> inst, left |-> doc,
                 tables |-> tables, fresh |-> fresh]
<1>1. rows \in Seq(Legal!Rows) /\ (inst = None \/ inst \in Instruments)
  BY DEF LegalInv, Legal!TypeOK, Instruments
<1>2. TablesHold(rows, tables.rows, tables.revs)
  <2>1. tables.rows = rows /\ tables.revs = <<>>
    OBVIOUS
  <2>2. \A i \in DOMAIN rows : rows[i].version \in Nat
    BY <1>1, RowFields
  <2>3. ASSUME NEW i \in DOMAIN rows
        PROVE  Legal!Leads(<<>>, i, Read(rows, i).version, Read(rows, i).text, rows[i])
    <3>1. Read(rows, i).version = rows[i].version /\ Read(rows, i).text = rows[i].text
      BY DEF Read
    <3>2. Legal!Leads(<<>>, i, rows[i].version, rows[i].text, rows[i])
      BY <2>2 DEF Legal!Leads
    <3> QED
      BY <3>1, <3>2
  <2>4. Len(rows) <= Len(rows)
    BY <1>1
  <2> HIDE DEF tables
  <2> QED
    BY <1>1, <2>1, <2>3, <2>4 DEF TablesHold
<1>3. doc \in Seq(Section)
  BY ReviewsAssumption DEF Legal!LegalTextAssumption, Section
<1>4. fresh \in Seq(Legal!Items)
  <2>1. PICK x : x = [status |-> "pending", public |-> FALSE, document |-> doc]
    OBVIOUS
  <2>2. x \in Legal!Items
    BY <2>1 DEF Legal!Items, Legal!Statuses
  <2>3. <<x>> \in Seq(Legal!Items) /\ <<>> \in Seq(Legal!Items)
    BY <2>2
  <2>4. fresh = <<>> \/ fresh = <<x>>
    BY <2>1
  <2> QED
    BY <2>3, <2>4
<1>5. tx' = [tx EXCEPT ![s] = d] /\ UNCHANGED <<inst, rows, revs, items, last, raced>>
  BY DEF Legal!ReadToImport
<1>6. /\ d.pc = "import" /\ d.base = rows /\ d.inst = inst /\ d.left = doc
      /\ d.tables = tables /\ d.fresh = fresh
      /\ "tables" \in DOMAIN d /\ "left" \in DOMAIN d
  OBVIOUS
<1> HIDE DEF d, tables, fresh
<1>7. TxHolds(d, rows, Len(items), inst # None)
  <2>1. BaseHolds(d.base, rows) /\ TablesHold(d.base, d.tables.rows, d.tables.revs)
    BY <1>1, <1>2, <1>6, BaseSame
  <2>2. d.inst = None \/ (d.inst \in Instruments /\ inst # None)
    BY <1>1, <1>6
  <2>3. d.left \in Seq(Section) /\ d.fresh \in Seq(Legal!Items)
    BY <1>3, <1>4, <1>6
  <2> QED
    BY <1>6, <2>1, <2>2, <2>3 DEF TxHolds
<1> QED
  BY <1>5, <1>7, LegalKept

LEMMA ImportSectionInv ==
    ASSUME LegalInv, NEW s \in Sessions, Legal!ImportSection(s)
    PROVE  LegalInv'
<1>1. /\ tx[s].pc = "import" /\ tx[s].left # <<>>
      /\ UNCHANGED <<inst, rows, revs, items, last, raced>>
  BY DEF Legal!ImportSection
<1>2. PICK c : c = tx[s]
  OBVIOUS
<1>3. TxHolds(c, rows, Len(items), inst # None) /\ c.pc = "import" /\ c.left # <<>>
  BY <1>1, <1>2 DEF LegalInv
<1>4. /\ "tables" \in DOMAIN c /\ "left" \in DOMAIN c
      /\ TablesHold(c.base, c.tables.rows, c.tables.revs)
      /\ BaseHolds(c.base, rows) /\ c.left \in Seq(Section) /\ c.fresh \in Seq(Legal!Items)
      /\ c.inst = None \/ (c.inst \in Instruments /\ inst # None)
  BY <1>3 DEF TxHolds
<1>5. Head(c.left) \in Section /\ Tail(c.left) \in Seq(Section)
  BY <1>3, <1>4, HeadTailProperties
<1>6. PICK added : added = Legal!AddSection(c.tables, Head(c.left))
  OBVIOUS
<1>7. TablesHold(c.base, added.rows, added.revs)
  BY <1>4, <1>5, <1>6, SectionAdded
<1>8. PICK rest : rest = Tail(c.left)
  OBVIOUS
<1>9. PICK d : d = [c EXCEPT !.tables = added, !.left = rest]
  OBVIOUS
<1>10. /\ d.pc = c.pc /\ d.base = c.base /\ d.inst = c.inst /\ d.fresh = c.fresh
       /\ d.tables = added /\ d.left = rest /\ DOMAIN d = DOMAIN c
  BY <1>4, <1>9
<1>11. TxHolds(d, rows, Len(items), inst # None)
  BY <1>3, <1>4, <1>5, <1>7, <1>8, <1>10 DEF TxHolds
<1>12. tx' = [tx EXCEPT ![s] = d]
  <2>1. /\ tx' = [tx EXCEPT ![s].tables = Legal!AddSection(@, Head(tx[s].left)),
                            ![s].left = Tail(@)]
        /\ DOMAIN tx = Sessions
    BY DEF Legal!ImportSection, LegalInv
  <2> QED
    BY <1>2, <1>6, <1>8, <1>9, <2>1
<1> QED
  BY <1>1, <1>11, <1>12, LegalKept

LEMMA ReadToDecideInv ==
    ASSUME LegalInv, NEW s \in Sessions, NEW i \in DOMAIN items, NEW decision \in Legal!Decisions,
           Legal!ReadToDecide(s, i, decision)
    PROVE  LegalInv'
<1> DEFINE d == [pc |-> "decide", item |-> i, was |-> items[i], decision |-> decision,
                 inst |-> inst]
<1>1. items \in Seq(Legal!Items) /\ (inst = None \/ inst \in Instruments)
  BY DEF LegalInv, Legal!TypeOK, Instruments
<1>2. i \in 1..Len(items) /\ items[i] \in Legal!Items
  BY <1>1
<1>4. tx' = [tx EXCEPT ![s] = d] /\ UNCHANGED <<inst, rows, revs, items, last, raced>>
  BY DEF Legal!ReadToDecide
<1>5. /\ d.pc = "decide" /\ d.item = i /\ d.was = items[i] /\ d.decision = decision
      /\ d.inst = inst
  OBVIOUS
<1> HIDE DEF d
<1>3. TxHolds(d, rows, Len(items), inst # None)
  <2>1. d.inst = None \/ (d.inst \in Instruments /\ inst # None)
    BY <1>1, <1>5
  <2>2. d.item \in 1..Len(items) /\ d.was \in Legal!Items /\ d.decision \in Legal!Decisions
    BY <1>2, <1>5
  <2> QED
    BY <1>5, <2>1, <2>2 DEF TxHolds
<1> QED
  BY <1>3, <1>4, LegalKept

LEMMA RollbackInv == ASSUME LegalInv, NEW s \in Sessions, Legal!Rollback(s) PROVE LegalInv'
<1>1. tx' = [tx EXCEPT ![s] = Legal!Idle] /\ UNCHANGED <<inst, rows, revs, items, last, raced>>
  BY DEF Legal!Rollback
<1>2. TxHolds(Legal!Idle, rows, Len(items), inst # None)
  BY IdleHolds
<1> QED
  BY <1>1, <1>2, LegalKept

\* Writing the columns that changed.
LEMMA WrittenDraft ==
    ASSUME NEW row \in Instruments, NEW was, NEW to \in Instruments
    PROVE  /\ Legal!Written(row, was, to) \in Instruments
           /\ Legal!Written(row, was, to).status =
                 IF was.status = to.status THEN row.status ELSE to.status
           /\ Legal!Written(row, was, to).public =
                 IF was.public = to.public THEN row.public ELSE to.public
<1>1. PICK a \in Legal!Statuses :
        a = IF was.status = to.status THEN row.status ELSE to.status
  BY DEF Instruments
<1>2. PICK b \in BOOLEAN : b = IF was.public = to.public THEN row.public ELSE to.public
  BY DEF Instruments
<1>3. PICK q : q = [row EXCEPT !.status = a, !.public = b]
  OBVIOUS
<1>4. Legal!Written(row, was, to) = q
  BY <1>1, <1>2, <1>3 DEF Legal!Written
<1>5. q \in Instruments /\ q.status = a /\ q.public = b
  BY <1>3 DEF Instruments
<1> QED
  BY <1>1, <1>2, <1>4, <1>5

LEMMA WrittenItem ==
    ASSUME NEW row \in Legal!Items, NEW was, NEW to,
           to.status \in Legal!Statuses, to.public \in BOOLEAN
    PROVE  Legal!Written(row, was, to) \in Legal!Items
<1>1. PICK a \in Legal!Statuses :
        a = IF was.status = to.status THEN row.status ELSE to.status
  BY DEF Legal!Items
<1>2. PICK b \in BOOLEAN : b = IF was.public = to.public THEN row.public ELSE to.public
  BY DEF Legal!Items
<1>3. PICK q : q = [row EXCEPT !.status = a, !.public = b]
  OBVIOUS
<1>4. Legal!Written(row, was, to) = q
  BY <1>1, <1>2, <1>3 DEF Legal!Written
<1>5. q \in Legal!Items
  BY <1>3 DEF Legal!Items
<1> QED
  BY <1>4, <1>5

LEMMA CommitImportInv ==
    ASSUME LegalInv, NEW s \in Sessions, Legal!CommitImport(s)
    PROVE  LegalInv'
<1>1. PICK d : d = tx[s]
  OBVIOUS
<1>2. /\ d.pc = "import" /\ ~Legal!Collides(d)
      /\ inst' = IF d.inst = None THEN Legal!Draft
                 ELSE IF d.inst.status = "approved" THEN inst
                 ELSE Legal!Written(inst, d.inst, Legal!Draft)
      /\ rows' = CommittedRows(d) /\ revs' = CommittedRevs(d)
      /\ items' = items \o d.fresh
      /\ tx' = [tx EXCEPT ![s] = Legal!Idle]
      /\ raced' = (raced \/ d.inst # inst)
      /\ last' = last
  BY <1>1 DEF Legal!CommitImport, CommittedRows, CommittedRevs
<1>3. /\ rows \in Seq(Legal!Rows) /\ revs \in Seq(Legal!Revs) /\ items \in Seq(Legal!Items)
      /\ inst = None \/ inst \in Instruments
      /\ last \in Legal!Decisions \cup {None} /\ raced \in BOOLEAN
      /\ Legal!RevisionsChain /\ InstHolds(inst, last, raced)
  BY DEF LegalInv, Legal!TypeOK, Instruments
<1>4. TxHolds(d, rows, Len(items), inst # None)
  BY <1>1 DEF LegalInv
<1>5. /\ TablesHold(d.base, d.tables.rows, d.tables.revs) /\ BaseHolds(d.base, rows)
      /\ d.fresh \in Seq(Legal!Items)
      /\ d.inst = None \/ (d.inst \in Instruments /\ inst # None)
  BY <1>2, <1>4 DEF TxHolds
<1>6. /\ rows' \in Seq(Legal!Rows) /\ BaseHolds(rows, rows') /\ revs' \in Seq(Legal!Revs)
      /\ \A k \in DOMAIN revs' : revs'[k].row \in DOMAIN rows'
      /\ \A i \in DOMAIN rows' : Legal!Leads(revs', i, 0, None, rows'[i])
  BY <1>2, <1>3, <1>5, RowsCommitted
<1>7. items' \in Seq(Legal!Items) /\ Len(items) <= Len(items')
  BY <1>2, <1>3, <1>5
<1>8. Legal!Draft \in Instruments /\ Legal!Draft.status = "pending" /\ Legal!Draft.public = FALSE
  BY DEF Instruments, Legal!Draft, Legal!Statuses
<1>9. inst' \in Instruments /\ inst' # None /\ InstHolds(inst', last', raced')
  <2>0. None \notin Instruments
    BY ReviewsAssumption DEF Legal!LegalTextAssumption, Instruments
  <2>1. CASE d.inst = None
    BY <1>2, <1>8, <2>0, <2>1 DEF InstHolds
  <2>2. CASE d.inst # None /\ d.inst.status = "approved"
    <3>1. inst' = inst /\ inst \in Instruments /\ inst # None
      BY <1>2, <1>3, <1>5, <2>2
    <3> QED
      BY <1>2, <1>3, <3>1 DEF InstHolds
  <2>3. CASE d.inst # None /\ d.inst.status # "approved"
    <3>1. inst \in Instruments /\ inst # None /\ d.inst \in Instruments
      BY <1>3, <1>5, <2>3
    <3>c. PICK c \in Instruments : c = Legal!Draft /\ c.status = "pending" /\ c.public = FALSE
      BY <1>8
    <3>2. /\ inst' \in Instruments
          /\ inst'.status = IF d.inst.status = c.status THEN inst.status ELSE c.status
          /\ inst'.public = IF d.inst.public = c.public THEN inst.public ELSE c.public
      <4>1. inst' = Legal!Written(inst, d.inst, c)
        BY <1>2, <2>3, <3>c
      <4> QED
        BY <3>1, <3>c, <4>1, WrittenDraft
    <3>3. inst'.status = "approved" => last' # None
      BY <1>2, <1>3, <3>c, <3>1, <3>2 DEF InstHolds
    <3>4. ASSUME ~raced'
          PROVE  inst'.status = "pending" /\ inst'.public = FALSE
      <4>1. d.inst = inst
        BY <1>2, <3>4
      <4>2. inst.public \in BOOLEAN
        BY <3>1 DEF Instruments
      <4> QED
        BY <3>c, <3>2, <4>1, <4>2
    <3> QED
      BY <2>0, <3>2, <3>3, <3>4 DEF InstHolds
  <2> QED
    BY <2>1, <2>2, <2>3
<1>10. /\ DOMAIN tx' = Sessions
       /\ \A r \in Sessions : TxHolds(tx'[r], rows', Len(items'), inst' # None)
  <2>1. TxHolds(Legal!Idle, rows', Len(items'), inst' # None)
    BY IdleHolds
  <2> QED
    BY <1>2, <1>6, <1>7, <1>9, <2>1, TxStep
<1>11. Legal!TypeOK'
  BY <1>2, <1>3, <1>6, <1>7, <1>9 DEF Legal!TypeOK, Instruments
<1> QED
  BY <1>6, <1>9, <1>10, <1>11 DEF LegalInv, Legal!RevisionsChain

LEMMA CommitDecisionInv ==
    ASSUME LegalInv, NEW s \in Sessions, Legal!CommitDecision(s)
    PROVE  LegalInv'
<1>1. PICK d : d = tx[s]
  OBVIOUS
<1>n. PICK to : to = [status |-> d.decision, public |-> d.was.public \/ d.decision = "approved"]
  OBVIOUS
<1>2. /\ d.pc = "decide"
      /\ items' = [items EXCEPT ![d.item] = Legal!Written(items[d.item], d.was, to)]
      /\ inst' = IF d.inst = None THEN inst
                 ELSE Legal!Written(inst, d.inst, Legal!Decided(d.decision))
      /\ last' = IF d.inst = None THEN last ELSE d.decision
      /\ tx' = [tx EXCEPT ![s] = Legal!Idle]
      /\ raced' = (raced \/ d.inst # inst)
      /\ rows' = rows /\ revs' = revs
  BY <1>1, <1>n DEF Legal!CommitDecision
<1>3. /\ rows \in Seq(Legal!Rows) /\ revs \in Seq(Legal!Revs) /\ items \in Seq(Legal!Items)
      /\ inst = None \/ inst \in Instruments
      /\ last \in Legal!Decisions \cup {None} /\ raced \in BOOLEAN
      /\ Legal!RevisionsChain /\ InstHolds(inst, last, raced)
  BY DEF LegalInv, Legal!TypeOK, Instruments
<1>4. TxHolds(d, rows, Len(items), inst # None)
  BY <1>1 DEF LegalInv
<1>5. /\ d.item \in 1..Len(items) /\ d.was \in Legal!Items /\ d.decision \in Legal!Decisions
      /\ d.inst = None \/ (d.inst \in Instruments /\ inst # None)
  BY <1>2, <1>4 DEF TxHolds
<1>6. items' \in Seq(Legal!Items) /\ Len(items') = Len(items) /\ Len(items) \in Nat
  <2>1. items[d.item] \in Legal!Items
    BY <1>3, <1>5
  <2>2. to.status \in Legal!Statuses /\ to.public \in BOOLEAN
    BY <1>n, <1>5 DEF Legal!Statuses, Legal!Items
  <2>3. PICK x \in Legal!Items : x = Legal!Written(items[d.item], d.was, to)
    BY <2>1, <2>2, WrittenItem
  <2> QED
    BY <1>2, <1>3, <1>5, <2>3
<1>7. inst' = None \/ inst' \in Instruments
  <2>1. CASE d.inst = None
    BY <1>2, <1>3, <2>1
  <2>2. CASE d.inst # None
    <3>c. PICK c : c = Legal!Decided(d.decision)
      OBVIOUS
    <3>1. c \in Instruments
      BY <1>5, <3>c DEF Legal!Decided, Legal!Statuses, Instruments
    <3>2. inst' = Legal!Written(inst, d.inst, c) /\ inst \in Instruments
      BY <1>2, <1>3, <1>5, <2>2, <3>c
    <3> QED
      BY <3>1, <3>2, WrittenDraft
  <2> QED
    BY <2>1, <2>2
<1>8. (inst # None => inst' # None) /\ InstHolds(inst', last', raced')
  <2>1. CASE d.inst = None
    <3>1. inst' = inst /\ last' = last
      BY <1>2, <2>1
    <3> QED
      BY <1>2, <1>3, <3>1 DEF InstHolds
  <2>2. CASE d.inst # None
    <3>1. inst \in Instruments /\ inst # None /\ d.inst \in Instruments
      BY <1>3, <1>5, <2>2
    <3>2. PICK c : c = Legal!Decided(d.decision)
      OBVIOUS
    <3>3. c \in Instruments /\ c.status = d.decision /\ c.public = (d.decision = "approved")
      BY <1>5, <3>2 DEF Legal!Decided, Instruments, Legal!Statuses
    <3>4. /\ inst' \in Instruments
          /\ inst'.status = IF d.inst.status = c.status THEN inst.status ELSE c.status
          /\ inst'.public = IF d.inst.public = c.public THEN inst.public ELSE c.public
      BY <1>2, <2>2, <3>1, <3>2, <3>3, WrittenDraft
    <3>5. None \notin Instruments /\ None \notin Legal!Decisions
      BY ReviewsAssumption DEF Legal!LegalTextAssumption, Instruments
    <3>6. last' = d.decision /\ last' # None
      BY <1>2, <1>5, <2>2, <3>5
    <3>7. ASSUME ~raced'
          PROVE  inst'.status = d.decision /\ inst'.public = (d.decision = "approved")
      <4>1. d.inst = inst
        BY <1>2, <3>7
      <4> QED
        BY <3>3, <3>4, <4>1
    <3> QED
      BY <3>4, <3>5, <3>6, <3>7 DEF InstHolds
  <2> QED
    BY <2>1, <2>2
<1>9. BaseHolds(rows, rows') /\ rows' \in Seq(Legal!Rows)
  BY <1>2, <1>3, BaseSame
<1>10. /\ DOMAIN tx' = Sessions
       /\ \A r \in Sessions : TxHolds(tx'[r], rows', Len(items'), inst' # None)
  <2>1. TxHolds(Legal!Idle, rows', Len(items'), inst' # None)
    BY IdleHolds
  <2>2. Len(items) <= Len(items')
    BY <1>6
  <2> QED
    BY <1>2, <1>6, <1>8, <1>9, <2>1, <2>2, TxStep
<1>11. last' \in Legal!Decisions \cup {None} /\ raced' \in BOOLEAN
  BY <1>2, <1>3, <1>5
<1>12. Legal!TypeOK'
  BY <1>2, <1>3, <1>6, <1>7, <1>11 DEF Legal!TypeOK, Instruments
<1>13. Legal!RevisionsChain'
  BY <1>2, <1>3 DEF Legal!RevisionsChain
<1> QED
  BY <1>8, <1>10, <1>12, <1>13 DEF LegalInv

LEMMA LegalInit == Legal!Init => LegalInv
<1> SUFFICES ASSUME Legal!Init PROVE LegalInv
  OBVIOUS
<1>1. /\ inst = None /\ rows = <<>> /\ revs = <<>> /\ items = <<>>
      /\ tx = [s \in Sessions |-> Legal!Idle] /\ last = None /\ raced = FALSE
  BY DEF Legal!Init
<1>2. /\ rows \in Seq(Legal!Rows) /\ revs \in Seq(Legal!Revs) /\ items \in Seq(Legal!Items)
      /\ DOMAIN rows = {} /\ DOMAIN revs = {}
  BY <1>1
<1>3. Legal!TypeOK
  BY <1>1, <1>2 DEF Legal!TypeOK
<1>4. Legal!RevisionsChain /\ InstHolds(inst, last, raced)
  BY <1>1, <1>2 DEF Legal!RevisionsChain, InstHolds
<1>5. DOMAIN tx = Sessions /\ \A s \in Sessions : TxHolds(tx[s], rows, Len(items), inst # None)
  BY <1>1, IdleHolds
<1> QED
  BY <1>3, <1>4, <1>5 DEF LegalInv

LEMMA LegalNext == LegalInv /\ [Legal!Next]_legalVars => LegalInv'
<1> SUFFICES ASSUME LegalInv, [Legal!Next]_legalVars PROVE LegalInv'
  OBVIOUS
<1>1. CASE Legal!Next
  BY <1>1, ReadToImportInv, ImportSectionInv, CommitImportInv, ReadToDecideInv,
     CommitDecisionInv, RollbackInv
     DEF Legal!Next
<1>2. CASE UNCHANGED legalVars
  BY <1>2 DEF legalVars, LegalInv, Legal!TypeOK, Legal!RevisionsChain
<1> QED
  BY <1>1, <1>2

LEMMA LegalIsSafe == LegalInv => Legal!LegalTextSafe
  BY DEF LegalInv, InstHolds, Legal!LegalTextSafe, Legal!CitableIsApproved, Legal!Citable

--------------------------------------------------------------------------------
(* RelationshipEvidence: who verified a relationship.                         *)

VerdictRows == [by : Reviewers \cup {None}, at : BOOLEAN]
LogEntries  == [op : {"create", "verify", "unverify"}, of : Pairs, by : Reviewers \cup {None}]
Verifying   == [op : {"verify", "unverify"}, of : Pairs, actor : Reviewers, read : VerdictRows,
                flushed : BOOLEAN]

\* The entries of the log L that say who verified p, the last of them and what it says.
Verdicts(L, p) == {k \in DOMAIN L : L[k].of = p /\ L[k].op # "create"}
LastVerdict(L, p, k) == k \in Verdicts(L, p) /\ \A j \in Verdicts(L, p) : j <= k
Says(L, k) == IF L[k].op = "unverify" THEN None ELSE L[k].by

\* A row of p names only who the log names; and while no two requests raced it is whole
\* and is what the last entry says.
RowLogged(row, L, p, quiet) ==
    /\ row.by # None => \E k \in Verdicts(L, p) : L[k].op = "verify" /\ L[k].by = row.by
    /\ quiet =>
        /\ row.at = (row.by # None)
        /\ \/ Verdicts(L, p) = {} /\ row.by = None
           \/ \E k \in Verdicts(L, p) : LastVerdict(L, p, k) /\ row.by = Says(L, k)

RowsLogged ==
    \A p \in Pairs :
        IF evidence[p] = None THEN Verdicts(verdicts, p) = {}
        ELSE RowLogged(evidence[p], verdicts, p, ~overwritten)

\* A request works on a row that exists, and what it flushed is alone on that row: unless
\* two raced, the row is still what it read.
RequestsHold ==
    /\ DOMAIN verifying = Sessions
    /\ \A r \in Sessions : verifying[r] # Rel!Idle =>
        /\ verifying[r] \in Verifying /\ evidence[verifying[r].of] # None
        /\ verifying[r].flushed /\ ~overwritten =>
            evidence[verifying[r].of] = verifying[r].read
    /\ \A r, q \in Sessions :
        /\ verifying[r] # Rel!Idle /\ verifying[q] # Rel!Idle /\ r # q
        /\ verifying[r].flushed /\ verifying[q].flushed
        => verifying[r].of # verifying[q].of

RelTyped ==
    /\ evidence \in [Pairs -> {None} \cup VerdictRows]
    /\ verdicts \in Seq(LogEntries)
    /\ overwritten \in BOOLEAN

RelInv == RelTyped /\ RowsLogged /\ RequestsHold

--------------------------------------------------------------------------------
LEMMA NoneIsNoRow == None \notin VerdictRows /\ None \notin Reviewers
  BY ReviewsAssumption DEF Rel!EvidenceAssumption, VerdictRows

Adds(L, e, M) == L \in Seq(LogEntries) /\ e \in LogEntries /\ M = Append(L, e)

\* What an entry adds to the verdicts on p.
LEMMA VerdictsAppended ==
    ASSUME NEW p, NEW L, NEW e, NEW M, Adds(L, e, M)
    PROVE  /\ M \in Seq(LogEntries)
           /\ \A k \in Verdicts(L, p) : k \in Verdicts(M, p) /\ M[k] = L[k]
           /\ e.op = "create" \/ e.of # p => Verdicts(M, p) = Verdicts(L, p)
           /\ e.op # "create" /\ e.of = p =>
                /\ LastVerdict(M, p, Len(L) + 1) /\ M[Len(L) + 1] = e
                /\ Len(L) + 1 \in Verdicts(M, p)
<1>1. /\ M \in Seq(LogEntries) /\ Len(L) \in Nat /\ DOMAIN L = 1..Len(L)
      /\ DOMAIN M = 1..(Len(L) + 1)
      /\ M[Len(L) + 1] = e /\ \A k \in DOMAIN L : M[k] = L[k] /\ k \in DOMAIN M
  BY DEF Adds
<1>2. \A k \in Verdicts(L, p) : k \in Verdicts(M, p) /\ M[k] = L[k]
  BY <1>1 DEF Verdicts
<1>3. ASSUME e.op = "create" \/ e.of # p PROVE Verdicts(M, p) = Verdicts(L, p)
  <2>1. \A k \in DOMAIN M : k \in DOMAIN L \/ k = Len(L) + 1
    BY <1>1
  <2>2. \A k \in Verdicts(M, p) : k \in Verdicts(L, p)
    BY <1>1, <1>3, <2>1 DEF Verdicts
  <2> QED
    BY <1>2, <2>2
<1>4. ASSUME e.op # "create" /\ e.of = p
      PROVE  Len(L) + 1 \in Verdicts(M, p) /\ LastVerdict(M, p, Len(L) + 1)
  BY <1>1, <1>4 DEF Verdicts, LastVerdict
<1> QED
  BY <1>1, <1>2, <1>3, <1>4

\* A row stays in order when the log says nothing new of it.
LEMMA RowStays ==
    ASSUME NEW L, NEW M, NEW p, NEW row, NEW quiet, NEW still,
           RowLogged(row, L, p, quiet), still => quiet,
           Verdicts(M, p) = Verdicts(L, p), \A k \in Verdicts(L, p) : M[k] = L[k]
    PROVE  RowLogged(row, M, p, still)
<1>1. row.by # None => \E k \in Verdicts(M, p) : M[k].op = "verify" /\ M[k].by = row.by
  BY DEF RowLogged
<1>2. ASSUME still
      PROVE  /\ row.at = (row.by # None)
             /\ \/ Verdicts(M, p) = {} /\ row.by = None
                \/ \E k \in Verdicts(M, p) : LastVerdict(M, p, k) /\ row.by = Says(M, k)
  <2>1. row.at = (row.by # None)
    BY <1>2 DEF RowLogged
  <2>2. CASE Verdicts(L, p) = {} /\ row.by = None
    BY <2>1, <2>2
  <2>3. CASE \E k \in Verdicts(L, p) : LastVerdict(L, p, k) /\ row.by = Says(L, k)
    <3>1. PICK k \in Verdicts(L, p) : LastVerdict(L, p, k) /\ row.by = Says(L, k)
      BY <2>3
    <3>2. LastVerdict(M, p, k) /\ row.by = Says(M, k)
      BY <3>1 DEF LastVerdict, Says
    <3> QED
      BY <2>1, <3>2
  <2> QED
    BY <1>2, <2>2, <2>3 DEF RowLogged
<1> QED
  BY <1>1, <1>2 DEF RowLogged

\* A step that leaves the rows and the log alone, and takes no race back.
LEMMA RowsKept ==
    ASSUME RelInv, UNCHANGED <<evidence, verdicts>>, overwritten' \in BOOLEAN,
           overwritten => overwritten'
    PROVE  RelTyped' /\ RowsLogged'
<1>1. RelTyped'
  BY DEF RelInv, RelTyped
<1>2. ASSUME NEW p \in Pairs, evidence[p] # None
      PROVE  RowLogged(evidence[p], verdicts, p, ~overwritten')
  <2>1. RowLogged(evidence[p], verdicts, p, ~overwritten)
    BY <1>2 DEF RelInv, RowsLogged
  <2> QED
    BY <2>1 DEF RowLogged, RelInv, RelTyped
<1> QED
  BY <1>1, <1>2 DEF RelInv, RowsLogged

\* The row of a request that is open.
LEMMA Working ==
    ASSUME RelInv, NEW r \in Sessions, verifying[r] # Rel!Idle
    PROVE  /\ verifying[r] \in Verifying
           /\ verifying[r].of \in Pairs /\ verifying[r].actor \in Reviewers
           /\ verifying[r].read \in VerdictRows /\ verifying[r].flushed \in BOOLEAN
           /\ verifying[r].op \in {"verify", "unverify"}
           /\ evidence[verifying[r].of] # None /\ evidence[verifying[r].of] \in VerdictRows
  BY DEF RelInv, RequestsHold, RelTyped, Verifying

\* A request that ends, and no other touches its row after it.
LEMMA VerificationEnds ==
    ASSUME RelInv, NEW r \in Sessions, verifying' = [verifying EXCEPT ![r] = Rel!Idle],
           overwritten => overwritten',
           \A p \in Pairs : evidence[p] # None => evidence'[p] # None,
           \A q \in Sessions : q # r /\ verifying[q] # Rel!Idle /\ verifying[q].flushed
                                   /\ ~overwritten'
                               => evidence'[verifying[q].of] = evidence[verifying[q].of]
    PROVE  RequestsHold'
<1>1. DOMAIN verifying' = Sessions
  BY DEF RelInv, RequestsHold
<1>2. \A q \in Sessions : verifying'[q] # Rel!Idle => q # r /\ verifying'[q] = verifying[q]
  BY DEF RelInv, RequestsHold
<1>3. ASSUME NEW q \in Sessions, verifying'[q] # Rel!Idle
      PROVE  /\ verifying'[q] \in Verifying /\ evidence'[verifying'[q].of] # None
             /\ verifying'[q].flushed /\ ~overwritten' =>
                    evidence'[verifying'[q].of] = verifying'[q].read
  <2>1. q # r /\ verifying'[q] = verifying[q]
    BY <1>2, <1>3
  <2>2. verifying[q] \in Verifying /\ verifying[q].of \in Pairs /\ evidence[verifying[q].of] # None
    BY <1>3, <2>1, Working
  <2>3. verifying[q].flushed /\ ~overwritten => evidence[verifying[q].of] = verifying[q].read
    BY <1>3, <2>1 DEF RelInv, RequestsHold
  <2> QED
    BY <1>3, <2>1, <2>2, <2>3
<1>4. ASSUME NEW q \in Sessions, NEW s \in Sessions, verifying'[q] # Rel!Idle,
             verifying'[s] # Rel!Idle, q # s, verifying'[q].flushed, verifying'[s].flushed
      PROVE  verifying'[q].of # verifying'[s].of
  BY <1>2, <1>4 DEF RelInv, RequestsHold
<1> QED
  BY <1>1, <1>3, <1>4 DEF RequestsHold

LEMMA CreateEvidenceInv ==
    ASSUME RelInv, NEW p \in Pairs, Rel!CreateEvidence(p)
    PROVE  RelInv'
<1> DEFINE row == [by |-> None, at |-> FALSE]
           e   == [op |-> "create", of |-> p, by |-> None]
<1>1. /\ evidence[p] = None /\ verdicts' = Append(verdicts, e) /\ e \in LogEntries
      /\ row \in VerdictRows /\ UNCHANGED <<verifying, overwritten>>
  BY DEF Rel!CreateEvidence, LogEntries, VerdictRows
<1>2. evidence' = [evidence EXCEPT ![p] = row] /\ evidence'[p] = row
      /\ \A q \in Pairs : q # p => evidence'[q] = evidence[q]
  BY DEF Rel!CreateEvidence, RelInv, RelTyped
<1>3. RelTyped'
  BY <1>1, <1>2 DEF RelInv, RelTyped
<1>4. Adds(verdicts, e, verdicts') /\ e.op = "create"
  BY <1>1 DEF RelInv, RelTyped, Adds
<1>5. \A q \in Pairs : /\ Verdicts(verdicts', q) = Verdicts(verdicts, q)
                       /\ \A k \in Verdicts(verdicts, q) : verdicts'[k] = verdicts[k]
  BY <1>4, VerdictsAppended
<1> HIDE DEF e
<1>6. RowsLogged'
  <2> SUFFICES ASSUME NEW q \in Pairs
               PROVE  IF evidence'[q] = None THEN Verdicts(verdicts', q) = {}
                      ELSE RowLogged(evidence'[q], verdicts', q, ~overwritten')
    BY DEF RowsLogged
  <2>1. CASE q = p
    <3>1. Verdicts(verdicts', p) = {}
      BY <1>1, <1>5 DEF RelInv, RowsLogged
    <3>2. RowLogged(row, verdicts', p, ~overwritten')
      BY <3>1 DEF RowLogged
    <3> QED
      BY <1>1, <1>2, <2>1, <3>1, <3>2, NoneIsNoRow
  <2>2. CASE q # p /\ evidence[q] = None
    BY <1>2, <1>5, <2>2 DEF RelInv, RowsLogged
  <2>3. CASE q # p /\ evidence[q] # None
    <3>1. RowLogged(evidence[q], verdicts, q, ~overwritten)
      BY <2>3 DEF RelInv, RowsLogged
    <3>2. RowLogged(evidence[q], verdicts', q, ~overwritten)
      BY <1>5, <3>1, RowStays DEF RelInv, RelTyped
    <3> QED
      BY <1>1, <1>2, <2>3, <3>2
  <2> QED
    BY <2>1, <2>2, <2>3
<1>7. RequestsHold'
  <2>1. \A r \in Sessions : verifying[r] # Rel!Idle => verifying[r].of # p /\ verifying[r].of \in Pairs
    BY <1>1, Working
  <2>2. \A r \in Sessions : verifying[r] # Rel!Idle =>
            evidence'[verifying[r].of] = evidence[verifying[r].of]
    BY <1>2, <2>1
  <2> QED
    BY <1>1, <2>2 DEF RelInv, RequestsHold
<1> QED
  BY <1>3, <1>6, <1>7 DEF RelInv

LEMMA ReadEvidenceInv ==
    ASSUME RelInv, NEW r \in Sessions, NEW p \in Pairs, NEW op \in {"verify", "unverify"},
           NEW a \in Reviewers, Rel!ReadEvidence(r, p, op, a)
    PROVE  RelInv'
<1> DEFINE d == [op |-> op, of |-> p, actor |-> a, read |-> evidence[p], flushed |-> FALSE]
<1>1. /\ evidence[p] # None /\ UNCHANGED <<evidence, verdicts, overwritten>>
      /\ verifying' = [verifying EXCEPT ![r] = d]
  BY DEF Rel!ReadEvidence
<1>2. d \in Verifying /\ ~d.flushed /\ d.of = p
  BY <1>1 DEF RelInv, RelTyped, Verifying
<1> HIDE DEF d
<1>3. RelTyped' /\ RowsLogged'
  BY <1>1, RowsKept DEF RelInv, RelTyped
<1>4. /\ DOMAIN verifying' = Sessions /\ verifying'[r] = d
      /\ \A q \in Sessions : q # r => verifying'[q] = verifying[q]
  BY <1>1 DEF RelInv, RequestsHold
<1>5. \A q \in Sessions : verifying'[q] # Rel!Idle =>
        /\ verifying'[q] \in Verifying /\ evidence[verifying'[q].of] # None
        /\ verifying'[q].flushed /\ ~overwritten =>
            evidence[verifying'[q].of] = verifying'[q].read
  BY <1>1, <1>2, <1>4 DEF RelInv, RequestsHold
<1>6. \A q, s \in Sessions :
        /\ verifying'[q] # Rel!Idle /\ verifying'[s] # Rel!Idle /\ q # s
        /\ verifying'[q].flushed /\ verifying'[s].flushed
        => verifying'[q].of # verifying'[s].of
  BY <1>2, <1>4 DEF RelInv, RequestsHold
<1>7. RequestsHold'
  BY <1>1, <1>4, <1>5, <1>6 DEF RequestsHold
<1> QED
  BY <1>3, <1>7 DEF RelInv

LEMMA FlushEvidenceInv ==
    ASSUME RelInv, NEW r \in Sessions, Rel!FlushEvidence(r)
    PROVE  RelInv'
<1> DEFINE d == verifying[r]
<1>1. /\ d # Rel!Idle /\ ~Rel!Locked(d.of) /\ UNCHANGED <<evidence, verdicts>>
      /\ overwritten' = (overwritten \/ evidence[d.of] # d.read)
      /\ verifying' = [verifying EXCEPT ![r].flushed = TRUE]
  BY DEF Rel!FlushEvidence, Rel!Idle
<1>2. d \in Verifying /\ d.of \in Pairs /\ evidence[d.of] # None
  BY <1>1, Working
<1>3. RelTyped' /\ RowsLogged'
  BY <1>1, RowsKept DEF RelInv, RelTyped
<1>4. PICK e : e = [d EXCEPT !.flushed = TRUE]
  OBVIOUS
<1>5. e \in Verifying /\ e.flushed /\ e.of = d.of /\ e.read = d.read
  BY <1>2, <1>4 DEF Verifying
<1>6. /\ DOMAIN verifying' = Sessions /\ verifying'[r] = e
      /\ \A q \in Sessions : q # r => verifying'[q] = verifying[q]
  BY <1>1, <1>4 DEF RelInv, RequestsHold
<1>7. \A q \in Sessions : verifying'[q] # Rel!Idle =>
        /\ verifying'[q] \in Verifying /\ evidence[verifying'[q].of] # None
        /\ verifying'[q].flushed /\ ~overwritten' =>
            evidence[verifying'[q].of] = verifying'[q].read
  BY <1>1, <1>2, <1>5, <1>6 DEF RelInv, RequestsHold
<1>8. \A q \in Sessions : q # r /\ verifying[q] # Rel!Idle /\ verifying[q].flushed =>
        verifying[q].of # d.of
  BY <1>1 DEF Rel!Locked
<1>9. \A q, s \in Sessions :
        /\ verifying'[q] # Rel!Idle /\ verifying'[s] # Rel!Idle /\ q # s
        /\ verifying'[q].flushed /\ verifying'[s].flushed
        => verifying'[q].of # verifying'[s].of
  BY <1>5, <1>6, <1>8 DEF RelInv, RequestsHold
<1>10. RequestsHold'
  BY <1>1, <1>6, <1>7, <1>9 DEF RequestsHold
<1> QED
  BY <1>3, <1>10 DEF RelInv

LEMMA AbortEvidenceInv ==
    ASSUME RelInv, NEW r \in Sessions, Rel!AbortEvidence(r)
    PROVE  RelInv'
<1>1. UNCHANGED <<evidence, verdicts, overwritten>> /\ verifying' = [verifying EXCEPT ![r] = Rel!Idle]
  BY DEF Rel!AbortEvidence
<1>2. RelTyped' /\ RowsLogged'
  BY <1>1, RowsKept DEF RelInv, RelTyped
<1>3. RequestsHold'
  BY <1>1, VerificationEnds
<1> QED
  BY <1>2, <1>3 DEF RelInv

\* A verdict takes effect: its entry is the last on the row, and a row that was still what
\* the request had read is what the entry says.
LEMMA CommitEvidenceInv ==
    ASSUME RelInv, NEW r \in Sessions, Rel!CommitEvidence(r)
    PROVE  RelInv'
<1>1. PICK d : d = verifying[r]
  OBVIOUS
<1>2. PICK p : p = d.of
  OBVIOUS
<1>3. PICK row : row = [by |-> IF Rel!NamesBy(d) THEN IF d.op = "verify" THEN d.actor ELSE None
                               ELSE evidence[p].by,
                        at |-> IF Rel!NamesAt(d) THEN d.op = "verify" ELSE evidence[p].at]
  OBVIOUS
<1>4. PICK e : e = [op |-> d.op, of |-> p, by |-> d.actor]
  OBVIOUS
<1>5. /\ d # Rel!Idle
      /\ d.flushed \/ ~(Rel!NamesBy(d) \/ Rel!NamesAt(d))
      /\ verdicts' = Append(verdicts, e) /\ overwritten' = (overwritten \/ evidence[p] # d.read)
      /\ verifying' = [verifying EXCEPT ![r] = Rel!Idle]
  BY <1>1, <1>2, <1>4 DEF Rel!CommitEvidence
<1>6. /\ d \in Verifying /\ p \in Pairs /\ d.actor \in Reviewers /\ d.read \in VerdictRows
      /\ d.op \in {"verify", "unverify"} /\ evidence[p] # None /\ evidence[p] \in VerdictRows
  BY <1>1, <1>2, <1>5, Working
<1>7. /\ row \in VerdictRows
      /\ row.by = IF Rel!NamesBy(d) THEN IF d.op = "verify" THEN d.actor ELSE None
                  ELSE evidence[p].by
      /\ row.at = IF Rel!NamesAt(d) THEN d.op = "verify" ELSE evidence[p].at
  BY <1>3, <1>6 DEF VerdictRows
<1>8. e \in LogEntries /\ e.op = d.op /\ e.of = p /\ e.by = d.actor /\ e.op # "create"
  BY <1>4, <1>6 DEF LogEntries
<1>9. /\ evidence' \in [Pairs -> {None} \cup VerdictRows] /\ evidence'[p] = row
      /\ \A q \in Pairs : q # p => evidence'[q] = evidence[q]
  <2>1. evidence' = [evidence EXCEPT ![p] = row]
    BY <1>1, <1>2, <1>3 DEF Rel!CommitEvidence
  <2> QED
    BY <1>6, <1>7, <2>1 DEF RelInv, RelTyped
<1>10. verdicts \in Seq(LogEntries) /\ evidence \in [Pairs -> {None} \cup VerdictRows]
       /\ overwritten \in BOOLEAN
  BY DEF RelInv, RelTyped
<1>11. PICK n : n = Len(verdicts) + 1 /\ Adds(verdicts, e, verdicts')
  BY <1>5, <1>8, <1>10 DEF Adds
<1>12. /\ verdicts' \in Seq(LogEntries)
       /\ \A k \in Verdicts(verdicts, p) : k \in Verdicts(verdicts', p) /\ verdicts'[k] = verdicts[k]
       /\ LastVerdict(verdicts', p, n) /\ verdicts'[n] = e /\ n \in Verdicts(verdicts', p)
  BY <1>8, <1>11, VerdictsAppended
<1>13. \A q \in Pairs : q # p =>
        /\ Verdicts(verdicts', q) = Verdicts(verdicts, q)
        /\ \A k \in Verdicts(verdicts, q) : verdicts'[k] = verdicts[k]
  BY <1>8, <1>11, VerdictsAppended
<1>14. RelTyped'
  BY <1>5, <1>9, <1>10, <1>12 DEF RelTyped
<1>15. ~overwritten' =>
        /\ row.by = IF d.op = "verify" THEN d.actor ELSE None
        /\ row.at = (d.op = "verify")
  <2> SUFFICES ASSUME ~overwritten'
               PROVE  /\ row.by = IF d.op = "verify" THEN d.actor ELSE None
                      /\ row.at = (d.op = "verify")
    OBVIOUS
  <2>1. evidence[p] = d.read
    BY <1>5
  <2>2. row.by = IF d.op = "verify" THEN d.actor ELSE None
    BY <1>7, <2>1 DEF Rel!NamesBy
  <2>3. row.at = (d.op = "verify")
    <3>1. evidence[p].at \in BOOLEAN
      BY <1>6 DEF VerdictRows
    <3>2. CASE d.op = "verify"
      BY <1>7, <3>2 DEF Rel!NamesAt
    <3>3. CASE d.op # "verify" /\ d.read.at
      BY <1>7, <3>3 DEF Rel!NamesAt
    <3>4. CASE d.op # "verify" /\ ~d.read.at
      BY <1>7, <2>1, <3>1, <3>4 DEF Rel!NamesAt
    <3> QED
      BY <3>2, <3>3, <3>4
  <2> QED
    BY <2>2, <2>3
<1>16. RowLogged(row, verdicts', p, ~overwritten')
  <2>1. ASSUME row.by # None
        PROVE  \E k \in Verdicts(verdicts', p) : verdicts'[k].op = "verify" /\ verdicts'[k].by = row.by
    <3>1. CASE Rel!NamesBy(d)
      BY <1>7, <1>8, <1>12, <2>1, <3>1
    <3>2. CASE ~Rel!NamesBy(d)
      <4>1. row.by = evidence[p].by
        BY <1>7, <3>2
      <4>2. PICK k \in Verdicts(verdicts, p) :
                verdicts[k].op = "verify" /\ verdicts[k].by = row.by
        BY <1>6, <2>1, <4>1 DEF RelInv, RowsLogged, RowLogged
      <4> QED
        BY <1>12, <4>2
    <3> QED
      BY <3>1, <3>2
  <2>2. ASSUME ~overwritten'
        PROVE  /\ row.at = (row.by # None)
               /\ \E k \in Verdicts(verdicts', p) :
                    LastVerdict(verdicts', p, k) /\ row.by = Says(verdicts', k)
    <3>1. row.at = (row.by # None)
      BY <1>6, <1>15, <2>2, NoneIsNoRow
    <3>2. row.by = Says(verdicts', n)
      BY <1>6, <1>8, <1>12, <1>15, <2>2 DEF Says
    <3> QED
      BY <1>12, <3>1, <3>2
  <2> QED
    BY <2>1, <2>2 DEF RowLogged
<1>17. RowsLogged'
  <2> SUFFICES ASSUME NEW q \in Pairs
               PROVE  IF evidence'[q] = None THEN Verdicts(verdicts', q) = {}
                      ELSE RowLogged(evidence'[q], verdicts', q, ~overwritten')
    BY DEF RowsLogged
  <2>1. CASE q = p
    BY <1>7, <1>9, <1>16, <2>1, NoneIsNoRow
  <2>2. CASE q # p /\ evidence[q] = None
    BY <1>9, <1>13, <2>2 DEF RelInv, RowsLogged
  <2>3. CASE q # p /\ evidence[q] # None
    <3>1. RowLogged(evidence[q], verdicts, q, ~overwritten)
      BY <2>3 DEF RelInv, RowsLogged
    <3>2. ~overwritten' => ~overwritten
      BY <1>5
    <3>3. RowLogged(evidence[q], verdicts', q, ~overwritten')
      BY <1>13, <2>3, <3>1, <3>2, RowStays
    <3> QED
      BY <1>9, <2>3, <3>3
  <2> QED
    BY <2>1, <2>2, <2>3
<1>18. RequestsHold'
  <2>1. \A q \in Pairs : evidence[q] # None => evidence'[q] # None
    BY <1>7, <1>9, NoneIsNoRow
  <2>2. ASSUME NEW q \in Sessions, q # r, verifying[q] # Rel!Idle, verifying[q].flushed,
               ~overwritten'
        PROVE  evidence'[verifying[q].of] = evidence[verifying[q].of]
    <3>1. CASE verifying[q].of # p
      BY <1>9, <2>2, <3>1, Working
    <3>2. CASE verifying[q].of = p
      <4>1. ~d.flushed
        BY <1>1, <1>2, <1>5, <2>2, <3>2 DEF RelInv, RequestsHold
      <4>2. row.by = evidence[p].by /\ row.at = evidence[p].at
        BY <1>5, <1>7, <4>1
      <4>3. row = evidence[p]
        BY <1>6, <1>7, <4>2 DEF VerdictRows
      <4> QED
        BY <1>9, <3>2, <4>3
    <3> QED
      BY <3>1, <3>2
  <2> QED
    BY <1>5, <2>1, <2>2, VerificationEnds
<1> QED
  BY <1>14, <1>17, <1>18 DEF RelInv

LEMMA RelInit == Rel!Init => RelInv
<1> SUFFICES ASSUME Rel!Init PROVE RelInv
  OBVIOUS
<1>1. RelTyped
  <2>1. <<>> \in Seq(LogEntries)
    OBVIOUS
  <2>2. evidence \in [Pairs -> {None} \cup VerdictRows]
    BY DEF Rel!Init
  <2> QED
    BY <2>1, <2>2 DEF Rel!Init, RelTyped
<1>2. RowsLogged
  BY DEF Rel!Init, RowsLogged, Verdicts
<1>3. RequestsHold
  BY DEF Rel!Init, RequestsHold
<1> QED
  BY <1>1, <1>2, <1>3 DEF RelInv

LEMMA RelNext == RelInv /\ [Rel!Next]_relVars => RelInv'
<1> SUFFICES ASSUME RelInv, [Rel!Next]_relVars PROVE RelInv'
  OBVIOUS
<1>1. CASE Rel!Next
  BY <1>1, CreateEvidenceInv, ReadEvidenceInv, FlushEvidenceInv, CommitEvidenceInv,
     AbortEvidenceInv
     DEF Rel!Next
<1>2. CASE UNCHANGED relVars
  BY <1>2 DEF relVars, RelInv, RelTyped, RowsLogged, RequestsHold
<1> QED
  BY <1>1, <1>2

\* The last entry is the one the reference chooses.
LEMMA RelIsSafe == RelInv => Rel!RelationshipsSafe
<1> SUFFICES ASSUME RelInv PROVE Rel!RelationshipsSafe
  OBVIOUS
<1>1. Rel!TypeOK
  BY DEF RelInv, RelTyped, Rel!TypeOK, VerdictRows, LogEntries
<1>2. ASSUME NEW p \in Pairs, evidence[p] # None
      PROVE  LET mine == {k \in DOMAIN verdicts : verdicts[k].of = p /\ verdicts[k].op # "create"}
                 last_1 == CHOOSE k \in mine : \A j \in mine : j <= k
             IN  /\ evidence[p].by # None =>
                     \E k \in mine : verdicts[k].op = "verify" /\ verdicts[k].by = evidence[p].by
                 /\ ~overwritten =>
                     /\ evidence[p].at = (evidence[p].by # None)
                     /\ evidence[p].by = IF mine = {} \/ verdicts[last_1].op = "unverify" THEN None
                                         ELSE verdicts[last_1].by
  <2> DEFINE mine == Verdicts(verdicts, p)
             m    == CHOOSE k \in mine : \A j \in mine : j <= k
  <2>1. RowLogged(evidence[p], verdicts, p, ~overwritten)
    BY <1>2 DEF RelInv, RowsLogged
  <2>2. mine \subseteq Nat
    BY DEF Verdicts, RelInv, RelTyped
  <2>3. ASSUME NEW k \in mine, LastVerdict(verdicts, p, k) PROVE m = k
    <3>1. m \in mine /\ \A j \in mine : j <= m
      BY <2>3 DEF LastVerdict
    <3>2. k <= m /\ m <= k
      BY <2>3, <3>1 DEF LastVerdict
    <3> QED
      BY <2>2, <3>1, <3>2
  <2>4. evidence[p].by # None =>
            \E k \in mine : verdicts[k].op = "verify" /\ verdicts[k].by = evidence[p].by
    BY <2>1 DEF RowLogged
  <2>5. ~overwritten =>
          /\ evidence[p].at = (evidence[p].by # None)
          /\ evidence[p].by = IF mine = {} \/ verdicts[m].op = "unverify" THEN None
                              ELSE verdicts[m].by
    <3> HIDE DEF m, mine
    <3> SUFFICES ASSUME ~overwritten
                 PROVE  /\ evidence[p].at = (evidence[p].by # None)
                        /\ evidence[p].by =
                            IF mine = {} \/ verdicts[m].op = "unverify" THEN None
                            ELSE verdicts[m].by
      OBVIOUS
    <3>1. \/ mine = {} /\ evidence[p].by = None
          \/ \E k \in mine : LastVerdict(verdicts, p, k) /\ evidence[p].by = Says(verdicts, k)
      BY <2>1 DEF RowLogged, mine
    <3>2. evidence[p].at = (evidence[p].by # None)
      BY <2>1 DEF RowLogged
    <3> QED
      BY <2>3, <3>1, <3>2 DEF Says
  <2> QED
    BY <2>4, <2>5 DEF Verdicts
<1>3. Rel!EvidenceLogged
  BY <1>2 DEF Rel!EvidenceLogged
<1> QED
  BY <1>1, <1>3 DEF Rel!RelationshipsSafe

--------------------------------------------------------------------------------
(* EntityMerge: canonical entities and their merges.                          *)

EntityRows == [name : Names, ext : Merge!Ids, into : {None} \cup Nat, unseen : SUBSET Nat,
               linked : BOOLEAN]

\* A creation that asked first knows that no row it saw is an active one of its name.
CreateHolds(d, E) ==
    /\ d \in [op : {"create"}, name : Names, ext : Merge!Ids, linked : BOOLEAN,
              against : SUBSET DOMAIN E]
    /\ ~d.linked => \A i \in d.against : E[i].name = d.name => E[i].into # None

MergeHolds(d, E, K) ==
    d \in [op : {"merge"}, from : SUBSET DOMAIN E, to : DOMAIN E,
           moves : SUBSET DOMAIN K, moved : BOOLEAN]

\* What an open transaction has decided about the rows E and the source records K.
Decided(d, E, K) == d = Merge!Idle \/ CreateHolds(d, E) \/ MergeHolds(d, E, K)

DecidedHolds ==
    /\ DOMAIN merging = Sessions
    /\ \A s \in Sessions : Decided(merging[s], entities, refs)

\* No set of merged rows leads only into itself.
NoLoops ==
    ~crossing => \A S \in SUBSET DOMAIN entities :
        S # {} => \E i \in S : Merge!Active(i) \/ entities[i].into \notin S

MergeTyped == entities \in Seq(EntityRows) /\ refs \in Seq(Nat) /\ Merge!TypeOK

MergeInv == MergeTyped /\ DecidedHolds /\ NoLoops /\ Merge!TwinsRaced

--------------------------------------------------------------------------------
\* A row and its fields.
LEMMA EntityRow ==
    ASSUME MergeTyped, NEW i \in DOMAIN entities
    PROVE  /\ entities[i] \in EntityRows
           /\ entities[i].name \in Names /\ entities[i].ext \in Merge!Ids
           /\ entities[i].into \in {None} \cup DOMAIN entities
           /\ i \in Nat /\ i # None
<1>1. entities[i] \in EntityRows /\ i \in Nat
  BY DEF MergeTyped
<1> QED
  BY <1>1, ReviewsAssumption
     DEF MergeTyped, Merge!TypeOK, EntityRows, Merge!EntityMergeAssumption

\* Decisions survive what keeps names and lets no row become active again.
LEMMA DecidedKept ==
    ASSUME NEW d, NEW E, NEW F, NEW K, NEW L, Decided(d, E, K),
           DOMAIN E \subseteq DOMAIN F, DOMAIN K \subseteq DOMAIN L,
           \A i \in DOMAIN E : F[i].name = E[i].name /\ (E[i].into # None => F[i].into # None)
    PROVE  Decided(d, F, L)
<1>1. CASE CreateHolds(d, E)
  BY <1>1 DEF Decided, CreateHolds
<1>2. CASE MergeHolds(d, E, K)
  BY <1>2 DEF Decided, MergeHolds
<1> QED
  BY <1>1, <1>2 DEF Decided

\* So they survive a step that ends one of them.
LEMMA OneEnds ==
    ASSUME DecidedHolds, NEW s \in Sessions, merging' = [merging EXCEPT ![s] = Merge!Idle],
           DOMAIN entities \subseteq DOMAIN entities', DOMAIN refs \subseteq DOMAIN refs',
           \A i \in DOMAIN entities :
               /\ entities'[i].name = entities[i].name
               /\ entities[i].into # None => entities'[i].into # None
    PROVE  DecidedHolds'
<1>1. \A r \in Sessions : merging'[r] = merging[r] \/ merging'[r] = Merge!Idle
  BY DEF DecidedHolds
<1>2. \A r \in Sessions : Decided(merging[r], entities', refs')
  BY DecidedKept DEF DecidedHolds
<1>3. \A r \in Sessions : Decided(merging'[r], entities', refs')
  BY <1>1, <1>2 DEF Decided
<1> QED
  BY <1>3 DEF DecidedHolds

\* A step that only starts, moves on or ends one decision.
LEMMA OnlyDecides ==
    ASSUME MergeInv, NEW s \in Sessions, NEW d, UNCHANGED <<entities, refs, crossing>>,
           merging' = [merging EXCEPT ![s] = d], Decided(d, entities, refs)
    PROVE  MergeInv'
<1>1. MergeTyped' /\ NoLoops' /\ Merge!TwinsRaced'
  BY DEF MergeInv, MergeTyped, NoLoops, Merge!TypeOK, Merge!TwinsRaced, Merge!Active
<1>2. \A r \in Sessions : Decided(merging'[r], entities, refs)
  BY DEF MergeInv, DecidedHolds
<1>3. DecidedHolds'
  BY <1>2 DEF MergeInv, DecidedHolds
<1> QED
  BY <1>1, <1>3 DEF MergeInv

LEMMA GetOrCreateInv ==
    ASSUME MergeInv, NEW s \in Sessions, NEW n \in Names, NEW x \in Externals \cup {None},
           Merge!GetOrCreate(s, n, x)
    PROVE  MergeInv'
<1> DEFINE d == [op |-> "create", name |-> n, ext |-> IF x = None THEN n ELSE x,
                 linked |-> FALSE, against |-> DOMAIN entities]
<1>1. Merge!Named(n) = {}
  <2>1. Merge!Resolved(n, x) = {}
    BY DEF Merge!GetOrCreate
  <2>2. Merge!WithId(x) # {} \/ Merge!WithId(n) # {} => Merge!Resolved(n, x) # {}
    BY Zenon DEF Merge!Resolved
  <2>3. /\ Merge!WithId(x) = {} /\ Merge!WithId(n) = {} /\ Merge!Named(n) # {}
        => Merge!Resolved(n, x) # {}
    BY Zenon DEF Merge!Resolved
  <2> QED
    BY <2>1, <2>2, <2>3
<1>2. CreateHolds(d, entities)
  <2>1. \A i \in DOMAIN entities : entities[i].name = n => entities[i].into # None
    BY <1>1 DEF Merge!Named, Merge!Active
  <2> QED
    BY <2>1 DEF CreateHolds, Merge!Ids
<1> QED
  BY <1>2, OnlyDecides DEF Merge!GetOrCreate, Decided

LEMMA CreateLinkedInv ==
    ASSUME MergeInv, NEW s \in Sessions, NEW n \in Names, NEW x \in Externals \cup {None},
           Merge!CreateLinked(s, n, x)
    PROVE  MergeInv'
<1> DEFINE d == [op |-> "create", name |-> n, ext |-> x, linked |-> TRUE, against |-> {}]
<1>1. CreateHolds(d, entities)
  BY DEF CreateHolds, Merge!Ids
<1> QED
  BY <1>1, OnlyDecides DEF Merge!CreateLinked, Decided

LEMMA ExecuteInv ==
    ASSUME MergeInv, NEW s \in Sessions, NEW i \in DOMAIN entities, NEW j \in DOMAIN entities,
           Merge!Execute(s, i, j)
    PROVE  MergeInv'
<1> DEFINE d == [op |-> "merge", from |-> {i}, to |-> j, moves |-> {}, moved |-> FALSE]
<1>1. MergeHolds(d, entities, refs)
  BY DEF MergeHolds
<1> QED
  BY <1>1, OnlyDecides DEF Merge!Execute, Decided

LEMMA ApplyInv ==
    ASSUME MergeInv, NEW s \in Sessions, NEW from \in SUBSET DOMAIN entities,
           NEW j \in DOMAIN entities, Merge!Apply(s, from, j)
    PROVE  MergeInv'
<1> DEFINE d == [op |-> "merge", from |-> from \ {j}, to |-> j, moves |-> {}, moved |-> FALSE]
<1>1. MergeHolds(d, entities, refs)
  BY DEF MergeHolds
<1> QED
  BY <1>1, OnlyDecides DEF Merge!Apply, Decided

\* What a session that is in a merge has decided.
LEMMA InMerge ==
    ASSUME MergeInv, NEW s \in Sessions, s \in Merge!Merges
    PROVE  MergeHolds(merging[s], entities, refs)
<1>1. merging[s].op = "merge"
  BY DEF Merge!Merges
<1>2. merging[s] # Merge!Idle /\ ~CreateHolds(merging[s], entities)
  BY <1>1 DEF Merge!Idle, CreateHolds
<1> QED
  BY <1>2 DEF MergeInv, DecidedHolds, Decided

LEMMA MoveInv ==
    ASSUME MergeInv, NEW s \in Sessions, Merge!Move(s)
    PROVE  MergeInv'
<1> DEFINE mine == {k \in DOMAIN refs : refs[k] \in merging[s].from}
           d    == [merging[s] EXCEPT !.moved = TRUE, !.moves = mine]
<1>1. MergeHolds(merging[s], entities, refs)
  BY InMerge DEF Merge!Move
<1>2. MergeHolds(d, entities, refs)
  BY <1>1 DEF MergeHolds
<1>3. merging' = [merging EXCEPT ![s] = d] /\ UNCHANGED <<entities, refs, crossing>>
  BY DEF Merge!Move, MergeInv, DecidedHolds
<1> QED
  BY <1>2, <1>3, OnlyDecides DEF Decided

LEMMA MergeRollbackInv ==
    ASSUME MergeInv, NEW s \in Sessions, Merge!Rollback(s)
    PROVE  MergeInv'
  BY OnlyDecides DEF Merge!Rollback, Decided

--------------------------------------------------------------------------------
\* A creation takes effect.
LEMMA InsertInv ==
    ASSUME MergeInv, NEW s \in Sessions, Merge!Insert(s)
    PROVE  MergeInv'
<1> DEFINE d   == merging[s]
           n   == Len(entities)
           row == [name |-> d.name, ext |-> d.ext, into |-> None,
                   unseen |-> DOMAIN entities \ d.against, linked |-> d.linked]
<1>1. CreateHolds(d, entities)
  BY DEF Merge!Insert, MergeInv, DecidedHolds, Decided, MergeHolds, Merge!Idle
<1>2. MergeTyped
  BY DEF MergeInv
<1>3. entities \in Seq(EntityRows) /\ refs \in Seq(Nat) /\ n \in Nat /\ DOMAIN entities = 1..n
  BY <1>2 DEF MergeTyped
<1>4. row \in EntityRows
  BY <1>1, <1>3 DEF EntityRows, CreateHolds
<1>5. entities' = Append(entities, row) /\ entities' \in Seq(EntityRows)
  BY <1>3, <1>4 DEF Merge!Insert
<1>6. /\ DOMAIN entities' = 1..(n + 1) /\ entities'[n + 1] = row
      /\ \A i \in DOMAIN entities : entities'[i] = entities[i]
  BY <1>3, <1>5
<1> HIDE DEF row
<1>7. /\ refs' \in Seq(Nat) /\ DOMAIN refs \subseteq DOMAIN refs'
      /\ \A k \in DOMAIN refs' : refs'[k] = n + 1 \/ (k \in DOMAIN refs /\ refs'[k] = refs[k])
  <2>1. CASE d.linked
    BY <1>3, <2>1 DEF Merge!Insert
  <2>2. CASE ~d.linked
    BY <1>3, <2>2 DEF Merge!Insert
  <2> QED
    BY <2>1, <2>2
<1>8. row.into = None /\ row.name \in Names /\ row.ext \in Merge!Ids
      /\ row.name = d.name /\ row.linked = d.linked /\ row.unseen = DOMAIN entities \ d.against
  BY <1>1 DEF row, CreateHolds
<1>9. MergeTyped'
  <2>1. \A i \in DOMAIN entities' : i \in DOMAIN entities \/ i = n + 1
    BY <1>3, <1>6
  <2>2. DOMAIN entities \subseteq DOMAIN entities' /\ n + 1 \in DOMAIN entities'
    BY <1>3, <1>6
  <2>3. \A i \in DOMAIN entities' :
          /\ entities'[i].name \in Names /\ entities'[i].ext \in Merge!Ids
          /\ entities'[i].into \in {None} \cup DOMAIN entities'
    BY <1>2, <1>6, <1>8, <2>1, <2>2, EntityRow
  <2>4. \A k \in DOMAIN refs' : refs'[k] \in DOMAIN entities'
    BY <1>2, <1>7, <2>2 DEF MergeTyped, Merge!TypeOK
  <2> QED
    BY <1>5, <1>7, <2>3, <2>4 DEF MergeTyped, Merge!TypeOK, Merge!Ids
<1>10. DecidedHolds'
  <2>1. \A i \in DOMAIN entities : entities'[i] = entities[i]
    BY <1>6
  <2>2. DOMAIN entities \subseteq DOMAIN entities'
    BY <1>3, <1>6
  <2> QED
    BY <1>7, <2>1, <2>2, OneEnds DEF Merge!Insert, MergeInv
<1>11. NoLoops'
  <2> SUFFICES ASSUME ~crossing, NEW S \in SUBSET DOMAIN entities', S # {}
               PROVE  \E i \in S : Merge!Active(i)' \/ entities'[i].into \notin S
    BY DEF NoLoops, Merge!Insert
  <2>1. CASE n + 1 \in S
    BY <1>6, <1>8, <2>1 DEF Merge!Active
  <2>2. CASE n + 1 \notin S
    <3>1. S \in SUBSET DOMAIN entities
      BY <1>3, <1>6, <2>2
    <3>2. PICK i \in S : Merge!Active(i) \/ entities[i].into \notin S
      BY <3>1 DEF MergeInv, NoLoops
    <3> QED
      BY <1>6, <3>1, <3>2 DEF Merge!Active
  <2> QED
    BY <2>1, <2>2
<1>12. Merge!TwinsRaced'
  <2> SUFFICES ASSUME NEW i \in DOMAIN entities', NEW j \in DOMAIN entities', i < j,
                      Merge!Active(i)', Merge!Active(j)',
                      entities'[i].name = entities'[j].name, ~entities'[j].linked
               PROVE  i \in entities'[j].unseen
    BY DEF Merge!TwinsRaced
  <2>1. i \in DOMAIN entities
    BY <1>3, <1>6
  <2>2. CASE j = n + 1
    <3>1. i \notin d.against
      BY <1>1, <1>6, <1>8, <2>1, <2>2 DEF CreateHolds, Merge!Active
    <3> QED
      BY <1>6, <1>8, <2>1, <2>2, <3>1
  <2>3. CASE j # n + 1
    <3>1. j \in DOMAIN entities
      BY <1>3, <1>6, <2>3
    <3> QED
      BY <1>6, <2>1, <3>1 DEF MergeInv, Merge!TwinsRaced, Merge!Active
  <2> QED
    BY <2>2, <2>3
<1> QED
  BY <1>9, <1>10, <1>11, <1>12 DEF MergeInv

\* A merge takes effect: every row it redirects leaves the active ones, and unless its
\* target was merged or among them, no set of rows closes on itself.
LEMMA CommitMergeInv ==
    ASSUME MergeInv, NEW s \in Sessions, Merge!CommitMerge(s)
    PROVE  MergeInv'
<1> DEFINE d == merging[s]
<1>1. MergeHolds(d, entities, refs)
  BY InMerge DEF Merge!CommitMerge
<1>2. MergeTyped
  BY DEF MergeInv
<1>3. /\ d.from \subseteq DOMAIN entities /\ d.to \in DOMAIN entities
      /\ d.to \in Nat /\ d.to # None
  BY <1>1, <1>2, EntityRow DEF MergeHolds
<1>4. DOMAIN entities' = DOMAIN entities
  BY DEF Merge!CommitMerge
<1>5. \A i \in DOMAIN entities : i \notin d.from => entities'[i] = entities[i]
  BY DEF Merge!CommitMerge
<1>6. ASSUME NEW i \in d.from
      PROVE  /\ entities'[i] \in EntityRows /\ entities'[i].into = d.to
             /\ entities'[i].name = entities[i].name /\ entities'[i].ext = entities[i].ext
             /\ entities'[i].linked = entities[i].linked
             /\ entities'[i].unseen = entities[i].unseen
  <2>1. entities'[i] = [entities[i] EXCEPT !.into = d.to]
    BY <1>3, <1>6 DEF Merge!CommitMerge
  <2>2. entities[i] \in EntityRows
    BY <1>2, <1>3, <1>6, EntityRow
  <2> QED
    BY <1>3, <2>1, <2>2 DEF EntityRows
<1>7. \A i \in DOMAIN entities :
        /\ entities'[i].name = entities[i].name /\ entities'[i].ext = entities[i].ext
        /\ entities'[i].linked = entities[i].linked /\ entities'[i].unseen = entities[i].unseen
        /\ Merge!Active(i)' => Merge!Active(i)
        /\ entities'[i].into \in {None} \cup DOMAIN entities
        /\ entities'[i] \in EntityRows
  BY <1>2, <1>3, <1>5, <1>6, EntityRow DEF Merge!Active
<1>8. /\ DOMAIN refs' = DOMAIN refs /\ refs' \in Seq(Nat)
      /\ \A k \in DOMAIN refs : refs'[k] \in DOMAIN entities
  <2>1. refs' = [k \in DOMAIN refs |-> IF k \in d.moves THEN d.to ELSE refs[k]]
    BY DEF Merge!CommitMerge
  <2>2. /\ refs \in Seq(Nat) /\ \A k \in DOMAIN refs : refs[k] \in DOMAIN entities
    BY <1>2 DEF MergeTyped, Merge!TypeOK
  <2>3. DOMAIN refs = 1..Len(refs) /\ Len(refs) \in Nat
    BY <2>2
  <2>4. \A k \in 1..Len(refs) : refs'[k] \in Nat
    BY <1>3, <2>1, <2>2, <2>3
  <2> QED
    BY <1>3, <2>1, <2>2, <2>3, <2>4, SeqDef
<1>9. MergeTyped'
  <2>1. entities' \in Seq(EntityRows)
    <3>1. DOMAIN entities = 1..Len(entities) /\ Len(entities) \in Nat
      BY <1>2 DEF MergeTyped
    <3>2. entities' = [i \in 1..Len(entities) |-> entities'[i]]
      BY <3>1 DEF Merge!CommitMerge
    <3> QED
      BY <1>7, <3>1, <3>2, SeqDef
  <2>2. \A i \in DOMAIN entities : entities[i].name \in Names /\ entities[i].ext \in Merge!Ids
    BY <1>2, EntityRow
  <2> QED
    BY <1>4, <1>7, <1>8, <2>1, <2>2 DEF MergeTyped, Merge!TypeOK, Merge!Ids
<1>10. DecidedHolds'
  BY <1>4, <1>7, <1>8, OneEnds DEF Merge!CommitMerge, MergeInv, Merge!Active
<1>11. NoLoops'
  <2> SUFFICES ASSUME ~crossing', NEW S \in SUBSET DOMAIN entities, S # {}
               PROVE  \E i \in S : Merge!Active(i)' \/ entities'[i].into \notin S
    BY <1>4 DEF NoLoops
  <2>1. ~crossing /\ Merge!Active(d.to) /\ d.to \notin d.from
    BY DEF Merge!CommitMerge
  <2>2. CASE d.to \in S
    BY <1>3, <1>5, <2>1, <2>2 DEF Merge!Active
  <2>3. CASE d.to \notin S /\ S \cap d.from # {}
    BY <1>6, <2>3
  <2>4. CASE S \cap d.from = {}
    <3>1. PICK i \in S : Merge!Active(i) \/ entities[i].into \notin S
      BY <2>1 DEF MergeInv, NoLoops
    <3> QED
      BY <1>5, <2>4, <3>1 DEF Merge!Active
  <2> QED
    BY <2>2, <2>3, <2>4
<1>12. Merge!TwinsRaced'
  BY <1>4, <1>7 DEF MergeInv, Merge!TwinsRaced
<1> QED
  BY <1>9, <1>10, <1>11, <1>12 DEF MergeInv

LEMMA LinkRecordInv ==
    ASSUME MergeInv, NEW i \in DOMAIN entities, Merge!LinkRecord(i)
    PROVE  MergeInv'
<1>1. MergeTyped /\ i \in Nat
  BY EntityRow DEF MergeInv
<1>2. /\ refs \in Seq(Nat) /\ refs' = Append(refs, i) /\ UNCHANGED <<entities, merging, crossing>>
      /\ \A k \in DOMAIN refs : refs[k] \in DOMAIN entities
  BY <1>1 DEF Merge!LinkRecord, MergeTyped, Merge!TypeOK
<1>3. /\ refs' \in Seq(Nat) /\ DOMAIN refs \subseteq DOMAIN refs'
      /\ \A k \in DOMAIN refs' : refs'[k] \in DOMAIN entities
  BY <1>1, <1>2
<1>4. MergeTyped'
  BY <1>1, <1>2, <1>3 DEF MergeTyped, Merge!TypeOK
<1>5. NoLoops' /\ Merge!TwinsRaced'
  BY <1>2 DEF MergeInv, NoLoops, Merge!TwinsRaced, Merge!Active
<1>6. DecidedHolds'
  BY <1>2, <1>3, DecidedKept DEF MergeInv, DecidedHolds
<1> QED
  BY <1>4, <1>5, <1>6 DEF MergeInv

LEMMA MergeInit == Merge!Init => MergeInv
<1> SUFFICES ASSUME Merge!Init PROVE MergeInv
  OBVIOUS
<1>1. entities = <<>> /\ refs = <<>> /\ DOMAIN entities = {} /\ DOMAIN refs = {}
  BY DEF Merge!Init
<1>2. MergeTyped /\ NoLoops /\ Merge!TwinsRaced
  BY <1>1 DEF MergeTyped, NoLoops, Merge!TypeOK, Merge!TwinsRaced
<1>3. DecidedHolds
  BY DEF Merge!Init, DecidedHolds, Decided
<1> QED
  BY <1>2, <1>3 DEF MergeInv

LEMMA MergeNext == MergeInv /\ [Merge!Next]_mergeVars => MergeInv'
<1> SUFFICES ASSUME MergeInv, [Merge!Next]_mergeVars PROVE MergeInv'
  OBVIOUS
<1>1. CASE Merge!Next
  BY <1>1, GetOrCreateInv, CreateLinkedInv, ExecuteInv, ApplyInv, InsertInv, MoveInv,
     CommitMergeInv, MergeRollbackInv, LinkRecordInv
     DEF Merge!Next
<1>2. CASE UNCHANGED mergeVars
  BY <1>2 DEF mergeVars, MergeInv, MergeTyped, DecidedHolds, NoLoops,
     Merge!TypeOK, Merge!TwinsRaced, Merge!Active
<1> QED
  BY <1>1, <1>2

\* Where no set of rows closes on itself, the links from a row reach an active one.
LEMMA ChainEnds ==
    ASSUME MergeInv, ~crossing, NEW i \in DOMAIN entities
    PROVE  Merge!Resolves(i)
<1> SUFFICES ASSUME Merge!Short(i) PROVE Merge!Chain(i) # None
  BY DEF Merge!Resolves
<1> DEFINE R == Merge!Reached(i)
<1>1. R \in SUBSET DOMAIN entities /\ i \in R
  BY DEF Merge!Reached
<1>2. PICK j \in R : Merge!Active(j) \/ entities[j].into \notin R
  BY <1>1 DEF MergeInv, NoLoops
<1>3. Merge!Active(j)
  <2> SUFFICES ASSUME ~Merge!Active(j) PROVE entities[j].into \in R
    BY <1>2
  <2>1. entities[j].into \in DOMAIN entities
    BY <1>1, EntityRow DEF MergeInv, Merge!Active
  <2>2. \A rows_1 \in SUBSET DOMAIN entities :
            i \in rows_1 /\ Merge!Followed(rows_1) => entities[j].into \in rows_1
    BY DEF Merge!Reached, Merge!Followed
  <2> QED
    BY <2>1, <2>2 DEF Merge!Reached
<1>4. Merge!Chain(i) \in R
  BY <1>3 DEF Merge!Chain
<1> QED
  BY <1>1, <1>4, EntityRow DEF MergeInv

LEMMA MergeIsSafe == MergeInv => Merge!MergeSafe
<1> SUFFICES ASSUME MergeInv PROVE Merge!MergeSafe
  OBVIOUS
<1>1. Merge!TypeOK /\ Merge!TwinsRaced
  BY DEF MergeInv, MergeTyped
<1>2. Merge!ChainsEnd
  BY <1>1, ChainEnds DEF Merge!ChainsEnd, Merge!TypeOK
<1> QED
  BY <1>1, <1>2 DEF Merge!MergeSafe

--------------------------------------------------------------------------------
(* PublicViews: ranks, pages and counts.                                      *)

\* How many elements of S are newer than i.
Above(S, i) == Cardinality({k \in S : k > i})

\* Ranks are below the size of the set, and the newer of two has the lower.
LEMMA AboveOrders ==
    ASSUME NEW S, S \subseteq Nat, IsFiniteSet(S)
    PROVE  /\ \A i \in S : Above(S, i) \in 0..Cardinality(S) - 1
           /\ \A i, k \in S : i < k <=> Above(S, k) < Above(S, i)
<1>1. \A i : IsFiniteSet({k \in S : k > i}) /\ Above(S, i) \in Nat
  BY FS_Subset, FS_CardinalityType DEF Above
<1>2. ASSUME NEW i \in S PROVE Above(S, i) \in 0..Cardinality(S) - 1
  <2>1. {k \in S : k > i} \subseteq S /\ {k \in S : k > i} # S
    OBVIOUS
  <2>2. Cardinality({k \in S : k > i}) <= Cardinality(S)
        /\ Cardinality({k \in S : k > i}) # Cardinality(S)
    BY <2>1, FS_Subset
  <2> QED
    BY <1>1, <2>2, FS_CardinalityType DEF Above
<1>3. ASSUME NEW i \in S, NEW k \in S, i < k PROVE Above(S, k) < Above(S, i)
  <2> DEFINE A == {x \in S : x > i}
             B == {x \in S : x > k}
  <2>0. i \in Nat /\ k \in Nat /\ \A x \in S : x \in Nat
    OBVIOUS
  <2>1. B \subseteq A /\ k \in A /\ k \notin B
    <3>1. \A x \in Nat : x > k => x > i
      BY <1>3, <2>0
    <3>2. k > i /\ ~(k > k)
      BY <1>3, <2>0
    <3> QED
      BY <2>0, <3>1, <3>2
  <2>2. IsFiniteSet(A)
    BY <1>1
  <2> HIDE DEF A, B
  <2>3. Cardinality(B) <= Cardinality(A) /\ Cardinality(B) # Cardinality(A)
    BY <2>1, <2>2, FS_Subset
  <2>4. Cardinality(A) = Above(S, i) /\ Cardinality(B) = Above(S, k)
    BY DEF A, B, Above
  <2>5. Above(S, i) \in Nat /\ Above(S, k) \in Nat
    BY <1>1
  <2> QED
    BY <2>3, <2>4, <2>5
<1>4. ASSUME NEW i \in S, NEW k \in S, Above(S, k) < Above(S, i) PROVE i < k
  <2>1. i \in Nat /\ k \in Nat /\ Above(S, i) \in Nat /\ Above(S, k) \in Nat
    BY <1>1
  <2>2. i # k
    BY <1>4, <2>1
  <2>3. ~(k < i)
    <3> SUFFICES ASSUME k < i PROVE FALSE
      OBVIOUS
    <3>1. Above(S, i) < Above(S, k)
      BY <1>3
    <3> QED
      BY <1>4, <2>1, <3>1
  <2> QED
    BY <2>1, <2>2, <2>3
<1> QED
  BY <1>2, <1>3, <1>4

\* As many elements have a rank in an interval as the interval has ranks of the set.
LEMMA RanksCount ==
    ASSUME NEW S, S \subseteq Nat, IsFiniteSet(S), NEW a \in Nat, NEW b \in Int,
           b < Cardinality(S)
    PROVE  /\ IsFiniteSet({k \in S : Above(S, k) \in a..b})
           /\ Cardinality({k \in S : Above(S, k) \in a..b}) = IF a > b THEN 0 ELSE b - a + 1
<1> DEFINE N == Cardinality(S)
           T == {k \in S : Above(S, k) \in a..b}
           f == [k \in S |-> Above(S, k)]
           g == [k \in T |-> Above(S, k)]
<1>1. N \in Nat /\ IsFiniteSet(0..N - 1) /\ Cardinality(0..N - 1) = N
  <2>1. N \in Nat
    BY FS_CardinalityType
  <2> HIDE DEF N
  <2>2. N - 1 \in Int /\ (0 > N - 1 <=> N = 0) /\ N - 1 - 0 + 1 = N
    BY <2>1
  <2>3. /\ IsFiniteSet(0..N - 1)
        /\ Cardinality(0..N - 1) = IF 0 > N - 1 THEN 0 ELSE N - 1 - 0 + 1
    BY <2>2, FS_Interval
  <2> QED
    BY <2>1, <2>2, <2>3
<1>2. \A i \in S : Above(S, i) \in 0..N - 1
  BY AboveOrders
<1>3. \A i, k \in S : Above(S, i) = Above(S, k) => i = k
  <2> SUFFICES ASSUME NEW i \in S, NEW k \in S, Above(S, i) = Above(S, k) PROVE i = k
    OBVIOUS
  <2>1. ~(i < k) /\ ~(k < i)
    <3>1. Above(S, i) \in Int /\ Above(S, k) \in Int
      BY <1>2
    <3>2. ~(Above(S, i) < Above(S, k)) /\ ~(Above(S, k) < Above(S, i))
      BY <3>1
    <3> QED
      BY <3>2, AboveOrders
  <2>2. i \in Nat /\ k \in Nat
    OBVIOUS
  <2> QED
    BY <2>1, <2>2
<1>4. f \in Injection(S, 0..N - 1)
  BY <1>2, <1>3 DEF Injection, IsInjective
<1>5. f \in Surjection(S, 0..N - 1)
  BY <1>1, <1>4, FS_Injection
<1>6. \A n \in 0..N - 1 : \E k \in S : Above(S, k) = n
  BY <1>5 DEF Surjection
<1>7. g \in Bijection(T, a..b)
  <2>1. g \in Injection(T, a..b)
    BY <1>3 DEF Injection, IsInjective
  <2>2. \A n \in a..b : \E k \in T : g[k] = n
    <3> SUFFICES ASSUME NEW n \in a..b PROVE \E k \in T : g[k] = n
      OBVIOUS
    <3>1. n \in 0..N - 1
      BY <1>1
    <3>2. PICK k \in S : Above(S, k) = n
      BY <1>6, <3>1
    <3>3. k \in T /\ g[k] = n
      BY <3>2
    <3> QED
      BY <3>3
  <2> QED
    BY <2>1, <2>2 DEF Bijection, Surjection, Injection
<1>8. IsFiniteSet(T)
  BY FS_Subset
<1>9. Cardinality(T) = Cardinality(a..b)
  BY <1>7, <1>8, FS_Bijection DEF ExistsBijection
<1> QED
  BY <1>8, <1>9, FS_Interval

\* The views count as finite sets are counted.

\* The image of a set under a pairing.
LEMMA PairsCount ==
    ASSUME NEW S, IsFiniteSet(S), NEW c
    PROVE  IsFiniteSet({<<c, i>> : i \in S}) /\ Cardinality({<<c, i>> : i \in S}) = Cardinality(S)
<1>1. [i \in S |-> <<c, i>>] \in Bijection(S, {<<c, i>> : i \in S})
  BY DEF Bijection, Injection, IsInjective, Surjection
<1> QED
  BY <1>1, FS_Bijection DEF ExistsBijection

LEMMA PairedCount ==
    ASSUME NEW S, IsFiniteSet(S), NEW c
    PROVE  Cardinality({<<i, c>> : i \in S}) = Cardinality(S)
<1>1. [i \in S |-> <<i, c>>] \in Bijection(S, {<<i, c>> : i \in S})
  BY DEF Bijection, Injection, IsInjective, Surjection
<1> QED
  BY <1>1, FS_Bijection DEF ExistsBijection

\* The multiple of l below which r is the last.
LEMMA Multiple ==
    ASSUME NEW l \in Nat \ {0}, NEW r \in Nat
    PROVE  \E m \in 0..r : m * l <= r /\ r < m * l + l
<1> DEFINE T == {m \in Nat : r < m * l + l}
<1>1. r \in T
  <2>1. r * l \in Nat /\ r <= r * l
    OBVIOUS
  <2> QED
    BY <2>1
<1>2. PICK m \in T : \A x \in T : m <= x
  BY <1>1, NatMinimum
<1>3. m <= r
  BY <1>1, <1>2
<1>4. m * l <= r
  <2>1. CASE m = 0
    BY <2>1
  <2>2. CASE m # 0
    <3>1. m - 1 \in Nat /\ ~(m <= m - 1)
      BY <2>2
    <3>2. m - 1 \notin T
      BY <1>2, <3>1
    <3>3. (m - 1) * l + l = m * l
      BY <3>1
    <3> QED
      BY <3>1, <3>2, <3>3
  <2> QED
    BY <2>1, <2>2
<1> QED
  <2>1. m \in 0..r /\ r < m * l + l
    BY <1>2, <1>3
  <2> HIDE DEF T
  <2> QED
    BY <1>4, <2>1

LEMMA MultiplesGrow ==
    ASSUME NEW l \in Nat, NEW m \in Nat, NEW n \in Nat, m < n
    PROVE  m * l \in Nat /\ n * l \in Nat /\ m * l + l <= n * l
<1>1. PICK d \in Nat : n = m + 1 + d
  <2>1. n - m - 1 \in Nat /\ n = m + 1 + (n - m - 1)
    OBVIOUS
  <2> QED
    BY <2>1
<1>2. n * l = m * l + l + d * l /\ d * l \in Nat /\ m * l \in Nat
  BY <1>1
<1> QED
  BY <1>2

\* The views count as finite sets are counted.
LEMMA ViewCounts == \A S : View!Cardinality(S) = Cardinality(S)
  BY DEF View!Cardinality, Cardinality, View!IsFiniteSet, IsFiniteSet

\* A public incident has a snapshot or is as auto_review published it.
Vouched(r) ==
    r.public /\ ~r.snapshot => r.status = View!MachineApproved /\ r.url /\ View!Imported(r)

ViewInv ==
    /\ View!TypeOK
    /\ \A i \in DOMAIN incidents : Vouched(incidents[i])

SourceRows == [type : SourceTypes, status : View!Statuses, public : BOOLEAN]
DotRows(S) == [place : View!Places, judge : Nat, case : Nat, sources : SUBSET S,
                 status : View!Statuses, public : BOOLEAN]
IncidentRows(S) == [placed : BOOLEAN, precision : View!Precisions, url : BOOLEAN,
                    snapshot : BOOLEAN, sources : SUBSET S,
                    status : View!Statuses, public : BOOLEAN]
ViewTyped ==
    /\ citedSources \in Seq(SourceRows)
    /\ courtEvents \in Seq(DotRows(DOMAIN citedSources))
    /\ incidents \in Seq(IncidentRows(DOMAIN citedSources))

--------------------------------------------------------------------------------
\* The type invariant of the views, row by row.
LEMMA RowsTyped ==
    /\ View!TypeOK <=> ViewTyped
    /\ View!TypeOK => \A i \in DOMAIN incidents :
          incidents[i] \in IncidentRows(DOMAIN citedSources)
<1>1. View!TypeOK <=> ViewTyped
  BY DEF View!TypeOK, ViewTyped, SourceRows, DotRows, IncidentRows
<1>2. ASSUME ViewTyped, NEW i \in DOMAIN incidents
      PROVE  incidents[i] \in IncidentRows(DOMAIN citedSources)
  BY <1>2, Elements DEF ViewTyped
<1> QED
  BY <1>1, <1>2

LEMMA MappedFinite ==
    ASSUME View!TypeOK
    PROVE  /\ View!Mapped \subseteq Nat /\ IsFiniteSet(View!Mapped)
           /\ Cardinality(View!Mapped) \in 0..Len(courtEvents)
<1> DEFINE n == Len(courtEvents)
<1>1. n \in Nat /\ DOMAIN courtEvents = 1..n
  BY DEF View!TypeOK
<1>2. View!Mapped \subseteq 1..n
  BY <1>1 DEF View!Mapped
<1>3. IsFiniteSet(1..n) /\ Cardinality(1..n) = IF 1 > n THEN 0 ELSE n - 1 + 1
  BY <1>1, FS_Interval
<1>4. IsFiniteSet(View!Mapped) /\ Cardinality(View!Mapped) <= Cardinality(1..n)
  BY <1>2, <1>3, FS_Subset
<1>5. Cardinality(View!Mapped) \in Nat
  BY <1>4, FS_CardinalityType
<1> QED
  BY <1>1, <1>2, <1>3, <1>4, <1>5

\* What a page shows comes from rows of events on the map.
LEMMA PageIsMapped ==
    ASSUME NEW f, NEW l, NEW o, NEW i \in View!Page(f, l, o).ids
    PROVE  i \in View!Mapped
<1>1. PICK r \in View!Slice(View!Rows(f), o, l + 1) : i = r[1]
  BY DEF View!Page
<1>2. r \in View!Rows(f)
  BY <1>1 DEF View!Slice
<1>3. PICK k \in View!Mapped : r \in {k} \X View!Joined(courtEvents[k], f)
  BY <1>2 DEF View!Rows
<1> QED
  BY <1>1, <1>3

\* Without a filter every event has one row, whose place is the event's rank.
LEMMA WindowOfAll ==
    ASSUME View!TypeOK, NEW o, NEW c
    PROVE  View!Slice(View!Rows("all"), o, c)
               = {<<i, 0>> : i \in {k \in View!Mapped : Above(View!Mapped, k) \in o..o + c - 1}}
<1> DEFINE R == View!Rows("all")
           M == View!Mapped
<1>1. R = {<<i, 0>> : i \in M}
  BY DEF View!Rows, View!Joined
<1>2. \A i \in M : View!Before(<<i, 0>>, R) = {<<k, 0>> : k \in {x \in M : x > i}}
  <2> SUFFICES ASSUME NEW i \in M
               PROVE  View!Before(<<i, 0>>, R) = {<<k, 0>> : k \in {x \in M : x > i}}
    OBVIOUS
  <2>1. \A q \in R : \E k \in M : q = <<k, 0>>
    BY <1>1
  <2>2. \A k \in M : <<k, 0>> \in R
    BY <1>1
  <2>3. View!Before(<<i, 0>>, R) = {q \in R : q[1] > i \/ (q[1] = i /\ q[2] < 0)}
    BY DEF View!Before
  <2> HIDE DEF R, M
  <2>4. \A q \in View!Before(<<i, 0>>, R) : \E k \in {x \in M : x > i} : q = <<k, 0>>
    BY <2>1, <2>3
  <2>5. \A k \in {x \in M : x > i} : <<k, 0>> \in View!Before(<<i, 0>>, R)
    BY <2>2, <2>3
  <2> QED
    BY <2>4, <2>5
<1>3. \A i \in M : View!Cardinality(View!Before(<<i, 0>>, R)) = Above(M, i)
  <2> SUFFICES ASSUME NEW i \in M
               PROVE  View!Cardinality(View!Before(<<i, 0>>, R)) = Above(M, i)
    OBVIOUS
  <2> DEFINE A == {x \in M : x > i}
  <2>1. IsFiniteSet(A)
    BY MappedFinite, FS_Subset
  <2>2. View!Cardinality(View!Before(<<i, 0>>, R)) = Cardinality({<<k, 0>> : k \in A})
    BY <1>2, ViewCounts
  <2>3. Cardinality(A) = Above(M, i)
    BY DEF Above
  <2> HIDE DEF A, M, R
  <2> QED
    BY <2>1, <2>2, <2>3, PairedCount
<1>4. View!Slice(R, o, c) = {r \in R : View!Cardinality(View!Before(r, R)) \in o..o + c - 1}
  BY DEF View!Slice
<1> HIDE DEF M, R
<1>5. \A r \in View!Slice(R, o, c) :
          \E i \in {k \in M : Above(M, k) \in o..o + c - 1} : r = <<i, 0>>
  BY <1>1, <1>3, <1>4
<1>6. \A i \in {k \in M : Above(M, k) \in o..o + c - 1} : <<i, 0>> \in View!Slice(R, o, c)
  BY <1>1, <1>3, <1>4
<1>7. View!Slice(R, o, c) = {<<i, 0>> : i \in {k \in M : Above(M, k) \in o..o + c - 1}}
  BY <1>5, <1>6
<1> QED
  BY <1>7 DEF M, R

\* The page at an offset holds the events with the next ranks, and tells whether some are
\* left.
LEMMA PageOfAll ==
    ASSUME View!TypeOK, NEW l \in Nat \ {0}, NEW o \in Nat
    PROVE  /\ View!Page("all", l, o).ids
                   = {i \in View!Mapped : Above(View!Mapped, i) \in o..o + l - 1}
           /\ View!Page("all", l, o).truncated = (Cardinality(View!Mapped) > o + l)
<1> DEFINE M == View!Mapped
           N == Cardinality(M)
           found == {i \in M : Above(M, i) \in o..o + l}
<1>1. M \subseteq Nat /\ IsFiniteSet(M) /\ N \in Nat
  BY MappedFinite, FS_CardinalityType
<1>2. {r[1] : r \in View!Slice(View!Rows("all"), o, l + 1)} = found
  <2>1. View!Slice(View!Rows("all"), o, l + 1)
            = {<<i, 0>> : i \in {k \in M : Above(M, k) \in o..o + (l + 1) - 1}}
    BY WindowOfAll
  <2>2. o + (l + 1) - 1 = o + l
    OBVIOUS
  <2>3. View!Slice(View!Rows("all"), o, l + 1) = {<<i, 0>> : i \in found}
    BY <2>1, <2>2
  <2> HIDE DEF found
  <2>4. \A i \in found : <<i, 0>> \in View!Slice(View!Rows("all"), o, l + 1) /\ <<i, 0>>[1] = i
    BY <2>3
  <2>5. \A r \in View!Slice(View!Rows("all"), o, l + 1) : r[1] \in found
    BY <2>3
  <2> QED
    BY <2>4, <2>5
<1>3. View!Page("all", l, o).ids = {i \in found : Cardinality({k \in found : k > i}) < l}
  BY <1>2, ViewCounts DEF View!Page
<1>4. View!Page("all", l, o).truncated = (Cardinality(found) > l)
  BY <1>2, ViewCounts DEF View!Page
<1>5. \A i \in found : Cardinality({k \in found : k > i}) = Above(M, i) - o
  <2> SUFFICES ASSUME NEW i \in found
               PROVE  Cardinality({k \in found : k > i}) = Above(M, i) - o
    OBVIOUS
  <2> DEFINE b == Above(M, i) - 1
             T == {k \in M : Above(M, k) \in o..b}
  <2>1. i \in M /\ Above(M, i) \in 0..N - 1 /\ Above(M, i) \in o..o + l
    BY <1>1, AboveOrders
  <2>2. b \in Int /\ b < N /\ (o > b <=> Above(M, i) = o) /\ b - o + 1 = Above(M, i) - o
    BY <1>1, <2>1
  <2>3. \A k \in M : Above(M, k) \in 0..N - 1 /\ (k > i <=> Above(M, k) < Above(M, i))
    <3>1. \A k \in M : Above(M, k) \in 0..N - 1 /\ (i < k <=> Above(M, k) < Above(M, i))
      BY <1>1, <2>1, AboveOrders
    <3>2. \A k \in M : k > i <=> i < k
      BY <1>1, <2>1
    <3> QED
      BY <3>1, <3>2
  <2>4. \A k \in M : k \in found /\ k > i <=> k \in T
    <3> SUFFICES ASSUME NEW k \in M PROVE k \in found /\ k > i <=> k \in T
      OBVIOUS
    <3>1. Above(M, k) \in Nat /\ (k > i <=> Above(M, k) < Above(M, i))
      BY <1>1, <2>3
    <3> QED
      BY <1>1, <2>1, <3>1
  <2>5. {k \in found : k > i} = T
    BY <2>4
  <2> HIDE DEF M, N, b
  <2>6. Cardinality(T) = IF o > b THEN 0 ELSE b - o + 1
    BY <1>1, <2>2, RanksCount DEF N
  <2> HIDE DEF T, found
  <2> QED
    BY <2>1, <2>2, <2>5, <2>6
<1>6. \A i \in found : Above(M, i) - o < l <=> Above(M, i) \in o..o + l - 1
  BY <1>1
<1>7. \A i \in M : Above(M, i) \in o..o + l - 1 => i \in found
  BY <1>1
<1>8. View!Page("all", l, o).ids = {i \in M : Above(M, i) \in o..o + l - 1}
  <2> HIDE DEF M, found
  <2>1. found \subseteq M
    BY DEF found
  <2> QED
    BY <1>3, <1>5, <1>6, <1>7, <2>1
<1>9. Cardinality(found) > l <=> N > o + l
  <2>1. CASE N > o + l
    <3> DEFINE b == o + l
    <3>1. b \in Int /\ b < N /\ ~(o > b) /\ b - o + 1 > l
      BY <1>1, <2>1
    <3>2. found = {k \in M : Above(M, k) \in o..b}
      OBVIOUS
    <3> HIDE DEF M, N, b, found
    <3>3. Cardinality(found) = IF o > b THEN 0 ELSE b - o + 1
      BY <1>1, <3>1, <3>2, RanksCount DEF N
    <3> QED
      BY <2>1, <3>1, <3>3
  <2>2. CASE ~(N > o + l)
    <3> DEFINE b == N - 1
    <3>1. b \in Int /\ b < N /\ b - o + 1 <= l
      BY <1>1, <2>2
    <3>2. \A k \in M : Above(M, k) \in 0..N - 1
      BY <1>1, AboveOrders
    <3>3. found = {k \in M : Above(M, k) \in o..b}
      <4>1. \A k \in M : Above(M, k) \in o..o + l <=> Above(M, k) \in o..b
        BY <1>1, <2>2, <3>2
      <4> QED
        BY <4>1
    <3> HIDE DEF M, N, b, found
    <3>4. Cardinality(found) = IF o > b THEN 0 ELSE b - o + 1
      BY <1>1, <3>1, <3>3, RanksCount DEF N
    <3> QED
      BY <2>2, <3>1, <3>4
  <2> QED
    BY <2>1, <2>2
<1> QED
  BY <1>4, <1>8, <1>9

\* The pages before the first that is not truncated are full, and together they hold
\* every rank.
LEMMA PagesHold == View!TypeOK => View!PagesAreWhole
<1> SUFFICES ASSUME View!TypeOK, NEW l \in Limits
             PROVE  \E final \in 0..Len(courtEvents) :
                      /\ \A m \in 0..final :
                            View!Page("all", l, m * l).truncated = (m < final)
                      /\ View!Mapped = UNION {View!Page("all", l, m * l).ids : m \in 0..final}
                      /\ \A m, n \in 0..final : m < n =>
                            \A i \in View!Page("all", l, m * l).ids,
                               k \in View!Page("all", l, n * l).ids : k < i
  BY DEF View!PagesAreWhole
<1> DEFINE M == View!Mapped
           N == Cardinality(M)
           page(m) == View!Page("all", l, m * l)
<1>1. l \in Nat \ {0}
  BY ReviewsAssumption DEF View!PublicViewsAssumption
<1>2. M \subseteq Nat /\ IsFiniteSet(M) /\ N \in 0..Len(courtEvents) /\ Len(courtEvents) \in Nat
  BY MappedFinite DEF View!TypeOK
<1>3. \A m \in Nat : m * l \in Nat
  BY <1>1
<1>4. \A m \in Nat : /\ page(m).ids = {i \in M : Above(M, i) \in m * l..m * l + l - 1}
                     /\ page(m).truncated = (N > m * l + l)
  BY <1>1, <1>3, PageOfAll
<1>5. \A i \in M : Above(M, i) \in 0..N - 1
  BY <1>2, AboveOrders
<1>6. \A i, k \in M : i < k <=> Above(M, k) < Above(M, i)
  BY <1>2, AboveOrders
<1> HIDE DEF M, N, page
<1>7. \E final \in 0..Len(courtEvents) : N <= final * l + l /\ (final = 0 \/ final * l < N)
  <2>1. CASE N = 0
    <3>1. 0 * l = 0
      BY <1>1
    <3> QED
      BY <1>1, <1>2, <2>1, <3>1
  <2>2. CASE N # 0
    <3>1. N - 1 \in Nat
      BY <1>2, <2>2
    <3>2. PICK m \in 0..N - 1 : m * l <= N - 1 /\ N - 1 < m * l + l
      BY <1>1, <3>1, Multiple
    <3>3. m \in 0..Len(courtEvents) /\ m \in Nat
      BY <1>2, <3>1
    <3>4. N <= m * l + l /\ m * l < N
      BY <1>1, <1>2, <1>3, <3>2, <3>3
    <3> QED
      BY <3>3, <3>4
  <2> QED
    BY <2>1, <2>2
<1>8. PICK final \in 0..Len(courtEvents) : N <= final * l + l /\ (final = 0 \/ final * l < N)
  BY <1>7
<1>9. final \in Nat /\ 0..final \subseteq Nat
  BY <1>2
<1>10. \A m, n \in Nat : m < n => m * l + l <= n * l
  BY <1>1, MultiplesGrow
<1>11. ASSUME NEW m \in 0..final PROVE page(m).truncated = (m < final)
  <2>1. m \in Nat /\ m * l \in Nat /\ final * l \in Nat /\ l \in Nat /\ N \in Nat
    BY <1>1, <1>2, <1>3, <1>9
  <2>2. CASE m < final
    <3>1. m * l + l <= final * l /\ final # 0
      BY <1>9, <1>10, <2>1, <2>2
    <3>2. N > m * l + l
      BY <1>8, <2>1, <3>1
    <3> QED
      BY <1>4, <2>1, <2>2, <3>2
  <2>3. CASE ~(m < final)
    <3>1. m = final
      BY <1>9, <2>1, <2>3
    <3>2. ~(N > m * l + l)
      BY <1>8, <2>1, <3>1
    <3> QED
      BY <1>4, <2>1, <2>3, <3>2
  <2> QED
    BY <2>2, <2>3
<1>12. M = UNION {page(m).ids : m \in 0..final}
  <2>1. ASSUME NEW i \in M PROVE \E m \in 0..final : i \in page(m).ids
    <3> DEFINE r == Above(M, i)
    <3>1. r \in Nat /\ r < N
      BY <1>2, <1>5
    <3> HIDE DEF r
    <3>2. PICK m \in 0..r : m * l <= r /\ r < m * l + l
      BY <1>1, <3>1, Multiple
    <3>3. m \in Nat /\ m * l \in Nat /\ final * l \in Nat /\ l \in Nat /\ N \in Nat
      BY <1>1, <1>2, <1>3, <1>9, <3>1
    <3>4. ~(final < m)
      <4> SUFFICES ASSUME final < m PROVE FALSE
        OBVIOUS
      <4>1. final * l + l <= m * l
        BY <1>9, <1>10, <3>3
      <4> QED
        BY <1>8, <3>1, <3>2, <3>3, <4>1
    <3>5. m \in 0..final
      BY <1>9, <3>3, <3>4
    <3>6. r \in m * l..m * l + l - 1
      BY <3>1, <3>2, <3>3
    <3>7. i \in page(m).ids
      BY <1>4, <3>3, <3>6 DEF r
    <3> QED
      BY <3>5, <3>7
  <2>2. \A m \in 0..final : page(m).ids \subseteq M
    BY <1>4, <1>9
  <2> QED
    BY <2>1, <2>2
<1>13. ASSUME NEW m \in 0..final, NEW n \in 0..final, m < n,
              NEW i \in page(m).ids, NEW k \in page(n).ids
       PROVE  k < i
  <2>1. /\ m \in Nat /\ n \in Nat /\ m * l \in Nat /\ n * l \in Nat /\ l \in Nat
        /\ m * l + l <= n * l
    BY <1>1, <1>3, <1>9, <1>10, <1>13
  <2>2. i \in M /\ Above(M, i) \in m * l..m * l + l - 1
    BY <1>4, <2>1
  <2>3. k \in M /\ Above(M, k) \in n * l..n * l + l - 1
    BY <1>4, <2>1
  <2>4. Above(M, i) < Above(M, k)
    BY <2>1, <2>2, <2>3
  <2> QED
    BY <1>6, <2>2, <2>3, <2>4
<1> QED
  BY <1>11, <1>12, <1>13 DEF M, page

\* The list of cases is whole or full.
LEMMA CasesListed ==
    ASSUME View!TypeOK
    PROVE  View!CaseList = View!Cases \/ View!Cardinality(View!CaseList) = CaseLimit
<1> DEFINE C == View!Cases
           N == Cardinality(C)
           n == Len(courtEvents)
           cases == [i \in 1..n |-> courtEvents[i].case]
<1>0. CaseLimit \in Nat \ {0}
  BY ReviewsAssumption DEF View!PublicViewsAssumption
<1>1. n \in Nat /\ DOMAIN courtEvents = 1..n
  BY DEF View!TypeOK
<1>2. \A i \in 1..n : courtEvents[i].case \in Nat
  <2>1. \A i \in DOMAIN courtEvents : courtEvents[i] \in DotRows(DOMAIN citedSources)
    BY RowsTyped, Elements DEF ViewTyped
  <2> QED
    BY <1>1, <2>1 DEF DotRows
<1>3. C \subseteq Nat
  BY <1>1, <1>2 DEF View!Cases
<1>4. IsFiniteSet(C)
  <2> DEFINE P == {j \in DOMAIN courtEvents : View!IsPublic(courtEvents[j])}
             f == [j \in P |-> courtEvents[j].case]
  <2>1. IsFiniteSet(P)
    <3>1. IsFiniteSet(1..n)
      BY <1>1, FS_Interval
    <3>2. P \subseteq 1..n
      BY <1>1
    <3> QED
      BY <3>1, <3>2, FS_Subset
  <2>2. f \in Surjection(P, C)
    BY DEF View!Cases, Surjection
  <2> QED
    BY <2>1, <2>2, FS_Surjection
<1>5. N \in Nat /\ \A c \in C : Above(C, c) \in 0..N - 1
  BY <1>3, <1>4, AboveOrders, FS_CardinalityType
<1>6. View!CaseList = {c \in C : Above(C, c) < CaseLimit}
  BY ViewCounts DEF View!CaseList, Above
<1> HIDE DEF C, N
<1>7. CASE N <= CaseLimit
  <2>1. \A c \in C : Above(C, c) < CaseLimit
    BY <1>0, <1>5, <1>7
  <2> QED
    BY <1>6, <2>1 DEF C
<1>8. CASE N > CaseLimit
  <2> DEFINE b == CaseLimit - 1
  <2>1. b \in Int /\ b < N /\ ~(0 > b) /\ b - 0 + 1 = CaseLimit
    BY <1>0, <1>5, <1>8
  <2>2. View!CaseList = {c \in C : Above(C, c) \in 0..b}
    BY <1>0, <1>5, <1>6
  <2> HIDE DEF b
  <2>3. Cardinality(View!CaseList) = IF 0 > b THEN 0 ELSE b - 0 + 1
    BY <1>3, <1>4, <1>5, <2>1, <2>2, RanksCount DEF N
  <2> QED
    BY <2>1, <2>3, ViewCounts
<1> QED
  BY <1>0, <1>5, <1>7, <1>8

\* The event of a page is public and mapped, its judge and its case have their pages.
LEMMA DotsHold == View!TypeOK => View!DotsResolve
<1> SUFFICES ASSUME View!TypeOK, NEW f, NEW l, NEW o, NEW i \in View!Page(f, l, o).ids
             PROVE  /\ View!IsPublic(courtEvents[i]) /\ courtEvents[i].place = "mapped"
                    /\ courtEvents[i].judge \in View!Judges \cup {View!NoJudge}
                    /\ courtEvents[i].case \in View!Cases
                    /\ \/ courtEvents[i].case \in View!CaseList
                       \/ View!Cardinality(View!CaseList) = CaseLimit
  BY DEF View!DotsResolve
<1>1. i \in DOMAIN courtEvents /\ View!OnMap(courtEvents[i])
  BY PageIsMapped DEF View!Mapped
<1>2. courtEvents[i].case \in View!Cases
  BY <1>1 DEF View!OnMap, View!Cases
<1>3. courtEvents[i].judge \in View!Judges \cup {View!NoJudge}
  BY <1>1 DEF View!OnMap, View!Judges
<1> QED
  BY <1>1, <1>2, <1>3, CasesListed DEF View!OnMap

\* What the detail of an incident adds to its panel.
LEMMA DetailCounts ==
    ASSUME View!TypeOK, NEW i \in DOMAIN incidents
    PROVE  LET r == incidents[i] IN
           View!Cardinality(View!IncidentDetail(r)) =
             IF View!PublicSources(r) # {} /\ View!PublicSources(r) = View!NewsOf(r) /\ r.url
             THEN View!IncidentCount(r) + 1 ELSE View!IncidentCount(r)
<1> DEFINE r == incidents[i]
           P == View!PublicSources(r)
           named == {<<"source", j>> : j \in P}
           falls == r.url /\ P \subseteq View!NewsOf(r)
<1>1. r.url \in BOOLEAN /\ r.sources \subseteq DOMAIN citedSources
  BY RowsTyped DEF IncidentRows
<1>2. IsFiniteSet(P)
  <2>1. P \subseteq DOMAIN citedSources
    BY <1>1 DEF View!PublicSources
  <2>2. IsFiniteSet(DOMAIN citedSources)
    BY IndicesFinite DEF View!TypeOK
  <2> QED
    BY <2>1, <2>2, FS_Subset
<1>3. View!NewsOf(r) \subseteq P
  BY DEF View!NewsOf
<1>4. View!IncidentDetail(r) = IF falls THEN named \cup {<<"own", TRUE>>} ELSE named
  BY DEF View!IncidentDetail
<1>5. View!IncidentCount(r) = IF P # {} THEN Cardinality(P) ELSE IF r.url THEN 1 ELSE 0
  BY ViewCounts DEF View!IncidentCount
<1> HIDE DEF P
<1>6. IsFiniteSet(named) /\ Cardinality(named) = Cardinality(P) /\ Cardinality(P) \in Nat
  BY <1>2, PairsCount, FS_CardinalityType
<1>7. <<"own", TRUE>> \notin named
  OBVIOUS
<1>8. Cardinality(named \cup {<<"own", TRUE>>}) = Cardinality(P) + 1
  <2> HIDE DEF named
  <2> QED
    BY <1>6, <1>7, FS_AddElement
<1>9. P = {} => Cardinality(P) = 0
  BY FS_EmptySet
<1>10. falls <=> r.url /\ P = View!NewsOf(r)
  BY <1>3
<1> HIDE DEF named, falls, r
<1>11. Cardinality(View!IncidentDetail(r)) =
         IF P # {} /\ P = View!NewsOf(r) /\ r.url
         THEN View!IncidentCount(r) + 1 ELSE View!IncidentCount(r)
  <2>1. CASE falls /\ P # {}
    BY <1>4, <1>5, <1>8, <1>10, <2>1
  <2>2. CASE falls /\ P = {}
    BY <1>4, <1>5, <1>8, <1>9, <1>10, <2>2
  <2>3. CASE ~falls /\ P # {}
    BY <1>4, <1>5, <1>6, <1>10, <2>3
  <2>4. CASE ~falls /\ P = {}
    <3>1. ~r.url
      BY <1>3, <1>10, <2>4
    <3> QED
      BY <1>4, <1>5, <1>6, <1>9, <2>4, <3>1
  <2> QED
    BY <2>1, <2>2, <2>3, <2>4
<1> QED
  BY <1>11, ViewCounts DEF r, P

LEMMA CountsHold == View!TypeOK => View!CountsAgree
<1> SUFFICES ASSUME View!TypeOK PROVE View!CountsAgree
  OBVIOUS
<1>1. \A e : View!NewsOf(e) \subseteq View!PublicSources(e)
  BY DEF View!NewsOf
<1>2. \A e : View!EventPanel(e) = View!EventDetail(e)
  BY <1>1 DEF View!EventPanel, View!EventDetail
<1> QED
  BY <1>2, DetailCounts DEF View!CountsAgree

LEMMA ViewIsSafe == ViewInv => View!PublicViewsSafe
<1> SUFFICES ASSUME ViewInv PROVE View!PublicViewsSafe
  OBVIOUS
<1>1. View!TypeOK
  BY DEF ViewInv
<1>2. View!ShownIsReviewed
  <2>1. ASSUME NEW i \in DOMAIN incidents, View!IsPublic(incidents[i]), ~incidents[i].snapshot
        PROVE  /\ incidents[i].status = View!MachineApproved /\ incidents[i].url
               /\ View!Imported(incidents[i])
    BY <2>1 DEF ViewInv, Vouched, View!IsPublic
  <2>2. ASSUME NEW i \in DOMAIN incidents, View!IncidentOnMap(incidents[i])
        PROVE  View!Imported(incidents[i])
    <3>1. incidents[i].precision \in View!Precisions
      BY <1>1, RowsTyped DEF IncidentRows
    <3> QED
      BY <2>2, <3>1 DEF View!IncidentOnMap, View!IncidentInQuery, View!Precisions, View!Imported
  <2> QED
    BY <2>1, <2>2 DEF View!ShownIsReviewed
<1> QED
  BY <1>1, <1>2, DotsHold, PagesHold, CountsHold DEF View!PublicViewsSafe

--------------------------------------------------------------------------------
\* A sequence of rows after one was changed.
LEMMA RowChanged ==
    ASSUME NEW S, NEW q \in Seq(S), NEW i \in DOMAIN q, NEW x \in S
    PROVE  /\ [q EXCEPT ![i] = x] \in Seq(S)
           /\ DOMAIN [q EXCEPT ![i] = x] = DOMAIN q
           /\ [q EXCEPT ![i] = x][i] = x
           /\ \A k \in DOMAIN q : k # i => [q EXCEPT ![i] = x][k] = q[k]
  OBVIOUS

LEMMA ViewInit == View!Init => ViewInv
<1> SUFFICES ASSUME View!Init PROVE ViewInv
  OBVIOUS
<1>1. citedSources = <<>> /\ courtEvents = <<>> /\ incidents = <<>>
  BY DEF View!Init
<1> QED
  BY <1>1 DEF ViewInv, View!TypeOK

\* Rows of events and incidents stay rows when more can be linked.
LEMMA LinksGrow ==
    ASSUME NEW S, NEW T, S \subseteq T
    PROVE  DotRows(S) \subseteq DotRows(T) /\ IncidentRows(S) \subseteq IncidentRows(T)
<1>1. SUBSET S \subseteq SUBSET T
  OBVIOUS
<1> QED
  BY <1>1 DEF DotRows, IncidentRows

LEMMA AddSourceInv ==
    ASSUME ViewInv, NEW t \in SourceTypes, View!AddSource(t)
    PROVE  ViewInv'
<1> DEFINE row == [type |-> t, status |-> "pending_review", public |-> FALSE]
<1>1. /\ citedSources' = Append(citedSources, row)
      /\ courtEvents' = courtEvents /\ incidents' = incidents
  BY DEF View!AddSource
<1>2. ViewTyped /\ row \in SourceRows
  BY RowsTyped DEF ViewInv, SourceRows, View!Statuses
<1> HIDE DEF row
<1>3. citedSources' \in Seq(SourceRows) /\ DOMAIN citedSources \subseteq DOMAIN citedSources'
  BY <1>1, <1>2, Appended DEF ViewTyped
<1>4. courtEvents' \in Seq(DotRows(DOMAIN citedSources'))
  BY <1>1, <1>2, <1>3, LinksGrow, Elements DEF ViewTyped
<1>5. incidents' \in Seq(IncidentRows(DOMAIN citedSources'))
  <2>1. IncidentRows(DOMAIN citedSources) \subseteq IncidentRows(DOMAIN citedSources')
    BY <1>3, LinksGrow
  <2>2. incidents \in Seq(IncidentRows(DOMAIN citedSources'))
    BY <1>2, <2>1, Elements DEF ViewTyped
  <2> QED
    BY <1>1, <2>2
<1>6. View!TypeOK'
  BY <1>3, <1>4, <1>5, RowsTyped DEF ViewTyped, View!TypeOK, SourceRows, DotRows, IncidentRows
<1> QED
  BY <1>1, <1>6 DEF ViewInv

LEMMA AddEventInv ==
    ASSUME ViewInv, NEW f \in EventForms, NEW S \in SUBSET DOMAIN citedSources,
           View!AddEvent(f, S)
    PROVE  ViewInv'
<1> DEFINE row == [place |-> f.place, judge |-> f.judge, case |-> f.case, sources |-> S,
                   status |-> "pending_review", public |-> FALSE]
<1>1. /\ courtEvents' = Append(courtEvents, row)
      /\ citedSources' = citedSources /\ incidents' = incidents
  BY DEF View!AddEvent
<1>2. f \in [place : View!Places, judge : Nat, case : Nat]
  BY ReviewsAssumption DEF View!PublicViewsAssumption
<1>3. ViewTyped /\ row \in DotRows(DOMAIN citedSources)
  BY <1>2, RowsTyped DEF ViewInv, DotRows, View!Statuses
<1> HIDE DEF row
<1>4. /\ courtEvents' \in Seq(DotRows(DOMAIN citedSources'))
      /\ DOMAIN courtEvents \subseteq DOMAIN courtEvents'
  BY <1>1, <1>3, Appended DEF ViewTyped
<1>5. incidents' \in Seq(IncidentRows(DOMAIN citedSources'))
  BY <1>1, <1>3 DEF ViewTyped
<1>6. View!TypeOK'
  BY <1>1, <1>3, <1>4, <1>5 DEF ViewTyped, View!TypeOK, SourceRows, DotRows, IncidentRows
<1> QED
  BY <1>1, <1>6 DEF ViewInv

LEMMA FormTyped ==
    ASSUME NEW f \in IncidentForms
    PROVE  /\ f \in [placed : BOOLEAN, precision : View!Precisions, url : BOOLEAN,
                      snapshot : BOOLEAN, review : View!Reviews]
           /\ f.review = "publish" => View!Imported(f) /\ f.url
           /\ View!Suggested(f) \in View!Statuses
           /\ f.review = "publish" => View!Suggested(f) = View!MachineApproved
  BY ReviewsAssumption DEF View!PublicViewsAssumption, View!Suggested, View!Statuses, View!Published

\* The incidents with one row put in place or at the end.
LEMMA IncidentPut ==
    ASSUME ViewInv, UNCHANGED <<citedSources, courtEvents>>,
           NEW x \in IncidentRows(DOMAIN citedSources), Vouched(x),
           \/ incidents' = Append(incidents, x)
           \/ \E i \in DOMAIN incidents : incidents' = [incidents EXCEPT ![i] = x]
    PROVE  ViewInv'
<1> DEFINE S == IncidentRows(DOMAIN citedSources)
<1>1. ViewTyped /\ incidents \in Seq(S)
  BY RowsTyped DEF ViewInv, ViewTyped
<1> HIDE DEF S
<1>2. incidents' \in Seq(S) /\ \A k \in DOMAIN incidents' : Vouched(incidents'[k])
  <2>0. x \in S /\ \A k \in DOMAIN incidents : Vouched(incidents[k])
    BY DEF S, ViewInv
  <2>1. CASE incidents' = Append(incidents, x)
    <3>1. /\ incidents' \in Seq(S)
          /\ DOMAIN incidents' = DOMAIN incidents \cup {Len(incidents) + 1}
          /\ incidents'[Len(incidents) + 1] = x
          /\ \A k \in DOMAIN incidents : incidents'[k] = incidents[k]
      BY <1>1, <2>0, <2>1, Appended
    <3> QED
      BY <2>0, <3>1
  <2>2. CASE \E i \in DOMAIN incidents : incidents' = [incidents EXCEPT ![i] = x]
    <3>1. PICK i \in DOMAIN incidents : incidents' = [incidents EXCEPT ![i] = x]
      BY <2>2
    <3>2. /\ incidents' \in Seq(S) /\ DOMAIN incidents' = DOMAIN incidents
          /\ incidents'[i] = x
          /\ \A k \in DOMAIN incidents : k # i => incidents'[k] = incidents[k]
      BY <1>1, <2>0, <3>1, RowChanged
    <3> QED
      BY <2>0, <3>2
  <2> QED
    BY <2>1, <2>2
<1>3. View!TypeOK'
  BY <1>1, <1>2 DEF S, ViewTyped, View!TypeOK, SourceRows, DotRows, IncidentRows
<1> QED
  BY <1>2, <1>3 DEF ViewInv, Vouched

LEMMA AddIncidentInv ==
    ASSUME ViewInv, NEW f \in IncidentForms, NEW S \in SUBSET DOMAIN citedSources,
           View!AddIncident(f, S)
    PROVE  ViewInv'
<1> DEFINE x == [placed |-> f.placed, precision |-> f.precision, url |-> f.url,
                 snapshot |-> f.snapshot /\ f.review # "block", sources |-> S,
                 status |-> View!Suggested(f), public |-> f.review = "publish"]
<1>1. incidents' = Append(incidents, x) /\ UNCHANGED <<citedSources, courtEvents>>
  BY DEF View!AddIncident
<1>2. x \in IncidentRows(DOMAIN citedSources)
  <2>1. (f.snapshot /\ f.review # "block") \in BOOLEAN /\ (f.review = "publish") \in BOOLEAN
    OBVIOUS
  <2> QED
    BY <2>1, FormTyped DEF IncidentRows
<1>3. Vouched(x)
  BY FormTyped DEF Vouched, View!Imported
<1> HIDE DEF x
<1> QED
  BY <1>1, <1>2, <1>3, IncidentPut

\* A record stored before is published again only as auto_review publishes.
LEMMA ReimportInv ==
    ASSUME ViewInv, NEW f \in IncidentForms, NEW i \in DOMAIN incidents, NEW changed,
           View!Reimport(i, f, changed)
    PROVE  ViewInv'
<1>1. PICK x : x = View!Refreshed(incidents[i], f, changed)
  OBVIOUS
<1>2. incidents' = [incidents EXCEPT ![i] = x] /\ UNCHANGED <<citedSources, courtEvents>>
  BY <1>1 DEF View!Reimport
<1>3. PICK reset : /\ reset = (f.review # "block" /\ (changed \/ incidents[i].status = "rejected"))
                   /\ reset \in BOOLEAN
  OBVIOUS
<1>4. PICK status, public :
         /\ status = IF reset THEN View!Suggested(f)
                     ELSE IF f.review = "hold" /\ incidents[i].status = View!MachineApproved
                          THEN "pending_review" ELSE incidents[i].status
         /\ public = (reset /\ f.review = "publish")
         /\ public \in BOOLEAN
  OBVIOUS
<1>5. x = [incidents[i] EXCEPT !.placed = f.placed, !.precision = f.precision, !.url = f.url,
                               !.public = public, !.status = status]
  BY <1>1, <1>3, <1>4, Zenon DEF View!Refreshed
<1>6. incidents[i] \in IncidentRows(DOMAIN citedSources)
  BY RowsTyped DEF ViewInv
<1>7. status \in View!Statuses
  BY <1>4, <1>6, FormTyped DEF IncidentRows, View!Statuses
<1>8. x \in IncidentRows(DOMAIN citedSources)
  BY <1>4, <1>5, <1>6, <1>7, FormTyped DEF IncidentRows
<1>9. x.public = public /\ x.status = status /\ x.url = f.url /\ x.placed = f.placed
      /\ x.precision = f.precision
  BY <1>5, <1>6 DEF IncidentRows
<1>10. Vouched(x)
  BY <1>4, <1>9, FormTyped DEF Vouched, View!Imported
<1> QED
  BY <1>2, <1>8, <1>10, IncidentPut

\* A row with another status and visibility.
LEMMA SourceDecided ==
    ASSUME NEW status \in View!Statuses, NEW public \in BOOLEAN, NEW r \in SourceRows
    PROVE  [r EXCEPT !.status = status, !.public = public] \in SourceRows
  BY DEF SourceRows

LEMMA EventDecided ==
    ASSUME NEW status \in View!Statuses, NEW public \in BOOLEAN, NEW S, NEW r \in DotRows(S)
    PROVE  [r EXCEPT !.status = status, !.public = public] \in DotRows(S)
  BY DEF DotRows

LEMMA IncidentDecided ==
    ASSUME NEW status \in View!Statuses, NEW public \in BOOLEAN, NEW S,
           NEW r \in IncidentRows(S), public => r.snapshot
    PROVE  LET x == [r EXCEPT !.status = status, !.public = public]
           IN  x \in IncidentRows(S) /\ Vouched(x)
  BY DEF IncidentRows, Vouched

\* A decision or a retraction changes one row, and publishes an incident only with a
\* snapshot.
LEMMA DecideInv ==
    ASSUME ViewInv, NEW i,
           \/ \E d \in Chosen : \/ i \in DOMAIN citedSources /\ View!DecideSource(i, d)
                                \/ i \in DOMAIN courtEvents /\ View!DecideEvent(i, d)
                                \/ i \in DOMAIN incidents /\ View!DecideIncident(i, d)
           \/ i \in DOMAIN citedSources /\ View!Retract(i)
    PROVE  ViewInv'
<1>1. ViewTyped
  BY RowsTyped DEF ViewInv
<1>2. Chosen \subseteq View!Statuses /\ "removed_from_public" \in View!Statuses
  BY ReviewsAssumption DEF View!PublicViewsAssumption, View!Statuses
<1>3. ASSUME NEW x \in SourceRows, i \in DOMAIN citedSources,
             citedSources' = [citedSources EXCEPT ![i] = x],
             UNCHANGED <<courtEvents, incidents>>
      PROVE  ViewInv'
  <2>1. citedSources' \in Seq(SourceRows) /\ DOMAIN citedSources' = DOMAIN citedSources
    BY <1>1, <1>3, RowChanged DEF ViewTyped
  <2> QED
    BY <1>1, <1>3, <2>1 DEF ViewInv, ViewTyped, View!TypeOK, SourceRows, DotRows, IncidentRows
<1>4. ASSUME NEW d \in Chosen, i \in DOMAIN citedSources, View!DecideSource(i, d)
      PROVE  ViewInv'
  <2>0. d \in View!Statuses /\ (d \in View!Published) \in BOOLEAN
    BY <1>2
  <2> DEFINE x == [citedSources[i] EXCEPT !.status = d, !.public = d \in View!Published]
  <2>1. citedSources[i] \in SourceRows
    BY <1>1, <1>4, Elements DEF ViewTyped
  <2>2. x \in SourceRows
    BY <1>2, <2>0, <2>1, SourceDecided
  <2>3. citedSources' = [citedSources EXCEPT ![i] = x] /\ UNCHANGED <<courtEvents, incidents>>
    BY <1>4 DEF View!DecideSource, View!Decided
  <2> QED
    BY <1>3, <1>4, <2>2, <2>3
<1>5. ASSUME i \in DOMAIN citedSources, View!Retract(i) PROVE ViewInv'
  <2> DEFINE x == [citedSources[i] EXCEPT !.status = "removed_from_public", !.public = FALSE]
  <2>1. citedSources[i] \in SourceRows
    BY <1>1, <1>5, Elements DEF ViewTyped
  <2>2. x \in SourceRows
    BY <1>2, <2>1, SourceDecided
  <2>3. citedSources' = [citedSources EXCEPT ![i] = x] /\ UNCHANGED <<courtEvents, incidents>>
    BY <1>5 DEF View!Retract
  <2> QED
    BY <1>3, <1>5, <2>2, <2>3
<1>6. ASSUME NEW d \in Chosen, i \in DOMAIN courtEvents, View!DecideEvent(i, d)
      PROVE  ViewInv'
  <2>0. d \in View!Statuses /\ (d \in View!Published) \in BOOLEAN
    BY <1>2
  <2> DEFINE x == [courtEvents[i] EXCEPT !.status = d, !.public = d \in View!Published]
             S == DotRows(DOMAIN citedSources)
  <2>1. courtEvents[i] \in S
    BY <1>1, <1>6, Elements DEF ViewTyped
  <2>2. x \in S
    BY <1>2, <2>0, <2>1, EventDecided
  <2>3. courtEvents' = [courtEvents EXCEPT ![i] = x] /\ UNCHANGED <<citedSources, incidents>>
    BY <1>6 DEF View!DecideEvent, View!Decided
  <2>4. courtEvents \in Seq(S)
    BY <1>1 DEF ViewTyped
  <2> HIDE DEF x, S
  <2>5. courtEvents' \in Seq(S) /\ DOMAIN courtEvents' = DOMAIN courtEvents
    BY <1>6, <2>2, <2>3, <2>4, RowChanged
  <2> QED
    BY <1>1, <2>3, <2>5
       DEF S, ViewInv, ViewTyped, View!TypeOK, SourceRows, DotRows, IncidentRows
<1>7. ASSUME NEW d \in Chosen, i \in DOMAIN incidents, View!DecideIncident(i, d)
      PROVE  ViewInv'
  <2>0. d \in View!Statuses /\ (d \in View!Published) \in BOOLEAN
    BY <1>2
  <2> DEFINE x == [incidents[i] EXCEPT !.status = d, !.public = d \in View!Published]
  <2>1. incidents[i] \in IncidentRows(DOMAIN citedSources)
    BY <1>7, RowsTyped DEF ViewInv
  <2>2. x \in IncidentRows(DOMAIN citedSources) /\ Vouched(x)
    <3>1. d \in View!Published => incidents[i].snapshot
      BY <1>7 DEF View!DecideIncident
    <3> QED
      BY <1>2, <2>0, <2>1, <3>1, IncidentDecided
  <2>3. incidents' = [incidents EXCEPT ![i] = x] /\ UNCHANGED <<citedSources, courtEvents>>
    BY <1>7 DEF View!DecideIncident, View!Decided
  <2> HIDE DEF x
  <2> QED
    BY <1>7, <2>2, <2>3, IncidentPut
<1> QED
  BY <1>4, <1>5, <1>6, <1>7

LEMMA ViewNext == ViewInv /\ [View!Next]_viewVars => ViewInv'
<1> SUFFICES ASSUME ViewInv, [View!Next]_viewVars
             PROVE  ViewInv'
  OBVIOUS
<1>1. CASE UNCHANGED viewVars
  BY <1>1 DEF viewVars, ViewInv, View!TypeOK, Vouched
<1>2. CASE View!Next
  BY <1>2, AddSourceInv, AddEventInv, AddIncidentInv, ReimportInv, DecideInv DEF View!Next
<1> QED
  BY <1>1, <1>2

--------------------------------------------------------------------------------
(* EntityGraph: the searches.                                                 *)

LEMMA GraphAssumed ==
    ASSUME ReviewsAssumption
    PROVE  /\ ValidFroms \subseteq Nat /\ Depths \subseteq 1..5
           /\ EdgeLimit \in Nat \ {0}
  BY DEF ReviewsAssumption, Graph!EntityGraphAssumption

\* How long the path of the k-th entry of a search's queue is.
Hops(s, k) == Len(s.queue[k].path)

WasRead(s, x) == s.read[x] # Graph!Unread

\* Breadth first: the queue grows by at most one edge from its head to its end, what was
\* read lies before it and what was found no more than one edge beyond it.
InOrder(s) ==
    /\ \A j, k \in DOMAIN s.queue : (j < k => Hops(s, j) <= Hops(s, k)) /\ Hops(s, k) <= Hops(s, j) + 1
    /\ \A k \in DOMAIN s.queue : Hops(s, k) <= s.depth
    /\ \A x \in Nodes : WasRead(s, x) =>
           s.read[x] < s.depth /\ \A k \in DOMAIN s.queue : s.read[x] <= Hops(s, k)
    /\ \A f \in DOMAIN s.found :
           Len(s.found[f]) <= s.depth /\ \A k \in DOMAIN s.queue : Len(s.found[f]) <= Hops(s, k) + 1
    /\ \A f, g \in DOMAIN s.found : f < g => Len(s.found[f]) <= Len(s.found[g])

\* A node has been read within l edges, or waits for it, or l is beyond the depth.
Scheduled(s, y, l) ==
    \/ s.depth <= l
    \/ s.read[y] <= l
    \/ \E k \in DOMAIN s.queue : s.queue[k].node = y /\ Hops(s, k) <= l

Steady(s) == s.quiet /\ (s.by = "engine" => Graph!Narrow)

\* The neighbours of what was read are scheduled, and a row at the target was found.
Covered(s) ==
    /\ Scheduled(s, s.from, 0)
    /\ Steady(s) => \A x, y \in Nodes : WasRead(s, x) /\ Graph!Linked(x, y) =>
           IF y = s.to THEN s.found # <<>> /\ Len(s.found[1]) <= s.read[x] + 1
           ELSE Scheduled(s, y, s.read[x] + 1)

\* What the service has met it has read, or has queued once, or is beyond the depth.
MetOnce(s) ==
    /\ \A k \in DOMAIN s.queue : s.queue[k].node \in s.met /\ ~WasRead(s, s.queue[k].node)
    /\ \A j, k \in DOMAIN s.queue : s.queue[j].node = s.queue[k].node => j = k
    /\ \A x \in Nodes : WasRead(s, x) => x \in s.met
    /\ \A y \in s.met : \/ WasRead(s, y)
                        \/ \E k \in DOMAIN s.queue : s.queue[k].node = y
                        \/ \A k \in DOMAIN s.queue : s.depth <= Hops(s, k)

\* A path from n to m whose nodes before m are distinct and in R.
TrailIn(E, p, n, m, R) ==
    \E w \in [0..Len(p) -> Nodes] :
        /\ w[0] = n /\ w[Len(p)] = m
        /\ \A j \in 0..(Len(p) - 1) : w[j] \in R /\ \A k \in 0..(Len(p) - 1) : w[j] = w[k] => j = k
        /\ \A k \in DOMAIN p : {w[k - 1], w[k]} = {E[p[k]].s, E[p[k]].o}
Trail(p, n, m, R) == TrailIn(edges, p, n, m, R)

AliveIn(E, p) == \A j \in DOMAIN p : E[p[j]].status = "active"
Alive(p)      == AliveIn(edges, p)

AllRead(s) == {x \in Nodes : WasRead(s, x)}

\* The nodes of a path have been read, but for its last, and none of them is the target.
Trails(s) ==
    s.from # s.to =>
        /\ ~WasRead(s, s.to)
        /\ s.by = "service" => s.to \notin s.met
        /\ \A k \in DOMAIN s.queue :
              /\ s.queue[k].node # s.to
              /\ Trail(s.queue[k].path, s.from, s.queue[k].node, AllRead(s))
              /\ s.quiet => Alive(s.queue[k].path)
        /\ \A f \in DOMAIN s.found :
              /\ Trail(s.found[f], s.from, s.to, AllRead(s))
              /\ s.quiet => Alive(s.found[f])

SearchInv(s) ==
    InOrder(s) /\ Covered(s) /\ (s.by = "service" => MetOnce(s)) /\ Trails(s)

\* The rounds of a neighbourhood query: what is reached in fewer steps than rounds are over
\* has been seen, what is reached in as many is seen or in the frontier, and everything
\* seen is near.
Plain == \A i \in DOMAIN edges : edges[i].s[2] = edges[i].o[2] => edges[i].s = edges[i].o
Walks(n, m, k) ==
    \E w \in [0..k -> Nodes] :
        w[0] = n /\ w[k] = m /\ \A j \in 1..k : Graph!Linked(w[j - 1], w[j])

NearInv(s) ==
    /\ s.rounds <= s.depth
    /\ s.rounds = s.depth => s.next = {}
    /\ s.quiet =>
        /\ \A x \in s.seen \cup s.frontier : \E k \in 0..s.rounds : Walks(s.node, x, k)
        /\ \A x \in s.next : \E k \in 0..(s.rounds + 1) : Walks(s.node, x, k)
        /\ \A i \in s.kept : \E x \in Nodes :
              i \in Graph!Touching(x) /\ Graph!Reaches(s.node, x, s.depth - 1)
        /\ Graph!Narrow =>
            /\ \A x \in s.seen : Graph!Touching(x) \subseteq s.kept
            /\ Plain =>
                /\ \A k \in 0..s.rounds, x \in Nodes : Walks(s.node, x, k) =>
                      x \in s.seen \cup s.frontier /\ (k < s.rounds => x \in s.seen)
                /\ \A x \in s.seen, y \in Nodes :
                      Graph!Linked(x, y) => y \in s.seen \cup s.frontier \cup s.next

GraphInv ==
    /\ Graph!TypeOK
    /\ search # None => SearchInv(search)
    /\ nearby # None => NearInv(nearby)

Entries == [node : Nodes, path : Seq(DOMAIN edges)]
Searches ==
    [by : {"service", "engine"}, from : Nodes, to : Nodes, depth : Depths,
     queue : Seq(Entries), met : SUBSET Nodes,
     read : [Nodes -> 0..Graph!Unread], found : Seq(Seq(DOMAIN edges)), quiet : BOOLEAN]

\* A queue q loses its head and gains the entries Q: it becomes r.
Moved(q, r, k)    == k + 1 \in DOMAIN q /\ r[k] = q[k + 1]
Added(q, Q, r, k) == \E j \in DOMAIN Q : j \in Nat /\ r[k] = Q[j] /\ k = (Len(q) - 1) + j

LEMMA Spliced ==
    ASSUME NEW S, NEW q \in Seq(S), q # <<>>, NEW Q \in Seq(S), NEW r, r = Tail(q) \o Q
    PROVE  /\ r \in Seq(S)
           /\ 1 \in DOMAIN q /\ Head(q) = q[1] /\ \A k \in DOMAIN q : k \in Nat /\ 1 <= k /\ k <= Len(q)
           /\ Len(q) \in Nat
           /\ \A k \in DOMAIN r : k \in Nat /\ (Moved(q, r, k) \/ Added(q, Q, r, k))
           /\ \A k \in DOMAIN q : k # 1 =>
                k - 1 \in DOMAIN r /\ r[k - 1] = q[k]
           /\ \A k \in DOMAIN Q :
                /\ (Len(q) - 1) + k \in DOMAIN r
                /\ r[(Len(q) - 1) + k] = Q[k]
<1>1. /\ Tail(q) \in Seq(S) /\ Len(Tail(q)) = Len(q) - 1 /\ Len(q) \in Nat /\ Len(q) >= 1
      /\ \A i \in 1..Len(Tail(q)) : Tail(q)[i] = q[i + 1]
  BY HeadTailProperties, EmptySeq, LenProperties
<1>2. DOMAIN q = 1..Len(q) /\ DOMAIN Q = 1..Len(Q) /\ Len(Q) \in Nat
  BY LenProperties
<1>3. /\ r \in Seq(S) /\ Len(r) = (Len(q) - 1) + Len(Q)
      /\ \A i \in 1..((Len(q) - 1) + Len(Q)) :
            r[i] = IF i <= Len(q) - 1 THEN Tail(q)[i] ELSE Q[i - (Len(q) - 1)]
  BY <1>1, ConcatProperties
<1>4. DOMAIN r = 1..((Len(q) - 1) + Len(Q))
  BY <1>3, LenProperties
<1>5. Head(q) = q[1]
  OBVIOUS
<1>6. ASSUME NEW k \in DOMAIN r
      PROVE  k \in Nat /\ (Moved(q, r, k) \/ Added(q, Q, r, k))
  <2>1. CASE k <= Len(q) - 1
    BY <1>1, <1>2, <1>3, <1>4, <2>1 DEF Moved
  <2>2. CASE ~(k <= Len(q) - 1)
    <3>1. /\ k - (Len(q) - 1) \in DOMAIN Q /\ r[k] = Q[k - (Len(q) - 1)]
          /\ k = (Len(q) - 1) + (k - (Len(q) - 1)) /\ k \in Nat /\ k - (Len(q) - 1) \in Nat
      BY <1>1, <1>2, <1>3, <1>4, <2>2
    <3> QED
      BY <3>1 DEF Added
  <2> QED
    BY <2>1, <2>2
<1>7. ASSUME NEW k \in DOMAIN q, k # 1
      PROVE  k - 1 \in DOMAIN r /\ r[k - 1] = q[k]
  BY <1>1, <1>2, <1>3, <1>4, <1>7
<1>8. ASSUME NEW k \in DOMAIN Q
      PROVE  (Len(q) - 1) + k \in DOMAIN r /\ r[(Len(q) - 1) + k] = Q[k]
  <2>1. (Len(q) - 1) + k \in DOMAIN r /\ ~((Len(q) - 1) + k <= Len(q) - 1)
        /\ ((Len(q) - 1) + k) - (Len(q) - 1) = k
    BY <1>1, <1>2, <1>4
  <2> QED
    BY <1>3, <1>4, <2>1
<1> QED
  BY <1>1, <1>2, <1>3, <1>5, <1>6, <1>7, <1>8

\* A list q gains the elements Q at its end: it becomes r.
Stays(q, r, k)     == k \in DOMAIN q /\ r[k] = q[k]
Gained(q, Q, r, k) == k \notin DOMAIN q /\ \E j \in DOMAIN Q : r[k] = Q[j]

LEMMA Extended ==
    ASSUME NEW S, NEW q \in Seq(S), NEW Q \in Seq(S)
    PROVE  /\ q \o Q \in Seq(S) /\ (q # <<>> => q \o Q # <<>> /\ (q \o Q)[1] = q[1])
           /\ (Q # <<>> => q \o Q # <<>>)
           /\ (q = <<>> /\ Q # <<>> => 1 \in DOMAIN Q /\ (q \o Q)[1] = Q[1])
           /\ \A k \in DOMAIN (q \o Q) : Stays(q, q \o Q, k) \/ Gained(q, Q, q \o Q, k)
           /\ \A j, k \in DOMAIN (q \o Q) : j < k /\ k \in DOMAIN q => j \in DOMAIN q
<1>1. /\ DOMAIN q = 1..Len(q) /\ Len(q) \in Nat /\ DOMAIN Q = 1..Len(Q) /\ Len(Q) \in Nat
      /\ (q # <<>> <=> Len(q) >= 1) /\ (Q # <<>> <=> Len(Q) >= 1)
  BY EmptySeq, LenProperties
<1> DEFINE r == q \o Q
<1>2. /\ r \in Seq(S) /\ Len(r) = Len(q) + Len(Q)
      /\ \A i \in 1..(Len(q) + Len(Q)) : r[i] = IF i <= Len(q) THEN q[i] ELSE Q[i - Len(q)]
  BY ConcatProperties
<1>3. DOMAIN r = 1..(Len(q) + Len(Q)) /\ (r # <<>> <=> Len(r) >= 1)
  BY <1>2, EmptySeq, LenProperties
<1> HIDE DEF r
<1>4. ASSUME NEW k \in DOMAIN r
      PROVE  Stays(q, r, k) \/ Gained(q, Q, r, k)
  <2>1. CASE k <= Len(q)
    BY <1>1, <1>2, <1>3, <2>1 DEF Stays
  <2>2. CASE ~(k <= Len(q))
    <3>1. k - Len(q) \in DOMAIN Q /\ r[k] = Q[k - Len(q)] /\ k \notin DOMAIN q
      BY <1>1, <1>2, <1>3, <2>2
    <3> QED
      BY <3>1 DEF Gained
  <2> QED
    BY <2>1, <2>2
<1>5. \A j, k \in DOMAIN r : j < k /\ k \in DOMAIN q => j \in DOMAIN q
  BY <1>1, <1>3
<1>6. q # <<>> => r # <<>> /\ r[1] = q[1]
  BY <1>1, <1>2, <1>3
<1>7. Q # <<>> => r # <<>>
  BY <1>1, <1>2, <1>3
<1>8. q = <<>> /\ Q # <<>> => 1 \in DOMAIN Q /\ r[1] = Q[1]
  BY <1>1, <1>2, <1>3
<1> QED
  BY <1>2, <1>4, <1>5, <1>6, <1>7, <1>8 DEF r

\* A path or an entry that one row at the head of the queue makes.
Follows(s, p, y) ==
    \E i \in Graph!Touching(s.queue[1].node) :
        p = Append(s.queue[1].path, i) /\ y = Graph!Other(i, s.queue[1].node)

\* The node at the head of the queue is read: Q is queued and H is found.
Extends(s, t, Q, H) ==
    /\ s.queue # <<>> /\ Hops(s, 1) < s.depth /\ ~WasRead(s, s.queue[1].node)
    /\ Q \in Seq(Entries) /\ H \in Seq(Seq(DOMAIN edges))
    /\ t.queue = Tail(s.queue) \o Q /\ t.found = s.found \o H
    /\ t.read = [s.read EXCEPT ![s.queue[1].node] = Hops(s, 1)]
    /\ t.by = s.by /\ t.from = s.from /\ t.to = s.to /\ t.depth = s.depth /\ t.quiet = s.quiet
    /\ \A k \in DOMAIN Q : Q[k].node # s.to /\ Follows(s, Q[k].path, Q[k].node)
    /\ \A k \in DOMAIN H : Follows(s, H[k], s.to)
    /\ s.by = "service" => t.met = s.met \cup {Q[k].node : k \in DOMAIN Q}

LEMMA SearchFields ==
    ASSUME ReviewsAssumption, NEW s \in Searches
    PROVE  /\ s.depth \in Nat /\ s.depth < Graph!Unread /\ Graph!Unread = 999
           /\ s.from \in Nodes /\ s.to \in Nodes /\ s.met \subseteq Nodes
           /\ \A x \in Nodes : s.read[x] \in Nat /\ (WasRead(s, x) <=> s.read[x] < Graph!Unread)
           /\ s.read \in [Nodes -> 0..Graph!Unread]
           /\ s.queue \in Seq(Entries) /\ s.found \in Seq(Seq(DOMAIN edges))
           /\ \A k \in DOMAIN s.queue :
                /\ s.queue[k].node \in Nodes /\ s.queue[k].path \in Seq(DOMAIN edges)
                /\ Hops(s, k) \in Nat
           /\ \A f \in DOMAIN s.found :
                s.found[f] \in Seq(DOMAIN edges) /\ Len(s.found[f]) \in Nat
<1>1. /\ s.from \in Nodes /\ s.to \in Nodes /\ s.met \subseteq Nodes /\ s.depth \in Depths
      /\ s.read \in [Nodes -> 0..Graph!Unread]
      /\ s.queue \in Seq(Entries) /\ s.found \in Seq(Seq(DOMAIN edges))
  BY DEF Searches
<1>2. s.depth \in 1..5
  BY <1>1, GraphAssumed
<1>3. Graph!Unread = 999
  BY DEF Graph!Unread
<1>4. \A x \in Nodes : s.read[x] \in Nat /\ (WasRead(s, x) <=> s.read[x] < Graph!Unread)
  <2>1. ASSUME NEW x \in Nodes
        PROVE  s.read[x] \in Nat /\ (s.read[x] # 999 <=> s.read[x] < 999)
    <3>1. s.read[x] \in 0..999
      BY <1>1, <1>3
    <3> DEFINE n == s.read[x]
    <3> HIDE DEF n
    <3>2. n \in 0..999
      BY <3>1 DEF n
    <3>3. n \in Nat /\ (n # 999 <=> n < 999)
      BY <3>2
    <3> QED
      BY <3>3 DEF n
  <2> QED
    BY <1>3, <2>1 DEF WasRead
<1>5. ASSUME NEW k \in DOMAIN s.queue
      PROVE  /\ s.queue[k].node \in Nodes /\ s.queue[k].path \in Seq(DOMAIN edges)
             /\ Hops(s, k) \in Nat
  <2>1. s.queue[k] \in Entries
    BY <1>1, Elements
  <2>2. s.queue[k].node \in Nodes /\ s.queue[k].path \in Seq(DOMAIN edges)
    BY <2>1 DEF Entries
  <2> QED
    BY <2>2, LenProperties DEF Hops
<1>6. ASSUME NEW f \in DOMAIN s.found
      PROVE  s.found[f] \in Seq(DOMAIN edges) /\ Len(s.found[f]) \in Nat
  BY <1>1, Elements, LenProperties
<1>7. s.depth \in Nat /\ s.depth < 999
  BY <1>2
<1>8. s.depth < Graph!Unread
  BY <1>3, <1>7
<1> QED
  BY <1>1, <1>3, <1>4, <1>5, <1>6, <1>7, <1>8, Zenon

\* Where the entries and the paths of the next state come from.
LEMMA ExtendsFields ==
    ASSUME ReviewsAssumption, NEW s \in Searches, NEW t, NEW Q, NEW H, Extends(s, t, Q, H)
    PROVE  /\ 1 \in DOMAIN s.queue /\ s.queue[1].node \in Nodes
           /\ \A k \in DOMAIN s.queue : k \in Nat /\ 1 <= k
           /\ \A k \in DOMAIN t.queue : k \in Nat /\
                \/ k + 1 \in DOMAIN s.queue /\ t.queue[k] = s.queue[k + 1] /\ Hops(t, k) = Hops(s, k + 1)
                \/ /\ Hops(t, k) = Hops(s, 1) + 1
                   /\ \E j \in DOMAIN Q : t.queue[k] = Q[j] /\ j \in Nat
                   /\ \A m \in DOMAIN s.queue : m <= k
           /\ \A k \in DOMAIN s.queue : k # 1 =>
                /\ k - 1 \in DOMAIN t.queue /\ t.queue[k - 1] = s.queue[k]
                /\ Hops(t, k - 1) = Hops(s, k)
           /\ \A j \in DOMAIN Q : \E k \in DOMAIN t.queue :
                t.queue[k] = Q[j] /\ Hops(t, k) = Hops(s, 1) + 1
           /\ \A f \in DOMAIN H : Len(H[f]) = Hops(s, 1) + 1
           /\ t.queue \in Seq(Entries) /\ t.found \in Seq(Seq(DOMAIN edges))
<1> DEFINE c == s.queue[1]
<1>1. /\ s.queue \in Seq(Entries) /\ s.queue # <<>> /\ Q \in Seq(Entries)
      /\ t.queue = Tail(s.queue) \o Q
  BY SearchFields DEF Extends
<1>2. 1 \in DOMAIN s.queue /\ c.node \in Nodes /\ c.path \in Seq(DOMAIN edges) /\ Hops(s, 1) = Len(c.path)
      /\ Hops(s, 1) \in Nat
  BY <1>1, Spliced, SearchFields DEF Hops
<1>3. ASSUME NEW p, NEW y, Follows(s, p, y)
      PROVE  p \in Seq(DOMAIN edges) /\ Len(p) = Hops(s, 1) + 1
  <2>1. PICK i \in Graph!Touching(c.node) : p = Append(c.path, i)
    BY <1>3 DEF Follows
  <2>2. i \in DOMAIN edges
    BY DEF Graph!Touching
  <2> QED
    BY <1>2, <2>1, <2>2, AppendProperties
<1>4. \A j \in DOMAIN Q : Len(Q[j].path) = Hops(s, 1) + 1
  BY <1>3 DEF Extends
<1>5. \A f \in DOMAIN H : Len(H[f]) = Hops(s, 1) + 1
  BY <1>3 DEF Extends
<1>6. ASSUME NEW k \in DOMAIN t.queue
      PROVE  /\ k \in Nat
             /\ \/ k + 1 \in DOMAIN s.queue /\ t.queue[k] = s.queue[k + 1] /\ Hops(t, k) = Hops(s, k + 1)
                \/ /\ Hops(t, k) = Hops(s, 1) + 1
                   /\ \E j \in DOMAIN Q : t.queue[k] = Q[j] /\ j \in Nat
                   /\ \A m \in DOMAIN s.queue : m <= k
  <2>1. k \in Nat /\ (Moved(s.queue, t.queue, k) \/ Added(s.queue, Q, t.queue, k))
    BY <1>1, Spliced
  <2>2. CASE Moved(s.queue, t.queue, k)
    BY <2>1, <2>2 DEF Hops, Moved
  <2>3. ASSUME NEW j \in DOMAIN Q, j \in Nat, t.queue[k] = Q[j], k = (Len(s.queue) - 1) + j
        PROVE  /\ Hops(t, k) = Hops(s, 1) + 1
               /\ \A m \in DOMAIN s.queue : m <= k
    <3>1. DOMAIN s.queue = 1..Len(s.queue) /\ Len(s.queue) \in Nat /\ j >= 1
      BY <1>1, LenProperties
    <3> QED
      BY <1>4, <2>3, <3>1 DEF Hops
  <2> QED
    BY <2>1, <2>2, <2>3 DEF Added
<1>7. \A k \in DOMAIN s.queue : k # 1 =>
        /\ k - 1 \in DOMAIN t.queue /\ t.queue[k - 1] = s.queue[k]
        /\ Hops(t, k - 1) = Hops(s, k)
  BY <1>1, Spliced DEF Hops
<1>8. ASSUME NEW j \in DOMAIN Q
      PROVE  \E k \in DOMAIN t.queue : t.queue[k] = Q[j] /\ Hops(t, k) = Hops(s, 1) + 1
  <2>1. /\ (Len(s.queue) - 1) + j \in DOMAIN t.queue
        /\ t.queue[(Len(s.queue) - 1) + j] = Q[j]
    BY <1>1, Spliced
  <2> QED
    BY <1>4, <2>1 DEF Hops
<1>9. t.queue \in Seq(Entries) /\ \A k \in DOMAIN s.queue : k \in Nat /\ 1 <= k
  BY <1>1, Spliced
<1>10. t.found \in Seq(Seq(DOMAIN edges))
  <2>1. s.found \in Seq(Seq(DOMAIN edges)) /\ H \in Seq(Seq(DOMAIN edges)) /\ t.found = s.found \o H
    BY SearchFields DEF Extends
  <2> QED
    BY <2>1, Extended
<1> QED
  BY <1>2, <1>5, <1>6, <1>7, <1>8, <1>9, <1>10

LEMMA OrderKept ==
    ASSUME ReviewsAssumption, NEW s \in Searches, NEW t, NEW Q, NEW H, Extends(s, t, Q, H), InOrder(s)
    PROVE  InOrder(t)
<1> DEFINE h == Hops(s, 1)
<1>0. /\ 1 \in DOMAIN s.queue /\ h \in Nat /\ h < s.depth /\ t.depth = s.depth /\ s.depth \in Nat
      /\ s.depth < Graph!Unread /\ s.queue[1].node \in Nodes
  BY ExtendsFields, SearchFields DEF Extends
<1>1. \A k \in DOMAIN s.queue : /\ Hops(s, k) \in Nat /\ h <= Hops(s, k) /\ Hops(s, k) <= h + 1
                                /\ Hops(s, k) <= s.depth
  BY <1>0, SearchFields, ExtendsFields DEF InOrder
<1>2. ASSUME NEW k \in DOMAIN t.queue
      PROVE  /\ Hops(t, k) \in Nat /\ h <= Hops(t, k) /\ Hops(t, k) <= h + 1 /\ Hops(t, k) <= s.depth
  BY <1>0, <1>1, ExtendsFields
<1>3. ASSUME NEW j \in DOMAIN t.queue, NEW k \in DOMAIN t.queue
      PROVE  (j < k => Hops(t, j) <= Hops(t, k)) /\ Hops(t, k) <= Hops(t, j) + 1
  <2>1. Hops(t, k) <= Hops(t, j) + 1
    BY <1>0, <1>2
  <2>2. ASSUME j < k PROVE Hops(t, j) <= Hops(t, k)
    <3>0. j \in Nat /\ k \in Nat
      BY ExtendsFields
    <3>1. CASE Hops(t, k) = h + 1
      BY <1>0, <1>2, <3>1
    <3>2. CASE k + 1 \in DOMAIN s.queue /\ Hops(t, k) = Hops(s, k + 1)
      <4>1. ~(\A m \in DOMAIN s.queue : m <= j)
        BY <2>2, <3>0, <3>2
      <4>2. j + 1 \in DOMAIN s.queue /\ Hops(t, j) = Hops(s, j + 1)
        BY <4>1, ExtendsFields
      <4> QED
        BY <2>2, <3>0, <3>2, <4>2 DEF InOrder
    <3> QED
      BY <3>1, <3>2, ExtendsFields
  <2> QED
    BY <2>1, <2>2
<1>4. ASSUME NEW x \in Nodes, WasRead(t, x)
      PROVE  t.read[x] < t.depth /\ \A k \in DOMAIN t.queue : t.read[x] <= Hops(t, k)
  <2>0. t.read = [s.read EXCEPT ![s.queue[1].node] = h] /\ s.read \in [Nodes -> 0..Graph!Unread]
    BY SearchFields DEF Extends
  <2>1. CASE x = s.queue[1].node
    BY <1>0, <1>2, <2>0, <2>1
  <2>2. CASE x # s.queue[1].node
    <3>1. t.read[x] = s.read[x] /\ WasRead(s, x) /\ s.read[x] \in Nat
      BY <1>4, <2>0, <2>2, SearchFields DEF WasRead
    <3>2. s.read[x] <= h /\ s.read[x] < s.depth
      BY <1>0, <3>1 DEF InOrder
    <3> QED
      BY <1>0, <1>2, <3>1, <3>2
  <2> QED
    BY <2>1, <2>2
<1>5. /\ s.found \in Seq(Seq(DOMAIN edges)) /\ H \in Seq(Seq(DOMAIN edges))
      /\ t.found = s.found \o H
  BY SearchFields DEF Extends
<1>6. ASSUME NEW f \in DOMAIN t.found
      PROVE  \/ f \in DOMAIN s.found /\ t.found[f] = s.found[f]
             \/ f \notin DOMAIN s.found /\ Len(t.found[f]) = h + 1
  <2>1. Stays(s.found, t.found, f) \/ Gained(s.found, H, t.found, f)
    BY <1>5, Extended
  <2>2. \A j \in DOMAIN H : Len(H[j]) = h + 1
    BY ExtendsFields
  <2> QED
    BY <2>1, <2>2 DEF Stays, Gained
<1>7. \A f \in DOMAIN s.found : /\ Len(s.found[f]) \in Nat /\ Len(s.found[f]) <= s.depth
                                /\ Len(s.found[f]) <= h + 1
  BY <1>0, SearchFields DEF InOrder
<1>8. ASSUME NEW f \in DOMAIN t.found
      PROVE  /\ Len(t.found[f]) <= t.depth
             /\ \A k \in DOMAIN t.queue : Len(t.found[f]) <= Hops(t, k) + 1
  <2>1. Len(t.found[f]) \in Nat /\ Len(t.found[f]) <= h + 1 /\ Len(t.found[f]) <= s.depth
    BY <1>0, <1>6, <1>7
  <2> QED
    BY <1>0, <1>2, <2>1
<1>9. ASSUME NEW f \in DOMAIN t.found, NEW g \in DOMAIN t.found, f < g
      PROVE  Len(t.found[f]) <= Len(t.found[g])
  <2>1. CASE g \in DOMAIN s.found
    <3>1. f \in DOMAIN s.found
      BY <1>5, <1>9, <2>1, Extended
    <3> QED
      BY <1>6, <1>9, <2>1, <3>1 DEF InOrder
  <2>2. CASE g \notin DOMAIN s.found
    BY <1>0, <1>6, <1>7, <2>2
  <2> QED
    BY <2>1, <2>2
<1> QED
  BY <1>0, <1>2, <1>3, <1>4, <1>8, <1>9 DEF InOrder


LEMMA ReadKept ==
    ASSUME ReviewsAssumption, NEW s \in Searches, NEW t, NEW Q, NEW H, Extends(s, t, Q, H), NEW x \in Nodes
    PROVE  /\ x = s.queue[1].node => t.read[x] = Hops(s, 1) /\ WasRead(t, x)
           /\ x # s.queue[1].node => t.read[x] = s.read[x] /\ (WasRead(t, x) <=> WasRead(s, x))
           /\ WasRead(s, x) => WasRead(t, x)
<1>1. t.read = [s.read EXCEPT ![s.queue[1].node] = Hops(s, 1)] /\ s.read \in [Nodes -> 0..Graph!Unread]
  BY SearchFields DEF Extends
<1>2. Hops(s, 1) \in Nat /\ Hops(s, 1) < Graph!Unread /\ Graph!Unread = 999
  BY SearchFields, ExtendsFields DEF Extends
<1>3. CASE x = s.queue[1].node
  BY <1>1, <1>2, <1>3 DEF WasRead
<1>4. CASE x # s.queue[1].node
  BY <1>1, <1>4 DEF WasRead
<1> QED
  BY <1>3, <1>4

LEMMA ScheduledKept ==
    ASSUME ReviewsAssumption, NEW s \in Searches, NEW t, NEW Q, NEW H, Extends(s, t, Q, H),
           NEW y \in Nodes, NEW l \in Nat, Scheduled(s, y, l)
    PROVE  Scheduled(t, y, l)
<1>0. t.depth = s.depth /\ s.depth \in Nat /\ s.depth < Graph!Unread /\ Graph!Unread = 999
  BY SearchFields DEF Extends
<1>1. CASE s.depth <= l
  BY <1>0, <1>1 DEF Scheduled
<1>2. CASE s.read[y] <= l
  <2>1. CASE y = s.queue[1].node
    <3>1. s.read[y] = Graph!Unread
      BY <2>1 DEF Extends, WasRead
    <3> QED
      BY <1>0, <1>2, <3>1 DEF Scheduled
  <2>2. CASE y # s.queue[1].node
    BY <1>2, <2>2, ReadKept DEF Scheduled
  <2> QED
    BY <2>1, <2>2
<1>3. ASSUME NEW k \in DOMAIN s.queue, s.queue[k].node = y, Hops(s, k) <= l
      PROVE  Scheduled(t, y, l)
  <2>1. CASE k = 1
    BY <1>3, <2>1, ReadKept DEF Scheduled
  <2>2. CASE k # 1
    BY <1>3, <2>2, ExtendsFields DEF Scheduled
  <2> QED
    BY <2>1, <2>2
<1> QED
  BY <1>1, <1>2, <1>3 DEF Scheduled

\* What the read of the node at the head of the queue must bring.
Brings(s, t, H) ==
    Steady(s) => \A y \in Nodes : Graph!Linked(s.queue[1].node, y) =>
        IF y = s.to THEN H # <<>> ELSE Scheduled(t, y, Hops(s, 1) + 1)

LEMMA CoveredKept ==
    ASSUME ReviewsAssumption, NEW s \in Searches, NEW t, NEW Q, NEW H, Extends(s, t, Q, H),
           InOrder(s), Covered(s), Brings(s, t, H)
    PROVE  Covered(t)
<1> DEFINE h == Hops(s, 1)
<1>0. /\ t.from = s.from /\ t.to = s.to /\ s.from \in Nodes /\ h \in Nat
      /\ (Steady(t) <=> Steady(s)) /\ 1 \in DOMAIN s.queue /\ s.queue[1].node \in Nodes
  BY SearchFields, ExtendsFields DEF Extends, Steady
<1>1. Scheduled(t, t.from, 0)
  BY <1>0, ScheduledKept DEF Covered
<1>2. /\ s.found \in Seq(Seq(DOMAIN edges)) /\ H \in Seq(Seq(DOMAIN edges))
      /\ t.found = s.found \o H
  BY SearchFields DEF Extends
<1>3. ASSUME Steady(t), NEW x \in Nodes, NEW y \in Nodes, WasRead(t, x), Graph!Linked(x, y)
      PROVE  IF y = t.to THEN t.found # <<>> /\ Len(t.found[1]) <= t.read[x] + 1
             ELSE Scheduled(t, y, t.read[x] + 1)
  <2>1. CASE x = s.queue[1].node
    <3>0. t.read[x] = h
      BY <2>1, ReadKept
    <3>1. CASE y = t.to
      <4>1. H # <<>>
        BY <1>0, <1>3, <2>1, <3>1 DEF Brings
      <4>2. t.found # <<>>
        BY <1>2, <4>1, Extended
      <4>3. CASE s.found = <<>>
        <5>1. 1 \in DOMAIN H /\ t.found[1] = H[1]
          BY <1>2, <4>1, <4>3, Extended
        <5> QED
          BY <1>0, <3>0, <3>1, <4>2, <5>1, ExtendsFields
      <4>4. CASE s.found # <<>>
        <5>1. t.found[1] = s.found[1] /\ 1 \in DOMAIN s.found
          BY <1>2, <4>4, Extended, EmptySeq, LenProperties
        <5>2. Len(s.found[1]) <= h + 1
          BY <1>0, <5>1 DEF InOrder
        <5> QED
          BY <3>0, <3>1, <4>2, <5>1, <5>2
      <4> QED
        BY <4>3, <4>4
    <3>2. CASE y # t.to
      BY <1>0, <1>3, <2>1, <3>0, <3>2 DEF Brings
    <3> QED
      BY <3>1, <3>2
  <2>2. CASE x # s.queue[1].node
    <3>1. t.read[x] = s.read[x] /\ WasRead(s, x) /\ s.read[x] \in Nat
      BY <1>3, <2>2, ReadKept, SearchFields
    <3>2. IF y = s.to THEN s.found # <<>> /\ Len(s.found[1]) <= s.read[x] + 1
          ELSE Scheduled(s, y, s.read[x] + 1)
      BY <1>0, <1>3, <3>1 DEF Covered
    <3>3. CASE y = s.to
      <4>1. t.found # <<>> /\ t.found[1] = s.found[1]
        BY <1>2, <3>2, <3>3, Extended
      <4> QED
        BY <1>0, <3>1, <3>2, <3>3, <4>1
    <3>4. CASE y # s.to
      <4>1. s.read[x] + 1 \in Nat
        BY <3>1
      <4> QED
        BY <1>0, <3>1, <3>2, <3>4, <4>1, ScheduledKept
    <3> QED
      BY <3>3, <3>4
  <2> QED
    BY <2>1, <2>2
<1> QED
  BY <1>1, <1>3 DEF Covered

\* The service queues each node once.
Fresh(s, Q) ==
    /\ \A k \in DOMAIN Q : Q[k].node \notin s.met
    /\ \A j, k \in DOMAIN Q : Q[j].node = Q[k].node => j = k

LEMMA MetOnceKept ==
    ASSUME ReviewsAssumption, NEW s \in Searches, NEW t, NEW Q, NEW H, Extends(s, t, Q, H),
           InOrder(s), MetOnce(s), Fresh(s, Q), s.by = "service"
    PROVE  MetOnce(t)
<1> DEFINE c == s.queue[1].node
<1>a. t.met = s.met \cup {Q[k].node : k \in DOMAIN Q}
  BY DEF Extends
<1>0. /\ 1 \in DOMAIN s.queue /\ c \in Nodes
      /\ t.depth = s.depth /\ s.depth \in Nat /\ Hops(s, 1) \in Nat /\ Hops(s, 1) < s.depth
      /\ s.met \subseteq Nodes
  BY ExtendsFields, SearchFields DEF Extends
<1>1. c \in s.met /\ ~WasRead(s, c)
  BY <1>0 DEF MetOnce
<1>2. /\ s.queue \in Seq(Entries) /\ s.queue # <<>> /\ Q \in Seq(Entries)
      /\ t.queue = Tail(s.queue) \o Q
  BY SearchFields DEF Extends
<1>3. \A k \in DOMAIN t.queue : k \in Nat /\ (Moved(s.queue, t.queue, k) \/ Added(s.queue, Q, t.queue, k))
  BY <1>2, Spliced
<1>4. ASSUME NEW k \in DOMAIN t.queue
      PROVE  t.queue[k].node \in t.met /\ ~WasRead(t, t.queue[k].node)
  <2>1. CASE Moved(s.queue, t.queue, k)
    <3>1. k + 1 \in DOMAIN s.queue /\ t.queue[k] = s.queue[k + 1] /\ k + 1 # 1
      BY <2>1, <1>3, ExtendsFields DEF Moved
    <3>2. t.queue[k].node \in s.met /\ ~WasRead(s, t.queue[k].node) /\ t.queue[k].node # c
      BY <1>0, <3>1 DEF MetOnce
    <3> QED
      BY <1>0, <1>a, <3>2, ReadKept
  <2>2. CASE Added(s.queue, Q, t.queue, k)
    <3>1. PICK j \in DOMAIN Q : t.queue[k] = Q[j]
      BY <2>2 DEF Added
    <3>a. Q[j].node \notin s.met /\ Q[j].node \in t.met
      BY <1>a DEF Fresh
    <3>b. Q[j] \in Entries
      BY <1>2, Elements
    <3>2. Q[j].node \notin s.met /\ Q[j].node \in t.met /\ Q[j].node \in Nodes
      BY <3>a, <3>b DEF Entries
    <3>3. ~WasRead(s, Q[j].node) /\ Q[j].node # c
      BY <1>1, <3>2 DEF MetOnce
    <3> QED
      BY <3>1, <3>2, <3>3, ReadKept
  <2> QED
    BY <1>3, <2>1, <2>2
<1>5. ASSUME NEW j \in DOMAIN t.queue, NEW k \in DOMAIN t.queue, t.queue[j].node = t.queue[k].node
      PROVE  j = k
  <2>0. j \in Nat /\ k \in Nat
    BY <1>3
  <2>1. ASSUME NEW m \in DOMAIN t.queue, Moved(s.queue, t.queue, m) PROVE t.queue[m].node \in s.met
    BY <2>1 DEF MetOnce, Moved
  <2>2. ASSUME NEW m \in DOMAIN t.queue, Added(s.queue, Q, t.queue, m) PROVE t.queue[m].node \notin s.met
    BY <2>2 DEF Added, Fresh
  <2>3. CASE Moved(s.queue, t.queue, j) /\ Moved(s.queue, t.queue, k)
    <3>1. j + 1 = k + 1
      BY <1>5, <2>3 DEF MetOnce, Moved
    <3> QED
      BY <2>0, <3>1
  <2>4. CASE Added(s.queue, Q, t.queue, j) /\ Added(s.queue, Q, t.queue, k)
    <3>1. PICK m \in DOMAIN Q : t.queue[j] = Q[m] /\ j = (Len(s.queue) - 1) + m
      BY <2>4 DEF Added
    <3>2. PICK n \in DOMAIN Q : t.queue[k] = Q[n] /\ k = (Len(s.queue) - 1) + n
      BY <2>4 DEF Added
    <3>3. m = n
      BY <1>5, <3>1, <3>2 DEF Fresh
    <3> QED
      BY <3>1, <3>2, <3>3
  <2> QED
    BY <1>3, <1>5, <2>1, <2>2, <2>3, <2>4
<1>6. ASSUME NEW x \in Nodes, WasRead(t, x) PROVE x \in t.met
  BY <1>0, <1>a, <1>1, <1>6, ReadKept DEF MetOnce
<1>7. ASSUME NEW y \in t.met
      PROVE  WasRead(t, y) \/ \E k \in DOMAIN t.queue : t.queue[k].node = y
  <2>1. CASE y \in s.met
    <3>0. y \in Nodes
      BY <1>0, <2>1
    <3>1. CASE WasRead(s, y)
      BY <3>0, <3>1, ReadKept
    <3>2. ASSUME NEW k \in DOMAIN s.queue, s.queue[k].node = y
          PROVE  WasRead(t, y) \/ \E m \in DOMAIN t.queue : t.queue[m].node = y
      BY <3>0, <3>2, ReadKept, ExtendsFields
    <3>3. ~(\A k \in DOMAIN s.queue : s.depth <= Hops(s, k))
      BY <1>0
    <3> QED
      BY <2>1, <3>1, <3>2, <3>3 DEF MetOnce
  <2>2. CASE \E j \in DOMAIN Q : y = Q[j].node
    BY <2>2, ExtendsFields
  <2> QED
    BY <1>a, <2>1, <2>2
<1> QED
  BY <1>4, <1>5, <1>6, <1>7 DEF MetOnce

LEMMA EdgeFields ==
    ASSUME ReviewsAssumption, Graph!TypeOK
    PROVE  /\ edges \in Seq([s : Nodes, o : Nodes, from : ValidFroms, status : Graph!Statuses])
           /\ \A i \in DOMAIN edges : /\ edges[i].s \in Nodes /\ edges[i].o \in Nodes
                                      /\ edges[i].from \in Nat /\ i \in Nat
<1>1. edges \in Seq([s : Nodes, o : Nodes, from : ValidFroms, status : Graph!Statuses])
  BY DEF Graph!TypeOK
<1>2. ASSUME NEW i \in DOMAIN edges
      PROVE  edges[i].s \in Nodes /\ edges[i].o \in Nodes /\ edges[i].from \in Nat /\ i \in Nat
  <2>1. edges[i] \in [s : Nodes, o : Nodes, from : ValidFroms, status : Graph!Statuses]
    BY <1>1, Elements
  <2>2. i \in Nat
    BY <1>1, LenProperties
  <2> QED
    BY <2>1, <2>2, GraphAssumed
<1> QED
  BY <1>1, <1>2

\* A row at a node joins it to the other.
LEMMA Joins ==
    ASSUME ReviewsAssumption, Graph!TypeOK, NEW n \in Nodes, NEW i \in Graph!Touching(n)
    PROVE  /\ i \in DOMAIN edges /\ edges[i].status = "active" /\ Graph!Other(i, n) \in Nodes
           /\ {n, Graph!Other(i, n)} = {edges[i].s, edges[i].o}
           /\ Graph!Linked(n, Graph!Other(i, n))
<1>1. i \in DOMAIN edges /\ edges[i].status = "active" /\ n \in {edges[i].s, edges[i].o}
  BY DEF Graph!Touching
<1>2. edges[i].s \in Nodes /\ edges[i].o \in Nodes
  BY <1>1, EdgeFields
<1>3. Graph!Other(i, n) = IF edges[i].s = n THEN edges[i].o ELSE edges[i].s
  BY DEF Graph!Other
<1> QED
  BY <1>1, <1>2, <1>3 DEF Graph!Linked

LEMMA TrailExtended ==
    ASSUME ReviewsAssumption, Graph!TypeOK, NEW n \in Nodes, NEW c \in Nodes,
           NEW p \in Seq(DOMAIN edges), NEW R, Trail(p, n, c, R), c \notin R,
           NEW i \in Graph!Touching(c), NEW T, R \cup {c} \subseteq T
    PROVE  Trail(Append(p, i), n, Graph!Other(i, c), T)
<1> DEFINE L == Len(p)
           y == Graph!Other(i, c)
           q == Append(p, i)
<1>1. L \in Nat /\ DOMAIN p = 1..L
  BY LenProperties
<1>2. i \in DOMAIN edges /\ y \in Nodes /\ {c, y} = {edges[i].s, edges[i].o}
  BY Joins
<1>3. /\ q \in Seq(DOMAIN edges) /\ Len(q) = L + 1 /\ DOMAIN q = 1..(L + 1)
      /\ q[L + 1] = i /\ \A k \in 1..L : q[k] = p[k]
  BY <1>1, <1>2, AppendProperties, LenProperties
<1>4. PICK w \in [0..L -> Nodes] :
        /\ w[0] = n /\ w[L] = c
        /\ \A j \in 0..(L - 1) : w[j] \in R /\ \A k \in 0..(L - 1) : w[j] = w[k] => j = k
        /\ \A k \in DOMAIN p : {w[k - 1], w[k]} = {edges[p[k]].s, edges[p[k]].o}
  BY Zenon DEF Trail, TrailIn
<1> HIDE DEF L, y, q
<1> DEFINE v == [k \in 0..(L + 1) |-> IF k <= L THEN w[k] ELSE y]
<1>5. v \in [0..(L + 1) -> Nodes] /\ v[0] = n /\ v[L + 1] = y /\ \A k \in 0..L : v[k] = w[k]
  BY <1>1, <1>2, <1>4
<1> HIDE DEF v
<1>6. ASSUME NEW j \in 0..((L + 1) - 1)
      PROVE  v[j] \in T /\ \A k \in 0..((L + 1) - 1) : v[j] = v[k] => j = k
  <2>1. j \in 0..L /\ v[j] = w[j]
    BY <1>1, <1>5
  <2>2. \A k \in 0..L : k # L => w[k] \in R
    BY <1>1, <1>4
  <2>3. w[L] = c /\ c \notin R
    BY <1>4
  <2>4. v[j] \in T
    BY <2>1, <2>2, <2>3
  <2>5. ASSUME NEW k \in 0..((L + 1) - 1), v[j] = v[k] PROVE j = k
    <3>1. k \in 0..L /\ v[k] = w[k]
      BY <1>1, <1>5
    <3>2. CASE j = L \/ k = L
      BY <2>1, <2>2, <2>3, <2>5, <3>1, <3>2
    <3>3. CASE j # L /\ k # L
      <4>1. j \in 0..(L - 1) /\ k \in 0..(L - 1)
        BY <1>1, <2>1, <3>1, <3>3
      <4> QED
        BY <1>4, <2>1, <2>5, <3>1, <4>1
    <3> QED
      BY <3>2, <3>3
  <2> QED
    BY <2>4, <2>5
<1>7. ASSUME NEW k \in DOMAIN q
      PROVE  {v[k - 1], v[k]} = {edges[q[k]].s, edges[q[k]].o}
  <2>1. CASE k = L + 1
    <3>1. k - 1 = L /\ v[k - 1] = w[L] /\ v[k] = y /\ q[k] = i
      BY <1>1, <1>3, <1>5, <2>1
    <3> QED
      BY <1>2, <1>4, <3>1
  <2>2. CASE k # L + 1
    <3>1. k \in 1..L /\ k - 1 \in 0..L /\ k \in 0..L
      BY <1>1, <1>3, <2>2
    <3>2. q[k] = p[k] /\ v[k - 1] = w[k - 1] /\ v[k] = w[k]
      BY <1>3, <1>5, <3>1
    <3> QED
      BY <1>1, <1>4, <3>1, <3>2
  <2> QED
    BY <2>1, <2>2
<1>8. /\ v \in [0..Len(q) -> Nodes] /\ v[0] = n /\ v[Len(q)] = y
      /\ \A j \in 0..(Len(q) - 1) : v[j] \in T /\ \A k \in 0..(Len(q) - 1) : v[j] = v[k] => j = k
  BY <1>3, <1>5, <1>6
<1>9. Trail(q, n, y, T)
  BY <1>7, <1>8, Zenon DEF Trail, TrailIn
<1> QED
  BY <1>9 DEF q, y

LEMMA TrailWidened ==
    ASSUME NEW p, NEW n, NEW m, NEW R, Trail(p, n, m, R), NEW T, R \subseteq T
    PROVE  Trail(p, n, m, T)
<1>1. PICK w \in [0..Len(p) -> Nodes] :
        /\ w[0] = n /\ w[Len(p)] = m
        /\ \A j \in 0..(Len(p) - 1) : w[j] \in R /\ \A k \in 0..(Len(p) - 1) : w[j] = w[k] => j = k
        /\ \A k \in DOMAIN p : {w[k - 1], w[k]} = {edges[p[k]].s, edges[p[k]].o}
  BY Zenon DEF Trail, TrailIn
<1>2. \A j \in 0..(Len(p) - 1) : w[j] \in T
  BY <1>1
<1> QED
  BY <1>1, <1>2, Zenon DEF Trail, TrailIn

LEMMA AliveExtended ==
    ASSUME ReviewsAssumption, Graph!TypeOK, NEW c \in Nodes, NEW p \in Seq(DOMAIN edges), Alive(p),
           NEW i \in Graph!Touching(c)
    PROVE  Alive(Append(p, i))
<1>1. i \in DOMAIN edges /\ edges[i].status = "active"
  BY Joins
<1>2. /\ Len(p) \in Nat /\ DOMAIN p = 1..Len(p) /\ DOMAIN Append(p, i) = 1..(Len(p) + 1)
      /\ Append(p, i)[Len(p) + 1] = i /\ \A k \in 1..Len(p) : Append(p, i)[k] = p[k]
  BY <1>1, AppendProperties, LenProperties
<1>3. ASSUME NEW k \in DOMAIN Append(p, i) PROVE edges[Append(p, i)[k]].status = "active"
  <2>1. k = Len(p) + 1 \/ k \in 1..Len(p)
    BY <1>2
  <2> QED
    BY <1>1, <1>2, <2>1 DEF Alive, AliveIn
<1> QED
  BY <1>3 DEF Alive, AliveIn

LEMMA TrailsKept ==
    ASSUME ReviewsAssumption, Graph!TypeOK, NEW s \in Searches, NEW t, NEW Q, NEW H,
           Extends(s, t, Q, H), Trails(s)
    PROVE  Trails(t)
<1> SUFFICES ASSUME t.from # t.to
             PROVE  /\ ~WasRead(t, t.to)
                    /\ t.by = "service" => t.to \notin t.met
                    /\ \A k \in DOMAIN t.queue :
                          /\ t.queue[k].node # t.to
                          /\ Trail(t.queue[k].path, t.from, t.queue[k].node, AllRead(t))
                          /\ t.quiet => Alive(t.queue[k].path)
                    /\ \A f \in DOMAIN t.found :
                          /\ Trail(t.found[f], t.from, t.to, AllRead(t))
                          /\ t.quiet => Alive(t.found[f])
  BY DEF Trails
<1> DEFINE c == s.queue[1].node
           p == s.queue[1].path
<1>1. /\ 1 \in DOMAIN s.queue /\ c \in Nodes /\ p \in Seq(DOMAIN edges) /\ s.from \in Nodes /\ s.to \in Nodes
      /\ ~WasRead(s, c) /\ t.from = s.from /\ t.to = s.to /\ t.by = s.by /\ t.quiet = s.quiet
  BY SearchFields, ExtendsFields DEF Extends
<1>2. /\ ~WasRead(s, s.to) /\ (s.by = "service" => s.to \notin s.met)
      /\ \A k \in DOMAIN s.queue :
            /\ s.queue[k].node # s.to
            /\ Trail(s.queue[k].path, s.from, s.queue[k].node, AllRead(s))
            /\ s.quiet => Alive(s.queue[k].path)
      /\ \A f \in DOMAIN s.found :
            /\ Trail(s.found[f], s.from, s.to, AllRead(s))
            /\ s.quiet => Alive(s.found[f])
  BY <1>1, Zenon DEF Trails
<1>3. /\ \A k \in DOMAIN Q : Q[k].node # s.to /\ Follows(s, Q[k].path, Q[k].node)
      /\ \A k \in DOMAIN H : Follows(s, H[k], s.to)
      /\ s.by = "service" => t.met = s.met \cup {Q[k].node : k \in DOMAIN Q}
  BY DEF Extends
<1>4. AllRead(s) \cup {c} \subseteq AllRead(t) /\ c \notin AllRead(s) /\ AllRead(s) \subseteq AllRead(t)
  BY <1>1, ReadKept DEF AllRead
<1>5. ~WasRead(t, t.to)
  BY <1>1, <1>2, ReadKept
<1>6. t.by = "service" => t.to \notin t.met
  BY <1>1, <1>2, <1>3
<1>7. ASSUME NEW x, NEW y, Follows(s, x, y)
      PROVE  Trail(x, t.from, y, AllRead(t)) /\ (t.quiet => Alive(x))
  <2>1. PICK i \in Graph!Touching(c) : x = Append(p, i) /\ y = Graph!Other(i, c)
    BY <1>7 DEF Follows
  <2>2. Trail(p, s.from, c, AllRead(s)) /\ (s.quiet => Alive(p))
    BY <1>1, <1>2
  <2>3. Trail(Append(p, i), s.from, Graph!Other(i, c), AllRead(t))
    BY <1>1, <1>4, <2>2, TrailExtended
  <2>4. t.quiet => Alive(Append(p, i))
    BY <1>1, <2>2, AliveExtended
  <2> QED
    BY <1>1, <2>1, <2>3, <2>4
<1>8. ASSUME NEW k \in DOMAIN t.queue
      PROVE  /\ t.queue[k].node # t.to
             /\ Trail(t.queue[k].path, t.from, t.queue[k].node, AllRead(t))
             /\ t.quiet => Alive(t.queue[k].path)
  <2>1. CASE k + 1 \in DOMAIN s.queue /\ t.queue[k] = s.queue[k + 1]
    BY <1>1, <1>2, <1>4, <2>1, TrailWidened
  <2>2. CASE \E j \in DOMAIN Q : t.queue[k] = Q[j]
    BY <1>1, <1>3, <1>7, <2>2
  <2> QED
    BY <2>1, <2>2, ExtendsFields
<1>9. ASSUME NEW f \in DOMAIN t.found
      PROVE  /\ Trail(t.found[f], t.from, t.to, AllRead(t))
             /\ t.quiet => Alive(t.found[f])
  <2>1. /\ s.found \in Seq(Seq(DOMAIN edges)) /\ H \in Seq(Seq(DOMAIN edges))
        /\ t.found = s.found \o H
    BY SearchFields DEF Extends
  <2>2. Stays(s.found, t.found, f) \/ Gained(s.found, H, t.found, f)
    BY <2>1, Extended
  <2>3. CASE Stays(s.found, t.found, f)
    BY <1>1, <1>2, <1>4, <2>3, TrailWidened DEF Stays
  <2>4. CASE Gained(s.found, H, t.found, f)
    BY <1>1, <1>3, <1>7, <2>4 DEF Gained
  <2> QED
    BY <2>2, <2>3, <2>4
<1> QED
  BY <1>5, <1>6, <1>8, <1>9

LEMMA GraphCounts == \A S : Graph!Cardinality(S) = Cardinality(S)
  BY DEF Graph!Cardinality, Cardinality

LEMMA ListedFields ==
    ASSUME NEW S, IsFiniteSet(S), NEW q \in Graph!Listed(S)
    PROVE  /\ Cardinality(S) \in Nat /\ q \in [1..Cardinality(S) -> S]
           /\ DOMAIN q = 1..Cardinality(S) /\ \A k \in DOMAIN q : q[k] \in S
           /\ \A j, k \in DOMAIN q : q[j] = q[k] => j = k
           /\ \A i \in S : \E j \in DOMAIN q : q[j] = i
<1>1. Cardinality(S) \in Nat
  BY FS_CardinalityType
<1>2. /\ q \in [1..Cardinality(S) -> S]
      /\ \A i \in S : \E j \in DOMAIN q : \A k \in DOMAIN q : q[k] = i <=> k = j
  BY GraphCounts DEF Graph!Listed
<1>3. \A k \in DOMAIN q : q[k] \in S
  BY <1>2
<1>4. ASSUME NEW j \in DOMAIN q, NEW k \in DOMAIN q, q[j] = q[k] PROVE j = k
  <2>1. PICK m \in DOMAIN q : \A n \in DOMAIN q : q[n] = q[j] <=> n = m
    BY <1>2, <1>3
  <2> QED
    BY <1>4, <2>1
<1>5. \A i \in S : \E j \in DOMAIN q : q[j] = i
  BY <1>2
<1> QED
  BY <1>1, <1>2, <1>3, <1>4, <1>5

LEMMA ListIsSequence ==
    ASSUME NEW S, NEW n \in Nat, NEW q \in [1..n -> S]
    PROVE  q \in Seq(S) /\ DOMAIN q = 1..n
  OBVIOUS

LEMMA TouchingFinite ==
    ASSUME ReviewsAssumption, Graph!TypeOK, NEW n \in Nodes
    PROVE  /\ IsFiniteSet(Graph!Touching(n)) /\ Cardinality(Graph!Touching(n)) \in Nat
           /\ Graph!Newest(n) \subseteq Graph!Touching(n)
           /\ Cardinality(Graph!Touching(n)) <= EdgeLimit => Graph!Newest(n) = Graph!Touching(n)
<1> DEFINE T == Graph!Touching(n)
<1>1. T \subseteq DOMAIN edges
  BY DEF Graph!Touching
<1>2. IsFiniteSet(T) /\ Cardinality(T) \in Nat
  BY <1>1, EdgeFields, IndicesFinite, FS_CardinalityType
<1>3. Graph!Newest(n) \subseteq T
  BY DEF Graph!Newest
<1>4. ASSUME Cardinality(T) <= EdgeLimit, NEW i \in T PROVE i \in Graph!Newest(n)
  <2> DEFINE U == {k \in T : Graph!Newer(k, i)}
  <2>1. i \in Nat /\ edges[i].from \in Nat
    BY <1>1, <1>4, EdgeFields
  <2>2. ~Graph!Newer(i, i)
    BY <2>1 DEF Graph!Newer
  <2>3. U \subseteq T \ {i}
    BY <2>2
  <2>4. IsFiniteSet(T \ {i}) /\ Cardinality(T \ {i}) = Cardinality(T) - 1
    BY <1>2, <1>4, FS_RemoveElement
  <2>5. U \in SUBSET (T \ {i})
    BY <2>3
  <2> HIDE DEF U
  <2>6. Cardinality(U) <= Cardinality(T \ {i}) /\ Cardinality(U) \in Nat
    BY <2>4, <2>5, FS_Subset, FS_CardinalityType
  <2>7. Cardinality(U) < EdgeLimit
    BY <1>2, <1>4, <2>4, <2>6, GraphAssumed
  <2> QED
    BY <1>4, <2>7, GraphCounts DEF U, Graph!Newest
<1> QED
  BY <1>2, <1>3, <1>4

LEMMA SearchTyped ==
    ASSUME Graph!TypeOK, search # None
    PROVE  search \in Searches
  BY DEF Graph!TypeOK, Searches, Entries

\* The node at the head of the queue, when it is not passed over.
LEMMA AtHead ==
    ASSUME ReviewsAssumption, Graph!TypeOK, search # None, SearchInv(search), ~Graph!Done, ~Graph!Passed
    PROVE  /\ search.queue # <<>> /\ 1 \in DOMAIN search.queue /\ Graph!Cur = search.queue[1]
           /\ Len(Graph!Cur.path) = Hops(search, 1) /\ Hops(search, 1) \in Nat
           /\ Hops(search, 1) < search.depth /\ ~WasRead(search, search.queue[1].node)
           /\ search.queue[1].node \in Nodes /\ search.queue[1].path \in Seq(DOMAIN edges)
<1>1. search \in Searches
  BY SearchTyped
<1>2. search.queue # <<>> /\ search.queue \in Seq(Entries)
  BY <1>1, SearchFields DEF Graph!Done
<1>3. 1 \in DOMAIN search.queue /\ Graph!Cur = search.queue[1]
  BY <1>2, EmptySeq, LenProperties DEF Graph!Cur
<1>4. /\ Len(Graph!Cur.path) = Hops(search, 1) /\ Hops(search, 1) \in Nat /\ search.depth \in Nat
      /\ search.queue[1].node \in Nodes /\ search.queue[1].path \in Seq(DOMAIN edges)
  BY <1>1, <1>3, SearchFields DEF Hops
<1>5. Hops(search, 1) < search.depth
  BY <1>4 DEF Graph!Passed, Graph!TooDeep
<1>6. ~WasRead(search, search.queue[1].node)
  <2>1. search.by \in {"service", "engine"}
    BY <1>1 DEF Searches
  <2>2. CASE search.by = "service"
    BY <1>3, <2>2 DEF SearchInv, MetOnce
  <2>3. CASE search.by = "engine"
    <3>1. ~(search.read[search.queue[1].node] <= Hops(search, 1))
      BY <1>3, <1>4, <2>3 DEF Graph!Passed
    <3> QED
      BY <1>3, <1>4, <3>1 DEF SearchInv, InOrder
  <2> QED
    BY <2>1, <2>2, <2>3
<1> QED
  BY <1>2, <1>3, <1>4, <1>5, <1>6

LEMMA Neighbours ==
    ASSUME ReviewsAssumption, Graph!TypeOK, NEW n \in Nodes, NEW around, around \subseteq Graph!Touching(n)
    PROVE  /\ IsFiniteSet(around)
           /\ IsFiniteSet({Graph!Other(i, n) : i \in around})
           /\ {Graph!Other(i, n) : i \in around} \subseteq Nodes
<1> DEFINE Y == {Graph!Other(i, n) : i \in around}
           f == [i \in around |-> Graph!Other(i, n)]
<1>1. IsFiniteSet(around)
  BY TouchingFinite, FS_Subset
<1>2. f \in [around -> Y] /\ \A y \in Y : \E i \in around : f[i] = y
  OBVIOUS
<1>3. f \in Surjection(around, Y)
  BY <1>2 DEF Surjection
<1> HIDE DEF f
<1>4. IsFiniteSet(Y)
  BY <1>1, <1>3, FS_Surjection
<1>5. Y \subseteq Nodes
  BY Joins
<1> QED
  BY <1>1, <1>4, <1>5

\* What a read of the head adds to the rows that lead to the target.
LEMMA HitsFound ==
    ASSUME ReviewsAssumption, Graph!TypeOK, search # None, SearchInv(search), ~Graph!Done, ~Graph!Passed,
           NEW around, around \subseteq Graph!Touching(search.queue[1].node),
           NEW at \in Graph!Listed({i \in around : Graph!Other(i, search.queue[1].node) = search.to})
    PROVE  /\ Graph!Longer(at) \in Seq(Seq(DOMAIN edges))
           /\ \A k \in DOMAIN Graph!Longer(at) : Follows(search, Graph!Longer(at)[k], search.to)
           /\ (\E i \in around : Graph!Other(i, search.queue[1].node) = search.to) => Graph!Longer(at) # <<>>
<1> DEFINE c == search.queue[1].node
           p == search.queue[1].path
           hits == {i \in around : Graph!Other(i, c) = search.to}
           H == Graph!Longer(at)
<1>1. /\ c \in Nodes /\ p \in Seq(DOMAIN edges) /\ Graph!Cur = search.queue[1]
  BY AtHead
<1>2. hits \subseteq around /\ IsFiniteSet(around)
  BY <1>1, Neighbours
<1>3. IsFiniteSet(hits)
  BY <1>2, FS_Subset
<1>4. /\ Cardinality(hits) \in Nat /\ DOMAIN at = 1..Cardinality(hits)
      /\ \A k \in DOMAIN at : at[k] \in hits
      /\ \A i \in hits : \E j \in DOMAIN at : at[j] = i
  BY <1>3, ListedFields
<1>5. H = [k \in DOMAIN at |-> Append(p, at[k])]
  BY <1>1 DEF Graph!Longer
<1>6. ASSUME NEW k \in DOMAIN at
      PROVE  Append(p, at[k]) \in Seq(DOMAIN edges) /\ Follows(search, Append(p, at[k]), search.to)
  <2>1. at[k] \in Graph!Touching(c) /\ Graph!Other(at[k], c) = search.to
    BY <1>2, <1>4
  <2>2. at[k] \in DOMAIN edges
    BY <2>1 DEF Graph!Touching
  <2>3. Append(p, at[k]) \in Seq(DOMAIN edges)
    BY <1>1, <2>2, AppendProperties
  <2> QED
    BY <2>1, <2>3 DEF Follows
<1>7. DOMAIN H = DOMAIN at /\ \A k \in DOMAIN at : H[k] = Append(p, at[k])
  BY <1>5
<1> HIDE DEF H, hits
<1>8. H \in [1..Cardinality(hits) -> Seq(DOMAIN edges)]
  BY <1>4, <1>5, <1>6
<1>9. H \in Seq(Seq(DOMAIN edges))
  BY <1>4, <1>8, ListIsSequence
<1>10. ASSUME NEW i \in hits PROVE H # <<>>
  <2>1. DOMAIN H # {}
    BY <1>4, <1>7, <1>10
  <2>2. DOMAIN H = 1..Len(H)
    BY <1>9, LenProperties
  <2> QED
    BY <1>9, <2>1, <2>2, EmptySeq
<1>11. \A k \in DOMAIN H : Follows(search, H[k], search.to)
  BY <1>6, <1>7
<1>12. (\E i \in around : Graph!Other(i, c) = search.to) => H # <<>>
  BY <1>10 DEF hits
<1> QED
  BY <1>9, <1>11, <1>12 DEF H

\* A step of a search that reads the head of its queue.
LEMMA ReadExtends ==
    ASSUME ReviewsAssumption, Graph!TypeOK, search # None, SearchInv(search), ~Graph!Done, ~Graph!Passed,
           NEW at, NEW Q, NEW new, new \subseteq Nodes, Graph!Read(at, Q, new), Q \in Seq(Entries),
           Graph!Longer(at) \in Seq(Seq(DOMAIN edges)),
           \A k \in DOMAIN Graph!Longer(at) : Follows(search, Graph!Longer(at)[k], search.to),
           \A k \in DOMAIN Q : Q[k].node # search.to /\ Follows(search, Q[k].path, Q[k].node),
           search.by = "service" => new = {Q[k].node : k \in DOMAIN Q}
    PROVE  Extends(search, search', Q, Graph!Longer(at)) /\ search' \in Searches
<1> DEFINE H == Graph!Longer(at)
           c == search.queue[1]
<1>1. /\ search.queue # <<>> /\ Graph!Cur = c /\ Len(c.path) = Hops(search, 1)
      /\ Hops(search, 1) \in Nat /\ Hops(search, 1) < search.depth /\ ~WasRead(search, c.node)
  BY AtHead
<1>2. search \in Searches
  BY SearchTyped
<1>3. search' = [search EXCEPT !.queue = Tail(search.queue) \o Q,
                               !.met   = search.met \cup new,
                               !.read  = [search.read EXCEPT ![c.node] = Hops(search, 1)],
                               !.found = search.found \o H]
  BY <1>1 DEF Graph!Read
<1> HIDE DEF H
<1>4. /\ search'.queue = Tail(search.queue) \o Q /\ search'.found = search.found \o H
      /\ search'.read = [search.read EXCEPT ![c.node] = Hops(search, 1)]
      /\ search'.by = search.by /\ search'.from = search.from /\ search'.to = search.to
      /\ search'.depth = search.depth /\ search'.quiet = search.quiet
      /\ search'.met = search.met \cup new
  BY <1>2, <1>3 DEF Searches
<1>5. Extends(search, search', Q, H)
  BY <1>1, <1>4 DEF Extends, H
<1>6. search'.queue \in Seq(Entries) /\ search'.found \in Seq(Seq(DOMAIN edges))
  BY <1>2, <1>5, ExtendsFields
<1>7. search'.read \in [Nodes -> 0..Graph!Unread]
  <2>1. Hops(search, 1) \in 0..Graph!Unread
    BY <1>1, <1>2, SearchFields
  <2> QED
    BY <1>2, <1>4, <2>1 DEF Searches
<1>8. search'.met \subseteq Nodes
  BY <1>2, <1>4, SearchFields
<1>9. search' = [search EXCEPT !.queue = search'.queue, !.met = search'.met, !.read = search'.read,
                               !.found = search'.found]
  BY <1>3, <1>4
<1>10. search' \in Searches
  BY <1>2, <1>6, <1>7, <1>8, <1>9 DEF Searches
<1> QED
  BY <1>5, <1>10 DEF H

\* What such a step keeps, whoever searches.
LEMMA ReadKeeps ==
    ASSUME ReviewsAssumption, Graph!TypeOK, search # None, SearchInv(search),
           NEW Q, NEW H, Extends(search, search', Q, H), Brings(search, search', H),
           search.by = "service" => Fresh(search, Q)
    PROVE  SearchInv(search')
<1>1. search \in Searches /\ search'.by = search.by
  BY SearchTyped DEF Extends
<1>2. InOrder(search) /\ Covered(search) /\ Trails(search) /\ (search.by = "service" => MetOnce(search))
  BY DEF SearchInv
<1>3. InOrder(search')
  BY <1>1, <1>2, OrderKept
<1>4. Covered(search')
  BY <1>1, <1>2, CoveredKept
<1>5. Trails(search')
  BY <1>1, <1>2, TrailsKept
<1>6. search'.by = "service" => MetOnce(search')
  BY <1>1, <1>2, MetOnceKept
<1> QED
  BY <1>3, <1>4, <1>5, <1>6 DEF SearchInv

LEMMA FindPathKeeps ==
    ASSUME ReviewsAssumption, Graph!TypeOK, search # None, SearchInv(search), Graph!FindPath
    PROVE  search' \in Searches /\ SearchInv(search')
<1> DEFINE c == search.queue[1].node
           p == search.queue[1].path
           h == Hops(search, 1)
           around == Graph!Touching(c)
           hits == {i \in around : Graph!Other(i, c) = search.to}
           near == {Graph!Other(i, c) : i \in around}
           new  == near \ (search.met \cup {search.to})
<1>1. ~Graph!Done /\ ~Graph!Passed /\ search.by = "service" /\ search \in Searches
  BY SearchTyped DEF Graph!FindPath
<1>2. /\ search.queue # <<>> /\ 1 \in DOMAIN search.queue /\ Graph!Cur = search.queue[1]
      /\ h \in Nat /\ h < search.depth /\ c \in Nodes /\ p \in Seq(DOMAIN edges)
  BY <1>1, AtHead
<1>3. PICK at \in Graph!Listed(hits), q \in Graph!Listed(new), first \in [new -> around] :
        /\ \A y \in new : Graph!Other(first[y], c) = y
        /\ Graph!Read(at, [k \in DOMAIN q |-> [node |-> q[k], path |-> Append(p, first[q[k]])]], new)
  <2> DEFINE R(d) == Graph!Touching(d)
             N(d) == {Graph!Other(i, d) : i \in R(d)} \ (search.met \cup {search.to})
             By(d, e) ==
               \E at \in Graph!Listed({i \in R(d) : Graph!Other(i, d) = search.to}),
                  q \in Graph!Listed(N(d)), first \in [N(d) -> R(d)] :
                 /\ \A y \in N(d) : Graph!Other(first[y], d) = y
                 /\ Graph!Read(at, [k \in DOMAIN q |->
                       [node |-> q[k], path |-> Append(e, first[q[k]])]], N(d))
  <2>1. By(Graph!Cur.node, Graph!Cur.path)
    BY Zenon DEF Graph!FindPath
  <2>2. Graph!Cur.node = c /\ Graph!Cur.path = p
    BY <1>2
  <2> HIDE DEF By
  <2>3. By(c, p)
    BY <2>1, <2>2
  <2> QED
    BY <2>3, Zenon DEF By
<1> DEFINE Q == [k \in DOMAIN q |-> [node |-> q[k], path |-> Append(p, first[q[k]])]]
           H == Graph!Longer(at)
<1>4. IsFiniteSet(near) /\ near \subseteq Nodes
  BY <1>2, Neighbours
<1>5. IsFiniteSet(new) /\ new \subseteq Nodes
  <2>1. new \in SUBSET near
    OBVIOUS
  <2> QED
    BY <1>4, <2>1, FS_Subset
<1> HIDE DEF new, near
<1>6. /\ Cardinality(new) \in Nat /\ DOMAIN q = 1..Cardinality(new) /\ \A k \in DOMAIN q : q[k] \in new
      /\ \A j, k \in DOMAIN q : q[j] = q[k] => j = k
      /\ \A y \in new : \E j \in DOMAIN q : q[j] = y
  BY <1>5, ListedFields
<1>7. ASSUME NEW k \in DOMAIN q
      PROVE  /\ [node |-> q[k], path |-> Append(p, first[q[k]])] \in Entries
             /\ Follows(search, Append(p, first[q[k]]), q[k])
             /\ q[k] # search.to /\ q[k] \notin search.met
  <2>1. q[k] \in new /\ first[q[k]] \in around /\ Graph!Other(first[q[k]], c) = q[k]
    BY <1>3, <1>6
  <2>2. q[k] \in Nodes /\ q[k] # search.to /\ q[k] \notin search.met
    BY <1>5, <2>1 DEF new
  <2>3. first[q[k]] \in DOMAIN edges
    BY <2>1 DEF Graph!Touching
  <2>4. Append(p, first[q[k]]) \in Seq(DOMAIN edges)
    BY <1>2, <2>3, AppendProperties
  <2>5. Follows(search, Append(p, first[q[k]]), q[k])
    BY <2>1 DEF Follows
  <2> QED
    BY <2>2, <2>4, <2>5 DEF Entries
<1>8. /\ DOMAIN Q = DOMAIN q
      /\ \A k \in DOMAIN q : Q[k] \in Entries /\ Q[k].node = q[k] /\ Q[k].path = Append(p, first[q[k]])
  BY <1>7
<1>9. Q \in Seq(Entries)
  <2>1. Q \in [1..Cardinality(new) -> Entries]
    BY <1>6, <1>7
  <2> QED
    BY <1>6, <2>1, ListIsSequence
<1>10. Graph!Read(at, Q, new)
  BY <1>3
<1> HIDE DEF Q
<1>11. \A k \in DOMAIN Q : Q[k].node # search.to /\ Follows(search, Q[k].path, Q[k].node)
  BY <1>7, <1>8
<1>12. Fresh(search, Q)
  <2>1. \A k \in DOMAIN Q : Q[k].node \notin search.met
    BY <1>7, <1>8
  <2>2. \A j, k \in DOMAIN Q : Q[j].node = Q[k].node => j = k
    BY <1>6, <1>8
  <2> QED
    BY <2>1, <2>2 DEF Fresh
<1>13. new = {Q[k].node : k \in DOMAIN Q}
  <2>1. \A y \in new : \E k \in DOMAIN Q : y = Q[k].node
    BY <1>6, <1>8
  <2>2. \A k \in DOMAIN Q : Q[k].node \in new
    BY <1>6, <1>8
  <2> QED
    BY <2>1, <2>2
<1>14. /\ H \in Seq(Seq(DOMAIN edges)) /\ \A k \in DOMAIN H : Follows(search, H[k], search.to)
       /\ (\E i \in around : Graph!Other(i, c) = search.to) => H # <<>>
  <2>1. around \subseteq Graph!Touching(c)
    OBVIOUS
  <2> QED
    BY <1>1, <1>3, <2>1, HitsFound
<1>15. Extends(search, search', Q, H) /\ search' \in Searches
  BY <1>1, <1>5, <1>9, <1>10, <1>11, <1>13, <1>14, ReadExtends
<1>16. ASSUME NEW y \in Nodes, Graph!Linked(c, y)
       PROVE  IF y = search.to THEN H # <<>> ELSE Scheduled(search', y, h + 1)
  <2>1. PICK i \in around : y = Graph!Other(i, c)
    BY <1>16 DEF Graph!Linked
  <2>2. CASE y = search.to
    BY <1>14, <2>1, <2>2
  <2>3. CASE y # search.to /\ y \notin search.met
    <3>1. y \in new
      BY <2>1, <2>3 DEF new, near
    <3>2. PICK j \in DOMAIN Q : Q[j].node = y
      BY <1>6, <1>8, <3>1
    <3>3. \E k \in DOMAIN search'.queue : search'.queue[k] = Q[j] /\ Hops(search', k) = h + 1
      BY <1>1, <1>15, ExtendsFields
    <3>4. Scheduled(search', y, h + 1)
      BY <1>2, <3>2, <3>3 DEF Scheduled
    <3> QED
      BY <2>3, <3>4
  <2>4. CASE y # search.to /\ y \in search.met
    <3>0. h + 1 \in Nat
      BY <1>2
    <3>1. CASE WasRead(search, y)
      <4>1. search.read[y] <= h /\ search.read[y] \in Nat
        BY <1>1, <1>2, <3>1, SearchFields DEF SearchInv, InOrder
      <4>2. Scheduled(search, y, h + 1)
        BY <1>2, <4>1 DEF Scheduled
      <4> QED
        BY <1>1, <1>15, <2>4, <3>0, <4>2, ScheduledKept
    <3>2. ASSUME NEW k \in DOMAIN search.queue, search.queue[k].node = y
          PROVE  Scheduled(search', y, h + 1)
      <4>1. Hops(search, k) <= h + 1
        BY <1>2 DEF SearchInv, InOrder
      <4>2. Scheduled(search, y, h + 1)
        BY <3>2, <4>1 DEF Scheduled
      <4> QED
        BY <1>1, <1>15, <3>0, <4>2, ScheduledKept
    <3>3. ~(\A k \in DOMAIN search.queue : search.depth <= Hops(search, k))
      BY <1>1, <1>2, SearchFields
    <3>4. \/ WasRead(search, y)
          \/ \E k \in DOMAIN search.queue : search.queue[k].node = y
      BY <1>1, <2>4, <3>3 DEF SearchInv, MetOnce
    <3> QED
      BY <2>4, <3>1, <3>2, <3>4
  <2> QED
    BY <2>2, <2>3, <2>4
<1>17. Brings(search, search', H)
  BY <1>16 DEF Brings
<1>18. SearchInv(search')
  BY <1>12, <1>15, <1>17, ReadKeeps
<1> QED
  BY <1>15, <1>18

LEMMA FindPathsKeeps ==
    ASSUME ReviewsAssumption, Graph!TypeOK, search # None, SearchInv(search), Graph!FindPaths
    PROVE  search' \in Searches /\ SearchInv(search')
<1> DEFINE c == search.queue[1].node
           p == search.queue[1].path
           h == Hops(search, 1)
           around == Graph!Newest(c)
           hits == {i \in around : Graph!Other(i, c) = search.to}
           rest == around \ hits
<1>1. ~Graph!Done /\ ~Graph!Passed /\ search.by = "engine" /\ search \in Searches
  BY SearchTyped DEF Graph!FindPaths
<1>2. /\ search.queue # <<>> /\ 1 \in DOMAIN search.queue /\ Graph!Cur = search.queue[1]
      /\ h \in Nat /\ h < search.depth /\ c \in Nodes /\ p \in Seq(DOMAIN edges)
  BY <1>1, AtHead
<1>3. PICK at \in Graph!Listed(hits), q \in Graph!Listed(rest) :
        Graph!Read(at, [k \in DOMAIN q |-> [node |-> Graph!Other(q[k], c), path |-> Append(p, q[k])]], {})
  BY <1>2 DEF Graph!FindPaths
<1> DEFINE Q == [k \in DOMAIN q |-> [node |-> Graph!Other(q[k], c), path |-> Append(p, q[k])]]
           H == Graph!Longer(at)
<1>4. around \subseteq Graph!Touching(c) /\ IsFiniteSet(around)
  BY <1>2, TouchingFinite, Neighbours
<1>5. IsFiniteSet(rest)
  <2>1. rest \in SUBSET around
    OBVIOUS
  <2> QED
    BY <1>4, <2>1, FS_Subset
<1> HIDE DEF rest
<1>6. /\ Cardinality(rest) \in Nat /\ DOMAIN q = 1..Cardinality(rest) /\ \A k \in DOMAIN q : q[k] \in rest
      /\ \A i \in rest : \E j \in DOMAIN q : q[j] = i
  BY <1>5, ListedFields
<1>7. ASSUME NEW k \in DOMAIN q
      PROVE  /\ [node |-> Graph!Other(q[k], c), path |-> Append(p, q[k])] \in Entries
             /\ Follows(search, Append(p, q[k]), Graph!Other(q[k], c))
             /\ Graph!Other(q[k], c) # search.to
  <2>1. q[k] \in Graph!Touching(c) /\ Graph!Other(q[k], c) # search.to
    BY <1>4, <1>6 DEF rest
  <2>2. q[k] \in DOMAIN edges /\ Graph!Other(q[k], c) \in Nodes
    BY <1>2, <2>1, Joins
  <2>3. Append(p, q[k]) \in Seq(DOMAIN edges)
    BY <1>2, <2>2, AppendProperties
  <2>4. Follows(search, Append(p, q[k]), Graph!Other(q[k], c))
    BY <2>1 DEF Follows
  <2> QED
    BY <2>1, <2>2, <2>3, <2>4 DEF Entries
<1>8. /\ DOMAIN Q = DOMAIN q
      /\ \A k \in DOMAIN q : Q[k].node = Graph!Other(q[k], c) /\ Q[k].path = Append(p, q[k])
  OBVIOUS
<1>9. Q \in Seq(Entries)
  <2>1. Q \in [1..Cardinality(rest) -> Entries]
    BY <1>6, <1>7
  <2> QED
    BY <1>6, <2>1, ListIsSequence
<1>10. Graph!Read(at, Q, {})
  BY <1>3
<1> HIDE DEF Q
<1>11. \A k \in DOMAIN Q : Q[k].node # search.to /\ Follows(search, Q[k].path, Q[k].node)
  BY <1>7, <1>8
<1>12. /\ H \in Seq(Seq(DOMAIN edges)) /\ \A k \in DOMAIN H : Follows(search, H[k], search.to)
       /\ (\E i \in around : Graph!Other(i, c) = search.to) => H # <<>>
  BY <1>1, <1>3, <1>4, HitsFound
<1>13. Extends(search, search', Q, H) /\ search' \in Searches
  BY <1>1, <1>9, <1>10, <1>11, <1>12, ReadExtends
<1>14. ASSUME Steady(search), NEW y \in Nodes, Graph!Linked(c, y)
       PROVE  IF y = search.to THEN H # <<>> ELSE Scheduled(search', y, h + 1)
  <2>1. Cardinality(Graph!Touching(c)) <= EdgeLimit
    BY <1>1, <1>2, <1>14, GraphCounts DEF Steady, Graph!Narrow
  <2>2. around = Graph!Touching(c)
    BY <1>2, <2>1, TouchingFinite
  <2>3. PICK i \in around : y = Graph!Other(i, c)
    BY <1>14, <2>2 DEF Graph!Linked
  <2>4. CASE y = search.to
    BY <1>12, <2>3, <2>4
  <2>5. CASE y # search.to
    <3>1. i \in rest
      BY <2>3, <2>5 DEF rest
    <3>2. PICK j \in DOMAIN Q : Q[j].node = y
      BY <1>6, <1>8, <2>3, <3>1
    <3>3. \E k \in DOMAIN search'.queue : search'.queue[k] = Q[j] /\ Hops(search', k) = h + 1
      BY <1>1, <1>13, ExtendsFields
    <3>4. Scheduled(search', y, h + 1)
      BY <1>2, <3>2, <3>3 DEF Scheduled
    <3> QED
      BY <2>5, <3>4
  <2> QED
    BY <2>4, <2>5
<1>15. Brings(search, search', H)
  BY <1>14 DEF Brings
<1>16. SearchInv(search')
  BY <1>1, <1>13, <1>15, ReadKeeps
<1> QED
  BY <1>13, <1>16

\* An entry beyond the depth, or whose node the engine has read, is dropped.
LEMMA PassKeeps ==
    ASSUME ReviewsAssumption, Graph!TypeOK, search # None, SearchInv(search), Graph!Pass
    PROVE  search' \in Searches /\ SearchInv(search')
<1> DEFINE c == search.queue[1].node
           h == Hops(search, 1)
<1>1. search \in Searches /\ ~Graph!Done /\ Graph!Passed
  BY SearchTyped DEF Graph!Pass
<1>2. search.queue \in Seq(Entries) /\ search.queue # <<>>
  BY <1>1, SearchFields DEF Graph!Done
<1>3. search' = [search EXCEPT !.queue = Tail(search.queue)]
  BY DEF Graph!Pass
<1>4. /\ search'.queue = Tail(search.queue) /\ search'.found = search.found
      /\ search'.read = search.read /\ search'.by = search.by /\ search'.from = search.from
      /\ search'.to = search.to /\ search'.depth = search.depth /\ search'.quiet = search.quiet
      /\ search'.met = search.met
  BY <1>1, <1>3 DEF Searches
<1>5. /\ Tail(search.queue) \in Seq(Entries) /\ 1 \in DOMAIN search.queue
      /\ \A k \in DOMAIN Tail(search.queue) :
            k \in Nat /\ k + 1 \in DOMAIN search.queue /\ Tail(search.queue)[k] = search.queue[k + 1]
      /\ \A k \in DOMAIN search.queue :
            k \in Nat /\ (k # 1 => k - 1 \in DOMAIN Tail(search.queue)
                                   /\ Tail(search.queue)[k - 1] = search.queue[k])
  <2>1. /\ Tail(search.queue) \in Seq(Entries) /\ Len(Tail(search.queue)) = Len(search.queue) - 1
        /\ Len(search.queue) \in Nat /\ Len(search.queue) >= 1
        /\ \A i \in 1..Len(Tail(search.queue)) : Tail(search.queue)[i] = search.queue[i + 1]
    BY <1>2, HeadTailProperties, EmptySeq, LenProperties
  <2>2. /\ DOMAIN search.queue = 1..Len(search.queue)
        /\ DOMAIN Tail(search.queue) = 1..(Len(search.queue) - 1)
    BY <1>2, <2>1, LenProperties
  <2> QED
    BY <2>1, <2>2
<1>6. /\ \A k \in DOMAIN search'.queue : /\ k \in Nat /\ k + 1 \in DOMAIN search.queue
                                         /\ search'.queue[k] = search.queue[k + 1]
                                         /\ Hops(search', k) = Hops(search, k + 1)
      /\ \A k \in DOMAIN search.queue : k # 1 =>
            /\ k - 1 \in DOMAIN search'.queue /\ search'.queue[k - 1] = search.queue[k]
            /\ Hops(search', k - 1) = Hops(search, k)
  BY <1>4, <1>5 DEF Hops
<1>7. search' \in Searches
  BY <1>1, <1>3, <1>5 DEF Searches
<1>8. h \in Nat /\ search.depth \in Nat /\ c \in Nodes
  BY <1>1, <1>5, SearchFields
<1>9. search.depth <= h \/ (search.by = "engine" /\ search.read[c] <= h)
  <2>1. Graph!Cur = search.queue[1] /\ Len(Graph!Cur.path) = h
    BY <1>2, <1>5 DEF Graph!Cur, Hops
  <2> QED
    BY <1>1, <1>8, <2>1 DEF Graph!Passed, Graph!TooDeep
<1>10. \A x : WasRead(search', x) <=> WasRead(search, x)
  BY <1>4 DEF WasRead
<1>11. AllRead(search') = AllRead(search)
  BY <1>10 DEF AllRead
<1>12. InOrder(search')
  <2>1. \A j, k \in DOMAIN search'.queue :
           (j < k => Hops(search', j) <= Hops(search', k)) /\ Hops(search', k) <= Hops(search', j) + 1
    BY <1>6 DEF SearchInv, InOrder
  <2>2. \A k \in DOMAIN search'.queue : Hops(search', k) <= search'.depth
    BY <1>4, <1>6 DEF SearchInv, InOrder
  <2>3. \A x \in Nodes : WasRead(search', x) =>
           /\ search'.read[x] < search'.depth
           /\ \A k \in DOMAIN search'.queue : search'.read[x] <= Hops(search', k)
    BY <1>4, <1>6, <1>10 DEF SearchInv, InOrder
  <2>4. \A f \in DOMAIN search'.found :
           /\ Len(search'.found[f]) <= search'.depth
           /\ \A k \in DOMAIN search'.queue : Len(search'.found[f]) <= Hops(search', k) + 1
    BY <1>4, <1>6 DEF SearchInv, InOrder
  <2>5. \A f, g \in DOMAIN search'.found : f < g => Len(search'.found[f]) <= Len(search'.found[g])
    BY <1>4 DEF SearchInv, InOrder
  <2> QED
    BY <2>1, <2>2, <2>3, <2>4, <2>5 DEF InOrder
<1>13. ASSUME NEW y \in Nodes, NEW l \in Nat, Scheduled(search, y, l) PROVE Scheduled(search', y, l)
  <2>1. CASE search.depth <= l \/ search.read[y] <= l
    BY <1>4, <2>1 DEF Scheduled
  <2>2. ASSUME NEW k \in DOMAIN search.queue, search.queue[k].node = y, Hops(search, k) <= l
        PROVE  Scheduled(search', y, l)
    <3>1. CASE k # 1
      BY <1>6, <2>2, <3>1 DEF Scheduled
    <3>2. CASE k = 1
      <4>1. search.depth <= l \/ search.read[y] <= l
        BY <1>1, <1>8, <1>9, <2>2, <3>2, SearchFields
      <4> QED
        BY <1>4, <4>1 DEF Scheduled
    <3> QED
      BY <3>1, <3>2
  <2> QED
    BY <1>13, <2>1, <2>2 DEF Scheduled
<1>14. Covered(search')
  <2>1. Scheduled(search', search'.from, 0)
    BY <1>1, <1>4, <1>13, SearchFields DEF SearchInv, Covered
  <2>2. ASSUME Steady(search'), NEW x \in Nodes, NEW y \in Nodes, WasRead(search', x), Graph!Linked(x, y)
        PROVE  IF y = search'.to THEN search'.found # <<>> /\ Len(search'.found[1]) <= search'.read[x] + 1
               ELSE Scheduled(search', y, search'.read[x] + 1)
    <3>1. IF y = search.to THEN search.found # <<>> /\ Len(search.found[1]) <= search.read[x] + 1
          ELSE Scheduled(search, y, search.read[x] + 1)
      BY <1>4, <1>10, <2>2 DEF SearchInv, Covered, Steady
    <3>2. search.read[x] + 1 \in Nat
      BY <1>1, SearchFields
    <3> QED
      BY <1>4, <1>13, <3>1, <3>2
  <2> QED
    BY <2>1, <2>2 DEF Covered
<1>15. Trails(search')
  <2>1. \A k \in DOMAIN search'.queue : k + 1 \in DOMAIN search.queue /\ search'.queue[k] = search.queue[k + 1]
    BY <1>6
  <2> QED
    BY <1>4, <1>10, <1>11, <2>1 DEF SearchInv, Trails
<1>16. search'.by = "service" => MetOnce(search')
  <2> SUFFICES ASSUME search.by = "service" PROVE MetOnce(search')
    BY <1>4
  <2>1. MetOnce(search)
    BY DEF SearchInv
  <2>2. \A k \in DOMAIN search'.queue :
            search'.queue[k].node \in search'.met /\ ~WasRead(search', search'.queue[k].node)
    BY <1>4, <1>6, <1>10, <2>1 DEF MetOnce
  <2>3. \A j, k \in DOMAIN search'.queue : search'.queue[j].node = search'.queue[k].node => j = k
    BY <1>6, <2>1 DEF MetOnce
  <2>4. \A x \in Nodes : WasRead(search', x) => x \in search'.met
    BY <1>4, <1>10, <2>1 DEF MetOnce
  <2>5. ASSUME NEW k \in DOMAIN search'.queue PROVE search'.depth <= Hops(search', k)
    <3>1. k + 1 \in DOMAIN search.queue /\ Hops(search', k) = Hops(search, k + 1)
      BY <1>6
    <3>5. k \in 1..(Len(search.queue) - 1) /\ 1 < k + 1
      BY <1>4, <1>5
    <3>2. h <= Hops(search, k + 1)
      BY <1>5, <3>1, <3>5 DEF SearchInv, InOrder
    <3>3. search.depth <= h /\ search'.depth = search.depth
      BY <1>4, <1>9
    <3>4. Hops(search, k + 1) \in Nat
      BY <1>1, <3>1, SearchFields
    <3> QED
      BY <1>8, <3>1, <3>2, <3>3, <3>4
  <2> QED
    BY <2>2, <2>3, <2>4, <2>5 DEF MetOnce
<1> QED
  BY <1>7, <1>12, <1>14, <1>15, <1>16 DEF SearchInv

\* A request that nothing was written under reads the same edges.
LEMMA SearchUnwritten ==
    ASSUME edges' = edges, search' # None, search' \in Searches, SearchInv(search')
    PROVE  (search # None => search \in Searches)' /\ SearchInv(search)'
<1>1. InOrder(search)' <=> InOrder(search')
  BY DEF InOrder, Hops, WasRead, Graph!Unread
<1>2. Covered(search)' <=> Covered(search')
  BY DEF Covered, Scheduled, Steady, Hops, WasRead, Graph!Unread, Graph!Linked, Graph!Touching,
         Graph!Other, Graph!Narrow
<1>3. MetOnce(search)' <=> MetOnce(search')
  BY DEF MetOnce, Hops, WasRead, Graph!Unread
<1>4. Trails(search)' <=> Trails(search')
  BY DEF Trails, AllRead, WasRead, Graph!Unread, Trail, Alive
<1>5. SearchInv(search)'
  BY <1>1, <1>2, <1>3, <1>4 DEF SearchInv
<1> QED
  BY <1>5 DEF Searches, Entries

LEMMA AskKeeps ==
    ASSUME ReviewsAssumption, NEW by \in {"service", "engine"}, NEW n \in Nodes, NEW m \in Nodes,
           NEW d \in Depths, Graph!Ask(by, n, m, d)
    PROVE  search' # None => search' \in Searches /\ SearchInv(search')
<1> DEFINE s == search'
<1>1. s = [by |-> by, from |-> n, to |-> m, depth |-> d,
           queue |-> <<[node |-> n, path |-> <<>>]>>, met |-> {n},
           read |-> [x \in Nodes |-> Graph!Unread], found |-> <<>>, quiet |-> TRUE]
  BY DEF Graph!Ask
<1> HIDE DEF s
<1>2. [node |-> n, path |-> <<>>] \in Entries
  BY DEF Entries
<1>3. s \in Searches
  BY <1>1, <1>2 DEF Searches, Graph!Unread
<1>4. /\ DOMAIN s.queue = {1} /\ s.queue[1].node = n /\ s.queue[1].path = <<>> /\ Hops(s, 1) = 0
      /\ DOMAIN s.found = {} /\ s.met = {n} /\ s.from = n /\ s.to = m /\ s.depth = d /\ d \in 1..5
      /\ \A x \in Nodes : ~WasRead(s, x)
  BY <1>1, GraphAssumed DEF Hops, WasRead
<1>5. InOrder(s)
  BY <1>4 DEF InOrder
<1>6. Covered(s)
  BY <1>4 DEF Covered, Scheduled
<1>7. MetOnce(s)
  BY <1>4 DEF MetOnce
<1>8. Trail(<<>>, n, n, AllRead(s))
  <2> DEFINE w == [k \in 0..0 |-> n]
  <2>1. /\ w \in [0..Len(<<>>) -> Nodes] /\ w[0] = n /\ w[Len(<<>>)] = n
        /\ 0..(Len(<<>>) - 1) = {} /\ DOMAIN <<>> = {}
    OBVIOUS
  <2> QED
    BY <2>1 DEF Trail, TrailIn
<1>9. Alive(<<>>)
  BY DEF Alive, AliveIn
<1>10. Trails(s)
  BY <1>4, <1>8, <1>9 DEF Trails
<1> QED
  BY <1>3, <1>5, <1>6, <1>7, <1>10 DEF s, SearchInv

\* Edges are added, and the two ends of an edge never change.
LEMMA WritesKeepEnds ==
    ASSUME ReviewsAssumption, Graph!TypeOK,
           \/ \E x, y \in Nodes, t \in ValidFroms : Graph!Insert(x, y, t)
           \/ \E i \in DOMAIN edges, st \in Graph!Statuses : Graph!SetStatus(i, st)
    PROVE  /\ edges' \in Seq([s : Nodes, o : Nodes, from : ValidFroms, status : Graph!Statuses])
           /\ DOMAIN edges \subseteq DOMAIN edges'
           /\ \A i \in DOMAIN edges : edges'[i].s = edges[i].s /\ edges'[i].o = edges[i].o
           /\ Graph!Written
<1> DEFINE Rows == [s : Nodes, o : Nodes, from : ValidFroms, status : Graph!Statuses]
<1>1. edges \in Seq(Rows)
  BY EdgeFields
<1>2. ASSUME NEW x \in Nodes, NEW y \in Nodes, NEW t \in ValidFroms, Graph!Insert(x, y, t)
      PROVE  /\ edges' \in Seq(Rows) /\ DOMAIN edges \subseteq DOMAIN edges'
             /\ \A i \in DOMAIN edges : edges'[i].s = edges[i].s /\ edges'[i].o = edges[i].o
             /\ Graph!Written
  <2> DEFINE e == [s |-> x, o |-> y, from |-> t, status |-> "active"]
  <2>1. e \in Rows /\ edges' = Append(edges, e) /\ Graph!Written
    BY <1>2 DEF Graph!Insert, Graph!Statuses
  <2> QED
    BY <1>1, <2>1, Appended
<1>3. ASSUME NEW j \in DOMAIN edges, NEW st \in Graph!Statuses, Graph!SetStatus(j, st)
      PROVE  /\ edges' \in Seq(Rows) /\ DOMAIN edges \subseteq DOMAIN edges'
             /\ \A i \in DOMAIN edges : edges'[i].s = edges[i].s /\ edges'[i].o = edges[i].o
             /\ Graph!Written
  <2>1. edges' = [edges EXCEPT ![j].status = st] /\ Graph!Written
    BY <1>3 DEF Graph!SetStatus
  <2>2. edges[j] \in Rows
    BY <1>1, Elements
  <2>3. [edges[j] EXCEPT !.status = st] \in Rows
    BY <2>2
  <2>4. edges' = [edges EXCEPT ![j] = [edges[j] EXCEPT !.status = st]]
    BY <2>1
  <2>5. /\ edges' \in Seq(Rows) /\ DOMAIN edges' = DOMAIN edges
        /\ \A i \in DOMAIN edges : edges'[i] = IF i = j THEN [edges[j] EXCEPT !.status = st] ELSE edges[i]
    BY <1>1, <2>3, <2>4
  <2>6. \A i \in DOMAIN edges : edges'[i].s = edges[i].s /\ edges'[i].o = edges[i].o
    BY <2>2, <2>5
  <2> QED
    BY <2>1, <2>5, <2>6
<1> QED
  BY <1>2, <1>3, Zenon

\* A write only ends the quiet of a search.
LEMMA WriteKeepsSearch ==
    ASSUME ReviewsAssumption, Graph!TypeOK, search # None => SearchInv(search),
           DOMAIN edges \subseteq DOMAIN edges',
           \A i \in DOMAIN edges : edges'[i].s = edges[i].s /\ edges'[i].o = edges[i].o,
           Graph!Written
    PROVE  (search # None => search \in Searches)' /\ (search # None => SearchInv(search))'
<1> SUFFICES ASSUME search' # None
             PROVE  (search \in Searches)' /\ SearchInv(search)'
  OBVIOUS
<1>1. search # None /\ search' = [search EXCEPT !.quiet = FALSE]
  BY DEF Graph!Written, Graph!Disturbed
<1>2. search \in Searches /\ SearchInv(search)
  BY <1>1, SearchTyped
<1>3. /\ search'.queue = search.queue /\ search'.found = search.found /\ search'.met = search.met
      /\ search'.read = search.read /\ search'.by = search.by /\ search'.from = search.from
      /\ search'.to = search.to /\ search'.depth = search.depth /\ search'.quiet = FALSE
  BY <1>1, <1>2 DEF Searches
<1>4. search.queue \in Seq(Entries) /\ search.found \in Seq(Seq(DOMAIN edges))
  BY <1>2, SearchFields
<1>5. \A q \in Seq(DOMAIN edges) : q \in Seq(DOMAIN edges')
  BY Elements
<1>6. search.queue \in Seq([node : Nodes, path : Seq(DOMAIN edges')])
  <2> DEFINE A == Seq(DOMAIN edges)
             B == Seq(DOMAIN edges')
             T == [node : Nodes, path : B]
  <2>0. A \subseteq B
    BY <1>5
  <2> HIDE DEF A, B
  <2>a. [node : Nodes, path : A] \subseteq [node : Nodes, path : B]
    BY <2>0
  <2>1. Entries \subseteq T
    BY <2>a DEF Entries, A
  <2> HIDE DEF T
  <2>2. search.queue \in Seq(T)
    BY <1>4, <2>1, Elements
  <2> QED
    BY <2>2 DEF T, B
<1>7. search.found \in Seq(Seq(DOMAIN edges'))
  <2>1. Seq(DOMAIN edges) \subseteq Seq(DOMAIN edges')
    BY <1>5
  <2> QED
    BY <1>4, <2>1, Elements
<1>8. (search \in Searches)'
  BY <1>1, <1>2, <1>6, <1>7 DEF Searches, Entries
<1>9. ASSUME NEW p \in Seq(DOMAIN edges), NEW n, NEW m, NEW R, TrailIn(edges, p, n, m, R)
      PROVE  TrailIn(edges', p, n, m, R)
  <2>1. PICK w \in [0..Len(p) -> Nodes] :
          /\ w[0] = n /\ w[Len(p)] = m
          /\ \A j \in 0..(Len(p) - 1) : w[j] \in R /\ \A k \in 0..(Len(p) - 1) : w[j] = w[k] => j = k
          /\ \A k \in DOMAIN p : {w[k - 1], w[k]} = {edges[p[k]].s, edges[p[k]].o}
    BY <1>9, Zenon DEF TrailIn
  <2>2. \A k \in DOMAIN p : p[k] \in DOMAIN edges
    BY Elements
  <2>3. \A k \in DOMAIN p : {w[k - 1], w[k]} = {edges'[p[k]].s, edges'[p[k]].o}
    BY <2>1, <2>2
  <2> QED
    BY <2>1, <2>3, Zenon DEF TrailIn
<1>10. AllRead(search)' = AllRead(search)
  BY <1>3 DEF AllRead, WasRead, Graph!Unread
<1>11. InOrder(search)'
  BY <1>2, <1>3 DEF SearchInv, InOrder, Hops, WasRead, Graph!Unread
<1>12. Covered(search)'
  BY <1>2, <1>3 DEF SearchInv, Covered, Steady, Scheduled, Hops
<1>13. (search.by = "service" => MetOnce(search))'
  BY <1>2, <1>3 DEF SearchInv, MetOnce, Hops, WasRead, Graph!Unread
<1>14. Trails(search)'
  <2>1. SUFFICES ASSUME search.from # search.to
                 PROVE  /\ (~WasRead(search, search.to))'
                        /\ search'.by = "service" => search'.to \notin search'.met
                        /\ \A k \in DOMAIN search'.queue :
                              /\ search'.queue[k].node # search'.to
                              /\ TrailIn(edges', search'.queue[k].path, search'.from, search'.queue[k].node, AllRead(search)')
                        /\ \A f \in DOMAIN search'.found :
                              TrailIn(edges', search'.found[f], search'.from, search'.to, AllRead(search)')
    BY <1>3 DEF Trails, Trail
  <2>2. (~WasRead(search, search.to))'
    BY <1>2, <1>3, <2>1 DEF SearchInv, Trails, WasRead, Graph!Unread
  <2>3. \A k \in DOMAIN search.queue : search.queue[k].path \in Seq(DOMAIN edges)
    BY <1>2, SearchFields
  <2>4. \A f \in DOMAIN search.found : search.found[f] \in Seq(DOMAIN edges)
    BY <1>2, SearchFields
  <2>5. ASSUME NEW k \in DOMAIN search.queue
        PROVE  /\ search.queue[k].node # search.to
               /\ TrailIn(edges', search.queue[k].path, search.from, search.queue[k].node, AllRead(search))
    BY <1>2, <1>9, <2>1, <2>3 DEF SearchInv, Trails, Trail
  <2>6. ASSUME NEW f \in DOMAIN search.found
        PROVE  TrailIn(edges', search.found[f], search.from, search.to, AllRead(search))
    BY <1>2, <1>9, <2>1, <2>4 DEF SearchInv, Trails, Trail
  <2>7. search.by = "service" => search.to \notin search.met
    BY <1>2, <2>1 DEF SearchInv, Trails
  <2> QED
    BY <1>3, <1>10, <2>2, <2>5, <2>6, <2>7
<1> QED
  BY <1>8, <1>11, <1>12, <1>13, <1>14 DEF SearchInv

LEMMA PathsAreSound ==
    ASSUME ReviewsAssumption, Graph!TypeOK, search # None => SearchInv(search)
    PROVE  Graph!PathsSound /\ Graph!ShortestFirst
<1>1. Graph!ShortestFirst
  BY DEF Graph!ShortestFirst, SearchInv, InOrder
<1>2. ASSUME search # None, search.from # search.to, NEW f \in DOMAIN search.found
      PROVE  /\ Len(search.found[f]) <= search.depth
             /\ Graph!IsPath(search.found[f], search.from, search.to)
             /\ search.quiet => \A j \in DOMAIN search.found[f] : edges[search.found[f][j]].status = "active"
  <2> DEFINE p == search.found[f]
             L == Len(p)
  <2>1. search \in Searches /\ SearchInv(search)
    BY <1>2, SearchTyped
  <2>2. Len(p) <= search.depth /\ Len(p) \in Nat
    BY <2>1, SearchFields DEF SearchInv, InOrder
  <2>3. /\ Trail(p, search.from, search.to, AllRead(search)) /\ ~WasRead(search, search.to)
        /\ search.quiet => Alive(p)
    BY <1>2, <2>1 DEF SearchInv, Trails
  <2>4. search.to \notin AllRead(search)
    BY <2>3 DEF AllRead
  <2>5. PICK w \in [0..L -> Nodes] :
          /\ w[0] = search.from /\ w[L] = search.to
          /\ \A j \in 0..(L - 1) : w[j] \in AllRead(search) /\ \A k \in 0..(L - 1) : w[j] = w[k] => j = k
          /\ \A k \in DOMAIN p : {w[k - 1], w[k]} = {edges[p[k]].s, edges[p[k]].o}
    BY <2>3, Zenon DEF Trail, TrailIn
  <2>6. ASSUME NEW j \in DOMAIN w, NEW k \in DOMAIN w, w[j] = w[k] PROVE j = k
    <3>1. j \in 0..L /\ k \in 0..L
      OBVIOUS
    <3>2. \A i \in 0..L : i # L => i \in 0..(L - 1)
      BY <2>2
    <3> QED
      BY <2>4, <2>5, <2>6, <3>1, <3>2
  <2>7. Graph!IsPath(p, search.from, search.to)
    BY <2>5, <2>6, Zenon DEF Graph!IsPath
  <2> QED
    BY <2>2, <2>3, <2>7 DEF Alive, AliveIn
<1>3. Graph!PathsSound
  BY <1>2, Zenon DEF Graph!PathsSound
<1> QED
  BY <1>1, <1>3

\* The walks of the search: on a walk to the target, what is read within its own index goes
\* on until a node that waits or the target itself.
LEMMA WalkFound ==
    ASSUME ReviewsAssumption, Graph!TypeOK, search # None, SearchInv(search),
           search.from # search.to, Steady(search), Graph!Done,
           NEW l \in Nat, l <= search.depth, NEW w \in [0..l -> Nodes],
           w[0] = search.from, w[l] = search.to, \A j \in 1..l : Graph!Linked(w[j - 1], w[j])
    PROVE  search.found # <<>> /\ Len(search.found[1]) <= l
<1> DEFINE s == search
           S == {j \in 0..l : ~(s.read[w[j]] <= j)}
<1>1. s \in Searches
  BY SearchTyped
<1>2. /\ s.depth \in Nat /\ s.depth < 999 /\ s.depth \in 1..5 /\ s.found \in Seq(Seq(DOMAIN edges))
      /\ s.queue \in Seq(Entries) /\ \A x \in Nodes : s.read[x] \in Nat /\ (WasRead(s, x) <=> s.read[x] < 999)
      /\ \A k \in DOMAIN s.queue : Hops(s, k) \in Nat
      /\ \A f \in DOMAIN s.found : Len(s.found[f]) \in Nat
  <2>1. s.depth \in 1..5
    BY <1>1, GraphAssumed DEF Searches
  <2> QED
    BY <1>1, <2>1, SearchFields
<1>3. l # 0 /\ l < 999
  <2>1. l <= s.depth
    OBVIOUS
  <2>2. l < 999
    BY <1>2, <2>1
  <2> QED
    BY <2>2
<1>4. ~WasRead(s, s.to)
  BY DEF SearchInv, Trails
<1>5. l \in S
  <2>1. w[l] = s.to /\ s.to \in Nodes
    BY <1>1, SearchFields
  <2>2. s.read[s.to] \in Nat /\ ~(s.read[s.to] < 999)
    BY <1>2, <1>4, <2>1
  <2> DEFINE n == s.read[s.to]
  <2> HIDE DEF n
  <2>a. n \in Nat /\ ~(n < 999)
    BY <2>2 DEF n
  <2>b. ~(n <= l)
    BY <1>3, <2>a
  <2>3. ~(s.read[s.to] <= l)
    BY <2>b DEF n
  <2>4. ~(s.read[w[l]] <= l) /\ l \in 0..l
    BY <2>1, <2>3
  <2> QED
    BY <2>4
<1>6. S \subseteq Nat /\ S # {}
  BY <1>5
<1> HIDE DEF S
<1>7. PICK j \in S : \A i \in S : j <= i
  BY <1>6, NatMinimum
<1>8. j \in 0..l /\ ~(s.read[w[j]] <= j) /\ w[j] \in Nodes
  BY DEF S
<1>9. ASSUME NEW k \in DOMAIN s.queue
      PROVE  s.found # <<>> /\ Len(s.found[1]) <= Hops(s, k) + 1
  <2>1. Len(s.found) >= Enough[s.by]
    BY <1>2, <1>9, EmptySeq DEF Graph!Done
  <2>2. Enough[s.by] \in Nat \ {0}
    BY <1>1 DEF ReviewsAssumption, Graph!EntityGraphAssumption, Searches
  <2>3. s.found # <<>> /\ 1 \in DOMAIN s.found
    BY <1>2, <2>1, <2>2, EmptySeq, LenProperties
  <2> QED
    BY <2>3 DEF SearchInv, InOrder
<1>10. CASE j = 0
  <2>1. ~(s.depth <= 0) /\ ~(s.read[s.from] <= 0)
    BY <1>2, <1>8, <1>10
  <2>2. Scheduled(s, s.from, 0)
    BY DEF SearchInv, Covered
  <2>3. PICK k \in DOMAIN s.queue : Hops(s, k) <= 0
    BY <2>1, <2>2 DEF Scheduled
  <2>4. 1 \in DOMAIN s.found
    BY <1>2, <1>9, EmptySeq, LenProperties
  <2> QED
    BY <1>2, <1>3, <1>9, <2>3, <2>4
<1>11. CASE j # 0
  <2> DEFINE x == w[j - 1]
             y == w[j]
  <2>1. j \in 1..l /\ j - 1 \in 0..l /\ j - 1 < j /\ x \in Nodes
    BY <1>8, <1>11
  <2>2. s.read[x] <= j - 1
    BY <1>7, <2>1 DEF S
  <2>3. WasRead(s, x) /\ Graph!Linked(x, y)
    <3> DEFINE n == s.read[x]
    <3> HIDE DEF n
    <3>1. n \in Nat /\ n <= j - 1
      BY <1>2, <2>1, <2>2 DEF n
    <3>2. n < 999
      BY <1>3, <2>1, <3>1
    <3> QED
      BY <1>2, <2>1, <3>2 DEF n
  <2>4. IF y = s.to THEN s.found # <<>> /\ Len(s.found[1]) <= s.read[x] + 1
        ELSE Scheduled(s, y, s.read[x] + 1)
    BY <1>8, <2>1, <2>3 DEF SearchInv, Covered
  <2>5. CASE y = s.to
    <3>1. 1 \in DOMAIN s.found
      BY <1>2, <2>4, <2>5, EmptySeq, LenProperties
    <3> QED
      BY <1>2, <2>1, <2>2, <2>4, <2>5, <3>1
  <2>6. CASE y # s.to
    <3>1. j < l /\ j \in Nat
      BY <1>8, <2>6
    <3>2. s.read[x] + 1 <= j /\ s.read[x] \in Nat
      BY <1>2, <2>1, <2>2
    <3>3. ~(s.depth <= s.read[x] + 1) /\ ~(s.read[y] <= s.read[x] + 1)
      <4> DEFINE a == s.read[x]
                 b == s.read[y]
                 d == s.depth
      <4>1. a \in Nat /\ b \in Nat /\ d \in Nat /\ a + 1 <= j /\ ~(b <= j) /\ l <= d
        BY <1>2, <1>8, <3>2
      <4> HIDE DEF a, b, d
      <4>2. ~(d <= a + 1) /\ ~(b <= a + 1)
        BY <3>1, <4>1
      <4> QED
        BY <4>2 DEF a, b, d
    <3>4. PICK k \in DOMAIN s.queue : Hops(s, k) <= s.read[x] + 1
      BY <2>4, <2>6, <3>3 DEF Scheduled
    <3>5. s.found # <<>> /\ Len(s.found[1]) <= Hops(s, k) + 1
      BY <1>9
    <3>6. 1 \in DOMAIN s.found
      BY <1>2, <3>5, EmptySeq, LenProperties
    <3>7. Len(s.found[1]) \in Nat /\ Hops(s, k) \in Nat
      BY <1>2, <3>6
    <3> DEFINE a == s.read[x]
               b == Hops(s, k)
               d == Len(s.found[1])
    <3>8. a \in Nat /\ b \in Nat /\ d \in Nat /\ a + 1 <= j /\ b <= a + 1 /\ d <= b + 1
      BY <3>2, <3>4, <3>5, <3>7
    <3> HIDE DEF a, b, d
    <3>9. d <= l
      BY <3>1, <3>8
    <3> QED
      BY <3>5, <3>9 DEF d
  <2> QED
    BY <2>5, <2>6
<1> QED
  BY <1>10, <1>11

LEMMA PathsAreComplete ==
    ASSUME ReviewsAssumption, Graph!TypeOK, search # None => SearchInv(search)
    PROVE  Graph!PathsComplete
<1> SUFFICES ASSUME search # None, search.from # search.to, search.quiet, Graph!Done,
                    search.by = "engine" => Graph!Narrow,
                    NEW d \in 1..search.depth, Graph!Reaches(search.from, search.to, d)
             PROVE  search.found # <<>> /\ Len(search.found[1]) <= d
  BY Zenon DEF Graph!PathsComplete
<1>1. PICK l \in 0..d : \E w \in [0..l -> Nodes] :
        /\ w[0] = search.from /\ w[l] = search.to
        /\ \A j \in 1..l : Graph!Linked(w[j - 1], w[j])
  BY Zenon DEF Graph!Reaches
<1>2. PICK w \in [0..l -> Nodes] :
        /\ w[0] = search.from /\ w[l] = search.to
        /\ \A j \in 1..l : Graph!Linked(w[j - 1], w[j])
  BY <1>1, Zenon
<1>3. search \in Searches /\ search.depth \in Nat
  BY SearchTyped, SearchFields
<1>4. l \in Nat /\ l <= d /\ l <= search.depth
  BY <1>3
<1>5. Steady(search)
  BY DEF Steady
<1>6. search.found # <<>> /\ Len(search.found[1]) <= l
  BY <1>2, <1>4, <1>5, WalkFound
<1>7. Len(search.found[1]) \in Nat
  <2>1. search.found \in Seq(Seq(DOMAIN edges)) /\ \A f \in DOMAIN search.found : Len(search.found[f]) \in Nat
    BY <1>3, SearchFields
  <2> QED
    BY <1>6, <2>1, EmptySeq, LenProperties
<1> QED
  BY <1>3, <1>4, <1>6, <1>7

Rounds ==
    [node : Nodes, depth : 1..3, rounds : 0..3, frontier : SUBSET Nodes, next : SUBSET Nodes,
     seen : SUBSET Nodes, kept : SUBSET DOMAIN edges, quiet : BOOLEAN]

\* A walk goes on by a link, and its last step is one.
LEMMA WalkLonger ==
    ASSUME NEW n, NEW x, NEW k \in Nat, Walks(n, x, k), NEW y \in Nodes, Graph!Linked(x, y)
    PROVE  Walks(n, y, k + 1)
<1>1. PICK w \in [0..k -> Nodes] :
        w[0] = n /\ w[k] = x /\ \A j \in 1..k : Graph!Linked(w[j - 1], w[j])
  BY Zenon DEF Walks
<1> DEFINE v == [j \in 0..(k + 1) |-> IF j <= k THEN w[j] ELSE y]
<1>2. v \in [0..(k + 1) -> Nodes] /\ v[k + 1] = y /\ \A j \in 0..k : v[j] = w[j]
  BY <1>1
<1> HIDE DEF v
<1>3. v[0] = n
  BY <1>1, <1>2
<1>4. ASSUME NEW j \in 1..(k + 1) PROVE Graph!Linked(v[j - 1], v[j])
  <2>1. CASE j = k + 1
    <3>1. v[j - 1] = x /\ v[j] = y
      BY <1>1, <1>2, <2>1
    <3> QED
      BY <3>1
  <2>2. CASE j # k + 1
    <3>1. j \in 1..k /\ v[j - 1] = w[j - 1] /\ v[j] = w[j]
      BY <1>2, <2>2
    <3> QED
      BY <1>1, <3>1
  <2> QED
    BY <2>1, <2>2
<1> QED
  BY <1>2, <1>3, <1>4, Zenon DEF Walks

LEMMA WalkShorter ==
    ASSUME NEW n, NEW y, NEW k \in Nat, Walks(n, y, k + 1)
    PROVE  \E x \in Nodes : Walks(n, x, k) /\ Graph!Linked(x, y)
<1>1. PICK w \in [0..(k + 1) -> Nodes] :
        w[0] = n /\ w[k + 1] = y /\ \A j \in 1..(k + 1) : Graph!Linked(w[j - 1], w[j])
  BY Zenon DEF Walks
<1> DEFINE v == [j \in 0..k |-> w[j]]
<1>2. v \in [0..k -> Nodes] /\ \A j \in 0..k : v[j] = w[j]
  BY <1>1
<1> HIDE DEF v
<1>3. v[0] = n
  BY <1>1, <1>2
<1>4. ASSUME NEW j \in 1..k PROVE Graph!Linked(v[j - 1], v[j])
  <2>1. j \in 1..(k + 1) /\ v[j - 1] = w[j - 1] /\ v[j] = w[j]
    BY <1>2
  <2> QED
    BY <1>1, <2>1
<1>5. Walks(n, v[k], k)
  BY <1>2, <1>3, <1>4, Zenon DEF Walks
<1>6. v[k] = w[k] /\ v[k] \in Nodes /\ k + 1 \in 1..(k + 1) /\ (k + 1) - 1 = k
  BY <1>2
<1>7. Graph!Linked(w[(k + 1) - 1], w[k + 1])
  BY <1>1, <1>6
<1>8. Graph!Linked(v[k], y)
  BY <1>1, <1>6, <1>7
<1> QED
  BY <1>5, <1>6, <1>8

LEMMA WalkStarts ==
    ASSUME NEW n \in Nodes PROVE Walks(n, n, 0) /\ \A x : Walks(n, x, 0) => x = n
<1>1. Walks(n, n, 0)
  <2> DEFINE w == [j \in 0..0 |-> n]
  <2>1. w \in [0..0 -> Nodes] /\ w[0] = n /\ 1..0 = {}
    OBVIOUS
  <2> QED
    BY <2>1 DEF Walks
<1> QED
  BY <1>1 DEF Walks

LEMMA ReachesByWalk ==
    \A n, m, d : Graph!Reaches(n, m, d) <=> \E k \in 0..d : Walks(n, m, k)
  BY Zenon DEF Graph!Reaches, Walks

LEMMA NearFields ==
    ASSUME Graph!TypeOK, nearby # None
    PROVE  /\ nearby \in Rounds /\ nearby.node \in Nodes /\ nearby.rounds \in Nat /\ nearby.depth \in 1..3
           /\ nearby.frontier \subseteq Nodes /\ nearby.next \subseteq Nodes /\ nearby.seen \subseteq Nodes
           /\ nearby.kept \subseteq DOMAIN edges
<1>1. nearby \in Rounds
  BY DEF Graph!TypeOK, Rounds
<1> QED
  BY <1>1 DEF Rounds

\* Where the far end of an edge is.
LEMMA FarEnds ==
    ASSUME ReviewsAssumption, Graph!TypeOK, NEW x \in Nodes, NEW i \in Graph!Touching(x)
    PROVE  /\ Graph!FarEnd(i, x) \in Nodes
           /\ Graph!FarEnd(i, x) # x => Graph!Linked(x, Graph!FarEnd(i, x))
           /\ Plain => Graph!FarEnd(i, x) = Graph!Other(i, x)
<1>1. /\ i \in DOMAIN edges /\ edges[i].s \in Nodes /\ edges[i].o \in Nodes
      /\ x \in {edges[i].s, edges[i].o} /\ Graph!Linked(x, Graph!Other(i, x))
  BY Joins, EdgeFields DEF Graph!Touching
<1>2. /\ Graph!FarEnd(i, x) = IF edges[i].s[2] = x[2] THEN edges[i].o ELSE edges[i].s
      /\ Graph!Other(i, x) = IF edges[i].s = x THEN edges[i].o ELSE edges[i].s
  BY DEF Graph!FarEnd, Graph!Other
<1>3. Graph!FarEnd(i, x) # x => Graph!FarEnd(i, x) = Graph!Other(i, x)
  BY <1>1, <1>2
<1>4. Plain => Graph!FarEnd(i, x) = Graph!Other(i, x)
  BY <1>1, <1>2 DEF Plain
<1> QED
  BY <1>1, <1>2, <1>3, <1>4

LEMMA NearUnwritten ==
    ASSUME edges' = edges, nearby' # None, nearby' \in Rounds, NearInv(nearby')
    PROVE  (nearby # None => nearby \in Rounds)' /\ NearInv(nearby)'
<1> DEFINE s == nearby'
<1>1. \A x : Graph!Touching(x)' = Graph!Touching(x)
  BY DEF Graph!Touching
<1>2. \A x, y : Graph!Linked(x, y)' <=> Graph!Linked(x, y)
  BY DEF Graph!Linked, Graph!Touching, Graph!Other
<1>3. \A n, m, k : Walks(n, m, k)' <=> Walks(n, m, k)
  BY <1>2 DEF Walks
<1>4. \A n, m, d : Graph!Reaches(n, m, d)' <=> Graph!Reaches(n, m, d)
  BY <1>2 DEF Graph!Reaches
<1>5. (Graph!Narrow' <=> Graph!Narrow) /\ (Plain' <=> Plain)
  BY <1>1 DEF Graph!Narrow, Plain
<1>6. NearInv(nearby)'
  BY <1>1, <1>2, <1>3, <1>4, <1>5 DEF NearInv
<1> QED
  BY <1>6 DEF Rounds

LEMMA AskNearbyKeeps ==
    ASSUME ReviewsAssumption, NEW n \in Nodes, NEW d \in Depths, Graph!AskNearby(n, d)
    PROVE  nearby' # None => nearby' \in Rounds /\ NearInv(nearby')
<1> DEFINE s == nearby'
<1>1. s = [node |-> n, depth |-> IF d > 3 THEN 3 ELSE d, rounds |-> 0, frontier |-> {n},
           next |-> {}, seen |-> {}, kept |-> {}, quiet |-> TRUE]
  BY DEF Graph!AskNearby
<1> HIDE DEF s
<1>2. d \in 1..5
  BY GraphAssumed
<1>3. (IF d > 3 THEN 3 ELSE d) \in 1..3
  BY <1>2
<1>4. s \in Rounds
  BY <1>1, <1>3 DEF Rounds
<1>5. /\ s.node = n /\ s.rounds = 0 /\ s.frontier = {n} /\ s.next = {} /\ s.seen = {} /\ s.kept = {}
      /\ s.depth \in 1..3
  BY <1>1, <1>3
<1>6. \A x \in s.seen \cup s.frontier : \E k \in 0..s.rounds : Walks(s.node, x, k)
  BY <1>5, WalkStarts
<1>7. \A k \in 0..s.rounds, x \in Nodes : Walks(s.node, x, k) =>
         x \in s.seen \cup s.frontier /\ (k < s.rounds => x \in s.seen)
  BY <1>5, WalkStarts
<1>8. NearInv(s)
  BY <1>5, <1>6, <1>7 DEF NearInv
<1> QED
  BY <1>4, <1>8 DEF s

LEMMA VisitKeeps ==
    ASSUME ReviewsAssumption, Graph!TypeOK, nearby # None, NearInv(nearby), NEW x \in Nodes, Graph!Visit(x)
    PROVE  nearby' \in Rounds /\ NearInv(nearby')
<1> DEFINE s == nearby
           t == nearby'
           around == IF x \in s.seen THEN {} ELSE Graph!Newest(x)
           seen == s.seen \cup {x}
           far  == {Graph!FarEnd(i, x) : i \in around} \ seen
<1>1. /\ s \in Rounds /\ s.node \in Nodes /\ s.rounds \in Nat /\ s.depth \in 1..3
      /\ s.frontier \subseteq Nodes /\ s.next \subseteq Nodes /\ s.seen \subseteq Nodes
      /\ s.kept \subseteq DOMAIN edges
  BY NearFields
<1>2. /\ s.rounds < s.depth /\ x \in s.frontier
      /\ t = [s EXCEPT !.frontier = s.frontier \ {x}, !.seen = seen, !.kept = s.kept \cup around,
                       !.next = s.next \cup far]
  BY DEF Graph!Visit
<1> HIDE DEF around, far, t
<1>3. /\ t.node = s.node /\ t.rounds = s.rounds /\ t.depth = s.depth /\ t.quiet = s.quiet
      /\ t.frontier = s.frontier \ {x} /\ t.seen = s.seen \cup {x} /\ t.kept = s.kept \cup around
      /\ t.next = s.next \cup far
  BY <1>1, <1>2 DEF Rounds
<1>4. around \subseteq Graph!Touching(x)
  BY TouchingFinite DEF around
<1>5. around \subseteq DOMAIN edges
  BY <1>4 DEF Graph!Touching
<1>6. \A y \in far : y \in Nodes /\ Graph!Linked(x, y)
  BY <1>4, FarEnds DEF far
<1>7. t \in Rounds
  BY <1>1, <1>2, <1>5, <1>6 DEF Rounds
<1>8. t.seen \cup t.frontier = s.seen \cup s.frontier
  BY <1>2, <1>3
<1>9. ASSUME s.quiet
      PROVE  /\ \A y \in t.seen \cup t.frontier : \E k \in 0..t.rounds : Walks(t.node, y, k)
             /\ \A y \in t.next : \E k \in 0..(t.rounds + 1) : Walks(t.node, y, k)
             /\ \A i \in t.kept : \E y \in Nodes :
                   i \in Graph!Touching(y) /\ Graph!Reaches(t.node, y, t.depth - 1)
  <2>1. \A y \in s.seen \cup s.frontier : \E k \in 0..s.rounds : Walks(s.node, y, k)
    BY <1>9, Zenon DEF NearInv
  <2>2. PICK l \in 0..s.rounds : Walks(s.node, x, l)
    BY <1>2, <2>1
  <2>3. ASSUME NEW y \in far PROVE \E k \in 0..(s.rounds + 1) : Walks(s.node, y, k)
    <3>1. Walks(s.node, y, l + 1)
      BY <1>6, <2>2, WalkLonger
    <3>2. l + 1 \in 0..(s.rounds + 1)
      BY <1>1, <2>2
    <3> QED
      BY <3>1, <3>2
  <2>4. \A y \in s.next : \E k \in 0..(s.rounds + 1) : Walks(s.node, y, k)
    BY <1>9, Zenon DEF NearInv
  <2>5. ASSUME NEW i \in around
        PROVE  i \in Graph!Touching(x) /\ Graph!Reaches(s.node, x, s.depth - 1)
    <3>1. l \in 0..(s.depth - 1)
      BY <1>1, <1>2, <2>2
    <3> QED
      BY <1>4, <2>2, <3>1, ReachesByWalk
  <2>6. \A i \in s.kept : \E y \in Nodes :
           i \in Graph!Touching(y) /\ Graph!Reaches(s.node, y, s.depth - 1)
    BY <1>9, Zenon DEF NearInv
  <2>7. \A y \in t.seen \cup t.frontier : \E k \in 0..t.rounds : Walks(t.node, y, k)
    BY <1>3, <1>8, <2>1
  <2>8. \A y \in t.next : \E k \in 0..(t.rounds + 1) : Walks(t.node, y, k)
    BY <1>3, <2>3, <2>4
  <2>9. \A i \in t.kept : \E y \in Nodes :
           i \in Graph!Touching(y) /\ Graph!Reaches(t.node, y, t.depth - 1)
    BY <1>3, <2>5, <2>6
  <2> QED
    BY <2>7, <2>8, <2>9
<1>10. ASSUME s.quiet, Graph!Narrow, x \notin s.seen
       PROVE  around = Graph!Touching(x)
  BY <1>10, GraphCounts, TouchingFinite DEF Graph!Narrow, around
<1>11. ASSUME s.quiet, Graph!Narrow, NEW y \in t.seen
       PROVE  Graph!Touching(y) \subseteq t.kept
  <2>1. CASE y \in s.seen
    BY <1>3, <1>11, <2>1 DEF NearInv
  <2>2. CASE y = x /\ x \notin s.seen
    BY <1>3, <1>10, <1>11, <2>2
  <2> QED
    BY <1>3, <2>1, <2>2
<1>12. ASSUME s.quiet, Graph!Narrow, Plain, NEW k \in 0..t.rounds, NEW y \in Nodes, Walks(t.node, y, k)
       PROVE  y \in t.seen \cup t.frontier /\ (k < t.rounds => y \in t.seen)
  <2>1. y \in s.seen \cup s.frontier /\ (k < s.rounds => y \in s.seen)
    BY <1>3, <1>12 DEF NearInv
  <2> QED
    BY <1>3, <1>8, <2>1
<1>13. ASSUME s.quiet, Graph!Narrow, Plain, NEW z \in t.seen, NEW y \in Nodes, Graph!Linked(z, y)
       PROVE  y \in t.seen \cup t.frontier \cup t.next
  <2>1. CASE z \in s.seen
    <3>1. y \in s.seen \cup s.frontier \cup s.next
      BY <1>13, <2>1 DEF NearInv
    <3> QED
      BY <1>3, <1>8, <3>1
  <2>2. CASE z = x /\ x \notin s.seen
    <3>1. PICK i \in Graph!Touching(x) : y = Graph!Other(i, x)
      BY <1>13, <2>2 DEF Graph!Linked
    <3>2. i \in around /\ y = Graph!FarEnd(i, x)
      BY <1>10, <1>13, <2>2, <3>1, FarEnds
    <3>3. y \in far \/ y \in seen
      BY <3>2 DEF far
    <3> QED
      BY <1>3, <3>3
  <2> QED
    BY <1>3, <2>1, <2>2
<1>14. t.rounds <= t.depth /\ t.rounds # t.depth
  BY <1>1, <1>2, <1>3
<1>15. NearInv(t)
  BY <1>3, <1>9, <1>11, <1>12, <1>13, <1>14 DEF NearInv
<1> QED
  BY <1>7, <1>15 DEF t

LEMMA NextRoundKeeps ==
    ASSUME ReviewsAssumption, Graph!TypeOK, nearby # None, NearInv(nearby), Graph!NextRound
    PROVE  nearby' \in Rounds /\ NearInv(nearby')
<1> DEFINE s == nearby
           t == nearby'
<1>1. /\ s \in Rounds /\ s.node \in Nodes /\ s.rounds \in Nat /\ s.depth \in 1..3
      /\ s.frontier \subseteq Nodes /\ s.next \subseteq Nodes /\ s.seen \subseteq Nodes
      /\ s.kept \subseteq DOMAIN edges
  BY NearFields
<1>2. /\ s.rounds < s.depth /\ s.frontier = {}
      /\ t = [s EXCEPT !.frontier = s.next, !.next = {}, !.rounds = s.rounds + 1]
  BY DEF Graph!NextRound
<1> HIDE DEF t
<1>3. /\ t.node = s.node /\ t.rounds = s.rounds + 1 /\ t.depth = s.depth /\ t.quiet = s.quiet
      /\ t.frontier = s.next /\ t.seen = s.seen /\ t.kept = s.kept /\ t.next = {}
  BY <1>1, <1>2 DEF Rounds
<1>4. t \in Rounds
  <2>1. s.rounds + 1 \in 0..3
    BY <1>1, <1>2
  <2> QED
    BY <1>1, <1>2, <2>1 DEF Rounds
<1>5. ASSUME s.quiet, NEW y \in t.seen \cup t.frontier
      PROVE  \E k \in 0..t.rounds : Walks(t.node, y, k)
  <2>1. CASE y \in s.seen
    <3>1. PICK k \in 0..s.rounds : Walks(s.node, y, k)
      BY <1>5, <2>1, Zenon DEF NearInv
    <3>2. k \in 0..t.rounds
      BY <1>1, <1>3
    <3> QED
      BY <1>3, <3>1, <3>2
  <2>2. CASE y \in s.next
    <3>1. PICK k \in 0..(s.rounds + 1) : Walks(s.node, y, k)
      BY <1>5, <2>2, Zenon DEF NearInv
    <3> QED
      BY <1>3, <3>1
  <2> QED
    BY <1>3, <1>5, <2>1, <2>2
<1>6. ASSUME s.quiet, NEW i \in t.kept
      PROVE  \E y \in Nodes : i \in Graph!Touching(y) /\ Graph!Reaches(t.node, y, t.depth - 1)
  BY <1>3, <1>6 DEF NearInv
<1>7. ASSUME s.quiet, Graph!Narrow, NEW y \in t.seen
      PROVE  Graph!Touching(y) \subseteq t.kept
  BY <1>3, <1>7 DEF NearInv
<1>8. ASSUME s.quiet, Graph!Narrow, Plain, NEW z \in s.seen, NEW y \in Nodes, Graph!Linked(z, y)
      PROVE  y \in t.seen \cup t.frontier
  BY <1>2, <1>3, <1>8 DEF NearInv
<1>9. ASSUME s.quiet, Graph!Narrow, Plain, NEW k \in 0..s.rounds, NEW y \in Nodes, Walks(s.node, y, k)
      PROVE  y \in s.seen
  BY <1>2, <1>9 DEF NearInv
<1>10. ASSUME s.quiet, Graph!Narrow, Plain, NEW k \in 0..t.rounds, NEW y \in Nodes, Walks(t.node, y, k)
       PROVE  y \in t.seen \cup t.frontier /\ (k < t.rounds => y \in t.seen)
  <2>1. CASE k = s.rounds + 1
    <3>1. PICK z \in Nodes : Walks(s.node, z, s.rounds) /\ Graph!Linked(z, y)
      BY <1>1, <1>3, <1>10, <2>1, WalkShorter
    <3>2. z \in s.seen
      BY <1>1, <1>9, <1>10, <3>1
    <3>3. y \in t.seen \cup t.frontier
      BY <1>8, <1>10, <3>1, <3>2
    <3> QED
      BY <1>1, <1>3, <2>1, <3>3
  <2>2. CASE k # s.rounds + 1
    <3>1. k \in 0..s.rounds
      BY <1>1, <1>3, <2>2
    <3> QED
      BY <1>3, <1>9, <1>10, <3>1
  <2> QED
    BY <2>1, <2>2
<1>11. t.rounds <= t.depth
  BY <1>1, <1>2, <1>3
<1>12. NearInv(t)
  BY <1>3, <1>5, <1>6, <1>7, <1>8, <1>10, <1>11 DEF NearInv
<1> QED
  BY <1>4, <1>12 DEF t

\* A write only ends the quiet of a neighbourhood query.
LEMMA WriteKeepsNear ==
    ASSUME Graph!TypeOK, nearby # None => NearInv(nearby), DOMAIN edges \subseteq DOMAIN edges', Graph!Written
    PROVE  (nearby # None => nearby \in Rounds)' /\ (nearby # None => NearInv(nearby))'
<1> SUFFICES ASSUME nearby' # None PROVE (nearby \in Rounds)' /\ NearInv(nearby)'
  OBVIOUS
<1>1. nearby # None /\ nearby' = [nearby EXCEPT !.quiet = FALSE]
  BY DEF Graph!Written, Graph!Disturbed
<1>2. nearby \in Rounds /\ NearInv(nearby)
  BY <1>1, NearFields
<1>3. /\ nearby'.rounds = nearby.rounds /\ nearby'.depth = nearby.depth /\ nearby'.next = nearby.next
      /\ nearby'.quiet = FALSE
  BY <1>1, <1>2 DEF Rounds
<1>4. NearInv(nearby)'
  BY <1>2, <1>3 DEF NearInv
<1> QED
  BY <1>1, <1>2, <1>4 DEF Rounds

LEMMA NeighbourhoodIsExact ==
    ASSUME ReviewsAssumption, Graph!TypeOK, nearby # None => NearInv(nearby)
    PROVE  Graph!NeighbourhoodExact
<1> SUFFICES ASSUME nearby # None, nearby.quiet
             PROVE  /\ \A i \in nearby.kept : \E x \in Nodes :
                          i \in Graph!Touching(x) /\ Graph!Reaches(nearby.node, x, nearby.depth - 1)
                    /\ nearby.rounds = nearby.depth /\ Graph!Narrow /\ Plain =>
                          \A x \in Nodes : Graph!Reaches(nearby.node, x, nearby.depth - 1) =>
                              Graph!Touching(x) \subseteq nearby.kept
  BY Zenon DEF Graph!NeighbourhoodExact, Plain
<1>1. NearInv(nearby) /\ nearby.depth \in 1..3
  BY NearFields
<1>2. \A i \in nearby.kept : \E x \in Nodes :
         i \in Graph!Touching(x) /\ Graph!Reaches(nearby.node, x, nearby.depth - 1)
  BY <1>1, Zenon DEF NearInv
<1>3. ASSUME nearby.rounds = nearby.depth, Graph!Narrow, Plain, NEW x \in Nodes,
             Graph!Reaches(nearby.node, x, nearby.depth - 1)
      PROVE  Graph!Touching(x) \subseteq nearby.kept
  <2>1. PICK k \in 0..(nearby.depth - 1) : Walks(nearby.node, x, k)
    BY <1>3, ReachesByWalk
  <2>2. k \in 0..nearby.rounds /\ k < nearby.rounds
    BY <1>1, <1>3
  <2>3. x \in nearby.seen
    BY <1>1, <1>3, <2>1, <2>2 DEF NearInv
  <2> QED
    BY <1>1, <1>3, <2>3 DEF NearInv
<1> QED
  BY <1>2, <1>3

SearchHolds == search # None => search \in Searches /\ SearchInv(search)
NearHolds   == nearby # None => nearby \in Rounds /\ NearInv(nearby)

LEMMA GraphParts ==
    GraphInv <=> /\ edges \in Seq([s : Nodes, o : Nodes, from : ValidFroms, status : Graph!Statuses])
                 /\ SearchHolds /\ NearHolds
  BY DEF GraphInv, Graph!TypeOK, SearchHolds, NearHolds, Searches, Entries, Rounds

LEMMA GraphInit == Graph!Init => GraphInv
<1> SUFFICES ASSUME Graph!Init PROVE GraphInv
  OBVIOUS
<1>1. edges = <<>> /\ search = None /\ nearby = None
  BY DEF Graph!Init
<1>2. edges \in Seq([s : Nodes, o : Nodes, from : ValidFroms, status : Graph!Statuses])
  BY <1>1
<1> QED
  BY <1>1, <1>2, GraphParts DEF SearchHolds, NearHolds

LEMMA GraphNext ==
    ASSUME ReviewsAssumption, GraphInv, [Graph!Next]_graphVars
    PROVE  GraphInv'
<1> DEFINE Typed == edges \in Seq([s : Nodes, o : Nodes, from : ValidFroms, status : Graph!Statuses])
<1>1. /\ Graph!TypeOK /\ (search # None => SearchInv(search)) /\ (nearby # None => NearInv(nearby))
      /\ Typed /\ SearchHolds /\ NearHolds
  BY GraphParts DEF GraphInv
<1>2. ASSUME edges' = edges, search' # None => search' \in Searches /\ SearchInv(search')
      PROVE  SearchHolds'
  BY <1>2, SearchUnwritten DEF SearchHolds
<1>3. ASSUME edges' = edges, nearby' # None => nearby' \in Rounds /\ NearInv(nearby')
      PROVE  NearHolds'
  BY <1>3, NearUnwritten DEF NearHolds
<1>4. edges' = edges => Typed'
  BY <1>1
<1>5. edges' = edges /\ search' = search => SearchHolds'
  BY <1>1, <1>2 DEF SearchHolds
<1>6. edges' = edges /\ nearby' = nearby => NearHolds'
  BY <1>1, <1>3 DEF NearHolds
<1>a. Typed' /\ SearchHolds' /\ NearHolds' => GraphInv'
  BY DEF GraphInv, Graph!TypeOK, SearchHolds, NearHolds, Searches, Entries, Rounds
<1> HIDE DEF Typed
<1> SUFFICES Typed' /\ SearchHolds' /\ NearHolds'
  BY <1>a
<1>7. CASE \/ \E s, o \in Nodes, t \in ValidFroms : Graph!Insert(s, o, t)
           \/ \E i \in DOMAIN edges, st \in Graph!Statuses : Graph!SetStatus(i, st)
  <2>1. /\ Typed' /\ DOMAIN edges \subseteq DOMAIN edges' /\ Graph!Written
        /\ \A i \in DOMAIN edges : edges'[i].s = edges[i].s /\ edges'[i].o = edges[i].o
    BY <1>1, <1>7, WritesKeepEnds DEF Typed
  <2>2. SearchHolds'
    BY <1>1, <2>1, WriteKeepsSearch DEF SearchHolds
  <2>3. NearHolds'
    BY <1>1, <2>1, WriteKeepsNear DEF NearHolds
  <2> QED
    BY <2>1, <2>2, <2>3 DEF Typed
<1>8. ASSUME NEW by \in {"service", "engine"}, NEW n \in Nodes, NEW m \in Nodes, NEW d \in Depths,
             Graph!Ask(by, n, m, d)
      PROVE  Typed' /\ SearchHolds' /\ NearHolds'
  <2>1. edges' = edges /\ nearby' = nearby
    BY <1>8 DEF Graph!Ask
  <2> QED
    BY <1>2, <1>4, <1>6, <1>8, <2>1, AskKeeps
<1>9. CASE Graph!Pass
  <2>1. edges' = edges /\ nearby' = nearby /\ search # None
    BY <1>9 DEF Graph!Pass
  <2> QED
    BY <1>1, <1>2, <1>4, <1>6, <1>9, <2>1, PassKeeps
<1>10. CASE Graph!FindPath
  <2>1. edges' = edges /\ nearby' = nearby /\ search # None
    BY <1>10, Zenon DEF Graph!FindPath
  <2> QED
    BY <1>1, <1>2, <1>4, <1>6, <1>10, <2>1, FindPathKeeps
<1>11. CASE Graph!FindPaths
  <2>1. edges' = edges /\ nearby' = nearby /\ search # None
    BY <1>11, Zenon DEF Graph!FindPaths
  <2> QED
    BY <1>1, <1>2, <1>4, <1>6, <1>11, <2>1, FindPathsKeeps
<1>12. CASE Graph!Answer
  <2>1. edges' = edges /\ nearby' = nearby /\ search' = None
    BY <1>12 DEF Graph!Answer
  <2> QED
    BY <1>2, <1>4, <1>6, <2>1
<1>13. ASSUME NEW n \in Nodes, NEW d \in Depths, Graph!AskNearby(n, d)
       PROVE  Typed' /\ SearchHolds' /\ NearHolds'
  <2>1. edges' = edges /\ search' = search
    BY <1>13 DEF Graph!AskNearby
  <2> QED
    BY <1>3, <1>4, <1>5, <1>13, <2>1, AskNearbyKeeps
<1>14. ASSUME NEW x \in Nodes, Graph!Visit(x)
       PROVE  Typed' /\ SearchHolds' /\ NearHolds'
  <2>1. edges' = edges /\ search' = search /\ nearby # None
    BY <1>14, Zenon DEF Graph!Visit
  <2> QED
    BY <1>1, <1>3, <1>4, <1>5, <1>14, <2>1, VisitKeeps
<1>15. CASE Graph!NextRound
  <2>1. edges' = edges /\ search' = search /\ nearby # None
    BY <1>15 DEF Graph!NextRound
  <2> QED
    BY <1>1, <1>3, <1>4, <1>5, <1>15, <2>1, NextRoundKeeps
<1>16. CASE Graph!AnswerNearby
  <2>1. edges' = edges /\ search' = search /\ nearby' = None
    BY <1>16 DEF Graph!AnswerNearby
  <2> QED
    BY <1>3, <1>4, <1>5, <2>1
<1>17. CASE UNCHANGED graphVars
  <2>1. edges' = edges /\ search' = search /\ nearby' = nearby
    BY <1>17 DEF graphVars
  <2> QED
    BY <1>4, <1>5, <1>6, <2>1
<1> QED
  BY <1>7, <1>8, <1>9, <1>10, <1>11, <1>12, <1>13, <1>14, <1>15, <1>16, <1>17, Zenon DEF Graph!Next

LEMMA GraphIsSafe == ReviewsAssumption /\ GraphInv => SearchesSafe
<1> SUFFICES ASSUME ReviewsAssumption, GraphInv PROVE SearchesSafe
  OBVIOUS
<1>1. /\ Graph!TypeOK /\ (search # None => SearchInv(search)) /\ (nearby # None => NearInv(nearby))
  BY DEF GraphInv
<1> QED
  BY <1>1, PathsAreSound, PathsAreComplete, NeighbourhoodIsExact DEF SearchesSafe, Graph!GraphSafe

\* A search asks for the edges of a node it has not read, and a node stays read.
ReadsOnce ==
    /\ search # None /\ (Graph!FindPath \/ Graph!FindPaths) => ~WasRead(search, Graph!Cur.node)
    /\ search # None /\ search' # None =>
        \A x \in Nodes : WasRead(search, x) => search'.read[x] = search.read[x]

LEMMA GraphReadsOnce ==
    ASSUME ReviewsAssumption, GraphInv, [Graph!Next]_graphVars
    PROVE  ReadsOnce
<1>0. ASSUME search # None, Graph!FindPath \/ Graph!FindPaths
      PROVE  ~WasRead(search, Graph!Cur.node)
  <2>1. Graph!TypeOK /\ SearchInv(search)
    BY <1>0 DEF GraphInv
  <2>2. ~Graph!Done /\ ~Graph!Passed
    BY <1>0, Zenon DEF Graph!FindPath, Graph!FindPaths
  <2> QED
    BY <1>0, <2>1, <2>2, AtHead
<1> SUFFICES ASSUME search # None, search' # None, NEW x \in Nodes, WasRead(search, x)
             PROVE  search'.read[x] = search.read[x]
  BY <1>0, Zenon DEF ReadsOnce
<1>1. Graph!TypeOK /\ SearchInv(search) /\ search \in Searches /\ search.read \in [Nodes -> 0..Graph!Unread]
  BY SearchTyped, SearchFields DEF GraphInv
<1>2. CASE search' = search
  BY <1>2
<1>3. ASSUME Graph!Written PROVE search'.read[x] = search.read[x]
  <2>1. search' = [search EXCEPT !.quiet = FALSE]
    BY <1>3 DEF Graph!Written, Graph!Disturbed
  <2> QED
    BY <1>1, <2>1 DEF Searches
<1>4. ASSUME ~Graph!Done, ~Graph!Passed, NEW at, NEW Q, NEW new, Graph!Read(at, Q, new)
      PROVE  search'.read[x] = search.read[x]
  <2> DEFINE c == Graph!Cur.node
             l == Len(Graph!Cur.path)
  <2>1. x # c
    BY <1>1, <1>4, AtHead
  <2> HIDE DEF c, l
  <2>2. search'.read = [search.read EXCEPT ![c] = l]
    BY <1>1, <1>4 DEF Searches, Graph!Read, c, l
  <2> QED
    BY <1>1, <2>1, <2>2
<1>5. CASE \/ \E s, o \in Nodes, t \in ValidFroms : Graph!Insert(s, o, t)
           \/ \E i \in DOMAIN edges, st \in Graph!Statuses : Graph!SetStatus(i, st)
  BY <1>3, <1>5, Zenon DEF Graph!Insert, Graph!SetStatus
<1>6. CASE Graph!Pass
  <2>1. search' = [search EXCEPT !.queue = Tail(search.queue)]
    BY <1>6 DEF Graph!Pass
  <2> QED
    BY <1>1, <2>1 DEF Searches
<1>7. CASE Graph!FindPath
  BY <1>4, <1>7, Zenon DEF Graph!FindPath
<1>8. CASE Graph!FindPaths
  BY <1>4, <1>8, Zenon DEF Graph!FindPaths
<1>9. CASE \/ \E n \in Nodes, d \in Depths : Graph!AskNearby(n, d)
           \/ \E n \in Nodes : Graph!Visit(n)
           \/ Graph!NextRound \/ Graph!AnswerNearby \/ UNCHANGED graphVars
  <2>1. search' = search
    BY <1>9, Zenon DEF Graph!AskNearby, Graph!Visit, Graph!NextRound, Graph!AnswerNearby, graphVars
  <2> QED
    BY <1>2, <2>1
<1>10. ~Graph!Answer /\ ~(\E by \in {"service", "engine"}, n, m \in Nodes, d \in Depths : Graph!Ask(by, n, m, d))
  BY DEF Graph!Answer, Graph!Ask
<1> QED
  BY <1>5, <1>6, <1>7, <1>8, <1>9, <1>10, Zenon DEF Graph!Next

--------------------------------------------------------------------------------
(* The nine together.                                                         *)

LEMMA AuthHolds == Spec => []AuthInv
<1>1. Init => AuthInv
  BY AuthInit DEF Init
<1>2. AuthInv /\ [Next]_vars => AuthInv'
  BY AuthNext DEF Next, AuthStep, GateStep, LegalStep, AIStep, ChecksStep, RelStep, MergeStep,
         ViewStep, GraphStep,
         vars, authVars
<1> QED
  BY <1>1, <1>2, PTL DEF Spec

LEMMA GateHolds == Spec => []GateInv
<1>1. Init => GateInv
  BY ReviewsAssumption, GateInit DEF Init
<1>2. GateInv /\ [Next]_vars => GateInv'
  BY ReviewsAssumption, GateStepInv
     DEF Next, AuthStep, GateStep, LegalStep, AIStep, ChecksStep, RelStep, MergeStep,
         ViewStep, GraphStep,
         vars, gateVars
<1> QED
  BY <1>1, <1>2, PTL DEF Spec

LEMMA LegalHolds == Spec => []LegalInv
<1>1. Init => LegalInv
  BY LegalInit DEF Init
<1>2. LegalInv /\ [Next]_vars => LegalInv'
  BY LegalNext DEF Next, AuthStep, GateStep, LegalStep, AIStep, ChecksStep, RelStep, MergeStep,
         ViewStep, GraphStep,
         vars, legalVars
<1> QED
  BY <1>1, <1>2, PTL DEF Spec

LEMMA AIHolds == Spec => []AIInv
<1>1. Init => AIInv
  BY AIInit DEF Init
<1>2. Sources \subseteq AI!SourceTexts
  BY ReviewsAssumption DEF AI!AIReviewAssumption
<1>3. AIInv /\ [Next]_vars => AIInv'
  BY <1>2, AINext DEF Next, AuthStep, GateStep, LegalStep, AIStep, ChecksStep, RelStep, MergeStep,
         ViewStep, GraphStep,
         vars, aiVars
<1> QED
  BY <1>1, <1>3, PTL DEF Spec

LEMMA ChecksHold == Spec => []ChecksInv
<1>1. Init => ChecksInv
  BY ChecksInit DEF Init
<1>2. ChecksInv /\ [Next]_vars => ChecksInv'
  BY ReviewsAssumption, ChecksStepInv
     DEF Next, AuthStep, GateStep, LegalStep, AIStep, ChecksStep, RelStep, MergeStep,
         ViewStep, GraphStep,
         vars, checksVars
<1> QED
  BY <1>1, <1>2, PTL DEF Spec

LEMMA RelHolds == Spec => []RelInv
<1>1. Init => RelInv
  BY RelInit DEF Init
<1>2. RelInv /\ [Next]_vars => RelInv'
  BY RelNext DEF Next, AuthStep, GateStep, LegalStep, AIStep, ChecksStep, RelStep, MergeStep,
         ViewStep, GraphStep,
         vars, relVars
<1> QED
  BY <1>1, <1>2, PTL DEF Spec

LEMMA MergesHold == Spec => []MergeInv
<1>1. Init => MergeInv
  BY MergeInit DEF Init
<1>2. MergeInv /\ [Next]_vars => MergeInv'
  BY MergeNext DEF Next, AuthStep, GateStep, LegalStep, AIStep, ChecksStep, RelStep, MergeStep,
         ViewStep, GraphStep,
         vars, mergeVars
<1> QED
  BY <1>1, <1>2, PTL DEF Spec

LEMMA ViewsHold == Spec => []ViewInv
<1>1. Init => ViewInv
  BY ViewInit DEF Init
<1>2. ViewInv /\ [Next]_vars => ViewInv'
  BY ViewNext DEF Next, AuthStep, GateStep, LegalStep, AIStep, ChecksStep, RelStep, MergeStep,
         ViewStep, GraphStep,
         vars, viewVars
<1> QED
  BY <1>1, <1>2, PTL DEF Spec

LEMMA GraphHolds == Spec => []GraphInv
<1>1. Init => GraphInv
  BY GraphInit DEF Init
<1>2. GraphInv /\ [Next]_vars => GraphInv'
  BY ReviewsAssumption, GraphNext
     DEF Next, AuthStep, GateStep, LegalStep, AIStep, ChecksStep, RelStep, MergeStep,
         ViewStep, GraphStep,
         vars, graphVars
<1> QED
  BY <1>1, <1>2, PTL DEF Spec

\* A session that was exchanged is revoked for ever, and its successor is the same
\* user's, however many refreshes overlap (auth.py:285-339).
THEOREM ExchangedIsRevoked == Spec => []Auth!RotationRevokes
<1>1. AuthInv => Auth!RotationRevokes
  BY DEF AuthInv, Auth!SessionsSafe
<1> QED
  BY <1>1, AuthHolds, PTL

\* No session that a logout-all saw is ever live again (auth.py:375-422).
THEOREM LogoutAllHolds == Spec => []Auth!SweptStaysRevoked
<1>1. AuthInv => Auth!SweptStaysRevoked
  BY DEF AuthInv, Auth!SessionsSafe
<1> QED
  BY <1>1, AuthHolds, PTL

\* No window of any position counts more requests than the limit allows, in any number of
\* processes, with Redis up or down (core/rate_limit.py:32-54, 71-135).
THEOREM WindowsHoldTheLimit == Spec => []Gate!WindowBounded
<1>1. GateInv => Gate!WindowBounded
  BY GateIsSafe DEF Gate!GateSafe
<1> QED
  BY <1>1, GateHolds, PTL

\* Sessions and tokens, and the gate before the routes: what the run checks as AccessSafe,
\* for any users, threads, processes, limits and tokens.
THEOREM AccessIsSafe == Spec => []AccessSafe
<1>1. AuthInv /\ GateInv => AccessSafe
  BY GateIsSafe DEF AuthInv, AccessSafe
<1> QED
  BY <1>1, AuthHolds, GateHolds, PTL

\* The revisions of a section are numbered without gap and each starts from the text the
\* one before it stored, however imports of any documents overlap
\* (source_runner.py:302-352).
THEOREM RevisionsNeverFork == Spec => []Legal!RevisionsChain
<1>1. LegalInv => Legal!RevisionsChain
  BY DEF LegalInv
<1> QED
  BY <1>1, LegalHolds, PTL

\* An event comes with its log row and its source in one transaction, nothing is published
\* without an earlier approval, and what is private, an incident or incomplete never is
\* (ai_review.py:294-349).
THEOREM PublicationsAreReviewed ==
    Spec => [](AI!EventsAreLogged /\ AI!PublishedWasApproved /\ AI!HeldBack)
<1>1. AIInv => AI!EventsAreLogged /\ AI!PublishedWasApproved /\ AI!HeldBack
  BY DEF AIInv
<1> QED
  BY <1>1, AIHolds, PTL

\* Legal text, AI items, correctness checks and public views: what the run checks as
\* ReviewSafe, for any documents, sources, records and events and any number of sessions.
THEOREM ReviewsHold == Spec => []ReviewSafe
<1>1. AIInv => AI!AIReviewSafe
  BY DEF AIInv, AI!AIReviewSafe
<1>2. LegalInv /\ AIInv /\ ChecksInv /\ ViewInv => ReviewSafe
  BY <1>1, LegalIsSafe, ChecksSafe, ViewIsSafe DEF ReviewSafe
<1> QED
  BY <1>2, LegalHolds, AIHolds, ChecksHold, ViewsHold, PTL

\* For any page size, the pages of the map hold every public mapped event once, newest
\* first, and only the last is not truncated; the event of every feature has its detail, its
\* judge and its case have their pages, and only a full list of cases leaves its case out
\* (api/routes/map.py:122-228, public_events.py:192-275).
THEOREM PagesLoseNothing == Spec => [](View!PagesAreWhole /\ View!DotsResolve)
<1>1. ViewInv => View!PagesAreWhole /\ View!DotsResolve
  BY ViewIsSafe DEF View!PublicViewsSafe
<1> QED
  BY <1>1, ViewsHold, PTL

\* What a dot counts is what its panel and its detail show, but for an incident with only
\* news behind it, and an incident is public only with the snapshot a decision needs or as
\* auto_review published it, however imports and decisions alternate
\* (serializers/public.py:285-345, map_record.py:169-215).
THEOREM CountsAreShown == Spec => [](View!CountsAgree /\ View!ShownIsReviewed)
<1>1. ViewInv => View!CountsAgree /\ View!ShownIsReviewed
  BY ViewIsSafe DEF View!PublicViewsSafe
<1> QED
  BY <1>1, ViewsHold, PTL

\* Who a relationship names verified it, by the log, and unless two requests raced it says
\* what the last entry says, however verifications and withdrawals overlap
\* (api/routes/evidence.py:242-346).
THEOREM VerdictsAreLogged == Spec => []Rel!EvidenceLogged
<1>1. RelInv => Rel!EvidenceLogged
  BY RelIsSafe DEF Rel!RelationshipsSafe
<1> QED
  BY <1>1, RelHolds, PTL

\* From every row and every source record the merged_into links reach an active entity,
\* however many merges overlap, until one takes effect towards a row that was merged
\* first, or itself, or more than fifty rows were merged one into the next
\* (graph_merge.py:124-245).
THEOREM MergesNeverLoop == Spec => []Merge!ChainsEnd
<1>1. MergeInv => Merge!ChainsEnd
  BY MergeIsSafe DEF Merge!MergeSafe
<1> QED
  BY <1>1, MergesHold, PTL

\* Relationships and entities: what the run checks as EntitiesSafe, for any pairs,
\* reviewers, names and external ids and any number of sessions.
THEOREM EntitiesHold == Spec => []EntitiesSafe
<1>1. RelInv /\ MergeInv => EntitiesSafe
  BY RelIsSafe, MergeIsSafe DEF EntitiesSafe
<1> QED
  BY <1>1, RelHolds, MergesHold, PTL

\* Between any two entities, over any edges and while edges are written and retracted, both
\* searches return simple paths no longer than asked, the shorter first; when nothing was
\* written and no entity has more edges than the engine reads, a target within the depth is
\* not missed and the first path found is a shortest (services/graph_queries.py:190-277,
\* graph/graph_queries.py:196-284).
THEOREM PathsAreShortest ==
    Spec => [](Graph!PathsSound /\ Graph!ShortestFirst /\ Graph!PathsComplete)
<1>1. GraphInv => Graph!PathsSound /\ Graph!ShortestFirst /\ Graph!PathsComplete
  BY ReviewsAssumption, GraphIsSafe DEF SearchesSafe, Graph!GraphSafe
<1> QED
  BY <1>1, GraphHolds, PTL

\* Each search asks for the edges of an entity once at most, so it sends no more queries
\* than there are entities, whatever is written meanwhile (services/graph_queries.py:222-275,
\* graph/graph_queries.py:227-282).
THEOREM EntitiesAreReadOnce == Spec => [][ReadsOnce]_vars
<1>1. GraphInv /\ [Next]_vars => [ReadsOnce]_vars
  BY ReviewsAssumption, GraphReadsOnce
     DEF Next, AuthStep, GateStep, LegalStep, AIStep, ChecksStep, RelStep, MergeStep,
         ViewStep, GraphStep,
         vars, graphVars
<1> QED
  BY <1>1, GraphHolds, PTL DEF Spec

\* The searches of the entity graph: what the run checks as SearchesSafe, for any entities,
\* depths and limits.
THEOREM SearchesHold == Spec => []SearchesSafe
<1>1. GraphInv => SearchesSafe
  BY ReviewsAssumption, GraphIsSafe
<1> QED
  BY <1>1, GraphHolds, PTL
================================================================================
