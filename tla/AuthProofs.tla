----------------------------- MODULE AuthProofs -----------------------------
(***************************************************************************)
(* Proofs about Auth, for any users, passwords, clients and requests and   *)
(* any bounds: there is one initial administrator, and a session is never  *)
(* older than the password of its user.                                    *)
(***************************************************************************)
EXTENDS Auth, FiniteSetTheorems, TLAPS

----------------------------------------------------------------------------
(* The inductive invariant                                                 *)

\* The fields that requests and tables have.
Shapes ==
    /\ admins \in [Users -> Hashes]
    /\ generation \in [Users -> Nat]
    /\ sessions \subseteq Session
    /\ req \in [Requests -> Credential \cup Change \cup {NoRequest}]
    /\ requests \in Nat

Busy(r)     == req[r].kind # "none"
IsCredential(r) == req[r].kind \in {"login", "bootstrap"}

\* What a request has done by the time it is where it is.
Fit(x) ==
    /\ x.pc = "insert" => x.hash # NoAdmin /\ x.kind # "change"
    /\ x.pc \in {"waitnext", "worknext", "commit"} => x.kind = "change"

\* A request that will insert a session or set a password is about an
\* administrator who exists; administrators are never deleted.
UserExists ==
    \A r \in Requests :
        /\ req[r].kind = "change" => admins[req[r].user] # NoAdmin
        /\ Busy(r) /\ req[r].hash # NoAdmin => admins[req[r].user] # NoAdmin
        /\ Busy(r) => Fit(req[r])

SessionUserExists == \A s \in sessions : admins[s.user] # NoAdmin

\* first holds who was created when there was nobody.
FirstAdmin ==
    /\ initial \subseteq first
    /\ first = {} => NoAdmins
    /\ first # {} => \E u \in Users : first = {u} /\ admins[u] # NoAdmin

\* Tokens come from the counter.
TokensGiven ==
    /\ \A s \in sessions : s.token \in 1..requests
    /\ \A r \in Requests : Busy(r) => req[r].token \in 1..requests

\* The token of a login or bootstrap is its own.
TokensFresh ==
    \A r \in Requests : IsCredential(r) =>
        /\ \A s \in sessions : s.token # req[r].token
        /\ \A q \in Requests : Busy(q) /\ req[q].token = req[r].token => q = r

\* A token, also that of a password change, names sessions of one user only.
TokensOwned ==
    /\ \A s, t \in sessions : s.token = t.token => s.user = t.user
    /\ \A r \in Requests : req[r].kind = "change" =>
         \A s \in sessions : s.token = req[r].token => s.user = req[r].user

Tokens == TokensGiven /\ TokensFresh /\ TokensOwned

IInv ==
    /\ Shapes /\ UserExists /\ SessionUserExists /\ FirstAdmin /\ Tokens
    /\ SessionsAreCurrent

----------------------------------------------------------------------------
(* Requests                                                                *)

Req == Credential \cup Change \cup {NoRequest}

\* The same request further on, with or without the hash it has read.
Goes(x, y) == y.kind = x.kind /\ y.user = x.user /\ y.token = x.token

\* Requests go on, with an administrator where they need one, or end.
Moves ==
    /\ req' \in [Requests -> Req]
    /\ \A q \in Requests :
         \/ req'[q] = NoRequest
         \/ /\ Busy(q) /\ Goes(req[q], req'[q])
            /\ req'[q].hash # NoAdmin => admins[req[q].user] # NoAdmin
            /\ Fit(req'[q])

\* A request that is there has all the fields of its kind.
LEMMA BusyShape ==
    ASSUME Shapes, NEW r \in Requests, Busy(r)
    PROVE  /\ req[r] \in Credential \cup Change
           /\ req[r].user \in Users /\ req[r].token \in Nat
           /\ req[r].password \in Passwords /\ req[r].hash \in Hashes
           /\ req[r].kind = "change" => req[r] \in Change /\ req[r].next \in Passwords
           /\ IsCredential(r) <=> req[r] \in Credential
           /\ IsCredential(r) <=> req[r].kind # "change"
  BY DEF Shapes, Busy, IsCredential, Credential, Change, NoRequest

\* A request whose pc is not "idle" is there.
LEMMA Running ==
    ASSUME Shapes, NEW r \in Requests, req[r].pc # "idle"
    PROVE  Busy(r)
  BY DEF Shapes, Busy, Credential, Change, NoRequest, Pcs

\* Moving on changes pc only.
LEMMA MoveOn ==
    ASSUME Shapes, NEW r \in Requests, Busy(r), NEW v \in Pcs, Step(r, v)
    PROVE  /\ req' \in [Requests -> Req]
           /\ \A q \in Requests \ {r} : req'[q] = req[q]
           /\ req'[r].kind = req[r].kind /\ req'[r].user = req[r].user
           /\ req'[r].token = req[r].token /\ req'[r].hash = req[r].hash
           /\ req'[r].pc = v
  <1>1. req[r] \in Credential \cup Change BY BusyShape
  <1>2. req' = [req EXCEPT ![r] = [req[r] EXCEPT !.pc = v]] BY DEF Step
  <1>3. [req[r] EXCEPT !.pc = v] \in Credential \cup Change
    BY <1>1 DEF Credential, Change
  <1>4. /\ [req[r] EXCEPT !.pc = v].kind = req[r].kind
        /\ [req[r] EXCEPT !.pc = v].user = req[r].user
        /\ [req[r] EXCEPT !.pc = v].token = req[r].token
        /\ [req[r] EXCEPT !.pc = v].hash = req[r].hash
        /\ [req[r] EXCEPT !.pc = v].pc = v
    BY <1>1 DEF Credential, Change
  <1> QED BY <1>2, <1>3, <1>4 DEF Shapes, Req

\* A request that is not there has no fields to speak of.
LEMMA BusyOrNone ==
    ASSUME Shapes, NEW q \in Requests
    PROVE  req[q] = NoRequest \/ Busy(q)
  BY DEF Shapes, Busy, Credential, Change

\* Nobody moves.
LEMMA MovesNone ==
    ASSUME IInv, UNCHANGED req
    PROVE  Moves
  BY BusyOrNone DEF IInv, Shapes, Moves, Req, UserExists, Goes

\* One request moves on.
LEMMA MovesOn ==
    ASSUME IInv, NEW r \in Requests, Busy(r), NEW v \in Pcs, Step(r, v),
           v = "insert" => req[r].hash # NoAdmin /\ req[r].kind # "change",
           v \in {"waitnext", "worknext", "commit"} => req[r].kind = "change"
    PROVE  Moves
  <1>1. /\ req' \in [Requests -> Req]
        /\ \A q \in Requests \ {r} : req'[q] = req[q]
        /\ Goes(req[r], req'[r]) /\ req'[r].hash = req[r].hash /\ Fit(req'[r])
    BY MoveOn DEF IInv, Goes, Fit
  <1> QED BY <1>1, BusyOrNone DEF IInv, UserExists, Goes, Moves

\* One request ends.
LEMMA MovesDone ==
    ASSUME IInv, NEW r \in Requests, Done(r)
    PROVE  Moves
  <1>1. /\ req' \in [Requests -> Req]
        /\ \A q \in Requests : req'[q] \in {NoRequest, req[q]}
    BY DEF IInv, Shapes, Done, Req
  <1> QED BY <1>1, BusyOrNone DEF IInv, UserExists, Goes, Moves

\* What the invariant says of requests survives when they move, administrators stay
\* and there are no sessions but old ones.
LEMMA MovesKeep ==
    ASSUME IInv, Moves, requests' = requests,
           \A u \in Users : admins[u] # NoAdmin => admins'[u] # NoAdmin,
           \A s \in sessions' : s.user \in Users /\
             \E t \in sessions : t.token = s.token /\ t.user = s.user
    PROVE  UserExists' /\ SessionUserExists' /\ Tokens'
  <1> USE DEF IInv
  <1>1. \A q \in Requests : req'[q].kind # "none" =>
          /\ req[q].kind # "none" /\ req'[q].kind = req[q].kind
          /\ req'[q].token = req[q].token /\ req'[q].user = req[q].user
    BY DEF Moves, Busy, Goes, NoRequest
  <1>2. \A q \in Requests : req'[q].kind # "none" => req[q].user \in Users
    BY <1>1, BusyShape DEF Busy
  <1>3. UserExists'
    <2>1. \A q \in Requests : req'[q].kind # "none" =>
            /\ req'[q].hash # NoAdmin => admins[req[q].user] # NoAdmin
            /\ Fit(req'[q])
      BY DEF Moves, NoRequest
    <2> QED BY <1>1, <1>2, <2>1 DEF UserExists, Busy
  <1>4. SessionUserExists' BY DEF SessionUserExists
  <1>5. TokensGiven'
    <2>1. TokensGiven BY DEF Tokens
    <2> QED BY <2>1, <1>1 DEF TokensGiven, Busy
  <1>6. TokensFresh'
    <2>1. TokensFresh BY DEF Tokens
    <2> QED BY <2>1, <1>1 DEF TokensFresh, Busy, IsCredential
  <1>7. TokensOwned'
    <2>1. TokensOwned BY DEF Tokens
    <2> QED BY <2>1, <1>1 DEF TokensOwned
  <1> QED BY <1>3, <1>4, <1>5, <1>6, <1>7 DEF Tokens

----------------------------------------------------------------------------
(* Steps on the tables                                                     *)

\* The tables stay, but for sessions that end.
LEMMA QuietStep ==
    ASSUME IInv, Moves, UNCHANGED <<admins, generation, initial, first, requests>>,
           sessions' \subseteq sessions
    PROVE  IInv'
  <1> USE DEF IInv
  <1>1. Shapes' BY DEF Shapes, Moves, Req
  <1>2. FirstAdmin' /\ SessionsAreCurrent'
    BY DEF FirstAdmin, SessionsAreCurrent, NoAdmins
  <1>3. \A s \in sessions' : s.user \in Users BY DEF Shapes, Session
  <1>4. UserExists' /\ SessionUserExists' /\ Tokens' BY <1>3, MovesKeep
  <1> QED BY <1>1, <1>2, <1>4

\* An administrator is created: nobody had a session of that name.
LEMMA NewAdminStep ==
    ASSUME IInv, Moves, NEW u \in Users, NEW p \in Passwords,
           admins[u] = NoAdmin, NewAdmin(u, p),
           initial' = initial \/ (initial' = initial \cup {u} /\ NoAdmins),
           UNCHANGED <<sessions, requests>>
    PROVE  IInv'
  <1> USE DEF IInv
  <1>1. /\ admins' = [admins EXCEPT ![u] = p] /\ p # NoAdmin
        /\ generation' = [generation EXCEPT ![u] = @ + 1]
    BY AuthAssumption DEF NewAdmin, AuthAssumption
  <1>2. Shapes' BY <1>1 DEF Shapes, Moves, Req, Hashes
  <1>3. \A v \in Users : admins[v] # NoAdmin => admins'[v] # NoAdmin
    BY <1>1 DEF Shapes
  <1>4. \A s \in sessions : s.user \in Users /\ s.user # u
    BY DEF SessionUserExists, Shapes, Session
  <1>5. FirstAdmin'
    <2>1. admins'[u] # NoAdmin BY <1>1 DEF Shapes
    <2>2. CASE NoAdmins
      <3>1. first = {} BY <2>2 DEF FirstAdmin, NoAdmins
      <3>2. first' = {u} BY <2>2 DEF NewAdmin
      <3> QED BY <3>1, <3>2, <2>1 DEF FirstAdmin
    <2>3. CASE ~NoAdmins
      <3>1. first' = first /\ initial' = initial BY <2>3 DEF NewAdmin
      <3> QED BY <3>1, <2>3, <1>3 DEF FirstAdmin
    <2> QED BY <2>2, <2>3
  <1>6. SessionsAreCurrent' BY <1>1, <1>4 DEF SessionsAreCurrent, Shapes
  <1>7. UserExists' /\ SessionUserExists' /\ Tokens' BY <1>3, <1>4, MovesKeep
  <1> QED BY <1>2, <1>5, <1>6, <1>7

\* A password is set: the sessions of the user go, except one that is kept and
\* belongs to nobody else.
LEMMA SetPasswordStep ==
    ASSUME IInv, Moves, NEW u \in Users, NEW p \in Passwords, NEW kept,
           admins[u] # NoAdmin, SetPassword(u, p, kept), UNCHANGED requests,
           \A s \in sessions : s.token = kept => s.user = u
    PROVE  IInv'
  <1> USE DEF IInv
  <1>1. /\ admins' = [admins EXCEPT ![u] = p] /\ p # NoAdmin
        /\ generation' = [generation EXCEPT ![u] = @ + 1]
        /\ UNCHANGED <<initial, first>>
    BY AuthAssumption DEF SetPassword, AuthAssumption
  <1>2. \A v \in Users : admins[v] # NoAdmin <=> admins'[v] # NoAdmin
    BY <1>1 DEF Shapes
  <1>3. \A s \in sessions' :
          \/ s \in sessions /\ s.user # u
          \/ \E t \in sessions : t.user = u /\ s = [t EXCEPT !.generation = generation[u] + 1]
    BY DEF SetPassword, Revoked
  <1>4. \A s \in sessions' :
          /\ s \in Session /\ \E t \in sessions : t.token = s.token /\ t.user = s.user
          /\ \/ s \in sessions /\ s.user # u
             \/ s.user = u /\ s.generation = generation[u] + 1
    BY <1>3 DEF Shapes, Session
  <1>5. Shapes' BY <1>1, <1>4 DEF Shapes, Moves, Req, Hashes
  <1>6. FirstAdmin' BY <1>1, <1>2 DEF FirstAdmin, NoAdmins
  <1>7. SessionsAreCurrent' BY <1>1, <1>4 DEF SessionsAreCurrent, Shapes, Session
  <1>8. UserExists' /\ SessionUserExists' /\ Tokens'
    BY <1>2, <1>4, MovesKeep DEF Session
  <1> QED BY <1>5, <1>6, <1>7, <1>8

\* Login ends with a session under a token that nobody else has.
LEMMA InsertSessionStep ==
    ASSUME IInv, NEW r \in Requests, InsertSession(r)
    PROVE  IInv'
  <1> USE DEF IInv
  <1> DEFINE new == [token |-> req[r].token, user |-> req[r].user,
                     generation |-> generation[req[r].user]]
  <1>1. Busy(r) BY Running DEF InsertSession
  <1>2. /\ req[r].user \in Users /\ req[r].token \in 1..requests
        /\ admins[req[r].user] # NoAdmin /\ IsCredential(r)
    BY <1>1, BusyShape DEF InsertSession, UserExists, Fit, Tokens, TokensGiven
  <1>3. /\ sessions' = sessions \cup {new}
        /\ UNCHANGED <<admins, generation, initial, first, requests>>
        /\ Done(r)
    BY DEF InsertSession, bounds
  <1>4. /\ new.token = req[r].token /\ new.user = req[r].user
        /\ new.generation = generation[req[r].user]
    OBVIOUS
  <1> HIDE DEF new
  <1>5. /\ req' \in [Requests -> Req] /\ req'[r] = NoRequest
        /\ \A q \in Requests \ {r} : req'[q] = req[q]
    BY <1>3 DEF Done, Shapes, Req
  <1>6. new \in Session BY <1>2 DEF new, Session, Shapes
  <1>7. Shapes' BY <1>3, <1>5, <1>6 DEF Shapes, Req
  <1>8. FirstAdmin' BY <1>3 DEF FirstAdmin, NoAdmins
  <1>9. SessionsAreCurrent' BY <1>3, <1>4 DEF SessionsAreCurrent
  <1>10. UserExists' BY <1>3, <1>5 DEF UserExists, Busy, NoRequest
  <1>11. SessionUserExists' BY <1>2, <1>3, <1>4 DEF SessionUserExists
  <1>12. TokensGiven' BY <1>2, <1>3, <1>4, <1>5 DEF Tokens, TokensGiven, Busy, NoRequest
  <1>13. \A q \in Requests \ {r} : Busy(q) => req[q].token # req[r].token
    BY <1>2 DEF Tokens, TokensFresh
  <1>14. TokensFresh'
    <2>1. TokensFresh BY DEF Tokens
    <2> QED BY <2>1, <1>3, <1>4, <1>5, <1>13 DEF TokensFresh, Busy, IsCredential, NoRequest
  <1>15. TokensOwned'
    <2>1. TokensOwned /\ \A s \in sessions : s.token # req[r].token
      BY <1>2 DEF Tokens, TokensFresh
    <2> QED BY <2>1, <1>3, <1>4, <1>5, <1>13 DEF TokensOwned, Busy, NoRequest
  <1> QED BY <1>7, <1>8, <1>9, <1>10, <1>11, <1>12, <1>14, <1>15 DEF Tokens

----------------------------------------------------------------------------
(* Arrivals                                                                *)

\* A request arrives with a token of its own, or with that of a session.
LEMMA ArriveStep ==
    ASSUME IInv, NEW r \in Requests, req[r] = NoRequest,
           NEW x \in Credential \cup Change,
           req' = [req EXCEPT ![r] = x], requests' = requests + 1,
           UNCHANGED <<admins, sessions, generation, initial, first>>,
           x.hash = NoAdmin, Fit(x),
           \/ x \in Credential /\ x.token = requests + 1
           \/ \E s \in sessions : x \in Change /\ x.token = s.token /\ x.user = s.user
    PROVE  IInv'
  <1> USE DEF IInv
  <1>1. /\ req' \in [Requests -> Req] /\ req'[r] = x
        /\ \A q \in Requests \ {r} : req'[q] = req[q]
    BY DEF Shapes, Req
  <1>2. requests \in Nat /\ requests' = requests + 1 BY DEF Shapes
  <1>3. Shapes' BY <1>1 DEF Shapes, Req
  <1>4. ~Busy(r) /\ ~IsCredential(r) BY DEF Busy, IsCredential, NoRequest
  <1>5. x.token \in 1..(requests + 1)
    BY <1>2 DEF Tokens, TokensGiven
  <1>6. UserExists'
    BY <1>1 DEF UserExists, Busy, SessionUserExists, Credential
  <1>7. SessionUserExists' /\ FirstAdmin' /\ SessionsAreCurrent'
    BY DEF SessionUserExists, FirstAdmin, SessionsAreCurrent, NoAdmins
  <1>8. TokensGiven' BY <1>1, <1>2, <1>5 DEF Tokens, TokensGiven, Busy
  <1>9. TokensFresh'
    <2>1. CASE x \in Credential /\ x.token = requests + 1
      BY <2>1, <1>1, <1>2 DEF Tokens, TokensFresh, TokensGiven, Busy, IsCredential
    <2>2. CASE \E s \in sessions : x \in Change /\ x.token = s.token /\ x.user = s.user
      BY <2>2, <1>1 DEF Tokens, TokensFresh, Busy, IsCredential, Change
    <2> QED BY <2>1, <2>2
  <1>10. TokensOwned'
    <2>1. CASE x \in Credential /\ x.token = requests + 1
      BY <2>1, <1>1 DEF Tokens, TokensOwned, Credential
    <2>2. CASE \E s \in sessions : x \in Change /\ x.token = s.token /\ x.user = s.user
      BY <2>2, <1>1 DEF Tokens, TokensOwned
    <2> QED BY <2>1, <2>2
  <1> QED BY <1>3, <1>6, <1>7, <1>8, <1>9, <1>10 DEF Tokens

----------------------------------------------------------------------------
(* The actions                                                             *)

\* An empty database and no requests.
LEMMA InitIInv == Init => IInv
  BY DEF Init, IInv, Shapes, UserExists, SessionUserExists, FirstAdmin, NoAdmins, Tokens,
         TokensGiven, TokensFresh, TokensOwned, SessionsAreCurrent, Busy, IsCredential,
         NoRequest, Hashes, Session

\* login and bootstrap arrive with a token that was never given out.
LEMMA CredentialsKeeps ==
    ASSUME IInv, NEW r \in Requests, NEW kind \in {"login", "bootstrap"},
           NEW c \in Clients, NEW u \in Users, NEW p \in Passwords,
           Credentials(r, kind, c, u, p)
    PROVE  IInv'
  <1> DEFINE x == [kind |-> kind, pc |-> IF kind = "login" THEN "read" ELSE "needed",
                   client |-> c, token |-> requests + 1, user |-> u, password |-> p,
                   hash |-> NoAdmin]
  <1>1. x \in Credential /\ x.token = requests + 1 /\ x.hash = NoAdmin /\ Fit(x)
    BY DEF Credential, Hashes, IInv, Shapes, Pcs, Fit
  <1>2. /\ req[r] = NoRequest /\ req' = [req EXCEPT ![r] = x] /\ requests' = requests + 1
        /\ UNCHANGED <<admins, sessions, generation, initial, first>>
    BY DEF Credentials, Arrive, database
  <1> HIDE DEF x
  <1> QED BY <1>1, <1>2, ArriveStep

\* A password change arrives with the token of a session.
LEMMA ChangePasswordKeeps ==
    ASSUME IInv, NEW r \in Requests, NEW s \in sessions,
           NEW current \in Passwords, NEW next \in Passwords,
           ChangePassword(r, s, current, next)
    PROVE  IInv'
  <1> DEFINE x == [kind |-> "change", pc |-> "read", token |-> s.token, user |-> s.user,
                   password |-> current, next |-> next, hash |-> NoAdmin]
  <1>1. /\ x \in Change /\ x.token = s.token /\ x.user = s.user
        /\ x.hash = NoAdmin /\ Fit(x)
    BY DEF Change, Hashes, IInv, Shapes, Session, Pcs, Fit
  <1>2. /\ req[r] = NoRequest /\ req' = [req EXCEPT ![r] = x] /\ requests' = requests + 1
        /\ UNCHANGED <<admins, sessions, generation, initial, first>>
    BY DEF ChangePassword, Arrive, database
  <1> HIDE DEF x
  <1> QED BY <1>1, <1>2, ArriveStep

\* The hash is that of an administrator who exists, or there is none.
LEMMA ReadHashKeeps ==
    ASSUME IInv, NEW r \in Requests, ReadHash(r)
    PROVE  IInv'
  <1> DEFINE v == IF admins[req[r].user] = NoAdmin THEN "failed" ELSE "wait"
             x == [req[r] EXCEPT !.pc = v, !.hash = admins[req[r].user]]
  <1>1. Busy(r) BY Running DEF IInv, ReadHash
  <1>2. req[r] \in Credential \cup Change /\ admins[req[r].user] \in Hashes
    BY <1>1, BusyShape DEF IInv, Shapes
  <1>3. /\ x \in Credential \cup Change /\ Goes(req[r], x)
        /\ x.hash = admins[req[r].user] /\ Fit(x)
    BY <1>2 DEF Credential, Change, Goes, Pcs, Fit
  <1>4. /\ req' = [req EXCEPT ![r] = x]
        /\ UNCHANGED <<admins, sessions, generation, initial, first, requests>>
    BY DEF ReadHash, database, bounds
  <1> HIDE DEF x
  <1>5. /\ req' \in [Requests -> Req] /\ req'[r] = x
        /\ \A q \in Requests \ {r} : req'[q] = req[q]
    BY <1>3, <1>4 DEF IInv, Shapes, Req
  <1>6. Moves BY <1>1, <1>3, <1>5, BusyOrNone DEF IInv, UserExists, Goes, Moves
  <1> QED BY <1>4, <1>6, QuietStep

\* verifyPassword succeeds only against a hash, that is, for an administrator.
LEMMA WorkKeeps ==
    ASSUME IInv, NEW r \in Requests, Work(r)
    PROVE  IInv'
  <1>1. Busy(r) BY Running DEF IInv, Work
  <1>2. req[r].password \in Passwords BY <1>1, BusyShape DEF IInv
  <1>3. PICK v \in Pcs :
          /\ Step(r, v)
          /\ v = "insert" => req[r].hash # NoAdmin /\ req[r].kind # "change"
          /\ v \in {"waitnext", "worknext", "commit"} => req[r].kind = "change"
    BY <1>2, AuthAssumption DEF Work, AuthAssumption, Pcs
  <1>4. UNCHANGED <<admins, sessions, generation, initial, first, requests>>
    BY DEF Work, database, bounds
  <1> QED BY <1>1, <1>3, <1>4, MovesOn, QuietStep

\* The INSERT happens only if there is nobody, else the request ends.
LEMMA CreateInitialAdminKeeps ==
    ASSUME IInv, NEW r \in Requests, CreateInitialAdmin(r)
    PROVE  IInv'
  <1>1. Busy(r) BY Running DEF IInv, CreateInitialAdmin
  <1>2. req[r].user \in Users /\ req[r].password \in Passwords BY <1>1, BusyShape DEF IInv
  <1>3. UNCHANGED <<sessions, requests>> BY DEF CreateInitialAdmin, bounds
  <1>4. CASE NoAdmins
    <2>1. /\ NewAdmin(req[r].user, req[r].password) /\ Step(r, "read")
          /\ initial' = initial \cup {req[r].user}
      BY <1>4 DEF CreateInitialAdmin, InsertInitial
    <2>2. Moves BY <1>1, <2>1, MovesOn DEF Pcs
    <2>3. admins[req[r].user] = NoAdmin BY <1>2, <1>4 DEF NoAdmins
    <2> QED BY <1>2, <1>3, <1>4, <2>1, <2>2, <2>3, NewAdminStep
  <1>5. CASE ~NoAdmins
    <2>1. Done(r) /\ UNCHANGED <<admins, generation, initial, first>>
      BY <1>5 DEF CreateInitialAdmin, InsertInitial
    <2> QED BY <1>3, <2>1, MovesDone, QuietStep
  <1> QED BY <1>4, <1>5

\* The session that asked for the change is one of its user.
LEMMA ChangeKeeps ==
    ASSUME IInv, NEW r \in Requests, ChangePasswordKeepingSession(r)
    PROVE  IInv'
  <1>1. Busy(r) BY Running DEF IInv, ChangePasswordKeepingSession
  <1>0. req[r].kind = "change"
    BY <1>1 DEF IInv, UserExists, Fit, ChangePasswordKeepingSession
  <1>2. req[r].user \in Users /\ req[r].next \in Passwords BY <1>0, <1>1, BusyShape DEF IInv
  <1>3. admins[req[r].user] # NoAdmin BY <1>0 DEF IInv, UserExists
  <1>4. \A s \in sessions : s.token = req[r].token => s.user = req[r].user
    BY <1>0 DEF IInv, Tokens, TokensOwned
  <1>5. /\ SetPassword(req[r].user, req[r].next, req[r].token) /\ Done(r)
        /\ UNCHANGED requests
    BY DEF ChangePasswordKeepingSession, bounds
  <1> QED BY <1>2, <1>3, <1>4, <1>5, MovesDone, SetPasswordStep

\* One request at a time: each step of a request keeps the invariant.
LEMMA RequestStepKeeps ==
    ASSUME IInv, NEW r \in Requests, RequestStep(r)
    PROVE  IInv'
  <1> DEFINE Still == UNCHANGED <<admins, sessions, generation, initial, first, requests>>
  <1>1. CASE NeedsInitialAdmin(r)
    <2>1. Busy(r) /\ Still
      BY <1>1, Running DEF IInv, NeedsInitialAdmin, database, bounds
    <2>2. Step(r, "wait") \/ Done(r) BY <1>1 DEF NeedsInitialAdmin
    <2>3. Moves BY <2>1, <2>2, MovesOn, MovesDone DEF Pcs
    <2> QED BY <2>1, <2>3, QuietStep
  <1>2. CASE Enter(r)
    <2>1. Busy(r) /\ Still BY <1>2, Running DEF IInv, Enter, database, bounds
    <2>2. CASE req[r].pc = "wait"
      <3>1. Step(r, "work") BY <1>2, <2>2 DEF Enter
      <3> QED BY <2>1, <3>1, MovesOn, QuietStep DEF Pcs
    <2>3. CASE req[r].pc = "waitnext"
      <3>1. Step(r, "worknext") BY <1>2, <2>3 DEF Enter
      <3>2. req[r].kind = "change" BY <2>1, <2>3 DEF IInv, UserExists, Fit
      <3> QED BY <2>1, <3>1, <3>2, MovesOn, QuietStep DEF Pcs
    <2> QED BY <1>2, <2>2, <2>3 DEF Enter
  <1>3. CASE WorkNext(r)
    <2>1. Busy(r) /\ Still BY <1>3, Running DEF IInv, WorkNext, database, bounds
    <2>2. req[r].kind = "change" BY <1>3, <2>1 DEF IInv, UserExists, Fit, WorkNext
    <2>3. Step(r, "commit") BY <1>3 DEF WorkNext
    <2> QED BY <2>1, <2>2, <2>3, MovesOn, QuietStep DEF Pcs
  <1>4. CASE Fail(r)
    <2>1. Done(r) /\ Still BY <1>4 DEF Fail, database, bounds
    <2> QED BY <2>1, MovesDone, QuietStep
  <1> QED
    BY <1>1, <1>2, <1>3, <1>4, ReadHashKeeps, WorkKeeps, CreateInitialAdminKeeps,
       InsertSessionStep, ChangeKeeps DEF RequestStep

\* What happens beside the requests: logout, expiry, commands, aging and crashes.
LEMMA NextKeeps == IInv /\ [Next]_vars => IInv'
  <1> SUFFICES ASSUME IInv, [Next]_vars PROVE IInv' OBVIOUS
  <1> DEFINE Still == UNCHANGED <<admins, generation, initial, first, requests>>
  <1>1. ASSUME NEW r \in Requests, RequestStep(r) PROVE IInv'
    BY <1>1, RequestStepKeeps
  <1>2. ASSUME NEW r \in Requests, Cancel(r) PROVE IInv'
    <2>1. Busy(r) /\ Still /\ UNCHANGED sessions /\ Step(r, "failed")
      BY <1>2, Running DEF IInv, Cancel, database
    <2> QED BY <2>1, MovesOn, QuietStep DEF Pcs
  <1>3. ASSUME NEW s \in sessions, Logout(s) \/ Expire(s) PROVE IInv'
    <2>1. Still /\ UNCHANGED req /\ sessions' \subseteq sessions
      BY <1>3 DEF Logout, Expire, bounds
    <2> QED BY <2>1, MovesNone, QuietStep
  <1>4. ASSUME NEW u \in Users, NEW p \in Passwords, CreateAdmin(u, p) PROVE IInv'
    <2>1. /\ admins[u] = NoAdmin /\ NewAdmin(u, p)
          /\ UNCHANGED <<sessions, initial, req, requests>>
      BY <1>4 DEF CreateAdmin
    <2> QED BY <2>1, MovesNone, NewAdminStep
  <1>5. ASSUME NEW u \in Users, NEW p \in Passwords, ResetPassword(u, p) PROVE IInv'
    <2>1. /\ admins[u] # NoAdmin /\ SetPassword(u, p, 0) /\ UNCHANGED <<req, requests>>
      BY <1>5 DEF ResetPassword
    <2>2. \A s \in sessions : s.token # 0
      BY DEF IInv, Shapes, Tokens, TokensGiven
    <2> QED BY <2>1, <2>2, MovesNone, SetPasswordStep
  <1>6. ASSUME NEW c \in Clients, Age(c) \/ BlockEnds(c) PROVE IInv'
    <2>1. Still /\ UNCHANGED <<req, sessions>> BY <1>6 DEF Age, BlockEnds, database
    <2> QED BY <2>1, MovesNone, QuietStep
  <1>7. CASE Crash
    <2>1. Still /\ UNCHANGED sessions /\ req' = [r \in Requests |-> NoRequest]
      BY <1>7 DEF Crash, database
    <2>2. Moves BY <2>1 DEF Moves, Req
    <2> QED BY <2>1, <2>2, QuietStep
  <1>8. CASE UNCHANGED vars
    <2>1. Still /\ UNCHANGED <<req, sessions>> BY <1>8 DEF vars, database, bounds
    <2> QED BY <2>1, MovesNone, QuietStep
  <1> QED
    BY <1>1, <1>2, <1>3, <1>4, <1>5, <1>6, <1>7, <1>8, CredentialsKeeps, ChangePasswordKeeps
       DEF Next

\* The invariant holds in every state of every behaviour.
LEMMA AlwaysIInv == Spec => []IInv
  BY InitIInv, NextKeeps, PTL DEF Spec

----------------------------------------------------------------------------
(* The limiter and the password memory                                     *)

Attempt == [count: 0..(FailuresToBlock - 1), until: {"none", "future", "past"}, old: BOOLEAN]

\* The map of the limiter is bounded.
Bounded(f) ==
    /\ DOMAIN f \subseteq Clients
    /\ IsFiniteSet(DOMAIN f) /\ Cardinality(DOMAIN f) <= LimiterEntries
    /\ f = [c \in DOMAIN f |-> f[c]] /\ \A c \in DOMAIN f : f[c] \in Attempt

Working == {"work", "worknext"}

\* At most one request is inside withPasswordMemory.
OneWorks ==
    /\ slot = {r \in Requests : req[r].pc \in Working}
    /\ \A r, q \in slot : r = q

Bounds == Bounded(failures) /\ OneWorks

\* Entries only leave: the limiter stays within its bound.
LEMMA WithoutBounded ==
    ASSUME Bounded(failures), NEW cs
    PROVE  Bounded(Without(cs)) /\ DOMAIN Without(cs) = DOMAIN failures \ cs
  <1>1. DOMAIN Without(cs) = DOMAIN failures \ cs BY DEF Without
  <1>2. /\ IsFiniteSet(DOMAIN failures \ cs)
        /\ Cardinality(DOMAIN failures \ cs) <= Cardinality(DOMAIN failures)
    BY FS_Subset DEF Bounded
  <1>3. Cardinality(DOMAIN failures) \in Nat /\ Cardinality(DOMAIN failures \ cs) \in Nat
    BY <1>2, FS_CardinalityType DEF Bounded
  <1>4. LimiterEntries \in Nat BY AuthAssumption DEF AuthAssumption
  <1>5. Cardinality(DOMAIN failures \ cs) <= LimiterEntries
    BY <1>2, <1>3, <1>4 DEF Bounded
  <1>6. \A c \in DOMAIN failures \ cs : Without(cs)[c] = failures[c] BY DEF Without
  <1>7. Without(cs) = [c \in DOMAIN Without(cs) |-> Without(cs)[c]] BY DEF Without
  <1> QED BY <1>1, <1>2, <1>5, <1>6, <1>7 DEF Bounded

\* evict makes room for one entry, whether or not anything has aged.
LEMMA EvictMakesRoom ==
    ASSUME Bounded(failures), NEW kept \in evict
    PROVE  /\ Bounded(kept) /\ DOMAIN kept \subseteq DOMAIN failures
           /\ Cardinality(DOMAIN kept) < LimiterEntries
  <1>1. PICK more \in SUBSET (DOMAIN failures \ Aged) :
          /\ kept = Without(Aged \cup more)
          /\ IF Cardinality(DOMAIN failures \ Aged) < LimiterEntries
             THEN more = {}
             ELSE Cardinality(DOMAIN failures \ (Aged \cup more)) = LimiterEntries - 1
    BY DEF evict
  <1>2. Bounded(kept) /\ DOMAIN kept = DOMAIN failures \ (Aged \cup more)
    BY <1>1, WithoutBounded
  <1>3. CASE Cardinality(DOMAIN failures \ Aged) < LimiterEntries
    <2>1. DOMAIN kept = DOMAIN failures \ Aged BY <1>1, <1>2, <1>3
    <2> QED BY <1>2, <1>3, <2>1
  <1>4. CASE ~(Cardinality(DOMAIN failures \ Aged) < LimiterEntries)
    <2>1. Cardinality(DOMAIN kept) = LimiterEntries - 1 BY <1>1, <1>2, <1>4
    <2> QED BY <1>2, <2>1, AuthAssumption DEF AuthAssumption
  <1> QED BY <1>3, <1>4

\* A failure is counted, or blocks the client.
LEMMA CountedAttempt ==
    ASSUME NEW item \in Attempt
    PROVE  Counted(item) \in Attempt
  <1> USE AuthAssumption DEF AuthAssumption
  <1>1. CASE item.count + 1 >= FailuresToBlock
    BY <1>1 DEF Counted, Attempt
  <1>2. CASE ~(item.count + 1 >= FailuresToBlock)
    <2>1. item.count + 1 \in 0..(FailuresToBlock - 1) BY <1>2 DEF Attempt
    <2>2. Counted(item) = [item EXCEPT !.count = item.count + 1, !.old = FALSE]
      BY <1>2 DEF Counted
    <2> QED BY <2>1, <2>2 DEF Attempt
  <1> QED BY <1>1, <1>2

\* Failed enters a client only where there is room.
LEMMA FailedBounded ==
    ASSUME Bounded(failures), NEW c \in Clients, Failed(c)
    PROVE  Bounded(failures')
  <1>1. PICK kept \in IF c \notin DOMAIN failures /\ Cardinality(DOMAIN failures) >= LimiterEntries
                      THEN evict ELSE {failures} :
          failures' = [d \in DOMAIN kept \cup {c} |->
              IF d # c THEN kept[d]
              ELSE Counted(IF c \in DOMAIN kept THEN kept[c] ELSE NoAttempt)]
    BY DEF Failed
  <1>2. LimiterEntries \in Nat /\ Cardinality(DOMAIN failures) \in Nat
    BY AuthAssumption, FS_CardinalityType DEF AuthAssumption, Bounded
  <1>3. Bounded(kept) /\ (c \in DOMAIN kept \/ Cardinality(DOMAIN kept) < LimiterEntries)
    BY <1>1, <1>2, EvictMakesRoom
  <1>4. /\ IsFiniteSet(DOMAIN kept \cup {c})
        /\ Cardinality(DOMAIN kept \cup {c}) <= LimiterEntries
    <2>1. Cardinality(DOMAIN kept) \in Nat BY <1>3, FS_CardinalityType DEF Bounded
    <2>2. CASE c \in DOMAIN kept
      <3>1. DOMAIN kept \cup {c} = DOMAIN kept BY <2>2
      <3> QED BY <1>3, <3>1 DEF Bounded
    <2>3. CASE c \notin DOMAIN kept
      <3>1. /\ IsFiniteSet(DOMAIN kept \cup {c})
            /\ Cardinality(DOMAIN kept \cup {c}) = Cardinality(DOMAIN kept) + 1
        BY <1>3, <2>3, FS_AddElement DEF Bounded
      <3> QED BY <1>2, <1>3, <2>1, <2>3, <3>1
    <2> QED BY <2>2, <2>3
  <1>5. NoAttempt \in Attempt BY AuthAssumption DEF NoAttempt, Attempt, AuthAssumption
  <1>6. DOMAIN failures' = DOMAIN kept \cup {c} BY <1>1
  <1>7. \A d \in DOMAIN failures' : failures'[d] \in Attempt
    <2> TAKE d \in DOMAIN failures'
    <2>1. CASE d # c
      <3>1. failures'[d] = kept[d] /\ d \in DOMAIN kept BY <1>1, <1>6, <2>1
      <3> QED BY <1>3, <3>1 DEF Bounded
    <2>2. CASE d = c
      <3>1. (IF c \in DOMAIN kept THEN kept[c] ELSE NoAttempt) \in Attempt
        BY <1>3, <1>5 DEF Bounded
      <3>2. failures'[d] = Counted(IF c \in DOMAIN kept THEN kept[c] ELSE NoAttempt)
        BY <1>1, <2>2
      <3> QED BY <3>1, <3>2, CountedAttempt
    <2> QED BY <2>1, <2>2
  <1>8. failures' = [d \in DOMAIN failures' |-> failures'[d]] BY <1>1
  <1> QED BY <1>3, <1>4, <1>6, <1>7, <1>8 DEF Bounded

\* Every step of a request keeps the limiter bounded.
LEMMA LimiterStep == Shapes /\ Bounded(failures) /\ [Next]_vars => Bounded(failures')
  <1> SUFFICES ASSUME Shapes, Bounded(failures), [Next]_vars PROVE Bounded(failures')
    OBVIOUS
  <1>1. ASSUME UNCHANGED failures PROVE Bounded(failures') BY <1>1 DEF Bounded
  <1>2. ASSUME NEW r \in Requests, Fail(r) PROVE Bounded(failures')
    <2>1. CASE UNCHANGED failures BY <2>1, <1>1
    <2>2. CASE ~UNCHANGED failures
      <3>1. IsCredential(r) /\ Failed(req[r].client)
        BY <1>2, <2>2 DEF Fail, IsCredential
      <3>2. req[r].client \in Clients
        BY <3>1, BusyShape DEF IsCredential, Busy, Credential
      <3> QED BY <3>1, <3>2, FailedBounded
    <2> QED BY <2>1, <2>2
  <1>3. ASSUME NEW r \in Requests, InsertSession(r) PROVE Bounded(failures')
    BY <1>3, WithoutBounded DEF InsertSession, Succeeded
  <1>4. ASSUME NEW r \in Requests, NEW kind, NEW c, NEW u, NEW p, Credentials(r, kind, c, u, p)
        PROVE  Bounded(failures')
    BY <1>4, WithoutBounded DEF Credentials, AllowedEntries
  <1>5. ASSUME NEW c \in Clients, Age(c) PROVE Bounded(failures')
    <2>1. /\ c \in DOMAIN failures
          /\ failures' = [failures EXCEPT ![c] = [failures[c] EXCEPT !.old = TRUE,
                             !.until = IF failures[c].until = "none" THEN "none" ELSE "past"]]
      BY <1>5 DEF Age
    <2>2. failures[c] \in Attempt BY <2>1 DEF Bounded
    <2>3. [failures[c] EXCEPT !.old = TRUE,
             !.until = IF failures[c].until = "none" THEN "none" ELSE "past"] \in Attempt
      BY <2>2 DEF Attempt
    <2>4. DOMAIN failures' = DOMAIN failures BY <2>1
    <2>5. \A d \in DOMAIN failures : failures'[d] \in Attempt
      BY <2>1, <2>3 DEF Bounded
    <2>6. failures' = [d \in DOMAIN failures' |-> failures'[d]] BY <2>1
    <2> QED BY <2>4, <2>5, <2>6 DEF Bounded
  <1>9. ASSUME NEW c \in Clients, BlockEnds(c) PROVE Bounded(failures')
    <2>1. /\ c \in DOMAIN failures
          /\ failures' = [failures EXCEPT ![c] = [failures[c] EXCEPT !.until = "past"]]
      BY <1>9 DEF BlockEnds
    <2>2. failures[c] \in Attempt BY <2>1 DEF Bounded
    <2>3. [failures[c] EXCEPT !.until = "past"] \in Attempt
      BY <2>2 DEF Attempt
    <2>4. DOMAIN failures' = DOMAIN failures BY <2>1
    <2>5. \A d \in DOMAIN failures : failures'[d] \in Attempt
      BY <2>1, <2>3 DEF Bounded
    <2>6. failures' = [d \in DOMAIN failures' |-> failures'[d]] BY <2>1
    <2> QED BY <2>4, <2>5, <2>6 DEF Bounded
  <1>6. CASE Crash
    <2>1. failures' = [c \in {} |-> NoAttempt] BY <1>6 DEF Crash
    <2>2. DOMAIN failures' = {} BY <2>1
    <2> QED BY <2>1, <2>2, FS_EmptySet, AuthAssumption DEF Bounded, AuthAssumption
  <1>7. CASE UNCHANGED vars BY <1>7, <1>1 DEF vars
  <1>8. ASSUME NEW r \in Requests, RequestStep(r) PROVE Bounded(failures')
    BY <1>8, <1>1, <1>2, <1>3
       DEF RequestStep, NeedsInitialAdmin, ReadHash, Enter, Work, WorkNext,
           CreateInitialAdmin, ChangePasswordKeepingSession
  <1> QED
    BY <1>1, <1>4, <1>5, <1>6, <1>7, <1>8, <1>9
       DEF Next, Cancel, ChangePassword, Logout, Expire, CreateAdmin, ResetPassword

\* A request that is neither at work before nor after a step leaves the slot alone.
LEMMA SlotStays ==
    ASSUME OneWorks, NEW r \in Requests, UNCHANGED slot,
           \A q \in Requests \ {r} : req'[q] = req[q],
           req[r].pc \notin Working, req'[r].pc \notin Working
    PROVE  OneWorks'
  BY DEF OneWorks

\* One request at a time: Enter waits for the empty slot.
LEMMA SlotStep == IInv /\ OneWorks /\ [Next]_vars => OneWorks'
  <1> SUFFICES ASSUME IInv, OneWorks, [Next]_vars PROVE OneWorks' OBVIOUS
  <1> USE DEF Working
  <1>0. Shapes BY DEF IInv
  <1>1. ASSUME UNCHANGED <<req, slot>> PROVE OneWorks' BY <1>1 DEF OneWorks
  <1>2. ASSUME NEW r \in Requests, NEW v \in Pcs, Busy(r), Step(r, v)
        PROVE  req'[r].pc = v /\ \A q \in Requests \ {r} : req'[q] = req[q]
    BY <1>0, <1>2, MoveOn
  <1>3. ASSUME NEW r \in Requests, Done(r)
        PROVE  req'[r] = NoRequest /\ \A q \in Requests \ {r} : req'[q] = req[q]
    BY <1>0, <1>3 DEF Done, Shapes
  <1>4. ASSUME NEW r \in Requests, Done(r), req[r].pc \notin Working, UNCHANGED slot
        PROVE  OneWorks'
    BY <1>3, <1>4, SlotStays DEF NoRequest
  <1>5. ASSUME NEW r \in Requests, NEW v \in Pcs \ Working, Step(r, v), UNCHANGED slot,
               req[r].pc \notin Working, req[r].pc # "idle"
        PROVE  OneWorks'
    BY <1>0, <1>2, <1>5, SlotStays, Running
  <1>6. ASSUME NEW r \in Requests, Enter(r) PROVE OneWorks'
    <2>1. PICK v \in Working : Step(r, v) /\ slot = {} /\ slot' = {r}
      BY <1>6 DEF Enter
    <2>2. Busy(r) BY <1>0, <1>6, Running DEF Enter
    <2>3. req'[r].pc = v /\ \A q \in Requests \ {r} : req'[q] = req[q]
      BY <1>2, <2>1, <2>2 DEF Pcs
    <2> QED BY <2>1, <2>3 DEF OneWorks
  <1>7. ASSUME NEW r \in Requests, Work(r) \/ WorkNext(r) PROVE OneWorks'
    <2>1. PICK v \in Pcs \ Working : Step(r, v) /\ slot' = slot \ {r}
      BY <1>7 DEF Work, WorkNext, Leave, Pcs
    <2>2. Busy(r) BY <1>0, <1>7, Running DEF Work, WorkNext
    <2>3. req'[r].pc = v /\ \A q \in Requests \ {r} : req'[q] = req[q]
      BY <1>2, <2>1, <2>2
    <2> QED BY <2>1, <2>3 DEF OneWorks
  <1>8. ASSUME NEW r \in Requests, RequestStep(r) PROVE OneWorks'
    <2>1. CASE NeedsInitialAdmin(r) BY <1>4, <1>5, <2>1 DEF NeedsInitialAdmin, Pcs
    <2>2. CASE ReadHash(r)
      <3>1. Busy(r) BY <1>0, <2>2, Running DEF ReadHash
      <3>2. /\ req'[r].pc \in {"failed", "wait"}
            /\ \A q \in Requests \ {r} : req'[q] = req[q]
        BY <1>0, <2>2, <3>1, BusyShape DEF ReadHash, Shapes, Credential, Change
      <3> QED BY <2>2, <3>2, SlotStays DEF ReadHash
    <2>3. CASE Fail(r) BY <1>4, <2>3 DEF Fail
    <2>4. CASE CreateInitialAdmin(r) BY <1>4, <1>5, <2>4 DEF CreateInitialAdmin, Pcs
    <2>5. CASE InsertSession(r) BY <1>4, <2>5 DEF InsertSession
    <2>6. CASE ChangePasswordKeepingSession(r)
      BY <1>4, <2>6 DEF ChangePasswordKeepingSession
    <2> QED BY <1>6, <1>7, <1>8, <2>1, <2>2, <2>3, <2>4, <2>5, <2>6 DEF RequestStep
  <1>9. ASSUME NEW r \in Requests, Cancel(r) PROVE OneWorks'
    BY <1>5, <1>9 DEF Cancel, Pcs
  <1>10. ASSUME NEW r \in Requests, NEW kind \in {"login", "bootstrap"}, NEW c, NEW u, NEW p,
                Credentials(r, kind, c, u, p)
         PROVE  OneWorks'
    <2>1. /\ req[r].pc = "idle" /\ req'[r].pc \in {"read", "needed"}
          /\ \A q \in Requests \ {r} : req'[q] = req[q]
      BY <1>0, <1>10 DEF Credentials, Arrive, Shapes, NoRequest
    <2> QED BY <1>10, <2>1, SlotStays DEF Credentials
  <1>11. ASSUME NEW r \in Requests, NEW s, NEW current, NEW next,
                ChangePassword(r, s, current, next)
         PROVE  OneWorks'
    <2>1. /\ req[r].pc = "idle" /\ req'[r].pc = "read"
          /\ \A q \in Requests \ {r} : req'[q] = req[q]
      BY <1>0, <1>11 DEF ChangePassword, Arrive, Shapes, NoRequest
    <2> QED BY <1>11, <2>1, SlotStays DEF ChangePassword
  <1>12. CASE Crash BY <1>12 DEF Crash, OneWorks, NoRequest
  <1>13. CASE UNCHANGED vars BY <1>1, <1>13 DEF vars
  <1> QED
    BY <1>1, <1>8, <1>9, <1>10, <1>11, <1>12, <1>13
       DEF Next, Logout, Expire, CreateAdmin, ResetPassword, Age, BlockEnds

----------------------------------------------------------------------------
(* Results                                                                 *)

\* CreateInitialAdmin succeeds at most once, and never beside an administrator that
\* create-admin made first, however many bootstrap requests overlap.
THEOREM OneInitialAdminAlways == Spec => []OneInitialAdmin
  <1>1. IInv => OneInitialAdmin
    <2> SUFFICES ASSUME IInv PROVE OneInitialAdmin OBVIOUS
    <2>1. first = {} \/ \E u \in Users : first = {u} BY DEF IInv, FirstAdmin
    <2>2. Cardinality(first) <= 1
      BY <2>1, FS_EmptySet, FS_Singleton
    <2> QED BY <2>2 DEF IInv, FirstAdmin, OneInitialAdmin
  <1> QED BY <1>1, AlwaysIInv, PTL

\* ResetPassword and ChangePasswordKeepingSession leave no session of the user that was
\* there before, except the one that asked for the change.
THEOREM SessionsAlwaysCurrent == Spec => []SessionsAreCurrent
  <1>1. IInv => SessionsAreCurrent BY DEF IInv
  <1> QED BY <1>1, AlwaysIInv, PTL

\* The limiter never has more than maxLoginLimiterEntries entries, and Argon2id never
\* runs for two requests at a time.
THEOREM TypeAlwaysOK == Spec => []TypeOK
  <1>1. Init => Bounds
    <2> SUFFICES ASSUME Init PROVE Bounds OBVIOUS
    <2>1. failures = [c \in {} |-> 0] /\ DOMAIN failures = {} BY DEF Init
    <2>2. Bounded(failures)
      BY <2>1, FS_EmptySet, AuthAssumption DEF Bounded, AuthAssumption
    <2> QED BY <2>2 DEF Bounds, Init, OneWorks, Working, NoRequest
  <1>2. IInv /\ Bounds /\ [Next]_vars => Bounds'
    BY LimiterStep, SlotStep DEF IInv, Bounds, Bounded
  <1>3. IInv /\ Bounds => TypeOK
    <2> SUFFICES ASSUME IInv, Bounded(failures), OneWorks PROVE TypeOK BY DEF Bounds
    <2>1. Cardinality(slot) <= 1
      <3>1. CASE slot = {} BY <3>1, FS_EmptySet
      <3>2. CASE slot # {}
        <4>1. PICK r \in slot : TRUE BY <3>2
        <4>2. slot = {r} BY <4>1 DEF OneWorks
        <4> QED BY <4>2, FS_Singleton
      <3> QED BY <3>1, <3>2
    <2>2. \A c \in DOMAIN failures : failures[c].count \in 0..(FailuresToBlock - 1)
      BY DEF Bounded, Attempt
    <2> QED BY <2>1, <2>2 DEF TypeOK, IInv, Shapes, Hashes, Bounded, OneWorks, Working
  <1> QED BY <1>1, <1>2, <1>3, AlwaysIInv, PTL DEF Spec
=============================================================================
