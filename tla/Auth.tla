-------------------------------- MODULE Auth --------------------------------
(***************************************************************************)
(* Administrators, sessions and the login limiter.  A request passes the   *)
(* limiter, reads the database, waits for the one slot of passwordWork in  *)
(* which Argon2id runs, and only then writes; what it has read may be old  *)
(* by that time.  The commands create-admin and reset-password write the   *)
(* same database from a process of their own.                              *)
(*                                                                         *)
(* A password stands for its hash.  Time is not counted: an entry of the   *)
(* limiter ages and a session expires whenever the model likes.            *)
(***************************************************************************)
EXTENDS Naturals, FiniteSets

CONSTANTS
    Users, Passwords,
    Clients,        \* client addresses, the keys of the limiter
    Requests,       \* concurrent HTTP requests
    NoAdmin,        \* no row in admins
    LimiterEntries, \* maxLoginLimiterEntries
    FailuresToBlock, \* 5
    MaxRequests,    \* bound on requests
    MaxCommands,    \* bound on commands
    MaxEvents       \* bound on disconnects, expiries, aging and crashes

ASSUME AuthAssumption ==
    /\ NoAdmin \notin Passwords
    /\ LimiterEntries \in Nat \ {0} /\ FailuresToBlock \in Nat \ {0}
    /\ {MaxRequests, MaxCommands, MaxEvents} \subseteq Nat

VARIABLES
    admins,     \* admins: password_hash by username
    sessions,   \* sessions
    expired,    \* tokens of sessions whose expires_at_ms has passed
    failures,   \* LoginLimiter.failures, a partial function on Clients
    slot,       \* the requests inside passwordWork
    req,        \* req[r]: a request in progress
    generation, \* history: how often the password of a user was set
    initial,    \* history: users created by CreateInitialAdmin
    first,      \* history: the users created when there was none
    requests, commands, events

database == <<admins, sessions, expired, generation, initial, first>>
bounds   == <<requests, commands, events>>
vars     == <<database, failures, slot, req, bounds>>

NoRequest == [kind |-> "none", pc |-> "idle"]

\* password_hash stands for the password it was made from.
Hashes == Passwords \cup {NoAdmin}

Pcs == {"read", "needed", "wait", "work", "waitnext", "worknext", "failed", "create",
        "insert", "commit"}

Credential == [kind: {"login", "bootstrap"}, pc: Pcs, client: Clients, token: Nat,
               user: Users, password: Passwords, hash: Hashes]
Change     == [kind: {"change"}, pc: Pcs, token: Nat, user: Users,
               password: Passwords, next: Passwords, hash: Hashes]

Session == [token: Nat, user: Users, generation: Nat]

Init ==
    /\ admins = [u \in Users |-> NoAdmin]
    /\ sessions = {} /\ expired = {}
    /\ failures = [c \in {} |-> 0]
    /\ slot = {}
    /\ req = [r \in Requests |-> NoRequest]
    /\ generation = [u \in Users |-> 0] /\ initial = {} /\ first = {}
    /\ requests = 0 /\ commands = 0 /\ events = 0

Arrive(r) == req[r] = NoRequest /\ requests < MaxRequests /\ requests' = requests + 1
Command   == commands < MaxCommands /\ commands' = commands + 1
Event     == events < MaxEvents /\ events' = events + 1

NoAdmins == \A u \in Users : admins[u] = NoAdmin

----------------------------------------------------------------------------
(* LoginLimiter                                                            *)

\* until: "none", "future" or "past"; old: last seen longer than the retention ago.
NoAttempt == [count |-> 0, until |-> "none", old |-> FALSE]

Without(cs) == [c \in DOMAIN failures \ cs |-> failures[c]]

Allowed(c) == \A d \in DOMAIN failures : d = c => failures[d].until # "future"

\* Allowed forgets a block that is over.
AllowedEntries(c) ==
    IF c \in DOMAIN failures /\ failures[c].until = "past" THEN Without({c}) ELSE failures

Aged == {c \in DOMAIN failures : failures[c].until # "future" /\ failures[c].old}

\* Mutant: only aged entries are evicted.
evictAgedOnly == {Without(Aged)}

\* evict: what has aged, then any entries until there is room for one.
evict ==
    {Without(Aged \cup more) : more \in
        {cs \in SUBSET (DOMAIN failures \ Aged) :
            IF Cardinality(DOMAIN failures \ Aged) < LimiterEntries
            THEN cs = {}
            ELSE Cardinality(DOMAIN failures \ (Aged \cup cs)) = LimiterEntries - 1}}

Counted(item) ==
    IF item.count + 1 >= FailuresToBlock
    THEN [count |-> 0, until |-> "future", old |-> FALSE]
    ELSE [item EXCEPT !.count = @ + 1, !.old = FALSE]

Failed(c) ==
    \E kept \in IF c \notin DOMAIN failures /\ Cardinality(DOMAIN failures) >= LimiterEntries
                THEN evict ELSE {failures} :
        failures' = [d \in DOMAIN kept \cup {c} |->
            IF d # c THEN kept[d]
            ELSE Counted(IF c \in DOMAIN kept THEN kept[c] ELSE NoAttempt)]

Succeeded(c) == failures' = Without({c})

\* Ten minutes pass over an entry.
Age(c) ==
    /\ Event
    /\ c \in DOMAIN failures
    /\ failures' = [failures EXCEPT ![c].old = TRUE,
                                   ![c].until = IF @ = "none" THEN "none" ELSE "past"]
    /\ UNCHANGED <<database, slot, req, requests, commands>>

\* The five minutes of a block are over.
BlockEnds(c) ==
    /\ Event
    /\ c \in DOMAIN failures /\ failures[c].until = "future"
    /\ failures' = [failures EXCEPT ![c].until = "past"]
    /\ UNCHANGED <<database, slot, req, requests, commands>>

----------------------------------------------------------------------------
(* Requests                                                                *)

Step(r, pc) == req' = [req EXCEPT ![r].pc = pc]
Done(r)     == req' = [req EXCEPT ![r] = NoRequest]

\* login and bootstrap; a blocked client is refused at once.
Credentials(r, kind, c, u, p) ==
    /\ Arrive(r)
    /\ Allowed(c)
    /\ failures' = AllowedEntries(c)
    /\ req' = [req EXCEPT ![r] =
         [kind |-> kind, pc |-> IF kind = "login" THEN "read" ELSE "needed", client |-> c,
          token |-> requests + 1, user |-> u, password |-> p, hash |-> NoAdmin]]
    /\ UNCHANGED <<database, slot, commands, events>>

\* CreateInitialAdmin asks NeedsInitialAdmin before it hashes the password.
NeedsInitialAdmin(r) ==
    /\ req[r].pc = "needed"
    /\ IF NoAdmins THEN Step(r, "wait") ELSE Done(r)
    /\ UNCHANGED <<database, failures, slot, bounds>>

\* Session and VerifyCSRF let a change of the password pass.
ChangePassword(r, s, current, next) ==
    /\ Arrive(r)
    /\ s \in sessions /\ s.token \notin expired
    /\ req' = [req EXCEPT ![r] =
         [kind |-> "change", pc |-> "read", token |-> s.token, user |-> s.user,
          password |-> current, next |-> next, hash |-> NoAdmin]]
    /\ UNCHANGED <<database, failures, slot, commands, events>>

\* Login and ChangePasswordKeepingSession read the hash; without a row there is none.
ReadHash(r) ==
    /\ req[r].pc = "read"
    /\ req' = [req EXCEPT ![r].pc = IF admins[req[r].user] = NoAdmin THEN "failed" ELSE "wait",
                          ![r].hash = admins[req[r].user]]
    /\ UNCHANGED <<database, failures, slot, bounds>>

\* withPasswordMemory: one request at a time.
Enter(r) ==
    /\ req[r].pc \in {"wait", "waitnext"}
    /\ slot = {} /\ slot' = {r}
    /\ Step(r, IF req[r].pc = "wait" THEN "work" ELSE "worknext")
    /\ UNCHANGED <<database, failures, bounds>>

\* The client disconnects while the request waits, validateCredentials refuses, or a
\* statement fails.
Cancel(r) ==
    /\ Event
    /\ req[r].pc \in {"needed", "wait", "waitnext", "create", "insert", "commit"}
    /\ Step(r, "failed")
    /\ UNCHANGED <<database, failures, slot, requests, commands>>

Leave(r) == slot' = slot \ {r}

\* verifyPassword, or hashPassword in CreateInitialAdmin.
Work(r) ==
    /\ req[r].pc = "work"
    /\ Leave(r)
    /\ Step(r, IF req[r].kind = "bootstrap" /\ req[r].hash = NoAdmin THEN "create"
               ELSE IF req[r].hash # req[r].password THEN "failed"
               ELSE IF req[r].kind = "change" THEN "waitnext" ELSE "insert")
    /\ UNCHANGED <<database, failures, bounds>>

\* hashPassword of the next password.
WorkNext(r) ==
    /\ req[r].pc = "worknext"
    /\ Leave(r)
    /\ Step(r, "commit")
    /\ UNCHANGED <<database, failures, bounds>>

\* login counts every error; bootstrap those before the administrator exists.
Fail(r) ==
    /\ req[r].pc = "failed"
    /\ IF req[r].kind = "login" \/ (req[r].kind = "bootstrap" /\ req[r].hash = NoAdmin)
       THEN Failed(req[r].client)
       ELSE UNCHANGED failures
    /\ Done(r)
    /\ UNCHANGED <<database, slot, bounds>>

\* Mutant: the insert relies on the earlier check.
InsertAlways(u) == admins[u] = NoAdmin

\* INSERT ... WHERE NOT EXISTS.
InsertInitial(u) == NoAdmins

\* A row is inserted into admins.
NewAdmin(u, p) ==
    /\ admins' = [admins EXCEPT ![u] = p]
    /\ generation' = [generation EXCEPT ![u] = @ + 1]
    /\ first' = IF NoAdmins THEN {u} ELSE first

\* bootstrap goes on with Login.
CreateInitialAdmin(r) ==
    /\ req[r].pc = "create"
    /\ IF InsertInitial(req[r].user)
       THEN /\ NewAdmin(req[r].user, req[r].password)
            /\ initial' = initial \cup {req[r].user}
            /\ Step(r, "read")
       ELSE /\ Done(r)
            /\ UNCHANGED <<admins, generation, initial, first>>
    /\ UNCHANGED <<sessions, expired, failures, slot, bounds>>

\* Login inserts the session, with a token that was never used; then Succeeded.
InsertSession(r) ==
    /\ req[r].pc = "insert"
    /\ sessions' = sessions \cup
         {[token |-> req[r].token, user |-> req[r].user,
           generation |-> generation[req[r].user]]}
    /\ Succeeded(req[r].client)
    /\ Done(r)
    /\ UNCHANGED <<admins, expired, generation, initial, first, slot, bounds>>

\* Mutant: the comparison is the wrong way round.
RevokedKept(u, kept) == {s \in sessions : s.user # u \/ s.token # kept}

\* DELETE FROM sessions WHERE admin_id=? AND token_hash<>?
Revoked(u, kept) == {s \in sessions : s.user # u \/ s.token = kept}

\* One transaction; a session that is kept belongs to the new password.
SetPassword(u, p, kept) ==
    /\ admins' = [admins EXCEPT ![u] = p]
    /\ generation' = [generation EXCEPT ![u] = @ + 1]
    /\ sessions' = {IF s.token = kept THEN [s EXCEPT !.generation = generation[u] + 1] ELSE s :
                        s \in Revoked(u, kept)}
    /\ UNCHANGED <<expired, initial, first>>

ChangePasswordKeepingSession(r) ==
    /\ req[r].pc = "commit"
    /\ SetPassword(req[r].user, req[r].next, req[r].token)
    /\ Done(r)
    /\ UNCHANGED <<failures, slot, bounds>>

\* Also what Session does with a session that has expired.
Logout(s) ==
    /\ s \in sessions
    /\ sessions' = sessions \ {s}
    /\ UNCHANGED <<admins, expired, generation, initial, first, failures, slot, req, bounds>>

Expire(s) ==
    /\ Event
    /\ s \in sessions /\ s.token \notin expired
    /\ expired' = expired \cup {s.token}
    /\ UNCHANGED <<admins, sessions, generation, initial, first, failures, slot, req, requests, commands>>

----------------------------------------------------------------------------
(* Commands, in another process                                            *)

CreateAdmin(u, p) ==
    /\ Command
    /\ admins[u] = NoAdmin
    /\ NewAdmin(u, p)
    /\ UNCHANGED <<sessions, expired, initial, failures, slot, req, requests, events>>

ResetPassword(u, p) ==
    /\ Command
    /\ admins[u] # NoAdmin
    /\ SetPassword(u, p, 0)
    /\ UNCHANGED <<failures, slot, req, requests, events>>

\* A new server process: requests and limiter are gone.
Crash ==
    /\ Event
    /\ failures' = [c \in {} |-> NoAttempt]
    /\ slot' = {}
    /\ req' = [r \in Requests |-> NoRequest]
    /\ UNCHANGED <<database, requests, commands>>

RequestStep(r) ==
    \/ NeedsInitialAdmin(r) \/ ReadHash(r)
    \/ Enter(r) \/ Work(r) \/ WorkNext(r) \/ Fail(r)
    \/ CreateInitialAdmin(r) \/ InsertSession(r) \/ ChangePasswordKeepingSession(r)

Next ==
    \/ \E r \in Requests :
          \/ RequestStep(r) \/ Cancel(r)
          \/ \E kind \in {"login", "bootstrap"}, c \in Clients, u \in Users, p \in Passwords :
                Credentials(r, kind, c, u, p)
          \/ \E s \in sessions, current, next \in Passwords : ChangePassword(r, s, current, next)
    \/ \E s \in sessions : Logout(s) \/ Expire(s)
    \/ \E u \in Users, p \in Passwords : CreateAdmin(u, p) \/ ResetPassword(u, p)
    \/ \E c \in Clients : Age(c) \/ BlockEnds(c)
    \/ Crash

Spec == Init /\ [][Next]_vars

----------------------------------------------------------------------------
(* Properties                                                              *)

\* Tables and requests have their shapes; the limiter has at most maxLoginLimiterEntries
\* entries, none of which has reached the block, and one request at a time has the
\* password memory.
TypeOK ==
    /\ admins \in [Users -> Hashes] /\ sessions \subseteq Session
    /\ req \in [Requests -> Credential \cup Change \cup {NoRequest}]
    /\ DOMAIN failures \subseteq Clients /\ Cardinality(DOMAIN failures) <= LimiterEntries
    /\ \A c \in DOMAIN failures : failures[c].count \in 0..(FailuresToBlock - 1)
    /\ slot = {r \in Requests : req[r].pc \in {"work", "worknext"}} /\ Cardinality(slot) <= 1

\* CreateInitialAdmin's comment: it succeeds only while there are no administrators.
\* Of any number of bootstrap requests that found none, and of a create-admin that
\* came in between, one creates the first administrator; the others create nobody.
OneInitialAdmin == initial \subseteq first /\ Cardinality(first) <= 1

\* ResetPassword's comment: it revokes every existing session for the account.  A session
\* was opened, or kept by the change itself, since the password of its user was last set,
\* whatever logins, changes and resets overlap.
SessionsAreCurrent == \A s \in sessions : s.generation = generation[s.user]
=============================================================================
