------------------------------- MODULE Accounts -------------------------------
(***************************************************************************)
(* Accounts, sessions and the login limiter: login of api/auth.rs, the     *)
(* user handlers of api/admin/users.rs, authenticate_jwt and require_admin *)
(* of auth/mod.rs, and the password reset of main.rs and db/mod.rs.        *)
(*                                                                         *)
(* A login is not atomic: the mutex of the failure windows, the lock of    *)
(* the database and the Argon2 run follow one another, so other logins,    *)
(* administrators, restarts and the clock interleave between them.  An     *)
(* administrator's call is authorised first and applied later, after its   *)
(* own Argon2 run, under the lock of the database.                         *)
(***************************************************************************)
EXTENDS Integers, FiniteSets

CONSTANTS
  Users,        \* users.username, unique
  Root,         \* the user named "admin" of the first startup
  Passwords,
  Ips,          \* client addresses
  Attempts,     \* calls of /api/login; each runs once
  UserFails,    \* MAX_FAILS_PER_USER
  IpFails,      \* MAX_FAILS_PER_IP
  Window,       \* LOGIN_WINDOW (600 s), in clock ticks
  MaxNow,       \* bound on the clock
  MaxLogins,    \* bound on the logins under way at a time
  MaxRestarts,  \* bound on the restarts
  MaxCalls,     \* bound on the calls of administrators
  NULL          \* "no such user", "field not given", "not failed"

ASSUME AccountsAssumption ==
  /\ IsFiniteSet(Users) /\ Root \in Users
  /\ IsFiniteSet(Attempts)
  /\ Users \cap Ips = {}
  /\ UserFails \in Nat \ {0} /\ IpFails \in Nat \ {0}
  /\ Window \in Nat \ {0}
  /\ MaxNow \in Nat /\ MaxLogins \in Nat \ {0} /\ MaxRestarts \in Nat
  /\ MaxCalls \in Nat
  /\ NULL \notin Users \cup Passwords \cup Ips \cup Nat \cup BOOLEAN
  /\ NULL \notin {"admin", "user"}

Roles == {"admin", "user"}
Row == [role : Roles, active : BOOLEAN, pw : Passwords, tver : Nat]
ASSUME NullIsNoRow == NULL \notin Row

\* Keys of the failure windows: "user:..." and "ip:...".
FailKeys == Users \cup Ips
Stamp == [att : Attempts, at : 0..MaxNow]

VARIABLES
  now,        \* Instant::now()
  row,        \* the users table; NULL: no such user
  fails,      \* AppState.login_attempts
  pc,         \* where each login is
  who,        \* what a login was called with
  seen,       \* the row a login read (NULL: none)
  tokens,     \* the JWTs handed out, with the password each was obtained by
  granted,    \* how many calls passed require_admin and are not applied yet
  calls,      \* how many passed it so far
  restarts,
  failedAt,   \* history: when a login was counted as failed
  counted     \* history: the failed logins of a key since it was last forgiven

rowVars == <<row, granted, calls>>
loginVars == <<fails, pc, who, seen, tokens, failedAt, counted>>
vars == <<now, rowVars, loginVars, restarts>>

Login == [user : Users, ip : Ips, guess : Passwords]
Token == [user : Users, tver : Nat, pw : Passwords]

TypeOK ==
  /\ now \in 0..MaxNow
  /\ row \in [Users -> Row \cup {NULL}]
  /\ fails \in [FailKeys -> SUBSET Stamp]
  /\ pc \in [Attempts -> {"idle", "lookup", "verify", "done"}]
  /\ who \in [Attempts -> Login \cup {NULL}]
  /\ \A l \in Attempts : pc[l] \in {"lookup", "verify"} => who[l] \in Login
  /\ seen \in [Attempts -> Row \cup {NULL}]
  /\ tokens \subseteq Token
  /\ granted \in Nat /\ calls \in 0..MaxCalls
  /\ restarts \in 0..MaxRestarts
  /\ failedAt \in [Attempts -> 0..MaxNow \cup {NULL}]
  /\ counted \in [FailKeys -> SUBSET Attempts]

ActiveAdmins == {u \in Users : row[u] # NULL /\ row[u].role = "admin" /\ row[u].active}

\* A database some earlier run of the gateway left: the user the first startup
\* seeded is never deleted, and some administrator is active.
Init ==
  /\ now = 0
  /\ row \in [Users -> [role : Roles, active : BOOLEAN, pw : Passwords, tver : {0}] \cup {NULL}]
  /\ row[Root] # NULL /\ ActiveAdmins # {}
  /\ fails = [k \in FailKeys |-> {}]
  /\ pc = [l \in Attempts |-> "idle"]
  /\ who = [l \in Attempts |-> NULL]
  /\ seen = [l \in Attempts |-> NULL]
  /\ tokens = {}
  /\ granted = 0 /\ calls = 0
  /\ restarts = 0
  /\ failedAt = [l \in Attempts |-> NULL]
  /\ counted = [k \in FailKeys |-> {}]

-----------------------------------------------------------------------------
(***************************************************************************)
(* A login.                                                                *)
(***************************************************************************)

UnderWay == {l \in Attempts : pc[l] \in {"lookup", "verify"}}

\* The handlers of the logins in L end; what they held is gone.
End(L) ==
  /\ pc' = [l \in Attempts |-> IF l \in L THEN "done" ELSE pc[l]]
  /\ who' = [l \in Attempts |-> IF l \in L THEN NULL ELSE who[l]]
  /\ seen' = [l \in Attempts |-> IF l \in L THEN NULL ELSE seen[l]]

KeysOf(l) == {who[l].user, who[l].ip}

Live(k) == {s \in fails[k] : now - s.at < Window}

LimitOf(k) == IF k \in Users THEN UserFails ELSE IpFails

Limited(w) == \E k \in {w.user, w.ip} : Cardinality(Live(k)) >= LimitOf(k)

\* login_limited: under the mutex, every window is pruned and both keys of the
\* call are compared with their budgets.
Begin(l, w) ==
  /\ pc[l] = "idle" /\ Cardinality(UnderWay) < MaxLogins
  /\ fails' = [k \in FailKeys |-> Live(k)]
  /\ \/ Limited(w) /\ End({l})
     \/ /\ ~Limited(w)
        /\ who' = [who EXCEPT ![l] = w]
        /\ pc' = [pc EXCEPT ![l] = "lookup"]
        /\ UNCHANGED seen
  /\ UNCHANGED <<now, rowVars, tokens, restarts, failedAt, counted>>

\* The row is read under the lock of the database, which is then released; a
\* query that fails reads as an unknown user.
LookUp(l) ==
  /\ pc[l] = "lookup"
  /\ \E r \in {row[who[l].user], NULL} : seen' = [seen EXCEPT ![l] = r]
  /\ pc' = [pc EXCEPT ![l] = "verify"]
  /\ UNCHANGED <<now, rowVars, fails, who, tokens, restarts, failedAt, counted>>

Verified(l) == seen[l] # NULL /\ seen[l].pw = who[l].guess

\* Only the address is charged.
ChargedAddress(l) == {who[l].ip}

\* record_login_failure charges both keys.
Charged(l) == KeysOf(l)

\* Wrong password or unknown user.
Fail(l) ==
  /\ pc[l] = "verify" /\ ~Verified(l)
  /\ fails' = [k \in FailKeys |-> IF k \in Charged(l)
                                  THEN fails[k] \cup {[att |-> l, at |-> now]} ELSE fails[k]]
  /\ End({l})
  /\ failedAt' = [failedAt EXCEPT ![l] = now]
  /\ counted' = [k \in FailKeys |-> IF k \in KeysOf(l) THEN counted[k] \cup {l} ELSE counted[k]]
  /\ UNCHANGED <<now, rowVars, tokens, restarts>>

\* The account was disabled when its row was read.
Disabled(l) ==
  /\ pc[l] = "verify" /\ Verified(l) /\ ~seen[l].active
  /\ End({l})
  /\ UNCHANGED <<now, rowVars, fails, tokens, restarts, failedAt, counted>>

\* A success that forgives nobody.
ForgivenNobody(l) == {}

\* Only the user's own failures are forgiven by a success.
Forgiven(l) == {who[l].user}

\* The version is read again when the token is written.
VersionReread(l) == row[who[l].user].tver

\* The version of a token is the one read together with the password hash.
VersionOf(l) == seen[l].tver

Succeed(l) ==
  /\ pc[l] = "verify" /\ Verified(l) /\ seen[l].active
  /\ tokens' = tokens \cup {[user |-> who[l].user, tver |-> VersionOf(l), pw |-> who[l].guess]}
  /\ fails' = [k \in FailKeys |-> IF k \in Forgiven(l) THEN {} ELSE fails[k]]
  /\ counted' = [counted EXCEPT ![who[l].user] = {}]
  /\ End({l})
  /\ UNCHANGED <<now, rowVars, restarts, failedAt>>

\* The lock of the database is poisoned, or the client goes while the handler
\* awaits the Argon2 run.
Abandon(l) ==
  /\ l \in UnderWay
  /\ End({l})
  /\ UNCHANGED <<now, rowVars, fails, tokens, restarts, failedAt, counted>>

-----------------------------------------------------------------------------
(***************************************************************************)
(* Administrators.                                                         *)
(***************************************************************************)

\* authenticate_jwt: the row decides, not the claims.
Accepted(t) ==
  /\ row[t.user] # NULL /\ row[t.user].active
  /\ t.tver = row[t.user].tver

\* auth_middleware and require_admin; the handler runs later.
Authorize(t) ==
  /\ calls < MaxCalls
  /\ Accepted(t) /\ row[t.user].role = "admin"
  /\ granted' = granted + 1 /\ calls' = calls + 1
  /\ UNCHANGED <<now, row, loginVars, restarts>>

\* One of the calls that passed the middleware is applied.
Apply ==
  /\ granted > 0
  /\ granted' = granted - 1
  /\ UNCHANGED <<now, calls, loginVars, restarts>>

\* The count of administrators includes the disabled ones.
IsLastActiveAdminCountsAll(u) ==
  u \in ActiveAdmins /\ Cardinality({v \in Users : row[v] # NULL /\ row[v].role = "admin"}) <= 1

IsLastActiveAdmin(u) == u \in ActiveAdmins /\ Cardinality(ActiveAdmins) <= 1

Changes == [role : Roles \cup {NULL}, active : BOOLEAN \cup {NULL}, pw : Passwords \cup {NULL}]

DemotesOrDisables(c) == (c.role # NULL /\ c.role # "admin") \/ c.active = FALSE

Given(new, old) == IF new = NULL THEN old ELSE new

\* The row after an UPDATE of the fields that are given; a new password ends
\* every session of the user.
Updated(r, c) ==
  [role   |-> Given(c.role, r.role),
   active |-> Given(c.active, r.active),
   pw     |-> Given(c.pw, r.pw),
   tver   |-> IF c.pw = NULL THEN r.tver ELSE r.tver + 1]

\* The check and the UPDATE run under one lock of the writing connection.
UpdateUser(u, c) ==
  /\ Apply
  /\ IF row[u] = NULL \/ (DemotesOrDisables(c) /\ IsLastActiveAdmin(u))
     THEN UNCHANGED row
     ELSE row' = [row EXCEPT ![u] = Updated(@, c)]

\* delete_user only disables.
DeleteUser(u) ==
  /\ Apply
  /\ IF row[u] = NULL \/ IsLastActiveAdmin(u)
     THEN UNCHANGED row
     ELSE row' = [row EXCEPT ![u].active = FALSE]

\* create_user and create_users_batch: names that are taken are left alone.
CreateUsers(S, r, p) ==
  /\ Apply
  /\ row' = [u \in Users |-> IF u \in S /\ row[u] = NULL
                             THEN [role |-> r, active |-> TRUE, pw |-> p, tver |-> 0]
                             ELSE row[u]]

-----------------------------------------------------------------------------
(***************************************************************************)
(* Restarts and the clock.                                                 *)
(***************************************************************************)

\* reset_admin_password rekeys the user named "admin", whatever the user's role.
ResetAdmin(env) ==
  row' = [row EXCEPT ![Root] = Updated(@, [role |-> NULL, active |-> NULL, pw |-> env])]

\* The failure windows and everything under way are lost, the table and the
\* tokens survive; AIKUN_RESET_ADMIN_PASSWORD may be set.
Restart(env) ==
  /\ restarts < MaxRestarts
  /\ restarts' = restarts + 1
  /\ ResetAdmin(env)
  /\ fails' = [k \in FailKeys |-> {}]
  /\ counted' = [k \in FailKeys |-> {}]
  /\ End(UnderWay)
  /\ granted' = 0
  /\ UNCHANGED <<now, calls, tokens, failedAt>>

Tick ==
  /\ now < MaxNow
  /\ now' = now + 1
  /\ UNCHANGED <<rowVars, loginVars, restarts>>

Next ==
  \/ \E l \in Attempts, w \in Login : Begin(l, w)
  \/ \E l \in Attempts : LookUp(l) \/ Fail(l) \/ Disabled(l) \/ Succeed(l) \/ Abandon(l)
  \/ \E t \in tokens : Authorize(t)
  \/ \E u \in Users : DeleteUser(u) \/ \E c \in Changes : UpdateUser(u, c)
  \/ \E S \in SUBSET Users \ {{}}, r \in Roles, p \in Passwords : CreateUsers(S, r, p)
  \/ \E env \in Passwords \cup {NULL} : Restart(env)
  \/ Tick

Spec == Init /\ [][Next]_vars

-----------------------------------------------------------------------------
(***************************************************************************)
(* Properties.                                                             *)
(***************************************************************************)

\* The gateway always has an administrator who can log in, although two of
\* them may demote or disable each other at the same time, by calls that were
\* authorised before either took effect (is_last_active_admin under the lock
\* of update_user and delete_user).
AdminRemains == ActiveAdmins # {}

\* Every session the gateway accepts was opened with the password the user has
\* now: neither a login that was verifying the old password while it was
\* replaced, nor a reset at startup, leaves a session behind that outlives the
\* change (token_version).
SessionsFollowPassword == \A t \in tokens : Accepted(t) => t.pw = row[t.user].pw

\* The failed logins of key k in the Window ticks that end at t, since the key
\* was last forgiven.
FailedIn(k, t) ==
  {l \in counted[k] : failedAt[l] # NULL /\ failedAt[l] <= t /\ t - failedAt[l] < Window}

\* login_limited and record_login_failure are two critical sections with an
\* Argon2 run between them, so the budget of a user or an address is overrun,
\* but in no window of time by more than the other logins that can be under
\* way: the window slides, and a success forgives the user, never the address.
GuessesBounded ==
  \A k \in FailKeys : \A t \in 0..now :
    Cardinality(FailedIn(k, t)) <= LimitOf(k) + MaxLogins - 1

\* Nobody is locked out without cause: a key whose budget counts as exhausted
\* had that many failed logins in the window that ends now, none of them
\* forgiven since.
LockoutJustified ==
  \A k \in FailKeys :
    Cardinality(Live(k)) >= LimitOf(k) => Cardinality(FailedIn(k, now)) >= LimitOf(k)

=============================================================================
