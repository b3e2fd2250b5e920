---------------------------- MODULE AccountsProofs ----------------------------
(***************************************************************************)
(* Proofs about Accounts, for every finite set of users and of logins, any *)
(* passwords, addresses and budgets, any window and any number of calls of *)
(* administrators and of restarts.                                         *)
(***************************************************************************)
EXTENDS Accounts, TLAPS, FiniteSetTheorems

(***************************************************************************)
(* Types.                                                                  *)
(***************************************************************************)

(* Ending some logins keeps the types and leaves the others alone. *)
LEMMA EndKeeps ==
  ASSUME TypeOK, NEW L, End(L)
  PROVE  /\ pc' \in [Attempts -> {"idle", "lookup", "verify", "done"}]
         /\ who' \in [Attempts -> Login \cup {NULL}]
         /\ \A l \in Attempts : pc'[l] \in {"lookup", "verify"} => who'[l] \in Login
         /\ seen' \in [Attempts -> Row \cup {NULL}]
         /\ UnderWay' = UnderWay \ L
         /\ \A l \in UnderWay' : pc'[l] = pc[l] /\ who'[l] = who[l] /\ seen'[l] = seen[l]
         /\ \A l \in Attempts : pc[l] = "done" => pc'[l] = "done"
         /\ \A l \in L \cap Attempts : pc'[l] = "done"
BY DEF End, TypeOK, UnderWay

(* What is left in a window when it is pruned. *)
LEMMA LiveType ==
  ASSUME TypeOK
  PROVE  [k \in FailKeys |-> Live(k)] \in [FailKeys -> SUBSET Stamp]
BY DEF TypeOK, Live

(* An update of a row gives a row; the version moves with the password. *)
LEMMA UpdatedRow ==
  ASSUME NEW r \in Row, NEW c \in Changes
  PROVE  /\ Updated(r, c) \in Row
         /\ Updated(r, c) # NULL
         /\ \/ Updated(r, c).tver = r.tver /\ Updated(r, c).pw = r.pw
            \/ Updated(r, c).tver = r.tver + 1
<1>1. Updated(r, c) \in Row
  <2>1. Given(c.role, r.role) \in Roles /\ Given(c.active, r.active) \in BOOLEAN
        /\ Given(c.pw, r.pw) \in Passwords
    BY DEF Given, Changes, Row
  <2>2. (IF c.pw = NULL THEN r.tver ELSE r.tver + 1) \in Nat
    BY DEF Row
  <2>3. QED
    BY <2>1, <2>2 DEF Updated, Row
<1>2. \/ Updated(r, c).tver = r.tver /\ Updated(r, c).pw = r.pw
      \/ Updated(r, c).tver = r.tver + 1
  BY DEF Updated, Given
<1>3. QED
  BY <1>1, <1>2, NullIsNoRow

(***************************************************************************)
(* How a step may change the table: rows keep their type and never go, and *)
(* a password moves with the version.                                      *)
(***************************************************************************)
RowsFollow ==
  /\ row' \in [Users -> Row \cup {NULL}]
  /\ \A u \in Users : row[u] # NULL =>
       /\ row'[u] # NULL
       /\ \/ row'[u].tver = row[u].tver /\ row'[u].pw = row[u].pw
          \/ row'[u].tver = row[u].tver + 1

LEMMA SameRows ==
  ASSUME TypeOK, UNCHANGED row
  PROVE  RowsFollow
BY DEF TypeOK, RowsFollow

LEMMA UpdateRows ==
  ASSUME TypeOK, NEW u \in Users, NEW c \in Changes, UpdateUser(u, c)
  PROVE  RowsFollow
<1>1. CASE UNCHANGED row
  BY <1>1, SameRows
<1>2. CASE row[u] # NULL /\ row' = [row EXCEPT ![u] = Updated(@, c)]
  <2>1. row[u] \in Row
    BY <1>2 DEF TypeOK
  <2>2. QED
    BY <1>2, <2>1, UpdatedRow DEF TypeOK, RowsFollow
<1>3. QED
  BY <1>1, <1>2 DEF UpdateUser

LEMMA DeleteRows ==
  ASSUME TypeOK, NEW u \in Users, DeleteUser(u)
  PROVE  RowsFollow
<1>1. CASE UNCHANGED row
  BY <1>1, SameRows
<1>2. CASE row[u] # NULL /\ row' = [row EXCEPT ![u].active = FALSE]
  <2>1. row[u] \in Row
    BY <1>2 DEF TypeOK
  <2> DEFINE q == [row[u] EXCEPT !.active = FALSE]
  <2>2. q \in Row /\ q.tver = row[u].tver /\ q.pw = row[u].pw /\ q # NULL
    BY <2>1, NullIsNoRow DEF Row
  <2>3. row' = [row EXCEPT ![u] = q]
    BY <1>2
  <2>4. QED
    <3> HIDE DEF q
    <3>1. QED
      BY <2>2, <2>3 DEF TypeOK, RowsFollow
<1>3. QED
  BY <1>1, <1>2 DEF DeleteUser

LEMMA CreateRows ==
  ASSUME TypeOK, NEW S \in SUBSET Users, NEW r \in Roles, NEW p \in Passwords,
         CreateUsers(S, r, p)
  PROVE  RowsFollow
BY DEF CreateUsers, TypeOK, RowsFollow, Row

LEMMA ResetRows ==
  ASSUME TypeOK, row[Root] # NULL, NEW env \in Passwords \cup {NULL}, ResetAdmin(env)
  PROVE  RowsFollow
<1>1. row[Root] \in Row /\ Root \in Users
  BY AccountsAssumption DEF TypeOK
<1> DEFINE c == [role |-> NULL, active |-> NULL, pw |-> env]
<1>2. c \in Changes
  BY DEF Changes
<1>3. row' = [row EXCEPT ![Root] = Updated(@, c)]
  BY DEF ResetAdmin
<1>4. QED
  <2> HIDE DEF c
  <2>1. QED
    BY <1>1, <1>2, <1>3, UpdatedRow DEF TypeOK, RowsFollow

(* Every step. *)
LEMMA RowSteps ==
  ASSUME TypeOK, row[Root] # NULL, [Next]_vars
  PROVE  RowsFollow
<1>1. ASSUME NEW l \in Attempts, NEW w \in Login, Begin(l, w)
      PROVE  RowsFollow
  BY <1>1, SameRows DEF Begin, rowVars
<1>2. ASSUME NEW l \in Attempts, LookUp(l) \/ Fail(l) \/ Disabled(l) \/ Succeed(l) \/ Abandon(l)
      PROVE  RowsFollow
  BY <1>2, SameRows DEF LookUp, Fail, Disabled, Succeed, Abandon, rowVars
<1>3. ASSUME NEW t \in tokens, Authorize(t)
      PROVE  RowsFollow
  BY <1>3, SameRows DEF Authorize
<1>4. ASSUME NEW env \in Passwords \cup {NULL}, Restart(env)
      PROVE  RowsFollow
  BY <1>4, ResetRows DEF Restart
<1>5. CASE Tick \/ UNCHANGED vars
  BY <1>5, SameRows DEF Tick, rowVars, vars
<1>6. QED
  BY <1>1, <1>2, <1>3, <1>4, <1>5, UpdateRows, DeleteRows, CreateRows DEF Next

(* The steps that only end a login, and what a login reads or is admitted to. *)
LEMMA LoginTypes ==
  ASSUME TypeOK, NEW l \in Attempts,
         \/ \E w \in Login : Begin(l, w)
         \/ LookUp(l) \/ Fail(l) \/ Disabled(l) \/ Succeed(l) \/ Abandon(l)
  PROVE  TypeOK'
<1>1. ASSUME NEW w \in Login, Begin(l, w)
      PROVE  TypeOK'
  <2>1. fails' \in [FailKeys -> SUBSET Stamp]
    BY <1>1, LiveType DEF Begin
  <2>2. CASE End({l})
    BY <1>1, <2>1, <2>2, EndKeeps DEF Begin, rowVars, TypeOK
  <2>3. CASE /\ who' = [who EXCEPT ![l] = w]
             /\ pc' = [pc EXCEPT ![l] = "lookup"]
             /\ UNCHANGED seen
    BY <1>1, <2>1, <2>3 DEF Begin, rowVars, TypeOK
  <2>4. QED
    BY <1>1, <2>2, <2>3 DEF Begin
<1>2. CASE LookUp(l)
  <2>1. who[l].user \in Users
    BY <1>2 DEF LookUp, TypeOK, Login
  <2>2. seen' \in [Attempts -> Row \cup {NULL}]
    BY <1>2, <2>1 DEF LookUp, TypeOK
  <2>3. QED
    BY <1>2, <2>2 DEF LookUp, rowVars, TypeOK
<1>3. CASE Fail(l)
  <2>1. [att |-> l, at |-> now] \in Stamp
    BY DEF Stamp, TypeOK
  <2>2. fails' \in [FailKeys -> SUBSET Stamp] /\ counted' \in [FailKeys -> SUBSET Attempts]
        /\ failedAt' \in [Attempts -> 0..MaxNow \cup {NULL}]
    BY <1>3, <2>1 DEF Fail, TypeOK
  <2>3. QED
    BY <1>3, <2>2, EndKeeps DEF Fail, rowVars, TypeOK
<1>4. CASE Disabled(l) \/ Abandon(l)
  BY <1>4, EndKeeps DEF Disabled, Abandon, rowVars, TypeOK
<1>5. CASE Succeed(l)
  <2>1. who[l] \in Login /\ seen[l] \in Row
    BY <1>5 DEF Succeed, Verified, TypeOK
  <2>2. [user |-> who[l].user, tver |-> VersionOf(l), pw |-> who[l].guess] \in Token
    BY <2>1 DEF VersionOf, Token, Login, Row
  <2>3. fails' \in [FailKeys -> SUBSET Stamp]
    BY <1>5 DEF Succeed, TypeOK
  <2>4. counted' \in [FailKeys -> SUBSET Attempts]
    BY <1>5 DEF Succeed, TypeOK
  <2>5. QED
    BY <1>5, <2>2, <2>3, <2>4, EndKeeps DEF Succeed, rowVars, TypeOK
<1>6. QED
  BY <1>1, <1>2, <1>3, <1>4, <1>5

(* The user the first startup seeded is never deleted. *)
RootStays == row[Root] # NULL

LEMMA InitTypes == Init => TypeOK /\ RootStays
<1> SUFFICES ASSUME Init PROVE TypeOK /\ RootStays
  OBVIOUS
<1>1. [role : Roles, active : BOOLEAN, pw : Passwords, tver : {0}] \subseteq Row
  BY DEF Row
<1>2. row \in [Users -> Row \cup {NULL}]
  <2>1. row \in [Users -> [role : Roles, active : BOOLEAN, pw : Passwords, tver : {0}] \cup {NULL}]
    BY DEF Init
  <2>2. QED
    BY <1>1, <2>1
<1>3. QED
  BY <1>2, AccountsAssumption DEF Init, TypeOK, RootStays

LEMMA StepTypes == TypeOK /\ RootStays /\ [Next]_vars => (TypeOK /\ RootStays)'
<1> SUFFICES ASSUME TypeOK, RootStays, [Next]_vars PROVE (TypeOK /\ RootStays)'
  OBVIOUS
<1>1. RowsFollow
  BY RowSteps DEF RootStays
<1>2. RootStays'
  BY <1>1, AccountsAssumption DEF RowsFollow, RootStays
<1>3. ASSUME NEW t \in tokens, Authorize(t)
      PROVE  TypeOK'
  BY <1>3, AccountsAssumption DEF Authorize, loginVars, TypeOK
<1>4. ASSUME Apply
      PROVE  TypeOK'
  BY <1>1, <1>4 DEF Apply, loginVars, TypeOK, RowsFollow
<1>5. ASSUME NEW env \in Passwords \cup {NULL}, Restart(env)
      PROVE  TypeOK'
  <2>1. row' \in [Users -> Row \cup {NULL}]
    BY <1>1 DEF RowsFollow
  <2>2. restarts' \in 0..MaxRestarts
    BY <1>5, AccountsAssumption DEF Restart, TypeOK
  <2>3. QED
    BY <1>5, <2>1, <2>2, EndKeeps DEF Restart, TypeOK
<1>6. CASE Tick
  BY <1>2, <1>6, AccountsAssumption DEF Tick, rowVars, loginVars, TypeOK
<1>7. CASE UNCHANGED vars
  BY <1>2, <1>7 DEF vars, rowVars, loginVars, TypeOK
<1>8. TypeOK'
  BY <1>3, <1>4, <1>5, <1>6, <1>7, LoginTypes
     DEF Next, UpdateUser, DeleteUser, CreateUsers
<1>9. QED
  BY <1>2, <1>8

(***************************************************************************)
(* The types of Accounts are invariant; the user named "admin" stays.      *)
(***************************************************************************)
THEOREM AccountTypes == Spec => [](TypeOK /\ RootStays)
BY InitTypes, StepTypes, PTL DEF Spec

-----------------------------------------------------------------------------
(***************************************************************************)
(* An active administrator always remains.                                 *)
(***************************************************************************)

(* Changing a row that is not the last active administrator's, or leaving  *)
(* every active administrator one, leaves an active administrator.         *)
LEMMA OthersRemain ==
  ASSUME AdminRemains, NEW u \in Users, ~IsLastActiveAdmin(u),
         \A v \in Users \ {u} : row'[v] = row[v]
  PROVE  AdminRemains'
<1>1. \E v \in ActiveAdmins : v # u
  <2>1. CASE u \notin ActiveAdmins
    BY <2>1 DEF AdminRemains
  <2>2. CASE ActiveAdmins \subseteq {u} /\ u \in ActiveAdmins
    <3>1. ActiveAdmins = {u}
      BY <2>2
    <3>2. Cardinality(ActiveAdmins) = 1
      BY <3>1, FS_Singleton
    <3>3. QED
      BY <2>2, <3>2 DEF IsLastActiveAdmin
  <2>3. QED
    BY <2>1, <2>2
<1>2. PICK v \in ActiveAdmins : v # u
  BY <1>1
<1>3. v \in ActiveAdmins'
  BY <1>2 DEF ActiveAdmins
<1>4. QED
  BY <1>3 DEF AdminRemains

LEMMA StepAdmin == TypeOK /\ RootStays /\ AdminRemains /\ [Next]_vars => AdminRemains'
<1> SUFFICES ASSUME TypeOK, RootStays, AdminRemains, [Next]_vars PROVE AdminRemains'
  OBVIOUS
<1>1. CASE UNCHANGED row
  BY <1>1 DEF AdminRemains, ActiveAdmins
<1>2. ASSUME NEW u \in Users, NEW c \in Changes, UpdateUser(u, c)
      PROVE  AdminRemains'
  <2>1. CASE UNCHANGED row
    BY <1>1, <2>1
  <2>2. CASE /\ row[u] # NULL /\ ~(DemotesOrDisables(c) /\ IsLastActiveAdmin(u))
             /\ row' = [row EXCEPT ![u] = Updated(@, c)]
    <3>1. row'[u] = Updated(row[u], c) /\ \A v \in Users \ {u} : row'[v] = row[v]
      BY <2>2 DEF TypeOK
    <3>2. CASE ~IsLastActiveAdmin(u)
      BY <3>1, <3>2, OthersRemain
    <3>3. CASE ~DemotesOrDisables(c) /\ u \in ActiveAdmins
      <4>1. row[u] \in Row /\ row[u].role = "admin" /\ row[u].active
        BY <2>2, <3>3 DEF ActiveAdmins, TypeOK
      <4>2. row'[u] # NULL
        BY <3>1, <4>1, UpdatedRow
      <4>3. row'[u].role = "admin" /\ row'[u].active = TRUE
        BY <3>1, <3>3, <4>1 DEF DemotesOrDisables, Updated, Given, Changes, Row
      <4>4. u \in ActiveAdmins'
        BY <4>2, <4>3 DEF ActiveAdmins
      <4>5. QED
        BY <4>4 DEF AdminRemains
    <3>4. QED
      BY <2>2, <3>2, <3>3 DEF IsLastActiveAdmin
  <2>3. QED
    BY <1>2, <2>1, <2>2 DEF UpdateUser
<1>3. ASSUME NEW u \in Users, DeleteUser(u)
      PROVE  AdminRemains'
  <2>1. CASE UNCHANGED row
    BY <1>1, <2>1
  <2>2. CASE ~IsLastActiveAdmin(u) /\ row' = [row EXCEPT ![u].active = FALSE]
    <3>1. \A v \in Users \ {u} : row'[v] = row[v]
      BY <2>2 DEF TypeOK
    <3>2. QED
      BY <2>2, <3>1, OthersRemain
  <2>3. QED
    BY <1>3, <2>1, <2>2 DEF DeleteUser
<1>4. ASSUME NEW S \in SUBSET Users, NEW r \in Roles, NEW p \in Passwords, CreateUsers(S, r, p)
      PROVE  AdminRemains'
  <2>1. \A u \in Users : row[u] # NULL => row'[u] = row[u]
    BY <1>4 DEF CreateUsers
  <2>2. QED
    BY <2>1 DEF AdminRemains, ActiveAdmins
<1>5. ASSUME NEW env \in Passwords \cup {NULL}, ResetAdmin(env)
      PROVE  AdminRemains'
  <2> DEFINE c == [role |-> NULL, active |-> NULL, pw |-> env]
  <2>1. row[Root] \in Row /\ Root \in Users /\ c \in Changes
    BY AccountsAssumption DEF TypeOK, RootStays, Changes
  <2>2. row' = [row EXCEPT ![Root] = Updated(@, c)]
    BY <1>5 DEF ResetAdmin
  <2>3. Updated(row[Root], c).role = row[Root].role
        /\ Updated(row[Root], c).active = row[Root].active
    BY DEF Updated, Given
  <2>4. Updated(row[Root], c) # NULL
    BY <2>1, UpdatedRow
  <2>5. \A v \in Users : v \in ActiveAdmins => v \in ActiveAdmins'
    <3> HIDE DEF c
    <3>1. QED
      BY <2>1, <2>2, <2>3, <2>4 DEF ActiveAdmins, TypeOK
  <2>6. QED
    BY <2>5 DEF AdminRemains, ActiveAdmins
<1>6. QED
  <2>1. ASSUME NEW l \in Attempts, \/ \E w \in Login : Begin(l, w)
                                  \/ LookUp(l) \/ Fail(l) \/ Disabled(l) \/ Succeed(l) \/ Abandon(l)
        PROVE  UNCHANGED row
    BY <2>1 DEF Begin, LookUp, Fail, Disabled, Succeed, Abandon, rowVars
  <2>2. CASE Tick \/ UNCHANGED vars \/ \E t \in tokens : Authorize(t)
    BY <1>1, <2>2 DEF Tick, Authorize, rowVars, vars
  <2>3. QED
    BY <1>1, <1>2, <1>3, <1>4, <1>5, <2>1, <2>2 DEF Next, Restart

(***************************************************************************)
(* However many administrators demote or disable each other by calls that  *)
(* were authorised before any took effect, an active one remains.          *)
(***************************************************************************)
THEOREM LastAdminStays == Spec => []AdminRemains
<1>1. Init => AdminRemains
  BY DEF Init, AdminRemains
<1>2. QED
  BY <1>1, InitTypes, StepTypes, StepAdmin, PTL DEF Spec

-----------------------------------------------------------------------------
(***************************************************************************)
(* Sessions follow the password.                                           *)
(*                                                                         *)
(* What is known of a version read earlier: it has not been passed unless  *)
(* the version moved, and as long as it is current so is the password.     *)
(***************************************************************************)
Follows(u, v, p) ==
  /\ row[u] # NULL
  /\ v <= row[u].tver
  /\ v = row[u].tver => p = row[u].pw

SessionInv ==
  /\ \A t \in tokens : Follows(t.user, t.tver, t.pw)
  /\ \A l \in Attempts : pc[l] = "verify" /\ seen[l] # NULL
       => Follows(who[l].user, seen[l].tver, seen[l].pw)

LEMMA FollowsOn ==
  ASSUME TypeOK, RowsFollow, NEW u \in Users, NEW v \in Nat, NEW p, Follows(u, v, p)
  PROVE  Follows(u, v, p)'
<1>1. row[u] \in Row /\ row'[u] \in Row
  BY DEF Follows, TypeOK, RowsFollow
<1>2. row[u].tver \in Nat
  BY <1>1 DEF Row
<1>3. QED
  BY <1>1, <1>2 DEF Follows, RowsFollow

LEMMA StepSessions ==
  TypeOK /\ RootStays /\ SessionInv /\ [Next]_vars => SessionInv'
<1> SUFFICES ASSUME TypeOK, RootStays, SessionInv, [Next]_vars PROVE SessionInv'
  OBVIOUS
<1>0. RowsFollow
  BY RowSteps DEF RootStays
<1>1. \A t \in tokens : Follows(t.user, t.tver, t.pw)'
  <2>1. ASSUME NEW t \in tokens
        PROVE  Follows(t.user, t.tver, t.pw)'
    <3>1. t.user \in Users /\ t.tver \in Nat
      BY DEF TypeOK, Token
    <3>2. QED
      BY <1>0, <3>1, FollowsOn DEF SessionInv
  <2>2. QED
    BY <2>1
<1>2. ASSUME NEW l \in Attempts, pc[l] = "verify", seen[l] # NULL
      PROVE  Follows(who[l].user, seen[l].tver, seen[l].pw)'
             \/ who'[l] # who[l] \/ seen'[l] # seen[l]
  <2>1. who[l].user \in Users /\ seen[l] \in Row /\ seen[l].tver \in Nat
    BY <1>2 DEF TypeOK, Login, Row
  <2>2. Follows(who[l].user, seen[l].tver, seen[l].pw)
    BY <1>2 DEF SessionInv
  <2> DEFINE u == who[l].user
             v == seen[l].tver
             p == seen[l].pw
  <2>3. SUFFICES ASSUME who'[l] = who[l], seen'[l] = seen[l]
                 PROVE  Follows(who[l].user, seen[l].tver, seen[l].pw)'
    OBVIOUS
  <2>4. row[u] \in Row /\ row'[u] \in Row /\ row[u].tver \in Nat
    BY <1>0, <2>1, <2>2 DEF Follows, TypeOK, RowsFollow, Row
  <2>5. QED
    BY <1>0, <2>1, <2>2, <2>3, <2>4 DEF Follows, RowsFollow
<1>3. CASE tokens' = tokens /\ UNCHANGED <<pc, who, seen>>
  BY <1>1, <1>2, <1>3 DEF SessionInv
<1>4. ASSUME NEW L, End(L), tokens' = tokens
      PROVE  SessionInv'
  <2>1. \A l \in Attempts : pc'[l] = "verify" =>
          pc[l] = "verify" /\ who'[l] = who[l] /\ seen'[l] = seen[l]
    BY <1>4, EndKeeps DEF UnderWay
  <2>2. QED
    BY <1>1, <1>2, <1>4, <2>1 DEF SessionInv
<1>5. ASSUME NEW l \in Attempts, NEW w \in Login, Begin(l, w)
      PROVE  SessionInv'
  <2>1. CASE End({l})
    BY <1>4, <1>5, <2>1 DEF Begin
  <2>2. CASE /\ who' = [who EXCEPT ![l] = w]
             /\ pc' = [pc EXCEPT ![l] = "lookup"]
             /\ UNCHANGED seen
    <3>1. \A m \in Attempts : pc'[m] = "verify" =>
            pc[m] = "verify" /\ who'[m] = who[m] /\ seen'[m] = seen[m]
      BY <2>2 DEF TypeOK
    <3>2. QED
      BY <1>1, <1>2, <1>5, <3>1 DEF Begin, SessionInv
  <2>3. QED
    BY <1>5, <2>1, <2>2 DEF Begin
<1>6. ASSUME NEW l \in Attempts, LookUp(l)
      PROVE  SessionInv'
  <2>1. \A m \in Attempts \ {l} : pc'[m] = pc[m] /\ seen'[m] = seen[m]
    BY <1>6 DEF LookUp, TypeOK
  <2>2. who' = who /\ row' = row /\ tokens' = tokens
    BY <1>6 DEF LookUp, rowVars
  <2>3. who[l].user \in Users /\ seen'[l] \in {row[who[l].user], NULL}
    BY <1>6 DEF LookUp, TypeOK, Login
  <2>4. seen'[l] # NULL => Follows(who[l].user, seen[l].tver, seen[l].pw)'
    <3>1. ASSUME seen'[l] # NULL
          PROVE  row[who[l].user].tver \in Nat /\ seen'[l] = row[who[l].user]
      BY <2>3, <3>1 DEF TypeOK, Row
    <3>2. QED
      BY <2>2, <2>3, <3>1 DEF Follows
  <2>5. QED
    BY <1>1, <1>2, <2>1, <2>2, <2>4 DEF SessionInv
<1>7. ASSUME NEW l \in Attempts, Fail(l) \/ Disabled(l) \/ Abandon(l)
      PROVE  SessionInv'
  BY <1>4, <1>7 DEF Fail, Disabled, Abandon
<1>8. ASSUME NEW l \in Attempts, Succeed(l)
      PROVE  SessionInv'
  <2> DEFINE t == [user |-> who[l].user, tver |-> VersionOf(l), pw |-> who[l].guess]
  <2>1. Follows(who[l].user, seen[l].tver, seen[l].pw) /\ seen[l].pw = who[l].guess
    BY <1>8 DEF Succeed, Verified, SessionInv
  <2>2. row' = row
    BY <1>8 DEF Succeed, rowVars
  <2>3. /\ t.user = who[l].user /\ t.tver = seen[l].tver /\ t.pw = who[l].guess
        /\ tokens' = tokens \cup {t}
    BY <1>8 DEF Succeed, VersionOf
  <2>4. ASSUME NEW s \in tokens'
        PROVE  Follows(s.user, s.tver, s.pw)'
    <3> HIDE DEF t
    <3>1. CASE s \in tokens
      BY <1>1, <3>1
    <3>2. CASE s = t
      BY <2>1, <2>2, <2>3, <3>2 DEF Follows
    <3>3. QED
      BY <2>3, <3>1, <3>2
  <2>5. \A m \in Attempts : pc'[m] = "verify" =>
          pc[m] = "verify" /\ who'[m] = who[m] /\ seen'[m] = seen[m]
    BY <1>8, EndKeeps DEF Succeed, UnderWay
  <2>6. QED
    BY <1>2, <2>4, <2>5 DEF SessionInv
<1>9. ASSUME NEW env \in Passwords \cup {NULL}, Restart(env)
      PROVE  SessionInv'
  BY <1>4, <1>9 DEF Restart
<1>10. CASE Apply \/ Tick \/ UNCHANGED vars \/ \E t \in tokens : Authorize(t)
  BY <1>3, <1>10 DEF Apply, Tick, Authorize, loginVars, vars
<1>11. QED
  BY <1>5, <1>6, <1>7, <1>8, <1>9, <1>10 DEF Next, UpdateUser, DeleteUser, CreateUsers

(***************************************************************************)
(* A session that is accepted was opened with the password the user has    *)
(* now, whatever logins, edits and resets overlapped.                      *)
(***************************************************************************)
THEOREM SessionsEnd == Spec => []SessionsFollowPassword
<1>1. Init => SessionInv
  BY DEF Init, SessionInv
<1>2. SessionInv => SessionsFollowPassword
  BY DEF SessionInv, SessionsFollowPassword, Follows, Accepted
<1>3. QED
  BY <1>1, <1>2, InitTypes, StepTypes, StepSessions, PTL DEF Spec

-----------------------------------------------------------------------------
(***************************************************************************)
(* The budgets of failed logins.                                           *)
(*                                                                         *)
(* The stamps of a key are its unforgiven failures, as long as they are    *)
(* inside the window.  The load of a key, its recent failures and the      *)
(* logins under way that may become failures, only grows when a login is   *)
(* admitted, and then its failures are below the budget.                   *)
(***************************************************************************)
Stamped(l) == [att |-> l, at |-> failedAt[l]]

Booked ==
  \A k \in FailKeys :
    /\ \A s \in fails[k] : s.att \in counted[k] /\ s.at = failedAt[s.att]
    /\ \A l \in counted[k] :
         /\ pc[l] = "done"
         /\ failedAt[l] \in 0..now
         /\ now - failedAt[l] < Window => Stamped(l) \in fails[k]

Load(k) == FailedIn(k, now) \cup {l \in UnderWay : k \in KeysOf(l)}

LoadBounded ==
  /\ Cardinality(UnderWay) <= MaxLogins
  /\ \A k \in FailKeys : Cardinality(Load(k)) <= LimitOf(k) + MaxLogins - 1

GuessInv == Booked /\ LoadBounded /\ GuessesBounded

(* The stamps that are left in a window are its recent failures. *)
LEMMA LiveIsFailed ==
  ASSUME TypeOK, Booked, NEW k \in FailKeys
  PROVE  /\ IsFiniteSet(FailedIn(k, now))
         /\ Cardinality(FailedIn(k, now)) \in Nat
         /\ Cardinality(Live(k)) = Cardinality(FailedIn(k, now))
<1>1. IsFiniteSet(FailedIn(k, now))
  <2>1. FailedIn(k, now) \in SUBSET Attempts
    BY DEF FailedIn, TypeOK
  <2>2. QED
    BY <2>1, FS_Subset, AccountsAssumption
<1> DEFINE f == [s \in Live(k) |-> s.att]
<1>2. f \in [Live(k) -> FailedIn(k, now)]
  <2>1. ASSUME NEW s \in Live(k)
        PROVE  s.att \in FailedIn(k, now)
    <3>1. s \in Stamp /\ s \in fails[k] /\ now - s.at < Window
      BY DEF Live, TypeOK
    <3>2. s.att \in counted[k] /\ s.at = failedAt[s.att] /\ failedAt[s.att] \in 0..now
      BY <3>1 DEF Booked
    <3>3. failedAt[s.att] # NULL
      BY <3>2, AccountsAssumption
    <3>4. QED
      BY <3>1, <3>2, <3>3 DEF FailedIn
  <2>2. QED
    BY <2>1
<1>3. \A a, b \in Live(k) : f[a] = f[b] => a = b
  <2>1. ASSUME NEW a \in Live(k), NEW b \in Live(k), a.att = b.att
        PROVE  a = b
    <3>1. a \in Stamp /\ b \in Stamp /\ a \in fails[k] /\ b \in fails[k]
      BY DEF Live, TypeOK
    <3>2. a.at = b.at
      BY <2>1, <3>1 DEF Booked
    <3>3. QED
      BY <2>1, <3>1, <3>2 DEF Stamp
  <2>2. QED
    BY <2>1
<1>4. \A l \in FailedIn(k, now) : \E s \in Live(k) : f[s] = l
  <2>1. ASSUME NEW l \in FailedIn(k, now)
        PROVE  Stamped(l) \in Live(k) /\ Stamped(l).att = l
    BY DEF FailedIn, Booked, Stamped, Live
  <2>2. QED
    BY <2>1
<1>5. f \in Bijection(Live(k), FailedIn(k, now))
  BY <1>2, <1>3, <1>4 DEF Bijection, Injection, Surjection, IsInjective
<1>6. f \in Injection(Live(k), FailedIn(k, now)) /\ f \in Surjection(Live(k), FailedIn(k, now))
  BY <1>5 DEF Bijection
<1>7. Cardinality(Live(k)) = Cardinality(FailedIn(k, now))
  <2> HIDE DEF f
  <2>1. QED
    BY <1>1, <1>6, FS_Injection
<1>8. QED
  BY <1>1, <1>7, FS_CardinalityType

LEMMA LimitType == \A k \in FailKeys : LimitOf(k) \in Nat \ {0}
BY AccountsAssumption DEF LimitOf

(***************************************************************************)
(* A login that is admitted finds the failures of its keys below their     *)
(* budgets, so that the load of either stays bounded.                      *)
(***************************************************************************)
LEMMA AdmissionLoad ==
  ASSUME TypeOK, Booked, LoadBounded, NEW l \in Attempts, NEW w \in Login,
         Cardinality(UnderWay) < MaxLogins, ~Limited(w),
         NEW k \in {w.user, w.ip}
  PROVE  /\ IsFiniteSet(FailedIn(k, now) \cup UnderWay \cup {l})
         /\ Cardinality(FailedIn(k, now) \cup UnderWay \cup {l}) <= LimitOf(k) + MaxLogins - 1
<1>1. k \in FailKeys
  BY DEF Login, FailKeys
<1>2. /\ IsFiniteSet(FailedIn(k, now)) /\ Cardinality(FailedIn(k, now)) \in Nat
      /\ Cardinality(FailedIn(k, now)) < LimitOf(k)
  <2>1. Cardinality(Live(k)) < LimitOf(k)
    <3>1. ~(Cardinality(Live(k)) >= LimitOf(k))
      BY DEF Limited
    <3>2. Cardinality(Live(k)) \in Nat /\ LimitOf(k) \in Nat
      BY <1>1, LiveIsFailed, LimitType
    <3>3. QED
      BY <3>1, <3>2
  <2>2. QED
    BY <1>1, <2>1, LiveIsFailed
<1>3. IsFiniteSet(UnderWay) /\ Cardinality(UnderWay) \in Nat
  <2>1. UnderWay \in SUBSET Attempts
    BY DEF UnderWay
  <2>2. QED
    BY <2>1, FS_Subset, FS_CardinalityType, AccountsAssumption
<1> DEFINE busy == UnderWay \cup {l}
           F == FailedIn(k, now)
<1>4. IsFiniteSet(busy) /\ Cardinality(busy) \in Nat /\ Cardinality(busy) <= MaxLogins
  <2>1. /\ IsFiniteSet(busy)
        /\ Cardinality(busy) = Cardinality(UnderWay) \/ Cardinality(busy) = Cardinality(UnderWay) + 1
    BY <1>3, FS_AddElement
  <2>2. MaxLogins \in Nat
    BY AccountsAssumption
  <2> HIDE DEF busy
  <2>3. QED
    BY <1>3, <2>1, <2>2
<1>5. /\ IsFiniteSet(F \cup busy)
      /\ Cardinality(F \cup busy) = Cardinality(F) + Cardinality(busy) - Cardinality(F \cap busy)
      /\ Cardinality(F \cap busy) \in Nat
  <2> HIDE DEF busy, F
  <2>1. IsFiniteSet(F) /\ IsFiniteSet(busy)
    BY <1>2, <1>4 DEF F
  <2>2. QED
    BY <2>1, FS_Union, FS_Intersection, FS_CardinalityType
<1>6. LimitOf(k) \in Nat /\ MaxLogins \in Nat
  BY <1>1, LimitType, AccountsAssumption
<1>7. Cardinality(F \cup busy) <= LimitOf(k) + MaxLogins - 1
  <2>1. Cardinality(F) \in Nat /\ Cardinality(F) < LimitOf(k)
    BY <1>2
  <2> HIDE DEF busy, F
  <2>2. QED
    BY <1>4, <1>5, <1>6, <2>1
<1>8. FailedIn(k, now) \cup UnderWay \cup {l} = F \cup busy
  OBVIOUS
<1>9. QED
  BY <1>5, <1>7, <1>8

(***************************************************************************)
(* How one step changes the load: only an admission adds to it; a failure  *)
(* turns a login under way into a failed one.                              *)
(***************************************************************************)
Eased ==
  /\ now' = now
  /\ UnderWay' \subseteq UnderWay
  /\ \A l \in UnderWay' : who'[l] = who[l]
  /\ \A l \in Attempts : pc[l] = "done" => pc'[l] = "done"
  /\ failedAt' = failedAt
  /\ \A k \in FailKeys :
       \/ counted'[k] = counted[k] /\ fails'[k] \in {fails[k], Live(k)}
       \/ counted'[k] = {} /\ fails'[k] = {}

Failed(l) ==
  /\ now' = now
  /\ l \in UnderWay /\ UnderWay' = UnderWay \ {l} /\ pc'[l] = "done"
  /\ \A m \in UnderWay' : who'[m] = who[m]
  /\ \A m \in Attempts : pc[m] = "done" => pc'[m] = "done"
  /\ failedAt' = [failedAt EXCEPT ![l] = now]
  /\ \A k \in FailKeys :
       \/ /\ k \in KeysOf(l)
          /\ fails'[k] = fails[k] \cup {[att |-> l, at |-> now]}
          /\ counted'[k] = counted[k] \cup {l}
       \/ /\ k \notin KeysOf(l)
          /\ fails'[k] = fails[k] /\ counted'[k] = counted[k]

Admitted(l, w) ==
  /\ now' = now
  /\ Cardinality(UnderWay) < MaxLogins /\ ~Limited(w)
  /\ UnderWay' = UnderWay \cup {l} /\ who' = [who EXCEPT ![l] = w]
  /\ \A m \in Attempts : pc[m] = "done" => pc'[m] = "done"
  /\ pc[l] = "idle"
  /\ failedAt' = failedAt /\ counted' = counted
  /\ \A k \in FailKeys : fails'[k] = Live(k)

LEMMA GuessSteps ==
  ASSUME TypeOK, [Next]_vars
  PROVE  \/ Eased \/ Tick
         \/ \E l \in Attempts : Failed(l)
         \/ \E l \in Attempts, w \in Login : Admitted(l, w)
<1>1. ASSUME NEW l \in Attempts, NEW w \in Login, Begin(l, w)
      PROVE  Eased \/ Admitted(l, w)
  <2>1. fails' = [k \in FailKeys |-> Live(k)] /\ now' = now /\ failedAt' = failedAt
        /\ counted' = counted /\ pc[l] = "idle" /\ Cardinality(UnderWay) < MaxLogins
    BY <1>1 DEF Begin
  <2>2. CASE End({l})
    BY <2>1, <2>2, EndKeeps DEF Eased
  <2>3. CASE /\ ~Limited(w)
             /\ who' = [who EXCEPT ![l] = w]
             /\ pc' = [pc EXCEPT ![l] = "lookup"]
    <3>1. UnderWay' = UnderWay \cup {l}
      BY <2>3 DEF UnderWay, TypeOK
    <3>2. \A m \in Attempts : pc[m] = "done" => pc'[m] = "done"
      BY <2>1, <2>3 DEF TypeOK
    <3>3. QED
      BY <2>1, <2>3, <3>1, <3>2 DEF Admitted
  <2>4. QED
    BY <1>1, <2>2, <2>3 DEF Begin
<1>2. ASSUME NEW l \in Attempts, LookUp(l)
      PROVE  Eased
  <2>1. UnderWay' = UnderWay /\ (\A m \in Attempts : pc[m] = "done" => pc'[m] = "done")
    BY <1>2 DEF LookUp, UnderWay, TypeOK
  <2>2. QED
    BY <1>2, <2>1 DEF LookUp, Eased
<1>3. ASSUME NEW l \in Attempts, Fail(l)
      PROVE  Failed(l)
  <2>1. l \in UnderWay
    BY <1>3 DEF Fail, UnderWay
  <2>2. QED
    BY <1>3, <2>1, EndKeeps DEF Fail, Charged, Failed
<1>4. ASSUME NEW l \in Attempts, Disabled(l) \/ Abandon(l)
      PROVE  Eased
  BY <1>4, EndKeeps DEF Disabled, Abandon, Eased
<1>5. ASSUME NEW l \in Attempts, Succeed(l)
      PROVE  Eased
  <2>1. who[l].user \in FailKeys
    BY <1>5 DEF Succeed, TypeOK, Login, FailKeys
  <2>2. \A k \in FailKeys :
          \/ counted'[k] = counted[k] /\ fails'[k] = fails[k]
          \/ counted'[k] = {} /\ fails'[k] = {}
    BY <1>5, <2>1 DEF Succeed, Forgiven, TypeOK
  <2>3. QED
    BY <1>5, <2>2, EndKeeps DEF Succeed, Eased
<1>6. ASSUME NEW env \in Passwords \cup {NULL}, Restart(env)
      PROVE  Eased
  BY <1>6, EndKeeps DEF Restart, Eased
<1>7. CASE Apply \/ UNCHANGED vars \/ \E t \in tokens : Authorize(t)
  BY <1>7 DEF Apply, Authorize, loginVars, vars, Eased, UnderWay
<1>8. QED
  BY <1>1, <1>2, <1>3, <1>4, <1>5, <1>6, <1>7 DEF Next, UpdateUser, DeleteUser, CreateUsers

LEMMA StepBooked ==
  ASSUME TypeOK, Booked, [Next]_vars
  PROVE  Booked'
<1>1. CASE Eased
  <2>1. ASSUME NEW k \in FailKeys
        PROVE  /\ fails'[k] \subseteq fails[k] /\ counted'[k] \subseteq counted[k]
               /\ \A m \in counted'[k] : Stamped(m) \in fails[k] /\ now - failedAt[m] < Window
                                           => Stamped(m) \in fails'[k]
    <3>1. CASE counted'[k] = {} /\ fails'[k] = {}
      BY <3>1
    <3>2. CASE counted'[k] = counted[k] /\ fails'[k] = fails[k]
      BY <3>2
    <3>3. CASE counted'[k] = counted[k] /\ fails'[k] = Live(k)
      BY <3>3 DEF Live, Stamped
    <3>4. QED
      BY <1>1, <2>1, <3>1, <3>2, <3>3 DEF Eased
  <2>2. \A k \in FailKeys : counted[k] \subseteq Attempts
    BY DEF TypeOK
  <2>3. now' = now /\ failedAt' = failedAt /\ (\A m \in Attempts : pc[m] = "done" => pc'[m] = "done")
    BY <1>1 DEF Eased
  <2>4. ASSUME NEW k \in FailKeys
        PROVE  /\ \A s \in fails'[k] : s.att \in counted'[k] /\ s.at = failedAt[s.att]
               /\ \A m \in counted'[k] :
                    /\ pc'[m] = "done"
                    /\ failedAt[m] \in 0..now
                    /\ now - failedAt[m] < Window => Stamped(m) \in fails'[k]
    <3>1. CASE counted'[k] = {} /\ fails'[k] = {}
      BY <3>1
    <3>2. CASE counted'[k] = counted[k]
      <4>1. \A s \in fails'[k] : s.att \in counted[k] /\ s.at = failedAt[s.att]
        BY <2>1 DEF Booked
      <4>2. \A m \in counted[k] :
                /\ pc'[m] = "done" /\ failedAt[m] \in 0..now
                /\ now - failedAt[m] < Window => Stamped(m) \in fails[k]
        BY <2>2, <2>3 DEF Booked
      <4>3. QED
        BY <2>1, <3>2, <4>1, <4>2
    <3>3. QED
      BY <1>1, <3>1, <3>2 DEF Eased
  <2>5. QED
    BY <2>3, <2>4 DEF Booked, Stamped
<1>2. CASE Tick
  <2>1. /\ now \in Nat /\ now' = now + 1 /\ Window \in Nat
        /\ fails' = fails /\ counted' = counted /\ pc' = pc /\ failedAt' = failedAt
    BY <1>2, AccountsAssumption DEF Tick, TypeOK, loginVars
  <2>2. \A x \in 0..now : x \in 0..now' /\ (now' - x < Window => now - x < Window)
    BY <2>1
  <2>3. ASSUME NEW k \in FailKeys, NEW m \in counted[k]
        PROVE  /\ pc[m] = "done" /\ failedAt[m] \in 0..now'
               /\ now' - failedAt[m] < Window => [att |-> m, at |-> failedAt[m]] \in fails[k]
    BY <2>2 DEF Booked, Stamped
  <2>4. \A k \in FailKeys : \A s \in fails[k] : s.att \in counted[k] /\ s.at = failedAt[s.att]
    BY DEF Booked
  <2>5. QED
    BY <2>1, <2>3, <2>4 DEF Booked, Stamped
<1>3. ASSUME NEW l \in Attempts, Failed(l)
      PROVE  Booked'
  <2>1. now' = now /\ now \in Nat /\ failedAt' = [failedAt EXCEPT ![l] = now]
        /\ pc'[l] = "done" /\ (\A m \in Attempts : pc[m] = "done" => pc'[m] = "done")
    BY <1>3 DEF Failed, TypeOK
  <2>2. pc[l] # "done"
    BY <1>3 DEF Failed, UnderWay
  <2>3. failedAt'[l] = now /\ (\A m \in Attempts \ {l} : failedAt'[m] = failedAt[m])
    BY <2>1 DEF TypeOK
  <2>4. \A k \in FailKeys : l \notin counted[k] /\ counted[k] \subseteq Attempts
    BY <2>2 DEF Booked, TypeOK
  <2>5. ASSUME NEW k \in FailKeys
        PROVE  /\ \A s \in fails'[k] : s.att \in counted'[k] /\ s.at = failedAt'[s.att]
               /\ \A m \in counted'[k] :
                    /\ pc'[m] = "done"
                    /\ failedAt'[m] \in 0..now'
                    /\ now' - failedAt'[m] < Window
                         => [att |-> m, at |-> failedAt'[m]] \in fails'[k]
    <3>1. CASE fails'[k] = fails[k] /\ counted'[k] = counted[k]
      BY <2>1, <2>3, <2>4, <3>1 DEF Booked, Stamped
    <3>2. CASE /\ fails'[k] = fails[k] \cup {[att |-> l, at |-> now]}
               /\ counted'[k] = counted[k] \cup {l}
      BY <2>1, <2>3, <2>4, <3>2 DEF Booked, Stamped
    <3>3. QED
      BY <1>3, <3>1, <3>2 DEF Failed
  <2>6. QED
    BY <2>5 DEF Booked, Stamped
<1>4. ASSUME NEW l \in Attempts, NEW w \in Login, Admitted(l, w)
      PROVE  Booked'
  <2>1. /\ now' = now /\ failedAt' = failedAt /\ counted' = counted
        /\ (\A m \in Attempts : pc[m] = "done" => pc'[m] = "done")
        /\ \A k \in FailKeys : fails'[k] = Live(k)
    BY <1>4 DEF Admitted
  <2>2. \A k \in FailKeys : counted[k] \subseteq Attempts
    BY DEF TypeOK
  <2>3. QED
    BY <2>1, <2>2 DEF Booked, Stamped, Live
<1>5. QED
  BY <1>1, <1>2, <1>3, <1>4, GuessSteps

(* The load is a finite set; a smaller one keeps the bound. *)
LEMMA SmallerLoad ==
  ASSUME NEW b \in Int, NEW S, IsFiniteSet(S), Cardinality(S) <= b,
         NEW T \in SUBSET S
  PROVE  Cardinality(T) <= b
<1>1. IsFiniteSet(T) /\ Cardinality(T) <= Cardinality(S)
  BY FS_Subset
<1>2. Cardinality(T) \in Nat /\ Cardinality(S) \in Nat
  BY <1>1, FS_CardinalityType
<1>3. QED
  BY <1>1, <1>2

LEMMA LoadIsFinite ==
  ASSUME TypeOK, NEW k \in FailKeys
  PROVE  IsFiniteSet(Load(k)) /\ IsFiniteSet(UnderWay) /\ LimitOf(k) + MaxLogins - 1 \in Int
<1>1. Load(k) \in SUBSET Attempts /\ UnderWay \in SUBSET Attempts
  BY DEF Load, FailedIn, UnderWay, TypeOK
<1>2. LimitOf(k) \in Nat /\ MaxLogins \in Nat
  BY LimitType, AccountsAssumption
<1>3. QED
  BY <1>1, <1>2, FS_Subset, AccountsAssumption

LEMMA StepLoad ==
  ASSUME TypeOK, Booked, LoadBounded, [Next]_vars
  PROVE  LoadBounded'
<1>0. ASSUME UnderWay' \subseteq UnderWay, \A k \in FailKeys : Load(k)' \subseteq Load(k)
      PROVE  LoadBounded'
  <2>1. IsFiniteSet(UnderWay) /\ MaxLogins \in Int
    <3>1. UnderWay \in SUBSET Attempts
      BY DEF UnderWay
    <3>2. QED
      BY <3>1, FS_Subset, AccountsAssumption
  <2>2. Cardinality(UnderWay') <= MaxLogins
    BY <1>0, <2>1, SmallerLoad DEF LoadBounded
  <2>3. \A k \in FailKeys : Cardinality(Load(k)') <= LimitOf(k) + MaxLogins - 1
    BY <1>0, LoadIsFinite, SmallerLoad DEF LoadBounded
  <2>4. QED
    BY <2>2, <2>3 DEF LoadBounded, LimitOf
<1>1. CASE Eased
  <2>1. \A k \in FailKeys : Load(k)' \subseteq Load(k)
    BY <1>1 DEF Eased, Load, FailedIn, KeysOf
  <2>2. QED
    BY <1>0, <1>1, <2>1 DEF Eased
<1>2. CASE Tick
  <2>1. /\ now \in Nat /\ now' = now + 1 /\ Window \in Nat
        /\ counted' = counted /\ pc' = pc /\ failedAt' = failedAt /\ who' = who
    BY <1>2, AccountsAssumption DEF Tick, TypeOK, loginVars
  <2>2. UnderWay' = UnderWay
    BY <2>1 DEF UnderWay
  <2>3. ASSUME NEW k \in FailKeys
        PROVE  FailedIn(k, now)' \subseteq FailedIn(k, now)
    <3>1. \A m \in counted[k] : failedAt[m] \in 0..now
      BY DEF Booked
    <3>2. \A x \in 0..now : now' - x < Window => now - x < Window
      BY <2>1
    <3>3. QED
      BY <2>1, <3>1, <3>2 DEF FailedIn
  <2>4. QED
    BY <1>0, <2>1, <2>2, <2>3 DEF Load, KeysOf
<1>3. ASSUME NEW l \in Attempts, Failed(l)
      PROVE  LoadBounded'
  <2>1. UnderWay' \subseteq UnderWay /\ now' = now
    BY <1>3 DEF Failed
  <2>2. \A m \in Attempts \ {l} : failedAt'[m] = failedAt[m]
    BY <1>3 DEF Failed, TypeOK
  <2>3. ASSUME NEW k \in FailKeys
        PROVE  Load(k)' \subseteq Load(k)
    <3>1. {m \in UnderWay : k \in KeysOf(m)}' \subseteq {m \in UnderWay : k \in KeysOf(m)}
      BY <1>3 DEF Failed, KeysOf
    <3>2. \A m \in FailedIn(k, now)' : m # l => m \in FailedIn(k, now)
      BY <1>3, <2>1, <2>2 DEF Failed, FailedIn, TypeOK
    <3>3. l \in FailedIn(k, now)' => l \in UnderWay /\ k \in KeysOf(l)
      <4>1. l \notin counted[k] /\ l \in UnderWay
        BY <1>3 DEF Failed, UnderWay, Booked
      <4>2. QED
        BY <1>3, <4>1 DEF Failed, FailedIn
    <3>4. QED
      BY <3>1, <3>2, <3>3 DEF Load
  <2>4. QED
    BY <1>0, <2>1, <2>3
<1>4. ASSUME NEW l \in Attempts, NEW w \in Login, Admitted(l, w)
      PROVE  LoadBounded'
  <2>1. /\ now' = now /\ failedAt' = failedAt /\ counted' = counted
        /\ UnderWay' = UnderWay \cup {l} /\ who' = [who EXCEPT ![l] = w]
        /\ Cardinality(UnderWay) < MaxLogins /\ ~Limited(w) /\ l \notin UnderWay
    BY <1>4 DEF Admitted, UnderWay
  <2>2. Cardinality(UnderWay') <= MaxLogins
    <3>1. IsFiniteSet(UnderWay)
      <4>1. UnderWay \in SUBSET Attempts
        BY DEF UnderWay
      <4>2. QED
        BY <4>1, FS_Subset, AccountsAssumption
    <3>2. Cardinality(UnderWay') = Cardinality(UnderWay) + 1 /\ Cardinality(UnderWay) \in Nat
      BY <2>1, <3>1, FS_AddElement, FS_CardinalityType
    <3>3. MaxLogins \in Nat
      BY AccountsAssumption
    <3>4. QED
      BY <2>1, <3>2, <3>3
  <2>3. \A k \in FailKeys : FailedIn(k, now)' = FailedIn(k, now)
    BY <2>1 DEF FailedIn
  <2>4. who'[l] = w /\ (\A m \in Attempts \ {l} : who'[m] = who[m])
    BY <2>1 DEF TypeOK
  <2>5. ASSUME NEW k \in FailKeys, k \notin {w.user, w.ip}
        PROVE  Cardinality(Load(k)') <= LimitOf(k) + MaxLogins - 1
    <3>1. \A m \in UnderWay' : k \in KeysOf(m)' => m \in UnderWay /\ k \in KeysOf(m)
      BY <2>1, <2>4, <2>5 DEF KeysOf, UnderWay
    <3>2. Load(k)' \subseteq Load(k)
      BY <2>3, <3>1 DEF Load
    <3>3. QED
      BY <3>2, LoadIsFinite, SmallerLoad DEF LoadBounded
  <2>6. ASSUME NEW k \in FailKeys, k \in {w.user, w.ip}
        PROVE  Cardinality(Load(k)') <= LimitOf(k) + MaxLogins - 1
    <3>1. Load(k)' \subseteq FailedIn(k, now) \cup UnderWay \cup {l}
      BY <2>1, <2>3 DEF Load
    <3>2. QED
      BY <2>1, <2>6, <3>1, AdmissionLoad, LoadIsFinite, SmallerLoad
  <2>7. QED
    BY <2>2, <2>5, <2>6 DEF LoadBounded, LimitOf
<1>5. QED
  BY <1>1, <1>2, <1>3, <1>4, GuessSteps

(* What was counted in a window that ended earlier only shrinks. *)
LEMMA StepGuesses ==
  ASSUME TypeOK, TypeOK', GuessInv, LoadBounded', [Next]_vars
  PROVE  GuessesBounded'
<1>0. /\ now \in Nat /\ now' \in {now, now + 1}
  BY GuessSteps DEF TypeOK, Eased, Tick, Failed, Admitted
<1>1. ASSUME NEW k \in FailKeys, NEW t \in 0..now', t = now'
      PROVE  Cardinality(FailedIn(k, t)') <= LimitOf(k) + MaxLogins - 1
  <2>1. Cardinality(Load(k)') <= LimitOf(k) + MaxLogins - 1
    BY DEF LoadBounded, LimitOf
  <2>2. FailedIn(k, t)' \subseteq Load(k)'
    BY <1>1 DEF Load, FailedIn
  <2>3. IsFiniteSet(Load(k)')
    <3>1. Load(k)' \in SUBSET Attempts
      BY DEF Load, FailedIn, UnderWay, TypeOK
    <3>2. QED
      BY <3>1, FS_Subset, AccountsAssumption
  <2>4. QED
    BY <2>1, <2>2, <2>3, LoadIsFinite, SmallerLoad
<1>2. ASSUME NEW k \in FailKeys, NEW t \in 0..now', t # now'
      PROVE  Cardinality(FailedIn(k, t)') <= LimitOf(k) + MaxLogins - 1
  <2>1. t \in 0..now /\ t < now'
    BY <1>0, <1>2
  <2>2. FailedIn(k, t)' \subseteq FailedIn(k, t)
    <3>1. CASE Eased
      BY <3>1 DEF Eased, FailedIn
    <3>2. CASE Tick
      BY <3>2 DEF Tick, loginVars, FailedIn
    <3>3. ASSUME NEW l \in Attempts, Failed(l)
          PROVE  FailedIn(k, t)' \subseteq FailedIn(k, t)
      <4>1. now' = now /\ (\A m \in Attempts \ {l} : failedAt'[m] = failedAt[m]) /\ failedAt'[l] = now
        BY <3>3 DEF Failed, TypeOK
      <4>2. \A m \in FailedIn(k, t)' : m # l
        BY <1>0, <2>1, <4>1 DEF FailedIn
      <4>3. counted'[k] \subseteq counted[k] \cup {l} /\ counted[k] \subseteq Attempts
        BY <3>3 DEF Failed, TypeOK
      <4>4. QED
        BY <4>1, <4>2, <4>3 DEF FailedIn
    <3>4. ASSUME NEW l \in Attempts, NEW w \in Login, Admitted(l, w)
          PROVE  FailedIn(k, t)' \subseteq FailedIn(k, t)
      BY <3>4 DEF Admitted, FailedIn
    <3>5. QED
      BY <3>1, <3>2, <3>3, <3>4, GuessSteps
  <2>3. IsFiniteSet(FailedIn(k, t))
    <3>1. FailedIn(k, t) \in SUBSET Attempts
      BY DEF FailedIn, TypeOK
    <3>2. QED
      BY <3>1, FS_Subset, AccountsAssumption
  <2>4. Cardinality(FailedIn(k, t)) <= LimitOf(k) + MaxLogins - 1
    BY <2>1 DEF GuessInv, GuessesBounded
  <2>5. QED
    BY <2>2, <2>3, <2>4, LoadIsFinite, SmallerLoad
<1>3. QED
  BY <1>0, <1>1, <1>2 DEF GuessesBounded, LimitOf

LEMMA InitGuesses == Init => GuessInv
<1> SUFFICES ASSUME Init PROVE GuessInv
  OBVIOUS
<1>1. UnderWay = {} /\ (\A k \in FailKeys : Load(k) = {} /\ \A t \in 0..now : FailedIn(k, t) = {})
  BY DEF Init, UnderWay, Load, FailedIn
<1>2. Cardinality({}) = 0
  BY FS_EmptySet
<1>3. MaxLogins \in Nat \ {0} /\ (\A k \in FailKeys : LimitOf(k) \in Nat \ {0})
  BY AccountsAssumption, LimitType
<1>4. \A k \in FailKeys : 0 <= LimitOf(k) + MaxLogins - 1
  BY <1>3
<1>5. 0 <= MaxLogins
  BY <1>3
<1>6. Booked
  BY DEF Init, Booked
<1>7. LoadBounded
  BY <1>1, <1>2, <1>4, <1>5 DEF LoadBounded
<1>8. GuessesBounded
  BY <1>1, <1>2, <1>4 DEF GuessesBounded
<1>9. QED
  BY <1>6, <1>7, <1>8 DEF GuessInv

LEMMA StepGuessInv ==
  TypeOK /\ RootStays /\ GuessInv /\ [Next]_vars => GuessInv'
<1> SUFFICES ASSUME TypeOK, RootStays, GuessInv, [Next]_vars PROVE GuessInv'
  OBVIOUS
<1>1. TypeOK'
  BY StepTypes
<1>2. Booked' /\ LoadBounded'
  BY StepBooked, StepLoad DEF GuessInv
<1>3. QED
  BY <1>1, <1>2, StepGuesses DEF GuessInv

(***************************************************************************)
(* In no window of time does a key fail more often than its budget and the *)
(* other logins that may be under way, whatever the clock, successes and   *)
(* restarts do in between.                                                 *)
(***************************************************************************)
THEOREM FailuresStayBounded == Spec => []GuessesBounded
<1>1. GuessInv => GuessesBounded
  BY DEF GuessInv
<1>2. QED
  BY <1>1, InitTypes, StepTypes, InitGuesses, StepGuessInv, PTL DEF Spec

(***************************************************************************)
(* A key that is locked out has its budget of unforgiven failures in the   *)
(* window that ends now.                                                   *)
(***************************************************************************)
THEOREM LockoutsAreEarned == Spec => []LockoutJustified
<1>1. TypeOK /\ GuessInv => LockoutJustified
  BY LiveIsFailed DEF GuessInv, LockoutJustified
<1>2. QED
  BY <1>1, InitTypes, StepTypes, InitGuesses, StepGuessInv, PTL DEF Spec

=============================================================================
