-------------------------------- MODULE Ledger --------------------------------
(***************************************************************************)
(* The money of the gateway: users.balance, the statement of recharges and  *)
(* adjustments (billing_transactions), the usage written for calls          *)
(* (request_logs, and usage_daily once they are purged), and redemption     *)
(* codes.  Calls are admitted on a positive balance and settled later, so   *)
(* that several can be under way on the same balance.                      *)
(*                                                                         *)
(* All writes hold the mutex of the one write connection and are            *)
(* transactions: each is one action, and one that fails changes nothing.   *)
(* Amounts are integers (micro-yuan).  Time counts in seconds of a clock    *)
(* whose days are DayLen long.                                             *)
(***************************************************************************)
EXTENDS Integers, Sequences, FiniteSets, FiniteSetsExt

CONSTANTS
  Users, Codes,
  Calls,       \* calls that can be under way at a time
  MaxBills,    \* log writes one call can cause (see StreamBilling)
  MaxCost,     \* most a log write can cost
  Faces, Expiries,   \* face values and expiry times of redemption codes
  Amounts,     \* amounts of an admin's adjustments
  DayLen,
  Retention,   \* log_retention_days
  MaxLag,      \* seconds that may pass between the two statements of a purge
  MaxNow, MaxLogs, MaxEntries,   \* bounds on time, logs and statement lines
  NULL

ASSUME LedgerAssumption ==
  /\ IsFiniteSet(Calls) /\ Calls # {} /\ MaxBills \in Nat \ {0} /\ MaxCost \in Nat \ {0}
  /\ Faces \subseteq Nat \ {0} /\ Expiries \subseteq Nat /\ Amounts \subseteq Int \ {0}
  /\ DayLen \in Nat \ {0} /\ Retention \in Nat \ {0} /\ MaxLag \in Nat
  /\ MaxNow \in Nat /\ MaxLogs \in Nat /\ MaxEntries \in Nat
  /\ NULL \notin Users \cup Codes \cup Nat

VARIABLES
  balance,    \* users.balance
  entries,    \* the statement of each user, oldest line first
  logs,       \* request_logs
  daily,      \* usage_daily: per user and day
  code,       \* redemption_codes
  owed,       \* for whom a log write is still to come
  now,        \* the clock
  written,    \* logs written so far (their ids, and for the bound)
  blind,      \* users once admitted without a look at their balance
  docked,     \* per user, what the admin deducted so far
  lost        \* per user and day, usage that was purged without being added up

vars == <<balance, entries, logs, daily, code, owed, now, written, blind, docked, lost>>

Day(t) == t \div DayLen
Days == 0..Day(MaxNow)
Bills == Calls \X (1..MaxBills)

\* The expiry of a code that has none.
Never == MaxNow + 1

Entry == [amount : Int, after : Int, code : Codes \cup {NULL}]
Log == [id : 1..MaxLogs, user : Users, at : 0..MaxNow, cost : 0..MaxCost]
Code == [status : {"none", "unused", "used", "disabled"}, face : Faces \cup {NULL},
         expires : Nat, by : Users \cup {NULL}]

TypeOK ==
  /\ balance \in [Users -> Int]
  /\ entries \in [Users -> Seq(Entry)]
  /\ logs \subseteq Log
  /\ daily \in [Users -> [Days -> Nat]]
  /\ code \in [Codes -> Code]
  /\ owed \in [Bills -> Users \cup {NULL}]
  /\ now \in 0..MaxNow /\ written \in 0..MaxLogs
  /\ blind \subseteq Users
  /\ docked \in [Users -> Nat]
  /\ lost \in [Users -> [Days -> Nat]]

Init ==
  /\ balance = [u \in Users |-> 0]
  /\ entries = [u \in Users |-> <<>>]
  /\ logs = {} /\ daily = [u \in Users |-> [d \in Days |-> 0]]
  /\ code = [k \in Codes |-> [status |-> "none", face |-> NULL, expires |-> Never, by |-> NULL]]
  /\ owed = [b \in Bills |-> NULL]
  /\ now = 0 /\ written = 0 /\ blind = {}
  /\ docked = [u \in Users |-> 0]
  /\ lost = [u \in Users |-> [d \in Days |-> 0]]

-----------------------------------------------------------------------------
(***************************************************************************)
(* Calls.                                                                  *)
(***************************************************************************)

\* Every log write a call may cause is owed by its user from here on.
Started(c, u) ==
  /\ \A i \in 1..MaxBills : owed[<<c, i>>] = NULL
  /\ owed' = [b \in Bills |-> IF b[1] = c THEN u ELSE owed[b]]
  /\ UNCHANGED <<balance, entries, logs, daily, code, now, written, docked, lost>>

\* An admission that takes the precheck for granted.
AdmitUnchecked(c, u) == Started(c, u) /\ UNCHANGED blind

\* has_positive_balance, which lets a call pass when it cannot tell.
Admit(c, u) == balance[u] > 0 /\ Started(c, u) /\ UNCHANGED blind

AdmitBlind(c, u) == Started(c, u) /\ blind' = blind \cup {u}

Served == UNCHANGED <<entries, daily, code, now, blind, docked, lost>>

\* insert_request_log: the log and the deduction in one transaction.
Settle(b, cost) ==
  /\ owed[b] # NULL /\ written < MaxLogs
  /\ logs' = logs \cup {[id |-> written + 1, user |-> owed[b], at |-> now, cost |-> cost]}
  /\ balance' = [balance EXCEPT ![owed[b]] = @ - cost]
  /\ written' = written + 1
  /\ owed' = [owed EXCEPT ![b] = NULL]
  /\ Served

\* A log write that does not come, or fails.
Forgo(b) ==
  /\ owed[b] # NULL
  /\ owed' = [owed EXCEPT ![b] = NULL]
  /\ UNCHANGED <<logs, balance, written>> /\ Served

-----------------------------------------------------------------------------
(***************************************************************************)
(* Recharges.                                                              *)
(***************************************************************************)

\* A line that tells of the balance before it.
CreditStale(u, amount, k) ==
  /\ MapThenSumSet(LAMBDA v : Len(entries[v]), Users) < MaxEntries
  /\ balance' = [balance EXCEPT ![u] = @ + amount]
  /\ entries' = [entries EXCEPT ![u] =
                   Append(@, [amount |-> amount, after |-> balance[u], code |-> k])]
  /\ UNCHANGED <<logs, daily, owed, now, written, blind, lost>>

\* The balance and the line that tells of it, in one transaction.
Credit(u, amount, k) ==
  /\ MapThenSumSet(LAMBDA v : Len(entries[v]), Users) < MaxEntries
  /\ balance' = [balance EXCEPT ![u] = @ + amount]
  /\ entries' = [entries EXCEPT ![u] =
                   Append(@, [amount |-> amount, after |-> balance[u] + amount, code |-> k])]
  /\ UNCHANGED <<logs, daily, owed, now, written, blind, lost>>

\* adjust_balance.
Adjust(u, amount) ==
  /\ Credit(u, amount, NULL)
  /\ docked' = [docked EXCEPT ![u] = IF amount < 0 THEN @ - amount ELSE @]
  /\ UNCHANGED code

\* create_redemption_codes: a batch is stored as a whole.
CreateCodes(K, face, expires) ==
  /\ K # {} /\ \A k \in K : code[k].status = "none"
  /\ code' = [k \in Codes |->
                IF k \in K
                THEN [status |-> "unused", face |-> face, expires |-> expires, by |-> NULL]
                ELSE code[k]]
  /\ UNCHANGED <<balance, entries, logs, daily, owed, now, written, blind, docked, lost>>

\* disable_redemption_code.
DisableCode(k) ==
  /\ code[k].status = "unused"
  /\ code' = [code EXCEPT ![k].status = "disabled"]
  /\ UNCHANGED <<balance, entries, logs, daily, owed, now, written, blind, docked, lost>>

\* A redemption that only looks whether the code exists.
RedeemableAgain(k) == code[k].status \in {"unused", "used"} /\ code[k].expires > now

\* redeem_code: the WHERE clause of the UPDATE decides which attempt wins.
Redeemable(k) == code[k].status = "unused" /\ code[k].expires > now

Redeem(u, k) ==
  /\ Redeemable(k)
  /\ code' = [code EXCEPT ![k].status = "used", ![k].by = u]
  /\ Credit(u, code[k].face, k)
  /\ UNCHANGED docked

-----------------------------------------------------------------------------
(***************************************************************************)
(* Retention.                                                              *)
(***************************************************************************)

\* The sum of a function's values.
Total(w) == MapThenSumSet(LAMBDA x : w[x], DOMAIN w)

Cost(S) == Total([l \in S |-> l.cost])
LogsOf(S, u, d) == {l \in S : l.user = u /\ Day(l.at) = d}

\* A cutoff that is a day too late.
OverdueEarly(t) == {l \in logs : l.at < t - (Retention - 1) * DayLen}

\* The logs that are older than the retention period at time t.
Overdue(t) == {l \in logs : l.at < t - Retention * DayLen}

\* An upsert that keeps the latest purge only.
UpsertOverwrites(u, d) ==
  LET S == LogsOf(Overdue(now), u, d) IN IF S = {} THEN daily[u][d] ELSE Cost(S)

\* The upsert into usage_daily adds to what an earlier purge left for the day.
Upsert(u, d) == daily[u][d] + Cost(LogsOf(Overdue(now), u, d))

\* purge_old_request_logs: one transaction, but each of its two statements
\* reads the clock for itself.  What gets overdue between them is deleted and
\* was not added up.
Purge(lag) ==
  /\ now' = now + lag /\ now' <= MaxNow
  /\ daily' = [u \in Users |-> [d \in Days |-> Upsert(u, d)]]
  /\ logs' = logs \ Overdue(now')
  /\ lost' = [u \in Users |-> [d \in Days |->
                lost[u][d] + Cost(LogsOf(Overdue(now') \ Overdue(now), u, d))]]
  /\ UNCHANGED <<balance, entries, code, owed, written, blind, docked>>

Tick ==
  /\ now < MaxNow /\ now' = now + 1
  /\ UNCHANGED <<balance, entries, logs, daily, code, owed, written, blind, docked, lost>>

Next ==
  \/ \E c \in Calls, u \in Users : Admit(c, u) \/ AdmitBlind(c, u)
  \/ \E b \in Bills : Forgo(b) \/ \E cost \in 0..MaxCost : Settle(b, cost)
  \/ \E u \in Users, a \in Amounts : Adjust(u, a)
  \/ \E K \in SUBSET Codes, f \in Faces, e \in Expiries : CreateCodes(K, f, e)
  \/ \E k \in Codes : DisableCode(k) \/ \E u \in Users : Redeem(u, k)
  \/ \E lag \in 0..MaxLag : Purge(lag)
  \/ Tick

Spec == Init /\ [][Next]_vars

-----------------------------------------------------------------------------
(***************************************************************************)
(* Properties.                                                             *)
(***************************************************************************)

\* What the tables tell of a user's usage on a day, purged or not.
Usage(u, d) == Cost(LogsOf(logs, u, d)) + daily[u][d]

\* What a user used on a day, whether the tables still tell of it or not.
Used(u, d) == Usage(u, d) + lost[u][d]

Recharged(u) == Total([i \in DOMAIN entries[u] |-> entries[u][i].amount])

\* What is said of a purge (health.rs 91-92): the balance is what was recharged
\* minus what the tables tell was consumed, also when its details are purged.
Reconciled ==
  \A u \in Users : balance[u] = Recharged(u) - Total([d \in Days |-> Usage(u, d)])

\* What holds of it, however long a purge takes: nothing is missing from the
\* books and nothing is in them twice, but for the calls that got older than the
\* retention period between the two statements of a purge.
BooksAccount ==
  \A u \in Users : balance[u] = Recharged(u) - Total([d \in Days |-> Used(u, d)])

\* What was used today is still in request_logs, where the daily quota of an
\* API key counts it.
TodayIsUnpurged == \A u \in Users : \A d \in Days : d >= Day(now) => daily[u][d] = 0

\* A user's statement can be read from line to line: between two lines, and
\* after the last one, usage can only have lowered the balance.
StatementReadable ==
  \A u \in Users :
    LET e == entries[u] IN
    /\ \A i \in 1..Len(e) : i > 1 => e[i].after - e[i].amount <= e[i - 1].after
    /\ e # <<>> => balance[u] <= e[Len(e)].after

\* A code is credited once, to the user it is marked as used by, and only
\* when it is marked so: whatever attempts, disabling and expiry it meets.
CodeSpentOnce ==
  \A k \in Codes : \A u \in Users : \A i \in 1..Len(entries[u]) :
    entries[u][i].code = k =>
      /\ code[k].status = "used" /\ code[k].by = u
      /\ \A j \in 1..Len(entries[u]) : entries[u][j].code = k => j = i

\* A code marked as used was credited, at its face value, to its user.
CodeCredited ==
  \A k \in Codes : code[k].status = "used" =>
    \E i \in 1..Len(entries[code[k].by]) :
      entries[code[k].by][i].code = k /\ entries[code[k].by][i].amount = code[k].face

\* The codes and the statements tell the same: each used code is one line of
\* its user's statement, each line of a code a used code.
CodesBookedOnce == CodeSpentOnce /\ CodeCredited

\* A user who was only admitted on a positive balance is overdrawn by no more
\* than the calls that can be under way at a time may cost, beyond what the
\* admin deducted.
OverdraftBounded ==
  \A u \in Users \ blind :
    balance[u] + docked[u] > -(MaxCost * Cardinality(Bills))

=============================================================================
