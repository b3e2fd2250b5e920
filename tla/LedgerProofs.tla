----------------------------- MODULE LedgerProofs -----------------------------
(***************************************************************************)
(* The books, for any number of users, codes and calls and for amounts of   *)
(* any size: statements read from line to line, a code is spent once, and   *)
(* an overdraft is bounded by the calls that were under way.  And, over     *)
(* sums of any length: what was used today stays in request_logs, and a     *)
(* balance is what was recharged minus what was consumed, of which the      *)
(* tables miss nothing but what a slow purge lets slip.                    *)
(***************************************************************************)
EXTENDS Ledger, SequenceTheorems, FiniteSetTheorems, WellFoundedInduction, TLAPS

Owed(u) == {b \in Bills : owed[b] = u}

\* What a user's balance comes to when every bill under way takes the most.
Backed ==
  \A u \in Users \ blind :
    balance[u] + docked[u] - MaxCost * Cardinality(Owed(u)) > -(MaxCost * Cardinality(Bills))

Types ==
  /\ balance \in [Users -> Int]
  /\ entries \in [Users -> Seq(Entry)]
  /\ code \in [Codes -> Code]
  /\ owed \in [Bills -> Users \cup {NULL}]
  /\ docked \in [Users -> Nat]

\* A code that was created has a face value, and one that is used a user.
Faced ==
  \A k \in Codes :
    /\ code[k].status # "none" => code[k].face \in Faces
    /\ code[k].status = "used" => code[k].by \in Users

IInv ==
  Types /\ Faced /\ Backed /\ StatementReadable /\ CodeSpentOnce /\ CodeCredited

-----------------------------------------------------------------------------
(***************************************************************************)
(* Bills under way.                                                        *)
(***************************************************************************)

LEMMA BillsFinite == IsFiniteSet(Bills) /\ Cardinality(Bills) \in Nat \ {0}
<1>1. IsFiniteSet(1..MaxBills) /\ Cardinality(1..MaxBills) = MaxBills
  BY FS_Interval, LedgerAssumption
<1>2. IsFiniteSet(Calls) /\ Calls # {} /\ MaxBills \in Nat \ {0}
  BY LedgerAssumption
<1>3. IsFiniteSet(Bills)
  BY <1>1, <1>2, FS_Product DEF Bills
<1>4. Bills # {}
  <2>1. PICK c \in Calls : TRUE
    BY <1>2
  <2>2. <<c, 1>> \in Bills
    BY <1>2 DEF Bills
  <2> QED BY <2>2
<1> QED BY <1>3, <1>4, FS_EmptySet, FS_CardinalityType

LEMMA OwedBound ==
  ASSUME NEW u
  PROVE  /\ IsFiniteSet(Owed(u))
         /\ Cardinality(Owed(u)) \in Nat
         /\ Cardinality(Owed(u)) <= Cardinality(Bills)
<1>1. Owed(u) \in SUBSET Bills
  BY DEF Owed
<1> QED BY <1>1, BillsFinite, FS_Subset, FS_CardinalityType

\* The products the bound is made of.
LEMMA Product ==
  ASSUME NEW i \in Nat, NEW j \in Nat, i <= j
  PROVE  /\ MaxCost * i \in Int /\ MaxCost * j \in Int
         /\ MaxCost * i <= MaxCost * j
         /\ MaxCost * (i + 1) = MaxCost * i + MaxCost
  BY LedgerAssumption, Z3

\* A bill that is settled or forgone is owed no longer.
LEMMA OwedLess ==
  ASSUME NEW b \in Bills, owed \in [Bills -> Users \cup {NULL}], owed[b] # NULL,
         owed' = [owed EXCEPT ![b] = NULL], NEW u \in Users
  PROVE  Cardinality(Owed(u))' = IF u = owed[b] THEN Cardinality(Owed(u)) - 1
                                                ELSE Cardinality(Owed(u))
<1>1. NULL \notin Users
  BY LedgerAssumption
<1>2. CASE u = owed[b]
  <2>1. Owed(u)' = Owed(u) \ {b} /\ b \in Owed(u)
    BY <1>1, <1>2 DEF Owed
  <2> QED BY <1>2, <2>1, OwedBound, FS_RemoveElement
<1>3. CASE u # owed[b]
  <2>1. Owed(u)' = Owed(u)
    BY <1>1, <1>3 DEF Owed
  <2> QED BY <1>3, <2>1
<1> QED BY <1>2, <1>3

-----------------------------------------------------------------------------
(***************************************************************************)
(* Steps of calls.                                                         *)
(***************************************************************************)

\* Statements and codes do not mind a balance that falls.
LEMMA UsageLowers ==
  ASSUME Types, StatementReadable, CodeSpentOnce, CodeCredited,
         UNCHANGED <<entries, code>>, balance' \in [Users -> Int],
         \A u \in Users : balance'[u] <= balance[u]
  PROVE  StatementReadable' /\ CodeSpentOnce' /\ CodeCredited'
<1>1. CodeSpentOnce'
  BY DEF CodeSpentOnce
<1>2. CodeCredited'
  BY DEF CodeCredited
<1>3. ASSUME NEW u \in Users
      PROVE  LET e == entries[u] IN
             /\ \A i \in 1..Len(e) : i > 1 => e[i].after - e[i].amount <= e[i - 1].after
             /\ e # <<>> => balance'[u] <= e[Len(e)].after
  <2>1. /\ \A i \in 1..Len(entries[u]) :
              i > 1 => entries[u][i].after - entries[u][i].amount <= entries[u][i - 1].after
        /\ entries[u] # <<>> => balance[u] <= entries[u][Len(entries[u])].after
    BY DEF StatementReadable
  <2>2. entries[u] # <<>> => entries[u][Len(entries[u])].after \in Int
    <3>1. entries[u] \in Seq(Entry)
      BY DEF Types
    <3>2. ASSUME entries[u] # <<>> PROVE entries[u][Len(entries[u])] \in Entry
      BY <3>1, <3>2, ElementOfSeq, EmptySeq, LenProperties
    <3>3. \A e \in Entry : e.after \in Int
      BY DEF Entry
    <3> QED BY <3>2, <3>3
  <2>3. balance[u] \in Int /\ balance'[u] \in Int /\ balance'[u] <= balance[u]
    BY DEF Types
  <2> QED BY <2>1, <2>2, <2>3
<1>4. StatementReadable'
  BY <1>3 DEF StatementReadable
<1> QED BY <1>1, <1>2, <1>4

LEMMA StartedOK ==
  ASSUME IInv, NEW c \in Calls, NEW u \in Users, Started(c, u),
         \/ balance[u] > 0 /\ UNCHANGED blind
         \/ blind' = blind \cup {u}
  PROVE  IInv'
<1> USE DEF IInv
<1>1. Types' /\ Faced'
  BY DEF Started, Types, Faced
<1>2. StatementReadable' /\ CodeSpentOnce' /\ CodeCredited'
  <2>1. \A v \in Users : balance'[v] <= balance[v]
    BY DEF Started, Types
  <2> QED BY <1>1, <2>1, UsageLowers DEF Started, Types
<1>3. ASSUME NEW v \in Users \ blind'
      PROVE  balance'[v] + docked'[v] - MaxCost * Cardinality(Owed(v))'
               > -(MaxCost * Cardinality(Bills))
  <2>1. v \notin blind
    BY <1>3
  <2>2. balance[v] \in Int /\ docked[v] \in Nat /\ UNCHANGED <<balance, docked>>
    BY DEF Types, Started
  <2>3. CASE v = u
    <3>1. balance[v] > 0
      BY <1>3, <2>3
    <3>2. /\ Owed(v)' \in SUBSET Bills
      BY DEF Owed
    <3>3. /\ Cardinality(Owed(v)') \in Nat
          /\ Cardinality(Owed(v)') <= Cardinality(Bills)
      BY <3>2, BillsFinite, FS_Subset, FS_CardinalityType
    <3>4. /\ MaxCost * Cardinality(Owed(v)') \in Int /\ MaxCost * Cardinality(Bills) \in Int
          /\ MaxCost * Cardinality(Owed(v)') <= MaxCost * Cardinality(Bills)
      BY <3>3, BillsFinite, Product
    <3> QED BY <2>2, <3>1, <3>4
  <2>4. CASE v # u
    <3>1. NULL \notin Users
      BY LedgerAssumption
    <3>2. ASSUME NEW b \in Bills PROVE owed'[b] = v <=> owed[b] = v
      <4>1. b = <<b[1], b[2]>> /\ b[1] \in Calls /\ b[2] \in 1..MaxBills
        BY DEF Bills
      <4>2. CASE b[1] = c
        <5>1. owed[b] = NULL
          BY <4>1, <4>2 DEF Started
        <5>2. owed'[b] = u
          BY <4>2 DEF Started
        <5> QED BY <2>4, <3>1, <5>1, <5>2
      <4>3. CASE b[1] # c
        BY <4>3 DEF Started
      <4> QED BY <4>2, <4>3
    <3>3. Owed(v)' = Owed(v)
      BY <3>2 DEF Owed
    <3> QED BY <2>1, <2>2, <3>3 DEF Backed
  <2> QED BY <2>3, <2>4
<1>4. Backed'
  <2>1. Cardinality(Bills)' = Cardinality(Bills)
    OBVIOUS
  <2> QED BY <1>3 DEF Backed
<1> QED BY <1>1, <1>2, <1>4

\* A bill costs no more than was kept for it.
LEMMA Settled ==
  ASSUME NEW x \in Int, NEW y \in Int, NEW p \in Int, NEW q, NEW m \in Int,
         NEW c \in Int, NEW a \in Int, q = p + m, c <= m, x + y - q > -a
  PROVE  (x - c) + y - p > -a
  OBVIOUS

\* A bill ends, at some cost or at none.
LEMMA BillEnds ==
  ASSUME IInv, NEW b \in Bills, NEW cost \in 0..MaxCost, owed[b] # NULL,
         owed' = [owed EXCEPT ![b] = NULL],
         balance' = [balance EXCEPT ![owed[b]] = @ - cost],
         UNCHANGED <<entries, code, blind, docked>>
  PROVE  IInv'
<1> USE DEF IInv
<1>1. owed[b] \in Users
  BY DEF Types
<1>2. MaxCost \in Nat /\ cost \in Nat /\ cost <= MaxCost
  BY LedgerAssumption
<1>3. Types' /\ Faced'
  BY <1>1, <1>2 DEF Types, Faced
<1>4. \A u \in Users : balance'[u] = IF u = owed[b] THEN balance[u] - cost ELSE balance[u]
  BY <1>1 DEF Types
<1>5. StatementReadable' /\ CodeSpentOnce' /\ CodeCredited'
  <2>1. \A u \in Users : balance'[u] <= balance[u]
    BY <1>2, <1>4 DEF Types
  <2>2. balance' \in [Users -> Int]
    BY <1>3 DEF Types
  <2> QED BY <2>1, <2>2, UsageLowers
<1>6. ASSUME NEW u \in Users \ blind
      PROVE  balance'[u] + docked[u] - MaxCost * Cardinality(Owed(u))'
               > -(MaxCost * Cardinality(Bills))
  <2> DEFINE k == Cardinality(Owed(u))
             all == MaxCost * Cardinality(Bills)
  <2>1. Cardinality(Owed(u))' = IF u = owed[b] THEN k - 1 ELSE k
    BY OwedLess DEF Types
  <2>2. balance[u] + docked[u] - MaxCost * k > -all
    BY DEF Backed
  <2>3. balance[u] \in Int /\ docked[u] \in Nat
    BY DEF Types
  <2>4. k \in Nat /\ all \in Int
    BY OwedBound, BillsFinite, <1>2
  <2>5. CASE u = owed[b]
    <3>1. b \in Owed(u)
      BY <2>5 DEF Owed
    <3>2. k # 0
      BY <3>1, OwedBound, FS_EmptySet
    <3>3. k - 1 \in Nat /\ (k - 1) + 1 = k
      BY <3>2, <2>4
    <3>4. MaxCost * (k - 1) \in Int /\ MaxCost * k = MaxCost * (k - 1) + MaxCost
      <4> HIDE DEF k
      <4>1. MaxCost * ((k - 1) + 1) = MaxCost * (k - 1) + MaxCost
        BY <3>3, Product
      <4>2. MaxCost * (k - 1) \in Int
        BY <3>3, Product
      <4> QED BY <3>3, <4>1, <4>2
    <3> HIDE DEF k, all
    <3>5. balance'[u] = balance[u] - cost /\ Cardinality(Owed(u))' = k - 1
      BY <1>4, <2>1, <2>5
    <3>6. (balance[u] - cost) + docked[u] - MaxCost * (k - 1) > -all
      <4>1. docked[u] \in Int /\ MaxCost \in Int /\ cost \in Int
        BY <2>3, <1>2
      <4>2. all \in Int /\ balance[u] \in Int
        BY <2>3, <2>4
      <4> QED BY <4>1, <4>2, <3>4, <2>2, <1>2, Settled
    <3> QED BY <3>5, <3>6 DEF all
  <2>6. CASE u # owed[b]
    BY <1>4, <2>1, <2>2, <2>6
  <2> QED BY <2>5, <2>6
<1>7. Backed'
  BY <1>6 DEF Backed
<1> QED BY <1>3, <1>5, <1>7

-----------------------------------------------------------------------------
(***************************************************************************)
(* Recharges and codes.                                                    *)
(***************************************************************************)

\* A credit appends the line that tells of it, and only to its user's
\* statement.
LEMMA Appended ==
  ASSUME Types, NEW u \in Users, NEW a \in Int, NEW k \in Codes \cup {NULL},
         Credit(u, a, k)
  PROVE  LET l == [amount |-> a, after |-> balance[u] + a, code |-> k] IN
         /\ l \in Entry
         /\ entries' \in [Users -> Seq(Entry)] /\ balance' \in [Users -> Int]
         /\ \A v \in Users \ {u} : entries'[v] = entries[v] /\ balance'[v] = balance[v]
         /\ balance'[u] = balance[u] + a
         /\ Len(entries[u]) \in Nat /\ Len(entries'[u]) = Len(entries[u]) + 1
         /\ \A i \in 1..Len(entries[u]) :
              entries'[u][i] = entries[u][i] /\ entries[u][i] \in Entry
         /\ entries'[u][Len(entries[u]) + 1] = l
<1> DEFINE l == [amount |-> a, after |-> balance[u] + a, code |-> k]
<1>1. balance[u] \in Int /\ entries[u] \in Seq(Entry)
  BY DEF Types
<1>2. l \in Entry
  BY <1>1 DEF Entry
<1>3. /\ Append(entries[u], l) \in Seq(Entry)
      /\ Len(Append(entries[u], l)) = Len(entries[u]) + 1
      /\ \A i \in 1..Len(entries[u]) : Append(entries[u], l)[i] = entries[u][i]
      /\ Append(entries[u], l)[Len(entries[u]) + 1] = l
  <2> HIDE DEF l
  <2> QED BY <1>1, <1>2, AppendProperties
<1>4. Len(entries[u]) \in Nat /\ \A i \in 1..Len(entries[u]) : entries[u][i] \in Entry
  BY <1>1, ElementOfSeq, LenProperties
<1>5. entries' = [entries EXCEPT ![u] = Append(entries[u], l)]
      /\ balance' = [balance EXCEPT ![u] = balance[u] + a]
  BY DEF Credit
<1>6. entries'[u] = Append(entries[u], l)
  BY <1>5 DEF Types
<1>7. \A v \in Users \ {u} : entries'[v] = entries[v] /\ balance'[v] = balance[v]
  BY <1>5 DEF Types
<1>8. balance'[u] = balance[u] + a /\ balance' \in [Users -> Int]
  BY <1>1, <1>5 DEF Types
<1>9. entries' \in [Users -> Seq(Entry)]
  <2> HIDE DEF l
  <2> QED BY <1>3, <1>5 DEF Types
<1> HIDE DEF l
<1>10. /\ l \in Entry
       /\ entries' \in [Users -> Seq(Entry)] /\ balance' \in [Users -> Int]
       /\ \A v \in Users \ {u} : entries'[v] = entries[v] /\ balance'[v] = balance[v]
       /\ balance'[u] = balance[u] + a
       /\ Len(entries[u]) \in Nat /\ Len(entries'[u]) = Len(entries[u]) + 1
       /\ \A i \in 1..Len(entries[u]) :
            entries'[u][i] = entries[u][i] /\ entries[u][i] \in Entry
       /\ entries'[u][Len(entries[u]) + 1] = l
  BY <1>2, <1>3, <1>4, <1>6, <1>7, <1>8, <1>9
<1> QED BY <1>10 DEF l

LEMMA CreditReadable ==
  ASSUME Types, StatementReadable, NEW u \in Users, NEW a \in Int,
         NEW k \in Codes \cup {NULL}, Credit(u, a, k)
  PROVE  StatementReadable'
<1> SUFFICES ASSUME NEW v \in Users
             PROVE  LET e == entries'[v] IN
                    /\ \A i \in 1..Len(e) : i > 1 => e[i].after - e[i].amount <= e[i - 1].after
                    /\ e # <<>> => balance'[v] <= e[Len(e)].after
  BY DEF StatementReadable
<1>1. /\ \A i \in 1..Len(entries[v]) :
            i > 1 => entries[v][i].after - entries[v][i].amount <= entries[v][i - 1].after
      /\ entries[v] # <<>> => balance[v] <= entries[v][Len(entries[v])].after
  BY DEF StatementReadable
<1>2. CASE v # u
  BY <1>1, <1>2, Appended
<1>3. CASE v = u
  <2> DEFINE m == Len(entries[u])
             l == [amount |-> a, after |-> balance[u] + a, code |-> k]
  <2>1. /\ m \in Nat /\ Len(entries'[u]) = m + 1 /\ balance'[u] = balance[u] + a
        /\ \A i \in 1..m : entries'[u][i] = entries[u][i] /\ entries[u][i] \in Entry
        /\ entries'[u][m + 1] = l
    BY Appended
  <2>2. balance[u] \in Int
    BY DEF Types
  <2>3. l.after - l.amount = balance[u] /\ l.after = balance'[u]
    BY <2>1, <2>2
  <2>4. m > 0 => entries[u] # <<>>
    BY EmptySeq
  <2> HIDE DEF m, l
  <2>5. ASSUME NEW i \in 1..(m + 1), i > 1
        PROVE  entries'[u][i].after - entries'[u][i].amount <= entries'[u][i - 1].after
    <3>1. i - 1 \in 1..m
      BY <2>1, <2>5
    <3>2. CASE i \in 1..m
      BY <1>1, <1>3, <2>1, <2>5, <3>1, <3>2 DEF m
    <3>3. CASE i = m + 1
      <4>1. entries'[u][i - 1] = entries[u][m]
        BY <2>1, <3>1, <3>3
      <4>2. balance[u] <= entries[u][m].after
        BY <1>1, <1>3, <2>4, <3>1, <2>1 DEF m
      <4> QED BY <2>1, <2>3, <3>3, <4>1, <4>2
    <3> QED BY <2>1, <3>2, <3>3
  <2>6. balance'[u] <= entries'[u][m + 1].after
    <3>1. balance'[u] \in Int
      BY <2>1, <2>2
    <3> QED BY <2>1, <2>3, <3>1
  <2> QED BY <1>3, <2>1, <2>5, <2>6
<1> QED BY <1>2, <1>3

LEMMA CreditBacked ==
  ASSUME Types, Backed, NEW u \in Users, NEW a \in Int, NEW k \in Codes \cup {NULL},
         Credit(u, a, k), docked' \in [Users -> Nat],
         docked'[u] = IF a < 0 THEN docked[u] - a ELSE docked[u],
         \A v \in Users \ {u} : docked'[v] = docked[v]
  PROVE  Backed'
<1>1. UNCHANGED <<owed, blind>>
  BY DEF Credit
<1>2. \A v : Owed(v)' = Owed(v)
  BY <1>1 DEF Owed
<1>3. ASSUME NEW v \in Users \ blind
      PROVE  balance'[v] + docked'[v] - MaxCost * Cardinality(Owed(v))
               > -(MaxCost * Cardinality(Bills))
  <2>1. balance[v] + docked[v] - MaxCost * Cardinality(Owed(v)) > -(MaxCost * Cardinality(Bills))
    BY DEF Backed
  <2>2. balance'[v] + docked'[v] >= balance[v] + docked[v]
        /\ balance'[v] + docked'[v] \in Int /\ balance[v] + docked[v] \in Int
    <3>1. /\ balance[v] \in Int /\ docked[v] \in Nat /\ docked'[v] \in Nat
          /\ balance[u] \in Int /\ docked[u] \in Nat /\ docked'[u] \in Nat
      BY DEF Types
    <3>2. /\ \A w \in Users \ {u} : balance'[w] = balance[w]
          /\ balance'[u] = balance[u] + a
      BY Appended
    <3> QED BY <3>1, <3>2
  <2>3. MaxCost * Cardinality(Owed(v)) \in Int /\ MaxCost * Cardinality(Bills) \in Int
    <3>1. MaxCost \in Nat
      BY LedgerAssumption
    <3> QED BY <3>1, OwedBound, BillsFinite
  <2> DEFINE p == MaxCost * Cardinality(Owed(v))
             q == MaxCost * Cardinality(Bills)
  <2> HIDE DEF p, q
  <2>4. p \in Int /\ q \in Int /\ balance[v] + docked[v] - p > -q
    BY <2>1, <2>3 DEF p, q
  <2>5. balance'[v] + docked'[v] - p > -q
    <3>1. /\ balance[v] \in Int /\ docked[v] \in Int
          /\ balance'[v] \in Int /\ docked'[v] \in Int
      <4>1. balance' \in [Users -> Int]
        BY Appended
      <4> QED BY <4>1 DEF Types
    <3> QED BY <2>2, <2>4, <3>1
  <2> QED BY <2>5 DEF p, q
<1> QED BY <1>1, <1>2, <1>3 DEF Backed

LEMMA AdjustOK ==
  ASSUME IInv, NEW u \in Users, NEW a \in Amounts, Adjust(u, a)
  PROVE  IInv'
<1> USE DEF IInv
<1>1. a \in Int /\ NULL \notin Codes /\ NULL \in Codes \cup {NULL}
  BY LedgerAssumption
<1>2. Credit(u, a, NULL) /\ UNCHANGED <<code, owed, blind>>
      /\ docked' = [docked EXCEPT ![u] = IF a < 0 THEN docked[u] - a ELSE docked[u]]
  BY DEF Adjust, Credit
<1>3. /\ docked' \in [Users -> Nat]
      /\ docked'[u] = IF a < 0 THEN docked[u] - a ELSE docked[u]
      /\ \A v \in Users \ {u} : docked'[v] = docked[v]
  <2>1. docked[u] \in Nat
    BY DEF Types
  <2>2. (IF a < 0 THEN docked[u] - a ELSE docked[u]) \in Nat
    BY <1>1, <2>1
  <2> QED BY <1>2, <2>2 DEF Types
<1>4. Types' /\ Faced'
  BY <1>1, <1>2, <1>3, Appended DEF Types, Faced
<1>5. StatementReadable' /\ Backed'
  BY <1>1, <1>2, <1>3, CreditReadable, CreditBacked
<1> DEFINE m == Len(entries[u])
<1>6. /\ m \in Nat /\ Len(entries'[u]) = m + 1
      /\ \A i \in 1..m : entries'[u][i] = entries[u][i]
      /\ entries'[u][m + 1].code = NULL
      /\ \A v \in Users \ {u} : entries'[v] = entries[v]
  <2>1. /\ m \in Nat /\ Len(entries'[u]) = m + 1
        /\ \A i \in 1..m : entries'[u][i] = entries[u][i]
        /\ entries'[u][m + 1] = [amount |-> a, after |-> balance[u] + a, code |-> NULL]
        /\ \A v \in Users \ {u} : entries'[v] = entries[v]
    BY <1>1, <1>2, Appended
  <2> QED BY <2>1
<1>7. CodeSpentOnce'
  <2> SUFFICES ASSUME NEW k \in Codes, NEW v \in Users, NEW i \in 1..Len(entries'[v]),
                      entries'[v][i].code = k
               PROVE  /\ code[k].status = "used" /\ code[k].by = v
                      /\ \A j \in 1..Len(entries'[v]) : entries'[v][j].code = k => j = i
    BY <1>2 DEF CodeSpentOnce
  <2>1. CASE v # u
    BY <1>6, <2>1 DEF CodeSpentOnce
  <2>2. CASE v = u
    <3>1. \A j \in 1..Len(entries'[v]) :
            entries'[v][j].code = k => j \in 1..m /\ entries[u][j].code = k
      BY <1>1, <1>6, <2>2
    <3> QED BY <2>2, <3>1 DEF CodeSpentOnce
  <2> QED BY <2>1, <2>2
<1>8. CodeCredited'
  <2> SUFFICES ASSUME NEW k \in Codes, code[k].status = "used"
               PROVE  \E i \in 1..Len(entries'[code[k].by]) :
                        /\ entries'[code[k].by][i].code = k
                        /\ entries'[code[k].by][i].amount = code[k].face
    BY <1>2 DEF CodeCredited
  <2>1. PICK i \in 1..Len(entries[code[k].by]) :
          entries[code[k].by][i].code = k /\ entries[code[k].by][i].amount = code[k].face
    BY DEF CodeCredited
  <2>2. CASE code[k].by = u
    BY <1>6, <2>1, <2>2
  <2>3. CASE code[k].by # u
    <3>1. code[k].by \in Users \ {u}
      BY <2>3 DEF Faced
    <3> QED BY <1>6, <2>1, <3>1
  <2> QED BY <2>2, <2>3
<1> QED BY <1>4, <1>5, <1>7, <1>8

LEMMA RedeemOK ==
  ASSUME IInv, NEW u \in Users, NEW c \in Codes, Redeem(u, c)
  PROVE  IInv'
<1> USE DEF IInv
<1> DEFINE a == code[c].face
           m == Len(entries[u])
<1>1. code[c].status = "unused" /\ a \in Int /\ a \in Faces /\ a > 0 /\ NULL \notin Codes
  BY LedgerAssumption DEF Redeem, Redeemable, Faced
<1>2. Credit(u, a, c) /\ UNCHANGED <<owed, blind, docked>>
      /\ code' = [code EXCEPT ![c].status = "used", ![c].by = u]
  BY DEF Redeem, Credit
<1>3. /\ code'[c].status = "used" /\ code'[c].by = u /\ code'[c].face = a
      /\ \A k \in Codes \ {c} : code'[k] = code[k]
      /\ code' \in [Codes -> Code]
  BY <1>2 DEF Types, Code
<1>4. Types' /\ Faced'
  <2>1. entries' \in [Users -> Seq(Entry)] /\ balance' \in [Users -> Int]
    BY <1>1, <1>2, Appended
  <2>2. Types'
    BY <1>2, <1>3, <2>1 DEF Types
  <2>3. Faced'
    BY <1>1, <1>3 DEF Faced
  <2> QED BY <2>2, <2>3
<1>5. StatementReadable' /\ Backed'
  <2>1. StatementReadable'
    BY <1>1, <1>2, CreditReadable
  <2>2. docked[u] \in Nat /\ docked' \in [Users -> Nat] /\ docked' = docked
    BY <1>2 DEF Types
  <2> QED BY <1>1, <1>2, <2>1, <2>2, CreditBacked
<1>6. /\ m \in Nat /\ Len(entries'[u]) = m + 1
      /\ \A i \in 1..m : entries'[u][i] = entries[u][i]
      /\ entries'[u][m + 1].code = c /\ entries'[u][m + 1].amount = a
      /\ \A v \in Users \ {u} : entries'[v] = entries[v]
  <2>1. /\ m \in Nat /\ Len(entries'[u]) = m + 1
        /\ \A i \in 1..m : entries'[u][i] = entries[u][i]
        /\ entries'[u][m + 1] = [amount |-> a, after |-> balance[u] + a, code |-> c]
        /\ \A v \in Users \ {u} : entries'[v] = entries[v]
    BY <1>1, <1>2, Appended
  <2> QED BY <2>1
<1> HIDE DEF a, m
\* The code was unused, so that no line tells of it yet.
<1>7. \A v \in Users : \A i \in 1..Len(entries[v]) : entries[v][i].code # c
  BY <1>1 DEF CodeSpentOnce
<1>8. CodeSpentOnce'
  <2> SUFFICES ASSUME NEW k \in Codes, NEW v \in Users, NEW i \in 1..Len(entries'[v]),
                      entries'[v][i].code = k
               PROVE  /\ code'[k].status = "used" /\ code'[k].by = v
                      /\ \A j \in 1..Len(entries'[v]) : entries'[v][j].code = k => j = i
    BY DEF CodeSpentOnce
  <2>1. CASE v # u
    <3>1. entries'[v] = entries[v]
      BY <1>6, <2>1
    <3>2. k # c
      BY <1>7, <3>1
    <3> QED BY <1>3, <3>1, <3>2 DEF CodeSpentOnce
  <2>2. CASE v = u
    <3>1. i \in 1..m \/ i = m + 1
      BY <1>6, <2>2
    <3>2. CASE i \in 1..m
      <4>1. entries[u][i].code = k /\ k # c
        BY <1>6, <1>7, <2>2, <3>2 DEF m
      <4>2. \A j \in 1..Len(entries'[u]) :
              entries'[u][j].code = k => j \in 1..m /\ entries[u][j].code = k
        BY <1>6, <4>1
      <4> QED BY <1>3, <2>2, <3>2, <4>1, <4>2 DEF CodeSpentOnce, m
    <3>3. CASE i = m + 1
      <4>1. k = c
        BY <1>6, <2>2, <3>3
      <4>2. \A j \in 1..Len(entries'[u]) : entries'[u][j].code = c => j = m + 1
        BY <1>6, <1>7 DEF m
      <4> QED BY <1>3, <2>2, <3>3, <4>1, <4>2
    <3> QED BY <3>1, <3>2, <3>3
  <2> QED BY <2>1, <2>2
<1>9. CodeCredited'
  <2> SUFFICES ASSUME NEW k \in Codes, code'[k].status = "used"
               PROVE  \E i \in 1..Len(entries'[code'[k].by]) :
                        /\ entries'[code'[k].by][i].code = k
                        /\ entries'[code'[k].by][i].amount = code'[k].face
    BY DEF CodeCredited
  <2>1. CASE k = c
    <3>1. m + 1 \in 1..Len(entries'[u])
      BY <1>6
    <3> QED BY <1>3, <1>6, <2>1, <3>1
  <2>2. CASE k # c
    <3>1. code'[k] = code[k] /\ code[k].by \in Users
      BY <1>3, <2>2 DEF Faced
    <3>2. PICK i \in 1..Len(entries[code[k].by]) :
            entries[code[k].by][i].code = k /\ entries[code[k].by][i].amount = code[k].face
      BY <3>1 DEF CodeCredited
    <3>3. CASE code[k].by = u
      <4>1. i \in 1..m /\ i \in 1..(m + 1)
        BY <1>6, <3>2, <3>3 DEF m
      <4> QED BY <1>6, <3>1, <3>2, <3>3, <4>1
    <3>4. CASE code[k].by # u
      BY <1>6, <3>1, <3>2, <3>4
    <3> QED BY <3>3, <3>4
  <2> QED BY <2>1, <2>2
<1> QED BY <1>4, <1>5, <1>8, <1>9

\* Codes that are created or disabled were not used, and are not used then.
LEMMA CodesOK ==
  ASSUME IInv, code' \in [Codes -> Code], Faced',
         \A k \in Codes : code'[k] = code[k] \/ "used" \notin {code[k].status, code'[k].status},
         UNCHANGED <<balance, entries, owed, blind, docked>>
  PROVE  IInv'
<1> USE DEF IInv
<1>1. Types' /\ StatementReadable'
  BY DEF Types, StatementReadable
<1>2. Backed'
  BY DEF Backed, Owed
<1>3. CodeSpentOnce'
  BY DEF CodeSpentOnce
<1>4. CodeCredited'
  <2>1. \A k \in Codes : code'[k].status = "used" => code'[k] = code[k]
    OBVIOUS
  <2> QED BY <2>1 DEF CodeCredited
<1> QED BY <1>1, <1>2, <1>3, <1>4

-----------------------------------------------------------------------------
(***************************************************************************)
(* The specification.                                                      *)
(***************************************************************************)

LEMMA InitOK == Init => IInv
<1> SUFFICES ASSUME Init PROVE IInv
  OBVIOUS
<1>1. Types /\ Faced
  <2>1. Never \in Nat
    BY LedgerAssumption DEF Never
  <2>2. [status |-> "none", face |-> NULL, expires |-> Never, by |-> NULL] \in Code
    BY <2>1 DEF Code
  <2>3. <<>> \in Seq(Entry)
    BY EmptySeq
  <2> QED BY <2>2, <2>3 DEF Init, Types, Faced
<1>2. StatementReadable
  BY EmptySeq DEF Init, StatementReadable
<1>3. CodeSpentOnce /\ CodeCredited
  BY EmptySeq DEF Init, CodeSpentOnce, CodeCredited
<1>4. Backed
  <2> SUFFICES ASSUME NEW u \in Users
               PROVE  0 + 0 - MaxCost * Cardinality(Owed(u)) > -(MaxCost * Cardinality(Bills))
    BY DEF Init, Backed
  <2>1. Owed(u) = {}
    BY LedgerAssumption DEF Init, Owed
  <2>2. Cardinality(Owed(u)) = 0
    BY <2>1, FS_EmptySet
  <2>3. MaxCost * 0 = 0 /\ MaxCost * Cardinality(Bills) > 0
    BY BillsFinite, LedgerAssumption, Z3
  <2>4. MaxCost * Cardinality(Bills) \in Int
    BY BillsFinite, LedgerAssumption
  <2> QED BY <2>2, <2>3, <2>4
<1> QED BY <1>1, <1>2, <1>3, <1>4 DEF IInv

LEMMA NextOK == IInv /\ [Next]_vars => IInv'
<1> SUFFICES ASSUME IInv, [Next]_vars PROVE IInv'
  OBVIOUS
<1>1. ASSUME NEW c \in Calls, NEW u \in Users, Admit(c, u) \/ AdmitBlind(c, u)
      PROVE  IInv'
  BY <1>1, StartedOK DEF Admit, AdmitBlind
<1>2. ASSUME NEW b \in Bills, NEW cost \in 0..MaxCost, Settle(b, cost)
      PROVE  IInv'
  BY <1>2, BillEnds DEF Settle, Served
<1>3. ASSUME NEW b \in Bills, Forgo(b)
      PROVE  IInv'
  <2>1. 0 \in 0..MaxCost
    BY LedgerAssumption
  <2>2. owed[b] \in Users
    BY <1>3 DEF Forgo, IInv, Types
  <2>3. balance' = [balance EXCEPT ![owed[b]] = @ - 0]
    BY <1>3, <2>2 DEF Forgo, IInv, Types
  <2> QED BY <1>3, <2>1, <2>3, BillEnds DEF Forgo, Served
<1>4. ASSUME NEW u \in Users, NEW a \in Amounts, Adjust(u, a)
      PROVE  IInv'
  BY <1>4, AdjustOK
<1>5. ASSUME NEW K \in SUBSET Codes, NEW f \in Faces, NEW e \in Expiries, CreateCodes(K, f, e)
      PROVE  IInv'
  <2>1. e \in Nat
    BY LedgerAssumption
  <2>2. [status |-> "unused", face |-> f, expires |-> e, by |-> NULL] \in Code
    BY <2>1 DEF Code
  <2>3. /\ code' \in [Codes -> Code]
        /\ \A k \in Codes : code'[k] = code[k] \/ "used" \notin {code[k].status, code'[k].status}
        /\ Faced'
    BY <1>5, <2>2 DEF CreateCodes, IInv, Types, Faced
  <2> QED BY <1>5, <2>3, CodesOK DEF CreateCodes
<1>6. ASSUME NEW k \in Codes, DisableCode(k)
      PROVE  IInv'
  <2>1. /\ code' \in [Codes -> Code]
        /\ \A j \in Codes : code'[j] = code[j] \/ "used" \notin {code[j].status, code'[j].status}
        /\ Faced'
    BY <1>6 DEF DisableCode, IInv, Types, Faced, Code
  <2> QED BY <1>6, <2>1, CodesOK DEF DisableCode
<1>7. ASSUME NEW k \in Codes, NEW u \in Users, Redeem(u, k)
      PROVE  IInv'
  BY <1>7, RedeemOK
<1>8. CASE (\E lag \in 0..MaxLag : Purge(lag)) \/ Tick \/ UNCHANGED vars
  <2>1. UNCHANGED <<balance, entries, code, owed, blind, docked>>
    BY <1>8 DEF Purge, Tick, vars
  <2>2. code' \in [Codes -> Code] /\ Faced'
    BY <2>1 DEF IInv, Types, Faced
  <2> QED BY <2>1, <2>2, CodesOK
<1> QED BY <1>1, <1>2, <1>3, <1>4, <1>5, <1>6, <1>7, <1>8 DEF Next

LEMMA Inductive == Spec => []IInv
<1> QED BY InitOK, NextOK, PTL DEF Spec

\* A statement can be read from line to line, whatever usage is written, lost
\* or purged between its lines.
THEOREM StatementsReadable == Spec => []StatementReadable
<1>1. IInv => StatementReadable
  BY DEF IInv
<1> QED BY <1>1, Inductive, PTL

\* Whoever races for a code, and whatever the admin does about it, it is
\* credited once, at its face value, to the user it is marked as used by; a
\* redemption is never half done.
THEOREM CodesAreBookedOnce == Spec => []CodesBookedOnce
<1>1. IInv => CodesBookedOnce
  BY DEF IInv, CodesBookedOnce
<1> QED BY <1>1, Inductive, PTL

\* Admission on a positive balance, without reserving anything, overdraws a
\* user by no more than what the calls under way at a time can cost.
THEOREM OverdraftsBounded == Spec => []OverdraftBounded
<1>1. IInv => OverdraftBounded
  <2> SUFFICES ASSUME IInv, NEW u \in Users \ blind
               PROVE  balance[u] + docked[u] > -(MaxCost * Cardinality(Bills))
    BY DEF OverdraftBounded
  <2> DEFINE p == MaxCost * Cardinality(Owed(u))
             q == MaxCost * Cardinality(Bills)
  <2>1. balance[u] + docked[u] - p > -q /\ balance[u] \in Int /\ docked[u] \in Nat
    BY DEF IInv, Backed, Types
  <2>2. p \in Nat /\ q \in Nat
    BY OwedBound, BillsFinite, LedgerAssumption, Z3
  <2> HIDE DEF p, q
  <2>3. balance[u] + docked[u] > -q
    BY <2>1, <2>2
  <2> QED BY <2>3 DEF q
<1> QED BY <1>1, Inductive, PTL

-----------------------------------------------------------------------------
(***************************************************************************)
(* Sums.  The fold behind Total is a recursive function: that it exists,    *)
(* and that its value depends on no order, is proved by taking a smallest   *)
(* counterexample.                                                         *)
(***************************************************************************)

\* The sum of w over the set S.
Sigma(w, S) == Total([x \in S |-> w[x]])

Weighs(w, S) == IsFiniteSet(S) /\ \A x \in S : w[x] \in Int

\* The element the fold takes first, and what it computes of subsets.
Pick(s) == CHOOSE x \in s : TRUE
Summed(w, s, g) == IF s = {} THEN 0 ELSE w[Pick(s)] + g[s \ {Pick(s)}]
IsSum(w, S, g) == \A s \in SUBSET S : g[s] = Summed(w, s, g)

LEMMA LeastNatural ==
  ASSUME NEW N, N \subseteq Nat, N # {}
  PROVE  \E k \in N : \A m \in N : k <= m
<1> DEFINE R == OpToRel(<, Nat)
<1>1. IsWellFoundedOn(R, Nat)
  BY NatLessThanWellFounded
<1>2. \A m \in Nat, k \in Nat : m < k => <<m, k>> \in R
  BY DEF OpToRel
<1> HIDE DEF R
<1>3. PICK k \in N : \A m \in N : <<m, k>> \notin R
  BY <1>1, WFMin
<1>4. \A m \in N : ~(m < k)
  BY <1>2, <1>3
<1> QED BY <1>4

\* Of subsets of a finite set, some have no smaller one among them.
LEMMA MinimalSet ==
  ASSUME NEW S, IsFiniteSet(S), NEW B, B \subseteq SUBSET S, B # {}
  PROVE  \E T \in B : \A x \in T : T \ {x} \notin B
<1> DEFINE N == {Cardinality(T) : T \in B}
<1>1. \A T \in SUBSET S : IsFiniteSet(T) /\ Cardinality(T) \in Nat
  BY FS_Subset, FS_CardinalityType
<1>2. N \in SUBSET Nat /\ N # {}
  BY <1>1
<1>3. PICK k \in N : \A m \in N : k <= m
  <2> HIDE DEF N
  <2> QED BY <1>2, LeastNatural
<1>4. PICK T \in B : Cardinality(T) = k
  BY <1>3
<1>5. ASSUME NEW x \in T, T \ {x} \in B PROVE FALSE
  <2>1. Cardinality(T \ {x}) = k - 1 /\ k \in Nat
    BY <1>1, <1>4, FS_RemoveElement
  <2>2. Cardinality(T \ {x}) \in N
    BY <1>5
  <2>3. k <= k - 1
    BY <1>3, <2>1, <2>2
  <2> QED BY <2>1, <2>3
<1> QED BY <1>5

LEMMA SumsAgree ==
  ASSUME NEW S, IsFiniteSet(S), NEW w, NEW g, NEW h, IsSum(w, S, g), IsSum(w, S, h)
  PROVE  \A T \in SUBSET S : g[T] = h[T]
<1> DEFINE B == {T \in SUBSET S : g[T] # h[T]}
<1> SUFFICES ASSUME B # {} PROVE FALSE
  OBVIOUS
<1>1. PICK T \in B : \A x \in T : T \ {x} \notin B
  <2>1. B \subseteq SUBSET S
    OBVIOUS
  <2> HIDE DEF B
  <2> QED BY <2>1, MinimalSet
<1>2. g[T] = Summed(w, T, g) /\ h[T] = Summed(w, T, h)
  BY DEF IsSum
<1>3. T # {}
  BY <1>2 DEF Summed
<1>4. Pick(T) \in T
  BY <1>3 DEF Pick
<1>5. g[T \ {Pick(T)}] = h[T \ {Pick(T)}]
  BY <1>1, <1>4
<1> QED BY <1>2, <1>3, <1>5 DEF Summed

LEMMA SumExists ==
  ASSUME NEW S, NEW w, Weighs(w, S)
  PROVE  \E g \in [SUBSET S -> Int] : IsSum(w, S, g)
<1> DEFINE Below(n) == {s \in SUBSET S : Cardinality(s) <= n}
           Good == {n \in Nat : \E g \in [Below(n) -> Int] :
                                  \A s \in Below(n) : g[s] = Summed(w, s, g)}
<1>0. \A T \in SUBSET S : IsFiniteSet(T) /\ Cardinality(T) \in Nat
                          /\ Cardinality(T) <= Cardinality(S)
  BY FS_Subset, FS_CardinalityType DEF Weighs
<1>1. 0 \in Good
  <2> DEFINE g == [s \in Below(0) |-> 0]
  <2>1. \A s \in Below(0) : s = {}
    BY <1>0, FS_EmptySet
  <2>2. g \in [Below(0) -> Int] /\ \A s \in Below(0) : g[s] = Summed(w, s, g)
    BY <2>1 DEF Summed
  <2> QED BY <2>2
<1>2. ASSUME NEW n \in Good PROVE n + 1 \in Good
  <2>1. PICK g \in [Below(n) -> Int] : \A s \in Below(n) : g[s] = Summed(w, s, g)
    OBVIOUS
  <2> DEFINE h == [s \in Below(n + 1) |-> Summed(w, s, g)]
  <2>2. ASSUME NEW s \in Below(n + 1), s # {}
        PROVE  Pick(s) \in s /\ s \ {Pick(s)} \in Below(n)
    <3>1. Pick(s) \in s
      BY <2>2 DEF Pick
    <3>2. Cardinality(s \ {Pick(s)}) = Cardinality(s) - 1
      BY <1>0, <3>1, FS_RemoveElement
    <3> QED BY <1>0, <3>1, <3>2
  <2>3. \A s \in Below(n) : s \in Below(n + 1)
    BY <1>0
  <2>4. \A s \in Below(n) : h[s] = g[s]
    BY <2>1, <2>3
  <2>5. ASSUME NEW s \in Below(n + 1) PROVE h[s] \in Int /\ h[s] = Summed(w, s, h)
    <3>1. CASE s = {}
      BY <3>1 DEF Summed
    <3>2. CASE s # {}
      <4>1. h[s] = w[Pick(s)] + g[s \ {Pick(s)}]
        BY <3>2 DEF Summed
      <4>2. w[Pick(s)] \in Int /\ g[s \ {Pick(s)}] \in Int
        BY <2>2, <3>2 DEF Weighs
      <4>3. g[s \ {Pick(s)}] = h[s \ {Pick(s)}]
        BY <2>2, <2>4, <3>2
      <4> HIDE DEF h
      <4> QED BY <3>2, <4>1, <4>2, <4>3 DEF Summed
    <3> QED BY <3>1, <3>2
  <2>6. h \in [Below(n + 1) -> Int]
    BY <2>5
  <2>7. n + 1 \in Nat
    OBVIOUS
  <2> HIDE DEF h
  <2> QED BY <2>5, <2>6, <2>7
<1>3. Cardinality(S) \in Good
  <2> DEFINE B == Nat \ Good
  <2> SUFFICES ASSUME Cardinality(S) \notin Good PROVE FALSE
    OBVIOUS
  <2>1. Cardinality(S) \in B /\ B \in SUBSET Nat
    BY <1>0
  <2> HIDE DEF Good
  <2>2. PICK m \in B : \A k \in B : m <= k
    <3>1. B # {} /\ B \subseteq Nat
      BY <2>1
    <3> HIDE DEF B
    <3> QED BY <3>1, LeastNatural
  <2>3. m # 0 /\ m \in Nat /\ m - 1 \in Nat /\ m - 1 \notin B
    BY <1>1, <2>2
  <2>4. (m - 1) + 1 \in Good
    BY <1>2, <2>3
  <2> QED BY <2>2, <2>3, <2>4
<1>4. Below(Cardinality(S)) = SUBSET S
  BY <1>0
<1> QED BY <1>3, <1>4 DEF IsSum

\* The community modules' sum of a function is the one these lemmas are about.
LEMMA TotalIsSum ==
  ASSUME NEW S, NEW w, Weighs(w, S), NEW g, IsSum(w, S, g)
  PROVE  Sigma(w, S) = g[S]
<1> DEFINE v == [x \in S |-> w[x]]
           Eq(h) == [s \in SUBSET S |-> IF s = {} THEN 0 ELSE v[Pick(s)] + h[s \ {Pick(s)}]]
           f == CHOOSE h : h = Eq(h)
<1>1. Sigma(w, S) = f[S]
  <2>1. DOMAIN v = S
    OBVIOUS
  <2>2. Sigma(w, S) = Total(v)
    BY DEF Sigma
  <2> HIDE DEF v
  <2> QED BY <2>1, <2>2 DEF Total, MapThenSumSet, MapThenFoldSet, Pick
<1>2. \A h : Eq(h) = [s \in SUBSET S |-> Summed(w, s, h)]
  BY DEF Summed, Pick
<1>3. PICK k \in [SUBSET S -> Int] : IsSum(w, S, k)
  BY SumExists
<1>4. k = Eq(k)
  BY <1>2, <1>3 DEF IsSum
<1>5. f = Eq(f)
  <2> HIDE DEF Eq
  <2> QED BY <1>4
<1> HIDE DEF f
<1>6. IsSum(w, S, f)
  <2> HIDE DEF Eq
  <2> QED BY <1>2, <1>5 DEF IsSum
<1> QED BY <1>1, <1>6, SumsAgree DEF Weighs

LEMMA WeighsLess ==
  ASSUME NEW S, NEW w, Weighs(w, S), NEW T \in SUBSET S
  PROVE  Weighs(w, T)
  BY FS_Subset DEF Weighs

LEMMA SigmaStep ==
  ASSUME NEW S, NEW w, Weighs(w, S)
  PROVE  /\ Sigma(w, S) \in Int
         /\ S = {} => Sigma(w, S) = 0
         /\ S # {} => Sigma(w, S) = w[Pick(S)] + Sigma(w, S \ {Pick(S)})
<1>1. PICK g \in [SUBSET S -> Int] : IsSum(w, S, g)
  BY SumExists
<1>2. ASSUME NEW T \in SUBSET S PROVE Sigma(w, T) = g[T]
  <2>1. IsSum(w, T, g) /\ Weighs(w, T)
    BY <1>1, WeighsLess DEF IsSum
  <2> QED BY <2>1, TotalIsSum
<1>3. Sigma(w, S) = Summed(w, S, g) /\ Sigma(w, S) = g[S] /\ g[S] \in Int
  BY <1>1, <1>2 DEF IsSum
<1>4. Sigma(w, S \ {Pick(S)}) = g[S \ {Pick(S)}]
  BY <1>2
<1> QED BY <1>3, <1>4 DEF Summed

LEMMA SigmaEmpty ==
  ASSUME NEW w PROVE Sigma(w, {}) = 0
  BY SigmaStep, FS_EmptySet DEF Weighs

\* Any element can be taken out first.
LEMMA SigmaTake ==
  ASSUME NEW S, NEW w, Weighs(w, S), NEW x \in S
  PROVE  Sigma(w, S) = w[x] + Sigma(w, S \ {x})
<1> DEFINE B == {T \in SUBSET S : \E y \in T : Sigma(w, T) # w[y] + Sigma(w, T \ {y})}
<1> SUFFICES ASSUME B # {} PROVE FALSE
  OBVIOUS
<1>1. PICK T \in B : \A y \in T : T \ {y} \notin B
  <2>1. B \subseteq SUBSET S
    OBVIOUS
  <2> HIDE DEF B
  <2> QED BY <2>1, MinimalSet DEF Weighs
<1>2. PICK y \in T : Sigma(w, T) # w[y] + Sigma(w, T \ {y})
  OBVIOUS
<1> DEFINE p == Pick(T)
<1>3. p \in T /\ T \in SUBSET S
  BY DEF Pick
<1>4. Weighs(w, T) /\ Weighs(w, T \ {p}) /\ Weighs(w, T \ {y})
      /\ Weighs(w, (T \ {p}) \ {y})
  BY <1>3, WeighsLess
<1>5. Sigma(w, T) = w[p] + Sigma(w, T \ {p})
  BY <1>4, SigmaStep
<1>6. p # y
  BY <1>2, <1>5
<1>7. Sigma(w, T \ {p}) = w[y] + Sigma(w, (T \ {p}) \ {y})
  BY <1>1, <1>3, <1>6
<1>8. Sigma(w, T \ {y}) = w[p] + Sigma(w, (T \ {y}) \ {p})
  BY <1>1, <1>3, <1>6
<1>9. (T \ {y}) \ {p} = (T \ {p}) \ {y}
  OBVIOUS
<1> HIDE DEF p
<1>10. w[p] \in Int /\ w[y] \in Int /\ Sigma(w, (T \ {p}) \ {y}) \in Int
  BY <1>3, <1>4, SigmaStep DEF Weighs
<1> DEFINE rest == Sigma(w, (T \ {p}) \ {y})
<1>11. Sigma(w, T) = w[p] + (w[y] + rest) /\ Sigma(w, T \ {y}) = w[p] + rest
  BY <1>5, <1>7, <1>8, <1>9
<1>12. Sigma(w, T) # w[y] + (w[p] + rest)
  BY <1>2, <1>11
<1> HIDE DEF rest
<1>13. rest \in Int
  BY <1>10 DEF rest
<1> QED BY <1>10, <1>11, <1>12, <1>13

LEMMA SigmaAdd ==
  ASSUME NEW S, NEW x, x \notin S, NEW w, Weighs(w, S), w[x] \in Int
  PROVE  Sigma(w, S \cup {x}) = Sigma(w, S) + w[x]
<1>1. Weighs(w, S \cup {x})
  BY FS_AddElement DEF Weighs
<1>2. (S \cup {x}) \ {x} = S
  OBVIOUS
<1>3. Sigma(w, S \cup {x}) = w[x] + Sigma(w, S)
  BY <1>1, <1>2, SigmaTake
<1>4. Sigma(w, S) \in Int
  BY SigmaStep
<1> QED BY <1>3, <1>4

\* The sum depends on the values over the set only.
LEMMA SigmaSame ==
  ASSUME NEW S, NEW w, NEW v, \A x \in S : w[x] = v[x]
  PROVE  Sigma(w, S) = Sigma(v, S)
<1>1. [x \in S |-> w[x]] = [x \in S |-> v[x]]
  OBVIOUS
<1> QED BY <1>1 DEF Sigma

LEMMA SigmaSplit ==
  ASSUME NEW S, NEW T, NEW w, Weighs(w, S), Weighs(w, T), S \cap T = {}
  PROVE  Sigma(w, S \cup T) = Sigma(w, S) + Sigma(w, T)
<1> DEFINE B == {U \in SUBSET T : Sigma(w, S \cup U) # Sigma(w, S) + Sigma(w, U)}
<1> SUFFICES ASSUME B # {} PROVE FALSE
  OBVIOUS
<1>1. PICK U \in B : \A y \in U : U \ {y} \notin B
  <2>1. B \subseteq SUBSET T
    OBVIOUS
  <2> HIDE DEF B
  <2> QED BY <2>1, MinimalSet DEF Weighs
<1>2. U \in SUBSET T /\ Sigma(w, S \cup U) # Sigma(w, S) + Sigma(w, U)
  OBVIOUS
<1>3. Weighs(w, U) /\ Sigma(w, S) \in Int
  BY <1>2, WeighsLess, SigmaStep
<1>4. CASE U = {}
  <2>1. S \cup U = S /\ Sigma(w, U) = 0
    BY <1>4, SigmaEmpty
  <2> QED BY <1>2, <1>3, <2>1
<1>5. CASE U # {}
  <2>1. PICK y \in U : TRUE
    BY <1>5
  <2> DEFINE V == U \ {y}
  <2>2. Sigma(w, S \cup V) = Sigma(w, S) + Sigma(w, V)
    BY <1>1, <2>1
  <2>3. /\ V \in SUBSET T /\ y \notin V /\ y \notin S \cup V
        /\ V \cup {y} = U /\ (S \cup V) \cup {y} = S \cup U
    BY <1>2, <2>1
  <2>4. w[y] \in Int /\ Weighs(w, V)
    BY <1>2, <2>1, <2>3, WeighsLess DEF Weighs
  <2>5. Weighs(w, S \cup V)
    BY <2>4, FS_Union DEF Weighs
  <2> HIDE DEF V
  <2>6. Sigma(w, U) = Sigma(w, V) + w[y]
    BY <2>3, <2>4, SigmaAdd
  <2>7. Sigma(w, S \cup U) = Sigma(w, S \cup V) + w[y]
    BY <2>3, <2>4, <2>5, SigmaAdd
  <2>8. Sigma(w, V) \in Int
    BY <2>4, SigmaStep
  <2> QED BY <1>2, <1>3, <2>2, <2>4, <2>6, <2>7, <2>8
<1> QED BY <1>4, <1>5

LEMMA SigmaZero ==
  ASSUME NEW S, IsFiniteSet(S), NEW w, \A x \in S : w[x] = 0
  PROVE  Sigma(w, S) = 0
<1> DEFINE B == {T \in SUBSET S : Sigma(w, T) # 0}
<1> SUFFICES ASSUME B # {} PROVE FALSE
  OBVIOUS
<1>1. PICK T \in B : \A y \in T : T \ {y} \notin B
  <2>1. B \subseteq SUBSET S
    OBVIOUS
  <2> HIDE DEF B
  <2> QED BY <2>1, MinimalSet
<1>2. T \in SUBSET S /\ Sigma(w, T) # 0
  OBVIOUS
<1>3. PICK y \in T : TRUE
  BY <1>2, SigmaEmpty
<1>4. Weighs(w, T)
  BY <1>2, FS_Subset DEF Weighs
<1>5. Sigma(w, T) = w[y] + Sigma(w, T \ {y})
  BY <1>3, <1>4, SigmaTake
<1>6. Sigma(w, T \ {y}) = 0
  BY <1>1, <1>2, <1>3
<1> QED BY <1>2, <1>3, <1>5, <1>6

\* One value changes.
LEMMA SigmaChange ==
  ASSUME NEW S, NEW w, NEW v, Weighs(w, S), Weighs(v, S), NEW y \in S,
         \A x \in S \ {y} : v[x] = w[x]
  PROVE  Sigma(v, S) - Sigma(w, S) = v[y] - w[y]
<1>1. Sigma(v, S) = v[y] + Sigma(v, S \ {y}) /\ Sigma(w, S) = w[y] + Sigma(w, S \ {y})
  BY SigmaTake
<1>2. Sigma(v, S \ {y}) = Sigma(w, S \ {y})
  BY SigmaSame
<1>3. Sigma(w, S \ {y}) \in Int /\ w[y] \in Int /\ v[y] \in Int
  <2>1. Weighs(w, S \ {y})
    BY WeighsLess
  <2> QED BY <2>1, SigmaStep DEF Weighs
<1> QED BY <1>1, <1>2, <1>3

-----------------------------------------------------------------------------
(***************************************************************************)
(* The books.                                                              *)
(***************************************************************************)
LogLine == [id : Nat, user : Users, at : Nat, cost : Nat]

Price == [l \in LogLine |-> l.cost]

\* Logs are written under ids of their own.
LogsOK ==
  /\ IsFiniteSet(logs) /\ logs \subseteq LogLine /\ \A l \in logs : l.id <= written
  /\ daily \in [Users -> [Days -> Int]] /\ lost \in [Users -> [Days -> Int]]
  /\ now \in 0..MaxNow /\ written \in Nat

Consumed(u) == Total([d \in Days |-> Used(u, d)])

LInv == LogsOK /\ TodayIsUnpurged

\* The inductive invariant of the books.
BInv == LInv /\ BooksAccount

LEMMA CostOf ==
  ASSUME NEW S, S \subseteq LogLine, IsFiniteSet(S)
  PROVE  Cost(S) = Sigma(Price, S) /\ Weighs(Price, S) /\ Cost(S) \in Int
<1>1. [l \in S |-> l.cost] = [l \in S |-> Price[l]]
  BY DEF Price
<1>2. Weighs(Price, S)
  BY DEF Weighs, Price, LogLine
<1> QED BY <1>1, <1>2, SigmaStep DEF Cost, Sigma

LEMMA LogsOfOK ==
  ASSUME NEW S, S \subseteq LogLine, IsFiniteSet(S), NEW u, NEW d
  PROVE  LogsOf(S, u, d) \subseteq LogLine /\ IsFiniteSet(LogsOf(S, u, d))
<1>1. LogsOf(S, u, d) \in SUBSET S
  BY DEF LogsOf
<1> QED BY <1>1, FS_Subset

LEMMA UsedTyped ==
  ASSUME LogsOK, NEW u \in Users, NEW d \in Days
  PROVE  Used(u, d) \in Int
<1>1. Cost(LogsOf(logs, u, d)) \in Int /\ daily[u][d] \in Int /\ lost[u][d] \in Int
  BY LogsOfOK, CostOf DEF LogsOK
<1> QED BY <1>1 DEF Usage, Used

\* Days of the clock.
LEMMA Division ==
  ASSUME NEW k \in Nat \ {0}, NEW a \in Nat
  PROVE  a \div k \in Nat /\ (a \div k) * k <= a /\ a < (a \div k) * k + k
  BY Z3

LEMMA Multiples ==
  ASSUME NEW k \in Nat \ {0}, NEW x \in Nat, NEW y \in Nat, x > y
  PROVE  x * k \in Nat /\ y * k \in Nat /\ x * k >= y * k + k
  BY Z3

LEMMA DaysInOrder ==
  ASSUME NEW a \in Nat, NEW b \in Nat
  PROVE  /\ Day(a) \in Nat /\ Day(b) \in Nat
         /\ a <= b => Day(a) <= Day(b)
         /\ a + DayLen <= b => Day(a) < Day(b)
<1>1. DayLen \in Nat \ {0}
  BY LedgerAssumption
<1> DEFINE x == a \div DayLen  y == b \div DayLen
<1>2. x \in Nat /\ x * DayLen <= a /\ a < x * DayLen + DayLen
  BY <1>1, Division
<1>3. y \in Nat /\ y * DayLen <= b /\ b < y * DayLen + DayLen
  BY <1>1, Division
<1> HIDE DEF x, y
<1>4. x > y => x * DayLen >= y * DayLen + DayLen
  BY <1>1, <1>2, <1>3, Multiples
<1>5. x * DayLen \in Nat /\ y * DayLen \in Nat
  BY <1>1, <1>2, <1>3
<1>6. a <= b => x <= y
  BY <1>1, <1>2, <1>3, <1>4, <1>5
<1>7. a + DayLen <= b => x < y
  <2> SUFFICES ASSUME a + DayLen <= b, x = y PROVE FALSE
    BY <1>1, <1>2, <1>3, <1>6
  <2> QED BY <1>1, <1>2, <1>3, <1>5
<1> QED BY <1>2, <1>3, <1>6, <1>7 DEF Day, x, y

LEMMA Today == LogsOK => Day(now) \in Days /\ now \in Nat
<1> SUFFICES ASSUME LogsOK PROVE Day(now) \in Days /\ now \in Nat
  OBVIOUS
<1>1. now \in Nat /\ MaxNow \in Nat /\ now <= MaxNow
  BY LedgerAssumption DEF LogsOK
<1>2. Day(now) \in Nat /\ Day(MaxNow) \in Nat /\ Day(now) <= Day(MaxNow)
  BY <1>1, DaysInOrder
<1> QED BY <1>1, <1>2 DEF Days

\* Consumption follows the usage of its days.
LEMMA ConsumedSame ==
  ASSUME NEW u \in Users, \A d \in Days : Used(u, d)' = Used(u, d)
  PROVE  Consumed(u)' = Consumed(u)
<1>1. [d \in Days |-> Used(u, d)'] = [d \in Days |-> Used(u, d)]
  OBVIOUS
<1>2. Days' = Days
  BY DEF Days, Day
<1> QED BY <1>1, <1>2 DEF Consumed

LEMMA DaysFinite == IsFiniteSet(Days)
<1>1. Day(MaxNow) \in Nat
  BY LedgerAssumption, DaysInOrder
<1> QED BY <1>1, FS_Interval DEF Days

LEMMA ConsumedMore ==
  ASSUME LogsOK, LogsOK', NEW u \in Users, NEW e \in Days, NEW c \in Int,
         Used(u, e)' = Used(u, e) + c,
         \A d \in Days \ {e} : Used(u, d)' = Used(u, d)
  PROVE  Consumed(u)' = Consumed(u) + c /\ Consumed(u) \in Int
<1> DEFINE w == [d \in Days |-> Used(u, d)]
           v == [d \in Days |-> Used(u, d)']
<1>1. Days' = Days
  BY DEF Days, Day
<1>2. \A d \in Days : Used(u, d) \in Int
  BY UsedTyped
<1>3. \A d \in Days : Used(u, d)' \in Int
  BY <1>2
<1>4. Weighs(w, Days) /\ Weighs(v, Days)
  BY <1>2, <1>3, DaysFinite DEF Weighs
<1>5. \A d \in Days \ {e} : v[d] = w[d]
  OBVIOUS
<1>6. v[e] - w[e] = c
  BY <1>2
<1>7. Consumed(u) = Sigma(w, Days) /\ Consumed(u)' = Sigma(v, Days)
  <2>1. w = [d \in Days |-> w[d]] /\ v = [d \in Days |-> v[d]]
    OBVIOUS
  <2>2. Consumed(u) = Total(w) /\ Consumed(u)' = Total(v)
    BY <1>1 DEF Consumed
  <2> HIDE DEF w, v
  <2> QED BY <2>1, <2>2 DEF Sigma
<1> HIDE DEF w, v
<1>8. Sigma(w, Days) \in Int /\ Sigma(v, Days) \in Int
  BY <1>4, SigmaStep
<1>9. Sigma(v, Days) - Sigma(w, Days) = c
  BY <1>4, <1>5, <1>6, SigmaChange
<1> QED BY <1>7, <1>8, <1>9

LEMMA ConsumedTyped ==
  ASSUME LogsOK, NEW u \in Users
  PROVE  Consumed(u) \in Int
<1> DEFINE w == [d \in Days |-> Used(u, d)]
<1>1. Weighs(w, Days)
  BY UsedTyped, DaysFinite DEF Weighs
<1>2. w = [d \in Days |-> w[d]] /\ Consumed(u) = Total(w)
  BY DEF Consumed
<1> HIDE DEF w
<1>3. Consumed(u) = Sigma(w, Days)
  BY <1>2 DEF Sigma
<1> QED BY <1>1, <1>3, SigmaStep

LEMMA RechargedTyped ==
  ASSUME Types, NEW u \in Users
  PROVE  Recharged(u) \in Int
<1> DEFINE w == [i \in DOMAIN entries[u] |-> entries[u][i].amount]
<1>1. entries[u] \in Seq(Entry)
  BY DEF Types
<1>2. DOMAIN entries[u] = 1..Len(entries[u]) /\ Len(entries[u]) \in Nat
  BY <1>1, LenProperties
<1>3. \A i \in DOMAIN entries[u] : entries[u][i] \in Entry
  BY <1>1, <1>2, ElementOfSeq
<1>4. Weighs(w, DOMAIN entries[u])
  <2>1. IsFiniteSet(DOMAIN entries[u])
    BY <1>2, FS_Interval
  <2>2. \A i \in DOMAIN entries[u] : w[i] \in Int
    BY <1>3 DEF Entry
  <2> HIDE DEF w
  <2> QED BY <2>1, <2>2 DEF Weighs
<1>5. Recharged(u) = Sigma(w, DOMAIN entries[u])
  <2>1. [i \in DOMAIN entries[u] |-> w[i]] = w
    OBVIOUS
  <2>2. Recharged(u) = Total(w)
    BY DEF Recharged
  <2> HIDE DEF w
  <2> QED BY <2>1, <2>2 DEF Sigma
<1> HIDE DEF w
<1> QED BY <1>4, <1>5, SigmaStep

\* A line more on the statement.
LEMMA RechargedMore ==
  ASSUME Types, NEW u \in Users, NEW a \in Int, NEW k \in Codes \cup {NULL}, Credit(u, a, k)
  PROVE  /\ Recharged(u)' = Recharged(u) + a /\ Recharged(u) \in Int
         /\ \A q \in Users \ {u} : Recharged(q)' = Recharged(q)
<1> DEFINE m == Len(entries[u])
           w == [i \in 1..(m + 1) |-> entries'[u][i].amount]
<1>1. /\ m \in Nat /\ Len(entries'[u]) = m + 1
      /\ \A i \in 1..m : entries'[u][i] = entries[u][i] /\ entries[u][i] \in Entry
      /\ entries'[u][m + 1] = [amount |-> a, after |-> balance[u] + a, code |-> k]
      /\ \A v \in Users \ {u} : entries'[v] = entries[v]
      /\ entries' \in [Users -> Seq(Entry)]
  BY Appended
<1>2. DOMAIN entries[u] = 1..m /\ DOMAIN entries'[u] = 1..(m + 1)
  <2>1. entries[u] \in Seq(Entry) /\ entries'[u] \in Seq(Entry)
    BY <1>1 DEF Types
  <2> QED BY <1>1, <2>1, LenProperties
<1> HIDE DEF m
<1>3. w[m + 1] = a /\ \A i \in 1..m : w[i] = entries[u][i].amount /\ w[i] \in Int
  BY <1>1 DEF Entry
<1>4. IsFiniteSet(1..m) /\ m + 1 \notin 1..m /\ 1..(m + 1) = (1..m) \cup {m + 1}
  <2>1. m \in Nat
    BY <1>1
  <2>2. IsFiniteSet(1..m)
    <3>1. 1 \in Int /\ m \in Int
      BY <2>1
    <3> QED BY <3>1, FS_Interval
  <2>3. m + 1 \notin 1..m
    BY <2>1
  <2>4. 1..(m + 1) = (1..m) \cup {m + 1}
    BY <2>1
  <2> QED BY <2>2, <2>3, <2>4
<1>5. Recharged(u)' = Sigma(w, 1..(m + 1))
  <2>1. w = [i \in 1..(m + 1) |-> w[i]]
    OBVIOUS
  <2>2. Recharged(u)' = Total(w)
    BY <1>2 DEF Recharged
  <2> HIDE DEF w
  <2> QED BY <2>1, <2>2 DEF Sigma
<1>6. Recharged(u) = Sigma(w, 1..m)
  <2>1. [i \in 1..m |-> w[i]] = [i \in 1..m |-> entries[u][i].amount]
    BY <1>3
  <2> HIDE DEF w
  <2> QED BY <1>2, <2>1 DEF Recharged, Sigma
<1> HIDE DEF w
<1>7. Weighs(w, 1..m)
  BY <1>3, <1>4 DEF Weighs
<1>8. Sigma(w, 1..(m + 1)) = Sigma(w, 1..m) + a /\ Sigma(w, 1..m) \in Int
  <2> DEFINE S == 1..m
             n == m + 1
  <2>1. n \notin S /\ 1..(m + 1) = S \cup {n} /\ Weighs(w, S) /\ w[n] = a
    BY <1>3, <1>4, <1>7
  <2> HIDE DEF S, n
  <2>2. Sigma(w, S \cup {n}) = Sigma(w, S) + w[n]
    BY <2>1, SigmaAdd
  <2>3. Sigma(w, S) \in Int
    BY <2>1, SigmaStep
  <2> QED BY <2>1, <2>2, <2>3 DEF S
<1>9. \A q \in Users \ {u} : Recharged(q)' = Recharged(q)
  BY <1>1 DEF Recharged
<1> QED BY <1>5, <1>6, <1>8, <1>9

-----------------------------------------------------------------------------
\* A log more for today.
LEMMA SettleTyped ==
  ASSUME LInv, NEW b \in Bills, NEW cost \in 0..MaxCost, Settle(b, cost), owed[b] \in Users
  PROVE  LInv'
<1> DEFINE l == [id |-> written + 1, user |-> owed[b], at |-> now, cost |-> cost]
<1>1. logs' = logs \cup {l} /\ UNCHANGED <<daily, lost, now>> /\ written' = written + 1
  BY DEF Settle, Served
<1>2. l \in LogLine /\ l.id = written + 1
  BY LedgerAssumption, Today DEF LInv, LogsOK, LogLine
<1> HIDE DEF l
<1>3. LogsOK'
  <2>1. IsFiniteSet(logs')
    BY <1>1, FS_AddElement DEF LInv, LogsOK
  <2>2. \A x \in logs' : x.id <= written'
    BY <1>1, <1>2 DEF LInv, LogsOK, LogLine
  <2> QED BY <1>1, <1>2, <2>1, <2>2 DEF LInv, LogsOK
<1>4. TodayIsUnpurged'
  BY <1>1 DEF LInv, TodayIsUnpurged, Days, Day
<1> QED BY <1>3, <1>4 DEF LInv

LEMMA SettleBooked ==
  ASSUME IInv, BInv, NEW b \in Bills, NEW cost \in 0..MaxCost, Settle(b, cost)
  PROVE  BInv'
<1>a. PICK u \in Users : u = owed[b]
  BY DEF Settle, IInv, Types
<1>b. PICK t \in Days : t = Day(now)
  BY Today DEF BInv, LInv
<1>c. PICK l : l = [id |-> written + 1, user |-> u, at |-> now, cost |-> cost]
  OBVIOUS
<1>1. cost \in Nat /\ now \in Nat
  BY LedgerAssumption, Today DEF BInv, LInv
<1>2. /\ logs' = logs \cup {l} /\ UNCHANGED <<daily, lost, now, entries>> /\ written' = written + 1
      /\ balance' = [balance EXCEPT ![u] = @ - cost]
  BY <1>a, <1>c DEF Settle, Served
<1>3. l \in LogLine /\ l \notin logs /\ l.id = written + 1 /\ l.user = u /\ Day(l.at) = t /\ l.cost = cost
  BY <1>1, <1>b, <1>c DEF LogLine, BInv, LInv, LogsOK
<1>4. LInv'
  BY <1>a, SettleTyped DEF BInv
<1>5. LogsOK'
  BY <1>4 DEF LInv
<1>6. \A v \in Users : \A d \in Days : (v # u \/ d # t) => Used(v, d)' = Used(v, d)
  <2> SUFFICES ASSUME NEW v \in Users, NEW d \in Days, v # u \/ d # t
               PROVE  Used(v, d)' = Used(v, d)
    OBVIOUS
  <2>1. LogsOf(logs', v, d) = LogsOf(logs, v, d)
    BY <1>2, <1>3 DEF LogsOf, Day
  <2> QED BY <1>2, <2>1 DEF Usage, Used
<1>7. Used(u, t)' = Used(u, t) + cost
  <2> DEFINE S == LogsOf(logs, u, t)
  <2>1. LogsOf(logs', u, t) = S \cup {l} /\ l \notin S
    BY <1>2, <1>3 DEF LogsOf, Day
  <2>2. S \subseteq LogLine /\ IsFiniteSet(S)
    BY LogsOfOK DEF BInv, LInv, LogsOK
  <2>3. S \cup {l} \subseteq LogLine /\ IsFiniteSet(S \cup {l})
    BY <1>3, <2>2, FS_AddElement
  <2> HIDE DEF S
  <2>4. Price[l] = cost
    BY <1>3 DEF Price
  <2>5. Cost(S \cup {l}) = Cost(S) + cost /\ Cost(S) \in Int
    <3>1. Cost(S) = Sigma(Price, S) /\ Weighs(Price, S) /\ Cost(S) \in Int
      BY <2>2, CostOf
    <3>2. Cost(S \cup {l}) = Sigma(Price, S \cup {l})
      BY <2>3, CostOf
    <3>3. Sigma(Price, S \cup {l}) = Sigma(Price, S) + Price[l]
      <4>1. l \notin S /\ Weighs(Price, S) /\ Price[l] \in Int
        BY <1>1, <2>1, <2>4, <3>1
      <4> HIDE DEF Price
      <4> QED BY <4>1, SigmaAdd
    <3> QED BY <2>4, <3>1, <3>2, <3>3
  <2>6. daily[u][t] \in Int /\ lost[u][t] \in Int
    BY <1>1 DEF BInv, LInv, LogsOK
  <2>7. Used(u, t)' = (Cost(S \cup {l}) + daily[u][t]) + lost[u][t]
    <3>1. Used(u, t)' = (Cost(LogsOf(logs', u, t)) + daily'[u][t]) + lost'[u][t]
      BY <1>2 DEF Usage, Used, LogsOf, Day
    <3> QED BY <1>2, <2>1, <3>1
  <2> QED BY <1>1, <2>5, <2>6, <2>7 DEF Usage, Used, S
<1>8. BooksAccount'
  <2> SUFFICES ASSUME NEW v \in Users
               PROVE  balance'[v] = Recharged(v)' - Consumed(v)'
    BY DEF BooksAccount, Consumed
  <2>1. Recharged(v)' = Recharged(v)
    BY <1>2 DEF Recharged
  <2>2. balance[v] = Recharged(v) - Consumed(v)
    BY DEF BInv, BooksAccount, Consumed
  <2>3. CASE v # u
    <3>1. Consumed(v)' = Consumed(v)
      BY <1>6, <2>3, ConsumedSame
    <3> QED BY <1>2, <2>1, <2>2, <2>3, <3>1 DEF IInv, Types
  <2>4. CASE v = u
    <3>1. Consumed(v)' = Consumed(v) + cost /\ Consumed(v) \in Int
      BY <1>1, <1>5, <1>6, <1>7, <2>4, ConsumedMore DEF BInv, LInv
    <3>2. balance'[v] = balance[v] - cost
      BY <1>2, <2>4 DEF IInv, Types
    <3>3. Recharged(v) \in Int
      BY RechargedTyped DEF IInv
    <3> QED BY <1>1, <2>1, <2>2, <3>1, <3>2, <3>3
  <2> QED BY <2>3, <2>4
<1> QED BY <1>4, <1>8 DEF BInv

\* A line more on a statement.
LEMMA CreditBooked ==
  ASSUME IInv, BInv, NEW u \in Users, NEW a \in Int, NEW k \in Codes \cup {NULL}, Credit(u, a, k)
  PROVE  BInv'
<1>1. /\ UNCHANGED <<logs, daily, lost, now, written>>
      /\ balance' = [balance EXCEPT ![u] = @ + a]
  BY DEF Credit
<1>2. LogsOK' /\ TodayIsUnpurged'
  BY <1>1 DEF BInv, LInv, LogsOK, TodayIsUnpurged, Days, Day
<1>3. \A v \in Users : Consumed(v)' = Consumed(v)
  BY <1>1 DEF Consumed, Usage, Used, Days, Day, LogsOf
<1>4. ASSUME NEW v \in Users PROVE balance'[v] = Recharged(v)' - Consumed(v)'
  <2>1. balance[v] = Recharged(v) - Consumed(v) /\ Recharged(v) \in Int /\ balance \in [Users -> Int]
    BY RechargedTyped DEF BInv, BooksAccount, Consumed, IInv, Types
  <2>2. Consumed(v) \in Int
    BY ConsumedTyped DEF BInv, LInv
  <2>3. CASE v # u
    <3>1. Recharged(v)' = Recharged(v)
      BY <2>3, RechargedMore DEF IInv
    <3> QED BY <1>1, <1>3, <2>1, <2>3, <3>1
  <2>4. CASE v = u
    <3>1. Recharged(v)' = Recharged(v) + a
      BY <2>4, RechargedMore DEF IInv
    <3>2. balance'[v] = balance[v] + a
      BY <1>1, <2>1, <2>4
    <3> QED BY <1>3, <2>1, <2>2, <3>1, <3>2
  <2> QED BY <2>3, <2>4
<1> QED BY <1>2, <1>4 DEF BInv, LInv, BooksAccount, Consumed

\* What a purge moves to usage_daily is of days that are over.
LEMMA OverdueIsPast ==
  ASSUME LogsOK, NEW u \in Users, NEW d \in Days, d >= Day(now)
  PROVE  LogsOf(Overdue(now), u, d) = {}
<1> SUFFICES ASSUME NEW l \in logs, l.at < now - Retention * DayLen, Day(l.at) = d
             PROVE  FALSE
  BY DEF LogsOf, Overdue
<1>1. l.at \in Nat /\ now \in Nat
  BY Today DEF LogsOK, LogLine
<1>2. Retention * DayLen \in Nat /\ Retention * DayLen >= DayLen /\ DayLen \in Nat
  BY LedgerAssumption, Z3
<1>3. l.at + DayLen <= now
  BY <1>1, <1>2
<1>4. Day(l.at) < Day(now) /\ Day(l.at) \in Nat /\ Day(now) \in Nat
  BY <1>1, <1>3, DaysInOrder
<1> QED BY <1>4

\* A purge, whatever passes between its two statements.
LEMMA PurgeTyped ==
  ASSUME LogsOK, TodayIsUnpurged, NEW lag \in 0..MaxLag, Purge(lag)
  PROVE  LogsOK' /\ TodayIsUnpurged'
<1>1. /\ logs' \in SUBSET logs /\ written' = written
      /\ daily' = [u \in Users |-> [d \in Days |-> Upsert(u, d)]]
      /\ lost' = [u \in Users |-> [d \in Days |->
                    lost[u][d] + Cost(LogsOf(Overdue(now') \ Overdue(now), u, d))]]
  BY DEF Purge
<1>2. now \in Nat /\ now' \in 0..MaxNow /\ now <= now' /\ now' \in Nat
  BY LedgerAssumption, Today DEF Purge
<1>3. ASSUME NEW u \in Users, NEW d \in Days
      PROVE  Upsert(u, d) \in Int /\ (d >= Day(now) => Upsert(u, d) = daily[u][d])
  <2> DEFINE S == Overdue(now)
  <2>1. S \subseteq LogLine /\ IsFiniteSet(S)
    <3>1. S \in SUBSET logs
      BY DEF Overdue
    <3> QED BY <3>1, FS_Subset DEF LogsOK
  <2> DEFINE L == LogsOf(S, u, d)
  <2>2. L \subseteq LogLine /\ IsFiniteSet(L)
    BY <2>1, LogsOfOK
  <2>3. d >= Day(now) => L = {}
    BY OverdueIsPast
  <2> HIDE DEF L
  <2>4. Cost(L) = Sigma(Price, L) /\ Cost(L) \in Int
    BY <2>2, CostOf
  <2>5. L = {} => Cost(L) = 0
    BY <2>4, SigmaEmpty
  <2>6. daily[u][d] \in Int
    BY DEF LogsOK
  <2>7. Upsert(u, d) = daily[u][d] + Cost(L)
    BY DEF Upsert, L
  <2> QED BY <2>3, <2>4, <2>5, <2>6, <2>7
<1>4. LogsOK'
  <2>1. IsFiniteSet(logs')
    BY <1>1, FS_Subset DEF LogsOK
  <2>2. daily' \in [Users -> [Days -> Int]]
    BY <1>1, <1>3
  <2>3. ASSUME NEW u \in Users, NEW d \in Days
        PROVE  lost[u][d] + Cost(LogsOf(Overdue(now') \ Overdue(now), u, d)) \in Int
    <3> DEFINE S == Overdue(now') \ Overdue(now)
    <3>1. S \in SUBSET logs
      BY DEF Overdue
    <3>2. S \subseteq LogLine /\ IsFiniteSet(S)
      BY <3>1, FS_Subset DEF LogsOK
    <3> HIDE DEF S
    <3>3. Cost(LogsOf(S, u, d)) \in Int
      BY <3>2, LogsOfOK, CostOf
    <3>4. lost[u][d] \in Int
      BY DEF LogsOK
    <3> QED BY <3>3, <3>4 DEF S
  <2>4. lost' \in [Users -> [Days -> Int]]
    BY <1>1, <2>3
  <2> QED BY <1>1, <1>2, <2>1, <2>2, <2>4 DEF LogsOK
<1>5. TodayIsUnpurged'
  <2> SUFFICES ASSUME NEW u \in Users, NEW d \in Days, d >= Day(now')
               PROVE  daily'[u][d] = 0
    BY DEF TodayIsUnpurged, Days, Day
  <2>1. Day(now) \in Nat /\ Day(now') \in Nat /\ Day(now) <= Day(now') /\ d \in Nat
    BY <1>2, DaysInOrder, LedgerAssumption DEF Days
  <2>2. d >= Day(now)
    BY <2>1
  <2> QED BY <1>1, <1>3, <2>2 DEF TodayIsUnpurged
<1> QED BY <1>4, <1>5

\* A purge moves usage to where it is added up or lost.
LEMMA PurgeBooked ==
  ASSUME IInv, BInv, NEW lag \in 0..MaxLag, Purge(lag)
  PROVE  BInv'
<1>1. LogsOK' /\ TodayIsUnpurged'
  BY PurgeTyped DEF BInv, LInv
<1>2. now \in Nat /\ now' \in Nat /\ now <= now'
  BY LedgerAssumption, Today DEF Purge, BInv, LInv
<1>3. /\ UNCHANGED <<balance, entries>> /\ logs' = logs \ Overdue(now')
      /\ daily' = [u \in Users |-> [d \in Days |-> Upsert(u, d)]]
      /\ lost' = [u \in Users |-> [d \in Days |->
                    lost[u][d] + Cost(LogsOf(Overdue(now') \ Overdue(now), u, d))]]
  BY DEF Purge
<1>4. Overdue(now) \subseteq Overdue(now')
  <2> SUFFICES ASSUME NEW l \in logs, l.at < now - Retention * DayLen
               PROVE  l.at < now' - Retention * DayLen
    BY DEF Overdue
  <2>1. l.at \in Nat /\ Retention * DayLen \in Nat
    BY LedgerAssumption, Z3 DEF BInv, LInv, LogsOK, LogLine
  <2> QED BY <1>2, <2>1
<1>5. ASSUME NEW u \in Users, NEW d \in Days PROVE Used(u, d)' = Used(u, d)
  <2> DEFINE K == LogsOf(logs', u, d)
             L == LogsOf(Overdue(now), u, d)
             M == LogsOf(Overdue(now') \ Overdue(now), u, d)
             A == LogsOf(logs, u, d)
  <2>1. /\ A = K \cup (L \cup M) /\ K \cap (L \cup M) = {} /\ L \cap M = {}
    BY <1>3, <1>4 DEF LogsOf, Overdue
  <2>2. A \subseteq LogLine /\ IsFiniteSet(A)
    BY LogsOfOK DEF BInv, LInv, LogsOK
  <2>3. /\ Used(u, d)' = (Cost(K) + Upsert(u, d)) + (lost[u][d] + Cost(M))
        /\ Used(u, d) = (Cost(A) + daily[u][d]) + lost[u][d]
    BY <1>3 DEF Usage, Used, LogsOf, Day
  <2>4. Upsert(u, d) = daily[u][d] + Cost(L) /\ daily[u][d] \in Int /\ lost[u][d] \in Int
    BY DEF Upsert, BInv, LInv, LogsOK
  <2> HIDE DEF K, L, M, A
  <2>5. /\ K \subseteq LogLine /\ IsFiniteSet(K) /\ L \subseteq LogLine /\ IsFiniteSet(L)
        /\ M \subseteq LogLine /\ IsFiniteSet(M)
    <3>1. K \in SUBSET A /\ L \in SUBSET A /\ M \in SUBSET A
      BY <2>1
    <3> QED BY <2>2, <3>1, FS_Subset
  <2>6. Cost(A) = Sigma(Price, A)
    BY <2>2, CostOf
  <2>7. Cost(K) = Sigma(Price, K) /\ Weighs(Price, K) /\ Cost(K) \in Int
    BY <2>5, CostOf
  <2>8. Cost(L) = Sigma(Price, L) /\ Weighs(Price, L) /\ Cost(L) \in Int
    BY <2>5, CostOf
  <2>9. Cost(M) = Sigma(Price, M) /\ Weighs(Price, M) /\ Cost(M) \in Int
    BY <2>5, CostOf
  <2>10. Weighs(Price, L \cup M)
    <3>1. L \cup M \subseteq LogLine /\ IsFiniteSet(L \cup M)
      BY <2>5, FS_Union
    <3> QED BY <3>1, CostOf
  <2>11. Cost(A) = Cost(K) + (Cost(L) + Cost(M))
    <3> HIDE DEF Price
    <3>1. Sigma(Price, L \cup M) = Sigma(Price, L) + Sigma(Price, M)
      BY <2>1, <2>8, <2>9, SigmaSplit
    <3>2. Sigma(Price, K \cup (L \cup M)) = Sigma(Price, K) + Sigma(Price, L \cup M)
      BY <2>1, <2>7, <2>10, SigmaSplit
    <3> QED BY <2>1, <2>6, <2>7, <2>8, <2>9, <3>1, <3>2
  <2> QED BY <2>3, <2>4, <2>7, <2>8, <2>9, <2>11
<1>6. BooksAccount'
  <2>1. \A u \in Users : Consumed(u)' = Consumed(u) /\ Recharged(u)' = Recharged(u)
    BY <1>3, <1>5, ConsumedSame DEF Recharged
  <2> QED BY <1>3, <2>1 DEF BInv, BooksAccount, Consumed
<1> QED BY <1>1, <1>6 DEF BInv, LInv

-----------------------------------------------------------------------------
LEMMA InitBooked == Init => BInv
<1> SUFFICES ASSUME Init PROVE BInv
  OBVIOUS
<1>1. logs = {} /\ now = 0 /\ written = 0 /\ daily = [u \in Users |-> [d \in Days |-> 0]]
      /\ lost = [u \in Users |-> [d \in Days |-> 0]]
      /\ balance = [u \in Users |-> 0] /\ entries = [u \in Users |-> <<>>]
  BY DEF Init
<1>2. LInv
  BY <1>1, LedgerAssumption, FS_EmptySet DEF LInv, LogsOK, TodayIsUnpurged
<1>3. ASSUME NEW u \in Users PROVE Consumed(u) = 0
  <2> DEFINE w == [d \in Days |-> Used(u, d)]
  <2>1. ASSUME NEW d \in Days PROVE Used(u, d) = 0
    <3>1. LogsOf(logs, u, d) = {}
      BY <1>1 DEF LogsOf
    <3>2. Cost({}) = 0
      BY CostOf, SigmaEmpty, FS_EmptySet
    <3>3. daily[u][d] = 0 /\ lost[u][d] = 0 /\ (0 + 0) + 0 = 0
      BY <1>1
    <3>4. Used(u, d) = (Cost(LogsOf(logs, u, d)) + daily[u][d]) + lost[u][d]
      BY DEF Usage, Used
    <3> QED BY <3>1, <3>2, <3>3, <3>4
  <2>2. \A d \in Days : w[d] = 0
    BY <2>1
  <2>3. w = [d \in Days |-> w[d]] /\ Consumed(u) = Total(w)
    BY DEF Consumed
  <2> HIDE DEF w
  <2>4. Sigma(w, Days) = 0
    BY <2>2, DaysFinite, SigmaZero
  <2> QED BY <2>3, <2>4 DEF Sigma
<1>4. ASSUME NEW u \in Users PROVE Recharged(u) = 0
  <2>1. DOMAIN entries[u] = {}
    BY <1>1
  <2> DEFINE w == [i \in {} |-> entries[u][i].amount]
  <2>2. Recharged(u) = Total(w) /\ w = [i \in {} |-> w[i]]
    BY <2>1 DEF Recharged
  <2> HIDE DEF w
  <2>3. Sigma(w, {}) = 0
    BY SigmaEmpty
  <2> QED BY <2>2, <2>3 DEF Sigma
<1>5. BooksAccount
  BY <1>1, <1>3, <1>4 DEF BooksAccount, Consumed
<1> QED BY <1>2, <1>5 DEF BInv

\* The steps that touch no money.
LEMMA TickTyped ==
  ASSUME LInv, Tick
  PROVE  LInv'
<1>1. UNCHANGED <<logs, daily, lost, written>> /\ now' = now + 1 /\ now' \in 0..MaxNow /\ now \in Nat
  BY Today, LedgerAssumption DEF Tick, LInv, LogsOK
<1>2. Day(now) \in Nat /\ Day(now') \in Nat /\ Day(now) <= Day(now')
  BY <1>1, DaysInOrder
<1>3. TodayIsUnpurged'
  <2> SUFFICES ASSUME NEW u \in Users, NEW d \in Days, d >= Day(now')
               PROVE  daily[u][d] = 0
    BY <1>1 DEF TodayIsUnpurged, Days, Day
  <2>1. d \in Nat
    BY LedgerAssumption, DaysInOrder DEF Days
  <2>2. d >= Day(now)
    BY <1>2, <2>1
  <2> QED BY <2>2 DEF LInv, TodayIsUnpurged
<1> QED BY <1>1, <1>3 DEF LInv, LogsOK

Untouched == UNCHANGED <<balance, entries, logs, daily, lost, now, written>>

LEMMA StillTyped ==
  ASSUME LInv, UNCHANGED <<logs, daily, lost, now, written>>
  PROVE  LInv'
  BY DEF LInv, LogsOK, TodayIsUnpurged, Days, Day

LEMMA StillBooked ==
  ASSUME BooksAccount, UNCHANGED <<balance, entries, logs, daily, lost>>
  PROVE  BooksAccount'
<1>1. \A u \in Users : Consumed(u)' = Consumed(u) /\ Recharged(u)' = Recharged(u)
  BY DEF Consumed, Usage, Used, Days, Day, LogsOf, Recharged
<1> QED BY <1>1 DEF BooksAccount, Consumed

\* Which steps there are, for the books.
LEMMA Steps ==
  ASSUME IInv, [Next]_vars
  PROVE  \/ \E b \in Bills, cost \in 0..MaxCost : Settle(b, cost) /\ owed[b] \in Users
         \/ \E u \in Users, a \in Int, k \in Codes \cup {NULL} : Credit(u, a, k)
         \/ \E lag \in 0..MaxLag : Purge(lag)
         \/ Tick
         \/ Untouched
<1>1. ASSUME NEW c \in Calls, NEW u \in Users, Admit(c, u) \/ AdmitBlind(c, u) PROVE Untouched
  BY <1>1 DEF Admit, AdmitBlind, Started, Untouched
<1>2. ASSUME NEW b \in Bills, Forgo(b) PROVE Untouched
  BY <1>2 DEF Forgo, Served, Untouched
<1>3. ASSUME NEW b \in Bills, NEW cost \in 0..MaxCost, Settle(b, cost) PROVE owed[b] \in Users
  BY <1>3 DEF Settle, IInv, Types
<1>4. ASSUME NEW u \in Users, NEW a \in Amounts, Adjust(u, a)
      PROVE  a \in Int /\ Credit(u, a, NULL)
  BY <1>4, LedgerAssumption DEF Adjust
<1>5. ASSUME NEW K \in SUBSET Codes, NEW f \in Faces, NEW e \in Expiries, CreateCodes(K, f, e)
      PROVE  Untouched
  BY <1>5 DEF CreateCodes, Untouched
<1>6. ASSUME NEW k \in Codes, DisableCode(k) PROVE Untouched
  BY <1>6 DEF DisableCode, Untouched
<1>7. ASSUME NEW k \in Codes, NEW u \in Users, Redeem(u, k)
      PROVE  code[k].face \in Int /\ Credit(u, code[k].face, k)
  <2>1. code[k].face \in Faces
    BY <1>7 DEF Redeem, Redeemable, IInv, Faced
  <2> QED BY <1>7, <2>1, LedgerAssumption DEF Redeem
<1>8. UNCHANGED vars => Untouched
  BY DEF vars, Untouched
<1> QED BY <1>1, <1>2, <1>3, <1>4, <1>5, <1>6, <1>7, <1>8 DEF Next

LEMMA NextTyped == IInv /\ LInv /\ [Next]_vars => LInv'
<1> SUFFICES ASSUME IInv, LInv, [Next]_vars PROVE LInv'
  OBVIOUS
<1>1. ASSUME NEW b \in Bills, NEW cost \in 0..MaxCost, Settle(b, cost), owed[b] \in Users
      PROVE  LInv'
  BY <1>1, SettleTyped
<1>2. ASSUME NEW u \in Users, NEW a \in Int, NEW k \in Codes \cup {NULL}, Credit(u, a, k)
      PROVE  LInv'
  BY <1>2, StillTyped DEF Credit
<1>3. ASSUME NEW lag \in 0..MaxLag, Purge(lag) PROVE LInv'
  BY <1>3, PurgeTyped DEF LInv
<1>4. Untouched => LInv'
  BY StillTyped DEF Untouched
<1> QED BY <1>1, <1>2, <1>3, <1>4, TickTyped, Steps

LEMMA NextBooked ==
  ASSUME IInv, BInv, [Next]_vars
  PROVE  BInv'
<1>1. ASSUME NEW b \in Bills, NEW cost \in 0..MaxCost, Settle(b, cost) PROVE BInv'
  BY <1>1, SettleBooked
<1>2. ASSUME NEW u \in Users, NEW a \in Int, NEW k \in Codes \cup {NULL}, Credit(u, a, k)
      PROVE  BInv'
  BY <1>2, CreditBooked
<1>3. ASSUME NEW lag \in 0..MaxLag, Purge(lag) PROVE BInv'
  BY <1>3, PurgeBooked
<1>4. ASSUME Tick PROVE BInv'
  BY <1>4, TickTyped, StillBooked DEF BInv, Tick
<1>5. ASSUME Untouched PROVE BInv'
  BY <1>5, StillTyped, StillBooked DEF BInv, Untouched
<1> QED BY <1>1, <1>2, <1>3, <1>4, <1>5, Steps

\* However purges fall, and however late their second statement reads the
\* clock, the usage of the current day stays where the daily quota counts it.
THEOREM TodayStaysInLogs == Spec => []TodayIsUnpurged
<1>1. Init => LInv
  BY InitBooked DEF BInv
<1>2. LInv => TodayIsUnpurged
  BY DEF LInv
<1> QED BY <1>1, <1>2, NextTyped, Inductive, PTL DEF Spec

\* A balance is what was recharged minus what was consumed, for any number of
\* calls, recharges and purges and however long a purge takes: of what is consumed
\* the tables miss only what got overdue between the two statements of a purge.
THEOREM BooksReconcile == Spec => []BooksAccount
<1>1. Init => BInv
  BY InitBooked
<1>2. BInv /\ IInv /\ [Next]_vars => BInv'
  BY NextBooked
<1>3. BInv => BooksAccount
  BY DEF BInv
<1> QED BY <1>1, <1>2, <1>3, Inductive, PTL DEF Spec

=============================================================================
