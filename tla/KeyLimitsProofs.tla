--------------------------- MODULE KeyLimitsProofs ----------------------------
(***************************************************************************)
(* Proofs about KeyLimits, for every set of keys and limits and every      *)
(* finite set of requests.                                                 *)
(***************************************************************************)
EXTENDS KeyLimits, TLAPS, FiniteSetTheorems

(***************************************************************************)
(* The strengthening: what a request knows at each stage, and the count of *)
(* guards.  The types alone are not inductive: that a drop finds a positive *)
(* count is what SlotsCounted says.                                        *)
(***************************************************************************)
Staged ==
  \A r \in Requests :
    /\ pc[r] # "idle" => key[r] \in Keys
    /\ pc[r] \in {"idle", "limits"} => lim[r] = NULL
    /\ pc[r] \in {"rpm", "slot"} => lim[r] \in Limits
    /\ pc[r] \in {"idle", "limits", "rpm"} => admitted[r] = NULL
    /\ r \in held => pc[r] \in {"run", "billed"} /\ lim[r] \in Limits
    /\ admitted[r] # NULL => lim[r] \in Limits /\ admitted[r] <= now

IInv == TypeOK /\ Staged /\ SlotsCounted

-----------------------------------------------------------------------------
(* The guards of a key form a finite set, counted by the naturals. *)
LEMMA HoldersFinite ==
  ASSUME held \subseteq Requests, NEW k \in Keys
  PROVE  IsFiniteSet(Holders(k)) /\ Cardinality(Holders(k)) \in Nat
<1>1. Holders(k) \in SUBSET Requests
  BY DEF Holders
<1>2. IsFiniteSet(Holders(k))
  BY <1>1, FS_Subset, LimitsAssumption
<1>3. QED
  BY <1>2, FS_CardinalityType

(* Dropping a request's guard keeps the count of every key exact. *)
LEMMA DropKeepsCount ==
  ASSUME TypeOK, Staged, SlotsCounted, NEW r \in Requests, pc[r] # "idle",
         DropGuard(r), UNCHANGED key
  PROVE  /\ SlotsCounted'
         /\ held' \subseteq held
         /\ held' \subseteq Requests
         /\ r \notin held'
         /\ inflight' \in [Keys -> Nat]
<1>0. key[r] \in Keys
  BY DEF Staged
<1>1. CASE r \notin held
  BY <1>1 DEF DropGuard, SlotsCounted, Holders, TypeOK
<1>2. CASE r \in held
  <2>1. /\ inflight' = [inflight EXCEPT ![key[r]] = @ - 1]
        /\ held' = held \ {r}
    BY <1>2 DEF DropGuard
  <2>2. ASSUME NEW k \in Keys
        PROVE  inflight'[k] = Cardinality(Holders(k)') /\ inflight'[k] \in Nat
    <3>1. IsFiniteSet(Holders(k)) /\ Cardinality(Holders(k)) \in Nat
      BY HoldersFinite DEF TypeOK
    <3>2. inflight[k] = Cardinality(Holders(k))
      BY DEF SlotsCounted
    <3>3. CASE k = key[r]
      <4>1. r \in Holders(k) /\ Holders(k)' = Holders(k) \ {r}
        BY <1>2, <2>1, <3>3 DEF Holders, TypeOK
      <4>2. Cardinality(Holders(k)') = Cardinality(Holders(k)) - 1
        BY <3>1, <4>1, FS_RemoveElement
      <4>3. IsFiniteSet(Holders(k)') /\ Cardinality(Holders(k)') \in Nat
        BY <3>1, <4>1, FS_RemoveElement, FS_CardinalityType
      <4>4. inflight'[k] = inflight[k] - 1
        BY <2>1, <3>3 DEF TypeOK
      <4>5. QED
        BY <3>2, <4>2, <4>3, <4>4
    <3>4. CASE k # key[r]
      <4>1. Holders(k)' = Holders(k)
        BY <2>1, <3>4 DEF Holders
      <4>2. inflight'[k] = inflight[k]
        BY <2>1, <3>4 DEF TypeOK
      <4>3. QED
        BY <3>1, <3>2, <4>1, <4>2
    <3>5. QED
      BY <3>3, <3>4
  <2>3. inflight' \in [Keys -> Nat]
    BY <2>1, <2>2 DEF TypeOK
  <2>4. QED
    BY <2>1, <2>2, <2>3 DEF SlotsCounted, TypeOK
<1>3. QED
  BY <1>1, <1>2

(* Taking a slot counts the new guard. *)
LEMMA TakeKeepsCount ==
  ASSUME TypeOK, Staged, SlotsCounted, NEW r \in Requests, TakeSlot(r)
  PROVE  SlotsCounted' /\ inflight' \in [Keys -> Nat]
<1>0. key[r] \in Keys /\ r \notin held /\ UNCHANGED key
  BY DEF Staged, TakeSlot
<1>1. CASE UNCHANGED <<inflight, held>>
  BY <1>0, <1>1 DEF SlotsCounted, Holders, TypeOK
<1>2. CASE inflight' = [inflight EXCEPT ![key[r]] = @ + 1] /\ held' = held \cup {r}
  <2>1. ASSUME NEW k \in Keys
        PROVE  inflight'[k] = Cardinality(Holders(k)')
    <3>1. IsFiniteSet(Holders(k)) /\ Cardinality(Holders(k)) \in Nat
      BY HoldersFinite DEF TypeOK
    <3>2. CASE k = key[r]
      <4>1. Holders(k)' = Holders(k) \cup {r} /\ r \notin Holders(k)
        BY <1>0, <1>2, <3>2 DEF Holders, TypeOK
      <4>2. Cardinality(Holders(k)') = Cardinality(Holders(k)) + 1
        BY <3>1, <4>1, FS_AddElement
      <4>3. QED
        BY <1>2, <3>2, <4>2 DEF SlotsCounted, TypeOK
    <3>3. CASE k # key[r]
      <4>1. Holders(k)' = Holders(k)
        BY <1>0, <1>2, <3>3 DEF Holders
      <4>2. QED
        BY <1>2, <3>3, <4>1 DEF SlotsCounted, TypeOK
    <3>4. QED
      BY <3>2, <3>3
  <2>2. inflight' \in [Keys -> Nat]
    BY <1>0, <1>2 DEF TypeOK
  <2>3. QED
    BY <2>1, <2>2 DEF SlotsCounted
<1>3. QED
  BY <1>1, <1>2 DEF TakeSlot

-----------------------------------------------------------------------------
(***************************************************************************)
(* The invariant.                                                          *)
(***************************************************************************)

LEMMA InitIInv == Init => IInv
<1> SUFFICES ASSUME Init PROVE IInv
  OBVIOUS
<1> USE LimitsAssumption, NullIsNoLimit
<1>1. TypeOK
  BY DEF Init, TypeOK, PC, Stamp
<1>2. Staged
  BY DEF Init, Staged
<1>3. \A k \in Keys : Holders(k) = {}
  BY DEF Init, Holders
<1>4. SlotsCounted
  BY <1>3, FS_EmptySet DEF Init, SlotsCounted
<1>5. QED
  BY <1>1, <1>2, <1>4 DEF IInv

(* A step that touches neither guards nor counts keeps SlotsCounted. *)
LEMMA CountFrame ==
  ASSUME TypeOK, Staged, SlotsCounted, UNCHANGED <<inflight, held>>,
         \A r \in held : key'[r] = key[r]
  PROVE  SlotsCounted'
<1>1. \A k \in Keys : Holders(k)' = Holders(k)
  BY DEF Holders
<1>2. QED
  BY <1>1 DEF SlotsCounted

LEMMA StepIInv == IInv /\ [Next]_vars => IInv'
<1> SUFFICES ASSUME IInv, [Next]_vars PROVE IInv'
  OBVIOUS
<1> USE LimitsAssumption, NullIsNoLimit
<1>0. TypeOK /\ Staged /\ SlotsCounted
  BY DEF IInv
<1>1. ASSUME NEW r \in Requests, NEW k \in Keys, Authenticate(r, k)
      PROVE  IInv'
  <2>1. TypeOK' /\ Staged'
    BY <1>0, <1>1 DEF Authenticate, Goto, mapVars, TypeOK, Staged, PC
  <2>2. \A q \in held : key'[q] = key[q]
    BY <1>0, <1>1 DEF Authenticate, Staged, TypeOK
  <2>3. QED
    BY <1>0, <1>1, <2>1, <2>2, CountFrame DEF Authenticate, mapVars, IInv
<1>2. ASSUME NEW r \in Requests, ReadLimits(r)
      PROVE  IInv'
  <2>1. key[r] \in Keys /\ row[key[r]] \in Limits
    BY <1>0, <1>2 DEF ReadLimits, Staged, TypeOK
  <2>2. TypeOK' /\ Staged'
    BY <1>0, <1>2, <2>1 DEF ReadLimits, Goto, mapVars, TypeOK, Staged, PC
  <2>3. QED
    BY <1>0, <1>2, <2>2, CountFrame DEF ReadLimits, mapVars, IInv
<1>3. ASSUME NEW r \in Requests, FailOpen(r)
      PROVE  IInv'
  <2>1. TypeOK' /\ Staged'
    BY <1>0, <1>3 DEF FailOpen, Goto, mapVars, TypeOK, Staged, PC
  <2>2. QED
    BY <1>0, <1>3, <2>1, CountFrame DEF FailOpen, mapVars, IInv
<1>4. ASSUME NEW r \in Requests, CheckRpm(r)
      PROVE  IInv'
  <2>1. key[r] \in Keys /\ lim[r] \in Limits /\ pc[r] = "rpm"
    BY <1>0, <1>4 DEF CheckRpm, Staged
  <2>2. Live(key[r]) \subseteq Stamp /\ now \in 0..MaxNow
    BY <1>0, <2>1 DEF Live, TypeOK
  <2>3. [req |-> r, at |-> now] \in Stamp
    BY <2>2 DEF Stamp
  <2>4. rate' \in [Keys -> SUBSET Stamp]
    BY <1>0, <1>4, <2>2, <2>3 DEF CheckRpm, TypeOK
  <2>5. TypeOK'
    BY <1>0, <1>4, <2>4 DEF CheckRpm, Goto, TypeOK, PC
  <2>6. Staged'
    BY <1>0, <1>4, <2>1, <2>2 DEF CheckRpm, Goto, TypeOK, Staged
  <2>7. QED
    BY <1>0, <1>4, <2>5, <2>6, CountFrame DEF CheckRpm, IInv
<1>5. ASSUME NEW r \in Requests, TakeSlot(r)
      PROVE  IInv'
  <2>1. SlotsCounted' /\ inflight' \in [Keys -> Nat]
    BY <1>0, <1>5, TakeKeepsCount
  <2>2. TypeOK' /\ Staged'
    BY <1>0, <1>5, <2>1 DEF TakeSlot, Goto, TypeOK, Staged, PC
  <2>3. QED
    BY <2>1, <2>2 DEF IInv
<1>6. ASSUME NEW r \in Requests, Finish(r) \/ Abort(r)
      PROVE  IInv'
  <2>1. pc[r] # "idle" /\ DropGuard(r) /\ UNCHANGED key
    BY <1>6 DEF Finish, Abort
  <2>2. /\ SlotsCounted' /\ inflight' \in [Keys -> Nat]
        /\ held' \subseteq held /\ held' \subseteq Requests /\ r \notin held'
    BY <1>0, <2>1, DropKeepsCount
  <2>3. TypeOK' /\ Staged'
    BY <1>0, <1>6, <2>2 DEF Finish, Abort, Goto, TypeOK, Staged, PC
  <2>4. QED
    BY <2>2, <2>3 DEF IInv
<1>7. ASSUME NEW r \in Requests, NEW t \in Tokens, Bill(r, t) \/ LateBill(r, t)
      PROVE  IInv'
  <2>1. key[r] \in Keys
    BY <1>0, <1>7 DEF Bill, LateBill, Staged
  <2>2. used' \in [Keys -> Nat]
    BY <1>0, <1>7, <2>1 DEF Bill, LateBill, TypeOK
  <2>3. TypeOK' /\ Staged'
    BY <1>0, <1>7, <2>2 DEF Bill, LateBill, Goto, mapVars, TypeOK, Staged, PC
  <2>4. QED
    BY <1>0, <1>7, <2>3, CountFrame DEF Bill, LateBill, mapVars, IInv
<1>8. ASSUME NEW k \in Keys, NEW l \in Limits, UpdateApiKey(k, l)
      PROVE  IInv'
  <2>1. TypeOK' /\ Staged'
    BY <1>0, <1>8 DEF UpdateApiKey, mapVars, reqVars, TypeOK, Staged
  <2>2. QED
    BY <1>0, <1>8, <2>1, CountFrame DEF UpdateApiKey, mapVars, reqVars, IInv
<1>9. ASSUME NEW k \in Keys, DeleteApiKey(k) \/ DropWindow(k)
      PROVE  IInv'
  <2>1. TypeOK' /\ Staged'
    BY <1>0, <1>9 DEF DeleteApiKey, DropWindow, mapVars, reqVars, TypeOK, Staged
  <2>2. QED
    BY <1>0, <1>9, <2>1, CountFrame
    DEF DeleteApiKey, DropWindow, mapVars, reqVars, IInv
<1>10. ASSUME Tick
       PROVE  IInv'
  <2>1. now' \in 0..MaxNow /\ now < now'
    BY <1>0, <1>10 DEF Tick, TypeOK
  <2>2. TypeOK' /\ Staged'
    BY <1>0, <1>10, <2>1 DEF Tick, mapVars, reqVars, TypeOK, Staged
  <2>3. QED
    BY <1>0, <1>10, <2>2, CountFrame DEF Tick, mapVars, reqVars, IInv
<1>11. CASE UNCHANGED vars
  BY <1>0, <1>11, CountFrame DEF vars, IInv, TypeOK, Staged
<1>12. QED
  BY <1>1, <1>2, <1>3, <1>4, <1>5, <1>6, <1>7, <1>8, <1>9, <1>10, <1>11
  DEF Next, Serve

(***************************************************************************)
(* The state is always well typed, and the in-flight count of every key is *)
(* exactly the number of its live guards: ConcurrencyGuard::drop never     *)
(* underflows and never leaks a slot.                                      *)
(***************************************************************************)
THEOREM SlotAccounting == Spec => [](TypeOK /\ SlotsCounted)
<1>1. IInv => TypeOK /\ SlotsCounted
  BY DEF IInv
<1>2. QED
  BY InitIInv, StepIInv, <1>1, PTL DEF Spec

-----------------------------------------------------------------------------
(***************************************************************************)
(* How one step changes the guards of the keys: a slot is taken, a guard   *)
(* is dropped, or nothing changes.                                         *)
(***************************************************************************)

Taken(r) ==
  /\ r \in Requests \ held /\ key[r] \in Keys /\ lim[r] \in Limits
  /\ ~AtCap(inflight[key[r]], lim[r].cap)
  /\ held' = held \cup {r} /\ UNCHANGED <<key, lim>>

Dropped(r) ==
  /\ r \in held /\ key[r] \in Keys
  /\ held' = held \ {r} /\ UNCHANGED <<key, lim>>

Idle ==
  /\ held' = held
  /\ \A r \in held : key'[r] = key[r] /\ lim'[r] = lim[r]

LEMMA GuardSteps ==
  ASSUME IInv, [Next]_vars
  PROVE  Idle \/ \E r \in Requests : Taken(r) \/ Dropped(r)
<1>0. TypeOK /\ Staged
  BY DEF IInv
<1>1. ASSUME NEW r \in Requests, NEW k \in Keys, Authenticate(r, k)
      PROVE  Idle
  BY <1>0, <1>1 DEF Authenticate, Idle, TypeOK, Staged
<1>2. ASSUME NEW r \in Requests, ReadLimits(r)
      PROVE  Idle
  BY <1>0, <1>2 DEF ReadLimits, Idle, TypeOK, Staged
<1>3. ASSUME NEW r \in Requests, FailOpen(r) \/ CheckRpm(r)
      PROVE  Idle
  BY <1>0, <1>3 DEF FailOpen, CheckRpm, Idle
<1>4. ASSUME NEW r \in Requests, TakeSlot(r)
      PROVE  Idle \/ Taken(r)
  BY <1>0, <1>4 DEF TakeSlot, Idle, Taken, Staged
<1>5. ASSUME NEW r \in Requests, Finish(r) \/ Abort(r)
      PROVE  Idle \/ Dropped(r)
  BY <1>0, <1>5 DEF Finish, Abort, DropGuard, Idle, Dropped, Staged
<1>6. ASSUME NEW r \in Requests, NEW t \in Tokens, Bill(r, t) \/ LateBill(r, t)
      PROVE  Idle
  BY <1>6 DEF Bill, LateBill, Idle
<1>7. ASSUME NEW k \in Keys, NEW l \in Limits,
             UpdateApiKey(k, l) \/ DeleteApiKey(k) \/ DropWindow(k) \/ Tick
      PROVE  Idle
  BY <1>7 DEF UpdateApiKey, DeleteApiKey, DropWindow, Tick, reqVars, Idle
<1>8. ASSUME NEW k \in Keys, DeleteApiKey(k) \/ DropWindow(k)
      PROVE  Idle
  BY <1>8 DEF DeleteApiKey, DropWindow, reqVars, Idle
<1>9. ASSUME Tick \/ UNCHANGED vars
      PROVE  Idle
  BY <1>9 DEF Tick, vars, reqVars, Idle
<1>10. QED
  BY <1>1, <1>2, <1>3, <1>4, <1>5, <1>6, <1>7, <1>8, <1>9 DEF Next, Serve

(* A slot is taken below the cap the request was shown. *)
LEMMA TakenBelowCap ==
  ASSUME IInv, NEW r \in Requests, Taken(r)
  PROVE  /\ lim[r].cap \in Caps /\ lim[r].cap \in Nat
         /\ Cardinality(Holders(key[r])) < lim[r].cap
<1>1. lim[r].cap \in Caps /\ lim[r].cap \in Nat
  BY LimitsAssumption DEF Taken, Limits
<1>2. inflight[key[r]] \in Nat /\ inflight[key[r]] = Cardinality(Holders(key[r]))
  BY DEF Taken, IInv, TypeOK, SlotsCounted
<1>3. inflight[key[r]] < lim[r].cap
  BY <1>1, <1>2 DEF Taken, AtCap
<1>4. QED
  BY <1>1, <1>2, <1>3

LEMMA StepCap == IInv /\ CapRespected /\ [Next]_vars => CapRespected'
<1> SUFFICES ASSUME IInv, CapRespected, [Next]_vars,
                    NEW k \in Keys, NEW j \in Caps
             PROVE  Cardinality({r \in Holders(k)' : lim'[r].cap <= j}) <= j
  BY DEF CapRespected
<1>0. j \in Nat
  BY LimitsAssumption
<1> DEFINE Under == {r \in Holders(k) : lim[r].cap <= j}
<1>1. Cardinality(Under) <= j
  BY DEF CapRespected
<1>2. IsFiniteSet(Holders(k)) /\ Cardinality(Holders(k)) \in Nat
  BY HoldersFinite DEF IInv, TypeOK
<1>3. IsFiniteSet(Under) /\ Cardinality(Under) \in Nat
      /\ Cardinality(Under) <= Cardinality(Holders(k))
  <2>1. Under \in SUBSET Holders(k)
    OBVIOUS
  <2>2. QED
    BY <1>2, <2>1, FS_Subset, FS_CardinalityType
<1>4. CASE Idle
  <2>1. {r \in Holders(k)' : lim'[r].cap <= j} = Under
    BY <1>4 DEF Idle, Holders
  <2>2. QED
    BY <1>1, <2>1
<1>5. ASSUME NEW r \in Requests, Taken(r)
      PROVE  Cardinality({q \in Holders(k)' : lim'[q].cap <= j}) <= j
  <2>1. CASE key[r] = k /\ lim[r].cap <= j
    <3>1. {q \in Holders(k)' : lim'[q].cap <= j} = Under \cup {r} /\ r \notin Under
      BY <1>5, <2>1 DEF Taken, Holders
    <3>2. Cardinality(Under \cup {r}) = Cardinality(Under) + 1
      BY <1>3, <3>1, FS_AddElement
    <3>3. Cardinality(Holders(k)) < lim[r].cap /\ lim[r].cap \in Nat
      BY <1>5, <2>1, TakenBelowCap
    <3>4. Cardinality(Under) + 1 <= j
      <4> HIDE DEF Under
      <4>1. QED
        BY <1>0, <1>2, <1>3, <2>1, <3>3
    <3>5. QED
      BY <3>1, <3>2, <3>4
  <2>2. CASE ~(key[r] = k /\ lim[r].cap <= j)
    <3>1. {q \in Holders(k)' : lim'[q].cap <= j} = Under
      BY <1>5, <2>2 DEF Taken, Holders
    <3>2. QED
      BY <1>1, <3>1
  <2>3. QED
    BY <2>1, <2>2
<1>6. ASSUME NEW r \in Requests, Dropped(r)
      PROVE  Cardinality({q \in Holders(k)' : lim'[q].cap <= j}) <= j
  <2> DEFINE After == {q \in Holders(k)' : lim'[q].cap <= j}
  <2>1. After \in SUBSET Under
    BY <1>6 DEF Dropped, Holders
  <2>2. Cardinality(After) <= Cardinality(Under) /\ Cardinality(After) \in Nat
    BY <1>3, <2>1, FS_Subset, FS_CardinalityType
  <2>3. QED
    BY <1>0, <1>1, <1>3, <2>2
<1>7. QED
  BY <1>4, <1>5, <1>6, GuardSteps

(***************************************************************************)
(* max_concurrent holds under every interleaving of admissions, endings    *)
(* and edits of the cap: at most j guarded calls of a key were let in      *)
(* under a cap of at most j.                                               *)
(***************************************************************************)
THEOREM ConcurrencyCap == Spec => []CapRespected
<1>1. Init => CapRespected
  <2> SUFFICES ASSUME Init, NEW k \in Keys, NEW j \in Caps
               PROVE  Cardinality({r \in Holders(k) : lim[r].cap <= j}) <= j
    BY DEF CapRespected
  <2>1. {r \in Holders(k) : lim[r].cap <= j} = {} /\ j \in Nat
    BY LimitsAssumption DEF Init, Holders
  <2>2. Cardinality({r \in Holders(k) : lim[r].cap <= j}) = 0
    BY <2>1, FS_EmptySet
  <2>3. QED
    BY <2>1, <2>2
<1>2. QED
  BY InitIInv, StepIInv, StepCap, <1>1, PTL DEF Spec

-----------------------------------------------------------------------------
(***************************************************************************)
(* The counter and the guards implement the pool of slots: each step takes *)
(* a slot below a configured cap, gives one back, or is invisible.         *)
(***************************************************************************)

LEMMA StepRefines == IInv /\ [Next]_vars => [Slots!Next]_([k \in Keys |-> Holders(k)])
<1> SUFFICES ASSUME IInv, [Next]_vars
             PROVE  [Slots!Next]_([k \in Keys |-> Holders(k)])
  OBVIOUS
<1> DEFINE h == [k \in Keys |-> Holders(k)]
           hNext == [k \in Keys |-> Holders(k)']
<1>1. CASE Idle
  <2>1. \A k \in Keys : Holders(k)' = Holders(k)
    BY <1>1 DEF Idle, Holders
  <2>2. QED
    BY <2>1
<1>2. ASSUME NEW r \in Requests, Taken(r)
      PROVE  Slots!Next
  <2>1. \A l \in Keys : r \notin h[l]
    BY <1>2 DEF Taken, Holders
  <2>2. lim[r].cap \in Caps /\ Cardinality(h[key[r]]) < lim[r].cap
    BY <1>2, TakenBelowCap DEF Taken
  <2>3. hNext = [h EXCEPT ![key[r]] = @ \cup {r}]
    BY <1>2 DEF Taken, Holders
  <2>4. Slots!Acquire(key[r], r)
    BY <2>1, <2>2, <2>3
    DEF Slots!Acquire, Slots!Cardinality, Cardinality, Slots!IsFiniteSet, IsFiniteSet
  <2>5. QED
    BY <1>2, <2>4 DEF Slots!Next, Taken
<1>3. ASSUME NEW r \in Requests, Dropped(r)
      PROVE  Slots!Next
  <2>1. r \in h[key[r]]
    BY <1>3 DEF Dropped, Holders
  <2>2. hNext = [h EXCEPT ![key[r]] = @ \ {r}]
    BY <1>3 DEF Dropped, Holders
  <2>3. Slots!Release(key[r], r)
    BY <2>1, <2>2 DEF Slots!Release
  <2>4. QED
    BY <1>3, <2>3 DEF Slots!Next, Dropped
<1>4. QED
  BY <1>1, <1>2, <1>3, GuardSteps

THEOREM SlotRefinement == Spec => SlotsSpec
<1>1. Init => Slots!Init
  BY DEF Init, Slots!Init, Holders
<1>2. QED
  BY InitIInv, StepIInv, StepRefines, <1>1, PTL DEF Spec, SlotsSpec, Slots!Spec

-----------------------------------------------------------------------------
(***************************************************************************)
(* The sliding window.  While a key exists its window holds a stamp of     *)
(* every call it let through in the last Window ticks; a window is finite; *)
(* only windows of deleted keys are waiting to be dropped.                 *)
(***************************************************************************)

WindowInv ==
  \A k \in Keys :
    /\ IsFiniteSet(rate[k])
    /\ k \in dropping => row[k] = NULL
    /\ row[k] # NULL =>
         \A r \in Requests :
           key[r] = k /\ admitted[r] # NULL /\ now - admitted[r] < Window
             => [req |-> r, at |-> admitted[r]] \in rate[k]

(* Calls of a key let through in the last Window ticks. *)
Recent(k) ==
  {r \in Requests : key[r] = k /\ admitted[r] # NULL /\ now - admitted[r] < Window}

(* They are no more than the stamps the limiter counts. *)
LEMMA RecentCounted ==
  ASSUME TypeOK, WindowInv, NEW k \in Keys, row[k] # NULL
  PROVE  /\ IsFiniteSet(Recent(k)) /\ IsFiniteSet(Live(k))
         /\ Cardinality(Recent(k)) \in Nat /\ Cardinality(Live(k)) \in Nat
         /\ Cardinality(Recent(k)) <= Cardinality(Live(k))
<1> DEFINE stamp == [r \in Recent(k) |-> [req |-> r, at |-> admitted[r]]]
<1>1. IsFiniteSet(Live(k))
  <2>1. Live(k) \in SUBSET rate[k]
    BY DEF Live
  <2>2. QED
    BY <2>1, FS_Subset DEF WindowInv
<1>2. stamp \in [Recent(k) -> Live(k)]
  BY DEF Recent, Live, WindowInv
<1>3. \A a, b \in Recent(k) : stamp[a] = stamp[b] => a = b
  OBVIOUS
<1>4. stamp \in Injection(Recent(k), Live(k))
  BY <1>2, <1>3 DEF Injection, IsInjective
<1>5. IsFiniteSet(Recent(k)) /\ Cardinality(Recent(k)) <= Cardinality(Live(k))
  BY <1>1, <1>4, FS_Injection
<1>6. QED
  BY <1>1, <1>5, FS_CardinalityType

(***************************************************************************)
(* How one step changes what the window bound is about: a call is let      *)
(* through, a window is forgotten, the clock ticks, or nothing it reads    *)
(* changes.                                                                *)
(***************************************************************************)

LetThrough(r) ==
  LET k == key[r] IN
  /\ r \in Requests /\ k \in Keys /\ lim[r] \in Limits /\ admitted[r] = NULL
  /\ Cardinality(Live(k)) < lim[r].rpm
  /\ rate' = [rate EXCEPT ![k] = Live(k) \cup {[req |-> r, at |-> now]}]
  /\ admitted' = [admitted EXCEPT ![r] = now]
  /\ UNCHANGED <<now, row, dropping, key, lim>>

Quiet ==
  /\ now' = now
  /\ \A k \in Keys : row'[k] # NULL => row[k] # NULL
  /\ \A k \in dropping' : k \in Keys => row'[k] = NULL
  /\ \A k \in Keys :
       \/ rate'[k] = rate[k]
       \/ rate'[k] = Live(k)
       \/ row'[k] = NULL /\ rate'[k] = {}
  /\ admitted' = admitted
  /\ \A r \in Requests : admitted[r] # NULL => key'[r] = key[r] /\ lim'[r] = lim[r]

LEMMA WindowSteps ==
  ASSUME IInv, WindowInv, [Next]_vars
  PROVE  Quiet \/ Tick \/ \E r \in Requests : LetThrough(r)
<1>0. TypeOK /\ Staged /\ \A k \in dropping : k \in Keys /\ row[k] = NULL
  BY DEF IInv, WindowInv, TypeOK
<1>1. ASSUME NEW r \in Requests, NEW k \in Keys, Authenticate(r, k)
      PROVE  Quiet
  BY <1>0, <1>1 DEF Authenticate, mapVars, Quiet, TypeOK, Staged
<1>2. ASSUME NEW r \in Requests, ReadLimits(r) \/ FailOpen(r)
      PROVE  Quiet
  BY <1>0, <1>2 DEF ReadLimits, FailOpen, mapVars, Quiet, TypeOK, Staged
<1>3. ASSUME NEW r \in Requests, CheckRpm(r)
      PROVE  Quiet \/ LetThrough(r)
  <2>1. key[r] \in Keys /\ lim[r] \in Limits /\ admitted[r] = NULL
    BY <1>0, <1>3 DEF CheckRpm, Staged
  <2>2. CASE UNCHANGED <<rate, admitted>>
    BY <1>0, <1>3, <2>2 DEF CheckRpm, Quiet
  <2>3. CASE rate' = [rate EXCEPT ![key[r]] = Live(key[r])] /\ UNCHANGED admitted
    BY <1>0, <1>3, <2>1, <2>3 DEF CheckRpm, Quiet, TypeOK
  <2>4. CASE /\ Cardinality(Live(key[r])) < lim[r].rpm
             /\ rate' = [rate EXCEPT ![key[r]] = Live(key[r]) \cup {[req |-> r, at |-> now]}]
             /\ admitted' = [admitted EXCEPT ![r] = now]
    BY <1>3, <2>1, <2>4 DEF CheckRpm, LetThrough
  <2>5. QED
    BY <1>3, <2>2, <2>3, <2>4 DEF CheckRpm
<1>4. ASSUME NEW r \in Requests, TakeSlot(r) \/ Finish(r) \/ Abort(r)
      PROVE  Quiet
  BY <1>0, <1>4 DEF TakeSlot, Finish, Abort, Quiet
<1>5. ASSUME NEW r \in Requests, NEW t \in Tokens, Bill(r, t) \/ LateBill(r, t)
      PROVE  Quiet
  BY <1>0, <1>5 DEF Bill, LateBill, mapVars, Quiet
<1>6. ASSUME NEW k \in Keys, NEW l \in Limits, UpdateApiKey(k, l)
      PROVE  Quiet
  BY <1>0, <1>6 DEF UpdateApiKey, mapVars, reqVars, Quiet, TypeOK
<1>7. ASSUME NEW k \in Keys, DeleteApiKey(k)
      PROVE  Quiet
  BY <1>0, <1>7 DEF DeleteApiKey, mapVars, reqVars, Quiet, TypeOK
<1>8. ASSUME NEW k \in Keys, DropWindow(k)
      PROVE  Quiet
  BY <1>0, <1>8 DEF DropWindow, reqVars, Quiet, TypeOK
<1>9. CASE UNCHANGED vars
  BY <1>0, <1>9 DEF vars, Quiet
<1>10. QED
  BY <1>1, <1>2, <1>3, <1>4, <1>5, <1>6, <1>7, <1>8, <1>9 DEF Next, Serve

LEMMA StepWindow == IInv /\ WindowInv /\ [Next]_vars => WindowInv'
<1> SUFFICES ASSUME IInv, WindowInv, [Next]_vars PROVE WindowInv'
  OBVIOUS
<1>0. TypeOK /\ Staged
  BY DEF IInv
<1>1. \A k \in Keys : IsFiniteSet(Live(k))
  <2>1. \A k \in Keys : Live(k) \in SUBSET rate[k]
    BY DEF Live
  <2>2. QED
    BY <2>1, FS_Subset DEF WindowInv
<1>2. CASE Quiet
  <2>1. \A k \in Keys : IsFiniteSet(rate'[k])
    BY <1>1, <1>2, FS_EmptySet DEF Quiet, WindowInv
  <2>2. \A k \in Keys : k \in dropping' => row'[k] = NULL
    BY <1>2 DEF Quiet
  <2>3. ASSUME NEW k \in Keys, row'[k] # NULL, NEW r \in Requests,
               key'[r] = k, admitted'[r] # NULL, now' - admitted'[r] < Window
        PROVE  [req |-> r, at |-> admitted'[r]] \in rate'[k]
    <3>1. [req |-> r, at |-> admitted[r]] \in rate[k] /\ now - admitted[r] < Window
      BY <1>2, <2>3 DEF Quiet, WindowInv
    <3>2. [req |-> r, at |-> admitted[r]] \in Live(k)
      BY <3>1 DEF Live
    <3>3. QED
      BY <1>2, <2>3, <3>1, <3>2 DEF Quiet
  <2>4. QED
    BY <2>1, <2>2, <2>3 DEF WindowInv
<1>3. CASE Tick
  <2>1. \A r \in Requests : admitted[r] # NULL /\ now' - admitted[r] < Window
          => now - admitted[r] < Window
    BY <1>0, <1>3, LimitsAssumption DEF Tick, TypeOK, Staged
  <2>2. QED
    BY <1>3, <2>1 DEF Tick, mapVars, reqVars, WindowInv
<1>4. ASSUME NEW r \in Requests, LetThrough(r)
      PROVE  WindowInv'
  <2> DEFINE k == key[r]
             s == [req |-> r, at |-> now]
  <2>1. k \in Keys /\ rate'[k] = Live(k) \cup {s}
        /\ \A l \in Keys \ {k} : rate'[l] = rate[l]
    BY <1>0, <1>4 DEF LetThrough, TypeOK
  <2>2. \A l \in Keys : IsFiniteSet(rate'[l])
    <3>1. IsFiniteSet(Live(k))
      BY <1>1, <2>1
    <3>2. IsFiniteSet(Live(k) \cup {s})
      BY <3>1, FS_AddElement
    <3>3. QED
      BY <2>1, <3>2 DEF WindowInv
  <2>3. ASSUME NEW l \in Keys, row'[l] # NULL, NEW q \in Requests,
               key'[q] = l, admitted'[q] # NULL, now' - admitted'[q] < Window
        PROVE  [req |-> q, at |-> admitted'[q]] \in rate'[l]
    <3>1. CASE q = r
      BY <1>0, <1>4, <2>1, <2>3, <3>1 DEF LetThrough, TypeOK
    <3>2. CASE q # r
      <4>1. admitted'[q] = admitted[q] /\ [req |-> q, at |-> admitted[q]] \in rate[l]
        BY <1>0, <1>4, <2>3, <3>2 DEF LetThrough, TypeOK, WindowInv
      <4>2. QED
        BY <1>4, <2>1, <2>3, <4>1 DEF Live, LetThrough
    <3>3. QED
      BY <3>1, <3>2
  <2>4. \A l \in Keys : l \in dropping' => row'[l] = NULL
    BY <1>4 DEF LetThrough, WindowInv
  <2>5. QED
    BY <2>2, <2>3, <2>4 DEF WindowInv
<1>5. QED
  BY <1>2, <1>3, <1>4, WindowSteps

LEMMA StepRpm == IInv /\ WindowInv /\ RpmRespected /\ [Next]_vars => RpmRespected'
<1> SUFFICES ASSUME IInv, WindowInv, RpmRespected, [Next]_vars,
                    NEW k \in Keys, row'[k] # NULL,
                    NEW t \in 0..now', NEW j \in Rpms \ {0}
             PROVE  Cardinality(StampedIn(k, t, j)') <= j
  BY DEF RpmRespected
<1>0. TypeOK /\ Staged /\ j \in Nat /\ now \in Nat
  BY LimitsAssumption DEF IInv, TypeOK
<1>1. \A u \in 0..now : row[k] # NULL => Cardinality(StampedIn(k, u, j)) <= j
  BY DEF RpmRespected
<1>2. \A u : IsFiniteSet(StampedIn(k, u, j)) /\ Cardinality(StampedIn(k, u, j)) \in Nat
  <2>1. \A u : StampedIn(k, u, j) \in SUBSET Requests
    BY DEF StampedIn
  <2>2. QED
    BY <2>1, FS_Subset, FS_CardinalityType, LimitsAssumption
<1>3. CASE Quiet
  <2>1. StampedIn(k, t, j)' = StampedIn(k, t, j)
    BY <1>3 DEF Quiet, StampedIn
  <2>2. QED
    BY <1>1, <1>3, <2>1 DEF Quiet
<1>4. CASE Tick
  <2>1. row[k] # NULL
    BY <1>4 DEF Tick
  <2>2. CASE t \in 0..now
    <3>1. StampedIn(k, t, j)' = StampedIn(k, t, j)
      BY <1>4 DEF Tick, reqVars, StampedIn
    <3>2. QED
      BY <1>1, <2>1, <2>2, <3>1
  <2>3. CASE t = now + 1
    <3>1. StampedIn(k, t, j)' \in SUBSET StampedIn(k, now, j)
      BY <1>0, <1>4, <2>3, LimitsAssumption DEF Tick, reqVars, StampedIn, Staged, TypeOK
    <3>2. Cardinality(StampedIn(k, t, j)') <= Cardinality(StampedIn(k, now, j))
          /\ Cardinality(StampedIn(k, t, j)') \in Nat
      BY <1>2, <3>1, FS_Subset, FS_CardinalityType
    <3>3. Cardinality(StampedIn(k, now, j)) <= j
      BY <1>0, <1>1, <2>1
    <3>4. QED
      BY <1>0, <1>2, <3>2, <3>3
  <2>4. QED
    BY <1>0, <1>4, <2>2, <2>3 DEF Tick
<1>5. ASSUME NEW r \in Requests, LetThrough(r)
      PROVE  Cardinality(StampedIn(k, t, j)') <= j
  <2>1. row[k] # NULL /\ t \in 0..now
    BY <1>5 DEF LetThrough
  <2>2. CASE key[r] = k /\ lim[r].rpm <= j /\ t = now
    <3>1. StampedIn(k, t, j)' \ {r} \in SUBSET Recent(k)
      BY <1>0, <1>5, <2>2 DEF LetThrough, StampedIn, Recent, TypeOK
    <3>2. IsFiniteSet(Recent(k)) /\ Cardinality(Recent(k)) \in Nat
          /\ Cardinality(Live(k)) \in Nat
          /\ Cardinality(Recent(k)) <= Cardinality(Live(k))
      BY <1>0, <2>1, RecentCounted
    <3> DEFINE Others == StampedIn(k, t, j)' \ {r}
    <3>3. IsFiniteSet(Others) /\ Cardinality(Others) <= Cardinality(Recent(k))
          /\ Cardinality(Others) \in Nat
      BY <3>1, <3>2, FS_Subset, FS_CardinalityType
    <3>4. r \in StampedIn(k, t, j)'
      BY <1>0, <1>5, <2>2, LimitsAssumption DEF LetThrough, StampedIn, TypeOK
    <3>5. StampedIn(k, t, j)' = Others \cup {r} /\ r \notin Others
      BY <3>4
    <3>6. Cardinality(StampedIn(k, t, j)') = Cardinality(Others) + 1
      <4> HIDE DEF Others
      <4>1. QED
        BY <3>3, <3>5, FS_AddElement
    <3>7. Cardinality(Live(k)) < lim[r].rpm /\ lim[r].rpm \in Nat
      BY <1>5, <2>2, LimitsAssumption DEF LetThrough, Limits
    <3>8. QED
      <4> HIDE DEF Others
      <4>1. QED
        BY <1>0, <2>2, <3>2, <3>3, <3>6, <3>7
  <2>3. CASE ~(key[r] = k /\ lim[r].rpm <= j /\ t = now)
    <3>1. StampedIn(k, t, j)' = StampedIn(k, t, j)
      BY <1>0, <1>5, <2>1, <2>3 DEF LetThrough, StampedIn, TypeOK
    <3>2. QED
      BY <1>1, <2>1, <3>1
  <2>4. QED
    BY <2>2, <2>3
<1>6. QED
  BY <1>3, <1>4, <1>5, WindowSteps

(***************************************************************************)
(* rate_limit_rpm: in no interval of Window ticks, wherever it starts, more *)
(* than j calls of an existing key are let through under a limit of j.     *)
(***************************************************************************)
THEOREM RpmLimit == Spec => []RpmRespected
<1>1. Init => WindowInv
  BY FS_EmptySet DEF Init, WindowInv
<1>2. Init => RpmRespected
  <2> SUFFICES ASSUME Init, NEW k \in Keys, NEW t \in 0..now, NEW j \in Rpms \ {0}
               PROVE  Cardinality(StampedIn(k, t, j)) <= j
    BY DEF RpmRespected
  <2>1. StampedIn(k, t, j) = {}
    BY DEF Init, StampedIn
  <2>2. QED
    BY <2>1, FS_EmptySet, LimitsAssumption
<1>3. QED
  BY InitIInv, StepIInv, StepWindow, StepRpm, <1>1, <1>2, PTL DEF Spec

=============================================================================
