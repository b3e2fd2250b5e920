------------------------------ MODULE KeyLimits ------------------------------
(***************************************************************************)
(* Per-API-key limits of the gateway: enforce_key_limits and the           *)
(* ConcurrencyGuard of api/proxy/chat.rs, the two in-memory maps of        *)
(* AppState they work on (api_key_rate, api_key_inflight), and the handlers *)
(* that edit or delete the key meanwhile (api/auth.rs).                    *)
(*                                                                         *)
(* One request is one client call of /v1.  enforce_key_limits is not       *)
(* atomic: it reads the key's row on a blocking thread, then takes the     *)
(* mutex of the RPM windows, then the mutex of the in-flight counts, so    *)
(* requests, owners and the clock interleave between those sections.       *)
(***************************************************************************)
EXTENDS Integers, FiniteSets

CONSTANTS
  Keys,       \* api_keys.id
  Requests,   \* client calls; each runs once
  Window,     \* length of the sliding window (60 s), in clock ticks
  MaxNow,     \* bound on the clock
  Rpms,       \* values the owner may give rate_limit_rpm (0 = unlimited)
  Caps,       \* values the owner may give max_concurrent (0 = unlimited)
  Quotas,     \* values the owner may give quota_daily_tokens (0 = unlimited)
  Tokens,     \* total_tokens one call may turn out to use
  NULL        \* "no row", "no snapshot", "not admitted"

ASSUME LimitsAssumption ==
  /\ IsFiniteSet(Requests)
  /\ Window \in Nat \ {0}
  /\ MaxNow \in Nat
  /\ Rpms \subseteq Nat /\ Caps \subseteq Nat /\ Quotas \subseteq Nat
  /\ Tokens \subseteq Nat
  /\ NULL \notin Keys /\ NULL \notin Nat

Limits == [rpm : Rpms, cap : Caps, quota : Quotas]

ASSUME NullIsNoLimit == NULL \notin Limits

VARIABLES
  now,        \* Instant::now()
  row,        \* the api_keys row of a key: its limits, or NULL once deleted
  used,       \* total_tokens logged for the key today
  rate,       \* api_key_rate: the stamps in the key's window ({} = no entry)
  inflight,   \* api_key_inflight (0 = no entry)
  dropping,   \* keys whose row is deleted and whose window is not yet removed
  pc,         \* where each request is
  key,        \* the key a request authenticated with
  lim,        \* the limits a request read (NULL: not read, or the query failed)
  held,       \* requests that own a ConcurrencyGuard
  admitted    \* history: the instant a request was let through the RPM check

mapVars == <<rate, inflight>>
reqVars == <<pc, key, lim, held, admitted>>
vars == <<now, row, used, rate, inflight, dropping, pc, key, lim, held, admitted>>

Stamp == [req : Requests, at : 0..MaxNow]
PC == {"idle", "limits", "rpm", "slot", "run", "billed", "aborted", "done", "rejected"}

TypeOK ==
  /\ now \in 0..MaxNow
  /\ row \in [Keys -> Limits \cup {NULL}]
  /\ used \in [Keys -> Nat]
  /\ rate \in [Keys -> SUBSET Stamp]
  /\ inflight \in [Keys -> Nat]
  /\ dropping \subseteq Keys
  /\ pc \in [Requests -> PC]
  /\ key \in [Requests -> Keys \cup {NULL}]
  /\ lim \in [Requests -> Limits \cup {NULL}]
  /\ held \subseteq Requests
  /\ admitted \in [Requests -> 0..MaxNow \cup {NULL}]

Init ==
  /\ now = 0
  /\ row \in [Keys -> Limits]
  /\ used = [k \in Keys |-> 0]
  /\ rate = [k \in Keys |-> {}]
  /\ inflight = [k \in Keys |-> 0]
  /\ dropping = {}
  /\ pc = [r \in Requests |-> "idle"]
  /\ key = [r \in Requests |-> NULL]
  /\ lim = [r \in Requests |-> NULL]
  /\ held = {}
  /\ admitted = [r \in Requests |-> NULL]

-----------------------------------------------------------------------------
(***************************************************************************)
(* The steps of a request.                                                 *)
(***************************************************************************)

Goto(r, l) == pc' = [pc EXCEPT ![r] = l]

\* The request authenticates: the key's row exists at that moment.
Authenticate(r, k) ==
  /\ pc[r] = "idle" /\ row[k] # NULL
  /\ key' = [key EXCEPT ![r] = k]
  /\ Goto(r, "limits")
  /\ UNCHANGED <<now, row, used, mapVars, dropping, lim, held, admitted>>

\* The query for the limits fails (lock, I/O) or finds no row any more:
\* the request is let through without any enforcement.
FailOpen(r) ==
  /\ pc[r] = "limits"
  /\ Goto(r, "run")
  /\ UNCHANGED <<now, row, used, mapVars, dropping, key, lim, held, admitted>>

\* The row and today's usage are read together; the daily quota is checked
\* against that snapshot.
ReadLimits(r) ==
  LET k == key[r] IN
  /\ pc[r] = "limits" /\ row[k] # NULL
  /\ lim' = [lim EXCEPT ![r] = row[k]]
  /\ IF row[k].quota > 0 /\ used[k] >= row[k].quota
     THEN Goto(r, "rejected")
     ELSE Goto(r, "rpm")
  /\ UNCHANGED <<now, row, used, mapVars, dropping, key, held, admitted>>

\* A window pruned one tick too early.
LivePrunedEarly(k) == {s \in rate[k] : now - s.at < Window - 1}

\* Stamps of the key's window that are still inside it.
Live(k) == {s \in rate[k] : now - s.at < Window}

\* Under the mutex of api_key_rate: prune the own window, reject when it is
\* full, otherwise stamp it.
CheckRpm(r) ==
  LET k == key[r] IN
  /\ pc[r] = "rpm"
  /\ \/ /\ lim[r].rpm = 0
        /\ Goto(r, "slot")
        /\ UNCHANGED <<rate, admitted>>
     \/ /\ lim[r].rpm > 0 /\ Cardinality(Live(k)) >= lim[r].rpm
        /\ rate' = [rate EXCEPT ![k] = Live(k)]
        /\ Goto(r, "rejected")
        /\ UNCHANGED admitted
     \/ /\ lim[r].rpm > 0 /\ Cardinality(Live(k)) < lim[r].rpm
        /\ rate' = [rate EXCEPT ![k] = Live(k) \cup {[req |-> r, at |-> now]}]
        /\ admitted' = [admitted EXCEPT ![r] = now]
        /\ Goto(r, "slot")
  /\ UNCHANGED <<now, row, used, inflight, dropping, key, lim, held>>

\* The cap compared with > instead of >=.
AtCapOffByOne(n, cap) == n > cap

AtCap(n, cap) == n >= cap

\* Under the mutex of api_key_inflight: reject at the cap, otherwise count the
\* request and hand it a guard.
TakeSlot(r) ==
  LET k == key[r] IN
  /\ pc[r] = "slot"
  /\ \/ /\ lim[r].cap = 0
        /\ Goto(r, "run")
        /\ UNCHANGED <<inflight, held>>
     \/ /\ lim[r].cap > 0 /\ AtCap(inflight[k], lim[r].cap)
        /\ Goto(r, "rejected")
        /\ UNCHANGED <<inflight, held>>
     \/ /\ lim[r].cap > 0 /\ ~AtCap(inflight[k], lim[r].cap)
        /\ inflight' = [inflight EXCEPT ![k] = @ + 1]
        /\ held' = held \cup {r}
        /\ Goto(r, "run")
  /\ UNCHANGED <<now, row, used, rate, dropping, key, lim, admitted>>

\* The call ends and its usage is logged while the guard is still alive.
Bill(r, t) ==
  /\ pc[r] = "run"
  /\ used' = [used EXCEPT ![key[r]] = @ + t]
  /\ Goto(r, "billed")
  /\ UNCHANGED <<now, row, mapVars, dropping, key, lim, held, admitted>>

\* A guard whose drop does not give the slot back.
DropGuardLeaks(r) == held' = held \ {r} /\ UNCHANGED inflight

\* ConcurrencyGuard::drop.
DropGuard(r) ==
  IF r \in held
  THEN /\ inflight' = [inflight EXCEPT ![key[r]] = @ - 1]
       /\ held' = held \ {r}
  ELSE UNCHANGED <<inflight, held>>

Finish(r) ==
  /\ pc[r] = "billed"
  /\ DropGuard(r)
  /\ Goto(r, "done")
  /\ UNCHANGED <<now, row, used, rate, dropping, key, lim, admitted>>

\* The handler or the stream generator is dropped: the guard goes at once, a
\* log of the usage captured so far is written later by a detached task.
Abort(r) ==
  /\ pc[r] = "run"
  /\ DropGuard(r)
  /\ Goto(r, "aborted")
  /\ UNCHANGED <<now, row, used, rate, dropping, key, lim, admitted>>

LateBill(r, t) ==
  /\ pc[r] = "aborted"
  /\ used' = [used EXCEPT ![key[r]] = @ + t]
  /\ Goto(r, "done")
  /\ UNCHANGED <<now, row, mapVars, dropping, key, lim, held, admitted>>

-----------------------------------------------------------------------------
(***************************************************************************)
(* The owner and the clock.                                                *)
(***************************************************************************)

UpdateApiKey(k, l) ==
  /\ row[k] # NULL
  /\ row' = [row EXCEPT ![k] = l]
  /\ UNCHANGED <<now, used, mapVars, dropping, reqVars>>

\* delete_api_key: the DELETE commits first, the window goes after it under
\* the other mutex.  The in-flight count is left to the guards.
DeleteApiKey(k) ==
  /\ row[k] # NULL
  /\ row' = [row EXCEPT ![k] = NULL]
  /\ dropping' = dropping \cup {k}
  /\ UNCHANGED <<now, used, mapVars, reqVars>>

DropWindow(k) ==
  /\ k \in dropping
  /\ rate' = [rate EXCEPT ![k] = {}]
  /\ dropping' = dropping \ {k}
  /\ UNCHANGED <<now, row, used, inflight, reqVars>>

Tick ==
  /\ now < MaxNow
  /\ now' = now + 1
  /\ UNCHANGED <<row, used, mapVars, dropping, reqVars>>

Serve(r) ==
  \/ ReadLimits(r) \/ FailOpen(r) \/ CheckRpm(r) \/ TakeSlot(r)
  \/ Finish(r) \/ Abort(r)
  \/ \E t \in Tokens : Bill(r, t) \/ LateBill(r, t)

Next ==
  \/ \E r \in Requests, k \in Keys : Authenticate(r, k)
  \/ \E r \in Requests : Serve(r)
  \/ \E k \in Keys, l \in Limits : UpdateApiKey(k, l)
  \/ \E k \in Keys : DeleteApiKey(k) \/ DropWindow(k)
  \/ Tick

Spec == Init /\ [][Next]_vars

\* A request that started is driven to its end: every wait inside it is
\* bounded by a timeout (request, stream idle, overall deadline).  Clients,
\* owners and the clock owe nothing.
FairSpec == Spec /\ \A r \in Requests : WF_vars(Serve(r))

-----------------------------------------------------------------------------
(***************************************************************************)
(* Properties.                                                             *)
(***************************************************************************)

Holders(k) == {r \in held : key[r] = k}

\* The in-flight count of a key is exactly the number of live guards, whatever
\* mix of rejections, aborts and fail-open calls has happened: no leaked slot,
\* no slot given back twice (so no underflow in ConcurrencyGuard::drop).
SlotsCounted == \A k \in Keys : inflight[k] = Cardinality(Holders(k))

\* max_concurrent under interleaved admissions and owners who change the cap:
\* of the guarded requests of a key, at most j were let in under a cap of at
\* most j.  With a constant cap c this is "never more than c in flight".
CapRespected ==
  \A k \in Keys : \A j \in Caps :
    Cardinality({r \in Holders(k) : lim[r].cap <= j}) <= j

\* Requests of key k stamped in the Window ticks that end at t, under a limit
\* of at most j per window.
StampedIn(k, t, j) ==
  {r \in Requests : /\ key[r] = k /\ admitted[r] # NULL
                    /\ admitted[r] <= t /\ t - admitted[r] < Window
                    /\ lim[r].rpm <= j}

\* rate_limit_rpm: in no window of time, wherever it starts, more than j calls
\* are let through under a limit of at most j, as long as the key exists (its
\* deletion forgets the window).
RpmRespected ==
  \A k \in Keys : row[k] # NULL =>
    \A t \in 0..now : \A j \in Rpms \ {0} : Cardinality(StampedIn(k, t, j)) <= j

\* Every slot comes back: once the clients stop calling, no key has anything
\* in flight.
SlotsDrain == <>[](\A k \in Keys : inflight[k] = 0)

-----------------------------------------------------------------------------
(***************************************************************************)
(* The abstract specification: a pool of slots per key.                    *)
(***************************************************************************)

Slots == INSTANCE SlotPool WITH Clients <- Requests,
                                holders <- [k \in Keys |-> Holders(k)]

SlotsSpec == Slots!Spec

=============================================================================
