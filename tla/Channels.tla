------------------------------- MODULE Channels -------------------------------
(***************************************************************************)
(* The upstream channels (table providers) as the router sees and changes   *)
(* them: router/selector.rs (selection, channel affinity, the recording of  *)
(* successes and failures, automatic disabling), the health-check round of  *)
(* router/health.rs, the model tests of router/model_test.rs and the admin  *)
(* handlers of api/admin/providers.rs.                                     *)
(*                                                                         *)
(* Whoever forwards a request posts verdicts; blocking tasks apply them     *)
(* later, in any order.  All channels here serve the one model in question. *)
(* Latency and error rate only weigh the random pick, so that any candidate *)
(* may be picked.                                                          *)
(***************************************************************************)
EXTENDS ChannelParams

CONSTANTS
  Lanes,      \* (API key, model) pairs that a channel can be pinned for
  Posts       \* identities of posted verdicts and pins: one per attempt

\* What an attempt reports: a success, a fault of the channel (transport
\* error, 408, 5xx, unusable body), 429, 401/403, or a client error.
Class == {"ok", "fault", "limited", "auth", "client"}

Verdict == [post : Posts, p : Providers, class : Class, count : BOOLEAN]
Pin == [post : Posts, lane : Lanes, p : Providers]

VARIABLES
  row,        \* the providers table
  pin,        \* channel_affinity (no foreign key: a pin may dangle)
  verdicts,   \* posted and not yet applied
  pins,       \* posted pins not yet written
  probing,    \* channels whose health is being probed
  edits       \* admin edits so far (for the bound)

vars == <<row, pin, verdicts, pins, probing, edits>>

Exists(p) == row[p] \notin {Unused, Deleted}
Active == {p \in Providers : Exists(p) /\ row[p].active}

TypeOK ==
  /\ row \in [Providers -> Row \cup {Unused, Deleted}]
  /\ pin \in [Lanes -> Providers \cup {NULL}]
  /\ verdicts \subseteq Verdict
  /\ pins \subseteq Pin
  /\ probing \subseteq Providers
  /\ edits \in 0..MaxEdits

Created(k) == [active |-> TRUE, healthy |-> TRUE, fails |-> 0, reason |-> "", key |-> k]

Init ==
  /\ row \in [Providers -> {Created(k) : k \in KeyState} \cup {Unused}]
  /\ pin = [l \in Lanes |-> NULL]
  /\ verdicts = {} /\ pins = {} /\ probing = {} /\ edits = 0

-----------------------------------------------------------------------------
(***************************************************************************)
(* Selection.                                                              *)
(***************************************************************************)

\* affinity_usable, for the pin of a lane (requests without an API key have
\* none).
PinUsable(l, exclude) ==
  /\ l \in Lanes /\ pin[l] \in Active \ exclude
  /\ row[pin[l]].healthy /\ row[pin[l]].key # "broken"

\* A selection that forgets which channels were tried.
UntriedForgotten(exclude) == Active

\* Channels not tried yet, or all of them once every one was.
Untried(exclude) == IF Active \ exclude = {} THEN Active ELSE Active \ exclude

Preferred(S) ==
  LET H == {p \in S : row[p].healthy} IN IF H = {} THEN S ELSE H

\* The channels select_provider may return; none when the set is empty.
Choice(l, exclude) ==
  IF PinUsable(l, exclude) THEN {pin[l]} ELSE Preferred(Untried(exclude))

-----------------------------------------------------------------------------
(***************************************************************************)
(* The recording of what attempts met.                                     *)
(***************************************************************************)

Counts(v) == v.count /\ v.class = "fault"

\* A channel's row after record_request_result or record_failure.
Judged(c, v) ==
  LET n == IF Counts(v) THEN c.fails + 1 ELSE c.fails IN
  CASE v.class = "ok" -> [c EXCEPT !.fails = 0]
    [] v.class = "auth" -> [c EXCEPT !.active = FALSE, !.reason = "auth"]
    [] Counts(v) /\ n >= Threshold ->
         [c EXCEPT !.fails = n, !.active = FALSE, !.reason = "failures"]
    [] OTHER -> [c EXCEPT !.fails = n]

\* The blocking task of spawn_record_result or spawn_record_failure; a channel
\* that is gone is left gone.
ApplyVerdict(v) ==
  /\ v \in verdicts
  /\ verdicts' = verdicts \ {v}
  /\ Exists(v.p) => Judged(row[v.p], v).fails <= MaxFails
  /\ row' = IF Exists(v.p) THEN [row EXCEPT ![v.p] = Judged(@, v)] ELSE row
  /\ UNCHANGED <<pin, pins, probing, edits>>

\* pin_channel.
WritePin(t) ==
  /\ t \in pins
  /\ pins' = pins \ {t}
  /\ pin' = [pin EXCEPT ![t.lane] = t.p]
  /\ UNCHANGED <<row, verdicts, probing, edits>>

\* What forwarding requests adds: it posts verdicts and pins, and touches
\* nothing else.
Posting(V, P) ==
  /\ verdicts' = verdicts \cup V
  /\ pins' = pins \cup P
  /\ UNCHANGED <<row, pin, probing, edits>>

\* An attempt has one verdict and one pin under way at a time.
FreeVerdict == {v \in Verdict : \A w \in verdicts : w.post # v.post}
FreePin == {t \in Pin : \A u \in pins : u.post # t.post}

Forwarding ==
  \/ \E v \in FreeVerdict : Posting({v}, {})
  \/ \E t \in FreePin : Posting({}, {t})
  \/ \E v \in FreeVerdict, t \in FreePin : Posting({v}, {t})

-----------------------------------------------------------------------------
(***************************************************************************)
(* Probes and the admin.                                                   *)
(***************************************************************************)

\* A health round takes the active channels, a manual test any one.
StartProbe ==
  /\ probing = {}
  /\ \/ probing' = Active
     \/ \E p \in Providers : Exists(p) /\ probing' = {p}
  /\ UNCHANGED <<row, pin, verdicts, pins, edits>>

\* The outcomes are written by id, whatever became of the rows meanwhile.
EndProbe ==
  /\ probing # {}
  /\ \E h \in [probing -> BOOLEAN] :
       row' = [p \in Providers |->
                 IF p \in probing /\ Exists(p) THEN [row[p] EXCEPT !.healthy = h[p]]
                 ELSE row[p]]
  /\ probing' = {}
  /\ UNCHANGED <<pin, verdicts, pins, edits>>

\* A model test that passes counts as a success; one that fails only weighs
\* the error rate.
ModelTest(p) ==
  /\ Exists(p)
  /\ row' = [row EXCEPT ![p].fails = 0]
  /\ UNCHANGED <<pin, verdicts, pins, probing, edits>>

Edited == edits < MaxEdits /\ edits' = edits + 1

\* A new channel, or a copy of one with its stored credential.
CreateProvider(p, k) ==
  /\ row[p] = Unused /\ Edited
  /\ k # "broken" \/ \E q \in Providers : Exists(q) /\ row[q].key = k
  /\ row' = [row EXCEPT ![p] = Created(k)]
  /\ UNCHANGED <<pin, verdicts, pins, probing>>

\* Re-enabling that keeps the failures counted so far.
EnabledStale(c) == [c EXCEPT !.active = TRUE, !.reason = ""]

\* is_active = true clears what the automatic disabling left.
Enabled(c) == [c EXCEPT !.active = TRUE, !.reason = "", !.fails = 0]

\* update_provider may replace the credential and switch the channel.
UpdateProvider(p, k, switch) ==
  /\ Exists(p) /\ Edited
  /\ k # "broken" \/ k = row[p].key
  /\ LET c == [row[p] EXCEPT !.key = k] IN
     row' = [row EXCEPT ![p] = CASE switch = "on" -> Enabled(c)
                                 [] switch = "off" -> [c EXCEPT !.active = FALSE]
                                 [] switch = "keep" -> c]
  /\ UNCHANGED <<pin, verdicts, pins, probing>>

DeleteProvider(p) ==
  /\ Exists(p) /\ Edited
  /\ row' = [row EXCEPT ![p] = Deleted]
  /\ UNCHANGED <<pin, verdicts, pins, probing>>

Recording == (\E v \in verdicts : ApplyVerdict(v)) \/ (\E t \in pins : WritePin(t))

Housekeeping ==
  \/ StartProbe \/ EndProbe
  \/ \E p \in Providers : ModelTest(p) \/ DeleteProvider(p)
  \/ \E p \in Providers, k \in KeyState : CreateProvider(p, k)
  \/ \E p \in Providers, k \in KeyState, s \in {"on", "off", "keep"} :
       UpdateProvider(p, k, s)

Next == Forwarding \/ Recording \/ Housekeeping

Spec == Init /\ [][Next]_vars

-----------------------------------------------------------------------------
(***************************************************************************)
(* Properties.                                                             *)
(***************************************************************************)

\* A channel in service is below the threshold and carries no reason for
\* being disabled, in whatever order verdicts, tests and edits arrive: no
\* disabling is missed, and none survives a manual re-enable.
InServiceIsSound ==
  \A p \in Active : row[p].fails < Threshold /\ row[p].reason = ""

=============================================================================
