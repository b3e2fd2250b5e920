---------------------------- MODULE FailoverProofs ----------------------------
(***************************************************************************)
(* Forwarding, for any number of calls, channels, lanes and attempts.       *)
(*                                                                         *)
(* The calls implement the environment of module Channels: whatever they do *)
(* to the channels is posting verdicts and pins, each under an identity of  *)
(* its own.  What is proved of Channels then holds of the composition.      *)
(***************************************************************************)
EXTENDS Failover, FiniteSetTheorems, TLAPS

(***************************************************************************)
(* The channels alone: a channel in service is sound, for every set of      *)
(* channels, lanes and attempts, every threshold and every order in which   *)
(* verdicts, pins, probes, model tests and edits arrive.                   *)
(***************************************************************************)

RowsOK == row \in [Providers -> C!Row \cup {Unused, Deleted}]

\* One row: what "in service" promises of it.
RowSound(c) == c.active => c.fails < Threshold /\ c.reason = ""

AllSound == \A p \in Providers : C!Exists(p) => RowSound(row[p])

ChannelsInv == C!TypeOK /\ AllSound

LEMMA SoundEquiv ==
  ASSUME ChannelsInv PROVE C!InServiceIsSound
  BY DEF ChannelsInv, AllSound, RowSound, C!InServiceIsSound, C!Active

\* A row that exists is a row, and no row is taken for Unused or Deleted.
LEMMA RowOfExisting ==
  ASSUME RowsOK, NEW p \in Providers, C!Exists(p)
  PROVE row[p] \in C!Row
  BY DEF RowsOK, C!Exists

\* What the fields of a row are.
LEMMA FieldsOfRow ==
  ASSUME NEW c \in C!Row
  PROVE  c.active \in BOOLEAN /\ c.fails \in Nat /\ c.fails <= MaxFails
<1>1. c.active \in BOOLEAN /\ c.fails \in 0..MaxFails
  BY DEF C!Row
<1> QED BY <1>1, ChannelsAssumption

\* Counting leaves a row.
LEMMA FailsBounded ==
  ASSUME NEW m \in Nat, m <= MaxFails PROVE m \in 0..MaxFails
  BY ChannelsAssumption

LEMMA RowUpdates ==
  ASSUME NEW c \in C!Row, NEW m \in 0..MaxFails
  PROVE  /\ [c EXCEPT !.fails = m] \in C!Row
         /\ [c EXCEPT !.fails = m, !.active = FALSE, !.reason = "failures"] \in C!Row
         /\ [c EXCEPT !.active = TRUE, !.reason = "", !.fails = m] \in C!Row
<1>1. [c EXCEPT !.fails = m] \in C!Row
  BY DEF C!Row
<1>2. [c EXCEPT !.fails = m, !.active = FALSE, !.reason = "failures"] \in C!Row
  BY DEF C!Row
<1>3. [c EXCEPT !.active = TRUE, !.reason = "", !.fails = m] \in C!Row
  BY DEF C!Row
<1> QED BY <1>1, <1>2, <1>3

LEMMA NewRowSound ==
  ASSUME NEW k \in C!KeyState
  PROVE C!Created(k) \in C!Row /\ RowSound(C!Created(k))
  BY ChannelsAssumption DEF C!Created, C!Row, RowSound

\* What a verdict makes of a sound row is a sound row.
LEMMA JudgedSound ==
  ASSUME NEW c \in C!Row, NEW v \in C!Verdict, RowSound(c), C!Judged(c, v).fails <= MaxFails
  PROVE C!Judged(c, v) \in C!Row /\ RowSound(C!Judged(c, v))
<1> DEFINE m == IF C!Counts(v) THEN c.fails + 1 ELSE c.fails
<1>1. m \in Nat /\ 0 \in 0..MaxFails /\ 0 < Threshold
  BY FieldsOfRow, ChannelsAssumption
<1>2. c.active => c.fails < Threshold /\ c.reason = ""
  BY DEF RowSound
<1>4. CASE v.class = "ok"
  <2>1. C!Judged(c, v) = [c EXCEPT !.fails = 0]
    BY <1>4 DEF C!Judged, C!Counts
  <2>2. [c EXCEPT !.fails = 0] \in C!Row
    BY <1>1, RowUpdates
  <2>3. RowSound([c EXCEPT !.fails = 0])
    BY <1>1, <1>2 DEF C!Row, RowSound
  <2> QED BY <2>1, <2>2, <2>3
<1>5. CASE v.class = "auth"
  <2>1. C!Judged(c, v) = [c EXCEPT !.active = FALSE, !.reason = "auth"]
    BY <1>5 DEF C!Judged, C!Counts
  <2>2. [c EXCEPT !.active = FALSE, !.reason = "auth"] \in C!Row
    BY DEF C!Row
  <2>3. RowSound([c EXCEPT !.active = FALSE, !.reason = "auth"])
    BY DEF C!Row, RowSound
  <2> QED BY <2>1, <2>2, <2>3
<1>6. CASE v.class \notin {"ok", "auth"} /\ C!Counts(v) /\ m >= Threshold
  <2> DEFINE d == [c EXCEPT !.fails = m, !.active = FALSE, !.reason = "failures"]
  <2>1. C!Judged(c, v) = d
    BY <1>6 DEF C!Judged, C!Counts
  <2>2. d.fails = m /\ ~d.active
    BY DEF C!Row
  <2>3. m \in 0..MaxFails
    <3> HIDE DEF d, m
    <3> QED BY <1>1, <2>1, <2>2, FailsBounded
  <2>. HIDE DEF m
  <2>5. d \in C!Row
    BY <2>3, RowUpdates
  <2>4. RowSound(d)
    BY <2>2 DEF RowSound
  <2> QED BY <2>1, <2>4, <2>5
<1>7. CASE v.class \notin {"ok", "auth"} /\ ~(C!Counts(v) /\ m >= Threshold)
  <2> DEFINE d == [c EXCEPT !.fails = m]
  <2>1. C!Judged(c, v) = d
    BY <1>7 DEF C!Judged, C!Counts
  <2>2. d.fails = m /\ d.active = c.active /\ d.reason = c.reason
    BY DEF C!Row
  <2>3. m \in 0..MaxFails
    <3> HIDE DEF d, m
    <3> QED BY <1>1, <2>1, <2>2, FailsBounded
  <2>4. c.active => m < Threshold
    <3>1. CASE C!Counts(v)
      <4>1. m \in Nat /\ Threshold \in Nat /\ ~(m >= Threshold)
        BY <1>1, <1>7, <3>1, ChannelsAssumption
      <4> HIDE DEF m
      <4> QED BY <4>1
    <3>2. CASE ~C!Counts(v)
      BY <1>2, <3>2
    <3> QED BY <3>1, <3>2
  <2>. HIDE DEF m
  <2>5. d \in C!Row
    BY <2>3, RowUpdates
  <2>6. RowSound(d)
    <3> HIDE DEF d
    <3> QED BY <1>2, <2>2, <2>4 DEF RowSound
  <2> QED BY <2>1, <2>5, <2>6
<1> QED BY <1>4, <1>5, <1>6, <1>7

-----------------------------------------------------------------------------
\* A step that replaces the row of one channel by a sound row keeps them all
\* sound.
LEMMA OneRowReplaced ==
  ASSUME RowsOK, AllSound, NEW p \in Providers, NEW c \in C!Row, RowSound(c),
         row' = [row EXCEPT ![p] = c]
  PROVE RowsOK' /\ AllSound'
<1>1. RowsOK'
  BY DEF RowsOK
<1>2. \A q \in Providers : row'[q] = (IF q = p THEN c ELSE row[q])
  BY DEF RowsOK
<1>3. AllSound'
  BY <1>2 DEF AllSound, C!Exists
<1> QED BY <1>1, <1>3

LEMMA SameRows ==
  ASSUME RowsOK, AllSound, row' = row
  PROVE RowsOK' /\ AllSound'
  BY DEF RowsOK, AllSound, C!Exists

LEMMA ApplyVerdictSound ==
  ASSUME ChannelsInv, NEW v \in verdicts, C!ApplyVerdict(v)
  PROVE RowsOK' /\ AllSound'
<1>1. RowsOK /\ AllSound /\ v \in C!Verdict /\ v.p \in Providers
  BY DEF ChannelsInv, C!TypeOK, RowsOK, C!Verdict
<1>2. CASE ~C!Exists(v.p)
  BY <1>1, <1>2, SameRows DEF C!ApplyVerdict
<1>3. CASE C!Exists(v.p)
  <2>1. row[v.p] \in C!Row /\ RowSound(row[v.p])
    BY <1>1, <1>3, RowOfExisting DEF AllSound
  <2>2. C!Judged(row[v.p], v).fails <= MaxFails
    BY <1>3 DEF C!ApplyVerdict
  <2>3. C!Judged(row[v.p], v) \in C!Row /\ RowSound(C!Judged(row[v.p], v))
    BY <1>1, <2>1, <2>2, JudgedSound
  <2>4. row' = [row EXCEPT ![v.p] = C!Judged(row[v.p], v)]
    BY <1>3 DEF C!ApplyVerdict
  <2> QED BY <1>1, <2>3, <2>4, OneRowReplaced
<1> QED BY <1>2, <1>3

\* The outcomes of a probe only touch the health of rows that exist.
LEMMA EndProbeSound ==
  ASSUME ChannelsInv, C!EndProbe
  PROVE RowsOK' /\ AllSound'
<1>1. RowsOK /\ AllSound
  BY DEF ChannelsInv, C!TypeOK, RowsOK
<1>2. PICK h \in [probing -> BOOLEAN] :
        row' = [p \in Providers |->
                  IF p \in probing /\ C!Exists(p) THEN [row[p] EXCEPT !.healthy = h[p]]
                  ELSE row[p]]
  BY DEF C!EndProbe
<1>3. ASSUME NEW p \in Providers
      PROVE /\ row'[p] \in C!Row \cup {Unused, Deleted}
            /\ C!Exists(p)' => RowSound(row[p])'
  <2>1. CASE p \in probing /\ C!Exists(p)
    <3>1. row'[p] = [row[p] EXCEPT !.healthy = h[p]] /\ h[p] \in BOOLEAN
      BY <1>2, <2>1
    <3>2. row[p] \in C!Row /\ RowSound(row[p])
      BY <1>1, <2>1, RowOfExisting DEF AllSound
    <3> QED BY <3>1, <3>2 DEF C!Row, RowSound
  <2>2. CASE ~(p \in probing /\ C!Exists(p))
    BY <1>1, <1>2, <2>2 DEF RowsOK, AllSound, C!Exists
  <2> QED BY <2>1, <2>2
<1>4. row' = [p \in Providers |-> row'[p]]
  BY <1>2
<1> QED BY <1>3, <1>4 DEF RowsOK, AllSound

LEMMA ModelTestSound ==
  ASSUME ChannelsInv, NEW p \in Providers, C!ModelTest(p)
  PROVE RowsOK' /\ AllSound'
<1>1. RowsOK /\ AllSound /\ C!Exists(p)
  BY DEF ChannelsInv, C!TypeOK, RowsOK, C!ModelTest
<1>2. row[p] \in C!Row /\ RowSound(row[p])
  BY <1>1, RowOfExisting DEF AllSound
<1>3. [row[p] EXCEPT !.fails = 0] \in C!Row /\ RowSound([row[p] EXCEPT !.fails = 0])
  <2>1. 0 \in 0..MaxFails /\ 0 < Threshold
    BY ChannelsAssumption
  <2>2. [row[p] EXCEPT !.fails = 0] \in C!Row
    BY <1>2, <2>1, RowUpdates
  <2>3. RowSound([row[p] EXCEPT !.fails = 0])
    BY <1>2, <2>1 DEF C!Row, RowSound
  <2> QED BY <2>2, <2>3
<1>4. row' = [row EXCEPT ![p] = [row[p] EXCEPT !.fails = 0]]
  BY DEF C!ModelTest
<1> QED BY <1>1, <1>3, <1>4, OneRowReplaced

LEMMA UpdateProviderSound ==
  ASSUME ChannelsInv, NEW p \in Providers, NEW k \in C!KeyState,
         NEW s \in {"on", "off", "keep"}, C!UpdateProvider(p, k, s)
  PROVE RowsOK' /\ AllSound'
<1> DEFINE c == [row[p] EXCEPT !.key = k]
           d == CASE s = "on" -> C!Enabled(c) [] s = "off" -> [c EXCEPT !.active = FALSE]
                  [] s = "keep" -> c
<1>1. RowsOK /\ AllSound /\ C!Exists(p)
  BY DEF ChannelsInv, C!TypeOK, RowsOK, C!UpdateProvider
<1>2. row[p] \in C!Row /\ RowSound(row[p])
  BY <1>1, RowOfExisting DEF AllSound
<1>3. c \in C!Row /\ RowSound(c)
  BY <1>2 DEF C!Row, RowSound
<1>4. C!Enabled(c) \in C!Row /\ RowSound(C!Enabled(c))
  <2>1. 0 \in 0..MaxFails /\ 0 < Threshold
    BY ChannelsAssumption
  <2> HIDE DEF c
  <2>2. C!Enabled(c) \in C!Row
    BY <1>3, <2>1, RowUpdates DEF C!Enabled
  <2>3. RowSound(C!Enabled(c))
    BY <1>3, <2>1 DEF C!Enabled, C!Row, RowSound
  <2> QED BY <2>2, <2>3
<1>5. [c EXCEPT !.active = FALSE] \in C!Row /\ RowSound([c EXCEPT !.active = FALSE])
  BY <1>3 DEF C!Row, RowSound
<1>6. row' = [row EXCEPT ![p] = d]
  BY DEF C!UpdateProvider
<1> HIDE DEF c
<1>7. d \in C!Row /\ RowSound(d)
  BY <1>3, <1>4, <1>5
<1> HIDE DEF d
<1> QED BY <1>1, <1>6, <1>7, OneRowReplaced

-----------------------------------------------------------------------------
LEMMA InitSound == C!Init => ChannelsInv
<1> SUFFICES ASSUME C!Init PROVE ChannelsInv
  OBVIOUS
<1>1. RowsOK /\ AllSound
  <2>1. ASSUME NEW p \in Providers
        PROVE row[p] = Unused \/ \E k \in C!KeyState : row[p] = C!Created(k)
    BY DEF C!Init
  <2>2. AllSound
    BY <2>1, NewRowSound DEF AllSound, C!Exists
  <2>3. RowsOK
    BY <2>1, NewRowSound DEF C!Init, RowsOK
  <2> QED BY <2>2, <2>3
<1>2. /\ pin \in [Lanes -> Providers \cup {NULL}] /\ verdicts \subseteq C!Verdict
      /\ pins \subseteq C!Pin /\ probing \subseteq Providers /\ edits \in 0..MaxEdits
  BY ChannelsAssumption DEF C!Init
<1> QED BY <1>1, <1>2 DEF ChannelsInv, C!TypeOK, RowsOK

\* Every step keeps the rows well typed and sound.
LEMMA NextSound == ChannelsInv /\ [C!Next]_(C!vars) => RowsOK' /\ AllSound'
<1> SUFFICES ASSUME ChannelsInv, [C!Next]_(C!vars) PROVE RowsOK' /\ AllSound'
  OBVIOUS
<1>1. RowsOK /\ AllSound
  BY DEF ChannelsInv, C!TypeOK, RowsOK
<1>2. CASE C!Forwarding
  BY <1>1, <1>2, SameRows DEF C!Forwarding, C!Posting
<1>3. CASE \E v \in verdicts : C!ApplyVerdict(v)
  BY <1>3, ApplyVerdictSound
<1>4. CASE \E t \in pins : C!WritePin(t)
  BY <1>1, <1>4, SameRows DEF C!WritePin
<1>5. CASE C!StartProbe
  BY <1>1, <1>5, SameRows DEF C!StartProbe
<1>6. CASE C!EndProbe
  BY <1>6, EndProbeSound
<1>7. ASSUME NEW p \in Providers, C!ModelTest(p) PROVE RowsOK' /\ AllSound'
  BY <1>7, ModelTestSound
<1>8. ASSUME NEW p \in Providers, C!DeleteProvider(p) PROVE RowsOK' /\ AllSound'
  <2>1. row' = [row EXCEPT ![p] = Deleted]
    BY <1>8 DEF C!DeleteProvider
  <2>2. \A q \in Providers : row'[q] = (IF q = p THEN Deleted ELSE row[q])
    BY <1>1, <2>1 DEF RowsOK
  <2> QED BY <1>1, <2>1, <2>2 DEF RowsOK, AllSound, C!Exists
<1>9. ASSUME NEW p \in Providers, NEW k \in C!KeyState, C!CreateProvider(p, k)
      PROVE RowsOK' /\ AllSound'
  BY <1>1, <1>9, NewRowSound, OneRowReplaced DEF C!CreateProvider
<1>10. ASSUME NEW p \in Providers, NEW k \in C!KeyState, NEW s \in {"on", "off", "keep"},
              C!UpdateProvider(p, k, s)
       PROVE RowsOK' /\ AllSound'
  BY <1>10, UpdateProviderSound
<1>11. CASE UNCHANGED C!vars
  BY <1>1, <1>11, SameRows DEF C!vars
<1> QED
  BY <1>2, <1>3, <1>4, <1>5, <1>6, <1>7, <1>8, <1>9, <1>10, <1>11
  DEF C!Next, C!Recording, C!Housekeeping

\* ... and the other variables well typed.
LEMMA NextTyped == ChannelsInv /\ [C!Next]_(C!vars) => C!TypeOK'
<1> SUFFICES ASSUME ChannelsInv, [C!Next]_(C!vars) PROVE C!TypeOK'
  OBVIOUS
<1>1. RowsOK'
  BY NextSound
<1>2. C!TypeOK
  BY DEF ChannelsInv
<1> DEFINE Rest == /\ pin \in [Lanes -> Providers \cup {NULL}]
                   /\ verdicts \subseteq C!Verdict
                   /\ pins \subseteq C!Pin
                   /\ probing \subseteq Providers
                   /\ edits \in 0..MaxEdits
<1>3. Rest
  BY <1>2 DEF C!TypeOK
<1>4. C!Active \subseteq Providers
  BY DEF C!Active
<1>5. C!Edited => edits' \in 0..MaxEdits
  BY <1>3, ChannelsAssumption DEF C!Edited
<1>6. ASSUME C!Forwarding PROVE Rest'
  BY <1>3, <1>6 DEF C!Forwarding, C!Posting, C!FreeVerdict, C!FreePin
<1>7. ASSUME C!Recording PROVE Rest'
  BY <1>3, <1>7 DEF C!Recording, C!ApplyVerdict, C!WritePin, C!Pin
<1>8. ASSUME C!Housekeeping PROVE Rest'
  BY <1>3, <1>4, <1>5, <1>8
  DEF C!Housekeeping, C!StartProbe, C!EndProbe, C!ModelTest, C!DeleteProvider, C!CreateProvider,
      C!UpdateProvider
<1>9. ASSUME UNCHANGED C!vars PROVE Rest'
  BY <1>3, <1>9 DEF C!vars
<1>10. Rest'
  BY <1>6, <1>7, <1>8, <1>9 DEF C!Next
<1> QED BY <1>1, <1>10 DEF C!TypeOK, RowsOK

\* The inductive invariant.
LEMMA ChannelsInductive == C!Spec => []ChannelsInv
<1>1. C!Init => ChannelsInv
  BY InitSound
<1>2. ChannelsInv /\ [C!Next]_(C!vars) => ChannelsInv'
  BY NextSound, NextTyped DEF ChannelsInv
<1> QED BY <1>1, <1>2, PTL DEF C!Spec

\* The types of the model are invariant.
THEOREM ChannelTypes == C!Spec => []C!TypeOK
<1>1. ChannelsInv => C!TypeOK
  BY DEF ChannelsInv
<1> QED BY <1>1, ChannelsInductive, PTL

\* A channel in service is below the threshold and carries no disabling
\* reason, whatever the order in which record_failure, model tests, probes and
\* edits reach its row.
THEOREM InServiceSound == C!Spec => []C!InServiceIsSound
<1>1. ChannelsInv => C!InServiceIsSound
  BY SoundEquiv
<1> QED BY <1>1, ChannelsInductive, PTL

-----------------------------------------------------------------------------
(***************************************************************************)
(* The calls as the environment of the channels.                           *)
(***************************************************************************)

\* Types of what a call needs to identify its attempt.
CallOK ==
  /\ pc \in [Requests -> PC]
  /\ lane \in [Requests -> Lanes \cup {NULL}]
  /\ n \in [Requests -> 0..MaxAttempts]
  /\ cur \in [Requests -> Providers \cup {NULL}]
  /\ \A r \in Requests :
       pc[r] \in {"send", "settle", "stream"} => cur[r] \in Providers /\ n[r] # 0

\* What is posted for a call that is under way belongs to an attempt that was
\* made, and nothing yet to the one in flight.
Young(S, p, m) ==
  \A w \in S : \A r \in Requests, i \in 1..StreamEnd :
    w.post = <<r, i>> /\ p[r] # "done" => i <= m[r] /\ (p[r] = "send" => i < m[r])

IInv == CallOK /\ Young(verdicts, pc, n) /\ Young(pins, pc, n)

-----------------------------------------------------------------------------
(***************************************************************************)
(* Identities of verdicts and pins.                                        *)
(***************************************************************************)

LEMMA Bounds ==
  /\ MaxAttempts \in Nat /\ 1 <= MaxAttempts
  /\ Deadline \in 1..StreamEnd /\ StreamEnd \in 1..StreamEnd
  /\ 1..MaxAttempts \subseteq 1..StreamEnd
  /\ \A i \in 0..MaxAttempts : i < Deadline /\ i < StreamEnd
  BY FailoverAssumption DEF Deadline, StreamEnd

\* A call moves on, posting under identities of its own.
LEMMA YoungKept ==
  ASSUME NEW S, NEW T, NEW V, NEW r \in Requests,
         NEW p, NEW l, p \in [Requests -> PC],
         NEW m, NEW k \in 0..MaxAttempts, m \in [Requests -> 0..MaxAttempts],
         Young(S, p, m), p[r] # "done",
         T \subseteq S \cup V,
         m[r] <= k, l = "send" => m[r] < k,
         \A w \in V : \E i \in 1..StreamEnd :
           w.post = <<r, i>> /\ (l # "done" => i <= k /\ (l = "send" => i < k))
  PROVE Young(T, [p EXCEPT ![r] = l], [m EXCEPT ![r] = k])
<1> DEFINE p2 == [p EXCEPT ![r] = l]
           m2 == [m EXCEPT ![r] = k]
<1>1. ASSUME NEW w \in T, NEW q \in Requests, NEW i \in 1..StreamEnd,
             w.post = <<q, i>>, p2[q] # "done"
      PROVE i <= m2[q] /\ (p2[q] = "send" => i < m2[q])
  <2>1. i \in Nat /\ m[r] \in Nat /\ k \in Nat
    BY Bounds DEF StreamEnd
  <2>2. CASE w \in S /\ q # r
    BY <1>1, <2>2 DEF Young
  <2>3. CASE w \in S /\ q = r
    <3>1. i <= m[r]
      BY <1>1, <2>3 DEF Young
    <3>2. p2[q] = l /\ m2[q] = k
      BY <2>3
    <3> HIDE DEF p2, m2
    <3> QED BY <2>1, <3>1, <3>2
  <2>4. CASE w \in V
    <3>1. PICK j \in 1..StreamEnd :
            w.post = <<r, j>> /\ (l # "done" => j <= k /\ (l = "send" => j < k))
      BY <2>4
    <3>2. q = r /\ i = j
      BY <1>1, <3>1
    <3>3. p2[q] = l /\ m2[q] = k
      BY <3>2
    <3> HIDE DEF p2, m2
    <3> QED BY <1>1, <3>1, <3>2, <3>3
  <2> QED BY <1>1, <2>2, <2>3, <2>4
<1> QED BY <1>1 DEF Young

LEMMA YoungShrinks ==
  ASSUME NEW S, NEW T, NEW p, NEW m, Young(S, p, m), T \subseteq S
  PROVE Young(T, p, m)
  BY DEF Young

\* A verdict with a new identity is one that Channels lets the environment
\* post, and so is one together with a pin.
LEMMA PostVerdict ==
  ASSUME NEW v \in C!Verdict, \A w \in verdicts : w.post # v.post,
         C!Posting({v}, {})
  PROVE [C!Next]_(C!vars)
<1>1. v \in C!FreeVerdict
  BY DEF C!FreeVerdict
<1> QED BY <1>1 DEF C!Forwarding, C!Next

LEMMA PostPin ==
  ASSUME NEW t \in C!Pin, \A u \in pins : u.post # t.post, C!Posting({}, {t})
  PROVE [C!Next]_(C!vars)
<1>1. t \in C!FreePin
  BY DEF C!FreePin
<1> QED BY <1>1 DEF C!Forwarding, C!Next

LEMMA PostBoth ==
  ASSUME NEW v \in C!Verdict, \A w \in verdicts : w.post # v.post,
         NEW t \in C!Pin, \A u \in pins : u.post # t.post,
         C!Posting({v}, {t})
  PROVE [C!Next]_(C!vars)
<1>1. v \in C!FreeVerdict /\ t \in C!FreePin
  BY DEF C!FreeVerdict, C!FreePin
<1> QED BY <1>1 DEF C!Forwarding, C!Next

\* An identity that no posted verdict or pin of the call has.
LEMMA NewIdentity ==
  ASSUME NEW S, NEW p, NEW m, Young(S, p, m), NEW r \in Requests, p[r] # "done",
         NEW i \in 1..StreamEnd, m[r] \in Nat,
         m[r] < i \/ (p[r] = "send" /\ m[r] = i)
  PROVE \A w \in S : w.post # <<r, i>>
<1> SUFFICES ASSUME NEW w \in S, w.post = <<r, i>> PROVE FALSE
  OBVIOUS
<1>1. i <= m[r] /\ (p[r] = "send" => i < m[r])
  BY DEF Young
<1>2. i \in Nat
  BY Bounds DEF StreamEnd
<1> QED BY <1>1, <1>2

LEMMA SaidVerdict ==
  ASSUME NEW r \in Requests, NEW i \in 1..StreamEnd, NEW p \in Providers,
         NEW class \in C!Class, NEW count \in BOOLEAN
  PROVE  /\ Said(r, i, p, class, count) \in C!Verdict
         /\ Said(r, i, p, class, count).post = <<r, i>>
  BY DEF Said, C!Verdict, Posts

-----------------------------------------------------------------------------
(***************************************************************************)
(* Every step of a call keeps IInv and is a step of Channels.              *)
(***************************************************************************)

\* A post of attempt k of call r, made as the call moves on to l.
Its(w, r, l, k) ==
  \E i \in 1..StreamEnd :
    w.post = <<r, i>> /\ (l # "done" => i <= k /\ (l = "send" => i < k))

\* Call r moves on to l with k selections made; V and P is what it posts.
Move(r, l, k, V, P) ==
  /\ pc[r] # "done" /\ l \in PC /\ pc' = [pc EXCEPT ![r] = l]
  /\ k \in 0..MaxAttempts /\ n[r] <= k /\ (l = "send" => n[r] < k)
  /\ n' = [n EXCEPT ![r] = k]
  /\ lane' \in [Requests -> Lanes \cup {NULL}]
  /\ cur' \in [Requests -> Providers \cup {NULL}]
  /\ \A q \in Requests : q # r => cur'[q] = cur[q]
  /\ l \in {"send", "settle", "stream"} => cur'[r] \in Providers /\ k # 0
  /\ verdicts' \subseteq verdicts \cup V /\ \A w \in V : Its(w, r, l, k)
  /\ pins' \subseteq pins \cup P /\ \A w \in P : Its(w, r, l, k)

LEMMA Moves ==
  ASSUME IInv, NEW r \in Requests, NEW l, NEW k, NEW V, NEW P, Move(r, l, k, V, P)
  PROVE IInv'
<1>1. pc \in [Requests -> PC] /\ n \in [Requests -> 0..MaxAttempts]
  BY DEF IInv, CallOK
<1>2. Young(verdicts', pc', n')
  BY <1>1, YoungKept DEF IInv, Its, Move
<1>3. Young(pins', pc', n')
  BY <1>1, YoungKept DEF IInv, Its, Move
<1>4. CallOK'
  <2>1. pc' \in [Requests -> PC] /\ n' \in [Requests -> 0..MaxAttempts]
    BY <1>1 DEF Move
  <2>2. ASSUME NEW q \in Requests, pc'[q] \in {"send", "settle", "stream"}
        PROVE cur'[q] \in Providers /\ n'[q] # 0
    <3>1. CASE q = r
      BY <1>1, <2>2, <3>1 DEF Move
    <3>2. CASE q # r
      BY <1>1, <2>2, <3>2 DEF IInv, CallOK, Move
    <3> QED BY <3>1, <3>2
  <2> QED BY <2>1, <2>2 DEF CallOK, Move
<1> QED BY <1>2, <1>3, <1>4 DEF IInv

\* The same, for a call that stays with its attempt and its channel.
Stay(r, l, V, P) ==
  /\ pc[r] # "done" /\ l \in PC \ {"send"} /\ pc' = [pc EXCEPT ![r] = l]
  /\ UNCHANGED <<n, cur>>
  /\ lane' \in [Requests -> Lanes \cup {NULL}]
  /\ l \in {"settle", "stream"} => pc[r] = "send"
  /\ verdicts' \subseteq verdicts \cup V /\ \A w \in V : Its(w, r, l, n[r])
  /\ pins' \subseteq pins \cup P /\ \A w \in P : Its(w, r, l, n[r])

LEMMA Stays ==
  ASSUME IInv, NEW r \in Requests, NEW l, NEW V, NEW P, Stay(r, l, V, P)
  PROVE IInv'
<1>1. n \in [Requests -> 0..MaxAttempts] /\ n[r] \in 0..MaxAttempts
  BY DEF IInv, CallOK
<1>2. n' = [n EXCEPT ![r] = n[r]] /\ n[r] <= n[r]
  BY <1>1, Bounds DEF Stay
<1>3. cur' \in [Requests -> Providers \cup {NULL}] /\ cur' = cur
  BY DEF IInv, CallOK, Stay
<1>4. l \in {"send", "settle", "stream"} => cur'[r] \in Providers /\ n[r] # 0
  BY DEF IInv, CallOK, Stay
<1>5. Move(r, l, n[r], V, P)
  BY <1>1, <1>2, <1>3, <1>4 DEF Move, Stay
<1> QED BY <1>5, Moves

LEMMA ChannelStutter == UNCHANGED channelVars => [C!Next]_(C!vars)
  BY DEF channelVars, C!vars

\* The attempt in flight has an identity, and nothing is posted under it.
LEMMA InFlight ==
  ASSUME IInv, NEW r \in Requests, pc[r] = "send"
  PROVE  /\ n[r] \in 1..StreamEnd /\ cur[r] \in Providers
         /\ \A w \in verdicts : w.post # <<r, n[r]>>
         /\ \A w \in pins : w.post # <<r, n[r]>>
<1>1. n[r] \in 0..MaxAttempts /\ n[r] # 0 /\ cur[r] \in Providers
  BY DEF IInv, CallOK
<1>2. n[r] \in 1..StreamEnd /\ n[r] \in Nat
  BY <1>1, Bounds
<1> QED BY <1>1, <1>2, NewIdentity DEF IInv

\* ... nor under the identities of its deadline and of its stream.
LEMMA EndIdentity ==
  ASSUME IInv, NEW r \in Requests, pc[r] # "done",
         NEW i \in {Deadline, StreamEnd}
  PROVE i \in 1..StreamEnd /\ \A w \in verdicts : w.post # <<r, i>>
<1>1. n[r] \in 0..MaxAttempts
  BY DEF IInv, CallOK
<1>2. i \in 1..StreamEnd /\ n[r] < i /\ n[r] \in Nat
  BY <1>1, Bounds
<1> QED BY <1>2, NewIdentity DEF IInv

-----------------------------------------------------------------------------
LEMMA SelectStep ==
  ASSUME IInv, NEW r \in Requests, Select(r)
  PROVE IInv' /\ [C!Next]_(C!vars)
<1>1. PICK p \in C!Choice(lane[r], tried[r]) :
        /\ n' = [n EXCEPT ![r] = @ + 1]
        /\ cur' = [cur EXCEPT ![r] = p]
        /\ TakeUp(r, p)
  BY DEF Select
<1>2. /\ pc[r] = "select" /\ n[r] < MaxAttempts /\ lane' = lane
      /\ n \in [Requests -> 0..MaxAttempts] /\ pc \in [Requests -> PC]
      /\ cur \in [Requests -> Providers \cup {NULL}]
      /\ lane \in [Requests -> Lanes \cup {NULL}]
  BY DEF Select, IInv, CallOK
<1>3. p \in Providers
  BY DEF C!Choice, C!PinUsable, C!Preferred, C!Untried, C!Active
<1> DEFINE k == n[r] + 1
<1>4. k \in 0..MaxAttempts /\ k \in 1..StreamEnd /\ k # 0 /\ n[r] <= k /\ n[r] < k
      /\ n' = [n EXCEPT ![r] = k] /\ n[r] \in Nat
  BY <1>1, <1>2, Bounds
<1>5. cur' \in [Requests -> Providers \cup {NULL}] /\ cur'[r] \in Providers
      /\ \A q \in Requests : q # r => cur'[q] = cur[q]
  BY <1>1, <1>2, <1>3
<1> HIDE DEF k
<1>6. CASE UNCHANGED channelVars /\ pc' = pc
  <2>1. pc' = [pc EXCEPT ![r] = "select"] /\ "select" \in PC
    BY <1>2, <1>6 DEF PC
  <2>2. verdicts' \subseteq verdicts \cup {} /\ pins' \subseteq pins \cup {}
    BY <1>6 DEF channelVars
  <2>3. Move(r, "select", k, {}, {})
    BY <1>2, <1>4, <1>5, <2>1, <2>2 DEF Move
  <2>4. IInv'
    BY <2>3, Moves
  <2> QED BY <1>6, <2>4, ChannelStutter
<1>7. CASE UNCHANGED channelVars /\ pc' = [pc EXCEPT ![r] = "send"]
  <2>1. "send" \in PC
    BY DEF PC
  <2>2. verdicts' \subseteq verdicts \cup {} /\ pins' \subseteq pins \cup {}
    BY <1>7 DEF channelVars
  <2>3. Move(r, "send", k, {}, {})
    BY <1>2, <1>4, <1>5, <1>7, <2>1, <2>2 DEF Move
  <2>4. IInv'
    BY <2>3, Moves
  <2> QED BY <1>7, <2>4, ChannelStutter
<1>8. CASE C!Posting({Said(r, n[r] + 1, p, "fault", CountOnce(r, p))}, {}) /\ pc' = pc
  <2> DEFINE v == Said(r, k, p, "fault", CountOnce(r, p))
  <2>1. v \in C!Verdict /\ v.post = <<r, k>>
    BY <1>3, <1>4, SaidVerdict DEF C!Class, CountOnce
  <2>2. C!Posting({v}, {})
    BY <1>8 DEF k
  <2> HIDE DEF v
  <2>3. \A w \in verdicts : w.post # v.post
    BY <1>2, <1>4, <2>1, NewIdentity DEF IInv
  <2>4. [C!Next]_(C!vars)
    BY <2>1, <2>2, <2>3, PostVerdict
  <2>5. pc' = [pc EXCEPT ![r] = "select"] /\ "select" \in PC
    BY <1>2, <1>8 DEF PC
  <2>6. verdicts' \subseteq verdicts \cup {v} /\ pins' \subseteq pins \cup {}
    BY <2>2 DEF C!Posting
  <2>7. k <= k
    BY <1>4
  <2>8. \A w \in {v} : Its(w, r, "select", k)
    BY <1>4, <2>1, <2>7 DEF Its
  <2>9. Move(r, "select", k, {v}, {})
    BY <1>2, <1>4, <1>5, <2>5, <2>6, <2>8 DEF Move
  <2>10. IInv'
    BY <2>9, Moves
  <2> QED BY <2>4, <2>10
<1> QED BY <1>1, <1>6, <1>7, <1>8 DEF TakeUp, Goto

\* An attempt that fails, or is answered with a client error, posts its verdict.
LEMMA FailStep ==
  ASSUME IInv, NEW r \in Requests, NEW class \in C!Class, NEW l \in {"select", "done"},
         pc[r] = "send", pc' = [pc EXCEPT ![r] = l], UNCHANGED <<n, cur, lane>>,
         C!Posting({Said(r, n[r], cur[r], class, CountOnce(r, cur[r]))}, {})
  PROVE IInv' /\ [C!Next]_(C!vars)
<1> DEFINE v == Said(r, n[r], cur[r], class, CountOnce(r, cur[r]))
<1>1. n[r] \in 1..StreamEnd /\ cur[r] \in Providers /\ \A w \in verdicts : w.post # <<r, n[r]>>
  BY InFlight
<1>2. v \in C!Verdict /\ v.post = <<r, n[r]>>
  BY <1>1, SaidVerdict DEF CountOnce
<1>3. C!Posting({v}, {})
  OBVIOUS
<1> HIDE DEF v
<1>4. [C!Next]_(C!vars)
  BY <1>1, <1>2, <1>3, PostVerdict
<1>5. \A w \in {v} : Its(w, r, l, n[r])
  BY <1>1, <1>2, Bounds DEF Its, StreamEnd
<1>6. lane' \in [Requests -> Lanes \cup {NULL}]
  BY DEF IInv, CallOK
<1>7. Stay(r, l, {v}, {})
  BY <1>3, <1>5, <1>6 DEF Stay, PC, C!Posting
<1>8. IInv'
  BY <1>7, Stays
<1> QED BY <1>4, <1>8

\* What spawn_pin_channel is asked to write.
LEMMA PinStep ==
  ASSUME IInv, NEW r \in Requests, pc[r] = "send"
  PROVE  \/ PinOf(r) = {}
         \/ \E t \in C!Pin : /\ PinOf(r) = {t} /\ t.post = <<r, n[r]>>
                             /\ \A u \in pins : u.post # t.post
<1>1. /\ n[r] \in 1..StreamEnd /\ cur[r] \in Providers
      /\ \A w \in pins : w.post # <<r, n[r]>>
  BY InFlight
<1>2. lane[r] # NULL => lane[r] \in Lanes
  BY DEF IInv, CallOK
<1>3. CASE lane[r] = NULL
  BY <1>3 DEF PinOf
<1>4. CASE lane[r] # NULL
  <2> DEFINE t == [post |-> <<r, n[r]>>, lane |-> lane[r], p |-> cur[r]]
  <2>1. PinOf(r) = {t}
    BY <1>4 DEF PinOf
  <2>2. t \in C!Pin /\ t.post = <<r, n[r]>>
    BY <1>1, <1>2, <1>4 DEF C!Pin, Posts
  <2> QED BY <1>1, <2>1, <2>2
<1> QED BY <1>3, <1>4

LEMMA SucceedStep ==
  ASSUME IInv, NEW r \in Requests, Succeed(r)
  PROVE IInv' /\ [C!Next]_(C!vars)
<1> DEFINE v == Said(r, n[r], cur[r], "ok", TRUE)
<1>1. /\ pc[r] = "send" /\ pc' = [pc EXCEPT ![r] = "settle"]
      /\ UNCHANGED <<n, cur, lane>>
      /\ C!Posting({v}, PinOf(r))
  BY DEF Succeed, Goto
<1>2. n[r] \in 1..StreamEnd /\ cur[r] \in Providers /\ \A w \in verdicts : w.post # <<r, n[r]>>
  BY <1>1, InFlight
<1>3. v \in C!Verdict /\ v.post = <<r, n[r]>>
  BY <1>2, SaidVerdict DEF C!Class
<1> HIDE DEF v
<1>4. [C!Next]_(C!vars)
  <2>1. CASE PinOf(r) = {}
    BY <1>1, <1>2, <1>3, <2>1, PostVerdict
  <2>2. CASE PinOf(r) # {}
    BY <1>1, <1>2, <1>3, <2>2, PinStep, PostBoth
  <2> QED BY <2>1, <2>2
<1>5. \A w \in {v} : Its(w, r, "settle", n[r])
  BY <1>2, <1>3, Bounds DEF Its, StreamEnd
<1>6. \A w \in PinOf(r) : Its(w, r, "settle", n[r])
  BY <1>1, <1>2, PinStep, Bounds DEF Its, StreamEnd
<1>7. lane' \in [Requests -> Lanes \cup {NULL}]
  BY <1>1 DEF IInv, CallOK
<1>8. Stay(r, "settle", {v}, PinOf(r))
  BY <1>1, <1>5, <1>6, <1>7 DEF Stay, PC, C!Posting
<1>9. IInv'
  BY <1>8, Stays
<1> QED BY <1>4, <1>9

LEMMA HandOverStep ==
  ASSUME IInv, NEW r \in Requests, HandOver(r)
  PROVE IInv' /\ [C!Next]_(C!vars)
<1>1. /\ pc[r] = "send" /\ pc' = [pc EXCEPT ![r] = "stream"]
      /\ UNCHANGED <<n, cur, lane>>
      /\ C!Posting({}, PinOf(r))
  BY DEF HandOver, Goto
<1>2. n[r] \in 1..StreamEnd
  BY <1>1, InFlight
<1>3. [C!Next]_(C!vars)
  <2>1. CASE PinOf(r) = {}
    BY <1>1, <2>1, ChannelStutter DEF C!Posting, channelVars
  <2>2. CASE PinOf(r) # {}
    BY <1>1, <2>2, PinStep, PostPin
  <2> QED BY <2>1, <2>2
<1>4. \A w \in PinOf(r) : Its(w, r, "stream", n[r])
  BY <1>1, <1>2, PinStep, Bounds DEF Its, StreamEnd
<1>5. lane' \in [Requests -> Lanes \cup {NULL}]
  BY <1>1 DEF IInv, CallOK
<1>6. Stay(r, "stream", {}, PinOf(r))
  BY <1>1, <1>4, <1>5 DEF Stay, PC, C!Posting
<1>7. IInv'
  BY <1>6, Stays
<1> QED BY <1>3, <1>7

\* A verdict posted as the call ends: of its stream, or of its deadline.
LEMMA EndStep ==
  ASSUME IInv, NEW r \in Requests, pc[r] # "done", pc' = [pc EXCEPT ![r] = "done"],
         UNCHANGED <<n, cur, lane>>, cur[r] \in Providers,
         NEW i \in {Deadline, StreamEnd}, NEW class \in C!Class,
         C!Posting({Said(r, i, cur[r], class, TRUE)}, {})
  PROVE IInv' /\ [C!Next]_(C!vars)
<1> DEFINE v == Said(r, i, cur[r], class, TRUE)
<1>1. i \in 1..StreamEnd /\ \A w \in verdicts : w.post # <<r, i>>
  BY EndIdentity
<1>2. v \in C!Verdict /\ v.post = <<r, i>>
  BY <1>1, SaidVerdict
<1>3. C!Posting({v}, {})
  OBVIOUS
<1> HIDE DEF v
<1>4. [C!Next]_(C!vars)
  BY <1>1, <1>2, <1>3, PostVerdict
<1>5. \A w \in {v} : Its(w, r, "done", n[r])
  BY <1>1, <1>2 DEF Its
<1>6. lane' \in [Requests -> Lanes \cup {NULL}]
  BY DEF IInv, CallOK
<1>7. Stay(r, "done", {v}, {})
  BY <1>3, <1>5, <1>6 DEF Stay, PC, C!Posting
<1>8. IInv'
  BY <1>7, Stays
<1> QED BY <1>4, <1>8

\* A step of a call that touches no channel.
LEMMA QuietStep ==
  ASSUME IInv, NEW r \in Requests, pc[r] # "done",
         NEW l \in {"select", "done", "unread", "gone"}, pc' = [pc EXCEPT ![r] = l],
         UNCHANGED <<channelVars, n, cur>>,
         lane' \in [Requests -> Lanes \cup {NULL}]
  PROVE IInv' /\ [C!Next]_(C!vars)
<1>1. Stay(r, l, {}, {})
  BY DEF Stay, PC, channelVars
<1>2. IInv'
  BY <1>1, Stays
<1> QED BY <1>2, ChannelStutter

LEMMA LaneKept ==
  ASSUME IInv, lane' = lane
  PROVE lane' \in [Requests -> Lanes \cup {NULL}]
  BY DEF IInv, CallOK

LEMMA WorkStep ==
  ASSUME IInv, NEW r \in Requests, Work(r)
  PROVE IInv' /\ [C!Next]_(C!vars)
<1>1. CASE Select(r)
  BY <1>1, SelectStep
<1>2. CASE GiveUp(r)
  <2>1. pc[r] # "done" /\ pc' = [pc EXCEPT ![r] = "done"]
        /\ UNCHANGED <<channelVars, n, cur, lane>>
    BY <1>2 DEF GiveUp, Reply, Goto
  <2> QED BY <2>1, LaneKept, QuietStep
<1>3. CASE FailFast(r)
  <2>1. /\ pc[r] = "send" /\ pc' = [pc EXCEPT ![r] = "done"] /\ UNCHANGED <<n, cur, lane>>
        /\ C!Posting({Said(r, n[r], cur[r], "client", CountOnce(r, cur[r]))}, {})
    BY <1>3 DEF FailFast, Reply, Goto
  <2> QED BY <2>1, FailStep DEF C!Class
<1>4. CASE Succeed(r)
  BY <1>4, SucceedStep
<1>5. CASE Settle(r)
  <2>1. pc[r] # "done" /\ pc' = [pc EXCEPT ![r] = "done"]
        /\ UNCHANGED <<channelVars, n, cur, lane>>
    BY <1>5 DEF Settle, Reply, Goto
  <2> QED BY <2>1, LaneKept, QuietStep
<1>6. CASE HandOver(r)
  BY <1>6, HandOverStep
<1>7. CASE EndStream(r)
  <2>1. pc[r] = "stream" /\ pc' = [pc EXCEPT ![r] = "done"] /\ UNCHANGED <<n, cur, lane>>
    BY <1>7 DEF EndStream, Goto
  <2>2. cur[r] \in Providers
    BY <2>1 DEF IInv, CallOK
  <2>3. CASE C!Posting({Said(r, StreamEnd, cur[r], "ok", TRUE)}, {})
    BY <2>1, <2>2, <2>3, EndStep DEF C!Class
  <2>4. CASE C!Posting({Said(r, StreamEnd, cur[r], "fault", TRUE)}, {})
    BY <2>1, <2>2, <2>4, EndStep DEF C!Class
  <2>5. CASE UNCHANGED channelVars
    BY <2>1, <2>5, LaneKept, QuietStep
  <2> QED BY <1>7, <2>3, <2>4, <2>5 DEF EndStream
<1>8. ASSUME NEW class \in {"fault", "limited", "auth"}, Fail(r, class)
      PROVE IInv' /\ [C!Next]_(C!vars)
  <2>1. /\ pc[r] = "send" /\ pc' = [pc EXCEPT ![r] = "select"] /\ UNCHANGED <<n, cur, lane>>
        /\ C!Posting({Said(r, n[r], cur[r], class, CountOnce(r, cur[r]))}, {})
    BY <1>8 DEF Fail, Goto
  <2>2. class \in C!Class
    BY DEF C!Class
  <2> QED BY <2>1, <2>2, FailStep
<1> QED BY <1>1, <1>2, <1>3, <1>4, <1>5, <1>6, <1>7, <1>8 DEF Work

LEMMA ExpireStep ==
  ASSUME IInv, NEW r \in Requests, Expire(r)
  PROVE IInv' /\ [C!Next]_(C!vars)
<1>1. pc[r] # "done" /\ pc' = [pc EXCEPT ![r] = "done"] /\ UNCHANGED <<n, cur, lane>>
  BY DEF Expire, Reply, Goto
<1>2. CASE cur[r] = NULL
  <2>1. UNCHANGED channelVars
    BY <1>2 DEF Expire
  <2> QED BY <1>1, <2>1, LaneKept, QuietStep
<1>3. CASE cur[r] # NULL
  <2>1. C!Posting({Said(r, Deadline, cur[r], "fault", TRUE)}, {})
    BY <1>3 DEF Expire
  <2>2. cur[r] \in Providers
    BY <1>3 DEF IInv, CallOK
  <2> QED BY <1>1, <2>1, <2>2, EndStep DEF C!Class
<1> QED BY <1>2, <1>3

\* The rest of the system keeps the calls and may only take verdicts and pins
\* away.
LEMMA OthersStep ==
  ASSUME IInv, C!Recording \/ C!Housekeeping, UNCHANGED callVars
  PROVE IInv' /\ [C!Next]_(C!vars)
<1>1. verdicts' \subseteq verdicts /\ pins' \subseteq pins
  BY DEF C!Recording, C!Housekeeping, C!ApplyVerdict, C!WritePin, C!StartProbe, C!EndProbe,
         C!ModelTest, C!CreateProvider, C!UpdateProvider, C!DeleteProvider
<1>2. UNCHANGED <<pc, lane, n, cur>>
  BY DEF callVars
<1>3. CallOK'
  BY <1>2 DEF IInv, CallOK
<1>4. Young(verdicts', pc', n') /\ Young(pins', pc', n')
  BY <1>1, <1>2, YoungShrinks DEF IInv
<1> QED BY <1>3, <1>4 DEF IInv, C!Next

LEMMA NextStep == IInv /\ [Next]_vars => IInv' /\ [C!Next]_(C!vars)
<1> SUFFICES ASSUME IInv, [Next]_vars PROVE IInv' /\ [C!Next]_(C!vars)
  OBVIOUS
<1>1. ASSUME NEW r \in Requests, NEW k \in Kinds, NEW l \in Lanes \cup {NULL}, Arrive(r, k, l)
      PROVE IInv' /\ [C!Next]_(C!vars)
  <2>1. pc[r] # "done" /\ pc' = [pc EXCEPT ![r] = "select"] /\ UNCHANGED <<channelVars, n, cur>>
    BY <1>1 DEF Arrive, Goto
  <2>2. lane' \in [Requests -> Lanes \cup {NULL}]
    BY <1>1 DEF Arrive, IInv, CallOK
  <2> QED BY <2>1, <2>2, QuietStep
<1>2. ASSUME NEW r \in Requests, NEW k \in Kinds, Reject(r, k)
      PROVE IInv' /\ [C!Next]_(C!vars)
  <2>1. pc[r] # "done" /\ pc' = [pc EXCEPT ![r] = "done"]
        /\ UNCHANGED <<channelVars, n, cur, lane>>
    BY <1>2 DEF Reject, Reply, Goto
  <2> QED BY <2>1, LaneKept, QuietStep
<1>3. ASSUME NEW r \in Requests, Work(r) \/ Unread(r) \/ Expire(r) \/ Vanish(r)
      PROVE IInv' /\ [C!Next]_(C!vars)
  <2>1. CASE Vanish(r)
    <3>1. pc[r] # "done" /\ pc' = [pc EXCEPT ![r] = "gone"]
          /\ UNCHANGED <<channelVars, n, cur, lane>>
      BY <2>1 DEF Vanish, Goto
    <3> QED BY <3>1, LaneKept, QuietStep
  <2>2. CASE Unread(r)
    <3>1. pc[r] # "done" /\ pc' = [pc EXCEPT ![r] = "unread"]
          /\ UNCHANGED <<channelVars, n, cur, lane>>
      BY <2>2 DEF Unread, Goto
    <3> QED BY <3>1, LaneKept, QuietStep
  <2> QED BY <1>3, <2>1, <2>2, WorkStep, ExpireStep
<1>4. CASE (C!Recording \/ C!Housekeeping) /\ UNCHANGED callVars
  BY <1>4, OthersStep
<1>5. CASE UNCHANGED vars
  <2>1. UNCHANGED <<channelVars, verdicts, pins, pc, lane, n, cur>>
    BY <1>5 DEF vars, channelVars, callVars
  <2>2. IInv'
    BY <2>1 DEF IInv, CallOK, Young
  <2> QED BY <2>1, <2>2, ChannelStutter
<1> QED BY <1>1, <1>2, <1>3, <1>4, <1>5 DEF Next

LEMMA InitOK == Init => IInv
<1> SUFFICES ASSUME Init PROVE IInv
  OBVIOUS
<1>1. CallOK
  BY Bounds DEF Init, CallOK, PC
<1>2. verdicts = {} /\ pins = {}
  BY DEF Init, C!Init
<1> QED BY <1>1, <1>2 DEF IInv, Young

LEMMA Inductive == Spec => []IInv
<1>1. IInv /\ [Next]_vars => IInv'
  BY NextStep
<1> QED BY <1>1, InitOK, PTL DEF Spec

\* Forwarding changes the channels only the way module Channels lets its
\* environment change them: through verdicts and pins, each posted under an
\* identity that no other one under way has.
THEOREM ForwardingPosts == Spec => ChannelsSpec
<1>1. Init => C!Init
  BY DEF Init
<1>2. IInv /\ [Next]_vars => [C!Next]_(C!vars)
  BY NextStep
<1> QED BY <1>1, <1>2, Inductive, PTL DEF Spec, C!Spec, ChannelsSpec

\* What holds of Channels holds under the traffic of the gateway.
LEMMA ChannelsHold == Spec => []C!TypeOK /\ []C!InServiceIsSound
  BY ForwardingPosts, ChannelTypes, InServiceSound, PTL DEF ChannelsSpec

\* A channel in service is below the threshold and carries no disabling reason.
THEOREM InServiceSoundUnderTraffic == Spec => []InServiceIsSound
  BY ChannelsHold, PTL DEF InServiceIsSound

-----------------------------------------------------------------------------
(***************************************************************************)
(* What the client learns, and what the audit log keeps.                    *)
(***************************************************************************)

AuditTypes ==
  /\ kind \in [Requests -> Kinds \cup {NULL}]
  /\ lastErr \in [Requests -> {"fault", "limited", "auth", NULL}]
  /\ answer \in [Requests -> Answers \cup {NULL}]
  /\ logs \in [Requests -> SUBSET Answers]

\* What is known of one call: what it would answer is logged before it does,
\* and an upstream's refusal of the credential is no answer.
AuditOK(r) ==
  /\ lastErr[r] # NULL => lastErr[r] \in logs[r]
  /\ pc[r] = "settle" => "ok" \in logs[r]
  /\ answer[r] # NULL => pc[r] \in {"done", "unread", "stream"}
  /\ pc[r] = "stream" => kind[r] = "stream" /\ answer[r] = "ok"
  /\ answer[r] # NULL /\ <<kind[r], answer[r]>> \notin {<<"stream", "ok">>, <<"pass", "rejected">>}
       => Audited(r)
  /\ answer[r] # "auth"

AInv == AuditTypes /\ \A r \in Requests : AuditOK(r)

\* A step of call r leaves what the others know alone.
Alone(r) ==
  \A q \in Requests \ {r} :
    /\ kind'[q] = kind[q] /\ lastErr'[q] = lastErr[q] /\ answer'[q] = answer[q]
    /\ logs'[q] = logs[q] /\ pc'[q] = pc[q]

LEMMA AloneKeeps ==
  ASSUME AInv, NEW r \in Requests, Alone(r), AuditTypes', AuditOK(r)'
  PROVE  AInv'
<1>1. ASSUME NEW q \in Requests \ {r} PROVE AuditOK(q)'
  BY DEF AInv, AuditOK, Alone, Audited
<1> QED BY <1>1 DEF AInv

LEMMA NullIsNoAnswer ==
  /\ NULL \notin {"ok", "fault", "limited", "client", "auth", "rejected", "unavailable", "timeout"}
  BY FailoverAssumption DEF Answers

LEMMA CallAudited ==
  ASSUME IInv, AInv, NEW r \in Requests,
         \/ \E k \in Kinds, l \in Lanes \cup {NULL} : Arrive(r, k, l)
         \/ \E k \in Kinds : Reject(r, k)
         \/ Work(r) \/ Unread(r) \/ Expire(r) \/ Vanish(r)
  PROVE  AInv'
<1>1. pc \in [Requests -> PC] /\ AuditTypes /\ AuditOK(r)
  BY DEF IInv, CallOK, AInv
<1> USE <1>1, NullIsNoAnswer
<1>2. ASSUME NEW k \in Kinds, NEW l \in Lanes \cup {NULL}, Arrive(r, k, l)
      PROVE  Alone(r) /\ AuditTypes' /\ AuditOK(r)'
  BY <1>2 DEF Arrive, Goto, Alone, AuditTypes, AuditOK, Audited
<1>3. ASSUME NEW k \in Kinds, Reject(r, k)
      PROVE  Alone(r) /\ AuditTypes' /\ AuditOK(r)'
  BY <1>3 DEF Reject, Reply, Goto, Alone, AuditTypes, AuditOK, Audited, Answers
<1>4. ASSUME Select(r) PROVE Alone(r) /\ AuditTypes' /\ AuditOK(r)'
  <2>1. pc' = pc \/ pc' = [pc EXCEPT ![r] = "send"]
    BY <1>4 DEF Select, TakeUp, Goto
  <2>2. pc[r] = "select" /\ UNCHANGED <<kind, lastErr, answer, logs>>
    BY <1>4 DEF Select
  <2> QED BY <2>1, <2>2 DEF Alone, AuditTypes, AuditOK, Audited
<1>5. ASSUME GiveUp(r) PROVE Alone(r) /\ AuditTypes' /\ AuditOK(r)'
  BY <1>5 DEF GiveUp, FinalAnswer, FinalLog, Reply, Goto, Alone, AuditTypes, AuditOK, Audited,
     Answers
<1>6. ASSUME FailFast(r) PROVE Alone(r) /\ AuditTypes' /\ AuditOK(r)'
  BY <1>6 DEF FailFast, Reply, Goto, Alone, AuditTypes, AuditOK, Audited, Answers
<1>7. ASSUME Succeed(r) PROVE Alone(r) /\ AuditTypes' /\ AuditOK(r)'
  BY <1>7 DEF Succeed, Log, Goto, Alone, AuditTypes, AuditOK, Audited, Answers
<1>8. ASSUME Settle(r) PROVE Alone(r) /\ AuditTypes' /\ AuditOK(r)'
  BY <1>8 DEF Settle, Reply, Goto, Alone, AuditTypes, AuditOK, Audited, Answers
<1>9. ASSUME HandOver(r) PROVE Alone(r) /\ AuditTypes' /\ AuditOK(r)'
  BY <1>9 DEF HandOver, Goto, Alone, AuditTypes, AuditOK, Audited, Answers
<1>10. ASSUME EndStream(r) PROVE Alone(r) /\ AuditTypes' /\ AuditOK(r)'
  BY <1>10 DEF EndStream, Goto, Alone, AuditTypes, AuditOK, Audited, Answers
<1>11. ASSUME NEW class \in {"fault", "limited", "auth"}, Fail(r, class)
       PROVE  Alone(r) /\ AuditTypes' /\ AuditOK(r)'
  BY <1>11 DEF Fail, Log, Goto, Alone, AuditTypes, AuditOK, Audited, Answers
<1>12. ASSUME Expire(r) PROVE Alone(r) /\ AuditTypes' /\ AuditOK(r)'
  BY <1>12 DEF Expire, Reply, Goto, Alone, AuditTypes, AuditOK, Audited, Answers
<1>13. ASSUME Vanish(r) PROVE Alone(r) /\ AuditTypes' /\ AuditOK(r)'
  BY <1>13 DEF Vanish, Goto, Alone, AuditTypes, AuditOK, Audited
<1>14. ASSUME Unread(r) PROVE Alone(r) /\ AuditTypes' /\ AuditOK(r)'
  BY <1>14 DEF Unread, FinalAnswer, FinalLog, Goto, Alone, AuditTypes, AuditOK, Audited, Answers
<1>15. Alone(r) /\ AuditTypes' /\ AuditOK(r)'
  BY <1>2, <1>3, <1>4, <1>5, <1>6, <1>7, <1>8, <1>9, <1>10, <1>11, <1>12, <1>13, <1>14 DEF Work
<1> QED BY <1>15, AloneKeeps

LEMMA AuditNext == IInv /\ AInv /\ [Next]_vars => AInv'
<1> SUFFICES ASSUME IInv, AInv, [Next]_vars PROVE AInv'
  OBVIOUS
<1>1. CASE UNCHANGED callVars
  BY <1>1 DEF callVars, AInv, AuditTypes, AuditOK, Audited
<1>2. CASE Next /\ ~UNCHANGED callVars
  BY <1>2, CallAudited DEF Next
<1> QED BY <1>1, <1>2 DEF vars

LEMMA AuditInit == Init => AInv
<1> SUFFICES ASSUME Init PROVE AInv
  OBVIOUS
<1>1. AuditTypes
  BY DEF Init, AuditTypes
<1>2. ASSUME NEW r \in Requests PROVE AuditOK(r)
  BY NullIsNoAnswer DEF Init, AuditOK
<1> QED BY <1>1, <1>2 DEF AInv

LEMMA Audits == Spec => []AInv
  BY InitOK, NextStep, AuditInit, AuditNext, PTL DEF Spec

\* The log of every answer is posted before the client gets the answer, however
\* often the call failed over, and when its deadline cut it: under its own
\* status, or as the refusal of a credential, which the client is told as a
\* fault.  What is posted is written at once on the way to a usable answer only.
THEOREM EveryAnswerAudited == Spec => []AnswersAudited
<1>1. AInv => AnswersAudited
  BY DEF AInv, AuditOK, AnswersAudited
<1> QED BY <1>1, Audits, PTL

-----------------------------------------------------------------------------
(***************************************************************************)
(* Credentials.                                                            *)
(***************************************************************************)

\* The channel has been there with a credential this process can decrypt; no
\* edit takes that back, since an undecryptable one is only ever copied.
Taken(p) == row[p] # Unused /\ (C!Exists(p) => row[p].key # "broken")

Refusals(V) == \A v \in V : v.class = "auth" => Taken(v.p)

\* A call is sent, and its credential refused, only where there was one.
SentTaken == \A r \in Requests : pc[r] = "send" => Taken(cur[r])

NoBlame ==
  \A p \in Providers : C!Exists(p) /\ row[p].key = "broken" => row[p].reason # "auth"

KInv == SentTaken /\ Refusals(verdicts) /\ NoBlame

LEMMA RowFields ==
  ASSUME C!TypeOK, NEW p \in Providers, C!Exists(p)
  PROVE  row[p] \in C!Row
  BY DEF C!TypeOK, C!Exists

\* A judgement leaves a row, changes no credential, and disables for "auth"
\* only by a verdict of that class.
LEMMA JudgedRow ==
  ASSUME NEW c \in C!Row, NEW v, C!Judged(c, v).fails <= MaxFails
  PROVE  /\ C!Judged(c, v) \in C!Row
         /\ C!Judged(c, v).key = c.key
         /\ C!Judged(c, v).reason = "auth" => c.reason = "auth" \/ v.class = "auth"
<1> DEFINE m == IF C!Counts(v) THEN c.fails + 1 ELSE c.fails
<1>1. c.fails \in 0..MaxFails /\ MaxFails \in Nat
  BY ChannelsAssumption DEF C!Row
<1>2. m \in Nat /\ 0 \in 0..MaxFails
  BY <1>1
<1>3. CASE v.class = "ok"
  <2>1. C!Judged(c, v) = [c EXCEPT !.fails = 0]
    BY <1>3 DEF C!Judged, C!Counts
  <2> QED BY <1>2, <2>1 DEF C!Row
<1>4. CASE v.class = "auth"
  <2>1. C!Judged(c, v) = [c EXCEPT !.active = FALSE, !.reason = "auth"]
    BY <1>4 DEF C!Judged, C!Counts
  <2> QED BY <1>4, <2>1 DEF C!Row
<1>5. CASE C!Counts(v) /\ m >= Threshold
  <2>1. v.class = "fault"
    BY <1>5 DEF C!Counts
  <2>2. C!Judged(c, v) = [c EXCEPT !.fails = m, !.active = FALSE, !.reason = "failures"]
    BY <1>5, <2>1 DEF C!Judged
  <2>3. C!Judged(c, v).fails = m
    BY <2>2 DEF C!Row
  <2>4. m \in 0..MaxFails
    BY <1>1, <1>2, <2>3
  <2> HIDE DEF m
  <2> QED BY <2>2, <2>4 DEF C!Row
<1>6. CASE v.class \notin {"ok", "auth"} /\ ~(C!Counts(v) /\ m >= Threshold)
  <2>1. C!Judged(c, v) = [c EXCEPT !.fails = m]
    BY <1>6 DEF C!Judged
  <2>2. C!Judged(c, v).fails = m
    BY <2>1 DEF C!Row
  <2>3. m \in 0..MaxFails
    BY <1>1, <1>2, <2>2
  <2> HIDE DEF m
  <2> QED BY <2>1, <2>3 DEF C!Row
<1> QED BY <1>3, <1>4, <1>5, <1>6

\* What a step of the channels does to credentials and blame.
LEMMA KeysMove ==
  ASSUME C!TypeOK, Refusals(verdicts), NoBlame, [C!Next]_(C!vars)
  PROVE  NoBlame' /\ \A p \in Providers : Taken(p) => Taken(p)'
<1> DEFINE Fine(p) == /\ C!Exists(p)' /\ row'[p].key = "broken" => row'[p].reason # "auth"
                      /\ Taken(p) => Taken(p)'
<1> SUFFICES ASSUME NEW p \in Providers PROVE Fine(p)
  BY DEF NoBlame
<1>1. row \in [Providers -> C!Row \cup {Unused, Deleted}]
      /\ Unused \notin C!Row /\ Deleted \notin C!Row
  BY NoRow DEF C!TypeOK, Row, KeyState, C!Row, C!KeyState
<1>2. ASSUME row'[p] = row[p] PROVE Fine(p)
  BY <1>2 DEF NoBlame, Taken, C!Exists
\* A row rewritten with its credential, and for no refusal.
<1>3. ASSUME C!Exists(p), row'[p] \in C!Row, row'[p].key = row[p].key,
             row'[p].reason = "auth" => row[p].reason = "auth" \/ Taken(p)
      PROVE  Fine(p)
  BY <1>1, <1>3 DEF NoBlame, Taken, C!Exists
<1>4. ASSUME NEW v \in verdicts, C!ApplyVerdict(v) PROVE Fine(p)
  <2>1. CASE C!Exists(v.p) /\ p = v.p
    <3>1. row'[p] = C!Judged(row[p], v) /\ C!Judged(row[p], v).fails <= MaxFails
      BY <1>1, <1>4, <2>1 DEF C!ApplyVerdict
    <3>2. row[p] \in C!Row
      BY <2>1, RowFields
    <3> QED BY <1>3, <2>1, <3>1, <3>2, JudgedRow DEF Refusals
  <2>2. CASE ~(C!Exists(v.p) /\ p = v.p)
    BY <1>1, <1>2, <1>4, <2>2 DEF C!ApplyVerdict
  <2> QED BY <2>1, <2>2
<1>5. CASE C!EndProbe
  <2>1. PICK h \in [probing -> BOOLEAN] :
          row' = [q \in Providers |->
                   IF q \in probing /\ C!Exists(q) THEN [row[q] EXCEPT !.healthy = h[q]]
                   ELSE row[q]]
    BY <1>5 DEF C!EndProbe
  <2>2. CASE p \in probing /\ C!Exists(p)
    <3>1. row'[p] = [row[p] EXCEPT !.healthy = h[p]] /\ h[p] \in BOOLEAN
      BY <2>1, <2>2
    <3>2. row[p] \in C!Row
      BY <2>2, RowFields
    <3>3. row'[p] \in C!Row /\ row'[p].key = row[p].key /\ row'[p].reason = row[p].reason
      BY <3>1, <3>2 DEF C!Row
    <3> QED BY <1>3, <2>2, <3>3
  <2> QED BY <1>2, <2>1, <2>2
<1>6. ASSUME NEW q \in Providers, C!ModelTest(q) PROVE Fine(p)
  <2>1. CASE p = q
    <3>1. row[p] \in C!Row /\ C!Exists(p) /\ row'[p] = [row[p] EXCEPT !.fails = 0]
      BY <1>1, <1>6, <2>1, RowFields DEF C!ModelTest
    <3>2. 0 \in 0..MaxFails
      BY ChannelsAssumption
    <3>3. row'[p] \in C!Row /\ row'[p].key = row[p].key /\ row'[p].reason = row[p].reason
      BY <3>1, <3>2 DEF C!Row
    <3> QED BY <1>3, <3>1, <3>3
  <2> QED BY <1>1, <1>2, <1>6, <2>1 DEF C!ModelTest
<1>7. ASSUME NEW q \in Providers, C!DeleteProvider(q) PROVE Fine(p)
  <2>1. CASE p = q
    BY <1>1, <1>7, <2>1, NoRow DEF C!DeleteProvider, Taken, C!Exists
  <2> QED BY <1>1, <1>2, <1>7, <2>1 DEF C!DeleteProvider
<1>8. ASSUME NEW q \in Providers, NEW k \in KeyState, C!CreateProvider(q, k) PROVE Fine(p)
  BY <1>1, <1>8, <1>2 DEF C!CreateProvider, C!Created, Taken, NoBlame
<1>9. ASSUME NEW q \in Providers, NEW k \in KeyState, NEW s \in {"on", "off", "keep"},
             C!UpdateProvider(q, k, s)
      PROVE  Fine(p)
  <2>1. CASE p = q
    <3>1. /\ row[p] \in C!Row /\ C!Exists(p)
          /\ k = "broken" => row[p].key = "broken"
      BY <1>9, <2>1, RowFields DEF C!UpdateProvider
    <3> DEFINE c == [row[p] EXCEPT !.key = k]
    <3>2. c \in C!Row /\ c.key = k /\ c.reason = row[p].reason
      BY <3>1 DEF C!Row, KeyState, C!KeyState
    <3>3. row'[p] \in {C!Enabled(c), [c EXCEPT !.active = FALSE], c}
      BY <1>1, <1>9, <2>1 DEF C!UpdateProvider
    <3> HIDE DEF c
    <3>4. 0 \in 0..MaxFails
      BY ChannelsAssumption
    <3>5. row'[p] \in C!Row /\ row'[p].key = k /\ row'[p].reason \in {"", row[p].reason}
      BY <3>2, <3>3, <3>4 DEF C!Enabled, C!Row
    <3> QED BY <1>1, <3>1, <3>5 DEF Taken, C!Exists, NoBlame
  <2> QED BY <1>1, <1>2, <1>9, <2>1 DEF C!UpdateProvider
<1>10. CASE UNCHANGED row
  BY <1>2, <1>10
<1>11. CASE C!Forwarding \/ C!StartProbe \/ UNCHANGED C!vars \/ \E t \in pins : C!WritePin(t)
  BY <1>10, <1>11 DEF C!Forwarding, C!Posting, C!StartProbe, C!vars, C!WritePin
<1> QED
  BY <1>4, <1>5, <1>6, <1>7, <1>8, <1>9, <1>11
  DEF C!Next, C!Recording, C!Housekeeping, KeyState, C!KeyState

\* A call's verdicts are refusals only of credentials it was sent with.
LEMMA KeysPosted ==
  ASSUME C!TypeOK, IInv, KInv, \A p \in Providers : Taken(p) => Taken(p)',
         NEW r \in Requests,
         NEW V, verdicts' = verdicts \cup V,
         \A v \in V : v.class = "auth" => v.p = cur[r] /\ pc[r] = "send",
         NEW l \in PC \ {"send"}, pc' = [pc EXCEPT ![r] = l], cur' = cur
  PROVE  SentTaken' /\ Refusals(verdicts)'
<1>1. \A q \in Requests : pc[q] = "send" => cur[q] \in Providers
  BY DEF IInv, CallOK
<1>2. \A v \in verdicts : v.p \in Providers
  BY DEF C!TypeOK, C!Verdict
<1>3. \A q \in Requests : pc'[q] = "send" => pc[q] = "send"
  BY DEF IInv, CallOK
<1>4. SentTaken'
  BY <1>1, <1>3 DEF KInv, SentTaken
<1>5. Refusals(verdicts)'
  BY <1>1, <1>2 DEF KInv, SentTaken, Refusals
<1> QED BY <1>4, <1>5

\* A selected channel is sent to only with a credential at hand.
LEMMA KeysSelected ==
  ASSUME C!TypeOK, IInv, KInv, \A p \in Providers : Taken(p) => Taken(p)',
         NEW r \in Requests, Select(r)
  PROVE  SentTaken' /\ Refusals(verdicts)'
<1>1. PICK p \in C!Choice(lane[r], tried[r]) : cur' = [cur EXCEPT ![r] = p] /\ TakeUp(r, p)
  BY DEF Select
<1>2. p \in C!Active /\ p \in Providers
  BY <1>1 DEF C!Choice, C!PinUsable, C!Preferred, C!Untried, C!Active
<1>3. /\ pc \in [Requests -> PC] /\ cur \in [Requests -> Providers \cup {NULL}]
      /\ \A q \in Requests : pc[q] = "send" => cur[q] \in Providers
      /\ \A v \in verdicts : v.p \in Providers
      /\ pc[r] = "select"
  BY DEF IInv, CallOK, C!TypeOK, C!Verdict, Select
<1>4. \A v \in verdicts' : v.class = "auth" => v \in verdicts
  BY <1>1 DEF TakeUp, C!Posting, Said, channelVars
<1>5. \A q \in Requests : pc'[q] = "send" => (q # r /\ pc[q] = "send") \/ (q = r /\ ~Undecryptable(p))
  BY <1>1, <1>3 DEF TakeUp, Goto
<1>6. ~Undecryptable(p) => Taken(p)
  BY <1>2 DEF Undecryptable, Taken, C!Active, C!Exists
<1>7. \A q \in Requests : cur'[q] = IF q = r THEN p ELSE cur[q]
  BY <1>1, <1>3
<1>8. SentTaken'
  BY <1>2, <1>3, <1>5, <1>6, <1>7 DEF KInv, SentTaken
<1>9. Refusals(verdicts)'
  BY <1>3, <1>4 DEF KInv, Refusals
<1> QED BY <1>8, <1>9

\* Call r moves on to l and posts V, no refusal among it.
Mild(r, l, V) ==
  /\ pc' = [pc EXCEPT ![r] = l] /\ cur' = cur
  /\ verdicts' = verdicts \cup V /\ \A v \in V : v.class # "auth"

LEMMA KeysNext == C!TypeOK /\ IInv /\ KInv /\ [Next]_vars => KInv'
<1> SUFFICES ASSUME C!TypeOK, IInv, KInv, [Next]_vars PROVE KInv'
  OBVIOUS
<1>1. NoBlame' /\ \A p \in Providers : Taken(p) => Taken(p)'
  BY NextStep, KeysMove DEF KInv
<1>2. {"select", "settle", "stream", "done", "unread", "gone"} \subseteq PC \ {"send"}
  BY DEF PC
\* A call posts nothing, or a verdict that is no refusal.
<1>3. ASSUME NEW r \in Requests, NEW l \in PC \ {"send"}, NEW V, Mild(r, l, V)
      PROVE  SentTaken' /\ Refusals(verdicts)'
  BY <1>1, <1>3, KeysPosted DEF Mild
<1>4. ASSUME NEW r \in Requests, NEW class \in {"fault", "limited", "auth"}, Fail(r, class)
      PROVE  SentTaken' /\ Refusals(verdicts)'
  <2> DEFINE v == Said(r, n[r], cur[r], class, CountOnce(r, cur[r]))
  <2>1. /\ verdicts' = verdicts \cup {v} /\ v.p = cur[r]
        /\ pc[r] = "send" /\ pc' = [pc EXCEPT ![r] = "select"] /\ cur' = cur
    BY <1>4 DEF Fail, C!Posting, Goto, Said
  <2> HIDE DEF v
  <2> DEFINE V == {v}
  <2>2. \A w \in V : w.class = "auth" => w.p = cur[r] /\ pc[r] = "send"
    BY <2>1
  <2>3. verdicts' = verdicts \cup V /\ "select" \in PC \ {"send"}
    BY <1>2, <2>1
  <2> HIDE DEF V
  <2> QED BY <1>1, <2>1, <2>2, <2>3, KeysPosted
<1>5. ASSUME NEW r \in Requests,
             \/ \E k \in Kinds, l \in Lanes \cup {NULL} : Arrive(r, k, l)
             \/ \E k \in Kinds : Reject(r, k)
             \/ GiveUp(r) \/ FailFast(r) \/ Succeed(r) \/ Settle(r) \/ HandOver(r)
             \/ EndStream(r) \/ Unread(r) \/ Expire(r) \/ Vanish(r)
      PROVE  SentTaken' /\ Refusals(verdicts)'
  <2> DEFINE Posted(i, class, count) == {Said(r, i, cur[r], class, count)}
  <2>1. \A i, count, class : class # "auth" => \A v \in Posted(i, class, count) : v.class # "auth"
    BY DEF Said
  <2>2. ASSUME UNCHANGED channelVars PROVE verdicts' = verdicts \cup {}
    BY <2>2 DEF channelVars
  <2>3. CASE \E k \in Kinds, l \in Lanes \cup {NULL} : Arrive(r, k, l)
    <3>1. Mild(r, "select", {})
      BY <2>2, <2>3 DEF Arrive, Goto, Mild
    <3> QED BY <1>2, <1>3, <3>1
  <2>4. CASE (\E k \in Kinds : Reject(r, k)) \/ GiveUp(r) \/ Settle(r)
    <3>1. Mild(r, "done", {})
      BY <2>2, <2>4 DEF Reject, GiveUp, Settle, Goto, Reply, Mild
    <3> QED BY <1>2, <1>3, <3>1
  <2>5. CASE FailFast(r)
    <3>1. Mild(r, "done", Posted(n[r], "client", CountOnce(r, cur[r])))
      BY <2>1, <2>5 DEF FailFast, C!Posting, Goto, Reply, Mild
    <3> QED BY <1>2, <1>3, <3>1
  <2>6. CASE Succeed(r)
    <3>1. Mild(r, "settle", Posted(n[r], "ok", TRUE))
      BY <2>1, <2>6 DEF Succeed, C!Posting, Goto, Mild
    <3> QED BY <1>2, <1>3, <3>1
  <2>7. CASE HandOver(r)
    <3>1. Mild(r, "stream", {})
      BY <2>7 DEF HandOver, C!Posting, Goto, Mild
    <3> QED BY <1>2, <1>3, <3>1
  <2>8. CASE EndStream(r)
    <3>1. \/ Mild(r, "done", {})
          \/ Mild(r, "done", Posted(StreamEnd, "ok", TRUE))
          \/ Mild(r, "done", Posted(StreamEnd, "fault", TRUE))
      BY <2>1, <2>2, <2>8 DEF EndStream, C!Posting, Goto, Mild
    <3> QED BY <1>2, <1>3, <3>1
  <2>9. CASE Expire(r)
    <3>1. Mild(r, "done", {}) \/ Mild(r, "done", Posted(Deadline, "fault", TRUE))
      BY <2>1, <2>2, <2>9 DEF Expire, C!Posting, Goto, Reply, Mild
    <3> QED BY <1>2, <1>3, <3>1
  <2>10. CASE Vanish(r)
    <3>1. Mild(r, "gone", {})
      BY <2>2, <2>10 DEF Vanish, Goto, Mild
    <3> QED BY <1>2, <1>3, <3>1
  <2>11. CASE Unread(r)
    <3>1. Mild(r, "unread", {})
      BY <2>2, <2>11 DEF Unread, Goto, Mild
    <3> QED BY <1>2, <1>3, <3>1
  <2> QED BY <1>5, <2>3, <2>4, <2>5, <2>6, <2>7, <2>8, <2>9, <2>10, <2>11
<1>6. CASE UNCHANGED callVars /\ verdicts' \subseteq verdicts
  <2>1. UNCHANGED <<pc, cur>>
    BY <1>6 DEF callVars
  <2>2. \A q \in Requests : pc[q] = "send" => cur[q] \in Providers
    BY DEF IInv, CallOK
  <2>3. \A v \in verdicts : v.p \in Providers
    BY DEF C!TypeOK, C!Verdict
  <2>4. SentTaken' /\ Refusals(verdicts)'
    BY <1>1, <1>6, <2>1, <2>2, <2>3 DEF KInv, SentTaken, Refusals
  <2> QED BY <1>1, <2>4 DEF KInv
<1>7. C!Recording \/ C!Housekeeping \/ UNCHANGED vars => verdicts' \subseteq verdicts
  BY DEF C!Recording, C!Housekeeping, C!ApplyVerdict, C!WritePin, C!StartProbe, C!EndProbe,
         C!ModelTest, C!CreateProvider, C!UpdateProvider, C!DeleteProvider, vars, channelVars
<1>8. ASSUME NEW r \in Requests, Select(r) PROVE SentTaken' /\ Refusals(verdicts)'
  BY <1>1, <1>8, KeysSelected
<1>9. CASE UNCHANGED vars \/ ((C!Recording \/ C!Housekeeping) /\ UNCHANGED callVars)
  BY <1>6, <1>7, <1>9 DEF vars
<1>10. CASE \E r \in Requests :
              \/ \E k \in Kinds, l \in Lanes \cup {NULL} : Arrive(r, k, l)
              \/ \E k \in Kinds : Reject(r, k)
              \/ Work(r) \/ Unread(r) \/ Expire(r) \/ Vanish(r)
  <2>1. SentTaken' /\ Refusals(verdicts)'
    BY <1>3, <1>4, <1>5, <1>8, <1>10 DEF Work
  <2> QED BY <1>1, <2>1 DEF KInv
<1> QED BY <1>9, <1>10 DEF Next

\* The upstream's refusal of a credential is never what the client is told,
\* and a channel whose credential this process cannot decrypt, having asked the
\* upstream nothing, is never disabled for a refusal, whatever was edited or
\* copied between the call and its verdict.
THEOREM CredentialsKept == Spec => []CredentialsStayInside
<1>1. Init => KInv
  <2> SUFFICES ASSUME Init PROVE KInv
    OBVIOUS
  <2>1. \A p \in Providers : C!Exists(p) => row[p].reason = ""
    <3> SUFFICES ASSUME NEW p \in Providers, C!Exists(p) PROVE row[p].reason = ""
      OBVIOUS
    <3>1. PICK k \in C!KeyState : row[p] = C!Created(k)
      BY DEF Init, C!Init, C!Exists
    <3>2. C!Created(k).reason = ""
      BY DEF C!Created
    <3> QED BY <3>1, <3>2
  <2>2. SentTaken /\ Refusals(verdicts)
    BY DEF Init, C!Init, SentTaken, Refusals
  <2> QED BY <2>1, <2>2 DEF KInv, NoBlame
<1>2. AInv /\ KInv => CredentialsStayInside
  BY DEF AInv, AuditOK, KInv, NoBlame, CredentialsStayInside
<1> QED BY <1>1, <1>2, KeysNext, ChannelsHold, Inductive, Audits, PTL DEF Spec

-----------------------------------------------------------------------------
(***************************************************************************)
(* Types.                                                                  *)
(***************************************************************************)

\* A call comes back to a channel no oftener than it selects.
TriesOK ==
  \A r \in Requests, p \in Providers : tries[r][p] \in Nat /\ tries[r][p] <= n[r]

TallyTypes ==
  /\ tried \in [Requests -> SUBSET Providers]
  /\ tries \in [Requests -> [Providers -> 0..MaxAttempts]]
  /\ counted \in [Requests -> SUBSET Providers]
  /\ key \in [Requests -> {"good", "bad", NULL}]
  /\ steady \in [Requests -> SUBSET Providers]
  /\ blamed \subseteq Requests \X Providers
  /\ uncapped \subseteq C!Verdict

TInv == TallyTypes /\ TriesOK

LEMMA SteadyTyped ==
  ASSUME TInv, Watch
  PROVE  steady' \in [Requests -> SUBSET Providers]
<1>1. C!Active \subseteq Providers /\ C!Active' \subseteq Providers
  BY DEF C!Active
<1> QED BY <1>1 DEF Watch, TInv, TallyTypes

LEMMA TalliesSelected ==
  ASSUME C!TypeOK, IInv, TInv, Watch, NEW r \in Requests, Select(r)
  PROVE  TInv'
<1>1. PICK p \in C!Choice(lane[r], tried[r]) :
        /\ n' = [n EXCEPT ![r] = @ + 1]
        /\ tried' = [tried EXCEPT ![r] = @ \cup {p}]
        /\ tries' = [tries EXCEPT ![r][p] = @ + 1]
        /\ TakeUp(r, p)
  BY DEF Select
<1>2. p \in C!Active /\ p \in Providers
  BY <1>1 DEF C!Choice, C!PinUsable, C!Preferred, C!Untried, C!Active
<1>3. n \in [Requests -> 0..MaxAttempts] /\ n[r] < MaxAttempts /\ MaxAttempts \in Nat
  BY Bounds DEF IInv, CallOK, Select
<1>4. tried' \in [Requests -> SUBSET Providers] /\ uncapped' = uncapped
  BY <1>1, <1>2 DEF TInv, TallyTypes, Select
<1>5. tries' \in [Requests -> [Providers -> 0..MaxAttempts]] /\ TriesOK'
  <2>1. tries[r][p] \in Nat /\ tries[r][p] <= n[r] /\ tries[r][p] + 1 \in 0..MaxAttempts
    BY <1>2, <1>3 DEF TInv, TriesOK
  <2>2. tries' \in [Requests -> [Providers -> 0..MaxAttempts]]
    BY <1>1, <1>2, <2>1 DEF TInv, TallyTypes
  <2>3. ASSUME NEW q \in Requests, NEW s \in Providers
        PROVE  tries'[q][s] \in Nat /\ tries'[q][s] <= n'[q]
    <3>1. tries'[q][s] = IF q = r /\ s = p THEN tries[r][p] + 1 ELSE tries[q][s]
      BY <1>1, <1>2 DEF TInv, TallyTypes
    <3>2. n'[q] = IF q = r THEN n[r] + 1 ELSE n[q]
      BY <1>1, <1>3
    <3>3. tries[q][s] \in Nat /\ tries[q][s] <= n[q] /\ n[q] \in Nat
      BY <1>3 DEF TInv, TriesOK
    <3> QED BY <2>1, <3>1, <3>2, <3>3
  <2> QED BY <2>2, <2>3 DEF TriesOK
<1>6. /\ counted' \in [Requests -> SUBSET Providers]
      /\ blamed' \subseteq Requests \X Providers
  <2>1. counted' = counted \/ counted' = [counted EXCEPT ![r] = @ \cup {p}]
    BY <1>1 DEF TakeUp
  <2>2. blamed' = blamed \/ blamed' = blamed \cup {<<r, p>>}
    BY <1>1 DEF TakeUp
  <2> QED BY <1>2, <2>1, <2>2 DEF TInv, TallyTypes
<1>7. key' \in [Requests -> {"good", "bad", NULL}]
  <2>1. ~Undecryptable(p) => row[p].key \in {"good", "bad"}
    BY <1>2, RowFields DEF C!Active, C!Row, C!KeyState, Undecryptable
  <2> QED BY <1>1, <2>1 DEF TakeUp, TInv, TallyTypes
<1> QED BY <1>4, <1>5, <1>6, <1>7, SteadyTyped DEF TInv, TallyTypes

LEMMA TalliesKept ==
  ASSUME IInv, TInv, Watch, NEW r \in Requests,
         \/ \E k \in Kinds, l \in Lanes \cup {NULL} : Arrive(r, k, l)
         \/ \E k \in Kinds : Reject(r, k)
         \/ GiveUp(r) \/ FailFast(r) \/ Succeed(r) \/ Settle(r) \/ HandOver(r)
         \/ EndStream(r) \/ Unread(r) \/ Expire(r) \/ Vanish(r)
         \/ \E class \in {"fault", "limited", "auth"} : Fail(r, class)
  PROVE  TInv'
<1>1. UNCHANGED <<n, tried, tries, key>>
  BY DEF Arrive, Reject, GiveUp, FailFast, Succeed, Settle, HandOver, EndStream, Expire,
     Unread, Vanish, Fail
<1>2. pc[r] \in {"send", "settle", "stream"} => cur[r] \in Providers
  BY DEF IInv, CallOK
<1>3. counted' \in [Requests -> SUBSET Providers]
  <2>1. \/ counted' = counted
        \/ counted' = [counted EXCEPT ![r] = @ \cup {cur[r]}] /\ pc[r] = "send"
    BY DEF Arrive, Reject, GiveUp, FailFast, Succeed, Settle, HandOver, EndStream, Expire,
       Unread, Vanish, Fail
  <2> QED BY <1>2, <2>1 DEF TInv, TallyTypes
<1>4. blamed' \subseteq Requests \X Providers
  <2>1. \/ blamed' = blamed
        \/ blamed' = blamed \cup {<<r, cur[r]>>} /\ pc[r] \in {"send", "stream"}
    BY DEF Arrive, Reject, GiveUp, FailFast, Succeed, Settle, HandOver, EndStream, Expire,
       Unread, Vanish, Fail
  <2> QED BY <1>2, <2>1 DEF TInv, TallyTypes
<1>5. uncapped' \subseteq C!Verdict
  <2>1. CASE uncapped' = uncapped
    BY <2>1 DEF TInv, TallyTypes
  <2>2. CASE uncapped' # uncapped
    <3>1. PICK i \in {Deadline, StreamEnd} :
            uncapped' = uncapped \cup {Said(r, i, cur[r], "fault", TRUE)} /\ cur[r] # NULL
      <4>1. NULL \notin Providers
        BY ChannelsAssumption
      <4> QED BY <1>2, <2>2, <4>1 DEF Arrive, Reject, GiveUp, FailFast, Succeed, Settle, HandOver,
         EndStream, Expire, Unread, Vanish, Fail
    <3>2. cur[r] \in Providers /\ i \in 1..StreamEnd
      BY <3>1, Bounds DEF IInv, CallOK
    <3>3. Said(r, i, cur[r], "fault", TRUE) \in C!Verdict
      BY <3>2, SaidVerdict DEF C!Class
    <3> QED BY <3>1, <3>3 DEF TInv, TallyTypes
  <2> QED BY <2>1, <2>2
<1> QED BY <1>1, <1>3, <1>4, <1>5, SteadyTyped DEF TInv, TallyTypes, TriesOK

LEMMA TalliesNext == C!TypeOK /\ IInv /\ TInv /\ [Next]_vars => TInv'
<1> SUFFICES ASSUME C!TypeOK, IInv, TInv, [Next]_vars PROVE TInv'
  OBVIOUS
<1>1. CASE UNCHANGED vars
  BY <1>1 DEF vars, callVars, TInv, TallyTypes, TriesOK
<1>2. CASE Next /\ UNCHANGED callVars
  BY <1>2, SteadyTyped DEF Next, callVars, TInv, TallyTypes, TriesOK
<1>3. CASE Next /\ ~UNCHANGED callVars
  BY <1>3, TalliesSelected, TalliesKept DEF Next, Work
<1> QED BY <1>1, <1>2, <1>3

LEMMA TalliesInit == Init => TInv
  BY Bounds DEF Init, TInv, TallyTypes, TriesOK

LEMMA Tallies == Spec => []TInv
  BY InitOK, NextStep, ChannelsHold, TalliesInit, TalliesNext, PTL DEF Spec

\* The states of calls and channels stay what the types say.
THEOREM FailoverTypes == Spec => []TypeOK
<1>1. C!TypeOK /\ IInv /\ AInv /\ TInv => TypeOK
  BY DEF IInv, CallOK, AInv, AuditTypes, TInv, TallyTypes, TypeOK
<1> QED BY <1>1, ChannelsHold, Inductive, Audits, Tallies, PTL

-----------------------------------------------------------------------------
(***************************************************************************)
(* Failing over reaches everybody, for any number of calls, channels and    *)
(* attempts: a call that ends with the failure of its channels tried every  *)
(* channel that was in service ever since it arrived.                      *)
(*                                                                         *)
(* The argument counts: as long as a steady channel is untried, no channel  *)
(* is selected twice, so that the selections made are as many as the        *)
(* channels tried; after as many as there are channels, all were.          *)
(*                                                                         *)
(* And what is counted against a channel is backed by that many calls       *)
(* blamed for it, or by verdicts posted without asking.  That counts too:   *)
(* the failures on record and those still to be recorded.                  *)
(***************************************************************************)
Final == {"fault", "limited", "unavailable"}

ReachTypes ==
  /\ tried \in [Requests -> SUBSET Providers]
  /\ answer \in [Requests -> Answers \cup {NULL}]
  /\ steady \in [Requests -> SUBSET Providers]
  /\ lastErr \in [Requests -> {"fault", "limited", "auth", NULL}]

\* What is known of one call.
Reach(r) ==
  /\ steady[r] \subseteq C!Active
  /\ pc[r] = "idle" => tried[r] = {} /\ n[r] = 0 /\ answer[r] \notin Final
  /\ steady[r] \subseteq tried[r] \/ Cardinality(tried[r]) = n[r]
  /\ answer[r] \in Final /\ pc[r] # "unread" /\ MaxAttempts >= Cardinality(Providers)
       => steady[r] \subseteq tried[r]

RInv == IInv /\ ReachTypes /\ \A r \in Requests : Reach(r)

\* A step that selects nothing for a call, and does not give it up.
Quiet(r) ==
  /\ tried'[r] = tried[r] /\ n'[r] = n[r]
  /\ answer'[r] = answer[r] \/ answer'[r] \notin Final
  /\ pc'[r] = "idle" => pc[r] = "idle" /\ answer'[r] = answer[r]
  /\ pc[r] = "unread" => pc'[r] = "unread"

-----------------------------------------------------------------------------
(***************************************************************************)
(* Selection.                                                              *)
(***************************************************************************)

\* Nothing is chosen only when nothing is in service, and while an untried
\* channel is in service nothing but an untried one is.
LEMMA Choices ==
  ASSUME NEW l, NEW S, S \subseteq Providers
  PROVE  /\ C!Choice(l, S) \subseteq Providers
         /\ C!Choice(l, S) = {} => C!Active = {}
         /\ C!Active \ S # {} => C!Choice(l, S) \cap S = {}
<1> DEFINE U == C!Untried(S)
<1>1. C!Active \subseteq Providers
  BY DEF C!Active
<1>2. /\ U \subseteq C!Active /\ (C!Active # {} => U # {})
      /\ C!Active \ S # {} => U \cap S = {}
  BY DEF C!Untried
<1>3. C!Preferred(U) \subseteq U /\ (U # {} => C!Preferred(U) # {})
  BY DEF C!Preferred
<1>4. CASE C!PinUsable(l, S)
  <2>1. C!Choice(l, S) = {pin[l]} /\ pin[l] \in C!Active /\ pin[l] \notin S
    BY <1>4 DEF C!Choice, C!PinUsable
  <2> QED BY <1>1, <2>1
<1>5. CASE ~C!PinUsable(l, S)
  <2>1. C!Choice(l, S) = C!Preferred(U)
    BY <1>5 DEF C!Choice
  <2> HIDE DEF U
  <2> QED BY <1>1, <1>2, <1>3, <2>1
<1> QED BY <1>4, <1>5

LEMMA Watched ==
  ASSUME ReachTypes, Watch, NEW r \in Requests
  PROVE  /\ steady' \in [Requests -> SUBSET Providers]
         /\ steady'[r] \subseteq C!Active'
         /\ pc[r] # "idle" => steady'[r] \subseteq steady[r]
<1>1. C!Active' \subseteq Providers
  BY DEF C!Active
<1> QED BY <1>1 DEF Watch, ReachTypes

LEMMA QuietKeeps ==
  ASSUME RInv, Watch, NEW r \in Requests, Quiet(r)
  PROVE  Reach(r)'
<1>1. steady'[r] \subseteq C!Active'
  BY Watched DEF RInv
<1>2. Reach(r)
  BY DEF RInv
<1>3. pc'[r] = "idle" => tried'[r] = {} /\ n'[r] = 0 /\ answer'[r] \notin Final
  BY <1>2 DEF Reach, Quiet
<1>4. CASE pc[r] = "idle"
  <2>1. tried'[r] = {} /\ n'[r] = 0 /\ answer'[r] \notin Final
    BY <1>2, <1>4 DEF Reach, Quiet
  <2>2. Cardinality(tried'[r]) = n'[r]
    BY <2>1, FS_EmptySet
  <2> QED BY <1>1, <1>3, <2>1, <2>2 DEF Reach
<1>5. CASE pc[r] # "idle"
  <2>1. steady'[r] \subseteq steady[r]
    BY <1>5, Watched DEF RInv
  <2>2. steady'[r] \subseteq tried'[r] \/ Cardinality(tried'[r]) = n'[r]
    BY <1>2, <2>1 DEF Reach, Quiet
  <2>3. answer'[r] \in Final /\ pc'[r] # "unread" /\ MaxAttempts >= Cardinality(Providers)
          => steady'[r] \subseteq tried'[r]
    BY <1>2, <2>1 DEF Reach, Quiet
  <2> QED BY <1>1, <1>3, <2>2, <2>3 DEF Reach
<1> QED BY <1>4, <1>5

LEMMA SelectReaches ==
  ASSUME RInv, Watch, NEW r \in Requests, Select(r)
  PROVE  Reach(r)' /\ tried' \in [Requests -> SUBSET Providers]
<1>1. Reach(r) /\ tried[r] \subseteq Providers /\ n[r] \in Nat
  BY DEF RInv, ReachTypes, IInv, CallOK
<1>2. PICK p \in C!Choice(lane[r], tried[r]) :
        /\ n' = [n EXCEPT ![r] = n[r] + 1]
        /\ tried' = [tried EXCEPT ![r] = tried[r] \cup {p}]
        /\ TakeUp(r, p)
  BY DEF Select
<1>3. p \in Providers
  BY <1>1, <1>2, Choices
<1>4. n'[r] = n[r] + 1 /\ tried'[r] = tried[r] \cup {p}
  BY <1>2 DEF RInv, ReachTypes, IInv, CallOK
<1>5. tried' \in [Requests -> SUBSET Providers]
  BY <1>1, <1>2, <1>3 DEF RInv, ReachTypes
<1>6. pc[r] = "select" /\ answer' = answer /\ pc'[r] # "idle"
  <2>1. pc[r] = "select" /\ answer' = answer
    BY DEF Select
  <2>2. pc' = pc \/ pc' = [pc EXCEPT ![r] = "send"]
    BY <1>2 DEF TakeUp, Goto
  <2> QED BY <2>1, <2>2 DEF RInv, IInv, CallOK
<1>7. steady'[r] \subseteq C!Active' /\ steady'[r] \subseteq steady[r]
  BY <1>6, Watched DEF RInv
<1>8. steady'[r] \subseteq tried'[r] \/ Cardinality(tried'[r]) = n'[r]
  <2>1. CASE steady[r] \subseteq tried[r]
    BY <1>4, <1>7, <2>1
  <2>2. CASE ~(steady[r] \subseteq tried[r])
    <3>1. Cardinality(tried[r]) = n[r] /\ C!Active \ tried[r] # {}
      BY <1>1, <2>2 DEF Reach
    <3>2. p \notin tried[r]
      BY <1>1, <1>2, <3>1, Choices
    <3>3. IsFiniteSet(tried[r])
      BY <1>1, FailoverAssumption, FS_Subset
    <3> QED BY <1>4, <3>1, <3>2, <3>3, FS_AddElement
  <2> QED BY <2>1, <2>2
<1>9. answer'[r] \in Final /\ MaxAttempts >= Cardinality(Providers)
        => steady'[r] \subseteq tried'[r]
  BY <1>1, <1>4, <1>6, <1>7 DEF Reach
<1> QED BY <1>5, <1>6, <1>7, <1>8, <1>9 DEF Reach

LEMMA GiveUpReaches ==
  ASSUME RInv, Watch, NEW r \in Requests, GiveUp(r)
  PROVE  Reach(r)'
<1>1. Reach(r) /\ tried[r] \subseteq Providers
  BY DEF RInv, ReachTypes
<1>2. /\ pc[r] = "select" /\ pc'[r] = "done" /\ UNCHANGED <<n, tried>>
      /\ n[r] = MaxAttempts \/ C!Choice(lane[r], tried[r]) = {}
  BY DEF GiveUp, Reply, Goto, OutOfChannels, RInv, IInv, CallOK
<1>3. steady'[r] \subseteq C!Active' /\ steady'[r] \subseteq steady[r]
  BY <1>2, Watched DEF RInv
<1>4. MaxAttempts >= Cardinality(Providers) => steady[r] \subseteq tried[r]
  <2> SUFFICES ASSUME MaxAttempts >= Cardinality(Providers), ~(steady[r] \subseteq tried[r])
               PROVE  FALSE
    OBVIOUS
  <2>1. CASE n[r] = MaxAttempts
    <3>1. Cardinality(tried[r]) = MaxAttempts
      BY <1>1, <2>1 DEF Reach
    <3>2. /\ Cardinality(tried[r]) <= Cardinality(Providers)
          /\ Cardinality(Providers) = Cardinality(tried[r]) => Providers = tried[r]
          /\ Cardinality(tried[r]) \in Nat /\ Cardinality(Providers) \in Nat
      BY <1>1, FailoverAssumption, FS_Subset, FS_CardinalityType
    <3>3. Providers = tried[r]
      BY <3>1, <3>2
    <3> QED BY <3>3 DEF RInv, ReachTypes
  <2>2. CASE C!Choice(lane[r], tried[r]) = {}
    <3>1. C!Active = {}
      BY <1>1, <2>2, Choices
    <3> QED BY <1>1, <3>1 DEF Reach
  <2> QED BY <1>2, <2>1, <2>2
<1>5. pc'[r] # "idle"
  BY <1>2
<1>6. steady'[r] \subseteq tried'[r] \/ Cardinality(tried'[r]) = n'[r]
  BY <1>1, <1>2, <1>3 DEF Reach
<1> QED BY <1>2, <1>3, <1>4, <1>5, <1>6 DEF Reach

\* A call that cannot read the channels is left out.
LEMMA UnreadReaches ==
  ASSUME RInv, Watch, NEW r \in Requests, Unread(r)
  PROVE  Reach(r)'
<1>1. Reach(r) /\ pc[r] = "select" /\ pc'[r] = "unread" /\ UNCHANGED <<n, tried>>
  BY DEF Unread, Goto, RInv, IInv, CallOK
<1>2. steady'[r] \subseteq C!Active' /\ steady'[r] \subseteq steady[r]
  BY <1>1, Watched DEF RInv
<1> QED BY <1>1, <1>2 DEF Reach

-----------------------------------------------------------------------------
(***************************************************************************)
(* Every other step.                                                       *)
(***************************************************************************)

\* What a call does to itself when it neither selects nor gives up.
Advances(r, l, a) ==
  /\ UNCHANGED <<n, tried>> /\ pc' = [pc EXCEPT ![r] = l] /\ pc[r] # "unread"
  /\ answer' = answer \/ answer' = [answer EXCEPT ![r] = a]
  /\ \/ lastErr' = lastErr
     \/ \E class \in {"fault", "limited", "auth"} : lastErr' = [lastErr EXCEPT ![r] = class]

LEMMA AdvancesQuietly ==
  ASSUME RInv, NEW r \in Requests, NEW l \in PC \ {"idle"}, NEW a \in Answers \ Final,
         Advances(r, l, a)
  PROVE  /\ answer' \in [Requests -> Answers \cup {NULL}]
         /\ tried' \in [Requests -> SUBSET Providers]
         /\ lastErr' \in [Requests -> {"fault", "limited", "auth", NULL}]
         /\ \A q \in Requests : Quiet(q)
<1>1. /\ answer' \in [Requests -> Answers \cup {NULL}]
      /\ tried' \in [Requests -> SUBSET Providers]
      /\ lastErr' \in [Requests -> {"fault", "limited", "auth", NULL}]
  BY DEF RInv, ReachTypes, Advances
<1>2. ASSUME NEW q \in Requests PROVE Quiet(q)
  <2>1. pc'[q] = "idle" => q # r /\ pc[q] = "idle"
    BY DEF Advances, RInv, IInv, CallOK
  <2>2. answer'[q] = answer[q] \/ (q = r /\ answer'[q] = a)
    BY DEF Advances, RInv, ReachTypes
  <2>3. pc[q] = "unread" => pc'[q] = "unread"
    BY DEF Advances, RInv, IInv, CallOK
  <2> QED BY <2>1, <2>2, <2>3 DEF Quiet, Advances
<1> QED BY <1>1, <1>2

LEMMA OthersMove ==
  ASSUME NEW r \in Requests,
         \/ \E k \in Kinds, l \in Lanes \cup {NULL} : Arrive(r, k, l)
         \/ \E k \in Kinds : Reject(r, k)
         \/ FailFast(r) \/ Succeed(r) \/ Settle(r) \/ HandOver(r) \/ EndStream(r)
         \/ \E class \in {"fault", "limited", "auth"} : Fail(r, class)
         \/ Expire(r) \/ Vanish(r)
  PROVE  \E l \in PC \ {"idle"}, a \in Answers \ Final : Advances(r, l, a)
<1>1. /\ "ok" \in Answers \ Final /\ "client" \in Answers \ Final
      /\ "rejected" \in Answers \ Final /\ "timeout" \in Answers \ Final
      /\ {"select", "send", "settle", "stream", "done", "gone"} \subseteq PC \ {"idle"}
  BY DEF Answers, Final, PC
<1>2. ASSUME NEW k \in Kinds, NEW l \in Lanes \cup {NULL}, Arrive(r, k, l)
      PROVE  Advances(r, "select", "ok")
  BY <1>2 DEF Arrive, Advances, Goto
<1>3. ASSUME NEW k \in Kinds, Reject(r, k) PROVE Advances(r, "done", "rejected")
  BY <1>3 DEF Reject, Advances, Reply, Goto
<1>4. CASE FailFast(r)
  <2>1. Advances(r, "done", "client")
    BY <1>4 DEF FailFast, Advances, Reply, Goto
  <2> QED BY <1>1, <2>1
<1>5. CASE Succeed(r)
  <2>1. Advances(r, "settle", "ok")
    BY <1>5 DEF Succeed, Advances, Goto
  <2> QED BY <1>1, <2>1
<1>6. CASE Settle(r)
  <2>1. Advances(r, "done", "ok")
    BY <1>6 DEF Settle, Advances, Reply, Goto
  <2> QED BY <1>1, <2>1
<1>7. CASE HandOver(r)
  <2>1. Advances(r, "stream", "ok")
    BY <1>7 DEF HandOver, Advances, Goto
  <2> QED BY <1>1, <2>1
<1>8. CASE EndStream(r)
  <2>1. Advances(r, "done", "ok")
    BY <1>8 DEF EndStream, Advances, Goto
  <2> QED BY <1>1, <2>1
<1>9. ASSUME NEW class \in {"fault", "limited", "auth"}, Fail(r, class)
      PROVE  Advances(r, "select", "ok")
  BY <1>9 DEF Fail, Advances, Goto
<1>10. CASE Expire(r)
  <2>1. Advances(r, "done", "timeout")
    BY <1>10 DEF Expire, Advances, Reply, Goto
  <2> QED BY <1>1, <2>1
<1>11. CASE Vanish(r)
  <2>1. Advances(r, "gone", "ok")
    BY <1>11 DEF Vanish, Advances, Goto
  <2> QED BY <1>1, <2>1
<1> QED BY <1>1, <1>2, <1>3, <1>4, <1>5, <1>6, <1>7, <1>8, <1>9, <1>10, <1>11

\* Of the other calls, a step of one call changes nothing.
LEMMA SelectLeavesOthers ==
  ASSUME RInv, NEW r \in Requests, Select(r) \/ GiveUp(r) \/ Unread(r), NEW q \in Requests \ {r}
  PROVE  Quiet(q)
<1>1. CASE Select(r)
  <2>1. PICK p \in C!Choice(lane[r], tried[r]) :
          /\ n' = [n EXCEPT ![r] = n[r] + 1]
          /\ tried' = [tried EXCEPT ![r] = tried[r] \cup {p}]
          /\ pc' = pc \/ pc' = [pc EXCEPT ![r] = "send"]
    BY <1>1 DEF Select, TakeUp, Goto
  <2>2. answer' = answer
    BY <1>1 DEF Select
  <2> QED BY <2>1, <2>2 DEF Quiet, RInv, ReachTypes, IInv, CallOK
<1>2. CASE GiveUp(r)
  BY <1>2 DEF GiveUp, Reply, Goto, Quiet, RInv, ReachTypes, IInv, CallOK
<1>3. CASE Unread(r)
  BY <1>3 DEF Unread, Goto, Quiet, RInv, ReachTypes, IInv, CallOK
<1> QED BY <1>1, <1>2, <1>3

LEMMA GivenUpTyped ==
  ASSUME RInv, NEW r \in Requests, GiveUp(r) \/ Unread(r)
  PROVE  answer' \in [Requests -> Answers \cup {NULL}] /\ UNCHANGED <<tried, lastErr>>
<1>1. FinalAnswer(r) \in Answers
  BY FailoverAssumption DEF RInv, ReachTypes, FinalAnswer, Answers
<1> QED BY <1>1 DEF GiveUp, Unread, Reply, RInv, ReachTypes

-----------------------------------------------------------------------------
(***************************************************************************)
(* The specification.                                                      *)
(***************************************************************************)

LEMMA ReachInit == Init => RInv
<1> SUFFICES ASSUME Init PROVE RInv
  OBVIOUS
<1>1. NULL \notin Final
  BY FailoverAssumption DEF Answers, Final
<1>2. ReachTypes
  BY DEF Init, ReachTypes
<1>3. ASSUME NEW r \in Requests PROVE Reach(r)
  BY <1>1, FS_EmptySet DEF Init, Reach
<1> QED BY <1>2, <1>3, InitOK DEF RInv

LEMMA ReachNext == RInv /\ [Next]_vars => RInv'
<1> SUFFICES ASSUME RInv, [Next]_vars PROVE RInv'
  OBVIOUS
<1>1. IInv'
  BY NextStep DEF RInv
<1>2. ASSUME Watch, \A r \in Requests : Quiet(r), tried' \in [Requests -> SUBSET Providers],
             answer' \in [Requests -> Answers \cup {NULL}],
             lastErr' \in [Requests -> {"fault", "limited", "auth", NULL}]
      PROVE  RInv'
  <2>1. \A r \in Requests : Reach(r)'
    BY <1>2, QuietKeeps
  <2>2. ReachTypes'
    <3>1. steady' \in [Requests -> SUBSET Providers]
      <4>1. C!Active' \subseteq Providers
        BY DEF C!Active
      <4> QED BY <1>2, <4>1 DEF Watch, RInv, ReachTypes
    <3> QED BY <1>2, <3>1 DEF ReachTypes
  <2> QED BY <1>1, <2>1, <2>2 DEF RInv
<1>3. ASSUME NEW r \in Requests, Watch, NEW l \in PC \ {"idle"}, NEW a \in Answers \ Final,
             Advances(r, l, a)
      PROVE  RInv'
  BY <1>2, <1>3, AdvancesQuietly
<1>4. ASSUME NEW r \in Requests, Watch, Select(r) \/ GiveUp(r) \/ Unread(r)
      PROVE  RInv'
  <2>1. \A q \in Requests \ {r} : Reach(q)'
    BY <1>4, SelectLeavesOthers, QuietKeeps
  <2>2. Reach(r)'
    BY <1>4, SelectReaches, GiveUpReaches, UnreadReaches
  <2>3. steady' \in [Requests -> SUBSET Providers]
    BY <1>4, Watched DEF RInv
  <2>4. /\ tried' \in [Requests -> SUBSET Providers]
        /\ answer' \in [Requests -> Answers \cup {NULL}]
        /\ lastErr' \in [Requests -> {"fault", "limited", "auth", NULL}]
    <3>1. CASE Select(r)
      <4>1. UNCHANGED <<answer, lastErr>>
        BY <3>1 DEF Select
      <4> QED BY <1>4, <3>1, <4>1, SelectReaches DEF RInv, ReachTypes
    <3>2. CASE GiveUp(r) \/ Unread(r)
      BY <3>2, GivenUpTyped DEF RInv, ReachTypes
    <3> QED BY <1>4, <3>1, <3>2
  <2>5. ReachTypes'
    BY <2>3, <2>4 DEF ReachTypes
  <2>6. \A q \in Requests : Reach(q)'
    BY <2>1, <2>2
  <2> QED BY <1>1, <2>5, <2>6 DEF RInv
<1>5. CASE UNCHANGED vars
  <2>1. /\ UNCHANGED <<row, pin, pc, n, tried, answer, lastErr, steady>>
    BY <1>5 DEF vars, channelVars, callVars
  <2>2. C!Active' = C!Active
    BY <2>1 DEF C!Active, C!Exists
  <2> QED BY <1>1, <2>1, <2>2 DEF RInv, ReachTypes, Reach
<1>6. CASE Next /\ (C!Recording \/ C!Housekeeping) /\ UNCHANGED callVars
  <2>1. UNCHANGED <<n, tried, answer, pc, lastErr>> /\ Watch
    BY <1>6 DEF callVars, Next
  <2>2. \A r \in Requests : Quiet(r)
    BY <2>1 DEF Quiet
  <2> QED BY <1>2, <2>1, <2>2 DEF RInv, ReachTypes
<1>7. CASE Next /\ \E r \in Requests :
             \/ \E k \in Kinds, l \in Lanes \cup {NULL} : Arrive(r, k, l)
             \/ \E k \in Kinds : Reject(r, k)
             \/ Work(r) \/ Unread(r) \/ Expire(r) \/ Vanish(r)
  <2>1. Watch
    BY <1>7 DEF Next
  <2>2. PICK r \in Requests :
             \/ \E k \in Kinds, l \in Lanes \cup {NULL} : Arrive(r, k, l)
             \/ \E k \in Kinds : Reject(r, k)
             \/ Work(r) \/ Unread(r) \/ Expire(r) \/ Vanish(r)
    BY <1>7
  <2>3. CASE Select(r) \/ GiveUp(r) \/ Unread(r)
    BY <1>4, <2>1, <2>3
  <2>4. CASE ~(Select(r) \/ GiveUp(r) \/ Unread(r))
    <3>1. \E l \in PC \ {"idle"}, a \in Answers \ Final : Advances(r, l, a)
      BY <2>2, <2>4, OthersMove DEF Work
    <3> QED BY <1>3, <2>1, <3>1
  <2> QED BY <2>3, <2>4
<1> QED BY <1>5, <1>6, <1>7 DEF Next

\* A call that fails with its channels tried every one of them that was in
\* service all along, whatever was pinned, probed, disabled or edited, unless it
\* could not read which there are.
THEOREM FailingOverReaches == Spec => []EveryoneTried
<1>1. RInv => EveryoneTried
  BY DEF RInv, Reach, EveryoneTried, Final
<1> QED BY <1>1, ReachInit, ReachNext, PTL DEF Spec

-----------------------------------------------------------------------------
(***************************************************************************)
(* Consecutive failures are backed.  What a channel's count may still       *)
(* become, its own value and the counting verdicts under way, never exceeds *)
(* the calls blamed for it and the verdicts posted without asking.          *)
(***************************************************************************)
Blamed(p) == {r \in Requests : <<r, p>> \in blamed}
Over(p) == {v \in uncapped : v.p = p}
Due(p) == {v \in verdicts : v.p = p /\ C!Counts(v)}
Count(p) == IF C!Exists(p) THEN row[p].fails ELSE 0

Backed(p) ==
  /\ IsFiniteSet(Blamed(p)) /\ IsFiniteSet(Over(p)) /\ IsFiniteSet(Due(p))
  /\ Count(p) + Cardinality(Due(p)) <= Cardinality(Blamed(p)) + Cardinality(Over(p))

\* A call that is not over asks failure_counted of every channel it met a
\* fault at, and only a call that is over posted without asking.
Asks ==
  /\ \A r \in Requests, p \in Providers :
       <<r, p>> \in blamed /\ pc[r] # "done" => p \in counted[r]
  /\ \A v \in uncapped, r \in Requests, i \in 1..StreamEnd :
       v.post = <<r, i>> => pc[r] = "done"

FInv == Asks /\ \A p \in Providers : Backed(p)

LEMMA OneMore ==
  ASSUME NEW S, NEW T, NEW x, IsFiniteSet(S), T = S \/ T = S \cup {x}
  PROVE  /\ IsFiniteSet(T) /\ Cardinality(S) \in Nat /\ Cardinality(T) \in Nat
         /\ Cardinality(S) <= Cardinality(T) /\ Cardinality(T) <= Cardinality(S) + 1
         /\ x \notin S /\ T = S \cup {x} => Cardinality(T) = Cardinality(S) + 1
<1>1. Cardinality(S) \in Nat
  BY FS_CardinalityType
<1>2. CASE T = S /\ (x \in S \/ T # S \cup {x})
  BY <1>1, <1>2
<1>3. CASE T = S \cup {x} /\ x \notin S
  <2>1. IsFiniteSet(T) /\ Cardinality(T) = Cardinality(S) + 1
    BY <1>3, FS_AddElement
  <2> QED BY <1>1, <1>3, <2>1
<1>4. CASE T = S \cup {x} /\ x \in S
  <2>1. T = S
    BY <1>4
  <2> QED BY <1>1, <1>4, <2>1
<1>5. CASE T = S /\ T = S \cup {x} /\ x \notin S
  BY <1>5
<1> QED BY <1>2, <1>3, <1>4, <1>5

LEMMA CountTyped ==
  ASSUME C!TypeOK, NEW p \in Providers
  PROVE  Count(p) \in Nat
<1>1. C!Exists(p) => row[p].fails \in 0..MaxFails
  BY RowFields DEF C!Row
<1> QED BY <1>1, ChannelsAssumption DEF Count

LEMMA JudgedFails ==
  ASSUME NEW c \in C!Row, NEW v
  PROVE  /\ c.fails \in Nat /\ C!Judged(c, v).fails \in Nat
         /\ C!Judged(c, v).fails <= IF C!Counts(v) THEN c.fails + 1 ELSE c.fails
<1> DEFINE m == IF C!Counts(v) THEN c.fails + 1 ELSE c.fails
<1>1. c.fails \in 0..MaxFails /\ MaxFails \in Nat
  BY ChannelsAssumption DEF C!Row
<1>2. C!Judged(c, v) \in {[c EXCEPT !.fails = 0],
                          [c EXCEPT !.active = FALSE, !.reason = "auth"],
                          [c EXCEPT !.fails = m, !.active = FALSE, !.reason = "failures"],
                          [c EXCEPT !.fails = m]}
  BY Zenon DEF C!Judged
<1>3. m \in Nat /\ c.fails <= m
  BY <1>1
<1> HIDE DEF m
<1>4. C!Judged(c, v).fails \in {0, c.fails, m}
  BY <1>2 DEF C!Row
<1> QED BY <1>1, <1>3, <1>4 DEF m

\* What a call does to the books: it charges nobody ...
Harmless(r, q) ==
  /\ row' = row /\ uncapped' = uncapped
  /\ \A w \in verdicts' : w \in verdicts \/ ~C!Counts(w)
  /\ verdicts \subseteq verdicts'
  /\ blamed' = blamed \/ blamed' = blamed \cup {<<r, q>>}

\* ... or posts a verdict, once per call and channel or without asking.
Charged(r, q, v) ==
  /\ row' = row /\ verdicts' = verdicts \cup {v} /\ v.p = q
  /\ \/ blamed' = blamed \cup {<<r, q>>} /\ <<r, q>> \notin blamed /\ uncapped' = uncapped
     \/ /\ uncapped' = uncapped \cup {v} /\ v \notin uncapped
        /\ blamed' = blamed \/ blamed' = blamed \cup {<<r, q>>}

LEMMA HarmlessBacked ==
  ASSUME C!TypeOK, NEW p \in Providers, Backed(p), NEW r \in Requests, NEW q, Harmless(r, q)
  PROVE  Backed(p)'
<1>1. Due(p)' = Due(p) /\ Over(p)' = Over(p)
  BY DEF Due, Over, Harmless
<1>2. Count(p)' = Count(p) /\ Count(p) \in Nat
  BY CountTyped DEF Count, C!Exists, Harmless
<1>3. Blamed(p)' = Blamed(p) \/ Blamed(p)' = Blamed(p) \cup {r}
  BY DEF Blamed, Harmless
<1>4. /\ IsFiniteSet(Blamed(p)') /\ Cardinality(Blamed(p)) <= Cardinality(Blamed(p)')
      /\ Cardinality(Blamed(p)) \in Nat /\ Cardinality(Blamed(p)') \in Nat
  BY <1>3, OneMore DEF Backed
<1>5. Cardinality(Due(p)) \in Nat /\ Cardinality(Over(p)) \in Nat
  BY FS_CardinalityType DEF Backed
<1> QED BY <1>1, <1>2, <1>4, <1>5 DEF Backed

LEMMA ChargedBacked ==
  ASSUME C!TypeOK, NEW p \in Providers, Backed(p), NEW r \in Requests, NEW q, NEW v,
         Charged(r, q, v)
  PROVE  Backed(p)'
<1>1. Count(p)' = Count(p) /\ Count(p) \in Nat
  BY CountTyped DEF Count, C!Exists, Charged
<1> DEFINE d == Cardinality(Due(p))  d2 == Cardinality(Due(p)')
           b == Cardinality(Blamed(p))  b2 == Cardinality(Blamed(p)')
           o == Cardinality(Over(p))  o2 == Cardinality(Over(p)')
<1>2. CASE p # q
  <2>1. Due(p)' = Due(p) /\ Over(p)' = Over(p) /\ Blamed(p)' = Blamed(p)
    BY <1>2 DEF Due, Over, Blamed, Charged
  <2> QED BY <1>1, <2>1 DEF Backed
<1>3. CASE p = q
  <2>1. Due(p)' = Due(p) \/ Due(p)' = Due(p) \cup {v}
    BY DEF Due, Charged
  <2>2. Over(p)' = Over(p) \/ Over(p)' = Over(p) \cup {v}
    BY <1>3 DEF Over, Charged
  <2>3. Blamed(p)' = Blamed(p) \/ Blamed(p)' = Blamed(p) \cup {r}
    BY <1>3 DEF Blamed, Charged
  <2>4. \/ Blamed(p)' = Blamed(p) \cup {r} /\ r \notin Blamed(p)
        \/ Over(p)' = Over(p) \cup {v} /\ v \notin Over(p)
    BY <1>3 DEF Blamed, Over, Charged
  <2>5. IsFiniteSet(Due(p)') /\ d \in Nat /\ d2 \in Nat /\ d2 <= d + 1
    BY <2>1, OneMore DEF Backed
  <2>6. IsFiniteSet(Over(p)') /\ o \in Nat /\ o2 \in Nat /\ o <= o2
        /\ (Over(p)' = Over(p) \cup {v} /\ v \notin Over(p) => o2 = o + 1)
    BY <2>2, OneMore DEF Backed
  <2>7. IsFiniteSet(Blamed(p)') /\ b \in Nat /\ b2 \in Nat /\ b <= b2
        /\ (Blamed(p)' = Blamed(p) \cup {r} /\ r \notin Blamed(p) => b2 = b + 1)
    BY <2>3, OneMore DEF Backed
  <2>8. Count(p) + d <= b + o
    BY DEF Backed
  <2> HIDE DEF d, d2, b, b2, o, o2
  <2>9. Count(p)' + d2 <= b2 + o2
    BY <1>1, <2>4, <2>5, <2>6, <2>7, <2>8
  <2> QED BY <2>5, <2>6, <2>7, <2>9 DEF Backed, d2, b2, o2
<1> QED BY <1>2, <1>3

\* Applying a verdict moves it from what is due to what is counted.
LEMMA AppliedBacked ==
  ASSUME C!TypeOK, NEW p \in Providers, Backed(p), UNCHANGED <<blamed, uncapped>>,
         NEW v \in verdicts, C!ApplyVerdict(v)
  PROVE  Backed(p)'
<1>1. Blamed(p)' = Blamed(p) /\ Over(p)' = Over(p)
  BY DEF Blamed, Over
<1>2. verdicts' = verdicts \ {v} /\ row \in [Providers -> C!Row \cup {Unused, Deleted}]
  BY DEF C!ApplyVerdict, C!TypeOK
<1>3. Count(p) \in Nat
  BY CountTyped
<1>4. /\ Due(p)' \subseteq Due(p)
      /\ v \in Due(p) => Due(p)' = Due(p) \ {v}
  BY <1>2 DEF Due
<1>5. /\ IsFiniteSet(Due(p)') /\ Cardinality(Due(p)) \in Nat /\ Cardinality(Due(p)') \in Nat
      /\ Cardinality(Due(p)') <= Cardinality(Due(p))
      /\ v \in Due(p) => Cardinality(Due(p)') = Cardinality(Due(p)) - 1
  BY <1>4, FS_CardinalityType, FS_Subset, FS_RemoveElement DEF Backed
<1>6. CASE C!Exists(p) /\ p = v.p
  <2>1. row'[p] = C!Judged(row[p], v) /\ C!Judged(row[p], v).fails <= MaxFails
    BY <1>2, <1>6 DEF C!ApplyVerdict
  <2>2. row[p] \in C!Row
    BY <1>6, RowFields
  <2>3. row'[p] \in C!Row
    BY <2>1, <2>2, JudgedRow
  <2>4. C!Exists(p)' /\ Count(p) = row[p].fails /\ Count(p)' = C!Judged(row[p], v).fails
    BY <1>6, <2>1, <2>3, NoRow DEF C!Exists, Count, Row, KeyState, C!Row, C!KeyState
  <2>5. /\ Count(p)' \in Nat
        /\ Count(p)' <= IF C!Counts(v) THEN Count(p) + 1 ELSE Count(p)
    BY <1>3, <2>2, <2>4, JudgedFails
  <2>6. C!Counts(v) => v \in Due(p)
    BY <1>6 DEF Due
  <2>7. Count(p)' + Cardinality(Due(p)') <= Count(p) + Cardinality(Due(p))
    BY <1>3, <1>5, <2>5, <2>6
  <2> QED BY <1>1, <1>3, <1>5, <2>5, <2>7, FS_CardinalityType DEF Backed
<1>7. CASE ~(C!Exists(p) /\ p = v.p)
  <2>1. row'[p] = row[p]
    BY <1>2, <1>7 DEF C!ApplyVerdict
  <2>2. Count(p)' = Count(p)
    BY <2>1 DEF Count, C!Exists
  <2> QED BY <1>1, <1>3, <1>5, <2>2, FS_CardinalityType DEF Backed
<1> QED BY <1>6, <1>7

\* Nothing else adds to a count: probes and edits keep it or start it anew.
LEMMA CountsKept ==
  ASSUME C!TypeOK, NEW p \in Providers, C!Housekeeping
  PROVE  Count(p)' \in {Count(p), 0}
<1>1. row \in [Providers -> C!Row \cup {Unused, Deleted}]
  BY DEF C!TypeOK
<1>2. ASSUME row'[p] = row[p] PROVE Count(p)' = Count(p)
  BY <1>2 DEF Count, C!Exists
<1>3. ASSUME C!Exists(p), row'[p].fails \in {row[p].fails, 0}
      PROVE  Count(p)' \in {Count(p), 0}
  BY <1>3 DEF Count
<1>4. CASE C!StartProbe
  BY <1>2, <1>4 DEF C!StartProbe
<1>5. CASE C!EndProbe
  <2>1. PICK h \in [probing -> BOOLEAN] :
          row' = [q \in Providers |->
                   IF q \in probing /\ C!Exists(q) THEN [row[q] EXCEPT !.healthy = h[q]]
                   ELSE row[q]]
    BY <1>5 DEF C!EndProbe
  <2>2. CASE p \in probing /\ C!Exists(p)
    <3>1. row'[p] = [row[p] EXCEPT !.healthy = h[p]] /\ row[p] \in C!Row
      BY <2>1, <2>2, RowFields
    <3>2. row'[p].fails = row[p].fails
      BY <3>1 DEF C!Row
    <3> QED BY <1>3, <2>2, <3>2
  <2> QED BY <1>2, <2>1, <2>2
<1>6. ASSUME NEW q \in Providers, C!ModelTest(q) PROVE Count(p)' \in {Count(p), 0}
  <2>1. CASE p = q
    <3>1. row[p] \in C!Row /\ C!Exists(p) /\ row'[p] = [row[p] EXCEPT !.fails = 0]
      BY <1>1, <1>6, <2>1, RowFields DEF C!ModelTest
    <3>2. row'[p].fails = 0
      BY <3>1 DEF C!Row
    <3> QED BY <1>3, <3>1, <3>2
  <2> QED BY <1>1, <1>2, <1>6, <2>1 DEF C!ModelTest
<1>7. ASSUME NEW q \in Providers, C!DeleteProvider(q) PROVE Count(p)' \in {Count(p), 0}
  <2>1. CASE p = q
    BY <1>1, <1>7, <2>1 DEF C!DeleteProvider, Count, C!Exists
  <2> QED BY <1>1, <1>2, <1>7, <2>1 DEF C!DeleteProvider
<1>8. ASSUME NEW q \in Providers, NEW k \in KeyState, C!CreateProvider(q, k)
      PROVE  Count(p)' \in {Count(p), 0}
  <2>1. CASE p = q
    <3>1. row'[p] = C!Created(k)
      BY <1>1, <1>8, <2>1 DEF C!CreateProvider
    <3>2. C!Created(k).fails = 0
      BY DEF C!Created
    <3> QED BY <3>1, <3>2 DEF Count
  <2> QED BY <1>1, <1>2, <1>8, <2>1 DEF C!CreateProvider
<1>9. ASSUME NEW q \in Providers, NEW k \in KeyState, NEW s \in {"on", "off", "keep"},
             C!UpdateProvider(q, k, s)
      PROVE  Count(p)' \in {Count(p), 0}
  <2>1. CASE p = q
    <3>1. row[p] \in C!Row /\ C!Exists(p)
      BY <1>9, <2>1, RowFields DEF C!UpdateProvider
    <3> DEFINE c == [row[p] EXCEPT !.key = k]
    <3>2. c \in C!Row /\ c.fails = row[p].fails
      BY <3>1 DEF C!Row, KeyState, C!KeyState
    <3>3. row'[p] \in {C!Enabled(c), [c EXCEPT !.active = FALSE], c}
      BY <1>1, <1>9, <2>1 DEF C!UpdateProvider
    <3> HIDE DEF c
    <3>4. row'[p].fails \in {row[p].fails, 0}
      BY <3>2, <3>3 DEF C!Enabled, C!Row
    <3> QED BY <1>3, <3>1, <3>4
  <2> QED BY <1>1, <1>2, <1>9, <2>1 DEF C!UpdateProvider
<1> QED
  BY <1>4, <1>5, <1>6, <1>7, <1>8, <1>9 DEF C!Housekeeping, KeyState, C!KeyState

LEMMA OthersBacked ==
  ASSUME C!TypeOK, NEW p \in Providers, Backed(p), UNCHANGED <<blamed, uncapped>>,
         C!Recording \/ C!Housekeeping
  PROVE  Backed(p)'
<1>1. CASE \E v \in verdicts : C!ApplyVerdict(v)
  BY <1>1, AppliedBacked
<1>2. CASE C!Housekeeping \/ \E t \in pins : C!WritePin(t)
  <2>1. verdicts' = verdicts
    BY <1>2 DEF C!Housekeeping, C!WritePin, C!StartProbe, C!EndProbe,
         C!ModelTest, C!CreateProvider, C!UpdateProvider, C!DeleteProvider
  <2>2. Blamed(p)' = Blamed(p) /\ Over(p)' = Over(p) /\ Due(p)' = Due(p)
    BY <2>1 DEF Blamed, Over, Due
  <2>3. Count(p)' \in {Count(p), 0}
    <3>1. CASE \E t \in pins : C!WritePin(t)
      BY <3>1 DEF C!WritePin, Count, C!Exists
    <3> QED BY <1>2, <3>1, CountsKept
  <2> QED BY <2>2, <2>3, CountTyped, FS_CardinalityType DEF Backed
<1> QED BY <1>1, <1>2 DEF C!Recording

\* How a call asks: what it adds to the blame it has counted, or it is over;
\* a verdict it posts without asking is its last.
Asking(r, q) ==
  /\ \A s \in Requests : counted[s] \subseteq counted'[s] /\ (pc[s] = "done" => pc'[s] = "done")
  /\ blamed' \subseteq blamed \cup {<<r, q>>}
  /\ blamed' # blamed => q \in counted'[r] \/ pc'[r] = "done"
  /\ \A v \in uncapped' : v \in uncapped \/ (v.post[1] = r /\ pc'[r] = "done")

LEMMA AsksKept ==
  ASSUME Asks, NEW r \in Requests, NEW q, Asking(r, q)
  PROVE  Asks'
<1>1. ASSUME NEW s \in Requests, NEW p \in Providers, <<s, p>> \in blamed', pc'[s] # "done"
      PROVE  p \in counted'[s]
  BY <1>1 DEF Asks, Asking
<1>2. ASSUME NEW v \in uncapped', NEW s \in Requests, NEW i \in 1..StreamEnd, v.post = <<s, i>>
      PROVE  pc'[s] = "done"
  BY <1>2 DEF Asks, Asking
<1> QED BY <1>1, <1>2 DEF Asks

LEMMA SaidFields ==
  ASSUME NEW r, NEW i, NEW p, NEW class, NEW count \in BOOLEAN
  PROVE  /\ Said(r, i, p, class, count).post = <<r, i>>
         /\ Said(r, i, p, class, count).p = p
         /\ C!Counts(Said(r, i, p, class, count)) <=> count /\ class = "fault"
  BY DEF Said, C!Counts

\* A verdict under an identity of the call's own was not posted without asking
\* before.
LEMMA NotYetOver ==
  ASSUME FInv, NEW r \in Requests, pc[r] # "done", NEW i \in {Deadline, StreamEnd},
         NEW p, NEW class, NEW count \in BOOLEAN
  PROVE  Said(r, i, p, class, count) \notin uncapped
<1>1. i \in 1..StreamEnd
  BY Bounds
<1> QED BY <1>1, SaidFields DEF FInv, Asks

\* A fault of a call under way is charged the first time only.
LEMMA FaultCharged ==
  ASSUME FInv, NEW r \in Requests, pc[r] # "done", NEW p \in Providers, NEW i,
         C!Posting({Said(r, i, p, "fault", CountOnce(r, p))}, {}),
         blamed' = blamed \cup {<<r, p>>}, uncapped' = uncapped
  PROVE  \/ Harmless(r, p)
         \/ Charged(r, p, Said(r, i, p, "fault", CountOnce(r, p)))
<1> DEFINE v == Said(r, i, p, "fault", CountOnce(r, p))
<1>1. v.p = p /\ (p \in counted[r] => ~C!Counts(v))
  <2>1. CountOnce(r, p) \in BOOLEAN /\ (p \in counted[r] => ~CountOnce(r, p))
    BY DEF CountOnce
  <2> QED BY <2>1, SaidFields
<1>2. verdicts' = verdicts \cup {v} /\ row' = row
  BY DEF C!Posting
<1>3. <<r, p>> \in blamed => p \in counted[r]
  BY DEF FInv, Asks
<1> HIDE DEF v
<1>4. CASE p \in counted[r]
  BY <1>1, <1>2, <1>4 DEF Harmless
<1>5. ASSUME p \notin counted[r] PROVE Charged(r, p, v)
  <2>1. <<r, p>> \notin blamed /\ v.p = p
    BY <1>1, <1>3, <1>5
  <2> QED BY <1>2, <2>1 DEF Charged
<1> QED BY <1>4, <1>5 DEF v

\* ... and any other class of verdict charges nobody.
LEMMA MildHarmless ==
  ASSUME NEW r, NEW i, NEW p, NEW class, class # "fault", NEW count \in BOOLEAN, NEW P,
         C!Posting({Said(r, i, p, class, count)}, P), UNCHANGED <<blamed, uncapped>>
  PROVE  Harmless(r, p)
<1>1. ~C!Counts(Said(r, i, p, class, count))
  BY SaidFields
<1> QED BY <1>1 DEF Harmless, C!Posting

LEMMA QuietHarmless ==
  ASSUME NEW r, NEW p, NEW P, UNCHANGED channelVars \/ C!Posting({}, P),
         UNCHANGED <<blamed, uncapped>>
  PROVE  Harmless(r, p)
  BY DEF Harmless, C!Posting, channelVars

\* What every step of a call is to the books.
Booked(r) ==
  \E q : Asking(r, q) /\ (Harmless(r, q) \/ \E v : Charged(r, q, v))

LEMMA SelectBooked ==
  ASSUME IInv, TInv, FInv, NEW r \in Requests, Select(r)
  PROVE  Booked(r)
<1>1. PICK p \in C!Choice(lane[r], tried[r]) : TakeUp(r, p)
  BY DEF Select
<1>2. p \in Providers
  BY <1>1 DEF C!Choice, C!PinUsable, C!Preferred, C!Untried, C!Active
<1>3. pc[r] = "select" /\ uncapped' = uncapped /\ counted \in [Requests -> SUBSET Providers]
      /\ pc \in [Requests -> PC]
  BY DEF Select, TInv, TallyTypes, IInv, CallOK
<1>4. \/ UNCHANGED <<channelVars, counted, blamed>>
      \/ /\ C!Posting({Said(r, n[r] + 1, p, "fault", CountOnce(r, p))}, {})
         /\ counted' = [counted EXCEPT ![r] = @ \cup {p}] /\ blamed' = blamed \cup {<<r, p>>}
  BY <1>1 DEF TakeUp
<1>5. pc' = pc \/ pc' = [pc EXCEPT ![r] = "send"]
  BY <1>1 DEF TakeUp, Goto
<1>6. Asking(r, p)
  BY <1>2, <1>3, <1>4, <1>5 DEF Asking
<1>7. CASE UNCHANGED <<channelVars, blamed>>
  BY <1>3, <1>6, <1>7, QuietHarmless DEF Booked
<1>8. CASE C!Posting({Said(r, n[r] + 1, p, "fault", CountOnce(r, p))}, {})
           /\ blamed' = blamed \cup {<<r, p>>}
  <2> DEFINE i == n[r] + 1
             v == Said(r, i, p, "fault", CountOnce(r, p))
  <2>1. C!Posting({v}, {})
    BY <1>8
  <2> HIDE DEF i
  <2>2. Harmless(r, p) \/ Charged(r, p, v)
    BY <1>2, <1>3, <1>8, <2>1, FaultCharged
  <2> HIDE DEF v
  <2> QED BY <1>6, <2>2 DEF Booked
<1> QED BY <1>4, <1>7, <1>8

LEMMA CallBooked ==
  ASSUME IInv, TInv, FInv, NEW r \in Requests,
         \/ \E k \in Kinds, l \in Lanes \cup {NULL} : Arrive(r, k, l)
         \/ \E k \in Kinds : Reject(r, k)
         \/ GiveUp(r) \/ FailFast(r) \/ Succeed(r) \/ Settle(r) \/ HandOver(r)
         \/ EndStream(r) \/ Unread(r) \/ Expire(r) \/ Vanish(r)
         \/ \E class \in {"fault", "limited", "auth"} : Fail(r, class)
  PROVE  Booked(r)
<1>1. /\ counted \in [Requests -> SUBSET Providers] /\ pc \in [Requests -> PC]
      /\ pc[r] \in {"send", "settle", "stream"} => cur[r] \in Providers
  BY DEF TInv, TallyTypes, IInv, CallOK
<1> DEFINE p == cur[r]
\* A step that leaves blame and tallies alone.
<1>2. ASSUME NEW l, pc' = [pc EXCEPT ![r] = l], pc[r] # "done", UNCHANGED <<blamed, uncapped>>,
             counted' = counted \/ counted' = [counted EXCEPT ![r] = @ \cup {p}]
      PROVE  Asking(r, p)
  BY <1>1, <1>2 DEF Asking
<1>3. CASE \/ \E k \in Kinds, l \in Lanes \cup {NULL} : Arrive(r, k, l)
           \/ \E k \in Kinds : Reject(r, k)
           \/ GiveUp(r) \/ Settle(r) \/ Unread(r) \/ Vanish(r)
  <2>1. \E l : pc' = [pc EXCEPT ![r] = l] /\ pc[r] # "done"
    BY <1>3 DEF Arrive, Reject, GiveUp, Settle, Unread, Vanish, Goto, Reply
  <2>2. UNCHANGED <<channelVars, blamed, uncapped, counted>>
    BY <1>3 DEF Arrive, Reject, GiveUp, Settle, Unread, Vanish
  <2> QED BY <1>2, <2>1, <2>2, QuietHarmless DEF Booked
<1>4. CASE HandOver(r)
  <2>1. /\ pc' = [pc EXCEPT ![r] = "stream"] /\ pc[r] # "done"
        /\ UNCHANGED <<blamed, uncapped, counted>> /\ C!Posting({}, PinOf(r))
    BY <1>4 DEF HandOver, Goto
  <2> QED BY <1>2, <2>1, QuietHarmless DEF Booked
<1>5. CASE Succeed(r)
  <2>1. /\ pc' = [pc EXCEPT ![r] = "settle"] /\ pc[r] # "done"
        /\ UNCHANGED <<blamed, uncapped, counted>>
        /\ C!Posting({Said(r, n[r], p, "ok", TRUE)}, PinOf(r))
    BY <1>5 DEF Succeed, Goto
  <2>2. Harmless(r, p)
    BY <2>1, MildHarmless
  <2> QED BY <1>2, <2>1, <2>2 DEF Booked
<1>6. CASE FailFast(r)
  <2>1. /\ pc' = [pc EXCEPT ![r] = "done"] /\ pc[r] # "done"
        /\ UNCHANGED <<blamed, uncapped>> /\ counted' = [counted EXCEPT ![r] = @ \cup {p}]
        /\ C!Posting({Said(r, n[r], p, "client", CountOnce(r, p))}, {})
    BY <1>6 DEF FailFast, Goto, Reply
  <2>2. CountOnce(r, p) \in BOOLEAN
    BY DEF CountOnce
  <2>3. Harmless(r, p)
    BY <2>1, <2>2, MildHarmless
  <2> QED BY <1>2, <2>1, <2>3 DEF Booked
<1>7. ASSUME NEW class \in {"fault", "limited", "auth"}, Fail(r, class)
      PROVE  Booked(r)
  <2>1. /\ pc' = [pc EXCEPT ![r] = "select"] /\ pc[r] # "done" /\ pc[r] = "send"
        /\ uncapped' = uncapped /\ counted' = [counted EXCEPT ![r] = @ \cup {p}]
        /\ blamed' = IF class = "fault" THEN blamed \cup {<<r, p>>} ELSE blamed
        /\ C!Posting({Said(r, n[r], p, class, CountOnce(r, p))}, {})
    BY <1>7 DEF Fail, Goto
  <2>2. CountOnce(r, p) \in BOOLEAN
    BY DEF CountOnce
  <2>3. CASE class # "fault"
    <3>1. Harmless(r, p)
      BY <2>1, <2>2, <2>3, MildHarmless
    <3>2. blamed' = blamed
      BY <2>1, <2>3
    <3> QED BY <1>2, <2>1, <3>1, <3>2 DEF Booked
  <2>4. CASE class = "fault"
    <3>1. p \in Providers /\ blamed' = blamed \cup {<<r, p>>}
      BY <1>1, <2>1, <2>4
    <3>2. Asking(r, p)
      BY <1>1, <2>1, <3>1 DEF Asking
    <3>3. C!Posting({Said(r, n[r], p, "fault", CountOnce(r, p))}, {})
      BY <2>1, <2>4
    <3>4. Harmless(r, p) \/ Charged(r, p, Said(r, n[r], p, "fault", CountOnce(r, p)))
      BY <2>1, <3>1, <3>3, FaultCharged
    <3> QED BY <3>2, <3>4 DEF Booked
  <2> QED BY <2>3, <2>4
\* A verdict of the end of the call, posted without asking.
<1>8. ASSUME NEW i \in {Deadline, StreamEnd}, pc' = [pc EXCEPT ![r] = "done"], pc[r] # "done",
             counted' = counted, C!Posting({Said(r, i, p, "fault", TRUE)}, {}),
             uncapped' = uncapped \cup {Said(r, i, p, "fault", TRUE)},
             blamed' = blamed \/ blamed' = blamed \cup {<<r, p>>}
      PROVE  Booked(r)
  <2> DEFINE v == Said(r, i, p, "fault", TRUE)
  <2>1. v \notin uncapped /\ v.p = p /\ v.post[1] = r
    <3>1. TRUE \in BOOLEAN
      OBVIOUS
    <3>2. v \notin uncapped
      BY <1>8, <3>1, NotYetOver
    <3>3. v.p = p /\ v.post = <<r, i>>
      BY DEF Said
    <3> HIDE DEF v
    <3> QED BY <3>2, <3>3
  <2>2. verdicts' = verdicts \cup {v} /\ row' = row /\ uncapped' = uncapped \cup {v}
    BY <1>8 DEF C!Posting
  <2> HIDE DEF v
  <2>3. Charged(r, p, v)
    BY <1>8, <2>1, <2>2 DEF Charged
  <2>4. Asking(r, p)
    BY <1>1, <1>8, <2>1, <2>2 DEF Asking
  <2> QED BY <2>3, <2>4 DEF Booked
<1>9. CASE EndStream(r)
  <2>1. pc' = [pc EXCEPT ![r] = "done"] /\ pc[r] # "done" /\ counted' = counted
    BY <1>9 DEF EndStream, Goto
  <2>2. CASE C!Posting({Said(r, StreamEnd, p, "ok", TRUE)}, {}) /\ UNCHANGED <<blamed, uncapped>>
    <3>1. Harmless(r, p)
      BY <2>2, MildHarmless
    <3> QED BY <1>2, <2>1, <2>2, <3>1 DEF Booked
  <2>3. CASE /\ C!Posting({Said(r, StreamEnd, p, "fault", TRUE)}, {})
             /\ blamed' = blamed \cup {<<r, p>>}
             /\ uncapped' = uncapped \cup {Said(r, StreamEnd, p, "fault", TRUE)}
    BY <1>8, <2>1, <2>3
  <2>4. CASE UNCHANGED <<channelVars, blamed, uncapped>>
    BY <1>2, <2>1, <2>4, QuietHarmless DEF Booked
  <2> QED BY <1>9, <2>2, <2>3, <2>4 DEF EndStream
<1>10. CASE Expire(r)
  <2>1. pc' = [pc EXCEPT ![r] = "done"] /\ pc[r] # "done" /\ UNCHANGED <<counted, blamed>>
    BY <1>10 DEF Expire, Goto, Reply
  <2>2. CASE UNCHANGED <<channelVars, uncapped>>
    BY <1>2, <2>1, <2>2, QuietHarmless DEF Booked
  <2>3. CASE /\ C!Posting({Said(r, Deadline, p, "fault", TRUE)}, {})
             /\ uncapped' = uncapped \cup {Said(r, Deadline, p, "fault", TRUE)}
    BY <1>8, <2>1, <2>3
  <2> QED BY <1>10, <2>2, <2>3 DEF Expire
<1> QED BY <1>3, <1>4, <1>5, <1>6, <1>7, <1>9, <1>10

LEMMA FailsNext == C!TypeOK /\ IInv /\ TInv /\ FInv /\ [Next]_vars => FInv'
<1> SUFFICES ASSUME C!TypeOK, IInv, TInv, FInv, [Next]_vars PROVE FInv'
  OBVIOUS
<1>1. ASSUME NEW r \in Requests, Booked(r) PROVE FInv'
  <2>1. PICK q : Asking(r, q) /\ (Harmless(r, q) \/ \E v : Charged(r, q, v))
    BY <1>1 DEF Booked
  <2>2. Asks'
    BY <2>1, AsksKept DEF FInv
  <2>3. \A p \in Providers : Backed(p)'
    BY <2>1, HarmlessBacked, ChargedBacked DEF FInv
  <2> QED BY <2>2, <2>3 DEF FInv
<1>2. CASE UNCHANGED callVars /\ (C!Recording \/ C!Housekeeping)
  <2>1. UNCHANGED <<blamed, uncapped, pc, counted>>
    BY <1>2 DEF callVars
  <2>2. Asks'
    BY <2>1 DEF FInv, Asks
  <2>3. \A p \in Providers : Backed(p)'
    BY <1>2, <2>1, OthersBacked DEF FInv
  <2> QED BY <2>2, <2>3 DEF FInv
<1>3. CASE UNCHANGED vars
  BY <1>3 DEF vars, channelVars, callVars, FInv, Asks, Backed, Blamed, Over, Due, Count,
     C!Exists
<1>4. CASE Next /\ ~((C!Recording \/ C!Housekeeping) /\ UNCHANGED callVars)
  <2>1. \E r \in Requests : Booked(r)
    BY <1>4, SelectBooked, CallBooked DEF Next, Work
  <2> QED BY <1>1, <2>1
<1> QED BY <1>2, <1>3, <1>4

LEMMA FailsInit == Init => FInv
<1> SUFFICES ASSUME Init PROVE FInv
  OBVIOUS
<1>1. Asks
  BY DEF Init, Asks
<1>2. ASSUME NEW p \in Providers PROVE Backed(p)
  <2>1. Blamed(p) = {} /\ Over(p) = {} /\ Due(p) = {}
    BY DEF Init, C!Init, Blamed, Over, Due
  <2>2. C!Exists(p) => row[p].fails = 0
    <3> SUFFICES ASSUME C!Exists(p) PROVE row[p].fails = 0
      OBVIOUS
    <3>1. PICK k \in C!KeyState : row[p] = C!Created(k)
      BY DEF Init, C!Init, C!Exists
    <3>2. C!Created(k).fails = 0
      BY DEF C!Created
    <3> QED BY <3>1, <3>2
  <2> QED BY <2>1, <2>2, FS_EmptySet DEF Backed, Count
<1> QED BY <1>1, <1>2 DEF FInv

\* A channel's count of consecutive failures is backed by calls: each call
\* that met a fault there accounts for one, however often it came back, and
\* each verdict posted without asking failure_counted for one more.
THEOREM CountsAreBacked == Spec => []FailsBacked
<1>1. C!TypeOK /\ FInv => FailsBacked
  <2> SUFFICES ASSUME C!TypeOK, FInv, NEW p \in Providers, C!Exists(p)
               PROVE  row[p].fails <= Cardinality(Blamed(p)) + Cardinality(Over(p))
    BY DEF FailsBacked, Blamed, Over
  <2>1. Count(p) = row[p].fails /\ Count(p) \in Nat /\ Backed(p)
    BY CountTyped DEF Count, FInv
  <2>2. /\ Cardinality(Due(p)) \in Nat /\ Cardinality(Blamed(p)) \in Nat
        /\ Cardinality(Over(p)) \in Nat
    BY <2>1, FS_CardinalityType DEF Backed
  <2> QED BY <2>1, <2>2 DEF Backed
<1> QED BY <1>1, FailsInit, FailsNext, ChannelsHold, Inductive, Tallies, PTL DEF Spec

=============================================================================
