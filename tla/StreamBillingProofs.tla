------------------------- MODULE StreamBillingProofs --------------------------
(***************************************************************************)
(* Proofs about StreamBilling, for every set of streams, every amount of   *)
(* usage and every length of a stream.                                     *)
(***************************************************************************)
EXTENDS StreamBilling, TLAPS

(***************************************************************************)
(* The strengthening: what is known of a stream at each place of its       *)
(* generator.  Only with it do the properties survive a step: that a stream *)
(* whose generator gives up has no log yet, or that a log awaited by a      *)
(* running generator is either queued or written.                          *)
(***************************************************************************)
Early(s) == pc[s] \in {"idle", "open", "reading", "pushing", "tail", "finishing"}

Fresh(s) ==
  Early(s) => pending[s] = {} /\ logs[s] = {} /\ s \notin finished /\ verdict[s] = "none"

CauseKnown(s) ==
  /\ pc[s] \in {"idle", "open", "reading", "pushing"} => cause[s] = "none"
  /\ pc[s] \in {"tail", "finishing", "logging"} => cause[s] \in {"eof", "shutdown"}
  /\ pc[s] \in {"finishing", "logging"} => s \in seen

Counted(s) ==
  /\ cell[s] \in reported[s]
  /\ use[s] \in reported[s]
  /\ s \notin seen => use[s] = 0

AwaitedLog(s) ==
  pc[s] = "logging" => s \notin finished /\ (Running => Bills(s) # {})

GivenUp(s) ==
  cause[s] = "broken" \/ (verdict[s] = "fail" /\ s \notin seen)
    => s \in finished /\ AtMostOne(Bills(s))

Charged(s) ==
  \A b \in Bills(s) :
    IF b.by = "generator" THEN b.use = use[s] ELSE b.use \in reported[s]

Agreed(s) ==
  /\ verdict[s] = "ok" => s \notin errFrame /\ cause[s] # "broken"
  /\ \A b \in Bills(s) : b.by = "generator" =>
       b.status = (IF verdict[s] = "ok" THEN 200 ELSE 502)

Written(s) ==
  s \in finished /\ cause[s] \in {"eof", "shutdown"} /\ s \in seen => logs[s] # {}

Local(s) ==
  /\ Fresh(s) /\ CauseKnown(s) /\ Counted(s) /\ AwaitedLog(s)
  /\ GivenUp(s) /\ Charged(s) /\ Agreed(s) /\ Written(s)

IInv == TypeOK /\ \A s \in Streams : Local(s)

-----------------------------------------------------------------------------
LEMMA InitIInv == Init => IInv
BY StreamAssumption
   DEF Init, IInv, TypeOK, PC, Local, Early, Fresh, CauseKnown, Counted, AwaitedLog,
       GivenUp, Charged, Agreed, Written, Bills, AtMostOne, Bill

(* Every step keeps the types. *)
LEMMA TypeStep == TypeOK /\ [Next]_vars => TypeOK'
<1> SUFFICES ASSUME TypeOK, [Next]_vars PROVE TypeOK'
  OBVIOUS
<1> USE StreamAssumption DEF TypeOK, Goto, genVars, PC
<1>1. ASSUME NEW s \in Streams, Open(s) PROVE TypeOK'
  BY <1>1 DEF Open
<1>2. ASSUME NEW s \in Streams, Generate(s) PROVE TypeOK'
  <2>1. CASE FirstPoll(s) \/ NoTail(s) \/ LeaveLoop(s)
    BY <2>1 DEF FirstPoll, NoTail, LeaveLoop
  <2>2. CASE EndChunk(s)
    BY <2>2 DEF EndChunk
  <2>3. CASE Complete(s) \/ Close(s)
    BY <2>3 DEF Complete, Close
  <2>4. CASE UpstreamBreaks(s)
    BY <2>4 DEF UpstreamBreaks, FailStream, Bill
  <2>5. CASE BufferOverflows(s)
    BY <2>5 DEF BufferOverflows, FailStream, Bill
  <2>6. CASE EmptyStream(s)
    BY <2>6 DEF EmptyStream, FailStream, Bill
  <2>7. CASE Settle(s)
    BY <2>7 DEF Settle, FinalStatus, FinalUse, Bill
  <2>8. CASE Disconnect(s)
    BY <2>8 DEF Disconnect, AbortBill, Bill
  <2>9. ASSUME NEW n \in 0..MaxEvents, Chunk(s, n) PROVE TypeOK'
    BY <2>9 DEF Chunk
  <2>10. ASSUME NEW u \in 0..MaxUse, NEW e \in BOOLEAN, Push(s, u, e) PROVE TypeOK'
    BY <2>10 DEF Push, Absorb
  <2>11. ASSUME NEW u \in 0..MaxUse, NEW e \in BOOLEAN, TailEvent(s, u, e) PROVE TypeOK'
    BY <2>11 DEF TailEvent, Absorb
  <2>12. QED
    BY <1>2, <2>1, <2>2, <2>3, <2>4, <2>5, <2>6, <2>7, <2>8, <2>9, <2>10, <2>11
       DEF Generate
<1>3. ASSUME NEW s \in Streams, NEW b \in pending[s], WriteLog(s, b) PROVE TypeOK'
  BY <1>3 DEF WriteLog
<1>4. CASE Shutdown
  BY <1>4 DEF Shutdown
<1>5. CASE Drained \/ Kill
  BY <1>5 DEF Drained, Kill
<1>6. CASE UNCHANGED vars
  BY <1>6 DEF vars
<1>7. QED
  BY <1>1, <1>2, <1>3, <1>4, <1>5, <1>6 DEF Next, Write

(* A step of another stream, or of the process, leaves what is known of a  *)
(* stream as it was.                                                       *)
Kept(t) ==
  /\ pc'[t] = pc[t] /\ use'[t] = use[t] /\ cell'[t] = cell[t]
  /\ reported'[t] = reported[t]
  /\ (t \in seen') = (t \in seen) /\ (t \in errFrame') = (t \in errFrame)
  /\ cause'[t] = cause[t] /\ (t \in finished') = (t \in finished)
  /\ pending'[t] = pending[t] /\ logs'[t] = logs[t] /\ verdict'[t] = verdict[t]
  /\ (Running' => Running)

LEMMA KeptLocal ==
  ASSUME NEW t \in Streams, Local(t), Kept(t)
  PROVE  Local(t)'
BY DEF Kept, Local, Early, Fresh, CauseKnown, Counted, AwaitedLog, GivenUp, Charged,
       Agreed, Written, Bills, AtMostOne

(* A step of one stream leaves the others alone. *)
LEMMA StreamStepKeeps ==
  ASSUME TypeOK, NEW s \in Streams, NEW t \in Streams, t # s,
         Open(s) \/ Generate(s) \/ Write(s)
  PROVE  Kept(t)
<1> USE DEF TypeOK, Kept, Goto, genVars, Running
<1>1. CASE Open(s) \/ Write(s)
  BY <1>1 DEF Open, Write, WriteLog
<1>2. CASE Generate(s)
  <2>1. CASE FirstPoll(s) \/ NoTail(s) \/ LeaveLoop(s)
    BY <2>1 DEF FirstPoll, NoTail, LeaveLoop
  <2>2. CASE EndChunk(s) \/ Complete(s) \/ Close(s)
    BY <2>2 DEF EndChunk, Complete, Close
  <2>3. CASE UpstreamBreaks(s) \/ BufferOverflows(s) \/ EmptyStream(s)
    BY <2>3 DEF UpstreamBreaks, BufferOverflows, EmptyStream, FailStream
  <2>4. CASE Settle(s) \/ Disconnect(s)
    BY <2>4 DEF Settle, Disconnect
  <2>5. CASE \E n \in 0..MaxEvents : Chunk(s, n)
    BY <2>5 DEF Chunk
  <2>6. CASE \E u \in 0..MaxUse, e \in BOOLEAN : Push(s, u, e) \/ TailEvent(s, u, e)
    BY <2>6 DEF Push, TailEvent, Absorb
  <2>7. QED
    BY <1>2, <2>1, <2>2, <2>3, <2>4, <2>5, <2>6 DEF Generate
<1>3. QED
  BY <1>1, <1>2

(* What is known of the stream that steps is known after the step. *)
LEMMA StreamStepLocal ==
  ASSUME TypeOK, NEW s \in Streams, Local(s), Open(s) \/ Generate(s) \/ Write(s)
  PROVE  Local(s)'
<1> USE DEF TypeOK, Goto, genVars, Running, Local, Early, Fresh, CauseKnown, Counted, AwaitedLog,
           GivenUp, Charged, Agreed, Written, Bills, AtMostOne
<1>1. CASE Open(s)
  BY <1>1 DEF Open
<1>2. ASSUME NEW b \in pending[s], WriteLog(s, b) PROVE Local(s)'
  <2>1. Bills(s)' = Bills(s) /\ logs[s] \subseteq logs'[s] /\ logs'[s] # {}
    BY <1>2 DEF WriteLog
  <2>2. /\ pc' = pc /\ use' = use /\ cell' = cell /\ seen' = seen /\ proc' = proc
        /\ reported' = reported
        /\ errFrame' = errFrame /\ cause' = cause /\ finished' = finished
        /\ verdict' = verdict
    BY <1>2 DEF WriteLog
  <2>3. ~Early(s)
    BY <1>2
  <2>4. Fresh(s)' /\ CauseKnown(s)' /\ Counted(s)' /\ Written(s)'
    BY <2>1, <2>2, <2>3
  <2>5. AwaitedLog(s)' /\ GivenUp(s)' /\ Charged(s)' /\ Agreed(s)'
    <3>1. Bills(s)' = Bills(s)
      BY <2>1
    <3> HIDE DEF Bills
    <3>2. QED
      BY <2>2, <3>1
  <2>6. QED
    BY <2>4, <2>5
<1>3. CASE FirstPoll(s) \/ NoTail(s) \/ LeaveLoop(s)
  BY <1>3 DEF FirstPoll, NoTail, LeaveLoop
<1>4. CASE EndChunk(s)
  BY <1>4 DEF EndChunk
<1>5. CASE Complete(s)
  BY <1>5 DEF Complete, Awaited
<1>6. CASE Close(s)
  BY <1>6 DEF Close
<1>7. CASE UpstreamBreaks(s)
  BY <1>7 DEF UpstreamBreaks, FailStream
<1>8. CASE BufferOverflows(s)
  BY <1>8 DEF BufferOverflows, FailStream
<1>9. CASE EmptyStream(s)
  BY <1>9 DEF EmptyStream, FailStream
<1>10. CASE Settle(s)
  <2> DEFINE bill == [by |-> "generator", status |-> FinalStatus(s), use |-> use[s]]
  <2>1. Bills(s)' = {bill}
    BY <1>10 DEF Settle, FinalUse
  <2>2. bill.by = "generator" /\ bill.status = FinalStatus(s) /\ bill.use = use[s]
    OBVIOUS
  <2>3. /\ pc'[s] = "logging" /\ use' = use /\ cell' = cell /\ seen' = seen
        /\ reported' = reported
        /\ errFrame' = errFrame /\ cause' = cause /\ finished' = finished
        /\ verdict'[s] = IF FinalStatus(s) = 200 THEN "ok" ELSE "fail"
    BY <1>10 DEF Settle
  <2>4. s \in seen /\ s \notin finished /\ cause[s] \in {"eof", "shutdown"} /\ Counted(s)
    BY <1>10 DEF Settle
  <2> HIDE DEF bill, Bills
  <2>5. Fresh(s)' /\ CauseKnown(s)' /\ Counted(s)' /\ AwaitedLog(s)' /\ Written(s)'
    BY <2>1, <2>3, <2>4
  <2>6. GivenUp(s)' /\ Charged(s)'
    BY <2>1, <2>2, <2>3, <2>4
  <2>7. Agreed(s)'
    BY <2>1, <2>2, <2>3, <2>4 DEF FinalStatus
  <2>8. QED
    BY <2>5, <2>6, <2>7
<1>11. CASE Disconnect(s)
  BY <1>11 DEF Disconnect, AbortBill
<1>12. ASSUME NEW n \in 0..MaxEvents, Chunk(s, n) PROVE Local(s)'
  BY <1>12 DEF Chunk
<1>13. ASSUME NEW u \in 0..MaxUse, NEW e \in BOOLEAN, Push(s, u, e) PROVE Local(s)'
  BY <1>13 DEF Push, Absorb
<1>14. ASSUME NEW u \in 0..MaxUse, NEW e \in BOOLEAN, TailEvent(s, u, e) PROVE Local(s)'
  BY <1>14 DEF TailEvent, Absorb
<1>15. QED
  BY <1>1, <1>2, <1>3, <1>4, <1>5, <1>6, <1>7, <1>8, <1>9, <1>10, <1>11, <1>12,
     <1>13, <1>14 DEF Generate, Write

LEMMA StepIInv == IInv /\ [Next]_vars => IInv'
<1> SUFFICES ASSUME IInv, [Next]_vars, NEW t \in Streams PROVE Local(t)'
  BY TypeStep DEF IInv
<1>1. TypeOK /\ Local(t)
  BY DEF IInv
<1>2. ASSUME NEW s \in Streams, Open(s) \/ Generate(s) \/ Write(s) PROVE Local(t)'
  <2>1. CASE s = t
    BY <1>1, <1>2, <2>1, StreamStepLocal
  <2>2. CASE s # t
    BY <1>1, <1>2, <2>2, StreamStepKeeps, KeptLocal
  <2>3. QED
    BY <2>1, <2>2
<1>3. CASE Shutdown \/ UNCHANGED vars
  BY <1>1, <1>3, KeptLocal DEF Shutdown, vars, genVars, Kept, Running
<1>4. CASE Drained \/ Kill
  BY <1>1, <1>4
     DEF Drained, Kill, genVars, TypeOK, Running, Local, Early, Fresh, CauseKnown, Counted, AwaitedLog,
           GivenUp, Charged, Agreed, Written, Bills, AtMostOne
<1>5. QED
  BY <1>2, <1>3, <1>4 DEF Next

LEMMA Invariance == Spec => []IInv
<1>1. Init => IInv
  BY InitIInv
<1>2. IInv /\ [Next]_vars => IInv'
  BY StepIInv
<1>3. QED
  BY <1>1, <1>2, PTL DEF Spec

-----------------------------------------------------------------------------
(* The generator, its guard and the log writers keep the model's types:    *)
(* in particular every log of chat.rs carries one of the three statuses.   *)
THEOREM StreamTypes == Spec => []TypeOK
<1>1. IInv => TypeOK
  BY DEF IInv
<1>2. QED
  BY <1>1, Invariance, PTL

(* A stream the gateway gave up on is accounted for once, whenever the     *)
(* client goes: finish() precedes the yields in stream_response.           *)
THEOREM GiveUpBilledOnce == Spec => []FailedStreamBilledOnce
<1>1. IInv => FailedStreamBilledOnce
  BY DEF IInv, Local, GivenUp, FailedStreamBilledOnce
<1>2. QED
  BY <1>1, Invariance, PTL

(* A finished stream is charged for all its upstream reported, an aborted  *)
(* one for an amount its upstream reported.                                *)
THEOREM FullUsageBilled == Spec => []UsageBilled
<1>1. IInv => UsageBilled
  BY DEF IInv, Local, Charged, UsageBilled
<1>2. QED
  BY <1>1, Invariance, PTL

(* The verdict on the provider and the logged status agree, and an error   *)
(* frame never counts as a success.                                        *)
THEOREM VerdictAgrees == Spec => []VerdictMatchesLog
<1>1. IInv => VerdictMatchesLog
  BY DEF IInv, Local, Agreed, VerdictMatchesLog
<1>2. QED
  BY <1>1, Invariance, PTL

(* A stream that completed is in the database: request_log_sync is awaited *)
(* before the generator ends, so a graceful exit finds nothing to lose.    *)
THEOREM CompletedLogged == Spec => []CompletedIsLogged
<1>1. IInv => CompletedIsLogged
  BY DEF IInv, Local, Written, CompletedIsLogged
<1>2. QED
  BY <1>1, Invariance, PTL

=============================================================================
