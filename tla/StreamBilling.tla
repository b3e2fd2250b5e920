---------------------------- MODULE StreamBilling -----------------------------
(***************************************************************************)
(* The life of a streamed answer: stream_response of api/proxy/chat.rs, the *)
(* StreamAbortGuard and the ConcurrencyGuard that live in its generator,    *)
(* the detached tasks that write request logs and charge for them, client   *)
(* disconnects at every suspension point, and the shutdown of the process   *)
(* (main.rs).                                                              *)
(*                                                                         *)
(* A generator only stops at a yield or an await; it is dropped there when  *)
(* the client goes.  A database write handed to the blocking pool survives  *)
(* the generator that asked for it, but not the exit of the process while   *)
(* it is queued.  Database writes themselves succeed here; Ledger has their *)
(* failures.                                                               *)
(***************************************************************************)
EXTENDS Integers, FiniteSets

CONSTANTS
  Streams,    \* streamed calls whose upstream answered 200 with SSE headers
  MaxUse,     \* bound on the tokens an upstream reports for one stream
  MaxChunks,  \* bound on the chunks of one upstream stream
  MaxEvents   \* bound on the complete SSE events of one chunk

ASSUME StreamAssumption ==
  MaxUse \in Nat /\ MaxChunks \in Nat /\ MaxEvents \in Nat

VARIABLES
  proc,       \* the process: "up", "draining" (token cancelled), "drained"
              \* (left after its connections closed), "killed" (left by force)
  pc,         \* where each generator is
  left,       \* events of the current chunk not pushed yet
  chunks,     \* chunks read (for the bound)
  use,        \* converter.usage(): tokens the upstream has reported
  cell,       \* usage_cell: the copy the abort guard reads
  reported,   \* history: every value converter.usage() has had
  seen,       \* streams with at least one event (events > 0)
  errFrame,   \* streams in which the upstream sent an error frame
  cause,      \* why the upstream loop was left
  finished,   \* streams whose abort guard was told the call is accounted for
  slot,       \* streams that still own their ConcurrencyGuard
  pending,    \* log writers handed to the blocking pool, per stream
  logs,       \* request_logs rows (each charged with its insert), per stream
  verdict     \* what was reported of the provider: "none", "ok" or "fail"

genVars == <<left, chunks, use, cell, reported, seen, errFrame, cause>>
vars == <<proc, pc, genVars, finished, slot, pending, logs, verdict>>

PC == {"idle", "open", "reading", "pushing", "tail", "finishing", "logging",
       "closing", "gone"}

\* A log: the writer that asked for it, its status code and its token count.
Bill == [by : {"generator", "guard"}, status : {200, 499, 502}, use : 0..MaxUse]

TypeOK ==
  /\ proc \in {"up", "draining", "drained", "killed"}
  /\ pc \in [Streams -> PC]
  /\ left \in [Streams -> 0..MaxEvents]
  /\ chunks \in [Streams -> 0..MaxChunks]
  /\ use \in [Streams -> 0..MaxUse]
  /\ cell \in [Streams -> 0..MaxUse]
  /\ reported \in [Streams -> SUBSET (0..MaxUse)]
  /\ seen \subseteq Streams /\ errFrame \subseteq Streams
  /\ cause \in [Streams -> {"none", "eof", "shutdown", "broken"}]
  /\ finished \subseteq Streams /\ slot \subseteq Streams
  /\ pending \in [Streams -> SUBSET Bill]
  /\ logs \in [Streams -> SUBSET Bill]
  /\ verdict \in [Streams -> {"none", "ok", "fail"}]

Init ==
  /\ proc = "up"
  /\ pc = [s \in Streams |-> "idle"]
  /\ left = [s \in Streams |-> 0] /\ chunks = [s \in Streams |-> 0]
  /\ use = [s \in Streams |-> 0] /\ cell = [s \in Streams |-> 0]
  /\ reported = [s \in Streams |-> {0}]
  /\ seen = {} /\ errFrame = {}
  /\ cause = [s \in Streams |-> "none"]
  /\ finished = {} /\ slot = {}
  /\ pending = [s \in Streams |-> {}] /\ logs = [s \in Streams |-> {}]
  /\ verdict = [s \in Streams |-> "none"]

Running == proc \in {"up", "draining"}
Goto(s, l) == pc' = [pc EXCEPT ![s] = l]

-----------------------------------------------------------------------------
(***************************************************************************)
(* The upstream loop.                                                      *)
(***************************************************************************)

\* attempt_loop hands the answer over, with the call's slot if it holds one.
Open(s) ==
  /\ proc = "up" /\ pc[s] = "idle"
  /\ Goto(s, "open")
  /\ slot' \in {slot, slot \cup {s}}
  /\ UNCHANGED <<proc, genVars, finished, pending, logs, verdict>>

\* The first poll runs the generator up to its first await; only now is there
\* an abort guard.
FirstPoll(s) ==
  /\ Running /\ pc[s] = "open"
  /\ Goto(s, "reading")
  /\ UNCHANGED <<proc, genVars, finished, slot, pending, logs, verdict>>

Chunk(s, n) ==
  /\ Running /\ pc[s] = "reading" /\ chunks[s] < MaxChunks
  /\ chunks' = [chunks EXCEPT ![s] = @ + 1]
  /\ left' = [left EXCEPT ![s] = n]
  /\ Goto(s, "pushing")
  /\ UNCHANGED <<proc, use, cell, reported, seen, errFrame, cause, finished, slot,
                 pending, logs, verdict>>

\* converter.push: the event may report usage (a later report replaces an
\* earlier one, whatever its size) or be an error frame.
Absorb(s, u, e) ==
  /\ use' = [use EXCEPT ![s] = u]
  /\ reported' = [reported EXCEPT ![s] = @ \cup {u}]
  /\ seen' = seen \cup {s}
  /\ errFrame' = IF e THEN errFrame \cup {s} ELSE errFrame

\* One event of the chunk is converted and yielded to the client.
Push(s, u, e) ==
  /\ Running /\ pc[s] = "pushing" /\ left[s] > 0
  /\ Absorb(s, u, e)
  /\ left' = [left EXCEPT ![s] = @ - 1]
  /\ UNCHANGED <<proc, pc, chunks, cell, cause, finished, slot, pending, logs,
                 verdict>>

\* After the last event of a chunk the usage is published for the abort guard.
EndChunk(s) ==
  /\ Running /\ pc[s] = "pushing" /\ left[s] = 0
  /\ cell' = [cell EXCEPT ![s] = use[s]]
  /\ Goto(s, "reading")
  /\ UNCHANGED <<proc, left, chunks, use, reported, seen, errFrame, cause, finished,
                 slot, pending, logs, verdict>>

\* Giving up on the stream with the guard still armed.
FailStreamArmed(s, u) ==
  /\ verdict' = [verdict EXCEPT ![s] = "fail"]
  /\ pending' = [pending EXCEPT ![s] = @ \cup
                   {[by |-> "generator", status |-> 502, use |-> u]}]
  /\ Goto(s, "closing")
  /\ UNCHANGED finished

\* spawn_record_failure, spawn_request_log(502) and guard.finish come before
\* the yields that tell the client.
FailStream(s, u) ==
  /\ verdict' = [verdict EXCEPT ![s] = "fail"]
  /\ pending' = [pending EXCEPT ![s] = @ \cup
                   {[by |-> "generator", status |-> 502, use |-> u]}]
  /\ finished' = finished \cup {s}
  /\ Goto(s, "closing")

\* The upstream stalls past the idle timeout or its transport breaks.
UpstreamBreaks(s) ==
  /\ Running /\ pc[s] = "reading"
  /\ cause' = [cause EXCEPT ![s] = "broken"]
  /\ FailStream(s, use[s])
  /\ UNCHANGED <<proc, left, chunks, use, cell, reported, seen, errFrame, slot, logs>>

\* The buffer outgrows MAX_SSE_BUF without an event boundary.
BufferOverflows(s) ==
  /\ Running /\ pc[s] = "pushing" /\ left[s] = 0
  /\ cell' = [cell EXCEPT ![s] = use[s]]
  /\ cause' = [cause EXCEPT ![s] = "broken"]
  /\ FailStream(s, use[s])
  /\ UNCHANGED <<proc, left, chunks, use, reported, seen, errFrame, slot, logs>>

\* The upstream closes, or the shutdown token is seen first.
LeaveLoop(s) ==
  /\ Running /\ pc[s] = "reading"
  /\ \/ cause' = [cause EXCEPT ![s] = "eof"]
     \/ proc = "draining" /\ cause' = [cause EXCEPT ![s] = "shutdown"]
  /\ Goto(s, "tail")
  /\ UNCHANGED <<proc, left, chunks, use, cell, reported, seen, errFrame, finished,
                 slot, pending, logs, verdict>>

-----------------------------------------------------------------------------
(***************************************************************************)
(* The end of the stream.                                                  *)
(***************************************************************************)

\* parse_sse_remaining finds one more event in the buffer; the usage it brings
\* is not published.
TailEvent(s, u, e) ==
  /\ Running /\ pc[s] = "tail"
  /\ Absorb(s, u, e)
  /\ Goto(s, "finishing")
  /\ UNCHANGED <<proc, left, chunks, cell, cause, finished, slot, pending, logs,
                 verdict>>

NoTail(s) ==
  /\ Running /\ pc[s] = "tail" /\ s \in seen
  /\ Goto(s, "finishing")
  /\ UNCHANGED <<proc, genVars, finished, slot, pending, logs, verdict>>

\* No event at all: a failure of the provider.
EmptyStream(s) ==
  /\ Running /\ pc[s] = "tail" /\ s \notin seen
  /\ FailStream(s, 0)
  /\ UNCHANGED <<proc, genVars, slot, logs>>

\* An error frame inside the stream that nobody looks at.
FinalStatusBlind(s) == 200

FinalStatus(s) == IF s \in errFrame THEN 502 ELSE 200

\* The final log taken from the cell the abort guard reads.
FinalUsePublished(s) == cell[s]

FinalUse(s) == use[s]

\* converter.finish has been yielded: the verdict on the provider is spawned
\* and the log is handed to the blocking pool, awaited with the guard armed.
Settle(s) ==
  /\ Running /\ pc[s] = "finishing"
  /\ verdict' = [verdict EXCEPT ![s] = IF FinalStatus(s) = 200 THEN "ok" ELSE "fail"]
  /\ pending' = [pending EXCEPT ![s] = @ \cup
                   {[by |-> "generator", status |-> FinalStatus(s), use |-> FinalUse(s)]}]
  /\ Goto(s, "logging")
  /\ UNCHANGED <<proc, genVars, finished, slot, logs>>

\* A log that is handed over and not awaited.
AwaitedNever(s) == TRUE

\* The writer that request_log_sync waits for has run.
Awaited(s) == pending[s] = {}

\* request_log_sync returns, the guard is told, the generator ends and its
\* locals are dropped.
Complete(s) ==
  /\ Running /\ pc[s] = "logging" /\ Awaited(s)
  /\ finished' = finished \cup {s}
  /\ slot' = slot \ {s}
  /\ Goto(s, "gone")
  /\ UNCHANGED <<proc, genVars, pending, logs, verdict>>

\* The error and terminal events of a failed stream have been yielded.
Close(s) ==
  /\ Running /\ pc[s] = "closing"
  /\ slot' = slot \ {s}
  /\ Goto(s, "gone")
  /\ UNCHANGED <<proc, genVars, finished, pending, logs, verdict>>

\* An abort guard without a Drop.
AbortBillForgotten(s) == {}

\* What StreamAbortGuard::drop writes: nothing once the call is accounted for,
\* otherwise a 499 with the published usage.
AbortBill(s) ==
  IF s \in finished THEN {}
  ELSE {[by |-> "guard", status |-> 499, use |-> cell[s]]}

\* The client goes while the generator is suspended.  One that was never
\* polled has no abort guard.
Disconnect(s) ==
  /\ Running
  /\ pc[s] \in {"open", "reading", "pushing", "finishing", "logging", "closing"}
  /\ pending' = IF pc[s] = "open" THEN pending
                ELSE [pending EXCEPT ![s] = @ \cup AbortBill(s)]
  /\ slot' = slot \ {s}
  /\ Goto(s, "gone")
  /\ UNCHANGED <<proc, genVars, finished, logs, verdict>>

\* insert_request_log on the blocking pool: row and charge in one transaction.
WriteLog(s, b) ==
  /\ Running /\ b \in pending[s]
  /\ pending' = [pending EXCEPT ![s] = @ \ {b}]
  /\ logs' = [logs EXCEPT ![s] = @ \cup {b}]
  /\ UNCHANGED <<proc, pc, genVars, finished, slot, verdict>>

-----------------------------------------------------------------------------
(***************************************************************************)
(* The process.                                                            *)
(***************************************************************************)

\* A signal cancels the token and stops accepting connections.
Shutdown ==
  /\ proc = "up" /\ proc' = "draining"
  /\ UNCHANGED <<pc, genVars, finished, slot, pending, logs, verdict>>

\* axum::serve returns when every connection is closed; queued blocking tasks
\* go with the runtime.
Drained ==
  /\ proc = "draining" /\ \A s \in Streams : pc[s] \in {"idle", "gone"}
  /\ proc' = "drained"
  /\ pending' = [s \in Streams |-> {}]
  /\ UNCHANGED <<pc, genVars, finished, slot, logs, verdict>>

\* The 30 s limit of the drain.
Kill ==
  /\ proc = "draining" /\ proc' = "killed"
  /\ pending' = [s \in Streams |-> {}]
  /\ UNCHANGED <<pc, genVars, finished, slot, logs, verdict>>

Generate(s) ==
  \/ FirstPoll(s) \/ EndChunk(s) \/ UpstreamBreaks(s) \/ BufferOverflows(s)
  \/ LeaveLoop(s) \/ NoTail(s) \/ EmptyStream(s) \/ Settle(s) \/ Complete(s)
  \/ Close(s) \/ Disconnect(s)
  \/ \E n \in 0..MaxEvents : Chunk(s, n)
  \/ \E u \in 0..MaxUse, e \in BOOLEAN : Push(s, u, e) \/ TailEvent(s, u, e)

Write(s) == \E b \in pending[s] : WriteLog(s, b)

Next ==
  \/ \E s \in Streams : Open(s) \/ Generate(s) \/ Write(s)
  \/ Shutdown \/ Drained \/ Kill

Spec == Init /\ [][Next]_vars

\* Upstream silence is bounded by the idle timeout, a client reads or goes,
\* and the blocking pool runs what it is handed.
FairSpec ==
  Spec /\ \A s \in Streams : WF_vars(Generate(s)) /\ WF_vars(Write(s))

-----------------------------------------------------------------------------
(***************************************************************************)
(* Properties.                                                             *)
(***************************************************************************)

\* Every log a stream caused, written or on its way.
Bills(s) == pending[s] \cup logs[s]

AtMostOne(S) == \A a, b \in S : a = b

\* A stream the gateway gave up on (stall, transport error, overflow, no
\* event) is accounted for once, even when the client goes while it is being
\* told: the guard was disarmed before the first yield.
FailedStreamBilledOnce ==
  \A s \in Streams :
    cause[s] = "broken" \/ (verdict[s] = "fail" /\ s \notin seen)
      => AtMostOne(Bills(s))

\* A stream that reached its end is charged for what its upstream last
\* reported, and an aborted one for an amount the upstream did report.
UsageBilled ==
  \A s \in Streams : \A b \in Bills(s) :
    IF b.by = "generator" THEN b.use = use[s] ELSE b.use \in reported[s]

\* A provider that broke off or sent an error frame is never reported healthy,
\* and the status the call is logged with agrees with that report.
VerdictMatchesLog ==
  \A s \in Streams :
    /\ verdict[s] = "ok" => s \notin errFrame /\ cause[s] # "broken"
    /\ \A b \in Bills(s) : b.by = "generator" =>
         b.status = (IF verdict[s] = "ok" THEN 200 ELSE 502)

\* A stream that completed has its log in the database before the connection
\* closes, so that a graceful exit cannot lose the charge.
CompletedIsLogged ==
  \A s \in Streams :
    s \in finished /\ cause[s] \in {"eof", "shutdown"} /\ s \in seen
      => logs[s] # {}

\* Every stream that was polled ends in the audit log, unless the process
\* leaves first, and its slot comes back.
EveryStreamLogged ==
  \A s \in Streams :
    pc[s] = "reading" ~> (logs[s] # {} /\ s \notin slot) \/ ~Running

\* What the code says of the guard: a call that has been accounted for is not
\* accounted for again when the client goes.
BilledOnce == \A s \in Streams : AtMostOne(Bills(s))

\* The gateway's own shutdown is no failure of the provider.
ShutdownBlamesNobody ==
  \A s \in Streams :
    cause[s] = "shutdown" /\ s \notin errFrame => verdict[s] # "fail"

=============================================================================
