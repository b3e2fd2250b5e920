------------------------------- MODULE Failover -------------------------------
(***************************************************************************)
(* The forwarding of client calls: proxy_completion and attempt_loop of     *)
(* api/proxy/chat.rs and passthrough of api/proxy/passthrough.rs, composed  *)
(* with the channels they select, judge and pin (module Channels).          *)
(*                                                                         *)
(* A call loops over at most MaxAttempts selections.  Each await is a step  *)
(* of its own, so the channels change between the selection of a channel    *)
(* and what is reported of it; the client may go at any await, and the      *)
(* overall deadline of a chat call may strike at any await.                 *)
(***************************************************************************)
EXTENDS ChannelParams

CONSTANTS
  Requests,     \* client calls; each runs once
  Lanes,        \* (API key, model) pairs that a channel can be pinned for
  MaxAttempts,  \* config.max_retries.max(1)
  Cap,          \* per channel: max_retries + 1 attempts within one call
  OpenAi,       \* channels that speak the openai protocol
  Kinds         \* "chat", "stream" (chat with stream = true), "pass"

\* Classes of answers.
Answers == {"ok", "fault", "limited", "client", "auth", "rejected", "unavailable",
            "timeout"}

ASSUME FailoverAssumption ==
  /\ IsFiniteSet(Providers)
  /\ MaxAttempts \in Nat \ {0}
  /\ Cap \in [Providers -> Nat \ {0}]
  /\ OpenAi \subseteq Providers
  /\ Kinds \subseteq {"chat", "stream", "pass"}
  /\ NULL \notin Answers

VARIABLES
  row, pin, verdicts, pins, probing, edits,  \* see Channels
  pc,       \* where each call is
  kind,     \* which handler serves it
  lane,     \* the (key, model) it can be pinned for, NULL without an API key
  n,        \* selections made (the loop variable)
  tried,    \* tried: channels selected so far
  tries,    \* per_provider_attempts
  counted,  \* failure_counted
  cur,      \* the channel in hand, last of tried_order
  key,      \* the credential the call was sent with: a snapshot
  lastErr,  \* last_error: the class of the last upstream failure
  answer,   \* the class of the answer the client got
  logs,     \* classes of the request logs posted for the call
  steady,   \* history: channels in service ever since the call arrived
  blamed,   \* history: <<call, channel>> pairs with a real fault
  uncapped  \* history: verdicts posted without asking failure_counted

channelVars == <<row, pin, verdicts, pins, probing, edits>>
callVars == <<pc, kind, lane, n, tried, tries, counted, cur, key, lastErr, answer,
              logs, blamed, uncapped>>
vars == <<channelVars, callVars, steady>>

Deadline == MaxAttempts + 1
StreamEnd == MaxAttempts + 2
Posts == Requests \X (1..StreamEnd)

C == INSTANCE Channels

\* "unread": over, because the channels could not be read.
PC == {"idle", "select", "send", "settle", "stream", "done", "unread", "gone"}

TypeOK ==
  /\ C!TypeOK
  /\ pc \in [Requests -> PC]
  /\ kind \in [Requests -> Kinds \cup {NULL}]
  /\ lane \in [Requests -> Lanes \cup {NULL}]
  /\ n \in [Requests -> 0..MaxAttempts]
  /\ tried \in [Requests -> SUBSET Providers]
  /\ tries \in [Requests -> [Providers -> 0..MaxAttempts]]
  /\ counted \in [Requests -> SUBSET Providers]
  /\ cur \in [Requests -> Providers \cup {NULL}]
  /\ key \in [Requests -> {"good", "bad", NULL}]
  /\ lastErr \in [Requests -> {"fault", "limited", "auth", NULL}]
  /\ answer \in [Requests -> Answers \cup {NULL}]
  /\ logs \in [Requests -> SUBSET Answers]
  /\ steady \in [Requests -> SUBSET Providers]
  /\ blamed \subseteq Requests \X Providers
  /\ uncapped \subseteq C!Verdict

Init ==
  /\ C!Init
  /\ pc = [r \in Requests |-> "idle"]
  /\ kind = [r \in Requests |-> NULL] /\ lane = [r \in Requests |-> NULL]
  /\ n = [r \in Requests |-> 0]
  /\ tried = [r \in Requests |-> {}]
  /\ tries = [r \in Requests |-> [p \in Providers |-> 0]]
  /\ counted = [r \in Requests |-> {}]
  /\ cur = [r \in Requests |-> NULL] /\ key = [r \in Requests |-> NULL]
  /\ lastErr = [r \in Requests |-> NULL] /\ answer = [r \in Requests |-> NULL]
  /\ logs = [r \in Requests |-> {}]
  /\ steady = [r \in Requests |-> {}]
  /\ blamed = {} /\ uncapped = {}

-----------------------------------------------------------------------------
Goto(r, l) == pc' = [pc EXCEPT ![r] = l]

\* An attempt that is not logged.
LogForgotten(r, a) == logs' = logs

Log(r, a) == logs' = [logs EXCEPT ![r] = @ \cup {a}]

\* The call ends with an answer, logged under the class lg.
Reply(r, a, lg) ==
  /\ answer' = [answer EXCEPT ![r] = a]
  /\ logs' = [logs EXCEPT ![r] = @ \cup lg]
  /\ Goto(r, "done")

\* A verdict of attempt i of a call.
Said(r, i, p, class, count) ==
  [post |-> <<r, i>>, p |-> p, class |-> class, count |-> count]

\* The call passes the checks at the entry (model, whitelist, balance, limits).
Arrive(r, k, l) ==
  /\ pc[r] = "idle"
  /\ Goto(r, "select")
  /\ kind' = [kind EXCEPT ![r] = k] /\ lane' = [lane EXCEPT ![r] = l]
  /\ UNCHANGED <<channelVars, n, tried, tries, counted, cur, key, lastErr, answer,
                 logs, blamed, uncapped>>

\* The call is refused at the entry.  passthrough answers an unsupported path
\* (404) and a missing model (400) without a log; every other refusal is
\* logged.
Reject(r, k) ==
  /\ pc[r] = "idle"
  /\ kind' = [kind EXCEPT ![r] = k]
  /\ \/ Reply(r, "rejected", {"rejected"})
     \/ k = "pass" /\ Reply(r, "rejected", {})
  /\ UNCHANGED <<channelVars, lane, n, tried, tries, counted, cur, key, lastErr,
                 blamed, uncapped>>

\* A failure counted on every attempt.
CountOnceForgotten(r, p) == TRUE

\* failure_counted.insert: TRUE the first time the call fails at the channel.
CountOnce(r, p) == p \notin counted[r]

Undecryptable(p) == row[p].key = "broken"

\* *attempts > max_retries + 1, after the increment.
OverCap(r, p) == tries[r][p] + 1 > Cap[p]

\* What the loop does with the channel selected: it is passed over at the cap
\* of its attempts, with an undecryptable credential (a failure), or when it
\* does not speak the protocol of a passed-through call; else it is called.
TakeUp(r, p) ==
  \/ /\ OverCap(r, p)
     /\ UNCHANGED <<channelVars, pc, counted, key, blamed>>
  \/ /\ ~OverCap(r, p) /\ Undecryptable(p)
     /\ C!Posting({Said(r, n[r] + 1, p, "fault", CountOnce(r, p))}, {})
     /\ counted' = [counted EXCEPT ![r] = @ \cup {p}]
     /\ blamed' = blamed \cup {<<r, p>>}
     /\ UNCHANGED <<pc, key>>
  \/ /\ ~OverCap(r, p) /\ ~Undecryptable(p) /\ kind[r] = "pass" /\ p \notin OpenAi
     /\ UNCHANGED <<channelVars, pc, counted, key, blamed>>
  \/ /\ ~OverCap(r, p) /\ ~Undecryptable(p) /\ (kind[r] = "pass" => p \in OpenAi)
     /\ Goto(r, "send")
     /\ key' = [key EXCEPT ![r] = row[p].key]
     /\ UNCHANGED <<channelVars, counted, blamed>>

Select(r) ==
  /\ pc[r] = "select" /\ n[r] < MaxAttempts
  /\ \E p \in C!Choice(lane[r], tried[r]) :
       /\ n' = [n EXCEPT ![r] = @ + 1]
       /\ tried' = [tried EXCEPT ![r] = @ \cup {p}]
       /\ tries' = [tries EXCEPT ![r][p] = @ + 1]
       /\ cur' = [cur EXCEPT ![r] = p]
       /\ TakeUp(r, p)
  /\ UNCHANGED <<kind, lane, lastErr, answer, logs, uncapped>>

\* The upstream's own rejection passed on as it is.
FinalAnswerLeaks(r) == IF lastErr[r] = NULL THEN "unavailable" ELSE lastErr[r]

\* What the client is told in the end; a refused credential is the channel's
\* business.
FinalAnswer(r) ==
  CASE lastErr[r] = NULL -> "unavailable"
    [] lastErr[r] = "auth" -> "fault"
    [] OTHER -> lastErr[r]

\* The loop runs to its end even when nothing can be selected.
OutOfAttempts(r) == n[r] = MaxAttempts

OutOfChannels(r) == n[r] = MaxAttempts \/ C!Choice(lane[r], tried[r]) = {}

\* What a call that gives up logs: a failed attempt has its log already.
FinalLog(r) == IF lastErr[r] = NULL THEN {"unavailable"} ELSE {}

\* Out of attempts, or no channel is left to select.
GiveUp(r) ==
  /\ pc[r] = "select" /\ OutOfChannels(r)
  /\ Reply(r, FinalAnswer(r), FinalLog(r))
  /\ UNCHANGED <<channelVars, kind, lane, n, tried, tries, counted, cur, key,
                 lastErr, blamed, uncapped>>

\* The query for the channels fails, which reads as no channel at all.
Unread(r) ==
  /\ pc[r] = "select" /\ n[r] < MaxAttempts
  /\ answer' = [answer EXCEPT ![r] = FinalAnswer(r)]
  /\ logs' = [logs EXCEPT ![r] = @ \cup FinalLog(r)]
  /\ Goto(r, "unread")
  /\ UNCHANGED <<channelVars, kind, lane, n, tried, tries, counted, cur, key,
                 lastErr, blamed, uncapped>>

\* The attempt fails in a way another channel may mend.
Fail(r, class) ==
  /\ pc[r] = "send"
  /\ class = "auth" => key[r] # "good"
  /\ C!Posting({Said(r, n[r], cur[r], class, CountOnce(r, cur[r]))}, {})
  /\ counted' = [counted EXCEPT ![r] = @ \cup {cur[r]}]
  /\ blamed' = IF class = "fault" THEN blamed \cup {<<r, cur[r]>>} ELSE blamed
  /\ lastErr' = [lastErr EXCEPT ![r] = class]
  /\ Log(r, class)
  /\ Goto(r, "select")
  /\ UNCHANGED <<kind, lane, n, tried, tries, cur, key, answer, uncapped>>

\* Another client error of the upstream: fail fast.
FailFast(r) ==
  /\ pc[r] = "send" /\ key[r] = "good"
  /\ C!Posting({Said(r, n[r], cur[r], "client", CountOnce(r, cur[r]))}, {})
  /\ counted' = [counted EXCEPT ![r] = @ \cup {cur[r]}]
  /\ Reply(r, "client", {"client"})
  /\ UNCHANGED <<kind, lane, n, tried, tries, cur, key, lastErr, blamed, uncapped>>

\* A call without an API key is pinned too.
PinAlways(r) == {[post |-> <<r, n[r]>>, lane |-> lane[r], p |-> cur[r]]}

\* What spawn_pin_channel is asked to write.
PinOf(r) ==
  IF lane[r] = NULL THEN {}
  ELSE {[post |-> <<r, n[r]>>, lane |-> lane[r], p |-> cur[r]]}

\* A usable body: verdict and pin are posted, the log is handed to the pool
\* and awaited.
Succeed(r) ==
  /\ pc[r] = "send" /\ key[r] = "good" /\ kind[r] # "stream"
  /\ C!Posting({Said(r, n[r], cur[r], "ok", TRUE)}, PinOf(r))
  /\ Log(r, "ok")
  /\ Goto(r, "settle")
  /\ UNCHANGED <<kind, lane, n, tried, tries, counted, cur, key, lastErr, answer,
                 blamed, uncapped>>

Settle(r) ==
  /\ pc[r] = "settle"
  /\ Reply(r, "ok", {})
  /\ UNCHANGED <<channelVars, kind, lane, n, tried, tries, counted, cur, key,
                 lastErr, blamed, uncapped>>

\* SSE headers: the channel is pinned and the answer handed to the stream
\* (module StreamBilling), which logs it.
HandOver(r) ==
  /\ pc[r] = "send" /\ key[r] = "good" /\ kind[r] = "stream"
  /\ C!Posting({}, PinOf(r))
  /\ answer' = [answer EXCEPT ![r] = "ok"]
  /\ Goto(r, "stream")
  /\ UNCHANGED <<kind, lane, n, tried, tries, counted, cur, key, lastErr, logs,
                 blamed, uncapped>>

\* The stream ends with a verdict of its own, or with none if the client went.
EndStream(r) ==
  LET failed == Said(r, StreamEnd, cur[r], "fault", TRUE) IN
  /\ pc[r] = "stream"
  /\ \/ /\ C!Posting({Said(r, StreamEnd, cur[r], "ok", TRUE)}, {})
        /\ UNCHANGED <<blamed, uncapped>>
     \/ /\ C!Posting({failed}, {})
        /\ blamed' = blamed \cup {<<r, cur[r]>>}
        /\ uncapped' = uncapped \cup {failed}
     \/ UNCHANGED <<channelVars, blamed, uncapped>>
  /\ Goto(r, "done")
  /\ UNCHANGED <<kind, lane, n, tried, tries, counted, cur, key, lastErr, answer, logs>>

\* The overall deadline of proxy_completion: the loop is dropped where it is
\* and the last channel tried is reported once more.
Expire(r) ==
  LET late == Said(r, Deadline, cur[r], "fault", TRUE) IN
  /\ kind[r] # "pass" /\ pc[r] \in {"select", "send", "settle"}
  /\ IF cur[r] = NULL THEN UNCHANGED <<channelVars, uncapped>>
     ELSE C!Posting({late}, {}) /\ uncapped' = uncapped \cup {late}
  /\ Reply(r, "timeout", {"timeout"})
  /\ UNCHANGED <<kind, lane, n, tried, tries, counted, cur, key, lastErr, blamed>>

\* The client goes and the handler is dropped.
Vanish(r) ==
  /\ pc[r] \in {"select", "send", "settle"}
  /\ Goto(r, "gone")
  /\ UNCHANGED <<channelVars, kind, lane, n, tried, tries, counted, cur, key, lastErr,
                 answer, logs, blamed, uncapped>>

Work(r) ==
  \/ Select(r) \/ GiveUp(r) \/ FailFast(r) \/ Succeed(r) \/ Settle(r)
  \/ HandOver(r) \/ EndStream(r)
  \/ \E class \in {"fault", "limited", "auth"} : Fail(r, class)

\* The history of the channels in service since a call arrived.
Watch ==
  steady' = [r \in Requests |->
               (IF pc[r] = "idle" THEN C!Active ELSE steady[r]) \cap C!Active']

Next ==
  /\ \/ \E r \in Requests, k \in Kinds, l \in Lanes \cup {NULL} : Arrive(r, k, l)
     \/ \E r \in Requests, k \in Kinds : Reject(r, k)
     \/ \E r \in Requests : Work(r) \/ Unread(r) \/ Expire(r) \/ Vanish(r)
     \/ (C!Recording \/ C!Housekeeping) /\ UNCHANGED callVars
  /\ Watch

Spec == Init /\ [][Next]_vars

\* Every await of a call ends (timeout of the attempt, blocking task).  Nothing
\* is asked of the deadline, the client, the admin or the probes, nor that a
\* query should fail.
FairSpec == Spec /\ \A r \in Requests : WF_vars(Work(r) /\ Watch)

-----------------------------------------------------------------------------
(***************************************************************************)
(* Properties.                                                             *)
(***************************************************************************)

\* The forwarding code is one of the posters Channels allows: it changes the
\* channels through verdicts and pins only.
ChannelsSpec == C!Spec

\* InServiceIsSound of Channels, with the verdicts attempt_loop really posts.
InServiceIsSound == C!InServiceIsSound

\* Consecutive failures are backed by calls: of a channel's count, each call
\* that met a fault there (not a 429, not a client error) accounts for one,
\* however often it came back to the channel, and each verdict posted without
\* asking failure_counted for one more.
FailsBacked ==
  \A p \in Providers : C!Exists(p) =>
    row[p].fails <= Cardinality({r \in Requests : <<r, p>> \in blamed})
                    + Cardinality({v \in uncapped : v.p = p})

\* Failing over reaches everybody: a call that ends with the failure of its
\* channels, and had attempts enough, tried every channel that was in service
\* all along, whatever was pinned, probed, disabled or edited meanwhile.  Left
\* out: a call that could not read the channels, and takes them to be none.
EveryoneTried ==
  \A r \in Requests :
    answer[r] \in {"fault", "limited", "unavailable"} /\ pc[r] # "unread"
      /\ MaxAttempts >= Cardinality(Providers)
      => steady[r] \subseteq tried[r]

\* A credential the upstream refuses is never the client's answer, and one
\* this process cannot decrypt never gets its channel disabled for it.
CredentialsStayInside ==
  /\ \A r \in Requests : answer[r] # "auth"
  /\ \A p \in Providers :
       C!Exists(p) /\ row[p].key = "broken" => row[p].reason # "auth"

Audited(r) == answer[r] \in logs[r] \/ (answer[r] = "fault" /\ "auth" \in logs[r])

\* Every answer of a chat call, and every answer of a passed-through call that
\* was let in, has a log posted under its own status before the client gets it
\* (streams see StreamBilling).  The log of a usable answer is awaited, that of
\* a failure is handed to a detached task (spawn_request_log).
AnswersAudited ==
  \A r \in Requests :
    answer[r] # NULL /\ <<kind[r], answer[r]>> \notin {<<"stream", "ok">>, <<"pass", "rejected">>}
      => Audited(r)

\* A call that was let in is answered, even without channels, without help
\* from the deadline.
CallsAnswered == \A r \in Requests : pc[r] = "select" ~> pc[r] \in {"done", "unread", "gone"}

\* What the code says of the deadline: the attempt it cancels has reported
\* nothing of its channel, least of all a success.
DeadlineBlamesSilent ==
  [][\A r \in Requests :
       answer[r] = NULL /\ answer'[r] = "timeout" => pc[r] # "settle"]_vars

=============================================================================
