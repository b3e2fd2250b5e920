# Aikun: TLA+ models and proofs

Aikun is an AI gateway: one Rust process (axum, tokio, SQLite through rusqlite)
that forwards client calls to upstream channels, fails over between them,
charges users for what the calls cost, and lets administrators run all of it.
This directory holds TLA+ modules translated from its source, the TLC
configurations that check them on small instances, and proofs of their central
theorems for every value of the constants.

Contents: [parts](#1-the-system), [modules](#2-the-modules),
[runs](#3-the-runs), [fairness](#4-fairness), [proofs](#5-the-proofs),
[disagreements](#6-where-the-code-disagrees-with-what-is-said-of-it),
[what is not modelled](#7-what-is-not-modelled), [plan](#8-plan).

## 1. The system

Paths are relative to `src/` of the repository.

### How the parts interact

```
 client --/v1--> auth middleware --> proxy_completion / passthrough     (Failover)
                                       |  limits  -> api_key_rate, api_key_inflight  (KeyLimits)
                                       |  balance -> users.balance                   (Ledger)
                                       |  select  <- providers, channel_affinity     (Channels)
                                       |  verdicts, pins -> blocking tasks -> providers
                                       |  request logs   -> blocking tasks -> request_logs, balance
                                       +- stream -> generator + abort guard + slot   (StreamBilling)
 admin  --/api--> auth middleware --> users, providers, billing, redemption, keys    (Accounts, Channels, Ledger, KeyLimits)
 timers --------> health rounds (probe channels, purge logs), model tests            (Channels, Ledger)
 signal --------> cancellation token, drain of 30 s, exit                            (StreamBilling)
 start ---------> schema, migrations, default prices, sealing of credentials         (Startup)
 a call's body -> convert_request --> upstream --> convert_response / StreamConverter
                  (Requests)                       (WholeAnswers)     (StreamConverter)
```

The gateway shares state in three ways, and each gives a kind of interleaving:

* **The database.** `DbPool` has one writing connection behind a mutex and a
  pool of reading ones (`db/mod.rs` 17-51, 115-121). A statement, or a
  transaction, is atomic. A handler that reads, releases the lock, computes or
  awaits, and writes, is not.
* **In-memory maps** behind their own mutexes in `AppState`: `api_key_rate`,
  `api_key_inflight`, `login_attempts`, `redeem_attempts` (`main.rs` 140-150).
  They are taken one at a time; only `delete_api_key` takes one (`api_key_rate`)
  while it holds the database, and nobody takes them in the other order, so that
  no two handlers can wait for each other.
* **Detached tasks.** What is said of a channel, what is pinned and what is
  logged is handed to tokio's blocking pool. It survives the handler that asked
  for it, is applied in any order, and is lost when the process exits first.

A handler is a future: when the client disconnects it is dropped at the await
it is suspended in, and only destructors run. A stream is a generator that is
dropped at a `yield` or an `await`.

### Components

**Per-key limits** (`api/proxy/chat.rs` 230-340, `api/auth.rs` 358-500,
`auth/mod.rs` 170-249). State: the key's row (requests per minute, tokens per
day, concurrent calls), today's usage, the window of stamps of each key, the
count of calls in flight. Operations: authenticate, read limits and check the
quota, check and stamp the window, take a slot, drop the guard, edit or delete
the key. Hard: three critical sections with gaps, a fail-open branch, guards
dropped at any await, limits that move under calls in flight. Correct when: the
count is the number of live guards, neither cap nor window is overrun, every
slot comes back.

**Streamed answers** (`api/proxy/chat.rs` 716-1000, `main.rs` 288-330). State:
the generator's position, buffer, usage, the abort guard with its copy of the
usage, the queue of log writers. Operations: poll, read a chunk, convert and
yield an event, time out, overflow, end, fail, log and wait, be dropped; shut
down, drain, kill. Hard: the client can go at each suspension point, in
particular after the log is queued and before the guard is told; the process
can exit. Correct when: a stream is charged once, for what its upstream
reported, the verdict on the provider and the log agree, everything polled ends
in the log.

**Channels** (`router/selector.rs`, `router/health.rs`, `router/model_test.rs`,
`api/admin/providers.rs`). State: the `providers` table (in service, healthy,
consecutive failures, reason of disabling, credential), `channel_affinity`.
Operations: select, record a success or a failure, pin, probe, test a model,
create, copy, edit, switch, delete. Hard: verdicts are applied by id by
blocking tasks while the admin edits and the probes write. Correct when: a
channel in service is below the threshold and carries no reason of disabling.

**Forwarding** (`api/proxy/chat.rs` 53-710, `api/proxy/passthrough.rs`). State,
per call: channels tried, attempts per channel, channels whose failure was
counted, the last error. Operations: admit or reject, select, skip, fail and go
on, fail fast, succeed, hand over to the stream, give up; the overall deadline.
Hard: everything a call knows of a channel is old by the time it is used; the
deadline and the client cut the loop at any await. Correct when: nobody in
service is passed over while a call gives up, one call does not count as many,
every answer is audited, credentials are never the client's problem.

**Money** (`api/proxy/chat.rs` 342-369 and 1189-1299, `api/admin/billing.rs`
363-432, `api/redemption.rs`, `router/health.rs` 93-133). State:
`users.balance`, `billing_transactions`, `request_logs`, `usage_daily`,
`redemption_codes`. Operations: admit on a positive balance, log and charge,
adjust, create, disable and redeem a code, purge. Hard: calls side by side on
one balance, two redeemers of one code, two statements of one transaction that
read the clock separately, a cutoff that moves through a day. Correct when: the
balance is what was recharged minus what was used, before and after purging,
and a code is credited once.

**Accounts** (`api/auth.rs` 40-196, `api/admin/users.rs`, `auth/mod.rs` 86-107
and 251-399, `db/mod.rs` 800-867, `main.rs` 110-151). State: the `users` table
(role, active, password, token version), the failure windows, the tokens handed
out. Operations: log in, check a token, require an administrator, create, edit
and disable users, reset the password of "admin" at startup. Hard: an Argon2
run of tens of milliseconds separates each check from its effect. Correct when:
an administrator always remains, no session outlives a change of password, the
budgets of failed logins hold up to the logins under way and nobody is locked
out without cause.

**Protocol conversion of streams** (`proxy/convert.rs` 1187-2263,
`api/proxy/chat.rs` 893-962). State: per stream, the blocks, calls or items
opened so far and their numbers on either side, the stop reason, the usage,
whether the stream was started and finished. Operations: push an event, finish,
tell the usage; the ends `stream_response` gives a stream. Hard: three protocols
with different ideas of order (interleaved calls, nested blocks, items closed
with their content), errors and ends at any point, usage that comes piecemeal
or twice. Correct when: the client puts together what the provider sent, in the
order of its own protocol, with one outcome, and is told what it is charged.

**Conversion of requests and whole answers** (`proxy/convert.rs` 10-1103,
`api/proxy/chat.rs` 451-506). No state: a body in the client's protocol becomes
one in the provider's, and an answer goes the other way. Hard: one protocol has
a message where another has a block or an item, so that messages are split,
merged and moved; each provider refuses a conversation whose calls are not
answered at once, whose roles do not alternate, or whose reasoning carries a
signature of something else; whole and streamed answers are converted, and their
usage added up, by separate code. Correct when: the provider reads what the
client said, in its order, in a form its protocol accepts, and an answer is the
same message for the same charge whether it is streamed or not.

**Start on a database** (`db/mod.rs` 1-111, 126-177, 358-798, `billing.rs`
120-166, `crypto.rs`). State: the schema and its version, the declared types of
money columns, stored keys and credentials, the price list; in memory, what a
`SELECT` or `PRAGMA` returned that later statements depend on. Operations:
every statement of `create_connection` and `DbPool::new`; what administrators
save through a running process. Hard: only two of the migrations are
transactions, so a process can be killed between any two other statements, or a
power loss can take back the last of them (`synchronous=NORMAL`); all of it runs
again at each start, on what administrators have changed since, perhaps under
another secret, perhaps next to a second instance. Correct when: amounts are
converted once, no key is lost, hashed twice or sealed twice, nobody serves a
half-migrated database, nothing an administrator chose is taken back, and a
start that is repeated succeeds.

**Others**: redemption limiter, the pricing of a call, SSE parsing, the
model-test job, the HTTP client, listing handlers, log queries, configuration,
frontend. Section 7 says why each is not modelled.

## 2. The modules

`MC*.tla` instantiate a module for TLC; `*Proofs.tla` extend it with theorems
(`FailoverProofs` holds those about `Channels` too).
The comment above a definition names the code it stands for, and the lines are
in `PROJECT.json` under `map`.

| module | stands for | composed with |
|---|---|---|
| `KeyLimits` | per-key limits, guards, owners | implements `SlotPool` |
| `SlotPool` | what `max_concurrent` promises: a pool of slots | |
| `StreamBilling` | streamed answers, abort guard, shutdown | |
| `StreamConverter` | `StreamConverter` of `convert.rs`: a streamed answer from one protocol to another, and its ends | reads both sides with `WireProtocols` |
| `WireProtocols` | what a reader of each protocol makes of a stream (external) | |
| `WholeAnswers` | `convert_response` and `extract_usage_any` | extends `StreamConverter`, against which it is compared |
| `Requests` | `convert_request` for every pair of protocols | |
| `ChannelParams` | constants and the row of a channel | |
| `Channels` | table `providers` and its readers and writers, with an environment that posts verdicts and pins | |
| `Failover` | both forwarding loops | instantiates `Channels`, implements it |
| `Ledger` | balance, statement, logs, codes, purge | |
| `Accounts` | logins, sessions, administrators, reset | |
| `Startup` | schema, migrations, default prices, sealing at a start, and edits between starts | |

What is common to all: one action is what happens between two points at which
somebody else can act (an unlock, an await, a yield); every choice the code
leaves to the environment (an upstream's answer, a client that goes, which
blocking task runs next) is nondeterministic; strings, prices and formats are
replaced by what the properties tell apart.

### KeyLimits

`row` is the key's three limits, `used` today's tokens, `rate` the window of
stamps, `inflight` the counter, `held` the calls that own a `ConcurrencyGuard`.
A call goes `idle -> limits -> rpm -> slot -> run -> billed -> done`:
`Authenticate` (`authenticate_api_key`), `ReadLimits` or `FailOpen` (the query
and the quota), `CheckRpm` (under the mutex of the windows), `TakeSlot` (under
the mutex of the counters), `Bill`, `Finish`; `Abort` and `LateBill` are a
dropped handler or generator and the log its abort guard posts. The owner moves
all limits at any moment (`UpdateApiKey`) or deletes the key, whose window goes
in a second step (`DeleteApiKey`, `DropWindow`). A stamp carries its call only
so that two calls in one tick are two stamps. `admitted` is history.

### StreamBilling

One value of `pc` per place the generator can be suspended in: `open` (handed
over, never polled), `reading` (`select!` of shutdown, idle timeout and the next
chunk), `pushing` (between two yields of a chunk), `tail` and `finishing` (after
the loop), `logging` (`request_log_sync` awaited), `closing` (the error events
of a stream given up). `use` is `converter.usage()`, `cell` the copy the abort
guard reads, refreshed after each chunk, `pending` the log writers queued on the
blocking pool, `logs` what is in the database. `Disconnect` drops the generator
wherever it is suspended; `AbortBill` is the guard's `Drop`. `Shutdown` cancels
the token, `Drained` exits when all connections are closed, `Kill` after 30 s;
both lose what is queued. `Chunk` allows a chunk without a complete event, and
a later usage report may be smaller than an earlier one, since the converter
replaces it.

### StreamConverter

What `StreamBilling` abstracts to "an event may report usage or an error" is
spelled out here. `conv.oa`, `conv.an` and `conv.oar` are `OaStreamState`,
`AnStreamState` and `OarStreamState`; `conv.pass` is the usage of the three
variants that pass events through. `blk` holds `thinking_block`, `text_block`
and `open_tool_block`; `tools` and `tcs` are the maps `tool_blocks`, `tool_items`
and `block_to_tc`. A chunk is its usage object and its pieces in the order the
code visits them (reasoning, content, calls, finish), and a result `r` is the new
state `r.s` with the events `r.out`. `Receive` is one turn of `stream_response`'s
loop, `Eof` and `Break` the ways it ends, with the error event, the closing events
of `finish()` and the terminal frame in the order the code yields them. Texts
are counted in fragments.

`WireProtocols` is the yardstick: `ReadOpenAi`, `ReadAnthropic` and
`ReadResponses` say what a reader of the protocol puts together from a stream
and which breaches of its order it sees. The provider (`Allowed`) may send
whatever its own reader has no fault to find with, and errors and garbage at
any time; `sent` is what its reader has, `got` what the client has. A converter
that drops, mixes up, repeats or reorders anything makes the two differ. One
thing is asked of a provider that its reader would not notice: a `message_delta`
tells the input tokens of `message_start` or none, because the code takes the
input from `message_start` alone (`convert.rs` 1331-1343 and 1861-1874). For a
provider that corrects its input in `message_delta`, `ToldTheBill` and
`BilledAsReported` say nothing. Nor do they for one that tells output tokens and
then sends a `message_delta` without any, which a stream passed through takes for
zero (1333) and a converted one for no news (1862). `Counts`, by which an OpenAI
reader tells a usage object from an empty one, is the condition of the code
(`total > 0`): that zero reports are ignored is assumed, not checked.

### WholeAnswers

The same message takes two ways through the gateway: as a stream, or in one
piece (`chat.rs` 482-506). `Whole` is the answer the provider would have given in
one piece instead of the stream of `StreamConverter` (reasoning, text, calls or
blocks in their order, outcome, usage), `Returned` what `convert_response` makes
of it: `OaWhole`, `AnWhole`, `OarWhole` for the three converters, in a row for
the pair of Responses and Anthropic. `ExtractWhole` is what is charged.
`WholeAsStreamed` compares the two at the end of every stream that is complete.
Both converters go through an answer part by part, and so does the client
(`AnBlock`, `ReadPart`).

### Requests

The client composes a conversation message by message (`Add`), in the order of
its own protocol, in which each call is answered; `Converted` is what
`convert_request` forwards of it at any point. A text is the sequence of its
fragments, so that joining texts is concatenation and nothing can be lost or
exchanged unseen; a mark is a `cache_control` object, `sig` the text a
signature signs. `OpenAiToAnthropic` folds `PushBlocks` over the messages and
gathers the system prompt apart; `AnthropicToOpenAi` takes messages apart;
`ResponsesToOpenAi` goes item by item. `ReadBody` and `Turns` are the yardstick,
as `WireProtocols` is for streams: what a reader of the protocol takes to be
said, and by whom; `Answering`, `SignaturesFit` and `Alternates` are what a
provider refuses, and a `tool_choice` without any tool, which every protocol
refuses. `Answering` goes through a conversation step by step (`Took`): which
calls wait for results, and, for a Responses client, whether one of them was
answered already, after which it makes no further call until all are (a
reasoning item in between changes nothing).

### Startup

`db` is what is committed: version, tables, declared types (`decl`), how often
the amounts of each column were multiplied (`scale`), the foreign keys of
`request_logs`, rows with their keys and credentials, the price list. A
credential is the word it hides and how often, and under which secret, it was
sealed; a hash is the word it is of. `pc` is a place between two statements in the
order of the code (`After`), `mem` what an instance has read and not used yet:
`user_version`, the floating-point columns, the selected rows. `Start` is the
next statement: `ensure_column` for each column of a place, the statements of
`run_migrations` (`Statement`), the transactions `Convert` and `Rebuild`, each
after the look at the schema that decides on it, and `Pick`/`UpdateRow` for
whatever goes row by row. `Crash` kills one instance and keeps what is
committed, `PowerLoss` stops all of them and goes back to `synced`, the last
checkpoint; then `Open` runs again, under a secret chosen anew. `CreateProvider`,
`UpdateKey`, `UpdateAddress` and `EditPrices` are what administrators save;
`saved` remembers it. `Legacy` says which databases are found: what the
releases whose traces the migrations look for leave behind.

A column stands for the others that are added in the same place with no more to
it; `model_health`, `redemption_codes`, `channel_affinity` and indexes are left out
since no later statement looks at them. `ensure_column` is one step although it
looks before it alters: the loser of a race looks again and goes on
(`db/mod.rs` 370-386).

### Channels and Failover

A row of `providers` keeps: in service, healthy, consecutive failures, reason of
disabling, and whether the credential is accepted, refused or not decryptable.
`Choice` is `select_provider` for a lane (an API key and a model): the pin when
usable, otherwise the healthy channels among those not tried, otherwise the
others, and all of them again once every one was tried. Latency, error rate,
priority and weight decide only which of the candidates is drawn, so each may
be. `ApplyVerdict` is the blocking task of `record_request_result` and
`record_failure`; `WritePin` is `pin_channel`. `StartProbe`/`EndProbe` are a
health round or a manual test, which write by id what they measured of a
snapshot; `ModelTest`, `CreateProvider`, `UpdateProvider`, `DeleteProvider` are
the admin's. `Unused` and `Deleted` keep an id from being given out twice, as
UUIDs are not. A batch creation is a sequence of single ones, which nothing here
tells apart.

`Channels` says of forwarding only that somebody posts verdicts and pins, one
of each per attempt (`Forwarding`). `Failover` instantiates it and supplies the
poster: `Select` with `TakeUp` is one turn of the loop up to the request to the
upstream; `Fail`, `FailFast`, `Succeed`/`Settle` and `HandOver` are its
outcomes, `GiveUp` its end, `Expire` the overall deadline (chat only), `Vanish`
a client that goes. `Unread` is a turn whose query for the channels fails, which
the code takes for there being none (`selector.rs` 145-146); its calls end in the
place `unread`, because nobody can expect of them that they tried everyone. `Log`
is the posting of a log: a usable answer waits for it (`request_log_sync`), a
failure hands it to a detached task (`spawn_request_log`). The verdicts and pins of attempt `i` carry the identity
`<<call, i>>`; the deadline and the end of a stream have identities of their own.
That `Failover` implements `Channels` (`ChannelsSpec`) is what makes theorems
of `Channels` hold under real traffic. Kinds of calls: `chat`, `stream`, `pass`
(`passthrough.rs`: channels without the openai protocol are passed over, and
two refusals at the entry are not logged).

Answers are classes: `ok`, `fault` (transport, 408, 5xx, unusable body),
`limited` (429), `auth` (401/403), `client` (another 4xx), `rejected` (refused
at the entry), `unavailable` (no channel), `timeout` (the overall deadline). A
channel with a good credential is never answered `auth`, and one with a bad
credential never `ok`; that is what a credential is in this model.

### Ledger

Each action is one transaction of the writing connection. `entries[u]` is the
statement of a user, `logs` are the request logs, `daily` what a purge left of
them, `owed` the log writes that are still to come for calls under way.
`Admit` is `has_positive_balance` in its normal case, `AdmitBlind` its
fail-open case, whose users `OverdraftBounded` sets aside. `Settle` is
`insert_request_log`; `Forgo` a call that is never logged, or whose insert
failed (nothing is charged then). `MaxBills` is how many logs one call may
cause; section 6 explains when it is two. `Purge(lag)` is one transaction in
which the clock advances by `lag` seconds between its two statements; `lost` is
history, the usage that gets overdue in between and is deleted without having been
added up. Purging
counts by user and day of the log, as the SQL does; days are `DayLen` ticks.

### Accounts

A login goes `idle -> lookup -> verify -> done`, with the limiter's mutex before
`lookup`, the lock of the database in `LookUp`, the Argon2 run between `LookUp`
and its outcome. `LookUp` may read nobody although the user exists, because a
failing query reads as an unknown user (`auth.rs` 131). `Authorize` is the
middleware with `require_admin` for some administrator's call; `granted` counts
calls that passed it and are not applied yet, so any of them may take effect any
time later, whatever has become of its caller. `UpdateUser`, `DeleteUser`,
`CreateUsers` are those effects. `Restart` loses the windows and everything
under way, keeps the table and the tokens, and, when
`AIKUN_RESET_ADMIN_PASSWORD` is set, rekeys the user named "admin". The
first startup seeds that user and nothing deletes a row, so `Root` always
exists and the fallback branch of `reset_admin_password` (the oldest
administrator) is never taken. Without the variable, `Restart` is `ResetAdmin`
with no password given, which changes nothing. `Updated` treats a field that is
not given as unchanged.

Two assumptions. The queries inside `is_last_active_admin` succeed: on an error
the code takes the user for unprotected (`users.rs` 68-74). User names are
compared as they are: the limiter lowercases them, so that names which differ
in case share a window in the code.

## 3. The runs

Each run asks a question of its own. `pass` runs finish without an error;
`violation` runs check one sentence the repository says of itself and find it
broken (section 6). Deadlock is not checked anywhere: every instance has a
fixed number of calls, edits and clock ticks, and stops when they are used up.

| run | instance | distinct states | question |
|---|---|---|---|
| `keylimits` | 1 key, 3 calls, window 2 of 3 clock values, both limits in {0, 2}, quota 1 | 1 811 976 | do counter, cap and window stay exact while the owner moves or deletes them, and do slots come back? |
| `stream` | 1 stream, 2 chunks of up to 2 events, usage 0..2 | 8 918 | is a stream charged once, rightly, and always logged? |
| `failover_one` | 1 chat or passed-through call, 2 channels (one openai), 2 attempts, 1 edit, failing queries | 1 735 425 | who is tried, what is audited, what becomes of credentials? |
| `failover_live` | 1 call of any kind, 1 channel, 3 attempts, at most 2 per channel, 1 edit | 145 814 | does the loop end by itself, is what is in service sound and each failure backed, does forwarding implement `Channels`? |
| `ledger_books` | 2 users, 2 calls at a time, 1 code, 2 days of 2 ticks and a third begun, 2 logs, 2 statement lines, purges that take up to one tick | 944 045 | do the books balance? |
| `converter` | the 7 pairs of protocols, streams of up to 5 OpenAI, 8 Anthropic or 4 Responses events, 2 calls, token counts of at most 5 | 2 179 449 | is it the same message, in order, with one outcome, charged and told alike, streamed or not? |
| `requests` | the 7 pairs of protocols, converted conversations of up to 5 messages or items with 2 calls, other settings and unconverted ones up to 2 | 874 641 | does the provider read what the client said, in a form it accepts? |
| `startup` | 1 instance, 2 channels, 2 API keys, 2 secrets, 2 prices and the fallback, databases of every age, 1 crash or power loss, 1 edit | 1 386 266 | does a start converge, whatever it finds and wherever it is killed? |
| `accounts` | 2 users, 2 passwords, 1 address, 3 logins (2 at a time), 2 calls of administrators, 1 restart, window 2 of 3 clock values | 2 772 689 | sessions, last administrator, budgets |
| `stream_billedonce`, `failover_deadline`, `startup_twice` | the smallest instance with the counterexample | | section 6 |

**Why the bounds are enough to mean something.** Each is the smallest at which
the case the property is about occurs, with one to spare where that is cheap:

* Three calls against a cap or a window limit of two: two that are in and a
  third that must be kept out. A window of two ticks on a clock with three
  values: stamps that have left the window, are about to, and are fresh.
  Limits of 0 are in because 0 means unlimited, and a limit can move between the
  calls. A quota of one with calls that use one token is exhausted by the first
  call that ends; one quota value is enough because it is only compared.
* Streams do not interact except through the shutdown, so one is checked, and
  the theorems hold for any number. Two chunks of two events allow: usage that
  is published and then overtaken, an error frame before and after the last
  publication, a tail event, a chunk with no event.
* `EveryoneTried` needs two channels; `FailsBacked` and the cap of attempts need
  a call that comes back to a channel, and more attempts than the cap. Both at
  once would be far out of TLC's reach, which is why forwarding has two runs;
  `EveryoneTried` and `InServiceIsSound` are also proved for every size.
* In the ledger, a log of the first day becomes overdue while its day is purged
  in several rounds: `Retention` of one day, days of two ticks, five clock
  values. Two logs per instance give one purged and one kept; two statement
  lines are the least that `StatementReadable` relates. Adjustments are 2 and -1,
  so that a deduction can push a balance below zero.
* Three logins are one more than a budget of one and an overlap of two allow,
  so that the bound of `GuessesBounded` could be exceeded for the user; the address
  has a larger budget, whose bound three logins cannot exceed and only the theorem
  shows. Two calls of administrators are two who demote
  each other.
* Five OpenAI events: two calls, one resumed after the other, text, and an end;
  a chunk may carry text and something more. Eight Anthropic events: a start,
  two blocks with their deltas and stops, and the stop reason. Counts of at most
  5, so that inputs of 4 and cache writes of 1 or 2 saturate as at `i32::MAX`.

* Five messages: a system prompt, a turn that makes two calls, their two results
  and something after them. The settings that are not about calls (limits, tools,
  streams) do not depend on the messages, so two messages are enough for them, and
  for the bodies that are not converted at all, of which only the settings change.
* A start is sequential, so one crash shows every place it can be resumed from;
  the theorems hold for any number. Two channels and two keys are one row done
  and one not done when the crash comes, two secrets a key that can and one that
  cannot be read. The databases are: none at all, the first release, version 2
  with each mixture of floating-point, integer and missing money columns a repair
  by hand may leave, version 2 with credentials in clear, empty or sealed under
  either secret, and one newer than the program.

The bounds named `MaxNow`, `MaxFails`, `MaxEdits`, `MaxLogs`, `MaxEntries`,
`MaxCalls`, `MaxRestarts`, `MaxCrashes`, `MaxUse`, `MaxChunks`, `MaxEvents`,
`MaxMessages` exist for TLC
only; they appear as guards and the theorems hold for each of their values.
`MaxLogins` and `Calls`/`MaxBills` are more: they are the parallelism that
`GuessesBounded` and `OverdraftBounded` are stated in. Symmetry is used for sets
whose members the specification never tells apart, and in runs without
temporal properties, or with action properties only.

### What the properties say

*KeyLimits.* `SlotsCounted`: the counter of a key is the number of its live
guards. `CapRespected`: of the guarded calls, at most j were admitted under a
cap of at most j (the statement that survives a moving cap). `RpmRespected`: the
same for the window, for every interval of its length. `SlotsDrain`: the
counters return to zero. `SlotsSpec`: all of it implements `SlotPool`.

*StreamBilling.* `FailedStreamBilledOnce`, `UsageBilled`, `VerdictMatchesLog`,
`CompletedIsLogged`, `EveryStreamLogged`.

*StreamConverter.* `SameMessage` (text, reasoning, and each call with its own
arguments), `ClientOrder` (no breach of the client's protocol), `OneOutcome` (one
terminal frame or an error), `CutStaysCut` (an answer cut by its length or by a
filter is told as cut, with two exceptions for Anthropic clients, section 6),
`BilledAsReported` (the charge
depends on the provider's reports and not on the client's protocol),
`ToldTheBill`, and of `WholeAnswers`, `WholeAsStreamed`: message, outcome, charge
and told usage are those of the answer in one piece. Section 6 lists the streams
they leave out.

*Requests.* `SameConversation`: the provider reads the client's system prompt
and, turn by turn, the same content with its marks, reasoning, calls and results,
each in its order. `ProviderAccepts`: a conversation that keeps to the client's
protocol is forwarded as one that keeps to the provider's, but for three cases
it names (section 6).

*Startup.* `MoneyOnce`, `KeysKept`, `ServedIsWhole`, `ChoicesKept`,
`StartsInTheEnd`, as they are listed under the component in section 1.

*Channels, Failover.* `InServiceIsSound`, `FailsBacked` (counted failures are
backed by distinct calls that met a fault, except for the verdicts the code
posts without asking, of the deadline and of streams), `EveryoneTried` (of calls
that could read the channels), `AnswersAudited` (a log of its class is posted before
an answer; for failures that is not yet to be written), `CredentialsStayInside`,
`CallsAnswered`, `ChannelsSpec`.

*Ledger.* `BooksAccount` (the balance is what was recharged minus the usage of the
logs, of what purges left of them, and of what got overdue between the two statements
of a purge: section 6 tells what the repository promises), `TodayIsUnpurged`, `StatementReadable`,
`CodesBookedOnce` (a used code is in its user's statement, once and at its face
value, and nobody else's), `OverdraftBounded`.

*Accounts.* `AdminRemains`, `SessionsFollowPassword`, `GuessesBounded` (in no
window do more failures than the budget and the other logins under way go
unforgiven), `LockoutJustified`.

Each has a mutant in `PROJECT.json`: a definition with the mistake a plausible
bug would make (a guard dropped, an off-by-one, a stale read, a swapped
order), under which TLC finds the property violated. The operators for them stand
directly before the definitions they replace, and no specification uses them.

## 4. Fairness

* `KeyLimits`: weak fairness of `Serve(r)`. Every wait inside a call ends: the
  request to the upstream has a timeout, a stream an idle timeout, the loop a
  deadline, and a query is on the blocking pool. `SlotsDrain` needs nothing of
  clients, owners or the clock.
* `StreamBilling`: weak fairness of the generator and of the log writers. The
  upstream is finite (`MaxChunks`) and a silent one is timed out (`idle_timeout`,
  `chat.rs` 799), the client reads on or goes (a connection that does neither
  is closed by the transport), and tokio's blocking pool runs what it is given as
  long as the process runs. Nothing forces a shutdown.
* `Failover`: weak fairness of `Work(r)`, per call, for the same reasons.
  None for the deadline, so that `CallsAnswered` shows that the loop ends without
  it; none for clients, admin, probes or the recording of verdicts, and nothing asks
  a query to fail.
* `Startup`: weak fairness of `Start(i)`. A process that is down is started
  again (`restart: unless-stopped`, `docker-compose.yml` 12) and a start runs
  on; crashes, power losses and edits are bounded, checkpoints and edits are not
  asked for.
* `Accounts`, `Ledger` and `Requests` have safety properties only, and no fairness.

## 5. The proofs

`tlapm` proves every leaf of the eight proof modules. The theorems hold for all
values of the constants that satisfy the named assumptions, which are: finite
sets of calls (`KeyLimits`, `Accounts`), users (`Accounts`), calls under way
(`Ledger`) and channels (`Failover`); positive windows, thresholds,
budgets, parallelism, day length and retention; `NULL` and the other sentinels
outside the sets they are added to, and different from each other; in `Startup`, databases that are `Legacy`. TLC evaluates all of
them in the runs. The theorems of `StartupProofs` assume besides, each in its
statement, that there is one instance (`Sole`): for two, `startup_twice` refutes
the first of them.

| theorem | says |
|---|---|
| `KeyLimitsProofs!SlotAccounting` | types, and the counter is the number of guards |
| `KeyLimitsProofs!ConcurrencyCap` | `CapRespected` |
| `KeyLimitsProofs!SlotRefinement` | `KeyLimits` implements `SlotPool` |
| `KeyLimitsProofs!RpmLimit` | `RpmRespected` |
| `StreamBillingProofs!StreamTypes`, `GiveUpBilledOnce`, `FullUsageBilled`, `VerdictAgrees`, `CompletedLogged` | the safety properties of a stream |
| `FailoverProofs!ChannelTypes`, `InServiceSound` | of `Channels` alone: types and soundness under any poster |
| `FailoverProofs!ForwardingPosts` | `Failover` implements `Channels` |
| `FailoverProofs!InServiceSoundUnderTraffic` | the former two together |
| `FailoverProofs!EveryAnswerAudited` | `AnswersAudited` |
| `FailoverProofs!CredentialsKept` | `CredentialsStayInside` |
| `FailoverProofs!FailoverTypes` | types of forwarding |
| `FailoverProofs!FailingOverReaches` | `EveryoneTried` |
| `FailoverProofs!CountsAreBacked` | `FailsBacked` |
| `LedgerProofs!StatementsReadable`, `CodesAreBookedOnce`, `OverdraftsBounded` | statement, codes, overdrafts |
| `LedgerProofs!TodayStaysInLogs` | `TodayIsUnpurged` |
| `LedgerProofs!BooksReconcile` | `BooksAccount`, however long a purge takes |
| `AccountsProofs!AccountTypes`, `LastAdminStays`, `SessionsEnd`, `FailuresStayBounded`, `LockoutsAreEarned` | accounts |
| `StartupProofs!StartsInOrder` | what each place of a start may rely on |
| `StartupProofs!MoneyMovesOnce`, `NoKeyIsLost`, `OnlyWholeIsServed`, `ChoicesAreKept` | the safety properties of a start |
| `StreamConverterProofs!Invariant` | converter, sent message and received message stay coupled |
| `StreamConverterProofs!ClientGetsTheMessage`, `ClientIsInOrder`, `EndsOnce`, `CutIsTold` | `SameMessage`, `ClientOrder`, `OneOutcome`, `CutStaysCut` |
| `StreamConverterProofs!BillIsTheReport`, `BillIsTold` | `BilledAsReported`, `ToldTheBill` |
| `StreamConverterProofs!StreamedInvariant` | what was sent reads item by item as the message it is the stream of |
| `StreamConverterProofs!StreamingChangesNothing` | `WholeAsStreamed` |
| `RequestsProofs!ConversationKept` | `SameConversation` |
| `RequestsProofs!ConversationAccepted` | `ProviderAccepts` |

The arguments, in short:

* **Slots.** Types alone are not inductive: that a drop finds a positive count
  is what `SlotsCounted` says, and that a dropped guard belongs to a call with
  a key is what `Staged` says. `IInv` is types, `Staged` and `SlotsCounted`. The
  cap follows since an admission finds the count, hence the number of guards,
  below its cap, and later admissions only widen the sets of larger caps. The
  refinement maps `holders` to the guards of each key.
* **The RPM window.** `WindowInv`: for a key that exists, every call let through
  within the last window still has its stamp in the map. So the calls let
  through lately are no more than the stamps (`RecentCounted`, an injection), an
  admission finds them below its limit, and a window that ended earlier never
  gains a call.
* **Streams.** `Local(s)`: what is known at each place of the generator, above
  all that nothing is logged before a place that logs (`Fresh`), that an
  awaited log is queued or written (`AwaitedLog`), and that a stream given up has
  told its guard (`GivenUp`). A step of one stream leaves the others' facts
  alone, so the invariant is proved stream by stream; a shutdown only takes
  away.
* **Channels.** A row is sound when being in service implies being below the
  threshold with no reason of disabling. `JudgedSound` shows that the recording
  of any verdict keeps a row sound, whichever verdict comes when; edits and
  tests by cases.
* **Forwarding.** What has to be shown is that an attempt never posts under an
  identity that is still under way: verdicts and pins carry attempt numbers no
  greater than the loop variable, and the two special ones only once the call is
  over (`Young`). Every action is then a posting, a step of `Channels`, or a
  stutter.
* **Reaching everyone.** `Reach(r)`: either every channel in service since the
  call arrived was tried, or as many different channels were tried as turns were
  taken, because a selection that is not forced to start over picks one not tried
  yet. A call that gives up has used as many turns as there are channels, or
  found none in service.
* **Audit.** `AuditOK(r)`: the log of an error a call remembers as its last one is
  posted already, so is that of the success of a call about to settle, and only calls that are
  over, or streams under way, have an answer. What `GiveUp` and `Expire` answer is
  then something whose log is posted.
* **Credentials.** A refusal is posted where a credential was sent, so its channel
  is `Taken`: its row was made, and is not one this process cannot decrypt. No
  edit takes that back, since an undecryptable credential is only ever kept, never
  entered. So a refusal under way disables no undecryptable row, whenever it is
  recorded.
* **Failures backed.** For each channel, the failures on record plus the counting
  verdicts under way never exceed the calls blamed plus the verdicts posted
  without asking (`Backed`). A posting raises both sides, a recording moves one
  from the verdicts to the record, and anything else lowers the left. That a call
  raises the right side when it posts is what `Asks` says: `counted` keeps every
  channel a call that is not over was blamed at.
* **Ledger.** `Backed`: a user admitted on positive balances only is above the
  negative of what their calls under way may still cost. Admission makes room
  for all the bills of a call at once; a settled bill turns its share of the
  room into a deduction.
* **The books.** `BooksAccount` needs sums over logs, lines and days. `Total` is a fold
  of the community modules, a recursive function underneath. That it exists and
  equals the recursion is proved first (`SumExists`, `TotalIsSum`), then that any
  element can be taken out first (`SigmaTake`), that disjoint sets add up
  (`SigmaSplit`) and what one changed value does (`SigmaChange`). The induction is
  done by hand, on a smallest counterexample (`MinimalSet`), which
  needs no operator for a parameter. Then a settled log adds its cost to the
  usage of its user and day, a line adds its amount, and a purge takes from the
  logs of a day what it adds to `usage_daily` and to `lost`: the logs overdue at its
  second statement are those overdue at its first and those that became so since. That today is unpurged rests on
  `DaysInOrder`: a log older than the retention period is of an earlier day
  (`OverdueIsPast`).
* **Accounts.** `OthersRemain`: with an active administrator and `u` not the last
  one, a change of `u`'s row alone leaves another. `SessionInv`: a version that
  somebody read, with the password it was read with, is never ahead of the row,
  and as long as it is current so is the password (`Follows`); versions only
  grow and only with the password (`RowsFollow`). The budgets rest on the
  *load* of a key: its failures of the last window and the logins under way
  that may become failures. A failure moves a login from one part to the other,
  the clock and everything else only take away, and an admission adds one login
  when the failures are below the budget (`AdmissionLoad`); so failures never
  exceed the load's bound, and a window that ended earlier never gains
  (`StepGuesses`). `Booked` ties the stamps to the history.
* **Startup.** `Sound(d)`: a database is consistent, with the units, rows, version
  and prices that fit each other, wherever the start that made it was killed. It
  holds of what is committed and of what was synced at every place. On top, `IInv`
  says for each place what the statements before it have achieved, and that what
  the instance remembers is what the database holds: nobody else writes between
  the look and the statement that depends on it, which is where `Sole` is needed. A
  crash or a power loss falls back to `Sound`, and each property is read off the
  place.

* **Streams between protocols.** The six properties compare two messages that the
  converter has never seen whole, so the inductive invariant says how its state
  ties them together, once per converter, for streams of any length, any number
  of calls and any numbering:
  * `CoupledOa`: the block the converter has open is the one the client has open
    (`Blocks`), block numbers are dense, every call of the provider has one
    block of its own, and the call that grew last is in the open one unless the
    provider went on with another (`OaTools`, `mixed`); the stop reason is the
    latest one, translated (`OaStop`).
  * `CoupledAn`: call blocks map to dense call indices with the same ids
    (`AnCalls`), the usage is the saturated sum of what was reported (`AnSums`),
    and reason and usage reach the client together, once (`AnTold`).
  * `CoupledOar`: every item of the client is the text or one call, no two are
    the same, and each has the content the converter will close it with
    (`OarItems`). That the closing events close every item with its content, and
    that the completed answer lists them in order, is the work of
    `OarClosingIs` and `OarOutputIs`: a sort by distinct indices of a dense range
    is the range itself (`Ranks`, `InOrderIs`, `RowInOrder`).
  * From Anthropic to Responses the two halves are joined by the message a reader
    between them would have (`CoupledChain`), which no variable holds: the
    invariant says that there is one. A stream that goes through unconverted is
    compared with a converter that is not there in the same way (`PassAn`,
    `PassOa`).

  Each event is then one lemma per converter (`OaStep`, `AnStep`, `OarStep`), each
  end another (`OaEof`, `OaBreak`, `OarEof`, `OarBreak`, `AnCloses`, `AnBreak`,
  `NothingSent`). An event makes the converter fold over pieces and the client
  fold over what comes of them. `FoldLeft` takes an operator, which no lemma can
  range over, so the folds the model uses are told apart by a name (`Fold`,
  `Do`); that their recursive functions exist, and what they make of an empty
  sequence, of one more element and of two sequences in a row, is proved once
  for all of them, by a smallest counterexample (`FoldExists`, `FoldAppend`,
  `FoldConcat`). After the end nothing happens any more, so the invariant turns
  from the coupling to the properties themselves (`Kept5`, `Billed`).
* **Whole answers.** `WholeAsStreamed` compares a message gathered event by event
  with one gathered item by item. The invariant above does not say that the two
  are the same for the provider itself, so it is strengthened (`Streamed`): what
  an OpenAI provider streamed has one index for each call, with the size of that
  call (`Accounted`); what an Anthropic provider streamed are blocks numbered
  from 0, only the last of them open, which read one by one are the message
  (`InBlocks`); and a stream that went through leaves the totals of `finalize`
  (`Exact`). The converters of whole answers are folds over those items:
  `OaWholeReads`, `AnWholeReads`, `OarWholeReads` say what a client reads in what
  they make. They rest on what the parts of an answer come to when blocks of one
  kind are joined and calls are put side by side (`BlocksJoin`, `ToolsRead`), on
  the sort of the items by their indices (`ListedRow`, `ListedCalls`) and on
  `CountedAlike`, by which counts added before and after clamping agree while
  their total is no more than `MaxTok`. That condition (`Clamped`) was found by
  the proof: without it a whole answer tells a total that a stream would clamp.
* **Requests.** Both properties compare what two readers make of a whole
  conversation, so the invariant says it of what was said so far, and a step adds
  one message to everything at once. The folds and the joined sequences of the
  model are told apart by names (`Fold`, `Flat` over `Make`); that they exist and
  take one element more is proved once for all of them.
  * `Held`, for `SameConversation`: `Faithful` (from OpenAI to Anthropic, the turns
    and the prompt are read alike), `Retold` (from Anthropic to OpenAI, message by
    message in any turn it may continue, `Retells`), `Carried` (the items of a
    Responses client are read as the messages made of them, which are `Faithful` on
    their way to Anthropic). That results may be moved before the text of
    their message and still be read alike is because a turn keeps contents,
    reasoning, calls and results apart (`Tell`).
  * `Kempt`, for `ProviderAccepts`, which is not inductive: a conversation with
    calls still open is refused, and grows out of one that is not. The
    strengthening speaks of conversations that are *not finished*: `Ordered` and
    `Relayed` say that the turns made so far are in order with exactly the calls open
    that the client left open (`Proper`), `Backed` that the messages made of
    an Anthropic conversation are in order as long as the last user message left
    no result out, after which nothing more is said. `Pushes` is the one
    condition under which blocks may be added to turns (`MessagePushed`); the
    results of one message are answered one after the other because they are of
    different calls (`Apiece`). The exceptions of `ProviderAccepts` come up as the
    cases in which a step does not go through: calls `Beside` each other, reasoning
    `HalfSaid`.

  Three things had to be corrected in `Requests` on the way, none of which the run
  had shown. The first two made `ProviderAccepts` false outside its bounds: a
  reasoning item between two results made the model's client forget that it was
  answering, so that it made calls too early; and a `tool_choice` without tools was a
  fault in front of OpenAI providers only, so that the conversion was blamed for what
  an Anthropic client must not send either. The third was a gap: no client sent a
  single signed thought, and the ordinary way of a signature was never taken.

**Only model-checked:** the liveness properties (`SlotsDrain`,
`EveryStreamLogged`, `CallsAnswered`, `StartsInTheEnd`), which are outside what the
prover does. Every safety property of a passing run is proved, those of `Startup`
under the hypothesis named above.

## 6. Where the code disagrees with what is said of it

Each of the first three is a run that ends in a counterexample, and an entry under
`findings` with the sentence it contradicts.

1. **A completed stream can be charged twice** (`stream_billedonce`).
   `chat.rs` 971 and 984 await the log with the abort guard still armed. A client
   that goes during that await drops the generator: the awaited insert goes
   through on the blocking pool, and the guard writes and charges a 499. The
   comment at 903-904 describes this very mistake and avoids it on the other
   path; `FailedStreamBilledOnce` shows that path to be right. It is also why a
   call may owe two log writes in `Ledger` (`MaxBills`).
2. **The deadline can report a channel that just succeeded**
   (`failover_deadline`). The overall timeout also covers the await of the log
   of a usable answer (187-211).
3. **Two instances that start side by side can multiply all amounts twice**
   (`startup_twice`). `migrate_currency_micro` decides on the declared types it
   reads at `db/mod.rs` 587-603, and its transaction begins at 611; the second
   instance waits for the first and then converts what is converted already. The
   comment before it promises that this cannot happen (585-586), and starting
   several instances on one file is provided for (370).

A fourth is checked in part. **A purge can delete usage it has not added up.** Each of
its two statements computes its cutoff (`health.rs` 108 and 119), and SQLite fixes
'now' per statement: a log that is exactly as old as the
retention period is left out by the first statement; a second later the second
statement deletes it; the balance was lowered by it, and no table tells by what any
more. The comment at 91-92 (what is to be deleted is aggregated first, so that the
balance can be reconciled for good) and `README.md` 188 promise otherwise.
`Reconciled` is that promise, and `INVARIANT Reconciled` in `Ledger_books.cfg` is
violated at once. The run checks what is true instead, with purges that pass such a
boundary: `BooksAccount`, that no other usage goes missing and none is counted twice.

Smaller ones, not kept as runs. Two of them take a few lines of
configuration:

* a shutdown that breaks the loop before the first event is booked as a failure
  of the provider, in the branch for empty upstream streams (`chat.rs` 943, meant
  for an EOF by the comment at 941-942): `INVARIANT ShutdownBlamesNobody` on the
  instance of `stream`;
* the built-in prices are inserted one by one without a transaction
  (`billing.rs` 150-165), and only into an empty table: a crash in between leaves
  part of them for good, without the `*` that every other model is charged by
  (115-119; `db/mod.rs` 44). `INVARIANT ServedWithPrices` of `Startup`, with
  `Databases <- FreshDatabase` and no edits.

In the start of a process:

* a sealed key that the present secret cannot read is hashed as the empty
  string, and all such channels take each other for duplicates, which the skip of
  empty keys is there to avoid (`db/mod.rs` 151-153). `KeysKept` allows that hash;
* the rename of `base_url` (393-407) looks before it alters and, unlike
  `ensure_column`, fails the start of an instance that comes second; `user_version`
  is read once (428) for gates that a second instance may have passed since.

In the conversion of requests, each an exception of `ProviderAccepts` or left
out of the model:

* calls a Responses client makes side by side become one assistant message each,
  so that an OpenAI provider sees calls that are not answered (`convert.rs`
  159-178), although tool calls are promised (`README.md` 17);
* a `tool_choice` is passed on when all tools it could choose from were dropped
  as built-in ones;
* of several thoughts of which one is signed, the texts are joined and get that
  signature, against the comment at 747;
* cache marks of assistant texts, tool results and tools are lost, against
  `README.md` 174; images inside tool results are dropped.

In the conversion of whole answers, the exceptions of `WholeAsStreamed`: an
Anthropic client is told the input with the cached tokens in a whole answer and
without them in a stream; arguments that a cut answer ends in become `{}`; a
`cache_creation` that Anthropic repeats in its last report is added again when
streaming; and a total beyond `i32::MAX`, given by Anthropic's parts or by an OpenAI
usage object without a total, is told as it is in a whole answer (`convert.rs` 892,
912), where a stream clamps it. Not generated: a usage object whose total is given
as zero and whose parts are not, which a stream ignores (`convert.rs` 1282) and a whole
answer is logged with.

In the conversion of
streams, where each is the exception a property names (without it TLC shows the
stream):

* an upstream that breaks after its own end (`[DONE]`, then a stall) ends the
  client's stream a second time: the check for a terminal frame looks at
  `finish()` only, not at what was sent before (`chat.rs` 919-926), although it
  is there to spare clients a double end (914-915); such a stream is also booked
  as failed (`OneOutcome`);
* a call resumed after something else is sent into an Anthropic block that is
  closed already, against the order named at `convert.rs` 1642-1643
  (`ClientOrder`);
* a stream of events none of which is a chunk (`[DONE]` alone) gives Anthropic and
  Responses clients nothing at all and counts as a success, since `events`
  (943) counts raw events (`OneOutcome`);
* an empty `finish_reason` after `length` makes a cut answer complete for
  Anthropic clients (1594), while the Responses side ignores it (2021)
  (`CutStaysCut`);
* an answer cut by a filter (`content_filter`) ends in `end_turn` for Anthropic
  clients, streamed or not, as `openai_finish_to_anthropic` decides for every reason
  it has no counterpart for (801-806; its comment at 805 names this one), although
  the Responses converter of the same file reports it incomplete so that it is not
  taken for complete (2236-2237) (`CutStaysCut`);
* a stream from Anthropic to a Responses client that is cut before its stop
  reason is charged nothing, to any other client its input: `usage()` of the
  chain is that of the second converter (1419) (`BilledAsReported`).

Elsewhere: a verdict is applied by channel id when its task runs
(`selector.rs` 356), so a 401 met with the old credential can disable the
channel that got a good one meanwhile; the window of a deleted key can
come back as a dead entry (`auth.rs` 483-488 against a call past its
`ReadLimits`); an idle key's window is never cleared although `chat.rs` 306-307
says it is, since only the own window is pruned; the abort guard charges the usage
published after the last chunk, not the last event (873); a channel at its cap
of attempts can be selected again and then skipped, which uses up an attempt
(421); `passthrough.rs` gives up on the model's channels that do not speak the
protocol one attempt at a time (181), so that a 503 is possible while a capable
channel exists; `passthrough.rs` answers two refusals without a log (50-73);
`AIKUN_RESET_ADMIN_PASSWORD` rekeys the user named "admin" also when that user
was demoted or disabled (`db/mod.rs` 809), in which case the escape hatch gives no
administrator back.

## 7. What is not modelled

* **Redemption limiter** (`redemption.rs` 47-70): the login limiter with one
  key. Planned.
* **The pricing of a call** (`billing.rs` 27-107): `find_price` and `compute_cost`
  are pure. `Ledger` charges any amount. Planned.
* **SSE parsing** (`proxy/convert.rs` 1105-1181): `SseParser`. Planned.
* **Within the conversions**: ids, names, the model rewritten for the client,
  sampling parameters, the shapes of tools, encodings of images, several choices
  in one chunk, bodies that do not have the shape of their protocol.
* **Within a start**: tables and columns no later statement looks at, indexes,
  and the seeded administrator, who is in `Accounts`.
* **Model tests as a job** (`model_test.rs`): its round and concurrency limit;
  the effect on a channel is in `Channels`.
* **Power failure while serving**: the database runs with `synchronous=NORMAL`,
  so the last transactions may be lost. `Startup` models that for a start and the
  edits around it. The other modules leave it out: their database would be in an
  earlier state of the same run, and all properties of the ledger are about its
  tables, which a transaction changes together.
* **A failing query of the pin** (`selector.rs` 149-150): the call is routed as if
  nothing were pinned. A failing query for the channels is `Unread`.
* **Daily quota**: calls that read today's usage before any of them is logged all
  pass (`chat.rs` 292). `KeyLimits` has it, and the code promises no bound.
* **Amounts near the limit of 64 bits** (`admin/billing.rs` 374): `Ledger` works
  with unbounded integers.
* **HTTP client, configuration, list handlers, log queries,
  frontend**: I/O, formatting and read-only queries. What they can answer is an
  input of the models.
* **Token expiry**: a token may go unused in the model, so expiry adds no
  behaviour to the safety properties.
* **Supervisors** (`main.rs` 216-258): restart a loop that panics; the models let
  any round start at any time.

## 8. Plan

Done: limits, streams and their conversion, requests and whole answers, channels
and forwarding, money, accounts, the start on a database, with the theorems
above. What is left, in this order:

1. `PriceMatch`: exact, longest wildcard, `*`; cost in micro-yuan with its
   rounding and 64-bit width, against a reference definition over all small
   price tables.
2. `SseParser`: events cut from a byte buffer do not depend on how the upstream's
   chunks cut it.
3. The redemption limiter next to the login limiter, with one counter module
   for both.
4. `ModelTests`: the round, its semaphore and what it stores, composed with
   `Channels`.

To check: `tlc -config <run>.cfg <MC module>` for each run of `PROJECT.json`, and
`tlapm <Proofs module>` for the proofs.
