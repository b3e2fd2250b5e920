--------------------------- MODULE StreamConverter ----------------------------
(***************************************************************************)
(* StreamConverter of proxy/convert.rs: one streamed answer, event by       *)
(* event, from the protocol of the provider to that of the client, and the  *)
(* ends stream_response (api/proxy/chat.rs) gives it: the upstream closes,   *)
(* or it breaks (a stall, a lost connection, an overlong event).            *)
(*                                                                         *)
(* "sent" and "got" are the messages the provider and the client have on    *)
(* their sides of the gateway, as WireProtocols reads them; the converter   *)
(* knows neither.                                                          *)
(***************************************************************************)
EXTENDS WireProtocols

CONSTANTS
  MaxTok,         \* i32::MAX: token counts are clamped and saturate here
  MaxEvents,      \* bound on the events of a stream, per protocol of the provider
  ToolIx,         \* the indices an OpenAI provider numbers its calls with
  Reports,        \* the usage objects a provider reports
  AnStarts,       \* the usage of an Anthropic message_start
  AnDeltas        \* the usage of an Anthropic message_delta

ASSUME ConverterAssumption ==
  /\ MaxTok \in Nat /\ ToolIx \subseteq Nat
  /\ MaxEvents \in [{"openai", "anthropic", "responses"} -> Nat]
  /\ Reports \subseteq [prompt : 0..MaxTok, cached : 0..MaxTok,
                        completion : 0..MaxTok, total : {Nothing} \cup 0..MaxTok]
  /\ AnStarts \subseteq [in : 0..MaxTok, cc : 0..MaxTok, cr : 0..MaxTok, out : 0..MaxTok]
  /\ LET given == {Nothing} \cup 0..MaxTok
     IN AnDeltas \subseteq [in : given, cc : given, cr : given, out : given]

VARIABLES
  client, provider,  \* the protocols of the two sides
  strip,             \* strip_usage_chunk: the client did not ask for usage
  conv,              \* the state of the converter
  events,            \* events received (stream_response's counter)
  how,               \* how the stream ended: "open", "eof" or "broken"
  sent, got          \* what was sent by the provider, what the client got

vars == <<client, provider, strip, conv, events, how, sent, got>>

-----------------------------------------------------------------------------
(***************************************************************************)
(* Token counts.                                                           *)
(***************************************************************************)
Sat(n) == IF n > MaxTok THEN MaxTok ELSE n
NoUsage == [unc |-> 0, out |-> 0, total |-> 0, cached |-> 0]

\* extract_usage_any of a usage object that counts the cached tokens among
\* the prompt's; a total that is not given is that of the parts.
Extract(r) ==
  [unc |-> IF r.prompt > r.cached THEN r.prompt - r.cached ELSE 0,
   out |-> r.completion, cached |-> r.cached,
   total |-> IF r.total = Nothing THEN Sat(r.prompt + r.completion) ELSE r.total]

\* Told without the cached tokens: the prompt of the client's protocol has them.
ReportUncached(u) == [prompt |-> u.unc, cached |-> u.cached,
                      completion |-> u.out, total |-> u.total]

\* The way back: the usage object a client is told.
Report(u) == [prompt |-> Sat(u.unc + u.cached), cached |-> u.cached,
              completion |-> u.out, total |-> u.total]

\* Every chunk replaces the usage, one without a report too.
CaptureAny(u, r) == Extract(r)

\* A report replaces the usage unless its total is zero.
Capture(u, r) == IF Extract(r).total > 0 THEN Extract(r) ELSE u

Total(u) == [u EXCEPT !.total = Sat(Sat(u.unc + u.out) + u.cached)]
Or0(n) == IF n = Nothing THEN 0 ELSE n

\* message_start and message_delta of an Anthropic provider.  keep tells
\* whether a message_delta without output_tokens leaves the count alone.
AnStart(u, use) == Total([u EXCEPT !.unc = Sat(use.in + use.cc), !.cached = use.cr])
AnDelta(u, use, keep) ==
  Total([u EXCEPT !.out = IF keep THEN Given(use.out, @) ELSE Or0(use.out),
                  !.cached = Given(use.cr, @),
                  !.unc = Sat(@ + Or0(use.cc))])

-----------------------------------------------------------------------------
(***************************************************************************)
(* OpenAI chunks -> Anthropic events (OaStreamState).  A result r is the    *)
(* state r.s and the events r.out emitted so far.                          *)
(***************************************************************************)
BlockKinds == <<"think", "text", "tool">>   \* in the order they are closed

OaNew ==
  [started |-> FALSE, finished |-> FALSE, next |-> 0,
   blk |-> [k \in ToSet(BlockKinds) |-> Nothing],  \* thinking_block, text_block, open_tool_block
   tools |-> <<>>, stop |-> "none", usage |-> NoUsage]

Emit(r, ev) == [r EXCEPT !.out = Append(@, ev)]
Says(s, out) == [s |-> s, out |-> out]

OaCloseOne(r, k) ==
  IF r.s.blk[k] = Nothing THEN r
  ELSE Emit([r EXCEPT !.s.blk[k] = Nothing], [e |-> "block_stop", i |-> r.s.blk[k]])

\* Leaving the block of a call open.
OaCloseContent(r) == FoldLeft(OaCloseOne, r, <<"think", "text">>)

OaCloseOpen(r) == FoldLeft(OaCloseOne, r, BlockKinds)

\* close_open_block, then the next block.
OaOpen(r, kind, id) ==
  LET c == OaCloseOpen(r)
  IN Emit([c EXCEPT !.s.next = @ + 1, !.s.blk[kind] = c.s.next],
          [e |-> "block_start", i |-> c.s.next, type |-> kind, id |-> id])

OaDelta(r, i, kind, f) ==
  IF f = 0 THEN r
  ELSE Emit(r, [e |-> "block_delta", i |-> i, type |-> kind, f |-> f])

\* ensure_thinking_block, ensure_text_block.
OaEnsure(r, kind) == IF r.s.blk[kind] # Nothing THEN r ELSE OaOpen(r, kind, NoCall)

OaContent(r, p) ==
  IF p.f = 0 THEN r
  ELSE LET o == OaEnsure(r, p.p) IN OaDelta(o, o.s.blk[p.p], p.p, p.f)

\* Arguments sent to the call opened last, whichever they belong to.
OaToolLatest(r, p) ==
  LET o == IF p.i \in DOMAIN r.s.tools THEN r
           ELSE [OaOpen(r, "tool", p.id) EXCEPT !.s.tools = With(@, p.i, r.s.next)]
  IN OaDelta(o, o.s.blk["tool"], "tool", p.f)

OaTool(r, p) ==
  LET o == IF p.i \in DOMAIN r.s.tools THEN r
           ELSE [OaOpen(r, "tool", p.id) EXCEPT !.s.tools = With(@, p.i, r.s.next)]
  IN OaDelta(o, o.s.tools[p.i], "tool", p.f)

\* openai_finish_to_anthropic
FinishToStop(why) ==
  CASE why = "length" -> "max_tokens" [] why = "tool_calls" -> "tool_use"
    [] OTHER -> "end_turn"

OaPiece(r, p) ==
  CASE p.p \in {"text", "think"} -> OaContent(r, p)
    [] p.p = "tool"   -> OaTool(r, p)
    [] p.p = "finish" -> [r EXCEPT !.s.stop = FinishToStop(p.why)]

AnUse(in, out) == [in |-> in, out |-> out, cr |-> Nothing, cc |-> Nothing]

\* Not one-shot: [DONE] and the end of the stream would both close it.
OaFinalizeAgain(s) ==
  IF ~s.started THEN Says(s, <<>>)
  ELSE LET c == OaCloseOpen(Says([s EXCEPT !.finished = TRUE, !.tools = <<>>], <<>>))
       IN [c EXCEPT !.out = @ \o
             <<[e |-> "message_delta", use |-> AnUse(s.usage.unc, s.usage.out),
                stop |-> IF s.stop = "none" THEN "end_turn" ELSE s.stop],
               [e |-> "message_stop"]>>]

OaFinalize(s) ==
  IF s.finished \/ ~s.started THEN Says(s, <<>>)
  ELSE LET c == OaCloseOpen(Says([s EXCEPT !.finished = TRUE, !.tools = <<>>], <<>>))
       IN [c EXCEPT !.out = @ \o
             <<[e |-> "message_delta", use |-> AnUse(s.usage.unc, s.usage.out),
                stop |-> IF s.stop = "none" THEN "end_turn" ELSE s.stop],
               [e |-> "message_stop"]>>]

OaStart(s) ==
  IF s.started THEN Says(s, <<>>)
  ELSE Says([s EXCEPT !.started = TRUE],
            <<[e |-> "message_start",
               use |-> [in |-> s.usage.unc, out |-> 0, cr |-> 0, cc |-> 0]]>>)

OaPush(s, ev) ==
  CASE s.finished      -> Says(s, <<>>)
    [] ~s.finished /\ ev.e = "[DONE]" -> OaFinalize(s)
    [] ~s.finished /\ ev.e = "error"  -> Says([s EXCEPT !.finished = TRUE], <<Error>>)
    [] ~s.finished /\ ev.e = "chunk"  ->
         FoldLeft(OaPiece, [OaStart(s) EXCEPT !.s.usage = Capture(@, ev.use)], ev.pieces)
    [] OTHER -> Says(s, <<>>)

-----------------------------------------------------------------------------
(***************************************************************************)
(* Anthropic events -> OpenAI chunks (AnStreamState).                      *)
(***************************************************************************)
AnNew == [finished |-> FALSE, tcs |-> <<>>, next |-> 0, usage |-> NoUsage]

AnChunk(p) == <<OpenAiChunk(NoReport, p)>>
AnTool(i, id, f) == AnChunk(<<[p |-> "tool", i |-> i, id |-> id, f |-> f]>>)

\* anthropic_stop_to_openai
StopToFinish(stop) ==
  CASE stop = "max_tokens" -> "length" [] stop = "tool_use" -> "tool_calls"
    [] OTHER -> "stop"

\* A call the converter has not seen begin is taken for the first.
AnCall(s, i) == IF i \in DOMAIN s.tcs THEN s.tcs[i] ELSE 0

AnBlockDelta(s, ev) ==
  CASE ev.type = "tool" -> AnTool(AnCall(s, ev.i), NoCall, ev.f)
    [] ev.type \in {"text", "think"} /\ ev.f > 0 -> AnChunk(<<[p |-> ev.type, f |-> ev.f]>>)
    [] OTHER -> <<>>

AnMessageDelta(s, ev) ==
  LET u == AnDelta(s.usage, ev.use, TRUE)
  IN Says([s EXCEPT !.usage = u],
          IF ev.stop = "none" THEN <<>>
          ELSE <<OpenAiChunk(Report(u), <<[p |-> "finish", why |-> StopToFinish(ev.stop)]>>)>>)

AnPush(s, ev) ==
  CASE s.finished -> Says(s, <<>>)
    [] ~s.finished /\ ev.e = "error" -> Says([s EXCEPT !.finished = TRUE], <<Error>>)
    [] ~s.finished /\ ev.e = "message_start" ->
         Says([s EXCEPT !.usage = AnStart(@, ev.use)], AnChunk(<<>>))
    [] ~s.finished /\ ev.e = "block_start" /\ ev.type = "tool" ->
         Says([s EXCEPT !.next = @ + 1, !.tcs = With(@, ev.i, s.next)],
              AnTool(s.next, ev.id, 0))
    [] ~s.finished /\ ev.e = "block_delta"   -> Says(s, AnBlockDelta(s, ev))
    [] ~s.finished /\ ev.e = "message_delta" -> AnMessageDelta(s, ev)
    [] OTHER -> Says(s, <<>>)

-----------------------------------------------------------------------------
(***************************************************************************)
(* OpenAI chunks -> Responses events (OarStreamState).  An item is the      *)
(* text or one call.  item_added and item_done stand for the pairs and      *)
(* triples of events that open and close an item (output_item.added and     *)
(* content_part.added; *.done, content_part.done and output_item.done).     *)
(***************************************************************************)
OarNew ==
  [started |-> FALSE, finished |-> FALSE, textIx |-> Nothing, text |-> 0,
   tools |-> <<>>,     \* index of the provider -> [i, id, size]
   next |-> 0, usage |-> NoUsage, finish |-> ""]

OarText(r, p) ==
  IF p.f = 0 THEN r
  ELSE LET n == r.s.next
           o == IF r.s.textIx # Nothing THEN r
                ELSE Emit([r EXCEPT !.s.textIx = n, !.s.next = n + 1],
                          [e |-> "item_added", i |-> n, type |-> "text", id |-> NoCall])
       IN Emit([o EXCEPT !.s.text = @ + p.f],
               [e |-> "item_delta", i |-> o.s.textIx, type |-> "text", f |-> p.f])

OarTool(r, p) ==
  LET n == r.s.next
      o == IF p.i \in DOMAIN r.s.tools THEN r
           ELSE Emit([r EXCEPT !.s.next = n + 1,
                               !.s.tools = With(@, p.i, [i |-> n, id |-> p.id, size |-> 0])],
                     [e |-> "item_added", i |-> n, type |-> "tool", id |-> p.id])
  IN IF p.f = 0 THEN o
     ELSE Emit([o EXCEPT !.s.tools[p.i].size = @ + p.f],
               [e |-> "item_delta", i |-> o.s.tools[p.i].i, type |-> "tool", f |-> p.f])

\* An empty finish_reason forgets the one before.
OarPieceBlank(r, p) ==
  CASE p.p = "text" -> OarText(r, p)
    [] p.p = "tool" -> OarTool(r, p)
    [] p.p = "finish" -> [r EXCEPT !.s.finish = p.why]
    [] OTHER -> r

OarPiece(r, p) ==
  CASE p.p = "text" -> OarText(r, p)
    [] p.p = "tool" -> OarTool(r, p)
    [] p.p = "finish" /\ p.why # "" -> [r EXCEPT !.s.finish = p.why]
    [] OTHER -> r

\* sort_by_key: by output_index, which no two of S share.
InOrder(S) ==
  [k \in 1..Cardinality(S) |-> CHOOSE x \in S : Cardinality({y \in S : y.i < x.i}) = k - 1]

OarTextItem(s) == [type |-> "text", id |-> NoCall, size |-> s.text]
OarCallsInOrder(s) == InOrder({s.tools[t] : t \in DOMAIN s.tools})
OarCallItem(t) == [type |-> "tool", id |-> t.id, size |-> t.size]

\* Closing starts with the text, whatever its index, and goes on with the
\* calls by theirs.
OarClosing(s) ==
  (IF s.textIx = Nothing THEN <<>>
   ELSE <<[e |-> "item_done", i |-> s.textIx, item |-> OarTextItem(s)]>>)
  \o [k \in 1..Len(OarCallsInOrder(s)) |->
        LET t == OarCallsInOrder(s)[k]
        IN [e |-> "item_done", i |-> t.i, item |-> OarCallItem(t)]]

\* completed_output
OarOutput(s) ==
  LET items == {[i |-> c.i, item |-> c.item] : c \in ToSet(OarClosing(s))}
      byIx  == InOrder(items)
  IN [k \in 1..Len(byIx) |-> byIx[k].item]

\* A filtered answer taken for a complete one.
OarVerdictLength(s) == IF s.finish = "length" THEN "incomplete" ELSE "completed"

\* openai_finish_to_incomplete_reason
OarVerdict(s) ==
  IF s.finish \in {"length", "content_filter"} THEN "incomplete" ELSE "completed"

OarFinalize(s) ==
  IF s.finished \/ ~s.started THEN Says(s, <<>>)
  ELSE Says([s EXCEPT !.finished = TRUE],
            Append(OarClosing(s), [e |-> OarVerdict(s), output |-> OarOutput(s),
                                   use |-> Report(s.usage)]))

OarStart(s) ==
  IF s.started THEN Says(s, <<>>)
  ELSE Says([s EXCEPT !.started = TRUE], <<[e |-> "created"], [e |-> "in_progress"]>>)

OarPush(s, ev) ==
  CASE s.finished -> Says(s, <<>>)
    [] ~s.finished /\ ev.e = "[DONE]" -> OarFinalize(s)
    [] ~s.finished /\ ev.e = "error"  -> Says([s EXCEPT !.finished = TRUE], <<Error>>)
    [] ~s.finished /\ ev.e = "chunk"  ->
         FoldLeft(OarPiece, [OarStart(s) EXCEPT !.s.usage = Capture(@, ev.use)], ev.pieces)
    [] OTHER -> Says(s, <<>>)

-----------------------------------------------------------------------------
(***************************************************************************)
(* StreamConverter: the seven pairs of protocols.                          *)
(***************************************************************************)
Pairs == {"openai", "anthropic", "responses"} \X {"openai", "anthropic"}
           \cup {<<"responses", "responses">>}
Passes == client = provider
Chain == client = "responses" /\ provider = "anthropic"

ConvNew == [oa |-> OaNew, an |-> AnNew, oar |-> OarNew, pass |-> NoUsage]

\* The same protocol on both sides: the event goes through, its usage is
\* noted, and a chunk of nothing but usage that the client did not ask for is
\* held back.
PassUsage(u, ev) ==
  CASE ev.e \in {"chunk", "completed", "incomplete"} -> Capture(u, ev.use)
    [] ev.e = "message_start" -> AnStart(u, ev.use)
    [] ev.e = "message_delta" -> AnDelta(u, ev.use, FALSE)
    [] OTHER -> u

Withheld(ev) == strip /\ ev.e = "chunk" /\ ev.use # NoReport /\ ev.pieces = <<>>

\* AnthropicToResponses: the chunks of the first half are fed to the second.
ChainPush(ev) ==
  LET a == AnPush(conv.an, ev)
      feed(r, mid) == LET b == OarPush(r.s, mid) IN Says(b.s, r.out \o b.out)
      b == FoldLeft(feed, Says(conv.oar, <<>>), a.out)
  IN Says([conv EXCEPT !.an = a.s, !.oar = b.s], b.out)

Push(ev) ==
  CASE Passes -> Says([conv EXCEPT !.pass = PassUsage(@, ev)],
                      IF Withheld(ev) THEN <<>> ELSE <<ev>>)
    [] <<client, provider>> = <<"anthropic", "openai">> ->
         LET r == OaPush(conv.oa, ev) IN Says([conv EXCEPT !.oa = r.s], r.out)
    [] <<client, provider>> = <<"openai", "anthropic">> ->
         LET r == AnPush(conv.an, ev) IN Says([conv EXCEPT !.an = r.s], r.out)
    [] <<client, provider>> = <<"responses", "openai">> ->
         LET r == OarPush(conv.oar, ev) IN Says([conv EXCEPT !.oar = r.s], r.out)
    [] Chain -> ChainPush(ev)

Finish ==
  CASE Passes -> Says(conv, <<>>)
    [] ~Passes /\ client = "anthropic" ->
         LET r == OaFinalize(conv.oa) IN Says([conv EXCEPT !.oa = r.s], r.out)
    [] ~Passes /\ client = "openai" -> Says(conv, <<Done>>)
    [] ~Passes /\ client = "responses" ->
         LET r == OarFinalize(conv.oar) IN Says([conv EXCEPT !.oar = r.s], r.out)

\* usage(): what stream_response publishes and charges.
Usage ==
  CASE Passes -> conv.pass
    [] ~Passes /\ client = "anthropic" -> conv.oa.usage
    [] ~Passes /\ client = "openai"    -> conv.an.usage
    [] ~Passes /\ client = "responses" -> conv.oar.usage

-----------------------------------------------------------------------------
(***************************************************************************)
(* The provider: any stream its protocol allows.                           *)
(***************************************************************************)
Read(protocol, m, ev) ==
  CASE protocol = "openai"    -> ReadOpenAi(m, ev)
    [] protocol = "anthropic" -> ReadAnthropic(m, ev)
    [] protocol = "responses" -> ReadResponses(m, ev)

Reads(protocol, m, evs) == FoldLeft(LAMBDA a, ev : Read(protocol, a, ev), m, evs)

Fragments == {0, 1}
FreshCalls == Calls \ DOMAIN sent.calls

\* Calls are numbered; the first piece of a call carries its id.
ToolPieces ==
  [p : {"tool"}, i : ToolIx \ DOMAIN sent.at, id : FreshCalls, f : Fragments]
    \cup [p : {"tool"}, i : DOMAIN sent.at, id : {NoCall}, f : Fragments]
ContentPieces == [p : {"text", "think"}, f : Fragments]
FinishPieces == [p : {"finish"}, why : {"stop", "length", "content_filter", ""}]

\* A chunk carries one piece, or content and something more.
PieceSeqs ==
  LET any == ContentPieces \cup ToolPieces \cup FinishPieces
  IN {<<>>} \cup {<<p>> : p \in any}
       \cup {<<[p |-> "text", f |-> 1], p>> : p \in ToolPieces \cup FinishPieces}

OpenAiEvents ==
  {OpenAiChunk(NoReport, ps) : ps \in PieceSeqs}
    \cup {OpenAiChunk(u, ps) : u \in Reports, ps \in {<<>>, <<[p |-> "text", f |-> 1]>>}}
    \cup {Done, Error, Garbage}

BlockIx == 0..Cardinality(DOMAIN sent.at)
AnthropicEvents ==
  [e : {"message_start"}, use : AnStarts]
    \cup [e : {"block_start"}, i : BlockIx, type : {"text", "think"}, id : {NoCall}]
    \cup [e : {"block_start"}, i : BlockIx, type : {"tool"}, id : FreshCalls]
    \cup [e : {"block_delta"}, i : BlockIx, type : {"text", "think", "tool"}, f : Fragments]
    \cup [e : {"block_stop"}, i : BlockIx]
    \cup [e : {"message_delta"}, use : AnDeltas,
          stop : {"none", "end_turn", "max_tokens", "tool_use"}]
    \cup {[e |-> "message_stop"], Error, Garbage}

ResponsesEvents ==
  [e : {"created", "in_progress"}]
    \cup [e : {"completed", "incomplete"}, use : Reports, output : {<<>>}]
    \cup {Error, Garbage}

EventsOf(protocol) ==
  CASE protocol = "openai" -> OpenAiEvents [] protocol = "anthropic" -> AnthropicEvents
    [] protocol = "responses" -> ResponsesEvents

\* The provider keeps to its protocol, until it has reported an error; a
\* message_delta that gives the stop reason is its last; it tells the input no
\* other than at the start, and output tokens again once it has told any.
Allowed(ev) ==
  /\ sent.failed \/ Read(provider, sent, ev).faults = {}
  /\ ev.e = "message_delta" =>
       /\ sent.stop = "none" /\ sent.started
       /\ ev.use.in \in {Nothing, sent.tokens.in}
       /\ ev.use.out = Nothing => sent.tokens.out = 0
  /\ ev.e \in {"[DONE]", "message_stop", "completed", "incomplete"} => ~Over(sent)

-----------------------------------------------------------------------------
Init ==
  /\ \E p \in Pairs : client = p[1] /\ provider = p[2]
  /\ strip \in {b \in BOOLEAN : b => client = "openai" /\ provider = "openai"}
  /\ conv = ConvNew /\ events = 0 /\ how = "open"
  /\ sent = Unread /\ got = Unread

\* One upstream event is converted and what comes of it yielded.
Receive(ev) ==
  /\ how = "open" /\ events < MaxEvents[provider] /\ Allowed(ev)
  /\ events' = events + 1
  /\ sent' = Read(provider, sent, ev)
  /\ conv' = Push(ev).s
  /\ got' = Reads(client, got, Push(ev).out)
  /\ UNCHANGED <<client, provider, strip, how>>

\* stream_error_event; stream_terminal_event, which Responses does without.
Terminal == CASE client = "openai" -> <<Done>>
              [] client = "anthropic" -> <<[e |-> "message_stop"]>>
              [] client = "responses" -> <<>>

IsTerminal(ev) == ev.e \in {"[DONE]", "message_stop"}

\* The upstream closed, or the gateway shuts down.
Eof ==
  /\ how = "open" /\ how' = "eof"
  /\ conv' = IF events = 0 THEN conv ELSE Finish.s
  /\ got' = Reads(client, got, IF events = 0 THEN <<Error>> \o Terminal ELSE Finish.out)
  /\ UNCHANGED <<client, provider, strip, events, sent>>

\* The upstream broke: the client is told, and its stream brought to an end.
BreakTail ==
  IF client = "responses" THEN <<>>
  ELSE IF \E k \in DOMAIN Finish.out : IsTerminal(Finish.out[k]) THEN Finish.out
       ELSE Finish.out \o Terminal

Break ==
  /\ how = "open" /\ how' = "broken"
  /\ conv' = IF client = "responses" THEN conv ELSE Finish.s
  /\ got' = Reads(client, got, <<Error>> \o BreakTail)
  /\ UNCHANGED <<client, provider, strip, events, sent>>

Next ==
  \/ \E ev \in EventsOf(provider) : Receive(ev)
  \/ Eof
  \/ Break

Spec == Init /\ [][Next]_vars

-----------------------------------------------------------------------------
(***************************************************************************)
(* Properties.                                                             *)
(***************************************************************************)
Converts == ~Passes
Input == sent.tokens.in + sent.tokens.cc + sent.repeats   \* Anthropic's, cache writes included
Saturated == Input + sent.tokens.cr > MaxTok

\* The client puts together what the provider sent: the same text, the same
\* calls with their own arguments, and the same reasoning (which Responses
\* clients are not sent), however blocks, indices and items are renumbered.
SameMessage ==
  Converts => /\ got.text = sent.text
              /\ got.calls = sent.calls
              /\ got.think = IF client = "responses" THEN 0 ELSE sent.think

\* The converted stream keeps to the client's protocol: blocks follow one
\* another and are closed once, items are added before they grow and closed
\* with their whole content, the completed answer lists them in order, and no
\* content comes after an error or the end (an Anthropic client may be sent the
\* closing events after an error, chat.rs 909-926).  Only a provider that resumes
\* a call after something else has a fragment sent into a closed block.
ClientOrder ==
  Converts => got.faults \subseteq
    (IF client = "anthropic" /\ sent.mixed THEN {"closed"} ELSE {})

\* A converted stream that is over was brought to an end, once: by its
\* terminal frame or by an error, and for Responses by only one of the two.
\* Left out: a stream without one parsed event, and an upstream that breaks
\* after its own end, which ends the client's stream again.
OneOutcome ==
  LET brokeLate == how = "broken" /\ sent.ends > 0
      nothing   == ~sent.started /\ client # "openai"
  IN Converts /\ ~brokeLate =>
       /\ got.ends <= 1
       /\ client = "responses" => ~(got.failed /\ got.ends > 0)
       /\ how # "open" /\ ~nothing => got.failed \/ got.ends = 1

\* An answer cut short, by its length or by a filter, is not passed off as
\* complete, and a complete one not as cut: stop_reason, finish_reason and status
\* follow the provider's latest reason.  Two exceptions, both for Anthropic
\* clients: an empty reason after it counts as one, and an answer that a
\* filter has cut ends in end_turn, as any other does (convert.rs 805).
CutStaysCut ==
  Converts /\ got.ends > 0 /\ ~got.failed =>
    /\ sent.stop \in CutReasons =>
         got.cut \/ (client = "anthropic" /\ (sent.blank \/ sent.stop = "content_filter"))
    /\ got.cut => sent.cut

\* What is charged is what the provider reported, whatever the protocol of
\* the client; on the way from Anthropic to Responses only from the moment
\* the provider gives its stop reason.
BilledAsReported ==
  ~sent.failed =>
    IF provider = "anthropic"
    THEN (Chain => sent.stop # "none" /\ ~Saturated) =>
           /\ Usage.unc = Sat(Input)
           /\ Usage.out = sent.tokens.out /\ Usage.cached = sent.tokens.cr
    ELSE Usage = Extract(sent.read)

\* What the client is told it used is what it is charged for: all of it in
\* the OpenAI and Responses shapes, input and output in Anthropic's.
ToldTheBill ==
  LET toldAll == /\ Converts /\ got.ends > 0 /\ ~got.failed
                 /\ provider = "anthropic" => sent.stop # "none"
                 /\ ~Saturated
  IN toldAll =>
       IF client = "anthropic"
       THEN got.tokens.in = Usage.unc /\ got.tokens.out = Usage.out
       ELSE Extract(got.read) = Usage

=============================================================================
