----------------------------- MODULE WholeAnswers ------------------------------
(***************************************************************************)
(* convert_response and extract_usage_any of proxy/convert.rs: an answer    *)
(* that is not streamed.  The answer compared is the one the provider would *)
(* have given in one piece instead of the stream it has sent.               *)
(***************************************************************************)
EXTENDS StreamConverter

\* Bodies.  OpenAI: one message with reasoning, text and calls.  Anthropic: a
\* sequence of blocks.  Responses: a sequence of items.
OpenAiAnswer(think, text, calls, finish, use) ==
  [think |-> think, text |-> text, calls |-> calls, finish |-> finish, use |-> use]
AnthropicAnswer(content, stop, use) == [content |-> content, stop |-> stop, use |-> use]
ResponsesAnswer(output, status, use) == [output |-> output, status |-> status, use |-> use]

Part(type, id, size) == [type |-> type, id |-> id, size |-> size]

\* One block of an Anthropic answer: what is of one kind is joined.
AnBlock(a, it) ==
  CASE it.type = "text"  -> [a EXCEPT !.text = @ + it.size]
    [] it.type = "think" -> [a EXCEPT !.think = @ + it.size]
    [] it.type = "tool"  -> [a EXCEPT !.calls = Append(@, it)]

AnUsage(use, prompt) ==
  [prompt |-> prompt, cached |-> use.cr, completion |-> use.out, total |-> prompt + use.out]

\* Cache writes taken for something the prompt has already.
AnWholeUncounted(a) ==
  FoldLeft(AnBlock,
           OpenAiAnswer(0, 0, <<>>, StopToFinish(a.stop), AnUsage(a.use, a.use.in + a.use.cr)),
           a.content)

\* anthropic_resp_to_openai: cache reads and writes are counted among the
\* prompt's tokens.
AnWhole(a) ==
  FoldLeft(AnBlock,
           OpenAiAnswer(0, 0, <<>>, StopToFinish(a.stop),
                        AnUsage(a.use, a.use.in + a.use.cr + a.use.cc)),
           a.content)

\* Arguments that are no JSON become {}: those a cut answer ends in.
Parsed(a, k) == IF a.finish = "length" /\ k = Len(a.calls) THEN 0 ELSE a.calls[k].size

\* openai_resp_to_anthropic
OaWhole(a) ==
  AnthropicAnswer(
    (IF a.think = 0 THEN <<>> ELSE <<Part("think", NoCall, a.think)>>)
    \o (IF a.text = 0 THEN <<>> ELSE <<Part("text", NoCall, a.text)>>)
    \o [k \in DOMAIN a.calls |-> Part("tool", a.calls[k].id, Parsed(a, k))],
    FinishToStop(a.finish),
    [in |-> a.use.prompt, out |-> a.use.completion, cr |-> 0, cc |-> 0])

\* openai_resp_to_responses: reasoning is dropped, a total that is not given
\* is that of the parts.
OarWhole(a) ==
  ResponsesAnswer((IF a.text = 0 THEN <<>> ELSE <<Part("text", NoCall, a.text)>>) \o a.calls,
                  OarVerdict(a),
                  [a.use EXCEPT !.total = IF @ = Nothing THEN a.use.prompt + a.use.completion
                                          ELSE @])

\* extract_usage_any of what the provider returned.
ExtractWhole(a) ==
  IF provider = "anthropic"
  THEN Total([unc |-> Sat(a.use.in + a.use.cc), out |-> a.use.out, total |-> 0,
              cached |-> a.use.cr])
  ELSE Extract(a.use)

-----------------------------------------------------------------------------
\* The provider's message in one piece: its items by their indices.
Listed(at) ==
  LET byIx == InOrder({[i |-> k, item |-> Item(at[k])] : k \in DOMAIN at})
  IN [k \in 1..Len(byIx) |-> byIx[k].item]

Whole ==
  IF provider = "anthropic" THEN AnthropicAnswer(Listed(sent.at), sent.stop, sent.tokens)
  ELSE OpenAiAnswer(sent.think, sent.text, Listed(sent.at), sent.stop, sent.read)

\* convert_response
Returned ==
  CASE <<client, provider>> = <<"anthropic", "openai">>    -> OaWhole(Whole)
    [] <<client, provider>> = <<"openai", "anthropic">>    -> AnWhole(Whole)
    [] <<client, provider>> = <<"responses", "openai">>    -> OarWhole(Whole)
    [] <<client, provider>> = <<"responses", "anthropic">> -> OarWhole(AnWhole(Whole))

\* What the client reads in an answer, part by part (external).
ReadPart(m, it) ==
  CASE it.type = "text"  -> [m EXCEPT !.text = @ + it.size]
    [] it.type = "think" -> [m EXCEPT !.think = @ + it.size]
    [] it.type = "tool"  ->
         [m EXCEPT !.calls =
            With(@, it.id, it.size + IF it.id \in DOMAIN @ THEN @[it.id] ELSE 0)]

ReadParts(think, text, parts) ==
  FoldLeft(ReadPart, [think |-> think, text |-> text, calls |-> <<>>], parts)

ReadWhole(a) ==
  CASE client = "openai"    -> ReadParts(a.think, a.text, a.calls)
    [] client = "anthropic" -> ReadParts(0, 0, a.content)
    [] client = "responses" -> ReadParts(0, 0, a.output)

CutShort(a) ==
  CASE client = "openai"    -> a.finish \in {"length", "content_filter"}
    [] client = "anthropic" -> a.stop = "max_tokens"
    [] client = "responses" -> a.status = "incomplete"

\* Counts that add up to more than a usage of the gateway holds.
Clamped ==
  IF provider = "anthropic" THEN Input + sent.tokens.cr + sent.tokens.out > MaxTok
  ELSE sent.read.total = Nothing /\ sent.read.prompt + sent.read.completion > MaxTok

\* A stream that went through from its start to a proper end; the cases that
\* other properties leave out are left out here too.
Complete ==
  /\ Converts /\ how = "eof" /\ sent.started /\ sent.ends > 0 /\ ~sent.failed
  /\ provider = "anthropic" => sent.stop # "none" /\ sent.repeats = 0
  /\ ~Clamped /\ ~sent.blank

\* Streaming changes nothing: the client has the same message, with the same
\* outcome, for the same charge, and is told the same usage, as if the answer
\* had come in one piece.  Three differences of the code are left out: the
\* arguments a cut answer ends in, which only a stream can pass on, the input
\* an Anthropic client is told, with the cached tokens in a whole answer and
\* without them in a stream, and a total beyond MaxTok, which only a stream
\* clamps.
WholeAsStreamed ==
  Complete =>
    LET w == ReadWhole(Returned) IN
      /\ w.text = got.text /\ w.think = got.think
      /\ DOMAIN w.calls = DOMAIN got.calls
      /\ sent.cut \/ w.calls = got.calls
      /\ CutShort(Returned) <=> got.cut
      /\ ExtractWhole(Whole) = Usage
      /\ IF client = "anthropic"
         THEN /\ Returned.use.out = got.tokens.out
              /\ Usage.cached = 0 => Returned.use.in = got.tokens.in
         ELSE Extract(Returned.use) = Extract(got.read)

=============================================================================
