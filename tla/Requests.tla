------------------------------- MODULE Requests --------------------------------
(***************************************************************************)
(* convert_request of proxy/convert.rs: a conversation a client sends in    *)
(* its own protocol, rewritten for the provider.  The client composes the   *)
(* conversation message by message; Converted is what the gateway forwards  *)
(* of it at any point.                                                     *)
(*                                                                         *)
(* A text is the sequence of its fragments, each of which occurs once in a  *)
(* conversation: joining texts is concatenation, whatever the separator.    *)
(* A string where the protocol also has an array of parts is the array of   *)
(* its one part, or of none if it is empty.                                *)
(***************************************************************************)
EXTENDS Integers, Sequences, FiniteSets, SequencesExt

CONSTANTS
  Calls,        \* identities of tool calls
  NoCall,       \* the absence of one
  Settings,     \* the settings clients send
  MaxMessages,  \* bound on the messages, or items, of a conversation, converted or not
  DefaultMax    \* 4096: max_tokens towards Anthropic when the client names none

ASSUME RequestsAssumption ==
  /\ NoCall \notin Calls /\ DefaultMax \in Nat \ {0}
  /\ MaxMessages \in [Settings \X BOOLEAN -> Nat]
  /\ Settings \subseteq
       [stream : BOOLEAN, usage : BOOLEAN,   \* stream_options.include_usage
        max : Nat,                           \* 0: not given
        tools : SUBSET {"function", "builtin"},
        choice : {"unset", "auto", "none", "required", "named"}]

VARIABLES
  client, provider,  \* the protocols of the two sides
  body,              \* the request as the client has composed it so far
  said               \* fragments used up

vars == <<client, provider, body, said>>

-----------------------------------------------------------------------------
(***************************************************************************)
(* Bodies.  A block is a part of a content; sig is the text its signature   *)
(* signs, mark whether it carries a cache_control object.                  *)
(***************************************************************************)
Block(type, id, text) == [type |-> type, id |-> id, text |-> text, sig |-> <<>>, mark |-> FALSE]
Text(text) == Block("text", NoCall, text)

\* OpenAI: system, user, assistant and tool messages.
Message(role, content) ==
  [role |-> role, content |-> content, think |-> <<>>, sig |-> <<>>, calls |-> <<>>, id |-> NoCall]

\* The elements at the positions D, in their order.
Kept(s, D) == FlattenSeq([k \in DOMAIN s |-> IF k \in D THEN <<s[k]>> ELSE <<>>])

OfType(types, blocks) == Kept(blocks, {k \in DOMAIN blocks : blocks[k].type \in types})
Joined(blocks) == FlattenSeq([k \in DOMAIN blocks |-> blocks[k].text])
Marked(blocks) == \E k \in DOMAIN blocks : blocks[k].mark
OneText(text) == IF text = <<>> THEN <<>> ELSE <<Text(text)>>

-----------------------------------------------------------------------------
(***************************************************************************)
(* OpenAI -> Anthropic (openai_req_to_anthropic).                          *)
(***************************************************************************)
\* openai_content_to_anthropic_blocks, and back anthropic_content_to_openai_parts.
Content(parts) == OfType({"text", "image"}, parts)

\* openai_content_text
ContentText(parts) == Joined(OfType({"text"}, parts))

ToolUse(call) == Block("tool_use", call.id, call.args)

AssistantBlocks(m) ==
  (IF m.think = <<>> THEN <<>>
   ELSE <<[Block("thinking", NoCall, m.think) EXCEPT !.sig = m.sig]>>)
  \o Content(m.content)
  \o [k \in DOMAIN m.calls |-> ToolUse(m.calls[k])]

BlocksOf(m) ==
  CASE m.role = "user"      -> Content(m.content)
    [] m.role = "assistant" -> AssistantBlocks(m)
    [] m.role = "tool"      -> <<Block("tool_result", m.id, ContentText(m.content))>>

\* push_blocks: consecutive messages of one role are merged.
PushBlocks(msgs, role, blocks) ==
  IF blocks = <<>> THEN msgs
  ELSE IF msgs # <<>> /\ Last(msgs).role = role
       THEN [msgs EXCEPT ![Len(msgs)].content = @ \o blocks]
       ELSE Append(msgs, [role |-> role, content |-> blocks])

\* One piece of the system prompt: with a mark its text parts, else its text.
SystemPiece(m) ==
  IF Marked(m.content)
  THEN LET texts == OfType({"text"}, m.content)
       IN Kept(texts, {k \in DOMAIN texts : texts[k].text # <<>> \/ texts[k].mark})
  ELSE OneText(ContentText(m.content))

OfRole(role, msgs) == Kept(msgs, {k \in DOMAIN msgs : msgs[k].role = role})

SystemPieces(msgs) ==
  LET sys == OfRole("system", msgs) IN [k \in DOMAIN sys |-> SystemPiece(sys[k])]

\* With a mark somewhere, the pieces without one are left behind.
SystemBlocksMarkedOnly(msgs) ==
  LET pieces == SystemPieces(msgs)
  IN IF \E k \in DOMAIN pieces : Marked(pieces[k])
     THEN FlattenSeq(Kept(pieces, {k \in DOMAIN pieces : Marked(pieces[k])}))
     ELSE OneText(Joined(FlattenSeq(pieces)))

\* A mark anywhere keeps the pieces apart, else they become one string.
SystemBlocks(msgs) ==
  LET pieces == SystemPieces(msgs)
  IN IF \E k \in DOMAIN msgs : msgs[k].role = "system" /\ Marked(msgs[k].content)
     THEN FlattenSeq(pieces)
     ELSE OneText(Joined(FlattenSeq(pieces)))

PushMessage(msgs, m) ==
  IF m.role = "system" THEN msgs
  ELSE PushBlocks(msgs, IF m.role = "assistant" THEN "assistant" ELSE "user", BlocksOf(m))

OpenAiToAnthropic(b) ==
  [set |-> [b.set EXCEPT !.usage = FALSE, !.max = IF @ = 0 THEN DefaultMax ELSE @],
   sys |-> SystemBlocks(b.msgs),
   msgs |-> FoldLeft(PushMessage, <<>>, b.msgs)]

-----------------------------------------------------------------------------
(***************************************************************************)
(* Anthropic -> OpenAI (anthropic_req_to_openai).                          *)
(***************************************************************************)
\* The regular content first, the tool results after it.
UserMessagesTextFirst(blocks) ==
  LET results == OfType({"tool_result"}, blocks)
      parts   == Content(blocks)
  IN (IF parts = <<>> THEN <<>> ELSE <<Message("user", parts)>>)
     \o [k \in DOMAIN results |->
           [Message("tool", OneText(results[k].text)) EXCEPT !.id = results[k].id]]

\* Tool results become messages of their own, before what else the user says.
UserMessages(blocks) ==
  LET results == OfType({"tool_result"}, blocks)
      parts   == Content(blocks)
  IN [k \in DOMAIN results |->
        [Message("tool", OneText(results[k].text)) EXCEPT !.id = results[k].id]]
     \o (IF parts = <<>> THEN <<>> ELSE <<Message("user", parts)>>)

\* Reasoning and text are joined; a signature is kept if there is just one.
AssistantMessage(blocks) ==
  LET thoughts == OfType({"thinking"}, blocks)
      signed   == Kept(thoughts, {k \in DOMAIN thoughts : thoughts[k].sig # <<>>})
      uses     == OfType({"tool_use"}, blocks)
  IN [Message("assistant", OneText(ContentText(blocks))) EXCEPT
        !.think = Joined(thoughts),
        !.sig   = IF Len(signed) = 1 THEN signed[1].sig ELSE <<>>,
        !.calls = [k \in DOMAIN uses |-> [id |-> uses[k].id, args |-> uses[k].text]]]

\* The system prompt keeps its blocks if one is marked.
SystemMessage(sys) ==
  LET content == IF Marked(sys) THEN Content(sys) ELSE OneText(ContentText(sys))
  IN IF content = <<>> THEN <<>> ELSE <<Message("system", content)>>

TakenApart(m) ==
  IF m.role = "user" THEN UserMessages(m.content) ELSE <<AssistantMessage(m.content)>>

AnthropicToOpenAi(b) ==
  [set |-> [b.set EXCEPT !.usage = b.set.stream],
   sys |-> <<>>,
   msgs |-> SystemMessage(b.sys) \o FlattenSeq([k \in DOMAIN b.msgs |-> TakenApart(b.msgs[k])])]

-----------------------------------------------------------------------------
(***************************************************************************)
(* Responses -> OpenAI (responses_req_to_openai).                          *)
(***************************************************************************)
\* responses_input_item_to_openai: every call is a message of its own;
\* reasoning has no counterpart.
ItemMessages(it) ==
  CASE it.role \in {"system", "user", "assistant"} ->
         IF Content(it.content) = <<>> THEN <<>> ELSE <<Message(it.role, Content(it.content))>>
    [] it.role = "function_call" ->
         <<[Message("assistant", <<>>) EXCEPT
              !.calls = <<[id |-> it.id, args |-> ContentText(it.content)]>>]>>
    [] it.role = "function_call_output" ->
         <<[Message("tool", OneText(ContentText(it.content))) EXCEPT !.id = it.id]>>
    [] it.role = "reasoning" -> <<>>

ResponsesToOpenAi(b) ==
  [set |-> [b.set EXCEPT !.usage = b.set.stream, !.tools = @ \cap {"function"}],
   sys |-> <<>>,
   msgs |-> SystemMessage(b.sys) \o FlattenSeq([k \in DOMAIN b.msgs |-> ItemMessages(b.msgs[k])])]

-----------------------------------------------------------------------------
(***************************************************************************)
(* convert_request.                                                        *)
(***************************************************************************)
Protocols == {"openai", "anthropic", "responses"}
Pairs == (Protocols \X {"openai", "anthropic"}) \cup {<<"responses", "responses">>}

\* An openai stream that passes through is made to report its usage.
PassOn(b) == IF client = "openai" /\ b.set.stream THEN [b EXCEPT !.set.usage = TRUE] ELSE b

Converted ==
  CASE client = provider -> PassOn(body)
    [] client = "openai" /\ provider = "anthropic" -> OpenAiToAnthropic(body)
    [] client = "anthropic" /\ provider = "openai" -> AnthropicToOpenAi(body)
    [] client = "responses" /\ provider = "openai" -> ResponsesToOpenAi(body)
    [] client = "responses" /\ provider = "anthropic" ->
         OpenAiToAnthropic(ResponsesToOpenAi(body))

-----------------------------------------------------------------------------
(***************************************************************************)
(* What a reader of each protocol makes of a conversation (external): the   *)
(* things said, one after the other, each with who says it.                *)
(***************************************************************************)
Says(who, kind, what) == [who |-> who, kind |-> kind, what |-> what]

\* Fragments keep the type and the mark of their part.
Typed(b) == [k \in DOMAIN b.text |-> <<b.type, b.text[k], b.mark>>]

SaysBlock(who, b) ==
  CASE b.type \in {"text", "image"} -> Says(who, "content", Typed(b))
    [] b.type = "thinking"          -> Says(who, "think", b.text)
    [] b.type = "tool_use"          -> Says(who, "calls", <<<<b.id, b.text>>>>)
    [] b.type = "tool_result"       -> Says(who, "results", <<<<b.id, b.text>>>>)

SaysBlocks(who, blocks) == [k \in DOMAIN blocks |-> SaysBlock(who, blocks[k])]

ReadMessage(m) ==
  CASE m.role \in {"system", "user"} -> SaysBlocks(m.role, m.content)
    [] m.role = "assistant" -> SaysBlocks("assistant", AssistantBlocks(m))
    [] m.role = "tool" -> <<Says("user", "results", <<<<m.id, ContentText(m.content)>>>>)>>

ReadItem(it) ==
  CASE it.role \in {"system", "user", "assistant"} -> SaysBlocks(it.role, it.content)
    [] it.role = "function_call" ->
         <<Says("assistant", "calls", <<<<it.id, ContentText(it.content)>>>>)>>
    [] it.role = "function_call_output" ->
         <<Says("user", "results", <<<<it.id, ContentText(it.content)>>>>)>>
    [] it.role = "reasoning" -> <<>>

ReadOne(protocol, m) ==
  CASE protocol = "openai"    -> ReadMessage(m)
    [] protocol = "anthropic" -> SaysBlocks(m.role, m.content)
    [] protocol = "responses" -> ReadItem(m)

ReadBody(protocol, b) ==
  SaysBlocks("system", b.sys)
  \o FlattenSeq([k \in DOMAIN b.msgs |-> ReadOne(protocol, b.msgs[k])])

\* The system prompt: wherever it stands, it comes first.
SystemPrompt(reading) ==
  FlattenSeq([k \in DOMAIN reading |->
                IF reading[k].who = "system" THEN reading[k].what ELSE <<>>])

\* The turns of a conversation: what one side says until the other does.
Silent(who) ==
  [who |-> who, told |-> [kind \in {"content", "think", "calls", "results"} |-> <<>>]]

Tell(turns, s) ==
  LET open == IF turns # <<>> /\ Last(turns).who = s.who THEN turns
              ELSE Append(turns, Silent(s.who))
  IN IF s.who = "system" \/ s.what = <<>> THEN turns
     ELSE [open EXCEPT ![Len(open)].told[s.kind] = @ \o s.what]

Turns(reading) == FoldLeft(Tell, <<>>, reading)

-----------------------------------------------------------------------------
(***************************************************************************)
(* The order each protocol asks of a conversation (external).              *)
(***************************************************************************)
\* What matters of a message: the calls it makes and the results it brings,
\* and whether something else is said before the results.
Step(calls, results, talk) == [calls |-> calls, results |-> results, talk |-> talk]
IdsOf(type, blocks) == {OfType({type}, blocks)[k].id : k \in DOMAIN OfType({type}, blocks)}

MessageStep(m) ==
  CASE m.role = "tool" -> Step({}, {m.id}, FALSE)
    [] m.role = "assistant" -> Step({m.calls[k].id : k \in DOMAIN m.calls}, {}, TRUE)
    [] OTHER -> Step({}, {}, TRUE)

BlocksStep(m) ==
  Step(IdsOf("tool_use", m.content), IdsOf("tool_result", m.content),
       m.content # <<>> /\ Head(m.content).type # "tool_result")

ItemStep(it) ==
  CASE it.role = "function_call" -> Step({it.id}, {}, FALSE)
    [] it.role = "function_call_output" -> Step({}, {it.id}, FALSE)
    [] it.role = "reasoning" -> Step({}, {}, FALSE)
    [] OTHER -> Step({}, {}, TRUE)

\* Calls are answered before anything else is said, by results of their own.
\* batch: several messages in a row may make calls (Responses).
Took(batch, st, s) ==
  [open |-> (st.open \ s.results) \cup s.calls,
   answered |-> IF s.results = {} THEN st.answered ELSE st.open # s.results,
   ok |-> /\ st.ok /\ s.results \subseteq st.open
          /\ s.talk => st.open = {}
          /\ s.calls # {} => st.open = {} \/ (batch /\ ~st.answered)]

Answering(steps, batch) ==
  FoldLeft(LAMBDA st, s : Took(batch, st, s),
           [open |-> {}, answered |-> FALSE, ok |-> TRUE], steps)

StepOf(protocol, m) ==
  CASE protocol = "openai"    -> MessageStep(m)
    [] protocol = "anthropic" -> BlocksStep(m)
    [] protocol = "responses" -> ItemStep(m)

Steps(protocol, b) == [k \in DOMAIN b.msgs |-> StepOf(protocol, b.msgs[k])]

\* Every reasoning is signed as a whole, or not at all.
SignaturesFit(b) ==
  \A k \in DOMAIN b.msgs :
    LET m == b.msgs[k]
    IN IF "calls" \in DOMAIN m THEN m.sig \in {<<>>, m.think}
       ELSE \A j \in DOMAIN m.content : m.content[j].sig \in {<<>>, m.content[j].text}

Alternates(b) == \A k \in 1..(Len(b.msgs) - 1) : b.msgs[k].role # b.msgs[k + 1].role

\* Nothing a provider would refuse the conversation for.
Faults(protocol, b) ==
  LET end == Answering(Steps(protocol, b), protocol = "responses")
  IN (IF end.ok /\ end.open = {} THEN {} ELSE {"unanswered"})
     \cup (IF SignaturesFit(b) THEN {} ELSE {"signature"})
     \cup (IF protocol = "anthropic" /\ ~Alternates(b) THEN {"alternate"} ELSE {})
     \cup (IF protocol = "anthropic" /\ \E k \in DOMAIN b.msgs : b.msgs[k].content = <<>>
           THEN {"empty"} ELSE {})
     \cup (IF b.set.choice # "unset" /\ b.set.tools = {} THEN {"choice"} ELSE {})

-----------------------------------------------------------------------------
(***************************************************************************)
(* The client.                                                             *)
(***************************************************************************)
Fresh(k) == <<said + k>>
MarkedText(k) == [Text(Fresh(k)) EXCEPT !.mark = TRUE]
Image(k) == Block("image", NoCall, Fresh(k))
Made == UNION {s.calls : s \in ToSet(Steps(client, body))}
Open == Answering(Steps(client, body), client = "responses").open
FreshCalls == Calls \ Made
CallSeqs == {<<>>} \cup {<<c>> : c \in FreshCalls}
              \cup {p \in FreshCalls \X FreshCalls : p[1] # p[2]}

Prompts == {<<Text(Fresh(1))>>, <<MarkedText(1), Text(Fresh(2))>>}
UserContents == {<<Text(Fresh(1))>>, <<Image(1), MarkedText(2)>>}

\* What an OpenAI client may add: an answer, with or without its reasoning,
\* and the result of a call.
OpenAiAnswer(p, cs, t) ==
  [Message("assistant", p) EXCEPT
     !.think = t[1], !.sig = t[2],
     !.calls = [k \in DOMAIN cs |-> [id |-> cs[k], args |-> Fresh(2 + k)]]]
OpenAiThoughts == {<<<<>>, <<>>>>, <<Fresh(2), <<>>>>, <<Fresh(2), Fresh(2)>>}
OpenAiResult(c) == [Message("tool", <<Text(Fresh(1))>>) EXCEPT !.id = c]
OpenAiMessages ==
  {Message("system", p) : p \in Prompts} \cup {Message("user", p) : p \in UserContents \cup {<<>>}}
  \cup {OpenAiAnswer(p, cs, t) :
          p \in {<<>>, <<Text(Fresh(1))>>}, cs \in CallSeqs, t \in OpenAiThoughts}
  \cup {OpenAiResult(c) : c \in Open}

\* What an Anthropic client may add: results come with the next message.
Thought(k, signed) ==
  [Block("thinking", NoCall, Fresh(k)) EXCEPT !.sig = IF signed THEN Fresh(k) ELSE <<>>]
Thoughts ==
  {<<>>, <<Thought(1, FALSE)>>, <<Thought(1, TRUE)>>, <<Thought(1, TRUE), Thought(2, TRUE)>>,
   <<Thought(1, TRUE), Thought(2, FALSE)>>}
AnthropicResults(o) == [k \in DOMAIN o |-> Block("tool_result", o[k], Fresh(2 + k))]
AnthropicCalls(cs) == [k \in DOMAIN cs |-> Block("tool_use", cs[k], Fresh(3 + k))]
Said(role, content) == [role |-> role, content |-> content]
AnthropicMessages ==
  {Said("user", AnthropicResults(o) \o p) :
     o \in SetToAllKPermutations(Open), p \in UserContents \cup {<<>>}}
  \cup {Said("assistant", t \o AnthropicCalls(cs) \o p) :
          t \in Thoughts, p \in {<<>>, <<Text(Fresh(3))>>}, cs \in CallSeqs}

\* What a Responses client may add.
Item(role, id, content) == [role |-> role, id |-> id, content |-> content]
ResponsesItems ==
  {Item(r, NoCall, p) : r \in {"system", "user", "assistant"}, p \in {<<>>, <<Text(Fresh(1))>>}}
  \cup {Item("user", NoCall, <<Image(1), Text(Fresh(2))>>), Item("reasoning", NoCall, <<>>)}
  \cup {Item("function_call", c, <<Text(Fresh(1))>>) : c \in FreshCalls}
  \cup {Item("function_call_output", c, <<Text(Fresh(1))>>) : c \in Open}

Messages ==
  CASE client = "openai" -> OpenAiMessages [] client = "anthropic" -> AnthropicMessages
    [] client = "responses" -> ResponsesItems

Init ==
  /\ \E p \in Pairs : client = p[1] /\ provider = p[2]
  /\ said = 2
  /\ \E set \in Settings, sys \in {<<>>, <<Text(<<1>>)>>, <<[Text(<<1>>) EXCEPT !.mark = TRUE], Text(<<2>>)>>} :
       /\ client = "openai" => sys = <<>>
       /\ client = "responses" => ~Marked(sys) /\ Len(sys) <= 1
       /\ client # "openai" => ~set.usage
       /\ client = "anthropic" => set.max # 0
       /\ body = [set |-> set, sys |-> sys, msgs |-> <<>>]

\* The client goes on with its conversation, in the order of its protocol.
Add(m) ==
  /\ Len(body.msgs) < MaxMessages[body.set, client # provider]
  /\ body' = [body EXCEPT !.msgs = Append(@, m)]
  /\ Faults(client, body') \subseteq {"unanswered"}
  /\ Answering(Steps(client, body'), client = "responses").ok
  /\ said' = said + 6
  /\ UNCHANGED <<client, provider>>

Next == \E m \in Messages : Add(m)

Spec == Init /\ [][Next]_vars

-----------------------------------------------------------------------------
(***************************************************************************)
(* Properties.                                                             *)
(***************************************************************************)

\* The provider reads the conversation the client sent: the same system
\* prompt and, turn by turn, the same content, reasoning, calls and results,
\* each in its order, however messages are split, merged and moved.  The
\* settings arrive too, and a stream from an openai provider is made to
\* report what it used.
SameConversation ==
  LET asked == ReadBody(client, body)
      told  == ReadBody(provider, Converted)
      set   == Converted.set
  IN /\ SystemPrompt(told) = SystemPrompt(asked)
     /\ Turns(told) = Turns(asked)
     /\ set.stream = body.set.stream /\ set.choice = body.set.choice
     /\ set.max = IF body.set.max = 0 /\ provider = "anthropic" /\ client # "anthropic"
                  THEN DefaultMax ELSE body.set.max
     /\ "function" \in set.tools <=> "function" \in body.set.tools
     /\ provider = "openai" /\ set.stream => set.usage

\* Calls that a Responses client makes side by side.
SideBySide ==
  \E k \in 1..(Len(body.msgs) - 1) :
    body.msgs[k].role = "function_call"
    /\ \E j \in (k + 1)..Len(body.msgs) :
         /\ body.msgs[j].role = "function_call"
         /\ \A i \in (k + 1)..(j - 1) : body.msgs[i].role = "reasoning"

\* A message of several thoughts of which one is signed.
HalfSigned ==
  \E k \in DOMAIN body.msgs :
    LET thoughts == OfType({"thinking"}, body.msgs[k].content)
    IN Len(thoughts) > 1
       /\ Cardinality({j \in DOMAIN thoughts : thoughts[j].sig # <<>>}) = 1

\* A conversation that keeps to the client's protocol is forwarded as one that
\* keeps to the provider's: roles alternate, no message is empty, each call is
\* answered by its own result before anything else is said, and no signature
\* is put on a text it does not sign.  Left out, each with what it breaks: a
\* Responses client that makes calls side by side in front of an openai
\* provider, or chooses among built-in tools only, and an Anthropic client's
\* message of several thoughts of which one is signed.
ProviderAccepts ==
  Faults(client, body) = {} =>
    Faults(provider, Converted) \subseteq
      (IF client = "responses" /\ provider = "openai" /\ SideBySide THEN {"unanswered"} ELSE {})
      \cup (IF client = "responses" /\ body.set.tools \subseteq {"builtin"} THEN {"choice"} ELSE {})
      \cup (IF client = "anthropic" /\ provider = "openai" /\ HalfSigned THEN {"signature"} ELSE {})

=============================================================================
