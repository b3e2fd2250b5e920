---------------------------- MODULE WireProtocols -----------------------------
(***************************************************************************)
(* What the three streaming protocols mean to whoever reads them: the       *)
(* message a reader has put together so far, and the breaches of the order  *)
(* its protocol prescribes.  The protocols belong to the providers and to   *)
(* the clients; they are modelled here as proxy/convert.rs uses them.       *)
(*                                                                         *)
(* A piece of text, of reasoning or of the arguments of a call is empty (0) *)
(* or one fragment (1); a text is the number of fragments it is made of.    *)
(***************************************************************************)
EXTENDS Integers, Sequences, FiniteSets, TLC, SequencesExt

CONSTANTS
  Calls,    \* identities of tool calls (the id a provider gives a call)
  NoCall    \* the absence of such an identity

ASSUME CallsAssumption == NoCall \notin Calls

\* No block is open, or a number is not given.
Nothing == -1

\* OpenAI: choices[].delta, one piece after the other, and the usage object,
\* all zero when there is none.  Its total may not be given.
NoReport == [prompt |-> 0, cached |-> 0, completion |-> 0, total |-> 0]

\* A usage object that counts something: by its total, or else by its parts.
Counts(use) == IF use.total = Nothing THEN use.prompt + use.completion > 0 ELSE use.total > 0

OpenAiChunk(use, pieces) == [e |-> "chunk", use |-> use, pieces |-> pieces]
Done == [e |-> "[DONE]"]
Error == [e |-> "error"]
Garbage == [e |-> "garbage"]   \* data that is no JSON, or of no known type

\* A reader that has read nothing.
Unread ==
  [text |-> 0, think |-> 0,
   calls |-> <<>>,        \* call -> fragments of its arguments
   at |-> <<>>,           \* index on the wire -> [type, id, size]
   open |-> Nothing,      \* the content block under way
   shut |-> {},           \* items closed (Responses)
   latest |-> NoCall,     \* the call the latest fragment belongs to
   mixed |-> FALSE,       \* a call was resumed after something else
   started |-> FALSE, failed |-> FALSE,
   ends |-> 0,            \* terminal frames
   stop |-> "none",       \* the latest reason that is not empty
   blank |-> FALSE,       \* an empty one came later
   cut |-> FALSE,         \* a reason that cuts the answer short was given
   read |-> NoReport,     \* the usage an OpenAI or a Responses reader is told
   tokens |-> [in |-> 0, cc |-> 0, cr |-> 0, out |-> 0],   \* Anthropic's
   repeats |-> 0,         \* cache_creation tokens told in message_delta
   faults |-> {}]

\* The function f with x at i.
With(f, i, x) == [j \in DOMAIN f \cup {i} |-> IF j = i THEN x ELSE f[j]]

Blame(m, what) == [m EXCEPT !.faults = @ \cup {what}]
Over(m) == m.failed \/ m.ends > 0

\* A fragment of the item at index i.
Grow(m, i, f) ==
  LET it == m.at[i]
      m1 == [m EXCEPT !.at[i].size = @ + f]
  IN CASE it.type = "text"  -> [m1 EXCEPT !.text = @ + f]
       [] it.type = "think" -> [m1 EXCEPT !.think = @ + f]
       [] it.type = "tool"  -> [m1 EXCEPT !.calls[it.id] = @ + f]

\* A new item at index i.
Begin(m, i, type, id) ==
  LET m1 == [m EXCEPT !.at = With(@, i, [type |-> type, id |-> id, size |-> 0])]
  IN IF type = "tool" THEN [m1 EXCEPT !.calls = With(@, id, 0)] ELSE m1

\* The reasons that cut an answer short.
CutReasons == {"length", "content_filter", "max_tokens"}

\* Why a message stopped: a later reason replaces an earlier one.
Stop(m, why) ==
  [m EXCEPT !.stop = IF why = "" THEN @ ELSE why,
            !.blank = why = "",
            !.cut = @ \/ why \in CutReasons]

Fail(m) == [m EXCEPT !.failed = TRUE]
End(m) == [m EXCEPT !.ends = @ + 1]

-----------------------------------------------------------------------------
(***************************************************************************)
(* OpenAI chat completions.                                                *)
(***************************************************************************)
ReadPiece(m, p) ==
  CASE p.p = "text"   -> [m EXCEPT !.text = @ + p.f, !.latest = IF p.f = 0 THEN @ ELSE NoCall]
    [] p.p = "think"  -> [m EXCEPT !.think = @ + p.f, !.latest = IF p.f = 0 THEN @ ELSE NoCall]
    [] p.p = "finish" -> Stop(m, p.why)
    [] p.p = "tool" /\ p.id # NoCall ->
         [Grow(Begin(m, p.i, "tool", p.id), p.i, p.f) EXCEPT !.latest = p.id]
    [] p.p = "tool" /\ p.id = NoCall /\ p.i \in DOMAIN m.at ->
         [Grow(m, p.i, p.f) EXCEPT
            !.mixed = @ \/ (p.f > 0 /\ m.at[p.i].id # m.latest)]
    [] OTHER -> Blame(m, "orphan")

ReadOpenAi(m, ev) ==
  CASE ev.e = "chunk" /\ Over(m) -> Blame(m, "late")
    [] ev.e = "chunk" /\ ~Over(m) ->
         [FoldLeft(ReadPiece, m, ev.pieces) EXCEPT
            !.started = TRUE,
            !.read = IF Counts(ev.use) THEN ev.use ELSE @]
    [] ev.e = "[DONE]" -> End(m)
    [] ev.e = "error"  -> Fail(m)
    [] OTHER           -> m

-----------------------------------------------------------------------------
(***************************************************************************)
(* Anthropic messages: blocks are numbered from 0 and follow one another.  *)
(***************************************************************************)
Given(new, old) == IF new = Nothing THEN old ELSE new

ReadAnthropic(m, ev) ==
  CASE ev.e = "message_start" ->
         IF m.started \/ Over(m) THEN Blame(m, "order")
         ELSE [m EXCEPT !.started = TRUE, !.tokens = [ev.use EXCEPT !.out = 0]]
    [] ev.e = "block_start" ->
         IF Over(m) THEN Blame(m, "late")
         ELSE IF ~m.started \/ m.open # Nothing \/ ev.i # Cardinality(DOMAIN m.at)
              THEN Blame(m, "order")
              ELSE [Begin(m, ev.i, ev.type, ev.id) EXCEPT !.open = ev.i]
    [] ev.e = "block_delta" ->
         IF Over(m) THEN Blame(m, "late")
         ELSE IF ev.i \notin DOMAIN m.at THEN Blame(m, "orphan")
              ELSE IF m.at[ev.i].type # ev.type THEN Blame(m, "type")
                   ELSE IF m.open # ev.i THEN Blame(Grow(m, ev.i, ev.f), "closed")
                        ELSE Grow(m, ev.i, ev.f)
    [] ev.e = "block_stop" ->
         IF m.open # ev.i THEN Blame(m, "order") ELSE [m EXCEPT !.open = Nothing]
    [] ev.e = "message_delta" ->
         IF ~m.started \/ m.open # Nothing \/ m.ends > 0 THEN Blame(m, "order")
         ELSE [(IF ev.stop = "none" THEN m ELSE Stop(m, ev.stop)) EXCEPT
                 !.tokens = [in |-> Given(ev.use.in, @.in), out |-> Given(ev.use.out, @.out),
                             cr |-> Given(ev.use.cr, @.cr), cc |-> @.cc],
                 !.repeats = IF ev.use.cc = Nothing THEN @ ELSE @ + ev.use.cc]
    [] ev.e = "message_stop" ->
         IF m.open # Nothing /\ ~m.failed THEN Blame(End(m), "order") ELSE End(m)
    [] ev.e = "error" -> Fail(m)
    [] OTHER          -> m

-----------------------------------------------------------------------------
(***************************************************************************)
(* OpenAI Responses: items are numbered from 0 and may be under way at the  *)
(* same time; each is closed with its whole content, and the answer is      *)
(* closed with all of them, in the order of their numbers.                  *)
(***************************************************************************)
Item(it) == [type |-> it.type, id |-> it.id, size |-> it.size]

ReadResponses(m, ev) ==
  CASE ev.e = "created" ->
         IF m.started \/ Over(m) THEN Blame(m, "order") ELSE [m EXCEPT !.started = TRUE]
    [] ev.e = "item_added" ->
         IF Over(m) THEN Blame(m, "late")
         ELSE IF ~m.started \/ ev.i # Cardinality(DOMAIN m.at) THEN Blame(m, "order")
              ELSE Begin(m, ev.i, ev.type, ev.id)
    [] ev.e = "item_delta" ->
         IF Over(m) THEN Blame(m, "late")
         ELSE IF ev.i \in DOMAIN m.at /\ m.at[ev.i].type = ev.type
              THEN Grow(m, ev.i, ev.f) ELSE Blame(m, "orphan")
    [] ev.e = "item_done" ->
         IF Over(m) \/ ev.i \notin DOMAIN m.at THEN Blame(m, "order")
         ELSE IF Item(m.at[ev.i]) # ev.item THEN Blame(m, "content")
              ELSE IF ev.i \in m.shut THEN Blame(m, "twice")
                   ELSE [m EXCEPT !.shut = @ \cup {ev.i}]
    [] ev.e \in {"completed", "incomplete"} ->
         LET whole == ev.output = [k \in 1..Cardinality(DOMAIN m.at) |-> Item(m.at[k - 1])]
             m1 == [End(m) EXCEPT !.stop = ev.e, !.cut = ev.e = "incomplete",
                                  !.read = IF Counts(ev.use) THEN ev.use ELSE @]
         IN IF whole /\ m.started /\ m.shut = DOMAIN m.at THEN m1 ELSE Blame(m1, "content")
    [] ev.e = "error" -> Fail(m)
    [] OTHER          -> m

=============================================================================
