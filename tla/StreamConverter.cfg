\* Every pair of protocols, streams of up to five OpenAI or eight Anthropic events, two tool calls.
SPECIFICATION Spec
CONSTANTS
  c1 = c1
  c2 = c2
  NoCall = NoCall
  Calls = {c1, c2}
  MaxTok = 5
  MaxEvents <- McMaxEvents
  ToolIx = {0, 1}
  Reports <- McReports
  AnStarts <- McStarts
  AnDeltas <- McDeltas
SYMMETRY Symmetry
INVARIANTS WholeAsStreamed SameMessage ClientOrder OneOutcome CutStaysCut BilledAsReported ToldTheBill
CHECK_DEADLOCK FALSE
