\* Conversations of up to five messages or items with two calls; other settings up to two.
SPECIFICATION Spec
CONSTANTS
  c1 = c1
  c2 = c2
  NoCall = NoCall
  Calls = {c1, c2}
  MaxMessages <- McMaxMessages
  DefaultMax = 9
  Settings <- McSettings
SYMMETRY Symmetry
INVARIANTS SameConversation ProviderAccepts
\* A conversation may be as long as the bound allows.
CHECK_DEADLOCK FALSE
