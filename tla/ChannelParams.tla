---------------------------- MODULE ChannelParams -----------------------------
(***************************************************************************)
(* The parameters of the modules about upstream channels, and the row of a  *)
(* channel in table providers as far as they look at it.                   *)
(***************************************************************************)
EXTENDS Integers, FiniteSets

CONSTANTS
  Providers,  \* channel ids
  Threshold,  \* auto_disable_threshold
  MaxFails,   \* bound on consecutive_failures
  MaxEdits,   \* bound on the admin's edits
  NULL, Unused, Deleted

ASSUME ChannelsAssumption ==
  /\ Threshold \in Nat \ {0} /\ MaxFails \in Nat /\ MaxEdits \in Nat
  /\ NULL \notin Providers

\* The credential of a channel: accepted by the upstream, refused by it, or
\* not decryptable by this process.
KeyState == {"good", "bad", "broken"}

\* healthy stands for health_status # 'unhealthy'.
Row == [active : BOOLEAN, healthy : BOOLEAN, fails : 0..MaxFails,
        reason : {"", "auth", "failures"}, key : KeyState]

\* The marks of ids that no row has yet, or has any more.
ASSUME NoRow == Unused # Deleted /\ Unused \notin Row /\ Deleted \notin Row

=============================================================================
