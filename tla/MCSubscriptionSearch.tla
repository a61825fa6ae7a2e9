------------------------- MODULE MCSubscriptionSearch -------------------------
(* A small instance of SubscriptionSearch for TLC.                         *)
EXTENDS SubscriptionSearch, TLC

CONSTANTS p1, p2, s1, s2

\* A request for one subscription or both, then one for the first.
OneOrBoth == <<{{s1}, {s1, s2}}, {{s1}}>>
=============================================================================
