---------------------------- MODULE MCSubscriptions ----------------------------
(* Two topics of one instrument and one of another; a token that stands for one *)
(* topic in the storage and for the other in the utility, and an unknown one.   *)
EXTENDS Subscriptions, TLC

CONSTANTS quotes, depth, other, here, there, both, unknown, c1, c2, s1, s2, s3, s4
MCTopics == {quotes, depth, other}
MCInstrumentOf == quotes :> here @@ depth :> here @@ other :> there
MCTokens == {both, unknown}
MCStorageMap == both :> quotes
MCUtilityMap == both :> depth
MCCalls == {c1, c2}
MCSubs == {s1, s2, s3, s4}
Symmetry == Permutations(MCCalls) \cup Permutations(MCSubs)
===============================================================================
