---------------------------- MODULE MC_ZkillFeed ----------------------------
(* The instance of ZkillFeed for TLC.                                        *)
EXTENDS ZkillFeed

CONSTANTS k1, k2, c1, region, other

TwoKills == {k1, k2}
OneClient == {c1}
TwoTopics == {region, other}

OneKill == {k1}
ListedNumbers == 0..3

\* A killmail listed again, at once or later, and a number without a usable killmail
\* before one that cannot be read.
SomeFeeds == {<<k1, k2, k1>>, <<k1, k1, Unreadable>>,
              <<k1, Undecodable, Unreadable>>}
=============================================================================
