------------------------ MODULE MCDisconnectManager ------------------------
\* The games of the runs of DisconnectManager, over three slots.
EXTENDS DisconnectManager

Three == 0 .. 2

Played(frames, crash, cuts, kick, fair) ==
    [frames |-> frames, crash |-> crash, cut |-> cuts, kick |-> kick, fair |-> fair]

\* One process stops, whichever and whenever.
OneCrash == {Played(2, {p}, {}, {}, TRUE) : p \in Three}

\* One process stops and the others may press Kick.
Kicked == {Played(2, {2}, {}, {0, 1}, TRUE), Played(2, {0}, {}, {1, 2}, TRUE)}

\* Any number of processes stop; the survivors need not get anywhere.
Crashes == {Played(2, Three, {}, {}, FALSE)}

\* Nobody stops, two peers do not reach each other for a while.
Outage == {Played(1, {}, {{0, 1}}, {}, FALSE)}

MCGames == OneCrash \cup Kicked \cup Crashes \cup Outage
=============================================================================
