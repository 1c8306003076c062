------------------------------- MODULE MCDesktop -------------------------------
EXTENDS Desktop

\* "b" is in "a", which is in the user's directory, and the group "a" has the name of a
\* profile.
MCParentDir == [a |-> "user", b |-> "a"]
MCWalk == <<"user", "a", "b", "global", "auto">>

\* "h1" is usable, nothing is typed in "", and the port of "bad" is out of range.
WinToken(s, o) == [scheme |-> s, server |-> "w1", open |-> o]
MCWinLists ==
    {<<>>, <<WinToken("http", FALSE), WinToken("socks", FALSE), WinToken("https", FALSE)>>,
     <<WinToken("none", FALSE)>>, <<WinToken("https", TRUE)>>}

\* At first one of the two directories is there, the view is flat, and there are no
\* system profiles.
MCInit ==
    /\ nested = FALSE /\ present \in {{}, {"a"}, {"a", "b"}}
    /\ files \in {f \in [Menus!Dirs -> {{}, Names}] : f["global"] = {}}
    /\ Init
    /\ which = "profiles" => present # {}

MCSpec == MCInit /\ [][Next]_vars /\ Fairness
=============================================================================
