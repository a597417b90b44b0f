----------------------------- MODULE MCRaftStore -----------------------------
(* Values of the constants for the runs of RaftStore. *)
EXTENDS RaftStore, TLC

CONSTANTS w1, w2

TwoWords == {w1, w2}
ShortValues == {<<>>, <<w1>>, <<w2>>, <<w1, w2>>, <<w2, w1>>}

Cmd(method, words) == [method |-> method, words |-> words]

(* One-word and two-word values, a key that is also a word of a value, reads, and
   deletions of one and two keys. *)
AllCommands ==
    {Cmd("SET", <<w1, w2>>), Cmd("SET", <<w2, w1>>), Cmd("SET", <<w1, w2, w1>>),
     Cmd("GET", <<w1>>), Cmd("GET", <<w2>>), Cmd("DEL", <<w1>>), Cmd("DEL", <<w1, w2>>)}

OneRead == {Cmd("GET", <<w1>>)}

WriteReadDelete == {Cmd("SET", <<w1, w2>>), Cmd("GET", <<w1>>), Cmd("DEL", <<w1, w2>>)}

NoNode == {}
FirstNode == {0}
SecondNode == {1}
AllNodes == Nodes
=============================================================================
