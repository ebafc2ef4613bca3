------------------------------ MODULE MCProgram ------------------------------
(* Lines for TLC: every line of up to MaxItems items, and the two longest   *)
(* lines of the usage text with up to two items put in anywhere.            *)
EXTENDS Program, SequencesExt

CONSTANT MaxItems

(* A flag with a value, one with none, a switch, or a word out of place.   *)
Item == {<<"--configuration", "a">>, <<"--configuration", "b">>,
         <<"--configuration">>, <<"--purpose", "test">>, <<"--purpose", "a">>,
         <<"--node", "a">>, <<"--cluster", "a">>, <<"--account", "a">>,
         <<"--bind", "a">>, <<"--authority", "a">>, <<"--nodes", "a">>,
         <<"--nodes", ",">>, <<"--console">>, <<"--slice">>, <<"--install">>,
         <<"--listening">>, <<"--strange">>, <<"b">>}

Long == {<< <<"--configuration", "a">>, <<"--node", "a">>, <<"--bind", "a">>,
            <<"--nodes", "a">>, <<"--slice">> >>,
         << <<"--install">>, <<"--configuration", "a">>, <<"--node", "a">>,
            <<"--account", "a">>, <<"--cluster", "a">> >>}

PutIn(S) == {InsertAt(s, i, x) : s \in S, i \in 1..6, x \in Item}

MCLines ==
    {FlattenSeq(s) : s \in UNION {[1..n -> Item] : n \in 0..MaxItems}
                            \cup Long \cup PutIn(Long) \cup PutIn(PutIn(Long))}
==============================================================================
