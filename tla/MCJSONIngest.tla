---------------------------- MODULE MCJSONIngest ----------------------------
(***************************************************************************)
(* Instances of JSONIngest for TLC.                                        *)
(***************************************************************************)
EXTENDS JSONIngest

CONSTANTS here, there, id1, guid1, f, up

Pair(name, value) == [name |-> name, value |-> value]
MCSample(family, labels, value) ==
    [kind |-> "sample", family |-> family, labels |-> labels, value |-> value]

\* One player four ways: bare, labelled in two orders, with its buid; one with
\* two ids; and a sample of another instance.
Bare == MCSample(up, <<Pair("steam_id", id1)>>, id1)
Labelled == MCSample(up, <<Pair("steam_id", id1), Pair("instance_id", here)>>, here)
Swapped == MCSample(up, <<Pair("instance_id", here), Pair("steam_id", id1)>>, there)
WithBUID == MCSample(up, <<Pair("buid", guid1), Pair("steam_id", id1)>>, guid1)
Doubled == MCSample(up, <<Pair("steam_id", id1), Pair("steam_id", guid1)>>, id1)
Foreign == MCSample(f, <<Pair("instance_id", there)>>, id1)
Plain == MCSample(f, <<>>, here)

MCLines == {Bare, Labelled, Swapped, WithBUID, Doubled, Foreign, Plain,
            [kind |-> "type", family |-> f], Garbage}

MCTokens == MCLines \cup {NotString, SyntaxError}

\* All short bodies, one that is too large, and one that is no array.
MCBodies ==
    {[array |-> TRUE, tokens |-> tokens, end |-> end] :
        tokens \in UNION {[1 .. n -> MCTokens] : n \in 0 .. 3},
        end \in {"bracket", "brace", "cut"}}
    \cup {[array |-> TRUE, tokens |-> [n \in 1 .. 4 |-> Bare], end |-> "bracket"]}
    \cup {[array |-> FALSE, tokens |-> <<>>, end |-> "bracket"]}

MCBUID == [v \in {id1} |-> guid1]
=============================================================================
