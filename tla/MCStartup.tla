------------------------------ MODULE MCStartup -----------------------------
(***************************************************************************)
(* Instances of Startup for TLC: one text for each thing a start can meet. *)
(***************************************************************************)
EXTENDS Startup

CONSTANTS a, b

Says(parses, updatesOff, servers, gc, maxAge, labels) ==
    [parses |-> parses, updatesOff |-> updatesOff,
     cfg |-> [servers |-> servers, gc |-> gc, geoPath |-> FALSE, geoURL |-> TRUE,
              maxAge |-> maxAge, labels |-> labels]]

Server(id, interval) == [id |-> id,
                         a2s |-> [address |-> TRUE, interval |-> interval],
                         rcon |-> None]

FreeLabel == [name |-> "free", value |-> TRUE]
TakenLabel == [name |-> "taken", value |-> TRUE]

GoodText == Says(TRUE, FALSE, <<Server(a, 0), Server(b, 2)>>, 0, 2, {FreeLabel})
OffText == Says(TRUE, TRUE, <<>>, 1, 0, {})
TwiceText == Says(TRUE, FALSE, <<Server(a, 1), Server(a, 1)>>, 1, 1, {})
PanicText == Says(TRUE, FALSE, <<Server(a, -1)>>, 1, 1, {})
LabelText == Says(TRUE, FALSE, <<>>, 1, 1, {TakenLabel})

MCTexts == {GoodText, TwiceText, PanicText, LabelText}
MCTextsOff == {GoodText, OffText}

MCExample == Says(TRUE, FALSE, <<Server(a, 1)>>, 1, 1, {})
MCBlank == [parses |-> TRUE, updatesOff |-> FALSE, cfg |-> NewConfig]
MCCut == [parses |-> FALSE, updatesOff |-> FALSE, cfg |-> NewConfig]
=============================================================================
