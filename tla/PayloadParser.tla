--------------------------- MODULE PayloadParser ----------------------------
(***************************************************************************)
(* ParseAndValidate (internal/parser): from the lines of a body to the     *)
(* metric families that are published for the instance of the URL.         *)
(***************************************************************************)
EXTENDS Integers, Sequences, FiniteSets

CONSTANTS
    None,          \* absent
    Families,      \* names of metric families
    PlayerLoaded,  \* dayz_metricz_player_loaded
    Values,        \* values of labels and samples
    SteamIds,      \* the values that read as an int64
    BUID           \* dzid.BattlEyeString, by steam id

LabelNames == {"instance_id", "steam_id", "buid", "other"}
LabelPair == [name : LabelNames, value : Values]

\* Lines as the text format tells them apart: a sample, the TYPE line of a
\* family, or what does not parse.
Sample == [kind : {"sample"}, family : Families, labels : Seq(LabelPair), value : Values]
TypeLine == [kind : {"type"}, family : Families]
Garbage == [kind |-> "garbage"]
Line == Sample \cup TypeLine \cup {Garbage}

ASSUME ParserAssumption ==
    /\ PlayerLoaded \in Families
    /\ SteamIds \subseteq Values
    /\ BUID \in [SteamIds -> Values]
    /\ None \notin Line

Metric == [family : Families, labels : SUBSET LabelPair, value : Values]

-----------------------------------------------------------------------------
Samples(lines) == {n \in DOMAIN lines : lines[n].kind = "sample"}

Named(labels, name) == {n \in DOMAIN labels : labels[n].name = name}

\* No two labels of a sample have one name.
NamesDistinct(labels) ==
    \A n, k \in DOMAIN labels : labels[n].name = labels[k].name => n = k

\* The text format: the TYPE line of a family comes before its samples, once;
\* a sample does not repeat a label name.
Decodes(lines) ==
    /\ \A n \in DOMAIN lines : lines[n] # Garbage
    /\ \A n \in DOMAIN lines : lines[n].kind = "type" =>
          \A k \in 1 .. n - 1 : lines[k].family # lines[n].family
    /\ \A n \in Samples(lines) : NamesDistinct(lines[n].labels)

First(S) == CHOOSE n \in S : \A k \in S : n <= k
Last(S) == CHOOSE n \in S : \A k \in S : k <= n

\* The buid label, calculated from the steam_id label unless it is there.
Enriched(family, labels) ==
    LET steam == Named(labels, "steam_id") IN
    IF /\ family = PlayerLoaded
       /\ steam # {}
       /\ labels[Last(steam)].value \in SteamIds
       /\ Named(labels, "buid") = {}
    THEN Append(labels, [name |-> "buid", value |-> BUID[labels[Last(steam)].value]])
    ELSE labels

Injected(labels, target) ==
    LET owner == Named(labels, "instance_id") IN
    IF owner = {} THEN Append(labels, [name |-> "instance_id", value |-> target])
    ELSE [labels EXCEPT ![First(owner)].value = target]

\* A label of another instance, which only overwriting lets pass.
Mismatch(labels, target) ==
    LET owner == Named(labels, "instance_id") IN
    owner # {} /\ labels[First(owner)].value # target

FinalLabels(sample, target) == Injected(Enriched(sample.family, sample.labels), target)

\* BUG: labels are hashed in the order they came.
HashUnsorted(labels) == labels

\* getLabelHash of the sorted labels: their order does not matter.
getLabelHash(labels) == {labels[n] : n \in DOMAIN labels}

MetricOf(sample, target) ==
    [family |-> sample.family,
     labels |-> {FinalLabels(sample, target)[n] : n \in DOMAIN FinalLabels(sample, target)},
     value  |-> sample.value]

ParseAndValidateOK(lines, target, overwrite) ==
    /\ Decodes(lines)
    /\ overwrite \/ \A n \in Samples(lines) : ~Mismatch(lines[n].labels, target)

\* Last Write Wins: of the samples that have become the same, the last is kept.
ParseAndValidate(lines, target) ==
    LET Hash(n) == getLabelHash(FinalLabels(lines[n], target))
        Same(n) == {k \in Samples(lines) : /\ lines[k].family = lines[n].family
                                           /\ Hash(k) = Hash(n)}
    IN  {MetricOf(lines[Last(Same(n))], target) : n \in Samples(lines)}
=============================================================================
