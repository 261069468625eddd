-------------------------- MODULE JSONIngestProofs --------------------------
(***************************************************************************)
(* What an ingest request is accepted with and what becomes of it, for     *)
(* bodies of every length: nothing is lost on the way through the pipe,    *)
(* and of the samples of one series the last is published.                 *)
(***************************************************************************)
EXTENDS JSONIngest, FiniteSetTheorems, SequenceTheorems, WellFoundedInduction, TLAPS

-----------------------------------------------------------------------------
(* The last of a set of places in a list.                                  *)

LEMMA LeastOf ==
    ASSUME NEW S, S \subseteq Nat, S # {}
    PROVE  \E n \in S : \A k \in S : n <= k
<1> DEFINE R == OpToRel(<, Nat)
<1>1. PICK n \in S : \A k \in S : ~(<<k, n>> \in R)
  <2>1. IsWellFoundedOn(R, Nat)
    BY NatLessThanWellFounded
  <2> HIDE DEF R
  <2>2. QED
    BY <2>1, WFMin
<1>2. \A k \in Nat : <<k, n>> \in R <=> k < n
  BY DEF OpToRel
<1> HIDE DEF R
<1>3. \A k \in S : n <= k
  <2> SUFFICES ASSUME NEW k \in S PROVE n <= k
    OBVIOUS
  <2>1. k \in Nat /\ n \in Nat
    OBVIOUS
  <2>2. ~(k < n)
    BY <1>1, <1>2, <2>1
  <2>3. QED
    BY <2>1, <2>2
<1>4. QED
  BY <1>3

LEMMA LastOf ==
    ASSUME NEW N \in Nat, NEW S, S \subseteq 1 .. N, S # {}
    PROVE  Last(S) \in S /\ \A k \in S : k <= Last(S)
<1> DEFINE Rest == {N - k : k \in S}
<1>1. \A k \in S : k \in 1 .. N
  OBVIOUS
<1>2. Rest \subseteq Nat /\ Rest # {}
  <2>1. \A k \in S : N - k \in Nat
    BY <1>1
  <2>2. QED
    BY <2>1
<1>3. PICK r \in Rest : \A q \in Rest : r <= q
  BY <1>2, LeastOf
<1>4. PICK n \in S : r = N - n
  BY <1>3
<1>5. ASSUME NEW k \in S
      PROVE  k <= n
  <2>1. k \in 1 .. N /\ n \in 1 .. N
    BY <1>1
  <2>2. N - n <= N - k
    BY <1>3, <1>4
  <2>3. QED
    BY <2>1, <2>2
<1>6. QED
  BY <1>5 DEF Last

LEMMA LastIs ==
    ASSUME NEW S, S \subseteq Nat, NEW n \in S, \A k \in S : k <= n
    PROVE  Last(S) = n
<1>1. \A m \in S : (\A k \in S : k <= m) => m = n
  <2> SUFFICES ASSUME NEW m \in S, \A k \in S : k <= m
               PROVE  m = n
    OBVIOUS
  <2>1. m \in Nat /\ n \in Nat /\ m <= n /\ n <= m
    OBVIOUS
  <2>2. QED
    BY <2>1
<1>2. QED
  BY <1>1 DEF Last

-----------------------------------------------------------------------------
(* The labels of a sample, as a set of pairs.                              *)

Pairs(labels) == {labels[n] : n \in DOMAIN labels}

LEMMA PairsAppended ==
    ASSUME NEW labels \in Seq(LabelPair), NEW p \in LabelPair
    PROVE  /\ Append(labels, p) \in Seq(LabelPair)
           /\ Pairs(Append(labels, p)) = Pairs(labels) \cup {p}
<1>1. /\ DOMAIN labels = 1 .. Len(labels)
      /\ DOMAIN Append(labels, p) = 1 .. Len(labels) + 1
      /\ Len(labels) \in Nat
  OBVIOUS
<1>2. \A n \in 1 .. Len(labels) : Append(labels, p)[n] = labels[n]
  OBVIOUS
<1>3. Append(labels, p)[Len(labels) + 1] = p
  OBVIOUS
<1>4. 1 .. Len(labels) + 1 = (1 .. Len(labels)) \cup {Len(labels) + 1}
  BY <1>1
<1>5. Pairs(Append(labels, p)) = Pairs(labels) \cup {p}
  BY <1>1, <1>2, <1>3, <1>4, Zenon DEF Pairs
<1>6. QED
  BY <1>5

\* Where names are distinct, the labels of one name are at most one.
LEMMA NamedOnce ==
    ASSUME NEW labels \in Seq(LabelPair), NamesDistinct(labels),
           NEW name, NEW n \in Named(labels, name)
    PROVE  /\ n \in DOMAIN labels
           /\ labels[n] \in LabelPair
           /\ labels[n].name = name
           /\ Named(labels, name) = {n}
           /\ First(Named(labels, name)) = n
           /\ Last(Named(labels, name)) = n
<1>1. n \in DOMAIN labels /\ labels[n].name = name
  BY DEF Named
<1>2. labels[n] \in LabelPair /\ n \in Nat
  BY <1>1
<1>3. Named(labels, name) = {n}
  BY <1>1 DEF Named, NamesDistinct
<1>4. QED
  BY <1>1, <1>2, <1>3 DEF First, Last

LEMMA InjectedPairs ==
    ASSUME NEW labels \in Seq(LabelPair), NamesDistinct(labels), NEW target \in Values
    PROVE  Pairs(Injected(labels, target))
           = {p \in Pairs(labels) : p.name # "instance_id"}
             \cup {[name |-> "instance_id", value |-> target]}
<1> DEFINE owner == Named(labels, "instance_id")
           own == [name |-> "instance_id", value |-> target]
<1>1. own \in LabelPair
  BY DEF LabelPair, LabelNames
<1>2. CASE owner = {}
  <2>1. Injected(labels, target) = Append(labels, own)
    BY <1>2 DEF Injected
  <2>2. {p \in Pairs(labels) : p.name # "instance_id"} = Pairs(labels)
    BY <1>2 DEF Pairs, Named
  <2>3. QED
    BY <1>1, <2>1, <2>2, PairsAppended
<1>3. ASSUME NEW n \in owner
      PROVE  Pairs(Injected(labels, target))
             = {p \in Pairs(labels) : p.name # "instance_id"} \cup {own}
  <2>1. /\ n \in DOMAIN labels
        /\ labels[n] \in LabelPair
        /\ labels[n].name = "instance_id"
        /\ owner = {n}
        /\ First(owner) = n
    BY <1>3, NamedOnce
  <2> DEFINE new == [labels EXCEPT ![n].value = target]
  <2>2. Injected(labels, target) = new
    BY <2>1 DEF Injected
  <2>3. new[n] = own
    BY <2>1 DEF LabelPair
  <2>4. \A k \in DOMAIN labels : k # n => new[k] = labels[k]
    BY <2>1
  <2>5. DOMAIN new = DOMAIN labels
    OBVIOUS
  <2>6. \A k \in DOMAIN labels : labels[k].name = "instance_id" <=> k = n
    BY <2>1 DEF Named
  <2> HIDE DEF new, own, owner
  <2>7. Pairs(new) = {p \in Pairs(labels) : p.name # "instance_id"} \cup {own}
    BY <2>1, <2>3, <2>4, <2>5, <2>6, Zenon DEF Pairs
  <2>8. QED
    BY <2>2, <2>7
<1>4. QED
  BY <1>2, <1>3

\* What Series says is added to the labels of a family of players.
BUIDPairs(family, own) ==
    LET steam == {p.value : p \in {q \in own : q.name = "steam_id"}} \cap SteamIds
    IN  IF family = PlayerLoaded /\ \A p \in own : p.name # "buid"
        THEN {[name |-> "buid", value |-> BUID[v]] : v \in steam}
        ELSE {}

LEMMA BUIDPairType ==
    ASSUME NEW v \in SteamIds
    PROVE  [name |-> "buid", value |-> BUID[v]] \in LabelPair
BY ParserAssumption DEF LabelPair, LabelNames

\* A label of a name that is not there keeps the names distinct.
LEMMA AppendDistinct ==
    ASSUME NEW labels \in Seq(LabelPair), NamesDistinct(labels),
           NEW p \in LabelPair, Named(labels, p.name) = {}
    PROVE  NamesDistinct(Append(labels, p))
<1>1. /\ DOMAIN labels = 1 .. Len(labels)
      /\ DOMAIN Append(labels, p) = 1 .. Len(labels) + 1
      /\ Len(labels) \in Nat
  OBVIOUS
<1>2. \A n \in 1 .. Len(labels) : /\ Append(labels, p)[n] = labels[n]
                                  /\ labels[n].name # p.name
  BY DEF Named
<1>3. Append(labels, p)[Len(labels) + 1] = p
  OBVIOUS
<1>4. QED
  BY <1>1, <1>2, <1>3 DEF NamesDistinct

LEMMA EnrichedPairs ==
    ASSUME NEW labels \in Seq(LabelPair), NamesDistinct(labels), NEW family
    PROVE  /\ Enriched(family, labels) \in Seq(LabelPair)
           /\ NamesDistinct(Enriched(family, labels))
           /\ Pairs(Enriched(family, labels))
              = Pairs(labels) \cup BUIDPairs(family, Pairs(labels))
<1> DEFINE steam == Named(labels, "steam_id")
           values == {p.value : p \in {q \in Pairs(labels) : q.name = "steam_id"}}
           Concerned == family = PlayerLoaded /\ Named(labels, "buid") = {}
<1>1. Named(labels, "buid") = {} <=> \A p \in Pairs(labels) : p.name # "buid"
  BY DEF Named, Pairs
<1>2. BUIDPairs(family, Pairs(labels))
      = IF Concerned
        THEN {[name |-> "buid", value |-> BUID[v]] : v \in values \cap SteamIds}
        ELSE {}
  BY <1>1 DEF BUIDPairs
<1>3. CASE steam = {} \/ ~Concerned
  <2>1. Enriched(family, labels) = labels
    BY <1>3 DEF Enriched
  <2>2. steam = {} => values = {}
    BY DEF Named, Pairs
  <2>3. BUIDPairs(family, Pairs(labels)) = {}
    BY <1>2, <1>3, <2>2
  <2>4. QED
    BY <2>1, <2>3
<1>4. ASSUME NEW n \in steam, Concerned
      PROVE  /\ Enriched(family, labels) \in Seq(LabelPair)
             /\ NamesDistinct(Enriched(family, labels))
             /\ Pairs(Enriched(family, labels))
                = Pairs(labels) \cup BUIDPairs(family, Pairs(labels))
  <2>1. /\ n \in DOMAIN labels
        /\ steam = {n}
        /\ Last(steam) = n
    BY <1>4, NamedOnce
  <2>2. values = {labels[n].value}
    BY <2>1 DEF Named, Pairs
  <2>3. CASE labels[n].value \notin SteamIds
    <3>1. Enriched(family, labels) = labels
      BY <2>1, <2>3 DEF Enriched
    <3>2. BUIDPairs(family, Pairs(labels)) = {}
      BY <1>2, <2>2, <2>3
    <3>3. QED
      BY <3>1, <3>2
  <2>4. CASE labels[n].value \in SteamIds
    <3> DEFINE p == [name |-> "buid", value |-> BUID[labels[n].value]]
    <3>1. Enriched(family, labels) = Append(labels, p)
      BY <1>4, <2>1, <2>4 DEF Enriched
    <3>2. p \in LabelPair /\ p.name = "buid"
      BY <2>4, BUIDPairType
    <3>3. BUIDPairs(family, Pairs(labels)) = {p}
      BY <1>2, <1>4, <2>2, <2>4
    <3> HIDE DEF p
    <3>4. QED
      BY <1>4, <3>1, <3>2, <3>3, PairsAppended, AppendDistinct
  <2>5. QED
    BY <2>3, <2>4
<1>5. QED
  BY <1>3, <1>4

\* What becomes of the labels of a sample is what Series says.
LEMMA FinalPairs ==
    ASSUME NEW sample \in Sample, NamesDistinct(sample.labels)
    PROVE  /\ Series(sample).family = sample.family
           /\ Series(sample).labels = getLabelHash(FinalLabels(sample, Target))
           /\ Series(sample) = [family |-> Series(sample).family,
                                labels |-> Series(sample).labels]
           /\ MetricOf(sample, Target) = [family |-> Series(sample).family,
                                          labels |-> Series(sample).labels,
                                          value  |-> sample.value]
<1> DEFINE own == Pairs(sample.labels)
           here == [name |-> "instance_id", value |-> Target]
           added == BUIDPairs(sample.family, own)
           enriched == Enriched(sample.family, sample.labels)
<1>1. sample.labels \in Seq(LabelPair) /\ Target \in Values
  BY JSONAssumption DEF Sample
<1>2. Series(sample) = [family |-> sample.family,
                        labels |-> {p \in own : p.name # "instance_id"}
                                   \cup {here} \cup added]
  BY DEF Series, Pairs, BUIDPairs
<1>3. /\ enriched \in Seq(LabelPair)
      /\ NamesDistinct(enriched)
      /\ Pairs(enriched) = own \cup added
  BY <1>1, EnrichedPairs
<1>4. \A p \in added : p.name # "instance_id"
  BY DEF BUIDPairs
<1> HIDE DEF own, here, added, enriched
<1>5. Pairs(FinalLabels(sample, Target))
      = {p \in own \cup added : p.name # "instance_id"} \cup {here}
  BY <1>1, <1>3, InjectedPairs DEF FinalLabels, enriched, here
<1>6. {p \in own \cup added : p.name # "instance_id"}
      = {p \in own : p.name # "instance_id"} \cup added
  BY <1>4
<1>7. Series(sample).labels = Pairs(FinalLabels(sample, Target))
  BY <1>2, <1>5, <1>6
<1>8. Series(sample).family = sample.family
  BY <1>2
<1>9. Series(sample) = [family |-> Series(sample).family,
                        labels |-> Series(sample).labels]
  BY <1>2
<1>10. getLabelHash(FinalLabels(sample, Target)) = Pairs(FinalLabels(sample, Target))
  BY DEF getLabelHash, Pairs
<1>11. MetricOf(sample, Target) = [family |-> sample.family,
                                   labels |-> Pairs(FinalLabels(sample, Target)),
                                   value  |-> sample.value]
  BY Zenon DEF MetricOf, Pairs
<1>12. QED
  BY <1>7, <1>8, <1>9, <1>10, <1>11

\* Of the samples that become one series the last is kept: what ParseAndValidate
\* returns of a body that decodes, said with the identity of a series.
LEMMA LastSampleWins ==
    ASSUME NEW lines \in Seq(Line), Decodes(lines)
    PROVE  ParseAndValidate(lines, Target) =
             {[family |-> Series(lines[n]).family,
               labels |-> Series(lines[n]).labels,
               value  |-> lines[n].value] :
                 n \in {k \in Samples(lines) :
                          \A j \in Samples(lines) :
                             j > k => Series(lines[j]) # Series(lines[k])}}
<1> DEFINE Hash(n) == getLabelHash(FinalLabels(lines[n], Target))
           Same(n) == {k \in Samples(lines) : /\ lines[k].family = lines[n].family
                                              /\ Hash(k) = Hash(n)}
           Final == {k \in Samples(lines) :
                       \A j \in Samples(lines) :
                          j > k => Series(lines[j]) # Series(lines[k])}
           Published(n) == [family |-> Series(lines[n]).family,
                            labels |-> Series(lines[n]).labels,
                            value  |-> lines[n].value]
<1>1. Samples(lines) \subseteq 1 .. Len(lines) /\ Len(lines) \in Nat
  BY DEF Samples
<1>2. ASSUME NEW n \in Samples(lines)
      PROVE  lines[n] \in Sample /\ NamesDistinct(lines[n].labels)
  <2>1. lines[n] \in Line /\ lines[n].kind = "sample"
    BY <1>1 DEF Samples
  <2>2. lines[n] \in Sample
    BY <2>1 DEF Line, TypeLine, Garbage
  <2>3. QED
    BY <2>2 DEF Decodes
<1>3. ASSUME NEW n \in Samples(lines)
      PROVE  /\ Hash(n) = Series(lines[n]).labels
             /\ lines[n].family = Series(lines[n]).family
             /\ Series(lines[n]) = [family |-> Series(lines[n]).family,
                                    labels |-> Series(lines[n]).labels]
             /\ MetricOf(lines[n], Target) = Published(n)
  BY <1>2, FinalPairs
<1>4. ASSUME NEW n \in Samples(lines), NEW k \in Samples(lines)
      PROVE  k \in Same(n) <=> Series(lines[k]) = Series(lines[n])
  BY <1>3
<1>5. ASSUME NEW n \in Samples(lines)
      PROVE  Last(Same(n)) \in Same(n) /\ \A k \in Same(n) : k <= Last(Same(n))
  <2>1. n \in Same(n) /\ Same(n) \subseteq 1 .. Len(lines)
    BY <1>1, <1>4
  <2> HIDE DEF Same
  <2>2. QED
    BY <1>1, <2>1, LastOf
<1>6. ParseAndValidate(lines, Target)
      = {MetricOf(lines[Last(Same(n))], Target) : n \in Samples(lines)}
  BY DEF ParseAndValidate
<1>7. \A n \in Samples(lines) : Same(n) \subseteq Samples(lines)
  OBVIOUS
<1> HIDE DEF Same, Hash, Published
<1>8. ASSUME NEW n \in Samples(lines)
      PROVE  /\ Last(Same(n)) \in Final
             /\ MetricOf(lines[Last(Same(n))], Target) = Published(Last(Same(n)))
  <2>1. /\ Last(Same(n)) \in Samples(lines)
        /\ Series(lines[Last(Same(n))]) = Series(lines[n])
    BY <1>4, <1>5, <1>7
  <2>2. ASSUME NEW j \in Samples(lines), j > Last(Same(n))
        PROVE  Series(lines[j]) # Series(lines[n])
    <3>1. j \in Nat /\ Last(Same(n)) \in Nat
      BY <1>1, <2>1
    <3>2. j \notin Same(n)
      BY <1>5, <2>2, <3>1
    <3>3. QED
      BY <1>4, <3>2
  <2>3. QED
    BY <1>3, <2>1, <2>2
<1>9. ASSUME NEW n \in Final
      PROVE  n \in Samples(lines) /\ Last(Same(n)) = n
  <2>1. n \in Samples(lines) /\ n \in Same(n)
    BY <1>4
  <2>2. ASSUME NEW k \in Same(n)
        PROVE  k <= n
    <3>1. k \in Samples(lines) /\ k \in Nat /\ n \in Nat
      BY <1>1, <1>7, <2>1
    <3>2. ~(k > n)
      BY <1>4, <2>1, <2>2, <3>1
    <3>3. QED
      BY <3>1, <3>2
  <2>3. Same(n) \subseteq Nat
    BY <1>1, <1>7, <2>1
  <2>4. QED
    BY <2>1, <2>2, <2>3, LastIs
<1> HIDE DEF Final
<1>10. {MetricOf(lines[Last(Same(n))], Target) : n \in Samples(lines)}
       = {Published(n) : n \in Final}
  BY <1>8, <1>9
<1>11. QED
  BY <1>6, <1>10 DEF Published, Final

-----------------------------------------------------------------------------
(* The way of a body through the pipe.                                     *)

ResultOK == result = None \/ result = Refused \/ \E lines \in Seq(Line) : result = Taken(lines)

JSONTypeOK ==
    /\ handler \in {"single", "chunk", "bad_seq", "commit"}
    /\ format \in {"json", "text"}
    /\ overwrite \in BOOLEAN
    /\ sent \in Bodies
    /\ pos \in 0 .. Len(sent.tokens)
    /\ translator \in {"head", "next", "write", "ended"}
    /\ pipe \in Line \cup {None}
    /\ pw \in {"open", "eof", "error"}
    /\ pr \in {"open", "closed"}
    /\ reading \in BOOLEAN
    /\ got \in Seq(Line)
    /\ ResultOK

\* Short of an error, the line in the pipe is the one after those the handler
\* has; the writing side is closed without one only behind the last token.
PipeInv ==
    /\ pw # "error" => pos = Len(got) + (IF pipe = None THEN 0 ELSE 1)
    /\ pipe # None => translator = "write" /\ pipe = sent.tokens[pos]
    /\ translator # "ended" => pw = "open"
    /\ translator \in {"next", "write"} => sent.array
    /\ pw = "eof" => sent.array /\ pos = Len(sent.tokens)

TextInv ==
    /\ sent.array
    /\ Lines(sent.tokens) = DOMAIN sent.tokens
    /\ translator = "ended"
    /\ pipe = None
    /\ reading => pos = Len(got)

\* What has been read is the beginning of what was sent.
TransferInv ==
    /\ pr = "closed" \/ result # None => ~reading
    /\ reading => \A n \in 1 .. Len(got) : n <= pos /\ got[n] = sent.tokens[n]
    /\ reading /\ format = "json" => PipeInv
    /\ format = "text" => TextInv

Whole ==
    /\ sent.array
    /\ Lines(sent.tokens) = DOMAIN sent.tokens
    /\ got = sent.tokens

AcceptedInv ==
    Accepted => /\ Whole
                /\ handler = "single" => result = Taken(got) /\ Decodes(got)

JSONInv == JSONTypeOK /\ TransferInv /\ AcceptedInv

LEMMA SentType ==
    ASSUME JSONTypeOK
    PROVE  /\ sent.tokens \in Seq(Token)
           /\ Len(sent.tokens) \in Nat
           /\ DOMAIN sent.tokens = 1 .. Len(sent.tokens)
           /\ Len(got) \in Nat
<1>1. sent \in Body
  BY JSONAssumption DEF JSONTypeOK
<1>2. sent.tokens \in Seq(Token)
  BY <1>1 DEF Body
<1>3. QED
  BY <1>2 DEF JSONTypeOK

LEMMA JSONInitInv == ASSUME JSONInit PROVE JSONInv
<1>1. sent.tokens \in Seq(Token)
  BY JSONAssumption DEF JSONInit, Body
<1>2. JSONTypeOK
  BY <1>1 DEF JSONInit, JSONTypeOK, ResultOK
<1>3. TransferInv
  BY <1>1 DEF JSONInit, TransferInv, PipeInv, TextInv
<1>4. AcceptedInv
  BY DEF JSONInit, AcceptedInv, Accepted
<1>5. QED
  BY <1>2, <1>3, <1>4 DEF JSONInv

\* The translator leaves the handler's side alone.
LEMMA TranslatorKeeps ==
    ASSUME JSONInv, TranslatorStep
    PROVE  JSONInv'
<1>1. JSONTypeOK /\ TransferInv /\ AcceptedInv
  BY DEF JSONInv
<1>2. UNCHANGED <<handler, format, overwrite, sent, pr, reading, got, result>>
  BY DEF TranslatorStep, ArrayStart, NextLine, NextBroken, NoMore, Written,
         WriteRefused, request
<1>3. /\ sent.tokens \in Seq(Token) /\ Len(sent.tokens) \in Nat
      /\ Len(got) \in Nat /\ pos \in Nat
  BY <1>1, SentType DEF JSONTypeOK
<1>4. format = "json"
  BY <1>1 DEF JSONTypeOK, TransferInv, TextInv, TranslatorStep, ArrayStart, NextLine,
              NextBroken, NoMore, Written, WriteRefused
<1>5. JSONTypeOK'
  <2>1. /\ pos' \in 0 .. Len(sent.tokens)
        /\ pos' >= pos
    BY <1>1, <1>3 DEF JSONTypeOK, TranslatorStep, ArrayStart, NextLine, NextBroken,
                      NoMore, Written, WriteRefused
  <2>2. /\ translator' \in {"head", "next", "write", "ended"}
        /\ pw' \in {"open", "eof", "error"}
    BY <1>1 DEF JSONTypeOK, TranslatorStep, ArrayStart, NextLine, NextBroken, NoMore,
                Written, WriteRefused, End, ClosePipe
  <2>3. pipe' \in Line \cup {None}
    BY <1>1 DEF JSONTypeOK, TranslatorStep, ArrayStart, NextLine, NextBroken, NoMore,
                Written, WriteRefused
  <2>4. QED
    BY <1>1, <1>2, <2>1, <2>2, <2>3 DEF JSONTypeOK, ResultOK
<1>6. pos' >= pos
  BY <1>3 DEF TranslatorStep, ArrayStart, NextLine, NextBroken, NoMore, Written, WriteRefused
<1>7. ASSUME reading
      PROVE  PipeInv'
  <2>1. PipeInv /\ pr = "open"
    BY <1>1, <1>4, <1>7 DEF TransferInv, JSONTypeOK
  <2>2. CASE ArrayStart
    BY <1>2, <2>1, <2>2 DEF PipeInv, ArrayStart, End, ClosePipe
  <2>3. CASE NextLine
    <3>1. pipe = None /\ pipe' # None
      BY <2>1, <2>3, ParserAssumption DEF PipeInv, NextLine
    <3>2. QED
      BY <1>2, <1>3, <2>1, <2>3, <3>1 DEF PipeInv, NextLine
  <2>4. CASE NextBroken
    BY <1>2, <1>3, <2>1, <2>4 DEF PipeInv, NextBroken, End, ClosePipe
  <2>5. CASE NoMore
    BY <1>2, <1>3, <1>7, <2>1, <2>5 DEF PipeInv, NoMore, End, ClosePipe
  <2>6. CASE Written
    BY <1>2, <2>1, <2>6 DEF PipeInv, Written
  <2>7. CASE WriteRefused
    BY <2>1, <2>7 DEF WriteRefused
  <2>8. QED
    BY <2>2, <2>3, <2>4, <2>5, <2>6, <2>7 DEF TranslatorStep
<1>8. TransferInv'
  BY <1>1, <1>2, <1>3, <1>4, <1>5, <1>6, <1>7 DEF TransferInv, JSONTypeOK
<1>9. AcceptedInv'
  BY <1>1, <1>2 DEF AcceptedInv, Accepted, Whole
<1>10. QED
  BY <1>5, <1>8, <1>9 DEF JSONInv

LEMMA AppendKeeps ==
    ASSUME JSONInv, reading, NEW line \in Line, got' = Append(got, line),
           sent' = sent, pos' \in Nat, pos' >= pos,
           pos' >= Len(got) + 1, sent.tokens[Len(got) + 1] = line
    PROVE  /\ got' \in Seq(Line)
           /\ Len(got') = Len(got) + 1
           /\ \A n \in 1 .. Len(got') : n <= pos' /\ got'[n] = sent'.tokens[n]
<1>1. JSONTypeOK /\ TransferInv
  BY DEF JSONInv
<1>2. got \in Seq(Line) /\ Len(got) \in Nat /\ pos \in Nat
  BY <1>1, SentType DEF JSONTypeOK
<1>3. got' \in Seq(Line) /\ Len(got') = Len(got) + 1
  BY <1>2
<1>4. ASSUME NEW n \in 1 .. Len(got')
      PROVE  n <= pos' /\ got'[n] = sent'.tokens[n]
  <2>1. CASE n = Len(got) + 1
    BY <1>2, <2>1
  <2>2. CASE n # Len(got) + 1
    <3>1. n \in 1 .. Len(got)
      BY <1>2, <1>3, <2>2
    <3>2. n <= pos /\ got[n] = sent.tokens[n]
      BY <1>1, <3>1 DEF TransferInv
    <3>3. QED
      BY <1>2, <3>1, <3>2
  <2>3. QED
    BY <2>1, <2>2
<1>5. QED
  BY <1>3, <1>4

LEMMA ReadLineKeeps ==
    ASSUME JSONInv, ReadLine
    PROVE  JSONInv'
<1>1. JSONTypeOK /\ TransferInv /\ reading /\ result = None
  BY DEF JSONInv, ReadLine, Reads, TransferInv
<1>2. UNCHANGED <<handler, format, overwrite, sent, translator, pw, pr, reading, result>>
  BY DEF ReadLine, request
<1>3. /\ DOMAIN sent.tokens = 1 .. Len(sent.tokens) /\ Len(sent.tokens) \in Nat
      /\ Len(got) \in Nat /\ pos \in Nat
  BY <1>1, SentType DEF JSONTypeOK
<1>4. CASE format = "json"
  <2>1. pipe # None /\ got' = Append(got, pipe) /\ pipe' = None /\ pos' = pos
    BY <1>4 DEF ReadLine
  <2>2. PipeInv
    BY <1>1, <1>4 DEF TransferInv
  <2>3. pos = Len(got) + 1 /\ pipe = sent.tokens[pos] /\ pipe \in Line
    BY <1>1, <2>1, <2>2 DEF PipeInv, JSONTypeOK
  <2>4. /\ got' \in Seq(Line)
        /\ Len(got') = Len(got) + 1
        /\ \A n \in 1 .. Len(got') : n <= pos' /\ got'[n] = sent'.tokens[n]
    BY <1>1, <1>2, <1>3, <2>1, <2>3, AppendKeeps
  <2>5. JSONTypeOK'
    BY <1>1, <1>2, <2>1, <2>4 DEF JSONTypeOK, ResultOK
  <2>6. PipeInv'
    BY <1>2, <1>3, <2>1, <2>2, <2>3, <2>4 DEF PipeInv
  <2>7. QED
    BY <1>1, <1>2, <1>4, <2>4, <2>5, <2>6 DEF JSONInv, TransferInv, AcceptedInv, Accepted
<1>5. CASE format = "text"
  <2>1. /\ pos < Len(sent.tokens) /\ got' = Append(got, sent.tokens[pos + 1])
        /\ pos' = pos + 1 /\ pipe' = pipe
    BY <1>5 DEF ReadLine
  <2>2. TextInv /\ pos = Len(got)
    BY <1>1, <1>5 DEF TransferInv, TextInv
  <2>3. pos + 1 \in DOMAIN sent.tokens
    BY <1>3, <2>1
  <2>4. sent.tokens[pos + 1] \in Line
    BY <2>2, <2>3 DEF TextInv, Lines
  <2>5. /\ got' \in Seq(Line)
        /\ Len(got') = Len(got) + 1
        /\ \A n \in 1 .. Len(got') : n <= pos' /\ got'[n] = sent'.tokens[n]
    BY <1>1, <1>2, <1>3, <2>1, <2>2, <2>4, AppendKeeps
  <2>6. pos' \in 0 .. Len(sent.tokens)
    BY <1>3, <2>1
  <2>7. JSONTypeOK'
    BY <1>1, <1>2, <2>1, <2>5, <2>6 DEF JSONTypeOK, ResultOK
  <2>8. TextInv'
    BY <1>2, <2>1, <2>2, <2>5 DEF TextInv, Lines
  <2>9. QED
    BY <1>1, <1>2, <1>5, <2>5, <2>7, <2>8 DEF JSONInv, TransferInv, AcceptedInv, Accepted
<1>6. QED
  BY <1>1, <1>4, <1>5 DEF JSONTypeOK

\* A request that is refused needs no more than its types.
LEMMA RefusalKeeps ==
    ASSUME JSONInv, NEW closes \in BOOLEAN, Finish(Refused, closes),
           UNCHANGED <<handler, format, overwrite, sent, pos, translator, pw, got>>,
           pipe' \in {pipe, None}
    PROVE  JSONInv'
<1>1. JSONTypeOK /\ TransferInv
  BY DEF JSONInv
<1>2. reading' = FALSE /\ result' = Refused /\ pr' \in {pr, "closed"}
  BY DEF Finish
<1>3. JSONTypeOK'
  <2>1. ResultOK'
    BY <1>2 DEF ResultOK
  <2>2. pipe' \in Line \cup {None} /\ pr' \in {"open", "closed"}
    BY <1>1, <1>2 DEF JSONTypeOK
  <2>3. QED
    BY <1>1, <1>2, <2>1, <2>2 DEF JSONTypeOK
<1>4. TransferInv'
  BY <1>1, <1>2 DEF TransferInv, TextInv, Lines
<1>5. AcceptedInv'
  BY <1>2 DEF AcceptedInv, Accepted, Refused
<1>6. QED
  BY <1>3, <1>4, <1>5 DEF JSONInv

\* At the end of the body the handler has all of it.
LEMMA EndIsWhole ==
    ASSUME JSONInv, reading, EndOfBody, pipe = None
    PROVE  Whole
<1>1. JSONTypeOK /\ TransferInv
  BY DEF JSONInv
<1>2. /\ sent.tokens \in Seq(Token) /\ Len(sent.tokens) \in Nat
      /\ DOMAIN sent.tokens = 1 .. Len(sent.tokens)
      /\ got \in Seq(Line) /\ Len(got) \in Nat
  BY <1>1, SentType DEF JSONTypeOK
<1>3. /\ sent.array
      /\ Len(got) = Len(sent.tokens)
  <2>1. CASE format = "json"
    BY <1>1, <1>2, <2>1 DEF TransferInv, PipeInv, EndOfBody
  <2>2. CASE format = "text"
    BY <1>1, <1>2, <2>2 DEF TransferInv, TextInv, EndOfBody, EndOfText
  <2>3. QED
    BY <1>1, <2>1, <2>2 DEF JSONTypeOK
<1>4. \A n \in 1 .. Len(got) : got[n] = sent.tokens[n]
  BY <1>1 DEF TransferInv
<1>5. got \in Seq(Token)
  BY <1>2, SeqMonotonic DEF Token
<1>6. got = sent.tokens
  BY <1>2, <1>3, <1>4, <1>5, SeqEqual
<1>7. Lines(sent.tokens) = DOMAIN sent.tokens
  BY <1>2, <1>6 DEF Lines
<1>8. QED
  BY <1>3, <1>6, <1>7 DEF Whole

LEMMA AcceptanceKeeps ==
    ASSUME JSONInv, Reads, EndOfBody, pipe = None, Finish(Taken(got), TRUE),
           UNCHANGED <<handler, format, overwrite, sent, pos, translator, pipe, pw, got>>,
           handler = "single" => Decodes(got)
    PROVE  JSONInv'
<1>1. JSONTypeOK /\ TransferInv
  BY DEF JSONInv
<1>2. reading' = FALSE /\ result' = Taken(got) /\ pr' \in {pr, "closed"}
  BY DEF Finish
<1>3. Whole
  BY EndIsWhole DEF Reads
<1>4. JSONTypeOK'
  <2>1. ResultOK'
    BY <1>1, <1>2 DEF ResultOK, JSONTypeOK
  <2>2. pr' \in {"open", "closed"}
    BY <1>1, <1>2 DEF JSONTypeOK
  <2>3. QED
    BY <1>1, <1>2, <2>1, <2>2 DEF JSONTypeOK
<1>5. TransferInv'
  BY <1>1, <1>2 DEF TransferInv, TextInv, Lines
<1>6. AcceptedInv'
  BY <1>2, <1>3 DEF AcceptedInv, Whole, Lines, Taken
<1>7. QED
  BY <1>4, <1>5, <1>6 DEF JSONInv

LEMMA JSONNextInv ==
    ASSUME JSONInv, [JSONNext]_jsonVars
    PROVE  JSONInv'
<1>1. CASE TranslatorStep
  BY <1>1, TranslatorKeeps
<1>2. CASE ReadLine
  BY <1>2, ReadLineKeeps
<1>3. CASE TooLarge
  BY <1>3, RefusalKeeps DEF TooLarge, request
<1>4. CASE ReadFails
  BY <1>4, RefusalKeeps DEF ReadFails, request
<1>5. CASE ParserGivesUp
  BY <1>5, RefusalKeeps DEF ParserGivesUp, request
<1>6. CASE BadSeqID \/ CommitEnds
  BY <1>6, RefusalKeeps DEF BadSeqID, CommitEnds, request
<1>7. CASE SingleShotEnds
  <2>1. CASE ParseAndValidateOK(got, Target, overwrite)
    BY <1>7, <2>1, AcceptanceKeeps DEF SingleShotEnds, ParseAndValidateOK, request
  <2>2. CASE ~ParseAndValidateOK(got, Target, overwrite)
    BY <1>7, <2>2, RefusalKeeps DEF SingleShotEnds, request
  <2>3. QED
    BY <2>1, <2>2
<1>8. CASE ChunkEnds
  BY <1>8, AcceptanceKeeps DEF ChunkEnds, request
<1>9. CASE UNCHANGED jsonVars
  BY <1>9 DEF jsonVars, request, JSONInv, JSONTypeOK, ResultOK, TransferInv, PipeInv, TextInv,
              AcceptedInv, Accepted, Whole, Lines, Decodes, NamesDistinct, Samples
<1>10. QED
  BY <1>1, <1>2, <1>3, <1>4, <1>5, <1>6, <1>7, <1>8, <1>9 DEF JSONNext, HandlerStep

\* The inductive invariant: what the handler has is the beginning of what was
\* sent, with at most the line in the pipe between it and the translator.
THEOREM JSONCorrect == JSONSpec => []JSONInv
BY JSONInitInv, JSONNextInv, PTL DEF JSONSpec

-----------------------------------------------------------------------------
\* What a request is accepted with is what was sent: nothing lost, repeated
\* or reordered on the way through the pipe, however long the body and
\* however the two goroutines interleave.
THEOREM AcceptedWholeCorrect == JSONSpec => []AcceptedWhole
<1>1. JSONInv => AcceptedWhole
  BY DEF JSONInv, AcceptedInv, Whole, AcceptedWhole
<1>2. QED
  BY <1>1, JSONCorrect, PTL

\* Of an accepted single-shot body every series is published once, with the
\* value sent last, whatever the order of its labels and whether it came with
\* the calculated ones.
THEOREM LastWriteWinsCorrect == JSONSpec => []LastWriteWins
<1>1. JSONInv => LastWriteWins
  <2> SUFFICES ASSUME JSONInv, Accepted, handler = "single"
               PROVE  LastWriteWins
    BY DEF LastWriteWins
  <2>1. got = sent.tokens /\ result = Taken(got) /\ Decodes(got) /\ got \in Seq(Line)
    BY DEF JSONInv, AcceptedInv, Whole, JSONTypeOK
  <2>2. result.lines = sent.tokens
    BY <2>1 DEF Taken
  <2>3. QED
    BY <2>1, <2>2, LastSampleWins DEF LastWriteWins
<1>2. QED
  BY <1>1, JSONCorrect, PTL

-----------------------------------------------------------------------------
(* Both goroutines come to an end but for the pipe nobody reads on: the     *)
(* part of HandlerEnds and TranslatorEnds that is no matter of fairness.    *)

\* Where a goroutine is sure to have a next step: the handler waits for
\* nothing but the pipe, and the translator for nothing but to be read.
HandlerGoesOn ==
    /\ reading
    /\ format = "json" => handler \in {"bad_seq", "commit"} \/ pipe # None \/ pw # "open"

TranslatorGoesOn ==
    \/ translator \in {"head", "next"}
    \/ translator = "write" /\ (pipe = None \/ pr = "closed")

\* The handler left without closing the pipe, and there were lines left.
PipeLeft ==
    /\ ~reading
    /\ \/ handler \in {"bad_seq", "commit"}
       \/ handler = "chunk" /\ Cardinality(Lines(sent.tokens)) > MaxBodyLines

\* While one of the two is not done, one of the two can go on.
NoDeadlock ==
    reading \/ translator # "ended" => HandlerGoesOn \/ TranslatorGoesOn \/ PipeLeft

WaitInv ==
    format = "json" =>
        /\ translator = "ended" => pw # "open"
        /\ pipe # None => translator = "write"
        /\ ~reading /\ translator # "ended" => pr = "closed" \/ PipeLeft

\* Steps that are left at most: four for a token, those of the translator
\* outside of them, a line that is taken or dropped, the end of the handler.
TranslatorLeft ==
    IF translator = "ended" THEN 0 ELSE IF translator = "next" THEN 1 ELSE 2

LineLeft == IF pipe = None THEN 0 ELSE 1
HandlerLeft == IF reading THEN 1 ELSE 0

StepsLeft ==
    4 * (Len(sent.tokens) - pos) + TranslatorLeft + LineLeft + HandlerLeft

\* A chunk handler that stops at the limit has been sent more lines than it.
LEMMA TooManyLines ==
    ASSUME JSONInv, TooLarge, format = "json"
    PROVE  Cardinality(Lines(sent.tokens)) > MaxBodyLines
<1>1. JSONTypeOK /\ TransferInv /\ PipeInv
  BY DEF JSONInv, TransferInv, TooLarge, Reads
<1>2. /\ DOMAIN sent.tokens = 1 .. Len(sent.tokens) /\ Len(sent.tokens) \in Nat
      /\ pos \in 0 .. Len(sent.tokens)
  BY <1>1, SentType DEF JSONTypeOK
<1>3. /\ pos = MaxBodyLines + 1
      /\ sent.tokens[pos] \in Line
      /\ \A n \in 1 .. MaxBodyLines : sent.tokens[n] \in Line
  <2>1. pipe # None /\ Len(got) = MaxBodyLines /\ reading
    BY DEF TooLarge, Reads
  <2>2. translator = "write" /\ pipe = sent.tokens[pos] /\ pw = "open" /\ pipe \in Line
    BY <1>1, <2>1 DEF PipeInv, JSONTypeOK
  <2>3. pos = MaxBodyLines + 1
    BY <1>1, <2>1, <2>2 DEF PipeInv
  <2>4. \A n \in 1 .. MaxBodyLines : got[n] \in Line /\ got[n] = sent.tokens[n]
    BY <1>1, <2>1 DEF TransferInv, JSONTypeOK
  <2>5. QED
    BY <2>2, <2>3, <2>4
<1>4. MaxBodyLines \in Nat
  BY JSONAssumption
<1>5. 1 .. (MaxBodyLines + 1) \subseteq Lines(sent.tokens)
  BY <1>2, <1>3, <1>4 DEF Lines
<1>6. IsFiniteSet(Lines(sent.tokens))
  <2>1. IsFiniteSet(DOMAIN sent.tokens)
    BY <1>2, FS_Interval
  <2>2. Lines(sent.tokens) \in SUBSET (DOMAIN sent.tokens)
    BY DEF Lines
  <2>3. QED
    BY <2>1, <2>2, FS_Subset
<1>7. Cardinality(1 .. (MaxBodyLines + 1)) = MaxBodyLines + 1
  BY <1>4, FS_Interval
<1>8. Cardinality(1 .. (MaxBodyLines + 1)) <= Cardinality(Lines(sent.tokens))
  BY <1>5, <1>6, FS_Subset
<1>9. Cardinality(Lines(sent.tokens)) \in Nat
  BY <1>6, FS_CardinalityType
<1>10. QED
  BY <1>4, <1>7, <1>8, <1>9

LEMMA WaitInvKept ==
    ASSUME JSONInv, WaitInv, JSONNext
    PROVE  WaitInv'
<1>1. JSONTypeOK /\ TransferInv
  BY DEF JSONInv
<1>2. CASE TranslatorStep
  BY <1>1, <1>2 DEF JSONTypeOK, WaitInv, PipeLeft, Lines, TranslatorStep, ArrayStart, NextLine,
     NextBroken, NoMore, Written, WriteRefused, End, ClosePipe, request
<1>3. CASE ReadLine
  BY <1>3 DEF WaitInv, ReadLine, Reads, PipeLeft, request
<1>4. CASE TooLarge
  <2>1. CASE handler = "chunk" /\ format = "json"
    BY <1>4, <2>1, TooManyLines DEF WaitInv, TooLarge, Finish, PipeLeft, Lines, request
  <2>2. CASE ~(handler = "chunk" /\ format = "json")
    BY <1>1, <1>4, <2>2 DEF JSONTypeOK, WaitInv, TooLarge, Finish, Reads, request
  <2>3. QED
    BY <2>1, <2>2
<1>5. CASE ReadFails
  BY <1>1, <1>5 DEF TransferInv, PipeInv, WaitInv, ReadFails, ReadError, Finish, Reads, request
<1>6. CASE ParserGivesUp \/ SingleShotEnds \/ ChunkEnds
  BY <1>6 DEF WaitInv, ParserGivesUp, SingleShotEnds, ChunkEnds, Finish, request
<1>7. CASE BadSeqID \/ CommitEnds
  BY <1>7 DEF WaitInv, BadSeqID, CommitEnds, Finish, PipeLeft, request
<1>8. QED
  BY <1>2, <1>3, <1>4, <1>5, <1>6, <1>7 DEF JSONNext, HandlerStep

\* The two goroutines never wait for each other, and neither for one that has
\* gone, except the translator of a handler that left the pipe open: one for a
\* commit, for a chunk without a number, or for a chunk found too large.
THEOREM NoDeadlockCorrect == JSONSpec => []NoDeadlock
<1>1. JSONInit => WaitInv
  BY DEF JSONInit, WaitInv
<1>2. JSONInv /\ WaitInv /\ [JSONNext]_jsonVars => WaitInv'
  <2>1. UNCHANGED jsonVars /\ WaitInv => WaitInv'
    BY DEF jsonVars, request, WaitInv, PipeLeft, Lines
  <2>2. QED
    BY <2>1, WaitInvKept
<1>3. JSONInv /\ WaitInv => NoDeadlock
  BY DEF JSONInv, JSONTypeOK, TransferInv, TextInv, WaitInv, NoDeadlock, HandlerGoesOn,
         TranslatorGoesOn
<1>4. QED
  BY <1>1, <1>2, <1>3, JSONCorrect, PTL DEF JSONSpec

LEMMA StepsLeftTypes ==
    ASSUME JSONTypeOK
    PROVE  /\ Len(sent.tokens) - pos \in Nat
           /\ TranslatorLeft \in 0 .. 2 /\ LineLeft \in 0 .. 1 /\ HandlerLeft \in 0 .. 1
<1>1. Len(sent.tokens) - pos \in Nat
  BY SentType DEF JSONTypeOK
<1>2. TranslatorLeft \in 0 .. 2
  BY DEF TranslatorLeft
<1>3. LineLeft \in 0 .. 1 /\ HandlerLeft \in 0 .. 1
  BY DEF LineLeft, HandlerLeft
<1>4. QED
  BY <1>1, <1>2, <1>3

LEMMA FewerLeft ==
    ASSUME NEW a \in Nat, NEW t \in 0 .. 2, NEW l \in 0 .. 1, NEW h \in 0 .. 1,
           NEW b \in Nat, NEW u \in 0 .. 2, NEW m \in 0 .. 1, NEW k \in 0 .. 1,
           \/ b = a - 1 /\ k <= h /\ u <= t + 1
           \/ b = a /\ k = h /\ u < t /\ m <= l
           \/ b = a /\ k + m < h + l /\ u = t
    PROVE  4 * b + u + m + k < 4 * a + t + l + h
OBVIOUS

\* What a step does to the tokens, the translator, the pipe and the handler.
LEMMA StepsLess ==
    ASSUME JSONTypeOK, JSONTypeOK', sent' = sent,
           \/ /\ pos' = pos + 1
              /\ HandlerLeft' <= HandlerLeft
              /\ TranslatorLeft' <= TranslatorLeft + 1
           \/ /\ pos' = pos
              /\ HandlerLeft' = HandlerLeft
              /\ TranslatorLeft' < TranslatorLeft
              /\ LineLeft' <= LineLeft
           \/ /\ pos' = pos
              /\ HandlerLeft' + LineLeft' < HandlerLeft + LineLeft
              /\ TranslatorLeft' = TranslatorLeft
    PROVE  StepsLeft' < StepsLeft
<1> DEFINE more == Len(sent.tokens) - pos
<1>1. /\ more \in Nat
      /\ TranslatorLeft \in 0 .. 2 /\ LineLeft \in 0 .. 1 /\ HandlerLeft \in 0 .. 1
  BY StepsLeftTypes
<1>2. /\ more' \in Nat
      /\ TranslatorLeft' \in 0 .. 2 /\ LineLeft' \in 0 .. 1 /\ HandlerLeft' \in 0 .. 1
  BY SentType DEF JSONTypeOK, TranslatorLeft, LineLeft, HandlerLeft
<1>3. pos' = pos + 1 => more' = more - 1
  BY SentType DEF JSONTypeOK
<1>4. pos' = pos => more' = more
  OBVIOUS
<1> HIDE DEF more
<1>5. 4 * more' + TranslatorLeft' + LineLeft' + HandlerLeft'
        < 4 * more + TranslatorLeft + LineLeft + HandlerLeft
  BY <1>1, <1>2, <1>3, <1>4, FewerLeft
<1>6. QED
  BY <1>5 DEF StepsLeft, more

\* No request goes on for ever: each step of either goroutine leaves fewer to
\* come, whatever the body and its length.
StepsRunOut == [][StepsLeft' < StepsLeft]_jsonVars

THEOREM StepsRunOutCorrect == JSONSpec => StepsRunOut
<1>1. ASSUME JSONInv, JSONInv', JSONNext
      PROVE  StepsLeft' < StepsLeft
  <2>1. JSONTypeOK /\ JSONTypeOK'
    BY <1>1 DEF JSONInv
  <2>2. CASE TranslatorStep
    <3>1. sent' = sent /\ HandlerLeft' = HandlerLeft
      BY <2>2 DEF TranslatorStep, ArrayStart, NextLine, NextBroken, NoMore, Written,
                  WriteRefused, request, HandlerLeft
    <3>2. CASE NextLine \/ NextBroken
      <4>1. pos' = pos + 1 /\ TranslatorLeft' <= TranslatorLeft + 1
        BY <3>2 DEF NextLine, NextBroken, End, TranslatorLeft
      <4>2. QED
        BY <2>1, <3>1, <4>1, StepsLess, StepsLeftTypes
    <3>3. CASE ArrayStart \/ NoMore \/ Written \/ WriteRefused
      <4>1. pos' = pos /\ TranslatorLeft' < TranslatorLeft
        BY <3>3 DEF ArrayStart, NoMore, Written, WriteRefused, End, TranslatorLeft
      <4>2. LineLeft' <= LineLeft
        BY <3>3 DEF ArrayStart, NoMore, Written, WriteRefused, LineLeft
      <4>3. QED
        BY <2>1, <3>1, <4>1, <4>2, StepsLess
    <3>4. QED
      BY <2>2, <3>2, <3>3 DEF TranslatorStep
  <2>3. CASE ReadLine
    <3>1. sent' = sent /\ HandlerLeft' = HandlerLeft /\ TranslatorLeft' = TranslatorLeft
      BY <2>3 DEF ReadLine, request, HandlerLeft, TranslatorLeft
    <3>2. CASE format = "json"
      <4>1. pos' = pos /\ LineLeft' = 0 /\ LineLeft = 1
        BY <2>3, <3>2 DEF ReadLine, LineLeft
      <4>2. HandlerLeft' + LineLeft' < HandlerLeft + LineLeft
        BY <2>1, <3>1, <4>1, StepsLeftTypes
      <4>3. QED
        BY <2>1, <3>1, <4>1, <4>2, StepsLess
    <3>3. CASE format = "text"
      <4>1. pos' = pos + 1
        BY <2>3, <3>3 DEF ReadLine
      <4>2. HandlerLeft' <= HandlerLeft /\ TranslatorLeft' <= TranslatorLeft + 1
        BY <2>1, <3>1, StepsLeftTypes
      <4>3. QED
        BY <2>1, <3>1, <4>1, <4>2, StepsLess
    <3>4. QED
      BY <2>1, <3>2, <3>3 DEF JSONTypeOK
  <2>4. CASE \/ TooLarge \/ ReadFails \/ ParserGivesUp
             \/ SingleShotEnds \/ ChunkEnds \/ BadSeqID \/ CommitEnds
    <3>1. sent' = sent /\ pos' = pos /\ TranslatorLeft' = TranslatorLeft
      BY <2>4 DEF TooLarge, ReadFails, ParserGivesUp, SingleShotEnds, ChunkEnds, BadSeqID,
                  CommitEnds, request, TranslatorLeft
    <3>2. HandlerLeft = 1 /\ HandlerLeft' = 0
      BY <2>4 DEF TooLarge, ReadFails, ParserGivesUp, SingleShotEnds, ChunkEnds, BadSeqID,
                  CommitEnds, Finish, Reads, HandlerLeft
    <3>3. LineLeft' \in 0 .. 1 /\ LineLeft' <= LineLeft
      <4>1. pipe' = pipe \/ pipe' = None
        BY <2>4 DEF TooLarge, ReadFails, ParserGivesUp, SingleShotEnds, ChunkEnds, BadSeqID,
                    CommitEnds
      <4>2. QED
        BY <4>1 DEF LineLeft
    <3>4. HandlerLeft' + LineLeft' < HandlerLeft + LineLeft
      BY <2>1, <3>2, <3>3, StepsLeftTypes
    <3>5. QED
      BY <2>1, <3>1, <3>4, StepsLess
  <2>5. QED
    BY <1>1, <2>2, <2>3, <2>4 DEF JSONNext, HandlerStep
<1>2. QED
  BY <1>1, JSONCorrect, PTL DEF JSONSpec, StepsRunOut
=============================================================================
