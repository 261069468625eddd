----------------------------- MODULE JSONIngest -----------------------------
(***************************************************************************)
(* One ingest request on its way from the wire to the parser or to the     *)
(* staging buffer: the handlers of ingest_single.go and ingest_chunked.go, *)
(* behind JSONTranslatorMiddleware.  With format=json a goroutine decodes  *)
(* the body and hands its lines over an io.Pipe, which has no buffer.      *)
(***************************************************************************)
EXTENDS PayloadParser

CONSTANTS
    Bodies,       \* what a client may send
    Target,       \* the instance_id of the URL
    MaxBodyLines  \* ingest.max_body_size, in lines

VARIABLES
    handler,    \* which handler: "single", "chunk" or "commit"; "bad_seq": the
                \* chunk handler with a seq_id that is no number
    format,     \* "json" or "text"
    overwrite,  \* ingest.overwrite_instance_id
    sent,       \* the body, as sent and as far as it gets through
    pos,        \* tokens of it that have been read
    translator, \* where the goroutine of newJSONToTextReader is
    pipe,       \* the line its Write is waiting with
    pw,         \* the writing side of the pipe: open, or how it was closed
    pr,         \* the reading side
    reading,    \* the handler reads, or is done
    got,        \* lines the handler has read
    result      \* what came of the request

request == <<handler, format, overwrite, sent>>
jsonVars == <<request, pos, translator, pipe, pw, pr, reading, got, result>>

\* A JSON token is a string, which is a line of the text, another value, or a
\* syntax error.  A body ends with the bracket, with a brace in its place, or
\* where the connection broke or timed out.
NotString == [kind |-> "not_string"]
SyntaxError == [kind |-> "syntax_error"]
Token == Line \cup {NotString, SyntaxError}

Body == [array : BOOLEAN, tokens : Seq(Token), end : {"bracket", "brace", "cut"}]

ASSUME JSONAssumption ==
    /\ Bodies \subseteq Body
    /\ Target \in Values
    /\ MaxBodyLines \in Nat

\* The places of the lines among the tokens.
Lines(tokens) == {n \in DOMAIN tokens : tokens[n] \in Line}

-----------------------------------------------------------------------------
\* A text body has lines only; a commit that is sent a body does not read it.
JSONInit ==
    /\ handler \in {"single", "chunk", "bad_seq", "commit"}
    /\ format \in {"json", "text"}
    /\ overwrite \in BOOLEAN
    /\ sent \in Bodies
    /\ format = "text" => sent.array /\ Lines(sent.tokens) = DOMAIN sent.tokens
    /\ pos = 0
    /\ translator = IF format = "json" THEN "head" ELSE "ended"
    /\ pipe = None
    /\ pw = "open" /\ pr = "open"
    /\ reading = TRUE
    /\ got = <<>>
    /\ result = None

(* The goroutine of newJSONToTextReader.                                   *)

\* BUG: the deferred Close overwrites the error of CloseWithError.
CloseLast(how) == pw' = "eof"

\* BUG: the goroutine returns without closing its side.
CloseOnError(how) == pw' = IF how = "error" THEN how ELSE pw

\* pw.CloseWithError, and the deferred pw.Close, which keeps the first error.
ClosePipe(how) == pw' = IF pw = "open" THEN how ELSE pw

End(how) == translator' = "ended" /\ ClosePipe(how)

ArrayStart ==
    /\ translator = "head"
    /\ IF sent.array THEN translator' = "next" /\ UNCHANGED pw ELSE End("error")
    /\ UNCHANGED <<request, pos, pipe, pr, reading, got, result>>

\* dec.More and dec.Token find a string.
NextLine ==
    /\ translator = "next"
    /\ pos < Len(sent.tokens)
    /\ sent.tokens[pos + 1] \in Line
    /\ pos' = pos + 1
    /\ translator' = "write"
    /\ pipe' = sent.tokens[pos + 1]
    /\ UNCHANGED <<request, pw, pr, reading, got, result>>

NextBroken ==
    /\ translator = "next"
    /\ pos < Len(sent.tokens)
    /\ sent.tokens[pos + 1] \notin Line
    /\ pos' = pos + 1
    /\ End("error")
    /\ UNCHANGED <<request, pipe, pr, reading, got, result>>

\* dec.More is false at a bracket or brace and when the body cannot be read,
\* which it cannot be once the handler is done: net/http closes it.
NoMore ==
    /\ translator = "next"
    /\ pos = Len(sent.tokens) \/ ~reading
    /\ End("eof")
    /\ UNCHANGED <<request, pos, pipe, pr, reading, got, result>>

\* Write returns when the line was taken whole, or the other side is closed.
Written ==
    /\ translator = "write"
    /\ pipe = None
    /\ translator' = "next"
    /\ UNCHANGED <<request, pos, pipe, pw, pr, reading, got, result>>

WriteRefused ==
    /\ translator = "write"
    /\ pipe # None
    /\ pr = "closed"
    /\ pipe' = None
    /\ End("eof")
    /\ UNCHANGED <<request, pos, pr, reading, got, result>>

(* The handler.                                                            *)

Reads == reading /\ handler \in {"single", "chunk"}

\* One line, from the pipe or from the body itself.
ReadLine ==
    /\ Reads
    /\ Len(got) < MaxBodyLines
    /\ \/ /\ format = "json"
          /\ pipe # None
          /\ got' = Append(got, pipe)
          /\ pipe' = None
          /\ UNCHANGED pos
       \/ /\ format = "text"
          /\ pos < Len(sent.tokens)
          /\ got' = Append(got, sent.tokens[pos + 1])
          /\ pos' = pos + 1
          /\ UNCHANGED pipe
    /\ UNCHANGED <<request, translator, pw, pr, reading, result>>

\* BUG: the reading side stays open.
FinishOpen(outcome, closes) ==
    /\ reading' = FALSE
    /\ result' = outcome
    /\ UNCHANGED pr

\* The single-shot handler closes the body however it ends; the chunk handler
\* only once it has read it, which it does not do without a number; and
\* handleCommit never does.
Finish(outcome, closes) ==
    /\ reading' = FALSE
    /\ result' = outcome
    /\ pr' = IF format = "json" /\ closes THEN "closed" ELSE pr

\* The store is given the lines to stage, or what the parser made of them.
Refused == [ok |-> FALSE]
Taken(lines) == [ok |-> TRUE, lines |-> lines]

\* MaxBytesReader: of the line that is too much it takes a part, or all.
TooLarge ==
    /\ Reads
    /\ Len(got) = MaxBodyLines
    /\ IF format = "json" THEN pipe # None ELSE pos < Len(sent.tokens)
    /\ pipe' \in {pipe, None}
    /\ Finish(Refused, handler = "single")
    /\ UNCHANGED <<request, pos, translator, pw, got>>

\* The end of a text body, not the end of its connection.
EndOfText == pos = Len(sent.tokens) /\ sent.end # "cut"

EndOfBody == IF format = "json" THEN pw = "eof" ELSE EndOfText
ReadError ==
    IF format = "json" THEN pw = "error"
                       ELSE pos = Len(sent.tokens) /\ sent.end = "cut"

ReadFails ==
    /\ Reads
    /\ pipe = None
    /\ ReadError
    /\ Finish(Refused, handler = "single")
    /\ UNCHANGED <<request, pos, translator, pipe, pw, got>>

\* The parser gives up at a line it cannot read, and leaves the rest.
ParserGivesUp ==
    /\ Reads
    /\ handler = "single"
    /\ ~Decodes(got)
    /\ Finish(Refused, TRUE)
    /\ UNCHANGED <<request, pos, translator, pipe, pw, got>>

SingleShotEnds ==
    /\ Reads
    /\ handler = "single"
    /\ pipe = None
    /\ EndOfBody
    /\ Finish(IF ParseAndValidateOK(got, Target, overwrite) THEN Taken(got) ELSE Refused,
              TRUE)
    /\ UNCHANGED <<request, pos, translator, pipe, pw, got>>

ChunkEnds ==
    /\ Reads
    /\ handler = "chunk"
    /\ pipe = None
    /\ EndOfBody
    /\ Finish(Taken(got), TRUE)
    /\ UNCHANGED <<request, pos, translator, pipe, pw, got>>

\* The chunk handler returns before it has read anything.
BadSeqID ==
    /\ reading
    /\ handler = "bad_seq"
    /\ Finish(Refused, FALSE)
    /\ UNCHANGED <<request, pos, translator, pipe, pw, got>>

CommitEnds ==
    /\ reading
    /\ handler = "commit"
    /\ Finish(Refused, FALSE)
    /\ UNCHANGED <<request, pos, translator, pipe, pw, got>>

-----------------------------------------------------------------------------
TranslatorStep ==
    ArrayStart \/ NextLine \/ NextBroken \/ NoMore \/ Written \/ WriteRefused

HandlerStep ==
    \/ ReadLine \/ TooLarge \/ ReadFails
    \/ ParserGivesUp \/ SingleShotEnds \/ ChunkEnds \/ BadSeqID \/ CommitEnds

JSONNext == TranslatorStep \/ HandlerStep

JSONSpec == JSONInit /\ [][JSONNext]_jsonVars

\* The bytes of a body arrive, or the connection's ReadTimeout ends it.
JSONFairSpec ==
    JSONSpec /\ WF_jsonVars(TranslatorStep) /\ WF_jsonVars(HandlerStep)

-----------------------------------------------------------------------------
Accepted == result # None /\ result.ok

\* Nothing is lost, repeated or reordered between the wire and the handler:
\* what a request was accepted with are all the tokens that came through, and
\* a body that is no array of strings is refused whatever had been handed
\* over when that turned out.
AcceptedWhole ==
    Accepted => /\ sent.array
                /\ Lines(sent.tokens) = DOMAIN sent.tokens
                /\ got = sent.tokens

\* The identity of the series a sample ends up as, by the comments of
\* ParseAndValidate: its labels in any order, with the instance of the URL.
Series(sample) ==
    LET own   == {sample.labels[n] : n \in DOMAIN sample.labels}
        rest  == {p \in own : p.name # "instance_id"}
        steam == {p.value : p \in {q \in own : q.name = "steam_id"}} \cap SteamIds
    IN  [family |-> sample.family,
         labels |-> rest \cup {[name |-> "instance_id", value |-> Target]}
                    \cup IF /\ sample.family = PlayerLoaded
                            /\ \A p \in own : p.name # "buid"
                         THEN {[name |-> "buid", value |-> BUID[v]] : v \in steam}
                         ELSE {}]

\* What a single-shot body publishes: for every series it brings one metric,
\* with the value sent last.
LastWriteWins ==
    Accepted /\ handler = "single" =>
        LET lines == sent.tokens IN
        ParseAndValidate(result.lines, Target) =
          {[family |-> Series(lines[n]).family,
            labels |-> Series(lines[n]).labels,
            value  |-> lines[n].value] :
              n \in {k \in Samples(lines) :
                       \A j \in Samples(lines) :
                          j > k => Series(lines[j]) # Series(lines[k])}}

\* A handler always comes to its end: it never waits for a translator that
\* has gone, or that waits for it.
HandlerEnds == <>~reading

\* So does the translator, unless nobody reads on: a commit never does, nor
\* does a chunk handler that was given no number or has found the body too
\* large.
TranslatorEnds ==
    <>(\/ translator = "ended"
       \/ handler \in {"bad_seq", "commit"}
       \/ handler = "chunk" /\ Cardinality(Lines(sent.tokens)) > MaxBodyLines)
=============================================================================
