----------------------------- MODULE Streaming -----------------------------
(* A streamed answer on its way: the Groq provider's reader of server-sent   *)
(* events, or the mock provider's words; batchStreamChunks; and the loop of  *)
(* the gateway that sends batches and stores the whole answer.  The network  *)
(* cuts the lines anywhere: a line is its two halves and the line feed.  One *)
(* with both a content and a stop is read as the two of them are when they   *)
(* come in one piece, and stands as two lines of the script.                 *)
EXTENDS AIService, FiniteSets, SequencesExt

CONSTANTS
    MaxLines,   \* lines that a stream of a finite instance has at most
    MaxChunks   \* cfg.maxChunks of the batcher

ASSUME StreamingAssumption == MaxLines \in Nat /\ MaxChunks \in Nat \ {0}

VARIABLES
    phase,      \* of the stream: closed, open between reads, ended or failed
    source,     \* the provider that was active when the stream began
    script,     \* the lines the provider sends: content, a stop, or another
    wire,       \* what it has still to send
    partial,    \* the reader's buffer: what follows the last line feed
    lines,      \* complete lines of the last read; of the mock provider, its words
    buffer,     \* the batcher's chunks
    sent,       \* the batches sent to the client, of which the answer is joined
    stored      \* the answer added to the history

streamVars == <<phase, source, script, wire, partial, lines, buffer, sent, stored>>
vars == <<aiVars, streamVars>>

NoAnswer == <<>>
LineFeed == <<0, 0>>
Half(i, n) == <<i, n>>
Line(i) == <<Half(i, 1), Half(i, 2)>>

\* The text of some lines; the last may lack its line feed.
Text(n, closed) ==
    SubSeq(FlattenSeq([i \in 1 .. n |-> Append(Line(i), LineFeed)]), 1, IF closed THEN 3 * n ELSE 3 * n - 1)

Init ==
    /\ AIInit
    /\ phase = "closed" /\ source = activeProvider
    /\ script = <<>> /\ wire = <<>> /\ partial = <<>> /\ lines = <<>>
    /\ buffer = <<>> /\ sent = <<>> /\ stored = NoAnswer

-----------------------------------------------------------------------------
\* MockAIProvider.generateStream: the words of its response.
Words(n) ==
    /\ script' = [i \in 1 .. n |-> "content"]
    /\ lines' = [i \in 1 .. n |-> Line(i)] /\ wire' = <<>>

\* GroqProvider.generateStream up to its loop: the response will send some lines,
\* the last of which may lack its line feed.
EventStream(n) ==
    /\ script' \in [1 .. n -> {"content", "stop", "other"}]
    /\ \E closed \in {TRUE, n = 0} : wire' = Text(n, closed)
    /\ lines' = <<>>

\* handleUserMessageStream with AIService.generateStream, which goes on with the
\* provider that is active now.
Begin ==
    /\ phase \in {"closed", "ended", "failed"}
    /\ source' = activeProvider
    /\ \E n \in 0 .. MaxLines :
         \/ activeProvider = Mock /\ Words(n)
         \/ activeProvider # Mock /\ EventStream(n)
    /\ phase' = "open"
    /\ partial' = <<>> /\ buffer' = <<>> /\ sent' = <<>> /\ stored' = NoAnswer
    /\ UNCHANGED aiVars

-----------------------------------------------------------------------------
\* batchStreamChunks.  Mutant: a full buffer is looked at before the push.
FullBefore(chunks) == Len(chunks) > MaxChunks

\* A full buffer is sent, whatever the time.
Full(chunks) == Len(chunks) >= MaxChunks

Batch(chunks, done) ==
    [content |-> FlattenSeq(chunks), chunkCount |-> Len(chunks), done |-> done]

\* A chunk reaches the batcher: late tells that the interval has passed since the
\* last batch.
Chunk(content, done, late) ==
    LET chunks == Append(buffer, content) IN
    IF Full(chunks) \/ late \/ done
    THEN buffer' = <<>> /\ sent' = Append(sent, Batch(chunks, done))
    ELSE buffer' = chunks /\ UNCHANGED sent

\* responseChunks.join('').
Joined(batches) == FlattenSeq([b \in DOMAIN batches |-> batches[b].content])

\* The gateway's loop is over: what was sent becomes the answer.
Ends ==
    /\ \E late \in BOOLEAN : Chunk(<<>>, TRUE, late)
    /\ stored' = Joined(sent')
    /\ phase' = "ended"

Continues(content) ==
    /\ \E late \in BOOLEAN : Chunk(content, FALSE, late)
    /\ UNCHANGED <<phase, stored>>

-----------------------------------------------------------------------------
\* GroqProvider.generateStream: what is before the last line feed is lines.
LastFeed(text) == CHOOSE i \in 0 .. Len(text) :
    /\ i # 0 => text[i] = LineFeed
    /\ \A j \in i + 1 .. Len(text) : text[j] # LineFeed

LinesOf(text) ==
    LET feeds == {i \in DOMAIN text : text[i] = LineFeed}
        Before(i) == {j \in feeds : j < i}
        End(k) == CHOOSE i \in feeds : Cardinality(Before(i)) = k - 1
    IN [k \in 1 .. Cardinality(feeds) |-> SubSeq(text, (IF k = 1 THEN 0 ELSE End(k - 1)) + 1, End(k) - 1)]

\* Mutant: the reader does not keep the beginning of a line.
KeepNothing(text) == <<>>

\* lines.pop().
Rest(text) == SubSeq(text, LastFeed(text) + 1, Len(text))

\* reader.read returns a piece of the text.
ReadPiece ==
    /\ phase = "open" /\ lines = <<>> /\ wire # <<>>
    /\ \E n \in 1 .. Len(wire) :
         LET text == partial \o SubSeq(wire, 1, n) IN
         /\ wire' = SubSeq(wire, n + 1, Len(wire))
         /\ lines' = LinesOf(text) /\ partial' = Rest(text)
    /\ UNCHANGED <<aiVars, phase, source, script, buffer, sent, stored>>

\* It is done: what has no line feed is dropped.
ReadDone ==
    /\ phase = "open" /\ lines = <<>> /\ wire = <<>>
    /\ Ends
    /\ UNCHANGED <<aiVars, source, script, wire, partial, lines>>

\* A line that was cut is not the JSON it was.
Means(line, kind) == \E i \in DOMAIN script : line = Line(i) /\ script[i] = kind

\* The next line of the piece; a stop leaves the rest of it unread.
ReadLine ==
    /\ phase = "open" /\ lines # <<>>
    /\ LET line == Head(lines) IN
       \/ Means(line, "content") /\ Continues(<<line[1][1]>>)
       \/ Means(line, "stop") /\ Ends
       \/ ~Means(line, "content") /\ ~Means(line, "stop") /\ UNCHANGED <<phase, buffer, sent, stored>>
    /\ lines' = Tail(lines)
    /\ UNCHANGED <<aiVars, source, script, wire, partial>>

\* The connection fails: the client has the batches sent so far and an error.
StreamFails ==
    /\ phase = "open" /\ lines = <<>> /\ source # Mock
    /\ phase' = "failed"
    /\ UNCHANGED <<aiVars, source, script, wire, partial, lines, buffer, sent, stored>>

StreamSteps == Begin \/ ReadPiece \/ ReadDone \/ ReadLine \/ StreamFails

Next == (AISteps /\ UNCHANGED streamVars) \/ StreamSteps

Spec == Init /\ [][Next]_vars

-----------------------------------------------------------------------------
(* Properties.                                                               *)

\* Every variable has its type.
TypeOK ==
    /\ AITypeOK
    /\ phase \in {"closed", "open", "ended", "failed"} /\ source \in Ready
    /\ Len(script) <= MaxLines /\ Len(buffer) < MaxChunks
    /\ \A b \in DOMAIN sent : sent[b].chunkCount \in Nat \ {0}

\* The answer that the provider gave: the contents of its lines before the first
\* that stops.
Given == {i \in DOMAIN script : script[i] = "content" /\ \A j \in 1 .. i : script[j] # "stop"}
Complete(i) == i < Len(script) \/ wire # <<>> \/ partial = <<>>

Delivered == Joined(sent) \o FlattenSeq(buffer)
InOrder(contents) == \A i, j \in DOMAIN contents : i < j => contents[i] < contents[j]

\* However the network cuts the stream and whenever batches are sent, the client
\* and the batcher have the first of the contents that the provider gave, each once
\* and in order; the client has all of them once the stream has ended but for a last
\* line without its line feed; and what is stored is what was sent, or nothing when
\* the stream fails.
StreamIsWhole ==
    /\ InOrder(Delivered)
    /\ \E k \in 0 .. Len(script) : Range(Delivered) = Given \cap (1 .. k)
    /\ phase = "ended" => Range(Joined(sent)) = {i \in Given : Complete(i)} /\ stored = Joined(sent)
    /\ phase = "failed" => stored = NoAnswer

\* No batch has more chunks than it may, and a batch is the last one sent if and
\* only if it says so, with which the stream has ended.
BatchesAreBounded ==
    /\ \A b \in DOMAIN sent : sent[b].chunkCount <= MaxChunks
    /\ \A b \in DOMAIN sent : sent[b].done <=> b = Len(sent) /\ phase = "ended"
=============================================================================
