------------------------------- MODULE Stream -------------------------------
(***************************************************************************)
(* One streamed completion: chat_stream and ThinkSplitter (crates/llm/src/ *)
(* client.rs, streaming.rs) run in a task of their own and pass chunks to  *)
(* run_turn (crates/agents/src/turn.rs), which puts the reply together.    *)
(* The server sends text and tool calls in pieces of any size.  The tags   *)
(* <think> and </think> are shortened to <t> and </t>: a prefix of one is  *)
(* a prefix of the other only as "<", as in the code.                      *)
(***************************************************************************)
EXTENDS Integers, Sequences, SequencesExt

CONSTANTS
    StreamTexts, \* what the server may say
    PieceBound   \* bound: characters of one piece

OpenTag == <<"<", "t", ">">>
CloseTag == <<"<", "/", "t", ">">>
(* Two native calls, the fragments of each in order; the first of a call   *)
(* carries its name.                                                       *)
Fragments == <<<<"name", "a", "b">>, <<"name", "c">>>>

VARIABLES
    said,    \* the text the server says
    heard,   \* how many characters of it chat_stream has taken
    parts,   \* fragments of each call taken
    inThink, tagBuf,   \* ThinkSplitter
    pipe,    \* the unbounded channel of chunks
    stream,  \* chat_stream: "open", "done", "failed", "stopped"
    content, reasoning, calls, \* what run_turn accumulates
    stop,    \* the cancellation token has fired
    reply    \* "running", or the finish reason run_turn returned

streamVars == <<said, heard, parts, inThink, tagBuf, pipe, stream, content, reasoning, calls, stop, reply>>

StreamInit ==
    /\ said \in StreamTexts
    /\ heard = 0
    /\ parts = [c \in 1 .. 2 |-> 0]
    /\ inThink = FALSE /\ tagBuf = <<>>
    /\ pipe = <<>>
    /\ stream = "open"
    /\ content = <<>> /\ reasoning = <<>>
    /\ calls = <<>>
    /\ stop = FALSE
    /\ reply = "running"

-----------------------------------------------------------------------------
(* ThinkSplitter *)

At(s, i, tag) == SubSeq(s, i, i + Len(tag) - 1) = tag
Finds(s, i, tag) == {j \in i .. Len(s) - Len(tag) + 1 : At(s, j, tag)}
First(S) == CHOOSE j \in S : \A k \in S : j <= k

(* The length of a proper, non-empty prefix of the tag that ends s[i..]. *)
NothingHeld(s, i, tag) == 0
Held(s, i, tag) ==
    LET L == {n \in 1 .. Len(tag) - 1 :
                 n <= Len(s) - i + 1 /\ SubSeq(s, Len(s) - n + 1, Len(s)) = SubSeq(tag, 1, n)}
    IN  IF L = {} THEN 0 ELSE First(L)

(* feed: what a piece adds to content and reasoning, and what it leaves. *)
Feed(think, buf, piece) ==
    LET s == buf \o piece
        scan[i \in 1 .. Len(s) + 1, in \in BOOLEAN] ==
            LET tag == IF in THEN CloseTag ELSE OpenTag
                hits == Finds(s, i, tag)
                keep == Held(s, i, tag)
                end == IF hits = {} THEN Len(s) - keep ELSE First(hits) - 1
                text == SubSeq(s, i, end)
                more == IF hits = {}
                        THEN [c |-> <<>>, r |-> <<>>, think |-> in,
                              buf |-> SubSeq(s, end + 1, Len(s))]
                        ELSE scan[First(hits) + Len(tag), ~in]
            IN  IF in THEN [more EXCEPT !.r = text \o @] ELSE [more EXCEPT !.c = text \o @]
    IN  scan[1, think]

-----------------------------------------------------------------------------
(* chat_stream *)

(* A text event: nothing is sent for a piece that is held back whole. *)
TextEvent(n) ==
    LET f == Feed(inThink, tagBuf, SubSeq(said, heard + 1, heard + n)) IN
    /\ stream = "open" /\ ~stop
    /\ heard + n <= Len(said)
    /\ heard' = heard + n
    /\ inThink' = f.think /\ tagBuf' = f.buf
    /\ pipe' = IF f.c = <<>> /\ f.r = <<>> THEN pipe
               ELSE Append(pipe, [kind |-> "text", c |-> f.c, r |-> f.r])
    /\ UNCHANGED <<said, parts, stream, content, reasoning, calls, stop, reply>>

(* A fragment of call c, under its index. *)
CallEvent(c) ==
    /\ stream = "open" /\ ~stop
    /\ heard = Len(said)
    /\ parts[c] < Len(Fragments[c])
    /\ parts' = [parts EXCEPT ![c] = @ + 1]
    /\ pipe' = Append(pipe, [kind |-> "call", c |-> c, r |-> Fragments[c][parts'[c]]])
    /\ UNCHANGED <<said, heard, inThink, tagBuf, stream, content, reasoning, calls, stop, reply>>

(* [DONE] or the end of the body. *)
StreamEnds ==
    /\ stream = "open" /\ ~stop
    /\ heard = Len(said)
    /\ \A c \in 1 .. 2 : parts[c] \in {0, Len(Fragments[c])}
    /\ stream' = "done"
    /\ UNCHANGED <<said, heard, parts, inThink, tagBuf, pipe, content, reasoning, calls, stop, reply>>

(* The connection breaks, or an event cannot be decoded. *)
StreamFails ==
    /\ stream = "open" /\ ~stop
    /\ stream' = "failed"
    /\ UNCHANGED <<said, heard, parts, inThink, tagBuf, pipe, content, reasoning, calls, stop, reply>>

(* Both selects are biased: a fired token is taken before the next event.  *)
StreamStops ==
    /\ stream = "open" /\ stop
    /\ stream' = "stopped"
    /\ UNCHANGED <<said, heard, parts, inThink, tagBuf, pipe, content, reasoning, calls, stop, reply>>

-----------------------------------------------------------------------------
(* run_turn *)

(* Native calls by index: missing slots are filled, names and arguments    *)
(* are appended.                                                           *)
ByArrival(cs, c, piece) ==
    IF piece = "name" THEN Append(cs, [of |-> c, text |-> <<piece>>])
    ELSE [cs EXCEPT ![Len(cs)].text = Append(@, piece)]
Assembled(cs, c, piece) ==
    LET padded == cs \o [k \in 1 .. c - Len(cs) |-> [of |-> Len(cs) + k, text |-> <<>>]]
    IN  [padded EXCEPT ![c].text = Append(@, piece)]

TakeChunk ==
    LET k == Head(pipe) IN
    /\ reply = "running" /\ ~stop
    /\ pipe # <<>>
    /\ pipe' = Tail(pipe)
    /\ IF k.kind = "text"
       THEN /\ content' = content \o k.c /\ reasoning' = reasoning \o k.r
            /\ UNCHANGED calls
       ELSE /\ calls' = Assembled(calls, k.c, k.r)
            /\ UNCHANGED <<content, reasoning>>
    /\ UNCHANGED <<said, heard, parts, inThink, tagBuf, stream, stop, reply>>

(* split_orphan_reasoning: a closing tag without an opening one. *)
Orphan == reasoning = <<>> /\ Finds(content, 1, CloseTag) # {}
OrphanAt == First(Finds(content, 1, CloseTag))
Finish(reason) ==
    /\ reply' = reason
    /\ calls' = SelectSeq(calls, LAMBDA k : k.text # <<>>)
    /\ IF Orphan /\ Finds(SubSeq(content, 1, OrphanAt - 1), 1, OpenTag) = {}
       THEN /\ content' = SubSeq(content, OrphanAt + Len(CloseTag), Len(content))
            /\ reasoning' = SubSeq(content, 1, OrphanAt - 1)
       ELSE UNCHANGED <<content, reasoning>>
    /\ UNCHANGED <<said, heard, parts, inThink, tagBuf, stream, stop>>

(* The channel is drained and closed. *)
FinishClosedUnbiased ==
    /\ reply = "running"
    /\ pipe = <<>> /\ stream # "open"
    /\ Finish(IF stream = "failed" THEN "error" ELSE "stop")
    /\ UNCHANGED pipe

FinishClosed ==
    /\ reply = "running" /\ ~stop
    /\ pipe = <<>> /\ stream # "open"
    /\ Finish(IF stream = "failed" THEN "error" ELSE "stop")
    /\ UNCHANGED pipe

(* The token: the receiver is dropped, the task awaited, an error ignored. *)
FinishInterrupted ==
    /\ reply = "running" /\ stop
    /\ stream # "open"
    /\ Finish("interrupted")
    /\ pipe' = <<>>

StopStream ==
    /\ reply = "running" /\ ~stop
    /\ stop' = TRUE
    /\ UNCHANGED <<said, heard, parts, inThink, tagBuf, pipe, stream, content, reasoning, calls, reply>>

StreamNext ==
    \/ \E n \in 1 .. PieceBound : TextEvent(n)
    \/ \E c \in 1 .. 2 : CallEvent(c)
    \/ StreamEnds \/ StreamFails \/ StreamStops
    \/ TakeChunk \/ FinishClosed \/ FinishInterrupted \/ StopStream

-----------------------------------------------------------------------------
(* Properties *)

(* The same text read in one go: tags alternate, each found from the end   *)
(* of the one before it.                                                   *)
OneGo(s) ==
    LET read[i \in 1 .. Len(s) + 1, in \in BOOLEAN] ==
            LET tag == IF in THEN CloseTag ELSE OpenTag
                hits == Finds(s, i, tag)
                text == SubSeq(s, i, IF hits = {} THEN Len(s) ELSE First(hits) - 1)
                rest == IF hits = {} THEN [c |-> <<>>, r |-> <<>>]
                        ELSE read[First(hits) + Len(tag), ~in]
            IN  IF in THEN [rest EXCEPT !.r = text \o @] ELSE [rest EXCEPT !.c = text \o @]
    IN  read[1, FALSE]

(* Where the network cut the stream is invisible: what has been passed on  *)
(* plus what is held back is the text so far, split in one go, however the *)
(* tags fell across the pieces.  (Before the orphan rule is applied.)      *)
ChunkingInvisible ==
    reply = "running" =>
        LET sent == [c |-> FoldLeft(LAMBDA a, k : IF k.kind = "text" THEN a \o k.c ELSE a, content, pipe),
                     r |-> FoldLeft(LAMBDA a, k : IF k.kind = "text" THEN a \o k.r ELSE a, reasoning, pipe)]
        IN  OneGo(SubSeq(said, 1, heard))
              = IF inThink THEN [sent EXCEPT !.r = @ \o tagBuf] ELSE [sent EXCEPT !.c = @ \o tagBuf]

(* A reply that is handed on as complete is complete: the server had said  *)
(* all of it and every native call has all its fragments in order, however *)
(* the two calls were interleaved; a cut reply is called interrupted or    *)
(* error, whichever of token, last event and failure came first.           *)
CompleteIsWhole ==
    reply = "stop" =>
        /\ heard = Len(said)
        /\ \A k \in 1 .. Len(calls) : calls[k].text = Fragments[calls[k].of]
        /\ {calls[k].of : k \in 1 .. Len(calls)} = {c \in 1 .. 2 : parts[c] > 0}
=============================================================================
