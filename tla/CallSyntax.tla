----------------------------- MODULE CallSyntax -----------------------------
(***************************************************************************)
(* The tool call in a reply (agents/parse_tool_call.rs): what the live     *)
(* loops read it as (extract_for), what the model is graded on             *)
(* (extract_known), and whether a reply without one was an attempt         *)
(* (rejected_attempt).                                                     *)
(*                                                                         *)
(* A text is a sequence of characters and of words: "s" and "m" are        *)
(* registered skills with one argument and with more, "u" a word that      *)
(* reads like a skill and is none, "x" any other, "N" the letter n (its    *)
(* escape is a line break), and a wrapper's tags and a JSON object are one *)
(* symbol each.                                                            *)
(***************************************************************************)
EXTENDS Integers, Sequences, SequencesExt, FiniteSetsExt

CONSTANTS
    Leads,        \* what the model may write before the call
    ArgLists      \* the arguments it may mean to pass

VARIABLES
    meant,        \* the call the model set out to make: lead, skill, args, shape
    read,         \* what extract_for made of the reply
    graded,       \* what extract_known makes of it
    attempt       \* whether rejected_attempt sees an attempt

syntaxVars == <<meant, read, graded, attempt>>

NoCall == [skill |-> "none", args |-> <<>>]
Names == {"s", "m", "u"}
Arity(n) == IF n = "s" THEN 1 ELSE IF n = "m" THEN 2 ELSE 0
Known(n) == Arity(n) > 0
Space == {" ", "nl"}
Quotes == {"'", "\""}
Opener == [n \in Names |-> CASE n = "s" -> "<function=s>" [] n = "m" -> "<function=m>" [] OTHER -> "<function=u>"]
Closers == {"</function>", "</tool_call>"}
Tags == Closers \cup {"<tool_call>"} \cup {Opener[n] : n \in Names}

Trim(t) ==
    LET ink == {i \in DOMAIN t : t[i] \notin Space} IN
    IF ink = {} THEN <<>> ELSE SubSeq(t, Min(ink), Max(ink))

(* The quote a scan is in, with a backslash skipping the next character    *)
(* inside one.                                                             *)
Scan(q, c) ==
    IF q.skip THEN [q EXCEPT !.skip = FALSE]
    ELSE IF q.in = "no" THEN [q EXCEPT !.in = IF c \in Quotes THEN c ELSE "no"]
    ELSE IF c = "\\" THEN [q EXCEPT !.skip = TRUE]
    ELSE IF c = q.in THEN [q EXCEPT !.in = "no"] ELSE q

QuoteBefore(t, i) == FoldLeft(Scan, [in |-> "no", skip |-> FALSE], SubSeq(t, 1, i - 1))

IsSeparator(t, i) == t[i] = ">" /\ i > 1 /\ i < Len(t) /\ t[i - 1] \in Space /\ t[i + 1] \in Space

(* split_on_expectation: where the first separator outside quotes is. *)
SplitOn(t) ==
    LET at == {i \in DOMAIN t : IsSeparator(t, i) /\ QuoteBefore(t, i).in = "no"} IN
    IF at = {} THEN 0 ELSE Min(at)

LineEnd(t, i) == Min({j \in i..Len(t) : t[j] = "nl"} \cup {Len(t) + 1}) - 1
FirstLine(t) == SubSeq(t, 1, LineEnd(t, 1))
OpenAtEol(t) == QuoteBefore(FirstLine(t), Len(FirstLine(t)) + 1).in # "no"

(* tokenize_args: quoted strings with their escapes read; from the first   *)
(* bare character on, the rest is one value.  The result is <<>> for       *)
(* nothing and <<list>> for a list, as for every reader of arguments here. *)
Unescape(c) == IF c = "N" THEN <<"nl">> ELSE IF c \in Quotes \cup {"\\"} THEN <<c>> ELSE <<"\\", c>>

TokenStep(k, c) ==
    CASE k.bare -> [k EXCEPT !.buf = Append(@, c)]
      [] ~k.bare /\ k.in = "no" ->
            IF c \in Space THEN k
            ELSE IF c \in Quotes THEN [k EXCEPT !.in = c, !.buf = <<>>]
            ELSE [k EXCEPT !.bare = TRUE, !.buf = <<c>>]
      [] k.in # "no" /\ k.skip -> [k EXCEPT !.skip = FALSE, !.buf = @ \o Unescape(c)]
      [] OTHER ->
            IF c = "\\" THEN [k EXCEPT !.skip = TRUE]
            ELSE IF c = k.in THEN [k EXCEPT !.in = "no", !.out = Append(@, k.buf)]
            ELSE [k EXCEPT !.buf = Append(@, c)]

NoToken == [in |-> "no", skip |-> FALSE, bare |-> FALSE, buf |-> <<>>, out |-> <<>>]

TokenizeArgs(t) ==
    LET k == FoldLeft(TokenStep, NoToken, Trim(t)) IN
    IF k.bare THEN <<Append(k.out, Trim(k.buf))>>
    ELSE IF k.in # "no" THEN <<>> ELSE <<k.out>>

(* verbatim_tokens: every token quoted, and only its own quote unescaped. *)
VerbatimStep(k, c) ==
    CASE k.bare -> k
      [] ~k.bare /\ k.in = "no" ->
            IF c \in Space THEN k
            ELSE IF c \in Quotes THEN [k EXCEPT !.in = c, !.buf = <<>>] ELSE [k EXCEPT !.bare = TRUE]
      [] k.in # "no" /\ k.skip /\ c = k.in -> [k EXCEPT !.skip = FALSE, !.buf = Append(@, c)]
      [] OTHER ->
            LET held == IF k.skip THEN Append(k.buf, "\\") ELSE k.buf IN
            IF c = "\\" THEN [k EXCEPT !.skip = TRUE, !.buf = held]
            ELSE IF c = k.in THEN [k EXCEPT !.in = "no", !.skip = FALSE, !.out = Append(@, held)]
            ELSE [k EXCEPT !.skip = FALSE, !.buf = Append(held, c)]

VerbatimTokens(t) ==
    LET k == FoldLeft(VerbatimStep, NoToken, Trim(t)) IN
    IF k.bare \/ k.in # "no" THEN <<>> ELSE <<k.out>>

(* simple_extra: a short word (key=value pairs are words too). *)
SimpleExtra(t) == Trim(t) # <<>> /\ \A i \in DOMAIN Trim(t) : Trim(t)[i] \notin Space \cup Quotes

(* single_span: one pair of outer quotes, whatever is between them. *)
SingleSpan(t) ==
    IF Len(t) < 2 \/ t[1] \notin Quotes \/ t[Len(t)] # t[1] THEN <<>>
    ELSE <<<<FoldLeft(LAMBDA buf, c : IF c = t[1] /\ buf # <<>> /\ Last(buf) = "\\"
                                      THEN Append(Front(buf), c) ELSE Append(buf, c),
                      <<>>, SubSeq(t, 2, Len(t) - 1))>>>>

(* Mutant: a one-argument skill's argument has its escapes read. *)
OneArgUnescaped(t) == TokenizeArgs(t)

OneArg(t) ==
    LET v == VerbatimTokens(t) IN
    IF v # <<>> /\ \A i \in 2..Len(v[1]) : SimpleExtra(v[1][i]) THEN v ELSE SingleSpan(Trim(t))

(* split_after_last_quote: the last separator straight after a quote of    *)
(* the kind the arguments open with.                                       *)
SplitAfterQuote(t) ==
    IF t = <<>> \/ t[1] \notin Quotes THEN 0
    ELSE LET at == {i \in DOMAIN t : IsSeparator(t, i)
                       /\ LET left == Trim(SubSeq(t, 1, i - 1)) IN left # <<>> /\ Len(left) > 1 /\ Last(left) = t[1]}
         IN  IF at = {} THEN 0 ELSE Max(at)

(* take_skill_name, and the rest of the line. *)
Opens(t) == Len(t) > 1 /\ t[1] \in Names /\ t[2] \in Space
RestOf(t) == Trim(Tail(t))

CallOf(n, list) == IF list = <<>> THEN NoCall ELSE [skill |-> n, args |-> list[1]]
Or(a, b) == IF a # NoCall THEN a ELSE b

(* parse_line, parse_multiline: the strict reading of a call, up to the    *)
(* first separator outside quotes.                                         *)
Strict(t) ==
    LET i == SplitOn(RestOf(t)) IN
    IF i = 0 THEN NoCall ELSE CallOf(t[1], TokenizeArgs(SubSeq(RestOf(t), 1, i - 1)))

ParseLine(t) == IF Opens(t) THEN Strict(t) ELSE NoCall

ParseMultiline(t) == IF Opens(t) /\ OpenAtEol(RestOf(t)) THEN Strict(t) ELSE NoCall

(* parse_line_for and parse_multiline_for: a one-argument skill's argument *)
(* is what stands between the outer quotes, before either separator.       *)
OneArgUpTo(t, i) == IF i = 0 THEN NoCall ELSE CallOf(t[1], OneArg(SubSeq(RestOf(t), 1, i - 1)))

ParseLineFor(t) ==
    IF ~Opens(t) \/ Arity(t[1]) # 1 THEN ParseLine(t)
    ELSE Or(OneArgUpTo(t, SplitOn(RestOf(t))), Or(OneArgUpTo(t, SplitAfterQuote(RestOf(t))), Strict(t)))

(* Mutant: any line that opens with a skill is read on to the next call.   *)
ParseMultilineUnguarded(t) == IF Opens(t) THEN Or(OneArgUpTo(t, SplitOn(RestOf(t))), Strict(t)) ELSE NoCall

ParseMultilineFor(t) ==
    IF ~Opens(t) \/ Arity(t[1]) # 1 \/ ~OpenAtEol(RestOf(t)) THEN ParseMultiline(t)
    ELSE Or(OneArgUpTo(t, SplitOn(RestOf(t))), Strict(t))

(* The scan of the lines, a fence's own line left out.  A line that does   *)
(* not parse is tried again with everything below it.                      *)
LineStarts(t) == {1} \cup {i + 1 : i \in {j \in DOMAIN t : t[j] = "nl"}}
LineAt(t, i) ==
    LET l == Trim(SubSeq(t, i, LineEnd(t, i))) IN
    IF l # <<>> /\ l[1] \in {"fence", "fenced_call"} THEN <<>> ELSE l

CallAt(t, i, one(_), more(_)) ==
    LET l == one(LineAt(t, i))
        call == IF l # NoCall \/ LineAt(t, i) = <<>> THEN l ELSE more(Trim(SubSeq(t, i, Len(t))))
    IN  IF Known(call.skill) THEN call ELSE NoCall

LineScan(t, one(_), more(_)) ==
    LET at == {i \in LineStarts(t) : CallAt(t, i, one, more) # NoCall} IN
    IF at = {} THEN NoCall ELSE CallAt(t, Min(at), one, more)

(* has_xml_wrapper, unwrap_xml_call. *)
Wrapped(t) == \E i \in DOMAIN t : t[i] \in Tags

Unwrap(t) ==
    FlattenSeq([i \in DOMAIN t |->
        IF \E n \in Names : t[i] = Opener[n] THEN <<CHOOSE n \in Names : t[i] = Opener[n], " ">>
        ELSE IF t[i] \in Tags THEN <<"nl">> ELSE <<t[i]>>])

(* parse_json_body: an object with a skill name; repair_json closes one    *)
(* left open.  Its arguments go to the dispatcher as they are.             *)
JsonCall(t) ==
    IF \E n \in Names : t \in {<<"{", n, "}">>, <<"{", n>>} THEN [skill |-> t[2], args |-> <<>>] ELSE NoCall

(* json_fence_body, and the envelope's first { to its last }. *)
FenceCall(t) ==
    LET at == {i \in DOMAIN t : t[i] = "fenced_call"}
        ends == {j \in DOMAIN t : t[j] = "fence" /\ j > Min(at)}
    IN  IF at = {} \/ ends = {} THEN NoCall ELSE JsonCall(Trim(SubSeq(t, Min(at) + 1, Min(ends) - 1)))

EnvelopeCall(t) ==
    LET a == {i \in DOMAIN t : t[i] = "{"}
        b == {i \in DOMAIN t : t[i] = "}"}
    IN  IF a = {} \/ b = {} THEN NoCall ELSE JsonCall(SubSeq(t, Min(a), Max(b)))

JsonForms(t) == Or(FenceCall(Unwrap(t)), IF Wrapped(t) THEN EnvelopeCall(Unwrap(t)) ELSE NoCall)

(* extract_known. *)
ExtractKnown(t) == Or(JsonForms(t), LineScan(Unwrap(t), ParseLine, ParseMultiline))

(* xml_params: the values between the tags, less one line break each side. *)
ParamStep(k, c) ==
    CASE k.bare -> k
      [] ~k.bare /\ k.in = "no" ->
            IF c \in Space THEN k
            ELSE IF c = "<parameter>" THEN [k EXCEPT !.in = c, !.buf = <<>>] ELSE [k EXCEPT !.bare = TRUE]
      [] OTHER ->
            IF c # "</parameter>" THEN [k EXCEPT !.buf = Append(@, c)]
            ELSE LET v == IF k.buf # <<>> /\ k.buf[1] = "nl" THEN Tail(k.buf) ELSE k.buf IN
                 [k EXCEPT !.in = "no",
                           !.out = Append(@, IF v # <<>> /\ Last(v) = "nl" THEN Front(v) ELSE v)]

Functions(t) == {i \in DOMAIN t : \E n \in Names : t[i] = Opener[n]}
FunctionAt(t, i) == CHOOSE n \in Names : t[i] = Opener[n]

ParamsAt(t, i) ==
    LET k == FoldLeft(ParamStep, NoToken, SubSeq(t, i + 1, Len(t))) IN
    IF k.out = <<>> THEN NoCall ELSE [skill |-> FunctionAt(t, i), args |-> k.out]

(* bare_args: a call without an expectation has all its arguments quoted. *)
BareArgs(n, t) == IF Arity(n) = 1 THEN OneArg(t) ELSE IF VerbatimTokens(t) = <<>> THEN <<>> ELSE TokenizeArgs(t)

(* extract_function_body: a block the model closed, of a known skill. *)
BodyAt(t, i) ==
    LET n == FunctionAt(t, i)
        closes == {j \in i..Len(t) : t[j] \in Closers}
        body == Trim(SubSeq(t, i + 1, Min(closes) - 1))
        line == <<n, " ">> \o body
        parsed == IF \E j \in DOMAIN body : body[j] = "nl" THEN ParseMultilineFor(line) ELSE ParseLineFor(line)
    IN  IF ~Known(n) \/ closes = {} THEN NoCall
        ELSE IF body = <<>> \/ Functions(body) # {} \/ body[1] = "<parameter>" THEN NoCall
        ELSE Or(parsed, Or(CallOf(n, BareArgs(n, body)),
                IF Arity(n) = 1 /\ body[1] \notin Quotes THEN [skill |-> n, args |-> <<body>>] ELSE NoCall))

FirstOf(t, at(_, _)) ==
    LET is == {i \in Functions(t) : at(t, i) # NoCall} IN IF is = {} THEN NoCall ELSE at(t, Min(is))

(* bare_call: on a line a function tag opened or, with no such tag, on the *)
(* last line.                                                              *)
BareAt(l) ==
    IF l = <<>> \/ l[1] \notin Names \/ ~Known(l[1]) THEN NoCall
    ELSE IF Len(l) = 1 THEN [skill |-> l[1], args |-> <<>>]
    ELSE IF Opens(l) THEN CallOf(l[1], BareArgs(l[1], RestOf(l))) ELSE NoCall

BareCall(t) ==
    LET u == Unwrap(t)
        inked == {i \in LineStarts(u) : LineAt(u, i) # <<>>}
        named == {i \in inked : \E j \in Functions(t) : LineAt(u, i)[1] = FunctionAt(t, j)}
        tried == IF Functions(t) # {} THEN named ELSE IF inked = {} THEN {} ELSE {Max(inked)}
        good == {i \in tried : BareAt(LineAt(u, i)) # NoCall}
    IN  IF good = {} THEN NoCall ELSE BareAt(LineAt(u, Min(good)))

(* extract_for. *)
ExtractFor(t) ==
    Or(FirstOf(t, ParamsAt), Or(JsonForms(t),
       Or(LineScan(Unwrap(t), ParseLineFor, ParseMultilineFor), Or(FirstOf(t, BodyAt), BareCall(t)))))

(* has_call_marks: a quote that is not an apostrophe, or a separator. *)
Letters == {"x", "N"} \cup Names
CallMarks(t) ==
    \E i \in DOMAIN t :
        \/ t[i] = "\""
        \/ t[i] = "'" /\ ~(i > 1 /\ i < Len(t) /\ t[i - 1] \in Letters /\ t[i + 1] \in Letters)
        \/ t[i] = ">" /\ (i = 1 \/ t[i - 1] \in Space) /\ (i = Len(t) \/ t[i + 1] \in Space)

RejectedAttempt(t) ==
    \/ Wrapped(t)
    \/ \E i \in DOMAIN t : t[i] \in {"fenced_call", "{"}
    \/ \E i \in LineStarts(t) :
          LET l == LineAt(t, i) IN Opens(l) /\ Known(l[1]) /\ CallMarks(Tail(l))

-----------------------------------------------------------------------------
(* render, and what the contract asks a model to write: a one-argument     *)
(* skill's argument as it is but for its outer quote, the others escaped.  *)
Escaped(n, c) ==
    IF c = "'" THEN <<"\\", "'">>
    ELSE IF n = "s" THEN <<c>>
    ELSE IF c = "\\" THEN <<"\\", "\\">> ELSE IF c = "nl" THEN <<"\\", "N">> ELSE <<c>>

Quoted(n, a) == <<" ", "'">> \o FlattenSeq([i \in DOMAIN a |-> Escaped(n, a[i])]) \o <<"'">>
WrittenCall(n, args) == FlattenSeq([i \in DOMAIN args |-> Quoted(n, args[i])])

Expectation == <<" ", ">", " ", "x">>

TextOf(m) ==
    m.lead \o
    CASE m.shape = "line" -> <<m.skill>> \o WrittenCall(m.skill, m.args) \o Expectation
      [] m.shape = "bare" -> <<m.skill>> \o WrittenCall(m.skill, m.args)
      [] m.shape = "tag" -> <<Opener[m.skill]>> \o WrittenCall(m.skill, m.args) \o Expectation \o <<"nl", "</function>">>
      [] m.shape = "block" ->
            <<"<tool_call>", "nl", Opener[m.skill], "nl">> \o WrittenCall(m.skill, m.args) \o <<"nl", "</function>">>
      [] m.shape = "params" ->
            <<Opener[m.skill], "nl">>
              \o FlattenSeq([i \in DOMAIN m.args |-> <<"<parameter>", "nl">> \o m.args[i] \o <<"nl", "</parameter>", "nl">>])
              \o <<"</function>">>
      [] m.shape = "fence" -> <<"fenced_call", "nl", "{", m.skill, "nl", "fence">>
      [] m.shape = "envelope" -> <<"<tool_call>", "{", m.skill, "}", "</tool_call>">>

Json == {"fence", "envelope"}
Nothing == [lead |-> <<>>, skill |-> "none", args |-> <<>>, shape |-> "none"]

SyntaxInit == meant = Nothing /\ read = NoCall /\ graded = NoCall /\ attempt = FALSE

(* The loop reads a finished reply; model-eval would grade the same one. *)
ReadsReply(m) ==
    /\ meant = Nothing /\ meant' = m
    /\ read' = ExtractFor(TextOf(m)) /\ graded' = ExtractKnown(TextOf(m))
    /\ attempt' = RejectedAttempt(TextOf(m))

NextReply == meant # Nothing /\ meant' = Nothing /\ read' = NoCall /\ graded' = NoCall /\ attempt' = FALSE

SyntaxNext ==
    \/ \E lead \in Leads, skill \in {"s", "m"}, args \in ArgLists,
          shape \in {"line", "bare", "tag", "block", "params", "fence", "envelope"} :
          /\ skill = "s" => Len(args) = 1
          /\ ReadsReply([lead |-> lead, skill |-> skill, args |-> args, shape |-> shape])
    \/ NextReply

-----------------------------------------------------------------------------
Intended == [skill |-> meant.skill, args |-> IF meant.shape \in Json THEN <<>> ELSE meant.args]

(* One argument of several lines with a backslash before a quote or at its *)
(* end: the scan for the separator reads escapes, the argument does not,   *)
(* and the two part.                                                       *)
EndsOpen(a) ==
    /\ \E i \in DOMAIN a : a[i] = "nl"
    /\ \E i \in DOMAIN a : a[i] = "\\" /\ (i = Len(a) \/ a[i + 1] \in {"'", "\\"})

(* What runs is what the model wrote: whatever characters the arguments    *)
(* hold and whichever accepted shape the call has, the skill and its exact *)
(* arguments come back.  A call without its expectation may also be turned *)
(* down as a botched one, or in a block lose all its arguments, and the    *)
(* model is told: never other arguments, never silence.                    *)
CallUnderstood ==
    \/ meant = Nothing
    \/ meant.skill = "s" /\ EndsOpen(meant.args[1])
    \/ read = Intended
    \/ read = NoCall /\ attempt /\ meant.shape \in {"bare", "block"}
    \/ read = [Intended EXCEPT !.args = <<>>] /\ meant.shape = "block"

(* The grader never passes a call the backend would not have run.          *)
GradedRuns == graded # NoCall => read # NoCall

(* What the call parser owes the loop and the grader.                      *)
SyntaxSound == CallUnderstood /\ GradedRuns

(* What the header says of calls of several lines: a guard keeps the       *)
(* parser from swallowing prose.                                           *)
ProseNotSwallowed == meant.shape = "line" => read.skill = meant.skill
=============================================================================
