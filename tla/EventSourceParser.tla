------------------------- MODULE EventSourceParser --------------------------
(***************************************************************************)
(* The server-sent-events parser of one connection, as a data type.  The   *)
(* body arrives in chunks cut anywhere; each chunk is scanned for complete *)
(* lines, and the unterminated rest is kept for the next one.  Text is     *)
(* abstracted to what decides where lines and events end: the two          *)
(* terminator characters, and "d", a piece of a data field.  A data field  *)
(* is represented by its length, an event by the sequence of its fields.   *)
(* Comments, ids, retries and the byte order mark pass through without     *)
(* moving a line boundary.                                                 *)
(***************************************************************************)
EXTENDS Naturals, Sequences, FiniteSets

Chars == {"CR", "LF", "d"}
Fields == Seq(Nat \ {0})

\* bufferedInput: the unterminated tail; currentEvent: the fields since the last empty
\* line; out: the events handed to onEvent.
NewParser == [bufferedInput |-> <<>>, currentEvent |-> <<>>, out |-> <<>>]
Parsers == [bufferedInput : Seq({"d"}), currentEvent : Fields, out : Seq(Fields)]

ScanCharEveryTerminator(scan, ch) ==
    IF ch = "d" THEN [scan EXCEPT !.rest = Append(@, ch)]
    ELSE [scan EXCEPT !.lines = Append(@, scan.rest), !.rest = <<>>]

\* One character of scanLines: CRLF ends one line, and only within the scanned text.
ScanChar(scan, ch) ==
    CASE ch = "LF" /\ scan.afterCR -> [scan EXCEPT !.afterCR = FALSE]
      [] ch = "d" -> [scan EXCEPT !.rest = Append(@, ch), !.afterCR = FALSE]
      [] OTHER -> [lines |-> Append(scan.lines, scan.rest), rest |-> <<>>, afterCR |-> ch = "CR"]

NewScan == [lines |-> <<>>, rest |-> <<>>, afterCR |-> FALSE]

\* The loop of scanLines: the scan after each of the first i characters.
Scan(input) ==
    LET scan[i \in 0 .. Len(input)] ==
            IF i = 0 THEN NewScan ELSE ScanChar(scan[i - 1], input[i])
    IN scan

ScanLines(input) == Scan(input)[Len(input)]

\* An empty line emits the event, unless it has no data; any other is a data field.
DispatchLine(parser, line) ==
    IF line # <<>> THEN [parser EXCEPT !.currentEvent = Append(@, Len(line))]
    ELSE [parser EXCEPT !.currentEvent = <<>>,
                        !.out = IF parser.currentEvent = <<>> THEN @ ELSE Append(@, parser.currentEvent)]

\* The loop of parse over its lines: the parser after each of the first i lines.
DispatchLines(parser, lines) ==
    LET after[i \in 0 .. Len(lines)] ==
            IF i = 0 THEN parser ELSE DispatchLine(after[i - 1], lines[i])
    IN after

Parse(parser, chunk) ==
    LET scan == ScanLines(parser.bufferedInput \o chunk)
    IN DispatchLines([parser EXCEPT !.bufferedInput = scan.rest], scan.lines)[Len(scan.lines)]

\* The stream ended: whatever was not terminated is discarded.
Finish(parser) == [parser EXCEPT !.bufferedInput = <<>>]

----------------------------------------------------------------------------
(* The reference: lines and events of a text, however it was cut.          *)

\* The k-th smallest element of a set of numbers.
Nth(S, k) == CHOOSE x \in S : Cardinality({y \in S : y <= x}) = k

\* Positions that end a line: CR, LF, and of a CRLF only the CR.
LineEnds(t) ==
    {i \in 1 .. Len(t) : t[i] = "CR" \/ (t[i] = "LF" /\ (i = 1 \/ t[i - 1] # "CR"))}

LineEnd(t, k) == IF k = 0 THEN 0 ELSE Nth(LineEnds(t), k)

\* The length of the data after position i, up to position j.
DataBetween(t, i, j) == Cardinality({p \in i + 1 .. j : t[p] = "d"})

\* The data fields of the complete lines, 0 for an empty one.
LinesOf(t) ==
    [k \in 1 .. Cardinality(LineEnds(t)) |-> DataBetween(t, LineEnd(t, k - 1), LineEnd(t, k))]

\* Where the fields without an empty line between them begin that end before line b.
RunStart(lines, b) ==
    CHOOSE a \in 1 .. b : /\ \A k \in a .. b - 1 : lines[k] # 0
                          /\ a = 1 \/ lines[a - 1] = 0

Run(lines, b) == SubSeq(lines, RunStart(lines, b), b - 1)

\* An event is a maximal run of fields followed by an empty line.
EventEnds(lines) == {b \in 2 .. Len(lines) : lines[b] = 0 /\ lines[b - 1] # 0}
EventsIn(lines) ==
    [n \in 1 .. Cardinality(EventEnds(lines)) |-> Run(lines, Nth(EventEnds(lines), n))]

EventsOf(t) == EventsIn(LinesOf(t))
=============================================================================
