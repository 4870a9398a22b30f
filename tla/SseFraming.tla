----------------------------- MODULE SseFraming -----------------------------
(***************************************************************************)
(* How the adapters cut a byte stream into server-sent events              *)
(* (find_event_boundary and the loops around it; the same code in          *)
(* openai_compatible.rs, anthropic_messages.rs, openai_responses.rs and    *)
(* gemini_generate_content.rs of crates/providers).  The network decides   *)
(* where the chunks end; CR, LF and CRLF all end a line, and a separator   *)
(* can be cut anywhere.                                                    *)
(*                                                                         *)
(* A byte is "r", "n" or "x", which stands for any other.  A line of data  *)
(* is the sequence of the places of its bytes.                             *)
(***************************************************************************)
EXTENDS Naturals, Sequences, FiniteSets, SequencesExt, FiniteSetsExt

CONSTANTS
    MaxText,    \* bound on the length of a response
    MaxEvent    \* MAX_SSE_EVENT_BYTES

VARIABLES
    text,      \* the whole response, as the provider wrote it
    from, to,  \* pending holds the bytes text[from + 1] .. text[to]
    events,    \* the data lines of the events processed
    outcome    \* "open", "ended", "incomplete", or "too_large"

vars == <<text, from, to, events, outcome>>

(* SSE_EVENT_SEPARATORS, in the order they are tried.                      *)
Separators == << <<"r", "n", "r", "n">>, <<"n", "r", "n">>, <<"r", "r", "n">>, <<"r", "n", "n">>,
                 <<"r", "n", "r">>, <<"n", "n">>, <<"n", "r">>, <<"r", "r">> >>

None == [at |-> 0, len |-> 0]

FaultyMatches(s, p, last, endOfStream) ==
    p + Len(s) - 1 <= last /\ SubSeq(text, p, p + Len(s) - 1) = s

(* A separator that a line feed could still make longer is not taken at    *)
(* the edge of the buffer; two bare carriage returns are.                  *)
Matches(s, p, last, endOfStream) ==
    /\ p + Len(s) - 1 <= last /\ SubSeq(text, p, p + Len(s) - 1) = s
    /\ \/ endOfStream \/ Last(s) # "r" \/ s = <<"r", "r">>
       \/ p + Len(s) - 1 # last

FindEventBoundary(first, last, endOfStream) ==
    LET fits(p) == SelectSeq(Separators, LAMBDA s : Matches(s, p, last, endOfStream))
        places == {p \in first .. last : fits(p) # <<>>}
    IN  IF places = {} THEN None
        ELSE [at |-> Min(places), len |-> Len(fits(Min(places))[1])]

(* The lines of the bytes first .. last that carry data.                   *)
DataLines(first, last) ==
    LET breaks == {p \in first .. last : text[p] # "x"}
        starts == {p \in first .. last : text[p] = "x" /\ (p = first \/ p - 1 \in breaks)}
        end(p) == Max({q \in p .. last : \A k \in p .. q : text[k] = "x"})
    IN  [i \in 1 .. Cardinality(starts) |->
            LET p == SetToSortSeq(starts, <)[i] IN [k \in 1 .. end(p) - p + 1 |-> p + k - 1]]

(* The loop over pending: every boundary found ends an event, which is     *)
(* processed when it has data (process_event).  An event that is too long  *)
(* stops the response.  n bounds the number of events of a buffer.         *)
Drain(start, endOfStream, last) ==
    LET step(s, n) ==
            LET b == FindEventBoundary(s.from + 1, last, endOfStream)
                lines == DataLines(s.from + 1, b.at - 1)
            IN  IF b = None \/ s.large THEN s
                ELSE IF b.at - 1 - s.from > MaxEvent THEN [s EXCEPT !.large = TRUE]
                ELSE [s EXCEPT !.from = b.at + b.len - 1,
                               !.events = IF lines = <<>> THEN @ ELSE Append(@, lines)]
    IN  FoldLeft(step, start, [n \in 1 .. MaxText |-> n])

(* ensure_pending_size: beyond the limit there may be the beginning of a   *)
(* separator, and nothing else.                                            *)
PendingFits(first, last, endOfStream) ==
    \/ last - first <= MaxEvent
    \/ /\ ~ endOfStream
       /\ \E s \in ToSet(Separators) :
             LET over == SubSeq(text, first + MaxEvent + 1, last)
             IN  Len(over) < Len(s) /\ SubSeq(s, 1, Len(over)) = over

Init ==
    /\ text \in BoundedSeq({"r", "n", "x"}, MaxText)
    /\ from = 0 /\ to = 0 /\ events = <<>> /\ outcome = "open"

Buffer == [from |-> from, events |-> events, large |-> FALSE]

(* One chunk arrives; without a line break in it there is nothing to look  *)
(* for.                                                                    *)
Chunk(n) ==
    LET breaks == \E p \in to + 1 .. to + n : text[p] # "x"
        d == IF breaks THEN Drain(Buffer, FALSE, to + n) ELSE Buffer
    IN  /\ outcome = "open" /\ to + n <= Len(text)
        /\ to' = to + n /\ from' = d.from /\ events' = d.events
        /\ outcome' = IF d.large \/ ~ PendingFits(d.from, to + n, FALSE) THEN "too_large" ELSE "open"
        /\ UNCHANGED text

(* What is left when the response ends must have been a whole event.       *)
Verdict(d) ==
    CASE d.large \/ ~ PendingFits(d.from, Len(text), TRUE) -> "too_large"
      [] ~ d.large /\ PendingFits(d.from, Len(text), TRUE) ->
            IF d.from = Len(text) THEN "ended" ELSE "incomplete"

EndOfStream ==
    LET d == Drain(Buffer, TRUE, to)
    IN  /\ outcome = "open" /\ to = Len(text)
        /\ from' = d.from /\ events' = d.events /\ outcome' = Verdict(d)
        /\ UNCHANGED <<text, to>>

Next == EndOfStream \/ \E n \in 1 .. MaxText : Chunk(n)

Spec == Init /\ [][Next]_vars

-----------------------------------------------------------------------------
(* The reference: lines end at CR, LF or CRLF, and an empty line ends an   *)
(* event, which counts when it has data.  last is the prefix considered.   *)
Dispatch(last) ==
    LET endLine(s) == IF s.line # <<>>
                      THEN [s EXCEPT !.line = <<>>, !.data = Append(@, s.line)]
                      ELSE [s EXCEPT !.data = <<>>,
                                     !.out = IF s.data = <<>> THEN @ ELSE Append(@, s.data)]
        step(s, p) == CASE text[p] = "x" -> [s EXCEPT !.line = Append(@, p)]
                        [] text[p] = "r" -> endLine(s)
                        [] text[p] = "n" -> IF p > 1 /\ text[p - 1] = "r" THEN s ELSE endLine(s)
    IN  FoldLeft(step, [line |-> <<>>, data |-> <<>>, out |-> <<>>], [p \in 1 .. last |-> p]).out

(* Responses that end their lines in one way, as servers do.               *)
OneConvention ==
    \/ \A p \in DOMAIN text : text[p] # "r"
    \/ \A p \in DOMAIN text : text[p] # "n"
    \/ /\ \A p \in DOMAIN text : text[p] = "r" => p < Len(text) /\ text[p + 1] = "n"
       /\ \A p \in DOMAIN text : text[p] = "n" => p > 1 /\ text[p - 1] = "r"

(* The type invariant; what is pending is bounded.                         *)
TypeOK ==
    /\ 0 <= from /\ from <= to /\ to <= Len(text)
    /\ outcome = "open" => to - from <= MaxEvent + 3

(* Whatever the chunks and however line endings are mixed, the events are  *)
(* those of the lines, each with all of its data: at every moment those so *)
(* far, and at the end all of them.                                        *)
EventsAreTheLines ==
    /\ IsPrefix(events, Dispatch(Len(text)))
    /\ outcome \in {"ended", "incomplete"} => events = Dispatch(Len(text))

(* With one line ending, an event is processed as soon as its blank line   *)
(* has arrived: the text shown does not lag behind the network.            *)
EventsAreProcessedAtOnce ==
    OneConvention /\ outcome = "open" /\ (to < Len(text) /\ to > 0 => text[to] # "r" \/ text[to + 1] # "n")
        => events = Dispatch(to)

(* With one line ending, the verdict does not depend on the chunks: it is  *)
(* the one the whole response would get at once.  An event of exactly the  *)
(* limit is accepted wherever its separator is cut.                        *)
VerdictIgnoresChunks ==
    OneConvention /\ outcome # "open" =>
        outcome = Verdict(Drain([from |-> 0, events |-> <<>>, large |-> FALSE], TRUE, Len(text)))
=============================================================================
