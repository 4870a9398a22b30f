--------------------------- MODULE ReflectionGuard ---------------------------
(***************************************************************************)
(* What keeps a provider from echoing the user's credential to the screen  *)
(* (ReflectionStream in crates/chat/src/generation.rs): the fragments of   *)
(* one stream of text are searched for the credential across their         *)
(* borders, and the end of the text that could be its beginning is held    *)
(* back until more is known.                                               *)
(*                                                                         *)
(* Text is bytes, as in the code: a character is one byte or several, and  *)
(* cutting inside a character is a panic (String::split_off).  The two     *)
(* kinds of stream differ in how a released piece becomes events: text and *)
(* reasoning in one, tool arguments in pieces of bounded size.             *)
(***************************************************************************)
EXTENDS Naturals, Sequences, FiniteSets, SequencesExt, FiniteSetsExt

CONSTANTS
    Characters,     \* the characters, each the sequence of its bytes
    Credentials,    \* credentials, and the empty one
    Texts,          \* fragments of a stream: sequences of whole characters
    MaxText,        \* bound on the characters of the stream
    MaxPushes,      \* bound on the fragments of the stream
    MaxDeltaChars,  \* MAX_TOOL_ARGUMENT_DELTA_CHARS
    MaxDeltaBytes   \* MAX_TOOL_ARGUMENT_DELTA_BYTES

(* UTF-8: no byte both begins and continues a character, and a character   *)
(* fits into a delta.                                                      *)
Bytes == UNION {Range(c) : c \in Characters}
LeadBytes == {c[1] : c \in Characters}

VARIABLES
    kind,        \* "plain" (text or reasoning) or "arguments"
    credential,  \* what must not be shown, or empty when there is none
    received,    \* everything the provider has sent (history)
    pending,     \* ReflectionStream.pending
    events,      \* the deltas emitted
    pushes,      \* fragments received
    state        \* "open", "refused", "panicked", "finished", "failed"

vars == <<kind, credential, received, pending, events, pushes, state>>

CharCount(s) == Cardinality({i \in DOMAIN s : s[i] \in LeadBytes})

(* is_char_boundary: the place between byte n and byte n + 1.              *)
IsBoundary(s, n) == n = Len(s) \/ s[n + 1] \in LeadBytes

-----------------------------------------------------------------------------
(* The automaton.  Falls(c, table, byte)[m] is the inner loop: how much of *)
(* the credential c is still matched when byte does not continue m bytes   *)
(* of it.                                                                  *)
Falls(c, table, byte) ==
    LET fall[m \in 0 .. Len(table)] ==
            IF m > 0 /\ byte # c[m + 1] THEN fall[table[m]] ELSE m
    IN  fall

FaultyAdvance(c, table, m, byte) ==
    LET f == IF m > 0 /\ byte # c[m + 1] THEN 0 ELSE m
    IN  IF byte = c[f + 1] THEN f + 1 ELSE f

Advance(c, table, m, byte) ==
    LET f == Falls(c, table, byte)[m]
    IN  IF byte = c[f + 1] THEN f + 1 ELSE f

(* build_credential_prefix_table                                           *)
PrefixTable(c) ==
    LET extend(table, i) == Append(table, Advance(c, table, table[i - 1], c[i]))
    IN  FoldLeft(extend, <<0>>, [i \in 1 .. Len(c) - 1 |-> i + 1])

(* credential_suffix_after_linear_scan; Len(c) stands for None.            *)
Scan(value, c) ==
    LET table == PrefixTable(c)
        step(m, byte) == IF m = Len(c) THEN m ELSE Advance(c, table, m, byte)
    IN  FoldLeft(step, 0, value)

-----------------------------------------------------------------------------

(* bounded_tool_argument_chunk_end                                         *)
ChunkEnd(s) ==
    Max({n \in 0 .. Len(s) : /\ IsBoundary(s, n) /\ n <= MaxDeltaBytes
                             /\ CharCount(SubSeq(s, 1, n)) <= MaxDeltaChars})

(* emit_filtered_tool_arguments: the pieces of a released string.          *)
Chunks(s) ==
    LET cut(acc, i) ==
            IF acc.rest = <<>> THEN acc
            ELSE [pieces |-> Append(acc.pieces, SubSeq(acc.rest, 1, ChunkEnd(acc.rest))),
                  rest |-> SubSeq(acc.rest, ChunkEnd(acc.rest) + 1, Len(acc.rest))]
    IN  FoldLeft(cut, [pieces |-> <<>>, rest |-> s], [i \in 1 .. Len(s) |-> i]).pieces

(* forward and forward_tool_arguments: with a guard an empty piece is no   *)
(* event.                                                                  *)
Emitted(s) ==
    IF kind = "arguments" THEN Chunks(s)
    ELSE IF s = <<>> /\ credential # <<>> THEN <<>> ELSE <<s>>

Shown == FlattenSeq(events)

-----------------------------------------------------------------------------
Init ==
    /\ kind \in {"plain", "arguments"}
    /\ credential \in Credentials
    /\ received = <<>> /\ pending = <<>> /\ events = <<>> /\ pushes = 0
    /\ state = "open"

(* Nothing is guarded without a credential.                                *)
PushUnguarded(fragment) ==
    /\ credential = <<>>
    /\ events' = events \o Emitted(fragment)
    /\ UNCHANGED <<pending, state>>

ReleaseEnd(value, kept) == Len(value) - kept

(* The whole credential is in what was held back and the fragment.         *)
PushReflected(fragment) ==
    /\ credential # <<>> /\ Scan(pending \o fragment, credential) = Len(credential)
    /\ pending' = <<>> /\ state' = "refused"
    /\ UNCHANGED events

PushGuarded(fragment) ==
    LET value == pending \o fragment
        end == ReleaseEnd(value, Scan(value, credential))
    IN  /\ credential # <<>> /\ Scan(value, credential) # Len(credential)
        /\ IF IsBoundary(value, end)
           THEN /\ events' = events \o Emitted(SubSeq(value, 1, end))
                /\ pending' = SubSeq(value, end + 1, Len(value))
                /\ UNCHANGED state
           ELSE state' = "panicked" /\ UNCHANGED <<events, pending>>

Push(fragment) ==
    /\ state = "open" /\ pushes < MaxPushes
    /\ CharCount(received) + CharCount(fragment) <= MaxText
    /\ pushes' = pushes + 1 /\ received' = received \o fragment
    /\ PushUnguarded(fragment) \/ PushReflected(fragment) \/ PushGuarded(fragment)
    /\ UNCHANGED <<kind, credential>>

(* The generation succeeded: finish_public_streams lets go of the rest.    *)
Finish ==
    /\ state = "open" /\ state' = "finished"
    /\ pending' = <<>>
    /\ events' = IF pending = <<>> THEN events ELSE events \o Emitted(pending)
    /\ UNCHANGED <<kind, credential, received, pushes>>

(* It failed or was cancelled: what is held back is dropped.               *)
Drop ==
    /\ state = "open" /\ state' = "failed"
    /\ pending' = <<>>
    /\ UNCHANGED <<kind, credential, received, events, pushes>>

Next == Finish \/ Drop \/ \E fragment \in Texts : Push(fragment)

Spec == Init /\ [][Next]_vars

-----------------------------------------------------------------------------
(* The reference: what it means for s to hold the credential c, and the    *)
(* longest beginning of c, short of c itself, that s ends with.            *)
Holds(s, c) == c # <<>> /\ \E i \in 0 .. Len(s) - Len(c) : SubSeq(s, i + 1, i + Len(c)) = c
LongestEnd(s, c) ==
    Max({n \in 0 .. Len(c) - 1 : n <= Len(s) /\ SubSeq(s, Len(s) - n + 1, Len(s)) = SubSeq(c, 1, n)})

TypeOK ==
    /\ kind \in {"plain", "arguments"}
    /\ credential \in Credentials /\ received \in Texts
    /\ pending \in Seq(Bytes) /\ (pending = <<>> \/ Len(pending) < Len(credential))
    /\ events \in Seq(Seq(Bytes))
    /\ pushes \in 0 .. MaxPushes
    /\ state \in {"open", "refused", "panicked", "finished", "failed"}

(* ReflectionStream::push: however the provider cuts its answer, what has  *)
(* been shown, put together over all events and the final flush, never     *)
(* holds the credential.                                                   *)
NeverShown == ~ Holds(Shown, credential)

(* credential_suffix_after_linear_scan: a stream is refused when, and only *)
(* when, the credential is in what was received.  The automaton starts     *)
(* afresh on what was held back, so it must not miss or invent a match     *)
(* across earlier fragments.                                               *)
RefusedWhenReflected == (state = "refused") <=> Holds(received, credential)

(* Nothing is lost, reordered or delayed for longer than needed: an open   *)
(* stream has shown everything but the longest end that could begin the    *)
(* credential, and a finished one has shown everything.                    *)
HoldsBackNoMore ==
    /\ state = "open" => /\ received = Shown \o pending
                         /\ credential # <<>> => Len(pending) = LongestEnd(received, credential)
    /\ state = "finished" => Shown = received

(* "a match that reaches the end of value also ends at a scalar boundary": *)
(* split_off never panics, and every event consists of whole characters    *)
(* and, for tool arguments, keeps both limits of a delta and is not empty. *)
WholeCharacters ==
    /\ state # "panicked"
    /\ \A i \in DOMAIN events :
          /\ events[i] \in Texts
          /\ kind = "arguments" => /\ events[i] # <<>> /\ Len(events[i]) <= MaxDeltaBytes
                                   /\ CharCount(events[i]) <= MaxDeltaChars
=============================================================================
