------------------------ MODULE MCProviderResponses ------------------------
(***************************************************************************)
(* The way of a response from the network to the screen: the framing of    *)
(* server-sent events, the five adapters, the tracker of OpenRouter        *)
(* reasoning and the guard against credentials.  A behaviour is one of     *)
(* one part; the variables of the others are 0.                            *)
(***************************************************************************)
EXTENDS ProviderSink, TLC

CONSTANT Parts

VARIABLES
    part,
    calls, preserve, state, events,                                   \* of several
    terminal, startedIds, observed,                                   \* Chat Completions
    started, deltaSeen, active, completed, seen, toolIds,             \* Messages
    finished,                                                         \* Responses
    unary, eof,                                                       \* generateContent
    count, ids,                                                       \* Ollama
    chunks, tracker, released,                                        \* OpenRouter
    text, from, to,                                                   \* framing
    kind, credential, received, pending, pushes                       \* guard

-----------------------------------------------------------------------------
(* Chat Completions: two indexed calls and the legacy one, with their      *)
(* identity and their arguments in one fragment or in several.             *)
Chunk == [kind |-> "chunk", reasoning |-> FALSE, details |-> None,
          text |-> FALSE, tools |-> <<>>, function |-> <<>>, finish |-> None]
Tool(index, id, name, args) == [index |-> index, id |-> id, name |-> name, args |-> args]
With(tools) == [Chunk EXCEPT !.tools = tools]
MCLegacy == 9
MCChunks == {
    [Chunk EXCEPT !.text = TRUE, !.reasoning = TRUE, !.details = "good"],
    [Chunk EXCEPT !.details = "bad", !.text = TRUE],
    With(<<Tool(0, <<"a">>, <<>>, FALSE)>>),                \* half an identity
    With(<<Tool(0, <<>>, <<"f">>, FALSE)>>),                \* the other half
    With(<<Tool(0, <<>>, <<>>, TRUE)>>),                    \* arguments, early or late
    With(<<Tool(0, <<"a">>, <<"f">>, TRUE)>>),              \* whole, or a repetition
    With(<<Tool(MCLegacy + 1, <<"a">>, <<"f">>, TRUE), Tool(MCLegacy + 1, <<"b">>, <<"g">>, TRUE)>>),
    [With(<<Tool(1, <<"L">>, <<"f">>, TRUE)>>) EXCEPT !.text = TRUE],  \* an id another call has
    [Chunk EXCEPT !.function = <<"f">>],
    [Chunk EXCEPT !.finish = "stop", !.text = TRUE],
    [Chunk EXCEPT !.finish = "tool_calls"]}
Completions == INSTANCE ChatCompletionsStream WITH
    Chunks <- MCChunks, Legacy <- MCLegacy, LegacyId <- <<"L">>,
    MaxFragments <- 2, MaxPending <- 2, MaxWire <- 4

Messages == INSTANCE MessagesStream WITH ToolIds <- {"a"}, MaxBlocks <- 2, MaxWire <- 8

(* Responses: two items whose events interleave, with a call_id each or    *)
(* with one for both.                                                      *)
OpenAi == INSTANCE ResponsesStream WITH
    Items <- {"i", "j"}, CallIds <- {"c", "d"}, MaxArguments <- 2, MaxWire <- 5

(* generateContent: parts of every kind; a given id that is the one made   *)
(* for the second call.                                                    *)
Part(sort, id) == [kind |-> sort, id |-> id]
Response(parts, finish) == [candidate |-> TRUE, parts |-> parts, finish |-> finish]
MCResponses == {
    [candidate |-> FALSE, parts |-> <<>>, finish |-> None],
    Response(<<>>, None), Response(<<>>, "STOP"),
    Response(<<Part("text", <<>>)>>, "other"),
    Response(<<Part("thought", <<>>), Part("text", <<>>)>>, None),
    Response(<<Part("empty", <<>>)>>, "STOP"),
    Response(<<Part("text", <<>>), Part("unsupported", <<>>)>>, None),
    Response(<<Part("call", <<>>)>>, None),
    Response(<<Part("call", <<>>), Part("text", <<>>)>>, "STOP"),
    Response(<<Part("call", <<"gemini-call", 1>>)>>, None)}
Gemini == INSTANCE GenerateContentStream WITH
    Responses <- MCResponses, MaxParts <- 5, MaxCalls <- 3, MaxWire <- 5

(* Ollama: lines with text, with calls, with both, and the last one with   *)
(* either.                                                                 *)
Line(thinking, content, tools, done) ==
    [role |-> "assistant", thinking |-> thinking, content |-> content, calls |-> tools,
     done |-> done]
MCLines == {
    Line(TRUE, TRUE, <<>>, FALSE),
    Line(FALSE, TRUE, <<<<>>>>, FALSE),
    Line(FALSE, FALSE, <<<<"ollama-call", 1>>>>, FALSE),
    Line(FALSE, FALSE, <<<<>>, <<>>>>, TRUE),
    Line(FALSE, TRUE, <<>>, TRUE),
    Line(FALSE, FALSE, <<>>, FALSE),
    [Line(FALSE, TRUE, <<>>, FALSE) EXCEPT !.role = "user"]}
Ollama == INSTANCE OllamaStream WITH Lines <- MCLines, MaxCalls <- 3, MaxWire <- 5

(* OpenRouter: text, a summary and encrypted data, with and without        *)
(* metadata.                                                               *)
Fragment(sort, index, id, payload) ==
    [kind |-> sort, index |-> index, id |-> id, format |-> <<>>, signature |-> <<>>,
     payload |-> payload]
MCText == Fragment("reasoning.text", <<>>, <<>>, TRUE)
MCSigned == [Fragment("reasoning.text", <<>>, <<>>, FALSE) EXCEPT !.signature = <<"s">>]
MCFragments == {
    MCText, MCSigned,
    [MCSigned EXCEPT !.signature = <<"t">>, !.format = <<"x">>],
    Fragment("reasoning.text", <<0>>, <<"a">>, TRUE),
    Fragment("reasoning.text", <<1>>, <<>>, TRUE),
    Fragment("reasoning.text", <<>>, <<"b">>, TRUE),
    Fragment("reasoning.summary", <<>>, <<>>, TRUE),
    Fragment("reasoning.summary", <<1>>, <<>>, FALSE),
    Fragment("reasoning.encrypted", <<1>>, <<"a">>, TRUE),
    Fragment("bad", <<>>, <<>>, FALSE)}
Reasonings == INSTANCE OpenRouterReasoning WITH
    Lists <- {<<>>} \cup {<<f>> : f \in MCFragments} \cup {<<MCText, f>> : f \in MCFragments},
    MaxChunks <- 4, MaxDetails <- 3

Framing == INSTANCE SseFraming WITH MaxText <- 6, MaxEvent <- 3

(* The guard: one character of one byte, two of two bytes with the same    *)
(* first byte.                                                             *)
MCCharacters == {<<"a">>, <<"L", "x">>, <<"L", "y">>}
MCCredentials == {FlattenSeq(s) : s \in BoundedSeq(MCCharacters, 3)}
MCTexts == {FlattenSeq(s) : s \in BoundedSeq(MCCharacters, 4)}
Guard == INSTANCE ReflectionGuard WITH
    Characters <- MCCharacters, Credentials <- MCCredentials, Texts <- MCTexts,
    MaxText <- 4, MaxPushes <- 3, MaxDeltaChars <- 2, MaxDeltaBytes <- 3

-----------------------------------------------------------------------------
sinkOnly == <<outbox, after, sent, cancelled>>
chatVars == <<terminal, startedIds, observed>>
blockVars == <<started, deltaSeen, active, completed, seen, toolIds>>
geminiVars == <<unary, eof>>
ollamaVars == <<count, ids>>
routerVars == <<chunks, tracker, released>>
frameVars == <<text, from, to>>
guardVars == <<kind, credential, received, pending, pushes>>
adapterVars == <<chatVars, blockVars, finished, geminiVars, ollamaVars>>
stageVars == <<routerVars, frameVars, guardVars>>
vars == <<part, sinkVars, calls, preserve, state, events, adapterVars, stageVars>>

Idle(v) == v = 0
NoSink == Idle(outbox) /\ Idle(after) /\ Idle(sent) /\ Idle(cancelled)
NoChat == Idle(terminal) /\ Idle(startedIds) /\ Idle(observed)
NoBlocks == /\ Idle(started) /\ Idle(deltaSeen) /\ Idle(active)
            /\ Idle(completed) /\ Idle(seen) /\ Idle(toolIds)
NoGemini == Idle(unary) /\ Idle(eof)
NoOllama == Idle(count) /\ Idle(ids)
NoRouter == Idle(chunks) /\ Idle(tracker) /\ Idle(released)
NoFrame == Idle(text) /\ Idle(from) /\ Idle(to)
NoGuard == Idle(kind) /\ Idle(credential) /\ Idle(received) /\ Idle(pending) /\ Idle(pushes)
NoStage == NoRouter /\ NoFrame /\ NoGuard
NoAdapter == NoSink /\ NoChat /\ NoBlocks /\ Idle(finished) /\ NoGemini /\ NoOllama

Init ==
    /\ part \in Parts
    /\ \/ /\ part = "completions" /\ Completions!Init /\ Idle(state) /\ Idle(events)
          /\ NoBlocks /\ Idle(finished) /\ NoGemini /\ NoOllama /\ NoStage
       \/ /\ part = "messages" /\ Messages!Init /\ Idle(calls) /\ Idle(state) /\ Idle(events)
          /\ NoChat /\ Idle(finished) /\ NoGemini /\ NoOllama /\ NoStage
       \/ /\ part = "responses" /\ OpenAi!Init /\ Idle(preserve) /\ Idle(state) /\ Idle(events)
          /\ NoChat /\ NoBlocks /\ NoGemini /\ NoOllama /\ NoStage
       \/ /\ part = "gemini" /\ Gemini!Init /\ Idle(calls) /\ Idle(preserve) /\ Idle(events)
          /\ NoChat /\ NoBlocks /\ Idle(finished) /\ NoOllama /\ NoStage
       \/ /\ part = "ollama" /\ Ollama!Init /\ Idle(calls) /\ Idle(preserve) /\ Idle(state)
          /\ Idle(events) /\ NoChat /\ NoBlocks /\ Idle(finished) /\ NoGemini /\ NoStage
       \/ /\ part = "reasoning" /\ Reasonings!Init /\ Idle(calls) /\ Idle(preserve) /\ Idle(state)
          /\ Idle(events) /\ NoAdapter /\ NoFrame /\ NoGuard
       \/ /\ part = "framing" /\ Framing!Init /\ Idle(calls) /\ Idle(preserve) /\ Idle(state)
          /\ Idle(wire) /\ NoAdapter /\ NoRouter /\ NoGuard
       \/ /\ part = "guard" /\ Guard!Init /\ Idle(calls) /\ Idle(preserve) /\ Idle(wire)
          /\ Idle(outcome) /\ NoAdapter /\ NoRouter /\ NoFrame

CompletionsNext ==
    /\ part = "completions" /\ Completions!Next
    /\ UNCHANGED <<part, state, events, blockVars, finished, geminiVars, ollamaVars, stageVars>>
MessagesNext ==
    /\ part = "messages" /\ Messages!Next
    /\ UNCHANGED <<part, calls, state, events, chatVars, finished, geminiVars, ollamaVars, stageVars>>
ResponsesNext ==
    /\ part = "responses" /\ OpenAi!Next
    /\ UNCHANGED <<part, preserve, state, events, chatVars, blockVars, geminiVars, ollamaVars,
                   stageVars>>
GeminiNext ==
    /\ part = "gemini" /\ Gemini!Next
    /\ UNCHANGED <<part, calls, preserve, events, chatVars, blockVars, finished, ollamaVars,
                   stageVars>>
OllamaNext ==
    /\ part = "ollama" /\ Ollama!Next
    /\ UNCHANGED <<part, calls, preserve, state, events, chatVars, blockVars, finished, geminiVars,
                   stageVars>>
ReasoningNext ==
    /\ part = "reasoning" /\ Reasonings!Next
    /\ UNCHANGED <<part, calls, preserve, state, events, sinkOnly, adapterVars, frameVars, guardVars>>
FramingNext ==
    /\ part = "framing" /\ Framing!Next
    /\ UNCHANGED <<part, calls, preserve, state, wire, sinkOnly, adapterVars, routerVars, guardVars>>
GuardNext ==
    /\ part = "guard" /\ Guard!Next
    /\ UNCHANGED <<part, calls, preserve, wire, outcome, sinkOnly, adapterVars, routerVars, frameVars>>

Next == \/ CompletionsNext \/ MessagesNext \/ ResponsesNext \/ GeminiNext \/ OllamaNext
        \/ ReasoningNext \/ FramingNext \/ GuardNext

Spec == Init /\ [][Next]_vars

Adapters == {"completions", "messages", "responses", "gemini", "ollama"}

-----------------------------------------------------------------------------
(* The Responses adapter relies on its provider for one thing: two items   *)
(* never come with one call_id.  Once they do the contract asks nothing    *)
(* more of it: what it is judged by ends before the second start.          *)
Excused == part = "responses" /\ OpenAi!SharedCallId
RestartsAt ==
    {k \in DOMAIN sent :
        sent[k].kind = "started" /\ sent[k] \in ToSet(SubSeq(sent, 1, k - 1))}
Judged == IF Excused THEN SubSeq(sent, 1, Min(RestartsAt \cup {Len(sent) + 1}) - 1) ELSE sent

(* Whatever the adapter, and however ids, names and arguments are cut,     *)
(* repeated or left out, a tool call is one call to the runner, nothing is *)
(* sent after generate has returned, and it returns success only when all  *)
(* calls are completed.  For the Responses adapter this holds as long as   *)
(* each of its items has a call_id of its own: it never compares them, and *)
(* starts one call twice when two items share one.                         *)
Promised == INSTANCE ProviderContract WITH
    sent <- IF part \in Adapters THEN Judged ELSE <<>>,
    outcome <- IF part \in Adapters /\ ~ Excused THEN outcome ELSE "running"
KeepsContract == Promised!Spec

(* A cancelled adapter can return at once: no send that nobody receives    *)
(* and no response that never goes on keeps it.                            *)
CancelledCanReturn ==
    part \in Adapters /\ cancelled /\ outcome = "running" =>
        \/ ENABLED StopsWhenCancelled
        \/ part = "gemini" /\ ENABLED Gemini!FinishResponse

(* Success means that the response was whole: its text, its calls and      *)
(* their arguments reached the runner complete, in the order of the wire,  *)
(* and the response had ended the way its protocol says; and nothing but   *)
(* the response or a cancellation is waited for.                           *)
SuccessIsWhole ==
    /\ CancelledCanReturn
    /\ part = "completions" =>
          Completions!TypeOK /\ Completions!SuccessIsWhole /\ Completions!ArgumentsInOrder
    /\ part = "messages" => Messages!TypeOK /\ Messages!SuccessIsWhole
    /\ part = "responses" => OpenAi!TypeOK /\ OpenAi!CompletedAsSaid /\ OpenAi!SuccessIsWhole
    /\ part = "gemini" => Gemini!TypeOK /\ Gemini!SuccessIsWhole
    /\ part = "ollama" => Ollama!TypeOK /\ Ollama!SuccessIsWhole

(* Reasoning kept for a later request is the reasoning received: no        *)
(* fragment is lost, reordered or merged into another, what an error left  *)
(* half collected is dropped, it is never released beside a tool call, and *)
(* its text is the text the message is stored with.                        *)
ReplayIsFaithful ==
    /\ part = "completions" => Completions!NoReasoningWithCalls
    /\ part = "messages" => Messages!TopologyHasTheText /\ Messages!TopologyCanBeReplayed
    /\ part = "reasoning" => /\ Reasonings!TypeOK /\ Reasonings!ReleasedVerbatim
                             /\ Reasonings!IndexesInOrder /\ Reasonings!NothingLeftBehind

(* However the network cuts the bytes, the events are those of the lines,  *)
(* each is processed when its blank line arrives, and the verdict on the   *)
(* response is the one it would get in one piece.                          *)
EventsAreTheLines ==
    part = "framing" => /\ Framing!TypeOK /\ Framing!EventsAreTheLines
                        /\ Framing!EventsAreProcessedAtOnce /\ Framing!VerdictIgnoresChunks

(* However the provider cuts its answer, the credential is never shown,    *)
(* the stream is refused when and only when it holds the credential, and   *)
(* everything else is shown, in whole characters, as early as possible.    *)
NeverShown ==
    part = "guard" => /\ Guard!TypeOK /\ Guard!NeverShown /\ Guard!RefusedWhenReflected
                      /\ Guard!HoldsBackNoMore /\ Guard!WholeCharacters

=============================================================================
