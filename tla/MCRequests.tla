----------------------------- MODULE MCRequests -----------------------------
(***************************************************************************)
(* What a request is made of.  PromptPlanning in two scopes: small budgets *)
(* with sizes at, below and above each limit, and answers that carry       *)
(* opaque state.  RequestPlan in four: every reasoning dialect, every      *)
(* cache dialect, thinking beside the other Anthropic parameters, and      *)
(* contracts of parameters restricted by OpenRouter listings.  A behaviour *)
(* is one of one scope; the variables of the others are 0.                 *)
(***************************************************************************)
EXTENDS CacheWire, ParameterRules

CONSTANTS Scopes, t1, t2, Nobody

VARIABLES
    scope,
    lineage, profile, planned,                                                \* prompt
    family, openrouter, base, listing, dialect, cacheDialect, preset, sent    \* request

-----------------------------------------------------------------------------
(* Prompts: three messages besides the two static ones.                    *)
Size(b, c) == [bytes |-> b, chars |-> c]

MCMaxPrompt == Size(9, 7)
MCMaxItem == Size(4, 3)
MCMaxUser == Size(3, 3)
MCPolicy == Size(1, 1)

\* a text of a wide character and an answer at the limit of an item: with the
\* small character three of the first fill a prompt, and so do one of each
MCTexts == {Size(2, 1), Size(4, 3)}

MCShortTexts == {Size(1, 1)}

\* a small character, one that leaves room for little, one whose source is
\* larger than its trimmed encoding, and one that is too large
MCProfiles == {[source |-> Size(1, 1), encoded |-> Size(2, 2)],
               [source |-> Size(5, 4), encoded |-> Size(6, 5)],
               [source |-> Size(10, 3), encoded |-> Size(2, 2)]}

MCSmallProfile == {[source |-> Size(1, 1), encoded |-> Size(2, 2)]}

\* nothing, or a user row from before the limits with its answer
MCLegacy == {<<>>,
             <<[role |-> "user", status |-> "complete", size |-> Size(6, 5),
                ran |-> Nobody, opaque |-> 0],
               [role |-> "assistant", status |-> "complete", size |-> Size(1, 1),
                ran |-> Nobody, opaque |-> 0]>>}

-----------------------------------------------------------------------------
(* Requests: each scope widens one part and keeps the others at their      *)
(* defaults.                                                               *)
Good == [stale |-> FALSE, conflict |-> FALSE, confidence |-> "high",
         source |-> "provider_api", status |-> "verified"]

MCQualities ==
    {Good, [Good EXCEPT !.stale = TRUE], [Good EXCEPT !.conflict = TRUE],
     [Good EXCEPT !.confidence = "low"], [Good EXCEPT !.source = "llm_inference"],
     [Good EXCEPT !.status = "unknown"], [Good EXCEPT !.status = "documented"]}

GoodOnly == {Good}

-----------------------------------------------------------------------------
(* Dialects over two efforts and the summaries that matter. *)

EffortLists == {{}, {"low"}, {"minimal", "low"}}

SummaryLists == {{}, {"automatic", "disabled"}, {"automatic", "concise"}}

Responses == [kind : {"responses"}, efforts : EffortLists, summaries : SummaryLists,
              supportsDisabled : BOOLEAN]

Chat == [kind : {"chat"}, efforts : EffortLists, supportsDisabled : BOOLEAN]

Supports == [kind : {"not_exposed", "all"}, efforts : {{}}]
            \cup [kind : {"exact"}, efforts : {{}, {"off"}, {"low"}, {"off", "low"}}]

OpenRouter == [kind : {"openrouter"}, style : {"unified", "legacy"}, support : Supports,
               mandatory : {"yes", "no", "unknown"}, defaultEffort : {None, "off", "low"},
               defaultEnabled : {"yes", "no"}]

Adaptive == [kind : {"adaptive"}, efforts : EffortLists, summaries : SummaryLists,
             supportsDisabled : BOOLEAN]

Extended ==
    [kind : {"extended"}, efforts : EffortLists, summaries : SummaryLists,
     supportsDisabled : BOOLEAN, minimum : {0, 1}, maximum : {2}]

Level == [kind : {"level"}, efforts : EffortLists, summaries : SummaryLists,
          supportsAutomatic : BOOLEAN]

BudgetDialects ==
    [kind : {"budget"}, summaries : SummaryLists, supportsAutomatic : BOOLEAN,
     zeroDisables : BOOLEAN, minimum : {0, 1}, maximum : {0, 2}]

Think == [kind : {"think"}, efforts : EffortLists, supportsDisabled : BOOLEAN]

MCDialects ==
    Responses \cup Chat \cup OpenRouter \cup Adaptive \cup Extended \cup Level
    \cup BudgetDialects \cup Think \cup {[kind |-> "boolean"]}

NoDialects == {[kind |-> "unsupported"]}

MCReasoning ==
    [mode : {"default", "disabled", "automatic", "enabled"},
     effort : {None, "minimal", "low"}, budget : {NoBudget, 0, 1, 2, 3},
     summary : {"default", "disabled", "automatic", "concise"}]

NoReasoning ==
    {[mode |-> "default", effort |-> None, budget |-> NoBudget, summary |-> "default"]}

-----------------------------------------------------------------------------
MCCacheDialects ==
    [kind : {"openai"}, day : BOOLEAN]
    \cup [kind : {"anthropic"}, automatic : BOOLEAN, breakpoints : BOOLEAN, oneHour : BOOLEAN]
    \cup [kind : {"gemini"}, implicit : BOOLEAN, context : BOOLEAN]

MCCache ==
    [mode : {"default", "automatic", "breakpoints", "explicit_context", "disabled"},
     ttl : {"default", "short", "long", "custom", "custom out of range"},
     reference : {None, "good", "malformed"}]

NoCache == {[mode |-> "default", ttl |-> "default", reference |-> None]}

-----------------------------------------------------------------------------
AllFamilies == {"responses", "chat", "anthropic", "gemini", "ollama"}

Schema(kind, minimum, maximum, choices) ==
    [kind |-> kind, minimum |-> minimum, maximum |-> maximum, step |-> {}, choices |-> choices]

Param(id, schema, field) ==
    [id |-> id, schema |-> schema, field |-> field, header |-> FALSE, required |-> FALSE,
     visibility |-> {}, rules |-> {}]

OneListing == {[status |-> "available", fresh |-> TRUE, supported |-> {}, cap |-> U32Max]}

(* No parameters, but for the output limit without which nothing is sent   *)
(* to Anthropic.                                                           *)
LimitOnly ==
    [f \in AllFamilies |->
        {IF f = "anthropic"
           THEN <<[Param("max_output_tokens", Schema("integer", {1}, {}, {}), <<"max_tokens">>)
                     EXCEPT !.required = TRUE]>>
           ELSE <<>>}]

Set(id, kind, v) == [id |-> id, value |-> <<kind, v>>]

LimitValues == {<<>>, <<Set("max_output_tokens", "integer", 4)>>}

(* Anthropic: the sampling fields, the output limit and the tool policy. *)
AnthropicSpecs ==
    <<Param("temperature", Schema("number", {0}, {100}, {}), <<"temperature">>),
      Param("top_p", Schema("number", {0}, {100}, {}), <<"top_p">>),
      Param("top_k", Schema("integer", {}, {}, {}), <<"top_k">>),
      Param("max_output_tokens", Schema("integer", {1}, {}, {}), <<"max_tokens">>),
      Param("tools", Schema("tool", {}, {}, {"none", "auto", "required"}), <<"tool_choice">>)>>

(* One contract demands the output limit, as the built-in one does. *)
AnthropicContracts ==
    [f \in {"anthropic"} |->
        {AnthropicSpecs, [AnthropicSpecs EXCEPT ![4].required = TRUE]}]

AnthropicValues ==
    LET limits == {<<>>} \cup {<<Set("max_output_tokens", "integer", n)>> : n \in {2, 3}}
        others == {<<>>, <<Set("temperature", "number", 50)>>,
                   <<Set("top_p", "number", 95)>>, <<Set("top_p", "number", 94)>>,
                   <<Set("top_k", "integer", 5)>>}
                  \cup {<<Set("tools", "tool", policy)>> : policy \in {"auto", "required"}}
    IN {a \o b : a \in limits, b \in others}

AnthropicDialects ==
    [kind : {"adaptive"}, efforts : {{"low"}}, summaries : {{}}, supportsDisabled : BOOLEAN]
    \cup [kind : {"extended"}, efforts : {{"low"}}, summaries : {{}}, supportsDisabled : BOOLEAN,
          minimum : {1}, maximum : {3}]

AnthropicReasoning ==
    {r \in MCReasoning :
        r.summary = "default" /\ r.effort # "minimal" /\ r.budget \in {NoBudget, 1, 2}}

(* OpenRouter: plain contracts, and one whose parameters refer to each     *)
(* other (b is shown while a is 1, is required then, and excludes c).      *)
ABC ==
    <<Param("a", Schema("integer", {0}, {1}, {}), <<"seed">>),
      [Param("b", Schema("number", {}, {}, {1, 2}), <<"top_p">>) EXCEPT
          !.visibility = {[same |-> TRUE, id |-> "a", value |-> <<"integer", 1>>]},
          !.required = TRUE,
          !.rules = {[kind |-> "mutually_exclusive", id |-> "c"]}],
      [Param("c", Schema("enum", {}, {}, {"x"}), <<"service_tier">>) EXCEPT
          !.rules = {[kind |-> "missing_requirement", id |-> "a"]}]>>

Outputs(id, field, maximum) == Param(id, Schema("integer", {2}, maximum, {}), field)

ChatContracts ==
    [f \in {"chat"} |->
        {ABC,
         <<Param("t", Schema("number", {}, {}, {}), <<"temperature">>),
           Outputs("a", <<"max_tokens">>, {3})>>,
         <<Outputs("a", <<"max_tokens">>, {}), Outputs("b", <<"max_completion_tokens">>, {3}),
           Param("seed", Schema("integer", {}, {}, {}), <<"seed">>)>>,
         \* a limit to choose from a list, and a parameter that has the name
         \* the limit is given
         <<Param("a", Schema("integer", {1}, {}, {1, 2}), <<"max_tokens">>)>>,
         <<Param("max_output_tokens", Schema("number", {}, {}, {}), <<"temperature">>),
           Outputs("b", <<"max_tokens">>, {})>>,
         <<Outputs("max_output_tokens", <<"max_tokens">>, {3}),
           Param("penalty", Schema("number", {}, {}, {}), <<"presence_penalty">>)>>}]

MCListings ==
    [status : {"available"}, fresh : {TRUE}, cap : {1, 2},
     supported : {{}, {<<"seed">>, <<"max_tokens">>},
                  {<<"max_tokens">>, <<"max_completion_tokens">>, <<"temperature">>},
                  {<<"presence_penalty">>, <<"max_completion_tokens">>, <<"top_p">>}}]
    \cup [status : {"available", "unverified"}, fresh : {FALSE}, cap : {2}, supported : {{}}]

ChatValues ==
    LET values == {Set("a", "integer", 0), Set("a", "integer", 1), Set("a", "integer", 2),
                   Set("b", "number", 1), Set("b", "number", 3), Set("c", "enum", "x"),
                   Set("seed", "integer", 1), Set("max_output_tokens", "integer", 2),
                   Set("t", "number", 1), Set("presence_penalty", "number", 1),
                   [id |-> "a", value |-> Inherit]}
    IN {<<>>} \cup {<<x>> : x \in values} \cup {<<x, y>> : x, y \in values}
       \cup {<<Set("a", "integer", 1), Set("b", "number", 1), Set("c", "enum", "x")>>}

-----------------------------------------------------------------------------
Budget == INSTANCE PromptPlanning WITH
    MaxPromptMessages <- 5, MaxPrompt <- MCMaxPrompt, MaxItem <- MCMaxItem, MaxUser <- MCMaxUser,
    LineageRows <- 4, MaxStates <- 1, MaxStateBytes <- 2, Texts <- MCTexts, Policy <- MCPolicy,
    Profiles <- MCProfiles, Targets <- {t1}, None <- Nobody, StateSizes <- {},
    Preserves <- {FALSE}, Legacy <- MCLegacy, MaxRows <- 6
Opaque == INSTANCE PromptPlanning WITH
    MaxPromptMessages <- 6, MaxPrompt <- MCMaxPrompt, MaxItem <- MCMaxItem, MaxUser <- MCMaxUser,
    LineageRows <- 6, MaxStates <- 1, MaxStateBytes <- 2, Texts <- MCShortTexts,
    Policy <- MCPolicy, Profiles <- MCSmallProfile, Targets <- {t1, t2}, None <- Nobody,
    StateSizes <- {1}, Preserves <- BOOLEAN, Legacy <- {<<>>}, MaxRows <- 6

Reasoning == INSTANCE RequestPlan WITH
    Families <- AllFamilies, Dialects <- MCDialects, CacheDialects <- NoDialects,
    Qualities <- MCQualities, Contracts <- LimitOnly, Listings <- OneListing,
    OpenRouters <- {TRUE}, ReasoningChoices <- MCReasoning, CacheChoices <- NoCache,
    ValueLists <- LimitValues
Caching == INSTANCE RequestPlan WITH
    Families <- AllFamilies, Dialects <- NoDialects, CacheDialects <- MCCacheDialects,
    Qualities <- MCQualities, Contracts <- LimitOnly, Listings <- OneListing,
    OpenRouters <- {FALSE}, ReasoningChoices <- NoReasoning, CacheChoices <- MCCache,
    ValueLists <- LimitValues
Thinking == INSTANCE RequestPlan WITH
    Families <- {"anthropic"}, Dialects <- AnthropicDialects, CacheDialects <- NoDialects,
    Qualities <- GoodOnly, Contracts <- AnthropicContracts, Listings <- OneListing,
    OpenRouters <- {FALSE}, ReasoningChoices <- AnthropicReasoning, CacheChoices <- NoCache,
    ValueLists <- AnthropicValues
Parameters == INSTANCE RequestPlan WITH
    Families <- {"chat"}, Dialects <- NoDialects, CacheDialects <- NoDialects,
    Qualities <- GoodOnly, Contracts <- ChatContracts, Listings <- MCListings,
    OpenRouters <- BOOLEAN, ReasoningChoices <- NoReasoning, CacheChoices <- NoCache,
    ValueLists <- ChatValues

promptVars == <<lineage, profile, planned>>
requestVars == <<family, openrouter, base, listing, dialect, cacheDialect, preset, sent>>

Idle(v) == v = 0
NoPrompt == Idle(lineage) /\ Idle(profile) /\ Idle(planned)
NoRequest ==
    /\ Idle(family) /\ Idle(openrouter) /\ Idle(base) /\ Idle(listing)
    /\ Idle(dialect) /\ Idle(cacheDialect) /\ Idle(preset) /\ Idle(sent)

Init ==
    /\ scope \in Scopes
    /\ \/ scope = "budget" /\ Budget!Init /\ NoRequest
       \/ scope = "opaque" /\ Opaque!Init /\ NoRequest
       \/ scope = "reasoning" /\ Reasoning!Init /\ NoPrompt
       \/ scope = "caching" /\ Caching!Init /\ NoPrompt
       \/ scope = "thinking" /\ Thinking!Init /\ NoPrompt
       \/ scope = "parameters" /\ Parameters!Init /\ NoPrompt

BudgetNext == scope = "budget" /\ Budget!Next /\ UNCHANGED <<scope, requestVars>>
OpaqueNext == scope = "opaque" /\ Opaque!Next /\ UNCHANGED <<scope, requestVars>>
ReasoningNext == scope = "reasoning" /\ Reasoning!Next /\ UNCHANGED <<scope, promptVars>>
CachingNext == scope = "caching" /\ Caching!Next /\ UNCHANGED <<scope, promptVars>>
ThinkingNext == scope = "thinking" /\ Thinking!Next /\ UNCHANGED <<scope, promptVars>>
ParametersNext == scope = "parameters" /\ Parameters!Next /\ UNCHANGED <<scope, promptVars>>

Next == \/ BudgetNext \/ OpaqueNext
        \/ ReasoningNext \/ CachingNext \/ ThinkingNext \/ ParametersNext
Spec == Init /\ [][Next]_<<scope, promptVars, requestVars>>

-----------------------------------------------------------------------------
(* A prompt is the longest run of newest messages that fits, what planning *)
(* accepts is not refused after it has been stored, and, opaque state      *)
(* aside, history never makes a request impossible.                        *)
PromptIsTheLongestThatRuns ==
    /\ scope = "budget" => /\ Budget!QuotesTheLongestSuffix /\ Budget!AcceptedRuns
                           /\ Budget!HistoryNeverRefuses
    /\ scope = "opaque" => Opaque!TypeOK /\ Opaque!AcceptedRuns

(* A request uses only what the route's controls show when it is sent;     *)
(* presets that ask for different reasoning send different fields, but for *)
(* a summary that is off at the Responses API and an enabled Gemini budget *)
(* of 0, which is sent as thinking that is off; and whatever an editor     *)
(* composes of the fields it shows is accepted, in modes other than        *)
(* provider default and where the route's metadata is complete (Described).*)
SentIsOffered ==
    /\ scope = "reasoning" => /\ Reasoning!TypeOK /\ Reasoning!SentIsOffered
                              /\ Reasoning!MeaningsStayApart /\ Reasoning!FilledIsAccepted
    /\ scope = "caching" => Caching!SentIsOffered

(* A thinking request has more output tokens than its budget, no           *)
(* temperature and no top_k; and under a contract that demands the output  *)
(* limit, what the gate accepts the adapter can send. (The bounds of top_p *)
(* and the tool choices are conditions of the gate alone.)                 *)
ThinkingIsWellFormed ==
    scope = "thinking" => Thinking!ThinkingIsWellFormed /\ Thinking!PlannedCanBeSent

(* A request carries every value the user set and no other, obeys the      *)
(* rules between parameters, and writes only fields the listing names. A   *)
(* listing makes a contract that compiled unusable in three cases and no   *)
(* other: a parameter it leaves refers to one it removes or renames, the   *)
(* output limit has a choice above the listing's cap, or its new name is   *)
(* taken.                                                                  *)
NothingIsDropped ==
    scope = "parameters" => /\ Parameters!NothingIsDropped /\ Parameters!RulesHold
                            /\ Parameters!OnlyListedFields
                            /\ Parameters!RestrictedContractCompiles
=============================================================================
