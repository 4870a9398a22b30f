---------------------------- MODULE ReasoningWire ----------------------------
(***************************************************************************)
(* How a preset's reasoning settings become fields of a provider request   *)
(* (crates/providers/src/parameter_mapping.rs): which settings a route's   *)
(* dialect accepts, which body fields each writes, and which controls the  *)
(* editor is told to show.                                                 *)
(*                                                                         *)
(* A request field is the sequence of its path's segments, a JSON value a  *)
(* sequence (a word, or "tokens" and a number), a patch a pair of the two. *)
(* A list of efforts or summaries is the set of its members; the refusal   *)
(* of duplicates is left out. None stands for an absent option and         *)
(* NoBudget, which no u32 is, for an absent budget.                        *)
(***************************************************************************)
EXTENDS Integers, FiniteSets, Sequences

None == "none given"

NoBudget == -1

(* The result of a refused mapping, which no accepted one equals. *)
Refused == {<<<<"refused">>, <<"refused">>>>}

(* A result: the patches to write when the condition holds. *)
Gate(accepted, writes) == IF accepted THEN writes ELSE Refused

Word(w) == <<w>>

Tokens(n) == <<"tokens", n>>

(* The patch, when the condition for it holds. *)
Patch(written, path, value) == IF written THEN {<<path, value>>} ELSE {}

---------------------------------------------------------------------------
(* Dialects. *)

(* reasoning_effort_wire keeps the six efforts apart; OpenRouter adds "off",*)
(* its word for no reasoning (OpenRouterReasoningEffort::None).             *)
Efforts == {"minimal", "low", "medium", "high", "xhigh", "max"}

AllGateway == Efforts \cup {"off"}

FamilyOf ==
    [responses |-> "responses", chat |-> "chat", openrouter |-> "chat",
     adaptive |-> "anthropic", extended |-> "anthropic",
     level |-> "gemini", budget |-> "gemini",
     boolean |-> "ollama", think |-> "ollama"]

validate_reasoning_dialect_family(family, d) ==
    d.kind = "unsupported" \/ FamilyOf[d.kind] = family

(* What an OpenRouter listing exposes: nothing, every gateway effort, or a *)
(* list (the set of it).                                                   *)
ExposedEfforts(d) ==
    CASE d.support.kind = "not_exposed" -> {}
      [] d.support.kind = "all" -> AllGateway
      [] d.support.kind = "exact" -> d.support.efforts

openrouter_reasoning_efforts(d) == ExposedEfforts(d) \ {"off"}

validate_openrouter_reasoning_style(d) ==
    d.style = "legacy" => d.support.kind # "not_exposed"

openrouter_supports_disabled(d) ==
    /\ d.mandatory # "yes"
    /\ \/ "off" \in ExposedEfforts(d)
       \/ d.style = "unified" /\ d.mandatory = "no"

openrouter_supports_enabled(d) ==
    \/ openrouter_reasoning_efforts(d) # {}
    \/ d.style = "unified" /\ ExposedEfforts(d) = {}

validate_openrouter_reasoning_metadata(d) ==
    /\ d.defaultEffort # None => d.defaultEffort \in ExposedEfforts(d)
    /\ ~ /\ d.mandatory = "yes"
         /\ \/ "off" \in ExposedEfforts(d)
            \/ d.defaultEffort = "off"
            \/ d.defaultEnabled = "no"
    /\ ~(d.defaultEffort = "off" /\ d.defaultEnabled = "yes")

validate_reasoning_dialect_metadata_shape(d) ==
    CASE d.kind = "openrouter" ->
            /\ validate_openrouter_reasoning_style(d)
            /\ validate_openrouter_reasoning_metadata(d)
      [] d.kind = "adaptive" ->
            "minimal" \notin d.efforts /\ {"concise", "detailed"} \cap d.summaries = {}
      [] d.kind = "extended" ->
            /\ "minimal" \notin d.efforts /\ {"concise", "detailed"} \cap d.summaries = {}
            /\ d.minimum # 0 /\ d.minimum <= d.maximum
      [] d.kind = "budget" -> d.maximum # 0 /\ d.minimum <= d.maximum
      [] d.kind = "think" ->
            d.efforts # {} /\ d.efforts \subseteq {"low", "medium", "high", "max"}
      [] OTHER -> TRUE

---------------------------------------------------------------------------
(* The mapping, one operator per dialect. *)

validate_reasoning_shape(s) ==
    /\ s.mode = "disabled" =>
          s.effort = None /\ s.budget = NoBudget /\ s.summary \in {"default", "disabled"}
    /\ s.mode = "default" =>
          s.effort = None /\ s.budget = NoBudget /\ s.summary = "default"

require_summary(summary, allowed) == summary = "default" \/ summary \in allowed

map_openai_responses_reasoning(d, s) ==
    Gate(/\ s.budget = NoBudget
         /\ \/ s.mode = "disabled" /\ d.supportsDisabled
            \/ s.mode = "enabled" /\ s.effort \in d.efforts
         /\ require_summary(s.summary, d.summaries),
         {<<<<"reasoning", "effort">>,
            Word(IF s.mode = "disabled" THEN "none" ELSE s.effort)>>}
         \cup Patch(s.summary \in {"automatic", "concise", "detailed"},
                    <<"reasoning", "summary">>, Word(s.summary)))

map_openai_chat_reasoning(d, s) ==
    Gate(/\ s.budget = NoBudget /\ s.summary = "default"
         /\ \/ s.mode = "disabled" /\ d.supportsDisabled
            \/ s.mode = "enabled" /\ s.effort \in d.efforts,
         {<<<<"reasoning_effort">>,
            Word(IF s.mode = "disabled" THEN "none" ELSE s.effort)>>})

(* A unified route says on or off with reasoning.enabled; a legacy one has *)
(* a word for off and none for on.                                         *)
insert_openrouter_boolean_patch(d, on) ==
    IF d.style = "unified"
      THEN {<<<<"reasoning", "enabled">>, Word(IF on THEN "true" ELSE "false")>>}
      ELSE Gate(~on, {<<<<"reasoning_effort">>, Word("none")>>})

openrouter_enabled_patch_path(d) ==
    IF d.style = "unified" THEN <<"reasoning", "effort">> ELSE <<"reasoning_effort">>

map_openrouter_reasoning(d, s) ==
    LET efforts == openrouter_reasoning_efforts(d) IN
    CASE s.budget # NoBudget \/ s.summary # "default" -> Refused
      [] s.mode = "disabled" /\ openrouter_supports_disabled(d) ->
            insert_openrouter_boolean_patch(d, FALSE)
      [] s.mode = "enabled" /\ openrouter_supports_enabled(d) /\ s.effort \in efforts ->
            {<<openrouter_enabled_patch_path(d), Word(s.effort)>>}
      [] /\ s.mode = "enabled" /\ openrouter_supports_enabled(d)
         /\ s.effort = None /\ efforts = {} ->
            insert_openrouter_boolean_patch(d, TRUE)
      [] OTHER -> Refused

(* Effort and summary of a thinking Anthropic request. *)
AnthropicRest(d, s) ==
    Patch(s.effort # None, <<"output_config", "effort">>, Word(s.effort))
    \cup Patch(s.summary # "default", <<"thinking", "display">>,
               Word(IF s.summary = "disabled" THEN "omitted" ELSE "summarized"))

map_anthropic_summary(d, s) ==
    /\ require_summary(s.summary, d.summaries)
    /\ s.summary \in {"default", "disabled", "automatic"}

AnthropicOff(d, s) ==
    Gate(s.summary = "default" /\ d.supportsDisabled,
         {<<<<"thinking", "type">>, Word("disabled")>>})

map_anthropic_adaptive(d, s) ==
    CASE s.budget # NoBudget -> Refused
      [] s.mode = "disabled" -> AnthropicOff(d, s)
      [] OTHER ->
            Gate(/\ s.mode = "automatic"
                 /\ s.effort \in d.efforts \cup {None}
                 /\ map_anthropic_summary(d, s),
                 {<<<<"thinking", "type">>, Word("adaptive")>>} \cup AnthropicRest(d, s))

\* mutant: the budget is not compared with the model's bounds
Faultymap_anthropic_extended(d, s) ==
    IF s.mode = "disabled" THEN AnthropicOff(d, s)
    ELSE Gate(/\ s.mode = "enabled" /\ s.budget # NoBudget
              /\ s.effort \in d.efforts \cup {None} /\ map_anthropic_summary(d, s),
              {<<<<"thinking", "type">>, Word("enabled")>>,
               <<<<"thinking", "budget_tokens">>, Tokens(s.budget)>>}
              \cup AnthropicRest(d, s))

map_anthropic_extended(d, s) ==
    IF s.mode = "disabled" THEN AnthropicOff(d, s)
    ELSE Gate(/\ s.mode = "enabled"
              /\ s.budget # NoBudget
              /\ s.budget \in d.minimum .. d.maximum
              /\ s.effort \in d.efforts \cup {None}
              /\ map_anthropic_summary(d, s),
              {<<<<"thinking", "type">>, Word("enabled")>>,
               <<<<"thinking", "budget_tokens">>, Tokens(s.budget)>>}
              \cup AnthropicRest(d, s))

ThinkingConfig == <<"generationConfig", "thinkingConfig">>

GeminiSummary(s) ==
    Patch(s.summary # "default", ThinkingConfig \o <<"includeThoughts">>,
          Word(IF s.summary = "disabled" THEN "false" ELSE "true"))

map_gemini_summary(d, s) ==
    /\ require_summary(s.summary, d.summaries)
    /\ s.summary \in {"default", "disabled", "automatic"}

map_gemini_level(d, s) ==
    Gate(/\ s.budget = NoBudget
         /\ s.mode = "automatic" /\ d.supportsAutomatic
         /\ s.effort \in d.efforts
         /\ map_gemini_summary(d, s),
         {<<ThinkingConfig \o <<"thinkingLevel">>, Word(s.effort)>>} \cup GeminiSummary(s))

(* A budget of 0 turns thinking off and -1 leaves it to the model. *)
map_gemini_budget(d, s) ==
    Gate(/\ s.effort = None
         /\ \/ s.mode = "disabled" /\ d.zeroDisables
            \/ s.mode = "automatic" /\ d.supportsAutomatic /\ s.budget = NoBudget
            \/ s.mode = "enabled" /\ s.budget # NoBudget /\ s.budget \in d.minimum .. d.maximum
         /\ map_gemini_summary(d, s),
         {<<ThinkingConfig \o <<"thinkingBudget">>,
            Tokens(CASE s.mode = "disabled" -> 0
                     [] s.mode = "automatic" -> -1
                     [] OTHER -> s.budget)>>}
         \cup GeminiSummary(s))

map_ollama_boolean(d, s) ==
    Gate(/\ s.effort = None /\ s.budget = NoBudget /\ s.summary = "default"
         /\ s.mode \in {"disabled", "enabled"},
         {<<<<"think">>, Word(IF s.mode = "enabled" THEN "true" ELSE "false")>>})

map_ollama_level(d, s) ==
    Gate(/\ s.budget = NoBudget /\ s.summary = "default"
         /\ \/ s.mode = "disabled" /\ d.supportsDisabled
            \/ s.mode = "enabled" /\ s.effort \in d.efforts,
         {<<<<"think">>, Word(IF s.mode = "enabled" THEN s.effort ELSE "false")>>})

map_reasoning(d, s) ==
    CASE ~validate_reasoning_shape(s) -> Refused
      [] s.mode = "default" -> {}
      [] s.mode # "default" /\ validate_reasoning_shape(s) ->
            CASE d.kind = "unsupported" -> Refused
              [] d.kind = "responses" -> map_openai_responses_reasoning(d, s)
              [] d.kind = "chat" -> map_openai_chat_reasoning(d, s)
              [] d.kind = "openrouter" -> map_openrouter_reasoning(d, s)
              [] d.kind = "adaptive" -> map_anthropic_adaptive(d, s)
              [] d.kind = "extended" -> map_anthropic_extended(d, s)
              [] d.kind = "level" -> map_gemini_level(d, s)
              [] d.kind = "budget" -> map_gemini_budget(d, s)
              [] d.kind = "boolean" -> map_ollama_boolean(d, s)
              [] d.kind = "think" -> map_ollama_level(d, s)
---------------------------------------------------------------------------
(* render_reasoning_control: what the editor may show. *)

AllowedModes(d) ==
    {"default"} \cup
    CASE d.kind \in {"responses", "extended", "think"} ->
            {"enabled"} \cup {m \in {"disabled"} : d.supportsDisabled}
      [] d.kind = "chat" ->
            {m \in {"enabled"} : d.efforts # {}} \cup {m \in {"disabled"} : d.supportsDisabled}
      [] d.kind = "openrouter" ->
            {m \in {"enabled"} : openrouter_supports_enabled(d)}
            \cup {m \in {"disabled"} : openrouter_supports_disabled(d)}
      [] d.kind = "adaptive" -> {"automatic"} \cup {m \in {"disabled"} : d.supportsDisabled}
      [] d.kind = "level" -> {m \in {"automatic"} : d.supportsAutomatic}
      [] d.kind = "budget" ->
            {"enabled"} \cup {m \in {"automatic"} : d.supportsAutomatic}
                        \cup {m \in {"disabled"} : d.zeroDisables}
      [] d.kind = "boolean" -> {"enabled", "disabled"}

AllowedEfforts(d) ==
    CASE d.kind = "openrouter" -> openrouter_reasoning_efforts(d)
      [] d.kind \in {"budget", "boolean"} -> {}
      [] OTHER -> d.efforts

AllowedSummaries(d) ==
    {"default"} \cup
    IF d.kind \in {"responses", "adaptive", "extended", "level", "budget"} THEN d.summaries ELSE {}

EffortShown(d, mode) ==
    /\ mode # "disabled"
    /\ AllowedEfforts(d) # {}
    /\ d.kind \in {"openrouter", "think"} => mode = "enabled"
    /\ d.kind = "level" => mode = "automatic"

BudgetShown(d, mode) == mode = "enabled" /\ d.kind \in {"extended", "budget"}

SummaryShown(d, mode) ==
    /\ mode # "disabled"
    /\ ~(d.kind \in {"adaptive", "extended"} /\ mode = "default")
    /\ AllowedSummaries(d) # {"default"}

(* The settings an editor can compose of the fields that are shown: a mode *)
(* of the list, and for each field a listed value, or none where it is     *)
(* hidden or may be left empty.                                            *)
render_reasoning_control(d) ==
    IF d.kind = "unsupported" THEN {}
    ELSE UNION {
        [mode : {mode},
         effort : {None} \cup {e \in AllowedEfforts(d) : EffortShown(d, mode)},
         budget : {NoBudget} \cup IF BudgetShown(d, mode) THEN d.minimum .. d.maximum ELSE {},
         summary : {"default"} \cup {u \in AllowedSummaries(d) : SummaryShown(d, mode)}]
        : mode \in AllowedModes(d)}
=============================================================================
