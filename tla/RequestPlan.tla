----------------------------- MODULE RequestPlan -----------------------------
(***************************************************************************)
(* One model route with a stored generation preset: evidence about the     *)
(* route comes and goes (capability observations, model listings), presets *)
(* are saved, previewed and sent. Every save, preview and send goes through*)
(* the same gate (validate_generation_preset_candidate_plan of             *)
(* crates/core/src/app.rs), which evaluates the preset against the route as*)
(* it is at that moment; the adapter then builds the request body.         *)
(*                                                                         *)
(* The mapping itself is in ReasoningWire, CacheWire and ParameterRules.   *)
(* Left out: preserved opaque reasoning state (PromptPlanning has it), the *)
(* route's availability check (ModelSync), and merging observations of     *)
(* several sources into the selected one.                                  *)
(***************************************************************************)
EXTENDS CacheWire, ParameterRules

CONSTANTS
    Families,       \* API families a route may have
    Dialects,       \* reasoning dialects an observation may carry
    CacheDialects,  \* prompt-cache dialects an observation may carry
    Qualities,      \* what an observation is worth: see drives
    Contracts,      \* the base contracts of a family, as a set of sequences
    Listings,       \* OpenRouter listings of the route
    OpenRouters,    \* whether a chat route may use the built-in OpenRouter template
    ReasoningChoices, CacheChoices, ValueLists \* what a preset may hold

VARIABLES
    family,        \* ModelRoute.api_family
    openrouter,    \* is_exact_built_in_openrouter_template
    base,          \* parameters of the matched catalog entry or the template
    listing,       \* the route's provider metadata
    dialect,       \* effective_reasoning_dialect
    cacheDialect,  \* effective_prompt_cache_dialect
    preset,        \* the stored preset
    sent           \* the body the last step sent, NotSent if it sent none

vars == <<family, openrouter, base, listing, dialect, cacheDialect, preset, sent>>

route == <<family, openrouter, base>>

Unsupported == [kind |-> "unsupported"]

NotSent == {<<<<"not sent">>, <<"not sent">>>>}

Untouched ==
    [reasoning |-> [mode |-> "default", effort |-> None, budget |-> NoBudget,
                    summary |-> "default"],
     cache |-> [mode |-> "default", ttl |-> "default", reference |-> None],
     values |-> <<>>]

---------------------------------------------------------------------------
(* Evidence. *)

observation_can_drive_wire_mapping(quality) ==
    /\ ~quality.stale /\ ~quality.conflict
    /\ quality.confidence # "low"
    /\ quality.source # "llm_inference"
    /\ quality.status \in {"verified", "documented"}

effective_reasoning_dialect(d, quality) ==
    IF /\ observation_can_drive_wire_mapping(quality)
       /\ validate_reasoning_dialect_family(family, d)
       /\ validate_reasoning_dialect_metadata_shape(d)
      THEN d ELSE Unsupported

effective_prompt_cache_dialect(d, quality) ==
    IF observation_can_drive_wire_mapping(quality) /\ validate_cache_dialect_family(family, d)
      THEN d ELSE Unsupported

(* An OpenRouter dialect is used only with the exact built-in template and *)
(* a fresh listing that says the same (matches).                           *)
OpenRouterHolds(d, matches) ==
    d.kind = "openrouter" =>
        openrouter /\ listing.status = "available" /\ listing.fresh /\ matches

---------------------------------------------------------------------------
(* The gate. *)

(* The signed catalog's own parameters are taken to be the base contract. *)
Contract == effective_route_parameter_specs(openrouter, base, base, listing)

Paths(patches) == {p[1] : p \in patches}

Conflicts(a, b) == Paths(a) \cap Paths(b) # {}

(* The patch at a top-level field, as a set of at most one value. *)
At(patches, field) == {p[2] : p \in {q \in patches : q[1] = field}}

AnthropicThinking(d, s) ==
    \/ d.kind = "adaptive" /\ s.mode = "automatic"
    \/ d.kind = "extended" /\ s.mode = "enabled"

\* mutant: thinking excludes the temperature only
FaultyThinkingFields(d, s, patches) ==
    /\ AnthropicThinking(d, s) =>
          /\ At(patches, <<"temperature">>) = {}
          /\ \A v \in At(patches, <<"top_p">>) : v[2] \in 95 .. 100
    /\ d.kind = "extended" /\ s.mode = "enabled" =>
          /\ At(patches, <<"tool_choice">>) \subseteq {Word("auto"), Word("none")}
          /\ \A v \in At(patches, <<"max_tokens">>) : s.budget < v[2]

validate_cross_feature_combinations(d, s, patches) ==
    LET manual == d.kind = "extended" /\ s.mode = "enabled" IN
    /\ AnthropicThinking(d, s) =>
          /\ At(patches, <<"temperature">>) = {} /\ At(patches, <<"top_k">>) = {}
          /\ \A v \in At(patches, <<"top_p">>) : v[2] \in 95 .. 100
    /\ manual =>
          /\ At(patches, <<"tool_choice">>) \subseteq {Word("auto"), Word("none")}
          /\ \A v \in At(patches, <<"max_tokens">>) : s.budget < v[2]
    /\ family = "chat" =>
          At(patches, <<"max_tokens">>) = {} \/ At(patches, <<"max_completion_tokens">>) = {}
    /\ family = "gemini" /\ At(patches, GC("responseJsonSchema")) # {} =>
          At(patches, GC("responseMimeType")) = {Word("application/json")}

(* A plan is [patches, directive], or NoPlan. *)
NoPlan == [patches |-> Refused, directive |-> CacheRefused]

build_provider_request_plan(p) ==
    LET parameters == validate_for_request(family, Contract, p.values)
        reasoning == map_reasoning(dialect, p.reasoning)
        directive == map_prompt_cache(cacheDialect, p.cache)
        cache == CachePatches(directive)
        all == parameters \cup reasoning \cup cache IN
    IF \/ ~Compiles(Contract)
       \/ \E i \in DOMAIN Contract : ~validate_spec_mapping_for_family(family, Contract[i])
       \/ Refused \in {parameters, reasoning} \/ directive = CacheRefused
       \/ Conflicts(parameters, reasoning) \/ Conflicts(parameters \cup reasoning, cache)
       \/ ~validate_cross_feature_combinations(dialect, p.reasoning, all)
      THEN NoPlan
      ELSE [patches |-> all, directive |-> directive]

---------------------------------------------------------------------------
(* The body. Every planned prompt has a system message, so a body always   *)
(* has its system field.                                                   *)

BaseBody ==
    LET fields ==
        CASE family = "responses" -> {"model", "input", "stream", "store"}
          [] family = "chat" -> {"model", "messages", "stream"}
          [] family = "anthropic" -> {"model", "messages", "system", "stream"}
          [] family = "gemini" -> {"systemInstruction", "contents"}
          [] family = "ollama" -> {"model", "messages", "stream"}
    IN {<<<<f>>, Word("owned")>> : f \in fields}

(* insert_json_path: a patch may neither replace a field nor cross one     *)
(* that is no object.                                                      *)
apply_to_body(body, patches) ==
    Gate(\A p, q \in body \cup patches : p # q => ~IsPrefix(p[1], q[1]),
         body \cup patches)

planned_json_payload(plan) ==
    LET body == apply_to_body(BaseBody, plan.patches) IN
    IF body = Refused THEN Refused ELSE apply_prompt_cache_directive(body, plan.directive)

validate_planned_max_tokens(body) ==
    /\ \E v \in At(body, <<"max_tokens">>) : v[2] > 0
    /\ \A v \in At(body, <<"max_tokens">>), b \in At(body, <<"thinking", "budget_tokens">>) :
          b[2] < v[2]

(* A thinking request takes no explicit temperature. *)
omit_incompatible_base_temperature(body) ==
    At(body, <<"thinking", "type">>) \cap {Word("adaptive"), Word("enabled")} # {} =>
        At(body, <<"temperature">>) = {}

(* What generate builds before it opens the connection. *)
Payload(plan) ==
    LET body == planned_json_payload(plan) IN
    Gate(/\ body # Refused
         /\ family = "anthropic" =>
               omit_incompatible_base_temperature(body) /\ validate_planned_max_tokens(body),
         body)

---------------------------------------------------------------------------
Init ==
    /\ family \in Families
    /\ openrouter \in (IF family = "chat" THEN OpenRouters ELSE {FALSE})
    /\ base \in Contracts[family]
    /\ listing \in Listings
    /\ dialect = Unsupported
    /\ cacheDialect = Unsupported
    /\ preset = Untouched
    /\ sent = NotSent

(* A reasoning observation becomes the selected one, or the selected one   *)
(* loses its standing (it expires, or another source contradicts it).      *)
ObserveReasoning ==
    \E d \in Dialects, quality \in Qualities, matches \in BOOLEAN :
        /\ d.kind # "openrouter" => matches
        /\ dialect' = (IF OpenRouterHolds(d, matches)
                         THEN effective_reasoning_dialect(d, quality) ELSE Unsupported)
        /\ sent' = NotSent
        /\ UNCHANGED <<route, listing, cacheDialect, preset>>

ObserveCaching ==
    \E d \in CacheDialects, quality \in Qualities :
        /\ cacheDialect' = effective_prompt_cache_dialect(d, quality)
        /\ sent' = NotSent
        /\ UNCHANGED <<route, listing, dialect, preset>>

(* A model synchronisation renews the listing, or its freshness runs out;  *)
(* an OpenRouter dialect no longer confirmed by it falls away.             *)
ListModel ==
    \E l \in Listings :
        /\ l # listing
        /\ listing' = l
        /\ dialect' = (IF dialect.kind = "openrouter" THEN Unsupported ELSE dialect)
        /\ sent' = NotSent
        /\ UNCHANGED <<route, cacheDialect, preset>>

upsert_generation_preset ==
    \E r \in ReasoningChoices, c \in CacheChoices, v \in ValueLists :
        LET p == [reasoning |-> r, cache |-> c, values |-> v] IN
        /\ p # preset
        /\ build_provider_request_plan(p) # NoPlan
        /\ preset' = p
        /\ sent' = NotSent
        /\ UNCHANGED <<route, listing, dialect, cacheDialect>>

Send ==
    /\ sent = NotSent
    /\ build_provider_request_plan(preset) # NoPlan
    /\ Payload(build_provider_request_plan(preset)) # Refused
    /\ sent' = Payload(build_provider_request_plan(preset))
    /\ UNCHANGED <<route, listing, dialect, cacheDialect, preset>>

Next ==
    \/ ObserveReasoning
    \/ ObserveCaching
    \/ ListModel
    \/ upsert_generation_preset
    \/ Send

Spec == Init /\ [][Next]_vars
---------------------------------------------------------------------------
(* Properties. *)

TypeOK ==
    /\ family \in Families /\ openrouter \in BOOLEAN
    /\ base \in Contracts[family] /\ listing \in Listings
    /\ dialect \in Dialects \cup {Unsupported}
    /\ validate_reasoning_dialect_family(family, dialect)
    /\ cacheDialect \in CacheDialects \cup {Unsupported}
    /\ \/ preset = Untouched
       \/ /\ preset.reasoning \in ReasoningChoices
          /\ preset.cache \in CacheChoices
          /\ preset.values \in ValueLists
    /\ sent # Refused

(* A request uses only what the route's controls show at the moment it is  *)
(* sent: a preset saved while other evidence stood is refused rather than  *)
(* sent or adjusted. (With reasoning off, a summary that is off too is     *)
(* accepted although its field is hidden.)                                 *)
SentIsOffered ==
    sent # NotSent =>
        /\ preset.reasoning.mode # "default" =>
              \E s \in render_reasoning_control(dialect) :
                  /\ [s EXCEPT !.summary = preset.reasoning.summary] = preset.reasoning
                  /\ \/ s.summary = preset.reasoning.summary
                     \/ s.mode = "disabled" /\ preset.reasoning.summary = "disabled"
        /\ preset.cache.mode # "default" =>
              preset.cache \in render_prompt_cache_control(cacheDialect)

(* Two presets that ask for different reasoning never send the same        *)
(* fields, with two exceptions: the Responses API has no word for a        *)
(* summary that is off, and on a Gemini route whose budgets begin at 0 an  *)
(* enabled budget of 0 is sent as thinking that is off.                    *)
Approximated(d, r, s) ==
    \/ /\ d.kind = "responses"
       /\ {r.summary, s.summary} = {"default", "disabled"}
       /\ [r EXCEPT !.summary = s.summary] = s
    \/ /\ d.kind = "budget" /\ d.minimum = 0
       /\ {<<r.mode, r.budget>>, <<s.mode, s.budget>>} =
              {<<"disabled", NoBudget>>, <<"enabled", 0>>}
       /\ r.summary = s.summary

MeaningsStayApart ==
    sent # NotSent =>
        \A r \in ReasoningChoices :
            map_reasoning(dialect, r) = map_reasoning(dialect, preset.reasoning) =>
                r = preset.reasoning \/ Approximated(dialect, r, preset.reasoning)

(* Whatever an editor composes of the fields shown for a mode other than   *)
(* provider default, with effort and budget filled in, is accepted. Routes *)
(* whose metadata lists no effort for a mode that needs one, or summary    *)
(* levels that Gemini does not have, are excepted.                         *)
Described(d) ==
    /\ d.kind \in {"responses", "level"} => d.efforts # {}
    /\ d.kind \in {"level", "budget"} => {"concise", "detailed"} \cap d.summaries = {}

Filled(d, s) ==
    /\ EffortShown(d, s.mode) => s.effort # None
    /\ BudgetShown(d, s.mode) => s.budget # NoBudget

FilledIsAccepted ==
    Described(dialect) =>
        \A s \in render_reasoning_control(dialect) :
            s.mode # "default" /\ Filled(dialect, s) => map_reasoning(dialect, s) # Refused

(* A thinking Anthropic request has more output tokens than its budget and *)
(* carries no sampling field that thinking excludes.                       *)
ThinkingIsWellFormed ==
    At(sent, <<"thinking", "type">>) \cap {Word("adaptive"), Word("enabled")} # {} =>
        /\ At(sent, <<"temperature">>) = {} /\ At(sent, <<"top_k">>) = {}
        /\ \A b \in At(sent, <<"thinking", "budget_tokens">>) :
              \E v \in At(sent, <<"max_tokens">>) : b[2] < v[2]

(* What the gate accepts can be sent: when the contract demands an output  *)
(* limit (the built-in Anthropic one does), the adapter's own checks of the*)
(* body refuse nothing that was saved and previewed.                       *)
DemandsLimit ==
    \E i \in DOMAIN Contract : Contract[i].field = <<"max_tokens">> /\ Contract[i].required

PlannedCanBeSent ==
    LET plan == build_provider_request_plan(preset) IN
    DemandsLimit /\ plan # NoPlan => Payload(plan) # Refused

(* A request carries every value the user set, at the field of its         *)
(* parameter, and no parameter the user left to the provider.              *)
NothingIsDropped ==
    sent # NotSent =>
        LET fields == {Contract[i].field : i \in DOMAIN Contract} IN
        {p \in sent : p[1] \in fields} =
            {<<SpecOf(Contract, id).field,
               literal_to_wire(family, StateOf(preset.values, id))>> :
                id \in Explicit(preset.values)}

(* A parameter's request to be set, or to be alone, holds in what is sent. *)
RulesHold ==
    sent # NotSent =>
        \A i \in DOMAIN Contract :
            LET spec == Contract[i]
                set == Explicit(preset.values) IN
            /\ spec.id \in set => condition_is_true(preset.values, spec)
            /\ spec.required /\ condition_is_true(preset.values, spec) => spec.id \in set
            /\ spec.id \in set =>
                  \A r \in spec.rules : (r.id \in set) = (r.kind = "missing_requirement")

(* On the built-in OpenRouter template a request writes only parameter     *)
(* fields that the route's fresh listing names, and the output limit under *)
(* one name only.                                                          *)
OnlyListedFields ==
    sent # NotSent /\ openrouter /\ listing.fresh =>
        /\ Paths(sent) \cap (PlainFields \cup OutputFields) \subseteq listing.supported
        /\ Cardinality(Paths(sent) \cap OutputFields) <= 1

(* A parameter that the listing leaves refers to one that it removes, or   *)
(* renames, or caps below the value the reference asks for.                *)
Orphaned ==
    \E i \in DOMAIN Contract :
        \/ ~validate_condition_references(Contract, Contract[i])
        \/ \E r \in Contract[i].rules : r.id \notin Ids(Contract)

(* The output limit keeps its choices when the listing lowers its maximum. *)
ChoiceAboveCap ==
    /\ openrouter /\ listing.fresh
    /\ \E i \in DOMAIN Contract :
          /\ Contract[i].field \in OutputFields
          /\ \E c \in Contract[i].schema.choices : c > listing.cap

(* The output limit is renamed to a name that another parameter has.       *)
NameTaken ==
    Cardinality({i \in DOMAIN Contract : Contract[i].id = "max_output_tokens"}) > 1

(* Of a contract that compiles, a listing leaves one that compiles unless  *)
(* the restriction breaks it in one of these three ways, and each of them  *)
(* does break it.                                                          *)
RestrictedContractCompiles ==
    Compiles(base) =>
        (Compiles(Contract) <=> ~Orphaned /\ ~ChoiceAboveCap /\ ~NameTaken)

---------------------------------------------------------------------------
(* What the comments say and the code does not do. *)

(* "the exact reasoning controls native UIs may display": what is filled   *)
(* in into the displayed fields is accepted, in provider-default mode too. *)
OfferedIsAccepted ==
    Described(dialect) =>
        \A s \in render_reasoning_control(dialect) :
            Filled(dialect, s) => map_reasoning(dialect, s) # Refused

(* "Provider differences that cannot be represented without loss are       *)
(* rejected instead of being approximated."                                *)
NothingIsApproximated ==
    sent # NotSent =>
        \A r \in ReasoningChoices :
            map_reasoning(dialect, r) = map_reasoning(dialect, preset.reasoning) =>
                r = preset.reasoning

(* "generateContent can select an existing cachedContents resource": a     *)
(* preset that does can be sent.                                           *)
ContextCanBeSent ==
    preset.cache.mode = "explicit_context" =>
        LET plan == build_provider_request_plan(preset) IN
        plan # NoPlan => planned_json_payload(plan) # Refused
=============================================================================
