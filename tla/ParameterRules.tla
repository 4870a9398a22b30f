---------------------------- MODULE ParameterRules ----------------------------
(***************************************************************************)
(* The parameter engine of crates/providers/src/parameter_mapping.rs: how  *)
(* a route's parameter contract is compiled, how a preset's values are     *)
(* checked against it and which request field each accepted value writes;  *)
(* and how an OpenRouter listing restricts the contract                    *)
(* (crates/core/src/app.rs).                                               *)
(*                                                                         *)
(* A contract is a sequence of specs                                       *)
(*   [id, schema, required, visibility, rules, field, header]              *)
(* visibility is a set of at most one condition [same, id, value] (the     *)
(* manifest's form; nested conditions are never built from it), rules a    *)
(* set of [kind, id]. A schema is [kind, minimum, maximum, step, choices]  *)
(* with each absent bound the empty set. A literal is <<kind, value>>:     *)
(* integers keep their value, numbers are counted in their unit (the       *)
(* rounding tolerance of the step grid is left out) and other kinds are    *)
(* words. Identifiers are compared without case in the code; here they are *)
(* distinct words. Labels, sizes and levels are left out.                  *)
(***************************************************************************)
EXTENDS ReasoningWire, Sequences, SequencesExt

Numeric == {"integer", "number"}

---------------------------------------------------------------------------
(* Compiling a contract. *)

validate_literal(schema, literal) ==
    /\ literal[1] = schema.kind
    /\ schema.kind \in Numeric =>
          LET origin == IF schema.minimum = {} THEN 0 ELSE CHOOSE m \in schema.minimum : TRUE
              v == literal[2] IN
          /\ \A m \in schema.minimum : v >= m
          /\ \A m \in schema.maximum : v <= m
          /\ \A k \in schema.step : (v - origin) % k = 0
    /\ schema.choices # {} => literal[2] \in schema.choices
    /\ schema.kind \in {"enum", "tool"} => literal[2] \in schema.choices

validate_schema_shape(schema) ==
    /\ \A lo \in schema.minimum, hi \in schema.maximum : lo <= hi
    /\ \A k \in schema.step : k > 0
    /\ \A c \in schema.choices : validate_literal(schema, <<schema.kind, c>>)
    /\ schema.kind \in {"enum", "tool"} => schema.choices # {}

Ids(specs) == {specs[i].id : i \in DOMAIN specs}

SpecOf(specs, id) == specs[CHOOSE i \in DOMAIN specs : specs[i].id = id]

validate_condition_references(specs, spec) ==
    \A c \in spec.visibility :
        c.id \in Ids(specs) /\ validate_literal(SpecOf(specs, c.id).schema, c.value)

(* ParameterEngine::new accepts the contract. *)
Compiles(specs) ==
    /\ \A i \in DOMAIN specs : validate_schema_shape(specs[i].schema)
    /\ \A i, j \in DOMAIN specs : i # j =>
          /\ specs[i].id # specs[j].id
          /\ <<specs[i].header, specs[i].field>> # <<specs[j].header, specs[j].field>>
    /\ \A i \in DOMAIN specs :
          /\ validate_condition_references(specs, specs[i])
          /\ \A r \in specs[i].rules : r.id # specs[i].id /\ r.id \in Ids(specs)

---------------------------------------------------------------------------
(* The fields a parameter may write, by family. *)

reserved_parameter_field(field) ==
    \/ field[1] \in {"model", "messages", "message", "input", "contents", "system",
                     "instructions", "tools", "stream", "timeout", "url", "endpoint",
                     "authorization", "api_key", "apikey", "metadata", "reasoning",
                     "reasoning_effort", "thinking", "cache_control", "cachedContent",
                     "prompt_cache_key", "prompt_cache_retention"}
    \/ Len(field) > 2 /\ SubSeq(field, 1, 2) = ThinkingConfig
    \/ Len(field) > 1 /\ SubSeq(field, 1, 2) = <<"output_config", "effort">>

GC(name) == <<"generationConfig", name>>

Opt(name) == <<"options", name>>

allowed_parameter_field(family) ==
    CASE family = "responses" ->
            [number |-> {<<"temperature">>, <<"top_p">>},
             integer |-> {<<"max_output_tokens">>},
             enum |-> {<<"service_tier">>, <<"truncation">>},
             boolean |-> {<<"parallel_tool_calls">>},
             tool |-> {<<"tool_choice">>}]
      [] family = "chat" ->
            [number |-> {<<"temperature">>, <<"top_p">>, <<"presence_penalty">>,
                         <<"frequency_penalty">>},
             integer |-> {<<"max_tokens">>, <<"max_completion_tokens">>, <<"seed">>},
             stop |-> {<<"stop">>},
             enum |-> {<<"service_tier">>},
             boolean |-> {<<"parallel_tool_calls">>, <<"logprobs">>},
             tool |-> {<<"tool_choice">>}]
      [] family = "anthropic" ->
            [number |-> {<<"temperature">>, <<"top_p">>},
             integer |-> {<<"max_tokens">>, <<"top_k">>},
             stop |-> {<<"stop_sequences">>},
             tool |-> {<<"tool_choice">>},
             json |-> {<<"output_config", "format">>}]
      [] family = "gemini" ->
            [number |-> {GC("temperature"), GC("topP"), GC("presencePenalty"),
                         GC("frequencyPenalty")},
             integer |-> {GC("maxOutputTokens"), GC("topK"), GC("seed")},
             stop |-> {GC("stopSequences")},
             string |-> {GC("responseMimeType")},
             boolean |-> {GC("responseLogprobs")},
             json |-> {GC("responseJsonSchema")},
             tool |-> {<<"toolConfig", "functionCallingConfig", "mode">>}]
      [] family = "ollama" ->
            [number |-> {Opt("temperature"), Opt("top_p"), Opt("min_p")},
             integer |-> {Opt("num_predict"), Opt("top_k"), Opt("seed")},
             stop |-> {Opt("stop")},
             string |-> {<<"keep_alive">>},
             json |-> {<<"format">>}]

validate_spec_mapping_for_family(family, spec) ==
    LET allowed == allowed_parameter_field(family) IN
    /\ ~spec.header
    /\ ~reserved_parameter_field(spec.field)
    /\ spec.schema.kind \in DOMAIN allowed
    /\ spec.field \in allowed[spec.schema.kind]

(* A tool policy has a word of its own in each family. *)
map_tool_policy(family, policy) ==
    CASE family = "anthropic" /\ policy = "required" -> "any"
      [] family = "gemini" -> [none |-> "NONE", auto |-> "AUTO", required |-> "ANY"][policy]
      [] OTHER -> policy

literal_to_wire(family, literal) ==
    CASE literal[1] = "tool" -> Word(map_tool_policy(family, literal[2]))
      [] literal[1] = "integer" -> Tokens(literal[2])
      [] literal[1] = "number" -> <<"number", literal[2]>>
      [] literal[1] = "json" /\ family = "anthropic" -> <<"json_schema", literal[2]>>
      [] OTHER -> Word(literal[2])

---------------------------------------------------------------------------
(* Checking a preset's values: a sequence of [id, value], where Inherit    *)
(* leaves the parameter to the provider.                                   *)

Inherit == <<"inherit", "inherit">>

(* collect_states: the last value of an id stands. *)
StateOf(values, id) ==
    LET at == {i \in DOMAIN values : values[i].id = id} IN
    IF at = {} THEN Inherit
    ELSE values[CHOOSE i \in at : \A j \in at : j <= i].value

condition_is_true(values, spec) ==
    \A c \in spec.visibility :
        /\ StateOf(values, c.id) # Inherit
        /\ (StateOf(values, c.id) = c.value) = c.same

Explicit(values) ==
    {id \in {values[i].id : i \in DOMAIN values} : StateOf(values, id) # Inherit}

(* The issues of one control (evaluate). *)
ControlIssues(values, spec) ==
    LET state == StateOf(values, spec.id)
        visible == condition_is_true(values, spec)
        explicit == Explicit(values) IN
    {k \in {"required_value_missing"} : state = Inherit /\ visible /\ spec.required}
    \cup {k \in {"hidden_value"} : state # Inherit /\ ~visible}
    \cup {k \in {"invalid_literal"} : state # Inherit /\ ~validate_literal(spec.schema, state)}
    \cup {k \in {"mutually_exclusive", "missing_requirement"} :
             /\ state # Inherit /\ visible
             /\ \E r \in spec.rules :
                   /\ r.kind = k
                   /\ (r.id \in explicit) = (k = "mutually_exclusive")}

(* collect_states and evaluate over the whole contract. *)
Issues(specs, values) ==
    {k \in {"unknown_parameter"} : \E i \in DOMAIN values : values[i].id \notin Ids(specs)}
    \cup {k \in {"duplicate_value"} :
             \E i, j \in DOMAIN values :
                 i < j /\ values[i].id = values[j].id /\ values[i].id \in Ids(specs)}
    \cup UNION {ControlIssues(values, specs[i]) : i \in DOMAIN specs}

\* mutant: a value at its minimum is taken for an untouched one
FaultyApplied(family, specs, values) ==
    {<<specs[i].field, literal_to_wire(family, StateOf(values, specs[i].id))>> :
        i \in {j \in DOMAIN specs :
                  /\ StateOf(values, specs[j].id) # Inherit
                  /\ condition_is_true(values, specs[j])
                  /\ validate_literal(specs[j].schema, StateOf(values, specs[j].id))
                  /\ StateOf(values, specs[j].id)[2] \notin specs[j].schema.minimum}}

(* The patches of the applied parameters. *)
Applied(family, specs, values) ==
    {<<specs[i].field, literal_to_wire(family, StateOf(values, specs[i].id))>> :
        i \in {j \in DOMAIN specs :
                  /\ StateOf(values, specs[j].id) # Inherit
                  /\ condition_is_true(values, specs[j])
                  /\ validate_literal(specs[j].schema, StateOf(values, specs[j].id))}}

validate_for_request(family, specs, values) ==
    Gate(Issues(specs, values) = {}, Applied(family, specs, values))

---------------------------------------------------------------------------
(* The contract of a built-in OpenRouter route. The listing names the      *)
(* fields the model supports and may cap the output tokens.                *)

(* Stands for u32::MAX, the cap of a listing that names none. *)
U32Max == 1000

OutputFields == {<<"max_tokens">>, <<"max_completion_tokens">>}

PlainFields == {<<"temperature">>, <<"top_p">>, <<"frequency_penalty">>,
                <<"presence_penalty">>, <<"stop">>, <<"seed">>}

SameParameter(a, b) == a.id = b.id \/ (a.field = b.field /\ a.header = b.header)

(* The first spec of the highest rank. *)
FirstBest(specs, Rank(_)) ==
    specs[CHOOSE i \in DOMAIN specs :
             /\ \A j \in DOMAIN specs : Rank(specs[j]) <= Rank(specs[i])
             /\ \A j \in 1 .. i - 1 : Rank(specs[j]) < Rank(specs[i])]

Capped(schema, cap) ==
    [schema EXCEPT !.maximum =
        {IF schema.maximum = {} THEN cap
         ELSE LET m == CHOOSE m \in schema.maximum : TRUE IN IF m < cap THEN m ELSE cap}]

(* The output-token parameter under its stable name, unless its minimum    *)
(* exceeds the cap.                                                        *)
openrouter_output_token_spec(spec, field, cap) ==
    IF \E m \in spec.schema.minimum : m > cap THEN <<>>
    ELSE <<[spec EXCEPT !.id = "max_output_tokens", !.field = field,
                        !.schema = Capped(spec.schema, cap)]>>

openrouter_safe_signed_parameter_specs(signed) ==
    LET body == SelectSeq(signed, LAMBDA s : ~s.header)
        plain == FoldLeft(LAMBDA kept, s :
                             IF s.field \notin PlainFields
                                  \/ \E i \in DOMAIN kept : SameParameter(kept[i], s)
                               THEN kept ELSE Append(kept, s),
                          <<>>, body)
        outputs == SelectSeq(body, LAMBDA s : s.field \in OutputFields)
        Rank(s) == (IF s.field = <<"max_completion_tokens">> THEN 2 ELSE 0)
                   + (IF s.id = "max_output_tokens" THEN 1 ELSE 0) IN
    plain \o (IF outputs = <<>> THEN <<>>
              ELSE LET best == FirstBest(outputs, Rank) IN
                   openrouter_output_token_spec(best, best.field, U32Max))

select_openrouter_output_token_spec(base, supported, cap) ==
    LET outputs == SelectSeq(base, LAMBDA s : ~s.header /\ s.field \in OutputFields)
        preferred == IF <<"max_completion_tokens">> \in supported
                       THEN <<"max_completion_tokens">> ELSE <<"max_tokens">>
        Rank(s) == (IF s.field = preferred THEN 2 ELSE 0)
                   + (IF s.id = "max_output_tokens" THEN 1 ELSE 0) IN
    IF outputs = <<>> \/ OutputFields \cap supported = {} THEN <<>>
    ELSE openrouter_output_token_spec(FirstBest(outputs, Rank), preferred, cap)

compiled_openrouter_parameter_spec(id, kind, minimum, maximum, step) ==
    [id |-> id, field |-> <<id>>, header |-> FALSE, required |-> FALSE,
     visibility |-> {}, rules |-> {},
     schema |-> [kind |-> kind, minimum |-> minimum, maximum |-> maximum,
                 step |-> step, choices |-> {}]]

openrouter_compiled_parameter_specs ==
    <<compiled_openrouter_parameter_spec("frequency_penalty", "number", {-2}, {2}, {}),
      compiled_openrouter_parameter_spec("presence_penalty", "number", {-2}, {2}, {}),
      compiled_openrouter_parameter_spec("stop", "stop", {}, {}, {}),
      compiled_openrouter_parameter_spec("seed", "integer", {}, {}, {1})>>

intersect_openrouter_parameter_specs(base, supported, cap) ==
    LET listed == SelectSeq(base, LAMBDA s : ~s.header /\ s.field \in PlainFields \cap supported)
        Keep(kept, s) ==
            IF \E i \in DOMAIN kept : kept[i].field = s.field
              THEN [i \in DOMAIN kept |->
                       IF kept[i].field = s.field /\ s.id = "max_output_tokens"
                         THEN s ELSE kept[i]]
              ELSE Append(kept, s)
        Add(kept, s) ==
            IF s.field \notin supported \/ \E i \in DOMAIN kept : SameParameter(kept[i], s)
              THEN kept ELSE Append(kept, s) IN
    FoldLeft(Add,
             FoldLeft(Keep, <<>>, listed)
               \o select_openrouter_output_token_spec(base, supported, cap),
             openrouter_compiled_parameter_specs)

(* The contract a request is checked against: the base contract, or, for   *)
(* the built-in OpenRouter template, what the listing leaves of it. A      *)
(* listing is [status, fresh, supported, cap].                             *)
effective_route_parameter_specs(openrouter, base, signed, listing) ==
    CASE ~openrouter -> base
      [] openrouter /\ listing.status # "available" -> <<>>
      [] openrouter /\ listing.status = "available" /\ ~listing.fresh ->
            openrouter_safe_signed_parameter_specs(signed)
      [] openrouter /\ listing.status = "available" /\ listing.fresh ->
            intersect_openrouter_parameter_specs(base, listing.supported, listing.cap)
=============================================================================
