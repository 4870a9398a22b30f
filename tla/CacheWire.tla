------------------------------ MODULE CacheWire ------------------------------
(***************************************************************************)
(* How a preset's prompt-cache settings become a directive for the adapter *)
(* (crates/providers/src/parameter_mapping.rs) and how the adapter applies *)
(* it to a request body (crates/providers/src/request_plan.rs).            *)
(*                                                                         *)
(* A time to live is "default", "short", "long" or "custom"; a cachedContents*)
(* reference is None, "good" or "malformed".                               *)
(***************************************************************************)
EXTENDS ReasoningWire

CacheFamilies ==
    [openai |-> {"responses", "chat"}, anthropic |-> {"anthropic"}, gemini |-> {"gemini"}]

validate_cache_dialect_family(family, d) ==
    d.kind = "unsupported" \/ family \in CacheFamilies[d.kind]

(* A custom time to live within its range is a legal shape that no dialect *)
(* supports; one outside it is refused here.                               *)
validate_prompt_cache_shape(c) ==
    /\ c.mode # "explicit_context" => c.reference = None
    /\ c.ttl # "custom out of range"
    /\ c.mode = "default" => c.ttl = "default"

anthropic_cache_ttl(ttl, oneHour) ==
    CASE ttl \in {"default", "short"} -> "5m"
      [] ttl = "long" /\ oneHour -> "1h"
      [] OTHER -> "refused"

Directive(kind, argument) == [kind |-> kind, argument |-> argument]

(* The directive, or one that says refused. *)
CacheRefused == Directive("refused", None)

AnthropicDirective(kind, d, c) ==
    LET ttl == anthropic_cache_ttl(c.ttl, d.oneHour) IN
    IF ttl = "refused" THEN CacheRefused ELSE Directive(kind, ttl)

map_prompt_cache(d, c) ==
    CASE ~validate_prompt_cache_shape(c) -> CacheRefused
      [] validate_prompt_cache_shape(c) /\ c.mode = "default" -> Directive("none", None)
      [] validate_prompt_cache_shape(c) /\ c.mode # "default" ->
            CASE d.kind = "openai" /\ c.mode = "automatic"
                    /\ (c.ttl \in {"default", "short"} \/ (c.ttl = "long" /\ d.day)) ->
                    Directive("provider_managed", IF c.ttl = "long" THEN "24h" ELSE None)
              [] d.kind = "anthropic" /\ c.mode = "automatic" /\ d.automatic ->
                    AnthropicDirective("anthropic_automatic", d, c)
              [] d.kind = "anthropic" /\ c.mode = "breakpoints" /\ d.breakpoints ->
                    AnthropicDirective("anthropic_breakpoints", d, c)
              [] d.kind = "anthropic" /\ c.mode = "disabled" /\ c.ttl = "default" ->
                    Directive("anthropic_disabled", None)
              [] d.kind = "gemini" /\ c.mode = "automatic" /\ d.implicit /\ c.ttl = "default" ->
                    Directive("provider_managed", None)
              [] d.kind = "gemini" /\ c.mode = "explicit_context" /\ d.context
                    /\ c.ttl = "default" /\ c.reference = "good" ->
                    Directive("gemini_context", c.reference)
              [] OTHER -> CacheRefused

(* prompt_cache_retention is the one body field the mapping writes itself. *)
CachePatches(directive) ==
    Patch(directive.kind = "provider_managed" /\ directive.argument = "24h",
          <<"prompt_cache_retention">>, Word("24h"))

---------------------------------------------------------------------------
(* render_prompt_cache_control. *)

AllowedCacheModes(d) ==
    {"default"} \cup
    CASE d.kind = "openai" -> {"automatic"}
      [] d.kind = "anthropic" ->
            {"disabled"} \cup {m \in {"automatic"} : d.automatic}
                         \cup {m \in {"breakpoints"} : d.breakpoints}
      [] d.kind = "gemini" ->
            {m \in {"automatic"} : d.implicit} \cup {m \in {"explicit_context"} : d.context}

TtlShown(d, mode) ==
    \/ d.kind = "openai" /\ mode = "automatic"
    \/ d.kind = "anthropic" /\ mode \in {"automatic", "breakpoints"}

AllowedTtls(d, mode) ==
    {"default"} \cup
    IF TtlShown(d, mode)
      THEN {"short"} \cup {t \in {"long"} : IF d.kind = "openai" THEN d.day ELSE d.oneHour}
      ELSE {}

render_prompt_cache_control(d) ==
    IF d.kind = "unsupported" THEN {}
    ELSE UNION {
        [mode : {mode}, ttl : AllowedTtls(d, mode),
         reference : IF mode = "explicit_context" THEN {"good", "malformed"} ELSE {None}]
        : mode \in AllowedCacheModes(d)}

---------------------------------------------------------------------------
(* apply_prompt_cache_directive and validate_prompt_cache_payload. *)

apply_prompt_cache_directive(body, directive) ==
    CASE directive.kind = "anthropic_automatic" ->
            body \cup {<<<<"cache_control">>, Word(directive.argument)>>}
      [] directive.kind = "anthropic_breakpoints" ->
            Gate(\E p \in body : p[1] = <<"system">>,
                 {p \in body : p[1] # <<"system">>}
                 \cup {<<<<"system">>, <<"cached", directive.argument>>>>})
      [] directive.kind = "gemini_context" ->
            LET fields == {p[1][1] : p \in body} IN
            Gate({"systemInstruction", "tools", "toolConfig"} \cap fields = {},
                 body \cup {<<<<"cachedContent">>, Word(directive.argument)>>})
      [] OTHER -> body
=============================================================================
