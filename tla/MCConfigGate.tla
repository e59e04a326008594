---------------------------- MODULE MCConfigGate ----------------------------
(* Documents for ConfigGate: valid ones, and what one or two faults make   *)
(* of them.                                                                *)
EXTENDS ConfigGate

ModuleOf(id, floor, target, max, pipeline) ==
  [module_id |-> Text(id), floor_tokens |-> Whole(floor), target_tokens |-> Whole(target),
   max_tokens |-> Whole(max), order |-> Whole(0), weight |-> Fraction, lifecycle |-> Absent,
   allocation |-> Text("priority"), protection |-> Absent, reclaim |-> Absent,
   render_target |-> Absent, can_borrow |-> Absent, can_lend |-> False,
   reclaim_pipeline |-> pipeline, metadata |-> Absent, other |-> Absent]

OpenAI ==
  [type |-> Text("openai-compatible"), model |-> Text("m"), api_key_env |-> Text("KEY"),
   timeout_seconds |-> Fraction, base_url |-> Text("https://host"), api_key_header |-> Absent,
   api_key_prefix |-> Text(""), extra_headers |-> Obj, extra_body |-> Absent,
   allow_insecure_http |-> Absent, api_base |-> Absent, options |-> Absent, other |-> Absent]

LiteLLM ==
  [type |-> Text("litellm"), model |-> Text("m"), api_key_env |-> Absent,
   timeout_seconds |-> Absent, base_url |-> Absent, api_key_header |-> Absent,
   api_key_prefix |-> Absent, extra_headers |-> Absent, extra_body |-> Absent,
   allow_insecure_http |-> Absent, api_base |-> Text("b"), options |-> Obj, other |-> Absent]

Counted(tokens) == Value("string", "x", tokens)

Faultless(provider) ==
  [config |-> [file |-> Obj, arena |-> Obj, model |-> Obj, providers |-> Obj,
               contributions |-> List, other |-> Absent],
   arena |-> [arena_id |-> Text("a"), modules |-> List, schema_version |-> Text("1"),
              policy_version |-> Absent, framework_reserve_tokens |-> Whole(1),
              admission_policy |-> Absent, metadata |-> Obj, other |-> Absent],
   module |-> ModuleOf("a", 2, 3, 5, List),
   peer |-> ModuleOf("b", 2, 4, 4, Absent),
   step |-> [algorithm_id |-> Text("semantic"), options |-> Absent, other |-> Absent, again |-> Absent],
   model |-> [model_profile_id |-> Text("p"), context_limit_tokens |-> Whole(12),
              reserved_output_tokens |-> Whole(2), tokenizer_id |-> Absent,
              tokenizer_version |-> Absent, count_mode |-> Text("hybrid"), other |-> Absent],
   provider |-> provider,
   contribution |-> [module_id |-> Text("a"), chunks |-> List, observed_demand_tokens |-> Null,
                     metadata |-> Absent, other |-> Absent, again |-> Absent],
   chunk |-> [chunk_id |-> Text("c"), content |-> Counted(1), kind |-> Absent, fixed |-> True,
              protection |-> Absent, priority |-> Fraction, required_terms |-> List,
              dependency_group |-> Null, metadata |-> Obj, other |-> Absent, again |-> Absent]]

Huge == Whole(IntMax + 1)

(* What a value is replaced with, besides an absent one: by its type in    *)
(* the contract.                                                           *)
Texts == {Text(""), Text(" "), Text("b"), Text("foreign"), Null}
Contents == {Counted(0), Counted(2), Counted(3), Counted(9), Text("foreign"), Null, Whole(7),
             Foreign, ForeignList, SecretInside}
Integers == {Whole(-1), Whole(0), Whole(8), Whole(IntMax), Huge, Fraction, True}
Numbers == {Whole(-1), Whole(0), Huge, NaN, Infinity, Text("1")}
Choices == {Text("elastic"), Text("exact"), Text("none"), Null}
Booleans == {True, False, Null}
Objects == {SecretInside, List, Foreign}
Arrays == {EmptyList, Obj}

Replacing(section, key) ==
  CASE key \in {"other"} -> {Text("x"), SecretInside}
    [] key = "again" -> {True}
    [] key \in {"floor_tokens", "target_tokens", "max_tokens", "order", "context_limit_tokens",
                "reserved_output_tokens", "framework_reserve_tokens", "observed_demand_tokens"}
         -> Integers
    [] key \in {"weight", "timeout_seconds", "priority"} -> Numbers
    [] key \in {"lifecycle", "allocation", "protection", "reclaim", "render_target", "count_mode"}
         -> Choices
    [] key \in {"can_borrow", "can_lend", "fixed", "allow_insecure_http"} -> Booleans
    [] key = "options" /\ section = "step" -> Objects \cup {Obj, NamesProvider}
    [] key \in {"metadata", "options", "extra_headers", "extra_body"} -> Objects
    [] key \in {"file", "arena", "providers"} -> {SecretInside, List}
    [] key \in {"modules", "reclaim_pipeline", "contributions", "chunks"} -> Arrays
    [] key = "required_terms" -> Arrays \cup {ForeignList}
    [] key = "model" /\ section = "config" -> {SecretInside, List}
    [] key = "content" -> Contents
    [] key = "base_url" -> Texts \cup {Text("http://host"), Text("http://localhost")}
    [] OTHER -> Texts

(* A fault is a key of a section and what it is replaced with.             *)
FaultsOf(d) ==
  UNION {UNION {{<<s, k, v>> : v \in Replacing(s, k) \cup {Absent}} : k \in DOMAIN d[s]} :
         s \in DOMAIN d}

NoFault == <<"model", "context_limit_tokens", Whole(12)>>

(* Faults of the fields whose checks depend on one another.                *)
LinkedFaults ==
  UNION {{<<p[1], p[2], v>> : v \in Replacing(p[1], p[2]) \cup {Absent}} :
         p \in {<<"module", "floor_tokens">>, <<"module", "target_tokens">>, <<"module", "max_tokens">>,
                <<"module", "can_borrow">>, <<"module", "reclaim_pipeline">>, <<"step", "again">>,
                <<"peer", "max_tokens">>, <<"peer", "module_id">>, <<"peer", "reclaim_pipeline">>,
                <<"arena", "framework_reserve_tokens">>, <<"model", "context_limit_tokens">>,
                <<"model", "reserved_output_tokens">>, <<"config", "contributions">>,
                <<"contribution", "chunks">>, <<"contribution", "module_id">>,
                <<"contribution", "observed_demand_tokens">>, <<"chunk", "content">>,
                <<"step", "options">>, <<"step", "algorithm_id">>,
                <<"provider", "base_url">>, <<"provider", "allow_insecure_http">>,
                <<"provider", "type">>, <<"config", "providers">>}}

(* All three sizes of both modules at once.                                *)
Sizes == {<<"sizes", m, n>> : m, n \in {0, 4, 5, IntMax, IntMax + 1}}

Sized(d, s, n) ==
  [d EXCEPT ![s].floor_tokens = Whole(n), ![s].target_tokens = Whole(n), ![s].max_tokens = Whole(n)]

Apply(d, f) ==
  IF f[1] = "sizes" THEN Sized(Sized(d, "module", f[2]), "peer", f[3])
                    ELSE [d EXCEPT ![f[1]][f[2]] = f[3]]

MCDocuments ==
  {Apply(Apply(p[1], p[2]), p[3]) :
     p \in ({Faultless(OpenAI), Faultless(LiteLLM)} \X FaultsOf(Faultless(OpenAI)) \X {NoFault})
           \cup ({Faultless(OpenAI)} \X (LinkedFaults \cup Sizes) \X LinkedFaults)}
=============================================================================
