----------------------------- MODULE ConfigGate -----------------------------
(***************************************************************************)
(* How a JSON configuration is admitted (src/contextlease/config.py,       *)
(* layout.py and cli.py of the Python package, validate_definition and its *)
(* neighbours of the core).  The same rules are written down three times:  *)
(* as a contract on the JSON, in compile_layout and validate_model_budget, *)
(* and in the kernel on 32-bit integers.                                   *)
(*                                                                         *)
(* A document is a record of sections, each a record of JSON values: the   *)
(* root, the arena, two modules, a step of the first one's pipeline, the   *)
(* model, a summary provider, a contribution and a chunk of it.  Where a   *)
(* section is nested in another, an object or a list stands for it there.  *)
(* The key other of a section stands for a key that is none of its         *)
(* contract, and again says that the array of the section holds it twice.  *)
(***************************************************************************)
EXTENDS Integers, Sequences

CONSTANTS
  Documents,   \* the documents that are tried
  IntMax,      \* 2^31 - 1, the greatest i32
  Separators   \* tokens of render_separator_tokens

VARIABLES
  command,   \* of the command line
  document,
  pending,   \* the calls the command still makes
  verdict    \* "running", how the command ended, or the error

gateVars == <<command, document, pending, verdict>>

-----------------------------------------------------------------------------
(* JSON values, by their type and what the checks look at.                 *)

Value(type, text, number) == [type |-> type, text |-> text, number |-> number]
Absent == Value("absent", "", 0)
Null == Value("null", "", 0)
Text(t) == Value("string", t, 0)
Whole(n) == Value("integer", "", n)
Fraction == Value("float", "", 1)
NaN == Value("nan", "", 0)
Infinity == Value("infinity", "", 1)
True == Value("boolean", "true", 0)
False == Value("boolean", "false", 0)
Obj == Value("object", "", 0)
SecretInside == Value("object", "secret", 0)   \* holds a forbidden key
NamesProvider == Value("object", "provider", 0)   \* options that name the provider of the document
Foreign == Value("object", "foreign", 0)
ForeignList == Value("array", "foreign", 0)
List == Value("array", "some", 0)
EmptyList == Value("array", "", 0)

(* What json.loads takes and the core does not: NaN and the infinities,    *)
(* which are no JSON to serde, on their own or anywhere inside an object   *)
(* or an array, as a number there that no f64 holds, or a nesting deeper   *)
(* than 128; and a string with a lone surrogate, which has no UTF-8.       *)
IsForeign(v) == v.type \in {"nan", "infinity"} \/ v.text = "foreign"

Json ==
  {Absent, Null, Fraction, NaN, Infinity, True, False,
   Obj, SecretInside, NamesProvider, Foreign, List, EmptyList}
    \cup [type : {"string"}, text : STRING, number : {0}]
    \cup [type : {"integer"}, text : {""}, number : Int]

(* Of a text that is counted, the number is its tokens.                    *)
ChunkContent == Json \cup {ForeignList} \cup [type : {"string"}, text : STRING, number : Nat]

Module ==
  [module_id : Json, floor_tokens : Json, target_tokens : Json, max_tokens : Json,
   order : Json, weight : Json, lifecycle : Json, allocation : Json, protection : Json,
   reclaim : Json, render_target : Json, can_borrow : Json, can_lend : Json,
   reclaim_pipeline : Json, metadata : Json, other : Json]

Document ==
  [config : [file : Json, arena : Json, model : Json, providers : Json, contributions : Json,
             other : Json],
   arena : [arena_id : Json, modules : Json, schema_version : Json, policy_version : Json,
            framework_reserve_tokens : Json, admission_policy : Json, metadata : Json, other : Json],
   module : Module, peer : Module,
   step : [algorithm_id : Json, options : Json, other : Json, again : Json],
   model : [model_profile_id : Json, context_limit_tokens : Json, reserved_output_tokens : Json,
            tokenizer_id : Json, tokenizer_version : Json, count_mode : Json, other : Json],
   provider : [type : Json, model : Json, api_key_env : Json, timeout_seconds : Json,
               base_url : Json, api_key_header : Json, api_key_prefix : Json,
               extra_headers : Json, extra_body : Json, allow_insecure_http : Json,
               api_base : Json, options : Json, other : Json],
   contribution : [module_id : Json, chunks : Json, observed_demand_tokens : Json,
                   metadata : Json, other : Json, again : Json],
   chunk : [chunk_id : Json, content : ChunkContent, kind : Json, fixed : Json, protection : Json,
            priority : Json, required_terms : Json \cup {ForeignList}, dependency_group : Json, metadata : Json,
            other : Json, again : Json]]

ASSUME ConfigAssumption ==
  /\ {IntMax, Separators} \subseteq Nat
  /\ Documents \subseteq Document

-----------------------------------------------------------------------------

Missing(v) == v.type = "absent"
IsObject(v) == v.type = "object"
IsArray(v) == v.type = "array"
IsString(v) == v.type = "string"
IsNonEmpty(v) == IsString(v) /\ v.text # ""
IsInteger(v) == v.type = "integer"
IsNatural(v) == IsInteger(v) /\ v.number >= 0
IsNumber(v) == v.type \in {"integer", "float", "nan", "infinity"}
(* not (value <= 0), so NaN is positive.                                   *)
IsPositive(v) == IsNumber(v) /\ (v.type = "nan" \/ v.number > 0)
IsBoolean(v) == v.type = "boolean"
IsOneOf(v, names) == IsString(v) /\ v.text \in names
IsBlank(v) == v.text \in {"", " "}

OrDefault(v, default) == IF Missing(v) THEN default ELSE v

Lifecycles == {"static", "session", "request", "turn", "ephemeral"}
Allocations == {"fixed", "weighted", "priority", "elastic"}
Protections == {"pinned", "mixed", "elastic"}
Reclaims == {"none", "builtin_pipeline", "semantic_pipeline", "custom"}
RenderTargets == {"text", "messages", "tool_schema", "structured"}
CountModes == {"estimated", "exact", "hybrid"}

-----------------------------------------------------------------------------
(* The contract on the JSON, in config.py.                                 *)

ModuleContract(m) ==
  /\ Missing(m.other)
  /\ IsNonEmpty(m.module_id)
  /\ \A v \in {m.floor_tokens, m.target_tokens, m.max_tokens} : IsNatural(v)
  /\ IsInteger(OrDefault(m.order, Whole(0)))
  /\ IsPositive(OrDefault(m.weight, Whole(1)))
  /\ IsOneOf(OrDefault(m.lifecycle, Text("request")), Lifecycles)
  /\ IsOneOf(OrDefault(m.allocation, Text("weighted")), Allocations)
  /\ IsOneOf(OrDefault(m.protection, Text("mixed")), Protections)
  /\ IsOneOf(OrDefault(m.reclaim, Text("builtin_pipeline")), Reclaims)
  /\ IsOneOf(OrDefault(m.render_target, Text("text")), RenderTargets)
  /\ \A v \in {m.can_borrow, m.can_lend} : IsBoolean(OrDefault(v, True))
  /\ IsObject(OrDefault(m.metadata, Obj))
  /\ IsArray(OrDefault(m.reclaim_pipeline, EmptyList))

HasStep(d) == d.module.reclaim_pipeline = List

StepContract(s) ==
  /\ Missing(s.other)
  /\ IsNonEmpty(s.algorithm_id)
  /\ IsObject(OrDefault(s.options, Obj))

ArenaContract(d) ==
  /\ Missing(d.arena.other)
  /\ IsNonEmpty(d.arena.arena_id)
  /\ \A v \in {d.arena.schema_version, d.arena.policy_version, d.arena.admission_policy} :
       IsString(OrDefault(v, Text("1")))
  /\ IsNatural(OrDefault(d.arena.framework_reserve_tokens, Whole(0)))
  /\ IsObject(OrDefault(d.arena.metadata, Obj))
  /\ d.arena.modules = List
  /\ ModuleContract(d.module) /\ ModuleContract(d.peer)
  /\ HasStep(d) => StepContract(d.step)

ModelContract(m) ==
  /\ Missing(m.other)
  /\ IsNonEmpty(m.model_profile_id)
  /\ IsNatural(m.context_limit_tokens) /\ m.context_limit_tokens.number >= 1
  /\ IsNatural(m.reserved_output_tokens)
  /\ \A v \in {m.tokenizer_id, m.tokenizer_version} : IsString(OrDefault(v, Text("1")))
  /\ IsOneOf(OrDefault(m.count_mode, Text("estimated")), CountModes)

HasContribution(d) == d.config.contributions = List
HasChunk(d) == HasContribution(d) /\ d.contribution.chunks = List

ChunkContract(c) ==
  /\ Missing(c.other) /\ ~Missing(c.content)
  /\ IsNonEmpty(c.chunk_id)
  /\ IsString(OrDefault(c.kind, Text("text")))
  /\ IsBoolean(OrDefault(c.fixed, False))
  /\ IsOneOf(OrDefault(c.protection, Text("elastic")), Protections)
  /\ IsNumber(OrDefault(c.priority, Whole(1)))
  /\ IsArray(OrDefault(c.required_terms, EmptyList))
  /\ c.dependency_group.type \in {"absent", "null", "string"}
  /\ IsObject(OrDefault(c.metadata, Obj))

ContributionsContract(d) ==
  /\ IsArray(OrDefault(d.config.contributions, EmptyList))
  /\ HasContribution(d) =>
       /\ Missing(d.contribution.other)
       /\ IsNonEmpty(d.contribution.module_id)
       /\ \/ d.contribution.observed_demand_tokens.type \in {"absent", "null"}
          \/ IsNatural(d.contribution.observed_demand_tokens)
       /\ IsObject(OrDefault(d.contribution.metadata, Obj))
       /\ IsArray(d.contribution.chunks)
  /\ HasChunk(d) => ChunkContract(d.chunk)

OpenAIKeys == {"base_url", "api_key_header", "api_key_prefix", "extra_headers",
               "extra_body", "allow_insecure_http"}
LiteLLMKeys == {"api_base", "options"}

(* The type has a default and is required all the same.                    *)
ProviderContract(p) ==
  /\ Missing(p.other)
  /\ IsOneOf(p.type, {"openai-compatible", "litellm"})
  /\ IsNonEmpty(p.model)
  /\ Missing(p.api_key_env) \/ IsNonEmpty(p.api_key_env)
  /\ IsPositive(OrDefault(p.timeout_seconds, Whole(30)))
  /\ \/ /\ p.type.text = "openai-compatible"
        /\ \A k \in LiteLLMKeys : Missing(p[k])
        /\ IsNonEmpty(p.base_url)
        /\ \A k \in {"api_key_header", "api_key_prefix"} : IsString(OrDefault(p[k], Text("k")))
        /\ \A k \in {"extra_headers", "extra_body"} : IsObject(OrDefault(p[k], Obj))
        /\ IsBoolean(OrDefault(p.allow_insecure_http, False))
     \/ /\ p.type.text = "litellm"
        /\ \A k \in OpenAIKeys : Missing(p[k])
        /\ Missing(p.api_base) \/ IsNonEmpty(p.api_base)
        /\ IsObject(OrDefault(p.options, Obj))

HasProvider(d) == d.config.providers = Obj

ProvidersContract(d) ==
  /\ IsObject(OrDefault(d.config.providers, Obj))
  /\ HasProvider(d) => ProviderContract(d.provider)

RootContract(d) ==
  /\ Missing(d.config.other)
  /\ IsObject(d.config.arena) /\ IsObject(d.config.model)

Contract(d) ==
  /\ RootContract(d)
  /\ ArenaContract(d) /\ ModelContract(d.model)
  /\ ProvidersContract(d) /\ ContributionsContract(d)

(* A forbidden key in a part of the document that is not even used.        *)
SecretsIn(section) == \E key \in DOMAIN section : section[key] = SecretInside

NoInlineSecrets(d) == \A s \in DOMAIN d : ~SecretsIn(d[s])

LoadJsonConfig(d) ==
  /\ d.config.file = Obj        \* readable, JSON, and an object
  /\ NoInlineSecrets(d)
  /\ Contract(d)

(* __post_init__ of the provider: https, or local, or allowed.             *)
UrlAllowed(p) ==
  \/ p.base_url.text \in {"https://host", "http://localhost"}
  \/ p.base_url.text = "http://host" /\ p.allow_insecure_http = True

ProvidersFromDict(d) ==
  /\ ~SecretsIn(d.provider) /\ ProvidersContract(d)
  /\ HasProvider(d) /\ d.provider.type.text = "openai-compatible" => UrlAllowed(d.provider)

-----------------------------------------------------------------------------
(* layout.py.                                                              *)

MayGrow(m) ==
  m.max_tokens.number > m.target_tokens.number /\ OrDefault(m.can_borrow, True) = True

(* Mutant: the pipeline is not asked for.                                  *)
OrderedOnly(m) ==
  m.floor_tokens.number <= m.target_tokens.number /\ m.target_tokens.number <= m.max_tokens.number

ModuleFits(m) ==
  /\ m.floor_tokens.number <= m.target_tokens.number
  /\ m.target_tokens.number <= m.max_tokens.number
  /\ MayGrow(m) => m.reclaim_pipeline = List

CompileLayout(d) ==
  /\ ~IsBlank(d.arena.arena_id)
  /\ ~IsBlank(d.module.module_id) /\ ~IsBlank(d.peer.module_id)
  /\ d.module.module_id # d.peer.module_id
  /\ ModuleFits(d.module) /\ ModuleFits(d.peer)

InputBudget(d) == d.model.context_limit_tokens.number - d.model.reserved_output_tokens.number

Reserve(d) == OrDefault(d.arena.framework_reserve_tokens, Whole(0)).number

Floors(d) == d.module.floor_tokens.number + d.peer.floor_tokens.number

ValidateModelBudget(d) ==
  LET available == InputBudget(d) - Reserve(d)
  IN ~(available <= 0) /\ ~(Floors(d) > available)

-----------------------------------------------------------------------------
(* The kernel, which gets what to_public_dict makes of the objects: every  *)
(* default is filled in, and integers are i32 (a release build wraps).     *)

I32(n) == ((n + IntMax + 1) % (2 * (IntMax + 1))) - (IntMax + 1)

IsI32(v) == v.number \in -(IntMax + 1) .. IntMax

Named(v) == ~IsBlank(OrDefault(v, Text("1")))

Sendable(section) == \A key \in DOMAIN section : ~IsForeign(section[key])

ModuleParses(m) ==
  /\ \A v \in {m.floor_tokens, m.target_tokens, m.max_tokens, m.order} : IsI32(v)
  /\ Sendable(m)

(* The definition gets through json.dumps, UTF-8 and serde.                *)
ArenaParses(d) ==
  /\ ModuleParses(d.module) /\ ModuleParses(d.peer)
  /\ IsI32(d.arena.framework_reserve_tokens) /\ Sendable(d.arena)
  /\ HasStep(d) => Sendable(d.step)

(* and the request.                                                        *)
RequestParses(d) ==
  /\ IsI32(d.model.context_limit_tokens) /\ IsI32(d.model.reserved_output_tokens)
  /\ Sendable(d.model)
  /\ HasContribution(d) =>
       IsI32(d.contribution.observed_demand_tokens) /\ Sendable(d.contribution)
  /\ HasChunk(d) => Sendable(d.chunk)

SemanticTwice(d) == HasStep(d) /\ d.step.algorithm_id = Text("semantic") /\ d.step.again = True

NativeModule(m) ==
  LET growing == m.target_tokens.number < m.max_tokens.number
  IN /\ Named(m.module_id)
     /\ m.target_tokens.number \in m.floor_tokens.number .. m.max_tokens.number
     /\ ~(m.can_borrow # False /\ growing /\ m.reclaim_pipeline # List)

(* cl_arena_create and validate_definition.                                *)
CreateNative(d) ==
  /\ ArenaParses(d)
  /\ NativeModule(d.module) /\ NativeModule(d.peer) /\ d.module.module_id # d.peer.module_id
  /\ \A v \in {d.arena.arena_id, d.arena.schema_version, d.arena.policy_version,
               d.arena.admission_policy} : Named(v)
  /\ ~SemanticTwice(d)
  /\ HasStep(d) => Named(d.step.algorithm_id)

(* validate_model, without a token counter of the host.                    *)
ValidateModel(m) ==
  /\ Named(m.model_profile_id) /\ Named(m.tokenizer_id) /\ Named(m.tokenizer_version)
  /\ m.count_mode # Text("exact")

ChunkAccepted(c) == Named(c.chunk_id) /\ Named(c.kind) /\ c.again # True

ValidateContributions(d) ==
  /\ HasContribution(d) =>
       /\ d.contribution.module_id \in {d.module.module_id, d.peer.module_id}
       /\ d.contribution.again # True
  /\ HasChunk(d) => ChunkAccepted(d.chunk)

(* Mutant: the reserve of the framework is forgotten.                      *)
NativeBudgetUnreserved(d) == I32(Floors(d)) <= I32(InputBudget(d) - Separators)

NativeBudget(d) ==
  LET available == I32(InputBudget(d) - Separators - Reserve(d))
  IN available > 0 /\ I32(Floors(d)) <= available

(* What the core checks before it looks at what the chunks hold.           *)
PrepareNative(d) ==
  RequestParses(d) /\ ValidateModel(d.model) /\ ValidateContributions(d) /\ NativeBudget(d)

(* The tokens a module is granted of what it asks for, whatever the others *)
(* ask for.                                                                *)
Spared(d) ==
  LET m == IF d.contribution.module_id = d.module.module_id THEN d.module ELSE d.peer
      asked == d.contribution.observed_demand_tokens
  IN IF IsInteger(asked) /\ asked.number < m.floor_tokens.number
     THEN asked.number ELSE m.floor_tokens.number

(* The chunk may have to be reclaimed, or not fit when it is rendered: a   *)
(* null counts no token and is rendered as four letters.                   *)
MayOverflow(d) ==
  HasChunk(d) /\ ~(IsString(d.chunk.content) /\ d.chunk.content.number <= Spared(d))

Semantic(d) ==
  /\ HasStep(d) /\ d.step.algorithm_id = Text("semantic")
  /\ d.contribution.module_id = d.module.module_id

(* What a provider, the summaries of the others and the core that is given *)
(* them may fail with.                                                     *)
SummaryErrors == {"ProviderError", "NativeContextLeaseError", "UnicodeEncodeError", "ValueError"}

(* How reclaiming fails, which depends on more of the content than is kept *)
(* here: what is protected, or what is left of the rest, exceeds its share *)
(* or the budget; or there is no provider of that name, or it fails.       *)
ReclaimErrors(d) ==
  CASE ~MayOverflow(d) -> {}
    [] MayOverflow(d) /\ ~Semantic(d) -> {"AdmissionError"}
    [] MayOverflow(d) /\ Semantic(d) ->
         {"AdmissionError"} \cup (IF HasProvider(d) /\ d.step.options = NamesProvider
                                 THEN SummaryErrors ELSE {"ConfigurationError"})

-----------------------------------------------------------------------------

CallsOf(cmd) ==
  IF cmd = "validate"
  THEN <<"load_json_config", "arena_from_dict", "model_from_dict", "providers_from_dict",
         "contributions_from_dict", "compile_layout", "validate_model_budget">>
  ELSE <<"load_json_config", "arena_from_dict", "providers_from_dict", "compile_layout",
         "NativeArena", "model_from_dict", "contributions_from_dict", "prepare">>

GateInit ==
  /\ command \in {"validate", "prepare"}
  /\ document \in Documents
  /\ pending = CallsOf(command)
  /\ verdict = "running"

(* A call of the command returns, or raises an error: main prints it.      *)
Makes(call, accepted, error) ==
  /\ verdict = "running" /\ pending # <<>> /\ Head(pending) = call
  /\ IF accepted THEN pending' = Tail(pending) /\ UNCHANGED verdict
                 ELSE verdict' = error /\ UNCHANGED pending
  /\ UNCHANGED <<command, document>>

Load == Makes("load_json_config", LoadJsonConfig(document), "ConfigurationError")

BuildArena == Makes("arena_from_dict", ArenaContract(document), "ConfigurationError")

BuildModel == Makes("model_from_dict", ModelContract(document.model), "ConfigurationError")

BuildProviders == Makes("providers_from_dict", ProvidersFromDict(document), "ConfigurationError")

BuildContributions ==
  Makes("contributions_from_dict", ContributionsContract(document), "ConfigurationError")

Compile == Makes("compile_layout", CompileLayout(document), "LayoutValidationError")

CheckBudget ==
  Makes("validate_model_budget", ValidateModelBudget(document), "LayoutValidationError")

JsonErrors == {"NativeContextLeaseError", "UnicodeEncodeError"}

(* The constructor of the facade does not translate the native error.      *)
Create ==
  \E error \in IF ArenaParses(document) THEN {"NativeContextLeaseError"} ELSE JsonErrors :
    Makes("NativeArena", CreateNative(document), error)

(* What the core says is translated by its code.                           *)
PrepareErrors(d) ==
  CASE ~RequestParses(d) -> JsonErrors
    [] RequestParses(d) /\ ~(ValidateModel(d.model) /\ ValidateContributions(d)) ->
         {"ConfigurationError"}
    [] RequestParses(d) /\ ValidateModel(d.model) /\ ValidateContributions(d)
         /\ ~NativeBudget(d) -> {"LayoutValidationError"}
    [] PrepareNative(d) -> ReclaimErrors(d)

Prepare ==
  \/ PrepareNative(document) /\ Makes("prepare", TRUE, "none")
  \/ \E error \in PrepareErrors(document) : Makes("prepare", FALSE, error)

(* What is printed has the id of the arena in it.                          *)
End ==
  /\ verdict = "running" /\ pending = <<>>
  /\ verdict' = IF IsForeign(document.arena.arena_id) THEN "UnicodeEncodeError"
                ELSE IF command = "validate" THEN "valid" ELSE "completed"
  /\ UNCHANGED <<command, document, pending>>

GateNext ==
  \/ Load \/ BuildArena \/ BuildModel \/ BuildProviders \/ BuildContributions
  \/ Compile \/ CheckBudget \/ Create \/ Prepare \/ End

GateSpec == GateInit /\ [][GateNext]_gateVars /\ WF_gateVars(GateNext)

-----------------------------------------------------------------------------
(* Properties.                                                             *)

Refused == verdict \notin {"running", "valid", "completed"}

(* What validate accepts and the core does not, whatever the content:      *)
(* names that are blank, integers beyond 32 bits, values that are foreign  *)
(* to the core, exact counting without a tokenizer, two semantic steps, a  *)
(* contribution to no module or twice, a chunk twice, and floors that      *)
(* leave no room for the separators.                                       *)
KnownGaps(d) ==
  LET modules == {d.module, d.peer}
      blank(v) == v \in {Text(""), Text(" ")}
  IN \/ \E v \in {d.arena.schema_version, d.arena.policy_version, d.arena.admission_policy,
                  d.model.model_profile_id, d.model.tokenizer_id, d.model.tokenizer_version} :
          blank(v)
     \/ \E m \in modules :
          \/ \E v \in {m.floor_tokens, m.target_tokens, m.max_tokens, m.order} : ~IsI32(v)
          \/ ~Sendable(m)
     \/ ~Sendable(d.arena) \/ ~Sendable(d.model)
     \/ \E v \in {d.arena.framework_reserve_tokens, d.model.context_limit_tokens,
                  d.model.reserved_output_tokens} : ~IsI32(v)
     \/ d.model.count_mode = Text("exact")
     \/ HasStep(d) /\ (SemanticTwice(d) \/ blank(d.step.algorithm_id) \/ ~Sendable(d.step))
     \/ /\ HasContribution(d)
        /\ \/ d.contribution.module_id \notin {m.module_id : m \in modules}
           \/ d.contribution.again = True
           \/ ~IsI32(d.contribution.observed_demand_tokens) \/ ~Sendable(d.contribution)
     \/ /\ HasChunk(d)
        /\ \/ blank(d.chunk.chunk_id) \/ blank(d.chunk.kind)
           \/ ~Sendable(d.chunk) \/ d.chunk.again = True
     \/ Floors(d) > InputBudget(d) - Reserve(d) - Separators
     \/ InputBudget(d) - Reserve(d) <= Separators

(* Huge budgets and floors, which the kernel's i32 arithmetic cannot hold. *)
Wraps(d) ==
  \E n \in {Floors(d), InputBudget(d) - Separators - Reserve(d)} : I32(n) # n

Valid(d) ==
  LoadJsonConfig(d) /\ ProvidersFromDict(d) /\ CompileLayout(d) /\ ValidateModelBudget(d)

(* "contextlease validate" promises that prepare takes the configuration:  *)
(* what it accepts, prepare refuses only for a known gap, or when a chunk  *)
(* is larger than the floor of its module spares it, although the two      *)
(* check it in different languages, at different places and in another     *)
(* order.                                                                  *)
ValidatedPrepares ==
  command = "prepare" /\ Refused /\ Valid(document) =>
    KnownGaps(document) \/ MayOverflow(document)

(* The other way round: prepare, which does not call validate_model_budget *)
(* of Python, completes only what validate accepts, unless a budget or the *)
(* sum of the floors wraps in 32 bits; and whoever accepts a document, no  *)
(* inline secret and no remote URL without TLS unasked is in it.           *)
CompletedIsValid ==
  verdict \in {"valid", "completed"} =>
    /\ Valid(document) \/ Wraps(document)
    /\ NoInlineSecrets(document)
    /\ HasProvider(document) /\ document.provider.base_url = Text("http://host")
         => document.provider.allow_insecure_http = True
=============================================================================
