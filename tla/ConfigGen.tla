------------------------------- MODULE ConfigGen -------------------------------
(***************************************************************************)
(* From an OGXServer to the config.yaml its Pods are started with: what    *)
(* the API server admits (the CEL rules of api/v1beta1 and the validating  *)
(* webhook), what pkg/config generates from the admitted spec and the base *)
(* config of the distribution, and the environment in which the container  *)
(* resolves the references the config makes to Secrets.                    *)
(*                                                                         *)
(* ConfigMaps, retention and roll-out are in GeneratedConfig, the pass     *)
(* around all of this in ServerPass: one Reconcile here is a whole pass.   *)
(***************************************************************************)
EXTENDS Naturals, Sequences, FiniteSets, SequencesExt

CONSTANTS
    Specs,          \* the specs that are submitted, one object for each
    Edits,          \* the specs that one object is given one after the other
    Bases(_),       \* the base configs an object that is submitted may meet
    NamesInOrder,   \* the names in use, in the order of strings
    None            \* a nil pointer, an absent object, a call that failed

ASSUME NamesAssumption == NamesInOrder \in Seq(Seq(STRING))

VARIABLES
    subject,   \* the member of Specs this behaviour is about; None: of Edits
    cr,        \* the stored OGXServer, None when there is none
    base,      \* the base config, as an image label or a ConfigMap has it
    dep        \* what the last pass that succeeded deployed

vars == <<subject, cr, base, dep>>

----------------------------------------------------------------------------
(* Names.  An identifier is a sequence of words and separators, and an     *)
(* environment variable's name the sequence of words between underscores.  *)

Separators == {"-", "_"}
Numbers == {"1"}
IsWord(token) == token \notin Separators

(* Case is not modelled; an empty word before a number or in place of      *)
(* nothing stands for the underscore that is put there.                    *)
normalizeEnvVarField(name) ==
    LET words == SelectSeq(name, IsWord)
    IN  IF words = <<>> THEN <<"", "">>
        ELSE IF Head(words) \in Numbers THEN <<"">> \o words ELSE words

buildEnvVarName(id, field) == <<"ogx">> \o normalizeEnvVarField(id) \o field
envVarRef(id, field) == buildEnvVarName(id, field)
KVPassword == <<"ogx", "storage", "kv", "password">>
SQLConnection == <<"ogx", "storage", "sql", "connection", "string">>

Place(name) == CHOOSE i \in DOMAIN NamesInOrder : NamesInOrder[i] = name
Least(names) == CHOOSE n \in names : \A m \in names : Place(n) <= Place(m)

----------------------------------------------------------------------------
(* The API types: each provider's default ID, and the Secrets it may name. *)
(* A provider: [kind, type, id, secrets, settings]; type is a custom one's.*)
(* Settings are grouped as in config.yaml, and given by their keys.        *)

Type(id, required, optional) ==
    [id |-> id, required |-> required, optional |-> optional, single |-> FALSE]
Single(id, optional) == [Type(id, {}, optional) EXCEPT !.single = TRUE]

APIKey == <<"api", "key">>
APIToken == <<"api", "token">>
Password == <<"password">>
Token == <<"token">>
AccessKey == <<"aws", "access", "key", "id">>
SecretKey == <<"aws", "secret", "access", "key">>
SessionToken == <<"aws", "session", "token">>

InferenceTypes ==
    [vllm |-> Type(<<"remote", "-", "vllm">>, {}, {APIToken}),
     openai |-> Type(<<"remote", "-", "openai">>, {APIKey}, {}),
     azure |-> Type(<<"remote", "-", "azure">>, {APIKey}, {}),
     bedrock |-> Type(<<"remote", "-", "bedrock">>, {},
                      {APIKey, AccessKey, SecretKey, SessionToken}),
     vertexai |-> Type(<<"remote", "-", "vertexai">>, {}, {}),
     watsonx |-> Type(<<"remote", "-", "watsonx">>, {APIKey}, {})]
VectorIOTypes ==
    [pgvector |-> Type(<<"remote", "-", "pgvector">>, {Password}, {}),
     milvus |-> Type(<<"remote", "-", "milvus">>, {}, {Token}),
     qdrant |-> Type(<<"remote", "-", "qdrant">>, {}, {APIKey})]
ToolRuntimeTypes ==
    [brave |-> Type(<<"remote", "-", "brave", "-", "search">>, {APIKey}, {}),
     tavily |-> Type(<<"remote", "-", "tavily", "-", "search">>, {APIKey}, {}),
     mcp |-> Type(<<"remote", "-", "model", "-", "context", "-", "protocol">>, {}, {}),
     filesearch |-> Type(<<"inline", "-", "file", "-", "search">>, {}, {})]
FilesTypes ==
    [s3 |-> Single(<<"remote", "-", "s3">>, {AccessKey, SecretKey}),
     localfs |-> Single(<<"inline", "-", "localfs">>, {})]
BatchesTypes == [reference |-> Single(<<"inline", "-", "reference">>, {})]
ResponsesTypes == [builtin |-> Single(<<"inline", "-", "builtin">>, {})]
FileProcessorsTypes ==
    [doclingserve |-> Single(<<"remote", "-", "docling", "-", "serve">>, {APIKey}),
     auto |-> Single(<<"inline", "-", "auto">>, {}),
     pypdf |-> Single(<<"inline", "-", "pypdf">>, {}),
     markitdown |-> Single(<<"inline", "-", "markitdown">>, {}),
     docling |-> Single(<<"inline", "-", "docling">>, {})]

Types ==
    [inference |-> InferenceTypes, vector_io |-> VectorIOTypes,
     tool_runtime |-> ToolRuntimeTypes, files |-> FilesTypes, batches |-> BatchesTypes,
     responses |-> ResponsesTypes, file_processors |-> FileProcessorsTypes]
ProviderAPIs == DOMAIN Types
APIs == ProviderAPIs \cup {"conversations"}

(* deriveOrDefault; a custom provider's type has "-" in place of "::".     *)
DeriveID(api, p) ==
    IF p.id # None THEN p.id ELSE IF p.kind = "custom" THEN p.type ELSE Types[api][p.kind].id
(* One pgvector provider without an ID goes on with the records of the     *)
(* base config's.                                                          *)
PersistenceNamespace(p) == IF p.id # None THEN p.id ELSE <<"pgvector">>

(* The kinds whose IDs the IDs() methods list.                             *)
InferenceIDs == {"vllm", "openai", "azure", "bedrock", "vertexai", "watsonx", "custom"}
VectorIOIDs == {"pgvector", "milvus", "qdrant", "custom"}
ToolRuntimeIDs == {"brave", "tavily", "mcp", "filesearch", "custom"}
FilesIDs == {"s3", "localfs", "custom"}
BatchesIDs == {"reference", "custom"}
ResponsesIDs == {"builtin", "custom"}
FileProcessorsIDs == {"doclingserve", "auto", "pypdf", "markitdown", "docling", "custom"}
Listed ==
    [inference |-> InferenceIDs, vector_io |-> VectorIOIDs, tool_runtime |-> ToolRuntimeIDs,
     files |-> FilesIDs, batches |-> BatchesIDs, responses |-> ResponsesIDs,
     file_processors |-> FileProcessorsIDs]

(* providers maps the API types that are there to sequences of providers.  *)
Places(providers) == UNION {{api} \X DOMAIN providers[api] : api \in DOMAIN providers}
At(providers, place) == providers[place[1]][place[2]]
ListedPlaces(providers) ==
    {x \in Places(providers) : At(providers, x).kind \in Listed[x[1]]}
IDs(providers) == {DeriveID(x[1], At(providers, x)) : x \in ListedPlaces(providers)}

----------------------------------------------------------------------------
(* The Secrets a spec names, with the environment variables that carry     *)
(* them (secret.go).  One table per API type, which has to list the fields *)
(* that the expanders below refer to.                                      *)

collectRemoteInferenceSecrets ==
    [vllm |-> {APIToken}, openai |-> {APIKey}, azure |-> {APIKey},
     bedrock |-> {APIKey, AccessKey, SecretKey, SessionToken}, watsonx |-> {APIKey}]
collectVectorIOSecrets == [pgvector |-> {Password}, milvus |-> {Token}, qdrant |-> {APIKey}]
collectToolRuntimeSecrets == [brave |-> {APIKey}, tavily |-> {APIKey}]
collectFilesSecrets == [s3 |-> {AccessKey, SecretKey}]
collectFileProcessorsSecrets == [doclingserve |-> {APIKey}]
(* The other API types collect from custom providers only.                 *)
collectCustomSecretsFromSlices == [kind \in {} |-> {}]
Collected ==
    [inference |-> collectRemoteInferenceSecrets, vector_io |-> collectVectorIOSecrets,
     tool_runtime |-> collectToolRuntimeSecrets, files |-> collectFilesSecrets,
     batches |-> collectCustomSecretsFromSlices, responses |-> collectCustomSecretsFromSlices,
     file_processors |-> collectFileProcessorsSecrets]

secretToEnvVar(id, field, secret) == [name |-> buildEnvVarName(id, field), secret |-> secret]

collectCustomProviderSecrets(api, p) ==
    {secretToEnvVar(DeriveID(api, p), normalizeEnvVarField(key), p.secrets[key]) :
        key \in DOMAIN p.secrets}
collectTypedSecrets(api, p) ==
    LET fields == IF p.kind \in DOMAIN Collected[api] THEN Collected[api][p.kind] ELSE {}
    IN  {secretToEnvVar(DeriveID(api, p), f, p.secrets[f]) : f \in fields \cap DOMAIN p.secrets}
collectProviderSecrets(api, p) ==
    IF p.kind = "custom" THEN collectCustomProviderSecrets(api, p) ELSE collectTypedSecrets(api, p)

collectStorageSecrets(st) ==
    {b \in {[name |-> KVPassword, secret |-> st.password],
            [name |-> SQLConnection, secret |-> st.connection]} : b.secret # None}

collectSecretRefsRaw(s) ==
    (IF s.providers = None THEN {}
     ELSE UNION {collectProviderSecrets(x[1], At(s.providers, x)) : x \in Places(s.providers)})
    \cup (IF s.storage = None THEN {} ELSE collectStorageSecrets(s.storage))

Mutant_ValidateSecretRefEnvVarNames(s) == TRUE

(* Every name starts with a letter; two Secrets must not share one.        *)
ValidateSecretRefEnvVarNames(s) ==
    \A b, c \in collectSecretRefsRaw(s) : b.name = c.name => b.secret = c.secret

(* Names that several fields share are bound once.                         *)
CollectSecretRefs(s) ==
    LET raw == collectSecretRefsRaw(s)
    IN  [n \in {b.name : b \in raw} |-> (CHOOSE b \in raw : b.name = n).secret]

----------------------------------------------------------------------------
(* The providers section (provider.go): the fields of each kind that       *)
(* become references, and the settings that are passed on.                 *)

expandInferenceProviders ==
    [vllm |-> {APIToken}, openai |-> {APIKey}, azure |-> {APIKey},
     bedrock |-> {APIKey, AccessKey, SecretKey, SessionToken},
     vertexai |-> {}, watsonx |-> {APIKey}]
expandVectorIOProviders == [pgvector |-> {Password}, milvus |-> {Token}, qdrant |-> {APIKey}]
expandToolRuntimeProviders ==
    [brave |-> {APIKey}, tavily |-> {APIKey}, mcp |-> {}, filesearch |-> {}]
expandFilesProviders == [s3 |-> {AccessKey, SecretKey}, localfs |-> {}]
expandBatchesProviders == [reference |-> {}]
expandResponsesProviders == [builtin |-> {}]
expandFileProcessorsProviders ==
    [doclingserve |-> {APIKey}, auto |-> {}, pypdf |-> {}, markitdown |-> {}, docling |-> {}]
Expanded ==
    [inference |-> expandInferenceProviders, vector_io |-> expandVectorIOProviders,
     tool_runtime |-> expandToolRuntimeProviders, files |-> expandFilesProviders,
     batches |-> expandBatchesProviders, responses |-> expandResponsesProviders,
     file_processors |-> expandFileProcessorsProviders]

NetworkGroups == {"tls", "timeout", "headers", "proxy"}
IndexGroups == {"hnsw", "ivf_flat"}
VectorStoreGroups ==
    {"defaults", "rewrite_query_params", "file_search_params", "chunk_retrieval_params",
     "context_prompt_params", "annotation_prompt_params", "file_ingestion_params",
     "file_batch_params", "contextual_retrieval_params"}

(* The groups that are emitted: an empty one is left out, or kept.         *)
applyNetworkConfig(given) == {g \in NetworkGroups \cap DOMAIN given : given[g] # {}}
expandPgvectorVectorIndex(given) == {g \in IndexGroups \cap DOMAIN given : given[g] # {}}
expandVectorStoresConfig(given) == VectorStoreGroups \cap DOMAIN given
expandCompactionConfig(given) == {"compaction_config"} \cap DOMAIN given

expandSettings(kind, given) ==
    LET groups == ({"own"} \cap DOMAIN given)
                    \cup (IF kind \in DOMAIN InferenceTypes THEN applyNetworkConfig(given) ELSE {})
                    \cup (IF kind = "pgvector" THEN expandPgvectorVectorIndex(given) ELSE {})
                    \cup (IF kind \in {"filesearch", "builtin"}
                          THEN expandVectorStoresConfig(given) ELSE {})
                    \cup (IF kind = "builtin" THEN expandCompactionConfig(given) ELSE {})
    IN  [g \in groups |-> given[g]]

KVDefault == <<"kv", "_", "default">>
SQLDefault == <<"sql", "_", "default">>

(* backend and namespace are those of a pgvector provider's persistence.   *)
Entry(api, p, refs) ==
    [id |-> DeriveID(api, p), refs |-> refs, settings |-> expandSettings(p.kind, p.settings),
     backend |-> IF p.kind = "pgvector" THEN KVDefault ELSE None,
     namespace |-> IF p.kind = "pgvector" THEN PersistenceNamespace(p) ELSE None]

expandCustomProvider(api, p) ==
    Entry(api, p, [key \in DOMAIN p.secrets |->
                      envVarRef(DeriveID(api, p), normalizeEnvVarField(key))])
expandTypedProvider(api, p) ==
    Entry(api, p, [f \in Expanded[api][p.kind] \cap DOMAIN p.secrets |->
                      envVarRef(DeriveID(api, p), f)])
expandProvider(api, p) ==
    IF p.kind = "custom" THEN expandCustomProvider(api, p) ELSE expandTypedProvider(api, p)

(* A key that is both a Secret and a setting is an error.                  *)
ExpandFails(providers) ==
    providers # None /\ \E x \in Places(providers) :
        LET p == At(providers, x)
        IN  p.kind = "custom" /\ "own" \in DOMAIN p.settings
               /\ DOMAIN p.secrets \cap p.settings.own # {}

ExpandProviders(providers) ==
    IF providers = None THEN [api \in {} |-> {}]
    ELSE [api \in {a \in DOMAIN providers : providers[a] # <<>>} |->
             {expandProvider(api, providers[api][i]) : i \in DOMAIN providers[api]}]

----------------------------------------------------------------------------
(* Merging with the base config, and the whole file (merge.go, resource.go,*)
(* storage.go, generator.go).                                              *)
(* A base config: [version, server, apis, providers, models, storage,      *)
(* auth]; models are the IDs of the providers of the registered models.    *)

MergeProviders(onto, user) ==
    [api \in DOMAIN onto \cup DOMAIN user |->
        IF api \in DOMAIN user THEN user[api] ELSE onto[api]]

ProviderIDs(providers, api) ==
    IF api \in DOMAIN providers THEN {e.id : e \in providers[api]} ELSE {}

NoModelProvider(models, providers) ==
    models # None /\ None \in models /\ ProviderIDs(providers, "inference") = {}

Mutant_ExpandResources(models, providers) == IF models = None THEN {} ELSE models

ExpandResources(models, providers) ==
    IF models = None THEN {}
    ELSE {IF m = None THEN Least(ProviderIDs(providers, "inference")) ELSE m : m \in models}

defaultStores ==
    [metadata |-> KVDefault, inference |-> SQLDefault,
     conversations |-> SQLDefault, prompts |-> KVDefault]

(* Both backends are always there, SQLite where nothing else is asked for. *)
(* MergeStorage handles the nil that stands for no storage.                *)
ApplyStorage(st) ==
    [backends |-> [n \in {KVDefault, SQLDefault} |->
                      IF n = KVDefault
                      THEN IF st.kv = "redis" THEN "kv_redis" ELSE "kv_sqlite"
                      ELSE IF st.sql = "postgres" THEN "sql_postgres" ELSE "sql_sqlite"],
     stores |-> defaultStores, object |-> TRUE,
     refs |-> (IF st.kv = "redis" /\ st.password # None THEN {KVPassword} ELSE {})
                 \cup (IF st.sql = "postgres" THEN {SQLConnection} ELSE {})]

(* User storage replaces the base's as a whole.                            *)
MergeStorage(onto, st) == IF st = None THEN onto ELSE ApplyStorage(st)

praxisServedAPIs == {"responses", "conversations"}
effectiveDisabledAPIs(s) == s.disabled \cup (IF s.praxis THEN praxisServedAPIs ELSE {})
MergeAPIs(apis, disabled) == apis \ disabled

Mutant_filterAPIList(apis, disabled) ==
    [apis |-> apis \ disabled, filtered |-> apis # {}]

(* An empty list would enable everything: then it is left as it is.        *)
filterAPIList(apis, disabled) ==
    IF apis \ disabled = {} THEN [apis |-> apis, filtered |-> FALSE]
    ELSE [apis |-> apis \ disabled, filtered |-> TRUE]

isSQLBackend(type) == type \in {"sql_sqlite", "sql_postgres"}

Mutant_sqlBackendName(st) ==
    IF \E n \in DOMAIN st.backends : isSQLBackend(st.backends[n]) THEN SQLDefault ELSE None

sqlBackendName(st) ==
    LET candidates == {n \in DOMAIN st.backends : isSQLBackend(st.backends[n])}
    IN  IF SQLDefault \in candidates THEN SQLDefault
        ELSE IF candidates = {} THEN None ELSE Least(candidates)

(* object: whether stores is an object, if it is there at all.             *)
applyPraxisVectorStoreMetadata(st, providers) ==
    IF \/ ProviderIDs(providers, "vector_io") = {}
       \/ st = None \/ sqlBackendName(st) = None
       \/ ~st.object \/ "vector_stores" \in DOMAIN st.stores
    THEN st
    ELSE [st EXCEPT !.stores = [n \in DOMAIN st.stores \cup {"vector_stores"} |->
              IF n = "vector_stores" THEN sqlBackendName(st) ELSE st.stores[n]]]

applyPraxisAuth == "upstream_header"

buildFinalConfig(b, providers, models, storage, apis, praxis) ==
    [apis |-> apis, providers |-> providers,
     models |-> IF models # {} THEN models ELSE b.models,
     storage |-> IF praxis THEN applyPraxisVectorStoreMetadata(storage, providers) ELSE storage,
     auth |-> IF praxis THEN applyPraxisAuth ELSE b.auth,
     filtered |-> praxis /\ b.apis # {}]

(* The version is there, and so is the server section, if at all, as an    *)
(* object: the only things that are asked of a base config.                *)
ParseBaseConfig(b) == b.version /\ b.server

GenerateConfig(s, b) ==
    LET providers == MergeProviders(b.providers, ExpandProviders(s.providers))
    IN  IF ~ParseBaseConfig(b) \/ ExpandFails(s.providers) \/ NoModelProvider(s.models, providers)
        THEN None
        ELSE buildFinalConfig(b, providers, ExpandResources(s.models, providers),
                              MergeStorage(b.storage, s.storage),
                              MergeAPIs(b.apis, effectiveDisabledAPIs(s)), s.praxis)

(* Only in Praxis mode, for a spec that declares nothing.                  *)
GeneratePraxisDefaultConfig(s, b) ==
    LET list == filterAPIList(b.apis, effectiveDisabledAPIs(s))
    IN  IF ~ParseBaseConfig(b) THEN None
        ELSE [apis |-> list.apis, providers |-> b.providers, models |-> b.models,
              storage |-> applyPraxisVectorStoreMetadata(b.storage, b.providers),
              auth |-> applyPraxisAuth, filtered |-> list.filtered]

(* What the server makes of it (external): an absent or empty list of APIs *)
(* serves every API that has providers.                                    *)
ServedAPIs(config) == IF config.apis # {} THEN config.apis ELSE DOMAIN config.providers

----------------------------------------------------------------------------
(* A pass, as far as the config and the container's environment go.        *)

HasDeclarativeConfig(s) ==
    s.providers # None \/ s.models # None \/ s.storage # None \/ s.disabled # {}
shouldGenerateConfig(s) == ~s.override /\ (HasDeclarativeConfig(s) \/ s.praxis)

validateDistribution(s) == s.distribution # "unknown"

reconcileGeneratedConfig(s, b) ==
    IF b = None \/ ~ValidateSecretRefEnvVarNames(s) THEN None
    ELSE IF HasDeclarativeConfig(s) THEN GenerateConfig(s, b)
    ELSE GeneratePraxisDefaultConfig(s, b)

(* The container gets the Secrets only with a generated config.            *)
Deployed(s, b) ==
    IF ~shouldGenerateConfig(s) THEN [spec |-> s, base |-> b, config |-> None, env |-> <<>>]
    ELSE [spec |-> s, base |-> b, config |-> reconcileGeneratedConfig(s, b),
          env |-> CollectSecretRefs(s)]

(* A pass that fails leaves what is deployed.                              *)
Reconcile ==
    /\ cr # None
    /\ validateDistribution(cr)
    /\ shouldGenerateConfig(cr) => reconcileGeneratedConfig(cr, base) # None
    /\ dep' = Deployed(cr, base)
    /\ UNCHANGED <<subject, cr, base>>

----------------------------------------------------------------------------
(* Admission: the schema and its CEL rules, then the webhook.              *)

AllowedGroups(api, kind) ==
    {"own"} \cup (IF kind \in DOMAIN InferenceTypes THEN NetworkGroups ELSE {})
            \cup (IF kind = "pgvector" THEN IndexGroups ELSE {})
            \cup (IF kind \in {"filesearch", "builtin"} THEN VectorStoreGroups ELSE {})
            \cup (IF kind = "builtin" THEN {"compaction_config"} ELSE {})

ProviderRules(api, p) ==
    /\ p.kind # "custom" =>
        /\ p.kind \in DOMAIN Types[api]
        /\ Types[api][p.kind].required \subseteq DOMAIN p.secrets
        /\ DOMAIN p.secrets \subseteq Types[api][p.kind].required \cup Types[api][p.kind].optional
        /\ Types[api][p.kind].single => p.id = None
    /\ DOMAIN p.settings \subseteq AllowedGroups(api, p.kind)

SingletonsOnce(providers) ==
    \A x, y \in Places(providers) :
        /\ x[1] = y[1] /\ At(providers, x).kind = At(providers, y).kind
        /\ At(providers, x).kind # "custom" /\ Types[x[1]][At(providers, x).kind].single
        => x = y

StorageRules(st) ==
    /\ st.kv \in {None, "sqlite", "redis"} /\ st.sql \in {None, "sqlite", "postgres"}
    /\ st.password # None => st.kv = "redis"
    /\ st.connection # None <=> st.sql = "postgres"

(* Also what validateExternalAccess of the webhook asks for.               *)
ExternalAccessRules(ea) == ea # None /\ ea.enabled => ea.hostname /\ ea.tls

SpecRules(s) ==
    /\ s.override => s.providers = None /\ s.models = None /\ s.storage = None
                        /\ s.disabled = {} /\ ~s.baseConfig
    /\ s.disabled \subseteq APIs
    /\ s.providers # None =>
        /\ DOMAIN s.providers \cap s.disabled = {}
        /\ \A x \in Places(s.providers) : ProviderRules(x[1], At(s.providers, x))
        /\ SingletonsOnce(s.providers)
    /\ s.storage # None => StorageRules(s.storage)

validateDistributionName(s) == s.distribution # "unknown"

validateProviderIDs(s) ==
    s.providers # None =>
        \A x, y \in ListedPlaces(s.providers) :
            DeriveID(x[1], At(s.providers, x)) = DeriveID(y[1], At(s.providers, y)) => x = y

Mutant_validateProviderReferences(s) == TRUE

validateProviderReferences(s) ==
    s.providers # None /\ s.models # None => s.models \ {None} \subseteq IDs(s.providers)

validateAdoptionAnnotations(s) == s.adopt # "self"

AllowedVolumeTypes == {"configMap", "secret", "emptyDir", "persistentVolumeClaim",
                       "projected", "downwardAPI"}
isAllowedVolumeType(type) == type \in AllowedVolumeTypes

Mutant_validateChangedVolumeTypes(old, s) ==
    \A v \in DOMAIN s.volumes :
        \/ old # None /\ v \in DOMAIN old.volumes
        \/ isAllowedVolumeType(s.volumes[v])

(* volumes maps the names of the volumes to their types.                   *)
validateChangedVolumeTypes(old, s) ==
    \A v \in DOMAIN s.volumes :
        \/ old # None /\ v \in DOMAIN old.volumes /\ old.volumes[v] = s.volumes[v]
        \/ isAllowedVolumeType(s.volumes[v])

Mutant_collectErrors(old, s) ==
    /\ validateDistributionName(s)
    /\ validateProviderIDs(s)
    /\ validateProviderReferences(s)
    /\ validateAdoptionAnnotations(s)
    /\ validateChangedVolumeTypes(old, s)
    /\ ExternalAccessRules(s.external)

(* Whether there are none; old is None on create.                          *)
collectErrors(old, s) ==
    /\ validateDistributionName(s)
    /\ validateProviderIDs(s)
    /\ validateProviderReferences(s)
    /\ validateAdoptionAnnotations(s)
    /\ validateChangedVolumeTypes(old, s)
    /\ (old = None \/ old.external # s.external) => ExternalAccessRules(s.external)

(* The API server does not evaluate a rule again on a part of the object   *)
(* that an update leaves as it is (CRD validation ratcheting).             *)
Admitted(old, s) ==
    /\ SpecRules(s)
    /\ (old # None /\ old.external = s.external) \/ ExternalAccessRules(s.external)
    /\ collectErrors(old, s)

(* What a release that did not look at volumes and external access yet     *)
(* (3.5) asked of an object; the distributions it knew may be others.      *)
AdmittedBefore(s) == SpecRules(s) /\ validateProviderIDs(s) /\ validateProviderReferences(s)

----------------------------------------------------------------------------
(* The objects and base configs of an instance: an OGXServer has the       *)
(* fields and API types of the schema.  A base config, which may be a      *)
(* ConfigMap that a user wrote, has any APIs, providers, backends and      *)
(* stores, and these need not fit together.                                *)

Names == ToSet(NamesInOrder)

IsSpec(s) ==
    /\ s = [distribution |-> s.distribution, override |-> s.override, praxis |-> s.praxis,
            baseConfig |-> s.baseConfig, providers |-> s.providers, models |-> s.models,
            storage |-> s.storage, disabled |-> s.disabled, external |-> s.external,
            volumes |-> s.volumes, adopt |-> s.adopt]
    /\ s.providers # None =>
        /\ DOMAIN s.providers \subseteq ProviderAPIs
        /\ \A x \in Places(s.providers) : DeriveID(x[1], At(s.providers, x)) \in Names
    /\ s.models # None => s.models \ {None} \subseteq Names

IsBaseStorage(st) ==
    /\ st = [backends |-> st.backends, stores |-> st.stores, object |-> st.object,
             refs |-> st.refs]
    /\ DOMAIN st.backends \subseteq Names

IsBase(b) ==
    /\ b.models \subseteq Names
    /\ b.storage # None => IsBaseStorage(b.storage)
    /\ \A api \in DOMAIN b.providers : \A e \in b.providers[api] : e.id \in Names

ASSUME SpecsAssumption == \A s \in Specs \cup Edits : IsSpec(s)
ASSUME BasesAssumption ==
    \A s \in Specs \cup {None} : \A b \in Bases(s) : b # None => IsBase(b)
ASSUME DefaultsAssumption == {KVDefault, SQLDefault} \subseteq Names /\ None \notin Names

----------------------------------------------------------------------------
Submitted == IF subject = None THEN Edits ELSE {subject}

ValidateCreate ==
    /\ cr = None
    /\ \E s \in Submitted : Admitted(None, s) /\ cr' = s
    /\ UNCHANGED <<subject, base, dep>>

ValidateUpdate ==
    /\ cr # None
    /\ \E s \in Submitted : s # cr /\ Admitted(cr, s) /\ cr' = s
    /\ UNCHANGED <<subject, base, dep>>

(* Nothing is validated, and what was deployed is garbage-collected.       *)
ValidateDelete ==
    /\ cr # None
    /\ cr' = None /\ dep' = None
    /\ UNCHANGED <<subject, base>>

(* The base config's ConfigMap, or the image that is tagged, changes.      *)
EditBase ==
    /\ base' \in Bases(subject)
    /\ UNCHANGED <<subject, cr, dep>>

(* An object may have been stored by a release without the newer checks.   *)
Init ==
    /\ subject \in Specs \cup {None}
    /\ cr \in {s \in Submitted : subject = None /\ AdmittedBefore(s)} \cup {None}
    /\ base \in Bases(subject)
    /\ dep = None

Next == ValidateCreate \/ ValidateUpdate \/ ValidateDelete \/ EditBase \/ Reconcile

Spec == Init /\ [][Next]_vars

----------------------------------------------------------------------------
(* What is stored was admitted once, by this release or an older one, and  *)
(* what is deployed was made of it: a config, if there is one, with APIs of*)
(* the base config's, and with providers of the schema's API types and of  *)
(* the base config's.                                                      *)
TypeOK ==
    /\ cr \in Submitted \cup {None}
    /\ base \in Bases(subject)
    /\ dep # None =>
        /\ dep.spec \in Submitted
        /\ dep.base \in Bases(subject)
        /\ dep.config # None =>
            /\ dep.config.apis \subseteq dep.base.apis
            /\ DOMAIN dep.config.providers \subseteq ProviderAPIs \cup DOMAIN dep.base.providers
            /\ dep.config.models \subseteq Names
            /\ dep.config.filtered \in BOOLEAN

HasConfig == dep # None /\ dep.config # None

(* Every provider of the spec is in the generated config once, under its   *)
(* API type and ID, with each of its non-empty settings; and each of its   *)
(* fields that names a Secret, like the storage's, resolves to that very   *)
(* Secret in the container's environment.  This is where the two tables    *)
(* that are to be kept in sync meet (collectProviderSecrets and            *)
(* buildProviderExpanders), and where two names that normalise alike must  *)
(* have been refused.                                                      *)
ProviderServed(api, p) ==
    \E e \in dep.config.providers[api] :
        /\ e.id = DeriveID(api, p)
        /\ \A other \in dep.config.providers[api] : other.id = e.id => other = e
        /\ \A g \in DOMAIN p.settings : p.settings[g] # {} =>
               g \in DOMAIN e.settings /\ e.settings[g] = p.settings[g]
        /\ \A f \in DOMAIN p.secrets :
               /\ f \in DOMAIN e.refs /\ e.refs[f] \in DOMAIN dep.env
               /\ dep.env[e.refs[f]] = p.secrets[f]

ServedAsWritten ==
    HasConfig =>
        /\ dep.spec.providers # None =>
            \A x \in Places(dep.spec.providers) : ProviderServed(x[1], At(dep.spec.providers, x))
        /\ dep.spec.storage # None =>
            /\ dep.config.storage.refs \subseteq DOMAIN dep.env
            /\ \A b \in collectStorageSecrets(dep.spec.storage) :
                   b.name \in dep.config.storage.refs /\ dep.env[b.name] = b.secret

(* A model that the spec registers has a provider in the generated config, *)
(* whether it names one, which the webhook checked against the spec, or    *)
(* gets the first inference provider of what was merged.  A spec without   *)
(* providers is not checked by the webhook.                                *)
ModelsHaveProviders ==
    HasConfig /\ dep.spec.models # None /\ dep.spec.providers # None =>
        \A m \in dep.config.models :
            dep.spec.models # {} =>
                \E api \in DOMAIN dep.config.providers : m \in ProviderIDs(dep.config.providers, api)

(* What the operator puts into the storage section holds together, and what*)
(* it takes over from the base config is not broken by it.  A store that is*)
(* not the base config's names a backend that is there, one that is stays  *)
(* as it was declared.  A provider's backend is missing only if neither the*)
(* base config's storage nor, where spec.storage replaces that as a whole, *)
(* the two default backends provide it; and the providers of the spec ask  *)
(* for kv_default only.  In Praxis mode, where the server refuses to start a*)
(* vector_io provider without a metadata store, there is one wherever a SQL*)
(* backend could hold it, on such a backend unless the base config put it  *)
(* elsewhere.                                                              *)
Kept(n) == dep.spec.storage = None /\ n \in DOMAIN dep.base.storage.stores
Promised ==
    IF dep.spec.storage = None THEN DOMAIN dep.base.storage.backends ELSE {KVDefault, SQLDefault}

StorageHoldsTogether ==
    HasConfig /\ dep.config.storage # None =>
        LET st == dep.config.storage
            providers == dep.config.providers
        IN  /\ \A n \in DOMAIN st.stores :
                   IF Kept(n) THEN st.stores[n] = dep.base.storage.stores[n]
                   ELSE st.stores[n] \in DOMAIN st.backends
            /\ \A api \in DOMAIN providers : \A e \in providers[api] :
                   \/ e.backend \in DOMAIN st.backends \cup {None}
                   \/ /\ e.backend \notin Promised
                      /\ api \in DOMAIN ExpandProviders(dep.spec.providers) => e.backend = KVDefault
            /\ /\ dep.spec.praxis /\ ProviderIDs(providers, "vector_io") # {}
               /\ st.object /\ \E n \in DOMAIN st.backends : isSQLBackend(st.backends[n])
               => /\ "vector_stores" \in DOMAIN st.stores
                  /\ Kept("vector_stores") \/ isSQLBackend(st.backends[st.stores.vector_stores])

(* Taking the image's default config over for Praxis never enables an API  *)
(* that this config does not serve by itself, and reports the APIs as      *)
(* filtered only if the server does not serve them any more.               *)
DefaultConfigNotWidened ==
    HasConfig /\ ~HasDeclarativeConfig(dep.spec) =>
        /\ ServedAPIs(dep.config) \subseteq ServedAPIs(dep.base)
        /\ dep.config.filtered => ServedAPIs(dep.config) \cap praxisServedAPIs = {}

(* However it is edited, an object without a volume of a disallowed type   *)
(* and without plain-HTTP exposure never gets one: checking only what      *)
(* changed does not let anything in.                                       *)
Safe(s) ==
    /\ ExternalAccessRules(s.external)
    /\ \A v \in DOMAIN s.volumes : isAllowedVolumeType(s.volumes[v])
SafeStaysSafe == [][cr' # None /\ (cr = None \/ Safe(cr)) => Safe(cr')]_vars

(* An object stored before these checks existed stays editable: an update  *)
(* that leaves its external access and volumes alone, and would be allowed *)
(* without them, is admitted.                                              *)
GrandfatheredStaysEditable ==
    cr # None =>
        \A s \in Submitted :
            /\ s.external = cr.external /\ s.volumes = cr.volumes
            /\ Admitted(None, [s EXCEPT !.external = None, !.volumes = <<>>])
            => Admitted(cr, s)

================================================================================
