------------------------------ MODULE MCConfigGen ------------------------------
(* Instances of ConfigGen for TLC.                                         *)
EXTENDS ConfigGen

CONSTANTS s1, s2   \* references to Secrets

Nothing == [k \in {} |-> {}]
Provider(kind, id, secrets) ==
    [kind |-> kind, type |-> <<"remote", "-", "x">>, id |-> id, secrets |-> secrets,
     settings |-> Nothing]
WithSettings(p, groups, keys) == [p EXCEPT !.settings = [g \in groups |-> keys]]
Under(api, ps) == [a \in {api} |-> ps]

Plain ==
    [distribution |-> "known", override |-> FALSE, praxis |-> FALSE, baseConfig |-> FALSE,
     providers |-> None, models |-> None, storage |-> None, disabled |-> {},
     external |-> None, volumes |-> Nothing, adopt |-> "none"]

(* Base configs.                                                           *)
BaseEntry(name, backend) ==
    [id |-> name, refs |-> Nothing, settings |-> Nothing, backend |-> backend, namespace |-> None]
Storage(backends, stores) ==
    [backends |-> backends, stores |-> stores, object |-> TRUE, refs |-> {}]
Backends(sql) == [n \in {KVDefault} \cup sql |-> IF n = KVDefault THEN "kv_sqlite" ELSE "sql_sqlite"]
Base(apis, sql) ==
    [version |-> TRUE, server |-> TRUE, apis |-> apis,
     providers |-> [inference |-> {BaseEntry(<<"b">>, None), BaseEntry(<<"c">>, None)},
                    vector_io |-> {BaseEntry(<<"v">>, KVDefault)},
                    responses |-> {BaseEntry(<<"r">>, None)}],
     models |-> {<<"b">>}, storage |-> Storage(Backends(sql), Nothing), auth |-> "base"]
Shipped == Base({"inference", "vector_io", "responses"}, {SQLDefault})
(* Bases whose storage does not fit together: no kv_default, a store on a  *)
(* backend that is not there, an API and a backend of the author's own.    *)
SQLOnly(sql, stores) ==
    [Base({"vector_io"}, sql) EXCEPT !.storage = Storage([n \in sql |-> "sql_postgres"], stores)]
Authored ==
    {SQLOnly({SQLDefault}, [vector_stores |-> <<"sql", "_", "x">>]),
     SQLOnly({<<"sql", "_", "x">>, <<"a">>}, [metadata |-> KVDefault]),
     [Base({"vector_io", "safety"}, {<<"a">>}) EXCEPT
         !.providers = [vector_io |-> {BaseEntry(<<"v">>, <<"a">>)},
                        safety |-> {BaseEntry(<<"b">>, <<"c">>)}],
         !.storage.stores = [vector_stores |-> KVDefault]]}
AllBases ==
    Authored \cup
    {None, Shipped, [Shipped EXCEPT !.version = FALSE], [Shipped EXCEPT !.server = FALSE],
     Base({"inference", "responses"}, {<<"sql", "_", "x">>, <<"a">>}), Base({"responses"}, {}),
     [Base({}, {<<"a">>}) EXCEPT !.storage.object = FALSE], [Shipped EXCEPT !.storage = None],
     [Shipped EXCEPT !.providers = Nothing, !.storage.stores = [vector_stores |-> SQLDefault]]}

MCNamesInOrder ==
    <<<<"a">>, <<"a", "-", "b">>, <<"a", "_", "b">>, <<"b">>, <<"c">>,
      <<"inline", "-", "auto">>, <<"inline", "-", "builtin">>, <<"inline", "-", "docling">>,
      <<"inline", "-", "file", "-", "search">>, <<"inline", "-", "localfs">>,
      <<"inline", "-", "markitdown">>, <<"inline", "-", "pypdf">>, <<"inline", "-", "reference">>,
      <<"kv", "_", "default">>, <<"r">>, <<"remote", "-", "azure">>, <<"remote", "-", "bedrock">>,
      <<"remote", "-", "brave", "-", "search">>, <<"remote", "-", "docling", "-", "serve">>,
      <<"remote", "-", "milvus">>, <<"remote", "-", "model", "-", "context", "-", "protocol">>,
      <<"remote", "-", "openai">>, <<"remote", "-", "pgvector">>, <<"remote", "-", "qdrant">>,
      <<"remote", "-", "s3">>, <<"remote", "-", "tavily", "-", "search">>,
      <<"remote", "-", "vertexai">>, <<"remote", "-", "vllm">>, <<"remote", "-", "watsonx">>,
      <<"remote", "-", "x">>, <<"sql", "_", "default">>, <<"sql", "_", "x">>, <<"storage">>, <<"v">>>>

(* Two custom providers whose variables may collide, with the storage's    *)
(* too, and a key that is a setting as well.                               *)
Keys == {<<"c">>, <<"b", "-", "c">>, <<"kv", "-", "password">>, <<"1">>, <<"-">>}
Customs ==
    {Provider("custom", id, [k \in {key} |-> s1]) :
        id \in {<<"a">>, <<"a", "-", "b">>, <<"a", "_", "b">>, <<"storage">>, None}, key \in Keys}
CustomPairs ==
    {[Plain EXCEPT !.providers = Under("inference", <<p>>) , !.storage = st] :
        p \in Customs,
        st \in {None, [kv |-> "redis", password |-> s2, sql |-> None, connection |-> None]}}
    \cup {[Plain EXCEPT !.providers = [inference |-> <<p>>, files |-> <<[q EXCEPT !.secrets = [k \in DOMAIN q.secrets |-> s]]>>]] :
        p \in Customs, q \in Customs, s \in {s1, s2}}
    \cup {[Plain EXCEPT !.providers = Under("batches",
              <<[Provider("custom", <<"a">>, [k \in {<<"c">>} |-> s1]) EXCEPT
                    !.settings = [own |-> {key}]]>>)] : key \in {<<"c">>, <<"d">>}}

(* Every kind of provider, with each choice of Secrets and of settings.    *)
Kinds == UNION {{<<api, k>> : k \in DOMAIN Types[api]} : api \in ProviderAPIs}
FieldChoices(x) ==
    {Types[x[1]][x[2]].required \cup f : f \in SUBSET Types[x[1]][x[2]].optional}
Typed ==
    UNION {{[Plain EXCEPT !.providers = Under(x[1],
                <<WithSettings(Provider(x[2], None, [f \in fields |-> s1]), groups, keys)>>)] :
              fields \in FieldChoices(x), keys \in {{}, {"k"}},
              groups \in {{}, {"own"}, AllowedGroups(x[1], x[2])}} : x \in Kinds}

(* Merging: providers, models, storage and disabled APIs over every base.  *)
OpenAI(id) == Provider("openai", id, [f \in {APIKey} |-> s1])
Pgvector(id) == Provider("pgvector", id, [f \in {Password} |-> s1])
Merging ==
    {[Plain EXCEPT !.praxis = praxis, !.providers = providers, !.models = models,
                   !.storage = storage, !.disabled = disabled] :
        praxis \in BOOLEAN,
        providers \in {None, Nothing, Under("inference", <<OpenAI(None), OpenAI(<<"a">>)>>),
                       Under("vector_io", <<Pgvector(None), Pgvector(<<"a">>)>>), Under("inference", <<>>),
                       [inference |-> <<OpenAI(<<"c">>)>>, vector_io |-> <<Pgvector(<<"a">>)>>]},
        models \in {None, {None}, {<<"a">>}, {<<"b">>, None}},
        storage \in {None, [kv |-> None, password |-> None, sql |-> "postgres", connection |-> s1],
                     [kv |-> "redis", password |-> s1, sql |-> None, connection |-> None]},
        disabled \in {{}, {"inference"}, {"vector_io", "responses"},
                      {"inference", "vector_io"}}}

(* Edits of one object, also of one that an older release admitted.        *)
Exposed(hostname, tls) == [enabled |-> TRUE, hostname |-> hostname, tls |-> tls]
MCEdits ==
    {[Plain EXCEPT !.external = ea, !.volumes = vols, !.praxis = praxis, !.override = override] :
        ea \in {None, Exposed(TRUE, TRUE), Exposed(TRUE, FALSE), Exposed(FALSE, TRUE)},
        vols \in {Nothing, [data |-> "configMap"], [data |-> "hostPath"],
                  [data |-> "configMap", more |-> "hostPath"]},
        praxis \in BOOLEAN, override \in BOOLEAN}
    \cup {[Plain EXCEPT !.distribution = "unknown"], [Plain EXCEPT !.adopt = "self"],
          [Plain EXCEPT !.override = TRUE, !.baseConfig = TRUE]}

MCSpecs == CustomPairs \cup Typed \cup Merging
MCBases(spec) == IF spec \in Merging THEN AllBases ELSE {Shipped}
================================================================================
