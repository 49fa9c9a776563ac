------------------------------- MODULE LlmNames -------------------------------
(***************************************************************************)
(* How the agent names the model a GPU process has loaded:                  *)
(*   llmClassifier.ts    runtime and model from the command line, after the *)
(*                       operator's rules                                   *)
(*   ollamaManifests.ts  an index of Ollama's manifests, digest |-> name,   *)
(*                       and one per process, next to its blob              *)
(*   llmProbe.ts         what the LLM servers answer, cached                *)
(*                                                                         *)
(* A command line is a record: its executable, the kind of its model file   *)
(* and, for an Ollama blob, the digest, an alias, a port, whether it runs   *)
(* in a container and whether the manifests next to its blob can be read.   *)
(***************************************************************************)
EXTENDS Integers, Sequences, FiniteSets, SequencesExt

CONSTANTS
    Commands,       \* the GPU processes, a sequence of command lines
    Models, Digests,
    Endpoints,      \* base URLs a hub may configure: records [url, port]
    Hubs,           \* numbers, in the order of the agent's configuration
    HostNetwork,    \* the agent is not in a container
    Dirs,           \* manifests dir |-> "missing", "empty" or "store"
    MaxChanges,     \* bound: what the operator and the host do
    MaxFaults       \* bound: polls and /api/show requests that fail

ASSUME LlmConstantsOK ==
    /\ Hubs \subseteq Nat /\ {MaxChanges, MaxFaults} \subseteq Nat
    /\ HostNetwork \in BOOLEAN
    /\ Digests \cap {"none", "unasked"} = {}

Rows == DOMAIN Commands
Cmd(r) == Commands[r]

(* http://127.0.0.1:11434, and the gateway when the agent is in a container. *)
OllamaDefault == [url |-> "ollama", port |-> 11434]
Gateway == [url |-> "gateway", port |-> 11434]
Local(port) == [url |-> "local", port |-> port]
OnHost(r) == HostNetwork /\ ~Cmd(r).container
Bases ==
    Endpoints \cup {OllamaDefault} \cup (IF HostNetwork THEN {} ELSE {Gateway})
        \cup {Local(Cmd(r).port) : r \in {q \in Rows : OnHost(q)}}

VARIABLES
    alive,      \* rows of the process list
    tags,       \* Ollama's registry: model |-> digest
    servers,    \* base |-> what answers there: a record [kind, models]
    changes,
    faults

VARIABLES
    hubConfigs, \* hubLlmConfigs: hub |-> its settings
    customRules, \* the rules of all hubs
    extra,      \* the endpoints of all hubs
    hubDir,     \* hubManifestsDir, "none"
    index,      \* digest |-> name, of the manifests dir found
    near,       \* blobDirs: row |-> index next to its blob, NoEntry
    nearDue,    \* rows whose index is older than BLOB_DIR_RETRY_MS
    loaded,     \* ollamaLoaded: base |-> (digest |-> name)
    digestOf,   \* digestByName, kept for good: model |-> digest, "none"
    served,     \* servedName: base |-> name
    due,        \* bases not polled for POLL_MS
    polling,    \* inflight: base |-> "ollama", "served", "no"
    shown       \* row |-> the name last sent

VARIABLES
    named,      \* history: digest |-> names it had
    answered    \* history: base |-> names served there

worldVars == <<alive, tags, servers>>
probeVars == <<loaded, digestOf, served, due, polling, faults>>
configVars == <<hubConfigs, customRules, extra, hubDir>>
resolverVars == <<index, near, nearDue>>
llmVars == <<worldVars, configVars, resolverVars, probeVars, shown, named, answered>>

Empty == <<>>
NoEntry == [absent |-> TRUE]
NoConfig == [rules |-> <<>>, endpoints |-> {}, dir |-> "none"]
Unnamed == [model |-> "none", hint |-> "none", via |-> "none"]

----------------------------------------------------------------------------
(* index.ts, applyHubLlmConfigs: rules and endpoints of all hubs, the first *)
(* manifests dir.                                                           *)

RulesIn(configs) ==
    LET order == SetToSortSeq(Hubs, LAMBDA a, b : a < b)
    IN FlattenSeq([i \in DOMAIN order |-> configs[order[i]].rules])
DirIn(configs) ==
    LET with == {h \in Hubs : configs[h].dir # "none"}
    IN IF with = {} THEN "none"
       ELSE configs[CHOOSE h \in with : \A g \in with : h <= g].dir

(* ollamaManifests.ts, discover: the hub's dir first, then the usual ones;  *)
(* the first that exists.                                                   *)
Discovered(dir) ==
    IF dir # "none" /\ Dirs[dir] # "missing" THEN dir
    ELSE IF Dirs["default"] # "missing" THEN "default" ELSE "none"

(* buildIndex: digest |-> a tag that points to it.                          *)
Manifests == [d \in {tags[m] : m \in DOMAIN tags} |-> CHOOSE m \in DOMAIN tags : tags[m] = d]
IndexOf(dir) == IF dir # "none" /\ Dirs[dir] = "store" THEN Manifests ELSE Empty

(* indexNearBlob, through the root of the process or its mounts.            *)
NearIndex(r) == IF Cmd(r).near THEN Manifests ELSE Empty

(* resolveNearBlob reads the manifests for a row it has no index of, or     *)
(* whose index misses the digest and is old.                                *)
ReadsNear(r) == near[r] = NoEntry \/ (Cmd(r).digest \notin DOMAIN near[r] /\ r \in nearDue)
NearOf(r) == IF ReadsNear(r) THEN NearIndex(r) ELSE near[r]

----------------------------------------------------------------------------
(* llmProbe.ts.                                                             *)

OllamaBases == {OllamaDefault} \cup (IF HostNetwork THEN {} ELSE {Gateway}) \cup extra

FindLoaded_Any(d) == UNION {{loaded[b][e] : e \in DOMAIN loaded[b]} : b \in OllamaBases}

(* findLoaded: only an exact match of the digest.                           *)
FindLoaded(d) == {loaded[b][d] : b \in {c \in OllamaBases : d \in DOMAIN loaded[c]}}

Answering(bases) == {b \in bases : served[b] # "none"}

(* servedFor: the port on this host, outside of containers; a configured    *)
(* server on that port; the only one for the only process without a name.   *)
ServedFor(r, alone) ==
    LET here == IF OnHost(r) THEN Answering({Local(Cmd(r).port)}) ELSE {}
        same == {b \in Answering(extra) : b.port = Cmd(r).port}
    IN IF here # {} THEN here
       ELSE IF same # {} THEN {CHOOSE b \in same : TRUE}
       ELSE IF alone /\ Cardinality(Answering(extra)) = 1 THEN Answering(extra) ELSE {}

----------------------------------------------------------------------------
(* llmClassifier.ts.                                                        *)

Named(model, via) == [model |-> model, hint |-> "none", via |-> via]
Hinted(model, hint) == [model |-> model, hint |-> hint, via |-> "none"]

(* ollamaBlob: the resolvers by digest, static index first.                 *)
Resolved(r) ==
    LET d == Cmd(r).digest
    IN IF d \in DOMAIN index THEN {index[d]}
       ELSE IF d \in DOMAIN NearOf(r) THEN {NearOf(r)[d]}
       ELSE FindLoaded(d)
One(S) == CHOOSE x \in S : TRUE

(* applyCustomRule: the first that matches.                                 *)
RuleFor(r) == SelectSeq(customRules, LAMBDA rule : rule.match = Cmd(r).exe)
RuleModel(r, rule) == IF rule.flag /\ Cmd(r).file # "none" THEN "file" ELSE rule.model
Runtime(r) == IF RuleFor(r) # <<>> THEN RuleFor(r)[1].runtime ELSE Cmd(r).exe

OllamaModel(r) ==
    CASE Cmd(r).file = "blob" -> IF Resolved(r) # {} THEN Named(One(Resolved(r)), "digest")
                                 ELSE Hinted("sha256", "ollama_manifests")
      [] Cmd(r).file = "none" -> Unnamed
      [] OTHER                -> Named("file", "command")

LlamacppModel(r) ==
    LET blob == Cmd(r).file = "blob"
    IN CASE Cmd(r).file = "plain"         -> Named("file", "command")
         [] blob /\ Resolved(r) # {}      -> Named(One(Resolved(r)), "digest")
         [] Cmd(r).alias                  -> Named("alias", "command")
         [] Cmd(r).file = "cache"         -> Named("repo", "command")
         [] blob                          -> Hinted("sha256", "ollama_manifests")
         [] Cmd(r).file = "hf"            -> Hinted("sha256", "blob")
         [] OTHER                         -> Hinted("none", "no_model")

(* classifyLLM.                                                             *)
Classified(r) ==
    CASE RuleFor(r) # <<>> -> Named(RuleModel(r, RuleFor(r)[1]), "rule")
      [] Cmd(r).exe = "ollama" -> OllamaModel(r)
      [] Cmd(r).exe = "llamacpp" -> LlamacppModel(r)
      [] Cmd(r).exe = "vllm" /\ Cmd(r).file = "none" -> Hinted("none", "no_model")
      [] Cmd(r).exe = "webui" \/ Cmd(r).file = "none" -> Unnamed
      [] OTHER -> Named("file", "command")

(* enrich: a digest a server has loaded, then the name a server answers to. *)
NeedsName(r) ==
    /\ Runtime(r) \in {"llamacpp", "vllm"}
    /\ Classified(r).hint # "none" \/ Classified(r).model = "none"
Alone == Cardinality({r \in alive : NeedsName(r)}) = 1
HasDigest(r) == Cmd(r).file = "blob"

Enriched(r) ==
    LET bases == IF NeedsName(r) THEN ServedFor(r, Alone) ELSE {}
    IN IF bases # {} THEN Named(served[One(bases)], "served")
       ELSE IF HasDigest(r) /\ FindLoaded(Cmd(r).digest) # {}
            THEN Named(One(FindLoaded(Cmd(r).digest)), "digest")
            ELSE Classified(r)

----------------------------------------------------------------------------
(* schedule: a base is polled once at a time and once per POLL_MS, for the  *)
(* first of the kinds a tick asks for.                                      *)

(* The classifier asks Ollama about each digest nothing else resolves.      *)
AsksNear(r) ==
    /\ RuleFor(r) = <<>> /\ Cmd(r).exe \in {"ollama", "llamacpp"} /\ HasDigest(r)
    /\ Cmd(r).digest \notin DOMAIN index
AsksFirst(r) == AsksNear(r) /\ Cmd(r).digest \notin DOMAIN NearOf(r)
WantsOllama(r, b) == b \in OllamaBases /\ (Runtime(r) = "ollama" \/ HasDigest(r))

(* The local port answered in the cache: the configured servers are not     *)
(* asked.                                                                   *)
WantsServed(r, b) ==
    /\ NeedsName(r)
    /\ \/ OnHost(r) /\ b = Local(Cmd(r).port)
       \/ b \in extra /\ ~(OnHost(r) /\ served[Local(Cmd(r).port)] # "none")

KindFor(b) ==
    IF b \in OllamaBases /\ \E r \in alive : AsksFirst(r) THEN "ollama"
    ELSE LET asking == {r \in alive : WantsOllama(r, b) \/ WantsServed(r, b)}
         IN IF asking = {} THEN "no"
            ELSE IF WantsOllama(CHOOSE r \in asking : \A q \in asking : r <= q, b) THEN "ollama"
            ELSE "served"

Scheduled == {b \in Bases : polling[b] = "no" /\ b \in due /\ KindFor(b) # "no"}

(* One tick of the process collector: every row is classified and enriched  *)
(* with what the caches hold, and the polls are started.                    *)
NamesTick ==
    /\ shown' = [r \in Rows |-> IF r \in alive THEN Enriched(r) ELSE Unnamed]
    /\ near' = [r \in Rows |-> IF r \in alive /\ AsksNear(r) THEN NearOf(r) ELSE near[r]]
    /\ nearDue' = nearDue \ {r \in alive : AsksNear(r) /\ ReadsNear(r)}
    /\ polling' = [b \in Bases |-> IF b \in Scheduled THEN KindFor(b) ELSE polling[b]]
    /\ due' = due \ Scheduled
    /\ UNCHANGED <<worldVars, changes, configVars, index, loaded, digestOf, served, faults, named, answered>>

(* pollOllama: /api/ps, and /api/show for the names seen for the first      *)
(* time; a /api/show that fails is remembered too.                          *)
OllamaAnswers(b) ==
    /\ polling[b] = "ollama" /\ servers[b].kind = "ollama"
    /\ \E missed \in SUBSET {m \in servers[b].models : digestOf[m] = "unasked"} :
        /\ missed # {} => faults < MaxFaults
        /\ faults' = IF missed = {} THEN faults ELSE faults + 1
        /\ digestOf' = [m \in Models |->
                          IF m \notin servers[b].models \/ digestOf[m] # "unasked" THEN digestOf[m]
                          ELSE IF m \in missed THEN "none" ELSE tags[m]]
    /\ LET known == {m \in servers[b].models : digestOf'[m] # "none"}
       IN loaded' = [loaded EXCEPT ![b] =
                       [d \in {digestOf'[m] : m \in known} |-> CHOOSE m \in known : digestOf'[m] = d]]
    /\ polling' = [polling EXCEPT ![b] = "no"]
    /\ UNCHANGED <<worldVars, changes, configVars, resolverVars, served, due, shown, named, answered>>

(* pollServed: /v1/models, which Ollama answers too.                        *)
ServedAnswers(b) ==
    /\ polling[b] = "served" /\ servers[b].kind # "down" /\ servers[b].models # {}
    /\ \E m \in servers[b].models :
        /\ served' = [served EXCEPT ![b] = m]
        /\ answered' = [answered EXCEPT ![b] = @ \cup {m}]
    /\ polling' = [polling EXCEPT ![b] = "no"]
    /\ UNCHANGED <<worldVars, changes, configVars, resolverVars, loaded, digestOf, due, faults, shown, named>>

(* The server is down, is not of that kind, or takes more than 1.5 s: what  *)
(* it said is forgotten.                                                    *)
PollFails(b) ==
    /\ polling[b] # "no"
    /\ LET refuses == servers[b].kind = "down" \/ (polling[b] = "ollama" /\ servers[b].kind # "ollama")
                          \/ (polling[b] = "served" /\ servers[b].models = {})
       IN IF refuses THEN UNCHANGED faults ELSE faults < MaxFaults /\ faults' = faults + 1
    /\ loaded' = IF polling[b] = "ollama" THEN [loaded EXCEPT ![b] = Empty] ELSE loaded
    /\ served' = IF polling[b] = "served" THEN [served EXCEPT ![b] = "none"] ELSE served
    /\ polling' = [polling EXCEPT ![b] = "no"]
    /\ UNCHANGED <<worldVars, changes, configVars, resolverVars, digestOf, due, shown, named, answered>>

(* POLL_MS and BLOB_DIR_RETRY_MS pass.                                      *)
TimePasses ==
    /\ due' = Bases /\ nearDue' = Rows
    /\ UNCHANGED <<worldVars, changes, configVars, index, near, loaded, digestOf, served, polling, faults,
                   shown, named, answered>>

(* ollamaResolver.refresh, every 5 minutes; the indexes of the processes    *)
(* not seen for BLOB_DIR_MAX_IDLE_MS are dropped.                           *)
Refresh ==
    /\ index' = IndexOf(Discovered(hubDir))
    /\ near' = [r \in Rows |-> IF r \in alive THEN near[r] ELSE NoEntry]
    /\ UNCHANGED <<worldVars, changes, configVars, nearDue, probeVars, shown, named, answered>>

(* onHubConfig: the settings of a hub are replaced; a new dir is indexed.   *)
HubConfig(h, config) ==
    /\ hubConfigs' = [hubConfigs EXCEPT ![h] = config]
    /\ customRules' = RulesIn(hubConfigs')
    /\ extra' = UNION {hubConfigs'[g].endpoints : g \in Hubs}
    /\ hubDir' = DirIn(hubConfigs')
    /\ index' = IF hubDir' = hubDir THEN index ELSE IndexOf(Discovered(hubDir'))
    /\ UNCHANGED <<near, nearDue, probeVars, shown, answered, named, worldVars, changes>>

----------------------------------------------------------------------------
(* The host: processes come and go, tags move, servers load and stop.       *)

Change == changes < MaxChanges /\ changes' = changes + 1

(* A host without GPU processes stays so: a bound.                          *)
ProcessChanges ==
    /\ Change /\ alive # {} /\ \E r \in Rows : alive' = IF r \in alive THEN alive \ {r} ELSE alive \cup {r}
    /\ UNCHANGED <<tags, servers, configVars, resolverVars, probeVars, shown, named, answered>>

Pulled ==
    /\ Change
    /\ \E m \in Models, d \in Digests : tags' = [tags EXCEPT ![m] = d]
    /\ named' = [d \in Digests |-> named[d] \cup {m \in Models : tags'[m] = d}]
    /\ UNCHANGED <<alive, servers, configVars, resolverVars, probeVars, shown, answered>>

ServerChanges(b, what) ==
    /\ Change /\ servers' = [servers EXCEPT ![b] = what]
    /\ UNCHANGED <<alive, tags, configVars, resolverVars, probeVars, shown, named, answered>>

NamesInit ==
    /\ alive \in {{}, Rows} /\ changes = 0 /\ faults = 0
    /\ hubConfigs = [h \in Hubs |-> NoConfig] /\ customRules = <<>> /\ extra = {} /\ hubDir = "none"
    /\ index = IndexOf(Discovered("none"))
    /\ near = [r \in Rows |-> NoEntry] /\ nearDue = {}
    /\ loaded = [b \in Bases |-> Empty] /\ digestOf = [m \in Models |-> "unasked"]
    /\ served = [b \in Bases |-> "none"] /\ due = Bases /\ polling = [b \in Bases |-> "no"]
    /\ shown = [r \in Rows |-> Unnamed]
    /\ named = [d \in Digests |-> {m \in Models : tags[m] = d}]
    /\ answered = [b \in Bases |-> {}]

NamesNext ==
    \/ NamesTick \/ TimePasses \/ Refresh \/ ProcessChanges \/ Pulled
    \/ \E b \in Bases : OllamaAnswers(b) \/ ServedAnswers(b) \/ PollFails(b)

NamesFairness ==
    /\ WF_llmVars(NamesTick) /\ WF_llmVars(TimePasses) /\ WF_llmVars(Refresh)
    /\ \A b \in Bases : WF_llmVars(OllamaAnswers(b) \/ ServedAnswers(b) \/ PollFails(b))

----------------------------------------------------------------------------
(* The name shown for a process that holds an Ollama blob was at some time  *)
(* the name of that very blob, whichever index, server or cache it comes    *)
(* from; a name taken from a server was served there, on the port of this   *)
(* very process or by a configured server.                                  *)
NamesTrue ==
    \A r \in Rows :
        /\ shown[r].via = "digest" => shown[r].model \in named[Cmd(r).digest]
        /\ shown[r].via = "served" =>
             \E b \in Bases \cap (Endpoints \cup {Local(Cmd(r).port)}) : shown[r].model \in answered[b]
=============================================================================
