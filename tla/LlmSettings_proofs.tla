------------------------- MODULE LlmSettings_proofs --------------------------
(***************************************************************************)
(* Proofs about LlmSettings over LlmNames, for any command lines, models,  *)
(* digests, hubs, servers, rules, forms, changes and faults.               *)
(*                                                                         *)
(* What carries them is NamesInv: every index and every cached answer says *)
(* of a digest a name that the digest had at some time (CachesTrue), every *)
(* name of a server is one it gave, and whatever is on its way from the    *)
(* page to the agent is what an operator typed (SettingsOK).               *)
(***************************************************************************)
EXTENDS LlmSettings, TLAPS

\* An index, digest |-> name, in which each digest has a name it had.
Good(map) == \A d \in DOMAIN map : d \in Digests /\ map[d] \in named[d]

\* The registry and what it has been.
TagsNamed ==
    /\ tags \in [Models -> Digests]
    /\ DOMAIN named = Digests
    /\ \A m \in Models : m \in named[tags[m]]

\* What the resolver and the probe keep is true of some time.
CachesTrue ==
    /\ Good(index)
    /\ DOMAIN near = Rows /\ \A r \in Rows : near[r] # NoEntry => Good(near[r])
    /\ DOMAIN loaded = Bases /\ \A b \in Bases : Good(loaded[b])
    /\ DOMAIN digestOf = Models
    /\ \A m \in Models : \/ digestOf[m] \in {"none", "unasked"}
                         \/ digestOf[m] \in Digests /\ m \in named[digestOf[m]]
    /\ DOMAIN served = Bases /\ DOMAIN answered = Bases
    /\ \A b \in Bases : served[b] # "none" => served[b] \in answered[b]

\* A server has models of the registry, whatever becomes of it.
ServersOK == DOMAIN servers = Bases /\ \A b \in Bases : servers[b].models \subseteq Models

Lists == RuleLists \cup {<<>>}
Forms == HostForms \cup {EmptyForm}
Frames == {[rules |-> list, endpoints |-> f.endpoints, dir |-> f.dir] : list \in Lists, f \in Forms}
Configs == Frames \cup {NoConfig, OtherConfig}

\* From the page to the agent: what the operator typed.
SettingsOK ==
    /\ rules \in Lists /\ rulesForm \in Lists
    /\ rulesSaving # No => rulesSaving[1] \in Lists
    /\ stored \in [HostIds -> Forms] /\ form \in Forms
    /\ saving # No => saving[1] \in Forms
    /\ selected \in HostIds \cup {"none"} /\ reading \subseteq HostIds
    /\ wire \in Seq(Frames)
    /\ hubConfigs \in [Hubs -> Configs]
    /\ extra \subseteq Endpoints

\* A name that is shown was true of its digest, or was served.
ShownTrue ==
    \A r \in Rows :
        /\ shown[r].via = "digest" =>
             Cmd(r).digest \in Digests /\ shown[r].model \in named[Cmd(r).digest]
        /\ shown[r].via = "served" =>
             \E b \in Bases \cap (Endpoints \cup {Local(Cmd(r).port)}) : shown[r].model \in answered[b]

NamesInv == TagsNamed /\ CachesTrue /\ ServersOK /\ SettingsOK /\ ShownTrue

LEMMA ConfigEndpoints == \A c \in Configs : c.endpoints \subseteq Endpoints
BY SettingsConstantsOK DEF SettingsConstantsOK, Configs, Frames, Forms, EmptyForm, NoConfig

LEMMA Frame1 ==
    ASSUME NEW list \in Lists, NEW hosts \in [HostIds -> Forms]
    PROVE  Frame(list, hosts) \in Frames
BY SettingsConstantsOK DEF SettingsConstantsOK, Frames, Frame

LEMMA PushedOK ==
    ASSUME wire \in Seq(Frames), NEW ids, NEW list \in Lists, NEW hosts \in [HostIds -> Forms]
    PROVE  Pushed(ids, list, hosts) \in Seq(Frames)
BY Frame1 DEF Pushed

----------------------------------------------------------------------------
\* What is read out of the host and the caches.
LEMMA GoodManifests ==
    ASSUME TagsNamed
    PROVE  Good(Manifests) /\ Good(Empty) /\ \A dir : Good(IndexOf(dir))
<1>1. Good(Manifests)
  <2> SUFFICES ASSUME NEW d \in {tags[m] : m \in DOMAIN tags}
               PROVE  d \in Digests /\ Manifests[d] \in named[d]
    BY DEF Good, Manifests
  <2>1. PICK m \in Models : tags[m] = d
    BY DEF TagsNamed
  <2>2. DOMAIN tags = Models
    BY DEF TagsNamed
  <2>3. Manifests[d] = CHOOSE n \in DOMAIN tags : tags[n] = d
    BY DEF Manifests
  <2>4. Manifests[d] \in Models /\ tags[Manifests[d]] = d
    BY <2>1, <2>2, <2>3
  <2>5. QED
    BY <2>1, <2>4 DEF TagsNamed
<1>2. Good(Empty)
  BY DEF Good, Empty
<1>3. QED
  BY <1>1, <1>2 DEF IndexOf

LEMMA GoodNear ==
    ASSUME TagsNamed, CachesTrue, NEW r \in Rows
    PROVE  Good(NearOf(r))
BY GoodManifests DEF CachesTrue, NearOf, ReadsNear, NearIndex

\* OllamaBases are polled.
LEMMA BasesPolled ==
    ASSUME SettingsOK
    PROVE  OllamaBases \subseteq Bases /\ extra \subseteq Bases
BY DEF SettingsOK, OllamaBases, Bases

LEMMA LoadedNames ==
    ASSUME CachesTrue, SettingsOK, NEW d, NEW x \in FindLoaded(d)
    PROVE  d \in Digests /\ x \in named[d]
<1>1. PICK b \in OllamaBases : d \in DOMAIN loaded[b] /\ x = loaded[b][d]
  BY DEF FindLoaded
<1>2. b \in Bases
  BY BasesPolled
<1>3. QED
  BY <1>1, <1>2 DEF CachesTrue, Good

LEMMA OneOf == \A S : S # {} => One(S) \in S
BY DEF One

LEMMA ResolvedNames ==
    ASSUME TagsNamed, CachesTrue, SettingsOK, NEW r \in Rows, Resolved(r) # {}
    PROVE  Cmd(r).digest \in Digests /\ One(Resolved(r)) \in named[Cmd(r).digest]
<1> DEFINE d == Cmd(r).digest
<1>1. \A x \in Resolved(r) : d \in Digests /\ x \in named[d]
  BY GoodNear, LoadedNames DEF Resolved, CachesTrue, Good
<1>2. QED
  BY <1>1, OneOf

\* classifyLLM: a name by digest is one that resolved.
LEMMA ClassifiedNames ==
    ASSUME TagsNamed, CachesTrue, SettingsOK, NEW r \in Rows
    PROVE  /\ Classified(r).via # "served"
           /\ Classified(r).via = "digest" =>
                Cmd(r).digest \in Digests /\ Classified(r).model \in named[Cmd(r).digest]
<1> DEFINE OK(n) == /\ n.via # "served"
                    /\ n.via = "digest" =>
                         Cmd(r).digest \in Digests /\ n.model \in named[Cmd(r).digest]
<1>1. \A m : OK(Named(m, "rule")) /\ OK(Named(m, "command"))
  BY DEF Named
<1>2. OK(Unnamed) /\ \A m, h : OK(Hinted(m, h))
  BY DEF Unnamed, Hinted
<1>3. Resolved(r) # {} => OK(Named(One(Resolved(r)), "digest"))
  BY ResolvedNames DEF Named
<1> HIDE DEF OK
<1>4. OK(OllamaModel(r))
  BY <1>1, <1>2, <1>3 DEF OllamaModel
<1>5. OK(LlamacppModel(r))
  BY <1>1, <1>2, <1>3 DEF LlamacppModel
<1>6. OK(Classified(r))
  BY <1>1, <1>2, <1>4, <1>5 DEF Classified
<1>7. QED
  BY <1>6 DEF OK

LEMMA ServedBases ==
    ASSUME CachesTrue, SettingsOK, NEW r \in Rows, NEW alone, NEW b \in ServedFor(r, alone)
    PROVE  b \in Bases \cap (Endpoints \cup {Local(Cmd(r).port)}) /\ served[b] # "none"
<1>1. OnHost(r) => Local(Cmd(r).port) \in Bases
  BY DEF Bases
<1>2. extra \subseteq Bases /\ extra \subseteq Endpoints
  BY BasesPolled DEF SettingsOK
<1> DEFINE here == IF OnHost(r) THEN Answering({Local(Cmd(r).port)}) ELSE {}
           same == {c \in Answering(extra) : c.port = Cmd(r).port}
<1>3. CASE here # {}
  <2>1. b \in here
    BY <1>3 DEF ServedFor
  <2>2. QED
    BY <1>1, <2>1 DEF Answering
<1>4. CASE here = {} /\ same # {}
  <2>1. (CHOOSE c \in same : TRUE) \in same
    BY <1>4
  <2>2. b = CHOOSE c \in same : TRUE
    BY <1>4 DEF ServedFor
  <2>3. b \in same
    BY <2>1, <2>2
  <2>4. QED
    BY <1>2, <2>3 DEF Answering
<1>5. CASE here = {} /\ same = {}
  <2>1. b \in Answering(extra)
    BY <1>5 DEF ServedFor
  <2>2. QED
    BY <1>2, <2>1 DEF Answering
<1>6. QED
  BY <1>3, <1>4, <1>5

\* enrich: what is shown next.
LEMMA EnrichedNames ==
    ASSUME TagsNamed, CachesTrue, SettingsOK, NEW r \in Rows
    PROVE  /\ Enriched(r).via = "digest" =>
                Cmd(r).digest \in Digests /\ Enriched(r).model \in named[Cmd(r).digest]
           /\ Enriched(r).via = "served" =>
                \E b \in Bases \cap (Endpoints \cup {Local(Cmd(r).port)}) :
                    Enriched(r).model \in answered[b]
<1> DEFINE bases == IF NeedsName(r) THEN ServedFor(r, Alone) ELSE {}
<1>1. CASE bases # {}
  <2>1. One(bases) \in ServedFor(r, Alone)
    BY <1>1, OneOf
  <2>2. /\ One(bases) \in Bases \cap (Endpoints \cup {Local(Cmd(r).port)})
        /\ served[One(bases)] # "none"
    BY <2>1, ServedBases
  <2>3. served[One(bases)] \in answered[One(bases)]
    BY <2>2 DEF CachesTrue
  <2>4. Enriched(r) = Named(served[One(bases)], "served")
    BY <1>1 DEF Enriched
  <2>5. Enriched(r).via = "served" /\ Enriched(r).model = served[One(bases)]
    BY <2>4 DEF Named
  <2> HIDE DEF bases
  <2>6. QED
    BY <2>2, <2>3, <2>5
<1>2. CASE bases = {} /\ HasDigest(r) /\ FindLoaded(Cmd(r).digest) # {}
  <2>1. One(FindLoaded(Cmd(r).digest)) \in FindLoaded(Cmd(r).digest)
    BY <1>2, OneOf
  <2>2. Enriched(r) = Named(One(FindLoaded(Cmd(r).digest)), "digest")
    BY <1>2 DEF Enriched
  <2>3. QED
    BY <2>1, <2>2, LoadedNames DEF Named
<1>3. CASE bases = {} /\ ~(HasDigest(r) /\ FindLoaded(Cmd(r).digest) # {})
  <2>1. Enriched(r) = Classified(r)
    BY <1>3 DEF Enriched
  <2>2. QED
    BY <2>1, ClassifiedNames
<1>4. QED
  BY <1>1, <1>2, <1>3

----------------------------------------------------------------------------
LEMMA NamesInitInv == Init => NamesInv
<1> SUFFICES ASSUME Init PROVE NamesInv
  OBVIOUS
<1>1. TagsNamed
  <2>1. tags \in [Models -> Digests] /\ named = [d \in Digests |-> {m \in Models : tags[m] = d}]
    BY SettingsConstantsOK DEF Init, NamesInit, SettingsConstantsOK
  <2>2. QED
    BY <2>1 DEF TagsNamed
<1>2. CachesTrue
  BY <1>1, GoodManifests DEF Init, NamesInit, CachesTrue
<1>3. ServersOK
  BY SettingsConstantsOK DEF Init, SettingsConstantsOK, ServersOK
<1>4. SettingsOK
  BY SettingsConstantsOK DEF Init, NamesInit, SettingsOK, Lists, Forms, Configs, SettingsConstantsOK
<1>5. ShownTrue
  BY DEF Init, NamesInit, ShownTrue, Unnamed
<1>6. QED
  BY <1>1, <1>2, <1>3, <1>4, <1>5 DEF NamesInv

\* A tick shows what the caches say.
LEMMA TickNames == ASSUME NamesInv, NamesTick PROVE TagsNamed' /\ CachesTrue' /\ ShownTrue'
<1> USE DEF NamesInv
<1>1. UNCHANGED <<tags, named, answered, index, loaded, digestOf, served>>
  BY DEF NamesTick, worldVars
<1>2. TagsNamed'
  BY <1>1 DEF TagsNamed
<1>3. \A r \in Rows : near'[r] # NoEntry => Good(near'[r])
  <2>1. \A r \in Rows : near'[r] \in {near[r], NearOf(r)}
    BY DEF NamesTick
  <2>2. QED
    BY <2>1, GoodNear DEF CachesTrue
<1>4. CachesTrue'
  <2>1. DOMAIN near' = Rows
    BY DEF NamesTick
  <2>2. QED
    BY <1>1, <1>3, <2>1 DEF CachesTrue, Good
<1>5. ShownTrue'
  <2>1. \A r \in Rows : shown'[r] \in {Enriched(r), Unnamed}
    BY DEF NamesTick
  <2>2. Unnamed.via \notin {"digest", "served"}
    BY DEF Unnamed
  <2>3. QED
    BY <1>1, <2>1, <2>2, EnrichedNames DEF ShownTrue
<1>6. QED
  BY <1>2, <1>4, <1>5

LEMMA RefreshNames == ASSUME NamesInv, Refresh PROVE TagsNamed' /\ CachesTrue' /\ ShownTrue'
<1> USE DEF NamesInv
<1>1. UNCHANGED <<tags, named, answered, loaded, digestOf, served, shown>>
  BY DEF Refresh, worldVars, probeVars
<1>2. TagsNamed' /\ ShownTrue'
  BY <1>1 DEF TagsNamed, ShownTrue
<1>3. DOMAIN near' = Rows /\ \A r \in Rows : near'[r] \in {near[r], NoEntry}
  BY DEF Refresh
<1>4. Good(index')
  BY GoodManifests DEF Refresh
<1>5. CachesTrue'
  BY <1>1, <1>3, <1>4 DEF CachesTrue, Good
<1>6. QED
  BY <1>2, <1>5

\* A tag that moves adds a name.
LEMMA PulledNames == ASSUME NamesInv, Pulled PROVE TagsNamed' /\ CachesTrue' /\ ShownTrue'
<1> USE DEF NamesInv
<1>1. UNCHANGED <<answered, index, near, loaded, digestOf, served, shown>>
  BY DEF Pulled, resolverVars, probeVars
<1>2. /\ tags' \in [Models -> Digests]
      /\ named' = [d \in Digests |-> named[d] \cup {m \in Models : tags'[m] = d}]
  BY DEF Pulled, TagsNamed
<1>3. TagsNamed'
  BY <1>2 DEF TagsNamed
<1>4. DOMAIN named' = Digests /\ \A d \in Digests : named[d] \subseteq named'[d]
  BY <1>2
<1>5. \A map : Good(map) => Good(map)'
  BY <1>4 DEF Good
<1>6. CachesTrue'
  BY <1>1, <1>4, <1>5 DEF CachesTrue
<1>7. ShownTrue'
  BY <1>1, <1>4 DEF ShownTrue
<1>8. QED
  BY <1>3, <1>6, <1>7

\* What Ollama has loaded goes by the digest it showed.
LEMMA OllamaNames ==
    ASSUME NamesInv, NEW b \in Bases, OllamaAnswers(b)
    PROVE  TagsNamed' /\ CachesTrue' /\ ShownTrue'
<1> USE DEF NamesInv
<1>1. UNCHANGED <<tags, named, answered, index, near, served, shown>>
  BY DEF OllamaAnswers, worldVars, resolverVars
<1>2. TagsNamed' /\ ShownTrue'
  BY <1>1 DEF TagsNamed, ShownTrue
<1>3. PICK missed \in SUBSET {m \in servers[b].models : digestOf[m] = "unasked"} :
        digestOf' = [m \in Models |->
                       IF m \notin servers[b].models \/ digestOf[m] # "unasked" THEN digestOf[m]
                       ELSE IF m \in missed THEN "none" ELSE tags[m]]
  BY DEF OllamaAnswers
<1>4. \A m \in Models : \/ digestOf'[m] \in {"none", "unasked"}
                        \/ digestOf'[m] \in Digests /\ m \in named[digestOf'[m]]
  BY <1>3 DEF CachesTrue, TagsNamed
<1>5. \A m \in servers[b].models : m \in Models /\ digestOf'[m] # "unasked"
  BY <1>3, LlmConstantsOK DEF ServersOK, TagsNamed, LlmConstantsOK
<1> DEFINE known == {m \in servers[b].models : digestOf'[m] # "none"}
           map == [d \in {digestOf'[m] : m \in known} |-> CHOOSE m \in known : digestOf'[m] = d]
<1>6. Good(map)
  <2> SUFFICES ASSUME NEW d \in {digestOf'[m] : m \in known}
               PROVE  d \in Digests /\ map[d] \in named[d]
    BY DEF Good
  <2>1. map[d] = CHOOSE m \in known : digestOf'[m] = d
    OBVIOUS
  <2>2. map[d] \in known /\ digestOf'[map[d]] = d
    BY <2>1
  <2> HIDE DEF map
  <2>3. QED
    BY <1>4, <1>5, <2>2
<1>7. loaded' = [loaded EXCEPT ![b] = map]
  BY DEF OllamaAnswers
<1> HIDE DEF map
<1>8. DOMAIN loaded' = Bases /\ \A c \in Bases : Good(loaded'[c])
  BY <1>6, <1>7 DEF CachesTrue
<1>9. DOMAIN digestOf' = Models
  BY <1>3
<1>10. CachesTrue'
  BY <1>1, <1>4, <1>8, <1>9 DEF CachesTrue, Good
<1>11. QED
  BY <1>2, <1>10

LEMMA ServedNames ==
    ASSUME NamesInv, NEW b \in Bases, ServedAnswers(b) \/ PollFails(b)
    PROVE  TagsNamed' /\ CachesTrue' /\ ShownTrue'
<1> USE DEF NamesInv
<1>1. UNCHANGED <<tags, named, index, near, digestOf, shown>>
  BY DEF ServedAnswers, PollFails, worldVars, resolverVars
<1>2. TagsNamed'
  BY <1>1 DEF TagsNamed
<1>3. /\ DOMAIN loaded' = Bases
      /\ \A c \in Bases : loaded'[c] \in {loaded[c], Empty}
  BY DEF ServedAnswers, PollFails, CachesTrue
<1>4. DOMAIN answered' = Bases /\ \A c \in Bases : answered[c] \subseteq answered'[c]
  BY DEF ServedAnswers, PollFails, CachesTrue
<1>5. /\ DOMAIN served' = Bases
      /\ \A c \in Bases : served'[c] # "none" => served'[c] \in answered'[c]
  <2>1. CASE ServedAnswers(b)
    <3>1. PICK m : served' = [served EXCEPT ![b] = m] /\ answered' = [answered EXCEPT ![b] = @ \cup {m}]
      BY <2>1 DEF ServedAnswers
    <3>2. QED
      BY <3>1 DEF CachesTrue
  <2>2. CASE PollFails(b)
    <3>1. UNCHANGED answered /\ served' \in {served, [served EXCEPT ![b] = "none"]}
      BY <2>2 DEF PollFails
    <3>2. QED
      BY <3>1 DEF CachesTrue
  <2>3. QED
    BY <2>1, <2>2
<1>6. Good(Empty)
  BY GoodManifests
<1>7. CachesTrue'
  BY <1>1, <1>3, <1>4, <1>5, <1>6 DEF CachesTrue, Good
<1>8. ShownTrue'
  BY <1>1, <1>4 DEF ShownTrue
<1>9. QED
  BY <1>2, <1>7, <1>8

LEMMA ConfigNames ==
    ASSUME NamesInv, NEW h \in Hubs, NEW config \in Configs, HubConfig(h, config)
    PROVE  TagsNamed' /\ CachesTrue' /\ ShownTrue' /\ ServersOK'
           /\ hubConfigs' \in [Hubs -> Configs] /\ extra' \subseteq Endpoints
<1> USE DEF NamesInv
<1>1. UNCHANGED <<tags, servers, named, answered, near, loaded, digestOf, served, shown>>
  BY DEF HubConfig, worldVars, probeVars
<1>2. TagsNamed' /\ ShownTrue' /\ ServersOK'
  BY <1>1 DEF TagsNamed, ShownTrue, ServersOK
<1>3. Good(index')
  <2>1. index' = index \/ index' = IndexOf(Discovered(hubDir'))
    BY DEF HubConfig
  <2>2. QED
    BY <2>1, GoodManifests DEF CachesTrue
<1>4. CachesTrue'
  BY <1>1, <1>3 DEF CachesTrue, Good
<1>5. hubConfigs' \in [Hubs -> Configs]
  BY DEF HubConfig, SettingsOK
<1>6. extra' \subseteq Endpoints
  BY <1>5, ConfigEndpoints DEF HubConfig
<1>7. QED
  BY <1>2, <1>4, <1>5, <1>6

\* Steps that leave the names and what is behind them alone.
LEMMA SameNames ==
    ASSUME NamesInv, UNCHANGED <<tags, named, answered, index, near, loaded, digestOf, served, shown>>
    PROVE  TagsNamed' /\ CachesTrue' /\ ShownTrue'
BY DEF NamesInv, TagsNamed, CachesTrue, Good, ShownTrue

----------------------------------------------------------------------------
settingsVars == <<rules, rulesForm, rulesSaving, stored, form, saving, selected, reading, wire,
                  hubConfigs, extra>>

LEMMA SameSettings == ASSUME SettingsOK, UNCHANGED settingsVars PROVE SettingsOK'
BY DEF SettingsOK, settingsVars

LEMMA AgentStep ==
    ASSUME NamesInv, NamesNext, UNCHANGED <<hubVars, pageVars>>
    PROVE  NamesInv'
<1>1. UNCHANGED <<servers, settingsVars>>
  BY DEF NamesNext, NamesTick, TimePasses, Refresh, ProcessChanges, Pulled, OllamaAnswers, ServedAnswers,
         PollFails, hubVars, pageVars, configVars, worldVars, settingsVars
<1>2. TagsNamed' /\ CachesTrue' /\ ShownTrue'
  <2>1. CASE TimePasses \/ ProcessChanges
    BY <2>1, SameNames DEF TimePasses, ProcessChanges, worldVars, resolverVars, probeVars
  <2>2. QED
    BY <2>1, TickNames, RefreshNames, PulledNames, OllamaNames, ServedNames DEF NamesNext
<1>3. ServersOK' /\ SettingsOK'
  BY <1>1, SameSettings DEF NamesInv, ServersOK
<1>4. QED
  BY <1>2, <1>3 DEF NamesInv

LEMMA FrameStep == ASSUME NamesInv, FrameArrives \/ OtherHubSends PROVE NamesInv'
<1> USE DEF NamesInv
<1>1. CASE FrameArrives
  <2>1. Head(wire) \in Frames /\ Tail(wire) \in Seq(Frames)
    BY <1>1 DEF FrameArrives, SettingsOK
  <2>2. HubConfig(1, Head(wire)) /\ Head(wire) \in Configs /\ 1 \in Hubs
    BY <1>1, <2>1, SettingsConstantsOK DEF FrameArrives, Configs, SettingsConstantsOK
  <2>3. TagsNamed' /\ CachesTrue' /\ ShownTrue' /\ ServersOK'
        /\ hubConfigs' \in [Hubs -> Configs] /\ extra' \subseteq Endpoints
    BY <2>2, ConfigNames
  <2>4. SettingsOK'
    BY <1>1, <2>1, <2>3 DEF FrameArrives, SettingsOK, pageVars
  <2>5. QED
    BY <2>3, <2>4
<1>2. CASE OtherHubSends
  <2>1. PICK h \in Hubs \ {1} : HubConfig(h, OtherConfig)
    BY <1>2 DEF OtherHubSends
  <2>2. TagsNamed' /\ CachesTrue' /\ ShownTrue' /\ ServersOK'
        /\ hubConfigs' \in [Hubs -> Configs] /\ extra' \subseteq Endpoints
    BY <2>1, ConfigNames DEF Configs
  <2>3. SettingsOK'
    BY <1>2, <2>2 DEF OtherHubSends, SettingsOK, pageVars, hubVars
  <2>4. QED
    BY <2>2, <2>3
<1>3. QED
  BY <1>1, <1>2

LEMMA HubPuts ==
    ASSUME SettingsOK
    PROVE  /\ \A list \in Lists : PutRules(list) =>
                rules' \in Lists /\ stored' \in [HostIds -> Forms] /\ wire' \in Seq(Frames)
           /\ \A id \in HostIds, f \in Forms : PutHost(id, f) =>
                rules' \in Lists /\ stored' \in [HostIds -> Forms] /\ wire' \in Seq(Frames)
<1>1. ASSUME NEW list \in Lists, PutRules(list)
      PROVE  rules' \in Lists /\ stored' \in [HostIds -> Forms] /\ wire' \in Seq(Frames)
  BY <1>1, PushedOK DEF PutRules, SettingsOK, hubVars
<1>2. ASSUME NEW id \in HostIds, NEW f \in Forms, PutHost(id, f)
      PROVE  rules' \in Lists /\ stored' \in [HostIds -> Forms] /\ wire' \in Seq(Frames)
  <2>1. [stored EXCEPT ![id] = f] \in [HostIds -> Forms]
    BY DEF SettingsOK
  <2>2. QED
    BY <1>2, <2>1, PushedOK DEF PutHost, SettingsOK, hubVars
<1>3. QED
  BY <1>1, <1>2

LEMMA PageStep ==
    ASSUME NamesInv,
           \/ Links \/ Unlinks \/ RulesReadAnswers \/ EditRules \/ SaveRules \/ RulesSaved
           \/ SelectHost \/ HostReadAnswers \/ EditHost \/ SaveHost \/ HostSaved
    PROVE  NamesInv'
<1> USE DEF NamesInv
<1>1. UNCHANGED llmVars
  BY DEF Links, Unlinks, RulesReadAnswers, EditRules, SaveRules, RulesSaved, SelectHost,
         HostReadAnswers, EditHost, SaveHost, HostSaved
<1>2. TagsNamed' /\ CachesTrue' /\ ShownTrue' /\ ServersOK'
  BY <1>1, SameNames DEF llmVars, worldVars, resolverVars, probeVars, ServersOK
<1>3. hubConfigs' = hubConfigs /\ extra' = extra
  BY <1>1 DEF llmVars, configVars
<1>4. CASE Links
  <2>1. Frame(rules, stored) \in Frames
    BY Frame1 DEF SettingsOK
  <2>2. <<Frame(rules, stored)>> \in Seq(Frames)
    BY <2>1
  <2>3. QED
    BY <1>2, <1>3, <1>4, <2>2 DEF Links, SettingsOK, pageVars
<1>5. CASE Unlinks
  BY <1>2, <1>3, <1>5 DEF Unlinks, SettingsOK, pageVars
<1>6. CASE RulesReadAnswers \/ EditRules \/ RulesSaved
  BY <1>2, <1>3, <1>6 DEF RulesReadAnswers, EditRules, RulesSaved, SettingsOK, hubVars, Lists
<1>7. CASE SaveRules
  <2>1. rules' \in Lists /\ stored' \in [HostIds -> Forms] /\ wire' \in Seq(Frames)
    BY <1>7, HubPuts DEF SaveRules, SettingsOK
  <2>2. rulesSaving'[1] = rules'
    BY <1>7 DEF SaveRules
  <2>3. QED
    BY <1>2, <1>3, <1>7, <2>1, <2>2 DEF SaveRules, SettingsOK
<1>8. CASE SelectHost \/ HostReadAnswers \/ EditHost \/ HostSaved
  <2>1. /\ form' \in Forms /\ (saving' # No => saving'[1] \in Forms)
        /\ selected' \in HostIds \cup {"none"} /\ reading' \subseteq HostIds
    BY <1>8 DEF SelectHost, HostReadAnswers, EditHost, HostSaved, SettingsOK, Forms
  <2>2. UNCHANGED <<hubVars, rulesForm, rulesSaving>>
    BY <1>8 DEF SelectHost, HostReadAnswers, EditHost, HostSaved
  <2>3. QED
    BY <1>2, <1>3, <2>1, <2>2 DEF SettingsOK, hubVars
<1>9. CASE SaveHost
  <2>1. rules' \in Lists /\ stored' \in [HostIds -> Forms] /\ wire' \in Seq(Frames)
    BY <1>9, HubPuts DEF SaveHost, SettingsOK
  <2>2. saving'[1] = form /\ UNCHANGED <<rulesForm, rulesSaving, form, selected, reading>>
    BY <1>9 DEF SaveHost
  <2>3. QED
    BY <1>2, <1>3, <2>1, <2>2 DEF SettingsOK
<1>10. QED
  BY <1>4, <1>5, <1>6, <1>7, <1>8, <1>9

LEMMA ServersStep == ASSUME NamesInv, ServersChange PROVE NamesInv'
<1>1. UNCHANGED <<tags, named, answered, index, near, loaded, digestOf, served, shown, settingsVars>>
  BY DEF ServersChange, ServerChanges, configVars, resolverVars, probeVars, hubVars, pageVars, settingsVars
<1>2. ServersOK'
  BY SettingsConstantsOK DEF NamesInv, ServersOK, ServersChange, ServerChanges, SettingsConstantsOK
<1>3. QED
  BY <1>1, <1>2, SameNames, SameSettings DEF NamesInv

LEMMA NamesStepInv == NamesInv /\ [Next]_vars => NamesInv'
<1> SUFFICES ASSUME NamesInv, [Next]_vars PROVE NamesInv'
  OBVIOUS
<1>1. CASE UNCHANGED vars
  <2>1. UNCHANGED <<tags, named, answered, index, near, loaded, digestOf, served, shown, servers, settingsVars>>
    BY <1>1 DEF vars, llmVars, worldVars, configVars, resolverVars, probeVars, hubVars, pageVars, settingsVars
  <2>2. QED
    BY <2>1, SameNames, SameSettings DEF NamesInv, ServersOK
<1>2. CASE Next
  BY <1>2, AgentStep, FrameStep, PageStep, ServersStep DEF Next
<1>3. QED
  BY <1>1, <1>2

\* Whatever the operator configures, tags that move, servers that come and go,
\* polls that fail: a name shown for a blob was once the name of that blob, and
\* one taken from a server was served on the port of the process or by a
\* configured server.
THEOREM NamesTrueHolds == SettingsSpec => []NamesTrue
<1>1. NamesInv => NamesTrue
  BY DEF NamesInv, ShownTrue, NamesTrue
<1>2. QED
  BY <1>1, NamesInitInv, NamesStepInv, PTL DEF SettingsSpec
=============================================================================
