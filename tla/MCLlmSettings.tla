---------------------------- MODULE MCLlmSettings ----------------------------
(* One host with an Ollama runner and a llama.cpp server, two hubs.          *)
EXTENDS LlmSettings

Command(exe, file, digest, alias, port, container, readable) ==
    [exe |-> exe, file |-> file, digest |-> digest, alias |-> alias, port |-> port,
     container |-> container, near |-> readable]

MCCommands ==
    <<Command("ollama", "blob", "d1", FALSE, 0, FALSE, TRUE),
      Command("llamacpp", "none", "d0", FALSE, 8080, TRUE, FALSE)>>

Server == [url |-> "server", port |-> 8080]
Down == [kind |-> "down", models |-> {}]
Ollama == [kind |-> "ollama", models |-> {"m1", "m2"}]
Llamacpp == [kind |-> "served", models |-> {"m2"}]

MCEndpoints == {Server}
MCDirs == [d \in {"default", "/store", "/empty"} |->
             CASE d = "default" -> "missing" [] d = "/store" -> "store" [] OTHER -> "empty"]
MCFirstServers ==
    {[b \in Bases |-> CASE b = OllamaDefault -> o [] b = Server -> Llamacpp [] OTHER -> Down] : o \in {Ollama}}
MCFirstTags == {[m \in {"m1", "m2"} |-> IF m = "m1" THEN "d1" ELSE "d2"]}
MCServerStates == {Down}
Rule == [match |-> "llamacpp", runtime |-> "vllm", flag |-> TRUE, model |-> "none"]
MCRuleLists == {<<>>, <<Rule>>, <<[Rule EXCEPT !.match = ""]>>}
MCHostForms ==
    {[endpoints |-> {Server}, dir |-> "/store", valid |-> TRUE],
     [endpoints |-> {Server}, dir |-> "/empty", valid |-> TRUE],
     [endpoints |-> {}, dir |-> "/empty", valid |-> FALSE]}
MCOtherConfig == [rules |-> <<>>, endpoints |-> {Server}, dir |-> "/empty"]
=============================================================================
