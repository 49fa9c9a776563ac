---------------------------- MODULE MCAgentRuntime ----------------------------
(* The hosts and the environments the agent is checked on.                   *)
EXTENDS AgentRuntime

Machine(os, cardsOf, tools, mode) ==
    [os |-> os,
     nvidia |-> cardsOf \cap {"n1", "n2"}, amd |-> cardsOf \cap {"a1", "a2"}, intel |-> cardsOf \cap {"i1"},
     sensors |-> {"utilization", "memory_total", "machine_fan"}, loopMode |-> mode,
     nvidiaSmi |-> "nvidia-smi" \in tools, rocmSmi |-> "rocm-smi" \in tools,
     kfd |-> "kfd" \in tools, sudo |-> "sudo" \in tools]

Env(name, backend, features) ==
    [vendor |-> name, backend |-> backend, mock |-> FALSE, features |-> features,
     url |-> "wss", id |-> "h", token |-> "t", urls |-> <<>>, ids |-> <<>>, tokens |-> <<>>]

TwoHubs(e, ids) ==
    [e EXCEPT !.url = "", !.urls = <<"wss", "", "ws">>, !.ids = ids, !.tokens = <<"t", "t">>]

On(host, e, driver) == [machine |-> host, env |-> e, bound |-> driver]

Nvidia(mode) == Machine("linux", {"n1", "n2"}, {"nvidia-smi"}, mode)
Radeon(tools) == Machine("linux", {"a1", "a2"}, tools, "works")
Arc == Machine("linux", {"i1"}, {}, "works")
Windows(cardsOf, tools) == Machine("win32", cardsOf, tools, "works")
Mac == Machine("darwin", {}, {"sudo"}, "works")

HubScenarios ==
    {On(Arc, TwoHubs(Env("auto", "other", {"gpu"}), ids), TRUE) : ids \in {<<"h", "k">>, <<"h">>}}
        \cup {On(Arc, [Env("auto", "auto", {"gpu"}) EXCEPT !.mock = TRUE, !.token = t], TRUE) : t \in {"t", ""}}

SampleScenarios ==
    {On(Nvidia(mode), Env("auto", "auto", {"gpu"}), TRUE) : mode \in {"works", "exits", "silent"}}
        \cup {On(Radeon(tools), Env(v, b, {"gpu"}), FALSE) :
                  tools \in {{}, {"rocm-smi"}}, v \in {"auto", "amd"}, b \in {"auto", "sysfs", "rocm-smi"}}
        \cup {On(Arc, Env(v, "auto", {"gpu"}), d) : v \in {"other", "intel"}, d \in BOOLEAN}
        \cup {On(Mac, Env("auto", "auto", {"unset"}), TRUE)}
        \cup {On(Windows({"n1"}, {}), Env("intel", "auto", {"system"}), TRUE)}

ListScenarios ==
    {On(Radeon(tools), Env("auto", "auto", {"processes"}), TRUE) : tools \in {{"kfd"}, {"rocm-smi"}, {}}}
        \cup {On(Arc, Env("auto", "auto", {"processes"}), TRUE),
              On(Nvidia("works"), Env("auto", "auto", {"processes"}), TRUE),
              On(Windows({"n1"}, {"nvidia-smi"}), Env("auto", "auto", {"processes"}), TRUE)}

(* Samples and processes at once; the last machine has two families.        *)
Hybrid == Machine("linux", {"a1", "i1"}, {"kfd"}, "works")

BothScenarios ==
    {On(Windows({"n1"}, tools), Env("auto", "auto", {"gpu"}), TRUE) : tools \in {{}, {"nvidia-smi"}}}
        \cup {On(Machine("linux", {"a2"}, {"rocm-smi"}, "works"), Env("auto", "rocm-smi", {"gpu", "processes"}), FALSE)}
        \cup {On(Hybrid, Env(v, "auto", {"gpu", "processes"}), TRUE) : v \in {"auto", "intel"}}

MCScenarios == HubScenarios \cup SampleScenarios \cup ListScenarios \cup BothScenarios

Kind(used, kfd, readable, kernel) == [cards |-> used, kfd |-> kfd, readable |-> readable, kernel |-> kernel]
MCProcessKinds ==
    {Kind({}, FALSE, FALSE, FALSE), Kind({}, FALSE, TRUE, TRUE)}
        \cup {Kind({c}, FALSE, TRUE, FALSE) : c \in {"n1", "a1", "i1"}}
        \cup {Kind({"a2"}, TRUE, FALSE, FALSE), Kind({"a1", "i1"}, TRUE, TRUE, FALSE)}
=============================================================================
