--------------------------- MODULE HostGpuFilter ---------------------------
(***************************************************************************)
(* Which hosts and cards an exporter sends (HostGpuFilter): how the hub     *)
(* reads a filter (applyHostFilter, server/services/exportService.ts) and   *)
(* how the settings page edits one (HostFilterDisclosure,                   *)
(* src/components/settings/ExportsSettings.tsx).                            *)
(*                                                                         *)
(* A filter maps hosts to AllGpus (null in the code) or to a set of card    *)
(* indices; a host without an entry is left out, and the empty filter lets  *)
(* everything pass.                                                        *)
(***************************************************************************)
EXTENDS Naturals, FiniteSets

CONSTANTS Hosts, Gpus, AllGpus

ASSUME FilterConstantsOK == IsFiniteSet(Gpus) /\ \A S \in SUBSET Gpus : AllGpus # S

NoFilter == [h \in {} |-> AllGpus]

Filters == UNION {[H -> ((SUBSET Gpus) \ {{}}) \cup {AllGpus}] : H \in SUBSET Hosts}

Cut(f, h) == [x \in DOMAIN f \ {h} |-> f[x]]
Put(f, h, v) == [x \in DOMAIN f \cup {h} |-> IF x = h THEN v ELSE f[x]]

----------------------------------------------------------------------------
(* The hub. Samples map the hosts heard to the indices of their cards.      *)

(* A host with a list of cards is left out when none of them is there.      *)
ApplyHostFilter(samples, f) ==
    IF f = NoFilter THEN samples
    ELSE [h \in {x \in DOMAIN samples \cap DOMAIN f :
                    f[x] = AllGpus \/ samples[x] \cap f[x] # {}} |->
            IF f[h] = AllGpus THEN samples[h] ELSE samples[h] \cap f[h]]

CardsOf(samples) ==
    {c \in Hosts \X Gpus : c[1] \in DOMAIN samples /\ c[2] \in samples[c[1]]}

----------------------------------------------------------------------------
(* The page. live maps the hosts it lists to the cards it has seen.         *)

(* The boxes that are ticked: a host's, and those of its cards.             *)
HostOn(f, h) == f = NoFilter \/ h \in DOMAIN f
GpuOn(f, h, g) == HostOn(f, h) /\ (f = NoFilter \/ f[h] = AllGpus \/ g \in f[h])

Ticked(f, live) == {c \in CardsOf(live) : GpuOn(f, c[1], c[2])}

(* buildBaseline: an empty filter is written out before it is edited.       *)
Baseline(f) == IF f = NoFilter THEN [h \in Hosts |-> AllGpus] ELSE f

(* commit: every host with all its cards is the empty filter again.         *)
Commit(f) ==
    IF Hosts # {} /\ \A h \in Hosts : h \in DOMAIN f /\ f[h] = AllGpus THEN NoFilter ELSE f

ToggleHost(f, h) ==
    Commit(IF HostOn(f, h) THEN Cut(Baseline(f), h) ELSE Put(Baseline(f), h, AllGpus))

(* A host left without a card loses its entry; one with as many cards as    *)
(* the page has seen is written as AllGpus.                                 *)
ToggleGpu(f, live, h, g) ==
    LET base == Baseline(f)
        had == IF base[h] = AllGpus THEN live[h] ELSE base[h]
        chosen == IF GpuOn(f, h, g) THEN had \ {g} ELSE had \cup {g}
    IN Commit(IF chosen = {} THEN Cut(base, h)
              ELSE [base EXCEPT ![h] =
                      IF live[h] # {} /\ Cardinality(chosen) = Cardinality(live[h])
                      THEN AllGpus ELSE chosen])

(* Every filter one tick away.                                              *)
FilterEdits(f, live) ==
    {ToggleHost(f, h) : h \in Hosts}
      \cup {ToggleGpu(f, live, c[1], c[2]) : c \in {x \in CardsOf(live) : HostOn(f, x[1])}}
=============================================================================
