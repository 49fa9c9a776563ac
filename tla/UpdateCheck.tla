------------------------------ MODULE UpdateCheck ------------------------------
(***************************************************************************)
(* The hub's check for a newer release of itself, and the banner a tab     *)
(* makes of it.  Sources: server/services/updateService.ts,                *)
(* server/routes/updates.ts, server/services/readOnlyData.ts (overview),   *)
(* src/store/updateStore.ts, components/ui/UpdateBanner.tsx and            *)
(* components/settings/UpdateSettings.tsx.                                 *)
(*                                                                         *)
(* Releases are ordered numbers, 0 for none.  GitHub's tags and the image  *)
(* registry are the two numbers newest and built; a check asks them one    *)
(* after the other, and any question may fail.                             *)
(***************************************************************************)
EXTENDS Naturals

CONSTANTS
  MaxRelease,     \* bound: releases are 1 .. MaxRelease
  Hours,          \* frequencyHours may be 1 .. Hours, in ticks (clamped)
  AheadTtl,       \* AHEAD_OF_TAG_TTL_MS, in ticks
  Nil,            \* nothing cached, nothing seen, no answer
  MaxTurns        \* bound: releases, restarts, failures, what users do

ASSUME CheckConstantsOK ==
  /\ MaxRelease \in Nat /\ Hours \in Nat \ {0} /\ AheadTtl \in Nat /\ MaxTurns \in Nat

Releases == 0 .. MaxRelease

VARIABLES
  newest, built,    \* the highest tag; its image has been built
  running,          \* the version of the hub
  checking,         \* config.enabled
  every,            \* config.frequencyHours
  cache,            \* update_check_cache: Nil, or a result with its age
  background,       \* backgroundCheckRunning
  asks,             \* checks under way
  page,             \* what a tab shows: "banner", "settings" or "other"
  tab,              \* updateStore.result of the tab
  dismissed,        \* the release its user has dismissed, Nil when none
  banner,           \* bannerEnabled
  turns

world == <<newest, built>>
checkCfg == <<checking, every>>
tabVars == <<page, tab, dismissed, banner>>
tabPrefs == <<page, dismissed, banner>>
checkVars == <<world, running, checkCfg, cache, background, asks, tabVars, turns>>

Turn == turns < MaxTurns /\ turns' = turns + 1

Result(latest, ready) ==
  [latest |-> latest, ready |-> ready, current |-> running,
   available |-> latest # Nil /\ latest > running]

\* failResult and emptyResult; and the answer while checking is off.
NoAnswer == Result(Nil, FALSE)

------------------------------------------------------------------------------
(* updateService                                                            *)

\* A result that says the build is newer than the newest tag is kept briefly.
Ttl(r) == IF r.latest # Nil /\ running > r.latest /\ AheadTtl < every THEN AheadTtl ELSE every

NotStale_Always(c) == TRUE

NotStale(c) == c.age < Ttl(c.result)

Cached == cache # Nil /\ NotStale(cache)

Views == {"banner", "settings"}

Asks(by) == asks' = asks \union {[by |-> by, latest |-> Nil, stage |-> "tags", age |-> 0]}

\* check(force) for a tab: GET /updates/check.
TabChecks(by, force) ==
  \/ ~checking /\ tab' = NoAnswer /\ UNCHANGED asks
  \/ checking /\ ~force /\ Cached /\ tab' = cache.result /\ UNCHANGED asks
  \/ checking /\ (force \/ ~Cached) /\ Asks(by) /\ UNCHANGED tab

\* refreshInBackground, whenever the public API or the MCP server is asked
\* for the overview: no-op while a check of its own runs or the cache is fresh.
OverviewRead ==
  /\ checking /\ ~background /\ ~Cached
  /\ Asks("overview")
  /\ background' = TRUE
  /\ UNCHANGED <<world, running, checkCfg, cache, tabVars, turns>>

\* What the answer to a check does: stored for all, and told to the tab.
Answers(a, result) ==
  /\ asks' = asks \ {a}
  /\ cache' = [result |-> result, age |-> a.age]
  /\ tab' = IF a.by \in Views THEN result ELSE tab
  /\ background' = (background /\ a.by # "overview")
  /\ UNCHANGED <<world, running, checkCfg, tabPrefs>>

\* fetchLatestTag: the highest tag, or none published yet.
TagsFetched(a) ==
  /\ a.stage = "tags"
  /\ IF newest = 0
       THEN Answers(a, NoAnswer)
       ELSE /\ asks' = (asks \ {a}) \union {[a EXCEPT !.stage = "image", !.latest = newest]}
            /\ UNCHANGED <<world, running, checkCfg, cache, background, tabVars>>
  /\ UNCHANGED turns

TagsFail(a) == a.stage = "tags" /\ Turn /\ Answers(a, NoAnswer)

\* dockerImageAvailable is asked only when there is an update.
ImageOf(v) == v < newest \/ built

ImageChecked(a) ==
  /\ a.stage = "image"
  /\ Answers(a, Result(a.latest, a.latest > running => ImageOf(a.latest)))
  /\ UNCHANGED turns

ImageFails(a) ==
  /\ a.stage = "image" /\ a.latest > running
  /\ Turn
  /\ Answers(a, Result(a.latest, FALSE))

Clamp(n) == IF n < 1 THEN 1 ELSE IF n > Hours THEN Hours ELSE n

\* setConfig: the cache goes with the old settings.
SetConfig(on, hours) ==
  /\ Turn
  /\ checking' = on /\ every' = Clamp(hours)
  /\ cache' = Nil
  /\ UNCHANGED <<world, running, background, asks, tabVars>>

\* init(): another version drops what the one before had stored.
CheckedBoot(v) == IF cache # Nil /\ cache.result.current # v THEN Nil ELSE cache

HubRuns(v) ==
  /\ Turn
  /\ running' = v
  /\ cache' = CheckedBoot(v)
  /\ background' = FALSE /\ asks' = {}
  /\ UNCHANGED <<world, checkCfg, tabVars>>

------------------------------------------------------------------------------
(* The tab                                                                  *)

\* The banner, on the dashboard, and the settings page check once, when they are
\* mounted; there is no timer.  (The about page checks like the banner, where the
\* tab has no result yet.)  Their answers may cross; a view is mounted again once
\* its last question was answered (bound).
TabLoads(view) ==
  /\ page # view /\ page' = view
  /\ \A a \in asks : a.by # view
  /\ TabChecks(view, FALSE)
  /\ IF view = "settings" THEN Turn ELSE UNCHANGED turns
  /\ UNCHANGED <<world, running, checkCfg, cache, background, dismissed, banner>>

TabLeaves ==
  /\ page # "other" /\ page' = "other"
  /\ UNCHANGED <<world, running, checkCfg, cache, background, asks, tab, dismissed, banner, turns>>

Banner ==
  /\ page = "banner" /\ banner
  /\ tab # Nil /\ tab.available /\ tab.ready
  /\ dismissed # tab.latest

\* "Check now", on the settings page and in the details of the banner; disabled
\* while the tab waits for an answer.
CheckNow ==
  /\ page = "settings" \/ Banner
  /\ Turn
  /\ \A a \in asks : a.by \notin Views
  /\ TabChecks(page, TRUE)
  /\ UNCHANGED <<world, running, checkCfg, cache, background, tabPrefs>>

Dismiss ==
  /\ Banner /\ Turn
  /\ dismissed' = tab.latest
  /\ UNCHANGED <<world, running, checkCfg, cache, background, asks, page, tab, banner>>

SetBannerEnabled ==
  /\ Turn
  /\ page = "settings"
  /\ banner' = ~banner
  /\ UNCHANGED <<world, running, checkCfg, cache, background, asks, page, tab, dismissed>>

------------------------------------------------------------------------------
(* Time, GitHub, the registry                                               *)

TagPushed ==
  /\ newest < MaxRelease /\ Turn
  /\ newest' = newest + 1
  /\ built' \in BOOLEAN
  /\ UNCHANGED <<running, checkCfg, cache, background, asks, tabVars>>

ImageBuilt ==
  /\ ~built /\ Turn
  /\ built' = TRUE
  /\ UNCHANGED <<newest, running, checkCfg, cache, background, asks, tabVars>>

Aged(n) == IF n < Hours THEN n + 1 ELSE n

HourPasses ==
  /\ cache' = IF cache = Nil THEN Nil ELSE [cache EXCEPT !.age = Aged(@)]
  /\ asks' = {[a EXCEPT !.age = Aged(@)] : a \in asks}
  /\ UNCHANGED <<world, running, checkCfg, background, tabVars, turns>>

CheckInit ==
  /\ newest \in Releases /\ built = TRUE
  /\ running \in Releases \ {0}
  /\ checking = TRUE /\ every = Hours
  /\ cache = Nil /\ background = FALSE /\ asks = {}
  /\ page = "other" /\ tab = Nil /\ dismissed = Nil /\ banner = TRUE
  /\ turns = 0

CheckNext ==
  \/ OverviewRead
  \/ \E a \in asks : TagsFetched(a) \/ TagsFail(a) \/ ImageChecked(a) \/ ImageFails(a)
  \/ \E on \in BOOLEAN, hours \in 0 .. Hours + 1 : SetConfig(on, hours)
  \/ \E v \in Releases \ {0} : HubRuns(v)
  \/ \E view \in Views : TabLoads(view)
  \/ TabLeaves \/ CheckNow
  \/ Dismiss \/ SetBannerEnabled
  \/ TagPushed \/ ImageBuilt \/ HourPasses

\* Clocks run and questions are answered.  Nothing opens a page but its user.
CheckFairness ==
  /\ WF_checkVars(HourPasses)
  /\ \A by \in Views \union {"overview"} :
       WF_checkVars(\E a \in asks : a.by = by /\ (TagsFetched(a) \/ ImageChecked(a)))

------------------------------------------------------------------------------
(* Property                                                                 *)

\* While checks stay on, a tab whose dashboard is opened again and again ends up
\* with the truth about the release and its image, whatever failed, was cached,
\* or was overtaken on the way.  (A dashboard left open is told what its mount
\* was told, and no more: UpdateBanner.tsx asks once.)
LearnedAtLast ==
  <>[]checking /\ []<>(page = "banner") /\ []<>(page # "banner") =>
    <>[](tab # Nil /\ (newest > 0 => tab = Result(newest, newest > running => built)))
==============================================================================
