------------------------------- MODULE Dashboard -------------------------------
(***************************************************************************)
(* The dashboard handlers (internal/httpapi/dashboard.go) over the         *)
(* catalogue queries, and the match list (matches.go), which filters the   *)
(* same way.  A page is put together from several reads: the patch version *)
(* of the URL is looked up, the lineups in view are counted, the rows of   *)
(* the tab are queried, then the networth table, then the patch list of    *)
(* the filter.  Every query is a batch or a SELECT of its own, so other    *)
(* requests write matches and patches between any two of them.             *)
(***************************************************************************)
EXTENDS Analytics

CONSTANTS
    Readers,        \* dashboard requests in flight at once
    Versions,       \* patch versions
    NoVersion,      \* the version of no row, and the empty query parameter
    Urls            \* the requests of this instance

VARIABLES
    version,        \* patch id -> its version
    at,             \* reader -> where its handler is
    url,            \* reader -> the request it serves
    page,           \* reader -> what the page shows so far
    renamed         \* readers whose patch got another version since it was looked up

dashboard == <<at, url, page>>
dashVars == <<store, version, dashboard, renamed>>

Tabs == {"heroes", "synergies", "items", "relics", "matches"}
AnyState == ""
Url == [tab : Tabs, version : Versions \cup {NoVersion}, source : Sources \cup {AnySource},
        state : {AnyState, "draft", "final"}, hx : BOOLEAN]
NoUrl == [tab |-> "none"]

ASSUME DashboardAssumption ==
    /\ Urls \subseteq Url
    /\ NoVersion \notin Versions
    /\ SeedRows["patches"] = 0

\* `used` is no part of the page: it says whether a match was played on the patch
\* when its version was looked up.
NoPage == [filter |-> [patch |-> AnyPatch, source |-> AnySource], used |-> FALSE,
           count |-> 0, rows |-> << >>, places |-> << >>,
           select |-> [offered |-> {}, shown |-> NoVersion]]

Played(p) == \E m \in DOMAIN matches : matches[m].patch = p

DashInit ==
    /\ Init
    /\ version = [p \in CodexIds("patches") |-> NoVersion]
    /\ at = [w \in Readers |-> "idle"]
    /\ url = [w \in Readers |-> NoUrl]
    /\ page = [w \in Readers |-> NoPage]
    /\ renamed = {}

-----------------------------------------------------------------------------
(* The other requests: matches, lineups and slots as in MatchStore, and    *)
(* the patch rows with their versions.                                     *)

EditBoards ==
    /\ MatchStep \/ LineupStep \/ SlotStep
    /\ UNCHANGED <<version, dashboard, renamed>>

CreatePatch(v) ==
    /\ \A p \in codex["patches"] : version[p] # v
    /\ CreateCodexRow("patches")
    /\ version' = [p \in DOMAIN version |->
                      IF p \in codex'["patches"] \ codex["patches"] THEN v ELSE version[p]]
    /\ UNCHANGED <<dashboard, renamed>>

UpdatePatch(p, v) ==
    /\ p \in codex["patches"]
    /\ \A q \in codex["patches"] : version[q] = v => q = p
    /\ version' = [version EXCEPT ![p] = v]
    /\ renamed' = renamed \cup {w \in Readers : page[w].filter.patch = p /\ version[p] # v}
    /\ UNCHANGED <<store, dashboard>>

\* Faulty variant, for the mutation runs: no foreign key from matches.
DeletePlayedPatch(p) ==
    /\ p \in codex["patches"]
    /\ codex' = [codex EXCEPT !["patches"] = @ \ {p}]
    /\ version' = [version EXCEPT ![p] = NoVersion]
    /\ UNCHANGED <<matches, lineups, slots, slotItems, lineupRelics, dashboard, renamed>>

DeletePatch(p) ==
    /\ DeleteCodexRow("patches", p)
    /\ version' = [version EXCEPT ![p] = NoVersion]
    /\ UNCHANGED <<dashboard, renamed>>

-----------------------------------------------------------------------------
(* Steps of one page.                                                      *)

Move(w, label) == at' = [at EXCEPT ![w] = label]

Ask(w, u) ==
    /\ at[w] = "idle"
    /\ Move(w, "patch")
    /\ url' = [url EXCEPT ![w] = u]
    /\ UNCHANGED <<store, version, page, renamed>>

\* dashFilter: an unknown version, or a failed lookup, filters to nothing.
ResolvePatch(w) ==
    /\ at[w] = "patch"
    /\ LET named == {p \in codex["patches"] : version[p] = url[w].version}
       IN \E p \in named \cup {UnknownPatch, AnyPatch} :
            /\ p = AnyPatch <=> url[w].version = NoVersion
            /\ page' = [page EXCEPT ![w].filter = [patch |-> p, source |-> url[w].source],
                                    ![w].used = Played(p)]
    /\ Move(w, IF url[w].tab = "matches" THEN "rows" ELSE "count")
    /\ UNCHANGED <<store, version, url, renamed>>

\* Faulty variant, for the mutation runs: the count takes in drafts.
CountDraftsToo(w) ==
    /\ at[w] = "count"
    /\ page' = [page EXCEPT ![w].count = Cardinality(AllMatches(page[w].filter))]
    /\ Move(w, "rows")
    /\ UNCHANGED <<store, version, url, renamed>>

\* A failed count is logged and shown as 0.
CountLineups(w) ==
    /\ at[w] = "count"
    /\ \E n \in {0, LineupsInView(page[w].filter)} : page' = [page EXCEPT ![w].count = n]
    /\ Move(w, "rows")
    /\ UNCHANGED <<store, version, url, renamed>>

\* Store.ListMatches: one row per match, its patch and the number of its lineups joined.
ListMatches(f, state) ==
    LET passing == {m \in DOMAIN matches :
                        /\ f.patch \in {AnyPatch, matches[m].patch}
                        /\ f.source \in {AnySource, matches[m].source}
                        /\ state = "draft" => matches[m].finalizedAt = 0
                        /\ state = "final" => matches[m].finalizedAt > 0}
    IN [m \in passing |-> [match |-> matches[m], version |-> version[matches[m].patch],
                           lineups |-> Cardinality(LineupsOf(m))]]

MatchState(m) == IF m.finalizedAt > 0 THEN "final" ELSE "draft"
MatchHref(m) == IF m.finalizedAt > 0 THEN "detail" ELSE "editor"

\* The tables of the pages: what is rendered of each row.
MatchesBody(rows) ==
    [m \in DOMAIN rows |->
        [state |-> MatchState(rows[m].match), href |-> MatchHref(rows[m].match),
         version |-> rows[m].version, source |-> rows[m].match.source,
         pips |-> <<rows[m].lineups, RequiredTotal(rows[m].match.source)>>]]

HeroTable(rows) ==
    [h \in DOMAIN rows |->
        [pick |-> PickRate(rows[h]), top4 |-> Top4Rate(rows[h]), avg |-> rows[h].avgPlace,
         vsField |-> rows[h].vsField, finishes |-> rows[h].finishes]]

SynergyTable(rows) ==
    [yc \in DOMAIN rows |->
        [lineups |-> rows[yc].lineups, lift |-> rows[yc].lift, finishes |-> rows[yc].finishes]]

ItemTable(rows) ==
    [i \in DOMAIN rows |->
        [sample |-> rows[i].slotsWith, lift |-> rows[i].lift, finishes |-> rows[i].finishes]]

RelicTable(rows) ==
    [r \in DOMAIN rows |->
        [sample |-> rows[r].lineups, lift |-> rows[r].lift, finishes |-> rows[r].finishes]]

Table(u, f) ==
    CASE u.tab = "heroes" -> HeroTable(HeroPerformance(f))
      [] u.tab = "synergies" -> SynergyTable(SynergyPerformance(f))
      [] u.tab = "items" -> ItemTable(ItemPerformance(f))
      [] u.tab = "relics" -> RelicTable(RelicPerformance(f))
      [] u.tab = "matches" -> MatchesBody(ListMatches(f, u.state))

QueryRows(w) ==
    /\ at[w] = "rows"
    /\ page' = [page EXCEPT ![w].rows = Table(url[w], page[w].filter)]
    /\ Move(w, IF url[w].tab = "heroes" THEN "places" ELSE "patches")
    /\ UNCHANGED <<store, version, url, renamed>>

\* The networth curve is pinned under the hero rows; without rows there is none.
NetworthTable(w, places) == IF DOMAIN page[w].rows = {} THEN << >> ELSE places

QueryPlaces(w) ==
    /\ at[w] = "places"
    /\ page' = [page EXCEPT ![w].places = NetworthTable(w, NetworthByPlacement(page[w].filter))]
    /\ Move(w, "patches")
    /\ UNCHANGED <<store, version, url, renamed>>

\* The select of the patch, over the patches as they were listed: id -> version.
UnknownVersion == "unknown patch"

Offered(listed) == {listed[p] : p \in DOMAIN listed}

\* The dashboard selects by the version of the URL.
VersionSelect(u, listed) ==
    [offered |-> Offered(listed),
     shown |-> IF u.version \in Offered(listed) \cup {NoVersion}
               THEN u.version ELSE UnknownVersion]

\* The match list selects by the id that was looked up; without such a row the first
\* option, "all", is the one that shows.
IdSelect(f, listed) ==
    [offered |-> Offered(listed),
     shown |-> CASE f.patch = UnknownPatch -> UnknownVersion
                 [] f.patch \in DOMAIN listed -> listed[f.patch]
                 [] OTHER -> NoVersion]

\* An hx-get of the dashboard swaps the panel and the count: its filter row stays as it is.
FilterRow(w, listed) ==
    CASE url[w].tab = "matches" -> IdSelect(page[w].filter, listed)
      [] url[w].tab # "matches" /\ ~url[w].hx -> VersionSelect(url[w], listed)
      [] OTHER -> page[w].select

\* A failed list is logged and shown as an empty one.
ListPatches(w) ==
    /\ at[w] = "patches"
    /\ \E listed \in {<< >>, [p \in codex["patches"] |-> version[p]]} :
            page' = [page EXCEPT ![w].select = FilterRow(w, listed)]
    /\ Move(w, "shown")
    /\ UNCHANGED <<store, version, url, renamed>>

\* The answer is out, or a failed query ended in the stub page.
Leave(w) ==
    /\ at[w] \in {"rows", "places", "shown"}
    /\ Move(w, "idle")
    /\ url' = [url EXCEPT ![w] = NoUrl]
    /\ page' = [page EXCEPT ![w] = NoPage]
    /\ renamed' = renamed \ {w}
    /\ UNCHANGED <<store, version>>

ShowPage(w) ==
    \/ \E u \in Urls : Ask(w, u)
    \/ ResolvePatch(w) \/ CountLineups(w) \/ QueryRows(w) \/ QueryPlaces(w) \/ ListPatches(w)
    \/ Leave(w)

DashNext ==
    \/ EditBoards
    \/ \E v \in Versions : CreatePatch(v)
    \/ \E p \in CodexIds("patches"), v \in Versions : UpdatePatch(p, v)
    \/ \E p \in CodexIds("patches") : DeletePatch(p)
    \/ \E w \in Readers : ShowPage(w)

DashSpec == DashInit /\ [][DashNext]_dashVars

-----------------------------------------------------------------------------
(* Properties.                                                             *)

Shown(w) == at[w] = "shown"

\* The three numbers of lineups on the hero page come from three batches and a match may
\* be finalized between any two of them.  They disagree one way only: what is counted at
\* the top is in the rates below, and what the rates count is in the networth table.
PageGrows ==
    \A w \in Readers : Shown(w) /\ url[w].tab = "heroes" =>
        \A h \in DOMAIN page[w].rows :
            LET seen == page[w].rows[h].pick.den
            IN page[w].count <= seen /\ seen <= PlacesTotal(page[w].places)

\* The patch id is looked up once and used in every later read although row ids are
\* handed out again: on a patch that was played when it was looked up, the page shows that
\* patch, and the filter names it if it can list the patches, by its version on the
\* dashboard and by its id on the match list, unless the row was renamed.
PatchAsNamed ==
    \A w \in Readers :
        Shown(w) /\ page[w].used /\ w \notin renamed =>
            /\ version[page[w].filter.patch] = url[w].version
            /\ page[w].select.offered # {} => page[w].select.shown = url[w].version
            /\ url[w].tab = "matches" =>
                    \A m \in DOMAIN page[w].rows : page[w].rows[m].version = url[w].version

\* A match the list calls final has all its pips, and is what its row says for as long as
\* the list stays on the screen; only its patch may be renamed.
FinalRowsStay ==
    \A w \in Readers : Shown(w) /\ url[w].tab = "matches" =>
        \A m \in DOMAIN page[w].rows :
            LET row == page[w].rows[m]
            IN row.state = "final" =>
                /\ m \in DOMAIN matches
                /\ row.source = matches[m].source
                /\ row.pips = <<Cardinality(LineupsOf(m)), RequiredTotal(row.source)>>
                /\ row.pips[1] = row.pips[2]
=============================================================================
