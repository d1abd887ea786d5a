----------------------------- MODULE ChartPages -----------------------------
(***************************************************************************)
(* The charts in one tab of a browser: the graph slice with its history,   *)
(* what the components dispatch by themselves once React has rendered, the *)
(* cache of readings and its queries, the link that opens a chart in a new *)
(* tab, the answer of the site's preferences, and an upload in the same    *)
(* tab whose end throws the readings in the cache away.                    *)
(*                                                                         *)
(* Line, bar, compare and radar query and cache alike and have no effects  *)
(* of their own: "line" stands for them.  The settings that only scale or  *)
(* label what is shown are left out, but for area normalization.           *)
(***************************************************************************)
EXTENDS Integers, FiniteSets, Sequences, SequencesExt

CONSTANTS
    Names,          \* meters and groups, as the menu sorts them
    Members,        \* [group |-> its deep meters]
    Cik,            \* [meter |-> units it can be shown in]
    DefaultUnit,    \* [meter or group |-> its default graphic unit, or None]
    NoArea,         \* meters and groups without an area
    Raw,            \* units that represent raw values
    Charts,         \* kinds of chart, a subset of ChartTypes
    Intervals,      \* bounded intervals a date range can be
    Preferred,      \* [chart, area]: the preferences of the site
    None,
    Nought,         \* the number read from "undefined" in a link
    Links,          \* parameters of the links a tab may be opened with, None for none
    MaxActs,        \* bound on what the user chooses
    MaxOdds,        \* bound on failures, keys forgotten and choices while a fetch is pending
    MaxUploads

ChartTypes == {"line", "threeD", "compareLine"}
ASSUME ChartAssumption ==
    /\ Charts \subseteq ChartTypes /\ "line" \in Charts
    /\ DOMAIN DefaultUnit = Range(Names)
    /\ DOMAIN Cik \cup DOMAIN Members = Range(Names)
    /\ Names \in Seq(Range(Names))
    /\ None \notin Range(Names) /\ Nought \notin Range(Names)
ASSUME LinksAssumption ==
    \A l \in Links \ {None} : \A f \in {"meters", "groups"} \cap DOMAIN l : l[f] \in Seq(Range(Names))

VARIABLES
    hist,       \* the graph slice: [prev, current, next]
    rendered,   \* the state React rendered last, NoChart when no chart is mounted
    shown,      \* how many pills there were when their effect ran last
    cache,      \* [key |-> [pending, sent, unit, interval, asking, data]]
    page,       \* "charts", "elsewhere" or "link": where the tab is
    prefs,      \* whether the preferences have arrived
    uploading,  \* an upload of readings runs in this tab
    version,    \* of the readings on the server
    told,       \* version whose upload this tab has seen end
    link,       \* parameters of the link the tab was opened with, until read
    linked,     \* state whose link was opened, until something is chosen
    missed,     \* <<key, id>> whose fetch failed, or that were not asked for: as a fetch of
                \* the key was pending, or as an upload ended in front of the chart
    acts, odds

vars == <<hist, rendered, shown, cache, page, prefs, uploading, version, told,
          link, linked, missed, acts, odds>>
tab == <<page, prefs, uploading, version, told, link, linked>>

Whole == <<"whole">>
NoChart == <<>>
Meters == DOMAIN Cik
Entities == Range(Names)
Kind(e) == IF e \in Meters THEN "meters" ELSE "groups"
MetersOf(e) == IF e \in Meters THEN {e} ELSE Members[e]
Last1(s) == IF s = <<>> THEN None ELSE s[Len(s)]
Selected(g) == g.meters \o g.groups

(* Those of s that are in S, in their order.                                 *)
Among(s, S) ==
    LET kept[i \in 0..Len(s)] ==
            IF i = 0 THEN <<>>
            ELSE IF s[i] \in S THEN Append(kept[i - 1], s[i]) ELSE kept[i - 1]
    IN  kept[Len(s)]

DefaultState ==
    [meters |-> <<>>, groups |-> <<>>, unit |-> None, chart |-> "line", interval |-> Whole,
     slider |-> Whole, three |-> None, last |-> None, area |-> FALSE, shift |-> "none",
     shifted |-> Whole, hotlinked |-> FALSE]
-----------------------------------------------------------------------------
(* What can be shown                                                         *)

UnitsOf(S) == {u \in UNION {Cik[m] : m \in Meters} :
                  \A m \in UNION {MetersOf(e) : e \in S} : u \in Cik[m]}
Compatible(g, e) == IF g.unit = None THEN DefaultUnit[e] # None ELSE g.unit \in UnitsOf({e})
AreaFits(g, e) == /\ ~(g.unit = None /\ DefaultUnit[e] \in Raw)
                  /\ e \notin NoArea
Graphable(g) == {e \in Entities : Compatible(g, e) /\ (g.area => AreaFits(g, e))}
UnitOptions(g) ==
    IF Selected(g) = <<>>
    THEN {u \in UnitsOf({}) : ~(g.area /\ u \in Raw)}
    ELSE UnitsOf(Range(Selected(g)))

(* The options of a menu: those that can be shown first, then by name; what  *)
(* is selected is listed with the meters first.                              *)
Options(g, S) == Among(Names, S \cap Graphable(g)) \o Among(Names, S \ Graphable(g))
Listed(g, S) == Options(g, S \cap Meters) \o Options(g, S \ Meters)
-----------------------------------------------------------------------------
(* The slice and its history: the middleware puts the state before every     *)
(* action of the slice that changed it on the stack.                         *)

Put(h, g) == [prev |-> Append(h.prev, h.current), current |-> g, next |-> <<>>]
Set(h, g) == IF g = h.current THEN h ELSE Put(h, g)
StepBack(h) == [prev |-> Front(h.prev), current |-> Last(h.prev),
                next |-> Append(h.next, h.current)]
StepForward(h) == [prev |-> Append(h.prev, h.current), current |-> Last(h.next),
                   next |-> Front(h.next)]

UpdateSelected(h, S) ==
    LET h1 == Put(h, [h.current EXCEPT !.meters = Among(S, Meters)])
    IN  Put(h1, [h1.current EXCEPT !.groups = Among(S, Entities \ Meters)])

(* onChange of the menu of meters and groups; "added" is the option chosen,  *)
(* None when one was removed.                                                *)
Choose(h, S, added) ==
    LET h1 == UpdateSelected(h, S)
        h2 == IF added = None THEN h1 ELSE Set(h1, [h1.current EXCEPT !.last = Kind(added)])
    IN  IF Last1(S) # None /\ h.current.unit = None
        THEN Set(h2, [h2.current EXCEPT !.unit = DefaultUnit[Last1(S)]])
        ELSE h2

UpdateSelectedUnit(h, u) ==
    IF u # None
    THEN Set(h, [h.current EXCEPT !.unit = u])
    ELSE Put(h, [h.current EXCEPT !.unit = None, !.meters = <<>>, !.groups = <<>>])

SetThree(h, e) == Set(h, [h.current EXCEPT !.three = e])
-----------------------------------------------------------------------------
(* Links                                                                     *)

ChartLink(g) ==
    [f \in ({"chart", "interval", "unit", "area"}
            \cup (IF g.meters = <<>> THEN {} ELSE {"meters"})
            \cup (IF g.groups = <<>> THEN {} ELSE {"groups"})
            \cup (IF g.chart = "line" THEN {"slider"} ELSE {"three"})
            \cup (IF g.chart = "compareLine" THEN {"shift"} ELSE {})
            \cup (IF g.chart = "compareLine" /\ g.shift = "custom" THEN {"shifted"} ELSE {})) |->
        IF f = "three" /\ g.three = None THEN Nought ELSE g[f]]

ProcessGraphLink(g, params) ==
    [f \in DOMAIN g |-> IF f = "hotlinked" THEN TRUE
                        ELSE IF f \in DOMAIN params THEN params[f] ELSE g[f]]

(* Fault: the preferences override what a link set.                         *)
GetPreferencesAlways(g) == [g EXCEPT !.chart = Preferred.chart, !.area = Preferred.area]

GetPreferences(g) == IF g.hotlinked THEN g
                     ELSE [g EXCEPT !.chart = Preferred.chart, !.area = Preferred.area]

(* What of a state its chart shows.                                          *)
Recreated(g) ==
    {"meters", "groups", "unit", "chart", "interval", "area"}
    \cup (IF g.chart = "line" THEN {"slider"} ELSE {"three"})
    \cup (IF g.chart = "compareLine" /\ g.interval # Whole THEN {"shift"} ELSE {})
    \cup (IF g.chart = "compareLine" /\ g.interval # Whole /\ g.shift = "custom"
          THEN {"shifted"} ELSE {})
-----------------------------------------------------------------------------
(* Queries: hooks of the mounted chart, keyed by everything but the ids      *)

(* Fault: the cache is keyed without the unit.                              *)
KeyOfNoUnit(end, kind, g, interval) ==
    [end |-> end, kind |-> kind, interval |-> interval, unit |-> None,
     of |-> IF end = "threeD" THEN g.three ELSE None]

Key(end, kind, g, interval) ==
    [end |-> end, kind |-> kind, interval |-> interval, unit |-> g.unit,
     of |-> IF end = "threeD" THEN g.three ELSE None]
Hook(name, end, kind, g, interval, ids) ==
    [name |-> name, key |-> Key(end, kind, g, interval), ids |-> ids,
     unit |-> g.unit, interval |-> interval]

LineHooks(g) == {Hook("line", "line", kind, g, g.interval, g[kind]) :
                    kind \in {k \in {"meters", "groups"} : g[k] # <<>>}}
Single(g) == g.three \notin {None, Nought} /\ g.interval # Whole
ThreeDHooks(g) == IF Single(g)
                  THEN {Hook("threeD", "threeD", Kind(g.three), g, g.interval, <<g.three>>)}
                  ELSE {}
CompareLineHooks(g) ==
    IF Single(g) /\ g.shift # "none"
    THEN {Hook("compareLine", "line", Kind(g.three), g, i, <<g.three>>) :
             i \in {g.interval, g.shifted}}
    ELSE {}
Hooks(g) == CASE g = NoChart -> {}
              [] g # NoChart /\ g.chart = "line" -> LineHooks(g)
              [] g # NoChart /\ g.chart = "threeD" -> ThreeDHooks(g)
              [] OTHER -> CompareLineHooks(g)

(* The files of an export: the data of the chart's queries, but for what     *)
(* cannot be shown now.                                                      *)
Exported(g) ==
    {d \in UNION {cache[k].data : k \in {q.key : q \in Hooks(g)} \cap DOMAIN cache} :
        d.of \in Range(Selected(g)) \cap Graphable(g)}

Mounted == {q.key : q \in Hooks(rendered)}

Ids(entry) == {d.of : d \in entry.data}
Fresh == [pending |-> FALSE, sent |-> 0, unit |-> None, interval |-> None, asking |-> {},
          data |-> {}]

Entry(c, k) == IF k \in DOMAIN c THEN c[k] ELSE Fresh
Lacking(c, q) == Range(q.ids) \ Ids(Entry(c, q.key))

(* The queries of a render, each of a key of its own: nothing while one of   *)
(* its key is under way, or when all that is asked is there; otherwise what  *)
(* is not.                                                                   *)
Initiate(c, qs) ==
    LET asking == {q \in qs : ~Entry(c, q.key).pending /\ Lacking(c, q) # {}}
        keys == {q.key : q \in asking}
        by(k) == CHOOSE q \in asking : q.key = k
    IN  [k \in DOMAIN c \cup keys |->
            IF k \in keys
            THEN [pending |-> TRUE, sent |-> version, unit |-> by(k).unit,
                  interval |-> by(k).interval, asking |-> Lacking(c, by(k)),
                  data |-> Entry(c, k).data]
            ELSE c[k]]
Dropped(c, qs) ==
    UNION {{<<q.key, e>> : e \in (Range(q.ids) \ Ids(c[q.key])) \ c[q.key].asking} :
              q \in {p \in qs : p.key \in DOMAIN c /\ c[p.key].pending}}
-----------------------------------------------------------------------------
(* Effects: what components dispatch after a render of state g               *)

ShiftDate(g) == IF g.shift = "none" THEN g.interval ELSE Append(g.interval, g.shift)
ShiftEffect(h, g) ==
    IF /\ g.chart = "compareLine" /\ g.shift # "custom" /\ g.interval # Whole
       /\ \/ rendered = NoChart \/ rendered.chart # "compareLine"
          \/ <<rendered.shift, rendered.interval>> # <<g.shift, g.interval>>
    THEN Put(h, [h.current EXCEPT !.shifted = ShiftDate(g)])
    ELSE h

PillEffect(h, g, before) ==
    LET pills == Selected(g)
        h1 == IF Len(pills) = 1 THEN SetThree(h, pills[1]) ELSE h
        h2 == IF g.three # None /\ g.three \notin Range(pills) THEN SetThree(h1, None) ELSE h1
        added == CASE g.last = "meters" -> Last1(g.meters)
                   [] g.last = "groups" -> Last1(g.groups)
                   [] OTHER -> None
    IN  IF Len(pills) > before /\ added # None THEN SetThree(h2, added) ELSE h2

Due == page = "charts" /\ rendered # hist.current
AtRest == page = "charts" /\ rendered = hist.current

(* React renders the current state and runs the effects of the components,   *)
(* which all see the state that was rendered.                                *)
Commit ==
    LET g == hist.current
        same == rendered # NoChart /\ rendered.chart = g.chart
        before == IF same THEN shown ELSE Len(Selected(g))
        new == Hooks(g) \ (IF same THEN Hooks(rendered) ELSE {})
        h1 == ShiftEffect(hist, g)
    IN  /\ Due
        /\ rendered' = g
        /\ hist' = IF g.chart = "line" THEN hist ELSE PillEffect(h1, g, before)
        /\ shown' = Len(Selected(g))
        /\ missed' = missed \cup Dropped(cache, new)
        /\ cache' = Initiate(cache, new)
        /\ UNCHANGED <<tab, acts, odds>>
-----------------------------------------------------------------------------
(* The network and the cache                                                 *)

Answer(k) ==
    /\ cache[k].pending
    /\ cache[k].asking # {} /\ cache[k].unit # None
    /\ \E v \in cache[k].sent .. version :
          LET got == {[of |-> e, unit |-> cache[k].unit, interval |-> cache[k].interval,
                      version |-> v] : e \in cache[k].asking}
              kept == {d \in cache[k].data : d.of \notin cache[k].asking}
          IN  cache' = [cache EXCEPT ![k] = [Fresh EXCEPT !.data = kept \cup got]]
    /\ missed' = missed \ {<<k, e>> : e \in cache[k].asking}
    /\ UNCHANGED <<hist, rendered, shown, tab, acts, odds>>

(* A query that asks for no id is answered with the page of the client: its  *)
(* characters are merged over the readings of every id.                      *)
AnswerNothing(k) ==
    /\ cache[k].pending
    /\ cache[k].asking = {}
    /\ cache' = [cache EXCEPT ![k] = [Fresh EXCEPT !.data =
                     {[d EXCEPT !.version = -1] : d \in cache[k].data}]]
    /\ UNCHANGED <<hist, rendered, shown, tab, missed, acts, odds>>

Fail(k) ==
    /\ cache[k].pending
    /\ cache[k].unit = None \/ odds < MaxOdds
    /\ odds' = IF cache[k].unit = None THEN odds ELSE odds + 1
    /\ cache' = [cache EXCEPT ![k].pending = FALSE, ![k].asking = {}]
    /\ missed' = missed \cup {<<k, e>> : e \in cache[k].asking}
    /\ UNCHANGED <<hist, rendered, shown, tab, acts>>

Quiet == \A k \in DOMAIN cache : ~cache[k].pending
Without(S) == [k \in DOMAIN cache \ S |-> cache[k]]

(* Nothing subscribed to a key for a minute.                                 *)
Forget(k) ==
    /\ k \notin Mounted
    /\ odds < MaxOdds
    /\ odds' = odds + 1
    /\ cache' = Without({k})
    /\ missed' = {x \in missed : x[1] # k}
    /\ UNCHANGED <<hist, rendered, shown, tab, acts>>

(* Readings are invalidated: what no component uses goes, what one uses is   *)
(* asked for again, but the query asks for what the cache does not have.     *)
Invalidated ==
    [k \in DOMAIN cache \cap Mounted |->
        IF k.end = "threeD"
        THEN [cache[k] EXCEPT !.pending = TRUE, !.sent = version, !.asking = {k.of}]
        ELSE [cache[k] EXCEPT !.pending = TRUE, !.sent = version]]

Upload ==
    /\ page = "elsewhere"
    /\ version < MaxUploads
    /\ ~uploading
    /\ uploading' = TRUE
    /\ version' = version + 1
    /\ UNCHANGED <<hist, rendered, shown, cache, page, prefs, told, link, linked, missed,
                   acts, odds>>

(* RTK Query holds the invalidation back until no fetch is under way.        *)
Uploaded ==
    /\ uploading
    /\ Quiet
    /\ uploading' = FALSE
    /\ told' = version
    /\ cache' = Invalidated
    /\ missed' = {x \in missed : x[1] \in Mounted}
                \cup UNION {{k} \X Ids(cache[k]) : k \in DOMAIN Invalidated}
    /\ UNCHANGED <<hist, rendered, shown, page, prefs, version, link, linked, acts, odds>>

Preferences ==
    /\ ~prefs
    /\ prefs' = TRUE
    /\ hist' = [hist EXCEPT !.current = GetPreferences(@)]
    /\ UNCHANGED <<rendered, shown, cache, page, uploading, version, told, link, linked,
                   missed, acts, odds>>
-----------------------------------------------------------------------------
(* The user                                                                  *)

Acts(h) ==
    /\ AtRest
    /\ acts < MaxActs
    /\ acts' = acts + 1
    /\ hist' = h
    /\ linked' = None
    /\ \/ Quiet /\ UNCHANGED odds
       \/ ~Quiet /\ odds < MaxOdds /\ odds' = odds + 1
    /\ UNCHANGED <<rendered, shown, cache, page, prefs, uploading, version, told, link,
                   missed>>

g0 == hist.current

AddSource(e) == /\ e \in Graphable(g0) \ Range(Selected(g0))
                /\ Acts(Choose(hist, Append(Listed(g0, Range(Selected(g0))), e), e))
RemoveSource(e) == /\ e \in Range(Selected(g0))
                   /\ Acts(Choose(hist, Listed(g0, Range(Selected(g0)) \ {e}), None))
PickUnit(u) == /\ u \in UnitOptions(g0) \/ (u = None /\ g0.unit # None)
               /\ Acts(UpdateSelectedUnit(hist, u))
PickChart(c) == /\ c # g0.chart
                /\ Acts(Set(hist, [g0 EXCEPT !.chart = c]))
PickDates(i) ==
    LET h == Put(hist, [g0 EXCEPT !.interval = i])
    IN  /\ i # g0.interval
        /\ Acts(Put(h, [h.current EXCEPT !.slider = i]))
Zoom(i) == /\ g0.chart = "line" /\ Selected(g0) # <<>>
           /\ Acts([hist EXCEPT !.current.slider = i])
Redraw == /\ g0.chart = "line" /\ Selected(g0) # <<>>
          /\ Quiet
          /\ Acts(Put(hist, [g0 EXCEPT !.interval = g0.slider]))
ToggleArea == /\ g0.unit \notin Raw
              /\ Acts(Put(hist, [g0 EXCEPT !.area = ~@]))
PickPill(e) == /\ g0.chart # "line" /\ e \in Range(Selected(g0))
               /\ Acts(SetThree(hist, e))
PickShift(s) == /\ g0.chart = "compareLine" /\ s # g0.shift
                /\ Acts(Set(hist, [g0 EXCEPT !.shift = s]))
PickShifted(i) == /\ g0.chart = "compareLine" /\ g0.shift = "custom"
                  /\ Acts(Put(hist, [g0 EXCEPT !.shifted = i]))
Back == hist.prev # <<>> /\ Acts(StepBack(hist))
Forward == hist.next # <<>> /\ Acts(StepForward(hist))
Clear == Acts([prev |-> <<>>, current |-> DefaultState, next |-> <<>>])

Leave ==
    /\ AtRest
    /\ acts < MaxActs
    /\ acts' = acts + 1
    /\ page' = "elsewhere"
    /\ rendered' = NoChart
    /\ shown' = 0
    /\ UNCHANGED <<hist, cache, prefs, uploading, version, told, link, linked, missed,
                   odds>>
Return ==
    /\ page = "elsewhere"
    /\ page' = "charts"
    /\ UNCHANGED <<hist, rendered, shown, cache, prefs, uploading, version, told, link,
                   linked, missed, acts, odds>>

(* The link of the chart is opened in a new tab, which is looked at from now *)
(* on.                                                                       *)
OpenLink ==
    /\ AtRest
    /\ acts < MaxActs
    /\ acts' = acts + 1
    /\ Selected(g0) # <<>>
    /\ link' = ChartLink(g0)
    /\ linked' = g0
    /\ page' = "link"
    /\ prefs' = FALSE
    /\ uploading' = FALSE
    /\ told' = 0
    /\ hist' = [prev |-> <<>>, current |-> DefaultState, next |-> <<>>]
    /\ rendered' = NoChart
    /\ shown' = 0
    /\ cache' = <<>>
    /\ missed' = {}
    /\ UNCHANGED <<version, odds>>

(* GraphLink reads the parameters when it is mounted, and goes to the charts *)
(* when the application is ready.                                            *)
FollowLink ==
    /\ page = "link"
    /\ hist' = [hist EXCEPT !.current = ProcessGraphLink(@, link)]
    /\ page' = "charts"
    /\ link' = None
    /\ UNCHANGED <<rendered, shown, cache, prefs, uploading, version, told, linked,
                   missed, acts, odds>>
-----------------------------------------------------------------------------
Init ==
    /\ hist = [prev |-> <<>>, current |-> DefaultState, next |-> <<>>]
    /\ rendered = NoChart
    /\ shown = 0
    /\ cache = <<>>
    /\ link \in Links
    /\ page = IF link = None THEN "charts" ELSE "link"
    /\ prefs = FALSE
    /\ uploading = FALSE
    /\ version = 0 /\ told = 0
    /\ linked = None
    /\ missed = {}
    /\ acts = 0 /\ odds = 0

Network(k) == Answer(k) \/ AnswerNothing(k) \/ Fail(k)
User ==
    \/ \E e \in Entities : AddSource(e) \/ RemoveSource(e) \/ PickPill(e)
    \/ \E u \in UnitsOf({}) \cup {None} : PickUnit(u)
    \/ \E c \in Charts : PickChart(c)
    \/ \E i \in Intervals : PickDates(i) \/ Zoom(i) \/ PickShifted(i)
    \/ \E s \in {"week", "custom"} : PickShift(s)
    \/ Redraw \/ ToggleArea \/ Back \/ Forward \/ Clear
Next ==
    \/ Commit
    \/ \E k \in DOMAIN cache : Network(k) \/ Forget(k)
    \/ Preferences
    \/ User
    \/ Leave \/ Return \/ Upload \/ Uploaded
    \/ OpenLink \/ FollowLink

Spec == Init /\ [][Next]_vars
-----------------------------------------------------------------------------
(* Once React has rendered what the user chose, every meter and group the    *)
(* chart asks for is in the cache when no fetch is pending, in the unit and  *)
(* dates that are selected and as of the last upload this tab has seen end,  *)
(* but for what is missed: fetches that failed, ids chosen while a fetch of  *)
(* their key was under way, and those on a chart an upload ended in front    *)
(* of.  The files of an export hold nothing else.  And what 3D and compare   *)
(* line show is one of the selected, and the only one if there is one:       *)
(* through choices, removals, undo and links, whose effects see a state that *)
(* may be gone already.  What the components dispatch after renders comes    *)
(* to rest: a choice leaves at most six states to go back through.           *)
ShownAsAsked ==
    /\ Len(hist.prev) <= 6 * (acts + 1)
    /\ AtRest => \A q \in Hooks(g0) :
           q.key \in DOMAIN cache /\ ~cache[q.key].pending =>
               \A e \in Range(q.ids) : \/ <<q.key, e>> \in missed
                                       \/ \E d \in cache[q.key].data :
                                              /\ d.of = e /\ d.version >= told
                                              /\ d.unit = g0.unit /\ d.interval = q.interval
    /\ AtRest /\ g0.chart = "line" =>
           \A d \in Exported(g0) : d.unit = g0.unit /\ d.interval = g0.interval
    /\ AtRest /\ g0.chart # "line" =>
           /\ g0.three \in {None} \cup Range(Selected(g0))
           /\ Len(Selected(g0)) = 1 => g0.three = Selected(g0)[1]

(* A link opens the chart it was made from, whether the preferences of the   *)
(* site come before or after it is read, and whatever the components do by   *)
(* themselves ("a URL that will recreate the current graphic").              *)
LinkRecreates ==
    AtRest /\ linked # None => \A f \in Recreated(linked) : g0[f] = linked[f]
=============================================================================
