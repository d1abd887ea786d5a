------------------------------ MODULE UnitPages ------------------------------
(***************************************************************************)
(* The pages on which an administrator changes units and the conversions   *)
(* between them.                                                           *)
(*                                                                         *)
(* What the server derives from both, Cik and the reading views, it        *)
(* derives on demand: the page that changed something decides whether that *)
(* is needed, comparing what it shows with the client's copy, and asks for *)
(* it once its change is answered.  It also looks for what a conversion is *)
(* needed for before it deletes it, in part on the client's copy, in part  *)
(* by a simulation on the server.                                          *)
(*                                                                         *)
(* Requests are single steps here; CikRefresh has what they do meanwhile,  *)
(* and units with suffixes that reach each other.  A unit is known by its  *)
(* name, and renaming is left out.                                         *)
(***************************************************************************)
EXTENDS Integers, SequencesExt

CONSTANTS
    Meters, UnitOf,     \* the meters, and the unit of each
    Groups, Deep,       \* the groups, and all meters of each
    StoredUnits, StoredLinks, StoredGraphic,   \* the tables at first
    SuffixNames, NoSuffix, \* suffixes that may be typed; the empty one
    Retypable,          \* the units whose type and suffix may be changed
    Visited,            \* the pages that are used
    Rates, Custom,      \* rates of a unit; the choice to type another
    None,               \* no unit, no page
    Fails,              \* may the server fail a request, or its answer be lost?
    MaxFields,          \* bound on the fields a page changes at once, one less in a new unit
    MaxRequests, MaxElsewhere   \* bounds on what this and another administrator ask for

Displayable == {"none", "all"}
Represent == {"quantity", "flow"}
Types == {"unit", "meter", "suffix"}
Zero == 0                         \* a conversion whose slope and intercept are 0
Conversions == {Zero, 1}

ASSUME SuffixAssumption == NoSuffix \notin SuffixNames
ASSUME MeterAssumption == \A m \in Meters : StoredUnits[UnitOf[m]].type = "meter"

VARIABLES
    units,      \* unit -> its type, suffix, displayable, unitRepresent and rate
    links,      \* <<source, destination>> -> whether bidirectional, and the conversion
    graphic,    \* the default graphic unit of each meter and group
    cik,        \* <<unit of a meter, unit>> -> the conversions on the way
    views,      \* what the reading views were computed with, of each unit
    seen,       \* the client's copy of units, links and graphic
    stale,      \* what of it is to be fetched again
    pages,      \* the copy each page has that is there
    open,       \* the page that is open
    confirming, \* the deletion that waits for the administrator
    sent,       \* requests not answered
    asked,      \* how often this administrator, and another, asked for something
    owed,       \* history: what of "cik", "views" nobody will compute again
    reshaped    \* history: was anything changed but by deletions as they are examined?

tables == <<units, links, graphic>>
server == <<tables, cik, views>>
client == <<seen, stale, pages, open, confirming>>
vars == <<server, client, sent, asked, owed, reshaped>>

-----------------------------------------------------------------------------
(* What the server derives.                                                *)

Made(d, s) == <<d, s>>            \* the unit named d.name + " of " + s

Graph(ls) == DOMAIN ls \cup {<<e[2], e[1]>> : e \in {x \in DOMAIN ls : ls[x].bi}}

(* A shortest path to each unit in reach of a.                             *)
AllPaths(L, a) ==
    LET tree[n \in Nat] ==
            IF n = 0 THEN [x \in {a} |-> <<a>>]
            ELSE LET near == tree[n - 1]
                     new == {e[2] : e \in {x \in L : x[1] \in DOMAIN near}} \ DOMAIN near
                 IN  near @@ [x \in new |->
                        Append(near[(CHOOSE e \in L : e[1] \in DOMAIN near /\ e[2] = x)[1]], x)]
    IN  tree[Cardinality(L)]

Inverted(map) == [i \in 1..Len(map) |-> -map[Len(map) + 1 - i]]

PathConversion(ls, p) ==
    LET hop(i) == IF <<p[i], p[i + 1]>> \in DOMAIN ls
                  THEN ls[<<p[i], p[i + 1]>>].map
                  ELSE Inverted(ls[<<p[i + 1], p[i]>>].map)
    IN  FoldLeft(LAMBDA map, i : map \o hop(i), <<>>, [i \in 1..(Len(p) - 1) |-> i])

(* Each unit with a suffix is replaced by one made of every unit in reach, *)
(* and what leads on from it is left out of the graph.                     *)
HandleSuffixUnits(us, ls) ==
    LET suffixed == {u \in DOMAIN us : us[u].suffix # NoSuffix}
        paths == [s \in suffixed |-> AllPaths(Graph(ls), s)]
        needs(s) == {d \in DOMAIN paths[s] \ {s} : us[d].type # "suffix" /\ us[d].disp # "none"}
        pairs == UNION {{s} \X needs(s) : s \in suffixed}
        made(e) == Made(e[2], us[e[1]].suffix)
        of(u) == CHOOSE e \in pairs : made(e) = u
        row(u) == LET e == of(u) IN
            IF u \in DOMAIN us THEN [us[u] EXCEPT !.disp = us[e[2]].disp]
            ELSE [type |-> "suffix", suffix |-> NoSuffix, disp |-> us[e[2]].disp,
                  repr |-> us[e[2]].repr, rate |-> us[e[1]].rate]
        newLink(e) == [bi |-> FALSE, map |-> PathConversion(ls, paths[e[1]][e[2]])]
    IN  [units |-> [u \in {made(e) : e \in pairs} |-> row(u)]
                    @@ [u \in DOMAIN us |-> IF u \in suffixed
                                            THEN [us[u] EXCEPT !.disp = "none"] ELSE us[u]],
         links |-> [e \in {<<x[1], made(x)>> : x \in pairs} |-> newLink(of(e[2]))] @@ ls,
         cut |-> {<<p[1], p[2]>> : p \in
                    {q \in UNION {{paths[s][d] : d \in DOMAIN paths[s] \ {s}} : s \in suffixed} :
                     us[q[2]].type # "suffix"}}]

(* All units a unit of a meter is shown in, and how, along the graph L.    *)
CikArray(us, ls, L) ==
    LET sources == {u \in DOMAIN us : us[u].type = "meter"}
        paths == [m \in sources |-> AllPaths(L, m)]
        pairs == {e \in sources \X (DOMAIN us) :
                    us[e[2]].type # "meter" /\ us[e[2]].disp # "none" /\ e[2] \in DOMAIN paths[e[1]]}
    IN  [e \in pairs |-> PathConversion(ls, paths[e[1]][e[2]])]

RedoCik(us, ls) ==
    LET done == HandleSuffixUnits(us, ls)
    IN  [units |-> done.units, links |-> done.links,
         cik |-> CikArray(done.units, done.links, Graph(done.links) \ done.cut)]

(* A quantity's rate plays no part.                                        *)
Viewed(us) ==
    [u \in {UnitOf[m] : m \in Meters} |->
        <<us[u].repr, IF us[u].repr = "quantity" THEN None ELSE us[u].rate>>]

Graphable(pairs, x) ==
    LET of(m) == {e[2] : e \in {p \in pairs : p[1] = UnitOf[m]}}
    IN  IF x \in Meters THEN of(x)
        ELSE {u \in UNION {of(m) : m \in Deep[x]} : \A m \in Deep[x] : u \in of(m)}

-----------------------------------------------------------------------------
Init ==
    LET done == RedoCik(StoredUnits, StoredLinks) IN
    /\ units = done.units
    /\ links = done.links
    /\ graphic = StoredGraphic
    /\ cik = done.cik
    /\ views = Viewed(units)
    /\ seen = [units |-> units, links |-> links, graphic |-> graphic]
    /\ stale = {}
    /\ pages = <<>>
    /\ open = None
    /\ confirming = None
    /\ sent = {}
    /\ asked = [here |-> 0, elsewhere |-> 0]
    /\ owed = {}
    /\ reshaped = FALSE

UnitPage(u) == <<"unit", u>>
LinkPage(e) == <<"link", e>>
Page(p) == p \in DOMAIN pages /\ open = p
Copy(p) == IF p[1] = "unit" THEN seen.units[p[2]] ELSE seen.links[p[2]]
There(p) == IF p[1] = "unit" THEN p[2] \in DOMAIN seen.units ELSE p[2] \in DOMAIN seen.links

Refreshing == \E r \in sent : r.kind = "refresh"
Idle == \A r \in sent : r.kind = "refresh"

(* While units or conversions are fetched there is a spinner and no page;  *)
(* so there is instead of the pages of units while Cik is computed.        *)
Fetching == Idle /\ stale \cap {"Units", "ConversionDetails"} # {}
Shows(kind) == ~Fetching /\ (kind = "unit" => ~Refreshing)

Refetch(tag) ==
    /\ tag \in stale
    /\ Idle
    /\ stale' = stale \ {tag}
    /\ seen' = CASE tag = "Units" -> [seen EXCEPT !.units = units]
                 [] tag = "ConversionDetails" -> [seen EXCEPT !.links = links]
                 [] tag = "Graphic" -> [seen EXCEPT !.graphic = graphic]
    /\ IF tag = "Graphic" THEN UNCHANGED <<pages, open, confirming>>
       ELSE pages' = <<>> /\ open' = None /\ confirming' = None
    /\ UNCHANGED <<server, sent, asked, owed, reshaped>>

(* A page keeps the copy it has shown last, or starts from the client's.   *)
(* The pages of units and of conversions are never there together.         *)
Open(p) ==
    /\ open = None
    /\ confirming = None
    /\ Shows(p[1])
    /\ p \in Visited
    /\ There(p)
    /\ asked.here < MaxRequests
    /\ open' = p
    /\ pages' = LET kept == {q \in DOMAIN pages : q[1] = p[1]} \cup {p}
                IN  [q \in kept |-> IF q \in DOMAIN pages THEN pages[q] ELSE Copy(q)]
    /\ UNCHANGED <<server, seen, stale, confirming, sent, asked, owed, reshaped>>

Without(p) == [q \in DOMAIN pages \ {p} |-> pages[q]]

Close(p) ==
    /\ Page(p)
    /\ open' = None
    /\ pages' = Without(p)
    /\ UNCHANGED <<server, seen, stale, confirming, sent, asked, owed, reshaped>>

(* The page shows what was submitted, or from the warning of unsaved       *)
(* changes the client's copy again.                                        *)
Submit(p, requests, shown, back) ==
    /\ asked.here < MaxRequests
    /\ asked' = [asked EXCEPT !.here = @ + 1]
    /\ sent' = sent \cup requests
    /\ open' = None
    /\ pages' = IF back THEN Without(p) ELSE [pages EXCEPT ![p] = shown]
    /\ UNCHANGED <<server, seen, stale, confirming, owed, reshaped>>

-----------------------------------------------------------------------------
(* The page of a unit.                                                     *)

InConversions(u) == \E e \in DOMAIN seen.links : u \in {e[1], e[2]}

(* A rate of the menu, or one of one's own that was not entered yet.       *)
RateChoices == Rates \cup {Custom}

(* A suffix can be typed for a unit of any type.                           *)
SuffixChoices == SuffixNames \cup {NoSuffix}

(* What the menus and the checks of the page let a unit be changed to.     *)
Choosable(u, old) ==
    {row \in [type : Types, suffix : SuffixChoices, disp : Displayable,
              repr : Represent, rate : RateChoices] :
        /\ Cardinality({f \in DOMAIN row : row[f] # old[f]}) <= MaxFields
        /\ row.suffix # old.suffix \/ row.type # old.type => u \in Retypable
        /\ row.type # old.type => (row.suffix # NoSuffix => row.type = "suffix")
        /\ row.type # old.type => (row.type = "meter" => ~InConversions(u))
        /\ row.repr # old.repr => ~InConversions(u)
        /\ row.disp # old.disp =>
            (row.type = "meter" \/ row.suffix # NoSuffix => row.disp = "none")}

ValidUnit(row) == (row.type = "suffix" => row.suffix # NoSuffix) /\ row.rate # Custom

(* Only a meter's unit that no meter uses can be made another type.        *)
InputOk(u, row) ==
    seen.units[u].type = "meter" /\ row.type # "meter" => \A m \in Meters : UnitOf[m] # u

Submitted(row) ==
    [row EXCEPT !.disp = IF row.type = "meter" THEN "none" ELSE @,
                !.type = IF row.suffix # NoSuffix THEN "suffix" ELSE @]

(* Fault: showing a unit or hiding it is not taken to change Cik.          *)
ShouldRedoCikUnshown(old, row) == old.suffix # row.suffix \/ old.type # row.type

ShouldRedoCik(old, row) ==
    old.suffix # row.suffix \/ old.type # row.type \/ old.disp # row.disp

ShouldRefreshReadingViews(old, row) ==
    old.repr # row.repr \/ (old.rate # row.rate /\ old.repr # "quantity")

SaveUnit(u, row, back) ==
    LET props == seen.units[u] IN
    /\ Page(UnitPage(u))
    /\ Shows("unit")
    /\ row \in Choosable(u, pages[UnitPage(u)])
    /\ ValidUnit(row)
    /\ row # props
    /\ InputOk(u, row)
    /\ Submit(UnitPage(u),
              {[kind |-> "editUnit", unit |-> u, row |-> Submitted(row), was |-> props,
                redo |-> ShouldRedoCik(props, row),
                views |-> ShouldRefreshReadingViews(props, row)]},
              row, back)

(* A unit that a conversion or a meter uses is not deleted.                *)
DeleteUnit(u) ==
    /\ Page(UnitPage(u))
    /\ Shows("unit")
    /\ ~InConversions(u)
    /\ \A m \in Meters : UnitOf[m] # u
    /\ Submit(UnitPage(u), {[kind |-> "deleteUnit", unit |-> u]}, pages[UnitPage(u)], TRUE)

(* defaultValues of the page that creates a unit.                          *)
NewUnit == [type |-> "unit", suffix |-> NoSuffix, disp |-> "all", repr |-> "quantity",
            rate |-> CHOOSE n \in Rates : TRUE]

(* What the inputs make of them: one input excludes values of another only *)
(* while these are chosen, so the order of choosing lets any row through.  *)
NewUnits ==
    {row \in [type : Types, suffix : SuffixChoices, disp : Displayable,
              repr : Represent, rate : RateChoices] :
        ValidUnit(row) /\ Cardinality({f \in DOMAIN row : row[f] # NewUnit[f]}) < MaxFields}

(* The page that creates a unit; the request holds the id -99 too.         *)
CreateUnit(row) ==
    /\ open = None
    /\ Shows("unit")
    /\ Submit(None, {[kind |-> "createUnit", row |-> Submitted(row), keys |-> "with id"]}, None, TRUE)

-----------------------------------------------------------------------------
(* The page of a conversion.                                               *)

OneWay(e) == seen.units[e[1]].type = "meter" \/ \E u \in {e[1], e[2]} : seen.units[u].type = "suffix"

(* The direction and the factor the page of a conversion shows.            *)
LinkInputs(e) ==
    [bi : BOOLEAN, map : {pages[LinkPage(e)].map} \cup {<<c>> : c \in Conversions}]

(* A conversion to zero waits to be confirmed, and is gone by then if the  *)
(* page was set back.                                                      *)
Confirmable(map, back) == ~(map = <<Zero>> /\ back)

SaveLink(e, row, touched, back) ==
    LET props == seen.links[e]
    IN  /\ Page(LinkPage(e))
        /\ Shows("link")
        /\ touched \/ row # props
        /\ Confirmable(row.map, back)
        /\ Submit(LinkPage(e),
                  {[kind |-> "editLink", edge |-> e,
                    row |-> [row EXCEPT !.bi = IF OneWay(e) THEN FALSE ELSE @],
                    was |-> props, redo |-> row # props]},
                  row, back)

(* The page that creates a conversion; the request holds the menu of       *)
(* destinations too.                                                       *)
IsValidConversion(e, bi) ==
    /\ e[1] # e[2]
    /\ seen.units[e[2]].type # "meter"
    /\ e \notin DOMAIN seen.links
    /\ seen.units[e[1]].repr = seen.units[e[2]].repr
    /\ LET inverse == <<e[2], e[1]>>
       IN  inverse \in DOMAIN seen.links => ~seen.links[inverse].bi /\ ~bi

(* The sources and destinations that are offered.                          *)
NewLinks == {p[2] : p \in Visited} \cap ((DOMAIN seen.units) \X (DOMAIN seen.units))

(* The direction and the factor that are entered; one of zero has to be    *)
(* confirmed.                                                              *)
NewRows == [bi : BOOLEAN, map : {<<c>> : c \in Conversions}]

CreateLink(e, bi, map) ==
    /\ open = None
    /\ Shows("link")
    /\ IsValidConversion(e, bi)
    /\ Submit(None, {[kind |-> "createLink", edge |-> e, keys |-> "with destinationOptions",
                      row |-> [bi |-> IF OneWay(e) THEN FALSE ELSE bi, map |-> map]]}, None, TRUE)

(* The simulation, on the tables but without what suffixes change.         *)
Simulated(e) ==
    LET pairs(ls) == DOMAIN CikArray(units, ls, Graph(ls))
        before == pairs(links)
        after == pairs([l \in DOMAIN links \ {e} |-> links[l]])
    IN  [x \in Meters \cup Groups |->
            [lost |-> Graphable(before, x) \ Graphable(after, x),
             orphaned |-> x \in Groups /\ Graphable(after, x) = {}]]

Orphaned(r) == r.lost # {} /\ r.orphaned

(* Fault: the groups are not looked at.                                    *)
LostDefaultMeters(e) ==
    LET simulated == Simulated(e) IN {x \in Meters : seen.graphic[x] \in simulated[x].lost}

LostDefault(e) ==
    LET simulated == Simulated(e)
    IN  {x \in Meters \cup Groups : seen.graphic[x] \in simulated[x].lost}

Examined(e) == seen.units[e[1]].type # "suffix" /\ seen.units[e[2]].type = "unit"

(* The conversion is the last of a unit that meters use.                   *)
LastOfUsed(e) ==
    /\ seen.units[e[1]].type = "meter"
    /\ \E m \in Meters : UnitOf[m] = e[1]
    /\ \A l \in DOMAIN seen.links : l[1] = e[1] => l = e

(* Without it a group has no unit to be shown in.                          *)
Orphans(e) ==
    LET simulated == Simulated(e)
    IN  Examined(e) /\ \E g \in Groups : Orphaned(simulated[g])

(* The deletion is refused, or waits to be confirmed.                      *)
Outcome(e) ==
    LET current == seen.units = units /\ seen.graphic = graphic
    IN  IF LastOfUsed(e) \/ Orphans(e) THEN None
        ELSE [edge |-> e, clear |-> IF Examined(e) THEN LostDefault(e) ELSE {},
              basis |-> IF Examined(e) /\ current THEN tables ELSE None]

CheckState(e) ==
    /\ Page(LinkPage(e))
    /\ Shows("link")
    /\ {e[1], e[2]} \subseteq DOMAIN seen.units
    /\ open' = None
    /\ pages' = Without(LinkPage(e))
    /\ confirming' = Outcome(e)
    /\ UNCHANGED <<server, seen, stale, sent, asked, owed, reshaped>>

DeleteLink ==
    /\ confirming # None
    /\ asked.here < MaxRequests
    /\ asked' = [asked EXCEPT !.here = @ + 1]
    /\ sent' = sent \cup {[kind |-> "deleteLink", edge |-> confirming.edge,
                           clear |-> confirming.clear, basis |-> confirming.basis]}
    /\ confirming' = None
    /\ UNCHANGED <<server, seen, stale, pages, open, owed, reshaped>>

KeepLink ==
    /\ confirming # None
    /\ confirming' = None
    /\ UNCHANGED <<server, seen, stale, pages, open, sent, asked, owed, reshaped>>

-----------------------------------------------------------------------------
(* The server, and what its answer makes the client do.                    *)

Refresh(redo, refreshViews) == [kind |-> "refresh", redo |-> redo, views |-> refreshViews]

Needs(r) ==
    CASE r.kind \in {"editUnit", "refresh"} -> (IF r.redo THEN {"cik"} ELSE {}) \cup (IF r.views THEN {"views"} ELSE {})
      [] r.kind = "editLink" -> IF r.redo THEN {"cik"} ELSE {}
      [] r.kind = "deleteLink" -> {"cik"}
      [] OTHER -> {}

(* Every edit of a unit is followed by a request for what it needs, be it  *)
(* nothing; that of a conversion only by one that is needed.               *)
Follow(r) ==
    CASE r.kind = "editUnit" -> {Refresh(r.redo, r.views)}
      [] r.kind = "editLink" /\ r.redo -> {Refresh(TRUE, FALSE)}
      [] r.kind = "deleteLink" -> {Refresh(TRUE, FALSE)}
      [] OTHER -> {}

Invalidated(r) ==
    CASE r.kind \in {"createUnit", "editUnit", "deleteUnit"} -> {"Units"}
      [] r.kind = "deleteLink" -> {"Graphic"}
      [] r.kind = "refresh" -> {"ConversionDetails", "Units"}
      [] OTHER -> {}

(* When the readings are being refreshed the pages of units go.            *)
Told(r, following) ==
    /\ sent' = (sent \ {r}) \cup following
    /\ stale' = stale \cup Invalidated(r)
                    \cup (IF r.kind = "editLink" /\ following = {} THEN {"ConversionDetails"} ELSE {})
    /\ IF following # {} /\ (\E p \in DOMAIN pages : p[1] = "unit")
       THEN pages' = <<>> /\ open' = None ELSE UNCHANGED <<pages, open>>
    /\ UNCHANGED <<seen, confirming, asked>>

Untold(r) ==
    /\ sent' = sent \ {r}
    /\ stale' = stale \cup Invalidated(r)
    /\ UNCHANGED <<seen, pages, open, confirming, asked>>

Refuse(r) ==
    /\ Untold(r)
    /\ owed' = IF r.kind = "refresh" THEN owed \cup Needs(r) ELSE owed
    /\ UNCHANGED <<server, reshaped>>

(* The row the page compared with may have changed meanwhile.              *)
Done(r, lost, crossed) ==
    /\ IF lost THEN Untold(r) ELSE Told(r, Follow(r))
    /\ owed' = (IF crossed THEN {"cik", "views"} ELSE {}) \cup
               (IF lost THEN owed \cup Needs(r)
                ELSE IF r.kind = "refresh" THEN owed \ Needs(r) ELSE owed)

(* With another suffix the units made for the old one are hidden, the      *)
(* conversions to them deleted.                                            *)
RemoveAdditional(u) ==
    LET old == {e \in DOMAIN links : e[1] = u /\ units[e[2]].type = "suffix"}
    IN  [units |-> [x \in DOMAIN units |->
                        IF \E e \in old : e[2] = x THEN [units[x] EXCEPT !.disp = "none"] ELSE units[x]],
         links |-> [e \in DOMAIN links \ old |-> links[e]]]

EditUnit(r, lost) ==
    /\ r.kind = "editUnit"
    /\ r.unit \in DOMAIN units
    /\ LET rest == IF units[r.unit].suffix # r.row.suffix THEN RemoveAdditional(r.unit)
                   ELSE [units |-> units, links |-> links]
       IN  units' = [rest.units EXCEPT ![r.unit] = r.row] /\ links' = rest.links
    /\ Done(r, lost, r.was # units[r.unit])
    /\ reshaped' = (reshaped \/ r.redo \/ r.was # units[r.unit])
    /\ UNCHANGED <<graphic, cik, views>>

(* The foreign keys of conversions, cik, meters and groups.                *)
UnitUsed(u) ==
    \/ \E e \in DOMAIN links \cup DOMAIN cik : u \in {e[1], e[2]}
    \/ \E m \in Meters : UnitOf[m] = u
    \/ \E x \in Meters \cup Groups : graphic[x] = u

EraseUnit(r, lost) ==
    /\ r.kind = "deleteUnit"
    /\ ~UnitUsed(r.unit)
    /\ units' = [u \in DOMAIN units \ {r.unit} |-> units[u]]
    /\ Done(r, lost, FALSE)
    /\ UNCHANGED <<links, graphic, cik, views, reshaped>>

EditLink(r, lost) ==
    /\ r.kind = "editLink"
    /\ links' = IF r.edge \in DOMAIN links THEN [links EXCEPT ![r.edge] = r.row] ELSE links
    /\ LET crossed == r.edge \in DOMAIN links => r.was # links[r.edge]
       IN  Done(r, lost, crossed) /\ reshaped' = (reshaped \/ crossed \/ r.row.bi # r.was.bi)
    /\ UNCHANGED <<units, graphic, cik, views>>

(* The defaults that are lost are cleared in the same transaction.         *)
EraseLink(r, lost) ==
    /\ r.kind = "deleteLink"
    /\ links' = [e \in DOMAIN links \ {r.edge} |-> links[e]]
    /\ graphic' = [x \in DOMAIN graphic |-> IF x \in r.clear THEN None ELSE graphic[x]]
    /\ Done(r, lost, FALSE)
    /\ reshaped' = (reshaped \/ r.basis # tables)
    /\ UNCHANGED <<units, cik, views>>

ServeRefresh(r, lost) ==
    /\ r.kind = "refresh"
    /\ LET done == RedoCik(units, links)
       IN  IF r.redo THEN units' = done.units /\ links' = done.links /\ cik' = done.cik
           ELSE UNCHANGED <<units, links, cik>>
    /\ views' = IF r.views THEN Viewed(units) ELSE views
    /\ Done(r, lost, FALSE)
    /\ UNCHANGED <<graphic, reshaped>>

(* The schemas of addUnit and addConversion take no other keys.            *)
ValidBody(r) == r.kind \in {"createUnit", "createLink"} => r.keys = "as wanted"

Serve(r) ==
    \/ \E lost \in BOOLEAN :
        /\ lost => Fails
        /\ ValidBody(r)
        /\ \/ EditUnit(r, lost) \/ EraseUnit(r, lost)
           \/ EditLink(r, lost) \/ EraseLink(r, lost)
           \/ ServeRefresh(r, lost)
    \/ /\ \/ Fails
          \/ ~ValidBody(r)
          \/ (IF r.kind = "editUnit" THEN r.unit \notin DOMAIN units
              ELSE r.kind = "deleteUnit" /\ UnitUsed(r.unit))
       /\ Refuse(r)

-----------------------------------------------------------------------------
(* Another administrator, whose client is up to date and answered at once: *)
(* shows or hides a unit, chooses a default graphic unit.                  *)
Elsewhere ==
    /\ asked.elsewhere < MaxElsewhere
    /\ asked' = [asked EXCEPT !.elsewhere = @ + 1]
    /\ \/ \E u \in DOMAIN units, d \in Displayable :
            /\ UnitPage(u) \in Visited
            /\ units[u].disp # d
            /\ units[u].suffix = NoSuffix /\ units[u].type # "meter"
            /\ LET done == RedoCik([units EXCEPT ![u].disp = d], links)
               IN  units' = done.units /\ links' = done.links /\ cik' = done.cik
            /\ reshaped' = TRUE
            /\ UNCHANGED graphic
       \/ \E x \in Meters \cup Groups : \E u \in Graphable(DOMAIN cik, x) \ {graphic[x]} :
            /\ graphic' = [graphic EXCEPT ![x] = u]
            /\ reshaped' = (reshaped \/ sent # {} \/ "cik" \in owed)
            /\ UNCHANGED <<units, links, cik>>
    /\ UNCHANGED <<views, client, sent, owed>>

-----------------------------------------------------------------------------
Submits ==
    \/ \E u \in DOMAIN seen.units : DeleteUnit(u)
    \/ \E u \in DOMAIN seen.units, back \in BOOLEAN :
        /\ Page(UnitPage(u))
        /\ \E row \in Choosable(u, pages[UnitPage(u)]) : SaveUnit(u, row, back)
    \/ \E e \in DOMAIN seen.links :
        \/ CheckState(e)
        \/ /\ Page(LinkPage(e))
           /\ \E row \in LinkInputs(e), touched, back \in BOOLEAN : SaveLink(e, row, touched, back)
    \/ DeleteLink \/ KeepLink
    \/ \E row \in NewUnits : CreateUnit(row)
    \/ \E e \in NewLinks, row \in NewRows : CreateLink(e, row.bi, row.map)

Next ==
    \/ \E u \in DOMAIN seen.units : Open(UnitPage(u)) \/ Close(UnitPage(u))
    \/ \E e \in DOMAIN seen.links : Open(LinkPage(e)) \/ Close(LinkPage(e))
    \/ Submits
    \/ \E tag \in stale : Refetch(tag)
    \/ \E r \in sent : Serve(r)
    \/ Elsewhere

Spec == Init /\ [][Next]_vars

-----------------------------------------------------------------------------
(* When nothing is under way, Cik, the units made for suffixes and the     *)
(* reading views are what the tables give, unless an answer was lost or a  *)
(* page compared with a row that had changed: "Need to redo Cik if the     *)
(* suffix, displayable, or type of unit changes." and "Need to refresh     *)
(* reading views if unitRepresent or secInRate (when the unit is flow or   *)
(* raw) changes." (EditUnitModalComponent.tsx).                            *)
NothingOwed ==
    sent = {} =>
        /\ "cik" \notin owed => RedoCik(units, links) = [units |-> units, links |-> links, cik |-> cik]
        /\ "views" \notin owed => views = Viewed(units)

(* The units x reaches in the tables as the simulation takes them, but not *)
(* once what leads on from units with suffixes is cut.                     *)
OnlyBySuffix(x) ==
    Graphable(DOMAIN CikArray(units, links, Graph(links)), x) \ Graphable(DOMAIN cik, x)

(* Deleting conversions, one after the other, takes no unit away that a    *)
(* meter or a group is shown in by default, nor the last unit a group can  *)
(* be shown in, as long as the deletions are examined: "affected meters    *)
(* and groups" (conversionSimulation.js).  The exception are units that    *)
(* are still reached by way of a unit with a suffix: these the simulation  *)
(* takes to be kept, on its graph without the cuts.                        *)
DefaultsFit ==
    sent = {} /\ "cik" \notin owed /\ ~reshaped =>
        /\ \A x \in Meters \cup Groups :
            graphic[x] \in Graphable(DOMAIN cik, x) \cup {None} \/ graphic[x] \in OnlyBySuffix(x)
        /\ \A g \in Groups : Graphable(DOMAIN cik, g) # {} \/ OnlyBySuffix(g) # {}
=============================================================================
