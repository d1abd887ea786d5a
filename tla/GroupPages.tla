----------------------------- MODULE GroupPages -----------------------------
(***************************************************************************)
(* The pages on which an administrator creates, edits and deletes groups,  *)
(* between the copy of the groups the client keeps and the server.         *)
(*                                                                         *)
(* The server knows nothing of units that fit: the pages see to it that a  *)
(* group's default graphic unit suits all its meters, that no group gets   *)
(* empty or its own descendant, and write every group whose unit they had  *)
(* to give up.  They do so on copies of copies: the client's, which comes  *)
(* in two answers (the groups with all their meters, then the children of  *)
(* each), and the one each page edits.                                     *)
(*                                                                         *)
(* Requests are single steps here; GroupDag has what they do meanwhile.    *)
(***************************************************************************)
EXTENDS Integers, FiniteSets

CONSTANTS
    Ids,         \* the ids groups may ever get
    Meters,      \* the meters
    Kinds,       \* the units meters collect
    Compatible,  \* the units each of them can be graphed in (Cik)
    Places,      \* GPS coordinates
    Stored,      \* the groups there are at first
    Collected,   \* the unit each meter collects at first
    None,        \* no unit (-99), no coordinates (null), no page
    Hurried,     \* are pages used before the client has the groups' children?
    Fails,       \* may the server fail a request for reasons of its own?
    MaxSaves     \* bound on what the administrator submits

Units == UNION {Compatible[k] : k \in Kinds}
Children == Ids \cup Meters

ASSUME NamesAssumption == Ids \cap Meters = {} /\ None \notin Children \cup Units \cup Places
ASSUME CikAssumption == Compatible \in [Kinds -> SUBSET Units]
ASSUME PagesAssumption == "create" \notin Ids \cup {None}

VARIABLES
    groups,      \* the tables of groups: each with its kids, unit and gps
    unitOf,      \* the unit each meter collects
    used,        \* the ids given so far
    cache,       \* the client's groups: kids, deep (all meters), unit, gps
    fetched,     \* how much of the cache is there: "stale", "groups", "children"
    pages,       \* the copy of all groups in each group's page, and if it is touched
    open,        \* the page that is open: one of a group, "create", or none
    draft,       \* the group on the page that creates one
    asking,      \* the page that waits to be told the parents of its group
    known,       \* the parents the client was told before, of each group
    requests,    \* what is submitted and not answered
    saves,       \* how often something was submitted
    shown,       \* history: the groups as the page saved last showed them, until the next
                 \* one opens
    refused,     \* history: the groups of which an edit by that page was refused
    bereft       \* history: the groups of which a child was deleted by a page that was
                 \* not told of them

server == <<groups, unitOf, used>>
client == <<cache, fetched, pages, open, draft, asking, known>>
history == <<shown, refused, bereft>>
vars == <<server, client, requests, saves, history>>

-----------------------------------------------------------------------------
(* All groups below g, and g; all their meters.                            *)
Reach(rows, g) ==
    {x \in Ids : \A S \in SUBSET Ids :
        g \in S /\ (\A y \in S \cap DOMAIN rows : rows[y].kids \cap Ids \subseteq S) => x \in S}

DeepMeters(rows, g) ==
    UNION {rows[x].kids \cap Meters : x \in Reach(rows, g) \cap DOMAIN rows}

(* The groups there are at first were made on these pages: each has a      *)
(* meter.                                                                  *)
ASSUME StoredAssumption ==
    /\ DOMAIN Stored \subseteq Ids
    /\ \A g \in DOMAIN Stored :
        /\ Stored[g] \in [kids : SUBSET Children, unit : Units \cup {None}, gps : Places \cup {None}]
        /\ DeepMeters(Stored, g) # {}

Circular(rows, g) == \E k \in rows[g].kids \cap Ids : g \in Reach(rows, k)

(* The page's own computation: none as soon as a group below is circular   *)
(* or has no children.                                                     *)
MetersInGroup(rows, g) ==
    IF \E x \in Reach(rows, g) : Circular(rows, x) \/ rows[x].kids = {}
    THEN {} ELSE DeepMeters(rows, g)

CompatibleWithMeters(meters) ==
    IF meters = {} THEN {}
    ELSE {u \in Units : \A m \in meters : u \in Compatible[unitOf[m]]}

(* What becomes of a group of the given units that gets others as well.    *)
GroupCase(current, new, unit) ==
    LET lost == current \ new
    IN  CASE lost = {} -> "NoChange"
          [] lost # {} /\ lost = current -> "NoCompatibleUnits"
          [] lost # {} /\ lost # current /\ unit \in lost -> "LostDefaultGraphicUnit"
          [] OTHER -> "LostCompatibleUnits"

Fits(row) == row.unit = None \/ row.unit \in CompatibleWithMeters(row.deep)

(* The children the menus offer for a group of these meters.               *)
Offered(deep, unit, c) ==
    GroupCase(CompatibleWithMeters(deep),
              CompatibleWithMeters(IF c \in Meters THEN {c} ELSE cache[c].deep),
              unit) # "NoCompatibleUnits"

Choices(deep) == CompatibleWithMeters(deep) \cup {None}

Parents(g) == {p \in DOMAIN groups : g \in groups[p].kids}

-----------------------------------------------------------------------------
(* The client's copy.                                                      *)

Typed(p) == <<"typed", p>>
NoDraft == [kids |-> {}, deep |-> {}, unit |-> None, gps |-> None]

CopyOf(rows) == [g \in DOMAIN rows |-> [rows |-> rows, touched |-> FALSE]]

WithChildren ==
    [g \in DOMAIN groups |-> [kids |-> groups[g].kids, deep |-> DeepMeters(groups, g),
                              unit |-> groups[g].unit, gps |-> groups[g].gps]]

Init ==
    /\ groups = Stored
    /\ unitOf = Collected
    /\ used = DOMAIN Stored
    /\ cache = WithChildren
    /\ fetched = "children"
    /\ pages = CopyOf(cache)
    /\ open = None
    /\ draft = NoDraft
    /\ asking = None
    /\ known = [g \in Ids |-> None]
    /\ requests = {}
    /\ saves = 0
    /\ shown = <<>>
    /\ refused = {}
    /\ bereft = {}

(* The server's answers: the groups with all their meters, and the         *)
(* children of each.                                                       *)
GroupRows == [g \in DOMAIN groups |-> [WithChildren[g] EXCEPT !.kids = {}]]
ChildRows == [g \in DOMAIN groups |-> groups[g].kids]

(* An edit invalidates the copy once no request is open.  The answer with  *)
(* the groups has no children; pages are set back to whatever comes.       *)
GetGroups ==
    /\ fetched = "stale"
    /\ requests = {}
    /\ cache' = GroupRows
    /\ fetched' = "groups"
    /\ pages' = CopyOf(cache')
    /\ UNCHANGED <<server, open, draft, asking, known, requests, saves, history>>

GetChildren ==
    /\ fetched = "groups"
    /\ cache' = [g \in DOMAIN cache |->
                    IF g \in DOMAIN ChildRows
                    THEN [cache[g] EXCEPT !.kids = ChildRows[g]] ELSE cache[g]]
    /\ fetched' = "children"
    /\ pages' = CopyOf(cache')
    /\ UNCHANGED <<server, open, draft, asking, known, requests, saves, history>>

(* What the client was told of parents it drops after a minute, and only   *)
(* then: no edit invalidates it.                                           *)
ForgetParents(g) ==
    /\ known[g] # None
    /\ known' = [known EXCEPT ![g] = None]
    /\ UNCHANGED <<server, cache, fetched, pages, open, draft, asking, requests, saves, history>>

-----------------------------------------------------------------------------
(* The page that edits group g.                                            *)

Settled == fetched = "children" /\ requests = {} /\ asking = None

Open(page) ==
    /\ open = None
    /\ saves < MaxSaves
    /\ page \in DOMAIN pages \/ page = "create"
    /\ Hurried \/ Settled
    /\ open' = page
    /\ shown' = <<>>
    /\ refused' = {}
    /\ UNCHANGED <<server, cache, fetched, pages, draft, asking, known, requests, saves, bereft>>

(* One page is open at a time, and waits for what it asked.                *)
Usable(g) == open = g /\ asking = None /\ g \in DOMAIN pages

Show(g, page) ==
    /\ pages' = [pages EXCEPT ![g] = page]
    /\ UNCHANGED <<server, cache, fetched, open, draft, asking, known, requests, saves, history>>

(* A name, a note, an area: any other change the page would save.          *)
Touch(g) == Usable(g) /\ pages[g].rows = cache /\ Show(g, [pages[g] EXCEPT !.touched = TRUE])

ChooseUnit(g, u) ==
    /\ Usable(g)
    /\ u \in Choices(pages[g].rows[g].deep)
    /\ Show(g, [pages[g] EXCEPT !.rows[g].unit = u])

TypeGps(g, p) == Usable(g) /\ Show(g, [pages[g] EXCEPT !.rows[g].gps = Typed(p)])

(* The rows with g's children changed and all meters computed again; none  *)
(* if a group is left circular or empty.                                   *)
Recomputed(rows, g, kids) ==
    LET changed == [rows EXCEPT ![g].kids = kids]
        deep(x) == MetersInGroup(changed, x)
    IN  IF \E x \in DOMAIN rows : ~(rows[x].kids \subseteq DOMAIN rows \cup Meters) \/ deep(x) = {}
        THEN {} ELSE {[x \in DOMAIN rows |-> [changed[x] EXCEPT !.deep = deep(x)]]}

(* The children the menus offer: any group or meter but the group itself   *)
(* and those it has, if a unit is left for all.                            *)
Menu(g) ==
    LET row == pages[g].rows[g]
    IN  {c \in (DOMAIN cache \cup Meters) \ (row.kids \cup {g}) : Offered(row.deep, row.unit, c)}

(* The child is tried on a copy, and the parents of the group asked for:   *)
(* what the page does with the answer starts from what it showed then.     *)
AssignChild(g, c) ==
    LET rows == pages[g].rows IN
    /\ Usable(g)
    /\ c \in Menu(g)
    /\ Recomputed(rows, g, rows[g].kids \cup {c}) # {}
    /\ asking' = [what |-> "assign", group |-> g, child |-> c, rows |-> rows]
    /\ UNCHANGED <<server, cache, fetched, pages, open, draft, known, requests, saves, history>>

ToldParents(g) ==
    /\ known' = IF known[g] = None THEN [known EXCEPT ![g] = Parents(g)] ELSE known
    /\ asking' = None

(* The answer to the page: what the client was told before, if it was.     *)
ParentsOf(g) == IF known[g] = None THEN Parents(g) ELSE known[g]

(* The parents that answer leaves out: g is their child since less than a  *)
(* minute.                                                                 *)
Untold(g) == Parents(g) \ ParentsOf(g)

(* Fault: only the group itself is examined.                               *)
AffectedItself(g) == {g}

(* The groups whose unit is examined: the group and its parents.           *)
Affected(g) == {g} \cup ParentsOf(g)

(* None if the change must not be; else the units given up that are lost.  *)
Validated(old, new, examined) ==
    LET case(x) == GroupCase(CompatibleWithMeters(old[x].deep),
                             CompatibleWithMeters(new[x].deep), old[x].unit)
    IN  IF \E x \in examined : x \notin DOMAIN old \/ case(x) = "NoCompatibleUnits"
        THEN {}
        ELSE {[x \in DOMAIN new |->
                IF x \in examined /\ case(x) = "LostDefaultGraphicUnit"
                THEN [new[x] EXCEPT !.unit = None] ELSE new[x]]}

(* The answer is there and the administrator agrees, or does not.          *)
ConfirmAssign ==
    /\ asking # None
    /\ asking.what = "assign"
    /\ LET g == asking.group
           old == asking.rows
       IN  /\ ToldParents(g)
           /\ \/ /\ g \in DOMAIN pages
                 /\ \E temp \in Recomputed(old, g, old[g].kids \cup {asking.child}) :
                    \E new \in Validated(old, temp, Affected(g)) :
                        pages' = [pages EXCEPT ![g].rows = new]
              \/ UNCHANGED pages
    /\ UNCHANGED <<server, cache, fetched, open, draft, requests, saves, history>>

RemoveChild(g, c) ==
    LET rows == pages[g].rows IN
    /\ Usable(g)
    /\ c \in rows[g].kids
    /\ \E new \in Recomputed(rows, g, rows[g].kids \ {c}) :
        Show(g, [pages[g] EXCEPT !.rows = new])

(* Closing sets the page back, not what it still waits for.                *)
Close(g) ==
    /\ open = g
    /\ open' = None
    /\ pages' = IF g \in DOMAIN cache
                THEN [pages EXCEPT ![g] = [rows |-> cache, touched |-> FALSE]] ELSE pages
    /\ UNCHANGED <<server, cache, fetched, draft, asking, known, requests, saves, history>>

Submits == saves < MaxSaves /\ saves' = saves + 1

Edit(x, row, gps) ==
    [kind |-> "edit", group |-> x, kids |-> row.kids, unit |-> row.unit, gps |-> gps]

(* The coordinates typed, or null.                                         *)
Coordinates(row) == IF \E p \in Places : row.gps = Typed(p) THEN row.gps[2] ELSE None

(* "Group must have at least one child (i.e has deep child meters)"; names *)
(* and areas are taken to be right.                                        *)
ValidGroup(row) == row.deep # {}

EditMade(g) ==
    LET row == pages[g].rows[g]
    IN  pages[g].touched \/ row # [cache[g] EXCEPT !.deep = row.deep]

(* Every group whose unit differs is written, and the group edited, all at *)
(* once, in requests of their own and all with the coordinates of the one  *)
(* edited.  From the warning of unsaved changes the page is set back then. *)
SaveGroup(g, back) ==
    LET page == pages[g]
        rows == page.rows
        row == rows[g]
        changed == {x \in DOMAIN rows : rows[x].unit # cache[x].unit} \cup {g}
    IN  /\ Usable(g)
        /\ ValidGroup(row)
        /\ EditMade(g)
        /\ Submits
        /\ requests' = requests \cup {Edit(x, rows[x], Coordinates(row)) : x \in changed}
        /\ shown' = rows
        /\ refused' = {}
        /\ open' = None
        /\ pages' = IF back THEN [pages EXCEPT ![g] = [rows |-> cache, touched |-> FALSE]] ELSE pages
        /\ UNCHANGED <<server, cache, fetched, draft, asking, known, bereft>>

(* The page is left: at once if nothing is edited, or from the warning, to *)
(* discard the changes or to save them.                                    *)
Leave(g) == Close(g) \/ SaveGroup(g, TRUE)

AskDelete(g) ==
    /\ Usable(g)
    /\ asking' = [what |-> "delete", group |-> g]
    /\ UNCHANGED <<server, cache, fetched, pages, open, draft, known, requests, saves, history>>

(* Fault: only the answer's arrival counts.                                *)
DeletableAlways(g) == TRUE

(* A group that has parents is not deleted.                                *)
Deletable(g) == ParentsOf(g) = {}

ConfirmDelete ==
    /\ asking # None
    /\ asking.what = "delete"
    /\ ToldParents(asking.group)
    /\ \/ /\ Deletable(asking.group)
          /\ Submits
          /\ requests' = requests \cup {[kind |-> "delete", group |-> asking.group]}
          /\ shown' = <<>>
          /\ bereft' = bereft \cup Untold(asking.group)
          /\ open' = None
       \/ UNCHANGED <<requests, saves, shown, bereft, open>>
    /\ UNCHANGED <<server, cache, fetched, pages, draft, refused>>

-----------------------------------------------------------------------------
(* The page that creates a group.                                          *)

DraftUsable == open = "create"

Draft(d) ==
    /\ draft' = d
    /\ UNCHANGED <<server, cache, fetched, pages, open, asking, known, requests, saves, history>>

CloseDraft ==
    /\ DraftUsable
    /\ open' = None
    /\ draft' = NoDraft
    /\ UNCHANGED <<server, cache, fetched, pages, asking, known, requests, saves, history>>

MetersInChangedGroup(kids) ==
    (kids \cap Meters) \cup UNION {cache[x].deep : x \in kids \cap DOMAIN cache}

DraftMenu ==
    {c \in DOMAIN cache \cup Meters : Offered(MetersInChangedGroup(draft.kids), draft.unit, c)}

DraftChildren(c) ==
    LET kids == IF c \in draft.kids THEN draft.kids \ {c} ELSE draft.kids \cup {c}
        deep == MetersInChangedGroup(kids)
    IN  /\ DraftUsable
        /\ c \in DOMAIN cache \cup Meters
        /\ c \in draft.kids \cup DraftMenu
        /\ Draft([draft EXCEPT !.kids = kids, !.deep = deep,
                               !.unit = IF @ \in Choices(deep) THEN @ ELSE None])

DraftUnit(u) ==
    /\ DraftUsable
    /\ u \in Choices(draft.deep)
    /\ Draft([draft EXCEPT !.unit = u])

CanCreate == ValidGroup(draft) /\ draft # NoDraft

CreateGroup ==
    /\ DraftUsable
    /\ CanCreate
    /\ Submits
    /\ requests' = requests \cup {[kind |-> "create", kids |-> draft.kids, unit |-> draft.unit,
                                   gps |-> Coordinates(draft)]}
    /\ shown' = <<>>
    /\ open' = None
    /\ draft' = NoDraft
    /\ UNCHANGED <<server, cache, fetched, pages, asking, known, refused, bereft>>

(* As of the other page; there is nothing to discard if nothing was done.  *)
LeaveDraft == CloseDraft \/ CreateGroup

(* The page of a meter lets its unit change if no group of the client's    *)
(* copy has the meter.  To go there is to leave the pages of groups.       *)
EditMeterUnit(m, k) ==
    /\ Hurried \/ Settled
    /\ open = None
    /\ k # unitOf[m]
    /\ \A g \in DOMAIN cache : m \notin cache[g].deep
    /\ Submits
    /\ unitOf' = [unitOf EXCEPT ![m] = k]
    /\ pages' = CopyOf(cache)
    /\ UNCHANGED <<groups, used, cache, fetched, open, draft, asking, known, requests, history>>

-----------------------------------------------------------------------------
(* The server.                                                             *)

(* The schema of both requests wants a unit of at least 1, and no unit is  *)
(* -99.                                                                    *)
Accepts(r) == r.unit # None

Answer(r) == requests' = requests \ {r} /\ fetched' = "stale"

Refuse(r) ==
    /\ Answer(r)
    /\ refused' = IF r.kind = "edit" THEN refused \cup {r.group} ELSE refused
    /\ UNCHANGED <<server, cache, pages, open, draft, asking, known, saves, shown, bereft>>

Change(r, rows, ids) ==
    /\ Answer(r)
    /\ groups' = rows
    /\ used' = used \cup ids
    /\ UNCHANGED <<unitOf, cache, pages, open, draft, asking, known, saves, history>>

(* The row of a request; -99, no unit, becomes NULL.                       *)
NewRow(r) == [kids |-> r.kids, unit |-> r.unit, gps |-> r.gps]

AnswerCreate(r) ==
    /\ r.kind = "create"
    /\ \E g \in Ids \ used :
        IF Accepts(r) /\ r.kids \subseteq DOMAIN groups \cup Meters
        THEN Change(r, [x \in DOMAIN groups \cup {g} |->
                            IF x = g THEN NewRow(r) ELSE groups[x]], {g})
        ELSE Refuse(r)

(* Fault: children are adopted and none disowned.                          *)
EditedAdopts(r) ==
    [groups EXCEPT ![r.group] = [kids |-> @.kids \cup r.kids, unit |-> r.unit, gps |-> r.gps]]

Edited(r) == [groups EXCEPT ![r.group] = NewRow(r)]

AnswerEdit(r) ==
    /\ r.kind = "edit"
    /\ IF /\ Accepts(r)
          /\ r.group \in DOMAIN groups
          /\ r.kids \ groups[r.group].kids \subseteq DOMAIN groups \cup Meters
          /\ ~Circular(Edited(r), r.group)
       THEN Change(r, Edited(r), {})
       ELSE Refuse(r)

AnswerDelete(r) ==
    /\ r.kind = "delete"
    /\ Change(r, [x \in DOMAIN groups \ {r.group} |->
                    [groups[x] EXCEPT !.kids = @ \ {r.group}]], {})

Fail(r) == Fails /\ Refuse(r)

Serve(r) == AnswerCreate(r) \/ AnswerEdit(r) \/ AnswerDelete(r) \/ Fail(r)

-----------------------------------------------------------------------------
(* What the controls of the two pages call.                                *)
EditPage(g) ==
    \/ Open(g) \/ Touch(g) \/ Leave(g) \/ AskDelete(g)
    \/ \E u \in Units \cup {None} : ChooseUnit(g, u)
    \/ \E p \in Places : TypeGps(g, p)
    \/ \E c \in Children : AssignChild(g, c) \/ RemoveChild(g, c)
    \/ SaveGroup(g, FALSE)

CreatePage ==
    \/ Open("create") \/ LeaveDraft
    \/ \E c \in Children : DraftChildren(c)
    \/ \E u \in Units \cup {None} : DraftUnit(u)

Next ==
    \/ GetGroups \/ GetChildren
    \/ \E g \in Ids : EditPage(g) \/ ForgetParents(g)
    \/ ConfirmAssign \/ ConfirmDelete
    \/ CreatePage
    \/ \E m \in Meters, k \in Kinds : EditMeterUnit(m, k)
    \/ \E r \in requests : Serve(r)

Spec == Init /\ [][Next]_vars

-----------------------------------------------------------------------------
(* A child a page accepts never leaves the group, or a parent the page is  *)
(* told of, with a default graphic unit that no longer suits its meters,   *)
(* when it did before (validateGroupPostAddChild, on the meters computed   *)
(* again).  A parent of less than a minute, which an answer kept by the    *)
(* client leaves out, is left with one.                                    *)
AcceptedChildrenFit ==
    [][ConfirmAssign /\ pages' # pages =>
        LET g == asking.group IN
        \A x \in ({g} \cup Parents(g)) \ Untold(g) :
            Fits(asking.rows[x]) => Fits(pages'[g].rows[x])]_vars

(* Once every request of a page is served, the server has of every group   *)
(* the unit the page showed when it was saved, and its meters, unless the  *)
(* edit of a group was refused: the meters the page computes and those of  *)
(* the view groups_deep_meters agree, groups changed on the side are       *)
(* written too, and what is refused of one keeps no other from being       *)
(* written (handleSubmit).                                                 *)
SavesWhatIsShown ==
    requests = {} =>
        \A g \in DOMAIN shown :
            /\ g \in DOMAIN groups
            /\ g \notin refused => groups[g].unit = shown[g].unit
            /\ (\A x \in refused : groups[x].kids = shown[x].kids)
                => DeepMeters(groups, g) = shown[g].deep

(* No group loses its last meter, however groups above and below it are    *)
(* edited and deleted: "Group must have at least one child (i.e has deep   *)
(* child meters)" (EditGroupModalComponent.tsx, validation).  The exception *)
(* is a group with one below it of which a child was deleted by a page     *)
(* that was not told that it has a parent by now.                          *)
NeverEmptied ==
    \A g \in DOMAIN groups : DeepMeters(groups, g) # {} \/ Reach(groups, g) \cap bereft # {}
=============================================================================
