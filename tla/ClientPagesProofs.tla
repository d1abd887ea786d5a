------------------------- MODULE ClientPagesProofs -------------------------
(***************************************************************************)
(* Proofs about the pages of the client that hold a form over a copy of    *)
(* what the server stores.  The two parts share nothing but the module.    *)
(*                                                                         *)
(* GroupPages, for any groups, meters, units and number of saves, when the *)
(* pages are used only once the client has the groups' children: what is   *)
(* saved is what was shown, and, but for parents a kept answer leaves out, *)
(* no group loses its last meter, and a child a page accepts leaves no     *)
(* unit that does not suit.                                                *)
(*                                                                         *)
(* Preferences, for any tabs, requests and settings: however saves cross,  *)
(* the row is one form as a whole, its dates get out of order only through *)
(* the dialog, and a tab at rest has seen its own saves.                   *)
(***************************************************************************)
EXTENDS GroupPages, Preferences, TLAPS

GroupFields == {"kids", "unit", "gps"}
RowFields == {"kids", "deep", "unit", "gps"}
PageFields == {"rows", "touched"}

Shapes ==
    /\ DOMAIN groups \subseteq Ids \cap used
    /\ \A g \in DOMAIN groups : DOMAIN groups[g] = GroupFields
    /\ DOMAIN cache \subseteq Ids
    /\ \A g \in DOMAIN cache : DOMAIN cache[g] = RowFields
    /\ DOMAIN pages = DOMAIN cache
    /\ \A g \in DOMAIN pages : DOMAIN pages[g] = PageFields
    /\ fetched \in {"stale", "groups", "children"}
    /\ open \in Ids \cup {"create", None}
    /\ DOMAIN draft = RowFields
    /\ draft.deep # {} => draft.kids # {}
    /\ DOMAIN known = Ids

(* Nothing is on its way, and the client's copy is there.                  *)
Calm == fetched = "children" /\ requests = {}

(* A group has a meter, or lost one below it to a page not told of it.     *)
Kept(rows, x) == DeepMeters(rows, x) # {} \/ Reach(rows, x) \cap bereft # {}

(* The meters a page shows are those it computes, and no group lost them.  *)
Sound(rows) ==
    \A x \in DOMAIN rows :
        /\ DOMAIN rows[x] = RowFields
        /\ rows[x].deep = DeepMeters(rows, x)
        /\ Kept(rows, x)

(* The page of g changes the children of g only.                           *)
PageRows(rows, g) ==
    /\ DOMAIN rows = DOMAIN cache
    /\ Sound(rows)
    /\ \A x \in DOMAIN rows \ {g} : rows[x].kids = cache[x].kids

Waits(a) ==
    /\ a.group \in Ids
    /\ a.what \in {"assign", "delete"}
    /\ a.what = "assign" => a.group \in DOMAIN cache /\ PageRows(a.rows, a.group)

(* Nobody works on a copy that is not the server's.                        *)
Alone == open # None \/ asking # None => Calm

AsksWell ==
    asking # None =>
        /\ Waits(asking)
        /\ open \in {None, asking.group}

Copied ==
    /\ DOMAIN cache = DOMAIN groups
    /\ \A g \in DOMAIN groups :
        cache[g].deep = DeepMeters(groups, g) /\ cache[g].unit = groups[g].unit

GroupsFetched == fetched = "groups" => requests = {} /\ Copied

Current ==
    Calm => /\ Copied
            /\ \A g \in DOMAIN groups : cache[g].kids = groups[g].kids
            /\ \A g \in DOMAIN pages : PageRows(pages[g].rows, g)

(* A new group and a deletion are asked for alone; the edits that are      *)
(* asked for together write what one page showed.                          *)
Asked(r) ==
    \/ /\ r.kind = "create" /\ requests = {r} /\ DOMAIN shown = {}
       /\ r.kids # {}
    \/ /\ r.kind = "delete" /\ requests = {r} /\ DOMAIN shown = {}
       /\ Parents(r.group) \subseteq bereft
    \/ /\ r.kind = "edit" /\ r.group \in DOMAIN shown
       /\ r.kids = shown[r.group].kids /\ r.unit = shown[r.group].unit

(* Of what the page showed at most one group has other children yet.       *)
Batch ==
    requests # {} /\ DOMAIN shown # {} =>
        /\ DOMAIN shown = DOMAIN groups
        /\ \E g \in DOMAIN groups : \A x \in DOMAIN groups \ {g} : groups[x].kids = shown[x].kids

Written ==
    DOMAIN shown # {} =>
        /\ DOMAIN shown = DOMAIN groups
        /\ \A x \in DOMAIN groups :
            \/ x \in refused
            \/ groups[x].kids = shown[x].kids /\ groups[x].unit = shown[x].unit
            \/ \E r \in requests : r.kind = "edit" /\ r.group = x

Requested == (\A r \in requests : Asked(r)) /\ Sound(shown) /\ Batch /\ Written

IInv == ~Hurried /\ Shapes /\ Alone /\ AsksWell /\ GroupsFetched /\ Current /\ Requested /\ NeverEmptied

-----------------------------------------------------------------------------
(* Meters below a group depend on the children only.                       *)

LEMMA InDeep ==
    ASSUME NEW rows, NEW g, NEW m
    PROVE  m \in DeepMeters(rows, g) <=>
            \E x \in Reach(rows, g) \cap DOMAIN rows : m \in rows[x].kids \cap Meters
  BY DEF DeepMeters

LEMMA SameKids ==
    ASSUME NEW A, NEW B, DOMAIN A = DOMAIN B, \A x \in DOMAIN A : A[x].kids = B[x].kids, NEW g
    PROVE  /\ Reach(A, g) = Reach(B, g)
           /\ DeepMeters(A, g) = DeepMeters(B, g)
           /\ Kept(A, g) <=> Kept(B, g)
  <1>1. Reach(A, g) = Reach(B, g)
    BY DEF Reach
  <1>2. \A m : m \in DeepMeters(A, g) <=> m \in DeepMeters(B, g)
    BY <1>1, InDeep
  <1>3. DeepMeters(A, g) = DeepMeters(B, g)
    BY <1>2
  <1>4. QED
    BY <1>1, <1>3 DEF Kept

(* More groups, with the children of the others as they were.              *)
LEMMA MoreGroups ==
    ASSUME NEW A, NEW B, DOMAIN A \subseteq DOMAIN B,
           \A x \in DOMAIN A : A[x].kids = B[x].kids, NEW g
    PROVE  Kept(A, g) => Kept(B, g)
  <1>1. Reach(A, g) \subseteq Reach(B, g)
    BY DEF Reach
  <1>2. DeepMeters(A, g) \subseteq DeepMeters(B, g)
    BY <1>1, InDeep
  <1>3. QED
    BY <1>1, <1>2 DEF Kept

LEMMA ReachSelf ==
    ASSUME NEW A, NEW g \in Ids
    PROVE  g \in Reach(A, g)
  BY DEF Reach

LEMMA ReachKid ==
    ASSUME NEW A, NEW g \in Ids, g \in DOMAIN A, NEW c \in A[g].kids \cap Ids
    PROVE  Reach(A, c) \subseteq Reach(A, g)
  BY DEF Reach

LEMMA ReachClosed ==
    ASSUME NEW A, NEW g, NEW y \in Reach(A, g) \cap DOMAIN A, NEW c \in A[y].kids \cap Ids
    PROVE  c \in Reach(A, g)
  BY DEF Reach

(* A new group has the meters of its children.                             *)
LEMMA KidsMeters ==
    ASSUME NEW A, NEW g \in Ids, g \in DOMAIN A, NEW c \in A[g].kids,
           c \in Meters \/ (c \in Ids /\ Kept(A, c))
    PROVE  Kept(A, g)
  <1>1. CASE c \in Meters
    BY <1>1, ReachSelf, InDeep DEF Kept
  <1>2. CASE c \in Ids /\ Kept(A, c)
    <2>1. Reach(A, c) \subseteq Reach(A, g)
      BY <1>2, ReachKid
    <2>2. DeepMeters(A, c) \subseteq DeepMeters(A, g)
      BY <2>1, InDeep
    <2>3. QED
      BY <1>2, <2>1, <2>2 DEF Kept
  <1>3. QED
    BY <1>1, <1>2

(* A group is deleted of which all parents are taken for bereft.           *)
LEMMA WithoutGroup ==
    ASSUME NEW A, NEW B, NEW d, DOMAIN B = DOMAIN A \ {d},
           \A x \in DOMAIN B : B[x].kids = A[x].kids \ {d} /\ (d \in A[x].kids => x \in bereft),
           NEW g \in Ids, g # d, Kept(A, g)
    PROVE  Kept(B, g)
  <1> SUFFICES ASSUME Reach(B, g) \cap bereft = {} PROVE DeepMeters(B, g) # {}
    BY DEF Kept
  <1> DEFINE S == Reach(B, g) \ {d}
  <1>1. \A y \in S \cap DOMAIN A : A[y].kids \cap Ids \subseteq S
    <2> SUFFICES ASSUME NEW y \in S \cap DOMAIN A, NEW c \in A[y].kids \cap Ids PROVE c \in S
      OBVIOUS
    <2>1. y \in DOMAIN B /\ c # d /\ c \in B[y].kids
      OBVIOUS
    <2>2. QED
      BY <2>1, ReachClosed
  <1>2. S \in SUBSET Ids /\ g \in S
    BY ReachSelf DEF Reach
  <1> HIDE DEF S
  <1>3. Reach(A, g) \subseteq S
    BY <1>1, <1>2 DEF Reach
  <1>4. PICK m : m \in DeepMeters(A, g)
    BY <1>3 DEF Kept, S
  <1>5. PICK x \in Reach(A, g) \cap DOMAIN A : m \in A[x].kids \cap Meters
    BY <1>4, InDeep
  <1>6. x \in Reach(B, g) \cap DOMAIN B /\ d \notin A[x].kids
    BY <1>3, <1>5 DEF S
  <1>7. m \in DeepMeters(B, g)
    BY <1>5, <1>6, InDeep
  <1>8. QED
    BY <1>7

-----------------------------------------------------------------------------
(* What a page shows.                                                      *)

LEMMA RecomputedRows ==
    ASSUME NEW rows, NEW g \in DOMAIN cache, PageRows(rows, g), NEW kids,
           NEW new \in Recomputed(rows, g, kids)
    PROVE  PageRows(new, g) /\ \A x \in DOMAIN rows : new[x].unit = rows[x].unit
  <1> DEFINE changed == [rows EXCEPT ![g].kids = kids]
             deep(x) == MetersInGroup(changed, x)
  <1>1. /\ DOMAIN rows = DOMAIN cache /\ \A x \in DOMAIN rows : DOMAIN rows[x] = RowFields
        /\ \A x \in DOMAIN rows \ {g} : rows[x].kids = cache[x].kids
    BY DEF PageRows, Sound
  <1>2. /\ new = [x \in DOMAIN rows |-> [changed[x] EXCEPT !.deep = deep(x)]]
        /\ \A x \in DOMAIN rows : deep(x) # {}
    BY DEF Recomputed
  <1>3. \A x : deep(x) # {} => deep(x) = DeepMeters(changed, x)
    BY DEF MetersInGroup
  <1>4. /\ DOMAIN changed = DOMAIN rows
        /\ \A x \in DOMAIN rows : DOMAIN changed[x] = RowFields /\ changed[x].unit = rows[x].unit
        /\ \A x \in DOMAIN rows \ {g} : changed[x].kids = rows[x].kids
    BY <1>1 DEF RowFields
  <1> HIDE DEF changed, deep
  <1>5. /\ DOMAIN new = DOMAIN rows
        /\ \A x \in DOMAIN rows :
            /\ DOMAIN new[x] = RowFields /\ new[x].deep = deep(x) /\ new[x].kids = changed[x].kids
            /\ new[x].unit = changed[x].unit
    BY <1>2, <1>4 DEF RowFields
  <1>6. \A x : DeepMeters(new, x) = DeepMeters(changed, x)
    BY <1>4, <1>5, SameKids
  <1>7. Sound(new)
    BY <1>2, <1>3, <1>5, <1>6 DEF Sound, Kept
  <1>8. QED
    BY <1>1, <1>4, <1>5, <1>7 DEF PageRows

(* Rows that differ in units and places only.                              *)
LEMMA OtherUnits ==
    ASSUME NEW rows, NEW g, PageRows(rows, g), NEW new, DOMAIN new = DOMAIN rows,
           \A x \in DOMAIN rows : /\ DOMAIN new[x] = RowFields
                                  /\ new[x].kids = rows[x].kids /\ new[x].deep = rows[x].deep
    PROVE  PageRows(new, g)
  <1>1. \A x : DeepMeters(new, x) = DeepMeters(rows, x) /\ (Kept(new, x) <=> Kept(rows, x))
    BY SameKids
  <1>2. QED
    BY <1>1 DEF PageRows, Sound

LEMMA ValidatedRows ==
    ASSUME NEW rows, NEW g, PageRows(rows, g), NEW old, NEW examined,
           NEW new \in Validated(old, rows, examined)
    PROVE  PageRows(new, g)
  <1> DEFINE lost(x) == /\ x \in examined
                        /\ GroupCase(CompatibleWithMeters(old[x].deep),
                                     CompatibleWithMeters(rows[x].deep),
                                     old[x].unit) = "LostDefaultGraphicUnit"
  <1>1. new = [x \in DOMAIN rows |-> IF lost(x) THEN [rows[x] EXCEPT !.unit = None] ELSE rows[x]]
    BY DEF Validated
  <1> HIDE DEF lost
  <1>2. \A x \in DOMAIN rows : DOMAIN rows[x] = RowFields
    BY DEF PageRows, Sound
  <1>3. /\ DOMAIN new = DOMAIN rows
        /\ \A x \in DOMAIN rows : /\ DOMAIN new[x] = RowFields
                                  /\ new[x].kids = rows[x].kids /\ new[x].deep = rows[x].deep
    BY <1>1, <1>2 DEF RowFields
  <1>4. QED
    BY <1>3, OtherUnits

(* The client's copy is a page that changed nothing.                       *)
LEMMA CopyRows ==
    ASSUME IInv, Calm, NEW g
    PROVE  PageRows(cache, g)
  <1>1. \A x : /\ DeepMeters(cache, x) = DeepMeters(groups, x)
               /\ Kept(cache, x) <=> Kept(groups, x)
    BY SameKids DEF IInv, Current, Copied
  <1>2. \A x \in DOMAIN groups : Kept(groups, x)
    BY DEF IInv, NeverEmptied, Kept
  <1>3. QED
    BY <1>1, <1>2 DEF IInv, Shapes, Current, Copied, PageRows, Sound

-----------------------------------------------------------------------------
(* Init and the steps.                                                     *)

LEMMA Initially == ~Hurried /\ Init => IInv
  <1> SUFFICES ASSUME ~Hurried, Init PROVE IInv
    OBVIOUS
  <1>1. /\ DOMAIN groups \subseteq Ids
        /\ \A g \in DOMAIN groups : DOMAIN groups[g] = GroupFields /\ DeepMeters(groups, g) # {}
    BY StoredAssumption DEF Init, GroupFields
  <1>2. /\ DOMAIN cache = DOMAIN groups
        /\ \A g \in DOMAIN groups :
            /\ DOMAIN cache[g] = RowFields /\ cache[g].kids = groups[g].kids
            /\ cache[g].deep = DeepMeters(groups, g) /\ cache[g].unit = groups[g].unit
    BY DEF Init, WithChildren, RowFields
  <1>3. /\ DOMAIN pages = DOMAIN cache
        /\ \A g \in DOMAIN pages : DOMAIN pages[g] = PageFields /\ pages[g].rows = cache
    BY DEF Init, CopyOf, PageFields
  <1>4. /\ fetched = "children" /\ open = None /\ DOMAIN known = Ids /\ requests = {}
        /\ DOMAIN draft = RowFields /\ draft.deep = {} /\ used = DOMAIN groups
        /\ asking = None /\ DOMAIN shown = {}
    BY DEF Init, NoDraft, RowFields
  <1>5. \A x : DeepMeters(cache, x) = DeepMeters(groups, x)
    BY <1>2, SameKids
  <1>6. Shapes
    BY <1>1, <1>2, <1>3, <1>4 DEF Shapes
  <1>7. Alone /\ AsksWell /\ GroupsFetched /\ Requested
    BY <1>4 DEF Alone, AsksWell, GroupsFetched, Requested, Sound, Batch, Written
  <1>8. Current
    BY <1>1, <1>2, <1>3, <1>5 DEF Current, Copied, PageRows, Sound, Kept
  <1>9. QED
    BY <1>1, <1>6, <1>7, <1>8 DEF IInv, NeverEmptied

-----------------------------------------------------------------------------
(* The pages.                                                              *)

(* A step of the pages that submits nothing: what is on its way, and what  *)
(* the server and the client have, stays.                                  *)
LEMMA PagesMove ==
    ASSUME IInv, UNCHANGED <<groups, used, cache, fetched, requests, bereft>>,
           UNCHANGED <<shown, refused>> \/ (requests = {} /\ DOMAIN shown' = {}),
           DOMAIN pages' = DOMAIN cache,
           \A g \in DOMAIN cache :
                /\ DOMAIN pages'[g] = PageFields
                /\ Calm => PageRows(pages'[g].rows, g),
           DOMAIN draft' = RowFields, draft'.deep # {} => draft'.kids # {},
           DOMAIN known' = Ids,
           open' \in Ids \cup {"create", None},
           open' # None \/ asking' # None => Calm,
           asking' # None => /\ Waits(asking')
                             /\ open' \in {None, asking'.group}
    PROVE  IInv'
  <1>1. Shapes'
    BY DEF IInv, Shapes
  <1>2. \A rows, g : PageRows(rows, g)' = PageRows(rows, g)
    BY DEF PageRows, Sound, Kept
  <1>3. Alone' /\ AsksWell'
    BY DEF Alone, AsksWell, Calm, Waits, PageRows, Sound, Kept
  <1>4. GroupsFetched' /\ Current'
    BY <1>2 DEF IInv, Shapes, GroupsFetched, Current, Copied, Calm
  <1>5. Requested'
    <2>1. CASE UNCHANGED <<shown, refused>>
      BY <2>1 DEF IInv, Requested, Sound, Kept, Asked, Parents, Batch, Written
    <2>2. CASE requests = {} /\ DOMAIN shown' = {}
      BY <2>2 DEF Requested, Sound, Batch, Written
    <2>3. QED
      BY <2>1, <2>2
  <1>6. NeverEmptied'
    BY DEF IInv, NeverEmptied
  <1>7. QED
    BY <1>1, <1>3, <1>4, <1>5, <1>6 DEF IInv

LEMMA ForgetParentsKeeps ==
    ASSUME IInv, NEW g \in Ids, ForgetParents(g)
    PROVE  IInv'
  <1>1. /\ UNCHANGED <<groups, used, cache, fetched, requests, history, pages, draft, open,
                      asking>>
        /\ known' = [known EXCEPT ![g] = None]
    BY DEF ForgetParents, server
  <1>2. DOMAIN known' = Ids
    BY <1>1 DEF IInv, Shapes
  <1>3. asking' # None => Waits(asking') /\ open' \in {None, asking'.group}
    BY <1>1, <1>2 DEF IInv, AsksWell, Waits
  <1>4. open' # None \/ asking' # None => Calm
    BY <1>1 DEF IInv, Alone
  <1>5. \A x \in DOMAIN cache : DOMAIN pages'[x] = PageFields /\ (Calm => PageRows(pages'[x].rows, x))
    BY <1>1 DEF IInv, Shapes, Current
  <1>6. QED
    BY <1>1, <1>2, <1>3, <1>4, <1>5, PagesMove DEF IInv, Shapes, history

LEMMA OpenKeeps ==
    ASSUME IInv, NEW page, page \in Ids \/ page = "create", Open(page)
    PROVE  IInv'
  <1>1. /\ UNCHANGED <<groups, used, cache, fetched, requests, pages, draft, known, asking, bereft>>
        /\ open' = page /\ DOMAIN shown' = {} /\ Calm /\ asking = None
    BY DEF Open, server, IInv, Settled, Calm
  <1>2. \A x \in DOMAIN cache : DOMAIN pages'[x] = PageFields /\ (Calm => PageRows(pages'[x].rows, x))
    BY <1>1 DEF IInv, Shapes, Current
  <1>3. requests = {} /\ open' \in Ids \cup {"create", None}
    BY <1>1 DEF Calm
  <1>4. QED
    BY <1>1, <1>2, <1>3, PagesMove DEF IInv, Shapes, history

(* The page of g shows something else.                                     *)
LEMMA ShowKeeps ==
    ASSUME IInv, NEW g, Usable(g), NEW page, Show(g, page),
           DOMAIN page = PageFields, PageRows(page.rows, g)
    PROVE  IInv'
  <1>1. /\ UNCHANGED <<groups, used, cache, fetched, requests, history, draft, known, open,
                      asking>>
        /\ pages' = [pages EXCEPT ![g] = page] /\ asking = None
    BY DEF Show, server, Usable
  <1>2. \A x \in DOMAIN cache : DOMAIN pages'[x] = PageFields /\ (Calm => PageRows(pages'[x].rows, x))
    BY <1>1 DEF IInv, Shapes, Current
  <1>3. DOMAIN pages' = DOMAIN cache
    BY <1>1 DEF IInv, Shapes
  <1>4. open' # None \/ asking' # None => Calm
    BY <1>1 DEF IInv, Alone
  <1>5. QED
    BY <1>1, <1>2, <1>3, <1>4, PagesMove DEF IInv, Shapes, history

(* The page in use shows sound rows, as many as the client has groups.     *)
LEMMA InUse ==
    ASSUME IInv, NEW g \in Ids, Usable(g)
    PROVE  /\ Calm /\ g \in DOMAIN cache
           /\ DOMAIN pages[g] = PageFields /\ PageRows(pages[g].rows, g)
           /\ DOMAIN pages[g].rows[g] = RowFields
  <1>1. open # None
    BY NamesAssumption DEF Usable, Children
  <1>2. Calm
    BY <1>1 DEF IInv, Alone
  <1>3. g \in DOMAIN cache /\ DOMAIN pages[g] = PageFields /\ PageRows(pages[g].rows, g)
    BY <1>2 DEF IInv, Shapes, Current, Usable
  <1>4. QED
    BY <1>2, <1>3 DEF PageRows, Sound

LEMMA TouchKeeps ==
    ASSUME IInv, NEW g \in Ids, Touch(g)
    PROVE  IInv'
  <1> DEFINE page == [pages[g] EXCEPT !.touched = TRUE]
  <1>1. Usable(g) /\ Show(g, page)
    BY DEF Touch
  <1>2. DOMAIN page = PageFields /\ page.rows = pages[g].rows
    BY <1>1, InUse DEF PageFields
  <1> HIDE DEF page
  <1>3. QED
    BY <1>1, <1>2, InUse, ShowKeeps

LEMMA ChooseUnitKeeps ==
    ASSUME IInv, NEW g \in Ids, NEW u, ChooseUnit(g, u)
    PROVE  IInv'
  <1> DEFINE page == [pages[g] EXCEPT !.rows[g].unit = u]
             rows == pages[g].rows
  <1>1. Usable(g) /\ Show(g, page)
    BY DEF ChooseUnit
  <1>2. DOMAIN page = PageFields /\ page.rows = [rows EXCEPT ![g].unit = u]
    BY <1>1, InUse DEF PageFields
  <1> HIDE DEF page, rows
  <1>3. PageRows(rows, g)
    BY <1>1, InUse DEF rows
  <1>4. PageRows(page.rows, g)
    <2>1. \A x \in DOMAIN rows : DOMAIN rows[x] = RowFields
      BY <1>3 DEF PageRows, Sound
    <2>2. /\ DOMAIN page.rows = DOMAIN rows
          /\ \A x \in DOMAIN rows :
                /\ DOMAIN page.rows[x] = RowFields
                /\ page.rows[x].kids = rows[x].kids /\ page.rows[x].deep = rows[x].deep
      BY <1>2, <2>1 DEF RowFields
    <2>3. QED
      BY <1>3, <2>2, OtherUnits
  <1>5. QED
    BY <1>1, <1>2, <1>4, ShowKeeps

LEMMA TypeGpsKeeps ==
    ASSUME IInv, NEW g \in Ids, NEW p, TypeGps(g, p)
    PROVE  IInv'
  <1> DEFINE page == [pages[g] EXCEPT !.rows[g].gps = Typed(p)]
             rows == pages[g].rows
  <1>1. Usable(g) /\ Show(g, page)
    BY DEF TypeGps
  <1>2. DOMAIN page = PageFields /\ page.rows = [rows EXCEPT ![g].gps = Typed(p)]
    BY <1>1, InUse DEF PageFields
  <1> HIDE DEF page, rows
  <1>3. PageRows(rows, g)
    BY <1>1, InUse DEF rows
  <1>4. PageRows(page.rows, g)
    <2>1. \A x \in DOMAIN rows : DOMAIN rows[x] = RowFields
      BY <1>3 DEF PageRows, Sound
    <2>2. /\ DOMAIN page.rows = DOMAIN rows
          /\ \A x \in DOMAIN rows :
                /\ DOMAIN page.rows[x] = RowFields
                /\ page.rows[x].kids = rows[x].kids /\ page.rows[x].deep = rows[x].deep
      BY <1>2, <2>1 DEF RowFields
    <2>3. QED
      BY <1>3, <2>2, OtherUnits
  <1>5. QED
    BY <1>1, <1>2, <1>4, ShowKeeps

LEMMA RemoveChildKeeps ==
    ASSUME IInv, NEW g \in Ids, NEW c, RemoveChild(g, c)
    PROVE  IInv'
  <1> DEFINE rows == pages[g].rows
  <1>1. /\ Usable(g)
        /\ \E new \in Recomputed(rows, g, rows[g].kids \ {c}) :
                Show(g, [pages[g] EXCEPT !.rows = new])
    BY DEF RemoveChild
  <1>2. PICK new \in Recomputed(rows, g, rows[g].kids \ {c}) :
                Show(g, [pages[g] EXCEPT !.rows = new])
    BY <1>1
  <1> DEFINE page == [pages[g] EXCEPT !.rows = new]
  <1>3. PageRows(new, g)
    BY <1>1, <1>2, InUse, RecomputedRows
  <1>4. DOMAIN page = PageFields /\ page.rows = new
    BY <1>1, InUse DEF PageFields
  <1>5. Show(g, page)
    BY <1>2
  <1> HIDE DEF page
  <1>6. QED
    BY <1>1, <1>3, <1>4, <1>5, ShowKeeps

LEMMA AssignChildKeeps ==
    ASSUME IInv, NEW g \in Ids, NEW c, AssignChild(g, c)
    PROVE  IInv'
  <1> DEFINE rows == pages[g].rows
  <1>1. /\ UNCHANGED <<groups, used, cache, fetched, requests, history, pages, draft, known,
                      open>>
        /\ asking' = [what |-> "assign", group |-> g, child |-> c, rows |-> rows]
        /\ Usable(g) /\ open = g
    BY DEF AssignChild, server, IInv, Usable
  <1>2. Calm /\ g \in DOMAIN cache /\ PageRows(rows, g)
    BY <1>1, InUse
  <1> HIDE DEF rows
  <1>3. Waits(asking') /\ asking'.group = g
    BY <1>1, <1>2 DEF Waits
  <1>4. \A x \in DOMAIN cache : DOMAIN pages'[x] = PageFields /\ (Calm => PageRows(pages'[x].rows, x))
    BY <1>1 DEF IInv, Shapes, Current
  <1>5. QED
    BY <1>1, <1>2, <1>3, <1>4, PagesMove DEF IInv, Shapes, history

LEMMA AskDeleteKeeps ==
    ASSUME IInv, NEW g \in Ids, AskDelete(g)
    PROVE  IInv'
  <1>1. /\ UNCHANGED <<groups, used, cache, fetched, requests, history, pages, draft, known,
                      open>>
        /\ asking' = [what |-> "delete", group |-> g]
        /\ Usable(g) /\ open = g
    BY DEF AskDelete, server, IInv, Usable
  <1>2. Calm
    BY <1>1, InUse
  <1>3. Waits(asking') /\ asking'.group = g
    BY <1>1 DEF Waits
  <1>4. \A x \in DOMAIN cache : DOMAIN pages'[x] = PageFields /\ (Calm => PageRows(pages'[x].rows, x))
    BY <1>1 DEF IInv, Shapes, Current
  <1>5. QED
    BY <1>1, <1>2, <1>3, <1>4, PagesMove DEF IInv, Shapes, history

LEMMA ToldParentsKnows ==
    ASSUME IInv, NEW g, ToldParents(g)
    PROVE  asking' = None /\ DOMAIN known' = Ids
  BY DEF ToldParents, IInv, Shapes

LEMMA ConfirmAssignKeeps == IInv /\ ConfirmAssign => IInv'
  <1> SUFFICES ASSUME IInv, ConfirmAssign PROVE IInv'
    OBVIOUS
  <1> DEFINE g == asking.group
             old == asking.rows
  <1>1. /\ UNCHANGED <<groups, used, cache, fetched, requests, history, draft, open>>
        /\ asking # None /\ asking.what = "assign" /\ ToldParents(g)
        /\ \/ /\ g \in DOMAIN pages
              /\ \E temp \in Recomputed(old, g, old[g].kids \cup {asking.child}) :
                 \E new \in Validated(old, temp, Affected(g)) :
                     pages' = [pages EXCEPT ![g].rows = new]
           \/ UNCHANGED pages
    BY DEF ConfirmAssign, server
  <1>2. Calm /\ PageRows(old, g) /\ g \in DOMAIN cache
    BY <1>1 DEF IInv, Alone, AsksWell, Waits
  <1>3. asking' = None /\ DOMAIN known' = Ids
    BY <1>1, ToldParentsKnows
  <1> HIDE DEF g, old
  <1>4. /\ DOMAIN pages' = DOMAIN cache
        /\ \A x \in DOMAIN cache :
            DOMAIN pages'[x] = PageFields /\ (Calm => PageRows(pages'[x].rows, x))
    <2>1. CASE UNCHANGED pages
      BY <2>1 DEF IInv, Shapes, Current
    <2>2. CASE /\ g \in DOMAIN pages
               /\ \E temp \in Recomputed(old, g, old[g].kids \cup {asking.child}) :
                  \E new \in Validated(old, temp, Affected(g)) :
                      pages' = [pages EXCEPT ![g].rows = new]
      <3>1. PICK temp \in Recomputed(old, g, old[g].kids \cup {asking.child}) :
                \E new \in Validated(old, temp, Affected(g)) :
                    pages' = [pages EXCEPT ![g].rows = new]
        BY <2>2
      <3>2. PICK new \in Validated(old, temp, Affected(g)) :
                pages' = [pages EXCEPT ![g].rows = new]
        BY <3>1
      <3>3. PageRows(new, g)
        BY <1>2, <3>1, RecomputedRows, ValidatedRows
      <3>4. /\ DOMAIN pages' = DOMAIN pages /\ DOMAIN pages'[g] = PageFields /\ pages'[g].rows = new
            /\ \A x \in DOMAIN pages \ {g} : pages'[x] = pages[x]
        BY <2>2, <3>2 DEF IInv, Shapes, PageFields
      <3>5. QED
        BY <1>2, <3>3, <3>4 DEF IInv, Shapes, Current
    <2>3. QED
      BY <1>1, <2>1, <2>2
  <1>5. QED
    BY <1>1, <1>2, <1>3, <1>4, PagesMove DEF IInv, Shapes, history

LEMMA CloseKeeps ==
    ASSUME IInv, NEW g \in Ids, Close(g)
    PROVE  IInv'
  <1>1. /\ UNCHANGED <<groups, used, cache, fetched, requests, history, draft, known, asking>>
        /\ open = g /\ open' = None
        /\ pages' = IF g \in DOMAIN cache
                    THEN [pages EXCEPT ![g] = [rows |-> cache, touched |-> FALSE]] ELSE pages
    BY DEF Close, server
  <1>2. Calm
    BY <1>1, NamesAssumption DEF IInv, Alone, Children
  <1>3. PageRows(cache, g)
    BY <1>2, CopyRows
  <1>4. /\ DOMAIN pages' = DOMAIN cache
        /\ \A x \in DOMAIN cache :
            DOMAIN pages'[x] = PageFields /\ (Calm => PageRows(pages'[x].rows, x))
    BY <1>1, <1>3 DEF IInv, Shapes, Current, PageFields
  <1>5. asking' # None => Waits(asking')
    BY <1>1 DEF IInv, AsksWell, Waits
  <1>6. QED
    BY <1>1, <1>2, <1>4, <1>5, PagesMove DEF IInv, Shapes, history

(* The page that creates a group changes.                                  *)
LEMMA DraftKeeps ==
    ASSUME IInv, UNCHANGED <<groups, used, cache, fetched, requests, history, pages, known,
                             asking>>,
           DOMAIN draft' = RowFields, draft'.deep # {} => draft'.kids # {},
           open' = open \/ open' = None
    PROVE  IInv'
  <1>1. \A x \in DOMAIN cache : DOMAIN pages'[x] = PageFields /\ (Calm => PageRows(pages'[x].rows, x))
    BY DEF IInv, Shapes, Current
  <1>2. asking' # None => Waits(asking') /\ open' \in {None, asking'.group}
    BY DEF IInv, AsksWell, Waits
  <1>3. open' # None \/ asking' # None => Calm
    BY DEF IInv, Alone
  <1>4. QED
    BY <1>1, <1>2, <1>3, PagesMove DEF IInv, Shapes, history

LEMMA CloseDraftKeeps == IInv /\ CloseDraft => IInv'
  <1> SUFFICES ASSUME IInv, CloseDraft PROVE IInv'
    OBVIOUS
  <1>1. DOMAIN draft' = RowFields /\ draft'.deep = {}
    BY DEF CloseDraft, NoDraft, RowFields
  <1>2. QED
    BY <1>1, DraftKeeps DEF CloseDraft, server

LEMMA DraftChildrenKeeps ==
    ASSUME IInv, NEW c, DraftChildren(c)
    PROVE  IInv'
  <1> DEFINE kids == IF c \in draft.kids THEN draft.kids \ {c} ELSE draft.kids \cup {c}
             deep == MetersInChangedGroup(kids)
             unit == IF draft.unit \in Choices(deep) THEN draft.unit ELSE None
  <1>1. /\ UNCHANGED <<groups, used, cache, fetched, requests, history, pages, known, asking,
                      open>>
        /\ draft' = [draft EXCEPT !.kids = kids, !.deep = deep, !.unit = unit]
    BY DEF DraftChildren, Draft, server
  <1>2. deep # {} => kids # {}
    BY DEF MetersInChangedGroup
  <1> HIDE DEF kids, deep, unit
  <1>3. DOMAIN draft' = RowFields /\ draft'.kids = kids /\ draft'.deep = deep
    BY <1>1 DEF IInv, Shapes, RowFields
  <1>4. QED
    BY <1>1, <1>2, <1>3, DraftKeeps

LEMMA DraftUnitKeeps ==
    ASSUME IInv, NEW u, DraftUnit(u)
    PROVE  IInv'
  <1>1. /\ UNCHANGED <<groups, used, cache, fetched, requests, history, pages, known, asking,
                      open>>
        /\ draft' = [draft EXCEPT !.unit = u]
    BY DEF DraftUnit, Draft, server
  <1>2. DOMAIN draft' = RowFields /\ draft'.kids = draft.kids /\ draft'.deep = draft.deep
    BY <1>1 DEF IInv, Shapes, RowFields
  <1>3. QED
    BY <1>1, <1>2, DraftKeeps DEF IInv, Shapes

LEMMA EditMeterUnitKeeps ==
    ASSUME IInv, NEW m, NEW k, EditMeterUnit(m, k)
    PROVE  IInv'
  <1>1. /\ UNCHANGED <<groups, used, cache, fetched, requests, history, draft, known, asking,
                      open>>
        /\ pages' = CopyOf(cache) /\ Calm /\ open = None /\ asking = None
    BY DEF EditMeterUnit, IInv, Settled, Calm
  <1>2. /\ DOMAIN pages' = DOMAIN cache
        /\ \A x \in DOMAIN cache : DOMAIN pages'[x] = PageFields /\ pages'[x].rows = cache
    BY <1>1 DEF CopyOf, PageFields
  <1>3. \A x \in DOMAIN cache : PageRows(cache, x)
    BY <1>1, CopyRows
  <1>4. QED
    BY <1>1, <1>2, <1>3, PagesMove DEF IInv, Shapes, history

-----------------------------------------------------------------------------
(* Requests are sent.                                                      *)

LEMMA Submitting ==
    ASSUME IInv, UNCHANGED <<groups, used, cache, fetched>>, Calm,
           bereft \subseteq bereft', requests' # {}, open' = None, asking' = None,
           DOMAIN pages' = DOMAIN cache, \A g \in DOMAIN cache : DOMAIN pages'[g] = PageFields,
           DOMAIN draft' = RowFields, draft'.deep # {} => draft'.kids # {},
           DOMAIN known' = Ids, Requested'
    PROVE  IInv'
  <1>1. Shapes'
    BY DEF IInv, Shapes
  <1>2. Alone' /\ AsksWell' /\ GroupsFetched' /\ Current'
    BY DEF Alone, AsksWell, GroupsFetched, Current, Calm
  <1>3. NeverEmptied'
    BY DEF IInv, NeverEmptied
  <1>4. QED
    BY <1>1, <1>2, <1>3 DEF IInv

(* Every group the page showed is written, or is as the page showed it.    *)
LEMMA SaveGroupKeeps ==
    ASSUME IInv, NEW g \in Ids, NEW back \in BOOLEAN, SaveGroup(g, back)
    PROVE  IInv'
  <1> DEFINE rows == pages[g].rows
             gps == Coordinates(rows[g])
             changed == {x \in DOMAIN rows : rows[x].unit # cache[x].unit} \cup {g}
  <1>1. /\ UNCHANGED <<groups, used, cache, fetched, draft, known, asking, bereft>>
        /\ Usable(g) /\ asking = None /\ open' = None /\ shown' = rows
        /\ requests' = requests \cup {Edit(x, rows[x], gps) : x \in changed}
        /\ pages' = IF back THEN [pages EXCEPT ![g] = [rows |-> cache, touched |-> FALSE]]
                    ELSE pages
    BY DEF SaveGroup, server, Usable
  <1>2. Calm /\ PageRows(rows, g) /\ g \in DOMAIN cache
    BY <1>1, InUse
  <1>3. /\ DOMAIN rows = DOMAIN groups /\ g \in DOMAIN groups
        /\ \A x \in DOMAIN groups \ {g} : rows[x].kids = groups[x].kids
        /\ \A x \in DOMAIN groups : cache[x].unit = groups[x].unit
    BY <1>2 DEF PageRows, IInv, Current, Copied
  <1>4. requests = {} /\ changed \subseteq DOMAIN rows /\ g \in changed
    BY <1>2, <1>3 DEF Calm
  <1>5. Sound(rows)
    BY <1>2 DEF PageRows
  <1>6. \A x \in DOMAIN groups \ changed :
            groups[x].kids = rows[x].kids /\ groups[x].unit = rows[x].unit
    BY <1>3
  <1> HIDE DEF rows, gps, changed
  <1>7. Sound(shown)'
    BY <1>1, <1>5 DEF Sound, Kept
  <1>8. \A r \in requests' : Asked(r)'
    <2> SUFFICES ASSUME NEW r \in requests' PROVE Asked(r)'
      OBVIOUS
    <2>1. PICK x \in changed : r = Edit(x, rows[x], gps)
      BY <1>1, <1>4
    <2>2. /\ r.kind = "edit" /\ r.group = x /\ r.kids = rows[x].kids /\ r.unit = rows[x].unit
      BY <2>1 DEF Edit
    <2>3. QED
      BY <1>1, <1>4, <2>2 DEF Asked
  <1>9. Batch'
    BY <1>1, <1>3 DEF Batch
  <1>10. Written'
    <2>1. \A x \in changed : \E r \in requests' : r.kind = "edit" /\ r.group = x
      <3> SUFFICES ASSUME NEW x \in changed
                   PROVE  \E r \in requests' : r.kind = "edit" /\ r.group = x
        OBVIOUS
      <3>1. /\ Edit(x, rows[x], gps) \in requests'
            /\ Edit(x, rows[x], gps).kind = "edit" /\ Edit(x, rows[x], gps).group = x
        BY <1>1 DEF Edit
      <3>2. QED
        BY <3>1
    <2>2. QED
      BY <1>1, <1>3, <1>6, <2>1 DEF Written
  <1>11. requests' # {}
    BY <1>1, <1>4
  <1>12. /\ DOMAIN pages' = DOMAIN cache
         /\ \A x \in DOMAIN cache : DOMAIN pages'[x] = PageFields
    BY <1>1 DEF IInv, Shapes, PageFields
  <1>13. Requested'
    BY <1>7, <1>8, <1>9, <1>10 DEF Requested
  <1>14. QED
    BY <1>1, <1>2, <1>11, <1>12, <1>13, Submitting DEF IInv, Shapes

LEMMA ConfirmDeleteKeeps == IInv /\ ConfirmDelete => IInv'
  <1> SUFFICES ASSUME IInv, ConfirmDelete PROVE IInv'
    OBVIOUS
  <1>0. PICK g, d : g = asking.group /\ d = [kind |-> "delete", group |-> g]
    OBVIOUS
  <1>1. /\ UNCHANGED <<groups, used, cache, fetched, pages, draft, refused>>
        /\ asking # None /\ ToldParents(g)
        /\ \/ /\ Deletable(g) /\ requests' = requests \cup {d} /\ shown' = <<>> /\ open' = None
              /\ bereft' = bereft \cup Untold(g)
           \/ UNCHANGED <<requests, shown, bereft, open>>
    BY <1>0 DEF ConfirmDelete, server
  <1>2. Calm /\ g \in Ids
    BY <1>0, <1>1 DEF IInv, Alone, AsksWell, Waits
  <1>3. asking' = None /\ DOMAIN known' = Ids
    BY <1>1, ToldParentsKnows
  <1>4. d.kind = "delete" /\ d.group = g
    BY <1>0
  <1>5. CASE UNCHANGED <<requests, shown, bereft, open>>
    <2>1. \A x \in DOMAIN cache : DOMAIN pages'[x] = PageFields
                                  /\ (Calm => PageRows(pages'[x].rows, x))
      BY <1>1 DEF IInv, Shapes, Current
    <2>2. QED
      BY <1>1, <1>2, <1>3, <1>5, <2>1, PagesMove DEF IInv, Shapes
  <1>6. CASE /\ Deletable(g) /\ requests' = requests \cup {d} /\ shown' = <<>> /\ open' = None
             /\ bereft' = bereft \cup Untold(g)
    <2>1. requests' = {d} /\ DOMAIN shown' = {}
      BY <1>2, <1>6 DEF Calm
    <2>2. Parents(g)' \subseteq bereft'
      BY <1>1, <1>6 DEF Deletable, Untold, Parents
    <2>3. Asked(d)'
      BY <1>4, <2>1, <2>2 DEF Asked, Parents
    <2>4. Requested'
      BY <2>1, <2>3 DEF Requested, Sound, Batch, Written
    <2>5. QED
      BY <1>1, <1>2, <1>3, <1>6, <2>1, <2>4, Submitting DEF IInv, Shapes
  <1>7. QED
    BY <1>1, <1>5, <1>6

LEMMA CreateGroupKeeps == IInv /\ CreateGroup => IInv'
  <1> SUFFICES ASSUME IInv, CreateGroup PROVE IInv'
    OBVIOUS
  <1>0. PICK r : r = [kind |-> "create", kids |-> draft.kids, unit |-> draft.unit,
                      gps |-> Coordinates(draft)]
    OBVIOUS
  <1>1. /\ UNCHANGED <<groups, used, cache, fetched, pages, asking, known, refused, bereft>>
        /\ open = "create" /\ draft.deep # {} /\ requests' = requests \cup {r}
        /\ shown' = <<>> /\ open' = None /\ draft' = NoDraft
    BY <1>0 DEF CreateGroup, DraftUsable, CanCreate, ValidGroup, server
  <1>2. r.kind = "create" /\ r.kids = draft.kids
    BY <1>0
  <1>3. Calm /\ asking = None
    BY <1>1, PagesAssumption DEF IInv, Alone, AsksWell, Waits
  <1>4. requests' = {r} /\ DOMAIN shown' = {} /\ r.kids # {}
    BY <1>1, <1>2, <1>3 DEF Calm, IInv, Shapes
  <1>5. Asked(r)'
    BY <1>2, <1>4 DEF Asked
  <1>6. Requested'
    BY <1>4, <1>5 DEF Requested, Sound, Batch, Written
  <1>7. DOMAIN draft' = RowFields /\ draft'.deep = {}
    BY <1>1 DEF NoDraft, RowFields
  <1>8. QED
    BY <1>1, <1>3, <1>4, <1>6, <1>7, Submitting DEF IInv, Shapes

-----------------------------------------------------------------------------
(* The client fetches the groups.                                          *)

LEMMA GetGroupsKeeps == IInv /\ GetGroups => IInv'
  <1> SUFFICES ASSUME IInv, GetGroups PROVE IInv'
    OBVIOUS
  <1>1. /\ UNCHANGED <<groups, used, open, draft, asking, known, requests, history>>
        /\ fetched = "stale" /\ requests = {} /\ fetched' = "groups"
        /\ cache' = GroupRows /\ pages' = CopyOf(cache')
    BY DEF GetGroups, server
  <1>2. open = None /\ asking = None
    BY <1>1 DEF IInv, Alone, Calm
  <1>3. /\ DOMAIN cache' = DOMAIN groups
        /\ \A g \in DOMAIN groups :
            /\ DOMAIN cache'[g] = RowFields
            /\ cache'[g].deep = DeepMeters(groups, g) /\ cache'[g].unit = groups[g].unit
    BY <1>1 DEF GroupRows, WithChildren, RowFields
  <1>4. DOMAIN pages' = DOMAIN cache' /\ \A g \in DOMAIN pages' : DOMAIN pages'[g] = PageFields
    BY <1>1 DEF CopyOf, PageFields
  <1>5. Shapes'
    BY <1>1, <1>3, <1>4 DEF IInv, Shapes
  <1>6. Alone' /\ AsksWell' /\ Current'
    BY <1>1, <1>2 DEF Alone, AsksWell, Current, Calm
  <1>7. GroupsFetched'
    BY <1>1, <1>3 DEF GroupsFetched, Copied
  <1>8. Requested' /\ NeverEmptied'
    BY <1>1 DEF IInv, Requested, Sound, Kept, Asked, Parents, Batch, Written, NeverEmptied, history
  <1>9. QED
    BY <1>5, <1>6, <1>7, <1>8 DEF IInv

LEMMA GetChildrenKeeps == IInv /\ GetChildren => IInv'
  <1> SUFFICES ASSUME IInv, GetChildren PROVE IInv'
    OBVIOUS
  <1>1. /\ UNCHANGED <<groups, used, open, draft, asking, known, requests, history>>
        /\ fetched = "groups" /\ fetched' = "children" /\ pages' = CopyOf(cache')
        /\ cache' = [g \in DOMAIN cache |->
                        IF g \in DOMAIN groups
                        THEN [cache[g] EXCEPT !.kids = groups[g].kids] ELSE cache[g]]
    BY DEF GetChildren, ChildRows, server
  <1>2. open = None /\ asking = None /\ Copied
    BY <1>1 DEF IInv, Alone, Calm, GroupsFetched
  <1>3. /\ DOMAIN cache' = DOMAIN groups
        /\ \A g \in DOMAIN groups :
            /\ DOMAIN cache'[g] = RowFields /\ cache'[g].kids = groups[g].kids
            /\ cache'[g].deep = DeepMeters(groups, g) /\ cache'[g].unit = groups[g].unit
    BY <1>1, <1>2 DEF Copied, IInv, Shapes, RowFields
  <1>4. /\ DOMAIN pages' = DOMAIN cache'
        /\ \A g \in DOMAIN pages' : DOMAIN pages'[g] = PageFields /\ pages'[g].rows = cache'
    BY <1>1 DEF CopyOf, PageFields
  <1>5. Shapes'
    BY <1>1, <1>3, <1>4 DEF IInv, Shapes
  <1>6. Alone' /\ AsksWell' /\ GroupsFetched'
    BY <1>1, <1>2 DEF Alone, AsksWell, GroupsFetched
  <1>7. \A x : DeepMeters(cache', x) = DeepMeters(groups, x) /\ (Kept(cache', x) <=> Kept(groups, x))
    BY <1>3, SameKids
  <1>8. Sound(cache)'
    BY <1>1, <1>3, <1>7 DEF Sound, Kept, IInv, NeverEmptied, history
  <1>9. Current'
    <2>1. \A g \in DOMAIN pages' : pages'[g].rows = cache' /\ PageRows(pages[g].rows, g)'
      BY <1>4, <1>8 DEF PageRows
    <2>2. QED
      BY <1>1, <1>3, <2>1 DEF Current, Copied
  <1>10. Requested' /\ NeverEmptied'
    BY <1>1 DEF IInv, Requested, Sound, Kept, Asked, Parents, Batch, Written, NeverEmptied, history
  <1>11. QED
    BY <1>5, <1>6, <1>9, <1>10 DEF IInv

-----------------------------------------------------------------------------
(* The server answers.                                                     *)

LEMMA Answering ==
    ASSUME IInv, NEW r \in requests, Answer(r),
           UNCHANGED <<cache, pages, open, draft, asking, known, shown, bereft>>,
           DOMAIN groups' \subseteq Ids \cap used',
           \A g \in DOMAIN groups' : DOMAIN groups'[g] = GroupFields,
           Requested', NeverEmptied'
    PROVE  IInv'
  <1>1. open = None /\ asking = None
    BY DEF IInv, Alone, Calm
  <1>2. fetched' = "stale"
    BY DEF Answer
  <1>3. Shapes'
    BY <1>2 DEF IInv, Shapes
  <1>4. Alone' /\ AsksWell' /\ GroupsFetched' /\ Current'
    BY <1>1, <1>2 DEF Alone, AsksWell, GroupsFetched, Current, Calm
  <1>5. QED
    BY <1>3, <1>4 DEF IInv

(* A group is created or deleted by the only request there is.             *)
LEMMA Only ==
    ASSUME IInv, NEW r \in requests, r.kind \in {"create", "delete"},
           requests' = requests \ {r}, shown' = shown
    PROVE  Requested'
  <1>1. requests' = {} /\ DOMAIN shown = {}
    BY DEF IInv, Requested, Asked
  <1>2. QED
    BY <1>1 DEF Requested, Sound, Batch, Written

LEMMA RefuseKeeps ==
    ASSUME IInv, NEW r \in requests, Refuse(r)
    PROVE  IInv'
  <1>1. /\ UNCHANGED <<groups, used, cache, pages, open, draft, asking, known, shown, bereft>>
        /\ Answer(r) /\ requests' = requests \ {r}
        /\ refused' = IF r.kind = "edit" THEN refused \cup {r.group} ELSE refused
    BY DEF Refuse, Answer, server
  <1>2. Requested'
    <2>1. CASE r.kind \in {"create", "delete"}
      BY <1>1, <2>1, Only
    <2>2. CASE r.kind = "edit"
      <3>1. \A q \in requests' : Asked(q)'
        BY <1>1, <2>2 DEF IInv, Requested, Asked
      <3>2. Sound(shown)' /\ Batch'
        BY <1>1 DEF IInv, Requested, Sound, Kept, Batch
      <3>3. Written'
        BY <1>1, <2>2 DEF IInv, Requested, Written
      <3>4. QED
        BY <3>1, <3>2, <3>3 DEF Requested
    <2>3. QED
      BY <2>1, <2>2 DEF IInv, Requested, Asked
  <1>3. NeverEmptied'
    BY <1>1 DEF IInv, NeverEmptied
  <1>4. QED
    BY <1>1, <1>2, <1>3, Answering DEF IInv, Shapes

LEMMA AnswerCreateKeeps ==
    ASSUME IInv, NEW r \in requests, AnswerCreate(r)
    PROVE  IInv'
  <1>1. r.kind = "create"
    BY DEF AnswerCreate
  <1>2. PICK g \in Ids \ used :
            IF Accepts(r) /\ r.kids \subseteq DOMAIN groups \cup Meters
            THEN Change(r, [x \in DOMAIN groups \cup {g} |->
                                IF x = g THEN NewRow(r) ELSE groups[x]], {g})
            ELSE Refuse(r)
    BY DEF AnswerCreate
  <1>3. CASE Refuse(r)
    BY <1>3, RefuseKeeps
  <1>4. CASE /\ r.kids \subseteq DOMAIN groups \cup Meters
             /\ Change(r, [x \in DOMAIN groups \cup {g} |->
                                IF x = g THEN NewRow(r) ELSE groups[x]], {g})
    <2>1. /\ UNCHANGED <<cache, pages, open, draft, asking, known, shown, bereft>>
          /\ Answer(r) /\ requests' = requests \ {r} /\ used' = used \cup {g}
          /\ groups' = [x \in DOMAIN groups \cup {g} |->
                            IF x = g THEN NewRow(r) ELSE groups[x]]
      BY <1>4 DEF Change, Answer, history
    <2>2. DOMAIN groups \subseteq Ids \cap used
      BY DEF IInv, Shapes
    <2>3. /\ DOMAIN groups' = DOMAIN groups \cup {g} /\ g \notin DOMAIN groups
          /\ \A x \in DOMAIN groups : groups'[x] = groups[x]
          /\ groups'[g].kids = r.kids /\ DOMAIN groups'[g] = GroupFields
      BY <2>1, <2>2 DEF NewRow, GroupFields
    <2>4. Requested'
      BY <1>1, <2>1, Only
    <2>5. \A x \in DOMAIN groups : Kept(groups', x)
      <3> SUFFICES ASSUME NEW x \in DOMAIN groups PROVE Kept(groups', x)
        OBVIOUS
      <3>1. Kept(groups, x)
        BY DEF IInv, NeverEmptied, Kept
      <3>2. QED
        BY <2>3, <3>1, MoreGroups
    <2>6. Kept(groups', g)
      <3>1. PICK c : c \in r.kids
        BY <1>1 DEF IInv, Requested, Asked
      <3>2. c \in Meters \/ (c \in Ids /\ Kept(groups', c))
        BY <1>4, <2>2, <2>5, <3>1
      <3>3. QED
        BY <2>3, <3>1, <3>2, KidsMeters
    <2>7. NeverEmptied'
      BY <2>1, <2>3, <2>5, <2>6 DEF NeverEmptied, Kept
    <2>8. /\ DOMAIN groups' \subseteq Ids \cap used'
          /\ \A x \in DOMAIN groups' : DOMAIN groups'[x] = GroupFields
      BY <2>1, <2>2, <2>3 DEF IInv, Shapes
    <2>9. QED
      BY <2>1, <2>4, <2>7, <2>8, Answering
  <1>5. QED
    BY <1>2, <1>3, <1>4

LEMMA AnswerDeleteKeeps ==
    ASSUME IInv, NEW r \in requests, AnswerDelete(r)
    PROVE  IInv'
  <1> DEFINE d == r.group
  <1>1. /\ UNCHANGED <<cache, pages, open, draft, asking, known, shown, bereft>>
        /\ r.kind = "delete" /\ Answer(r) /\ requests' = requests \ {r} /\ used' = used
        /\ groups' = [x \in DOMAIN groups \ {d} |-> [groups[x] EXCEPT !.kids = @ \ {d}]]
    BY DEF AnswerDelete, Change, Answer, history
  <1>2. \A x \in DOMAIN groups : d \in groups[x].kids => x \in bereft
    BY <1>1 DEF IInv, Requested, Asked, Parents
  <1>3. DOMAIN groups \subseteq Ids \cap used /\ \A x \in DOMAIN groups : DOMAIN groups[x] = GroupFields
    BY DEF IInv, Shapes
  <1> HIDE DEF d
  <1>4. /\ DOMAIN groups' = DOMAIN groups \ {d}
        /\ \A x \in DOMAIN groups' :
            /\ DOMAIN groups'[x] = GroupFields
            /\ groups'[x].kids = groups[x].kids \ {d}
    BY <1>1, <1>3 DEF GroupFields
  <1>5. Requested'
    BY <1>1, Only
  <1>6. NeverEmptied'
    <2> SUFFICES ASSUME NEW x \in DOMAIN groups' PROVE Kept(groups', x)
      BY <1>1 DEF NeverEmptied, Kept
    <2>1. x \in DOMAIN groups /\ x # d /\ x \in Ids
      BY <1>3, <1>4
    <2>2. Kept(groups, x)
      BY <2>1 DEF IInv, NeverEmptied, Kept
    <2>3. QED
      BY <1>2, <1>4, <2>1, <2>2, WithoutGroup
  <1>7. DOMAIN groups' \subseteq Ids \cap used'
    BY <1>1, <1>3, <1>4
  <1>8. QED
    BY <1>1, <1>4, <1>5, <1>6, <1>7, Answering

(* Before and after an edit the groups have the children they had before   *)
(* the page was saved, or those it showed.                                 *)
LEMMA AnswerEditKeeps ==
    ASSUME IInv, NEW r \in requests, AnswerEdit(r)
    PROVE  IInv'
  <1>1. CASE Refuse(r)
    BY <1>1, RefuseKeeps
  <1>2. CASE r.group \in DOMAIN groups /\ Change(r, Edited(r), {})
    <2> DEFINE e == r.group
    <2>1. /\ UNCHANGED <<cache, pages, open, draft, asking, known, shown, refused, bereft>>
          /\ r.kind = "edit" /\ Answer(r) /\ requests' = requests \ {r} /\ used' = used
          /\ groups' = [groups EXCEPT ![e] = NewRow(r)] /\ e \in DOMAIN groups
      BY <1>2 DEF AnswerEdit, Change, Answer, Edited, history
    <2>2. e \in DOMAIN shown /\ r.kids = shown[e].kids /\ r.unit = shown[e].unit
      BY <2>1 DEF IInv, Requested, Asked
    <2>3. /\ DOMAIN groups' = DOMAIN groups
          /\ groups'[e].kids = shown[e].kids /\ groups'[e].unit = shown[e].unit
          /\ DOMAIN groups'[e] = GroupFields
          /\ \A x \in DOMAIN groups \ {e} : groups'[x] = groups[x]
      BY <2>1, <2>2 DEF NewRow, GroupFields
    <2> HIDE DEF e
    <2>4. PICK g \in DOMAIN groups :
                /\ DOMAIN shown = DOMAIN groups
                /\ \A x \in DOMAIN groups \ {g} : groups[x].kids = shown[x].kids
      BY <2>2 DEF IInv, Requested, Batch
    <2>5. \A q \in requests' : Asked(q)'
      BY <2>1 DEF IInv, Requested, Asked
    <2>6. Batch'
      BY <2>1, <2>3, <2>4 DEF Batch
    <2>7. Written'
      <3> SUFFICES ASSUME NEW x \in DOMAIN groups, x \notin refused
                   PROVE  \/ groups'[x].kids = shown[x].kids /\ groups'[x].unit = shown[x].unit
                          \/ \E q \in requests' : q.kind = "edit" /\ q.group = x
        BY <2>1, <2>3, <2>4 DEF Written
      <3>1. CASE x = e
        BY <2>3, <3>1
      <3>2. CASE x # e
        <4>1. groups'[x] = groups[x]
          BY <2>3, <3>2
        <4>2. CASE \E q \in requests : q.kind = "edit" /\ q.group = x
          <5>1. PICK q \in requests : q.kind = "edit" /\ q.group = x
            BY <4>2
          <5>2. q # r
            BY <3>2, <5>1 DEF e
          <5>3. QED
            BY <2>1, <5>1, <5>2
        <4>3. CASE groups[x].kids = shown[x].kids /\ groups[x].unit = shown[x].unit
          BY <4>1, <4>3
        <4>4. QED
          BY <2>2, <4>2, <4>3 DEF IInv, Requested, Written
      <3>3. QED
        BY <3>1, <3>2
    <2>8. Requested'
      BY <2>1, <2>5, <2>6, <2>7 DEF IInv, Requested, Sound, Kept
    <2>9. NeverEmptied'
      <3>1. CASE e = g
        <4>1. \A x : Kept(groups', x) <=> Kept(shown, x)
          BY <2>3, <2>4, <3>1, SameKids
        <4>2. QED
          BY <2>1, <2>3, <2>4, <4>1 DEF IInv, Requested, Sound, NeverEmptied, Kept
      <3>2. CASE e # g
        <4>1. \A x \in DOMAIN groups : groups'[x].kids = groups[x].kids
          BY <2>1, <2>3, <2>4, <3>2 DEF e
        <4>2. \A x : Kept(groups', x) <=> Kept(groups, x)
          BY <2>3, <4>1, SameKids
        <4>3. QED
          BY <2>1, <2>3, <4>2 DEF IInv, NeverEmptied, Kept
      <3>3. QED
        BY <3>1, <3>2
    <2>10. /\ DOMAIN groups' \subseteq Ids \cap used'
           /\ \A x \in DOMAIN groups' : DOMAIN groups'[x] = GroupFields
      BY <2>1, <2>3 DEF IInv, Shapes
    <2>11. QED
      BY <2>1, <2>8, <2>9, <2>10, Answering
  <1>3. QED
    BY <1>1, <1>2 DEF AnswerEdit

-----------------------------------------------------------------------------
LEMMA UnchangedKeeps == IInv /\ UNCHANGED vars => IInv'
  BY DEF vars, server, client, history, IInv, Shapes, Alone, Calm, AsksWell, Waits, PageRows, Sound, Kept, GroupsFetched,
         Copied, Current, Requested, Asked, Parents, Batch, Written, NeverEmptied

LEMMA StepKeeps == IInv /\ [Next]_vars => IInv'
  <1> SUFFICES ASSUME IInv, [Next]_vars PROVE IInv'
    OBVIOUS
  <1>1. CASE \E g \in Ids : EditPage(g) \/ ForgetParents(g)
    <2>1. PICK g \in Ids : EditPage(g) \/ ForgetParents(g)
      BY <1>1
    <2>2. CASE ForgetParents(g)
      BY <2>2, ForgetParentsKeeps
    <2>3. CASE Open(g) \/ Touch(g) \/ Leave(g) \/ AskDelete(g) \/ SaveGroup(g, FALSE)
      BY <2>3, OpenKeeps, TouchKeeps, CloseKeeps, SaveGroupKeeps, AskDeleteKeeps DEF Leave
    <2>4. CASE \E u : ChooseUnit(g, u)
      BY <2>4, ChooseUnitKeeps
    <2>5. CASE \E p : TypeGps(g, p)
      BY <2>5, TypeGpsKeeps
    <2>6. CASE \E c : AssignChild(g, c) \/ RemoveChild(g, c)
      BY <2>6, AssignChildKeeps, RemoveChildKeeps
    <2>7. QED
      BY <2>1, <2>2, <2>3, <2>4, <2>5, <2>6 DEF EditPage
  <1>2. CASE CreatePage
    <2>1. CASE Open("create") \/ LeaveDraft
      BY <2>1, OpenKeeps, CloseDraftKeeps, CreateGroupKeeps DEF LeaveDraft
    <2>2. CASE \E c : DraftChildren(c)
      BY <2>2, DraftChildrenKeeps
    <2>3. CASE \E u : DraftUnit(u)
      BY <2>3, DraftUnitKeeps
    <2>4. QED
      BY <1>2, <2>1, <2>2, <2>3 DEF CreatePage
  <1>3. CASE \E r \in requests : Serve(r)
    BY <1>3, AnswerCreateKeeps, AnswerEditKeeps, AnswerDeleteKeeps, RefuseKeeps DEF Serve, Fail
  <1>4. CASE \E m \in Meters, k \in Kinds : EditMeterUnit(m, k)
    BY <1>4, EditMeterUnitKeeps
  <1>5. QED
    BY <1>1, <1>2, <1>3, <1>4, UnchangedKeeps, GetGroupsKeeps, GetChildrenKeeps,
       ConfirmAssignKeeps, ConfirmDeleteKeeps DEF Next

LEMMA Invariance == ~Hurried /\ Spec => []IInv
  BY Initially, StepKeeps, PTL DEF Spec

(* Used once the client has the groups' children, the pages leave every    *)
(* group a meter, whatever is saved, created, deleted or refused, but for  *)
(* groups above one whose child a page deleted on an old answer.           *)
THEOREM NoneIsEmptied == ~Hurried /\ Spec => []NeverEmptied
  <1>1. IInv => NeverEmptied
    BY DEF IInv
  <1>2. QED
    BY Invariance, <1>1, PTL

(* Used so, what the server has when all of a page's requests are served   *)
(* is what it showed, but for the units of groups whose edit was refused,  *)
(* and the meters if one of these kept other children.                     *)
THEOREM SavedIsShown == ~Hurried /\ Spec => []SavesWhatIsShown
  <1>1. IInv => SavesWhatIsShown
    <2> SUFFICES ASSUME IInv, requests = {}, NEW g \in DOMAIN shown
                 PROVE  /\ g \in DOMAIN groups
                        /\ g \notin refused => groups[g].unit = shown[g].unit
                        /\ (\A x \in refused : groups[x].kids = shown[x].kids)
                            => DeepMeters(groups, g) = shown[g].deep
      BY DEF SavesWhatIsShown
    <2>1. /\ DOMAIN shown = DOMAIN groups
          /\ \A x \in DOMAIN groups :
                \/ x \in refused
                \/ groups[x].kids = shown[x].kids /\ groups[x].unit = shown[x].unit
      BY DEF IInv, Requested, Written
    <2>2. ASSUME \A x \in refused : groups[x].kids = shown[x].kids
          PROVE  DeepMeters(groups, g) = shown[g].deep
      <3>1. DeepMeters(groups, g) = DeepMeters(shown, g)
        BY <2>1, <2>2, SameKids
      <3>2. QED
        BY <3>1 DEF IInv, Requested, Sound
    <2>3. QED
      BY <2>1, <2>2
  <1>2. QED
    BY Invariance, <1>1, PTL

(* A unit that was possible and is not given up is still possible.         *)
LEMMA UnitStays ==
    ASSUME NEW current, NEW new, NEW unit \in current,
           GroupCase(current, new, unit) \notin {"NoCompatibleUnits", "LostDefaultGraphicUnit"}
    PROVE  unit \in new
  BY DEF GroupCase

(* Used so, a child that is accepted leaves the group and the parents the  *)
(* page is told of no unit that does not suit their meters, if theirs did  *)
(* before.  Of a parent an old answer leaves out this is not so.           *)
THEOREM AcceptedFit == ~Hurried /\ Spec => AcceptedChildrenFit
  <1>1. ASSUME IInv, ConfirmAssign, pages' # pages, 
               NEW x \in ({asking.group} \cup Parents(asking.group)) \ Untold(asking.group),
               Fits(asking.rows[x])
        PROVE  Fits(pages'[asking.group].rows[x])
    <2> DEFINE g == asking.group
               old == asking.rows
    <2>1. /\ asking # None /\ asking.what = "assign"
          /\ \E temp \in Recomputed(old, g, old[g].kids \cup {asking.child}) :
             \E new \in Validated(old, temp, Affected(g)) :
                 pages' = [pages EXCEPT ![g].rows = new]
      BY <1>1 DEF ConfirmAssign
    <2>2. PICK temp \in Recomputed(old, g, old[g].kids \cup {asking.child}) :
            \E new \in Validated(old, temp, Affected(g)) :
                pages' = [pages EXCEPT ![g].rows = new]
      BY <2>1
    <2>3. PICK new \in Validated(old, temp, Affected(g)) :
                pages' = [pages EXCEPT ![g].rows = new]
      BY <2>2
    <2>4. /\ PageRows(old, g) /\ g \in DOMAIN pages
          /\ DOMAIN pages[g] = PageFields
      BY <1>1, <2>1 DEF IInv, Shapes, AsksWell, Waits
    <2>5. pages'[g].rows = new
      BY <2>3, <2>4 DEF PageFields
    <2>6. x \in Affected(g)
      BY <1>1 DEF Affected, Untold
    <2> HIDE DEF g, old
    <2>7. PageRows(temp, g) /\ \A y \in DOMAIN old : temp[y].unit = old[y].unit
      BY <1>1, <2>1, <2>2, <2>4, RecomputedRows DEF IInv, Shapes
    <2> DEFINE case == GroupCase(CompatibleWithMeters(old[x].deep),
                                 CompatibleWithMeters(temp[x].deep), old[x].unit)
    <2>8. /\ x \in DOMAIN old /\ case # "NoCompatibleUnits" /\ x \in DOMAIN temp
          /\ new[x] = IF case = "LostDefaultGraphicUnit" THEN [temp[x] EXCEPT !.unit = None]
                      ELSE temp[x]
      BY <2>3, <2>4, <2>6, <2>7 DEF Validated, PageRows
    <2>9. DOMAIN temp[x] = RowFields /\ temp[x].unit = old[x].unit
      BY <2>7, <2>8 DEF PageRows, Sound
    <2>10. CASE case = "LostDefaultGraphicUnit"
      <3>1. new[x].unit = None
        BY <2>8, <2>9, <2>10 DEF RowFields
      <3>2. QED
        BY <2>5, <3>1 DEF Fits, g
    <2>11. CASE case # "LostDefaultGraphicUnit"
      <3>1. new[x] = temp[x] /\ case \notin {"NoCompatibleUnits", "LostDefaultGraphicUnit"}
        BY <2>8, <2>11
      <3>2. old[x].unit = None \/ old[x].unit \in CompatibleWithMeters(old[x].deep)
        BY <1>1 DEF Fits, old
      <3>3. temp[x].unit = None \/ temp[x].unit \in CompatibleWithMeters(temp[x].deep)
        BY <2>9, <3>1, <3>2, UnitStays
      <3>4. QED
        BY <2>5, <3>1, <3>3 DEF Fits, g
    <2>12. QED
      BY <2>10, <2>11
  <1>2. IInv /\ [Next]_vars =>
            [ConfirmAssign /\ pages' # pages =>
                LET g == asking.group IN
                \A x \in ({g} \cup Parents(g)) \ Untold(g) :
                    Fits(asking.rows[x]) => Fits(pages'[g].rows[x])]_vars
    BY <1>1
  <1>3. QED
    BY <1>2, Invariance, PTL DEF Spec, AcceptedChildrenFit

-----------------------------------------------------------------------------
(* The page of the site's settings.                                        *)

Fields == {"chart", "title", "min", "max", "number"}
JobFields == {"kind", "tab", "pc", "body", "dialog", "rows", "ver", "code"}
TabFields == {"data", "open", "form", "leaving", "stale", "seen", "own"}

IsRow(r) == r = [f \in Fields |-> r[f]]
IsForm(form) == DOMAIN form = {"row", "typed", "extra"} /\ IsRow(form.row)

TabOK(x, v) ==
    /\ DOMAIN x = TabFields
    /\ IsForm(x.form)
    /\ x.data = NoCopy \/ IsRow(x.data)
    /\ x.stale \in BOOLEAN
    /\ x.seen \in Nat /\ x.own \in Nat /\ x.own <= v

(* What a request holds of the forms sent so far, F, and of the versions.  *)
JobOK(j, F, v) ==
    j # Idle =>
        /\ DOMAIN j = JobFields
        /\ j.ver \in Nat /\ j.ver <= v
        /\ j.kind = "post" => /\ DOMAIN j.body = {"row", "typed", "extra"}
                              /\ j.body.row \in F
                              /\ j.pc = "write" => j.rows \in F
        /\ (j.kind = "get" /\ j.pc = "answer") => IsRow(j.rows)

(* The forms sent are whole, and in order unless the dialog was used.      *)
FormsInv ==
    /\ IsRow(row) /\ row \in {Start} \cup sent
    /\ \A r \in sent : IsRow(r) /\ (r.min > r.max => forced)

Asks(j, t) == j # Idle /\ j.tab = t /\ j.kind = "get"

(* Unless the tab is to ask again, no answer on its way is older than its  *)
(* last save, and it has seen that or waits for an answer.                 *)
Fresh(x, t, J) ==
    x.stale \/ /\ \A s \in Slots : (Asks(J[s], t) /\ J[s].pc # "sent") => J[s].ver >= x.own
               /\ x.own <= x.seen \/ \E s \in Slots : Asks(J[s], t)

PInv ==
    /\ version \in Nat
    /\ FormsInv
    /\ tab = [t \in Tabs |-> tab[t]] /\ \A t \in Tabs : TabOK(tab[t], version)
    /\ jobs = [s \in Slots |-> jobs[s]] /\ \A s \in Slots : JobOK(jobs[s], sent, version)
    /\ \A t \in Tabs : Fresh(tab[t], t, jobs)

LEMMA StartOK == IsRow(Start) /\ IsForm(FormOf(Start)) /\ IsForm(DefaultForm)
  <1>1. IsRow(Start)
    BY PreferencesAssumption DEF Rows, IsRow, Fields
  <1>2. IsForm(FormOf(Start))
    BY <1>1 DEF FormOf, IsForm
  <1>3. QED
    BY <1>1, <1>2 DEF DefaultForm, IsForm, FormOf

LEMMA NewTabOK ==
    /\ \A v \in Nat : TabOK(NewTab, v)
    /\ ~NewTab.stale /\ NewTab.own = 0 /\ NewTab.seen = 0
  BY StartOK DEF NewTab, TabOK, TabFields

LEMMA BaseOK == \A x, v : TabOK(x, v) => IsForm(Base(x))
  BY StartOK DEF TabOK, Base, FormOf, IsForm

LEMMA RequestOK ==
    ASSUME NEW t, NEW kind, NEW body, NEW dialog
    PROVE  LET j == Request(t, kind, body, dialog) IN
           /\ j # Idle /\ DOMAIN j = JobFields /\ j.kind = kind /\ j.tab = t /\ j.pc = "sent"
           /\ j.body = body /\ j.ver = 0
  <1> DEFINE j == Request(t, kind, body, dialog)
  <1>1. /\ DOMAIN j = JobFields /\ j.kind = kind /\ j.tab = t /\ j.pc = "sent"
        /\ j.body = body /\ j.ver = 0
    BY DEF Request, JobFields
  <1>2. DOMAIN Idle = {"kind"}
    BY DEF Idle
  <1> HIDE DEF j
  <1>3. j # Idle
    BY <1>1, <1>2 DEF JobFields
  <1>4. QED
    BY <1>1, <1>3 DEF j

LEMMA AskOK ==
    ASSUME NEW t
    PROVE  LET j == Request(t, "get", NoCopy, FALSE) IN
           j # Idle /\ DOMAIN j = JobFields /\ j.kind = "get" /\ j.tab = t /\ j.pc = "sent" /\ j.ver = 0
  <1> DEFINE j == Request(t, "get", NoCopy, FALSE)
  <1>1. DOMAIN j = JobFields /\ j.kind = "get" /\ j.tab = t /\ j.pc = "sent" /\ j.ver = 0
    BY DEF Request, JobFields
  <1>2. DOMAIN Idle = {"kind"}
    BY DEF Idle
  <1> HIDE DEF j
  <1>3. j # Idle
    BY <1>1, <1>2 DEF JobFields
  <1>4. QED
    BY <1>1, <1>3 DEF j

LEMMA InitPInv == PreferencesInit => PInv
  <1> SUFFICES ASSUME PreferencesInit PROVE PInv
    OBVIOUS
  <1> DEFINE x == [NewTab EXCEPT !.data = Start]
  <1>1. TabOK(x, 0) /\ x.own = 0 /\ x.seen = 0
    BY NewTabOK, StartOK DEF TabOK, TabFields
  <1> HIDE DEF x
  <1>2. tab = [t \in Tabs |-> x] /\ version = 0 /\ row = Start /\ sent = {}
    BY DEF PreferencesInit, x
  <1>3. jobs = [s \in Slots |-> Idle]
    BY DEF PreferencesInit
  <1>4. \A t \in Tabs : Fresh(tab[t], t, jobs)
    <2>1. \A s \in Slots : \A t : ~Asks(jobs[s], t)
      BY <1>3 DEF Asks
    <2>2. \A t \in Tabs : tab[t].own <= tab[t].seen
      <3>1. x.own <= x.seen
        BY <1>1
      <3>2. QED
        BY <1>2, <3>1
    <2>3. QED
      BY <2>1, <2>2 DEF Fresh
  <1>5. QED
    BY <1>1, <1>2, <1>3, <1>4, StartOK DEF PInv, FormsInv, JobOK

-----------------------------------------------------------------------------
(* The server.                                                             *)

(* A request that goes on, with nothing written.                           *)
LEMMA JobStep ==
    ASSUME PInv, NEW s \in Slots, NEW next, jobs' = [jobs EXCEPT ![s] = next],
           JobOK(next, sent, version), UNCHANGED <<row, version, sent, forced, tab>>,
           \A t \in Tabs : Fresh(tab[t], t, jobs')
    PROVE  PInv'
  <1>1. /\ jobs' = [u \in Slots |-> jobs'[u]]
        /\ \A u \in Slots : jobs'[u] = IF u = s THEN next ELSE jobs[u]
    BY DEF PInv
  <1>2. \A u \in Slots : JobOK(jobs'[u], sent, version)
    BY <1>1 DEF PInv
  <1>3. QED
    BY <1>1, <1>2 DEF PInv, FormsInv

LEMMA ServeGetKeeps == \A s \in Slots : PInv /\ ServeGet(s) => PInv'
  <1> SUFFICES ASSUME NEW s \in Slots, PInv, ServeGet(s) PROVE PInv'
    OBVIOUS
  <1> DEFINE j == jobs[s]
             next == [j EXCEPT !.pc = "answer", !.code = 200, !.rows = row, !.ver = version]
  <1>1. /\ j # Idle /\ j.kind = "get" /\ JobOK(j, sent, version)
        /\ jobs' = [jobs EXCEPT ![s] = next] /\ UNCHANGED <<row, version, sent, forced, tab>>
    <2>1. j # Idle
      BY DEF ServeGet, Idle
    <2>2. QED
      BY <2>1 DEF ServeGet, PInv, stored
  <1>2. /\ DOMAIN next = JobFields /\ next.kind = "get" /\ next.tab = j.tab /\ next.pc = "answer"
        /\ next.rows = row /\ next.ver = version
    BY <1>1 DEF JobOK, JobFields
  <1> HIDE DEF next
  <1>3. next # Idle
    BY <1>2 DEF Idle, JobFields
  <1>4. JobOK(next, sent, version)
    BY <1>2 DEF JobOK, PInv, FormsInv
  <1>5. \A u \in Slots : jobs'[u] = IF u = s THEN next ELSE jobs[u]
    BY <1>1 DEF PInv
  <1>6. ASSUME NEW t \in Tabs PROVE Fresh(tab[t], t, jobs')
    <2>1. Fresh(tab[t], t, jobs) /\ TabOK(tab[t], version)
      BY DEF PInv
    <2>2. QED
      BY <1>1, <1>2, <1>3, <1>5, <2>1 DEF Fresh, Asks, TabOK, PInv
  <1>7. QED
    BY <1>1, <1>4, <1>6, JobStep

(* A save is checked, merged and answered: its age stays, or is the newest.*)
LEMMA PostKeeps == \A s \in Slots : PInv /\ (PostRead(s) \/ PostAnswer(s)) => PInv'
  <1> SUFFICES ASSUME NEW s \in Slots, PInv, PostRead(s) \/ PostAnswer(s) PROVE PInv'
    OBVIOUS
  <1> DEFINE j == jobs[s]
             merged == [j EXCEPT !.pc = "write", !.rows = Merge(row, j.body.row)]
             rejected == [j EXCEPT !.pc = "answer", !.code = 400]
             answered == [j EXCEPT !.pc = "answer", !.code = 200, !.rows = row]
  <1>1. j # Idle /\ j.kind = "post"
    BY DEF PostRead, PostAnswer, Idle
  <1>2. JobOK(j, sent, version) /\ UNCHANGED <<row, version, sent, forced, tab>>
    BY DEF PostRead, PostAnswer, PInv, stored
  <1>3. PICK next \in {merged, rejected, answered} : jobs' = [jobs EXCEPT ![s] = next]
    BY DEF PostRead, PostAnswer
  <1>4. DOMAIN j = JobFields
    BY <1>1, <1>2 DEF JobOK
  <1>5. Merge(row, j.body.row) = j.body.row
    <2>1. IsRow(row) /\ IsRow(j.body.row)
      BY <1>1, <1>2 DEF JobOK, PInv, FormsInv
    <2>2. QED
      BY <2>1 DEF Merge, IsRow
  <1>6. /\ DOMAIN next = JobFields /\ next.kind = "post" /\ next.tab = j.tab /\ next.ver = j.ver
        /\ next.body = j.body /\ (next.pc = "write" => next.rows = j.body.row)
    <2>1. CASE next = merged
      BY <1>1, <1>4, <1>5, <2>1 DEF JobFields
    <2>2. CASE next = rejected
      BY <1>1, <1>4, <2>2 DEF JobFields
    <2>3. CASE next = answered
      BY <1>1, <1>4, <2>3 DEF JobFields
    <2>4. QED
      BY <1>3, <2>1, <2>2, <2>3
  <1>7. next # Idle
    BY <1>6 DEF Idle, JobFields
  <1> HIDE DEF merged, rejected, answered
  <1>8. JobOK(next, sent, version)
    BY <1>1, <1>2, <1>6 DEF JobOK
  <1>9. \A u \in Slots : jobs'[u] = IF u = s THEN next ELSE jobs[u]
    BY <1>3 DEF PInv
  <1>10. ASSUME NEW t \in Tabs PROVE Fresh(tab[t], t, jobs')
    BY <1>1, <1>6, <1>9 DEF Fresh, Asks, PInv
  <1>11. QED
    BY <1>2, <1>3, <1>8, <1>10, JobStep

LEMMA PostWriteKeeps == \A s \in Slots : PInv /\ PostWrite(s) => PInv'
  <1> SUFFICES ASSUME NEW s \in Slots, PInv, PostWrite(s) PROVE PInv'
    OBVIOUS
  <1> DEFINE j == jobs[s]
             failed == [j EXCEPT !.pc = "answer", !.code = 500]
             written == [j EXCEPT !.pc = "read", !.ver = version']
  <1>1. j # Idle /\ j.kind = "post" /\ j.pc = "write"
    BY DEF PostWrite, Idle
  <1>2. JobOK(j, sent, version) /\ UNCHANGED <<sent, forced, tab>> /\ version \in Nat
    BY DEF PostWrite, PInv
  <1>3. DOMAIN j = JobFields /\ j.rows \in sent
    BY <1>1, <1>2 DEF JobOK
  <1>4. CASE jobs' = [jobs EXCEPT ![s] = failed] /\ UNCHANGED <<row, version>>
    <2>1. /\ DOMAIN failed = JobFields /\ failed.kind = "post" /\ failed.tab = j.tab
          /\ failed.ver = j.ver /\ failed.body = j.body /\ failed.pc = "answer"
      BY <1>1, <1>3 DEF JobFields
    <2> HIDE DEF failed
    <2>2. JobOK(failed, sent, version)
      BY <1>1, <1>2, <2>1 DEF JobOK
    <2>3. \A u \in Slots : jobs'[u] = IF u = s THEN failed ELSE jobs[u]
      BY <1>4 DEF PInv
    <2>4. ASSUME NEW t \in Tabs PROVE Fresh(tab[t], t, jobs')
      BY <1>1, <2>1, <2>3 DEF Fresh, Asks, PInv
    <2>5. QED
      BY <1>2, <1>4, <2>2, <2>4, JobStep
  <1>5. CASE /\ row' = j.rows /\ version' = version + 1
             /\ jobs' = [jobs EXCEPT ![s] = written]
    <2>1. /\ DOMAIN written = JobFields /\ written.kind = "post" /\ written.tab = j.tab
          /\ written.ver = version + 1 /\ written.body = j.body /\ written.pc = "read"
      BY <1>1, <1>3, <1>5 DEF JobFields
    <2> HIDE DEF written
    <2>2. JobOK(written, sent, version + 1)
      BY <1>1, <1>2, <2>1 DEF JobOK
    <2>3. \A k : JobOK(k, sent, version) => JobOK(k, sent, version + 1)
      BY <1>2 DEF JobOK
    <2>4. \A x : TabOK(x, version) => TabOK(x, version + 1)
      BY <1>2 DEF TabOK
    <2>5. \A u \in Slots : jobs'[u] = IF u = s THEN written ELSE jobs[u]
      BY <1>5 DEF PInv
    <2>6. jobs' = [u \in Slots |-> jobs'[u]] /\ \A u \in Slots : JobOK(jobs'[u], sent, version + 1)
      BY <1>5, <2>2, <2>3, <2>5 DEF PInv
    <2>7. ASSUME NEW t \in Tabs PROVE Fresh(tab[t], t, jobs')
      BY <1>1, <2>1, <2>5 DEF Fresh, Asks, PInv
    <2>8. FormsInv'
      BY <1>2, <1>3, <1>5 DEF FormsInv, PInv
    <2>9. QED
      BY <1>2, <1>5, <2>4, <2>6, <2>7, <2>8 DEF PInv
  <1>6. QED
    BY <1>4, <1>5 DEF PostWrite

-----------------------------------------------------------------------------
(* The tabs.  A step of one tab that sends nothing.                        *)
LEMMA TabStep ==
    ASSUME PInv, NEW t \in Tabs, NEW x, tab' = [tab EXCEPT ![t] = x],
           TabOK(x, version), UNCHANGED <<row, version, sent, forced, jobs>>,
           x.stale = tab[t].stale, x.own = tab[t].own, x.seen = tab[t].seen
    PROVE  PInv'
  <1>1. /\ tab' = [u \in Tabs |-> tab'[u]]
        /\ \A u \in Tabs : tab'[u] = IF u = t THEN x ELSE tab[u]
    BY DEF PInv
  <1>2. \A u \in Tabs : TabOK(tab'[u], version)
    BY <1>1 DEF PInv
  <1>3. \A u \in Tabs : Fresh(tab'[u], u, jobs)
    BY <1>1 DEF PInv, Fresh
  <1>4. QED
    BY <1>1, <1>2, <1>3 DEF PInv, FormsInv

(* The page is opened, left, set back, or asks in its dialog.              *)
LEMMA FormKeeps ==
    ASSUME PInv, NEW t \in Tabs,
           OpenPage(t) \/ Discard(t) \/ LeavePage(t) \/ AnswerDialog(t)
    PROVE  PInv'
  <1>1. UNCHANGED <<row, version, sent, forced, jobs>>
    BY DEF OpenPage, Discard, LeavePage, AnswerDialog, stored
  <1>2. TabOK(tab[t], version) /\ IsForm(Base(tab[t])) /\ IsForm(DefaultForm)
    BY BaseOK, StartOK DEF PInv
  <1>3. ASSUME NEW x, tab' = [tab EXCEPT ![t] = x], DOMAIN x = TabFields, IsForm(x.form),
               x.data = tab[t].data, x.stale = tab[t].stale, x.seen = tab[t].seen,
               x.own = tab[t].own
        PROVE  PInv'
    <2>1. TabOK(x, version)
      BY <1>2, <1>3 DEF TabOK
    <2>2. QED
      BY <1>1, <1>3, <2>1, TabStep
  <1>4. CASE OpenPage(t)
    <2> DEFINE x == [tab[t] EXCEPT !.open = TRUE, !.form = Base(tab[t])]
    <2>1. tab' = [tab EXCEPT ![t] = x]
      BY <1>4 DEF OpenPage
    <2>2. /\ DOMAIN x = TabFields /\ x.form = Base(tab[t]) /\ x.data = tab[t].data
          /\ x.stale = tab[t].stale /\ x.own = tab[t].own /\ x.seen = tab[t].seen
      BY <1>2 DEF TabOK, TabFields
    <2> HIDE DEF x
    <2>3. QED
      BY <1>2, <1>3, <2>1, <2>2
  <1>5. CASE Discard(t)
    <2> DEFINE x == [tab[t] EXCEPT !.form = Base(tab[t])]
    <2>1. tab' = [tab EXCEPT ![t] = x]
      BY <1>5 DEF Discard
    <2>2. /\ DOMAIN x = TabFields /\ x.form = Base(tab[t]) /\ x.data = tab[t].data
          /\ x.stale = tab[t].stale /\ x.own = tab[t].own /\ x.seen = tab[t].seen
      BY <1>2 DEF TabOK, TabFields
    <2> HIDE DEF x
    <2>3. QED
      BY <1>2, <1>3, <2>1, <2>2
  <1>6. ASSUME tab' = [tab EXCEPT ![t] = Away(tab[t])] PROVE PInv'
    <2> DEFINE x == Away(tab[t])
    <2>1. /\ DOMAIN x = TabFields /\ x.form = DefaultForm /\ x.data = tab[t].data
          /\ x.stale = tab[t].stale /\ x.own = tab[t].own /\ x.seen = tab[t].seen
      BY <1>2 DEF TabOK, TabFields, Away
    <2> HIDE DEF x
    <2>2. QED
      BY <1>2, <1>3, <1>6, <2>1 DEF x
  <1>7. ASSUME NEW b, tab' = [tab EXCEPT ![t] = [tab[t] EXCEPT !.leaving = b]] PROVE PInv'
    <2> DEFINE x == [tab[t] EXCEPT !.leaving = b]
    <2>1. /\ DOMAIN x = TabFields /\ x.form = tab[t].form /\ x.data = tab[t].data
          /\ x.stale = tab[t].stale /\ x.own = tab[t].own /\ x.seen = tab[t].seen
      BY <1>2 DEF TabOK, TabFields
    <2>2. tab' = [tab EXCEPT ![t] = x]
      BY <1>7
    <2>3. IsForm(tab[t].form)
      BY <1>2 DEF TabOK
    <2> HIDE DEF x
    <2>4. QED
      BY <1>3, <2>1, <2>2, <2>3
  <1>8. CASE LeavePage(t)
    <2>1. CASE HasChanges(tab[t])
      <3>1. tab' = [tab EXCEPT ![t] = [tab[t] EXCEPT !.leaving = TRUE]]
        BY <1>8, <2>1 DEF LeavePage
      <3>2. QED
        BY <1>7, <3>1
    <2>2. CASE ~HasChanges(tab[t])
      <3>1. tab' = [tab EXCEPT ![t] = Away(tab[t])]
        BY <1>8, <2>2 DEF LeavePage
      <3>2. QED
        BY <1>6, <3>1
    <2>3. QED
      BY <2>1, <2>2
  <1>9. CASE AnswerDialog(t)
    <2>1. \/ tab' = [tab EXCEPT ![t] = [tab[t] EXCEPT !.leaving = FALSE]]
          \/ tab' = [tab EXCEPT ![t] = Away(tab[t])]
      BY <1>9 DEF AnswerDialog
    <2>2. QED
      BY <1>6, <1>7, <2>1
  <1>10. QED
    BY <1>4, <1>5, <1>8, <1>9

(* What is typed changes one setting, and leaves the form whole.           *)
LEMMA EditKeeps ==
    ASSUME PInv, NEW t \in Tabs, EditGraph(t) \/ EditMeter(t) \/ EditSite(t)
    PROVE  PInv'
  <1> DEFINE old == tab[t].form
  <1>1. UNCHANGED <<row, version, sent, forced, jobs>>
    BY DEF EditGraph, EditMeter, EditSite, Editing, stored
  <1>2. TabOK(tab[t], version) /\ IsForm(old) /\ IsRow(old.row)
    BY DEF PInv, TabOK, IsForm
  <1>3. ASSUME NEW form, IsForm(form), tab' = [tab EXCEPT ![t] = [tab[t] EXCEPT !.form = form]]
        PROVE  PInv'
    <2> DEFINE x == [tab[t] EXCEPT !.form = form]
    <2>1. /\ DOMAIN x = TabFields /\ x.form = form /\ x.data = tab[t].data
          /\ x.stale = tab[t].stale /\ x.own = tab[t].own /\ x.seen = tab[t].seen
      BY <1>2 DEF TabOK, TabFields
    <2>2. tab' = [tab EXCEPT ![t] = x]
      BY <1>3
    <2> HIDE DEF x
    <2>3. TabOK(x, version)
      BY <1>2, <1>3, <2>1 DEF TabOK
    <2>4. QED
      BY <1>1, <2>1, <2>2, <2>3, TabStep
  <1>4. ASSUME NEW f, NEW v, Type(t, f, v) PROVE PInv'
    <2> DEFINE form == [old EXCEPT !.row = [old.row EXCEPT ![f] = v]]
    <2>1. IsForm(form)
      BY <1>2 DEF IsForm, IsRow
    <2>2. tab' = [tab EXCEPT ![t] = [tab[t] EXCEPT !.form = form]]
      BY <1>4 DEF Type
    <2> HIDE DEF form
    <2>3. QED
      BY <1>3, <2>1, <2>2
  <1>5. ASSUME TypeNumber(t) PROVE PInv'
    <2>1. PICK n \in Numbers :
            tab' = [tab EXCEPT ![t].form = [@ EXCEPT !.row.number = n, !.typed = TRUE]]
      BY <1>5 DEF TypeNumber
    <2> DEFINE form == [old EXCEPT !.row = [old.row EXCEPT !.number = n], !.typed = TRUE]
    <2>2. IsForm(form)
      BY <1>2 DEF IsForm, IsRow
    <2>3. tab' = [tab EXCEPT ![t] = [tab[t] EXCEPT !.form = form]]
      BY <2>1
    <2> HIDE DEF form
    <2>4. QED
      BY <1>3, <2>2, <2>3
  <1>6. QED
    BY <1>4, <1>5 DEF EditGraph, EditMeter, EditSite

-----------------------------------------------------------------------------
(* Requests that are sent.                                                 *)

(* A step that changes requests, and perhaps one tab.                      *)
LEMMA SendStep ==
    ASSUME PInv, NEW t \in Tabs, NEW x, UNCHANGED <<row, version>>, FormsInv', sent \subseteq sent',
           tab' = [tab EXCEPT ![t] = x], TabOK(x, version), Fresh(x, t, jobs'),
           jobs' = [s \in Slots |-> jobs'[s]], \A s \in Slots : JobOK(jobs'[s], sent', version),
           \A u \in Tabs \ {t} : \A s \in Slots :
               (Asks(jobs[s], u) \/ Asks(jobs'[s], u)) => jobs'[s] = jobs[s]
    PROVE  PInv'
  <1>1. /\ tab' = [u \in Tabs |-> tab'[u]]
        /\ \A u \in Tabs : tab'[u] = IF u = t THEN x ELSE tab[u]
    BY DEF PInv
  <1>2. \A u \in Tabs : TabOK(tab'[u], version)
    BY <1>1 DEF PInv
  <1>3. ASSUME NEW u \in Tabs PROVE Fresh(tab'[u], u, jobs')
    <2>1. CASE u = t
      BY <1>1, <2>1
    <2>2. CASE u # t
      <3>1. Fresh(tab[u], u, jobs) /\ tab'[u] = tab[u]
        BY <1>1, <2>2 DEF PInv
      <3>2. \A s \in Slots : (Asks(jobs[s], u) \/ Asks(jobs'[s], u)) => jobs'[s] = jobs[s]
        BY <2>2
      <3>3. CASE tab[u].stale
        BY <3>1, <3>3 DEF Fresh
      <3>4. CASE ~tab[u].stale
        <4>1. \A s \in Slots : (Asks(jobs'[s], u) /\ jobs'[s].pc # "sent") => jobs'[s].ver >= tab[u].own
          BY <3>1, <3>2, <3>4 DEF Fresh
        <4>2. tab[u].own <= tab[u].seen \/ \E s \in Slots : Asks(jobs'[s], u)
          BY <3>1, <3>2, <3>4 DEF Fresh
        <4>3. QED
          BY <3>1, <4>1, <4>2 DEF Fresh
      <3>5. QED
        BY <3>3, <3>4
    <2>3. QED
      BY <2>1, <2>2
  <1>4. QED
    BY <1>1, <1>2, <1>3 DEF PInv

(* A tab that is loaded again has lost its requests and its saves.         *)
LEMMA LoadKeeps == \A t \in Tabs : PInv /\ Load(t) => PInv'
  <1> SUFFICES ASSUME NEW t \in Tabs, PInv, Load(t) PROVE PInv'
    OBVIOUS
  <1> DEFINE r == Request(t, "get", NoCopy, FALSE)
             gone(j) == [j EXCEPT !.tab = "gone"]
  <1>1. PICK s \in Slots :
          /\ Free(s)
          /\ jobs' = [u \in Slots |->
                        IF u = s THEN r
                        ELSE IF jobs[u] # Idle /\ jobs[u].tab = t THEN gone(jobs[u]) ELSE jobs[u]]
    BY DEF Load
  <1>2. UNCHANGED <<row, version, sent, forced>> /\ tab' = [tab EXCEPT ![t] = NewTab]
    BY DEF Load, stored
  <1>3. jobs[s] = Idle
    BY <1>1 DEF Free
  <1>4. r # Idle /\ DOMAIN r = JobFields /\ r.kind = "get" /\ r.tab = t /\ r.pc = "sent" /\ r.ver = 0
    BY AskOK
  <1> HIDE DEF r
  <1>5. ASSUME NEW j, j # Idle, JobOK(j, sent, version)
        PROVE  JobOK(gone(j), sent, version) /\ gone(j).tab = "gone"
    <2>1. /\ DOMAIN gone(j) = JobFields /\ gone(j).kind = j.kind /\ gone(j).tab = "gone"
          /\ gone(j).ver = j.ver /\ gone(j).body = j.body /\ gone(j).pc = j.pc
          /\ gone(j).rows = j.rows
      BY <1>5 DEF JobOK, JobFields
    <2> HIDE DEF gone
    <2>2. QED
      BY <1>5, <2>1 DEF JobOK
  <1> HIDE DEF gone
  <1>6. JobOK(r, sent, version)
    BY <1>4 DEF JobOK, PInv
  <1>7. \A u \in Slots : JobOK(jobs'[u], sent, version)
    BY <1>1, <1>5, <1>6 DEF PInv
  <1>8. TabOK(NewTab, version) /\ Fresh(NewTab, t, jobs')
    <2>1. TabOK(NewTab, version) /\ NewTab.own = 0 /\ NewTab.seen = 0
      BY NewTabOK DEF PInv
    <2>2. \A u \in Slots : Asks(jobs'[u], t) => u = s
      BY <1>1, <1>5, PreferencesAssumption DEF Asks, PInv
    <2>3. QED
      BY <1>1, <1>4, <2>1, <2>2 DEF Fresh
  <1>9. ASSUME NEW v \in Tabs \ {t}, NEW u \in Slots, Asks(jobs[u], v) \/ Asks(jobs'[u], v)
        PROVE  jobs'[u] = jobs[u]
    BY <1>1, <1>3, <1>4, <1>5, <1>9, PreferencesAssumption DEF Asks, PInv
  <1>10. FormsInv'
    BY <1>2 DEF PInv, FormsInv
  <1>11. jobs' = [u \in Slots |-> jobs'[u]]
    BY <1>1
  <1>12. QED
    BY <1>2, <1>7, <1>8, <1>9, <1>10, <1>11, SendStep

(* A save adds its form to those sent: in order, unless by the dialog.     *)
LEMMA SubmitKeeps == \A t \in Tabs : PInv /\ (Save(t) \/ SaveAll(t)) => PInv'
  <1> SUFFICES ASSUME NEW t \in Tabs, PInv, Save(t) \/ SaveAll(t) PROVE PInv'
    OBVIOUS
  <1> DEFINE form == tab[t].form
  <1>1. PICK dialog : /\ Send(Request(t, "post", form, dialog))
                      /\ sent' = sent \cup {form.row}
                      /\ UNCHANGED <<row, version, tab>>
    BY DEF Save, SaveAll, Submit, Body
  <1> DEFINE r == Request(t, "post", form, dialog)
  <1>2. PICK s \in Slots : jobs[s] = Idle /\ jobs' = [jobs EXCEPT ![s] = r]
    BY <1>1 DEF Send, Free
  <1>3. /\ r # Idle /\ DOMAIN r = JobFields /\ r.kind = "post" /\ r.tab = t /\ r.pc = "sent"
        /\ r.body = form /\ r.ver = 0
    BY RequestOK
  <1> HIDE DEF r
  <1>4. TabOK(tab[t], version) /\ IsForm(form) /\ IsRow(form.row)
    BY DEF PInv, TabOK, IsForm
  <1>5. JobOK(r, sent', version)
    BY <1>1, <1>3, <1>4 DEF JobOK, IsForm, PInv
  <1>6. \A j : JobOK(j, sent, version) => JobOK(j, sent', version)
    BY <1>1 DEF JobOK
  <1>7. /\ jobs' = [u \in Slots |-> jobs'[u]]
        /\ \A u \in Slots : jobs'[u] = IF u = s THEN r ELSE jobs[u]
    BY <1>2 DEF PInv
  <1>8. \A u \in Slots : JobOK(jobs'[u], sent', version)
    BY <1>5, <1>6, <1>7 DEF PInv
  <1>9. FormsInv'
    <2>1. (forced => forced') /\ (form.row.min > form.row.max => forced')
      <3>1. CASE Save(t)
        BY <3>1, Zenon DEF Save, Invalid
      <3>2. CASE SaveAll(t)
        BY <3>2, Zenon DEF SaveAll, Invalid
      <3>3. QED
        BY <3>1, <3>2
    <2>2. QED
      BY <1>1, <1>4, <2>1 DEF PInv, FormsInv
  <1>10. \A v : ~Asks(r, v) /\ ~Asks(jobs[s], v)
    BY <1>2, <1>3 DEF Asks
  <1>11. Fresh(tab[t], t, jobs')
    BY <1>2, <1>3, <1>7 DEF Fresh, Asks, PInv
  <1>12. tab' = [tab EXCEPT ![t] = tab[t]]
    BY <1>1 DEF PInv
  <1>13. \A u \in Tabs \ {t} : \A v \in Slots :
           (Asks(jobs[v], u) \/ Asks(jobs'[v], u)) => jobs'[v] = jobs[v]
    BY <1>7, <1>10
  <1>14. QED
    BY <1>1, <1>4, <1>7, <1>8, <1>9, <1>11, <1>12, <1>13, SendStep

(* A tab that asks again waits for an answer.                              *)
LEMMA AskAgainKeeps == \A t \in Tabs : PInv /\ AskAgain(t) => PInv'
  <1> SUFFICES ASSUME NEW t \in Tabs, PInv, AskAgain(t) PROVE PInv'
    OBVIOUS
  <1> DEFINE r == Request(t, "get", NoCopy, FALSE)
             x == [tab[t] EXCEPT !.stale = FALSE]
  <1>1. PICK s \in Slots : jobs[s] = Idle /\ jobs' = [jobs EXCEPT ![s] = r]
    BY DEF AskAgain, Send, Free
  <1>2. /\ UNCHANGED <<row, version, sent, forced>> /\ tab' = [tab EXCEPT ![t] = x]
        /\ \A u \in Slots : jobs[u] # Idle => jobs[u].tab # t
    BY DEF AskAgain, stored, Under
  <1>3. r # Idle /\ DOMAIN r = JobFields /\ r.kind = "get" /\ r.tab = t /\ r.pc = "sent" /\ r.ver = 0
    BY AskOK
  <1>4. TabOK(tab[t], version)
    BY DEF PInv
  <1>5. /\ DOMAIN x = TabFields /\ x.form = tab[t].form /\ x.data = tab[t].data
        /\ x.stale = FALSE /\ x.own = tab[t].own /\ x.seen = tab[t].seen
    BY <1>4 DEF TabOK, TabFields
  <1> HIDE DEF r, x
  <1>6. TabOK(x, version)
    BY <1>4, <1>5 DEF TabOK
  <1>7. JobOK(r, sent, version)
    BY <1>3 DEF JobOK, PInv
  <1>8. /\ jobs' = [u \in Slots |-> jobs'[u]]
        /\ \A u \in Slots : jobs'[u] = IF u = s THEN r ELSE jobs[u]
    BY <1>1 DEF PInv
  <1>9. \A u \in Slots : JobOK(jobs'[u], sent, version)
    BY <1>7, <1>8 DEF PInv
  <1>10. Fresh(x, t, jobs')
    BY <1>2, <1>3, <1>8 DEF Fresh, Asks
  <1>11. \A u \in Tabs \ {t} : \A v \in Slots :
           (Asks(jobs[v], u) \/ Asks(jobs'[v], u)) => jobs'[v] = jobs[v]
    BY <1>1, <1>3, <1>8 DEF Asks
  <1>12. FormsInv'
    BY <1>2 DEF PInv, FormsInv
  <1>13. QED
    BY <1>2, <1>6, <1>8, <1>9, <1>10, <1>11, <1>12, SendStep

-----------------------------------------------------------------------------
(* Answers.  A request that has ended asks for nothing.                    *)
LEMMA EndStep ==
    ASSUME PInv, NEW s \in Slots, NEW t \in Tabs, NEW x, jobs[s] # Idle, jobs[s].tab = t,
           jobs' = [jobs EXCEPT ![s] = Idle], tab' = [tab EXCEPT ![t] = x],
           UNCHANGED <<row, version, sent, forced>>, TabOK(x, version), Fresh(x, t, jobs')
    PROVE  PInv'
  <1>1. /\ jobs' = [u \in Slots |-> jobs'[u]]
        /\ \A u \in Slots : jobs'[u] = IF u = s THEN Idle ELSE jobs[u]
    BY DEF PInv
  <1>2. \A u \in Slots : JobOK(jobs'[u], sent, version)
    BY <1>1 DEF PInv, JobOK
  <1>3. \A u \in Tabs \ {t} : \A v \in Slots :
          (Asks(jobs[v], u) \/ Asks(jobs'[v], u)) => jobs'[v] = jobs[v]
    BY <1>1 DEF Asks
  <1>4. FormsInv'
    BY DEF PInv, FormsInv
  <1>5. QED
    BY <1>1, <1>2, <1>3, <1>4, SendStep

LEMMA AnswerGetKeeps == \A s \in Slots : PInv /\ AnswerGet(s) => PInv'
  <1> SUFFICES ASSUME NEW s \in Slots, PInv, AnswerGet(s) PROVE PInv'
    OBVIOUS
  <1> DEFINE j == jobs[s]
             t == j.tab
             x == Fetched(tab[t], j)
  <1>1. /\ t \in Tabs /\ j.kind = "get" /\ j.pc = "answer"
        /\ tab' = [tab EXCEPT ![t] = x] /\ jobs' = [jobs EXCEPT ![s] = Idle]
        /\ UNCHANGED <<row, version, sent, forced>>
    BY DEF AnswerGet, Arrives, stored
  <1>2. j # Idle /\ JobOK(j, sent, version) /\ TabOK(tab[t], version) /\ Fresh(tab[t], t, jobs)
    BY <1>1 DEF PInv, Idle
  <1>3. j.ver \in Nat /\ j.ver <= version /\ IsRow(j.rows)
    BY <1>1, <1>2 DEF JobOK
  <1>4. /\ DOMAIN x = TabFields /\ x.data = j.rows /\ x.seen = j.ver
        /\ x.stale = tab[t].stale /\ x.own = tab[t].own
        /\ x.form \in {tab[t].form, FormOf(j.rows)}
    BY <1>2 DEF TabOK, TabFields, Fetched
  <1> HIDE DEF x
  <1>5. IsForm(FormOf(j.rows))
    BY <1>3 DEF FormOf, IsForm
  <1>6. TabOK(x, version)
    BY <1>2, <1>3, <1>4, <1>5 DEF TabOK
  <1>7. \A u \in Slots : jobs'[u] = IF u = s THEN Idle ELSE jobs[u]
    BY <1>1 DEF PInv
  <1>8. Fresh(x, t, jobs')
    <2>1. CASE tab[t].stale
      BY <1>4, <2>1 DEF Fresh
    <2>2. CASE ~tab[t].stale
      <3>1. \A u \in Slots : (Asks(jobs[u], t) /\ jobs[u].pc # "sent") => jobs[u].ver >= x.own
        BY <1>2, <1>4, <2>2 DEF Fresh
      <3>2. j.ver >= x.own
        BY <1>1, <1>2, <3>1 DEF Asks
      <3>3. x.own <= x.seen
        BY <1>3, <1>4, <1>6, <3>2 DEF TabOK
      <3>4. QED
        BY <1>7, <3>1, <3>3 DEF Fresh, Asks
    <2>3. QED
      BY <2>1, <2>2
  <1>9. QED
    BY <1>1, <1>2, <1>6, <1>8, EndStep

LEMMA AnswerPostKeeps == \A s \in Slots : PInv /\ AnswerPost(s) => PInv'
  <1> SUFFICES ASSUME NEW s \in Slots, PInv, AnswerPost(s) PROVE PInv'
    OBVIOUS
  <1> DEFINE j == jobs[s]
             t == j.tab
             x == [tab[t] EXCEPT !.stale = TRUE, !.own = IF j.code = 200 THEN j.ver ELSE @]
  <1>1. /\ t \in Tabs /\ j.kind = "post" /\ jobs' = [jobs EXCEPT ![s] = Idle]
        /\ UNCHANGED <<row, version, sent, forced>>
    BY DEF AnswerPost, Arrives, stored
  <1>2. j # Idle /\ JobOK(j, sent, version) /\ TabOK(tab[t], version)
    BY <1>1 DEF PInv, Idle
  <1>3. j.ver \in Nat /\ j.ver <= version
    BY <1>2 DEF JobOK
  <1>4. /\ DOMAIN x = TabFields /\ x.data = tab[t].data /\ x.seen = tab[t].seen
        /\ x.stale = TRUE /\ x.own \in {j.ver, tab[t].own} /\ x.form = tab[t].form
    BY <1>2 DEF TabOK, TabFields
  <1>5. tab' = [tab EXCEPT ![t] = x] \/ tab' = [tab EXCEPT ![t] = Away(x)]
    BY DEF AnswerPost
  <1> HIDE DEF x
  <1>6. TabOK(x, version)
    BY <1>2, <1>3, <1>4 DEF TabOK
  <1>7. /\ DOMAIN Away(x) = TabFields /\ Away(x).data = x.data /\ Away(x).seen = x.seen
        /\ Away(x).stale = TRUE /\ Away(x).own = x.own /\ Away(x).form = DefaultForm
    BY <1>4 DEF Away, TabFields
  <1>8. TabOK(Away(x), version)
    BY <1>6, <1>7, StartOK DEF TabOK
  <1>9. Fresh(x, t, jobs') /\ Fresh(Away(x), t, jobs')
    BY <1>4, <1>7 DEF Fresh
  <1>10. QED
    BY <1>1, <1>2, <1>5, <1>6, <1>8, <1>9, EndStep

LEMMA ForgetKeeps == \A s \in Slots : PInv /\ Forget(s) => PInv'
  <1> SUFFICES ASSUME NEW s \in Slots, PInv, Forget(s) PROVE PInv'
    OBVIOUS
  <1>1. /\ jobs[s] # Idle /\ jobs[s].tab \notin Tabs /\ jobs' = [jobs EXCEPT ![s] = Idle]
        /\ UNCHANGED <<row, version, sent, forced, tab>>
    BY PreferencesAssumption DEF Forget, stored
  <1>2. \A u \in Slots : jobs'[u] = IF u = s THEN Idle ELSE jobs[u]
    BY <1>1 DEF PInv
  <1>3. \A t \in Tabs : Fresh(tab[t], t, jobs')
    BY <1>1, <1>2 DEF PInv, Fresh, Asks
  <1>4. QED
    BY <1>1, <1>3, JobStep DEF JobOK

-----------------------------------------------------------------------------
LEMMA NextPInv == PInv /\ [PreferencesNext]_preferencesVars => PInv'
  <1> SUFFICES ASSUME PInv, [PreferencesNext]_preferencesVars PROVE PInv'
    OBVIOUS
  <1>1. CASE UNCHANGED preferencesVars
    BY <1>1 DEF preferencesVars, PInv, FormsInv
  <1>2. ASSUME NEW s \in Slots, Server(s) PROVE PInv'
    BY <1>2, ServeGetKeeps, PostKeeps, PostWriteKeeps DEF Server
  <1>3. ASSUME NEW s \in Slots, Client(s) PROVE PInv'
    BY <1>3, AnswerGetKeeps, AnswerPostKeeps, ForgetKeeps DEF Client
  <1>4. ASSUME NEW t \in Tabs, Page(t) PROVE PInv'
    BY <1>4, LoadKeeps, FormKeeps, EditKeeps, SubmitKeeps, AskAgainKeeps DEF Page
  <1>5. QED
    BY <1>1, <1>2, <1>3, <1>4 DEF PreferencesNext

LEMMA AlwaysPInv == PreferencesSpec => []PInv
  BY InitPInv, NextPInv, PTL DEF PreferencesSpec

(* However the reads and writes of saves cross in Preferences.update, the  *)
(* row is the starting one or one form as a whole; and as long as the      *)
(* dialog has sent no form that the page calls invalid, its dates are in   *)
(* order.                                                                  *)
THEOREM FormsStayWhole == PreferencesSpec => []RowIsOneForm
  <1>1. PInv => RowIsOneForm
    <2> SUFFICES ASSUME PInv PROVE RowIsOneForm
      OBVIOUS
    <2>1. row \in {Start} \cup sent
      BY DEF PInv, FormsInv
    <2>2. ASSUME row.min > row.max PROVE forced
      <3>1. Start.min \in Nat /\ Start.max \in Nat /\ Start.min <= Start.max
        BY PreferencesAssumption DEF Rows
      <3>2. row # Start
        BY <2>2, <3>1
      <3>3. QED
        BY <2>2, <3>2 DEF PInv, FormsInv
    <2>3. QED
      BY <2>1, <2>2 DEF RowIsOneForm
  <1>2. QED
    BY <1>1, AlwaysPInv, PTL

(* A tab whose requests are answered and that need not ask again has read  *)
(* the row after its last save, whatever other answers came in between.    *)
THEOREM OwnSavesAreShown == PreferencesSpec => []OwnSavesShown
  <1>1. PInv => OwnSavesShown
    BY DEF PInv, Fresh, Asks, Under, OwnSavesShown
  <1>2. QED
    BY <1>1, AlwaysPInv, PTL
=============================================================================
