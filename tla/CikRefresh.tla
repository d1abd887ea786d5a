----------------------------- MODULE CikRefresh -----------------------------
(***************************************************************************)
(* Units, the conversions between them, and Cik: the table that gives, for *)
(* each unit of a meter and each unit it can be shown in, the conversion   *)
(* from the one to the other.  redoCik computes Cik again, with the units  *)
(* "X of S" that OED makes for each unit X that a unit with the suffix S   *)
(* reaches.  It runs in no transaction: admins' requests and other         *)
(* refreshes run between its statements.                                   *)
(*                                                                         *)
(* One action is one statement that writes, with the reads that lead to    *)
(* it; the three reads that fix what a refresh works on are actions of     *)
(* their own.  A conversion is y = slope * x + icept over the integers     *)
(* modulo a prime, where composing and inverting are exact.  A unit is     *)
(* known by its name, which UNIQUE makes a key; renaming is left out.      *)
(***************************************************************************)
EXTENDS Integers, SequencesExt

CONSTANTS
    Jobs,            \* refreshes that may run at the same time
    BaseUnits,       \* names of units that admins give
    SuffixNames,     \* the suffixes units may have
    NoSuffix,        \* the empty suffix
    Absent,          \* a key that is not in the body of a request
    Prime,           \* conversions are over the integers modulo Prime
    InitUnits,       \* the tables at first
    InitConversions,
    ConversionAdds, ConversionEdits, ConversionDeletes,   \* what admins
    UnitAdds, UnitEdits, UnitDeletes,                     \* may ask for
    MaxStarts,       \* bound on the number of refreshes
    MaxRequests      \* bound on the number of admins' requests

VARIABLES
    units,       \* the table units: name -> [type, suffix, disp]
    conversions, \* the table conversions: <<source, destination>> -> [bi, map]
    cik,         \* the table cik: <<meter unit, unit>> -> map
    job,         \* what each refresh knows and where it is
    pending,     \* the inserts into cik a refresh sent and did not await
    edit,        \* the edit of a unit in progress
    cleanup,     \* the tasks removeAdditionalConversionsAndUnits did not await
    starts, requests,
    claim        \* history: what each refresh can be held to, see Start

vars == <<units, conversions, cik, job, pending, edit, cleanup, starts, requests, claim>>

Displayable == {"none", "all", "admin"}
Made(d, s) == <<d, s>>                   \* the unit named d.name + " of " + s

ASSUME PrimeAssumption == Prime \in Nat /\ \A n \in 2..(Prime - 1) : Prime % n # 0
ASSUME SuffixAssumption == NoSuffix \notin SuffixNames /\ Absent \notin SuffixNames \cup {NoSuffix}
ASSUME InitAssumption ==
    /\ DOMAIN InitUnits \subseteq BaseUnits
    /\ \A e \in DOMAIN InitConversions : e[1] # e[2] /\ {e[1], e[2]} \subseteq DOMAIN InitUnits

-----------------------------------------------------------------------------
(* Conversions along paths.                                                *)

Identity == [slope |-> 1, icept |-> 0]

(* A change to UpdatedConversion: the intercept so far is not scaled.      *)
UpdatedConversionUnscaled(f, g) ==
    [slope |-> (f.slope * g.slope) % Prime, icept |-> (f.icept + g.icept) % Prime]

(* First f, then g.                                                        *)
UpdatedConversion(f, g) ==
    [slope |-> (f.slope * g.slope) % Prime, icept |-> (g.slope * f.icept + g.icept) % Prime]

InvertConversion(f) ==
    LET inverse == CHOOSE x \in 1..(Prime - 1) : (x * f.slope) % Prime = 1
    IN  [slope |-> inverse, icept |-> (Prime - f.icept) * inverse % Prime]

(* One edge: the stored conversion, or the inverse of a bidirectional one. *)
Stored(a, b) == <<a, b>> \in DOMAIN conversions
Known(a, b) == Stored(a, b) \/ (Stored(b, a) /\ conversions[<<b, a>>].bi)
ConversionMap(a, b) ==
    IF Stored(a, b) THEN conversions[<<a, b>>].map ELSE InvertConversion(conversions[<<b, a>>].map)
ConversionSuffix(a, b) == units[IF Stored(a, b) THEN a ELSE b].suffix

Hops(p) == [i \in 1..(Len(p) - 1) |-> <<p[i], p[i + 1]>>]
PathKnown(p) == \A h \in ToSet(Hops(p)) : Known(h[1], h[2])
PathMap(p) == FoldLeft(LAMBDA f, h : UpdatedConversion(f, ConversionMap(h[1], h[2])), Identity, Hops(p))
PathSuffix(p) ==
    FoldLeft(LAMBDA s, h : LET t == ConversionSuffix(h[1], h[2]) IN IF t = NoSuffix THEN s ELSE t,
             NoSuffix, Hops(p))

(* The graph.  Where shortest paths tie, the search may return any.        *)
LinksOf(cv) == DOMAIN cv \cup {<<e[2], e[1]>> : e \in {x \in DOMAIN cv : cv[x].bi}}
Ends(L) == {e[1] : e \in L} \cup {e[2] : e \in L}

Paths(L, a) ==
    LET longer(W) == UNION {{Append(w, e[2]) : e \in {x \in L : x[1] = Last(w) /\ x[2] \notin ToSet(w)}} : w \in W}
        upTo[k \in Nat] == IF k = 0 THEN {<<a>>} ELSE longer(upTo[k - 1])
    IN  UNION {upTo[k] : k \in 1..Cardinality(Ends(L))}

GetPath(L, a, b) ==
    LET all == {p \in Paths(L, a) : Last(p) = b}
    IN  {p \in all : \A q \in all : Len(p) <= Len(q)}

(* All ways to take one shortest path for each pair that has one.          *)
Searches(L, pairs) ==
    FoldSet(LAMBDA e, found : LET ps == GetPath(L, e[1], e[2])
                              IN  IF ps = {} THEN found ELSE {f \cup {p} : f \in found, p \in ps},
            {{}}, pairs)

-----------------------------------------------------------------------------
(* Refreshes: redoCik.                                                     *)

NoNeed == [source |-> Absent, dest |-> Absent, made |-> Absent, map |-> Identity, row |-> Absent, bi |-> FALSE]
Off(pc) == [pc |-> pc, nodes |-> {}, links |-> {}, snap |-> <<>>, todo |-> {}, unit |-> Absent,
            paths |-> {}, second |-> {}, need |-> NoNeed, targets |-> {}, array |-> {}]

Active(j) == job[j].pc \notin {"off", "done", "failed"}
Arrived == \A j \in Jobs : pending[j] = {}
Settled == \E j \in Jobs : claim[j] \in {"alone", "again"} /\ job[j].pc = "done" /\ Arrived

Go(j, changed) ==
    /\ job' = [job EXCEPT ![j] = changed]
    /\ UNCHANGED <<edit, cleanup, starts, requests, claim>>
Keep(u, row) == units' = IF u \in DOMAIN units THEN [units EXCEPT ![u] = row] ELSE units

(* What a refresh throws reaches no handler: it is logged, and the request *)
(* is never answered.                                                      *)
Fail(j) == Go(j, Off("failed")) /\ UNCHANGED <<units, conversions, cik, pending>>

(* Unit.getAll.  claim: "none" if an admin's request overlaps the refresh  *)
(* or came later, "alone" if nothing does, "again" if moreover nothing     *)
(* changed since another refresh that was alone, else "current".           *)
Start(j) ==
    /\ job[j].pc \in {"off", "done"}
    /\ pending[j] = {}
    /\ starts < MaxStarts
    /\ starts' = starts + 1
    /\ job' = [job EXCEPT ![j] = [Off("links") EXCEPT !.nodes = DOMAIN units]]
    /\ claim' = [k \in Jobs |->
                    IF k # j THEN IF claim[k] = "none" THEN "none" ELSE "current"
                    ELSE IF edit.pc # "off" \/ cleanup # {} THEN "none"
                    ELSE IF ~Arrived \/ \E i \in Jobs : Active(i) THEN "current"
                    ELSE IF Settled THEN "again"
                    ELSE "alone"]
    /\ UNCHANGED <<units, conversions, cik, pending, edit, cleanup, requests>>

(* Conversion.getAll.                                                      *)
ReadLinks(j) ==
    /\ job[j].pc = "links"
    /\ LET L == LinksOf(conversions)
       IN  Go(j, [job[j] EXCEPT !.pc = "suffix", !.links = L, !.nodes = @ \cup Ends(L)])
    /\ UNCHANGED <<units, conversions, cik, pending>>

(* Unit.getSuffix.                                                         *)
ReadSuffixUnits(j) ==
    /\ job[j].pc = "suffix"
    /\ LET S == {u \in DOMAIN units : units[u].suffix # NoSuffix}
       IN  Go(j, [job[j] EXCEPT !.pc = "unit", !.snap = [u \in S |-> units[u]], !.todo = S])
    /\ UNCHANGED <<units, conversions, cik, pending>>

(* getAllPaths from the next unit with a suffix; it throws if the unit is  *)
(* not in the graph.                                                       *)
NextSuffixUnit(j) ==
    /\ job[j].pc = "unit"
    /\ \E u \in job[j].todo :
        IF u \notin job[j].nodes THEN Fail(j)
        ELSE /\ \E ps \in Searches(job[j].links, {u} \X job[j].nodes) :
                    Go(j, [job[j] EXCEPT !.pc = "path", !.unit = u, !.paths = ps,
                                         !.second = {p[2] : p \in ps}])
             /\ UNCHANGED <<units, conversions, cik, pending>>

(* A change to NeedsMade: units of type suffix get an "X of S" too.        *)
NeedsMadeAny(d) == units[d].disp # "none"

(* One path: does its end need an "X of S", and is there one?  A path to a *)
(* unit that has gone, or over a conversion that has, throws.              *)
NeedsMade(d) == units[d].type # "suffix" /\ units[d].disp # "none"

NextPath(j) ==
    /\ job[j].pc = "path"
    /\ \E p \in job[j].paths :
        LET d == Last(p)
            rest == [job[j] EXCEPT !.paths = @ \ {p}]
            made == Made(d, PathSuffix(p))
            row == IF made \in DOMAIN units THEN units[made] ELSE Absent
        IN  IF d \notin DOMAIN units \/ (NeedsMade(d) /\ ~PathKnown(p)) THEN Fail(j)
            ELSE /\ Go(j, IF ~NeedsMade(d) THEN rest
                          ELSE [rest EXCEPT !.pc = IF row = Absent THEN "addUnit" ELSE "verifyUnit",
                                            !.need = [source |-> p[1], dest |-> d, made |-> made,
                                                      map |-> PathMap(p), row |-> row, bi |-> FALSE]])
                 /\ UNCHANGED <<units, conversions, cik, pending>>

(* addNewUnitAndConversion: the unit.                                      *)
AddNewUnit(j) ==
    LET n == job[j].need
    IN  /\ job[j].pc = "addUnit"
        /\ IF {n.source, n.dest} \subseteq DOMAIN units /\ n.made \notin DOMAIN units
           THEN /\ units' = units @@ (n.made :> [type |-> "suffix", suffix |-> NoSuffix, disp |-> units[n.dest].disp])
                /\ Go(j, [job[j] EXCEPT !.pc = "insert"])
                /\ UNCHANGED <<conversions, cik, pending>>
           ELSE Fail(j)

VerifyUnit(j) ==
    LET n == job[j].need
    IN  /\ job[j].pc = "verifyUnit"
        /\ IF n.dest \notin DOMAIN units THEN Fail(j)
           ELSE /\ IF n.row.disp = units[n.dest].disp THEN UNCHANGED units
                   ELSE Keep(n.made, [n.row EXCEPT !.disp = units[n.dest].disp])
                /\ Go(j, [job[j] EXCEPT !.pc = "verifyConversion"])
                /\ UNCHANGED <<conversions, cik, pending>>

(* A change to VerifyConversion: the values of a conversion that is there  *)
(* are not compared.                                                       *)
VerifyConversionStays(j) ==
    LET e == <<job[j].need.source, job[j].need.made>>
    IN  /\ job[j].pc = "verifyConversion"
        /\ Go(j, [job[j] EXCEPT !.pc = IF e \notin DOMAIN conversions THEN "insert" ELSE "path"])
        /\ UNCHANGED <<units, conversions, cik, pending>>

VerifyConversion(j) ==
    LET n == job[j].need
        e == <<n.source, n.made>>
    IN  /\ job[j].pc = "verifyConversion"
        /\ Go(j, IF e \notin DOMAIN conversions THEN [job[j] EXCEPT !.pc = "insert"]
                 ELSE IF conversions[e].map # n.map
                      THEN [job[j] EXCEPT !.pc = "update", !.need.bi = conversions[e].bi]
                 ELSE [job[j] EXCEPT !.pc = "path"])
        /\ UNCHANGED <<units, conversions, cik, pending>>

(* The conversion to an "X of S", in the table and the graph; both ways to *)
(* get here.                                                               *)
InsertConversion(j) ==
    LET n == job[j].need
        e == <<n.source, n.made>>
    IN  /\ job[j].pc = "insert"
        /\ IF e \notin DOMAIN conversions /\ {n.source, n.made} \subseteq DOMAIN units
           THEN /\ conversions' = conversions @@ (e :> [bi |-> FALSE, map |-> n.map])
                /\ Go(j, [job[j] EXCEPT !.pc = "path", !.links = @ \cup {e}, !.nodes = @ \cup {n.made}])
                /\ UNCHANGED <<units, cik, pending>>
           ELSE Fail(j)

UpdateConversion(j) ==
    LET n == job[j].need
        e == <<n.source, n.made>>
    IN  /\ job[j].pc = "update"
        /\ conversions' = IF e \in DOMAIN conversions
                          THEN [conversions EXCEPT ![e] = [bi |-> n.bi, map |-> n.map]]
                          ELSE conversions
        /\ Go(j, [job[j] EXCEPT !.pc = "path"])
        /\ UNCHANGED <<units, cik, pending>>

(* hideSuffixUnit: the row is written back as it was read, but hidden.     *)
HideSuffixUnit(j) ==
    LET u == job[j].unit
    IN  /\ job[j].pc = "path" /\ job[j].paths = {}
        /\ IF job[j].snap[u].disp = "none" THEN UNCHANGED units
           ELSE Keep(u, [job[j].snap[u] EXCEPT !.disp = "none"])
        /\ IF job[j].second \subseteq DOMAIN units
           THEN Go(j, [job[j] EXCEPT
                         !.pc = "unit", !.unit = Absent, !.todo = @ \ {u}, !.second = {}, !.need = NoNeed,
                         !.links = @ \ {<<u, b>> : b \in {x \in job[j].second : units[x].type # "suffix"}}])
           ELSE Go(j, Off("failed"))
        /\ UNCHANGED <<conversions, cik, pending>>

(* createCikArray: first the rows and columns, then the conversions.       *)
ReadTargets(j) ==
    /\ job[j].pc = "unit" /\ job[j].todo = {}
    /\ LET sources == {u \in DOMAIN units : units[u].type = "meter"}
           destinations == {u \in DOMAIN units : units[u].type # "meter" /\ units[u].disp # "none"}
       IN  Go(j, [job[j] EXCEPT !.pc = "array", !.targets = sources \X destinations])
    /\ UNCHANGED <<units, conversions, cik, pending>>

CreateCikArray(j) ==
    /\ job[j].pc = "array"
    /\ IF ~(Ends(job[j].targets) \subseteq job[j].nodes) THEN Fail(j)
       ELSE \E ps \in Searches(job[j].links, job[j].targets) :
                IF \E p \in ps : ~PathKnown(p) THEN Fail(j)
                ELSE /\ Go(j, [Off("replace") EXCEPT !.array = {<<p[1], Last(p), PathMap(p)>> : p \in ps}])
                     /\ UNCHANGED <<units, conversions, cik, pending>>

(* Cik.insert: the delete is awaited, the inserts are not.                 *)
ReplaceCik(j) ==
    /\ job[j].pc = "replace"
    /\ cik' = <<>>
    /\ pending' = [pending EXCEPT ![j] = job[j].array]
    /\ Go(j, Off("done"))
    /\ UNCHANGED <<units, conversions>>

Step(j) ==
    \/ ReadLinks(j) \/ ReadSuffixUnits(j) \/ NextSuffixUnit(j) \/ NextPath(j)
    \/ AddNewUnit(j) \/ VerifyUnit(j) \/ VerifyConversion(j)
    \/ InsertConversion(j) \/ UpdateConversion(j) \/ HideSuffixUnit(j)
    \/ ReadTargets(j) \/ CreateCikArray(j) \/ ReplaceCik(j)

(* One of the inserts; the primary key and the foreign keys may reject it. *)
InsertCik(j) ==
    /\ \E e \in pending[j] :
        /\ pending' = [pending EXCEPT ![j] = @ \ {e}]
        /\ cik' = IF <<e[1], e[2]>> \in DOMAIN cik \/ ~({e[1], e[2]} \subseteq DOMAIN units)
                  THEN cik ELSE cik @@ (<<e[1], e[2]>> :> e[3])
    /\ UNCHANGED <<units, conversions, job, edit, cleanup, starts, requests, claim>>

-----------------------------------------------------------------------------
(* Admins' requests.  Each one that is answered, or refused, ends what the *)
(* refreshes so far can be held to.                                        *)

Overtakes == claim' = [j \in Jobs |-> "none"]

Requested ==
    /\ requests < MaxRequests
    /\ requests' = requests + 1
    /\ Overtakes
    /\ UNCHANGED <<job, pending, starts>>

(* /conversions/addConversion: keys and checks of the table may refuse it. *)
AddConversion ==
    /\ Requested
    /\ \E c \in ConversionAdds :
        /\ c.source # c.dest /\ {c.source, c.dest} \subseteq DOMAIN units
        /\ <<c.source, c.dest>> \notin DOMAIN conversions
        /\ conversions' = conversions @@ (<<c.source, c.dest>> :> [bi |-> c.bi, map |-> c.map])
    /\ UNCHANGED <<units, cik, edit, cleanup>>

(* /conversions/edit                                                       *)
EditConversion ==
    /\ Requested
    /\ \E c \in ConversionEdits :
        /\ <<c.source, c.dest>> \in DOMAIN conversions
        /\ conversions' = [conversions EXCEPT ![<<c.source, c.dest>>] = [bi |-> c.bi, map |-> c.map]]
    /\ UNCHANGED <<units, cik, edit, cleanup>>

(* /conversions/delete                                                     *)
DeleteConversion ==
    /\ Requested
    /\ \E e \in ConversionDeletes \cap DOMAIN conversions : conversions' = Restrict(conversions, DOMAIN conversions \ {e})
    /\ UNCHANGED <<units, cik, edit, cleanup>>

(* /units/addUnit                                                          *)
AddUnit ==
    /\ Requested
    /\ \E r \in UnitAdds :
        /\ r.unit \notin DOMAIN units
        /\ units' = units @@ (r.unit :> [type |-> r.type, suffix |-> r.suffix, disp |-> r.disp])
    /\ UNCHANGED <<conversions, cik, edit, cleanup>>

(* /units/delete: foreign keys keep a unit that is in use.                 *)
DeleteUnit ==
    /\ Requested
    /\ \E u \in UnitDeletes \cap DOMAIN units :
        /\ u \notin Ends(DOMAIN conversions) \cup Ends(DOMAIN cik)
        /\ units' = Restrict(units, DOMAIN units \ {u})
    /\ UNCHANGED <<conversions, cik, edit, cleanup>>

NoEdit == [pc |-> "off", unit |-> Absent, row |-> Absent, suffix |-> Absent, disp |-> Absent]

(* /units/edit reads the unit; another suffix, or none in the body, makes  *)
(* it call removeAdditionalConversionsAndUnits.                            *)
EditUnit ==
    /\ edit.pc = "off"
    /\ Requested
    /\ \E r \in UnitEdits :
        /\ r.unit \in DOMAIN units
        /\ edit' = [pc |-> IF r.suffix # units[r.unit].suffix THEN "remove" ELSE "assign",
                    unit |-> r.unit, row |-> units[r.unit], suffix |-> r.suffix, disp |-> r.disp]
    /\ UNCHANGED <<units, conversions, cik, cleanup>>

UnchangedByEdit == UNCHANGED <<cik, job, pending, starts, requests>>

(* removeAdditionalConversionsAndUnits: Conversion.getAll, and a task that *)
(* nobody awaits for each conversion from the unit.                        *)
RemoveAdditional ==
    /\ edit.pc = "remove"
    /\ edit' = [edit EXCEPT !.pc = "show"]
    /\ cleanup' = cleanup \cup {[pc |-> "read", edge |-> e, row |-> Absent] :
                                e \in {x \in DOMAIN conversions : x[1] = edit.unit}}
    /\ UNCHANGED <<units, conversions, claim>> /\ UnchangedByEdit

ShowUnit ==
    /\ edit.pc = "show"
    /\ edit' = [edit EXCEPT !.pc = "assign", !.row.disp = "all"]
    /\ Keep(edit.unit, edit'.row)
    /\ UNCHANGED <<conversions, cleanup, claim>> /\ UnchangedByEdit

(* The keys of the body are assigned and the row is written.               *)
AssignUnit ==
    /\ edit.pc = "assign"
    /\ edit' = NoEdit
    /\ Keep(edit.unit, [edit.row EXCEPT !.suffix = IF edit.suffix = Absent THEN @ ELSE edit.suffix,
                                        !.disp = IF edit.disp = Absent THEN @ ELSE edit.disp])
    /\ Overtakes
    /\ UNCHANGED <<conversions, cleanup>> /\ UnchangedByEdit

(* One such task: is the conversion to a unit OED made?  Delete it and     *)
(* hide the unit.                                                          *)
CleanUp(t) ==
    LET u == t.edge[2]
        rest == cleanup \ {t}
    IN  /\ \/ /\ t.pc = "read"
              /\ cleanup' = IF u \in DOMAIN units /\ units[u].type = "suffix"
                            THEN rest \cup {[t EXCEPT !.pc = "delete", !.row = units[u]]} ELSE rest
              /\ UNCHANGED <<units, conversions>>
           \/ /\ t.pc = "delete"
              /\ cleanup' = rest \cup {[t EXCEPT !.pc = "hide"]}
              /\ conversions' = Restrict(conversions, DOMAIN conversions \ {t.edge})
              /\ UNCHANGED units
           \/ /\ t.pc = "hide"
              /\ cleanup' = rest
              /\ Keep(u, [t.row EXCEPT !.disp = "none"])
              /\ UNCHANGED conversions
        /\ Overtakes
        /\ UNCHANGED edit /\ UnchangedByEdit

-----------------------------------------------------------------------------
Init ==
    /\ units = InitUnits /\ conversions = InitConversions /\ cik = <<>>
    /\ job = [j \in Jobs |-> Off("off")]
    /\ pending = [j \in Jobs |-> {}]
    /\ edit = NoEdit /\ cleanup = {}
    /\ starts = 0 /\ requests = 0
    /\ claim = [j \in Jobs |-> "none"]

Background(j) == Step(j) \/ InsertCik(j)
Editing == RemoveAdditional \/ ShowUnit \/ AssignUnit \/ \E t \in cleanup : CleanUp(t)

Next ==
    \/ \E j \in Jobs : Start(j) \/ Background(j)
    \/ AddConversion \/ EditConversion \/ DeleteConversion
    \/ AddUnit \/ DeleteUnit \/ EditUnit
    \/ Editing

Spec == Init /\ [][Next]_vars

-----------------------------------------------------------------------------
(* What a value v becomes along a path of stored conversions, one edge     *)
(* after the other.                                                        *)
Push(p, v) ==
    FoldLeft(LAMBDA x, h :
                 IF Stored(h[1], h[2])
                 THEN LET c == conversions[h].map IN (c.slope * x + c.icept) % Prime
                 ELSE LET c == conversions[<<h[2], h[1]>>].map
                      IN  CHOOSE y \in 0..(Prime - 1) : (c.slope * y + c.icept) % Prime = x,
             v, Hops(p))
Follows(f, p) == \A v \in 0..(Prime - 1) : (f.slope * v + f.icept) % Prime = Push(p, v)

(* A unit with a suffix leads only to the units made for it.               *)
Usable == {e \in LinksOf(conversions) : units[e[1]].suffix # NoSuffix => units[e[2]].type = "suffix"}
MeterUnits == {u \in DOMAIN units : units[u].type = "meter"}
Shown == {u \in DOMAIN units : units[u].type # "meter" /\ units[u].disp # "none"}

CikIsCurrent ==
    \A m \in MeterUnits, d \in Shown :
        LET ps == GetPath(Usable, m, d)
        IN  IF <<m, d>> \in DOMAIN cik THEN \E p \in ps : Follows(cik[<<m, d>>], p) ELSE ps = {}

CikMatches == Settled => CikIsCurrent /\ DOMAIN cik \subseteq MeterUnits \X Shown

SuffixComplete ==
    Settled =>
        \A s \in {u \in DOMAIN units : units[u].suffix # NoSuffix}, x \in Shown :
            LET ps == GetPath(LinksOf(conversions), s, x)
            IN  units[x].type # "suffix" /\ ps # {} =>
                    \E p \in ps : LET made == Made(x, PathSuffix(p))
                                  IN  /\ made \in DOMAIN units /\ units[made].disp = units[x].disp
                                      /\ <<s, made>> \in DOMAIN conversions
                                      /\ Follows(conversions[<<s, made>>].map, p)

(* However refreshes overlap, with no admin's request since they started,  *)
(* Cik holds no wrong conversion: entries may be missing, none is false.   *)
CikSound ==
    /\ \A j \in Jobs : job[j].pc \in {"off", "failed"} \/ claim[j] # "none"
    /\ \E j \in Jobs : job[j].pc = "done"
    =>  \A e \in DOMAIN cik : \E p \in Paths(Usable, e[1]) : Last(p) = e[2] /\ Follows(cik[e], p)

(* A refresh of tables that another one left, with no request between      *)
(* them, changes neither units nor conversions.                            *)
RefreshIdempotent ==
    [][(\E j \in Jobs : claim[j] = "again" /\ claim'[j] = "again") => UNCHANGED <<units, conversions>>]_vars

AloneAnswered == \A j \in Jobs : claim[j] \in {"alone", "again"} => job[j].pc # "failed"

(* A refresh that nothing overlaps never throws, so it is answered, and    *)
(* leaves in Cik, once its inserts have arrived, exactly the pairs of a    *)
(* meter's unit and a unit that can be shown that a path joins, each with  *)
(* the conversion of a shortest path, none of which leaves a unit with a   *)
(* suffix for a plain one (redoCik, createCikArray, Cik.insert).  And for  *)
(* each plain unit X that a unit with the suffix S reaches and that can be *)
(* shown there is an "X of S", shown as X is, with the conversion along    *)
(* the way from S to X (handleSuffixUnits).                                *)
RefreshComplete == AloneAnswered /\ CikMatches /\ SuffixComplete
=============================================================================
