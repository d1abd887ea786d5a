------------------------------ MODULE GroupDag ------------------------------
(***************************************************************************)
(* Groups of meters: the admin routes that create, edit and delete groups, *)
(* each in a transaction of its own on PostgreSQL (READ COMMITTED), and    *)
(* the trigger that is to keep the child relation free of cycles.          *)
(*                                                                         *)
(* A statement sees what is committed when it runs and what its own        *)
(* transaction did.  groups_immediate_children and groups_immediate_meters *)
(* are one relation: a child is a group or a meter.  Locks are those       *)
(* PostgreSQL takes: an UPDATE locks the row of the group, one that        *)
(* changes the name (a unique key) or a DELETE locks it exclusively, and a *)
(* row that refers to a group shares the group's key.  The other columns   *)
(* of a group change nothing here.                                         *)
(***************************************************************************)
EXTENDS Integers, FiniteSets

CONSTANTS
    Ids,          \* the ids groups may ever get
    Meters,       \* the meters
    Existing,     \* the groups there are at first
    Sessions,     \* the database connections that serve admins
    Requests,     \* the requests admins may send
    None,         \* "no group"
    MaxRequests   \* bound on the number of requests

Children == Ids \cup Meters

ASSUME NamesAssumption == Ids \cap Meters = {} /\ Existing \subseteq Ids /\ None \notin Children
ASSUME RequestsAssumption ==
    /\ Requests \subseteq [kind : {"create", "edit", "delete"}, group : Ids \cup {None},
                           want : SUBSET Children, rename : BOOLEAN]
    /\ \A r \in Requests : r.kind # "create" => r.group \in Ids
ASSUME MaxRequestsAssumption == MaxRequests \in Nat

VARIABLES
    groups,     \* the groups committed
    edges,      \* the pairs <<parent, child>> committed
    used,       \* the ids given so far (SERIAL never gives one twice)
    tx,         \* the request each session serves, and its transaction
    sent,       \* how many requests were sent
    raced       \* history: a request committed edges it checked before another committed its own

dagVars == <<groups, edges, used, tx, sent, raced>>

Kids(E, g) == {c \in Children : <<g, c>> \in E}

(* groups_deep_children, for distinct groups: c is below p if every set    *)
(* that holds p and is closed under children holds c.                      *)
Closed(E, S) == \A e \in E : e[1] \in S => e[2] \in S
Below(E, p, c) == \A S \in SUBSET Children : (p \in S /\ Closed(E, S)) => c \in S

(* No set of groups all of which have a child in the set.                  *)
Acyclic(E) ==
    \A S \in SUBSET Ids : S # {} => \E p \in S : \A c \in S : <<p, c>> \notin E

-----------------------------------------------------------------------------
(* Transactions and their locks.                                           *)

NoTx == [pc |-> "idle", kind |-> "none", group |-> None, want |-> {}, rename |-> FALSE,
         seen |-> {}, todo |-> {}, child |-> None, add |-> {}, del |-> {},
         lock |-> "none", keys |-> {}, missed |-> FALSE]

(* What a statement of s sees.                                             *)
Visible(s) == (edges \ tx[s].del) \cup tx[s].add
VisibleGroups(s) == groups \cup (IF tx[s].kind = "create" THEN {tx[s].group} ELSE {})

Others(s) == Sessions \ {s}
Locks(t, g, modes) == tx[t].group = g /\ tx[t].lock \in modes

(* The sessions whose locks the next statement of s waits for.             *)
WaitsFor(s) ==
    LET g == tx[s].group
        c == tx[s].child
    IN  {t \in Others(s) :
            \/ /\ tx[s].pc = "update"
               /\ \/ Locks(t, g, {"update", "exclusive"})
                  \/ tx[s].rename /\ g \in tx[t].keys
            \/ /\ tx[s].pc = "disown"
               /\ {<<g, k>> : k \in tx[s].seen \ tx[s].want} \cap tx[t].del # {}
            \/ tx[s].pc = "insert" /\ <<g, c>> \in tx[t].add \cup tx[t].del
            \/ /\ tx[s].pc = "keys"
               /\ Locks(t, g, {"exclusive"}) \/ Locks(t, c, {"exclusive"})
            \/ tx[s].pc = "unlink" /\ \E e \in tx[t].del : e \in edges /\ g \in {e[1], e[2]}
            \/ /\ tx[s].pc = "remove"
               /\ Locks(t, g, {"update", "exclusive"}) \/ g \in tx[t].keys}

(* A statement of s that waits for no lock runs.                           *)
Runs(s, pc) == tx[s].pc = pc /\ WaitsFor(s) = {}

(* s is on a cycle of waits.                                               *)
Deadlocked(s) ==
    /\ WaitsFor(s) # {}
    /\ \A S \in SUBSET Sessions :
          (WaitsFor(s) \subseteq S /\ \A t \in S : WaitsFor(t) \subseteq S) => s \in S

(* Fault: a request that fails starts over instead of being answered.      *)
AbortRetries(s) ==
    /\ tx' = [tx EXCEPT ![s] = [NoTx EXCEPT !.pc = "disown", !.kind = "edit",
                                            !.group = tx[s].group, !.want = tx[s].want]]
    /\ UNCHANGED <<groups, edges, used, sent, raced>>

(* The transaction is rolled back and the request answered with an error.  *)
Abort(s) ==
    /\ tx' = [tx EXCEPT ![s] = NoTx]
    /\ UNCHANGED <<groups, edges, used, sent, raced>>

Continue(s, next) ==
    /\ tx' = [tx EXCEPT ![s] = next]
    /\ UNCHANGED <<groups, edges, used, sent, raced>>

-----------------------------------------------------------------------------
DagInit ==
    /\ groups = Existing
    /\ edges = {}
    /\ used = Existing
    /\ tx = [s \in Sessions |-> NoTx]
    /\ sent = 0
    /\ raced = FALSE

Receives(s, kind, r) ==
    /\ tx[s].pc = "idle"
    /\ r \in Requests
    /\ r.kind = kind
    /\ sent < MaxRequests
    /\ sent' = sent + 1
    /\ UNCHANGED <<groups, edges, raced>>

(* The children are adopted in the order the replies to their getByID come *)
(* back; a child group that is not there fails the request at once.        *)
CreateGroup(s, r) ==
    /\ Receives(s, "create", r)
    /\ \E g \in Ids \ used :
        /\ used' = used \cup {g}
        /\ tx' = [tx EXCEPT ![s] = IF r.want \cap Ids \subseteq groups
                                   THEN [NoTx EXCEPT !.pc = "adopt", !.kind = "create",
                                                     !.group = g, !.want = r.want,
                                                     !.todo = r.want]
                                   ELSE NoTx]

(* The edit first reads the group and its child groups, then its meters,   *)
(* before the transaction begins.                                          *)
EditGroup(s, r) ==
    /\ Receives(s, "edit", r)
    /\ r.group \in groups
    /\ tx' = [tx EXCEPT ![s] = [NoTx EXCEPT !.pc = "read", !.kind = "edit", !.group = r.group,
                                            !.want = r.want, !.rename = r.rename,
                                            !.seen = Kids(edges, r.group) \cap Ids]]
    /\ UNCHANGED used

ReadMeters(s) ==
    /\ Runs(s, "read")
    /\ Continue(s, [tx[s] EXCEPT !.pc = "update",
                                 !.seen = @ \cup (Kids(edges, tx[s].group) \cap Meters)])

(* Fault: the group's own row is only written when its name changes.       *)
UpdateIfRenamed(s) ==
    /\ Runs(s, "update")
    /\ Continue(s, [tx[s] EXCEPT !.pc = "disown",
                                 !.lock = IF tx[s].group \notin groups \/ ~tx[s].rename
                                          THEN "none" ELSE "exclusive"])

(* newGroup.update: no row, and no lock, if the group is gone.             *)
UpdateGroup(s) ==
    /\ Runs(s, "update")
    /\ Continue(s, [tx[s] EXCEPT !.pc = "disown",
                                 !.lock = IF tx[s].group \notin groups THEN "none"
                                          ELSE IF tx[s].rename THEN "exclusive" ELSE "update"])

(* The deletes of a batch are sent before its inserts, which wait for the  *)
(* getByID of the child.                                                   *)
DisownChildren(s) ==
    LET t == tx[s]
        adopted == t.want \ t.seen
    IN  /\ Runs(s, "disown")
        /\ IF adopted \cap Ids \subseteq VisibleGroups(s)
           THEN Continue(s, [t EXCEPT !.pc = "adopt", !.todo = adopted,
                                      !.del = {<<t.group, c>> : c \in t.seen \ t.want} \cap edges])
           ELSE Abort(s)

NextChild(s, c) ==
    /\ Runs(s, "adopt")
    /\ c \in tx[s].todo
    /\ Continue(s, [tx[s] EXCEPT !.pc = "insert", !.child = c, !.todo = @ \ {c}])

(* Fault: the trigger looks at immediate children only.                    *)
MayInsertShallow(s, g, c) ==
    /\ g # c
    /\ <<c, g>> \notin Visible(s)
    /\ <<g, c>> \notin Visible(s)

(* check_cyclic_groups, the primary key and the check that no group is its *)
(* own child.                                                              *)
MayInsert(s, g, c) ==
    /\ g # c
    /\ ~Below(Visible(s), c, g)
    /\ <<g, c>> \notin Visible(s)

InsertChild(s) ==
    LET t == tx[s] IN
    /\ Runs(s, "insert")
    /\ IF MayInsert(s, t.group, t.child)
       THEN Continue(s, [t EXCEPT !.pc = "keys", !.add = @ \cup {<<t.group, t.child>>}])
       ELSE Abort(s)

(* Fault: the tables have no foreign keys.                                 *)
CheckNoKeys(s) ==
    /\ Runs(s, "keys")
    /\ Continue(s, [tx[s] EXCEPT !.pc = "adopt", !.child = None])

(* The foreign keys of the new row: the groups must be there, and stay.    *)
CheckKeys(s) ==
    LET t == tx[s]
        named == {t.group, t.child} \cap Ids
    IN  /\ Runs(s, "keys")
        /\ IF named \subseteq VisibleGroups(s)
           THEN Continue(s, [t EXCEPT !.pc = "adopt", !.child = None,
                                      !.keys = @ \cup (named \cap groups)])
           ELSE Abort(s)

(* delete_group.sql: the edges of the group, then its row, which no edge   *)
(* may refer to any more.                                                  *)
DeleteGroup(s, r) ==
    /\ Receives(s, "delete", r)
    /\ tx' = [tx EXCEPT ![s] = [NoTx EXCEPT !.pc = "unlink", !.kind = "delete",
                                            !.group = r.group]]
    /\ UNCHANGED used

Unlink(s) ==
    LET g == tx[s].group IN
    /\ Runs(s, "unlink")
    /\ Continue(s, [tx[s] EXCEPT !.pc = "remove",
                                 !.del = {e \in edges : g \in {e[1], e[2]}}])

RemoveRow(s) ==
    LET t == tx[s] IN
    /\ Runs(s, "remove")
    /\ IF \E e \in Visible(s) : t.group \in {e[1], e[2]}
       THEN Abort(s)
       ELSE Continue(s, [t EXCEPT !.pc = "removed",
                                  !.lock = IF t.group \in groups THEN "exclusive" ELSE "none"])

CanCommit(s) == tx[s].pc = "removed" \/ (tx[s].pc = "adopt" /\ tx[s].todo = {})

(* The other transactions that checked edges of their own did not see the  *)
(* edges committed now.                                                    *)
Commit(s) ==
    LET t == tx[s] IN
    /\ CanCommit(s)
    /\ edges' = Visible(s)
    /\ groups' = CASE t.kind = "create" -> groups \cup {t.group}
                   [] t.kind = "delete" /\ t.lock = "exclusive" -> groups \ {t.group}
                   [] OTHER -> groups
    /\ raced' = (raced \/ (t.missed /\ t.add # {}))
    /\ tx' = [u \in Sessions |->
                IF u = s THEN NoTx
                ELSE [tx[u] EXCEPT !.missed = @ \/ (t.add # {} /\ tx[u].add # {})]]
    /\ UNCHANGED <<used, sent>>

(* Any statement may fail for a reason of its own: the name is taken, the  *)
(* connection is lost.  PostgreSQL aborts one of the transactions that     *)
(* wait for each other.                                                    *)
Fail(s) == tx[s].pc # "idle" /\ Abort(s)

BreakDeadlock(s) == Deadlocked(s) /\ Abort(s)

Proceed(s) ==
    \/ ReadMeters(s)
    \/ UpdateGroup(s)
    \/ DisownChildren(s)
    \/ \E c \in Children : NextChild(s, c)
    \/ InsertChild(s)
    \/ CheckKeys(s)
    \/ Unlink(s)
    \/ RemoveRow(s)
    \/ Commit(s)
    \/ BreakDeadlock(s)

DagNext ==
    \E s \in Sessions :
        \/ \E r \in Requests : CreateGroup(s, r) \/ EditGroup(s, r) \/ DeleteGroup(s, r)
        \/ Proceed(s)
        \/ Fail(s)

DagSpec == DagInit /\ [][DagNext]_dagVars /\ \A s \in Sessions : WF_dagVars(Proceed(s))
-----------------------------------------------------------------------------
Tx ==
    [pc : {"idle", "read", "update", "disown", "adopt", "insert", "keys", "unlink", "remove",
           "removed"},
     kind : {"none", "create", "edit", "delete"}, group : Ids \cup {None},
     want : SUBSET Children, rename : BOOLEAN, seen : SUBSET Children,
     todo : SUBSET Children, child : Children \cup {None},
     add : SUBSET (Ids \X Children), del : SUBSET (Ids \X Children),
     lock : {"none", "update", "exclusive"}, keys : SUBSET Ids, missed : BOOLEAN]

TypeOK ==
    /\ groups \subseteq used /\ used \subseteq Ids
    /\ edges \subseteq Ids \X Children
    /\ tx \in [Sessions -> Tx]
    /\ sent \in 0..MaxRequests
    /\ raced \in BOOLEAN

(* The trigger keeps out every cycle of any length that is not made of     *)
(* edges two requests inserted at the same time, whatever is deleted,      *)
(* moved or aborted in between (check_cyclic_groups).                      *)
CyclesNeedARace == raced \/ Acyclic(edges)

(* No edge names a group that is not there, although a group may be        *)
(* deleted while another request adopts it (Group.delete, adoptGroup).     *)
NoDanglingEdge == \A e \in edges : e[1] \in groups /\ e[2] \in groups \cup Meters

(* An edit applies exactly the difference between what the admin wants and *)
(* what was read before the transaction to the children there are at its   *)
(* commit, so edits of one group at the same time merge and none is undone *)
(* half way: the update of the row comes before the children.              *)
EditsMerge ==
    [][\A s \in Sessions :
        (tx[s].kind = "edit" /\ Commit(s)) =>
            LET t == tx[s] IN
            Kids(edges', t.group)
                = (Kids(edges, t.group) \ (t.seen \ t.want)) \cup (t.want \ t.seen)]_dagVars

(* Every request is answered, although transactions wait for each other.   *)
RequestsAnswered == \A s \in Sessions : tx[s].pc # "idle" ~> tx[s].pc = "idle"
=============================================================================
