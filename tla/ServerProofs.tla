---------------------------- MODULE ServerProofs ----------------------------
(***************************************************************************)
(* Proofs about what the server does in several statements of SQL.  The    *)
(* two parts share nothing but the module.                                 *)
(*                                                                         *)
(* GroupDag, for any groups, sessions and requests: types, and that only   *)
(* requests that overlap can make a cycle.  The invariant is that what     *)
(* each transaction sees has no cycle, unless edges it did not see were    *)
(* committed after it checked its own.  Then the locks: no edge is left    *)
(* without its groups, and edits of one group merge.                       *)
(*                                                                         *)
(* Acquisition and LogMail, for any files, meters, requests at the same    *)
(* time, runs of the cron job and faults: no error that is logged is lost  *)
(* on its way, and SUCCESS means what it says.                             *)
(***************************************************************************)
EXTENDS GroupDag, Acquisition, TLAPS

LEMMA FewerEdges ==
    ASSUME NEW E, Acyclic(E), NEW F \in SUBSET E
    PROVE  Acyclic(F)
  BY DEF Acyclic

(* The trigger is right: an edge to a child the parent is not below makes  *)
(* no cycle.                                                               *)
LEMMA AddEdge ==
    ASSUME NEW E, Acyclic(E), NEW g \in Ids, NEW c \in Children, g # c, ~Below(E, c, g)
    PROVE  Acyclic(E \cup {<<g, c>>})
  <1> SUFFICES ASSUME NEW S \in SUBSET Ids, S # {},
                      \A p \in S : \E k \in S : <<p, k>> \in E \cup {<<g, c>>}
               PROVE  FALSE
    BY DEF Acyclic
  <1>1. PICK C \in SUBSET Children : c \in C /\ Closed(E, C) /\ g \notin C
    BY DEF Below
  <1>2. CASE c \in S /\ g \in S
    <2>1. S \cap C \in SUBSET Ids /\ S \cap C # {}
      BY <1>1, <1>2
    <2>2. ASSUME NEW p \in S \cap C PROVE \E k \in S \cap C : <<p, k>> \in E
      <3>1. PICK k \in S : <<p, k>> \in E \cup {<<g, c>>}
        OBVIOUS
      <3>2. <<p, k>> \in E
        BY <1>1, <3>1
      <3>3. k \in C
        BY <1>1, <3>2 DEF Closed
      <3>4. QED
        BY <3>2, <3>3
    <2>3. QED
      BY <2>1, <2>2 DEF Acyclic
  <1>3. CASE ~(c \in S /\ g \in S)
    <2>1. \A p \in S : \E k \in S : <<p, k>> \in E
      BY <1>3
    <2>2. QED
      BY <2>1 DEF Acyclic
  <1>4. QED
    BY <1>2, <1>3

-----------------------------------------------------------------------------
(* Before its first insert a transaction has added nothing, and it names   *)
(* what it inserts.                                                        *)
Clean(t) ==
    /\ t.pc \notin {"adopt", "insert", "keys"} => t.add = {}
    /\ t.pc # "idle" => t.group \in Ids
    /\ t.pc \in {"insert", "keys"} => t.child \in Children

Numbered(t, ids) == t.kind = "create" => t.group \in ids

SeesNoCycle(s) == raced \/ tx[s].missed \/ Acyclic(Visible(s))

IInv ==
    /\ TypeOK
    /\ CyclesNeedARace
    /\ \A s \in Sessions :
        /\ Clean(tx[s])
        /\ Numbered(tx[s], used)
        /\ tx[s].missed => tx[s].add # {}
        /\ SeesNoCycle(s)

LEMMA NoTxType == NoTx \in Tx
  BY DEF NoTx, Tx

LEMMA InitIInv == DagInit => IInv
  <1> SUFFICES ASSUME DagInit PROVE IInv
    OBVIOUS
  <1>1. tx \in [Sessions -> Tx]
    BY NoTxType DEF DagInit
  <1>5. groups \subseteq used /\ used \subseteq Ids /\ edges = {}
    BY NamesAssumption DEF DagInit
  <1>6. sent \in 0..MaxRequests
    BY MaxRequestsAssumption DEF DagInit
  <1>7. raced = FALSE
    BY DEF DagInit
  <1>8. TypeOK
    BY <1>1, <1>5, <1>6, <1>7 DEF TypeOK
  <1>2. Acyclic(edges)
    BY DEF DagInit, Acyclic
  <1>3. ASSUME NEW s \in Sessions
        PROVE  Clean(tx[s]) /\ Numbered(tx[s], used) /\ (tx[s].missed => tx[s].add # {}) /\ SeesNoCycle(s)
    <2>1. tx[s] = NoTx
      BY DEF DagInit
    <2>2. Visible(s) = edges
      BY <2>1 DEF Visible, NoTx
    <2>3. QED
      BY <1>2, <2>1, <2>2 DEF Clean, Numbered, NoTx, SeesNoCycle
  <1>9. QED
    BY <1>2, <1>3, <1>8 DEF IInv, CyclesNeedARace

(* A step of one session that commits nothing and adds no cycle.           *)
LEMMA SessionStep ==
    ASSUME IInv, NEW s \in Sessions, NEW next \in Tx,
           tx' = [tx EXCEPT ![s] = next],
           edges' = edges, groups' = groups, raced' = raced,
           used' \subseteq Ids, used \subseteq used', sent' \in 0..MaxRequests,
           Clean(next), Numbered(next, used'), next.missed => next.add # {},
           \/ raced \/ next.missed
           \/ Acyclic((edges \ next.del) \cup next.add)
    PROVE  IInv'
  <1>1. tx \in [Sessions -> Tx] /\ groups \subseteq used
    BY DEF IInv, TypeOK
  <1>2. TypeOK'
    BY <1>1 DEF IInv, TypeOK
  <1>3. CyclesNeedARace'
    BY DEF IInv, CyclesNeedARace
  <1>4. ASSUME NEW u \in Sessions
        PROVE  Clean(tx'[u]) /\ Numbered(tx'[u], used') /\ (tx'[u].missed => tx'[u].add # {}) /\ SeesNoCycle(u)'
    <2>1. CASE u = s
      <3>1. tx'[u] = next
        BY <1>1, <2>1
      <3>2. Visible(u)' = (edges \ next.del) \cup next.add
        BY <3>1 DEF Visible
      <3>3. QED
        BY <3>1, <3>2 DEF SeesNoCycle
    <2>2. CASE u # s
      <3>1. tx'[u] = tx[u]
        BY <1>1, <2>2
      <3>2. Visible(u)' = Visible(u)
        BY <3>1 DEF Visible
      <3>3. QED
        BY <3>1, <3>2 DEF IInv, SeesNoCycle, Numbered
    <2>3. QED
      BY <2>1, <2>2
  <1>5. QED
    BY <1>2, <1>3, <1>4 DEF IInv

(* A step that neither adds an edge nor stops deleting one.                *)
LEMMA CalmStep ==
    ASSUME IInv, NEW s \in Sessions, NEW next \in Tx,
           tx' = [tx EXCEPT ![s] = next],
           edges' = edges, groups' = groups, raced' = raced,
           used' \subseteq Ids, used \subseteq used', sent' \in 0..MaxRequests,
           Numbered(next, used'),
           \/ Clean(next) /\ next.add = {} /\ ~next.missed
           \/ /\ next.add = tx[s].add /\ next.del = tx[s].del
              /\ next.missed = tx[s].missed
              /\ next.pc \in {"adopt", "insert", "keys"} /\ Clean(next)
    PROVE  IInv'
  <1>1. CASE Clean(next) /\ next.add = {} /\ ~next.missed
    <2>1. raced \/ Acyclic((edges \ next.del) \cup next.add)
      BY <1>1, FewerEdges DEF IInv, CyclesNeedARace
    <2>2. QED
      BY <1>1, <2>1, SessionStep
  <1>2. CASE /\ next.add = tx[s].add /\ next.del = tx[s].del
             /\ next.missed = tx[s].missed
             /\ next.pc \in {"adopt", "insert", "keys"} /\ Clean(next)
    <2>2. /\ next.missed => next.add # {}
          /\ raced \/ next.missed \/ Acyclic((edges \ next.del) \cup next.add)
      BY <1>2 DEF IInv, SeesNoCycle, Visible
    <2>3. QED
      BY <1>2, <2>2, SessionStep
  <1>3. QED
    BY <1>1, <1>2

LEMMA AbortIInv ==
    ASSUME IInv, NEW s \in Sessions, Abort(s)
    PROVE  IInv'
  <1>1. Clean(NoTx) /\ NoTx.add = {} /\ ~NoTx.missed /\ Numbered(NoTx, used')
    BY DEF Clean, Numbered, NoTx
  <1>2. QED
    BY <1>1, NoTxType, CalmStep DEF Abort, IInv, TypeOK

LEMMA ReceiveIInv ==
    ASSUME IInv, NEW s \in Sessions, NEW r \in Requests,
           CreateGroup(s, r) \/ EditGroup(s, r) \/ DeleteGroup(s, r)
    PROVE  IInv'
  <1>1. /\ edges' = edges /\ groups' = groups /\ raced' = raced
        /\ sent' \in 0..MaxRequests
    <2>1. /\ UNCHANGED <<groups, edges, raced>>
          /\ sent < MaxRequests /\ sent' = sent + 1
      BY DEF Receives, CreateGroup, EditGroup, DeleteGroup
    <2>2. sent \in 0..MaxRequests
      BY DEF IInv, TypeOK
    <2>3. QED
      BY <2>1, <2>2, MaxRequestsAssumption
  <1>2. /\ r.group \in Ids \cup {None} /\ r.want \in SUBSET Children /\ r.rename \in BOOLEAN
    BY RequestsAssumption
  <1>7. r.kind # "create" => r.group \in Ids
    BY RequestsAssumption
  <1>3. CASE CreateGroup(s, r)
    <2>1. PICK g \in Ids \ used :
            /\ used' = used \cup {g}
            /\ tx' = [tx EXCEPT ![s] = IF r.want \cap Ids \subseteq groups
                                       THEN [NoTx EXCEPT !.pc = "adopt", !.kind = "create",
                                                         !.group = g, !.want = r.want,
                                                         !.todo = r.want]
                                       ELSE NoTx]
      BY <1>3 DEF CreateGroup
    <2> DEFINE next == IF r.want \cap Ids \subseteq groups
                       THEN [NoTx EXCEPT !.pc = "adopt", !.kind = "create", !.group = g,
                                         !.want = r.want, !.todo = r.want]
                       ELSE NoTx
    <2>2. next \in Tx /\ Clean(next) /\ next.add = {} /\ ~next.missed /\ Numbered(next, used')
      BY <1>2, <2>1 DEF NoTx, Tx, Clean, Numbered
    <2>3. used' \subseteq Ids /\ used \subseteq used'
      BY <2>1 DEF IInv, TypeOK
    <2> HIDE DEF next
    <2>4. QED
      BY <1>1, <2>1, <2>2, <2>3, CalmStep DEF next
  <1>4. CASE EditGroup(s, r)
    <2> DEFINE next == [NoTx EXCEPT !.pc = "read", !.kind = "edit", !.group = r.group,
                                    !.want = r.want, !.rename = r.rename,
                                    !.seen = Kids(edges, r.group) \cap Ids]
    <2>1. tx' = [tx EXCEPT ![s] = next] /\ used' = used
      BY <1>4 DEF EditGroup
    <2>6. r.group \in Ids
      BY <1>4 DEF EditGroup, IInv, TypeOK
    <2>2. Kids(edges, r.group) \cap Ids \in SUBSET Children
      BY DEF Children
    <2>3. next \in Tx /\ Clean(next) /\ next.add = {} /\ ~next.missed /\ Numbered(next, used')
      BY <1>2, <2>2, <2>6 DEF NoTx, Tx, Clean, Numbered
    <2>4. used' \subseteq Ids
      BY <2>1 DEF IInv, TypeOK
    <2> HIDE DEF next
    <2>5. QED
      BY <1>1, <2>1, <2>3, <2>4, CalmStep
  <1>5. CASE DeleteGroup(s, r)
    <2> DEFINE next == [NoTx EXCEPT !.pc = "unlink", !.kind = "delete", !.group = r.group]
    <2>1. tx' = [tx EXCEPT ![s] = next] /\ used' = used
      BY <1>5 DEF DeleteGroup
    <2>5. r.group \in Ids
      BY <1>5, <1>7 DEF DeleteGroup, Receives
    <2>2. next \in Tx /\ Clean(next) /\ next.add = {} /\ ~next.missed /\ Numbered(next, used')
      BY <1>2, <2>5 DEF NoTx, Tx, Clean, Numbered
    <2>3. used' \subseteq Ids
      BY <2>1 DEF IInv, TypeOK
    <2> HIDE DEF next
    <2>4. QED
      BY <1>1, <2>1, <2>2, <2>3, CalmStep
  <1>6. QED
    BY <1>3, <1>4, <1>5

(* The steps inside a transaction, one case each.                          *)
LEMMA ContinueIInv ==
    ASSUME IInv, NEW s \in Sessions, NEW next \in Tx, Continue(s, next),
           next.kind = tx[s].kind, next.group = tx[s].group,
           \/ Clean(next) /\ next.add = {} /\ ~next.missed
           \/ /\ next.add = tx[s].add /\ next.del = tx[s].del
              /\ next.missed = tx[s].missed
              /\ next.pc \in {"adopt", "insert", "keys"} /\ Clean(next)
    PROVE  IInv'
  <1>1. Numbered(next, used')
    BY DEF Continue, IInv, Numbered
  <1>2. QED
    BY <1>1, CalmStep DEF Continue, IInv, TypeOK

LEMMA StatementIInv ==
    ASSUME IInv, NEW s \in Sessions,
           \/ ReadMeters(s) \/ UpdateGroup(s) \/ DisownChildren(s)
           \/ \E c \in Children : NextChild(s, c)
           \/ CheckKeys(s) \/ Unlink(s) \/ RemoveRow(s)
    PROVE  IInv'
  <1> DEFINE t == tx[s]
  <1>1. /\ t \in Tx /\ edges \subseteq Ids \X Children
        /\ Clean(t) /\ (t.missed => t.add # {})
    BY DEF IInv, TypeOK
  <1>2. ASSUME NEW pc, t.pc = pc, pc \notin {"adopt", "insert", "keys"}
        PROVE  t.add = {} /\ ~t.missed /\ (pc # "idle" => t.group \in Ids)
    BY <1>1, <1>2 DEF Clean
  <1>3. CASE ReadMeters(s)
    <2> DEFINE next == [t EXCEPT !.pc = "update",
                                 !.seen = @ \cup (Kids(edges, t.group) \cap Meters)]
    <2>1. Continue(s, next) /\ t.add = {} /\ ~t.missed /\ t.group \in Ids
      BY <1>2, <1>3 DEF ReadMeters, Runs
    <2>2. Kids(edges, t.group) \cap Meters \in SUBSET Children
      BY DEF Children
    <2>3. next \in Tx /\ next.add = {} /\ ~next.missed /\ Clean(next)
          /\ next.kind = t.kind /\ next.group = t.group
      BY <1>1, <2>1, <2>2 DEF Tx, Clean
    <2> HIDE DEF next
    <2>4. QED
      BY <2>1, <2>3, ContinueIInv
  <1>4. CASE UpdateGroup(s)
    <2> DEFINE lock == IF t.group \notin groups THEN "none"
                       ELSE IF t.rename THEN "exclusive" ELSE "update"
               next == [t EXCEPT !.pc = "disown", !.lock = lock]
    <2>1. Continue(s, next) /\ t.add = {} /\ ~t.missed /\ t.group \in Ids
      BY <1>2, <1>4 DEF UpdateGroup, Runs
    <2>2. lock \in {"none", "update", "exclusive"}
      OBVIOUS
    <2> HIDE DEF lock
    <2>3. next \in Tx /\ next.add = {} /\ ~next.missed /\ Clean(next)
          /\ next.kind = t.kind /\ next.group = t.group
      BY <1>1, <2>1, <2>2 DEF Tx, Clean
    <2> HIDE DEF next
    <2>4. QED
      BY <2>1, <2>3, ContinueIInv
  <1>5. CASE DisownChildren(s)
    <2> DEFINE todo == t.want \ t.seen
               del == {<<t.group, c>> : c \in t.seen \ t.want} \cap edges
               next == [t EXCEPT !.pc = "adopt", !.todo = todo, !.del = del]
    <2>1. (Continue(s, next) \/ Abort(s)) /\ t.add = {} /\ ~t.missed /\ t.group \in Ids
      BY <1>2, <1>5 DEF DisownChildren, Runs
    <2>2. todo \in SUBSET Children /\ del \in SUBSET (Ids \X Children)
      BY <1>1 DEF Tx
    <2> HIDE DEF todo, del
    <2>3. next \in Tx /\ next.add = {} /\ ~next.missed /\ Clean(next)
          /\ next.kind = t.kind /\ next.group = t.group
      BY <1>1, <2>1, <2>2 DEF Tx, Clean
    <2> HIDE DEF next
    <2>4. QED
      BY <2>1, <2>3, ContinueIInv, AbortIInv
  <1>6. CASE \E c \in Children : NextChild(s, c)
    <2>1. PICK c \in Children : NextChild(s, c)
      BY <1>6
    <2> DEFINE next == [t EXCEPT !.pc = "insert", !.child = c, !.todo = @ \ {c}]
    <2>2. Continue(s, next) /\ t.group \in Ids
      BY <1>1, <2>1 DEF NextChild, Runs, Clean
    <2>3. /\ next \in Tx /\ next.add = t.add /\ next.del = t.del /\ next.missed = t.missed
          /\ next.pc = "insert" /\ Clean(next)
          /\ next.kind = t.kind /\ next.group = t.group
      BY <1>1, <2>2 DEF Tx, Clean
    <2> HIDE DEF next
    <2>4. QED
      BY <2>2, <2>3, ContinueIInv
  <1>7. CASE CheckKeys(s)
    <2> DEFINE keys == t.keys \cup (({t.group, t.child} \cap Ids) \cap groups)
               next == [t EXCEPT !.pc = "adopt", !.child = None, !.keys = keys]
    <2>1. (Continue(s, next) \/ Abort(s)) /\ t.group \in Ids
      BY <1>1, <1>7 DEF CheckKeys, Runs, Clean
    <2>2. keys \in SUBSET Ids
      BY <1>1 DEF Tx
    <2> HIDE DEF keys
    <2>3. /\ next \in Tx /\ next.add = t.add /\ next.del = t.del /\ next.missed = t.missed
          /\ next.pc = "adopt" /\ Clean(next)
          /\ next.kind = t.kind /\ next.group = t.group
      BY <1>1, <2>1, <2>2 DEF Tx, Clean
    <2> HIDE DEF next
    <2>4. QED
      BY <2>1, <2>3, ContinueIInv, AbortIInv
  <1>8. CASE Unlink(s)
    <2> DEFINE del == {e \in edges : t.group \in {e[1], e[2]}}
               next == [t EXCEPT !.pc = "remove", !.del = del]
    <2>1. Continue(s, next) /\ t.add = {} /\ ~t.missed /\ t.group \in Ids
      BY <1>2, <1>8 DEF Unlink, Runs
    <2>2. del \in SUBSET (Ids \X Children)
      BY <1>1
    <2> HIDE DEF del
    <2>3. next \in Tx /\ next.add = {} /\ ~next.missed /\ Clean(next)
          /\ next.kind = t.kind /\ next.group = t.group
      BY <1>1, <2>1, <2>2 DEF Tx, Clean
    <2> HIDE DEF next
    <2>4. QED
      BY <2>1, <2>3, ContinueIInv
  <1>9. CASE RemoveRow(s)
    <2> DEFINE lock == IF t.group \in groups THEN "exclusive" ELSE "none"
               next == [t EXCEPT !.pc = "removed", !.lock = lock]
    <2>1. (Continue(s, next) \/ Abort(s)) /\ t.add = {} /\ ~t.missed /\ t.group \in Ids
      BY <1>2, <1>9 DEF RemoveRow, Runs
    <2>2. next \in Tx /\ next.add = {} /\ ~next.missed /\ Clean(next)
          /\ next.kind = t.kind /\ next.group = t.group
      BY <1>1, <2>1 DEF Tx, Clean
    <2> HIDE DEF next
    <2>3. QED
      BY <2>1, <2>2, ContinueIInv, AbortIInv
  <1>10. QED
    BY <1>3, <1>4, <1>5, <1>6, <1>7, <1>8, <1>9

LEMMA InsertChildIInv ==
    ASSUME IInv, NEW s \in Sessions, InsertChild(s)
    PROVE  IInv'
  <1> DEFINE t == tx[s]
             e == <<t.group, t.child>>
             next == [t EXCEPT !.pc = "keys", !.add = @ \cup {e}]
  <1>1. t \in Tx /\ SeesNoCycle(s) /\ Clean(t)
    BY DEF IInv, TypeOK
  <1>2. CASE Abort(s)
    BY <1>2, AbortIInv
  <1>3. CASE ~Abort(s)
    <2>1. Continue(s, next) /\ MayInsert(s, t.group, t.child)
      BY <1>3 DEF InsertChild
    <2>2. t.group \in Ids /\ t.child \in Children
      BY <1>1 DEF InsertChild, Runs, Clean
    <2>3. t.missed \/ raced \/ Acyclic(Visible(s) \cup {e})
      BY <1>1, <2>1, <2>2, AddEdge DEF MayInsert, SeesNoCycle
    <2>4. /\ next \in Tx /\ next.add = t.add \cup {e} /\ next.del = t.del
          /\ next.missed = t.missed /\ next.pc = "keys" /\ Clean(next)
          /\ next.kind = t.kind /\ next.group = t.group
          /\ next.missed => next.add # {}
      <3>1. t.add \cup {e} \in SUBSET (Ids \X Children)
        BY <1>1, <2>2 DEF Tx
      <3> HIDE DEF e
      <3>2. QED
        BY <1>1, <2>2, <3>1 DEF Tx, Clean
    <2> HIDE DEF next
    <2>5. (edges \ next.del) \cup next.add = Visible(s) \cup {e}
      BY <2>4 DEF Visible
    <2>6. QED
      BY <2>1, <2>3, <2>4, <2>5, SessionStep DEF Continue, IInv, TypeOK, Numbered
  <1>4. QED
    BY <1>2, <1>3

(* A commit puts what its transaction sees into the tables.                *)
LEMMA CommitIInv ==
    ASSUME IInv, NEW s \in Sessions, Commit(s)
    PROVE  IInv'
  <1> DEFINE t == tx[s]
             Late(u) == t.add # {} /\ tx[u].add # {}
  <1>1. /\ tx \in [Sessions -> Tx] /\ t \in Tx
        /\ groups \subseteq used /\ used \subseteq Ids
        /\ edges \subseteq Ids \X Children /\ raced \in BOOLEAN
    BY DEF IInv, TypeOK
  <1>2. /\ edges' = Visible(s) /\ used' = used /\ sent' = sent
        /\ raced' = (raced \/ (t.missed /\ t.add # {}))
        /\ tx' = [u \in Sessions |-> IF u = s THEN NoTx
                                     ELSE [tx[u] EXCEPT !.missed = @ \/ Late(u)]]
    BY DEF Commit
  <1>3. /\ t.missed => t.add # {}
        /\ SeesNoCycle(s)
    BY DEF IInv
  <1>4. raced' \/ Acyclic(Visible(s))
    BY <1>2, <1>3 DEF SeesNoCycle
  <1>5. TypeOK'
    <2>1. groups' \subseteq used'
      <3>1. t.kind = "create" => t.group \in used
        BY DEF IInv, Numbered
      <3>2. QED
        BY <1>1, <1>2, <3>1 DEF Commit
    <2>2. edges' \subseteq Ids \X Children
      BY <1>1, <1>2 DEF Visible, Tx
    <2>3. ASSUME NEW u \in Sessions
          PROVE  [tx[u] EXCEPT !.missed = @ \/ Late(u)] \in Tx
      BY <1>1 DEF Tx
    <2>4. tx' \in [Sessions -> Tx]
      BY <1>2, <2>3, NoTxType
    <2>5. raced' \in BOOLEAN
      BY <1>2
    <2>6. QED
      BY <1>1, <1>2, <2>1, <2>2, <2>4, <2>5 DEF IInv, TypeOK
  <1>6. CyclesNeedARace'
    BY <1>2, <1>4 DEF CyclesNeedARace
  <1>7. ASSUME NEW u \in Sessions
        PROVE  Clean(tx'[u]) /\ Numbered(tx'[u], used') /\ (tx'[u].missed => tx'[u].add # {}) /\ SeesNoCycle(u)'
    <2>1. CASE u = s
      <3>1. tx'[u] = NoTx
        BY <1>2, <2>1
      <3>2. Visible(u)' = edges'
        BY <3>1 DEF Visible, NoTx
      <3>3. QED
        BY <1>2, <1>4, <3>1, <3>2 DEF Clean, Numbered, NoTx, SeesNoCycle
    <2>2. CASE u # s
      <3>1. tx[u] \in Tx /\ Clean(tx[u]) /\ Numbered(tx[u], used) /\ (tx[u].missed => tx[u].add # {}) /\ SeesNoCycle(u)
        BY <1>1 DEF IInv
      <3>2. tx'[u] = [tx[u] EXCEPT !.missed = @ \/ Late(u)]
        BY <1>2, <2>2
      <3>3. /\ tx'[u].add = tx[u].add /\ tx'[u].del = tx[u].del
            /\ tx'[u].pc = tx[u].pc /\ tx'[u].kind = tx[u].kind /\ tx'[u].group = tx[u].group
            /\ tx'[u].child = tx[u].child
            /\ tx'[u].missed <=> (tx[u].missed \/ Late(u))
        <4> HIDE DEF Late
        <4>1. QED
          BY <3>1, <3>2 DEF Tx
      <3>4. Visible(u)' = (Visible(s) \ tx[u].del) \cup tx[u].add
        BY <1>2, <3>3 DEF Visible
      <3>5. SeesNoCycle(u)'
        <4>1. CASE tx[u].add = {}
          <5>1. Visible(u)' \subseteq Visible(s)
            BY <3>4, <4>1
          <5>2. QED
            BY <1>4, <5>1, FewerEdges DEF SeesNoCycle
        <4>2. CASE tx[u].add # {} /\ t.add # {}
          BY <3>3, <4>2 DEF SeesNoCycle
        <4>3. CASE t.add = {}
          <5>1. Visible(u)' \subseteq Visible(u)
            BY <3>4, <4>3 DEF Visible
          <5>2. QED
            BY <1>2, <3>1, <3>3, <5>1, FewerEdges DEF SeesNoCycle
        <4>4. QED
          BY <4>1, <4>2, <4>3
      <3>6. QED
        BY <1>2, <3>1, <3>3, <3>5 DEF Clean, Numbered
    <2>3. QED
      BY <2>1, <2>2
  <1>8. QED
    BY <1>5, <1>6, <1>7 DEF IInv

LEMMA NextIInv == IInv /\ [DagNext]_dagVars => IInv'
  <1> SUFFICES ASSUME IInv, [DagNext]_dagVars PROVE IInv'
    OBVIOUS
  <1>1. ASSUME NEW s \in Sessions, NEW r \in Requests,
               CreateGroup(s, r) \/ EditGroup(s, r) \/ DeleteGroup(s, r)
        PROVE  IInv'
    BY <1>1, ReceiveIInv
  <1>2. ASSUME NEW s \in Sessions,
               \/ ReadMeters(s) \/ UpdateGroup(s) \/ DisownChildren(s)
               \/ \E c \in Children : NextChild(s, c)
               \/ CheckKeys(s) \/ Unlink(s) \/ RemoveRow(s)
        PROVE  IInv'
    BY <1>2, StatementIInv
  <1>3. ASSUME NEW s \in Sessions, InsertChild(s) PROVE IInv'
    BY <1>3, InsertChildIInv
  <1>4. ASSUME NEW s \in Sessions, Commit(s) PROVE IInv'
    BY <1>4, CommitIInv
  <1>5. ASSUME NEW s \in Sessions, BreakDeadlock(s) \/ Fail(s) PROVE IInv'
    BY <1>5, AbortIInv DEF BreakDeadlock, Fail
  <1>6. CASE UNCHANGED dagVars
    <2>1. TypeOK'
      BY <1>6 DEF IInv, TypeOK, dagVars
    <2>2. CyclesNeedARace'
      BY <1>6 DEF IInv, CyclesNeedARace, dagVars
    <2>3. ASSUME NEW s \in Sessions
          PROVE  Clean(tx'[s]) /\ Numbered(tx'[s], used') /\ (tx'[s].missed => tx'[s].add # {}) /\ SeesNoCycle(s)'
      BY <1>6 DEF IInv, SeesNoCycle, Visible, dagVars
    <2>4. QED
      BY <2>1, <2>2, <2>3 DEF IInv
  <1>7. QED
    BY <1>1, <1>2, <1>3, <1>4, <1>5, <1>6 DEF DagNext, Proceed

LEMMA SpecIInv == DagSpec => []IInv
  BY InitIInv, NextIInv, PTL DEF DagSpec

(* The tables and the transactions keep their types.                       *)
THEOREM TypeCorrect == DagSpec => []TypeOK
  <1>1. IInv => TypeOK
    BY DEF IInv
  <1>2. QED
    BY <1>1, SpecIInv, PTL

(* For any number of groups, admins and requests: without edges inserted   *)
(* at the same time the trigger check_cyclic_groups keeps the groups free  *)
(* of cycles of any length.                                                *)
THEOREM TriggerSuffices == DagSpec => []CyclesNeedARace
  <1>1. IInv => CyclesNeedARace
    BY DEF IInv
  <1>2. QED
    BY <1>1, SpecIInv, PTL

-----------------------------------------------------------------------------
(* Locks and keys.                                                         *)

Ends(e) == {e[1], e[2]}
Own(t) == IF t.kind = "create" THEN {t.group} ELSE {}

(* The groups a transaction's new edges name are its own or it has shared  *)
(* their keys, but for the edge whose keys are still to be checked.        *)
Keyed(t) ==
    \A e \in t.add :
        /\ e[1] = t.group
        /\ (t.pc = "keys" /\ e[2] = t.child) \/ Ends(e) \subseteq t.keys \cup Own(t) \cup Meters

Phase(t) ==
    /\ t.pc \in {"read", "update", "disown"} => t.kind = "edit"
    /\ t.pc \in {"unlink", "remove", "removed"} => t.kind = "delete"
    /\ t.pc \in {"adopt", "insert", "keys"} => t.kind \in {"create", "edit"}

Writing == {"disown", "adopt", "insert", "keys"}

(* Locked rows are there, and an edit has locked its group if it is there. *)
Holds(t, G, ids) ==
    /\ t.keys \subseteq G
    /\ t.lock # "none" => t.group \in G
    /\ t.kind = "create" => t.group \notin G
    /\ t.kind = "edit" => t.group \in ids
    /\ (t.kind = "edit" /\ t.pc \in Writing /\ t.group \in G) => t.lock # "none"

(* A row about to be deleted is named by no edge its transaction sees.     *)
Unnamed(t, E) ==
    (t.pc = "removed" /\ t.lock = "exclusive") =>
        \A e \in (E \ t.del) \cup t.add : t.group \notin Ends(e)

(* What locks exclude of two transactions.                                 *)
Apart(t, u) ==
    /\ (t.lock # "none" /\ u.lock # "none") => t.group # u.group
    /\ t.lock = "exclusive" => t.group \notin u.keys
    /\ (t.kind = "create" /\ u.kind \in {"create", "edit"}) => t.group # u.group

Held(t) == Keyed(t) /\ Phase(t) /\ Holds(t, groups, used) /\ Unnamed(t, edges)

LockInv ==
    /\ NoDanglingEdge
    /\ \A s \in Sessions : Held(tx[s])
    /\ \A s \in Sessions : \A u \in Others(s) : Apart(tx[s], tx[u])

LEMMA NoTxHeld ==
    /\ \A G, ids, E : Keyed(NoTx) /\ Phase(NoTx) /\ Holds(NoTx, G, ids) /\ Unnamed(NoTx, E)
    /\ \A t : Apart(NoTx, t) /\ Apart(t, NoTx)
  BY DEF NoTx, Keyed, Phase, Holds, Unnamed, Apart

LEMMA InitLockInv == DagInit => LockInv
  <1> SUFFICES ASSUME DagInit PROVE LockInv
    OBVIOUS
  <1>1. \A s \in Sessions : tx[s] = NoTx
    BY DEF DagInit
  <1>2. NoDanglingEdge
    BY DEF DagInit, NoDanglingEdge
  <1>3. \A s \in Sessions : Held(tx[s])
    BY <1>1, NoTxHeld DEF Held
  <1>4. ASSUME NEW s \in Sessions, NEW u \in Others(s) PROVE Apart(tx[s], tx[u])
    BY <1>1, NoTxHeld DEF Others
  <1>5. QED
    BY <1>2, <1>3, <1>4 DEF LockInv

(* A step of one session that commits nothing.                             *)
LEMMA LockStep ==
    ASSUME IInv, LockInv, NEW s \in Sessions, NEW next,
           tx' = [tx EXCEPT ![s] = next],
           edges' = edges, groups' = groups, used \subseteq used',
           Keyed(next), Phase(next), Holds(next, groups, used'), Unnamed(next, edges),
           \A u \in Others(s) : Apart(next, tx[u]) /\ Apart(tx[u], next)
    PROVE  LockInv'
  <1>1. tx \in [Sessions -> Tx]
    BY DEF IInv, TypeOK
  <1>2. tx'[s] = next /\ \A u \in Others(s) : tx'[u] = tx[u]
    BY <1>1 DEF Others
  <1>3. NoDanglingEdge'
    BY DEF LockInv, NoDanglingEdge
  <1>4. ASSUME NEW u \in Sessions PROVE Held(tx[u])'
    <2>1. CASE u = s
      BY <1>2, <2>1 DEF Held
    <2>2. CASE u # s
      <3>1. tx'[u] = tx[u] /\ Held(tx[u])
        BY <1>2, <2>2 DEF Others, LockInv
      <3>2. Holds(tx[u], groups, used')
        BY <3>1 DEF Held, Holds
      <3>3. QED
        BY <3>1, <3>2 DEF Held
    <2>3. QED
      BY <2>1, <2>2
  <1>5. ASSUME NEW v \in Sessions, NEW u \in Others(v) PROVE Apart(tx[v], tx[u])'
    <2>1. CASE v = s
      BY <1>2, <2>1
    <2>2. CASE u = s
      <3>1. v \in Others(s) /\ tx'[v] = tx[v] /\ tx'[u] = next
        BY <1>2, <2>2 DEF Others
      <3>2. QED
        BY <3>1
    <2>3. CASE v # s /\ u # s
      <3>1. tx'[v] = tx[v] /\ tx'[u] = tx[u]
        BY <1>2, <2>3 DEF Others
      <3>2. QED
        BY <3>1 DEF LockInv
    <2>4. QED
      BY <2>1, <2>2, <2>3
  <1>6. QED
    BY <1>3, <1>4, <1>5 DEF LockInv, Others

(* A step that takes and leaves no lock.                                   *)
LEMMA SameLocks ==
    ASSUME IInv, LockInv, NEW s \in Sessions, NEW next, Continue(s, next),
           next.kind = tx[s].kind, next.group = tx[s].group,
           next.lock = tx[s].lock, next.keys = tx[s].keys,
           Keyed(next), Phase(next), next.pc # "removed",
           next.pc \in Writing => tx[s].pc \in Writing \/ tx[s].kind # "edit"
    PROVE  LockInv'
  <1>1. /\ tx' = [tx EXCEPT ![s] = next] /\ edges' = edges /\ groups' = groups /\ used' = used
    BY DEF Continue
  <1>2. Holds(tx[s], groups, used)
    BY DEF LockInv, Held
  <1>3. Holds(next, groups, used')
    BY <1>1, <1>2 DEF Holds
  <1>4. Unnamed(next, edges)
    BY DEF Unnamed
  <1>5. ASSUME NEW u \in Others(s) PROVE Apart(next, tx[u]) /\ Apart(tx[u], next)
    <2>1. Apart(tx[s], tx[u]) /\ Apart(tx[u], tx[s])
      BY DEF LockInv, Others
    <2>2. QED
      BY <2>1 DEF Apart
  <1>6. QED
    BY <1>1, <1>3, <1>4, <1>5, LockStep

LEMMA AbortLockInv ==
    ASSUME IInv, LockInv, NEW s \in Sessions, Abort(s)
    PROVE  LockInv'
  <1>1. \A u \in Others(s) : Apart(NoTx, tx[u]) /\ Apart(tx[u], NoTx)
    BY NoTxHeld
  <1>2. QED
    BY <1>1, NoTxHeld, LockStep DEF Abort

LEMMA ReceiveLockInv ==
    ASSUME IInv, LockInv, NEW s \in Sessions, NEW r \in Requests,
           CreateGroup(s, r) \/ EditGroup(s, r) \/ DeleteGroup(s, r)
    PROVE  LockInv'
  <1>1. edges' = edges /\ groups' = groups
    BY DEF Receives, CreateGroup, EditGroup, DeleteGroup
  <1>2. groups \subseteq used
    BY DEF IInv, TypeOK
  <1>3. ASSUME NEW u \in Sessions
        PROVE  Holds(tx[u], groups, used) /\ (tx[u].kind = "create" => tx[u].group \in used)
    BY DEF LockInv, Held, IInv, Numbered
  <1>4. CASE CreateGroup(s, r)
    <2>1. PICK g \in Ids \ used :
            /\ used' = used \cup {g}
            /\ tx' = [tx EXCEPT ![s] = IF r.want \cap Ids \subseteq groups
                                       THEN [NoTx EXCEPT !.pc = "adopt", !.kind = "create",
                                                         !.group = g, !.want = r.want,
                                                         !.todo = r.want]
                                       ELSE NoTx]
      BY <1>4 DEF CreateGroup
    <2> DEFINE t == [NoTx EXCEPT !.pc = "adopt", !.kind = "create", !.group = g,
                                 !.want = r.want, !.todo = r.want]
               next == IF r.want \cap Ids \subseteq groups THEN t ELSE NoTx
    <2>2. /\ t.pc = "adopt" /\ t.kind = "create" /\ t.group = g
          /\ t.add = {} /\ t.lock = "none" /\ t.keys = {}
      BY DEF NoTx
    <2> HIDE DEF t
    <2>3. Keyed(t) /\ Phase(t) /\ Holds(t, groups, used') /\ Unnamed(t, edges)
      BY <1>2, <2>1, <2>2 DEF Keyed, Phase, Holds, Unnamed
    <2>4. ASSUME NEW u \in Others(s) PROVE Apart(t, tx[u]) /\ Apart(tx[u], t)
      BY <1>3, <2>1, <2>2 DEF Apart, Holds, Others
    <2>5. /\ Keyed(next) /\ Phase(next) /\ Holds(next, groups, used') /\ Unnamed(next, edges)
          /\ \A u \in Others(s) : Apart(next, tx[u]) /\ Apart(tx[u], next)
      BY <2>3, <2>4, NoTxHeld
    <2>6. tx' = [tx EXCEPT ![s] = next] /\ used \subseteq used'
      BY <2>1 DEF t
    <2> HIDE DEF next
    <2>7. QED
      BY <1>1, <2>5, <2>6, LockStep
  <1>5. CASE EditGroup(s, r)
    <2> DEFINE next == [NoTx EXCEPT !.pc = "read", !.kind = "edit", !.group = r.group,
                                    !.want = r.want, !.rename = r.rename,
                                    !.seen = Kids(edges, r.group) \cap Ids]
    <2>1. tx' = [tx EXCEPT ![s] = next] /\ used' = used /\ r.group \in groups
      BY <1>5 DEF EditGroup
    <2>2. /\ next.pc = "read" /\ next.kind = "edit" /\ next.group = r.group
          /\ next.add = {} /\ next.lock = "none" /\ next.keys = {}
      BY DEF NoTx
    <2> HIDE DEF next
    <2>3. Keyed(next) /\ Phase(next) /\ Holds(next, groups, used') /\ Unnamed(next, edges)
      BY <1>2, <2>1, <2>2 DEF Keyed, Phase, Holds, Unnamed, Writing
    <2>4. ASSUME NEW u \in Others(s) PROVE Apart(next, tx[u]) /\ Apart(tx[u], next)
      BY <1>3, <2>1, <2>2 DEF Apart, Holds, Others
    <2>5. QED
      BY <1>1, <2>1, <2>3, <2>4, LockStep
  <1>6. CASE DeleteGroup(s, r)
    <2> DEFINE next == [NoTx EXCEPT !.pc = "unlink", !.kind = "delete", !.group = r.group]
    <2>1. tx' = [tx EXCEPT ![s] = next] /\ used' = used
      BY <1>6 DEF DeleteGroup
    <2>2. /\ next.pc = "unlink" /\ next.kind = "delete"
          /\ next.add = {} /\ next.lock = "none" /\ next.keys = {}
      BY DEF NoTx
    <2> HIDE DEF next
    <2>3. Keyed(next) /\ Phase(next) /\ Holds(next, groups, used') /\ Unnamed(next, edges)
      BY <2>2 DEF Keyed, Phase, Holds, Unnamed
    <2>4. ASSUME NEW u \in Others(s) PROVE Apart(next, tx[u]) /\ Apart(tx[u], next)
      BY <2>2 DEF Apart
    <2>5. QED
      BY <1>1, <2>1, <2>3, <2>4, LockStep
  <1>7. QED
    BY <1>4, <1>5, <1>6

(* The statements that take no lock, one case each.                        *)
LEMMA StatementLockInv ==
    ASSUME IInv, LockInv, NEW s \in Sessions,
           \/ ReadMeters(s) \/ DisownChildren(s) \/ Unlink(s)
           \/ \E c \in Children : NextChild(s, c)
           \/ InsertChild(s)
    PROVE  LockInv'
  <1> DEFINE t == tx[s]
  <1>1. t \in Tx /\ Clean(t) /\ Keyed(t) /\ Phase(t)
    BY DEF IInv, TypeOK, LockInv, Held
  <1>2. ASSUME t.pc \notin {"adopt", "insert", "keys"} PROVE t.add = {}
    BY <1>1, <1>2 DEF Clean
  <1>3. CASE ReadMeters(s)
    <2> DEFINE next == [t EXCEPT !.pc = "update",
                                 !.seen = @ \cup (Kids(edges, t.group) \cap Meters)]
    <2>1. Continue(s, next) /\ t.pc = "read" /\ t.add = {}
      BY <1>2, <1>3 DEF ReadMeters, Runs
    <2>2. /\ next.pc = "update" /\ next.kind = t.kind /\ next.group = t.group
          /\ next.add = t.add /\ next.lock = t.lock /\ next.keys = t.keys
      BY <1>1 DEF Tx
    <2> HIDE DEF next
    <2>3. Keyed(next) /\ Phase(next) /\ next.pc \notin Writing
      BY <1>1, <2>1, <2>2 DEF Keyed, Phase, Writing
    <2>4. QED
      BY <2>1, <2>2, <2>3, SameLocks
  <1>4. CASE DisownChildren(s)
    <2> DEFINE next == [t EXCEPT !.pc = "adopt", !.todo = t.want \ t.seen,
                                 !.del = {<<t.group, c>> : c \in t.seen \ t.want} \cap edges]
    <2>1. (Continue(s, next) \/ Abort(s)) /\ t.pc = "disown" /\ t.add = {}
      BY <1>2, <1>4 DEF DisownChildren, Runs
    <2>2. /\ next.pc = "adopt" /\ next.kind = t.kind /\ next.group = t.group
          /\ next.add = t.add /\ next.lock = t.lock /\ next.keys = t.keys
      BY <1>1 DEF Tx
    <2> HIDE DEF next
    <2>3. Keyed(next) /\ Phase(next) /\ t.pc \in Writing
      BY <1>1, <2>1, <2>2 DEF Keyed, Phase, Writing
    <2>4. QED
      BY <2>1, <2>2, <2>3, SameLocks, AbortLockInv
  <1>5. CASE Unlink(s)
    <2> DEFINE next == [t EXCEPT !.pc = "remove",
                                 !.del = {e \in edges : t.group \in {e[1], e[2]}}]
    <2>1. Continue(s, next) /\ t.pc = "unlink" /\ t.add = {}
      BY <1>2, <1>5 DEF Unlink, Runs
    <2>2. /\ next.pc = "remove" /\ next.kind = t.kind /\ next.group = t.group
          /\ next.add = t.add /\ next.lock = t.lock /\ next.keys = t.keys
      BY <1>1 DEF Tx
    <2> HIDE DEF next
    <2>3. Keyed(next) /\ Phase(next) /\ next.pc \notin Writing
      BY <1>1, <2>1, <2>2 DEF Keyed, Phase, Writing
    <2>4. QED
      BY <2>1, <2>2, <2>3, SameLocks
  <1>6. CASE \E c \in Children : NextChild(s, c)
    <2>1. PICK c \in Children : NextChild(s, c)
      BY <1>6
    <2> DEFINE next == [t EXCEPT !.pc = "insert", !.child = c, !.todo = @ \ {c}]
    <2>2. Continue(s, next) /\ t.pc = "adopt"
      BY <2>1 DEF NextChild, Runs
    <2>3. /\ next.pc = "insert" /\ next.kind = t.kind /\ next.group = t.group
          /\ next.add = t.add /\ next.lock = t.lock /\ next.keys = t.keys
      BY <1>1 DEF Tx
    <2> HIDE DEF next
    <2>4. Keyed(next) /\ Phase(next) /\ t.pc \in Writing
      BY <1>1, <2>2, <2>3 DEF Keyed, Phase, Writing, Own
    <2>5. QED
      BY <2>2, <2>3, <2>4, SameLocks
  <1>7. CASE InsertChild(s)
    <2> DEFINE next == [t EXCEPT !.pc = "keys", !.add = @ \cup {<<t.group, t.child>>}]
    <2>1. (Continue(s, next) \/ Abort(s)) /\ t.pc = "insert"
      BY <1>7 DEF InsertChild, Runs
    <2>2. /\ next.pc = "keys" /\ next.kind = t.kind /\ next.group = t.group
          /\ next.add = t.add \cup {<<t.group, t.child>>} /\ next.child = t.child
          /\ next.lock = t.lock /\ next.keys = t.keys
      BY <1>1 DEF Tx
    <2> HIDE DEF next
    <2>3. Keyed(next) /\ Phase(next) /\ t.pc \in Writing
      BY <1>1, <2>1, <2>2 DEF Keyed, Phase, Writing, Own
    <2>4. QED
      BY <2>1, <2>2, <2>3, SameLocks, AbortLockInv
  <1>8. QED
    BY <1>3, <1>4, <1>5, <1>6, <1>7

(* The update of a group's row locks it, if it is there.                   *)
LEMMA UpdateLockInv ==
    ASSUME IInv, LockInv, NEW s \in Sessions, UpdateGroup(s)
    PROVE  LockInv'
  <1> DEFINE t == tx[s]
             lock == IF t.group \notin groups THEN "none"
                     ELSE IF t.rename THEN "exclusive" ELSE "update"
             next == [t EXCEPT !.pc = "disown", !.lock = lock]
  <1>1. /\ t \in Tx /\ Clean(t) /\ Held(t)
    BY DEF IInv, TypeOK, LockInv
  <1>2. Continue(s, next) /\ t.pc = "update" /\ WaitsFor(s) = {} /\ t.add = {} /\ t.kind = "edit"
    BY <1>1 DEF UpdateGroup, Runs, Clean, Held, Phase
  <1>3. /\ next.pc = "disown" /\ next.kind = "edit" /\ next.group = t.group
        /\ next.add = {} /\ next.lock = lock /\ next.keys = t.keys
    BY <1>1, <1>2 DEF Tx
  <1>4. /\ lock # "none" => t.group \in groups
        /\ t.group \in groups => lock # "none"
        /\ lock = "exclusive" => t.rename
    OBVIOUS
  <1> HIDE DEF next, lock
  <1>5. Keyed(next) /\ Phase(next) /\ Unnamed(next, edges)
    BY <1>3 DEF Keyed, Phase, Unnamed
  <1>6. Holds(next, groups, used)
    BY <1>1, <1>2, <1>3, <1>4 DEF Held, Holds
  <1>7. ASSUME NEW u \in Others(s) PROVE Apart(next, tx[u]) /\ Apart(tx[u], next)
    <2>1. tx[u].lock \in {"none", "update", "exclusive"} /\ tx[u].keys \subseteq Ids
      BY DEF IInv, TypeOK, Tx, Others
    <2>2. /\ ~Locks(u, t.group, {"update", "exclusive"})
          /\ t.rename => t.group \notin tx[u].keys
      BY <1>2 DEF WaitsFor
    <2>3. tx[u].lock # "none" => tx[u].group # t.group
      BY <2>1, <2>2 DEF Locks
    <2>4. Apart(t, tx[u]) /\ Apart(tx[u], t)
      BY DEF LockInv, Others
    <2>5. QED
      BY <1>2, <1>3, <1>4, <2>2, <2>3, <2>4 DEF Apart
  <1>8. QED
    BY <1>2, <1>5, <1>6, <1>7, LockStep DEF Continue

(* The foreign keys are shared once no one holds a group exclusively.      *)
LEMMA KeysLockInv ==
    ASSUME IInv, LockInv, NEW s \in Sessions, CheckKeys(s)
    PROVE  LockInv'
  <1> DEFINE t == tx[s]
             named == {t.group, t.child} \cap Ids
             next == [t EXCEPT !.pc = "adopt", !.child = None, !.keys = @ \cup (named \cap groups)]
  <1>1. /\ t \in Tx /\ Clean(t) /\ Held(t)
    BY DEF IInv, TypeOK, LockInv
  <1>2. CASE Abort(s)
    BY <1>2, AbortLockInv
  <1>3. CASE ~Abort(s)
    <2>1. Continue(s, next) /\ t.pc = "keys" /\ WaitsFor(s) = {} /\ named \subseteq VisibleGroups(s)
      BY <1>3 DEF CheckKeys, Runs
    <2>2. /\ next.pc = "adopt" /\ next.kind = t.kind /\ next.group = t.group
          /\ next.add = t.add /\ next.lock = t.lock /\ next.keys = t.keys \cup (named \cap groups)
      BY <1>1 DEF Tx
    <2>3. named \subseteq next.keys \cup Own(next)
      BY <2>1, <2>2 DEF VisibleGroups, Own
    <2>4. t.group \in Ids /\ t.child \in Ids \cup Meters
      BY <1>1, <2>1 DEF Clean, Children
    <2>5. named \subseteq {t.group, t.child}
      OBVIOUS
    <2>6. {t.group, t.child} \subseteq named \cup Meters
      BY <2>4
    <2> HIDE DEF next, named
    <2>7. Keyed(next)
      <3> SUFFICES ASSUME NEW e \in t.add
                   PROVE  e[1] = t.group /\ Ends(e) \subseteq next.keys \cup Own(next) \cup Meters
        BY <2>2 DEF Keyed
      <3>1. /\ e[1] = t.group
            /\ e[2] = t.child \/ Ends(e) \subseteq t.keys \cup Own(t) \cup Meters
        BY <1>1 DEF Held, Keyed
      <3>2. Own(t) = Own(next) /\ t.keys \subseteq next.keys
        BY <2>2 DEF Own
      <3>3. QED
        BY <2>3, <2>6, <3>1, <3>2 DEF Ends
    <2>8. Phase(next) /\ Unnamed(next, edges) /\ Holds(next, groups, used)
      BY <1>1, <2>1, <2>2 DEF Held, Phase, Unnamed, Holds, Writing
    <2>9. ASSUME NEW u \in Others(s) PROVE Apart(next, tx[u]) /\ Apart(tx[u], next)
      <3>1. ~Locks(u, t.group, {"exclusive"}) /\ ~Locks(u, t.child, {"exclusive"})
        BY <2>1 DEF WaitsFor
      <3>2. tx[u].lock = "exclusive" => tx[u].group \notin named
        BY <2>5, <3>1 DEF Locks
      <3>3. Apart(t, tx[u]) /\ Apart(tx[u], t)
        BY DEF LockInv, Others
      <3>4. QED
        BY <2>2, <3>2, <3>3 DEF Apart
    <2>10. QED
      BY <2>1, <2>7, <2>8, <2>9, LockStep DEF Continue
  <1>4. QED
    BY <1>2, <1>3

(* A row is deleted when no edge names it and nobody shares its key.       *)
LEMMA RemoveLockInv ==
    ASSUME IInv, LockInv, NEW s \in Sessions, RemoveRow(s)
    PROVE  LockInv'
  <1> DEFINE t == tx[s]
             lock == IF t.group \in groups THEN "exclusive" ELSE "none"
             next == [t EXCEPT !.pc = "removed", !.lock = lock]
  <1>1. /\ t \in Tx /\ Clean(t) /\ Held(t)
    BY DEF IInv, TypeOK, LockInv
  <1>2. CASE Abort(s)
    BY <1>2, AbortLockInv
  <1>3. CASE ~Abort(s)
    <2>1. /\ Continue(s, next) /\ t.pc = "remove" /\ WaitsFor(s) = {}
          /\ t.kind = "delete" /\ t.add = {}
          /\ \A e \in Visible(s) : t.group \notin Ends(e)
      BY <1>1, <1>3 DEF RemoveRow, Runs, Held, Phase, Clean, Ends
    <2>2. /\ next.pc = "removed" /\ next.kind = t.kind /\ next.group = t.group
          /\ next.add = t.add /\ next.del = t.del /\ next.lock = lock /\ next.keys = t.keys
      BY <1>1 DEF Tx
    <2>3. lock # "none" => t.group \in groups
      OBVIOUS
    <2> HIDE DEF next, lock
    <2>4. Keyed(next) /\ Phase(next) /\ Unnamed(next, edges) /\ Holds(next, groups, used)
      BY <1>1, <2>1, <2>2, <2>3 DEF Held, Keyed, Phase, Unnamed, Holds, Visible
    <2>5. ASSUME NEW u \in Others(s) PROVE Apart(next, tx[u]) /\ Apart(tx[u], next)
      <3>1. tx[u].lock \in {"none", "update", "exclusive"}
        BY DEF IInv, TypeOK, Tx, Others
      <3>2. ~Locks(u, t.group, {"update", "exclusive"}) /\ t.group \notin tx[u].keys
        BY <2>1 DEF WaitsFor
      <3>3. Apart(t, tx[u]) /\ Apart(tx[u], t)
        BY DEF LockInv, Others
      <3>4. QED
        BY <2>1, <2>2, <3>1, <3>2, <3>3 DEF Apart, Locks
    <2>6. QED
      BY <2>1, <2>4, <2>5, LockStep DEF Continue
  <1>4. QED
    BY <1>2, <1>3

(* A commit makes the locks' promises true of the tables.                  *)
LEMMA CommitLockInv ==
    ASSUME IInv, LockInv, NEW s \in Sessions, Commit(s)
    PROVE  LockInv'
  <1> DEFINE t == tx[s]
             gone == t.kind = "delete" /\ t.lock = "exclusive"
  <1>1. /\ tx \in [Sessions -> Tx] /\ t \in Tx /\ Clean(t) /\ Held(t)
        /\ edges \subseteq Ids \X Children /\ groups \subseteq Ids
    BY DEF IInv, TypeOK, LockInv
  <1>2. /\ edges' = (edges \ t.del) \cup t.add /\ used' = used
        /\ \/ t.kind = "create" /\ groups' = groups \cup {t.group}
           \/ gone /\ t.kind # "create" /\ groups' = groups \ {t.group}
           \/ t.kind # "create" /\ ~gone /\ groups' = groups
    BY DEF Commit, Visible
  <1>3. t.pc = "removed" \/ t.pc = "adopt"
    BY DEF Commit, CanCommit
  <1>4. ASSUME NEW e \in t.add
        PROVE  t.kind # "delete" /\ Ends(e) \subseteq t.keys \cup Own(t) \cup Meters
    BY <1>1, <1>3 DEF Clean, Held, Keyed, Phase
  <1>5. gone => t.pc = "removed"
    BY <1>1, <1>3 DEF Held, Phase
  <1>6. NoDanglingEdge'
    <2> SUFFICES ASSUME NEW e \in edges' PROVE e[1] \in groups' /\ e[2] \in groups' \cup Meters
      BY DEF NoDanglingEdge
    <2>1. e \in Ids \X Children /\ e[1] \in Ids
      BY <1>1, <1>2 DEF Tx
    <2>2. CASE e \in t.add
      <3>1. Ends(e) \subseteq groups \cup Own(t) \cup Meters
        BY <1>1, <1>4, <2>2 DEF Held, Holds
      <3>2. groups \cup Own(t) \subseteq groups'
        BY <1>2, <1>4, <2>2 DEF Own
      <3>3. QED
        BY <2>1, <3>1, <3>2, NamesAssumption DEF Ends
    <2>3. CASE e \in edges \ t.del
      <3>1. e[1] \in groups /\ e[2] \in groups \cup Meters
        BY <2>3 DEF LockInv, NoDanglingEdge
      <3>2. gone => t.group \notin Ends(e)
        BY <1>1, <1>5, <2>3 DEF Held, Unnamed
      <3>3. QED
        BY <1>2, <3>1, <3>2 DEF Ends
    <2>4. QED
      BY <1>2, <2>2, <2>3
  <1>7. tx'[s] = NoTx
    BY <1>1 DEF Commit
  <1>8. ASSUME NEW u \in Others(s)
        PROVE  /\ tx'[u].pc = tx[u].pc /\ tx'[u].kind = tx[u].kind
               /\ tx'[u].group = tx[u].group /\ tx'[u].child = tx[u].child
               /\ tx'[u].add = tx[u].add /\ tx'[u].del = tx[u].del
               /\ tx'[u].lock = tx[u].lock /\ tx'[u].keys = tx[u].keys
    <2>1. tx'[u] = [tx[u] EXCEPT !.missed = @ \/ (t.add # {} /\ tx[u].add # {})]
      BY DEF Commit, Others
    <2>2. tx[u] \in Tx
      BY <1>1 DEF Others
    <2>3. QED
      BY <2>1, <2>2 DEF Tx
  <1>9. ASSUME NEW u \in Others(s) PROVE Held(tx[u])'
    <2>1. /\ Held(tx[u]) /\ Apart(t, tx[u]) /\ Apart(tx[u], t)
          /\ tx[u].keys \subseteq Ids /\ tx[u] \in Tx
      BY <1>1 DEF LockInv, Others, Tx
    <2>2. Holds(tx[u], groups', used)
      BY <1>1, <1>2, <2>1 DEF Held, Holds, Apart
    <2>3. Unnamed(tx[u], edges')
      <3> SUFFICES ASSUME tx[u].pc = "removed", tx[u].lock = "exclusive",
                          NEW e \in (edges' \ tx[u].del) \cup tx[u].add
                   PROVE  tx[u].group \notin Ends(e)
        BY DEF Unnamed
      <3>1. CASE e \in (edges \ tx[u].del) \cup tx[u].add
        BY <2>1, <3>1 DEF Held, Unnamed
      <3>2. CASE e \in t.add
        <4>1. tx[u].group \in groups /\ tx[u].group \notin t.keys
          BY <2>1 DEF Held, Holds, Apart
        <4>2. tx[u].group \notin Own(t)
          BY <1>1, <4>1 DEF Held, Holds, Own
        <4>3. QED
          BY <1>1, <1>4, <3>2, <4>1, <4>2, NamesAssumption
      <3>3. QED
        BY <1>2, <3>1, <3>2
    <2>4. Keyed(tx'[u]) /\ Phase(tx'[u])
      BY <1>8, <2>1 DEF Held, Keyed, Phase, Own
    <2>5. Holds(tx'[u], groups', used') /\ Unnamed(tx'[u], edges')
      BY <1>2, <1>8, <2>2, <2>3 DEF Holds, Unnamed
    <2>6. QED
      BY <2>4, <2>5 DEF Held
  <1>10. ASSUME NEW v \in Sessions, NEW u \in Others(v) PROVE Apart(tx[v], tx[u])'
    <2>1. CASE v = s \/ u = s
      BY <1>7, <2>1, NoTxHeld
    <2>2. CASE v # s /\ u # s
      <3>1. u \in Others(s) /\ v \in Others(s)
        BY <2>2 DEF Others
      <3>2. Apart(tx[v], tx[u])
        BY DEF LockInv
      <3>3. QED
        BY <1>8, <3>1, <3>2 DEF Apart
    <2>3. QED
      BY <2>1, <2>2
  <1>11. Held(tx[s])'
    BY <1>7, NoTxHeld DEF Held
  <1>12. QED
    BY <1>6, <1>9, <1>10, <1>11 DEF LockInv, Others

LEMMA NextLockInv == IInv /\ LockInv /\ [DagNext]_dagVars => LockInv'
  <1> SUFFICES ASSUME IInv, LockInv, [DagNext]_dagVars PROVE LockInv'
    OBVIOUS
  <1>1. ASSUME NEW s \in Sessions, NEW r \in Requests,
               CreateGroup(s, r) \/ EditGroup(s, r) \/ DeleteGroup(s, r)
        PROVE  LockInv'
    BY <1>1, ReceiveLockInv
  <1>2. ASSUME NEW s \in Sessions,
               \/ ReadMeters(s) \/ DisownChildren(s) \/ Unlink(s)
               \/ \E c \in Children : NextChild(s, c)
               \/ InsertChild(s)
        PROVE  LockInv'
    BY <1>2, StatementLockInv
  <1>3. ASSUME NEW s \in Sessions, UpdateGroup(s) PROVE LockInv'
    BY <1>3, UpdateLockInv
  <1>4. ASSUME NEW s \in Sessions, CheckKeys(s) PROVE LockInv'
    BY <1>4, KeysLockInv
  <1>5. ASSUME NEW s \in Sessions, RemoveRow(s) PROVE LockInv'
    BY <1>5, RemoveLockInv
  <1>6. ASSUME NEW s \in Sessions, Commit(s) PROVE LockInv'
    BY <1>6, CommitLockInv
  <1>7. ASSUME NEW s \in Sessions, BreakDeadlock(s) \/ Fail(s) PROVE LockInv'
    BY <1>7, AbortLockInv DEF BreakDeadlock, Fail
  <1>8. CASE UNCHANGED dagVars
    BY <1>8 DEF dagVars, LockInv, NoDanglingEdge, Held, Others
  <1>9. QED
    BY <1>1, <1>2, <1>3, <1>4, <1>5, <1>6, <1>7, <1>8 DEF DagNext, Proceed

LEMMA SpecLockInv == DagSpec => []LockInv
  BY InitIInv, NextIInv, InitLockInv, NextLockInv, PTL DEF DagSpec

(* For any groups, admins and requests, in any interleaving of their       *)
(* statements and aborts: the locks PostgreSQL takes for the foreign keys  *)
(* keep every edge's groups in the table (Group.delete, adoptGroup).       *)
THEOREM NothingDangles == DagSpec => []NoDanglingEdge
  <1>1. LockInv => NoDanglingEdge
    BY DEF LockInv
  <1>2. QED
    BY <1>1, SpecLockInv, PTL

-----------------------------------------------------------------------------
(* What an edit has still to insert, and what it has done so far: all it   *)
(* is to add but that, and deleted all there is that it is to delete.      *)
Pending(t) == t.todo \cup (IF t.pc = "insert" THEN {t.child} ELSE {})
Rows(g, C) == {<<g, c>> : c \in C}

Merges(t, E) ==
    (t.kind = "edit" /\ t.pc \in {"adopt", "insert", "keys"}) =>
        /\ Pending(t) \subseteq t.want \ t.seen
        /\ t.pc = "insert" => t.child \notin t.todo
        /\ t.add = Rows(t.group, (t.want \ t.seen) \ Pending(t))
        /\ t.del \subseteq Rows(t.group, t.seen \ t.want)
        /\ Rows(t.group, t.seen \ t.want) \cap E \subseteq t.del

MergeInv == \A s \in Sessions : Merges(tx[s], edges)

LEMMA MergeStep ==
    ASSUME IInv, MergeInv, NEW s \in Sessions, NEW next,
           tx' = [tx EXCEPT ![s] = next], edges' = edges, Merges(next, edges)
    PROVE  MergeInv'
  <1>1. tx \in [Sessions -> Tx]
    BY DEF IInv, TypeOK
  <1>2. ASSUME NEW u \in Sessions PROVE tx'[u] = IF u = s THEN next ELSE tx[u]
    BY <1>1
  <1>3. QED
    BY <1>2 DEF MergeInv

LEMMA AbortMergeInv ==
    ASSUME IInv, MergeInv, NEW s \in Sessions, Abort(s)
    PROVE  MergeInv'
  <1>1. Merges(NoTx, edges)
    BY DEF NoTx, Merges
  <1>2. QED
    BY <1>1, MergeStep DEF Abort

(* Outside the edit's inserts there is nothing to show.                    *)
LEMMA ElsewhereMergeInv ==
    ASSUME IInv, MergeInv, NEW s \in Sessions,
           \/ \E r \in Requests : CreateGroup(s, r) \/ EditGroup(s, r) \/ DeleteGroup(s, r)
           \/ ReadMeters(s) \/ UpdateGroup(s) \/ Unlink(s) \/ RemoveRow(s)
    PROVE  MergeInv'
  <1> DEFINE t == tx[s]
  <1>1. t \in Tx
    BY DEF IInv, TypeOK
  <1>2. CASE \E r \in Requests : CreateGroup(s, r)
    <2>1. PICK r \in Requests : CreateGroup(s, r)
      BY <1>2
    <2>2. PICK g \in Ids :
             tx' = [tx EXCEPT ![s] = IF r.want \cap Ids \subseteq groups
                                     THEN [NoTx EXCEPT !.pc = "adopt", !.kind = "create",
                                                       !.group = g, !.want = r.want,
                                                       !.todo = r.want]
                                     ELSE NoTx]
      BY <2>1 DEF CreateGroup
    <2> DEFINE next == IF r.want \cap Ids \subseteq groups
                       THEN [NoTx EXCEPT !.pc = "adopt", !.kind = "create", !.group = g,
                                         !.want = r.want, !.todo = r.want]
                       ELSE NoTx
    <2>3. next.kind # "edit"
      BY DEF NoTx
    <2>4. edges' = edges
      BY <2>1 DEF CreateGroup, Receives
    <2> HIDE DEF next
    <2>5. QED
      BY <2>2, <2>3, <2>4, MergeStep DEF Merges, next
  <1>3. CASE \E r \in Requests : EditGroup(s, r)
    <2>1. PICK r \in Requests : EditGroup(s, r)
      BY <1>3
    <2> DEFINE next == [NoTx EXCEPT !.pc = "read", !.kind = "edit", !.group = r.group,
                                    !.want = r.want, !.rename = r.rename,
                                    !.seen = Kids(edges, r.group) \cap Ids]
    <2>2. tx' = [tx EXCEPT ![s] = next] /\ edges' = edges
      BY <2>1 DEF EditGroup, Receives
    <2>3. next.pc = "read"
      BY DEF NoTx
    <2> HIDE DEF next
    <2>4. QED
      BY <2>2, <2>3, MergeStep DEF Merges
  <1>4. CASE \E r \in Requests : DeleteGroup(s, r)
    <2>1. PICK r \in Requests : DeleteGroup(s, r)
      BY <1>4
    <2> DEFINE next == [NoTx EXCEPT !.pc = "unlink", !.kind = "delete", !.group = r.group]
    <2>2. tx' = [tx EXCEPT ![s] = next] /\ edges' = edges
      BY <2>1 DEF DeleteGroup, Receives
    <2>3. next.pc = "unlink"
      BY DEF NoTx
    <2> HIDE DEF next
    <2>4. QED
      BY <2>2, <2>3, MergeStep DEF Merges
  <1>5. ASSUME NEW next, Continue(s, next), next.pc \notin {"adopt", "insert", "keys"}
        PROVE  MergeInv'
    BY <1>5, MergeStep DEF Merges, Continue
  <1>6. CASE ReadMeters(s)
    <2> DEFINE next == [t EXCEPT !.pc = "update",
                                 !.seen = @ \cup (Kids(edges, t.group) \cap Meters)]
    <2>1. Continue(s, next)
      BY <1>6 DEF ReadMeters
    <2>2. next.pc = "update"
      BY <1>1 DEF Tx
    <2> HIDE DEF next
    <2>3. QED
      BY <1>5, <2>1, <2>2
  <1>7. CASE UpdateGroup(s)
    <2> DEFINE next == [t EXCEPT !.pc = "disown",
                                 !.lock = IF t.group \notin groups THEN "none"
                                          ELSE IF t.rename THEN "exclusive" ELSE "update"]
    <2>1. Continue(s, next)
      BY <1>7 DEF UpdateGroup
    <2>2. next.pc = "disown"
      BY <1>1 DEF Tx
    <2> HIDE DEF next
    <2>3. QED
      BY <1>5, <2>1, <2>2
  <1>8. CASE Unlink(s)
    <2> DEFINE next == [t EXCEPT !.pc = "remove",
                                 !.del = {e \in edges : t.group \in {e[1], e[2]}}]
    <2>1. Continue(s, next)
      BY <1>8 DEF Unlink
    <2>2. next.pc = "remove"
      BY <1>1 DEF Tx
    <2> HIDE DEF next
    <2>3. QED
      BY <1>5, <2>1, <2>2
  <1>9. CASE RemoveRow(s)
    <2> DEFINE next == [t EXCEPT !.pc = "removed",
                                 !.lock = IF t.group \in groups THEN "exclusive" ELSE "none"]
    <2>1. Continue(s, next) \/ Abort(s)
      BY <1>9 DEF RemoveRow
    <2>2. next.pc = "removed"
      BY <1>1 DEF Tx
    <2> HIDE DEF next
    <2>3. QED
      BY <1>5, <2>1, <2>2, AbortMergeInv
  <1>10. QED
    BY <1>2, <1>3, <1>4, <1>6, <1>7, <1>8, <1>9

(* The steps of an edit's inserts.                                         *)
LEMMA AdoptMergeInv ==
    ASSUME IInv, LockInv, MergeInv, NEW s \in Sessions,
           \/ DisownChildren(s) \/ (\E c \in Children : NextChild(s, c))
           \/ InsertChild(s) \/ CheckKeys(s)
    PROVE  MergeInv'
  <1> DEFINE t == tx[s]
  <1>1. t \in Tx /\ Clean(t) /\ Merges(t, edges)
    BY DEF IInv, TypeOK, MergeInv
  <1>2. CASE DisownChildren(s)
    <2> DEFINE del == Rows(t.group, t.seen \ t.want) \cap edges
               next == [t EXCEPT !.pc = "adopt", !.todo = t.want \ t.seen, !.del = del]
    <2>1. (Continue(s, next) \/ Abort(s)) /\ t.add = {}
      BY <1>1, <1>2 DEF DisownChildren, Runs, Clean, Rows
    <2>2. /\ next.pc = "adopt" /\ next.todo = t.want \ t.seen /\ next.del = del
          /\ next.add = {} /\ next.want = t.want /\ next.seen = t.seen /\ next.group = t.group
      BY <1>1, <2>1 DEF Tx
    <2> HIDE DEF next
    <2>3. Merges(next, edges)
      BY <2>2 DEF Merges, Pending, Rows
    <2>4. QED
      BY <2>1, <2>3, MergeStep, AbortMergeInv DEF Continue
  <1>3. CASE \E c \in Children : NextChild(s, c)
    <2>1. PICK c \in Children : NextChild(s, c)
      BY <1>3
    <2> DEFINE next == [t EXCEPT !.pc = "insert", !.child = c, !.todo = @ \ {c}]
    <2>2. Continue(s, next) /\ t.pc = "adopt" /\ c \in t.todo
      BY <2>1 DEF NextChild, Runs
    <2>3. /\ next.pc = "insert" /\ next.child = c /\ next.todo = t.todo \ {c}
          /\ next.del = t.del /\ next.add = t.add /\ next.kind = t.kind
          /\ next.want = t.want /\ next.seen = t.seen /\ next.group = t.group
      BY <1>1 DEF Tx
    <2> HIDE DEF next
    <2>4. Pending(next) = Pending(t)
      BY <2>2, <2>3 DEF Pending
    <2>5. Merges(next, edges)
      BY <1>1, <2>2, <2>3, <2>4 DEF Merges
    <2>6. QED
      BY <2>2, <2>5, MergeStep DEF Continue
  <1>4. CASE InsertChild(s)
    <2> DEFINE next == [t EXCEPT !.pc = "keys", !.add = @ \cup {<<t.group, t.child>>}]
    <2>1. (Abort(s) \/ (Continue(s, next) /\ MayInsert(s, t.group, t.child))) /\ t.pc = "insert"
      BY <1>4 DEF InsertChild, Runs
    <2>2. /\ next.pc = "keys" /\ next.todo = t.todo
          /\ next.del = t.del /\ next.add = t.add \cup {<<t.group, t.child>>}
          /\ next.want = t.want /\ next.seen = t.seen /\ next.group = t.group
          /\ next.kind = t.kind
      BY <1>1 DEF Tx
    <2> HIDE DEF next
    <2>3. t.pc = "insert" /\ next.kind = "edit" =>
             Pending(next) = Pending(t) \ {t.child} /\ t.child \in Pending(t)
      BY <1>1, <2>1, <2>2 DEF Pending, Merges
    <2>4. Merges(next, edges)
      BY <1>1, <2>1, <2>2, <2>3 DEF Merges, Rows
    <2>5. QED
      BY <2>1, <2>4, MergeStep, AbortMergeInv DEF Continue
  <1>5. CASE CheckKeys(s)
    <2> DEFINE next == [t EXCEPT !.pc = "adopt", !.child = None,
                                 !.keys = @ \cup (({t.group, t.child} \cap Ids) \cap groups)]
    <2>1. (Continue(s, next) \/ Abort(s)) /\ t.pc = "keys"
      BY <1>5 DEF CheckKeys, Runs
    <2>2. /\ next.pc = "adopt" /\ next.todo = t.todo /\ next.del = t.del /\ next.add = t.add
          /\ next.want = t.want /\ next.seen = t.seen /\ next.group = t.group
          /\ next.kind = t.kind
      BY <1>1 DEF Tx
    <2> HIDE DEF next
    <2>3. Merges(next, edges)
      BY <1>1, <2>1, <2>2 DEF Merges, Pending
    <2>4. QED
      BY <2>1, <2>3, MergeStep, AbortMergeInv DEF Continue
  <1>6. QED
    BY <1>2, <1>3, <1>4, <1>5

(* Another transaction commits no child of a group that is being edited:   *)
(* it would have to hold the group's row, or the group would be its own.   *)
LEMMA CommitMergeInv ==
    ASSUME IInv, LockInv, MergeInv, NEW s \in Sessions, Commit(s)
    PROVE  MergeInv'
  <1> DEFINE t == tx[s]
  <1>1. /\ tx \in [Sessions -> Tx] /\ t \in Tx /\ Clean(t) /\ Held(t)
        /\ edges' = (edges \ t.del) \cup t.add
    BY DEF IInv, TypeOK, LockInv, Commit, Visible
  <1>2. t.pc = "removed" \/ t.pc = "adopt"
    BY DEF Commit, CanCommit
  <1>3. ASSUME NEW e \in t.add
        PROVE  /\ t.pc = "adopt" /\ t.kind \in {"create", "edit"}
               /\ e[1] = t.group /\ e[1] \in t.keys \cup Own(t)
    <2>1. t.pc = "adopt" /\ e \in Ids \X Children
      BY <1>1, <1>2 DEF Clean, Tx
    <2>2. e[1] = t.group /\ Ends(e) \subseteq t.keys \cup Own(t) \cup Meters
      BY <1>1, <2>1 DEF Held, Keyed
    <2>3. QED
      BY <1>1, <2>1, <2>2, NamesAssumption DEF Held, Phase, Ends
  <1>4. tx'[s] = NoTx
    BY <1>1 DEF Commit
  <1>5. ASSUME NEW u \in Others(s) PROVE Merges(tx[u], edges)'
    <2>1. tx'[u] = [tx[u] EXCEPT !.missed = @ \/ (t.add # {} /\ tx[u].add # {})]
      BY DEF Commit, Others
    <2>2. tx[u] \in Tx /\ Held(tx[u]) /\ Merges(tx[u], edges) /\ Apart(t, tx[u])
      BY <1>1 DEF Others, LockInv, MergeInv
    <2>3. /\ tx'[u].pc = tx[u].pc /\ tx'[u].kind = tx[u].kind
          /\ tx'[u].group = tx[u].group /\ tx'[u].child = tx[u].child
          /\ tx'[u].add = tx[u].add /\ tx'[u].del = tx[u].del
          /\ tx'[u].want = tx[u].want /\ tx'[u].seen = tx[u].seen /\ tx'[u].todo = tx[u].todo
      BY <2>1, <2>2 DEF Tx
    <2>4. ASSUME tx[u].kind = "edit", tx[u].pc \in {"adopt", "insert", "keys"}, NEW e \in t.add
          PROVE  e[1] # tx[u].group
      <3>1. CASE t.kind = "create"
        BY <1>3, <2>2, <2>4, <3>1 DEF Apart
      <3>2. CASE t.kind = "edit"
        <4>1. t.group \in groups /\ e[1] = t.group
          BY <1>1, <1>3, <3>2 DEF Held, Holds, Own
        <4>2. t.lock # "none"
          BY <1>1, <1>3, <3>2, <4>1 DEF Held, Holds, Writing
        <4>3. tx[u].group \in groups => tx[u].lock # "none"
          BY <2>2, <2>4 DEF Held, Holds, Writing
        <4>4. QED
          BY <2>2, <4>1, <4>2, <4>3 DEF Apart
      <3>3. QED
        BY <1>3, <3>1, <3>2
    <2>5. Merges(tx[u], edges')
      BY <1>1, <2>2, <2>4 DEF Merges, Rows
    <2>6. QED
      BY <2>3, <2>5 DEF Merges, Pending
  <1>6. Merges(NoTx, edges')
    BY DEF Merges, NoTx
  <1>7. QED
    BY <1>4, <1>5, <1>6 DEF MergeInv, Others

LEMMA NextMergeInv == IInv /\ LockInv /\ MergeInv /\ [DagNext]_dagVars => MergeInv'
  <1> SUFFICES ASSUME IInv, LockInv, MergeInv, [DagNext]_dagVars PROVE MergeInv'
    OBVIOUS
  <1>1. ASSUME NEW s \in Sessions,
               \/ \E r \in Requests : CreateGroup(s, r) \/ EditGroup(s, r) \/ DeleteGroup(s, r)
               \/ ReadMeters(s) \/ UpdateGroup(s) \/ Unlink(s) \/ RemoveRow(s)
        PROVE  MergeInv'
    BY <1>1, ElsewhereMergeInv
  <1>2. ASSUME NEW s \in Sessions,
               \/ DisownChildren(s) \/ (\E c \in Children : NextChild(s, c))
               \/ InsertChild(s) \/ CheckKeys(s)
        PROVE  MergeInv'
    BY <1>2, AdoptMergeInv
  <1>3. ASSUME NEW s \in Sessions, Commit(s) PROVE MergeInv'
    BY <1>3, CommitMergeInv
  <1>4. ASSUME NEW s \in Sessions, BreakDeadlock(s) \/ Fail(s) PROVE MergeInv'
    BY <1>4, AbortMergeInv DEF BreakDeadlock, Fail
  <1>5. CASE UNCHANGED dagVars
    BY <1>5 DEF dagVars, MergeInv
  <1>6. QED
    BY <1>1, <1>2, <1>3, <1>4, <1>5 DEF DagNext, Proceed

LEMMA InitMergeInv == DagInit => MergeInv
  BY DEF DagInit, MergeInv, Merges, NoTx

LEMMA EditCommit ==
    ASSUME IInv, LockInv, MergeInv, NEW s \in Sessions, tx[s].kind = "edit", Commit(s)
    PROVE  Kids(edges', tx[s].group)
              = (Kids(edges, tx[s].group) \ (tx[s].seen \ tx[s].want))
                    \cup (tx[s].want \ tx[s].seen)
  <1> DEFINE t == tx[s]
             g == t.group
  <1>1. t \in Tx /\ Held(t) /\ Merges(t, edges) /\ edges' = (edges \ t.del) \cup t.add
    BY DEF IInv, TypeOK, LockInv, MergeInv, Commit, Visible
  <1>2. t.pc = "adopt" /\ t.todo = {}
    BY <1>1 DEF Commit, CanCommit, Held, Phase
  <1>3. /\ t.add = Rows(g, t.want \ t.seen)
        /\ t.del \subseteq Rows(g, t.seen \ t.want)
        /\ Rows(g, t.seen \ t.want) \cap edges \subseteq t.del
    BY <1>1, <1>2 DEF Merges, Pending
  <1>4. t.want \subseteq Children
    BY <1>1 DEF Tx
  <1>5. ASSUME NEW c \in Children
        PROVE  /\ <<g, c>> \in t.add <=> c \in t.want \ t.seen
               /\ <<g, c>> \in edges \ t.del <=> <<g, c>> \in edges /\ c \notin t.seen \ t.want
    BY <1>3 DEF Rows
  <1> HIDE DEF g
  <1>6. QED
    BY <1>1, <1>4, <1>5 DEF Kids, g

(* For any groups, admins and requests: an edit changes the children by    *)
(* exactly the difference between what the admin saw and wants, whatever   *)
(* other requests do at the same time (routes/groups.js, the edit).        *)
THEOREM EditsDoMerge == DagSpec => EditsMerge
  <1>1. IInv /\ LockInv /\ MergeInv /\ [DagNext]_dagVars =>
          [\A s \in Sessions :
              (tx[s].kind = "edit" /\ Commit(s)) =>
                  LET t == tx[s] IN
                  Kids(edges', t.group)
                      = (Kids(edges, t.group) \ (t.seen \ t.want)) \cup (t.want \ t.seen)]_dagVars
    BY EditCommit
  <1>2. DagSpec => []MergeInv
    BY InitIInv, NextIInv, InitLockInv, NextLockInv, InitMergeInv, NextMergeInv, PTL DEF DagSpec
  <1>3. QED
    BY <1>1, <1>2, SpecIInv, SpecLockInv, PTL DEF DagSpec, EditsMerge

-----------------------------------------------------------------------------
(* Acquisition and LogMail                                                 *)

MailType ==
    /\ said \subseteq Messages /\ logemail \subseteq Messages
    /\ writes \subseteq [msg : Messages, by : {Web}]
    /\ mailer \in [Mailers -> [pc : {"asleep", "sending", "sent"}, batch : SUBSET Messages]]

(* A run at work has in its batch all the table holds, but for what came   *)
(* since; once the batch is sent, the administrators have it.              *)
Covers(j) ==
    /\ mailer[j].pc \in {"sending", "sent"} => logemail \subseteq mailer[j].batch \cup excused
    /\ mailer[j].pc = "sent" => mailer[j].batch \subseteq mailbox

LogInv ==
    /\ MailType
    /\ \A j \in Mailers : Covers(j)
    /\ ErrorsKept

LEMMA AsleepType == Asleep \in [pc : {"asleep", "sending", "sent"}, batch : SUBSET Messages]
  BY DEF Asleep

LEMMA InitLogInv == Init => LogInv
  <1> SUFFICES ASSUME Init PROVE LogInv
    OBVIOUS
  <1>1. MailType
    BY AsleepType DEF Init, LogInit, MailType
  <1>2. \A j \in Mailers : Covers(j)
    BY DEF Init, LogInit, Covers, Asleep
  <1>3. ErrorsKept
    BY DEF Init, LogInit, ErrorsKept
  <1>4. QED
    BY <1>1, <1>2, <1>3 DEF LogInv

(* What is announced stays so while nothing but the table is emptied.      *)
LEMMA QuietLog ==
    ASSUME LogInv, UNCHANGED <<said, writes, logemail, mailer, mailbox, excused>>
    PROVE  LogInv'
  BY DEF LogInv, MailType, Covers, ErrorsKept, Announced

LEMMA SayLog ==
    ASSUME LogInv, NEW ms \in SUBSET Messages, Say(ms, Web),
           UNCHANGED <<logemail, mailer, mailbox, excused>>
    PROVE  LogInv'
  <1>1. /\ said' = said \cup ms
        /\ writes' = writes \cup [msg : ms, by : {Web}]
    BY DEF Say
  <1>2. MailType'
    BY <1>1 DEF LogInv, MailType
  <1>3. \A j \in Mailers : Covers(j)'
    BY DEF LogInv, Covers
  <1>4. ASSUME NEW m \in said' PROVE Announced(m)'
    <2>1. CASE m \in said
      <3>1. Announced(m)
        BY <2>1 DEF LogInv, ErrorsKept
      <3>2. QED
        BY <1>1, <3>1 DEF Announced
    <2>2. CASE m \in ms
      <3>1. [msg |-> m, by |-> Web] \in writes'
        BY <1>1, <2>2
      <3>2. QED
        BY <3>1 DEF Announced
    <2>3. QED
      BY <1>1, <2>1, <2>2
  <1>5. QED
    BY <1>2, <1>3, <1>4 DEF LogInv, ErrorsKept, MailType

LEMMA ForgetLog ==
    ASSUME LogInv, Forget(Web), mailer' = mailer
    PROVE  LogInv'
  <1>1. /\ writes' = writes \ {w \in writes : w.by = Web}
        /\ excused' = excused \cup {w.msg : w \in {w \in writes : w.by = Web}}
        /\ UNCHANGED <<said, logemail, mailbox>>
    BY DEF Forget
  <1>2. \A j \in Mailers : Covers(j)'
    BY <1>1 DEF LogInv, Covers
  <1>3. ASSUME NEW m \in said' PROVE Announced(m)'
    <2>1. Announced(m)
      BY <1>1 DEF LogInv, ErrorsKept
    <2>2. QED
      BY <1>1, <2>1 DEF Announced
  <1>4. MailType'
    BY <1>1 DEF LogInv, MailType
  <1>5. QED
    BY <1>1, <1>2, <1>3, <1>4 DEF LogInv, ErrorsKept, MailType

(* An insert that is done, or fails.                                       *)
LEMMA StoreLog ==
    ASSUME LogInv, NEW w, Store(w) \/ StoreFails(w)
    PROVE  LogInv'
  <1>1. /\ w \in writes /\ writes' = writes \ {w}
        /\ UNCHANGED <<said, mailer, mailbox>>
        /\ \/ /\ logemail' = logemail \cup {w.msg}
              /\ excused' = IF Busy THEN excused \cup {w.msg} ELSE excused
           \/ logemail' = logemail /\ excused' = excused \cup {w.msg}
    BY DEF Store, StoreFails
  <1>2. w.msg \in Messages
    BY <1>1 DEF LogInv, MailType
  <1>3. MailType'
    BY <1>1, <1>2 DEF LogInv, MailType
  <1>4. ASSUME NEW j \in Mailers PROVE Covers(j)'
    <2>1. Covers(j)
      BY DEF LogInv
    <2>2. mailer[j].pc \in {"sending", "sent"} => Busy
      BY DEF Busy
    <2>3. QED
      BY <1>1, <2>1, <2>2 DEF Covers
  <1>5. ASSUME NEW m \in said' PROVE Announced(m)'
    <2>1. Announced(m)
      BY <1>1 DEF LogInv, ErrorsKept
    <2>2. w.msg \in logemail' \cup excused'
      BY <1>1
    <2>3. logemail \subseteq logemail' /\ excused \subseteq excused'
      BY <1>1
    <2>4. QED
      BY <1>1, <2>1, <2>2, <2>3 DEF Announced
  <1>6. QED
    BY <1>1, <1>3, <1>4, <1>5 DEF LogInv, ErrorsKept, MailType

(* A step of one run of the job that leaves the table alone.               *)
LEMMA RunLog ==
    ASSUME LogInv, NEW j \in Mailers,
           NEW next \in [pc : {"asleep", "sending", "sent"}, batch : SUBSET Messages],
           mailer' = [mailer EXCEPT ![j] = next],
           UNCHANGED <<said, writes, logemail, excused>>, mailbox \subseteq mailbox',
           next.pc \in {"sending", "sent"} => logemail \subseteq next.batch \cup excused,
           next.pc = "sent" => next.batch \subseteq mailbox'
    PROVE  LogInv'
  <1>1. MailType'
    BY DEF LogInv, MailType
  <1>2. ASSUME NEW i \in Mailers PROVE Covers(i)'
    <2>1. mailer'[i] = IF i = j THEN next ELSE mailer[i]
      BY DEF LogInv, MailType
    <2>2. Covers(i)
      BY DEF LogInv
    <2>3. QED
      BY <2>1, <2>2 DEF Covers
  <1>3. ASSUME NEW m \in said' PROVE Announced(m)'
    <2>1. Announced(m)
      BY DEF LogInv, ErrorsKept
    <2>2. QED
      BY <2>1 DEF Announced
  <1>4. QED
    BY <1>1, <1>2, <1>3 DEF LogInv, ErrorsKept, MailType

(* A run empties the table when its batch is sent, and the rest of the     *)
(* table is excused.                                                       *)
LEMMA ClearLog ==
    ASSUME LogInv, NEW j \in Mailers, Clear(j)
    PROVE  LogInv'
  <1>1. /\ mailer[j].pc = "sent" /\ logemail' = {}
        /\ mailer' = [mailer EXCEPT ![j] = Asleep]
        /\ UNCHANGED <<said, writes, mailbox, excused>>
    BY DEF Clear, MayClear, Left
  <1>2. MailType'
    BY <1>1, AsleepType DEF LogInv, MailType
  <1>3. ASSUME NEW i \in Mailers PROVE Covers(i)'
    <2>1. mailer'[i] = IF i = j THEN Asleep ELSE mailer[i]
      BY <1>1 DEF LogInv, MailType
    <2>2. Covers(i)
      BY DEF LogInv
    <2>3. QED
      BY <1>1, <2>1, <2>2 DEF Covers, Asleep
  <1>4. ASSUME NEW m \in said' PROVE Announced(m)'
    <2>1. Announced(m)
      BY <1>1 DEF LogInv, ErrorsKept
    <2>2. logemail \subseteq mailbox \cup excused
      BY <1>1 DEF LogInv, Covers
    <2>3. QED
      BY <1>1, <2>1, <2>2 DEF Announced
  <1>5. QED
    BY <1>1, <1>2, <1>3, <1>4 DEF LogInv, ErrorsKept, MailType

LEMMA NextLog == LogInv /\ LogNext => LogInv'
  <1> SUFFICES ASSUME LogInv, LogNext PROVE LogInv'
    OBVIOUS
  <1>1. CASE \E w \in writes : Store(w) \/ StoreFails(w)
    BY <1>1, StoreLog
  <1>2. ASSUME NEW j \in Mailers, Read(j) \/ Send(j) \/ SendFails(j) \/ Clear(j) \/ MailerEnds(j)
        PROVE  LogInv'
    <2>1. /\ mailer[j] \in [pc : {"asleep", "sending", "sent"}, batch : SUBSET Messages]
          /\ logemail \subseteq Messages /\ Covers(j)
      BY DEF LogInv, MailType
    <2>2. CASE Read(j)
      <3>1. [pc |-> "sending", batch |-> logemail]
               \in [pc : {"asleep", "sending", "sent"}, batch : SUBSET Messages]
        BY <2>1
      <3>2. QED
        BY <2>2, <3>1, RunLog DEF Read
    <2>3. CASE Send(j)
      <3> DEFINE next == [mailer[j] EXCEPT !.pc = "sent"]
      <3>1. /\ next \in [pc : {"asleep", "sending", "sent"}, batch : SUBSET Messages]
            /\ next.batch = mailer[j].batch
        BY <2>1
      <3>2. mailer' = [mailer EXCEPT ![j] = next]
        BY <2>3 DEF Send
      <3> HIDE DEF next
      <3>3. QED
        BY <2>1, <2>3, <3>1, <3>2, RunLog DEF Send, Covers
    <2>4. CASE SendFails(j) \/ MailerEnds(j)
      <3>1. /\ mailer' = [mailer EXCEPT ![j] = Asleep] /\ mailbox \subseteq mailbox'
            /\ UNCHANGED <<said, writes, logemail, excused>>
        BY <2>4 DEF SendFails, MailerEnds
      <3>2. Asleep.pc = "asleep"
        BY DEF Asleep
      <3>3. QED
        BY <3>1, <3>2, AsleepType, RunLog
    <2>5. CASE Clear(j)
      BY <2>5, ClearLog
    <2>6. QED
      BY <1>2, <2>2, <2>3, <2>4, <2>5
  <1>3. QED
    BY <1>1, <1>2 DEF LogNext

-----------------------------------------------------------------------------
(* The requests at work.                                                   *)

Step == [pc : {"find", "create", "load", "done", "failed"}, col : Nat]

SlotType(x) ==
    /\ x = [config |-> x.config, loads |-> x.loads, answered |-> x.answered]
    /\ x.loads \in [DOMAIN x.loads -> Step]
    /\ \/ x.config = NoConfig /\ DOMAIN x.loads \subseteq Files
       \/ x.config \in Configs /\ (x.loads = <<>> \/ DOMAIN x.loads = Described(x.config))

SettledOnes == {p \in Blames : Settled(p[1], p[2])}

(* What a log file at work has behind it, and what is known of a meter of  *)
(* a configuration file that is done, when the pairs in D are settled.     *)
Behind(f, l, D) ==
    /\ l.col < Width(f)
    /\ \A i \in 0..(Width(f) - 1) : (i < l.col \/ l.pc = "done") => <<Name(f, i), f>> \in D

Progress(x, D) ==
    \A f \in DOMAIN x.loads :
        /\ f \in Files => Behind(f, x.loads[f], D)
        /\ (f \notin Files /\ x.loads[f].pc = "done") => <<f, x.config>> \in D

SlotsInv ==
    /\ slots = [s \in Slots |-> slots[s]]
    /\ \A s \in Slots : SlotType(slots[s]) /\ Progress(slots[s], SettledOnes)

AcqInv == LogInv /\ SlotsInv /\ told \subseteq Files \cup Configs /\ SuccessMeant

LEMMA BlamesType ==
    /\ \A f \in Files : \A i \in 0..(Width(f) - 1) : <<Name(f, i), f>> \in Blames /\ Name(f, i) \in Names(f)
    /\ \A c \in Configs : \A n \in Described(c) : <<n, c>> \in Blames /\ n \in Names(c)
    /\ \A f \in Files \cup Configs : \A n \in Names(f) : <<n, f>> \in Blames
  BY ObviusAssumption DEF Blames, Names, Columns

(* Nothing that is settled comes undone.                                   *)
LEMMA SettledStays ==
    ASSUME LogInv', said \subseteq said', stored \subseteq stored', meters \subseteq meters'
    PROVE  /\ SettledOnes \subseteq SettledOnes'
           /\ \A n, f : Settled(n, f) => Settled(n, f)'
  <1>1. \A m \in said' : Announced(m)'
    BY DEF LogInv, ErrorsKept
  <1>2. ASSUME NEW n, NEW f, Settled(n, f) PROVE Settled(n, f)'
    <2>1. CASE <<n, f>> \in said /\ Announced(<<n, f>>)
      BY <1>1, <2>1 DEF Settled
    <2>2. CASE (f \in Files /\ <<n, f>> \in stored) \/ (f \in Configs /\ n \in meters)
      BY <2>2 DEF Settled
    <2>3. QED
      BY <1>2, <2>1, <2>2 DEF Settled
  <1>3. QED
    BY <1>2 DEF SettledOnes

(* Log and slots changed, and no file was answered SUCCESS.                *)
LEMMA UntoldStep ==
    ASSUME AcqInv, LogInv', SlotsInv', told' = told,
           said \subseteq said', stored \subseteq stored', meters \subseteq meters'
    PROVE  AcqInv'
  BY SettledStays DEF AcqInv, SuccessMeant

LEMMA SlotStep ==
    ASSUME SlotsInv, NEW s \in Slots, NEW next, slots' = [slots EXCEPT ![s] = next],
           SettledOnes \subseteq SettledOnes', SlotType(next), Progress(next, SettledOnes')
    PROVE  SlotsInv'
  <1>1. slots' = [u \in Slots |-> slots'[u]]
    BY DEF SlotsInv
  <1>2. ASSUME NEW u \in Slots
        PROVE  SlotType(slots'[u]) /\ Progress(slots'[u], SettledOnes')
    <2>1. slots'[u] = IF u = s THEN next ELSE slots[u]
      BY DEF SlotsInv
    <2>2. SlotType(slots[u]) /\ Progress(slots[u], SettledOnes)
      BY DEF SlotsInv
    <2>3. Progress(slots[u], SettledOnes')
      BY <2>2 DEF Progress, Behind
    <2>4. QED
      BY <2>1, <2>2, <2>3
  <1>3. QED
    BY <1>1, <1>2 DEF SlotsInv

LEMMA SameSlots ==
    ASSUME SlotsInv, slots' = slots, SettledOnes \subseteq SettledOnes'
    PROVE  SlotsInv'
  BY DEF SlotsInv, Progress, Behind

LEMMA FreeSlot == SlotType(Free) /\ \A D : Progress(Free, D)
  BY DEF Free, SlotType, Progress

(* One load of a request gets ahead.                                       *)
LEMMA LoadStep ==
    ASSUME SlotsInv, NEW s \in Slots, NEW x \in DOMAIN slots[s].loads, NEW l \in Step,
           slots' = [slots EXCEPT ![s].loads[x] = l],
           SettledOnes \subseteq SettledOnes',
           x \in Files => Behind(x, l, SettledOnes'),
           (x \notin Files /\ l.pc = "done") => <<x, slots[s].config>> \in SettledOnes'
    PROVE  SlotsInv'
  <1> DEFINE c == slots[s].config
             ls == slots[s].loads
             next == [config |-> c, loads |-> [ls EXCEPT ![x] = l], answered |-> slots[s].answered]
  <1>1. SlotType(slots[s]) /\ Progress(slots[s], SettledOnes)
    BY DEF SlotsInv
  <1>2. slots' = [slots EXCEPT ![s] = next]
    <2>1. slots' = [slots EXCEPT ![s] = [slots[s] EXCEPT !.loads = [ls EXCEPT ![x] = l]]]
      OBVIOUS
    <2>2. [slots[s] EXCEPT !.loads = [ls EXCEPT ![x] = l]] = next
      BY <1>1 DEF SlotType
    <2>3. QED
      BY <2>1, <2>2
  <1>3. /\ [ls EXCEPT ![x] = l] \in [DOMAIN ls -> Step]
        /\ ls # <<>>
        /\ \A f \in DOMAIN ls : [ls EXCEPT ![x] = l][f] = IF f = x THEN l ELSE ls[f]
    BY <1>1 DEF SlotType
  <1>4. SlotType(next)
    BY <1>1, <1>3 DEF SlotType
  <1>5. Progress(next, SettledOnes')
    BY <1>1, <1>3 DEF Progress, Behind
  <1> HIDE DEF next
  <1>6. QED
    BY <1>2, <1>4, <1>5, SlotStep

LEMMA GotoStep ==
    ASSUME SlotsInv, NEW s \in Slots, NEW x \in DOMAIN slots[s].loads,
           NEW pc \in {"find", "create", "load", "done", "failed"}, Goto(s, x, pc),
           SettledOnes \subseteq SettledOnes', x \in Files => pc # "done",
           (x \notin Files /\ pc = "done") => <<x, slots[s].config>> \in SettledOnes'
    PROVE  SlotsInv'
  <1> DEFINE l == [pc |-> pc, col |-> slots[s].loads[x].col]
  <1>1. SlotType(slots[s]) /\ Progress(slots[s], SettledOnes)
    BY DEF SlotsInv
  <1>2. slots[s].loads[x] \in Step
    BY <1>1 DEF SlotType
  <1>3. l \in Step /\ [slots[s].loads[x] EXCEPT !.pc = pc] = l
    BY <1>2 DEF Step
  <1>4. slots' = [slots EXCEPT ![s].loads[x] = l]
    BY <1>3 DEF Goto
  <1>5. x \in Files => Behind(x, l, SettledOnes')
    BY <1>1 DEF Progress, Behind
  <1> HIDE DEF l
  <1>6. l.pc = pc
    BY DEF l
  <1>7. QED
    BY <1>3, <1>4, <1>5, <1>6, LoadStep

LEMMA SlotFields ==
    ASSUME NEW x, x = [config |-> x.config, loads |-> x.loads, answered |-> x.answered], NEW v
    PROVE  /\ [x EXCEPT !.loads = v] = [config |-> x.config, loads |-> v, answered |-> x.answered]
           /\ [x EXCEPT !.answered = v] = [config |-> x.config, loads |-> x.loads, answered |-> v]
  OBVIOUS

(* An answer is ready, or a request is done with.                          *)
LEMMA AnsweredSlot ==
    ASSUME SlotsInv, NEW s \in Slots, slots' = [slots EXCEPT ![s].answered = TRUE],
           SettledOnes \subseteq SettledOnes'
    PROVE  SlotsInv'
  <1> DEFINE next == [config |-> slots[s].config, loads |-> slots[s].loads, answered |-> TRUE]
  <1>1. SlotType(slots[s]) /\ Progress(slots[s], SettledOnes)
    BY DEF SlotsInv
  <1>2. slots' = [slots EXCEPT ![s] = next]
    <2>1. slots' = [slots EXCEPT ![s] = [slots[s] EXCEPT !.answered = TRUE]]
      OBVIOUS
    <2>2. [slots[s] EXCEPT !.answered = TRUE] = next
      <3>1. slots[s] = [config |-> slots[s].config, loads |-> slots[s].loads,
                        answered |-> slots[s].answered]
        BY <1>1 DEF SlotType
      <3>2. QED
        BY <3>1, SlotFields, Zenon
    <2>3. QED
      BY <2>1, <2>2
  <1>3. /\ next.config = slots[s].config /\ next.loads = slots[s].loads
        /\ next = [config |-> next.config, loads |-> next.loads, answered |-> next.answered]
    OBVIOUS
  <1> HIDE DEF next
  <1>4. SlotType(next)
    BY <1>1, <1>3 DEF SlotType
  <1>5. Progress(next, SettledOnes')
    BY <1>1, <1>3 DEF Progress, Behind
  <1>6. QED
    BY <1>2, <1>4, <1>5, SlotStep

LEMMA SendLogsInv ==
    ASSUME AcqInv, NEW s \in Slots, NEW b \in Bundles(s), SendLogs(s, b)
    PROVE  AcqInv'
  <1>1. LogInv' /\ UNCHANGED <<said, meters, stored, told>>
    BY QuietLog DEF SendLogs, LogOtherwiseUnchanged, AcqInv
  <1>2. SettledOnes \subseteq SettledOnes'
    BY <1>1, SettledStays
  <1>3. b \in Seq(Files)
    BY ObviusAssumption
  <1>4. ASSUME NEW B \in SUBSET Files, NEW a
        PROVE  LET next == [config |-> NoConfig, loads |-> [f \in B |-> Find], answered |-> a]
               IN  SlotType(next) /\ Progress(next, SettledOnes')
    <2>1. Find \in Step /\ Find.col = 0 /\ Find.pc = "find"
      BY DEF Find, Step
    <2>2. \A f \in Files : Behind(f, Find, SettledOnes')
      BY <2>1, ObviusAssumption DEF Behind
    <2>3. QED
      BY <2>1, <2>2 DEF SlotType, Progress
  <1>5. CASE slots' = [slots EXCEPT ![s].loads = [f \in ToSet(b) |-> Find]]
    <2> DEFINE loads == [f \in ToSet(b) |-> Find]
               next == [config |-> NoConfig, loads |-> loads, answered |-> slots[s].answered]
    <2>1. slots' = [slots EXCEPT ![s] = [slots[s] EXCEPT !.loads = loads]]
      BY <1>5
    <2>2. [slots[s] EXCEPT !.loads = loads] = next
      <3> HIDE DEF loads
      <3>1. slots[s] = [config |-> NoConfig, loads |-> <<>>, answered |-> FALSE]
        BY DEF SendLogs, Free
      <3>2. slots[s].config = NoConfig
        BY <3>1
      <3>3. slots[s] = [config |-> slots[s].config, loads |-> slots[s].loads,
                        answered |-> slots[s].answered]
        BY DEF AcqInv, SlotsInv, SlotType
      <3>4. QED
        BY <3>2, <3>3, SlotFields, Zenon
    <2>3. ToSet(b) \subseteq Files
      BY <1>3 DEF ToSet
    <2>4. SlotType(next) /\ Progress(next, SettledOnes')
      BY <1>4, <2>3
    <2> HIDE DEF next
    <2>5. SlotsInv'
      BY <1>2, <2>1, <2>2, <2>4, SlotStep DEF AcqInv
    <2>6. QED
      BY <1>1, <2>5, UntoldStep
  <1>6. CASE \E k \in 1..Len(b) :
               slots' = [slots EXCEPT ![s] =
                     [config |-> NoConfig, loads |-> [f \in ToSet(SubSeq(b, 1, k - 1)) |-> Find],
                      answered |-> TRUE]]
    <2>1. PICK k \in 1..Len(b) :
               slots' = [slots EXCEPT ![s] =
                     [config |-> NoConfig, loads |-> [f \in ToSet(SubSeq(b, 1, k - 1)) |-> Find],
                      answered |-> TRUE]]
      BY <1>6
    <2>2. SubSeq(b, 1, k - 1) \in Seq(Files)
      BY <1>3
    <2>3. ToSet(SubSeq(b, 1, k - 1)) \subseteq Files
      BY <2>2 DEF ToSet
    <2>4. SlotsInv'
      BY <1>2, <1>4, <2>1, <2>3, SlotStep DEF AcqInv
    <2>5. QED
      BY <1>1, <2>4, UntoldStep
  <1>7. QED
    BY <1>5, <1>6 DEF SendLogs

LEMMA MeterFilesInv ==
    ASSUME AcqInv, NEW s \in Slots, NEW f \in Files, FindMeter(s, f) \/ CreateMeter(s, f)
    PROVE  AcqInv'
  <1>1. /\ UNCHANGED <<said, writes, logemail, mailer, mailbox, excused>>
        /\ stored' = stored /\ told' = told /\ meters \subseteq meters'
        /\ f \in DOMAIN slots[s].loads
        /\ \E pc \in {"load", "create", "failed"} : Goto(s, f, pc)
    BY DEF FindMeter, CreateMeter, LogUnchanged, LogOtherwiseUnchanged, logVars, At
  <1>2. LogInv'
    BY <1>1, QuietLog DEF AcqInv
  <1>3. SettledOnes \subseteq SettledOnes'
    BY <1>1, <1>2, SettledStays
  <1>4. PICK pc \in {"load", "create", "failed"} : Goto(s, f, pc)
    BY <1>1
  <1>5. SlotsInv'
    BY <1>1, <1>3, <1>4, GotoStep DEF AcqInv
  <1>6. QED
    BY <1>1, <1>2, <1>5, UntoldStep

(* A column is stored, or the error that says it is not is logged.         *)
LEMMA LoadInv ==
    ASSUME AcqInv, NEW s \in Slots, NEW f \in Files, Load(s, f)
    PROVE  AcqInv'
  <1> DEFINE l == slots[s].loads[f]
             last == l.col + 1 = Width(f)
             next == [pc |-> IF last THEN "done" ELSE "find", col |-> IF last THEN l.col ELSE l.col + 1]
  <1>1. /\ f \in DOMAIN slots[s].loads
        /\ slots' = [slots EXCEPT ![s].loads[f] = next]
        /\ UNCHANGED <<meters, told>>
    BY DEF Load, At
  <1>2. l \in Step /\ Behind(f, l, SettledOnes)
    BY <1>1 DEF AcqInv, SlotsInv, SlotType, Progress
  <1>3. l.col \in 0..(Width(f) - 1) /\ Width(f) \in Nat
    BY <1>2, ObviusAssumption DEF Step, Behind
  <1>4. Meter(s, f) = Name(f, l.col) /\ <<Meter(s, f), f>> \in Blames
    BY <1>3, BlamesType DEF Meter
  <1>5. /\ LogInv' /\ said \subseteq said' /\ stored \subseteq stored'
        /\ <<Meter(s, f), f>> \in stored' \/ <<Meter(s, f), f>> \in said'
    <2>1. CASE stored' = stored \cup {<<Meter(s, f), f>>} /\ LogUnchanged
      BY <2>1, QuietLog DEF LogUnchanged, logVars, AcqInv
    <2>2. CASE Blame(Meter(s, f), f) /\ LogOtherwiseUnchanged /\ stored' = stored
      <3>1. {<<Meter(s, f), f>>} \in SUBSET Messages
        BY <1>4, BlamesAssumption
      <3>2. LogInv'
        BY <2>2, <3>1, SayLog DEF Blame, LogOtherwiseUnchanged, AcqInv
      <3>3. QED
        BY <2>2, <3>2 DEF Blame, Say
    <2>3. QED
      BY <2>1, <2>2 DEF Load
  <1>6. SettledOnes \subseteq SettledOnes'
    BY <1>1, <1>5, SettledStays
  <1>7. <<Meter(s, f), f>> \in SettledOnes'
    <2>1. Settled(Meter(s, f), f)'
          <=> \/ <<Meter(s, f), f>>' \in stored'
              \/ f \in Configs /\ Meter(s, f)' \in meters'
              \/ <<Meter(s, f), f>>' \in said' /\ Announced(<<Meter(s, f), f>>)'
      BY DEF Settled
    <2> DEFINE n == Name(f, l.col)
    <2>2. ASSUME NEW m, m = n, <<m, f>> \in stored' \/ <<m, f>> \in said'
          PROVE  Settled(m, f)'
      BY <1>5, <2>2 DEF Settled, LogInv, ErrorsKept
    <2>3. ASSUME NEW m, m = n PROVE <<m, f>> \in SettledOnes'
      BY <1>4, <1>5, <2>2, <2>3 DEF SettledOnes
    <2>4. QED
      BY <1>4, <2>3
  <1>8. next \in Step
    BY <1>3 DEF Step
  <1>9. Behind(f, next, SettledOnes')
    BY <1>2, <1>3, <1>4, <1>6, <1>7 DEF Behind, Step
  <1> HIDE DEF next
  <1>10. SlotsInv'
    BY <1>1, <1>6, <1>8, <1>9, LoadStep DEF AcqInv
  <1>11. QED
    BY <1>1, <1>5, <1>10, UntoldStep

(* SUCCESS is answered when every file of the request has all its columns  *)
(* behind it.                                                              *)
LEMMA SucceedInv ==
    ASSUME AcqInv, NEW s \in Slots, Succeed(s)
    PROVE  AcqInv'
  <1> DEFINE ls == slots[s].loads
  <1>1. LogInv' /\ UNCHANGED <<said, meters, stored>>
    BY QuietLog DEF Succeed, LogOtherwiseUnchanged, AcqInv
  <1>2. SettledOnes \subseteq SettledOnes' /\ \A n, f : Settled(n, f) => Settled(n, f)'
    BY <1>1, SettledStays
  <1>3. SlotsInv'
    BY <1>2, AnsweredSlot DEF Succeed, AcqInv
  <1>4. SlotType(slots[s]) /\ Progress(slots[s], SettledOnes)
    BY DEF AcqInv, SlotsInv
  <1>5. DOMAIN ls \subseteq Files
    <2>1. DOMAIN ls \cap Files # {}
      BY DEF Succeed, Loading
    <2>2. QED
      BY <1>4, <2>1, ObviusAssumption DEF SlotType
  <1>6. told' \subseteq told \cup DOMAIN ls
    BY DEF Succeed
  <1>7. ASSUME NEW f \in DOMAIN ls, NEW n \in Names(f) PROVE Settled(n, f)
    <2>1. f \in Files /\ Behind(f, ls[f], SettledOnes) /\ ls[f].pc = "done"
      BY <1>4, <1>5 DEF Progress, Succeed, AllLoaded, At
    <2>2. PICK i \in 0..(Width(f) - 1) : n = Name(f, i)
      BY <2>1 DEF Names, Columns
    <2>3. QED
      BY <2>1, <2>2 DEF Behind, SettledOnes
  <1>8. SuccessMeant'
    BY <1>2, <1>6, <1>7 DEF AcqInv, SuccessMeant
  <1>9. QED
    BY <1>1, <1>3, <1>5, <1>6, <1>8 DEF AcqInv

LEMMA EndInv ==
    ASSUME AcqInv, NEW s \in Slots, Refuse(s) \/ Finish(s)
    PROVE  AcqInv'
  <1>1. LogInv' /\ UNCHANGED <<said, meters, stored, told>>
    BY QuietLog DEF Refuse, Finish, LogUnchanged, logVars, AcqInv
  <1>2. SettledOnes \subseteq SettledOnes'
    BY <1>1, SettledStays
  <1>3. SlotsInv'
    BY <1>2, AnsweredSlot, FreeSlot, SlotStep DEF Refuse, Finish, AcqInv
  <1>4. QED
    BY <1>1, <1>3, UntoldStep

LEMMA ConfigInv ==
    ASSUME AcqInv, NEW s \in Slots, KeepConfig(s) \/ \E c \in Configs : SendConfig(s, c)
    PROVE  AcqInv'
  <1> DEFINE x == slots[s]
  <1>1. LogInv' /\ UNCHANGED <<said, meters, stored, told>>
    BY QuietLog DEF KeepConfig, SendConfig, LogUnchanged, LogOtherwiseUnchanged, logVars, AcqInv
  <1>2. SettledOnes \subseteq SettledOnes'
    BY <1>1, SettledStays
  <1>3. SlotType(x)
    BY DEF AcqInv, SlotsInv
  <1>4. CASE \E c \in Configs : SendConfig(s, c)
    <2>1. PICK c \in Configs : SendConfig(s, c)
      BY <1>4
    <2> DEFINE next == [x EXCEPT !.config = c]
    <2>2. slots' = [slots EXCEPT ![s] = next]
      BY <2>1 DEF SendConfig
    <2>3. x.loads = <<>>
      BY <2>1 DEF SendConfig, Free
    <2>4. /\ next.config = c /\ next.loads = <<>>
          /\ next = [config |-> next.config, loads |-> next.loads, answered |-> next.answered]
      BY <1>3, <2>3 DEF SlotType
    <2> HIDE DEF next
    <2>5. SlotType(next) /\ Progress(next, SettledOnes')
      BY <2>4 DEF SlotType, Progress
    <2>6. SlotsInv'
      BY <1>2, <2>2, <2>5, SlotStep DEF AcqInv
    <2>7. QED
      BY <1>1, <2>6, UntoldStep
  <1>5. CASE slots' = [slots EXCEPT ![s] = Free]
    BY <1>1, <1>2, <1>5, FreeSlot, SlotStep, UntoldStep DEF AcqInv
  <1>6. CASE KeepConfig(s) /\ slots' = [slots EXCEPT ![s].loads = [n \in Described(Config(s)) |-> Find]]
    <2> DEFINE loads == [n \in Described(x.config) |-> Find]
               next == [config |-> x.config, loads |-> loads, answered |-> x.answered]
    <2>1. slots' = [slots EXCEPT ![s] = [x EXCEPT !.loads = loads]]
      BY <1>6 DEF Config
    <2>2. x.config \in Configs /\ Described(x.config) \cap Files = {}
      BY <1>3, <1>6, ObviusAssumption DEF KeepConfig, Config, SlotType
    <2>3. Find \in Step /\ Find.pc = "find"
      BY DEF Find, Step
    <2>4. [x EXCEPT !.loads = loads] = next
      BY <1>3, SlotFields, Zenon DEF SlotType
    <2>5. /\ next.config = x.config /\ next.loads = loads
          /\ next = [config |-> next.config, loads |-> next.loads, answered |-> next.answered]
      OBVIOUS
    <2>6. loads \in [DOMAIN loads -> Step] /\ DOMAIN loads = Described(x.config)
          /\ \A n \in DOMAIN loads : loads[n].pc = "find"
      BY <2>3
    <2> HIDE DEF next, loads
    <2>7. SlotType(next) /\ Progress(next, SettledOnes')
      BY <2>2, <2>5, <2>6 DEF SlotType, Progress
    <2>8. SlotsInv'
      BY <1>2, <2>1, <2>4, <2>7, SlotStep DEF AcqInv
    <2>9. QED
      BY <1>1, <2>8, UntoldStep
  <1>7. QED
    BY <1>4, <1>5, <1>6 DEF KeepConfig

(* A meter of a configuration file is there, or is made, or the error that *)
(* says it could not be made is logged.                                    *)
LEMMA AddInv ==
    ASSUME AcqInv, NEW s \in Slots, NEW n \in DOMAIN slots[s].loads, LookFor(s, n) \/ AddMeter(s, n)
    PROVE  AcqInv'
  <1> DEFINE c == slots[s].config
  <1>1. SlotType(slots[s]) /\ n \notin Files
    BY DEF AcqInv, SlotsInv, LookFor, AddMeter
  <1>2. c \in Configs /\ n \in Described(c) /\ <<n, c>> \in Blames
    BY <1>1, BlamesType DEF SlotType
  <1>3. CASE LookFor(s, n)
    <2>1. LogInv' /\ UNCHANGED <<said, meters, stored, told>>
      BY <1>3, QuietLog DEF LookFor, LogUnchanged, logVars, AcqInv
    <2>2. SettledOnes \subseteq SettledOnes'
      BY <2>1, SettledStays
    <2>3. n \in meters => <<n, c>> \in SettledOnes
      BY <1>2 DEF SettledOnes, Settled
    <2>4. SlotsInv'
      BY <1>1, <1>3, <2>2, <2>3, GotoStep DEF LookFor, AcqInv
    <2>5. QED
      BY <2>1, <2>4, UntoldStep
  <1>4. CASE AddMeter(s, n)
    <2>1. /\ LogInv' /\ said \subseteq said' /\ meters \subseteq meters'
          /\ stored' = stored /\ told' = told
          /\ n \in meters' \/ <<n, c>> \in said'
      <3>1. CASE meters' = meters \cup {n} /\ LogUnchanged
        BY <1>4, <3>1, QuietLog DEF LogUnchanged, logVars, AcqInv, AddMeter
      <3>2. CASE Blame(n, c) /\ LogOtherwiseUnchanged /\ meters' = meters
        <4>1. {<<n, c>>} \in SUBSET Messages
          BY <1>2, BlamesAssumption
        <4>2. LogInv'
          BY <3>2, <4>1, SayLog DEF Blame, LogOtherwiseUnchanged, AcqInv
        <4>3. QED
          BY <1>4, <3>2, <4>2 DEF Blame, Say, AddMeter
      <3>3. QED
        BY <1>4, <3>1, <3>2 DEF AddMeter, Config
    <2>2. SettledOnes \subseteq SettledOnes'
      BY <2>1, SettledStays
    <2>3. ASSUME NEW d, d = c PROVE <<n, d>> \in SettledOnes'
      <3>1. Settled(n, d)'
        BY <1>2, <2>1, <2>3 DEF Settled, LogInv, ErrorsKept
      <3>2. QED
        BY <1>2, <2>3, <3>1 DEF SettledOnes
    <2>4. SlotsInv'
      BY <1>1, <1>4, <2>2, <2>3, GotoStep DEF AddMeter, AcqInv
    <2>5. QED
      BY <2>1, <2>4, UntoldStep
  <1>5. QED
    BY <1>3, <1>4

LEMMA AnswerConfigInv ==
    ASSUME AcqInv, NEW s \in Slots, AnswerConfig(s)
    PROVE  AcqInv'
  <1> DEFINE c == slots[s].config
  <1>1. LogInv' /\ UNCHANGED <<said, meters, stored>>
    BY QuietLog DEF AnswerConfig, LogUnchanged, logVars, AcqInv
  <1>2. SettledOnes \subseteq SettledOnes' /\ \A n, f : Settled(n, f) => Settled(n, f)'
    BY <1>1, SettledStays
  <1>3. SlotsInv'
    BY <1>2, FreeSlot, SlotStep DEF AnswerConfig, AcqInv
  <1>4. SlotType(slots[s]) /\ Progress(slots[s], SettledOnes)
    BY DEF AcqInv, SlotsInv
  <1>5. c \in Configs /\ DOMAIN slots[s].loads = Described(c) /\ c \notin Files
    BY <1>4, ObviusAssumption DEF AnswerConfig, Config, SlotType
  <1>6. told' = told \cup {c}
    BY DEF AnswerConfig, Config
  <1>7. ASSUME NEW n \in Names(c) PROVE Settled(n, c)
    <2>1. n \in DOMAIN slots[s].loads /\ n \notin Files
      BY <1>5, ObviusAssumption DEF Names
    <2>2. slots[s].loads[n].pc = "done"
      BY <2>1 DEF AnswerConfig, At
    <2>3. QED
      BY <1>4, <2>1, <2>2 DEF Progress, SettledOnes
  <1>8. SuccessMeant'
    BY <1>2, <1>6, <1>7 DEF AcqInv, SuccessMeant
  <1>9. QED
    BY <1>1, <1>3, <1>5, <1>6, <1>8 DEF AcqInv

LEMMA CrashInv == AcqInv /\ Crash => AcqInv'
  <1> SUFFICES ASSUME AcqInv, Crash PROVE AcqInv'
    OBVIOUS
  <1>1. LogInv' /\ UNCHANGED <<said, meters, stored, told>>
    BY ForgetLog DEF Crash, Forget, AcqInv
  <1>2. SlotsInv'
    BY FreeSlot DEF Crash, SlotsInv
  <1>3. QED
    BY <1>1, <1>2, UntoldStep

LEMMA NextAcqInv == AcqInv /\ [Next]_vars => AcqInv'
  <1> SUFFICES ASSUME AcqInv, [Next]_vars PROVE AcqInv'
    OBVIOUS
  <1>1. ASSUME NEW s \in Slots, Work(s) PROVE AcqInv'
    <2>1. CASE \E f \in Files : FindMeter(s, f) \/ CreateMeter(s, f) \/ Load(s, f)
      BY <2>1, MeterFilesInv, LoadInv
    <2>2. CASE Succeed(s) \/ Refuse(s) \/ Finish(s)
      BY <2>2, SucceedInv, EndInv
    <2>3. CASE KeepConfig(s) \/ AnswerConfig(s)
      BY <2>3, ConfigInv, AnswerConfigInv
    <2>4. CASE \E n \in DOMAIN slots[s].loads : LookFor(s, n) \/ AddMeter(s, n)
      BY <2>4, AddInv
    <2>5. QED
      BY <1>1, <2>1, <2>2, <2>3, <2>4 DEF Work
  <1>2. ASSUME NEW s \in Slots,
               (\E b \in Bundles(s) : SendLogs(s, b)) \/ (\E c \in Configs : SendConfig(s, c))
        PROVE  AcqInv'
    BY <1>2, SendLogsInv, ConfigInv
  <1>3. CASE LogNext /\ UNCHANGED obviusVars
    <2>1. LogInv' /\ UNCHANGED <<meters, stored, slots, told>>
      BY <1>3, NextLog DEF obviusVars, AcqInv
    <2>2. said' = said
      BY <1>3 DEF LogNext, Store, StoreFails, Read, Send, SendFails, Clear, MailerEnds
    <2>3. SlotsInv'
      BY <2>1, <2>2, SettledStays, SameSlots DEF AcqInv
    <2>4. QED
      BY <2>1, <2>2, <2>3, UntoldStep
  <1>4. CASE UNCHANGED vars
    <2>1. UNCHANGED <<meters, stored, slots, told>> /\ LogInv' /\ said' = said
      BY <1>4, QuietLog DEF vars, obviusVars, logVars, AcqInv
    <2>2. SlotsInv'
      BY <2>1, SettledStays, SameSlots DEF AcqInv
    <2>3. QED
      BY <2>1, <2>2, UntoldStep
  <1>5. QED
    BY <1>1, <1>2, <1>3, <1>4, CrashInv DEF Next

LEMMA InitAcqInv == Init => AcqInv
  <1> SUFFICES ASSUME Init PROVE AcqInv
    OBVIOUS
  <1>1. SlotsInv
    BY FreeSlot DEF Init, SlotsInv
  <1>2. told = {} /\ SuccessMeant
    BY DEF Init, SuccessMeant
  <1>3. QED
    BY <1>1, <1>2, InitLogInv DEF AcqInv

LEMMA SpecAcqInv == Spec => []AcqInv
  BY InitAcqInv, NextAcqInv, PTL DEF Spec

(* For any errors, runs of the job and faults: an error that was logged    *)
(* waits in the table or has been mailed, but for those stored while a run *)
(* is between its read and its delete, and those whose insert failed or    *)
(* died with its process (log.js, logMailer.js).                           *)
THEOREM NoErrorLost == Spec => []ErrorsKept
  <1>1. AcqInv => ErrorsKept
    BY DEF AcqInv, LogInv
  <1>2. QED
    BY <1>1, SpecAcqInv, PTL

(* For any files, columns and requests at work at the same time: what a    *)
(* file said SUCCESS for is stored, or its meters are there, or an error   *)
(* says which is not (obvius.js, loadLogfileToReadings.js, Configfile.js). *)
THEOREM SuccessIsMeant == Spec => []SuccessMeant
  <1>1. AcqInv => SuccessMeant
    BY DEF AcqInv
  <1>2. QED
    BY <1>1, SpecAcqInv, PTL
=============================================================================
