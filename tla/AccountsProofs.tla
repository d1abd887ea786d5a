---------------------------- MODULE AccountsProofs ----------------------------
(***************************************************************************)
(* Proofs about Accounts, for any accounts, tabs and requests at the same  *)
(* time: changes are authorized, and a tab's token and profile agree.      *)
(***************************************************************************)
EXTENDS Accounts, TLAPS

JobFields == {"kind", "tab", "pc", "token", "args", "todo", "code", "rows", "adm"}
TabFields == {"token", "profile", "stage", "page", "crossed"}

IsJob(j) == DOMAIN j = JobFields /\ j.kind # "idle" /\ j.adm \in BOOLEAN
IsTab(x) == DOMAIN x = TabFields /\ x.crossed \in BOOLEAN

(* A token is of a day that has come.                                      *)
Dated(k, d) == k # None => k.day \in Nat /\ k.day <= d

(* A request of an admin's that is past the authenticator, or is writing,  *)
(* and any whose sender is an admin with a valid token now, has had such a *)
(* sender.                                                                 *)
Vouched(j, U, d) ==
    /\ (j.kind \in AdminKinds /\ j.pc \in {"do", "insert", "remove", "write"}) => j.adm
    /\ j.todo # {} => j.adm
    /\ (j.token # None /\ j.token.day = d /\ j.token.id \in DOMAIN U
            /\ U[j.token.id].role = "admin") => j.adm

JobOK(j, U, d) ==
    j # Idle =>
        /\ IsJob(j)
        /\ Dated(j.token, d)
        /\ (j.kind = "login" /\ j.code = 200) => j.rows.day \in Nat /\ j.rows.day <= d
        /\ Vouched(j, U, d)

TabsInv ==
    /\ tab = [t \in Tabs |-> tab[t]]
    /\ Dated(storage, day)
    /\ \A t \in Tabs : IsTab(tab[t]) /\ Dated(tab[t].token, day)

JobsInv ==
    /\ jobs = [s \in Slots |-> jobs[s]]
    /\ \A s \in Slots : JobOK(jobs[s], users, day)

AuthInv ==
    /\ day \in Nat
    /\ \A i \in DOMAIN users : DOMAIN users[i] = {"name", "role", "pw"}
    /\ TabsInv
    /\ JobsInv

(* What the constructors of requests and answers make.                     *)
LEMMA RequestOK ==
    ASSUME NEW t, NEW kind, NEW token, NEW args, kind # "idle"
    PROVE  LET j == Request(t, kind, token, args) IN
           /\ IsJob(j) /\ j # Idle
           /\ j.kind = kind /\ j.tab = t /\ j.pc = "auth" /\ j.token = token /\ j.args = args
           /\ j.todo = {} /\ j.code = 0
           /\ Dated(token, day) => JobOK(j, users, day)
  <1> DEFINE j == Request(t, kind, token, args)
  <1>1. /\ IsJob(j) /\ j.kind = kind /\ j.tab = t /\ j.pc = "auth" /\ j.token = token
        /\ j.args = args /\ j.todo = {} /\ j.code = 0
        /\ j.adm <=> Valid(token) /\ AdminToken(token)
    BY DEF Request, IsJob, JobFields
  <1>2. j # Idle
    BY <1>1 DEF Idle
  <1> HIDE DEF j
  <1>3. Dated(token, day) => JobOK(j, users, day)
    BY <1>1 DEF JobOK, Vouched, Valid, AdminToken, AdminKinds, Ids
  <1>4. QED
    BY <1>1, <1>2, <1>3 DEF j

Answered(j, code, rows) ==
    [Request(j.tab, j.kind, None, <<>>) EXCEPT !.pc = "answer", !.code = code, !.rows = rows]

LEMMA AnsweredOK ==
    ASSUME NEW j, j.kind # "idle", NEW code, NEW rows
    PROVE  LET k == Answered(j, code, rows) IN
           /\ IsJob(k) /\ k # Idle
           /\ k.kind = j.kind /\ k.tab = j.tab /\ k.pc = "answer" /\ k.token = None
           /\ k.todo = {} /\ k.code = code /\ k.rows = rows
           /\ \A U, d : (j.kind # "login" \/ code # 200 \/ (rows.day \in Nat /\ rows.day <= d))
                             => JobOK(k, U, d)
  <1> DEFINE r == Request(j.tab, j.kind, None, <<>>)
             k == Answered(j, code, rows)
  <1>1. IsJob(r) /\ r.kind = j.kind /\ r.tab = j.tab /\ r.token = None /\ r.todo = {}
    BY DEF Request, IsJob, JobFields
  <1> HIDE DEF r
  <1>2. k = [r EXCEPT !.pc = "answer", !.code = code, !.rows = rows]
    BY DEF Answered, r
  <1>3. /\ IsJob(k) /\ k.kind = j.kind /\ k.tab = j.tab /\ k.pc = "answer" /\ k.token = None
        /\ k.todo = {} /\ k.code = code /\ k.rows = rows
    BY <1>1, <1>2 DEF IsJob, JobFields
  <1>4. k # Idle
    BY <1>3 DEF Idle, IsJob
  <1> HIDE DEF k
  <1>5. ASSUME NEW U, NEW d, j.kind # "login" \/ code # 200 \/ (rows.day \in Nat /\ rows.day <= d)
        PROVE  JobOK(k, U, d)
    BY <1>3, <1>5 DEF JobOK, Vouched, Dated
  <1>6. QED
    BY <1>3, <1>4, <1>5 DEF k

LEMMA IdleOK == \A U, d : JobOK(Idle, U, d)
  BY DEF JobOK

LEMMA JobsStep ==
    ASSUME JobsInv, NEW s \in Slots, NEW next, jobs' = [jobs EXCEPT ![s] = next],
           JobOK(next, users, day), users' = users, day' = day
    PROVE  JobsInv'
  <1>1. /\ jobs' = [u \in Slots |-> jobs'[u]]
        /\ \A u \in Slots : jobs'[u] = IF u = s THEN next ELSE jobs[u]
    BY DEF JobsInv
  <1>2. \A u \in Slots : JobOK(jobs'[u], users', day')
    BY <1>1 DEF JobsInv
  <1>3. QED
    BY <1>1, <1>2 DEF JobsInv

LEMMA TabsStep ==
    ASSUME TabsInv, NEW t \in Tabs, NEW x, tab' = [tab EXCEPT ![t] = x], IsTab(x),
           Dated(x.token, day), Dated(storage', day), day' = day
    PROVE  TabsInv'
  <1>1. /\ tab' = [u \in Tabs |-> tab'[u]]
        /\ \A u \in Tabs : tab'[u] = IF u = t THEN x ELSE tab[u]
    BY DEF TabsInv
  <1>2. QED
    BY <1>1 DEF TabsInv

(* The other requests watch every change to the table.                     *)
LEMMA WatchOK ==
    ASSUME NEW js, NEW s \in Slots, JobOK(js[s], users, day)
    PROVE  /\ JobOK(Watch(js)[s], users', day)
           /\ js[s] = Idle => Watch(js)[s] = Idle
           /\ js[s] # Idle =>
                LET k == Watch(js)[s] IN
                /\ k # Idle /\ k.kind = js[s].kind /\ k.tab = js[s].tab /\ k.pc = js[s].pc
                /\ k.token = js[s].token /\ k.code = js[s].code /\ k.rows = js[s].rows
                /\ k.todo = js[s].todo
  <1> DEFINE j == js[s]
             k == Watch(js)[s]
             now == j.token.day = day /\ j.token.id \in DOMAIN users' /\ users'[j.token.id].role = "admin"
  <1>1. k = IF j = Idle \/ j.token = None THEN j ELSE [j EXCEPT !.adm = @ \/ now]
    BY DEF Watch
  <1>2. CASE j = Idle
    BY <1>1, <1>2, IdleOK
  <1>3. CASE j # Idle /\ j.token = None
    <2>1. k = j
      BY <1>1, <1>3
    <2>2. JobOK(j, users', day)
      BY <1>3 DEF JobOK, Vouched
    <2>3. QED
      BY <1>3, <2>1, <2>2
  <1>4. CASE j # Idle /\ j.token # None
    <2>1. IsJob(j) /\ k = [j EXCEPT !.adm = @ \/ now]
      BY <1>1, <1>4 DEF JobOK
    <2>2. /\ IsJob(k) /\ k.kind = j.kind /\ k.tab = j.tab /\ k.pc = j.pc
          /\ k.token = j.token /\ k.code = j.code /\ k.rows = j.rows /\ k.todo = j.todo
          /\ k.adm <=> j.adm \/ now
      <3> HIDE DEF now, k
      <3>1. QED
        BY <2>1 DEF IsJob, JobFields
    <2>3. k # Idle
      BY <2>2 DEF Idle, IsJob
    <2> HIDE DEF k
    <2>4. JobOK(k, users', day)
      BY <1>4, <2>2 DEF JobOK, Vouched, AdminKinds
    <2>5. QED
      BY <1>4, <2>2, <2>3, <2>4 DEF k
  <1>5. QED
    BY <1>2, <1>3, <1>4

LEMMA WatchInv ==
    ASSUME AuthInv, NEW s \in Slots, NEW next, jobs' = Watch([jobs EXCEPT ![s] = next]),
           JobOK(next, users, day), UNCHANGED <<day, tab, storage>>,
           \A i \in DOMAIN users' : DOMAIN users'[i] = {"name", "role", "pw"}
    PROVE  AuthInv'
  <1> DEFINE js == [jobs EXCEPT ![s] = next]
  <1>1. \A u \in Slots : JobOK(js[u], users, day)
    BY DEF AuthInv, JobsInv
  <1> HIDE DEF js
  <1>2. jobs' = Watch(js)
    BY DEF js
  <1>3. \A u \in Slots : JobOK(jobs'[u], users', day)
    BY <1>1, <1>2, WatchOK
  <1>4. jobs' = [u \in Slots |-> jobs'[u]]
    BY <1>2 DEF Watch
  <1>5. JobsInv'
    BY <1>3, <1>4 DEF JobsInv
  <1>6. QED
    BY <1>5 DEF AuthInv, TabsInv

-----------------------------------------------------------------------------
(* The server.  A request stays the tab's and of its kind, and the account *)
(* that an answer names is that of the token.                              *)
Like(k, j) ==
    k # Idle =>
        /\ j # Idle /\ k.kind = j.kind /\ k.tab = j.tab
        /\ k.pc = "auth" => j.pc = "auth" /\ k.token = j.token
        /\ (k.kind = "details" /\ k.code = 200) =>
              (j.code = 200 /\ k.rows = j.rows) \/ (j.pc = "auth" /\ k.rows.id = j.token.id)

Serves(s) ==
    /\ AuthInv'
    /\ \A u \in Slots : Like(jobs'[u], jobs[u])
    /\ users' # users =>
          jobs[s] # Idle /\ jobs[s].adm
          /\ (jobs'[s].pc # jobs[s].pc \/ jobs'[s].todo # jobs[s].todo)

LEMMA ServePlain ==
    ASSUME AuthInv, NEW s \in Slots, NEW next, jobs' = [jobs EXCEPT ![s] = next],
           JobOK(next, users, day), Like(next, jobs[s]), UNCHANGED <<users, day, tab, storage>>
    PROVE  Serves(s)
  <1>1. JobsInv'
    BY JobsStep DEF AuthInv
  <1>2. AuthInv'
    BY <1>1 DEF AuthInv, TabsInv
  <1>3. \A u \in Slots : jobs'[u] = IF u = s THEN next ELSE jobs[u]
    BY DEF AuthInv, JobsInv
  <1>4. \A u \in Slots : Like(jobs'[u], jobs[u])
    BY <1>3 DEF Like
  <1>5. QED
    BY <1>2, <1>4 DEF Serves

LEMMA ServeWatch ==
    ASSUME AuthInv, NEW s \in Slots, NEW next, jobs' = Watch([jobs EXCEPT ![s] = next]),
           JobOK(next, users, day), Like(next, jobs[s]), next # Idle,
           jobs[s] # Idle, jobs[s].adm, next.pc # jobs[s].pc \/ next.todo # jobs[s].todo,
           \A i \in DOMAIN users' : DOMAIN users'[i] = {"name", "role", "pw"},
           UNCHANGED <<day, tab, storage>>
    PROVE  Serves(s)
  <1> DEFINE js == [jobs EXCEPT ![s] = next]
  <1>1. AuthInv'
    BY WatchInv
  <1>2. \A u \in Slots : js[u] = IF u = s THEN next ELSE jobs[u]
    BY DEF AuthInv, JobsInv
  <1>3. \A u \in Slots : JobOK(js[u], users, day)
    BY <1>2 DEF AuthInv, JobsInv
  <1> HIDE DEF js
  <1>4. jobs' = Watch(js)
    BY DEF js
  <1>5. ASSUME NEW u \in Slots PROVE Like(jobs'[u], jobs[u])
    <2>1. Like(js[u], jobs[u])
      BY <1>2 DEF Like
    <2>2. CASE js[u] = Idle
      BY <1>3, <1>4, <2>2, WatchOK DEF Like
    <2>3. CASE js[u] # Idle
      <3>1. /\ jobs'[u].kind = js[u].kind /\ jobs'[u].tab = js[u].tab /\ jobs'[u].pc = js[u].pc
            /\ jobs'[u].token = js[u].token /\ jobs'[u].code = js[u].code
            /\ jobs'[u].rows = js[u].rows
        BY <1>3, <1>4, <2>3, WatchOK
      <3>2. QED
        BY <2>1, <2>3, <3>1 DEF Like
    <2>4. QED
      BY <2>2, <2>3
  <1>6. jobs'[s].pc # jobs[s].pc \/ jobs'[s].todo # jobs[s].todo
    <2>1. jobs'[s].pc = next.pc /\ jobs'[s].todo = next.todo
      BY <1>2, <1>3, <1>4, WatchOK
    <2>2. QED
      BY <2>1
  <1>7. QED
    BY <1>1, <1>5, <1>6 DEF Serves

LEMMA ServeReply ==
    ASSUME AuthInv, NEW s \in Slots, jobs[s].kind # "idle", NEW code, NEW rows,
           jobs' = Reply(s, code, rows), UNCHANGED <<users, day, tab, storage>>,
           (jobs[s].kind = "login" /\ code = 200) => rows.day \in Nat /\ rows.day <= day,
           (jobs[s].kind = "details" /\ code = 200) =>
                jobs[s].pc = "auth" /\ rows.id = jobs[s].token.id
    PROVE  Serves(s)
  <1> DEFINE k == Answered(jobs[s], code, rows)
  <1>1. jobs' = [jobs EXCEPT ![s] = k]
    BY DEF Reply, Answered
  <1>2. /\ k.kind = jobs[s].kind /\ k.tab = jobs[s].tab /\ k.pc = "answer"
        /\ k.code = code /\ k.rows = rows /\ JobOK(k, users, day)
    BY AnsweredOK
  <1>3. jobs[s] # Idle
    BY DEF Idle
  <1> HIDE DEF k
  <1>4. Like(k, jobs[s])
    BY <1>2, <1>3 DEF Like
  <1>5. QED
    BY <1>1, <1>2, <1>4, ServePlain

(* The request gets ahead, and its sender has been an admin.               *)
LEMMA AheadOK ==
    ASSUME NEW j, JobOK(j, users, day), j # Idle, j.adm, NEW next,
           IsJob(next), next.kind = j.kind, next.tab = j.tab, next.token = j.token,
           next.adm, next.rows = j.rows, next.pc # "auth", next.code = j.code \/ next.code = 500
    PROVE  JobOK(next, users, day) /\ Like(next, j) /\ next # Idle
  BY DEF JobOK, Vouched, Like, IsJob, Idle

LEMMA ServeGoOn ==
    ASSUME AuthInv, NEW s \in Slots, jobs[s] # Idle, jobs[s].adm,
           NEW pc \in {"do", "insert", "remove", "write"}, GoOn(s, pc),
           UNCHANGED <<users, day, tab, storage>>
    PROVE  Serves(s)
  <1> DEFINE next == [jobs[s] EXCEPT !.pc = pc]
  <1>1. JobOK(jobs[s], users, day) /\ IsJob(jobs[s])
    BY DEF AuthInv, JobsInv, JobOK
  <1>2. /\ IsJob(next) /\ next.kind = jobs[s].kind /\ next.tab = jobs[s].tab
        /\ next.token = jobs[s].token /\ next.code = jobs[s].code /\ next.rows = jobs[s].rows
        /\ next.adm /\ next.pc = pc
    BY <1>1 DEF IsJob, JobFields
  <1>3. jobs' = [jobs EXCEPT ![s] = next]
    BY DEF GoOn
  <1> HIDE DEF next
  <1>4. JobOK(next, users, day) /\ Like(next, jobs[s])
    BY <1>1, <1>2, AheadOK
  <1>5. QED
    BY <1>3, <1>4, ServePlain

(* The route that asks, and the routes that only read.                     *)
LEMMA ReadsServe ==
    ASSUME AuthInv, NEW s \in Slots, Login(s) \/ Verify(s) \/ Details(s)
    PROVE  Serves(s)
  <1>1. CASE Login(s)
    <2> DEFINE ok == {i \in Ids : users[i].name = jobs[s].args.name /\ users[i].pw = jobs[s].args.pw}
    <2>1. /\ jobs[s].kind = "login" /\ UNCHANGED <<users, day, tab, storage>>
          /\ \/ jobs' = Reply(s, 401, <<>>)
             \/ \E i \in ok : jobs' = Reply(s, 200, [id |-> i, day |-> day, name |-> users[i].name,
                                                    role |-> users[i].role])
      BY <1>1 DEF Login, Answer
    <2>2. CASE jobs' = Reply(s, 401, <<>>)
      BY <2>1, <2>2, ServeReply
    <2>3. ASSUME NEW i \in ok,
                 jobs' = Reply(s, 200, [id |-> i, day |-> day, name |-> users[i].name,
                                        role |-> users[i].role])
          PROVE  Serves(s)
      <3> DEFINE rows == [id |-> i, day |-> day, name |-> users[i].name, role |-> users[i].role]
      <3>1. jobs' = Reply(s, 200, rows) /\ rows.day = day
        BY <2>3
      <3> HIDE DEF rows
      <3>2. QED
        BY <2>1, <3>1, ServeReply DEF AuthInv
    <2>4. QED
      BY <2>1, <2>2, <2>3
  <1>2. CASE Verify(s)
    <2>1. /\ jobs[s].kind = "verify" /\ UNCHANGED <<users, day, tab, storage>>
          /\ jobs' = Reply(s, IF VerifiedToken(jobs[s].args) THEN 200 ELSE 401, <<>>)
      BY <1>2 DEF Verify, Answer
    <2>2. QED
      BY <2>1, ServeReply
  <1>3. CASE Details(s)
    <2>1. /\ jobs[s].kind = "details" /\ jobs[s].pc = "auth" /\ UNCHANGED <<users, day, tab, storage>>
          /\ \/ \E code \in {401, 403} : jobs' = Reply(s, code, <<>>)
             \/ LET k == jobs[s].token
                IN  jobs' = Reply(s, 200, [id |-> k.id, name |-> users[k.id].name,
                                           role |-> users[k.id].role])
      BY <1>3 DEF Details, Answer
    <2>2. ASSUME NEW code \in {401, 403}, jobs' = Reply(s, code, <<>>) PROVE Serves(s)
      BY <2>1, <2>2, ServeReply
    <2>3. ASSUME NEW rows, jobs' = Reply(s, 200, rows), rows.id = jobs[s].token.id PROVE Serves(s)
      BY <2>1, <2>3, ServeReply
    <2>4. QED
      BY <2>1, <2>2, <2>3
  <1>4. QED
    BY <1>1, <1>2, <1>3

LEMMA ChecksServe ==
    ASSUME AuthInv, NEW s \in Slots,
           Auth(s) \/ CreateCheck(s) \/ EditCheck(s) \/ DeleteCheck(s)
    PROVE  Serves(s)
  <1> DEFINE j == jobs[s]
  <1>1. /\ j.kind \in AdminKinds /\ UNCHANGED <<users, day, tab, storage>>
    BY DEF Auth, CreateCheck, EditCheck, DeleteCheck, AdminKinds
  <1>2. j # Idle /\ JobOK(j, users, day) /\ IsJob(j)
    BY <1>1 DEF AdminKinds, Idle, AuthInv, JobsInv, JobOK
  <1>3. ASSUME NEW code, Answer(s, code) PROVE Serves(s)
    BY <1>1, <1>3, ServeReply DEF Answer, AdminKinds
  <1>4. ASSUME j.pc = "do" PROVE j.adm
    BY <1>1, <1>2, <1>4 DEF JobOK, Vouched
  <1>5. CASE Auth(s)
    <2>1. \/ \E code : Answer(s, code)
          \/ Valid(j.token) /\ AdminToken(j.token) /\ GoOn(s, "do")
      BY <1>5 DEF Auth
    <2>2. Valid(j.token) /\ AdminToken(j.token) => j.adm
      BY <1>2 DEF JobOK, Vouched, Valid, AdminToken, Ids
    <2>3. QED
      BY <1>1, <1>2, <1>3, <2>1, <2>2, ServeGoOn
  <1>6. CASE CreateCheck(s)
    BY <1>1, <1>2, <1>3, <1>4, <1>6, ServeGoOn DEF CreateCheck
  <1>7. CASE DeleteCheck(s)
    BY <1>1, <1>2, <1>3, <1>4, <1>7, ServeGoOn DEF DeleteCheck
  <1>8. CASE EditCheck(s)
    <2> DEFINE next == [j EXCEPT !.pc = "write", !.todo = {"row", "pw"}]
    <2>1. j.adm /\ ((\E code : Answer(s, code)) \/ jobs' = [jobs EXCEPT ![s] = next])
      BY <1>4, <1>8 DEF EditCheck
    <2>2. /\ IsJob(next) /\ next.kind = j.kind /\ next.tab = j.tab /\ next.token = j.token
          /\ next.code = j.code /\ next.rows = j.rows /\ next.adm /\ next.pc = "write"
      BY <1>2, <2>1 DEF IsJob, JobFields
    <2> HIDE DEF next
    <2>3. JobOK(next, users, day) /\ Like(next, j)
      BY <1>2, <2>1, <2>2, AheadOK
    <2>4. QED
      BY <1>1, <1>3, <2>1, <2>3, ServePlain
  <1>9. QED
    BY <1>5, <1>6, <1>7, <1>8

(* The request after a change, or a part of it: it is answered, or one     *)
(* write less is under way.                                                *)
Moved(next, j) ==
    /\ JobOK(next, users, day) /\ Like(next, j) /\ next # Idle
    /\ next.pc # j.pc \/ next.todo # j.todo

LEMMA WroteMoves ==
    ASSUME AuthInv, NEW s \in Slots, jobs[s].kind = "edit", NEW w \in jobs[s].todo,
           NEW failed \in BOOLEAN
    PROVE  \E next : Wrote(s, w, failed) = [jobs EXCEPT ![s] = next] /\ Moved(next, jobs[s])
  <1> DEFINE j == jobs[s]
  <1>1. j # Idle /\ JobOK(j, users, day) /\ IsJob(j) /\ j.adm
    BY DEF Idle, AuthInv, JobsInv, JobOK, Vouched
  <1>2. CASE j.todo = {w}
    <2> DEFINE code == IF failed \/ j.code = 500 THEN 500 ELSE 200
               k == Answered(j, code, <<>>)
    <2>1. Wrote(s, w, failed) = [jobs EXCEPT ![s] = k]
      BY <1>2 DEF Wrote, Reply, Answered
    <2>2. /\ k.kind = j.kind /\ k.tab = j.tab /\ k.pc = "answer" /\ k.todo = {}
          /\ k # Idle /\ JobOK(k, users, day)
      BY <1>1, AnsweredOK
    <2> HIDE DEF k
    <2>3. Moved(k, j)
      BY <1>1, <2>2 DEF Moved, Like
    <2>4. QED
      BY <2>1, <2>3
  <1>3. CASE j.todo # {w}
    <2> DEFINE code == IF failed THEN 500 ELSE j.code
               next == [j EXCEPT !.todo = @ \ {w}, !.code = code]
    <2>1. Wrote(s, w, failed) = [jobs EXCEPT ![s] = next]
      BY <1>3 DEF Wrote
    <2>2. code = j.code \/ code = 500
      OBVIOUS
    <2> HIDE DEF code
    <2>3. /\ IsJob(next) /\ next.kind = j.kind /\ next.tab = j.tab /\ next.token = j.token
          /\ next.code = code /\ next.rows = j.rows /\ next.adm /\ next.pc = j.pc
          /\ next.todo = j.todo \ {w}
      BY <1>1 DEF IsJob, JobFields
    <2> HIDE DEF next
    <2>4. next # Idle
      BY <2>3 DEF Idle, IsJob
    <2>5. JobOK(next, users, day) /\ Like(next, j)
      BY <1>1, <2>2, <2>3 DEF JobOK, Vouched, Like
    <2>6. QED
      BY <2>1, <2>3, <2>4, <2>5 DEF Moved
  <1>4. QED
    BY <1>2, <1>3

LEMMA WritesServe ==
    ASSUME AuthInv, NEW s \in Slots,
           CreateInsert(s) \/ EditRow(s) \/ EditPassword(s) \/ DeleteRow(s)
    PROVE  Serves(s)
  <1> DEFINE j == jobs[s]
  <1>1. j.kind \in AdminKinds /\ UNCHANGED <<day, tab, storage>>
    BY DEF CreateInsert, EditRow, EditPassword, DeleteRow, AdminKinds
  <1>2. j # Idle /\ JobOK(j, users, day) /\ IsJob(j)
    BY <1>1 DEF AdminKinds, Idle, AuthInv, JobsInv, JobOK
  <1>3. \A i \in DOMAIN users : DOMAIN users[i] = {"name", "role", "pw"}
    BY DEF AuthInv
  <1>4. ASSUME j.pc \in {"insert", "remove"}
        PROVE  /\ j.adm
               /\ \E next : Reply(s, 200, <<>>) = [jobs EXCEPT ![s] = next] /\ Moved(next, j)
    <2> DEFINE k == Answered(j, 200, <<>>)
    <2>1. j.adm
      BY <1>1, <1>2, <1>4 DEF JobOK, Vouched
    <2>2. Reply(s, 200, <<>>) = [jobs EXCEPT ![s] = k]
      BY DEF Reply, Answered
    <2>3. /\ k.kind = j.kind /\ k.tab = j.tab /\ k.pc = "answer" /\ k # Idle
          /\ JobOK(k, users, day)
      BY <1>1, <1>2, AnsweredOK DEF AdminKinds
    <2> HIDE DEF k
    <2>4. Moved(k, j)
      BY <1>1, <1>2, <1>4, <2>3 DEF Moved, Like, AdminKinds
    <2>5. QED
      BY <2>1, <2>2, <2>4
  <1>5. CASE CreateInsert(s)
    <2>1. CASE Answer(s, 500) /\ users' = users
      BY <1>1, <2>1, ServeReply DEF Answer, AdminKinds
    <2>2. CASE jobs' = Watch(Reply(s, 200, <<>>))
               /\ users' = [i \in Ids \cup {lastId'} |->
                             IF i = lastId' THEN [name |-> j.args.name, role |-> j.args.role,
                                                  pw |-> j.args.pw]
                             ELSE users[i]]
      <3>1. \A i \in DOMAIN users' : DOMAIN users'[i] = {"name", "role", "pw"}
        BY <1>3, <2>2 DEF Ids
      <3>2. QED
        BY <1>1, <1>2, <1>4, <1>5, <2>2, <3>1, ServeWatch DEF CreateInsert, Moved
    <2>3. QED
      BY <1>5, <2>1, <2>2 DEF CreateInsert
  <1>6. CASE DeleteRow(s)
    <2>1. /\ jobs' = Watch(Reply(s, 200, <<>>)) /\ j.pc = "remove"
          /\ \A i \in DOMAIN users' : DOMAIN users'[i] = {"name", "role", "pw"}
      BY <1>3, <1>6 DEF DeleteRow, Ids
    <2>2. QED
      BY <1>1, <1>2, <1>4, <2>1, ServeWatch DEF Moved
  <1>7. CASE EditRow(s)
    <2> DEFINE a == j.args
    <2>1. j.kind = "edit" /\ "row" \in j.todo /\ j.adm
      BY <1>2, <1>7 DEF EditRow, JobOK, Vouched
    <2>2. CASE users' = users /\ jobs' = Wrote(s, "row", TRUE)
      <3>1. PICK next : Wrote(s, "row", TRUE) = [jobs EXCEPT ![s] = next] /\ Moved(next, j)
        BY <2>1, WroteMoves
      <3>2. QED
        BY <1>1, <2>2, <3>1, ServePlain DEF Moved
    <2>3. CASE /\ users' = IF a.id \in Ids THEN [users EXCEPT ![a.id] =
                                       [@ EXCEPT !.name = a.name, !.role = a.role]]
                           ELSE users
               /\ jobs' = Watch(Wrote(s, "row", FALSE))
      <3>1. PICK next : Wrote(s, "row", FALSE) = [jobs EXCEPT ![s] = next] /\ Moved(next, j)
        BY <2>1, WroteMoves
      <3>2. \A i \in DOMAIN users' : DOMAIN users'[i] = {"name", "role", "pw"}
        BY <1>3, <2>3 DEF Ids
      <3>3. QED
        BY <1>1, <1>2, <2>1, <2>3, <3>1, <3>2, ServeWatch DEF Moved
    <2>4. QED
      BY <1>7, <2>2, <2>3 DEF EditRow
  <1>8. CASE EditPassword(s)
    <2> DEFINE a == j.args
    <2>1. j.kind = "edit" /\ "pw" \in j.todo /\ j.adm
      BY <1>2, <1>8 DEF EditPassword, JobOK, Vouched
    <2>2. PICK next : Wrote(s, "pw", FALSE) = [jobs EXCEPT ![s] = next] /\ Moved(next, j)
      BY <2>1, WroteMoves
    <2>3. /\ users' = IF a.id \in Ids THEN [users EXCEPT ![a.id].pw = a.pw] ELSE users
          /\ jobs' = [jobs EXCEPT ![s] = next]
      BY <1>8, <2>2 DEF EditPassword
    <2>4. /\ DOMAIN users' = DOMAIN users
          /\ \A i \in DOMAIN users :
                DOMAIN users'[i] = {"name", "role", "pw"} /\ users'[i].role = users[i].role
      BY <1>3, <2>3 DEF Ids
    <2>5. \A u \in Slots : jobs'[u] = IF u = s THEN next ELSE jobs[u]
      BY <2>3 DEF AuthInv, JobsInv
    <2>6. ASSUME NEW u \in Slots PROVE JobOK(jobs'[u], users', day)
      <3>1. JobOK(jobs'[u], users, day)
        BY <2>2, <2>5 DEF AuthInv, JobsInv, Moved
      <3>2. QED
        BY <2>4, <3>1 DEF JobOK, Vouched
    <2>7. AuthInv'
      <3>1. JobsInv'
        BY <1>1, <2>3, <2>6 DEF JobsInv, AuthInv
      <3>2. QED
        BY <1>1, <2>4, <3>1 DEF AuthInv, TabsInv
    <2>8. \A u \in Slots : Like(jobs'[u], jobs[u])
      BY <2>2, <2>5 DEF Moved, Like
    <2>9. QED
      BY <1>2, <2>1, <2>2, <2>5, <2>7, <2>8 DEF Serves, Moved
  <1>9. QED
    BY <1>5, <1>6, <1>7, <1>8

LEMMA ServerServes == \A s \in Slots : AuthInv /\ Server(s) => Serves(s)
  BY ChecksServe, WritesServe, ReadsServe DEF Server
-----------------------------------------------------------------------------
(* What the stage of a tab says about it.                                  *)
Agrees(x) ==
    /\ x.page = "users" => x.stage = "done"
    /\ ~x.crossed =>
         /\ x.stage \in {"new", "verify", "details"} => x.profile = None
         /\ x.stage = "done" => x.token.id = x.profile.id

(* The answers a tab can be waiting for in its stage.                      *)
Fits(j, x) ==
    /\ j.kind = "verify" => x.stage = "verify"
    /\ j.kind = "details" =>
         /\ x.stage = "details"
         /\ ~x.crossed => /\ j.pc = "auth" => j.token.id = x.token.id
                          /\ j.code = 200 => j.rows.id = x.token.id
    /\ j.kind = "login" => x.stage = "done" \/ x.crossed
    /\ j.kind \in AdminKinds \cup {"poll"} => x.stage = "done"

Starting(j) == j.kind \in {"verify", "details"}

SessInv ==
    /\ \A t \in Tabs : Agrees(tab[t])
    /\ \A s \in Slots : (jobs[s] # Idle /\ jobs[s].tab \in Tabs) => Fits(jobs[s], tab[jobs[s].tab])
    /\ \A s, u \in Slots :
          (s # u /\ jobs[s] # Idle /\ jobs[u] # Idle /\ jobs[s].tab = jobs[u].tab /\ jobs[s].tab \in Tabs)
             => ~(Starting(jobs[s]) /\ Starting(jobs[u]))

LEMMA LikeSess ==
    ASSUME SessInv, tab' = tab, \A u \in Slots : Like(jobs'[u], jobs[u])
    PROVE  SessInv'
  <1>1. ASSUME NEW s \in Slots, jobs'[s] # Idle, jobs'[s].tab \in Tabs
        PROVE  Fits(jobs'[s], tab[jobs'[s].tab])
    <2>1. Like(jobs'[s], jobs[s]) /\ Fits(jobs[s], tab[jobs[s].tab])
      BY <1>1 DEF SessInv, Like
    <2>2. QED
      BY <1>1, <2>1 DEF Like, Fits
  <1>2. \A s, u \in Slots :
           (s # u /\ jobs'[s] # Idle /\ jobs'[u] # Idle /\ jobs'[s].tab = jobs'[u].tab
                /\ jobs'[s].tab \in Tabs)
             => ~(Starting(jobs'[s]) /\ Starting(jobs'[u]))
    BY DEF SessInv, Like, Starting
  <1>3. QED
    BY <1>1, <1>2 DEF SessInv

-----------------------------------------------------------------------------
(* The tabs.  What leaving a page and logging out make of a tab.           *)
LEMMA OutletTab ==
    ASSUME NEW x, IsTab(x)
    PROVE  LET y == Outlet(x) IN
           /\ IsTab(y) /\ y.token = x.token /\ y.profile = x.profile /\ y.stage = x.stage
           /\ y.crossed = x.crossed /\ y.page \in {x.page, "home"}
           /\ x.token = None => y.page = "home"
  <1>1. CASE Outlet(x) = x /\ x.token # None
    BY <1>1
  <1>2. CASE Outlet(x) = [x EXCEPT !.page = "home"]
    <2> DEFINE y == [x EXCEPT !.page = "home"]
    <2>1. /\ IsTab(y) /\ y.token = x.token /\ y.profile = x.profile /\ y.stage = x.stage
          /\ y.crossed = x.crossed /\ y.page = "home"
      BY DEF IsTab, TabFields
    <2> HIDE DEF y
    <2>2. QED
      BY <1>2, <2>1 DEF y
  <1>3. QED
    BY <1>1, <1>2 DEF Outlet

LEMMA ClearedTab ==
    ASSUME NEW x, IsTab(x)
    PROVE  LET y == Cleared(x) IN
           /\ IsTab(y) /\ y.token = None /\ y.profile = None /\ y.stage = x.stage
           /\ y.crossed = x.crossed /\ y.page = "home"
  <1> DEFINE z == [x EXCEPT !.token = None, !.profile = None]
  <1>1. /\ IsTab(z) /\ z.token = None /\ z.profile = None /\ z.stage = x.stage
        /\ z.crossed = x.crossed
    BY DEF IsTab, TabFields
  <1> HIDE DEF z
  <1>2. Cleared(x) = Outlet(z)
    BY DEF Cleared, z
  <1>3. QED
    BY <1>1, <1>2, OutletTab

(* A step of one tab and one request keeps both invariants when the two    *)
(* still fit, and the other requests of the tab fit what it has become.    *)
Inv == AuthInv /\ SessInv

OthersFit(s, t, x) ==
    \A u \in Slots \ {s} :
        (jobs[u] # Idle /\ jobs[u].tab = t /\ Fits(jobs[u], tab[t])) => Fits(jobs[u], x)
NoneStarting(s, t) ==
    \A u \in Slots \ {s} : (jobs[u] # Idle /\ jobs[u].tab = t) => ~Starting(jobs[u])
Heard(next) == next # Idle /\ next.tab \in Tabs

LEMMA PageStep ==
    ASSUME Inv, NEW s \in Slots, NEW t \in Tabs, NEW next, NEW x,
           jobs' = [jobs EXCEPT ![s] = next], tab' = [tab EXCEPT ![t] = x],
           JobOK(next, users, day), IsTab(x), Agrees(x), Dated(x.token, day),
           Dated(storage', day), UNCHANGED <<users, day>>,
           OthersFit(s, t, x),
           Heard(next) => next.tab = t /\ Fits(next, x) /\ (Starting(next) => NoneStarting(s, t))
    PROVE  Inv'
  <1>1. JobsInv' /\ TabsInv'
    BY JobsStep, TabsStep DEF Inv, AuthInv
  <1>2. AuthInv'
    BY <1>1 DEF Inv, AuthInv
  <1>3. /\ \A u \in Slots : jobs'[u] = IF u = s THEN next ELSE jobs[u]
        /\ \A u \in Tabs : tab'[u] = IF u = t THEN x ELSE tab[u]
    BY DEF Inv, AuthInv, JobsInv, TabsInv
  <1>4. \A u \in Tabs : Agrees(tab'[u])
    BY <1>3 DEF Inv, SessInv, OthersFit, NoneStarting, Heard
  <1>5. ASSUME NEW u \in Slots, jobs'[u] # Idle, jobs'[u].tab \in Tabs
        PROVE  Fits(jobs'[u], tab'[jobs'[u].tab])
    BY <1>3, <1>5 DEF Inv, SessInv, OthersFit, NoneStarting, Heard
  <1>6. ASSUME NEW u \in Slots, NEW v \in Slots, u # v, jobs'[u] # Idle, jobs'[v] # Idle,
               jobs'[u].tab = jobs'[v].tab, jobs'[u].tab \in Tabs
        PROVE  ~(Starting(jobs'[u]) /\ Starting(jobs'[v]))
    BY <1>3, <1>6 DEF Inv, SessInv, OthersFit, NoneStarting, Heard
  <1>7. SessInv'
    BY <1>4, <1>5, <1>6 DEF SessInv
  <1>8. QED
    BY <1>2, <1>7 DEF Inv

(* The same when the tab stays as it is.                                   *)
LEMMA QuietStep ==
    ASSUME Inv, NEW s \in Slots, NEW next,
           jobs' = [jobs EXCEPT ![s] = next], tab' = tab, JobOK(next, users, day),
           UNCHANGED <<users, day, storage>>,
           Heard(next) => Fits(next, tab[next.tab]) /\ ~Starting(next)
    PROVE  Inv'
  <1>1. JobsInv'
    BY JobsStep DEF Inv, AuthInv
  <1>2. AuthInv'
    BY <1>1 DEF Inv, AuthInv, TabsInv
  <1>3. \A u \in Slots : jobs'[u] = IF u = s THEN next ELSE jobs[u]
    BY DEF Inv, AuthInv, JobsInv
  <1>4. SessInv'
    BY <1>3 DEF Inv, SessInv, Heard
  <1>5. QED
    BY <1>2, <1>4 DEF Inv

(* Nothing of a request that has been read is heard of in a tab.           *)
LEMMA RestOK ==
    ASSUME Inv, NEW s \in Slots, jobs[s] # Idle
    PROVE  /\ JobOK(Rest(s), users, day)
           /\ ~Heard(Rest(s))
  <1> DEFINE next == [jobs[s] EXCEPT !.tab = "gone"]
  <1>1. JobOK(jobs[s], users, day) /\ IsJob(jobs[s])
    BY DEF Inv, AuthInv, JobsInv, JobOK
  <1>2. /\ IsJob(next) /\ next.kind = jobs[s].kind /\ next.tab = "gone" /\ next.pc = jobs[s].pc
        /\ next.token = jobs[s].token /\ next.code = jobs[s].code /\ next.rows = jobs[s].rows
        /\ next.todo = jobs[s].todo /\ next.adm = jobs[s].adm
    BY <1>1 DEF IsJob, JobFields
  <1> HIDE DEF next
  <1>3. JobOK(next, users, day)
    BY <1>1, <1>2 DEF JobOK, Vouched
  <1>4. Rest(s) = IF jobs[s].todo = {} THEN Idle ELSE next
    BY DEF Rest, next
  <1>5. QED
    BY <1>2, <1>3, <1>4, IdleOK, AccountsAssumption DEF Heard

(* Any answer that logs its tab out.                                       *)
LEMMA OutKeeps == \A s \in Slots : Inv /\ Unauthorized(s) => Inv'
  <1> SUFFICES ASSUME NEW s \in Slots, Inv, Unauthorized(s) PROVE Inv'
    OBVIOUS
  <1> DEFINE j == jobs[s]
             t == j.tab
             y == Ended(tab[t], j.kind)
             x == Cleared(y)
  <1>1. /\ j # Idle /\ t \in Tabs /\ storage' = None /\ jobs' = [jobs EXCEPT ![s] = Rest(s)]
        /\ UNCHANGED <<users, day>>
        /\ j.kind \in AdminKinds \cup {"login", "verify", "poll", "details"}
    BY DEF Unauthorized, Arrives, Done
  <1>2. tab' = [tab EXCEPT ![t] = x]
    BY DEF Unauthorized
  <1>3. IsTab(tab[t]) /\ Agrees(tab[t]) /\ Fits(j, tab[t])
    BY <1>1 DEF Inv, AuthInv, TabsInv, SessInv
  <1>4. /\ IsTab(y) /\ y.crossed = tab[t].crossed
        /\ y.stage = IF j.kind \in {"verify", "details"} THEN "done" ELSE tab[t].stage
    BY <1>3 DEF IsTab, TabFields, Ended
  <1> HIDE DEF y
  <1>5. /\ IsTab(x) /\ x.token = None /\ x.profile = None /\ x.page = "home"
        /\ x.crossed = tab[t].crossed
        /\ x.stage = IF j.kind \in {"verify", "details"} THEN "done" ELSE tab[t].stage
    BY <1>4, ClearedTab
  <1> HIDE DEF x
  <1>6. Agrees(x)
    BY <1>5 DEF Agrees
  <1>7. OthersFit(s, t, x)
    <2>1. Starting(j) => NoneStarting(s, t)
      BY <1>1 DEF Inv, SessInv, NoneStarting
    <2>2. QED
      BY <1>1, <1>3, <1>5, <2>1 DEF OthersFit, Fits, Starting, NoneStarting, AdminKinds
  <1>8. JobOK(Rest(s), users, day) /\ ~Heard(Rest(s))
    BY <1>1, RestOK
  <1>9. Dated(x.token, day) /\ Dated(storage', day)
    BY <1>1, <1>5 DEF Dated
  <1>10. QED
    BY <1>1, <1>2, <1>5, <1>6, <1>7, <1>8, <1>9, PageStep

LEMMA LoggedInKeeps == \A s \in Slots : Inv /\ LoggedIn(s) => Inv'
  <1> SUFFICES ASSUME NEW s \in Slots, Inv, LoggedIn(s) PROVE Inv'
    OBVIOUS
  <1> DEFINE j == jobs[s]
             t == j.tab
             who == [id |-> j.rows.id, name |-> j.rows.name, role |-> j.rows.role]
             y == [tab[t] EXCEPT !.token = storage', !.profile = who]
             x == Outlet(y)
  <1>1. /\ j # Idle /\ t \in Tabs /\ j.kind = "login" /\ j.code = 200
        /\ storage' = [id |-> j.rows.id, day |-> j.rows.day]
        /\ jobs' = [jobs EXCEPT ![s] = Rest(s)] /\ UNCHANGED <<users, day>>
        /\ tab' = [tab EXCEPT ![t] = x]
    BY DEF LoggedIn, Arrives, Done
  <1>2. IsTab(tab[t]) /\ Agrees(tab[t]) /\ Fits(j, tab[t]) /\ JobOK(j, users, day)
    BY <1>1 DEF Inv, AuthInv, TabsInv, SessInv, JobsInv
  <1>3. who.id = j.rows.id /\ storage'.id = j.rows.id /\ storage'.day = j.rows.day
    BY <1>1
  <1> HIDE DEF who
  <1>4. /\ IsTab(y) /\ y.token = storage' /\ y.profile = who /\ y.stage = tab[t].stage
        /\ y.page = tab[t].page /\ y.crossed = tab[t].crossed
    BY <1>2 DEF IsTab, TabFields
  <1> HIDE DEF y
  <1>5. /\ IsTab(x) /\ x.token = storage' /\ x.profile = who /\ x.stage = tab[t].stage
        /\ x.page \in {tab[t].page, "home"} /\ x.crossed = tab[t].crossed
    BY <1>4, OutletTab
  <1> HIDE DEF x
  <1>6. Agrees(x)
    BY <1>1, <1>2, <1>3, <1>5 DEF Agrees, Fits
  <1>7. OthersFit(s, t, x)
    BY <1>1, <1>2, <1>5 DEF OthersFit, Fits
  <1>8. JobOK(Rest(s), users, day) /\ ~Heard(Rest(s))
    BY <1>1, RestOK
  <1>9. Dated(x.token, day) /\ Dated(storage', day)
    BY <1>1, <1>2, <1>3, <1>5 DEF Dated, JobOK
  <1>10. QED
    BY <1>1, <1>5, <1>6, <1>7, <1>8, <1>9, PageStep

LEMMA VerifiedKeeps == \A s \in Slots : Inv /\ Verified(s) => Inv'
  <1> SUFFICES ASSUME NEW s \in Slots, Inv, Verified(s) PROVE Inv'
    OBVIOUS
  <1> DEFINE j == jobs[s]
             t == j.tab
  <1>1. /\ j # Idle /\ t \in Tabs /\ j.kind = "verify" /\ UNCHANGED <<users, day, storage>>
    BY DEF Verified, Arrives
  <1>2. /\ IsTab(tab[t]) /\ Agrees(tab[t]) /\ Fits(j, tab[t]) /\ Dated(storage, day)
        /\ NoneStarting(s, t)
    BY <1>1 DEF Inv, AuthInv, TabsInv, SessInv, Starting, NoneStarting
  <1>3. CASE storage = None
    <2> DEFINE y == [tab[t] EXCEPT !.stage = "done"]
               x == Cleared(y)
    <2>1. tab' = [tab EXCEPT ![t] = x] /\ jobs' = [jobs EXCEPT ![s] = Rest(s)]
      BY <1>3 DEF Verified, Done
    <2>2. IsTab(y) /\ y.crossed = tab[t].crossed /\ y.stage = "done"
      BY <1>2 DEF IsTab, TabFields
    <2> HIDE DEF y
    <2>3. /\ IsTab(x) /\ x.token = None /\ x.profile = None /\ x.page = "home"
          /\ x.crossed = tab[t].crossed /\ x.stage = "done"
      BY <2>2, ClearedTab
    <2> HIDE DEF x
    <2>4. Agrees(x) /\ Dated(x.token, day)
      BY <2>3 DEF Agrees, Dated
    <2>5. OthersFit(s, t, x)
      BY <1>2, <2>3 DEF OthersFit, Fits, Starting, NoneStarting
    <2>6. JobOK(Rest(s), users, day) /\ ~Heard(Rest(s))
      BY <1>1, RestOK
    <2>7. QED
      BY <1>1, <1>2, <2>1, <2>3, <2>4, <2>5, <2>6, PageStep
  <1>4. CASE storage # None
    <2> DEFINE x == [tab[t] EXCEPT !.token = storage, !.stage = "details"]
               next == Request(t, "details", storage, <<>>)
    <2>1. tab' = [tab EXCEPT ![t] = x] /\ jobs' = [jobs EXCEPT ![s] = next]
      BY <1>4 DEF Verified
    <2>2. /\ IsTab(x) /\ x.token = storage /\ x.stage = "details" /\ x.profile = tab[t].profile
          /\ x.page = tab[t].page /\ x.crossed = tab[t].crossed
      BY <1>2 DEF IsTab, TabFields
    <2> HIDE DEF x
    <2>3. /\ next.kind = "details" /\ next.tab = t /\ next.pc = "auth" /\ next.token = storage
          /\ next.code = 0 /\ JobOK(next, users, day)
      <3>1. next.kind = "details"
        BY RequestOK
      <3>2. next.tab = t
        BY RequestOK
      <3>3. next.pc = "auth" /\ next.token = storage
        BY RequestOK
      <3>4. next.code = 0
        BY RequestOK
      <3>5. Dated(storage, day) => JobOK(next, users, day)
        BY RequestOK
      <3>6. QED
        BY <1>2, <3>1, <3>2, <3>3, <3>4, <3>5
    <2> HIDE DEF next
    <2>4. Agrees(x) /\ Fits(next, x)
      BY <1>1, <1>2, <2>2, <2>3 DEF Agrees, Fits, AdminKinds
    <2>5. OthersFit(s, t, x)
      BY <1>1, <1>2, <2>2 DEF OthersFit, Fits, Starting, NoneStarting
    <2>6. QED
      BY <1>1, <1>2, <2>1, <2>2, <2>3, <2>4, <2>5, PageStep
  <1>5. QED
    BY <1>3, <1>4

LEMMA GotDetailsKeeps == \A s \in Slots : Inv /\ GotDetails(s) => Inv'
  <1> SUFFICES ASSUME NEW s \in Slots, Inv, GotDetails(s) PROVE Inv'
    OBVIOUS
  <1> DEFINE j == jobs[s]
             t == j.tab
             x == [tab[t] EXCEPT !.profile = j.rows, !.stage = "done"]
  <1>1. /\ j # Idle /\ t \in Tabs /\ j.kind = "details" /\ j.code = 200
        /\ jobs' = [jobs EXCEPT ![s] = Rest(s)] /\ UNCHANGED <<users, day, storage>>
        /\ tab' = [tab EXCEPT ![t] = x]
    BY DEF GotDetails, Arrives, Done
  <1>2. /\ IsTab(tab[t]) /\ Agrees(tab[t]) /\ Fits(j, tab[t]) /\ Dated(storage, day)
        /\ Dated(tab[t].token, day)
        /\ NoneStarting(s, t)
    BY <1>1 DEF Inv, AuthInv, TabsInv, SessInv, Starting, NoneStarting
  <1>3. /\ IsTab(x) /\ x.token = tab[t].token /\ x.stage = "done" /\ x.profile = j.rows
        /\ x.page = tab[t].page /\ x.crossed = tab[t].crossed
    BY <1>2 DEF IsTab, TabFields
  <1> HIDE DEF x
  <1>4. Agrees(x)
    BY <1>1, <1>2, <1>3 DEF Agrees, Fits
  <1>5. OthersFit(s, t, x)
    BY <1>2, <1>3 DEF OthersFit, Fits, Starting, NoneStarting
  <1>6. JobOK(Rest(s), users, day) /\ ~Heard(Rest(s))
    BY <1>1, RestOK
  <1>7. QED
    BY <1>1, <1>2, <1>3, <1>4, <1>5, <1>6, PageStep

LEMMA ClientKeeps == \A s \in Slots : Inv /\ Client(s) => Inv' /\ users' = users
  <1> SUFFICES ASSUME NEW s \in Slots, Inv, Client(s) PROVE Inv' /\ users' = users
    OBVIOUS
  <1>1. users' = users
    BY DEF Client, Unauthorized, LoggedIn, Verified, GotDetails, Changed, Forgotten
  <1>2. CASE Changed(s)
    <2>1. JobOK(Rest(s), users, day) /\ ~Heard(Rest(s))
      BY <1>2, RestOK DEF Changed, Arrives
    <2>2. jobs' = [jobs EXCEPT ![s] = Rest(s)] /\ UNCHANGED <<users, day, storage, tab>>
      BY <1>2 DEF Changed, Done
    <2>3. QED
      BY <1>1, <2>1, <2>2, QuietStep
  <1>3. CASE Forgotten(s)
    <2>1. jobs' = [jobs EXCEPT ![s] = Idle] /\ UNCHANGED <<users, day, storage, tab>>
      BY <1>3 DEF Forgotten
    <2>2. QED
      BY <1>1, <2>1, QuietStep, IdleOK DEF Heard
  <1>4. QED
    BY <1>1, <1>2, <1>3, OutKeeps, LoggedInKeeps, VerifiedKeeps, GotDetailsKeeps DEF Client

(* What a tab sends to work with: a login, a change, or a poll.            *)
LEMMA SendKeeps ==
    ASSUME Inv, NEW s \in Slots, NEW t \in Tabs, NEW next, Send(s, next), tab' = tab,
           UNCHANGED <<users, day, storage>>, JobOK(next, users, day), next.tab = t,
           next.kind \in AdminKinds \cup {"poll"}, tab[t].page = "users"
    PROVE  Inv'
  <1>1. tab[t].stage = "done"
    BY DEF Inv, SessInv, Agrees
  <1>2. Fits(next, tab[next.tab]) /\ ~Starting(next)
    BY <1>1 DEF Fits, Starting, AdminKinds
  <1>3. jobs' = [jobs EXCEPT ![s] = next]
    BY DEF Send
  <1>4. QED
    BY <1>2, <1>3, QuietStep

LEMMA RefusalOK ==
    ASSUME NEW t
    PROVE  LET j == Refusal(t) IN j.tab = t /\ j.kind = "poll" /\ JobOK(j, users, day)
  <1> DEFINE r == Request(t, "poll", None, <<>>)
             j == [r EXCEPT !.pc = "answer", !.code = 401]
  <1>1. IsJob(r) /\ r.token = None /\ r.todo = {}
    <2>1. IsJob(r)
      BY RequestOK
    <2>2. r.token = None /\ r.todo = {}
      BY RequestOK
    <2>3. QED
      BY <2>1, <2>2
  <1>2. r.tab = t /\ r.kind = "poll"
    <2>1. r.tab = t
      BY RequestOK
    <2>2. r.kind = "poll"
      BY RequestOK
    <2>3. QED
      BY <2>1, <2>2
  <1> HIDE DEF r
  <1>3. /\ IsJob(j) /\ j.kind = "poll" /\ j.tab = t /\ j.token = None /\ j.todo = {}
    BY <1>1, <1>2 DEF IsJob, JobFields
  <1>4. Refusal(t) = j
    BY DEF Refusal, r
  <1> HIDE DEF j
  <1>5. JobOK(j, users, day)
    BY <1>3 DEF JobOK, Vouched, Dated, AdminKinds
  <1>6. QED
    BY <1>3, <1>4, <1>5

LEMMA NewTabOK == /\ IsTab(NewTab) /\ NewTab.token = None /\ NewTab.profile = None
                  /\ NewTab.stage = "new" /\ NewTab.page = "home" /\ ~NewTab.crossed
  BY DEF NewTab, IsTab, TabFields

LEMMA InitAppKeeps == \A t \in Tabs : Inv /\ InitApp(t) => Inv'
  <1> SUFFICES ASSUME NEW t \in Tabs, Inv, InitApp(t) PROVE Inv'
    OBVIOUS
  <1> DEFINE x == [NewTab EXCEPT !.stage = IF storage # None THEN "verify" ELSE "done"]
             first == Request(t, "verify", None, storage)
             away(j) == [j EXCEPT !.tab = "gone"]
  <1>1. PICK s \in Slots :
          jobs' = [u \in Slots |->
               IF u = s /\ storage # None THEN first
               ELSE IF jobs[u] # Idle /\ jobs[u].tab = t THEN away(jobs[u])
               ELSE jobs[u]]
    BY DEF InitApp
  <1>2. UNCHANGED <<users, day, storage>> /\ tab' = [tab EXCEPT ![t] = x]
    BY DEF InitApp
  <1>3. /\ IsTab(x) /\ x.token = None /\ x.profile = None /\ x.page = "home" /\ ~x.crossed
        /\ x.stage = IF storage # None THEN "verify" ELSE "done"
    BY NewTabOK DEF IsTab, TabFields
  <1> HIDE DEF x
  <1>4. Agrees(x) /\ Dated(x.token, day) /\ Dated(storage, day)
    BY <1>3 DEF Agrees, Dated, Inv, AuthInv, TabsInv
  <1>5. /\ first.kind = "verify" /\ first.tab = t /\ JobOK(first, users, day)
    <2>1. first.kind = "verify"
      BY RequestOK
    <2>2. first.tab = t
      BY RequestOK
    <2>3. Dated(None, day) => JobOK(first, users, day)
      BY RequestOK
    <2>4. QED
      BY <2>1, <2>2, <2>3 DEF Dated
  <1> HIDE DEF first
  <1>6. ASSUME NEW j, JobOK(j, users, day), j # Idle
        PROVE  JobOK(away(j), users, day) /\ away(j).tab = "gone"
    <2>1. IsJob(j)
      BY <1>6 DEF JobOK
    <2>2. /\ IsJob(away(j)) /\ away(j).kind = j.kind /\ away(j).tab = "gone" /\ away(j).pc = j.pc
          /\ away(j).token = j.token /\ away(j).code = j.code /\ away(j).rows = j.rows
          /\ away(j).todo = j.todo /\ away(j).adm = j.adm
      BY <2>1 DEF IsJob, JobFields
    <2> HIDE DEF away
    <2>3. QED
      BY <1>6, <2>2 DEF JobOK, Vouched
  <1> HIDE DEF away
  <1>7. \A u \in Slots : JobOK(jobs[u], users, day)
    BY DEF Inv, AuthInv, JobsInv
  <1>8. ASSUME NEW u \in Slots
        PROVE  /\ JobOK(jobs'[u], users, day)
               /\ Heard(jobs'[u]) =>
                    \/ u = s /\ storage # None /\ jobs'[u] = first
                    \/ jobs'[u] = jobs[u] /\ jobs[u].tab # t
    BY <1>1, <1>5, <1>6, <1>7, AccountsAssumption DEF Heard
  <1>9. JobsInv' /\ TabsInv'
    BY <1>1, <1>2, <1>3, <1>4, <1>8, TabsStep DEF JobsInv, Inv, AuthInv
  <1>10. \A u \in Tabs : tab'[u] = IF u = t THEN x ELSE tab[u]
    BY <1>2 DEF Inv, AuthInv, TabsInv
  <1>11. storage # None => Fits(first, x)
    BY <1>3, <1>5 DEF Fits, AdminKinds
  <1>12. ASSUME NEW u \in Slots, jobs'[u] # Idle, jobs'[u].tab \in Tabs
         PROVE  Fits(jobs'[u], tab'[jobs'[u].tab])
    <2>1. CASE u = s /\ storage # None /\ jobs'[u] = first
      BY <1>3, <1>5, <1>10, <1>11, <2>1
    <2>2. CASE jobs'[u] = jobs[u] /\ jobs[u].tab # t
      BY <1>10, <1>12, <2>2 DEF Inv, SessInv
    <2>3. QED
      BY <1>8, <1>12, <2>1, <2>2 DEF Heard
  <1>13. ASSUME NEW u \in Slots, NEW v \in Slots, u # v, jobs'[u] # Idle, jobs'[v] # Idle,
                jobs'[u].tab = jobs'[v].tab, jobs'[u].tab \in Tabs
         PROVE  ~(Starting(jobs'[u]) /\ Starting(jobs'[v]))
    BY <1>5, <1>8, <1>13 DEF Inv, SessInv, Heard
  <1>14. SessInv'
    BY <1>4, <1>10, <1>12, <1>13 DEF Inv, SessInv
  <1>15. QED
    BY <1>2, <1>9, <1>14 DEF Inv, AuthInv

LEMMA LogInKeeps == \A t \in Tabs : Inv /\ LogIn(t) => Inv'
  <1> SUFFICES ASSUME NEW t \in Tabs, Inv, LogIn(t) PROVE Inv'
    OBVIOUS
  <1> DEFINE crossed == tab[t].crossed \/ tab[t].stage # "done"
             x == [tab[t] EXCEPT !.crossed = crossed]
             next(a) == Request(t, "login", None, a)
  <1>1. PICK s \in Slots, a \in Logins : Send(s, next(a))
    BY DEF LogIn
  <1>2. /\ UNCHANGED <<users, day, storage>> /\ tab' = [tab EXCEPT ![t] = x]
        /\ tab[t].profile = None
    BY DEF LogIn
  <1>3. /\ IsTab(tab[t]) /\ Agrees(tab[t]) /\ Dated(tab[t].token, day) /\ Dated(storage, day)
    BY DEF Inv, AuthInv, TabsInv, SessInv
  <1>4. /\ IsTab(x) /\ x.token = tab[t].token /\ x.stage = tab[t].stage
        /\ x.profile = tab[t].profile /\ x.page = tab[t].page
        /\ x.crossed <=> crossed
    <2>1. crossed \in BOOLEAN
      OBVIOUS
    <2> HIDE DEF crossed
    <2>2. QED
      BY <1>3, <2>1 DEF IsTab, TabFields
  <1> HIDE DEF x
  <1>5. next(a).kind = "login" /\ next(a).tab = t /\ JobOK(next(a), users, day)
    <2>1. next(a).kind = "login"
      BY RequestOK
    <2>2. next(a).tab = t
      BY RequestOK
    <2>3. Dated(None, day) => JobOK(next(a), users, day)
      BY RequestOK
    <2>4. QED
      BY <2>1, <2>2, <2>3 DEF Dated
  <1>6. jobs' = [jobs EXCEPT ![s] = next(a)]
    BY <1>1 DEF Send
  <1> HIDE DEF next
  <1>7. Agrees(x)
    BY <1>3, <1>4 DEF Agrees
  <1>8. Fits(next(a), x) /\ ~Starting(next(a))
    BY <1>4, <1>5 DEF Fits, Starting, AdminKinds
  <1>9. OthersFit(s, t, x)
    BY <1>4 DEF OthersFit, Fits
  <1>10. QED
    BY <1>2, <1>3, <1>4, <1>5, <1>6, <1>7, <1>8, <1>9, PageStep

LEMMA BrowserKeeps == \A t \in Tabs : Inv /\ Browser(t) => Inv'
  <1> SUFFICES ASSUME NEW t \in Tabs, Inv, Browser(t) PROVE Inv'
    OBVIOUS
  <1>1. IsTab(tab[t]) /\ Agrees(tab[t]) /\ Dated(tab[t].token, day) /\ Dated(storage, day)
    BY DEF Inv, AuthInv, TabsInv, SessInv
  <1>2. CASE LogOut(t)
    <2> DEFINE x == Cleared(tab[t])
    <2>1. /\ IsTab(x) /\ x.token = None /\ x.profile = None /\ x.page = "home"
          /\ x.stage = tab[t].stage /\ x.crossed = tab[t].crossed
      BY <1>1, ClearedTab
    <2>2. /\ tab' = [tab EXCEPT ![t] = x] /\ tab[t].profile # None
          /\ storage' = None /\ UNCHANGED <<users, day, jobs>>
      BY <1>2 DEF LogOut
    <2> HIDE DEF x
    <2>3. Agrees(x)
      BY <2>1 DEF Agrees
    <2>4. TabsInv'
      BY <2>1, <2>2, TabsStep DEF Inv, AuthInv, Dated
    <2>5. AuthInv'
      BY <2>2, <2>4 DEF Inv, AuthInv, JobsInv
    <2>6. \A u \in Tabs : tab'[u] = IF u = t THEN x ELSE tab[u]
      BY <2>2 DEF Inv, AuthInv, TabsInv
    <2>7. ASSUME NEW s \in Slots, jobs[s] # Idle, jobs[s].tab = t PROVE Fits(jobs[s], x)
      BY <1>1, <2>1, <2>2, <2>7 DEF Inv, SessInv, Fits, Agrees
    <2>8. SessInv'
      BY <2>2, <2>3, <2>6, <2>7 DEF Inv, SessInv
    <2>9. QED
      BY <2>5, <2>8 DEF Inv
  <1>3. CASE OpenUsers(t)
    <2> DEFINE x == [tab[t] EXCEPT !.page = "users"]
    <2>1. /\ IsTab(x) /\ x.token = tab[t].token /\ x.profile = tab[t].profile /\ x.page = "users"
          /\ x.stage = tab[t].stage /\ x.crossed = tab[t].crossed
      BY <1>1 DEF IsTab, TabFields
    <2>2. /\ tab' = [tab EXCEPT ![t] = x] /\ tab[t].stage = "done"
          /\ UNCHANGED <<users, day, storage, jobs>>
      BY <1>3 DEF OpenUsers
    <2> HIDE DEF x
    <2>3. Agrees(x)
      BY <1>1, <2>1, <2>2 DEF Agrees
    <2>4. TabsInv'
      BY <1>1, <2>1, <2>2, TabsStep DEF Inv, AuthInv
    <2>5. AuthInv'
      BY <2>2, <2>4 DEF Inv, AuthInv, JobsInv
    <2>6. \A u \in Tabs : tab'[u] = IF u = t THEN x ELSE tab[u]
      BY <2>2 DEF Inv, AuthInv, TabsInv
    <2>7. ASSUME NEW s \in Slots, jobs[s] # Idle, jobs[s].tab = t PROVE Fits(jobs[s], x)
      BY <2>1, <2>7 DEF Inv, SessInv, Fits
    <2>8. SessInv'
      BY <2>2, <2>3, <2>6, <2>7 DEF Inv, SessInv
    <2>9. QED
      BY <2>5, <2>8 DEF Inv
  <1>4. ASSUME NEW s \in Slots, NEW kind \in AdminKinds, NEW a, tab[t].page = "users",
               Send(s, Request(t, kind, tab[t].token, a)), UNCHANGED <<users, day, storage, tab>>
        PROVE  Inv'
    <2> DEFINE next == Request(t, kind, tab[t].token, a)
    <2>1. kind # "idle"
      BY DEF AdminKinds
    <2>2. next.kind = kind
      BY <2>1, RequestOK
    <2>3. next.tab = t
      BY <2>1, RequestOK
    <2>4. JobOK(next, users, day)
      BY <1>1, <2>1, RequestOK
    <2> HIDE DEF next
    <2>5. Send(s, next)
      BY <1>4 DEF next
    <2>6. QED
      BY <1>4, <2>2, <2>3, <2>4, <2>5, SendKeeps
  <1>5. CASE CreateUser(t)
    BY <1>4, <1>5 DEF CreateUser, AdminKinds
  <1>6. CASE SaveUser(t)
    BY <1>4, <1>6 DEF SaveUser, AdminKinds
  <1>7. CASE DeleteUser(t)
    BY <1>4, <1>7 DEF DeleteUser, AdminKinds
  <1>8. QED
    BY <1>2, <1>3, <1>5, <1>6, <1>7, InitAppKeeps, LogInKeeps DEF Browser

LEMMA PollKeeps == \A t \in Tabs : Inv /\ (GetUsers(t) \/ TokenPoll(t)) => Inv'
  <1> SUFFICES ASSUME NEW t \in Tabs, Inv, GetUsers(t) \/ TokenPoll(t) PROVE Inv'
    OBVIOUS
  <1>1. PICK s \in Slots : Send(s, Refusal(t))
    BY DEF GetUsers, TokenPoll
  <1>2. UNCHANGED <<users, day, storage, tab>> /\ tab[t].page = "users"
    BY DEF GetUsers, TokenPoll
  <1>3. Refusal(t).tab = t /\ Refusal(t).kind = "poll" /\ JobOK(Refusal(t), users, day)
    BY RefusalOK
  <1>4. QED
    BY <1>1, <1>2, <1>3, SendKeeps

(* A day makes no token valid.                                             *)
LEMMA DayKeeps == Inv /\ Day => Inv'
  <1> SUFFICES ASSUME Inv, Day PROVE Inv'
    OBVIOUS
  <1>1. day \in Nat /\ day' = day + 1 /\ UNCHANGED <<users, storage, tab, jobs>>
    BY DEF Inv, AuthInv, Day
  <1>2. \A k : Dated(k, day) => Dated(k, day')
    BY <1>1 DEF Dated
  <1>3. ASSUME NEW j, JobOK(j, users, day) PROVE JobOK(j, users, day')
    BY <1>1, <1>2, <1>3 DEF JobOK, Vouched, Dated
  <1>4. AuthInv'
    BY <1>1, <1>2, <1>3 DEF Inv, AuthInv, TabsInv, JobsInv
  <1>5. SessInv'
    BY <1>1 DEF Inv, SessInv
  <1>6. QED
    BY <1>4, <1>5 DEF Inv

LEMMA InitInv == Init => Inv
  <1> SUFFICES ASSUME Init PROVE Inv
    OBVIOUS
  <1>1. PICK f \in Opened : tab = [t \in Tabs |-> IF f[t] = 0 THEN NewTab ELSE HomeOf(f[t])]
    BY DEF Init
  <1>2. ASSUME NEW i
        PROVE  LET x == HomeOf(i) IN
               IsTab(x) /\ Dated(x.token, 0) /\ Agrees(x)
    <2> DEFINE k == [id |-> i, day |-> 0]
               who == [id |-> i, name |-> Start[i].name, role |-> Start[i].role]
               x == HomeOf(i)
    <2>1. k.id = i /\ k.day = 0 /\ who.id = i
      OBVIOUS
    <2>2. HomeOf(i) = [NewTab EXCEPT !.token = k, !.stage = "done", !.profile = who]
      BY DEF HomeOf
    <2> HIDE DEF k, who
    <2>3. /\ IsTab(x) /\ x.token = k /\ x.stage = "done" /\ x.profile = who
      BY <2>2, NewTabOK DEF IsTab, TabFields
    <2> HIDE DEF x
    <2>4. IsTab(x) /\ Dated(x.token, 0) /\ Agrees(x)
      BY <2>1, <2>3 DEF Dated, Agrees
    <2>5. QED
      BY <2>4 DEF x
  <1>3. IsTab(NewTab) /\ Dated(NewTab.token, 0) /\ Agrees(NewTab)
    BY NewTabOK DEF Dated, Agrees
  <1>4. day = 0 /\ \A t \in Tabs : IsTab(tab[t]) /\ Dated(tab[t].token, 0) /\ Agrees(tab[t])
    BY <1>1, <1>2, <1>3 DEF Init
  <1>5. Dated(storage, 0)
    BY <1>4 DEF Init, Dated
  <1>6. TabsInv
    BY <1>1, <1>4, <1>5 DEF TabsInv
  <1>7. jobs = [s \in Slots |-> Idle]
    BY DEF Init
  <1>8. JobsInv
    BY <1>7, IdleOK DEF JobsInv
  <1>9. \A i \in DOMAIN users : DOMAIN users[i] = {"name", "role", "pw"}
    BY AccountsAssumption DEF Init, Enterable
  <1>10. AuthInv
    BY <1>4, <1>6, <1>8, <1>9 DEF AuthInv
  <1>11. SessInv
    BY <1>4, <1>7 DEF SessInv
  <1>12. QED
    BY <1>10, <1>11 DEF Inv

LEMMA NextInv == Inv /\ [Next]_vars => Inv'
  <1> SUFFICES ASSUME Inv, [Next]_vars PROVE Inv'
    OBVIOUS
  <1>1. CASE UNCHANGED vars
    <2>1. UNCHANGED <<users, day, storage, tab, jobs>>
      BY <1>1 DEF vars
    <2>2. QED
      BY <2>1 DEF Inv, AuthInv, TabsInv, JobsInv, SessInv
  <1>2. ASSUME NEW s \in Slots, Server(s) PROVE Inv'
    <2>1. Serves(s)
      BY <1>2, ServerServes DEF Inv
    <2>2. tab' = tab
      BY <1>2 DEF Server, Auth, CreateCheck, CreateInsert, EditCheck, EditRow, EditPassword,
                  DeleteCheck, DeleteRow, Login, Verify, Details
    <2>3. QED
      BY <2>1, <2>2, LikeSess DEF Inv, Serves
  <1>3. QED
    BY <1>1, <1>2, ClientKeeps, BrowserKeeps, PollKeeps, DayKeeps DEF Next

(* The invariant of the tabs, the tokens and the requests.                 *)
LEMMA AlwaysInv == Spec => []Inv
  BY InitInv, NextInv, PTL DEF Spec

(* A tab at rest has the profile of its token, unless somebody logged in   *)
(* while its page was still loading (initApp and the login of the menu).   *)
THEOREM SessionsAgree == Spec => []SessionAgrees
  <1>1. Inv => SessionAgrees
    BY DEF Inv, SessInv, Agrees, SessionAgrees, Settled
  <1>2. QED
    BY <1>1, AlwaysInv, PTL

(* The accounts change only for a request that the authenticator has seen  *)
(* an admin's valid token in, or whose sender became one under way.        *)
THEOREM ChangesAreAuthorized == Spec => ChangesAuthorized
  <1> DEFINE Authorized ==
        users' # users =>
           \E s \in Slots : jobs[s] # Idle /\ jobs[s].adm
                            /\ (jobs'[s].pc # jobs[s].pc \/ jobs'[s].todo # jobs[s].todo)
  <1>1. Inv /\ Next => Authorized
    <2> SUFFICES ASSUME Inv, Next, users' # users PROVE Authorized
      OBVIOUS
    <2>1. PICK s \in Slots : Server(s)
      <3>1. \A t \in Tabs : ~Browser(t) /\ ~GetUsers(t) /\ ~TokenPoll(t)
        BY DEF Browser, InitApp, LogIn, LogOut, OpenUsers, CreateUser, SaveUser, DeleteUser,
               GetUsers, TokenPoll
      <3>2. ~Day
        BY DEF Day
      <3>3. QED
        BY <3>1, <3>2, ClientKeeps DEF Next
    <2>2. QED
      BY <2>1, ServerServes DEF Inv, Serves
  <1>2. Inv /\ [Next]_vars => [Authorized]_vars
    BY <1>1
  <1>3. QED
    BY <1>2, AlwaysInv, PTL DEF Spec, ChangesAuthorized
=============================================================================
