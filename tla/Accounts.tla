------------------------------ MODULE Accounts ------------------------------
(***************************************************************************)
(* User accounts and sessions: the routes of users, login and verification *)
(* with the authenticator in front of them, and the tabs of one browser    *)
(* that hold a session and edit the accounts.                              *)
(*                                                                         *)
(* A request is a job in one of Slots.  The server takes it from one await *)
(* to the next, so the steps of two requests interleave; the tab applies   *)
(* the answer when it arrives.  A token is the id it was signed for and    *)
(* the day of its signing: it expires when a day has passed.  The token in *)
(* localStorage is shared by the tabs, the token in the store is not.      *)
(***************************************************************************)
EXTENDS Naturals, FiniteSets

CONSTANTS
    Names,      \* user names
    Short,      \* the names of three or four characters
    Passwords,  \* passwords of at least eight characters
    Logins,     \* what may be tried: records of name, pw
    New,        \* what may be created: records of name, role, pw
    Edits,      \* what may be saved: records of id, name, role, pw
    Tabs,       \* the tabs of one browser
    Slots,      \* bound: requests under way at one time
    MaxId,      \* bound: accounts ever made
    MaxActs,    \* bound: loads, logins and changes
    MaxDays,    \* bound: days that pass
    Start,      \* the accounts there are at the start
    Opened      \* who has logged in where by then: functions from Tabs, 0 for nobody

Roles == {"admin", "csv"}

(* What can be entered for a new account before its button is enabled.     *)
Enterable == [name : Names, role : Roles, pw : Passwords]

ASSUME AccountsAssumption ==
    /\ Short \subseteq Names
    /\ Logins \subseteq [name : Names, pw : Passwords]
    /\ New \subseteq Enterable
    /\ Edits \subseteq [id : 1..MaxId, name : Names, role : Roles, pw : Passwords \cup {"empty"}]
    /\ {MaxId, MaxActs, MaxDays} \subseteq Nat
    /\ DOMAIN Start \subseteq 1..MaxId
    /\ \A i \in DOMAIN Start : Start[i] \in Enterable
    /\ \E i \in DOMAIN Start : Start[i].role = "admin"
    /\ Opened \subseteq [Tabs -> {0} \cup DOMAIN Start] /\ "gone" \notin Tabs

VARIABLES
    users,    \* the table: id -> name, role, password
    lastId,   \* the sequence of the table
    day,      \* the day it is
    storage,  \* the token in localStorage
    tab,      \* what each tab holds
    jobs,     \* the requests under way
    acts      \* loads, logins and changes so far

vars == <<users, lastId, day, storage, tab, jobs, acts>>

None == [id |-> 0]
Idle == [kind |-> "idle"]
Ids == DOMAIN users
NameTaken(n) == \E i \in Ids : users[i].name = n
Valid(token) == token # None /\ token.day = day

(* isRoleAuthorized for the pages and routes of an admin.                  *)
AdminToken(token) ==
    token # None /\ token.id \in Ids /\ users[token.id].role = "admin"
IsAdmin(t) == tab[t].token # None /\ tab[t].profile # None /\ tab[t].profile.role = "admin"

NewTab == [token |-> None, profile |-> None, stage |-> "new", page |-> "home", crossed |-> FALSE]

(* A tab of somebody who has logged in before.                             *)
HomeOf(i) ==
    [NewTab EXCEPT !.token = [id |-> i, day |-> 0], !.stage = "done",
                   !.profile = [id |-> i, name |-> Start[i].name, role |-> Start[i].role]]

Init ==
    /\ users = Start
    /\ lastId = Cardinality(DOMAIN Start)
    /\ day = 0
    /\ \E f \in Opened : tab = [t \in Tabs |-> IF f[t] = 0 THEN NewTab ELSE HomeOf(f[t])]
    /\ storage \in {None} \cup {tab[t].token : t \in Tabs}
    /\ jobs = [s \in Slots |-> Idle]
    /\ acts = 0

-----------------------------------------------------------------------------
(* Requests.  adm is of the properties only: whether the sender was an     *)
(* admin with a valid token at some time since it was sent.                *)

(* Every request carries the token of the store (baseApi).                 *)
Request(t, kind, token, args) ==
    [kind |-> kind, tab |-> t, pc |-> "auth", token |-> token, args |-> args,
     todo |-> {}, code |-> 0, rows |-> <<>>, adm |-> Valid(token) /\ AdminToken(token)]

(* A request takes the first slot that is free.                            *)
Free(s) == jobs[s] = Idle /\ \A u \in Slots : jobs[u] = Idle => s <= u

Send(s, r) == Free(s) /\ jobs' = [jobs EXCEPT ![s] = r]

(* What is left of a request is its answer.                                *)
Reply(s, code, rows) ==
    [jobs EXCEPT ![s] = [Request(@.tab, @.kind, None, <<>>) EXCEPT
        !.pc = "answer", !.code = code, !.rows = rows]]

Answer(s, code) == jobs' = Reply(s, code, <<>>)

GoOn(s, pc) == jobs' = [jobs EXCEPT ![s].pc = pc]

(* What the other requests see of a change to the table.                   *)
Watch(js) ==
    [s \in Slots |->
        IF js[s] = Idle \/ js[s].token = None THEN js[s]
        ELSE LET i == js[s].token.id IN
             [js[s] EXCEPT
                !.adm = @ \/ (js[s].token.day = day /\ i \in DOMAIN users' /\ users'[i].role = "admin")]]

AdminKinds == {"create", "edit", "delete"}

(* Fault: the role is not asked for.                                       *)
AuthAnyone(s) ==
    /\ jobs[s].kind \in AdminKinds /\ jobs[s].pc = "auth"
    /\ LET k == jobs[s].token IN
       IF k = None THEN Answer(s, 403)
       ELSE IF ~Valid(k) THEN Answer(s, 401)
       ELSE IF k.id \notin Ids THEN Answer(s, 401)
       ELSE GoOn(s, "do")
    /\ UNCHANGED <<users, lastId, day, storage, tab, acts>>

(* authMiddleware: how it refuses a token, 0 if it does not.               *)
Refused(token) ==
    IF token = None THEN 403 ELSE IF Valid(token) /\ token.id \in Ids THEN 0 ELSE 401

(* roleTokenAuthMiddleware asks for the account again, for its role; when  *)
(* it is gone it may have been there for authMiddleware.                   *)
Auth(s) ==
    /\ jobs[s].kind \in AdminKinds /\ jobs[s].pc = "auth"
    /\ LET k == jobs[s].token IN
       \/ Refused(k) # 0 /\ Answer(s, Refused(k))
       \/ Valid(k) /\ IF AdminToken(k) THEN GoOn(s, "do") ELSE Answer(s, 403)
    /\ UNCHANGED <<users, lastId, day, storage, tab, acts>>

(* POST /create looks for the name, hashes the password, then inserts.     *)
CreateCheck(s) ==
    /\ jobs[s].kind = "create" /\ jobs[s].pc = "do"
    /\ IF NameTaken(jobs[s].args.name) THEN Answer(s, 400) ELSE GoOn(s, "insert")
    /\ UNCHANGED <<users, lastId, day, storage, tab, acts>>

(* A name that came up since then is refused by the table.                 *)
CreateInsert(s) ==
    /\ jobs[s].kind = "create" /\ jobs[s].pc = "insert"
    /\ lastId < MaxId
    /\ lastId' = lastId + 1
    /\ IF NameTaken(jobs[s].args.name)
         THEN Answer(s, 500) /\ UNCHANGED users
         ELSE LET a == jobs[s].args IN
              /\ users' = [i \in Ids \cup {lastId'} |->
                             IF i = lastId' THEN [name |-> a.name, role |-> a.role, pw |-> a.pw]
                             ELSE users[i]]
              /\ jobs' = Watch(Reply(s, 200, <<>>))
    /\ UNCHANGED <<day, storage, tab, acts>>

(* getNumberOfAdmins answers the row [count |-> n] and not n: the          *)
(* comparison of the row with 2 is one with NaN, and false.                *)
FewAdmins == FALSE

(* POST /edit: a password must have eight characters when it is present,   *)
(* and the page always sends one (PagePassword).  The guard of the last    *)
(* admin reads the table; then both writes are under way.                  *)
EditCheck(s) ==
    /\ jobs[s].kind = "edit" /\ jobs[s].pc = "do"
    /\ LET a == jobs[s].args IN
       IF a.pw \notin Passwords THEN Answer(s, 400)
       ELSE IF a.id \notin Ids THEN Answer(s, 500)
       ELSE IF users[a.id].role = "admin" /\ a.role # "admin" /\ FewAdmins THEN Answer(s, 400)
       ELSE jobs' = [jobs EXCEPT ![s].pc = "write", ![s].todo = {"row", "pw"}]
    /\ UNCHANGED <<users, lastId, day, storage, tab, acts>>

(* The job after one of its writes.  Promise.all answers when both are     *)
(* done, or when one has failed; the other goes on.                        *)
Wrote(s, w, failed) ==
    IF jobs[s].todo = {w}
    THEN Reply(s, IF failed \/ jobs[s].code = 500 THEN 500 ELSE 200, <<>>)
    ELSE [jobs EXCEPT ![s].todo = @ \ {w}, ![s].code = IF failed THEN 500 ELSE @]

(* updateUser writes the whole row but the password.                       *)
EditRow(s) ==
    /\ jobs[s].kind = "edit" /\ "row" \in jobs[s].todo
    /\ LET a == jobs[s].args
           clash == \E i \in Ids \ {a.id} : users[i].name = a.name
           hit == a.id \in Ids
       IN IF hit /\ clash
          THEN users' = users /\ jobs' = Wrote(s, "row", TRUE)
          ELSE /\ users' = IF hit THEN [users EXCEPT ![a.id] =
                                         [@ EXCEPT !.name = a.name, !.role = a.role]]
                           ELSE users
               /\ jobs' = Watch(Wrote(s, "row", FALSE))
    /\ UNCHANGED <<lastId, day, storage, tab, acts>>

(* updateUserPassword, after the hash.                                     *)
EditPassword(s) ==
    /\ jobs[s].kind = "edit" /\ "pw" \in jobs[s].todo
    /\ LET a == jobs[s].args IN
       users' = IF a.id \in Ids THEN [users EXCEPT ![a.id].pw = a.pw] ELSE users
    /\ jobs' = Wrote(s, "pw", FALSE)
    /\ UNCHANGED <<lastId, day, storage, tab, acts>>

(* POST /delete takes names of five characters or more, and refuses the    *)
(* name its sender has now.                                                *)
DeleteCheck(s) ==
    /\ jobs[s].kind = "delete" /\ jobs[s].pc = "do"
    /\ IF jobs[s].args.name \in Short THEN Answer(s, 400)
       ELSE IF jobs[s].token.id \notin Ids THEN Answer(s, 500)
       ELSE IF users[jobs[s].token.id].name = jobs[s].args.name THEN Answer(s, 400)
       ELSE GoOn(s, "remove")
    /\ UNCHANGED <<users, lastId, day, storage, tab, acts>>

DeleteRow(s) ==
    /\ jobs[s].kind = "delete" /\ jobs[s].pc = "remove"
    /\ users' = [i \in {i \in Ids : users[i].name # jobs[s].args.name} |-> users[i]]
    /\ jobs' = Watch(Reply(s, 200, <<>>))
    /\ UNCHANGED <<lastId, day, storage, tab, acts>>

-----------------------------------------------------------------------------
(* Sessions on the server: these routes read once.                         *)

(* POST /login: the account of the name, if the password is its own.       *)
Login(s) ==
    /\ jobs[s].kind = "login" /\ jobs[s].pc = "auth"
    /\ LET ok == {i \in Ids : users[i].name = jobs[s].args.name /\ users[i].pw = jobs[s].args.pw} IN
       IF ok = {} THEN Answer(s, 401)
       ELSE \E i \in ok :
              jobs' = Reply(s, 200,
                        [id |-> i, day |-> day, name |-> users[i].name, role |-> users[i].role])
    /\ UNCHANGED <<users, lastId, day, storage, tab, acts>>

(* POST /verification looks at the token only, not at its account.         *)
VerifiedToken(token) == Valid(token)

Verify(s) ==
    /\ jobs[s].kind = "verify" /\ jobs[s].pc = "auth"
    /\ Answer(s, IF VerifiedToken(jobs[s].args) THEN 200 ELSE 401)
    /\ UNCHANGED <<users, lastId, day, storage, tab, acts>>

(* GET /token: who the token is of.                                        *)
Details(s) ==
    /\ jobs[s].kind = "details" /\ jobs[s].pc = "auth"
    /\ LET k == jobs[s].token IN
       IF k = None THEN Answer(s, 403)
       ELSE IF Valid(k) /\ k.id \in Ids
       THEN jobs' = Reply(s, 200, [id |-> k.id, name |-> users[k.id].name, role |-> users[k.id].role])
       ELSE Answer(s, 401)
    /\ UNCHANGED <<users, lastId, day, storage, tab, acts>>

-----------------------------------------------------------------------------
(* A tab.  The cards of the page are of a list that may be out of date: a  *)
(* card is of any account there has been, under any name.                  *)

Of(t, kinds) == \E s \in Slots : jobs[s] # Idle /\ jobs[s].tab = t /\ jobs[s].kind \in kinds
Settled(t) == tab[t].stage = "done" /\ ~Of(t, {"login", "verify", "details"})

(* The 401 on its way to a query that changes nothing.                     *)
Refusal(t) == [Request(t, "poll", None, <<>>) EXCEPT !.pc = "answer", !.code = 401]

Act == acts < MaxActs /\ acts' = acts + 1

(* AdminOutlet: without an admin the page is left, and its cards with it.  *)
Outlet(x) ==
    IF x.token # None /\ x.profile # None /\ x.profile.role = "admin" THEN x
    ELSE [x EXCEPT !.page = "home"]

(* Fault: only the token is cleared.                                       *)
ClearedOfToken(x) == Outlet([x EXCEPT !.token = None])

(* clearCurrentUser.                                                       *)
Cleared(x) == Outlet([x EXCEPT !.token = None, !.profile = None])

(* initApp, when the page is loaded or loaded again.                       *)
InitApp(t) ==
    /\ Act
    /\ \E s \in Slots :
         /\ Free(s)
         /\ jobs' = [u \in Slots |->
               IF u = s /\ storage # None THEN Request(t, "verify", None, storage)
               ELSE IF jobs[u] # Idle /\ jobs[u].tab = t THEN [jobs[u] EXCEPT !.tab = "gone"]
               ELSE jobs[u]]
    /\ tab' = [tab EXCEPT ![t] = [NewTab EXCEPT !.stage = IF storage # None THEN "verify" ELSE "done"]]
    /\ UNCHANGED <<users, lastId, day, storage>>

(* The menu offers to log in whenever there is no profile.                 *)
LogIn(t) ==
    /\ tab[t].stage # "new" /\ tab[t].profile = None /\ ~Of(t, {"login"})
    /\ Act
    /\ \E s \in Slots, a \in Logins : Send(s, Request(t, "login", None, a))
    /\ tab' = [tab EXCEPT ![t].crossed = @ \/ tab[t].stage # "done"]
    /\ UNCHANGED <<users, lastId, day, storage>>

LogOut(t) ==
    /\ tab[t].profile # None
    /\ storage' = None
    /\ tab' = [tab EXCEPT ![t] = Cleared(@)]
    /\ UNCHANGED <<users, lastId, day, jobs, acts>>

(* The menu of pages shows that of the users to an admin who is elsewhere. *)
Offered(t) == IsAdmin(t) /\ tab[t].page # "users"

OpenUsers(t) ==
    /\ Offered(t) /\ tab[t].stage = "done"
    /\ tab' = [tab EXCEPT ![t].page = "users"]
    /\ UNCHANGED <<users, lastId, day, storage, jobs, acts>>

(* The list of the accounts, when it is out of date.  It changes nothing   *)
(* here when it comes, nor when its sender is no admin any more (403).     *)
GetUsers(t) ==
    /\ tab[t].page = "users" /\ ~Of(t, {"poll"})
    /\ ~Valid(tab[t].token) \/ tab[t].token.id \notin Ids
    /\ \E s \in Slots : Send(s, Refusal(t))
    /\ UNCHANGED <<users, lastId, day, storage, tab, acts>>

CreateUser(t) ==
    /\ tab[t].page = "users"
    /\ Act
    /\ \E s \in Slots, a \in New : Send(s, Request(t, "create", tab[t].token, a))
    /\ UNCHANGED <<users, lastId, day, storage, tab>>

(* What may be typed into a card.                                          *)
Typed == {a \in Edits : a.id <= lastId}

(* Typing into a card and saving it.  The page always sends a password,    *)
(* empty when none was typed.                                              *)
SaveUser(t) ==
    /\ tab[t].page = "users"
    /\ Act
    /\ \E s \in Slots, a \in Typed : Send(s, Request(t, "edit", tab[t].token, a))
    /\ UNCHANGED <<users, lastId, day, storage, tab>>

(* The card is reset before the question whether to delete is asked; that  *)
(* also forgets that it is the admin's own, so the button sends any name.  *)
DeleteUser(t) ==
    /\ tab[t].page = "users"
    /\ Act
    /\ \E s \in Slots, n \in Names :
         Send(s, Request(t, "delete", tab[t].token, [name |-> n]))
    /\ UNCHANGED <<users, lastId, day, storage, tab>>

(* tokenPoll, every minute: it verifies the token in localStorage.  Only   *)
(* a refused poll does anything: its answer is on the way.                 *)
TokenPoll(t) ==
    /\ tab[t].page = "users" /\ storage # None /\ ~VerifiedToken(storage) /\ ~Of(t, {"poll"})
    /\ \E s \in Slots : Send(s, Refusal(t))
    /\ UNCHANGED <<users, lastId, day, storage, tab, acts>>

-----------------------------------------------------------------------------
(* Answers.                                                                *)

Arrives(s, kinds) == jobs[s] # Idle /\ jobs[s].tab \in Tabs /\ jobs[s].code # 0 /\ jobs[s].kind \in kinds

(* The job when its answer has been read: a write may still be under way.  *)
Rest(s) == IF jobs[s].todo = {} THEN Idle ELSE [jobs[s] EXCEPT !.tab = "gone"]
Done(s) == jobs' = [jobs EXCEPT ![s] = Rest(s)]

(* initApp has ended when one of its requests is answered so.              *)
Ended(x, kind) == IF kind \in {"verify", "details"} THEN [x EXCEPT !.stage = "done"] ELSE x

(* Fault: the listener takes 401 for the answer of a poll as any other.    *)
UnauthorizedButPoll(s) ==
    /\ Arrives(s, AdminKinds \cup {"login", "verify", "details"})
    /\ jobs[s].code = 401 \/ (jobs[s].kind = "details" /\ jobs[s].code = 403)
    /\ storage' = None
    /\ tab' = [tab EXCEPT ![jobs[s].tab] = Cleared(Ended(@, jobs[s].kind))]
    /\ Done(s)
    /\ UNCHANGED <<users, lastId, day, acts>>

(* Any 401 logs the tab out (unauthorizedRequestListener), a refused login *)
(* too; initApp does the same for any failure of its own two requests.     *)
Unauthorized(s) ==
    /\ Arrives(s, AdminKinds \cup {"login", "verify", "poll", "details"})
    /\ jobs[s].code = 401 \/ (jobs[s].kind = "details" /\ jobs[s].code = 403)
    /\ storage' = None
    /\ tab' = [tab EXCEPT ![jobs[s].tab] = Cleared(Ended(@, jobs[s].kind))]
    /\ Done(s)
    /\ UNCHANGED <<users, lastId, day, acts>>

(* login.matchFulfilled.                                                   *)
LoggedIn(s) ==
    /\ Arrives(s, {"login"}) /\ jobs[s].code = 200
    /\ LET r == jobs[s].rows IN
       /\ storage' = [id |-> r.id, day |-> r.day]
       /\ tab' = [tab EXCEPT ![jobs[s].tab] = Outlet([@ EXCEPT !.token = storage',
                    !.profile = [id |-> r.id, name |-> r.name, role |-> r.role]])]
    /\ Done(s)
    /\ UNCHANGED <<users, lastId, day, acts>>

(* initApp goes on: the token it puts into the store is the one that is in *)
(* localStorage now; without one it ends as a failure does.                *)
Verified(s) ==
    /\ Arrives(s, {"verify"}) /\ jobs[s].code = 200
    /\ LET t == jobs[s].tab IN
       IF storage = None
       THEN /\ tab' = [tab EXCEPT ![t] = Cleared([@ EXCEPT !.stage = "done"])]
            /\ Done(s)
       ELSE /\ tab' = [tab EXCEPT ![t] = [@ EXCEPT !.token = storage, !.stage = "details"]]
            /\ jobs' = [jobs EXCEPT ![s] = Request(t, "details", storage, <<>>)]
    /\ UNCHANGED <<users, lastId, day, storage, acts>>

(* getUserDetails.matchFulfilled ends initApp.                             *)
GotDetails(s) ==
    /\ Arrives(s, {"details"}) /\ jobs[s].code = 200
    /\ tab' = [tab EXCEPT ![jobs[s].tab] = [@ EXCEPT !.profile = jobs[s].rows, !.stage = "done"]]
    /\ Done(s)
    /\ UNCHANGED <<users, lastId, day, storage, acts>>

(* A change is answered, done or refused; the list is asked for again.     *)
Changed(s) ==
    /\ Arrives(s, AdminKinds) /\ jobs[s].code # 401
    /\ Done(s)
    /\ UNCHANGED <<users, lastId, day, storage, tab, acts>>

(* Nobody waits for the answer of a page that was loaded again.            *)
Forgotten(s) ==
    /\ jobs[s] # Idle /\ jobs[s].tab = "gone" /\ jobs[s].code # 0 /\ jobs[s].todo = {}
    /\ jobs' = [jobs EXCEPT ![s] = Idle]
    /\ UNCHANGED <<users, lastId, day, storage, tab, acts>>

(* A day passes.                                                           *)
Day ==
    /\ day < MaxDays
    /\ day' = day + 1
    /\ UNCHANGED <<users, lastId, storage, tab, jobs, acts>>

Server(s) ==
    \/ Auth(s) \/ CreateCheck(s) \/ CreateInsert(s)
    \/ EditCheck(s) \/ EditRow(s) \/ EditPassword(s) \/ DeleteCheck(s) \/ DeleteRow(s)
    \/ Login(s) \/ Verify(s) \/ Details(s)
Client(s) ==
    \/ Unauthorized(s) \/ LoggedIn(s) \/ Verified(s) \/ GotDetails(s)
    \/ Changed(s) \/ Forgotten(s)
Browser(t) ==
    \/ InitApp(t) \/ LogIn(t) \/ LogOut(t) \/ OpenUsers(t) \/ CreateUser(t)
    \/ SaveUser(t) \/ DeleteUser(t)

Next ==
    \/ Day
    \/ \E s \in Slots : Server(s) \/ Client(s)
    \/ \E t \in Tabs : Browser(t) \/ GetUsers(t) \/ TokenPoll(t)

(* Requests are served and answered, and the minute of the poll passes.    *)
Fairness ==
    /\ \A s \in Slots : WF_vars(Server(s)) /\ WF_vars(Client(s))
    /\ \A t \in Tabs : WF_vars(TokenPoll(t))

Spec == Init /\ [][Next]_vars
LiveSpec == Spec /\ Fairness

-----------------------------------------------------------------------------
(* The accounts change only for a request whose sender was an admin with a *)
(* valid token at some time while it was under way.                        *)
ChangesAuthorized ==
    [][users' # users =>
         \E s \in Slots : jobs[s] # Idle /\ jobs[s].adm
                          /\ (jobs'[s].pc # jobs[s].pc \/ jobs'[s].todo # jobs[s].todo)]_vars

(* A tab at rest has a profile when it has a token, and both are of one    *)
(* account, unless somebody logged in while the page was still loading.    *)
SessionAgrees ==
    \A t \in Tabs : (Settled(t) /\ ~tab[t].crossed) =>
        tab[t].token.id = tab[t].profile.id

(* A page of an admin notices that the token in localStorage has expired,  *)
(* when that is the token it works with (tokenPoll).                       *)
ExpiryNoticed ==
    \A t \in Tabs :
        (tab[t].page = "users" /\ tab[t].token = storage /\ ~Valid(storage))
          ~> (tab[t].page # "users" \/ tab[t].token # storage \/ Valid(storage))
=============================================================================
