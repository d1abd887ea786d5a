----------------------------- MODULE Preferences -----------------------------
(***************************************************************************)
(* The preferences of the site: their row, the routes that read and change *)
(* it, and the page of the preferences in several tabs, with its dialog    *)
(* for changes that were not saved and its copy in the cache of the tab.   *)
(*                                                                         *)
(* The fifteen settings are five here: chart and title stand for those of  *)
(* the graphs and of the site that may be anything the page offers, min    *)
(* and max are the dates of the meters, and number is any that is a        *)
(* number.  A date of 0 is a text that is no date.                         *)
(***************************************************************************)
EXTENDS Naturals

CONSTANTS
    Tabs,      \* tabs of admins
    Slots,     \* bound: requests under way at one time
    Charts,    \* what can be chosen for the chart
    Titles,    \* what can be typed for the title
    Dates,     \* what can be typed for a date
    Numbers,   \* what can be typed for a number
    Start,     \* the row at the start
    MaxActs    \* bound: loads, edits and saves

Rows == [chart : Charts, title : Titles, min : Dates \ {0}, max : Dates \ {0}, number : Numbers]

ASSUME PreferencesAssumption ==
    /\ Dates \subseteq Nat /\ Slots \subseteq Nat /\ MaxActs \in Nat
    /\ Start \in Rows /\ Start.min <= Start.max
    /\ "gone" \notin Tabs

VARIABLES
    row,      \* the preferences in the database
    version,  \* history: how often they were written
    tab,      \* what each tab holds
    jobs,     \* the requests under way
    sent,     \* history: the settings of the forms that were sent
    forced,   \* history: the dialog has sent a form that the page calls invalid
    acts      \* loads, edits and saves so far

preferencesVars == <<row, version, tab, jobs, sent, forced, acts>>

NoCopy == [none |-> TRUE]
Idle == [kind |-> "idle"]

(* A form is the settings as the page has them.  A number that was typed   *)
(* is a text.  The form of the default state has settings of its own.      *)
FormOf(r) == [row |-> r, typed |-> FALSE, extra |-> FALSE]
DefaultForm == [FormOf(Start) EXCEPT !.extra = TRUE]

(* The settings the page compares with: the cache's, or the default.       *)
Base(x) == IF x.data = NoCopy THEN DefaultForm ELSE FormOf(x.data)
HasChanges(x) == x.open /\ x.form # Base(x)

(* invalidFuncs: a date is one, and the minimum is not after the maximum.  *)
Invalid(form) == 0 \in {form.row.min, form.row.max} \/ form.row.min > form.row.max

NewTab ==
    [data |-> NoCopy, open |-> FALSE, form |-> DefaultForm, leaving |-> FALSE,
     stale |-> FALSE, seen |-> 0, own |-> 0]

PreferencesInit ==
    /\ row = Start
    /\ version = 0
    /\ tab = [t \in Tabs |-> [NewTab EXCEPT !.data = Start]]
    /\ jobs = [s \in Slots |-> Idle]
    /\ sent = {}
    /\ forced = FALSE
    /\ acts = 0

Act == acts < MaxActs /\ acts' = acts + 1
stored == <<row, version, sent, forced>>

-----------------------------------------------------------------------------
(* Requests.                                                               *)

Free(s) == jobs[s] = Idle /\ \A u \in Slots : jobs[u] = Idle => s <= u

Request(t, kind, body, dialog) ==
    [kind |-> kind, tab |-> t, pc |-> "sent", body |-> body, dialog |-> dialog,
     rows |-> NoCopy, ver |-> 0, code |-> 0]

Send(r) == \E s \in Slots : Free(s) /\ jobs' = [jobs EXCEPT ![s] = r]

Under(t) == \E s \in Slots : jobs[s] # Idle /\ jobs[s].tab = t

(* Fault: only the settings that were changed are sent.                    *)
BodyOfChanges(x) ==
    LET changed == {f \in DOMAIN x.form.row : x.form.row[f] # Base(x).row[f]}
    IN  [x.form EXCEPT !.row = [f \in changed |-> x.form.row[f]]]

(* What is sent is the whole form.                                         *)
Body(x) == x.form

-----------------------------------------------------------------------------
(* The server.                                                             *)

(* GET /: whoever asks, the row is read.                                   *)
ServeGet(s) ==
    /\ jobs[s].kind = "get" /\ jobs[s].pc = "sent"
    /\ jobs' = [jobs EXCEPT ![s] =
                  [@ EXCEPT !.pc = "answer", !.code = 200, !.rows = row, !.ver = version]]
    /\ UNCHANGED <<stored, tab, acts>>

(* validParams: the numbers are numbers, and nothing else is there.        *)
Valid(body) == ~body.typed /\ ~body.extra

(* POST /: what is valid is merged into the row as it is now               *)
(* (Preferences.update).                                                   *)
Merge(old, new) == [f \in DOMAIN old |-> IF f \in DOMAIN new THEN new[f] ELSE old[f]]

PostRead(s) ==
    /\ jobs[s].kind = "post" /\ jobs[s].pc = "sent"
    /\ jobs' = [jobs EXCEPT ![s] =
                  IF Valid(@.body)
                  THEN [@ EXCEPT !.pc = "write", !.rows = Merge(row, jobs[s].body.row)]
                  ELSE [@ EXCEPT !.pc = "answer", !.code = 400]]
    /\ UNCHANGED <<stored, tab, acts>>

(* The row is written after that, all of it; the database refuses a text   *)
(* that is no date.                                                        *)
PostWrite(s) ==
    /\ jobs[s].kind = "post" /\ jobs[s].pc = "write"
    /\ IF 0 \in {jobs[s].rows.min, jobs[s].rows.max}
         THEN /\ jobs' = [jobs EXCEPT ![s] = [@ EXCEPT !.pc = "answer", !.code = 500]]
              /\ UNCHANGED <<row, version>>
         ELSE /\ row' = jobs[s].rows
              /\ version' = version + 1
              /\ jobs' = [jobs EXCEPT ![s] = [@ EXCEPT !.pc = "read", !.ver = version']]
    /\ UNCHANGED <<sent, forced, tab, acts>>

(* The row is read once more for the answer, of which the page uses        *)
(* nothing.                                                                *)
PostAnswer(s) ==
    /\ jobs[s].kind = "post" /\ jobs[s].pc = "read"
    /\ jobs' = [jobs EXCEPT ![s] = [@ EXCEPT !.pc = "answer", !.code = 200, !.rows = row]]
    /\ UNCHANGED <<stored, tab, acts>>

-----------------------------------------------------------------------------
(* A tab and its page.                                                     *)

(* initApp asks for the preferences when the tab is loaded.                *)
Load(t) ==
    /\ Act
    /\ \E s \in Slots :
         /\ Free(s)
         /\ jobs' = [u \in Slots |->
               IF u = s THEN Request(t, "get", NoCopy, FALSE)
               ELSE IF jobs[u] # Idle /\ jobs[u].tab = t THEN [jobs[u] EXCEPT !.tab = "gone"]
               ELSE jobs[u]]
    /\ tab' = [tab EXCEPT ![t] = NewTab]
    /\ UNCHANGED stored

(* The page starts from the cache, however old that is.                    *)
OpenPage(t) ==
    /\ ~tab[t].open
    /\ tab' = [tab EXCEPT ![t] = [@ EXCEPT !.open = TRUE, !.form = Base(tab[t])]]
    /\ UNCHANGED <<stored, jobs, acts>>

Busy(t) == tab[t].open /\ ~tab[t].leaving

(* makeLocalChanges, in each of the three parts of the page.               *)
Type(t, f, v) == tab' = [tab EXCEPT ![t].form.row[f] = v]
TypeNumber(t) ==
    \E n \in Numbers : tab' = [tab EXCEPT ![t].form = [@ EXCEPT !.row.number = n, !.typed = TRUE]]

Editing(t) == Busy(t) /\ Act /\ UNCHANGED <<stored, jobs>>

EditGraph(t) == Editing(t) /\ \E c \in Charts : Type(t, "chart", c)
EditMeter(t) ==
    /\ Editing(t)
    /\ (\E f \in {"min", "max"}, d \in Dates : Type(t, f, d)) \/ TypeNumber(t)
EditSite(t) ==
    /\ Editing(t)
    /\ (\E n \in Titles : Type(t, "title", n)) \/ TypeNumber(t)

Discard(t) ==
    /\ Busy(t) /\ HasChanges(tab[t])
    /\ tab' = [tab EXCEPT ![t].form = Base(tab[t])]
    /\ UNCHANGED <<stored, jobs, acts>>

Submit(t, dialog) ==
    /\ Act
    /\ Send(Request(t, "post", Body(tab[t]), dialog))
    /\ sent' = sent \cup {tab[t].form.row}
    /\ UNCHANGED <<row, version, tab>>

(* The button of the page is there for changes that are all valid.         *)
Save(t) ==
    /\ Busy(t) /\ HasChanges(tab[t]) /\ ~Invalid(tab[t].form)
    /\ Submit(t, FALSE)
    /\ UNCHANGED forced

(* Nothing is left of a form when its page is.                             *)
Away(x) == [x EXCEPT !.open = FALSE, !.leaving = FALSE, !.form = DefaultForm]

(* Going elsewhere: with changes the dialog comes up (useBlocker).         *)
LeavePage(t) ==
    /\ Busy(t)
    /\ tab' = [tab EXCEPT ![t] = IF HasChanges(@) THEN [@ EXCEPT !.leaving = TRUE]
                                 ELSE Away(@)]
    /\ UNCHANGED <<stored, jobs, acts>>

(* blocker.reset and blocker.proceed.                                      *)
AnswerDialog(t) ==
    /\ tab[t].leaving
    /\ \E x \in {[tab[t] EXCEPT !.leaving = FALSE], Away(tab[t])} : tab' = [tab EXCEPT ![t] = x]
    /\ UNCHANGED <<stored, jobs, acts>>

(* The dialog saves what the form holds, valid or not.                     *)
SaveAll(t) ==
    /\ tab[t].leaving
    /\ Submit(t, TRUE)
    /\ forced' = (forced \/ Invalid(tab[t].form))

-----------------------------------------------------------------------------
(* Answers.                                                                *)

Arrives(s, kind) == jobs[s].kind = kind /\ jobs[s].pc = "answer" /\ jobs[s].tab \in Tabs

(* Fault: the copy is up to date with whatever has been answered by now.   *)
FetchedLast(x, j) ==
    [x EXCEPT !.data = j.rows, !.seen = j.ver, !.stale = FALSE,
              !.form = IF x.open /\ j.rows # x.data THEN FormOf(j.rows) ELSE @]

(* getPreferences.matchFulfilled.  A copy that is the same stays the same  *)
(* object; only another one sets the form back.                            *)
Fetched(x, j) ==
    [x EXCEPT !.data = j.rows, !.seen = j.ver,
              !.form = IF x.open /\ j.rows # x.data THEN FormOf(j.rows) ELSE @]

AnswerGet(s) ==
    /\ Arrives(s, "get")
    /\ tab' = [tab EXCEPT ![jobs[s].tab] = Fetched(@, jobs[s])]
    /\ jobs' = [jobs EXCEPT ![s] = Idle]
    /\ UNCHANGED <<stored, acts>>

(* Saved or refused, the preferences are asked for again, and the dialog,  *)
(* if it is still there, lets the tab go elsewhere.                        *)
AnswerPost(s) ==
    /\ Arrives(s, "post")
    /\ LET t == jobs[s].tab
           x == [tab[t] EXCEPT !.stale = TRUE, !.own = IF jobs[s].code = 200 THEN jobs[s].ver ELSE @]
       IN  tab' = [tab EXCEPT ![t] = IF jobs[s].dialog /\ x.leaving THEN Away(x) ELSE x]
    /\ jobs' = [jobs EXCEPT ![s] = Idle]
    /\ UNCHANGED <<stored, acts>>

(* The tab asks once none of its requests is under way.                    *)
AskAgain(t) ==
    /\ tab[t].stale /\ ~Under(t)
    /\ Send(Request(t, "get", NoCopy, FALSE))
    /\ tab' = [tab EXCEPT ![t].stale = FALSE]
    /\ UNCHANGED <<stored, acts>>

(* Nobody waits for the answer of a page that was loaded again.            *)
Forget(s) ==
    /\ jobs[s] # Idle /\ jobs[s].tab = "gone" /\ jobs[s].pc = "answer"
    /\ jobs' = [jobs EXCEPT ![s] = Idle]
    /\ UNCHANGED <<stored, tab, acts>>

Server(s) == ServeGet(s) \/ PostRead(s) \/ PostWrite(s) \/ PostAnswer(s)
Client(s) == AnswerGet(s) \/ AnswerPost(s) \/ Forget(s)
Page(t) ==
    \/ Load(t) \/ OpenPage(t) \/ EditGraph(t) \/ EditMeter(t) \/ EditSite(t)
    \/ Discard(t) \/ Save(t) \/ LeavePage(t)
    \/ AnswerDialog(t) \/ SaveAll(t) \/ AskAgain(t)

PreferencesNext == (\E s \in Slots : Server(s) \/ Client(s)) \/ (\E t \in Tabs : Page(t))

PreferencesSpec == PreferencesInit /\ [][PreferencesNext]_preferencesVars

-----------------------------------------------------------------------------
(* However saves cross, the row is the form of one of them as a whole,     *)
(* never settings of one and settings of another (Preferences.update); and *)
(* its dates get out of order only when the dialog has sent a form that    *)
(* the page calls invalid (invalidFuncs, UnsavedWarningComponent).         *)
RowIsOneForm ==
    /\ row \in {Start} \cup sent
    /\ row.min > row.max => forced

(* A tab at rest has read the row after its last save (invalidatesTags).   *)
OwnSavesShown ==
    \A t \in Tabs : (~Under(t) /\ ~tab[t].stale) => tab[t].seen >= tab[t].own
=============================================================================
