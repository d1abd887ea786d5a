-------------------------- MODULE MeterPagesProofs --------------------------
(***************************************************************************)
(* Proofs about MeterPages, for any meters, units, files, entries and      *)
(* numbers of acts and lost answers.                                       *)
(***************************************************************************)
EXTENDS MeterPages, TLAPS

Table == [Names -> Rows \cup {Absent}]
Form == [name : Names \cup {NoName}, unit : Units \cup {NoChoice}, limits : Units \cup {Widest},
         cumulative : BOOLEAN, reset : BOOLEAN, odd : SUBSET Bounded]
Answers == {"sent", "done", "refused"}
AddRequest == [state : Answers, name : Names, row : Rows, warned : BOOLEAN, here : BOOLEAN]
EditRequest == [state : Answers, name : Names, row : Rows, here : BOOLEAN]
FileUpload == [state : Answers, done : SUBSET Nat, rows : Seq(FileRows), update : BOOLEAN,
               to : Names \cup {NoName}]

TypeOK ==
    /\ table \in Table /\ list \in Table /\ local \in Table
    /\ fetch \in [stale : BOOLEAN, state : {"none", "asked", "read"}, rows : Table]
    /\ create \in [open : BOOLEAN, form : Form]
    /\ DOMAIN pending = Kinds
    /\ pending["add"] \in {NoRequest} \cup AddRequest
    /\ pending["edit"] \in {NoRequest} \cup EditRequest
    /\ files \in [Uploaders -> {NoUpload} \cup FileUpload]

(* The form of a listed meter is a row.                                    *)
FormsOfListed == \A n \in Names : list[n] # Absent => local[n] # Absent

(* A meter that a request or a file has written is in the table.           *)
AddDone(n) == pending["add"].state = "done" /\ pending["add"].name = n
Uploaded(w) == IF files[w].state = "none" THEN {} ELSE Written(files[w])

WrittenExist ==
    /\ \A n \in Names : AddDone(n) => table[n] # Absent
    /\ \A w \in Uploaders : \A n \in Uploaded(w) : table[n] # Absent

(* What the pages check before they send.                                  *)
Checked ==
    /\ pending["add"].state # "none" => pending["add"].warned \/ pending["add"].row.odd = {}
    /\ pending["edit"].state # "none" => pending["edit"].row.odd = {}

(* What the browser will list when the answer that is on its way has come, *)
(* and why that may differ from the table: the list will be asked for      *)
(* again, or nobody told the browser.                                      *)
Coming == IF fetch.state = "read" THEN fetch.rows ELSE list

Excused(n) ==
    \/ fetch.stale \/ fetch.state = "asked"
    \/ pending["edit"].state # "none"
    \/ n \in Uploaded("page")
    \/ n \in unseen \cup overtaken

ComingCurrent ==
    \A n \in Names : \/ Excused(n)
                     \/ Coming[n] = table[n]
                     \/ AddDone(n) /\ Coming[n] = Absent /\ pending["add"].row = table[n]

FilesInOrder == \A w \in Uploaders : files[w].state # "none" =>
    LET u == files[w] IN u.done \subseteq DOMAIN u.rows

IInv ==
    /\ TypeOK /\ FormsOfListed /\ WrittenExist /\ Checked /\ ComingCurrent
    /\ FilesInOrder /\ FileInOrder

-----------------------------------------------------------------------------
(* Forms, rows and requests keep their types.                              *)

LEMMA SettledForm ==
    ASSUME NEW old \in Form, NEW new \in Form
    PROVE  Settled(old, new) \in Form
  BY DEF Settled, Form

LEMMA FilledForm ==
    ASSUME NEW form \in Form, NEW n \in Names, NEW e \in Entered
    PROVE  Filled(form, n, e) \in Form
  <1> DEFINE w == WithCounter(form, e)
             f == [w EXCEPT !.name = n, !.unit = e.unit, !.limits = e.unit, !.odd = e.odd]
  <1>1. e \in [unit : Units, cumulative : BOOLEAN, reset : BOOLEAN, odd : SUBSET Bounded]
    BY RowsAssumption
  <1>2. w \in Form
    BY <1>1 DEF WithCounter, Form
  <1>3. f \in Form
    <2> HIDE DEF w
    <2>1. QED
      BY <1>1, <1>2 DEF Form
  <1>4. Filled(form, n, e) = Settled(form, f)
    BY DEF Filled
  <1> HIDE DEF f
  <1>5. QED
    BY <1>3, <1>4, SettledForm

LEMMA FormRow ==
    ASSUME NEW form \in Form, CanSave(form)
    PROVE  Row(form) \in Rows
  BY DEF Form, CanSave, Row, Rows

LEMMA EditsAreRows ==
    ASSUME NEW form \in Rows, NEW row \in Edits(form)
    PROVE  row \in Rows
  <1>1. CASE row \in WithUnit(form)
    BY <1>1 DEF WithUnit, Rows
  <1>2. CASE row \in WithOdd(form)
    BY <1>2 DEF WithOdd, Rows
  <1>3. CASE row \in WithOptions(form)
    BY <1>3 DEF WithOptions, Settled, Rows
  <1>4. QED
    BY <1>1, <1>2, <1>3 DEF Edits

LEMMA MergedRow ==
    ASSUME NEW old \in Rows \cup {Absent}, NEW given \in FileRows
    PROVE  Merged(old, given) \in Rows
  <1>1. /\ given.unit \in Units /\ given.limits \in Units \cup {Widest}
        /\ given.cumulative \in BOOLEAN /\ given.reset \in BOOLEAN
        /\ given.odd \subseteq Bounded
    BY DEF FileRows
  <1>2. CASE old = Absent
    BY <1>1, <1>2 DEF Merged, Rows
  <1>3. CASE old \in Rows
    BY <1>1, <1>3, RowsAssumption DEF Merged, Rows
  <1>4. QED
    BY <1>2, <1>3

(* New meters in the list keep the forms those of listed meters.           *)
LEMMA ListedForms ==
    ASSUME TypeOK, FormsOfListed, NEW rows \in Table, NEW form, Listed(rows, form)
    PROVE  /\ list' \in Table /\ local' \in Table /\ FormsOfListed'
           /\ list' = rows
  BY DEF TypeOK, FormsOfListed, Listed, Renewed, Table

LEMMA InitIInv == Init => IInv
  <1> SUFFICES ASSUME Init PROVE IInv
    OBVIOUS
  <1>1. /\ table = [n \in Names |-> Absent] /\ list = table /\ local = table
        /\ fetch = [stale |-> FALSE, state |-> "none", rows |-> table]
        /\ create = [open |-> FALSE, form |-> BlankForm]
        /\ pending = [k \in Kinds |-> NoRequest]
        /\ files = [w \in Uploaders |-> NoUpload]
    BY DEF Init, ClosedCreate
  <1>2. BlankForm \in Form
    BY DEF BlankForm, Form
  <1>3. TypeOK
    BY <1>1, <1>2 DEF TypeOK, Table, Kinds
  <1>4. /\ pending["add"].state = "none" /\ pending["edit"].state = "none"
        /\ \A w \in Uploaders : files[w].state = "none"
        /\ fetch.state = "none"
    BY <1>1 DEF Kinds, NoRequest, NoUpload
  <1>5. FormsOfListed /\ Checked /\ FilesInOrder /\ FileInOrder
    BY <1>1, <1>4 DEF FormsOfListed, Checked, FilesInOrder, FileInOrder
  <1>6. WrittenExist /\ ComingCurrent
    BY <1>1, <1>4 DEF WrittenExist, AddDone, Uploaded, ComingCurrent, Coming
  <1>7. QED
    BY <1>3, <1>5, <1>6 DEF IInv

-----------------------------------------------------------------------------
(* Types and the forms of listed meters, action by action.                 *)
Typed == TypeOK /\ FormsOfListed

(* Actions that change neither the requests nor what they write.           *)
LEMMA QuietTyped ==
    ASSUME Typed, UNCHANGED <<table, list, fetch, local, pending, files>>,
           create' \in [open : BOOLEAN, form : Form]
    PROVE  Typed'
  BY DEF Typed, TypeOK, FormsOfListed

(* Actions that change a request and perhaps a form or the table.          *)
LEMMA RequestTyped ==
    ASSUME Typed, UNCHANGED <<list, local, files>>,
           table' \in Table, fetch' \in [stale : BOOLEAN, state : {"none", "asked", "read"}, rows : Table],
           create' \in [open : BOOLEAN, form : Form],
           NEW k \in Kinds, NEW r, pending' = [pending EXCEPT ![k] = r],
           k = "add" => r \in {NoRequest} \cup AddRequest,
           k = "edit" => r \in {NoRequest} \cup EditRequest
    PROVE  Typed'
  BY DEF Typed, TypeOK, FormsOfListed, Kinds

LEMMA LeaveTyped ==
    ASSUME Typed, NEW page \in Pages, Leave(page)
    PROVE  Typed'
  <1>1. /\ create' = ClosedCreate /\ local' = list /\ UNCHANGED <<table, list, fetch, files>>
        /\ pending' = [k \in Kinds |-> IF Free(k) THEN NoRequest
                                       ELSE [pending[k] EXCEPT !.here = FALSE]]
    BY DEF Leave
  <1>2. ClosedCreate \in [open : BOOLEAN, form : Form]
    BY DEF ClosedCreate, BlankForm, Form
  <1>3. pending'["add"] \in {NoRequest} \cup AddRequest
    <2>1. CASE Free("add")
      BY <1>1, <2>1 DEF Kinds
    <2>2. CASE ~Free("add")
      <3>1. pending["add"] \in AddRequest
        BY <2>2 DEF Typed, TypeOK, Free, NoRequest
      <3>2. pending'["add"] = [pending["add"] EXCEPT !.here = FALSE]
        BY <1>1, <2>2 DEF Kinds
      <3>3. QED
        BY <3>1, <3>2 DEF AddRequest
    <2>3. QED
      BY <2>1, <2>2
  <1>4. pending'["edit"] \in {NoRequest} \cup EditRequest
    <2>1. CASE Free("edit")
      BY <1>1, <2>1 DEF Kinds
    <2>2. CASE ~Free("edit")
      <3>1. pending["edit"] \in EditRequest
        BY <2>2 DEF Typed, TypeOK, Free, NoRequest
      <3>2. pending'["edit"] = [pending["edit"] EXCEPT !.here = FALSE]
        BY <1>1, <2>2 DEF Kinds
      <3>3. QED
        BY <3>1, <3>2 DEF EditRequest
    <2>3. QED
      BY <2>1, <2>2
  <1>5. QED
    BY <1>1, <1>2, <1>3, <1>4 DEF Typed, TypeOK, FormsOfListed

LEMMA SaveCreateTyped ==
    ASSUME Typed, NEW warned \in BOOLEAN, SaveCreate(warned)
    PROVE  Typed'
  <1> DEFINE r == [state |-> "sent", name |-> create.form.name, row |-> Row(create.form),
                   warned |-> warned, here |-> TRUE]
  <1>1. create.form \in Form /\ CanSave(create.form)
    BY DEF SaveCreate, Typed, TypeOK
  <1>2. Row(create.form) \in Rows /\ create.form.name \in Names
    BY <1>1, FormRow DEF CanSave, Form
  <1>3. r \in AddRequest
    BY <1>2 DEF AddRequest, Answers
  <1>4. create' \in [open : BOOLEAN, form : Form]
    BY DEF SaveCreate, Typed, TypeOK, ClosedCreate, BlankForm, Form
  <1>5. /\ pending' = [pending EXCEPT !["add"] = r]
        /\ UNCHANGED <<table, list, fetch, local, files>>
    BY DEF SaveCreate
  <1> HIDE DEF r
  <1>6. table' \in Table /\ fetch' \in [stale : BOOLEAN, state : {"none", "asked", "read"}, rows : Table]
    BY <1>5 DEF Typed, TypeOK
  <1>7. QED
    BY <1>3, <1>4, <1>5, <1>6, RequestTyped DEF Kinds

(* A request of which only the state changes stays one.                    *)
LEMMA StateTyped ==
    ASSUME Typed, NEW st \in Answers
    PROVE  /\ pending["add"].state # "none" => [pending["add"] EXCEPT !.state = st] \in AddRequest
           /\ pending["edit"].state # "none" => [pending["edit"] EXCEPT !.state = st] \in EditRequest
  <1>1. pending["add"].state # "none" => pending["add"] \in AddRequest
    BY DEF Typed, TypeOK, NoRequest
  <1>2. pending["edit"].state # "none" => pending["edit"] \in EditRequest
    BY DEF Typed, TypeOK, NoRequest
  <1>3. QED
    BY <1>1, <1>2 DEF AddRequest, EditRequest

LEMMA AddSent ==
    ASSUME Typed, pending["add"].state # "none"
    PROVE  pending["add"] \in AddRequest /\ pending["add"].name \in Names /\ pending["add"].row \in Rows
  BY DEF Typed, TypeOK, NoRequest, AddRequest

LEMMA EditSent ==
    ASSUME Typed, pending["edit"].state # "none"
    PROVE  pending["edit"] \in EditRequest /\ pending["edit"].name \in Names /\ pending["edit"].row \in Rows
  BY DEF Typed, TypeOK, NoRequest, EditRequest

LEMMA ServeAddTyped ==
    ASSUME Typed, ServeAdd
    PROVE  Typed'
  <1> DEFINE st == IF table[pending["add"].name] = Absent /\ Accepted(pending["add"].row)
                   THEN "done" ELSE "refused"
             r == [pending["add"] EXCEPT !.state = st]
  <1>1. pending["add"].state = "sent" /\ st \in Answers
    BY DEF ServeAdd, Answers
  <1>2. r \in AddRequest
    BY <1>1, StateTyped
  <1>3. table' \in Table
    BY <1>1, AddSent DEF ServeAdd, Typed, TypeOK, Table
  <1>4. pending' = [pending EXCEPT !["add"] = r] /\ UNCHANGED <<list, fetch, create, local, files>>
    BY DEF ServeAdd
  <1> HIDE DEF r
  <1>5. /\ fetch' \in [stale : BOOLEAN, state : {"none", "asked", "read"}, rows : Table]
        /\ create' \in [open : BOOLEAN, form : Form]
    BY <1>4 DEF Typed, TypeOK
  <1>6. QED
    BY <1>2, <1>3, <1>4, <1>5, RequestTyped DEF Kinds

LEMMA AnswerAddTyped ==
    ASSUME Typed, AnswerAdd
    PROVE  Typed'
  <1> DEFINE r == pending["add"]
  <1>1. r.state # "none"
    BY DEF AnswerAdd
  <1>2. r.name \in Names /\ r.row \in Rows
    BY <1>1, AddSent
  <1>3. /\ pending' = [pending EXCEPT !["add"] = NoRequest]
        /\ UNCHANGED <<table, fetch, files>>
    BY DEF AnswerAdd
  <1>4. list' \in Table /\ local' \in Table /\ FormsOfListed'
    <2>1. CASE UNCHANGED <<list, local>>
      BY <2>1 DEF Typed, TypeOK, FormsOfListed
    <2>2. CASE \E form : Listed(Added(r.name, r.row), form)
      <3>1. Added(r.name, r.row) \in Table
        BY <1>2 DEF Added, Typed, TypeOK, Table
      <3>2. QED
        BY <2>2, <3>1, ListedForms DEF Typed
    <2>3. QED
      BY <2>1, <2>2 DEF AnswerAdd
  <1>5. create' \in [open : BOOLEAN, form : Form]
    <2>1. BlankForm \in Form
      BY DEF BlankForm, Form
    <2>2. create' = create \/ create' = [create EXCEPT !.form = BlankForm]
      BY DEF AnswerAdd
    <2>3. QED
      BY <2>1, <2>2 DEF Typed, TypeOK
  <1>6. QED
    BY <1>3, <1>4, <1>5 DEF Typed, TypeOK, Kinds

LEMMA SaveEditTyped ==
    ASSUME Typed, NEW n \in Names, SaveEdit(n)
    PROVE  Typed'
  <1>1. list[n] \in Rows /\ local[n] \in Rows
    BY DEF SaveEdit, Typed, TypeOK, FormsOfListed, Table
  <1>2. UNCHANGED <<table, list, fetch, create, files>>
    BY DEF SaveEdit
  <1>3. CASE local' = [local EXCEPT ![n].unit = list[n].unit] /\ UNCHANGED pending
    <2>1. [local[n] EXCEPT !.unit = list[n].unit] \in Rows
      BY <1>1 DEF Rows
    <2>2. local' \in Table /\ FormsOfListed'
      <3>1. local' = [local EXCEPT ![n] = [local[n] EXCEPT !.unit = list[n].unit]]
        BY <1>3
      <3>2. QED
        BY <1>2, <2>1, <3>1, RowsAssumption DEF Typed, TypeOK, FormsOfListed, Table
    <2>3. QED
      BY <1>2, <1>3, <2>2 DEF Typed, TypeOK
  <1>4. CASE /\ pending' = [pending EXCEPT !["edit"] =
                              [state |-> "sent", name |-> n, row |-> local[n], here |-> TRUE]]
             /\ UNCHANGED local
    <2> DEFINE r == [state |-> "sent", name |-> n, row |-> local[n], here |-> TRUE]
    <2>1. r \in EditRequest
      BY <1>1 DEF EditRequest, Answers
    <2> HIDE DEF r
    <2>2. /\ table' \in Table /\ create' \in [open : BOOLEAN, form : Form]
          /\ fetch' \in [stale : BOOLEAN, state : {"none", "asked", "read"}, rows : Table]
      BY <1>2 DEF Typed, TypeOK
    <2>3. pending' = [pending EXCEPT !["edit"] = r]
      BY <1>4 DEF r
    <2>4. QED
      BY <1>2, <1>4, <2>1, <2>2, <2>3, RequestTyped DEF Kinds
  <1>5. QED
    BY <1>3, <1>4 DEF SaveEdit

LEMMA ServeEditTyped ==
    ASSUME Typed, ServeEdit
    PROVE  Typed'
  <1> DEFINE st == IF Accepted(pending["edit"].row) THEN "done" ELSE "refused"
             r == [pending["edit"] EXCEPT !.state = st]
  <1>1. pending["edit"].state = "sent" /\ st \in Answers
    BY DEF ServeEdit, Answers
  <1>2. r \in EditRequest
    BY <1>1, StateTyped
  <1>3. table' \in Table
    BY <1>1, EditSent DEF ServeEdit, Typed, TypeOK, Table
  <1>4. pending' = [pending EXCEPT !["edit"] = r] /\ UNCHANGED <<list, fetch, create, local, files>>
    BY DEF ServeEdit
  <1> HIDE DEF r
  <1>5. /\ fetch' \in [stale : BOOLEAN, state : {"none", "asked", "read"}, rows : Table]
        /\ create' \in [open : BOOLEAN, form : Form]
    BY <1>4 DEF Typed, TypeOK
  <1>6. QED
    BY <1>2, <1>3, <1>4, <1>5, RequestTyped DEF Kinds

LEMMA AnswerEditTyped ==
    ASSUME Typed, AnswerEdit
    PROVE  Typed'
  <1>1. /\ pending' = [pending EXCEPT !["edit"] = NoRequest]
        /\ fetch' = [fetch EXCEPT !.stale = TRUE]
        /\ UNCHANGED <<table, list, create, local, files>>
    BY DEF AnswerEdit, AskedAfter
  <1>2. QED
    BY <1>1 DEF Typed, TypeOK, FormsOfListed, Kinds

LEMMA LoseAnswerTyped ==
    ASSUME Typed, NEW k \in {"add", "edit"}, LoseAnswer(k)
    PROVE  Typed'
  <1> DEFINE r == [pending[k] EXCEPT !.state = "refused"]
  <1>1. pending[k].state # "none"
    BY DEF LoseAnswer
  <1>2. /\ k = "add" => r \in {NoRequest} \cup AddRequest
        /\ k = "edit" => r \in {NoRequest} \cup EditRequest
    BY <1>1, StateTyped DEF Answers
  <1>3. pending' = [pending EXCEPT ![k] = r] /\ UNCHANGED <<table, list, fetch, create, local, files>>
    BY DEF LoseAnswer
  <1> HIDE DEF r
  <1>4. /\ table' \in Table /\ create' \in [open : BOOLEAN, form : Form]
        /\ fetch' \in [stale : BOOLEAN, state : {"none", "asked", "read"}, rows : Table]
    BY <1>3 DEF Typed, TypeOK
  <1>5. QED
    BY <1>2, <1>3, <1>4, RequestTyped DEF Kinds

LEMMA FetchTyped ==
    ASSUME Typed, AskMeters \/ ReadMeters \/ AnswerMeters
    PROVE  Typed'
  <1>1. UNCHANGED <<table, create, pending, files>>
    BY DEF AskMeters, ReadMeters, AnswerMeters
  <1>2. fetch' \in [stale : BOOLEAN, state : {"none", "asked", "read"}, rows : Table]
    BY DEF AskMeters, ReadMeters, AnswerMeters, Typed, TypeOK
  <1>3. list' \in Table /\ local' \in Table /\ FormsOfListed'
    <2>1. CASE UNCHANGED <<list, local>>
      BY <2>1 DEF Typed, TypeOK, FormsOfListed
    <2>2. CASE Listed(fetch.rows, up)
      BY <2>2, ListedForms DEF Typed, TypeOK
    <2>3. QED
      BY <2>1, <2>2 DEF AskMeters, ReadMeters, AnswerMeters
  <1>4. QED
    BY <1>1, <1>2, <1>3 DEF Typed, TypeOK

LEMMA ReadingsTyped ==
    ASSUME Typed, SubmitReadings \/ ServeReadings \/ AnswerReadings
    PROVE  Typed'
  <1>1. UNCHANGED <<table, list, fetch, create, local, files>>
    BY DEF SubmitReadings, ServeReadings, AnswerReadings
  <1>2. /\ DOMAIN pending' = Kinds
        /\ pending'["add"] = pending["add"] /\ pending'["edit"] = pending["edit"]
    BY DEF SubmitReadings, ServeReadings, AnswerReadings, Typed, TypeOK, Kinds
  <1>3. QED
    BY <1>1, <1>2 DEF Typed, TypeOK, FormsOfListed

(* Only the form of one meter changes, and to a row.                       *)
LEMMA FormTyped ==
    ASSUME Typed, NEW n \in Names, NEW row \in Rows, local' = [local EXCEPT ![n] = row],
           UNCHANGED <<table, list, fetch, create, pending, files>>
    PROVE  Typed'
  BY RowsAssumption DEF Typed, TypeOK, FormsOfListed, Table

LEMMA ChangeEditTyped ==
    ASSUME Typed, NEW n \in Names, list[n] # Absent, NEW row \in Edits(local[n]),
           ChangeEdit(n, row)
    PROVE  Typed'
  <1>1. local[n] \in Rows
    BY DEF Typed, TypeOK, FormsOfListed, Table
  <1>2. row \in Rows
    BY <1>1, EditsAreRows
  <1>3. QED
    BY <1>2, FormTyped DEF ChangeEdit

LEMMA DiscardEditTyped ==
    ASSUME Typed, NEW n \in Names, DiscardEdit(n)
    PROVE  Typed'
  <1>1. local' = [local EXCEPT ![n] = list[n]] /\ UNCHANGED <<table, list, fetch, create, pending, files>>
    BY DEF DiscardEdit
  <1>2. QED
    BY <1>1 DEF Typed, TypeOK, FormsOfListed, Table

LEMMA FilesOK ==
    ASSUME Typed, NEW w \in Uploaders, files[w].state # "none"
    PROVE  files[w] \in FileUpload
  BY DEF Typed, TypeOK, NoUpload

LEMMA SendFileTyped ==
    ASSUME Typed, NEW w \in Uploaders, NEW form \in FileForms(w), SendFile(w, form)
    PROVE  Typed'
  <1> DEFINE u == [state |-> "sent", done |-> {}, rows |-> form.rows,
                   update |-> form.update, to |-> form.to]
  <1>1. form.rows \in Files /\ form.update \in BOOLEAN /\ form.to \in Names \cup {NoName}
    <2> DEFINE meant(rows) == {n \in Names : list[n] # Absent /\ (Len(rows) = 1 => rows[1].name = n)}
                              \cup {NoName : x \in {w} \cap {"script"}}
               sent(rows, update, to) == [rows |-> rows, update |-> update, to |-> to]
    <2>1. \A rows : meant(rows) \subseteq Names \cup {NoName}
      OBVIOUS
    <2> HIDE DEF meant
    <2>2. \/ \E rows \in Files : form = sent(rows, FALSE, NoName)
          \/ \E rows \in Files : \E to \in meant(rows) : form = sent(rows, TRUE, to)
      BY Zenon DEF FileForms, meant
    <2>3. CASE \E rows \in Files : form = sent(rows, FALSE, NoName)
      BY <2>3
    <2>4. CASE \E rows \in Files : \E to \in meant(rows) : form = sent(rows, TRUE, to)
      BY <2>1, <2>4
    <2>5. QED
      BY <2>2, <2>3, <2>4
  <1>2. u \in FileUpload
    BY <1>1, RowsAssumption DEF FileUpload, Answers
  <1>3. files' = [files EXCEPT ![w] = u] /\ UNCHANGED <<table, list, fetch, create, local, pending>>
    BY DEF SendFile
  <1> HIDE DEF u
  <1>4. QED
    BY <1>2, <1>3 DEF Typed, TypeOK, FormsOfListed

(* One row of a file: whether it fits, and what it does to the table and   *)
(* to the upload.                                                          *)
RowTaken(w, i, st, fits) ==
    LET u == files[w]
        n == u.rows[i].name
    IN  /\ i \in DOMAIN u.rows /\ n \in Names
        /\ fits = Fits(u, u.rows[i])
        /\ table' = IF fits THEN [table EXCEPT ![n] = Merged(table[n], u.rows[i])] ELSE table
        /\ files' = [files EXCEPT ![w] = [u EXCEPT !.done = IF fits THEN u.done \cup {i} ELSE u.done,
                                                  !.state = st]]
        /\ unseen' = IF fits /\ w = "script" THEN unseen \cup {n} ELSE unseen

LEMMA RowStep ==
    ASSUME Typed, NEW w \in Uploaders, UploadRow(w)
    PROVE  /\ files[w] \in FileUpload /\ files[w].state = "sent"
           /\ \E i \in NextRows(files[w]), st \in Answers, fits \in BOOLEAN : RowTaken(w, i, st, fits)
  <1> DEFINE u == files[w]
  <1>1. u.state = "sent"
    BY DEF UploadRow
  <1>2. u \in FileUpload
    BY <1>1, FilesOK
  <1>3. PICK i \in NextRows(u) :
          LET n == u.rows[i].name
              fits == Fits(u, u.rows[i])
          IN  /\ table' = IF fits THEN [table EXCEPT ![n] = Merged(@, u.rows[i])] ELSE table
              /\ files' = [files EXCEPT ![w].done = IF fits THEN @ \cup {i} ELSE @,
                               ![w].state = Outcome(u, fits, u.done \cup {i})]
              /\ unseen' = IF fits /\ w = "script" THEN unseen \cup {n} ELSE unseen
    BY Zenon DEF UploadRow
  <1> DEFINE n == u.rows[i].name
             fits == Fits(u, u.rows[i])
             st == Outcome(u, fits, u.done \cup {i})
  <1>4. i \in DOMAIN u.rows
    BY DEF NextRows
  <1>5. u.rows[i] \in FileRows
    BY <1>2, <1>4 DEF FileUpload
  <1>6. n \in Names
    BY <1>5 DEF FileRows
  <1>7. st \in Answers
    BY DEF Outcome, Answers
  <1>8. fits \in BOOLEAN
    BY DEF Fits
  <1>9. DOMAIN files = Uploaders /\ DOMAIN table = Names
    BY DEF Typed, TypeOK, Table
  <1> HIDE DEF st, fits
  <1>10. files' = [files EXCEPT ![w] = [u EXCEPT !.done = IF fits THEN u.done \cup {i} ELSE u.done,
                                                 !.state = st]]
    BY <1>3, <1>9 DEF st, fits
  <1>11. table' = IF fits THEN [table EXCEPT ![n] = Merged(table[n], u.rows[i])] ELSE table
    BY <1>3, <1>6, <1>9 DEF fits
  <1>12. unseen' = IF fits /\ w = "script" THEN unseen \cup {n} ELSE unseen
    BY <1>3 DEF fits
  <1>13. fits = Fits(u, u.rows[i])
    BY DEF fits
  <1>14. QED
    BY <1>1, <1>2, <1>4, <1>6, <1>7, <1>8, <1>10, <1>11, <1>12, <1>13 DEF RowTaken

LEMMA UploadRowTyped ==
    ASSUME Typed, NEW w \in Uploaders, UploadRow(w)
    PROVE  Typed'
  <1> DEFINE u == files[w]
  <1>1. u \in FileUpload
    BY RowStep
  <1>0. PICK i \in NextRows(u), st \in Answers, fits \in BOOLEAN : RowTaken(w, i, st, fits)
    BY RowStep
  <1>2. /\ i \in DOMAIN u.rows /\ u.rows[i].name \in Names
        /\ table' = IF fits THEN [table EXCEPT ![u.rows[i].name] =
                                   Merged(table[u.rows[i].name], u.rows[i])] ELSE table
        /\ files' = [files EXCEPT ![w] = [u EXCEPT !.done = IF fits THEN u.done \cup {i} ELSE u.done,
                                                  !.state = st]]
    BY <1>0 DEF RowTaken
  <1>3. i \in Nat /\ u.rows[i] \in FileRows
    BY <1>1, <1>2 DEF FileUpload
  <1>4. table' \in Table
    <2>1. table[u.rows[i].name] \in Rows \cup {Absent}
      BY <1>2 DEF Typed, TypeOK, Table
    <2>2. Merged(table[u.rows[i].name], u.rows[i]) \in Rows
      BY <1>3, <2>1, MergedRow
    <2>3. QED
      BY <1>2, <2>2 DEF Typed, TypeOK, Table
  <1>5. [u EXCEPT !.done = IF fits THEN u.done \cup {i} ELSE u.done, !.state = st] \in FileUpload
    BY <1>1, <1>3 DEF FileUpload
  <1>6. files' \in [Uploaders -> {NoUpload} \cup FileUpload]
    BY <1>2, <1>5 DEF Typed, TypeOK
  <1>7. UNCHANGED <<list, fetch, create, local, pending>>
    BY DEF UploadRow
  <1>8. QED
    BY <1>4, <1>6, <1>7 DEF Typed, TypeOK, FormsOfListed

LEMMA AnswerFileTyped ==
    ASSUME Typed, NEW w \in Uploaders, AnswerFile(w)
    PROVE  Typed'
  <1>1. /\ files' = [files EXCEPT ![w] = NoUpload]
        /\ UNCHANGED <<table, list, create, local, pending>>
    BY DEF AnswerFile
  <1>2. fetch' \in [stale : BOOLEAN, state : {"none", "asked", "read"}, rows : Table]
    BY DEF AnswerFile, Typed, TypeOK
  <1>3. QED
    BY <1>1, <1>2 DEF Typed, TypeOK, FormsOfListed

LEMMA FillCreateTyped ==
    ASSUME Typed, NEW n \in Names, NEW e \in Entered, FillCreate(n, e)
    PROVE  Typed'
  <1>1. Filled(create.form, n, e) \in Form
    BY FilledForm DEF Typed, TypeOK
  <1>2. create' \in [open : BOOLEAN, form : Form]
    BY <1>1 DEF FillCreate
  <1>3. UNCHANGED <<table, list, fetch, local, pending, files>>
    BY DEF FillCreate
  <1>4. QED
    BY <1>2, <1>3, QuietTyped

LEMMA UpTyped ==
    ASSUME Typed,
           \/ \E n \in Names : ChooseMeter(n)
           \/ ChangeOptions \/ TickUpdate \/ ChooseFile \/ ClearUp
    PROVE  Typed'
  <1>1. \E form : ChangeUp(form)
    BY DEF ChooseMeter, ChangeOptions, TickUpdate, ChooseFile, ClearUp
  <1>2. UNCHANGED <<table, list, fetch, create, local, pending, files>>
    BY <1>1 DEF ChangeUp
  <1>3. QED
    BY <1>2, QuietTyped DEF Typed, TypeOK

LEMMA NextTyped == Typed /\ [Next]_vars => Typed'
  <1> SUFFICES ASSUME Typed, [Next]_vars PROVE Typed'
    OBVIOUS
  <1>1. ASSUME NEW page \in Pages, Leave(page) PROVE Typed'
    BY <1>1, LeaveTyped
  <1>2. ASSUME NEW n \in Names, NEW e \in Entered, FillCreate(n, e) PROVE Typed'
    BY <1>2, FillCreateTyped
  <1>3. ASSUME NEW warned \in BOOLEAN, SaveCreate(warned) PROVE Typed'
    BY <1>3, SaveCreateTyped
  <1>4. CASE DiscardCreate
    <2>1. ClosedCreate \in [open : BOOLEAN, form : Form]
      BY DEF ClosedCreate, BlankForm, Form
    <2>2. QED
      BY <1>4, <2>1, QuietTyped DEF DiscardCreate
  <1>5. CASE ServeAdd
    BY <1>5, ServeAddTyped
  <1>6. CASE AnswerAdd
    BY <1>6, AnswerAddTyped
  <1>7. ASSUME NEW n \in Names, list[n] # Absent, NEW row \in Edits(local[n]), ChangeEdit(n, row)
        PROVE  Typed'
    BY <1>7, ChangeEditTyped
  <1>8. ASSUME NEW n \in Names, SaveEdit(n) \/ DiscardEdit(n) PROVE Typed'
    BY <1>8, SaveEditTyped, DiscardEditTyped
  <1>9. CASE ServeEdit
    BY <1>9, ServeEditTyped
  <1>10. CASE AnswerEdit
    BY <1>10, AnswerEditTyped
  <1>11. ASSUME NEW k \in {"add", "edit"}, LoseAnswer(k) PROVE Typed'
    BY <1>11, LoseAnswerTyped
  <1>12. CASE AskMeters \/ ReadMeters \/ AnswerMeters
    BY <1>12, FetchTyped
  <1>13. CASE \/ \E n \in Names : ChooseMeter(n)
              \/ ChangeOptions \/ TickUpdate \/ ChooseFile \/ ClearUp
    BY <1>13, UpTyped
  <1>14. CASE SubmitReadings \/ ServeReadings \/ AnswerReadings
    BY <1>14, ReadingsTyped
  <1>15. ASSUME NEW w \in Uploaders, NEW form \in FileForms(w), SendFile(w, form) PROVE Typed'
    BY <1>15, SendFileTyped
  <1>16. ASSUME NEW w \in Uploaders, UploadRow(w) \/ AnswerFile(w) PROVE Typed'
    BY <1>16, UploadRowTyped, AnswerFileTyped
  <1>17. CASE UNCHANGED vars
    BY <1>17 DEF vars, Typed, TypeOK, FormsOfListed
  <1>18. QED
    BY <1>1, <1>2, <1>3, <1>4, <1>5, <1>6, <1>7, <1>8, <1>9, <1>10, <1>11, <1>12, <1>13, <1>14,
       <1>15, <1>16, <1>17, Zenon DEF Next

-----------------------------------------------------------------------------
(* The rest of the invariant: first the actions that touch neither what is *)
(* listed nor what is written nor, but for the page they came from, the    *)
(* requests.                                                               *)
Rest == WrittenExist /\ Checked /\ ComingCurrent /\ FilesInOrder /\ FileInOrder

SameRequest(k) ==
    /\ pending'[k].state = pending[k].state
    /\ pending[k].state # "none" =>
        pending'[k].name = pending[k].name /\ pending'[k].row = pending[k].row
SameRequests ==
    /\ SameRequest("add") /\ SameRequest("edit")
    /\ pending["add"].state # "none" => pending'["add"].warned = pending["add"].warned

Unwritten == UNCHANGED <<table, list, fetch, files, unseen, overtaken>>

LEMMA UnwrittenKeepsRest ==
    ASSUME Typed, Rest, Unwritten, SameRequests
    PROVE  Rest'
  <1>1. \A n \in Names : /\ AddDone(n)' <=> AddDone(n)
                         /\ AddDone(n) => pending'["add"].row = pending["add"].row
    BY DEF AddDone, SameRequests, SameRequest
  <1>2. Coming' = Coming /\ table' = table
    BY DEF Unwritten, Coming
  <1>3. \A w \in Uploaders : Uploaded(w)' = Uploaded(w)
    BY DEF Uploaded, Written, Unwritten
  <1>4. \A n \in Names : Excused(n) => Excused(n)'
    BY <1>3 DEF Excused, Unwritten, SameRequests, SameRequest, Uploaders
  <1>5. WrittenExist'
    BY <1>1, <1>2, <1>3 DEF Rest, WrittenExist
  <1>6. ComingCurrent'
    BY <1>1, <1>2, <1>4 DEF Rest, ComingCurrent
  <1>7. Checked'
    BY DEF Rest, Checked, SameRequests, SameRequest
  <1>8. FilesInOrder' /\ FileInOrder'
    BY DEF Rest, FilesInOrder, FileInOrder, Unwritten
  <1>9. QED
    BY <1>5, <1>6, <1>7, <1>8 DEF Rest

(* Rows are never deleted from the table.                                  *)
TableGrows == \A n \in Names : table[n] # Absent => table'[n] # Absent

LEMMA UploadedNames ==
    ASSUME Typed, FilesInOrder, NEW w \in Uploaders
    PROVE  Uploaded(w) \subseteq Names
  <1>1. CASE files[w].state = "none"
    BY <1>1 DEF Uploaded
  <1>2. CASE files[w].state # "none"
    <2>1. files[w] \in FileUpload /\ files[w].done \subseteq DOMAIN files[w].rows
      BY <1>2, FilesOK DEF FilesInOrder
    <2>2. \A i \in DOMAIN files[w].rows : files[w].rows[i].name \in Names
      <3>1. files[w].rows \in Seq(FileRows)
        BY <2>1 DEF FileUpload
      <3>2. \A i \in DOMAIN files[w].rows : files[w].rows[i] \in FileRows
        BY <3>1
      <3>3. QED
        BY <3>2 DEF FileRows
    <2>3. QED
      BY <1>2, <2>1, <2>2 DEF Uploaded, Written
  <1>3. QED
    BY <1>1, <1>2

LEMMA FilesKept ==
    ASSUME Typed, Rest, UNCHANGED files, TableGrows
    PROVE  /\ FilesInOrder' /\ FileInOrder'
           /\ \A w \in Uploaders : \A n \in Uploaded(w)' : table'[n] # Absent
           /\ \A w \in Uploaders : Uploaded(w)' = Uploaded(w)
  <1>1. \A w \in Uploaders : Uploaded(w)' = Uploaded(w)
    BY DEF Uploaded, Written
  <1>2. \A w \in Uploaders : Uploaded(w) \subseteq Names
    BY UploadedNames DEF Rest
  <1>3. FilesInOrder' /\ FileInOrder'
    BY DEF Rest, FilesInOrder, FileInOrder
  <1>4. QED
    BY <1>1, <1>2, <1>3 DEF Rest, WrittenExist, TableGrows

LEMMA SaveCreateRest ==
    ASSUME Typed, Rest, NEW warned \in BOOLEAN, SaveCreate(warned)
    PROVE  Rest'
  <1>1. /\ UNCHANGED <<table, list, fetch, files, unseen, overtaken>>
        /\ pending["add"].state = "none" /\ pending'["add"].state = "sent"
        /\ pending'["add"].warned = warned /\ pending'["add"].row.odd = create.form.odd
        /\ pending'["edit"] = pending["edit"]
    BY DEF SaveCreate, Free, Typed, TypeOK, Kinds, Row
  <1>2. warned \/ create.form.odd = {}
    BY DEF SaveCreate, ValidToCreate
  <1>3. TableGrows
    BY <1>1 DEF TableGrows
  <1>4. /\ FilesInOrder' /\ FileInOrder'
        /\ \A w \in Uploaders : \A n \in Uploaded(w)' : table'[n] # Absent
        /\ \A w \in Uploaders : Uploaded(w)' = Uploaded(w)
    BY <1>1, <1>3, FilesKept
  <1>5. \A n \in Names : ~AddDone(n) /\ ~AddDone(n)'
    BY <1>1 DEF AddDone
  <1>6. \A n \in Names : Excused(n) => Excused(n)'
    BY <1>1, <1>4 DEF Excused, Uploaders
  <1>7. ComingCurrent'
    BY <1>1, <1>5, <1>6 DEF Rest, ComingCurrent, Coming
  <1>8. Checked'
    BY <1>1, <1>2 DEF Rest, Checked
  <1>9. QED
    BY <1>4, <1>5, <1>7, <1>8 DEF Rest, WrittenExist

LEMMA ServeAddRest ==
    ASSUME Typed, Rest, ServeAdd
    PROVE  Rest'
  <1> DEFINE r == pending["add"]
             n == r.name
  <1>1. r.state = "sent" /\ r \in AddRequest /\ n \in Names /\ r.row \in Rows
    BY AddSent DEF ServeAdd
  <1>2. /\ UNCHANGED <<list, fetch, files, unseen, overtaken>>
        /\ pending'["edit"] = pending["edit"]
        /\ pending'["add"].name = n /\ pending'["add"].row = r.row
        /\ pending'["add"].warned = r.warned
        /\ \/ /\ pending'["add"].state = "done"
              /\ table[n] = Absent /\ table' = [table EXCEPT ![n] = r.row]
           \/ pending'["add"].state = "refused" /\ UNCHANGED table
    BY <1>1 DEF ServeAdd, AddRequest, Typed, TypeOK, Kinds
  <1>3. r.row # Absent
    BY <1>1, RowsAssumption
  <1>4. TableGrows
    BY <1>1, <1>2, <1>3 DEF TableGrows, Typed, TypeOK, Table
  <1>5. /\ FilesInOrder' /\ FileInOrder'
        /\ \A w \in Uploaders : \A m \in Uploaded(w)' : table'[m] # Absent
        /\ \A w \in Uploaders : Uploaded(w)' = Uploaded(w)
    BY <1>2, <1>4, FilesKept
  <1>6. \A m \in Names : /\ ~AddDone(m)
                         /\ AddDone(m)' <=> pending'["add"].state = "done" /\ m = n
    BY <1>1, <1>2 DEF AddDone
  <1>7. \A m \in Names : Excused(m) => Excused(m)'
    BY <1>2, <1>5 DEF Excused, Uploaders
  <1>8. WrittenExist'
    BY <1>1, <1>2, <1>3, <1>5, <1>6 DEF WrittenExist, Typed, TypeOK, Table
  <1>9. ComingCurrent'
    <2>1. SUFFICES ASSUME NEW m \in Names, ~Excused(m)'
                   PROVE  \/ Coming'[m] = table'[m]
                          \/ AddDone(m)' /\ Coming'[m] = Absent /\ pending'["add"].row = table'[m]
      BY DEF ComingCurrent
    <2>2. Coming[m] = table[m] /\ Coming' = Coming
      BY <1>2, <1>6, <1>7, <2>1 DEF Rest, ComingCurrent, Coming
    <2>3. QED
      BY <1>1, <1>2, <1>6, <2>2 DEF Typed, TypeOK, Table
  <1>10. Checked'
    BY <1>1, <1>2 DEF Rest, Checked
  <1>11. QED
    BY <1>5, <1>8, <1>9, <1>10 DEF Rest

LEMMA AnswerAddRest ==
    ASSUME Typed, Rest, AnswerAdd
    PROVE  Rest'
  <1> DEFINE r == pending["add"]
             n == r.name
  <1>1. r.state \in {"done", "refused"} /\ n \in Names
    BY AddSent DEF AnswerAdd
  <1>2. /\ UNCHANGED <<table, fetch, files, unseen>>
        /\ pending'["edit"] = pending["edit"] /\ pending'["add"].state = "none"
    BY DEF AnswerAdd, NoRequest, Typed, TypeOK, Kinds
  <1>3. TableGrows
    BY <1>2 DEF TableGrows
  <1>4. /\ FilesInOrder' /\ FileInOrder'
        /\ \A w \in Uploaders : \A m \in Uploaded(w)' : table'[m] # Absent
        /\ \A w \in Uploaders : Uploaded(w)' = Uploaded(w)
    BY <1>2, <1>3, FilesKept
  <1>5. \A m \in Names : ~AddDone(m)'
    BY <1>2 DEF AddDone
  <1>6. WrittenExist' /\ Checked'
    BY <1>2, <1>4, <1>5 DEF Rest, WrittenExist, Checked
  <1>7. CASE r.state = "refused"
    <2>1. UNCHANGED <<list, overtaken>>
      BY <1>7 DEF AnswerAdd
    <2>2. \A m \in Names : ~AddDone(m)
      BY <1>7 DEF AddDone
    <2>3. \A m \in Names : Excused(m) => Excused(m)'
      BY <1>2, <1>4, <2>1 DEF Excused, Uploaders
    <2>4. ComingCurrent'
      BY <1>2, <2>1, <2>2, <2>3 DEF Rest, ComingCurrent, Coming
    <2>5. QED
      BY <1>4, <1>6, <2>4 DEF Rest
  <1>8. CASE r.state = "done"
    <2>1. list' = Added(n, r.row)
      BY <1>8 DEF AnswerAdd, Listed
    <2>2. overtaken' = IF fetch.state = "read" /\ fetch.rows[n] = Absent
                       THEN overtaken \cup {n} ELSE overtaken
      BY <1>8 DEF AnswerAdd
    <2>3. \A m \in Names : AddDone(m) <=> m = n
      BY <1>8 DEF AddDone
    <2>4. table[n] # Absent
      BY <1>1, <2>3 DEF Rest, WrittenExist
    <2>5. \A m \in Names : Excused(m) => Excused(m)'
      BY <1>2, <1>4, <2>2 DEF Excused, Uploaders
    <2>6. ASSUME NEW m \in Names, ~Excused(m)' PROVE Coming'[m] = table'[m]
      <3>1. \/ Coming[m] = table[m]
            \/ m = n /\ Coming[m] = Absent /\ r.row = table[m]
        BY <2>3, <2>5, <2>6 DEF Rest, ComingCurrent
      <3>2. CASE fetch.state = "read"
        <4>1. Coming = fetch.rows /\ Coming' = fetch.rows
          BY <1>2, <3>2 DEF Coming
        <4>2. m = n => fetch.rows[m] # Absent
          BY <2>2, <2>6, <3>2 DEF Excused
        <4>3. QED
          BY <1>2, <3>1, <4>1, <4>2
      <3>3. CASE fetch.state # "read"
        <4>1. Coming = list /\ Coming' = list'
          BY <1>2, <3>3 DEF Coming
        <4>2. list'[m] = IF m = n /\ list[n] = Absent THEN r.row ELSE list[m]
          BY <1>1, <2>1 DEF Added, Typed, TypeOK, Table
        <4>3. QED
          BY <1>2, <2>4, <3>1, <4>1, <4>2
      <3>4. QED
        BY <3>2, <3>3
    <2>7. ComingCurrent'
      BY <2>6 DEF ComingCurrent
    <2>8. QED
      BY <1>4, <1>6, <2>7 DEF Rest
  <1>9. QED
    BY <1>1, <1>7, <1>8

LEMMA SaveEditRest ==
    ASSUME Typed, Rest, NEW n \in Names, SaveEdit(n)
    PROVE  Rest'
  <1>1. UNCHANGED <<table, list, fetch, files, unseen, overtaken>>
    BY DEF SaveEdit
  <1>2. CASE UNCHANGED pending
    BY <1>1, <1>2, UnwrittenKeepsRest DEF Unwritten, SameRequests, SameRequest
  <1>3. CASE pending' = [pending EXCEPT !["edit"] =
                          [state |-> "sent", name |-> n, row |-> local[n], here |-> TRUE]]
    <2>1. /\ pending'["add"] = pending["add"]
          /\ pending'["edit"].state = "sent" /\ pending'["edit"].row.odd = {}
      BY <1>3 DEF SaveEdit, Editable, Typed, TypeOK, Kinds
    <2>2. TableGrows
      BY <1>1 DEF TableGrows
    <2>3. /\ FilesInOrder' /\ FileInOrder'
          /\ \A w \in Uploaders : \A m \in Uploaded(w)' : table'[m] # Absent
      BY <1>1, <2>2, FilesKept
    <2>4. \A m \in Names : AddDone(m)' <=> AddDone(m)
      BY <2>1 DEF AddDone
    <2>5. \A m \in Names : Excused(m)'
      BY <2>1 DEF Excused
    <2>6. QED
      BY <1>1, <2>1, <2>3, <2>4, <2>5 DEF Rest, WrittenExist, Checked, ComingCurrent
  <1>4. QED
    BY <1>2, <1>3 DEF SaveEdit

LEMMA ServeEditRest ==
    ASSUME Typed, Rest, ServeEdit
    PROVE  Rest'
  <1> DEFINE r == pending["edit"]
  <1>1. r.state = "sent" /\ r.name \in Names /\ r.row \in Rows /\ r \in EditRequest
    BY EditSent DEF ServeEdit
  <1>2. /\ UNCHANGED <<list, fetch, files, unseen, overtaken>>
        /\ pending'["add"] = pending["add"]
        /\ pending'["edit"].state # "none" /\ pending'["edit"].row = r.row
        /\ table' = table \/ table' = [table EXCEPT ![r.name] = r.row]
    BY <1>1 DEF ServeEdit, EditRequest, Typed, TypeOK, Kinds
  <1>3. r.row # Absent
    BY <1>1, RowsAssumption
  <1>4. TableGrows
    BY <1>1, <1>2, <1>3 DEF TableGrows, Typed, TypeOK, Table
  <1>5. /\ FilesInOrder' /\ FileInOrder'
        /\ \A w \in Uploaders : \A m \in Uploaded(w)' : table'[m] # Absent
    BY <1>2, <1>4, FilesKept
  <1>6. \A m \in Names : AddDone(m)' <=> AddDone(m)
    BY <1>2 DEF AddDone
  <1>7. \A m \in Names : Excused(m)'
    BY <1>2 DEF Excused
  <1>8. WrittenExist'
    BY <1>4, <1>5, <1>6 DEF Rest, WrittenExist, TableGrows
  <1>9. Checked'
    BY <1>1, <1>2 DEF Rest, Checked
  <1>10. QED
    BY <1>5, <1>7, <1>8, <1>9 DEF Rest, ComingCurrent

LEMMA AnswerEditRest ==
    ASSUME Typed, Rest, AnswerEdit
    PROVE  Rest'
  <1>1. /\ UNCHANGED <<table, list, files, unseen, overtaken>>
        /\ pending'["add"] = pending["add"] /\ pending'["edit"].state = "none"
        /\ fetch'.stale = TRUE
    BY DEF AnswerEdit, AskedAfter, NoRequest, Typed, TypeOK, Kinds
  <1>2. TableGrows
    BY <1>1 DEF TableGrows
  <1>3. /\ FilesInOrder' /\ FileInOrder'
        /\ \A w \in Uploaders : \A m \in Uploaded(w)' : table'[m] # Absent
    BY <1>1, <1>2, FilesKept
  <1>4. \A m \in Names : AddDone(m)' <=> AddDone(m)
    BY <1>1 DEF AddDone
  <1>5. \A m \in Names : Excused(m)'
    BY <1>1 DEF Excused
  <1>6. QED
    BY <1>1, <1>3, <1>4, <1>5 DEF Rest, WrittenExist, Checked, ComingCurrent

(* A lost answer to a new meter leaves the browser ignorant of it.         *)
LEMMA LoseAnswerRest ==
    ASSUME Typed, Rest, NEW k \in {"add", "edit"}, LoseAnswer(k)
    PROVE  Rest'
  <1>1. /\ UNCHANGED <<table, list, fetch, files, overtaken>>
        /\ pending' = [pending EXCEPT ![k] = [pending[k] EXCEPT !.state = "refused"]]
        /\ unseen' = IF k = "add" /\ pending[k].state = "done"
                     THEN unseen \cup {pending[k].name} ELSE unseen
        /\ pending[k].state # "none"
    BY DEF LoseAnswer
  <1>2. TableGrows
    BY <1>1 DEF TableGrows
  <1>3. /\ FilesInOrder' /\ FileInOrder'
        /\ \A w \in Uploaders : \A m \in Uploaded(w)' : table'[m] # Absent
        /\ \A w \in Uploaders : Uploaded(w)' = Uploaded(w)
    BY <1>1, <1>2, FilesKept
  <1>4. CASE k = "add"
    <2>1. /\ pending'["edit"] = pending["edit"]
          /\ pending["add"] \in AddRequest
          /\ pending'["add"] = [pending["add"] EXCEPT !.state = "refused"]
      BY <1>1, <1>4, AddSent DEF Typed, TypeOK, Kinds
    <2>2. /\ pending'["add"].state = "refused" /\ pending'["add"].row = pending["add"].row
          /\ pending'["add"].warned = pending["add"].warned
      BY <2>1 DEF AddRequest
    <2>3. \A m \in Names : ~AddDone(m)' /\ (AddDone(m) => m \in unseen')
      BY <1>1, <1>4, <2>2 DEF AddDone
    <2>4. \A m \in Names : Excused(m) => Excused(m)'
      BY <1>1, <1>3, <2>1 DEF Excused, Uploaders
    <2>5. \A m \in Names : AddDone(m) => Excused(m)'
      BY <2>3 DEF Excused
    <2>6. ComingCurrent'
      BY <1>1, <2>4, <2>5 DEF Rest, ComingCurrent, Coming
    <2>7. WrittenExist' /\ Checked'
      BY <1>1, <1>3, <2>1, <2>2, <2>3 DEF Rest, WrittenExist, Checked
    <2>8. QED
      BY <1>3, <2>6, <2>7 DEF Rest
  <1>5. CASE k = "edit"
    <2>1. /\ pending'["add"] = pending["add"]
          /\ pending["edit"] \in EditRequest
          /\ pending'["edit"] = [pending["edit"] EXCEPT !.state = "refused"]
      BY <1>1, <1>5, EditSent DEF Typed, TypeOK, Kinds
    <2>2. pending'["edit"].state = "refused" /\ pending'["edit"].row = pending["edit"].row
      BY <2>1 DEF EditRequest
    <2>3. \A m \in Names : AddDone(m)' <=> AddDone(m)
      BY <2>1 DEF AddDone
    <2>4. \A m \in Names : Excused(m)'
      BY <2>2 DEF Excused
    <2>5. WrittenExist' /\ Checked'
      BY <1>1, <1>3, <1>5, <2>1, <2>2, <2>3 DEF Rest, WrittenExist, Checked
    <2>6. QED
      BY <1>3, <2>4, <2>5 DEF Rest, ComingCurrent
  <1>6. QED
    BY <1>4, <1>5

LEMMA FetchRest ==
    ASSUME Typed, Rest, AskMeters \/ ReadMeters \/ AnswerMeters
    PROVE  Rest'
  <1>1. UNCHANGED <<table, pending, files>>
    BY DEF AskMeters, ReadMeters, AnswerMeters
  <1>2. TableGrows
    BY <1>1 DEF TableGrows
  <1>3. /\ FilesInOrder' /\ FileInOrder'
        /\ \A w \in Uploaders : \A m \in Uploaded(w)' : table'[m] # Absent
        /\ \A w \in Uploaders : Uploaded(w)' = Uploaded(w)
    BY <1>1, <1>2, FilesKept
  <1>4. \A m \in Names : AddDone(m)' <=> AddDone(m)
    BY <1>1 DEF AddDone
  <1>5. WrittenExist' /\ Checked'
    BY <1>1, <1>3, <1>4 DEF Rest, WrittenExist, Checked
  <1>6. ComingCurrent'
    <2>1. CASE AskMeters
      <3>1. fetch'.state = "asked"
        BY <2>1 DEF AskMeters, Typed, TypeOK
      <3>2. QED
        BY <3>1 DEF ComingCurrent, Excused
    <2>2. CASE ReadMeters
      <3>1. fetch'.state = "read" /\ fetch'.rows = table
        BY <2>2 DEF ReadMeters, Typed, TypeOK
      <3>2. QED
        BY <1>1, <3>1 DEF ComingCurrent, Coming
    <2>3. CASE AnswerMeters
      <3>1. /\ fetch.state = "read" /\ fetch'.state = "none" /\ fetch'.stale = fetch.stale
            /\ list' = fetch.rows /\ UNCHANGED <<unseen, overtaken>>
        BY <2>3 DEF AnswerMeters, Listed, Typed, TypeOK
      <3>2. Coming' = Coming
        BY <3>1 DEF Coming
      <3>3. \A m \in Names : Excused(m) => Excused(m)'
        BY <1>1, <1>3, <3>1 DEF Excused, Uploaders
      <3>4. QED
        BY <1>1, <1>4, <3>2, <3>3 DEF Rest, ComingCurrent
    <2>4. QED
      BY <2>1, <2>2, <2>3
  <1>7. QED
    BY <1>3, <1>5, <1>6 DEF Rest

LEMMA SendFileRest ==
    ASSUME Typed, Rest, NEW w \in Uploaders, NEW form, SendFile(w, form)
    PROVE  Rest'
  <1>1. /\ UNCHANGED <<table, list, fetch, pending, unseen, overtaken>>
        /\ files[w].state = "none"
        /\ files' = [files EXCEPT ![w] = [state |-> "sent", done |-> {}, rows |-> form.rows,
                                         update |-> form.update, to |-> form.to]]
    BY DEF SendFile
  <1>2. /\ files'[w].done = {} /\ files'[w].state = "sent"
        /\ \A v \in Uploaders \ {w} : files'[v] = files[v]
    BY <1>1 DEF Typed, TypeOK
  <1>3. \A v \in Uploaders : Uploaded(v)' = Uploaded(v)
    BY <1>1, <1>2 DEF Uploaded, Written
  <1>4. \A m \in Names : /\ AddDone(m)' <=> AddDone(m)
                         /\ Excused(m) => Excused(m)'
    BY <1>1, <1>3 DEF AddDone, Excused, Uploaders
  <1>5. FilesInOrder' /\ FileInOrder'
    <2>1. ASSUME NEW v \in Uploaders, files'[v].state # "none"
          PROVE  LET u == files'[v]
                 IN  /\ u.done \subseteq DOMAIN u.rows
                     /\ \A i \in u.done : 1..i \subseteq u.done
                     /\ ~u.update => \A i \in u.done, k \in DOMAIN u.rows :
                                        k < i => u.rows[k].name # u.rows[i].name
      <3>1. CASE v = w
        BY <1>2, <3>1
      <3>2. CASE v # w
        BY <1>2, <2>1, <3>2 DEF Rest, FilesInOrder, FileInOrder
      <3>3. QED
        BY <3>1, <3>2
    <2>2. QED
      BY <2>1 DEF FilesInOrder, FileInOrder
  <1>6. QED
    BY <1>1, <1>3, <1>4, <1>5 DEF Rest, WrittenExist, Checked, ComingCurrent, Coming

LEMMA AnswerFileRest ==
    ASSUME Typed, Rest, NEW w \in Uploaders, AnswerFile(w)
    PROVE  Rest'
  <1> DEFINE u == files[w]
  <1>1. /\ UNCHANGED <<table, list, pending, overtaken>>
        /\ u.state \in {"done", "refused"}
        /\ files' = [files EXCEPT ![w] = NoUpload]
        /\ fetch' = [fetch EXCEPT !.stale = @ \/ (w = "page" /\ u.state = "done")]
        /\ unseen' = IF w = "page" /\ u.state = "refused" THEN unseen \cup Written(u) ELSE unseen
    BY DEF AnswerFile
  <1>2. /\ files'[w].state = "none"
        /\ \A v \in Uploaders \ {w} : files'[v] = files[v]
    BY <1>1 DEF Typed, TypeOK, NoUpload
  <1>3. /\ fetch'.stale = (fetch.stale \/ (w = "page" /\ u.state = "done"))
        /\ fetch'.state = fetch.state /\ fetch'.rows = fetch.rows
    BY <1>1 DEF Typed, TypeOK
  <1>4. \A v \in Uploaders : Uploaded(v)' = IF v = w THEN {} ELSE Uploaded(v)
    BY <1>2 DEF Uploaded, Written
  <1>5. \A m \in Names : AddDone(m)' <=> AddDone(m)
    BY <1>1 DEF AddDone
  <1>6. ASSUME NEW m \in Names, Excused(m) PROVE Excused(m)'
    <2>1. CASE m \in Uploaded("page") /\ w = "page"
      BY <1>1, <1>3, <2>1 DEF Excused, Uploaded
    <2>2. CASE ~(m \in Uploaded("page") /\ w = "page")
      BY <1>1, <1>3, <1>4, <1>6, <2>2 DEF Excused, Uploaders
    <2>3. QED
      BY <2>1, <2>2
  <1>7. FilesInOrder' /\ FileInOrder'
    <2>1. ASSUME NEW v \in Uploaders, files'[v].state # "none"
          PROVE  files'[v] = files[v] /\ files[v].state # "none"
      BY <1>2, <2>1
    <2>2. QED
      BY <2>1 DEF Rest, FilesInOrder, FileInOrder
  <1>8. Coming' = Coming
    BY <1>1, <1>3 DEF Coming
  <1>9. WrittenExist' /\ Checked'
    BY <1>1, <1>4, <1>5 DEF Rest, WrittenExist, Checked
  <1>10. ComingCurrent'
    BY <1>1, <1>5, <1>6, <1>8 DEF Rest, ComingCurrent
  <1>11. QED
    BY <1>7, <1>9, <1>10 DEF Rest

LEMMA UploadRowRest ==
    ASSUME Typed, Rest, NEW w \in Uploaders, UploadRow(w)
    PROVE  Rest'
  <1> DEFINE u == files[w]
  <1>1. PICK i \in NextRows(u), st \in Answers, fits \in BOOLEAN : RowTaken(w, i, st, fits)
    BY RowStep
  <1> DEFINE n == u.rows[i].name
             done == IF fits THEN u.done \cup {i} ELSE u.done
  <1>2. /\ i \in DOMAIN u.rows /\ n \in Names
        /\ fits = Fits(u, u.rows[i])
        /\ table' = IF fits THEN [table EXCEPT ![n] = Merged(table[n], u.rows[i])] ELSE table
        /\ files' = [files EXCEPT ![w] = [u EXCEPT !.done = done, !.state = st]]
        /\ unseen' = IF fits /\ w = "script" THEN unseen \cup {n} ELSE unseen
    BY <1>1 DEF RowTaken
  <1>3. u \in FileUpload /\ u.state = "sent" /\ UNCHANGED <<list, fetch, pending, overtaken>>
    BY RowStep DEF UploadRow
  <1>4. u.rows \in Seq(FileRows) /\ u.done \subseteq DOMAIN u.rows
    BY <1>3 DEF FileUpload, Rest, FilesInOrder
  <1>5. i \in Nat /\ i >= 1 /\ u.rows[i] \in FileRows /\ 1..(i - 1) \subseteq u.done
    BY <1>2, <1>4 DEF NextRows
  <1>6. Merged(table[n], u.rows[i]) # Absent
    BY <1>2, <1>5, MergedRow, RowsAssumption DEF Typed, TypeOK, Table
  <1> HIDE DEF done
  <1>7. /\ files'[w].done = done /\ files'[w].state = st /\ files'[w].rows = u.rows
        /\ files'[w].update = u.update
        /\ \A v \in Uploaders \ {w} : files'[v] = files[v]
    BY <1>2, <1>3 DEF Typed, TypeOK, FileUpload
  <1>8. TableGrows /\ (fits => table'[n] # Absent)
    BY <1>2, <1>6 DEF TableGrows, Typed, TypeOK, Table
  <1>9. /\ \A v \in Uploaders \ {w} : Uploaded(v)' = Uploaded(v)
        /\ Uploaded(w)' = Uploaded(w) \cup (IF fits THEN {n} ELSE {})
    <2>1. Uploaded(w)' = {u.rows[j].name : j \in done}
      BY <1>7 DEF Uploaded, Written, Answers
    <2>2. Uploaded(w) = {u.rows[j].name : j \in u.done}
      BY <1>3 DEF Uploaded, Written
    <2>3. QED
      BY <1>7, <2>1, <2>2 DEF done, Uploaded, Written
  <1>10. \A m \in Names : AddDone(m)' <=> AddDone(m)
    BY <1>3 DEF AddDone
  <1>11. WrittenExist'
    <2>1. \A v \in Uploaders : Uploaded(v) \subseteq Names
      BY UploadedNames DEF Rest
    <2>2. ASSUME NEW v \in Uploaders, NEW m \in Uploaded(v)' PROVE table'[m] # Absent
      <3>1. m \in Uploaded(v) \/ (fits /\ m = n)
        BY <1>9, <2>2
      <3>2. QED
        BY <1>8, <2>1, <3>1 DEF Rest, WrittenExist, TableGrows
    <2>3. \A m \in Names : AddDone(m)' => table'[m] # Absent
      BY <1>8, <1>10 DEF Rest, WrittenExist, TableGrows
    <2>4. QED
      BY <2>2, <2>3 DEF WrittenExist
  <1>12. Checked'
    BY <1>3 DEF Rest, Checked
  <1>13. ComingCurrent'
    <2>1. \A m \in Names : Excused(m) => Excused(m)'
      BY <1>2, <1>3, <1>9 DEF Excused, Uploaders
    <2>2. \A m \in Names : table'[m] # table[m] => fits /\ m = n
      BY <1>2 DEF Typed, TypeOK, Table
    <2>3. ASSUME NEW m \in Names, fits, m = n PROVE Excused(m)'
      BY <1>2, <1>9, <2>3 DEF Excused, Uploaders
    <2>4. Coming' = Coming
      BY <1>3 DEF Coming
    <2>5. ASSUME NEW m \in Names, ~Excused(m)'
          PROVE  \/ Coming'[m] = table'[m]
                 \/ AddDone(m)' /\ Coming'[m] = Absent /\ pending'["add"].row = table'[m]
      <3>1. ~(fits /\ m = n)
        <4>1. SUFFICES ASSUME fits, m = n PROVE FALSE
          OBVIOUS
        <4>2. Excused(m)'
          BY <2>3, <4>1
        <4>3. QED
          BY <2>5, <4>2
      <3>2. table'[m] = table[m] /\ ~Excused(m)
        BY <2>1, <2>2, <2>5, <3>1
      <3>3. \/ Coming[m] = table[m]
            \/ AddDone(m) /\ Coming[m] = Absent /\ pending["add"].row = table[m]
        BY <3>2 DEF Rest, ComingCurrent
      <3>4. QED
        BY <1>3, <1>10, <2>4, <3>2, <3>3
    <2>6. QED
      BY <2>5 DEF ComingCurrent
  <1>14. FilesInOrder' /\ FileInOrder'
    <2>1. /\ \A j \in u.done : 1..j \subseteq u.done
          /\ ~u.update => \A j \in u.done, k \in DOMAIN u.rows :
                             k < j => u.rows[k].name # u.rows[j].name
      BY <1>3 DEF Rest, FileInOrder
    <2>2. done \subseteq DOMAIN u.rows
      BY <1>2, <1>4 DEF done
    <2>3. \A j \in done : 1..j \subseteq done
      <3>1. 1..i \subseteq u.done \cup {i}
        BY <1>5
      <3>2. QED
        BY <2>1, <3>1 DEF done
    <2>4. ASSUME ~u.update, NEW j \in done, NEW k \in DOMAIN u.rows, k < j
          PROVE  u.rows[k].name # u.rows[j].name
      <3>1. CASE j \in u.done
        BY <2>1, <2>4, <3>1
      <3>2. CASE j = i /\ fits
        <4>1. table[n] = Absent
          BY <1>2, <2>4, <3>2 DEF Fits
        <4>2. k \in u.done
          BY <1>4, <1>5, <2>4, <3>2
        <4>3. u.rows[k].name \in Uploaded(w)
          BY <1>3, <4>2 DEF Uploaded, Written
        <4>4. table[u.rows[k].name] # Absent
          BY <4>3 DEF Rest, WrittenExist
        <4>5. QED
          BY <3>2, <4>1, <4>4
      <3>3. QED
        BY <3>1, <3>2 DEF done
    <2>5. \A v \in Uploaders \ {w} : files'[v].state # "none" =>
            files'[v] = files[v] /\ files[v].state # "none"
      BY <1>7
    <2>6. QED
      BY <1>7, <2>2, <2>3, <2>4, <2>5 DEF Rest, FilesInOrder, FileInOrder
  <1>15. QED
    BY <1>11, <1>12, <1>13, <1>14 DEF Rest

LEMMA NextRest == Typed /\ Rest /\ [Next]_vars => Rest'
  <1> SUFFICES ASSUME Typed, Rest, [Next]_vars PROVE Rest'
    OBVIOUS
  <1>1. ASSUME NEW page \in Pages, Leave(page) PROVE Rest'
    <2>1. Unwritten
      BY <1>1 DEF Leave, Unwritten
    <2>2. pending' = [k \in Kinds |-> IF Free(k) THEN NoRequest
                                     ELSE [pending[k] EXCEPT !.here = FALSE]]
      BY <1>1 DEF Leave
    <2>3. SameRequest("add") /\ (pending["add"].state # "none"
                                 => pending'["add"].warned = pending["add"].warned)
      <3>1. CASE pending["add"].state = "none"
        BY <2>2, <3>1 DEF SameRequest, Free, NoRequest, Kinds
      <3>2. CASE pending["add"].state # "none"
        <4>1. pending["add"] \in AddRequest
          BY <3>2, AddSent
        <4>2. pending'["add"] = [pending["add"] EXCEPT !.here = FALSE]
          BY <2>2, <3>2 DEF Free, Kinds
        <4>3. QED
          BY <4>1, <4>2 DEF SameRequest, AddRequest
      <3>3. QED
        BY <3>1, <3>2
    <2>4. SameRequest("edit")
      <3>1. CASE pending["edit"].state = "none"
        BY <2>2, <3>1 DEF SameRequest, Free, NoRequest, Kinds
      <3>2. CASE pending["edit"].state # "none"
        <4>1. pending["edit"] \in EditRequest
          BY <3>2, EditSent
        <4>2. pending'["edit"] = [pending["edit"] EXCEPT !.here = FALSE]
          BY <2>2, <3>2 DEF Free, Kinds
        <4>3. QED
          BY <4>1, <4>2 DEF SameRequest, EditRequest
      <3>3. QED
        BY <3>1, <3>2
    <2>5. QED
      BY <2>1, <2>3, <2>4, UnwrittenKeepsRest DEF SameRequests
  <1>2. ASSUME NEW n \in Names, NEW e \in Entered, FillCreate(n, e) PROVE Rest'
    BY <1>2, UnwrittenKeepsRest DEF FillCreate, Unwritten, SameRequests, SameRequest
  <1>3. ASSUME NEW warned \in BOOLEAN, SaveCreate(warned) PROVE Rest'
    BY <1>3, SaveCreateRest
  <1>4. CASE DiscardCreate
    BY <1>4, UnwrittenKeepsRest DEF DiscardCreate, Unwritten, SameRequests, SameRequest
  <1>5. CASE ServeAdd
    BY <1>5, ServeAddRest
  <1>6. CASE AnswerAdd
    BY <1>6, AnswerAddRest
  <1>7. ASSUME NEW n \in Names, list[n] # Absent, NEW row \in Edits(local[n]), ChangeEdit(n, row)
        PROVE  Rest'
    BY <1>7, UnwrittenKeepsRest DEF ChangeEdit, Unwritten, SameRequests, SameRequest
  <1>8. ASSUME NEW n \in Names, SaveEdit(n) \/ DiscardEdit(n) PROVE Rest'
    <2>1. CASE SaveEdit(n)
      BY <2>1, SaveEditRest
    <2>2. CASE DiscardEdit(n)
      BY <2>2, UnwrittenKeepsRest DEF DiscardEdit, Unwritten, SameRequests, SameRequest
    <2>3. QED
      BY <1>8, <2>1, <2>2
  <1>9. CASE ServeEdit
    BY <1>9, ServeEditRest
  <1>10. CASE AnswerEdit
    BY <1>10, AnswerEditRest
  <1>11. ASSUME NEW k \in {"add", "edit"}, LoseAnswer(k) PROVE Rest'
    BY <1>11, LoseAnswerRest
  <1>12. CASE AskMeters \/ ReadMeters \/ AnswerMeters
    BY <1>12, FetchRest
  <1>13. CASE \/ \E n \in Names : ChooseMeter(n)
              \/ ChangeOptions \/ TickUpdate \/ ChooseFile \/ ClearUp
    <2>1. \E form : ChangeUp(form)
      BY <1>13 DEF ChooseMeter, ChangeOptions, TickUpdate, ChooseFile, ClearUp
    <2>2. QED
      BY <2>1, UnwrittenKeepsRest DEF ChangeUp, Unwritten, SameRequests, SameRequest
  <1>14. CASE SubmitReadings \/ ServeReadings \/ AnswerReadings
    <2>1. Unwritten
      BY <1>14 DEF SubmitReadings, ServeReadings, AnswerReadings, Unwritten
    <2>2. pending'["add"] = pending["add"] /\ pending'["edit"] = pending["edit"]
      BY <1>14 DEF SubmitReadings, ServeReadings, AnswerReadings, Typed, TypeOK, Kinds
    <2>3. QED
      BY <2>1, <2>2, UnwrittenKeepsRest DEF SameRequests, SameRequest
  <1>15. ASSUME NEW w \in Uploaders, NEW form \in FileForms(w), SendFile(w, form) PROVE Rest'
    BY <1>15, SendFileRest
  <1>16. ASSUME NEW w \in Uploaders, UploadRow(w) \/ AnswerFile(w) PROVE Rest'
    BY <1>16, UploadRowRest, AnswerFileRest
  <1>17. CASE UNCHANGED vars
    BY <1>17, UnwrittenKeepsRest DEF vars, Unwritten, SameRequests, SameRequest
  <1>18. QED
    BY <1>1, <1>2, <1>3, <1>4, <1>5, <1>6, <1>7, <1>8, <1>9, <1>10, <1>11, <1>12, <1>13, <1>14,
       <1>15, <1>16, <1>17, Zenon DEF Next

LEMMA SpecIInv == Spec => []IInv
  <1>1. IInv <=> Typed /\ Rest
    BY DEF IInv, Typed, Rest
  <1>2. Init => Typed /\ Rest
    BY <1>1, InitIInv
  <1>3. (Typed /\ Rest) /\ [Next]_vars => (Typed /\ Rest)'
    BY NextTyped, NextRest
  <1>4. QED
    BY <1>1, <1>2, <1>3, PTL DEF Spec

-----------------------------------------------------------------------------
(* When nothing is on its way, the browser lists every meter as it is in   *)
(* the table, but for the changes nobody told it of and the new meters an  *)
(* older answer took away again: invalidatesTags, updateQueryData and      *)
(* invalidateTags together leave no other gap, whatever the order of       *)
(* requests, answers and losses.                                           *)
THEOREM ListIsCurrent == Spec => []ListCurrent
  <1>1. IInv => ListCurrent
    <2> SUFFICES ASSUME IInv, Quiet, NEW n \in Names \ (unseen \cup overtaken)
                 PROVE  list[n] = table[n]
      BY DEF ListCurrent
    <2>1. /\ pending["add"].state = "none" /\ pending["edit"].state = "none"
          /\ files["page"].state = "none" /\ ~fetch.stale /\ fetch.state = "none"
      BY DEF Quiet, Free, Kinds
    <2>2. ~Excused(n) /\ ~AddDone(n) /\ Coming = list
      BY <2>1 DEF Excused, Uploaded, AddDone, Coming
    <2>3. QED
      BY <2>2 DEF IInv, ComingCurrent
  <1>2. QED
    BY <1>1, SpecIInv, PTL

(* Whatever other uploads, forms and losses come in between, a file of     *)
(* meters is written from its start, and of a name it gives twice only the *)
(* first row (uploadMeters).                                               *)
THEOREM FilesApplyInOrder == Spec => []FileInOrder
  <1>1. IInv => FileInOrder
    BY DEF IInv
  <1>2. QED
    BY <1>1, SpecIInv, PTL

(* A step that puts an input out of bounds into the table serves a form of *)
(* a new meter that was saved from its warning, or writes the row of a     *)
(* file that gives it, and neither writes what the server or the table     *)
(* refuses; an edit that is stored leaves nothing out of bounds            *)
(* (isValidMeter, isValidCreateMeter, validateMeterParams, the CHECKs).    *)
THEOREM OddComesUnchecked == Spec => OddOnlyUnchecked
  <1> DEFINE New(n) == OddOf(table'[n]) \ OddOf(table[n])
  <1>1. ASSUME IInv, [Next]_vars, NEW n \in Names, New(n) # {}
        PROVE  New(n) \subseteq PagesOnly /\ (FromWarning(n) \/ FromFile(n, New(n)))
    <2>1. Typed /\ Rest
      BY <1>1 DEF IInv, Typed, Rest
    <2>2. table'[n] # table[n]
      BY <1>1
    <2>3. CASE ServeAdd
      <3>1. pending["add"].state = "sent" /\ pending["add"].name \in Names
        BY <2>1, <2>3, AddSent DEF ServeAdd
      <3>2. n = pending["add"].name /\ table'[n] = pending["add"].row /\ Accepted(pending["add"].row)
        BY <2>1, <2>2, <2>3, <3>1 DEF ServeAdd, Typed, TypeOK, Table
      <3>3. New(n) \subseteq pending["add"].row.odd
        BY <3>2 DEF OddOf
      <3>4. pending["add"].warned
        BY <1>1, <2>1, <3>1, <3>3 DEF Rest, Checked
      <3>5. QED
        BY <3>1, <3>2, <3>3, <3>4 DEF Accepted, FromWarning
    <2>4. CASE ServeEdit
      <3>1. pending["edit"].state = "sent" /\ pending["edit"].name \in Names
        BY <2>1, <2>4, EditSent DEF ServeEdit
      <3>2. table'[n] = pending["edit"].row
        BY <2>1, <2>2, <2>4, <3>1 DEF ServeEdit, Typed, TypeOK, Table
      <3>3. QED
        BY <1>1, <2>1, <3>1, <3>2 DEF Rest, Checked, OddOf
    <2>5. CASE \E w \in Uploaders : UploadRow(w)
      <3>1. PICK w \in Uploaders : UploadRow(w)
        BY <2>5
      <3>2. PICK i \in NextRows(files[w]), st \in Answers, fits \in BOOLEAN : RowTaken(w, i, st, fits)
        BY <2>1, <3>1, RowStep
      <3> DEFINE given == files[w].rows[i]
      <3>3. /\ table'[n] = Merged(table[n], given) /\ given.name = n
            /\ Fits(files[w], given)
        BY <2>1, <2>2, <3>2 DEF RowTaken, Typed, TypeOK, Table
      <3>4. Accepted(Merged(table[n], given))
        BY <3>3 DEF Fits
      <3>5. /\ files[w].state = "sent"
            /\ i \in DOMAIN files[w].rows \ files[w].done
        BY <2>1, <3>1, RowStep DEF NextRows
      <3>6. table[n] \in Rows \cup {Absent}
        BY <2>1 DEF Typed, TypeOK, Table
      <3>7. given \in FileRows
        BY <2>1, <3>1, <3>5, RowStep DEF FileUpload
      <3>8. Merged(table[n], given) # Absent
        BY <3>6, <3>7, MergedRow, RowsAssumption
      <3>9. /\ OddOf(table'[n]) = Merged(table[n], given).odd
            /\ Merged(table[n], given).odd \subseteq given.odd \cup OddOf(table[n])
        BY <3>3, <3>8 DEF OddOf, Merged
      <3>10. New(n) \subseteq given.odd /\ New(n) \subseteq PagesOnly
        BY <3>4, <3>9 DEF Accepted
      <3>11. FromFile(n, New(n))
        BY <3>1, <3>3, <3>5, <3>10 DEF FromFile
      <3>12. QED
        BY <3>10, <3>11
    <2>6. CASE UNCHANGED table
      BY <2>2, <2>6
    <2>7. ServeAdd \/ ServeEdit \/ (\E w \in Uploaders : UploadRow(w)) \/ UNCHANGED table
      BY <1>1 DEF Next, vars, Leave, FillCreate, SaveCreate, DiscardCreate, AnswerAdd, ChangeEdit,
                  SaveEdit, DiscardEdit, AnswerEdit, LoseAnswer, AskMeters, ReadMeters, AnswerMeters,
                  ChooseMeter, ChangeOptions, TickUpdate, ChooseFile, ClearUp, ChangeUp,
                  SubmitReadings, ServeReadings, AnswerReadings, SendFile, AnswerFile
    <2>8. QED
      BY <2>3, <2>4, <2>5, <2>6, <2>7
  <1>2. ASSUME IInv, [Next]_vars, pending["edit"].state = "sent", pending'["edit"].state = "done"
        PROVE  OddOf(table'[pending["edit"].name]) = {}
    <2>1. Typed /\ Rest
      BY <1>2 DEF IInv, Typed, Rest
    <2>2. DOMAIN pending = Kinds /\ "edit" \in Kinds /\ "add" \in Kinds /\ "readings" \in Kinds
      BY <2>1 DEF Typed, TypeOK, Kinds
    <2>3. pending["edit"].name \in Names /\ pending["edit"] \in EditRequest
      BY <1>2, <2>1, EditSent
    <2>4. ServeEdit
      <3>1. CASE \E page \in Pages : Leave(page)
        BY <1>2, <2>2, <3>1 DEF Leave, Free
      <3>2. CASE \E k \in {"add", "edit"} : LoseAnswer(k)
        BY <1>2, <2>2, <2>3, <3>2 DEF LoseAnswer, EditRequest
      <3>3. CASE (\E n \in Names : SaveEdit(n)) \/ AnswerEdit
        BY <1>2, <2>2, <3>3 DEF SaveEdit, Free, AnswerEdit
      <3>4. CASE pending'["edit"] = pending["edit"]
        BY <1>2, <3>4
      <3>5. \/ \E page \in Pages : Leave(page)
            \/ \E k \in {"add", "edit"} : LoseAnswer(k)
            \/ (\E n \in Names : SaveEdit(n)) \/ AnswerEdit
            \/ ServeEdit \/ pending'["edit"] = pending["edit"]
        BY <1>2, <2>2 DEF Next, vars, FillCreate, SaveCreate, DiscardCreate, ServeAdd, AnswerAdd,
                    ChangeEdit, DiscardEdit, AskMeters, ReadMeters, AnswerMeters,
                    ChooseMeter, ChangeOptions, TickUpdate, ChooseFile, ClearUp, ChangeUp,
                    SubmitReadings, ServeReadings, AnswerReadings, SendFile, UploadRow, AnswerFile
      <3>6. QED
        BY <3>1, <3>2, <3>3, <3>4, <3>5
    <2>5. Accepted(pending["edit"].row)
      BY <1>2, <2>2, <2>3, <2>4 DEF ServeEdit, EditRequest
    <2>6. table'[pending["edit"].name] = pending["edit"].row
      BY <2>1, <2>3, <2>4, <2>5 DEF ServeEdit, Typed, TypeOK, Table
    <2>7. QED
      BY <1>2, <2>1, <2>6 DEF Rest, Checked, OddOf
  <1>3. IInv /\ [Next]_vars =>
          [/\ \A n \in Names :
                LET new == OddOf(table'[n]) \ OddOf(table[n]) IN
                new # {} => new \subseteq PagesOnly /\ (FromWarning(n) \/ FromFile(n, new))
           /\ pending["edit"].state = "sent" /\ pending'["edit"].state = "done"
              => OddOf(table'[pending["edit"].name]) = {}]_vars
    BY <1>1, <1>2
  <1>4. QED
    BY <1>3, SpecIInv, PTL DEF Spec, OddOnlyUnchecked
=============================================================================
