------------------------------ MODULE CaseBook ------------------------------
(***************************************************************************)
(* The records of the cases (rows, tags, notes) and everything that writes *)
(* them: the Cases page in several browser sessions (ui/cases_tab.py), the *)
(* background runs (ui/background_analysis.py), the React server, agents   *)
(* that append drafts, the sweep of the API server, and "Clear Cases".     *)
(*                                                                         *)
(* CaseRepository opens a connection per call and update_case() writes the *)
(* columns and tags of an object that was read before.  A pass of the      *)
(* Streamlit script reads the row of its case, then its tags and notes,    *)
(* and then does what the click that caused it asks for; other processes   *)
(* write in between.                                                       *)
(*                                                                         *)
(* `title` stands for title, description and severity.  A widget of the    *)
(* form without a key is identified by its label and default: what was     *)
(* typed into it is lost when a pass finds another default in the store.   *)
(***************************************************************************)
EXTENDS Naturals, FiniteSets, Sequences

CONSTANTS
  Sessions,                 \* browser sessions of the Cases page
  Titles, Blank,            \* titles, and one that is no title
  Tags,
  Requests,                 \* one draft of an agent, sent several times
  NoEdit,
  MaxRecords, MaxNotes,     \* bounds on rows
  ActBudgets                \* bounds on what each kind of actor does

ASSUME CaseBookAssumption ==
  /\ Titles # {} /\ Blank \notin Titles /\ NoEdit \notin Titles \cup {Blank}
  /\ "upkeep" \notin Sessions
  /\ {MaxRecords, MaxNotes} \subseteq Nat
  /\ \A b \in ActBudgets :
       b \in [clicks : [Sessions -> Nat], runs : Nat, posts : Nat, sends : Nat, clears : Nat]

VARIABLES
  records,     \* the rows of `cases`, in order of creation
  labels,      \* the rows of `case_tags`
  vocabulary,  \* the rows of `tags`
  notes,       \* the rows of `notes`
  serial,      \* sqlite_sequence of `notes`
  page,        \* the Cases page of each session (warned, edited: history)
  upkeep,      \* a background run that changes the status of its case
  post,        \* a POST .../notes of the React client
  draft,       \* the requests of the agent
  retried,     \* whether agent_retries has the key of the draft
  touched,     \* history: who works on a case that another has written
  budget       \* what may still happen

bookRows == <<records, labels, vocabulary, notes, serial, retried>>
bookVars == <<bookRows, page, upkeep, post, draft, touched, budget>>

Actors   == Sessions \cup {"upkeep"}
Statuses == {"open", "in_progress", "closed"}
Live     == {c \in DOMAIN records : records[c].live}
TagsOf(c)  == {t \in Tags : <<c, t>> \in labels}
NotesOf(c) == {n \in notes : n.case = c}

(* The Case object of a row, whose tags are read next.                     *)
RowCase(row) == [title |-> row.title, status |-> row.status, closed |-> row.closed, tags |-> {}]

NoCase    == [title |-> Blank, status |-> "open", closed |-> FALSE, tags |-> {}]
NoNote    == [id |-> 0, case |-> 0, by |-> "analyst", made |-> 0]
Untouched == [title |-> NoEdit, status |-> NoEdit, tags |-> NoEdit, new |-> NoEdit]

NoFilter  == [status |-> "all", tags |-> {}]

FirstNote == [id |-> 1, case |-> 1, by |-> "client", made |-> 1]
FirstCase == [live |-> TRUE, title |-> CHOOSE t \in Titles : TRUE, status |-> "open", closed |-> FALSE]

(* Everyone has opened the first case, which has a note.                   *)
FirstPage ==
  [view |-> "detail", case |-> 1, pc |-> "shown", click |-> "none", note |-> NoNote,
   fresh |-> NoCase, copy |-> RowCase(FirstCase), typed |-> Untouched, offered |-> {}, seen |-> {FirstNote},
   filter |-> NoFilter, listed |-> {}, confirm |-> 0,
   warned |-> {}, edited |-> {}]

BookInit ==
  /\ records = <<FirstCase>>
  /\ labels = {} /\ vocabulary = {} /\ notes = {FirstNote} /\ serial = 1
  /\ page = [s \in Sessions |-> FirstPage]
  /\ upkeep = [pc |-> "idle", case |-> 0, copy |-> NoCase, to |-> "open"]
  /\ post = [pc |-> "idle", case |-> 0]
  /\ draft = [q \in Requests |-> "unsent"]
  /\ retried = FALSE
  /\ touched = {}
  /\ budget \in ActBudgets

Spend(what) == budget[what] > 0 /\ budget' = [budget EXCEPT ![what] = @ - 1]

-----------------------------------------------------------------------------
(* CaseRepository.                                                         *)

Working(a, c) ==
  IF a = "upkeep" THEN upkeep.pc = "read" /\ upkeep.case = c ELSE page[a].pc # "shown" /\ page[a].case = c

(* The others that have read one of these cases learn nothing of a write.  *)
Touch(a, cs) == touched' = (touched \ {a}) \cup {b \in Actors \ {a} : \E c \in cs : Working(b, c)}

Retagged(c, tags) == {l \in labels : l[1] # c} \cup {<<c, t>> : t \in tags}

(* update_case(): every column and all the tags of the object.  Without a  *)
(* row the UPDATE changes nothing, and the tags are inserted all the same. *)
UpdateCase(a, c, copy) ==
  /\ records' = [records EXCEPT ![c] = IF ~@.live THEN @
                   ELSE [@ EXCEPT !.title = copy.title, !.status = copy.status, !.closed = copy.closed]]
  /\ labels' = Retagged(c, copy.tags)
  /\ vocabulary' = vocabulary \cup copy.tags
  /\ Touch(a, {c})
  /\ UNCHANGED <<notes, serial, retried>>

CreateCase(copy) ==
  /\ Len(records) < MaxRecords
  /\ records' = Append(records, [live |-> TRUE, title |-> copy.title, status |-> copy.status, closed |-> FALSE])
  /\ labels' = labels \cup {<<Len(records) + 1, t>> : t \in copy.tags}
  /\ vocabulary' = vocabulary \cup copy.tags
  /\ UNCHANGED <<notes, serial, retried, touched>>

(* notes.id INTEGER PRIMARY KEY AUTOINCREMENT.                             *)
NoteId == serial + 1

AddNote(c, by) ==
  /\ serial < MaxNotes
  /\ notes' = notes \cup {[id |-> NoteId, case |-> c, by |-> by, made |-> serial + 1]}
  /\ serial' = serial + 1

(* DELETE FROM notes WHERE id = ?                                          *)
DeleteNote(id) == notes' = {n \in notes : n.id # id}

(* delete_case(), in one transaction; agent_retries goes with its case.    *)
EraseCase(a, c) ==
  /\ records' = [records EXCEPT ![c].live = FALSE]
  /\ labels' = Retagged(c, {})
  /\ notes' = notes \ NotesOf(c)
  /\ retried' = (retried /\ c # 1)
  /\ Touch(a, {c})
  /\ UNCHANGED <<vocabulary, serial>>

(* clear_all(), the "Clear Cases" dialog of the settings tab.              *)
ClearAll ==
  /\ Spend("clears")
  /\ records' = [c \in DOMAIN records |-> [records[c] EXCEPT !.live = FALSE]]
  /\ labels' = {} /\ vocabulary' = {} /\ notes' = {} /\ retried' = FALSE
  /\ touched' = touched \cup {a \in Actors : \E c \in Live : Working(a, c)}
  /\ UNCHANGED <<serial, page, upkeep, post, draft>>

OrphanLabels == {l \in labels : l[1] \notin Live}
OrphanNotes  == {n \in notes : n.case \notin Live}

(* _gc_orphaned_case_rows(), every hour where the API server runs.         *)
SweepOrphans ==
  /\ OrphanNotes # {} \/ OrphanLabels # {}
  /\ notes' = notes \ OrphanNotes
  /\ labels' = labels \ OrphanLabels
  /\ UNCHANGED <<records, vocabulary, serial, retried, page, upkeep, post, draft, touched, budget>>

-----------------------------------------------------------------------------
(* The Cases page.                                                         *)

(* A click, or an edit of a widget, starts a pass.  A row of the table     *)
(* opens the case that was listed there.                                   *)
Begin(s, p) ==
  /\ page[s].pc = "shown"
  /\ budget.clicks[s] > 0
  /\ budget' = [budget EXCEPT !.clicks[s] = @ - 1]
  /\ page' = [page EXCEPT ![s] = [p EXCEPT !.pc = "begun"]]
  /\ touched' = touched \ {s}
  /\ UNCHANGED <<bookRows, upkeep, post, draft>>

Held(typed, default) == IF typed = NoEdit THEN default ELSE typed

(* The tags chosen, and the values of the form.                            *)
Chosen(p) == Held(p.typed.tags, p.copy.tags)

Form(p) ==
  [title |-> Held(p.typed.title, p.copy.title), status |-> Held(p.typed.status, p.copy.status),
   closed |-> p.copy.closed,
   tags |-> Chosen(p) \cup (IF p.typed.new = NoEdit THEN {} ELSE {p.typed.new})]

(* The buttons the last pass has drawn.                                    *)
Buttons(p) ==
  CASE p.view = "list"   -> {"new"}
    [] p.view \in {"new", "edit"} -> {"save", "cancel"}
    [] p.view = "detail" -> {"edit", "delete", "note", "back",
                             IF p.copy.status = "closed" THEN "reopen" ELSE "close"}

Press(s) ==
  LET p == page[s] IN
  \/ \E b \in Buttons(p) : Begin(s, [p EXCEPT !.click = b])
  \/ \E n \in p.seen : p.view = "detail" /\ Begin(s, [p EXCEPT !.click = "delnote", !.note = n])
  \/ \E c \in p.listed : p.view = "list" /\ Begin(s, [p EXCEPT !.view = "detail", !.case = c])

(* An edit of a widget changes its value; the pass that follows does       *)
(* nothing else.                                                           *)
Type(s) ==
  LET p == page[s] IN
  /\ p.view \in {"edit", "new"}
  /\ \/ \E t \in (Titles \cup {Blank}) \ {Form(p).title} : Begin(s, [p EXCEPT !.typed.title = t, !.edited = @ \cup {"title"}])
     \/ \E st \in Statuses \ {Form(p).status} : Begin(s, [p EXCEPT !.typed.status = st, !.edited = @ \cup {"status"}])
     \/ \E g \in (SUBSET p.offered) \ {Chosen(p)} : Begin(s, [p EXCEPT !.typed.tags = g, !.edited = @ \cup {"tags"}])
     \/ \E t \in Tags \ {p.typed.new} : Begin(s, [p EXCEPT !.typed.new = t, !.edited = @ \cup {"tags"}])

(* The filters above the table of cases.                                   *)
Filter(s) ==
  LET p == page[s] IN
  /\ p.view = "list"
  /\ \/ \E st \in (Statuses \cup {"all"}) \ {p.filter.status} : Begin(s, [p EXCEPT !.filter.status = st])
     \/ \E g \in (SUBSET p.offered) \ {p.filter.tags} : Begin(s, [p EXCEPT !.filter.tags = g])

(* list_cases(): a case with any of the tags.                              *)
Listed(filter) ==
  {c \in Live : /\ filter.status \in {"all", records[c].status}
                /\ filter.tags # {} => filter.tags \cap TagsOf(c) # {}}

OfCase(p) == p.view \in {"detail", "edit"}

(* get_case(): the row first.  A case that is gone leads back to the list. *)
ReadRow(s) ==
  LET p == page[s] IN
  /\ p.pc = "begun"
  /\ page' = [page EXCEPT ![s] =
       IF ~OfCase(p) THEN [p EXCEPT !.pc = "row", !.fresh = NoCase]
       ELSE IF p.case \in Live THEN [p EXCEPT !.pc = "row", !.fresh = RowCase(records[p.case])]
       ELSE [p EXCEPT !.view = "list", !.click = "none"]]
  /\ touched' = touched \ {s}
  /\ UNCHANGED <<bookRows, upkeep, post, draft, budget>>

(* Mutant: a widget with a key keeps what it held.                         *)
KeptByKey(typed, old, same) == IF typed = NoEdit THEN old ELSE typed

(* What a widget holds: what was typed, unless its default has changed.    *)
Kept(typed, old, same) == IF same THEN typed ELSE NoEdit

(* ... then the tags and notes, the tags there are, which a multiselect    *)
(* offers, and the cases of the list.                                      *)
ReadTags(s) ==
  LET p     == page[s]
      fresh == IF OfCase(p) THEN [p.fresh EXCEPT !.tags = TagsOf(p.case)] ELSE NoCase
      tags  == IF vocabulary = p.offered THEN p.filter.tags ELSE {}
  IN  /\ p.pc = "row"
      /\ page' = [page EXCEPT ![s] =
           [p EXCEPT !.pc = "read", !.copy = fresh, !.fresh = NoCase, !.offered = vocabulary,
                     !.seen = IF OfCase(p) THEN NotesOf(p.case) ELSE {},
                     !.filter = IF p.view = "list" THEN [p.filter EXCEPT !.tags = tags] ELSE NoFilter,
                     !.listed = IF p.view = "list" THEN Listed([p.filter EXCEPT !.tags = tags]) ELSE {},
                     !.typed = [p.typed EXCEPT
                       !.title = Kept(p.typed.title, p.copy.title, p.copy.title = fresh.title),
                       !.status = Kept(p.typed.status, p.copy.status, p.copy.status = fresh.status),
                       !.tags = Kept(p.typed.tags, p.copy.tags,
                                     p.copy.tags = fresh.tags /\ p.offered = vocabulary)]]]
      /\ UNCHANGED <<bookRows, upkeep, post, draft, touched, budget>>

(* The end of a pass that goes on to another view, or ends in st.rerun().  *)
Goes(s, view) ==
  page' = [page EXCEPT ![s] = [@ EXCEPT !.view = view, !.click = "none", !.pc = "begun", !.note = NoNote,
                                        !.typed = Untouched, !.edited = {}]]

Stays(s) == page' = [page EXCEPT ![s] = [@ EXCEPT !.click = "none", !.pc = "shown", !.note = NoNote]]

Writes(s, copy, view) == UpdateCase(s, page[s].case, copy) /\ Goes(s, view)

(* close() and reopen() of the Case.                                       *)
Closed(copy)   == [copy EXCEPT !.status = "closed", !.closed = TRUE]
Reopened(copy) == [copy EXCEPT !.status = "open", !.closed = FALSE]

(* A title is required.                                                    *)
Save(s) ==
  LET p == page[s] IN
  IF Form(p).title \notin Titles THEN Stays(s) /\ UNCHANGED <<bookRows, touched>>
  ELSE IF p.view = "edit" THEN Writes(s, Form(p), "detail")
  ELSE CreateCase(Form(p)) /\ Goes(s, "list")

Confirmed(p) == p.confirm = p.case

(* "Delete Case": the first click asks, the second deletes.                *)
Remove(s) ==
  LET p == page[s] IN
  IF Confirmed(p) THEN EraseCase(s, p.case) /\ Goes(s, "list")
  ELSE /\ page' = [page EXCEPT ![s] = [p EXCEPT !.confirm = p.case, !.warned = @ \cup {p.case},
                                                !.click = "none", !.pc = "shown"]]
       /\ UNCHANGED <<bookRows, touched>>

Quiet == UNCHANGED <<bookRows, touched>>

(* The rest of the pass: a click counts if its button is drawn again.      *)
Act(s) ==
  LET p     == page[s]
      click == p.click
  IN  /\ p.pc = "read"
      /\ CASE click = "note" ->
                AddNote(p.case, "analyst") /\ Goes(s, "detail")
                /\ UNCHANGED <<records, labels, vocabulary, retried, touched>>
           [] click = "delnote" /\ (\E n \in p.seen : n.id = p.note.id) ->
                DeleteNote(p.note.id) /\ Goes(s, "detail")
                /\ UNCHANGED <<records, labels, vocabulary, serial, retried, touched>>
           [] click = "close" /\ p.copy.status # "closed" -> Writes(s, Closed(p.copy), "detail")
           [] click = "reopen" /\ p.copy.status = "closed" -> Writes(s, Reopened(p.copy), "detail")
           [] click = "save" -> Save(s)
           [] click = "delete" -> Remove(s)
           [] click = "edit" -> Goes(s, "edit") /\ Quiet
           [] click = "new" -> Goes(s, "new") /\ Quiet
           [] click = "back" -> Goes(s, "list") /\ Quiet
           [] click = "cancel" -> Goes(s, IF p.view = "edit" THEN "detail" ELSE "list") /\ Quiet
           [] OTHER -> Stays(s) /\ Quiet
      /\ UNCHANGED <<upkeep, post, draft, budget>>

Pass(s) == ReadRow(s) \/ ReadTags(s) \/ Act(s)

-----------------------------------------------------------------------------
(* The other processes.                                                    *)

(* submit_background_report() marks the case of a run, and                 *)
(* render_background_progress() opens it when the run is done: get_case()  *)
(* (one step here) and update_case() in one function.                      *)
UpkeepReads(c, to) ==
  /\ upkeep.pc = "idle" /\ c \in Live
  /\ Spend("runs")
  /\ upkeep' = [pc |-> "read", case |-> c, copy |-> [RowCase(records[c]) EXCEPT !.tags = TagsOf(c)], to |-> to]
  /\ touched' = touched \ {"upkeep"}
  /\ UNCHANGED <<bookRows, page, post, draft>>

UpkeepWrites ==
  LET u == upkeep IN
  /\ u.pc = "read"
  /\ upkeep' = [u EXCEPT !.pc = "idle"]
  /\ IF u.to = "open" /\ u.copy.status # "in_progress" THEN Quiet
     ELSE UpdateCase("upkeep", u.case, [u.copy EXCEPT !.status = u.to])
  /\ UNCHANGED <<page, post, draft, budget>>

(* POST /api/ui/cases.                                                     *)
CreateRecord ==
  /\ Spend("posts")
  /\ \E t \in Titles, g \in SUBSET Tags :
       CreateCase([title |-> t, status |-> "open", closed |-> FALSE, tags |-> g])
  /\ UNCHANGED <<page, upkeep, post, draft>>

(* POST /api/ui/cases/{id}/notes asks for the case, then inserts.          *)
PostNote(c) ==
  /\ post.pc = "idle" /\ c \in Live
  /\ Spend("posts")
  /\ post' = [pc |-> "found", case |-> c]
  /\ UNCHANGED <<bookRows, page, upkeep, draft, touched>>

InsertNote ==
  /\ post.pc = "found"
  /\ AddNote(post.case, "client")
  /\ post' = [post EXCEPT !.pc = "idle"]
  /\ UNCHANGED <<records, labels, vocabulary, retried, page, upkeep, draft, touched, budget>>

(* POST /agent/cases/{id}/drafts on the first case.  The same request is   *)
(* sent again when its answer is lost, with the same Idempotency-Key.      *)
SendDraft(q) ==
  /\ draft[q] = "unsent" /\ 1 \in Live
  /\ Spend("sends")
  /\ draft' = [draft EXCEPT ![q] = "scoped"]
  /\ UNCHANGED <<bookRows, page, upkeep, post, touched>>

(* Mutant: the key is looked up before the transaction, by all at once.    *)
AppendsUnchecked == TRUE

Appends == ~retried

AppendDraft(q) ==
  /\ draft[q] = "scoped"
  /\ draft' = [draft EXCEPT ![q] = "answered"]
  /\ IF Appends THEN AddNote(1, "agent") ELSE UNCHANGED <<notes, serial>>
  /\ retried' = TRUE
  /\ UNCHANGED <<records, labels, vocabulary, page, upkeep, post, touched, budget>>

BookNext ==
  \/ \E s \in Sessions : Press(s) \/ Type(s) \/ Filter(s) \/ Pass(s)
  \/ \E c \in Live, to \in {"open", "in_progress"} : UpkeepReads(c, to)
  \/ UpkeepWrites
  \/ CreateRecord
  \/ \E c \in Live : PostNote(c)
  \/ InsertNote
  \/ \E q \in Requests : SendDraft(q) \/ AppendDraft(q)
  \/ ClearAll
  \/ SweepOrphans

BookSpec == BookInit /\ [][BookNext]_bookVars

BookFairness == WF_bookVars(SweepOrphans)

-----------------------------------------------------------------------------
(* Properties.                                                             *)

BookTypeOK ==
  /\ \A c \in DOMAIN records : records[c].title \in Titles /\ records[c].status \in Statuses
  /\ \A l \in labels : l[1] \in DOMAIN records /\ l[2] \in Tags
  /\ \A n \in notes : n.case \in DOMAIN records /\ n.made <= serial
  /\ \A s \in Sessions : page[s].case \in DOMAIN records /\ page[s].pc \in {"shown", "begun", "row", "read"}
  /\ touched \subseteq Actors

(* A pass gets to its end.                                                 *)
Acted(s) == page[s].pc = "read" /\ page'[s].pc # "read"

(* What a click asks to change: what was edited, if it is "Save".          *)
Asked(p) ==
  CASE p.click \in {"close", "reopen"} -> {"status"}
    [] p.click = "save" -> p.edited
    [] OTHER -> {}

(* A pass of the Cases page during which nobody else wrote its case leaves *)
(* every field as it is that its click does not ask to change, whatever    *)
(* the form was opened with: update_case() writes them all.                *)
OnlyAskedChanges ==
  [][\A s \in Sessions :
       LET p == page[s] IN
       Acted(s) /\ OfCase(p) /\ s \notin touched /\ p.case \in Live \cap Live' =>
         /\ \A f \in {"title", "status"} \ Asked(p) : records'[p.case][f] = records[p.case][f]
         /\ "tags" \notin Asked(p) => TagsOf(p.case)' = TagsOf(p.case)]_bookVars

(* "Delete" below a note deletes that note or none, also if the note was   *)
(* deleted elsewhere and others were added since it was drawn.             *)
DeletesNoteMeant ==
  [][\A s \in Sessions :
       Acted(s) /\ page[s].click = "delnote" =>
         \A n \in notes \ notes' : n.made = page[s].note.made]_bookVars

(* The page deletes only cases its analyst was asked about, each one.      *)
DeletedWhenWarned ==
  [][\A s \in Sessions : \A c \in Live \ Live' :
       Acted(s) => c \in page[s].warned]_bookVars

(* A draft that an agent sends again, even while the first is under way,   *)
(* is one note.                                                            *)
DraftAppendedOnce == Cardinality({n \in notes : n.by = "agent"}) <= 1

(* The records refer to each other, and hold each draft of an agent once   *)
(* (repository.py, cases_tab.py).                                          *)
RecordsConsistent == BookTypeOK /\ DraftAppendedOnce

(* A click on the Cases page does to a case, its notes and its tags what   *)
(* the analyst meant when they clicked, whatever others did since the page *)
(* was drawn (cases_tab.py).                                               *)
CaseEditsMeant == OnlyAskedChanges /\ DeletesNoteMeant /\ DeletedWhenWarned

(* Tags and notes written for a case that was deleted meanwhile go.        *)
OrphansSwept ==
  LET Stray == (\E n \in notes : n.case \notin Live) \/ (\E l \in labels : l[1] \notin Live)
  IN  Stray ~> ~Stray

-----------------------------------------------------------------------------
(***************************************************************************)
(* The inductive invariant behind the properties above.                    *)
(***************************************************************************)
RecordRow == [live : BOOLEAN, title : Titles, status : Statuses, closed : BOOLEAN]
CaseCopy  == [title : Titles \cup {Blank}, status : Statuses, closed : BOOLEAN, tags : SUBSET Tags]
NoteRow   == [id : Nat, case : Nat, by : {"analyst", "client", "agent"}, made : Nat]
TypedForm == [title : Titles \cup {Blank, NoEdit}, status : Statuses \cup {NoEdit},
              tags : (SUBSET Tags) \cup {NoEdit}, new : Tags \cup {NoEdit}]
PageState ==
  [view : {"list", "detail", "edit", "new"}, case : Nat, pc : {"shown", "begun", "row", "read"},
   click : {"none", "new", "save", "cancel", "edit", "delete", "note", "delnote", "back", "reopen", "close"},
   note : NoteRow, fresh : CaseCopy, copy : CaseCopy, typed : TypedForm, offered : SUBSET Tags,
   seen : SUBSET NoteRow, filter : [status : Statuses \cup {"all"}, tags : SUBSET Tags], listed : SUBSET Nat,
   confirm : Nat, warned : SUBSET Nat, edited : SUBSET {"title", "status", "tags"}]

(* Rows refer to rows; an id of a note is not given twice.                 *)
NoteOK(n) == n \in NoteRow /\ n.made = n.id

BookRowsOK ==
  /\ records \in Seq(RecordRow) /\ records # <<>>
  /\ labels \subseteq (1..Len(records)) \X Tags /\ vocabulary \subseteq Tags
  /\ serial \in Nat
  /\ \A n \in notes : NoteOK(n) /\ n.case \in 1..Len(records) /\ n.made <= serial

(* There is a draft among the notes only if the key of its request is on   *)
(* file; both go with the case.                                            *)
DraftOnFile ==
  /\ retried \in BOOLEAN
  /\ \A n \in notes : n.by = "agent" => n.case = 1 /\ retried
  /\ \A m, n \in notes : m.by = "agent" /\ n.by = "agent" => m = n

(* What was not edited holds nothing; a case that will be deleted was      *)
(* asked about; there are `last` cases.                                    *)
PageOK(p, last) ==
  /\ p \in PageState
  /\ p.case \in 1..last /\ p.listed \subseteq 1..last
  /\ NoteOK(p.note) /\ \A n \in p.seen : NoteOK(n)
  /\ p.confirm \in p.warned \cup {0}
  /\ "title" \notin p.edited => p.typed.title = NoEdit
  /\ "status" \notin p.edited => p.typed.status = NoEdit
  /\ "tags" \notin p.edited => p.typed.tags = NoEdit /\ p.typed.new = NoEdit
  /\ p.click \in {"close", "reopen"} => OfCase(p)
  /\ OfCase(p) /\ p.pc = "row" => p.fresh.title \in Titles
  /\ OfCase(p) /\ p.pc = "read" => p.copy.title \in Titles

PagesOK == page \in [Sessions -> PageState] /\ \A s \in Sessions : PageOK(page[s], Len(records))

(* A pass that nobody has disturbed knows its case as it is.               *)
KnowsRow(case, row) == case.title = row.title /\ case.status = row.status

ReadIsCurrent ==
  \A s \in Sessions \ touched :
    LET p == page[s] IN
    OfCase(p) /\ p.case \in Live =>
      /\ p.pc = "row"  => KnowsRow(p.fresh, records[p.case])
      /\ p.pc = "read" => KnowsRow(p.copy, records[p.case]) /\ p.copy.tags = TagsOf(p.case)

UpkeepOK ==
  /\ upkeep \in [pc : {"idle", "read"}, case : Nat, copy : CaseCopy, to : {"open", "in_progress"}]
  /\ upkeep.pc = "read" => upkeep.case \in 1..Len(records) /\ upkeep.copy.title \in Titles
  /\ post \in [pc : {"idle", "found"}, case : Nat]
  /\ post.pc = "found" => post.case \in 1..Len(records)

BookInv == BookRowsOK /\ DraftOnFile /\ PagesOK /\ ReadIsCurrent /\ UpkeepOK /\ touched \subseteq Actors
=============================================================================
